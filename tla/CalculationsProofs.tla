-------------------------- MODULE CalculationsProofs --------------------------
(***************************************************************************)
(* What is computed on request, for every bound on its inputs.             *)
(*                                                                         *)
(* Induction is the absence of a smallest counterexample among the natural *)
(* numbers (Smallest, Inductive).  It gives what a sum is, element by      *)
(* element, that a finite set can be sorted, and what a loop written as a  *)
(* recursive function does.                                                *)
(*                                                                         *)
(* A fill is greedy (Greedy): the levels before the last one it touched    *)
(* are taken whole, and those behind it not at all.  Whatever another way  *)
(* to fill takes less before that level it takes more at it or behind it,  *)
(* where nothing is cheaper (Cheapest).                                    *)
(*                                                                         *)
(* A rebalance settles an exchange with every signal (Settling), so one of *)
(* its two lists ends; after the transfers the totals of that side are     *)
(* those of their targets and the next call has no pair left.              *)
(*                                                                         *)
(* A chart's query keeps rows by their rank (Ranks), and asks for one more *)
(* than it may return: that one tells of all that are lost.                *)
(*                                                                         *)
(* The list of events read page after page, for every page size, filter    *)
(* and number of insertions: an event of which no other of its start was   *)
(* shown is deeper in the list than the pages have got (Deeper), whatever  *)
(* order the database gives to events of one start.                        *)
(***************************************************************************)
EXTENDS Calculations, FiniteSetTheorems, SequenceTheorems, NaturalsInduction,
        WellFoundedInduction, TLAPS

-----------------------------------------------------------------------------
(* Induction. *)

(* A set of natural numbers has a least one. *)
LEMMA Smallest ==
  ASSUME NEW T \in SUBSET Nat, T # {}
  PROVE  \E n \in T : \A m \in T : n <= m
<1>1. \E x \in T : \A y \in T : ~(<<y, x>> \in OpToRel(<, Nat))
  BY WFMin, NatLessThanWellFounded
<1>2. \A x, y \in T : <<y, x>> \in OpToRel(<, Nat) <=> y < x
  BY DEF OpToRel
<1>3. PICK n \in T : \A m \in T : ~(m < n)
  BY <1>1, <1>2
<1>4. \A m \in T : n <= m
  BY <1>3
<1>5. QED
  BY <1>4

(* What holds of 0 and of every successor holds of every number. *)
LEMMA Inductive ==
  ASSUME NEW S, 0 \in S, \A n \in Nat : n \in S => n + 1 \in S
  PROVE  Nat \subseteq S
<1> SUFFICES ASSUME Nat \ S # {} PROVE FALSE
  OBVIOUS
<1>1. PICK n \in Nat \ S : \A m \in Nat \ S : n <= m
  BY Smallest
<1>2. n - 1 \in Nat /\ n - 1 \in S
  BY <1>1
<1>3. QED
  BY <1>1, <1>2

-----------------------------------------------------------------------------
(* Sums. *)

First(s) == CHOOSE x \in s : TRUE

(* The recursion by which a sum is defined, on the sets of D. *)
Adds(f, D, iter) ==
  iter = [s \in D |-> IF s = {} THEN 0 ELSE f[First(s)] + iter[s \ {First(s)}]]

(* A nonempty set without its chosen element has one element less. *)
LEMMA FirstLeft ==
  ASSUME NEW s, IsFiniteSet(s), s # {}
  PROVE  /\ First(s) \in s /\ IsFiniteSet(s \ {First(s)})
         /\ Cardinality(s \ {First(s)}) = Cardinality(s) - 1
<1>1. First(s) \in s
  BY DEF First
<1>2. QED
  BY <1>1, FS_RemoveElement

(* A sum is what the recursion that exists gives to its set. *)
LEMMA SumIs ==
  ASSUME NEW f, NEW S
  PROVE  SumOver(f, S) = (CHOOSE iter : Adds(f, SUBSET S, iter))[S]
BY Zenon DEF SumOver, MapThenSumSet, MapThenFoldSet, Adds, First

(* The recursion has a solution on the subsets of a finite set. *)
LEMMA AddsExists ==
  ASSUME NEW f, NEW S, IsFiniteSet(S)
  PROVE  \E iter : Adds(f, SUBSET S, iter)
<1> DEFINE D(n) == {s \in SUBSET S : Cardinality(s) <= n}
           Good == {n \in Nat : \E iter : Adds(f, D(n), iter)}
<1>1. \A s \in SUBSET S : IsFiniteSet(s) /\ Cardinality(s) \in Nat /\ Cardinality(s) <= Cardinality(S)
  BY FS_Subset, FS_CardinalityType
<1>2. 0 \in Good
  <2> DEFINE none == [s \in D(0) |-> 0]
  <2>1. \A s \in D(0) : s = {}
    BY <1>1, FS_EmptySet
  <2>2. Adds(f, D(0), none)
    BY <2>1, Zenon DEF Adds
  <2>3. QED
    BY <2>2
<1>3. ASSUME NEW n \in Nat, n \in Good PROVE n + 1 \in Good
  <2>1. PICK g : Adds(f, D(n), g)
    BY <1>3
  <2> DEFINE h == [s \in D(n + 1) |-> IF s = {} THEN 0 ELSE f[First(s)] + g[s \ {First(s)}]]
  <2>2. ASSUME NEW s \in D(n + 1), s # {} PROVE s \ {First(s)} \in D(n) /\ s \ {First(s)} \in D(n + 1)
    BY <1>1, <2>2, FirstLeft
  <2>3. ASSUME NEW s \in D(n), s \in D(n + 1) PROVE g[s] = h[s]
    BY <2>1, <2>3, Zenon DEF Adds
  <2> HIDE DEF D
  <2>4. h = [s \in D(n + 1) |-> IF s = {} THEN 0 ELSE f[First(s)] + h[s \ {First(s)}]]
    <3>1. ASSUME NEW s \in D(n + 1), s # {} PROVE g[s \ {First(s)}] = h[s \ {First(s)}]
      BY <2>2, <2>3, <3>1
    <3>2. ASSUME NEW s \in D(n + 1)
          PROVE  (IF s = {} THEN 0 ELSE f[First(s)] + g[s \ {First(s)}])
                   = (IF s = {} THEN 0 ELSE f[First(s)] + h[s \ {First(s)}])
      BY <3>1, Zenon
    <3> HIDE DEF h
    <3>3. [s \in D(n + 1) |-> IF s = {} THEN 0 ELSE f[First(s)] + g[s \ {First(s)}]]
            = [s \in D(n + 1) |-> IF s = {} THEN 0 ELSE f[First(s)] + h[s \ {First(s)}]]
      BY <3>2
    <3>4. QED
      BY <3>3, Zenon DEF h
  <2> HIDE DEF h
  <2>5. Adds(f, D(n + 1), h)
    BY <2>4, Zenon DEF Adds
  <2>6. QED
    BY <2>5
<1>4. Nat \subseteq Good
  <2> HIDE DEF Good
  <2>1. QED
    BY <1>2, <1>3, Inductive
<1>5. Cardinality(S) \in Good
  BY <1>4, FS_CardinalityType
<1>6. D(Cardinality(S)) = SUBSET S
  BY <1>1
<1>7. QED
  BY <1>5, <1>6

(* The recursion gives a set its sum, whichever larger set it is over. *)
LEMMA AddsAgree ==
  ASSUME NEW f, NEW S, NEW U \in SUBSET S, NEW g, NEW h, IsFiniteSet(S),
         Adds(f, SUBSET S, g), Adds(f, SUBSET U, h)
  PROVE  g[U] = h[U]
<1> DEFINE Good == {n \in Nat : \A s \in SUBSET U : Cardinality(s) = n => g[s] = h[s]}
<1>1. \A s \in SUBSET U : IsFiniteSet(s) /\ Cardinality(s) \in Nat /\ s \in SUBSET S
  BY FS_Subset, FS_CardinalityType
<1>2. \A s \in SUBSET U : /\ g[s] = (IF s = {} THEN 0 ELSE f[First(s)] + g[s \ {First(s)}])
                          /\ h[s] = (IF s = {} THEN 0 ELSE f[First(s)] + h[s \ {First(s)}])
  BY <1>1, Zenon DEF Adds
<1>3. 0 \in Good
  BY <1>1, <1>2, FS_EmptySet
<1>4. ASSUME NEW n \in Nat, n \in Good PROVE n + 1 \in Good
  <2> SUFFICES ASSUME NEW s \in SUBSET U, Cardinality(s) = n + 1 PROVE g[s] = h[s]
    OBVIOUS
  <2>0. Cardinality({}) = 0 /\ Cardinality(s) # 0
    BY FS_EmptySet
  <2>1. s # {}
    BY <2>0
  <2>2. s \ {First(s)} \in SUBSET U /\ Cardinality(s \ {First(s)}) = n
    BY <1>1, <2>1, FirstLeft
  <2>3. g[s \ {First(s)}] = h[s \ {First(s)}]
    BY <1>4, <2>2
  <2>4. QED
    BY <1>2, <2>1, <2>3, Zenon
<1>5. Nat \subseteq Good
  <2> HIDE DEF Good
  <2>1. QED
    BY <1>3, <1>4, Inductive
<1>6. QED
  BY <1>1, <1>5

(* Nothing adds up to 0. *)
LEMMA SumEmpty == ASSUME NEW f PROVE SumOver(f, {}) = 0
<1>1. PICK g : Adds(f, SUBSET {}, g)
  BY AddsExists, FS_EmptySet
<1>2. Adds(f, SUBSET {}, CHOOSE iter : Adds(f, SUBSET {}, iter))
  BY <1>1, Zenon
<1> DEFINE i == CHOOSE iter : Adds(f, SUBSET {}, iter)
<1> HIDE DEF i
<1>3. Adds(f, SUBSET {}, i)
  BY <1>2 DEF i
<1>4. i[{}] = 0
  BY <1>3, Zenon DEF Adds
<1>5. QED
  BY <1>4, SumIs DEF i

(* A sum is the chosen element and the sum of the others. *)
LEMMA SumFirst ==
  ASSUME NEW f, NEW S, IsFiniteSet(S), S # {}
  PROVE  SumOver(f, S) = f[First(S)] + SumOver(f, S \ {First(S)})
<1> DEFINE T == S \ {First(S)}
           g == CHOOSE iter : Adds(f, SUBSET S, iter)
           h == CHOOSE iter : Adds(f, SUBSET T, iter)
<1>1. IsFiniteSet(T) /\ T \in SUBSET S
  BY FirstLeft
<1>2. Adds(f, SUBSET S, g)
  BY AddsExists, Zenon
<1> HIDE DEF g, T
<1>3. Adds(f, SUBSET T, h)
  BY <1>1, AddsExists, Zenon
<1> HIDE DEF h
<1>4. g[T] = h[T]
  <2>1. ASSUME NEW u, NEW v, Adds(f, SUBSET S, u), Adds(f, SUBSET T, v) PROVE u[T] = v[T]
    BY <1>1, <2>1, AddsAgree
  <2>2. QED
    BY <1>2, <1>3, <2>1, Zenon
<1>5. g[S] = f[First(S)] + g[T]
  <2>1. S \in SUBSET S
    OBVIOUS
  <2>2. QED
    BY <1>2, <2>1, Zenon DEF Adds, T
<1>6. SumOver(f, S) = g[S] /\ SumOver(f, T) = h[T]
  BY SumIs, Zenon DEF g, h
<1>7. QED
  BY <1>4, <1>5, <1>6 DEF T

(* A finite sum of integers is an integer. *)
LEMMA SumType ==
  ASSUME NEW f, NEW S, IsFiniteSet(S), \A x \in S : f[x] \in Int
  PROVE  SumOver(f, S) \in Int
<1> DEFINE Good == {n \in Nat : \A s \in SUBSET S : Cardinality(s) = n => SumOver(f, s) \in Int}
<1>1. \A s \in SUBSET S : IsFiniteSet(s) /\ Cardinality(s) \in Nat
  BY FS_Subset, FS_CardinalityType
<1>2. 0 \in Good
  BY <1>1, SumEmpty, FS_EmptySet
<1>3. ASSUME NEW n \in Nat, n \in Good PROVE n + 1 \in Good
  <2> SUFFICES ASSUME NEW s \in SUBSET S, Cardinality(s) = n + 1 PROVE SumOver(f, s) \in Int
    OBVIOUS
  <2>1. s # {} /\ IsFiniteSet(s)
    BY <1>1, FS_EmptySet
  <2>2. First(s) \in S /\ s \ {First(s)} \in SUBSET S /\ Cardinality(s \ {First(s)}) = n
    <3>1. First(s) \in s /\ Cardinality(s \ {First(s)}) = Cardinality(s) - 1
      BY <2>1, FirstLeft
    <3>2. (n + 1) - 1 = n
      OBVIOUS
    <3>3. QED
      BY <3>1, <3>2
  <2>3. SumOver(f, s \ {First(s)}) \in Int
    BY <1>3, <2>2
  <2>4. SumOver(f, s) = f[First(s)] + SumOver(f, s \ {First(s)})
    BY <2>1, SumFirst
  <2>5. QED
    BY <2>2, <2>3, <2>4
<1>4. Nat \subseteq Good
  <2> HIDE DEF Good
  <2>1. QED
    BY <1>2, <1>3, Inductive
<1>5. QED
  BY <1>1, <1>4

(* A sum can be taken apart at any element. *)
LEMMA SumRemove ==
  ASSUME NEW f, NEW S, IsFiniteSet(S), \A x \in S : f[x] \in Int, NEW e \in S
  PROVE  SumOver(f, S) = f[e] + SumOver(f, S \ {e})
<1> DEFINE Good == {n \in Nat : \A s \in SUBSET S : Cardinality(s) = n =>
                       \A x \in s : SumOver(f, s) = f[x] + SumOver(f, s \ {x})}
<1>1. \A s \in SUBSET S : IsFiniteSet(s) /\ Cardinality(s) \in Nat
  BY FS_Subset, FS_CardinalityType
<1>2. 0 \in Good
  BY <1>1, FS_EmptySet
<1>3. ASSUME NEW n \in Nat, n \in Good PROVE n + 1 \in Good
  <2> SUFFICES ASSUME NEW s \in SUBSET S, Cardinality(s) = n + 1, NEW x \in s
               PROVE  SumOver(f, s) = f[x] + SumOver(f, s \ {x})
    OBVIOUS
  <2> DEFINE c == First(s)
  <2>1. IsFiniteSet(s)
    BY <1>1
  <2>2. c \in s /\ s \ {c} \in SUBSET S /\ Cardinality(s \ {c}) = n
    BY <2>1, FirstLeft
  <2>3. SumOver(f, s) = f[c] + SumOver(f, s \ {c})
    BY <2>1, SumFirst
  <2> HIDE DEF c
  <2>4. CASE x = c
    BY <2>3, <2>4
  <2>5. CASE x # c
    <3> DEFINE r == (s \ {c}) \ {x}
    <3>1. x \in s \ {c} /\ r \in SUBSET S /\ r = (s \ {x}) \ {c}
      BY <2>2, <2>5
    <3>2. SumOver(f, s \ {c}) = f[x] + SumOver(f, r)
      BY <1>3, <2>2, <3>1
    <3>3. s \ {x} \in SUBSET S /\ c \in s \ {x} /\ Cardinality(s \ {x}) = n
      BY <2>1, <2>2, <2>5, FS_RemoveElement
    <3>4. SumOver(f, s \ {x}) = f[c] + SumOver(f, r)
      BY <1>3, <3>1, <3>3
    <3> HIDE DEF r
    <3>5. f[c] \in Int /\ f[x] \in Int /\ SumOver(f, r) \in Int
      BY <1>1, <2>2, <3>1, SumType
    <3>6. QED
      BY <2>3, <3>2, <3>4, <3>5
  <2>6. QED
    BY <2>4, <2>5
<1>4. Nat \subseteq Good
  <2> HIDE DEF Good
  <2>1. QED
    BY <1>2, <1>3, Inductive
<1>5. QED
  BY <1>1, <1>4

Numbers(f, S) == IsFiniteSet(S) /\ \A x \in S : f[x] \in Int
AtLeast(h, g, c, f, S) == \A x \in S : h[x] >= g[x] + c * f[x]
Combines(h, g, c, f, S) == \A x \in S : h[x] = g[x] + c * f[x]

(* Sums compare as their terms do. *)
LEMMA SumCompare ==
  ASSUME NEW f, NEW g, NEW h, NEW S, NEW c \in Int,
         Numbers(f, S), Numbers(g, S), Numbers(h, S), AtLeast(h, g, c, f, S)
  PROVE  SumOver(h, S) >= SumOver(g, S) + c * SumOver(f, S)
<1> DEFINE Good == {n \in Nat : \A s \in SUBSET S : Cardinality(s) = n =>
                                  SumOver(h, s) >= SumOver(g, s) + c * SumOver(f, s)}
<1>1. /\ IsFiniteSet(S) /\ \A s \in SUBSET S : IsFiniteSet(s) /\ Cardinality(s) \in Nat
      /\ \A x \in S : f[x] \in Int /\ g[x] \in Int /\ h[x] \in Int
  BY FS_Subset, FS_CardinalityType DEF Numbers
<1>2. 0 \in Good
  <2> SUFFICES ASSUME NEW s \in SUBSET S, Cardinality(s) = 0
               PROVE  SumOver(h, s) >= SumOver(g, s) + c * SumOver(f, s)
    OBVIOUS
  <2>1. s = {}
    BY <1>1, FS_EmptySet
  <2>2. SumOver(h, s) = 0 /\ SumOver(g, s) = 0 /\ SumOver(f, s) = 0
    BY <2>1, SumEmpty
  <2>3. QED
    BY <2>2
<1>3. ASSUME NEW n \in Nat, n \in Good PROVE n + 1 \in Good
  <2> SUFFICES ASSUME NEW s \in SUBSET S, Cardinality(s) = n + 1
               PROVE  SumOver(h, s) >= SumOver(g, s) + c * SumOver(f, s)
    OBVIOUS
  <2>1. Cardinality({}) = 0 /\ IsFiniteSet(s)
    BY <1>1, FS_EmptySet
  <2>2. s # {}
    BY <2>1
  <2>3. PICK x \in s : TRUE
    BY <2>2
  <2> DEFINE r == s \ {x}
  <2>4. r \in SUBSET S /\ IsFiniteSet(r) /\ Cardinality(r) = n
    <3>1. IsFiniteSet(r) /\ Cardinality(r) = Cardinality(s) - 1
      BY <2>1, <2>3, FS_RemoveElement
    <3>2. QED
      BY <3>1
  <2>5. /\ SumOver(h, s) = h[x] + SumOver(h, r) /\ SumOver(g, s) = g[x] + SumOver(g, r)
        /\ SumOver(f, s) = f[x] + SumOver(f, r)
    BY <1>1, <2>1, <2>3, SumRemove
  <2> HIDE DEF r
  <2>6. SumOver(h, r) \in Int /\ SumOver(g, r) \in Int /\ SumOver(f, r) \in Int
    BY <1>1, <2>4, SumType
  <2>7. SumOver(h, r) >= SumOver(g, r) + c * SumOver(f, r)
    BY <1>3, <2>4
  <2>8. f[x] \in Int /\ g[x] \in Int /\ h[x] \in Int /\ h[x] >= g[x] + c * f[x]
    BY <1>1, <2>3 DEF AtLeast
  <2>9. c * (f[x] + SumOver(f, r)) = c * f[x] + c * SumOver(f, r)
    BY <2>6, <2>8
  <2>10. c * f[x] \in Int /\ c * SumOver(f, r) \in Int
    BY <2>6, <2>8
  <2>11. QED
    BY <2>5, <2>6, <2>7, <2>8, <2>9, <2>10
<1>4. Nat \subseteq Good
  <2> HIDE DEF Good
  <2>1. QED
    BY <1>2, <1>3, Inductive
<1>5. QED
  BY <1>1, <1>4

(* A sum is linear in its terms. *)
LEMMA SumCombines ==
  ASSUME NEW f, NEW g, NEW h, NEW S, NEW c \in Int,
         Numbers(f, S), Numbers(g, S), Combines(h, g, c, f, S)
  PROVE  SumOver(h, S) = SumOver(g, S) + c * SumOver(f, S)
<1>1. \A x \in S : /\ h[x] \in Int /\ h[x] >= g[x] + c * f[x]
                   /\ g[x] >= h[x] + (-c) * f[x]
  <2> SUFFICES ASSUME NEW x \in S
               PROVE  /\ h[x] \in Int /\ h[x] >= g[x] + c * f[x]
                      /\ g[x] >= h[x] + (-c) * f[x]
    OBVIOUS
  <2>1. f[x] \in Int /\ g[x] \in Int /\ h[x] = g[x] + c * f[x]
    BY DEF Numbers, Combines
  <2>2. c * f[x] \in Int /\ (-c) * f[x] = -(c * f[x])
    BY <2>1
  <2>3. QED
    BY <2>1, <2>2
<1>2. Numbers(h, S) /\ AtLeast(h, g, c, f, S) /\ AtLeast(g, h, -c, f, S) /\ -c \in Int
  BY <1>1 DEF Numbers, AtLeast
<1>3. SumOver(h, S) >= SumOver(g, S) + c * SumOver(f, S)
  BY <1>2, SumCompare
<1>4. SumOver(g, S) >= SumOver(h, S) + (-c) * SumOver(f, S)
  BY <1>2, SumCompare
<1>5. SumOver(h, S) \in Int /\ SumOver(g, S) \in Int /\ SumOver(f, S) \in Int
  BY <1>2, SumType DEF Numbers
<1>6. (-c) * SumOver(f, S) = -(c * SumOver(f, S)) /\ c * SumOver(f, S) \in Int
  BY <1>5
<1>7. QED
  BY <1>3, <1>4, <1>5, <1>6

(* Equal terms have equal sums. *)
LEMMA SumSame ==
  ASSUME NEW f, NEW g, NEW S, IsFiniteSet(S), \A x \in S : f[x] \in Int /\ g[x] = f[x]
  PROVE  SumOver(g, S) = SumOver(f, S)
<1>1. Numbers(f, S) /\ Combines(g, f, 0, f, S)
  BY DEF Numbers, Combines
<1>2. SumOver(g, S) = SumOver(f, S) + 0 * SumOver(f, S)
  BY <1>1, SumCombines
<1>3. QED
  BY <1>2, SumType

(* Zeros add up to 0. *)
LEMMA SumZero ==
  ASSUME NEW f, NEW S, IsFiniteSet(S), \A x \in S : f[x] = 0
  PROVE  SumOver(f, S) = 0
<1>1. Numbers(f, S) /\ Combines(f, f, 1, f, S)
  BY DEF Numbers, Combines
<1>2. SumOver(f, S) = SumOver(f, S) + 1 * SumOver(f, S)
  BY <1>1, SumCombines
<1>3. QED
  BY <1>1, <1>2, SumType DEF Numbers

SameBut(f, g, S, e) == \A x \in S \ {e} : f[x] = g[x]

(* One term of a sum changes. *)
LEMMA SumPut ==
  ASSUME NEW f, NEW g, NEW S, NEW e \in S, Numbers(f, S), Numbers(g, S), SameBut(f, g, S, e)
  PROVE  /\ SumOver(f, S) \in Int /\ SumOver(g, S) \in Int
         /\ SumOver(f, S) = SumOver(g, S) + (f[e] - g[e])
<1>1. /\ SumOver(f, S) = f[e] + SumOver(f, S \ {e})
      /\ SumOver(g, S) = g[e] + SumOver(g, S \ {e})
  BY SumRemove DEF Numbers
<1> DEFINE r == S \ {e}
<1>2. IsFiniteSet(r) /\ \A x \in r : g[x] \in Int /\ f[x] = g[x]
  BY FS_RemoveElement DEF Numbers, SameBut
<1> HIDE DEF r
<1>3. SumOver(f, r) = SumOver(g, r) /\ SumOver(g, r) \in Int
  BY <1>2, SumSame, SumType
<1>4. SumOver(f, S) \in Int /\ SumOver(g, S) \in Int
  BY SumType DEF Numbers
<1>5. f[e] \in Int /\ g[e] \in Int
  BY DEF Numbers
<1>6. QED
  BY <1>1, <1>3, <1>4, <1>5 DEF r

-----------------------------------------------------------------------------
(* Sorting. *)

(* R is a strict order of S. *)
Orders(R, S) ==
  /\ \A x, y \in S : x # y => <<x, y>> \in R \/ <<y, x>> \in R
  /\ \A x, y, z \in S : <<x, y>> \in R /\ <<y, z>> \in R => <<x, z>> \in R
  /\ \A x \in S : <<x, x>> \notin R

SortedBy(s, S, R) ==
  /\ s \in [1..Cardinality(S) -> S]
  /\ \A i, j \in 1..Cardinality(S) : i < j => <<s[i], s[j]>> \in R

(* A finite ordered set has a least element. *)
LEMMA LeastExists ==
  ASSUME NEW R, NEW S, IsFiniteSet(S), S # {}, Orders(R, S)
  PROVE  \E m \in S : \A x \in S \ {m} : <<m, x>> \in R
<1> DEFINE Good == {n \in Nat : \A U \in SUBSET S : Cardinality(U) = n /\ U # {} =>
                                  \E m \in U : \A x \in U \ {m} : <<m, x>> \in R}
<1>1. \A U \in SUBSET S : IsFiniteSet(U) /\ Cardinality(U) \in Nat
  BY FS_Subset, FS_CardinalityType
<1>2. 0 \in Good
  BY <1>1, FS_EmptySet
<1>3. ASSUME NEW n \in Nat, n \in Good PROVE n + 1 \in Good
  <2> SUFFICES ASSUME NEW U \in SUBSET S, Cardinality(U) = n + 1, U # {}
               PROVE  \E m \in U : \A x \in U \ {m} : <<m, x>> \in R
    OBVIOUS
  <2>1. PICK y \in U : TRUE
    OBVIOUS
  <2> DEFINE V == U \ {y}
  <2>2. V \in SUBSET S /\ Cardinality(V) = n
    <3>1. Cardinality(V) = Cardinality(U) - 1
      BY <1>1, <2>1, FS_RemoveElement
    <3>2. QED
      BY <3>1
  <2>3. CASE V = {}
    BY <2>1, <2>3
  <2>4. CASE V # {}
    <3>1. PICK m \in V : \A x \in V \ {m} : <<m, x>> \in R
      BY <1>3, <2>2, <2>4
    <3>2. CASE <<m, y>> \in R
      <4>1. \A x \in U \ {m} : <<m, x>> \in R
        BY <3>1, <3>2
      <4>2. QED
        BY <3>1, <4>1
    <3>3. CASE <<m, y>> \notin R
      <4>1. y \in S /\ m \in S /\ m # y /\ V \subseteq S
        BY <2>1, <3>1
      <4>2. <<y, m>> \in R
        BY <3>3, <4>1 DEF Orders
      <4>3. ASSUME NEW x \in U \ {y} PROVE <<y, x>> \in R
        <5>1. x \in S /\ (x = m \/ <<m, x>> \in R)
          BY <3>1
        <5>2. QED
          BY <4>1, <4>2, <5>1 DEF Orders
      <4>4. QED
        BY <2>1, <4>3
    <3>4. QED
      BY <3>2, <3>3
  <2>5. QED
    BY <2>3, <2>4
<1>4. Nat \subseteq Good
  <2> HIDE DEF Good
  <2>1. QED
    BY <1>2, <1>3, Inductive
<1>5. QED
  BY <1>1, <1>4

(* The least element, and then the others in order. *)
LEMMA SortedExists ==
  ASSUME NEW R, NEW S, IsFiniteSet(S), Orders(R, S)
  PROVE  \E s : SortedBy(s, S, R)
<1> DEFINE Good == {n \in Nat : \A U \in SUBSET S : Cardinality(U) = n => \E s : SortedBy(s, U, R)}
<1>1. \A U \in SUBSET S : IsFiniteSet(U) /\ Cardinality(U) \in Nat /\ Orders(R, U)
  <2>1. \A U \in SUBSET S : Orders(R, U)
    BY DEF Orders
  <2>2. QED
    BY <2>1, FS_Subset, FS_CardinalityType
<1>2. 0 \in Good
  <2> SUFFICES ASSUME NEW U \in SUBSET S, Cardinality(U) = 0 PROVE \E s : SortedBy(s, U, R)
    OBVIOUS
  <2>1. SortedBy([i \in 1..0 |-> 0], U, R)
    BY DEF SortedBy
  <2>2. QED
    BY <2>1
<1>3. ASSUME NEW n \in Nat, n \in Good PROVE n + 1 \in Good
  <2> SUFFICES ASSUME NEW U \in SUBSET S, Cardinality(U) = n + 1 PROVE \E s : SortedBy(s, U, R)
    OBVIOUS
  <2>1. Cardinality({}) = 0 /\ Cardinality(U) # 0
    BY FS_EmptySet
  <2>2. U # {}
    BY <2>1
  <2>3. PICK least \in U : \A x \in U \ {least} : <<least, x>> \in R
    BY <1>1, <2>2, LeastExists
  <2> DEFINE rest == U \ {least}
  <2>4. Cardinality(rest) = n /\ rest \in SUBSET S
    <3>1. Cardinality(rest) = Cardinality(U) - 1
      BY <1>1, <2>3, FS_RemoveElement
    <3>2. QED
      BY <3>1
  <2>5. PICK s : SortedBy(s, rest, R)
    BY <1>3, <2>4
  <2> DEFINE t == [i \in 1..(n + 1) |-> IF i = 1 THEN least ELSE s[i - 1]]
  <2>6. s \in [1..n -> rest] /\ \A i, j \in 1..n : i < j => <<s[i], s[j]>> \in R
    BY <2>4, <2>5 DEF SortedBy
  <2>7. \A i \in 1..(n + 1) : i = 1 \/ (i - 1 \in 1..n /\ s[i - 1] \in rest)
    BY <2>6
  <2>8. t \in [1..(n + 1) -> U]
    BY <2>7
  <2>9. ASSUME NEW i \in 1..(n + 1), NEW j \in 1..(n + 1), i < j PROVE <<t[i], t[j]>> \in R
    <3>1. j - 1 \in 1..n /\ t[j] = s[j - 1] /\ s[j - 1] \in rest
      BY <2>7, <2>9
    <3>2. CASE i = 1
      <4>1. t[i] = least
        BY <3>2
      <4>2. QED
        BY <2>3, <3>1, <4>1
    <3>3. CASE i # 1
      <4>1. i - 1 \in 1..n /\ i - 1 < j - 1 /\ t[i] = s[i - 1]
        BY <2>9, <3>3
      <4>2. QED
        BY <2>6, <3>1, <4>1
    <3>4. QED
      BY <3>2, <3>3
  <2> HIDE DEF t
  <2>10. SortedBy(t, U, R)
    BY <2>8, <2>9 DEF SortedBy
  <2>11. QED
    BY <2>10
<1>4. Nat \subseteq Good
  <2> HIDE DEF Good
  <2>1. QED
    BY <1>2, <1>3, Inductive
<1>5. QED
  BY <1>1, <1>4

(* A sorted sequence has every element of its set, and each of them once. *)
LEMMA SortedHasAll ==
  ASSUME NEW R, NEW S, NEW s, IsFiniteSet(S), Orders(R, S), SortedBy(s, S, R)
  PROVE  /\ \A i, j \in 1..Cardinality(S) : s[i] = s[j] => i = j
         /\ \A x \in S : \E i \in 1..Cardinality(S) : s[i] = x
<1>1. PICK n \in Nat : n = Cardinality(S)
  BY FS_CardinalityType
<1>2. s \in [1..n -> S] /\ \A i, j \in 1..n : i < j => <<s[i], s[j]>> \in R
  BY <1>1 DEF SortedBy
<1>3. ASSUME NEW i \in 1..n, NEW j \in 1..n, s[i] = s[j] PROVE i = j
  <2>1. <<s[i], s[j]>> \notin R /\ <<s[j], s[i]>> \notin R
    BY <1>2, <1>3 DEF Orders
  <2>2. ~(i < j) /\ ~(j < i)
    BY <1>2, <2>1
  <2>3. QED
    BY <2>2
<1>4. s \in Injection(1..n, S)
  BY <1>2, <1>3 DEF Injection, IsInjective
<1>5. Cardinality(1..n) = n
  BY FS_Interval
<1>6. s \in Surjection(1..n, S)
  BY <1>1, <1>4, <1>5, FS_Injection
<1>7. QED
  BY <1>1, <1>3, <1>6 DEF Surjection

(* Ascending lists every element of a finite set, in order. *)
LEMMA AscendingSorts ==
  ASSUME NEW S \in SUBSET Int, IsFiniteSet(S)
  PROVE  /\ Ascending(S) \in [1..Cardinality(S) -> S]
         /\ \A i, j \in 1..Cardinality(S) : i < j => Ascending(S)[i] < Ascending(S)[j]
         /\ \A x \in S : \E i \in 1..Cardinality(S) : Ascending(S)[i] = x
<1> DEFINE R == {p \in S \X S : p[1] < p[2]}
<1>1. \A x, y \in S : <<x, y>> \in R <=> x < y
  OBVIOUS
<1> HIDE DEF R
<1>2. Orders(R, S)
  BY <1>1 DEF Orders
<1>3. PICK t : SortedBy(t, S, R)
  BY <1>2, SortedExists
<1>4. \E s \in [1..Cardinality(S) -> S] : \A i, j \in DOMAIN s : i < j => s[i] < s[j]
  BY <1>1, <1>3 DEF SortedBy
<1> DEFINE s == Ascending(S)
<1>5. s \in [1..Cardinality(S) -> S] /\ \A i, j \in DOMAIN s : i < j => s[i] < s[j]
  BY <1>4 DEF Ascending
<1> HIDE DEF s
<1>6. s \in [1..Cardinality(S) -> S] /\ \A i, j \in 1..Cardinality(S) : i < j => s[i] < s[j]
  BY <1>5
<1>7. SortedBy(s, S, R)
  BY <1>1, <1>6 DEF SortedBy
<1>8. \A x \in S : \E i \in 1..Cardinality(S) : s[i] = x
  BY <1>2, <1>7, SortedHasAll
<1>9. QED
  BY <1>6, <1>8 DEF s

-----------------------------------------------------------------------------
(* Filling an order. *)

Levels == [price : Nat, quantity : Nat \ {0}]

(* All prices of a side, each once; the lowest or the highest first. *)
Enumerates(order, n, side) ==
  /\ order \in [1..n -> PricesOf(side)]
  /\ \A i, j \in 1..n : order[i] = order[j] => i = j
  /\ \A p \in PricesOf(side) : \E i \in 1..n : order[i] = p
Rising(order, n) == \A i, j \in 1..n : i < j => order[i] < order[j]
Falling(order, n) == \A i, j \in 1..n : i < j => order[i] > order[j]

(* The sides of a book are sorted each from its best price. *)
LEMMA SidesAreSorted ==
  ASSUME NEW P \in SUBSET Nat, IsFiniteSet(P), NEW side \in [P -> Nat]
  PROVE  \E n \in Nat : \E up, down :
           /\ AsksSorted(side) = LevelsAt(side, up) /\ BidsSorted(side) = LevelsAt(side, down)
           /\ Enumerates(up, n, side) /\ Rising(up, n)
           /\ Enumerates(down, n, side) /\ Falling(down, n)
<1>0. PICK n : n = Cardinality(PricesOf(side))
  OBVIOUS
<1> DEFINE prices == PricesOf(side)
           up == Ascending(prices)
           down == Descending(prices)
<1>1. prices \in SUBSET P /\ prices \in SUBSET Int
  <2>1. prices \subseteq P
    BY DEF PricesOf
  <2> HIDE DEF prices
  <2>2. QED
    BY <2>1
<1>2. IsFiniteSet(prices) /\ n \in Nat
  BY <1>0, <1>1, FS_Subset, FS_CardinalityType
<1> HIDE DEF prices
<1>3. /\ up \in [1..n -> prices] /\ \A i, j \in 1..n : i < j => up[i] < up[j]
      /\ \A p \in prices : \E i \in 1..n : up[i] = p
  BY <1>0, <1>1, <1>2, AscendingSorts DEF prices
<1>4. Len(up) = n /\ DOMAIN up = 1..n
  BY <1>2, <1>3
<1>5. down = [i \in 1..n |-> up[n + 1 - i]]
  BY <1>4 DEF Descending
<1>6. \A i \in 1..n : n + 1 - i \in 1..n
  BY <1>2
<1> HIDE DEF up, down
<1>7. down \in [1..n -> prices]
  BY <1>3, <1>5, <1>6
<1>8. ASSUME NEW i \in 1..n, NEW j \in 1..n, i < j PROVE down[i] > down[j]
  <2>1. n + 1 - i \in 1..n /\ n + 1 - j \in 1..n /\ n + 1 - j < n + 1 - i
    BY <1>2, <1>6, <1>8
  <2>2. up[n + 1 - j] < up[n + 1 - i] /\ up[n + 1 - j] \in Int /\ up[n + 1 - i] \in Int
    BY <1>1, <1>3, <2>1
  <2>3. QED
    BY <1>5, <2>2
<1>9. ASSUME NEW p \in prices PROVE \E i \in 1..n : down[i] = p
  <2>1. PICK i \in 1..n : up[i] = p
    BY <1>3
  <2>2. n + 1 - i \in 1..n /\ n + 1 - (n + 1 - i) = i
    BY <1>2
  <2>3. down[n + 1 - i] = p
    BY <1>5, <2>1, <2>2
  <2>4. QED
    BY <2>2, <2>3
<1>10. AsksSorted(side) = LevelsAt(side, up) /\ BidsSorted(side) = LevelsAt(side, down)
  BY DEF AsksSorted, BidsSorted, up, down, prices
<1>11. \A i \in 1..n : up[i] \in Int /\ down[i] \in Int
  BY <1>1, <1>3, <1>7
<1>12. ASSUME NEW i \in 1..n, NEW j \in 1..n, i # j PROVE up[i] # up[j] /\ down[i] # down[j]
  <2>1. i < j \/ j < i
    BY <1>2, <1>12
  <2>2. (i < j => up[i] < up[j] /\ down[i] > down[j]) /\ (j < i => up[j] < up[i] /\ down[j] > down[i])
    BY <1>3, <1>8
  <2>3. up[i] \in Int /\ up[j] \in Int /\ down[i] \in Int /\ down[j] \in Int
    BY <1>11
  <2>4. QED
    BY <2>1, <2>2, <2>3
<1>13. Enumerates(up, n, side) /\ Enumerates(down, n, side)
  BY <1>3, <1>7, <1>9, <1>12 DEF Enumerates, prices
<1>14. Rising(up, n) /\ Falling(down, n)
  BY <1>3, <1>8 DEF Rising, Falling
<1>15. QED
  BY <1>2, <1>10, <1>13, <1>14

(* What a side offers is offered at a price, and some of it. *)
Priced(side) == \A p \in PricesOf(side) : p \in Nat /\ side[p] \in Nat \ {0}

(* The levels of a side in any order of its prices. *)
LEMMA LevelsAreLevels ==
  ASSUME NEW side, Priced(side), NEW n \in Nat, NEW order, Enumerates(order, n, side)
  PROVE  /\ LevelsAt(side, order) \in Seq(Levels) /\ Len(LevelsAt(side, order)) = n
         /\ \A i \in 1..n :
              LevelsAt(side, order)[i] = [price |-> order[i], quantity |-> side[order[i]]]
<1>0. order \in [1..n -> PricesOf(side)]
  BY DEF Enumerates
<1>1. LevelsAt(side, order) = [i \in 1..n |-> [price |-> order[i], quantity |-> side[order[i]]]]
  BY <1>0 DEF LevelsAt
<1>3. \A i \in 1..n : [price |-> order[i], quantity |-> side[order[i]]] \in Levels
  BY <1>0 DEF Levels, Priced
<1>4. QED
  BY <1>1, <1>3

(* What is filled and what remains of an order add up to it. *)
Filling(target) ==
  {fill \in [remaining : Nat, filled : Nat, notional : Nat] :
     fill.remaining + fill.filled = target}

NoFill(target) == [remaining |-> target, filled |-> 0, notional |-> 0]

(* A level adds what it takes, which is something where there is a need. *)
LEMMA LevelFills ==
  ASSUME NEW target \in Nat, NEW fill \in Filling(target), NEW level \in Levels
  PROVE  /\ TakeLevel(fill, level) \in Filling(target)
         /\ target > 0 => TakeLevel(fill, level).filled > 0
<1>1. /\ fill.remaining \in Nat /\ fill.filled \in Nat /\ fill.notional \in Nat
      /\ fill.remaining + fill.filled = target
      /\ level.price \in Nat /\ level.quantity \in Nat \ {0}
  BY DEF Filling, Levels
<1>2. PICK take : take = Lesser(level.quantity, fill.remaining)
  OBVIOUS
<1>3. /\ take \in Nat /\ take <= fill.remaining
      /\ fill.remaining > 0 => take > 0
  BY <1>1, <1>2 DEF Lesser
<1>4. take * level.price \in Nat
  BY <1>1, <1>3
<1>5. TakeLevel(fill, level) =
        [remaining |-> fill.remaining - take, filled |-> fill.filled + take,
         notional |-> fill.notional + take * level.price]
  BY <1>2 DEF TakeLevel
<1>6. QED
  BY <1>1, <1>3, <1>4, <1>5 DEF Filling

(* The loop of compute_vwap() over any levels, step by step. *)
LEMMA FillSteps ==
  ASSUME NEW levels \in Seq(Levels), NEW target \in Nat
  PROVE  \E fill : /\ ComputeVwap(levels, target) = fill[Len(levels)]
                   /\ fill[0] = NoFill(target)
                   /\ \A i \in 1..Len(levels) : fill[i] = TakeLevel(fill[i - 1], levels[i])
<1>1. PICK n, fill : n = Len(levels) /\ fill = FillAfter(levels, target) /\ n \in Nat
  OBVIOUS
<1> DEFINE Level(g, i) == IF i = 0 THEN NoFill(target) ELSE TakeLevel(g[i - 1], levels[i])
           Loop(m, g) == g = [i \in 0..m |-> Level(g, i)]
           Lengths == {m \in Nat : m <= n => \E g : Loop(m, g)}
<1>2. 0 \in Lengths
  <2>1. Loop(0, [i \in 0..0 |-> NoFill(target)])
    OBVIOUS
  <2>2. QED
    BY <2>1
<1>3. ASSUME NEW m \in Nat, m \in Lengths PROVE m + 1 \in Lengths
  <2>1. SUFFICES ASSUME m + 1 <= n PROVE \E g : Loop(m + 1, g)
    BY <1>1
  <2>2. PICK g : Loop(m, g)
    BY <1>1, <1>3, <2>1
  <2> DEFINE h == [i \in 0..(m + 1) |-> IF i = m + 1 THEN TakeLevel(g[m], levels[m + 1]) ELSE g[i]]
  <2>3. \A i \in 0..m : g[i] = Level(g, i)
    BY <2>2
  <2>4. h[m + 1] = TakeLevel(g[m], levels[m + 1]) /\ \A i \in 0..m : h[i] = g[i]
    OBVIOUS
  <2>5. DOMAIN h = 0..(m + 1) /\ h = [i \in 0..(m + 1) |-> h[i]]
    OBVIOUS
  <2> HIDE DEF h
  <2>6. \A i \in 0..(m + 1) : i = m + 1 \/ i = 0 \/ (i \in 0..m /\ i - 1 \in 0..m)
    OBVIOUS
  <2>7. m + 1 # 0 /\ (m + 1) - 1 = m /\ m \in 0..m /\ 0 \in 0..m
    OBVIOUS
  <2>8. \A i \in 0..(m + 1) : h[i] = Level(h, i)
    BY <2>3, <2>4, <2>6, <2>7
  <2>9. Loop(m + 1, h)
    BY <2>5, <2>8
  <2>10. QED
    BY <2>9
<1>4. Nat \subseteq Lengths
  BY <1>2, <1>3, Inductive
<1>5. \E g : Loop(n, g)
  BY <1>1, <1>4
<1>6. fill = CHOOSE g : Loop(n, g)
  BY <1>1 DEF FillAfter, NoFill
<1>7. Loop(n, fill)
  BY <1>5, <1>6
<1>8. 0 \in 0..n /\ \A i \in 1..n : i \in 0..n /\ i # 0
  BY <1>1
<1>9. \A i \in 0..n : fill[i] = Level(fill, i)
  BY <1>7
<1>10. QED
  BY <1>1, <1>8, <1>9 DEF ComputeVwap

(* A fill takes something from a book that has levels. *)
LEMMA FillOfLevels ==
  ASSUME NEW levels \in Seq(Levels), NEW target \in Nat \ {0}
  PROVE  /\ ComputeVwap(levels, target) \in Filling(target)
         /\ levels # <<>> => ComputeVwap(levels, target).filled > 0
<1>1. PICK n : n \in Nat /\ n = Len(levels)
  OBVIOUS
<1>2. PICK fill : /\ ComputeVwap(levels, target) = fill[n]
                  /\ fill[0] = NoFill(target)
                  /\ \A i \in 1..n : fill[i] = TakeLevel(fill[i - 1], levels[i])
  BY <1>1, FillSteps
<1> DEFINE Good == {i \in Nat : i <= n => /\ fill[i] \in Filling(target)
                                          /\ i > 0 => fill[i].filled > 0}
<1>3. 0 \in Good
  BY <1>2 DEF Filling, NoFill
<1>4. ASSUME NEW i \in Nat, i \in Good PROVE i + 1 \in Good
  <2>1. SUFFICES ASSUME i + 1 <= n
                 PROVE  fill[i + 1] \in Filling(target) /\ fill[i + 1].filled > 0
    OBVIOUS
  <2>2. i + 1 \in 1..n /\ (i + 1) - 1 = i /\ i <= n
    BY <1>1, <2>1
  <2>3. fill[i] \in Filling(target) /\ levels[i + 1] \in Levels
    BY <1>1, <1>4, <2>2
  <2>4. fill[i + 1] = TakeLevel(fill[i], levels[i + 1])
    BY <1>2, <2>2
  <2>5. QED
    BY <2>3, <2>4, LevelFills
<1>5. Nat \subseteq Good
  BY <1>3, <1>4, Inductive
<1>6. fill[n] \in Filling(target) /\ (n > 0 => fill[n].filled > 0)
  BY <1>1, <1>5
<1>7. levels # <<>> => n > 0
  BY <1>1
<1>8. QED
  BY <1>2, <1>6, <1>7


(* What a fill has taken from the first k levels of a side: g by price.    *)
(* All levels before the m-th are taken whole, and none after it.          *)
Greedy(g, m, k, fill, side, order, target) ==
  /\ g \in [1..MaxPrice -> Nat] /\ \A p \in 1..MaxPrice : g[p] <= side[p]
  /\ m \in 0..k /\ (m = 0 => k = 0 /\ fill.remaining > 0)
  /\ \A p \in 1..MaxPrice : (\A i \in 1..k : order[i] # p) => g[p] = 0
  /\ \A i \in 1..k : /\ i < m => g[order[i]] = side[order[i]]
                     /\ i > m => g[order[i]] = 0
                     /\ fill.remaining > 0 => g[order[i]] = side[order[i]]
  /\ fill \in Filling(target) /\ fill.filled = Total(g) /\ fill.notional = Cost(g)

Sides == [1..MaxPrice -> Nat]

(* Putting one more unit count into g adds to its total and to its cost.   *)
LEMMA SidesEqual ==
  ASSUME NEW g \in Sides, NEW h \in Sides, \A p \in 1..MaxPrice : g[p] = h[p]
  PROVE  g = h
<1>1. g = [p \in 1..MaxPrice |-> g[p]] /\ h = [p \in 1..MaxPrice |-> h[p]]
  BY DEF Sides
<1>2. [p \in 1..MaxPrice |-> g[p]] = [p \in 1..MaxPrice |-> h[p]]
  OBVIOUS
<1>3. QED
  BY <1>1, <1>2, Zenon

Costs(g) == [p \in 1..MaxPrice |-> g[p] * p]

(* The quantities and the costs of a side can be summed. *)
LEMMA SidesAreNumbers ==
  ASSUME NEW g \in Sides
  PROVE  Numbers(g, 1..MaxPrice) /\ Numbers(Costs(g), 1..MaxPrice)
<1>1. MaxPrice \in Int /\ 1 \in Int
  BY BoundsAssumption
<1>2. IsFiniteSet(1..MaxPrice)
  BY <1>1, FS_Interval
<1>3. ASSUME NEW p \in 1..MaxPrice PROVE g[p] \in Int /\ Costs(g)[p] \in Int
  <2>1. g[p] \in Int /\ p \in Int
    BY DEF Sides
  <2>2. g[p] * p \in Int
    BY <2>1
  <2>3. QED
    BY <2>1, <2>2 DEF Costs
<1>4. QED
  BY <1>2, <1>3 DEF Numbers

(* More of one price: so much more quantity, and its cost. *)
LEMMA TakeMore ==
  ASSUME NEW g \in Sides, NEW h \in Sides, NEW q \in 1..MaxPrice, SameBut(h, g, 1..MaxPrice, q)
  PROVE  Total(h) = Total(g) + (h[q] - g[q]) /\ Cost(h) = Cost(g) + (h[q] - g[q]) * q
<1>1. PICK S : S = 1..MaxPrice
  OBVIOUS
<1>2. Numbers(g, S) /\ Numbers(Costs(g), S) /\ Numbers(h, S) /\ Numbers(Costs(h), S)
  BY <1>1, SidesAreNumbers
<1>3. q \in S /\ SameBut(h, g, S, q) /\ SameBut(Costs(h), Costs(g), S, q)
  BY <1>1 DEF SameBut, Costs
<1>4. SumOver(h, S) = SumOver(g, S) + (h[q] - g[q])
  BY <1>2, <1>3, SumPut
<1>5. /\ SumOver(Costs(g), S) \in Int
      /\ SumOver(Costs(h), S) = SumOver(Costs(g), S) + (Costs(h)[q] - Costs(g)[q])
  BY <1>2, <1>3, SumPut
<1>6. h[q] * q - g[q] * q = (h[q] - g[q]) * q
  <2>1. h[q] \in Int /\ g[q] \in Int /\ q \in Int
    BY DEF Sides
  <2>2. QED
    BY <2>1
<1>7. Costs(h)[q] = h[q] * q /\ Costs(g)[q] = g[q] * q
  BY DEF Costs
<1>8. Total(h) = SumOver(h, S) /\ Total(g) = SumOver(g, S)
  BY <1>1 DEF Total
<1>9. Cost(h) = SumOver(Costs(h), S) /\ Cost(g) = SumOver(Costs(g), S)
  BY <1>1 DEF Cost, Costs
<1>10. QED
  BY <1>4, <1>5, <1>6, <1>7, <1>8, <1>9

(* The quantity and the cost of a side are integers, and 0 of nothing. *)
LEMMA SideTotals ==
  ASSUME NEW g \in Sides
  PROVE  /\ Total(g) \in Int /\ Cost(g) \in Int
         /\ (\A p \in 1..MaxPrice : g[p] = 0) => Total(g) = 0 /\ Cost(g) = 0
<1>1. Numbers(g, 1..MaxPrice) /\ Numbers(Costs(g), 1..MaxPrice)
  BY SidesAreNumbers
<1>2. SumOver(g, 1..MaxPrice) \in Int /\ SumOver(Costs(g), 1..MaxPrice) \in Int
  BY <1>1, SumType DEF Numbers
<1>3. ASSUME \A p \in 1..MaxPrice : g[p] = 0
      PROVE  SumOver(g, 1..MaxPrice) = 0 /\ SumOver(Costs(g), 1..MaxPrice) = 0
  <2>1. \A p \in 1..MaxPrice : Costs(g)[p] = 0
    BY <1>3 DEF Costs
  <2>2. QED
    BY <1>1, <1>3, <2>1, SumZero DEF Numbers
<1>4. QED
  BY <1>2, <1>3 DEF Total, Cost, Costs

(* A step of the loop takes as much as it can from the next level. *)
LEMMA GreedyStep ==
  ASSUME NEW side \in Sides, NEW n \in Nat, NEW order, Enumerates(order, n, side),
         NEW target \in Nat, NEW k \in Nat, k < n, NEW fill, NEW g, NEW m, NEW level \in Levels,
         level.price = order[k + 1], level.quantity = side[order[k + 1]],
         Greedy(g, m, k, fill, side, order, target)
  PROVE  \E h, l : Greedy(h, l, k + 1, TakeLevel(fill, level), side, order, target)
<1> DEFINE q == order[k + 1]
           take == Lesser(level.quantity, fill.remaining)
           next == TakeLevel(fill, level)
           h == [g EXCEPT ![q] = take]
           l == IF fill.remaining > 0 THEN k + 1 ELSE m
<1>0. order \in [1..n -> PricesOf(side)] /\ \A i, j \in 1..n : order[i] = order[j] => i = j
  BY DEF Enumerates
<1>1. k + 1 \in 1..n /\ q \in 1..MaxPrice /\ side[q] \in Nat
  BY <1>0 DEF PricesOf, Sides
<1>2. g \in Sides /\ fill \in Filling(target) /\ m \in 0..k /\ (m = 0 => fill.remaining > 0)
  BY DEF Greedy, Sides
<1>3. \A i \in 1..k : order[i] # q
  <2> SUFFICES ASSUME NEW i \in 1..k, order[i] = q PROVE FALSE
    OBVIOUS
  <2>1. i \in 1..n /\ i = k + 1
    BY <1>0, <1>1
  <2>2. QED
    BY <2>1
<1>4. g[q] = 0
  BY <1>1, <1>3 DEF Greedy
<1>5. fill.remaining \in Nat /\ fill.filled \in Nat /\ fill.notional \in Nat
  BY <1>2 DEF Filling
<1>6. take \in Nat /\ take <= side[q] /\ take <= fill.remaining
  BY <1>1, <1>5 DEF Lesser
<1>7. next \in Filling(target)
  BY <1>2, LevelFills
<1>8. /\ next.remaining = fill.remaining - take /\ next.filled = fill.filled + take
      /\ next.notional = fill.notional + take * q
  BY DEF TakeLevel
<1>9. next.remaining > 0 => take = side[q] /\ fill.remaining > 0
  BY <1>1, <1>5, <1>6, <1>8 DEF Lesser
<1>10. fill.remaining = 0 => take = 0
  BY <1>5, <1>6
<1> HIDE DEF q, take, next
<1>11. h \in Sides /\ h[q] = take /\ \A p \in (1..MaxPrice) \ {q} : h[p] = g[p]
  BY <1>1, <1>2, <1>6 DEF Sides
<1> HIDE DEF h
<1>12. Total(h) = Total(g) + take /\ Cost(h) = Cost(g) + take * q
  <2>1. h[q] - g[q] = take
    BY <1>4, <1>6, <1>11
  <2>2. SameBut(h, g, 1..MaxPrice, q)
    BY <1>11 DEF SameBut
  <2>3. QED
    BY <1>1, <1>2, <1>11, <2>1, <2>2, TakeMore
<1>13. next.filled = Total(h) /\ next.notional = Cost(h)
  BY <1>8, <1>12 DEF Greedy
<1>14. \A p \in 1..MaxPrice : h[p] <= side[p]
  BY <1>1, <1>6, <1>11 DEF Greedy
<1>15. \A i \in 1..(k + 1) : i = k + 1 \/ i \in 1..k
  OBVIOUS
<1>16. ASSUME NEW p \in 1..MaxPrice, \A i \in 1..(k + 1) : order[i] # p PROVE h[p] = 0
  <2>1. p # q /\ \A i \in 1..k : order[i] # p
    BY <1>16 DEF q
  <2>2. QED
    BY <1>11, <2>1 DEF Greedy
<1>17. l \in 0..(k + 1) /\ l > 0
  <2>1. m \in Nat /\ m <= k /\ (m = 0 => fill.remaining > 0)
    BY <1>2
  <2>2. QED
    BY <2>1
<1>18. ASSUME NEW i \in 1..(k + 1)
       PROVE  /\ i < l => h[order[i]] = side[order[i]]
              /\ i > l => h[order[i]] = 0
              /\ next.remaining > 0 => h[order[i]] = side[order[i]]
  <2>1. CASE i = k + 1
    <3>1. h[order[i]] = take /\ order[i] = q
      BY <1>11, <2>1 DEF q
    <3>2. ~(i < l) /\ (i > l => take = 0)
      BY <1>2, <1>5, <1>10, <2>1
    <3>3. QED
      BY <1>9, <3>1, <3>2
  <2>2. CASE i # k + 1
    <3>1. i \in 1..k /\ i \in 1..n
      BY <2>2
    <3>2. order[i] \in 1..MaxPrice /\ order[i] # q
      BY <1>0, <1>3, <3>1 DEF PricesOf, Sides
    <3>3. h[order[i]] = g[order[i]]
      BY <1>11, <3>2
    <3>4. CASE fill.remaining > 0
      <4>1. g[order[i]] = side[order[i]] /\ ~(i > l)
        BY <3>1, <3>4 DEF Greedy
      <4>2. QED
        BY <3>3, <4>1
    <3>5. CASE ~(fill.remaining > 0)
      <4>1. l = m /\ ~(next.remaining > 0)
        BY <1>9, <3>5
      <4>2. QED
        BY <3>1, <3>3, <4>1 DEF Greedy
    <3>6. QED
      BY <3>4, <3>5
  <2>3. QED
    BY <2>1, <2>2
<1> HIDE DEF l
<1>19. Greedy(h, l, k + 1, next, side, order, target)
  BY <1>7, <1>11, <1>13, <1>14, <1>16, <1>17, <1>18 DEF Greedy, Sides
<1>20. QED
  BY <1>19 DEF next

(* compute_vwap() is greedy to its end. *)
LEMMA LoopIsGreedy ==
  ASSUME NEW side \in Sides, NEW n \in Nat, NEW order, Enumerates(order, n, side),
         NEW target \in Nat \ {0}
  PROVE  \E g, m : Greedy(g, m, n, ComputeVwap(LevelsAt(side, order), target), side, order, target)
<1>1. /\ LevelsAt(side, order) \in Seq(Levels) /\ Len(LevelsAt(side, order)) = n
      /\ \A i \in 1..n :
           LevelsAt(side, order)[i] = [price |-> order[i], quantity |-> side[order[i]]]
  <2>1. Priced(side)
    BY DEF Priced, PricesOf, Sides
  <2>2. QED
    BY <2>1, LevelsAreLevels
<1> DEFINE levels == LevelsAt(side, order)
<1>2. \A i \in 1..n : /\ levels[i] \in Levels /\ levels[i].price = order[i]
                      /\ levels[i].quantity = side[order[i]]
  <2>1. levels \in Seq(Levels) /\ Len(levels) = n
    BY <1>1
  <2>2. \A i \in 1..n : levels[i] = [price |-> order[i], quantity |-> side[order[i]]]
    BY <1>1
  <2> HIDE DEF levels
  <2>3. \A i \in 1..n : levels[i] \in Levels
    BY <2>1
  <2>4. ASSUME NEW i \in 1..n PROVE levels[i].price = order[i] /\ levels[i].quantity = side[order[i]]
    <3>1. levels[i] = [price |-> order[i], quantity |-> side[order[i]]]
      BY <2>2
    <3>2. QED
      BY ONLY <3>1
  <2>5. QED
    BY <2>3, <2>4
<1>3. PICK fill : /\ ComputeVwap(levels, target) = fill[n] /\ fill[0] = NoFill(target)
                  /\ \A i \in 1..n : fill[i] = TakeLevel(fill[i - 1], levels[i])
  <2>1. levels \in Seq(Levels) /\ Len(levels) = n
    BY <1>1
  <2> HIDE DEF levels
  <2>2. PICK fill : /\ ComputeVwap(levels, target) = fill[Len(levels)]
                    /\ fill[0] = NoFill(target)
                    /\ \A i \in 1..Len(levels) : fill[i] = TakeLevel(fill[i - 1], levels[i])
    <3>1. target \in Nat
      OBVIOUS
    <3>2. QED
      BY <2>1, <3>1, FillSteps
  <2>3. QED
    BY <2>1, <2>2
<1> HIDE DEF levels
<1> DEFINE Good == {k \in Nat : k <= n => \E g, m : Greedy(g, m, k, fill[k], side, order, target)}
<1>4. 0 \in Good
  <2> DEFINE none == [p \in 1..MaxPrice |-> 0]
  <2>1. none \in Sides /\ \A p \in 1..MaxPrice : none[p] = 0
    BY DEF Sides
  <2>2. Total(none) = 0 /\ Cost(none) = 0
    <3> HIDE DEF none
    <3>1. QED
      BY <2>1, SideTotals
  <2>3. fill[0].remaining = target /\ fill[0].filled = 0 /\ fill[0].notional = 0
    BY <1>3 DEF NoFill
  <2>4. fill[0] \in Filling(target)
    BY <1>3 DEF NoFill, Filling
  <2>5. \A p \in 1..MaxPrice : none[p] <= side[p]
    BY <2>1 DEF Sides
  <2> HIDE DEF none
  <2>6. Greedy(none, 0, 0, fill[0], side, order, target)
    BY <2>1, <2>2, <2>3, <2>4, <2>5 DEF Greedy, Sides
  <2>7. QED
    BY <2>6
<1>5. ASSUME NEW k \in Nat, k \in Good PROVE k + 1 \in Good
  <2> SUFFICES ASSUME k + 1 <= n
               PROVE  \E g, m : Greedy(g, m, k + 1, fill[k + 1], side, order, target)
    OBVIOUS
  <2>1. k < n /\ k + 1 \in 1..n /\ (k + 1) - 1 = k
    OBVIOUS
  <2>2. PICK g, m : Greedy(g, m, k, fill[k], side, order, target)
    BY <1>5, <2>1
  <2>3. fill[k + 1] = TakeLevel(fill[k], levels[k + 1])
    BY <1>3, <2>1
  <2>4. \E h, l : Greedy(h, l, k + 1, TakeLevel(fill[k], levels[k + 1]), side, order, target)
    BY <1>2, <2>1, <2>2, GreedyStep
  <2>5. QED
    BY <2>3, <2>4
<1>6. Nat \subseteq Good
  <2> HIDE DEF Good
  <2>1. QED
    BY <1>4, <1>5, Inductive
<1>7. \E g, m : Greedy(g, m, n, fill[n], side, order, target)
  BY <1>6
<1>8. QED
  BY <1>3, <1>7 DEF levels

(* A fill takes as much as there is of what was asked for, and is one of   *)
(* the ways to do so.                                                      *)
LEMMA GreedyFills ==
  ASSUME NEW side \in Takes, NEW n \in Nat, NEW order, Enumerates(order, n, side),
         NEW target \in Nat, NEW fill, NEW g, NEW m, Greedy(g, m, n, fill, side, order, target)
  PROVE  /\ fill.filled = Lesser(target, Total(side)) /\ fill.remaining = target - fill.filled
         /\ fill.filled \in Nat /\ fill.notional \in Int
         /\ g \in Sides /\ g \in Fills(side, target) /\ Total(g) = fill.filled
<1>1. side \in Sides /\ g \in Sides /\ g \in Takes
  <2>1. side \in Sides
    BY BoundsAssumption DEF Takes, Sides
  <2>2. g \in Sides /\ \A p \in 1..MaxPrice : g[p] <= side[p]
    BY DEF Greedy, Sides
  <2>3. \A p \in 1..MaxPrice : g[p] \in 0..MaxQuantity
    <3> SUFFICES ASSUME NEW p \in 1..MaxPrice PROVE g[p] \in 0..MaxQuantity
      OBVIOUS
    <3>1. g[p] \in Nat /\ side[p] \in 0..MaxQuantity /\ g[p] <= side[p] /\ MaxQuantity \in Nat
      BY <2>2, BoundsAssumption DEF Sides, Takes
    <3>2. QED
      BY <3>1
  <2>4. QED
    BY <2>1, <2>2, <2>3 DEF Takes, Sides
<1>2. Numbers(g, 1..MaxPrice) /\ Numbers(side, 1..MaxPrice)
  BY <1>1, SidesAreNumbers
<1>3. Total(g) \in Int /\ Total(side) \in Int
  BY <1>1, SideTotals
<1>4. /\ fill.remaining \in Nat /\ fill.filled \in Nat /\ fill.notional \in Nat
      /\ fill.remaining + fill.filled = target /\ fill.filled = Total(g)
  BY DEF Greedy, Filling
<1>5. Total(g) <= Total(side)
  <2>1. AtLeast(side, g, 0, g, 1..MaxPrice)
    BY <1>2 DEF Greedy, Numbers, AtLeast
  <2>2. SumOver(side, 1..MaxPrice) >= SumOver(g, 1..MaxPrice) + 0 * SumOver(g, 1..MaxPrice)
    BY <1>2, <2>1, SumCompare
  <2>3. QED
    BY <1>3, <2>2 DEF Total
<1>6. CASE fill.remaining = 0
  BY <1>1, <1>3, <1>4, <1>5, <1>6 DEF Fills, Lesser, Greedy
<1>7. CASE fill.remaining > 0
  <2>1. ASSUME NEW p \in 1..MaxPrice PROVE g[p] = side[p]
    <3>1. CASE p \in PricesOf(side)
      BY <1>7, <3>1 DEF Greedy, Enumerates
    <3>2. CASE p \notin PricesOf(side)
      <4>1. side[p] \in Nat /\ ~(side[p] > 0) /\ g[p] \in Nat /\ g[p] <= side[p]
        BY <1>1, <3>2 DEF PricesOf, Sides, Greedy
      <4>2. QED
        BY <4>1
    <3>3. QED
      BY <3>1, <3>2
  <2>2. g = side
    BY <1>1, <2>1, SidesEqual
  <2>3. QED
    BY <1>1, <1>3, <1>4, <1>7, <2>2 DEF Fills, Lesser, Greedy
<1>8. QED
  BY <1>4, <1>6, <1>7

(* No way to buy costs less than taking the cheapest first: a unit that is *)
(* taken elsewhere is one above the pivot q in place of one below it.      *)
LEMMA Cheapest ==
  ASSUME NEW side \in Takes, NEW g \in Sides, NEW take \in Sides, NEW q \in Int,
         Total(take) = Total(g),
         \A p \in 1..MaxPrice : (take[p] - g[p]) * (p - q) >= 0
  PROVE  Cost(take) >= Cost(g)
<1> DEFINE more == [p \in 1..MaxPrice |-> take[p] - g[p]]
<1>1. /\ Numbers(g, 1..MaxPrice) /\ Numbers(Costs(g), 1..MaxPrice)
      /\ Numbers(take, 1..MaxPrice) /\ Numbers(Costs(take), 1..MaxPrice)
  BY SidesAreNumbers
<1>2. Numbers(more, 1..MaxPrice) /\ Combines(more, take, -1, g, 1..MaxPrice)
  BY <1>1 DEF Numbers, Combines
<1>3. \A p \in 1..MaxPrice : more[p] = take[p] - g[p]
  OBVIOUS
<1> HIDE DEF more
<1>4. SumOver(more, 1..MaxPrice) = 0
  <2>1. SumOver(more, 1..MaxPrice) = SumOver(take, 1..MaxPrice) + (-1) * SumOver(g, 1..MaxPrice)
    BY <1>1, <1>2, SumCombines
  <2>2. Total(g) \in Int
    BY SideTotals
  <2>3. QED
    BY <2>1, <2>2 DEF Total
<1>5. AtLeast(Costs(take), Costs(g), q, more, 1..MaxPrice)
  <2> SUFFICES ASSUME NEW p \in 1..MaxPrice
               PROVE  Costs(take)[p] >= Costs(g)[p] + q * more[p]
    BY DEF AtLeast
  <2>1. take[p] \in Int /\ g[p] \in Int /\ p \in Int /\ (take[p] - g[p]) * (p - q) >= 0
    BY DEF Sides
  <2>2. (take[p] - g[p]) * (p - q) = take[p] * p - g[p] * p - q * (take[p] - g[p])
    BY <2>1
  <2>3. take[p] * p \in Int /\ g[p] * p \in Int /\ q * (take[p] - g[p]) \in Int
    BY <2>1
  <2>4. Costs(take)[p] = take[p] * p /\ Costs(g)[p] = g[p] * p
    BY DEF Costs
  <2>5. QED
    BY <1>3, <2>1, <2>2, <2>3, <2>4
<1>6. SumOver(Costs(take), 1..MaxPrice) >= SumOver(Costs(g), 1..MaxPrice) + q * SumOver(more, 1..MaxPrice)
  BY <1>1, <1>2, <1>5, SumCompare
<1>7. Cost(g) \in Int
  BY SideTotals
<1>8. QED
  BY <1>4, <1>6, <1>7 DEF Cost, Costs

(* The levels that a loop has taken, and the others, lie on both sides of  *)
(* the price of the last one it took from.                                 *)
LEMMA BuysCheapest ==
  ASSUME NEW side \in Takes, NEW n \in Nat, NEW order, Enumerates(order, n, side),
         NEW target \in Nat, NEW fill, NEW g, NEW m, Greedy(g, m, n, fill, side, order, target),
         NEW take \in Fills(side, target), Total(take) = Total(g)
  PROVE  /\ Rising(order, n) => Cost(take) >= Cost(g)
         /\ Falling(order, n) => Cost(g) >= Cost(take)
<1>0. /\ order \in [1..n -> PricesOf(side)]
      /\ \A p \in PricesOf(side) : \E i \in 1..n : order[i] = p
  BY DEF Enumerates
<1>1. take \in Sides /\ g \in Sides /\ side \in Sides
  BY BoundsAssumption DEF Fills, Takes, Sides, Greedy
<1>2. ASSUME NEW p \in 1..MaxPrice
      PROVE  /\ take[p] \in Nat /\ g[p] \in Nat /\ side[p] \in Nat /\ p \in Nat
             /\ take[p] <= side[p] /\ g[p] <= side[p]
             /\ (p \in PricesOf(side) \/ side[p] = 0)
  <2>1. take[p] \in Nat /\ g[p] \in Nat /\ side[p] \in Nat /\ p \in Nat /\ p \in DOMAIN side
    BY <1>1 DEF Sides
  <2>2. take[p] <= side[p] /\ g[p] <= side[p]
    BY DEF Fills, Greedy
  <2>3. QED
    BY <2>1, <2>2 DEF PricesOf
<1> DEFINE q == IF m > 0 THEN order[m] ELSE 0
<1>3. m \in 0..n /\ (m > 0 => m \in 1..n /\ order[m] \in 1..MaxPrice) /\ (m = 0 => n = 0)
  <2>1. m \in 0..n /\ (m = 0 => n = 0)
    BY DEF Greedy
  <2>2. PricesOf(side) \subseteq 1..MaxPrice
    BY <1>1 DEF PricesOf, Sides
  <2>3. QED
    BY <1>0, <2>1, <2>2
<1>4. q \in Int
  BY <1>3
<1>5. ASSUME NEW p \in 1..MaxPrice
      PROVE  \/ take[p] = g[p] \/ p = q
             \/ m \in 1..n /\ \E i \in 1..n : i < m /\ order[i] = p /\ take[p] <= g[p]
             \/ m \in 1..n /\ \E i \in 1..n : i > m /\ order[i] = p /\ take[p] >= g[p]
  <2>1. CASE p \notin PricesOf(side)
    BY <1>2, <2>1
  <2>2. CASE p \in PricesOf(side)
    <3>1. PICK i \in 1..n : order[i] = p
      BY <1>0, <2>2
    <3>2. m \in 1..n /\ q = order[m]
      BY <1>3, <3>1
    <3>3. (i < m => g[p] = side[p]) /\ (i > m => g[p] = 0)
      BY <3>1 DEF Greedy
    <3>4. (i < m => take[p] <= g[p]) /\ (i > m => take[p] >= g[p])
      BY <1>2, <3>3
    <3>5. i < m \/ i = m \/ i > m
      BY <3>2
    <3>6. QED
      BY <3>1, <3>2, <3>4, <3>5
  <2>3. QED
    BY <2>1, <2>2
<1>6. \A i \in 1..n : order[i] \in Int /\ (m \in 1..n => q = order[m])
  <2>1. PricesOf(side) \subseteq 1..MaxPrice
    BY <1>1 DEF PricesOf, Sides
  <2>2. QED
    BY <1>0, <1>3, <2>1
<1> HIDE DEF q
<1>7. \A a, b \in Int :
        (a <= 0 /\ b <= 0) \/ (a >= 0 /\ b >= 0) \/ a = 0 \/ b = 0 => a * b >= 0
  OBVIOUS
<1>8. ASSUME Rising(order, n)
      PROVE  Cost(take) >= Cost(g)
  <2>1. ASSUME NEW p \in 1..MaxPrice PROVE (take[p] - g[p]) * (p - q) >= 0
    <3>1. take[p] - g[p] \in Int /\ p - q \in Int /\ q \in Int
      BY <1>2, <1>4
    <3>2. \/ take[p] = g[p] \/ p = q
          \/ p < q /\ take[p] <= g[p]
          \/ p > q /\ take[p] >= g[p]
      <4>1. CASE take[p] = g[p] \/ p = q
        BY <4>1
      <4>2. ASSUME m \in 1..n, NEW i \in 1..n, i < m, order[i] = p, take[p] <= g[p]
            PROVE  p < q
        BY <1>6, <1>8, <4>2 DEF Rising
      <4>3. ASSUME m \in 1..n, NEW i \in 1..n, i > m, order[i] = p, take[p] >= g[p]
            PROVE  p > q
        BY <1>6, <1>8, <4>3 DEF Rising
      <4>4. QED
        BY <1>5, <4>1, <4>2, <4>3
    <3>3. \/ take[p] - g[p] = 0 \/ p - q = 0
          \/ p - q <= 0 /\ take[p] - g[p] <= 0
          \/ p - q >= 0 /\ take[p] - g[p] >= 0
      BY <1>2, <3>1, <3>2
    <3>4. QED
      BY <1>7, <3>1, <3>3
  <2>2. QED
    BY <1>1, <1>4, <2>1, Cheapest
<1>9. ASSUME Falling(order, n)
      PROVE  Cost(g) >= Cost(take)
  <2>1. ASSUME NEW p \in 1..MaxPrice PROVE (g[p] - take[p]) * (p - q) >= 0
    <3>1. g[p] - take[p] \in Int /\ p - q \in Int /\ q \in Int
      BY <1>2, <1>4
    <3>2. \/ take[p] = g[p] \/ p = q
          \/ p > q /\ take[p] <= g[p]
          \/ p < q /\ take[p] >= g[p]
      <4>1. CASE take[p] = g[p] \/ p = q
        BY <4>1
      <4>2. ASSUME m \in 1..n, NEW i \in 1..n, i < m, order[i] = p, take[p] <= g[p]
            PROVE  p > q
        BY <1>6, <1>9, <4>2 DEF Falling
      <4>3. ASSUME m \in 1..n, NEW i \in 1..n, i > m, order[i] = p, take[p] >= g[p]
            PROVE  p < q
        BY <1>6, <1>9, <4>3 DEF Falling
      <4>4. QED
        BY <1>5, <4>1, <4>2, <4>3
    <3>3. \/ g[p] - take[p] = 0 \/ p - q = 0
          \/ p - q >= 0 /\ g[p] - take[p] >= 0
          \/ p - q <= 0 /\ g[p] - take[p] <= 0
      BY <1>2, <3>1, <3>2
    <3>4. QED
      BY <1>7, <3>1, <3>3
  <2>2. QED
    BY <1>1, <1>4, <2>1, Cheapest
<1>10. QED
  BY <1>8, <1>9

(* The least or greatest member is the minimum or maximum. *)
LEMMA MinIs ==
  ASSUME NEW S \in SUBSET Int, NEW x \in S
  PROVE  /\ (\A y \in S : x <= y) => Min(S) = x
         /\ (\A y \in S : x >= y) => Max(S) = x
<1>1. ASSUME \A y \in S : x <= y PROVE Min(S) = x
  <2>1. \A z \in S : (\A y \in S : z <= y) => z = x
    BY <1>1
  <2>2. QED
    BY <1>1, <2>1 DEF Min
<1>2. ASSUME \A y \in S : x >= y PROVE Max(S) = x
  <2>1. \A z \in S : (\A y \in S : z >= y) => z = x
    BY <1>2
  <2>2. QED
    BY <1>2, <2>1 DEF Max
<1>3. QED
  BY <1>1, <1>2

(* A fill costs what its quantity costs at the best price, or more. *)
LEMMA PriceBounds ==
  ASSUME NEW side \in Sides, NEW g \in Sides, \A p \in 1..MaxPrice : g[p] <= side[p], NEW c \in Int
  PROVE  /\ (\A p \in PricesOf(side) : c <= p) => Cost(g) >= c * Total(g)
         /\ (\A p \in PricesOf(side) : c >= p) => Cost(g) <= c * Total(g)
<1> DEFINE none == [p \in 1..MaxPrice |-> 0]
<1>1. /\ Numbers(g, 1..MaxPrice) /\ Numbers(Costs(g), 1..MaxPrice)
      /\ none \in Sides /\ \A p \in 1..MaxPrice : none[p] = 0
  BY SidesAreNumbers DEF Sides
<1> HIDE DEF none
<1>2. Numbers(none, 1..MaxPrice) /\ SumOver(none, 1..MaxPrice) = 0
  BY <1>1, SidesAreNumbers, SideTotals DEF Total
<1>3. Total(g) \in Int /\ Cost(g) \in Int
  BY SideTotals
<1>4. ASSUME NEW p \in 1..MaxPrice
      PROVE  /\ p \in Int /\ g[p] \in Nat /\ (g[p] = 0 \/ p \in PricesOf(side))
             /\ Costs(g)[p] = g[p] * p
  <2>1. p \in Int /\ g[p] \in Nat /\ side[p] \in Nat /\ g[p] <= side[p] /\ p \in DOMAIN side
    BY DEF Sides
  <2>2. g[p] = 0 \/ side[p] > 0
    BY <2>1
  <2>3. QED
    BY <2>1, <2>2 DEF PricesOf, Costs
<1>5. ASSUME \A p \in PricesOf(side) : c <= p PROVE Cost(g) >= c * Total(g)
  <2>1. ASSUME NEW p \in 1..MaxPrice PROVE Costs(g)[p] >= none[p] + c * g[p]
    <3>1. CASE g[p] = 0
      BY <1>1, <1>4, <3>1
    <3>2. CASE g[p] # 0
      <4>1. p - c >= 0 /\ g[p] >= 0 /\ p - c \in Int /\ g[p] \in Int
        BY <1>4, <1>5, <3>2
      <4>2. g[p] * (p - c) >= 0
        BY <4>1
      <4>3. g[p] * (p - c) = g[p] * p - c * g[p] /\ g[p] * p \in Int /\ c * g[p] \in Int
        BY <1>4
      <4>4. QED
        BY <1>1, <1>4, <4>2, <4>3
    <3>3. QED
      BY <3>1, <3>2
  <2>2. SumOver(Costs(g), 1..MaxPrice) >= SumOver(none, 1..MaxPrice) + c * SumOver(g, 1..MaxPrice)
    BY <1>1, <1>2, <2>1, SumCompare DEF AtLeast
  <2>3. c * Total(g) \in Int
    BY <1>3
  <2>4. QED
    BY <1>2, <2>2, <2>3 DEF Total, Cost, Costs
<1>6. ASSUME \A p \in PricesOf(side) : c >= p PROVE Cost(g) <= c * Total(g)
  <2>1. ASSUME NEW p \in 1..MaxPrice PROVE none[p] >= Costs(g)[p] + (-c) * g[p]
    <3>1. PICK a, b \in Int : a = g[p] * p /\ b = c * g[p]
      BY <1>4
    <3>2. (-c) * g[p] = -b
      BY <1>4, <3>1
    <3>3. a <= b
      <4>1. CASE g[p] = 0
        BY <1>4, <3>1, <4>1
      <4>2. CASE g[p] # 0
        <5>1. c - p >= 0 /\ g[p] >= 0 /\ c - p \in Int /\ g[p] \in Int
          BY <1>4, <1>6, <4>2
        <5>2. g[p] * (c - p) >= 0
          BY <5>1
        <5>3. g[p] * (c - p) = b - a
          BY <1>4, <3>1
        <5>4. QED
          BY <3>1, <5>2, <5>3
      <4>3. QED
        BY <4>1, <4>2
    <3>4. none[p] = 0 /\ Costs(g)[p] = a
      BY <1>1, <1>4, <3>1
    <3>5. QED
      BY <3>1, <3>2, <3>3, <3>4
  <2>2. AtLeast(none, Costs(g), -c, g, 1..MaxPrice) /\ -c \in Int
    BY <2>1 DEF AtLeast
  <2>3. SumOver(none, 1..MaxPrice) >= SumOver(Costs(g), 1..MaxPrice) + (-c) * SumOver(g, 1..MaxPrice)
    BY <1>1, <1>2, <2>2, SumCompare
  <2>4. (-c) * Total(g) = -(c * Total(g)) /\ c * Total(g) \in Int
    BY <1>3
  <2>5. QED
    BY <1>2, <1>3, <2>3, <2>4 DEF Total, Cost, Costs
<1>7. QED
  BY <1>5, <1>6

(* FillIsBest of one call. *)
BestFill(side, target) ==
  LET buy == ComputeVwap(AsksSorted(side), target)
      sale == ComputeVwap(BidsSorted(side), target)
  IN  /\ buy.filled = Lesser(target, Total(side)) /\ sale.filled = buy.filled
      /\ buy.remaining = target - buy.filled /\ sale.remaining = buy.remaining
      /\ buy.notional = Min({Cost(take) : take \in Fills(side, target)})
      /\ sale.notional = Max({Cost(take) : take \in Fills(side, target)})
      /\ buy.filled > 0 => /\ buy.notional >= buy.filled * Min(PricesOf(side))
                           /\ sale.notional <= sale.filled * Max(PricesOf(side))

(* Both fills of a side are the best, for every side and order. *)
LEMMA FillsAreBest ==
  ASSUME NEW side \in Takes, NEW target \in Nat \ {0}
  PROVE  BestFill(side, target)
<1> DEFINE P == 1..MaxPrice
           buy == ComputeVwap(AsksSorted(side), target)
           sale == ComputeVwap(BidsSorted(side), target)
           costs == {Cost(take) : take \in Fills(side, target)}
<1>1. side \in Sides /\ MaxPrice \in Nat /\ P \in SUBSET Nat /\ IsFiniteSet(P)
  <2>1. MaxPrice \in Nat /\ MaxPrice \in Int /\ 1 \in Int
    BY BoundsAssumption
  <2>2. IsFiniteSet(1..MaxPrice)
    BY <2>1, FS_Interval
  <2>3. QED
    BY <2>1, <2>2, BoundsAssumption DEF Takes, Sides
<1>2. PricesOf(side) \subseteq P /\ side \in [P -> Nat]
  BY <1>1 DEF Sides, PricesOf
<1>3. PICK n \in Nat : \E up, down :
        /\ AsksSorted(side) = LevelsAt(side, up) /\ BidsSorted(side) = LevelsAt(side, down)
        /\ Enumerates(up, n, side) /\ Rising(up, n)
        /\ Enumerates(down, n, side) /\ Falling(down, n)
  <2> HIDE DEF P
  <2>1. QED
    BY <1>1, <1>2, SidesAreSorted
<1>4. PICK up, down :
        /\ AsksSorted(side) = LevelsAt(side, up) /\ BidsSorted(side) = LevelsAt(side, down)
        /\ Enumerates(up, n, side) /\ Rising(up, n)
        /\ Enumerates(down, n, side) /\ Falling(down, n)
  BY <1>3
<1>8. PICK g, m : Greedy(g, m, n, buy, side, up, target)
  BY <1>1, <1>4, LoopIsGreedy
<1>9. PICK h, l : Greedy(h, l, n, sale, side, down, target)
  BY <1>1, <1>4, LoopIsGreedy
<1> HIDE DEF buy, sale, P
<1>10. /\ buy.filled = Lesser(target, Total(side)) /\ buy.remaining = target - buy.filled
       /\ buy.filled \in Nat /\ g \in Sides /\ g \in Fills(side, target) /\ Total(g) = buy.filled
  BY <1>4, <1>8, GreedyFills
<1>11. /\ sale.filled = Lesser(target, Total(side)) /\ sale.remaining = target - sale.filled
       /\ sale.filled \in Nat /\ h \in Sides /\ h \in Fills(side, target) /\ Total(h) = sale.filled
  BY <1>4, <1>9, GreedyFills
<1>12. ASSUME NEW take \in Fills(side, target)
       PROVE  /\ Total(take) = Total(g) /\ Total(take) = Total(h)
              /\ take \in Sides /\ Cost(take) \in Int
  <2>1. take \in Sides /\ Total(take) = Lesser(target, Total(side))
    BY BoundsAssumption DEF Fills, Takes, Sides
  <2>2. QED
    BY <1>10, <1>11, <2>1, SideTotals
<1>13. ASSUME NEW take \in Fills(side, target) PROVE Cost(take) >= Cost(g)
  BY <1>4, <1>8, <1>12, BuysCheapest
<1>14. ASSUME NEW take \in Fills(side, target) PROVE Cost(h) >= Cost(take)
  BY <1>4, <1>9, <1>12, BuysCheapest
<1>15. buy.notional = Cost(g) /\ sale.notional = Cost(h)
  BY <1>8, <1>9 DEF Greedy
<1>16. costs \in SUBSET Int /\ Cost(g) \in costs /\ Cost(h) \in costs
  BY <1>10, <1>11, <1>12
<1>17. Min(costs) = Cost(g)
  <2>1. \A c \in costs : Cost(g) <= c
    BY <1>10, <1>12, <1>13
  <2> HIDE DEF costs
  <2>2. QED
    BY <1>16, <2>1, MinIs
<1>18. Max(costs) = Cost(h)
  <2>1. \A c \in costs : Cost(h) >= c
    BY <1>11, <1>12, <1>14
  <2> HIDE DEF costs
  <2>2. QED
    BY <1>16, <2>1, MinIs
<1>19. ASSUME buy.filled > 0
       PROVE  /\ buy.notional >= buy.filled * Min(PricesOf(side))
              /\ sale.notional <= sale.filled * Max(PricesOf(side))
  <2>1. n > 0
    <3>1. SUFFICES ASSUME n = 0 PROVE FALSE
      OBVIOUS
    <3>2. PricesOf(side) = {}
      BY <1>4, <3>1 DEF Enumerates
    <3>3. ASSUME NEW p \in 1..MaxPrice PROVE g[p] = 0
      <4>1. side[p] \in Nat /\ g[p] \in Nat /\ g[p] <= side[p] /\ p \in DOMAIN side
        BY <1>1, <1>10 DEF Sides, Fills
      <4>2. ~(side[p] > 0)
        BY <3>2, <4>1 DEF PricesOf
      <4>3. QED
        BY <4>1, <4>2
    <3>4. Total(g) = 0
      BY <1>10, <3>3, SideTotals
    <3>5. QED
      BY <1>10, <1>19, <3>4
  <2>2. /\ 1 \in 1..n /\ PricesOf(side) \in SUBSET Int
        /\ \A i \in 1..n : /\ up[i] \in PricesOf(side) /\ up[i] \in Int
                           /\ down[i] \in PricesOf(side) /\ down[i] \in Int
    <3>1. 1 \in 1..n /\ \A p \in PricesOf(side) : p \in Int
      <4>1. \A p \in P : p \in Int
        BY <1>1
      <4>2. QED
        BY <1>2, <2>1, <4>1
    <3>2. \A i \in 1..n : up[i] \in PricesOf(side) /\ down[i] \in PricesOf(side)
      BY <1>4 DEF Enumerates
    <3>3. QED
      BY <3>1, <3>2
  <2>3. ASSUME NEW p \in PricesOf(side) PROVE up[1] <= p /\ down[1] >= p
    <3>1. PICK i \in 1..n : up[i] = p
      BY <1>4 DEF Enumerates
    <3>2. PICK j \in 1..n : down[j] = p
      BY <1>4 DEF Enumerates
    <3>3. (i = 1 \/ 1 < i) /\ (j = 1 \/ 1 < j)
      OBVIOUS
    <3>4. (1 < i => up[1] < up[i]) /\ (1 < j => down[1] > down[j])
      BY <1>4, <2>2 DEF Rising, Falling
    <3>5. QED
      BY <2>2, <3>1, <3>2, <3>3, <3>4
  <2>4. Min(PricesOf(side)) = up[1] /\ Max(PricesOf(side)) = down[1] /\ up[1] \in Int /\ down[1] \in Int
    BY <2>2, <2>3, MinIs
  <2>5. Cost(g) >= up[1] * Total(g)
    <3>1. \A p \in 1..MaxPrice : g[p] <= side[p]
      BY <1>10 DEF Fills
    <3>2. QED
      BY <1>1, <1>10, <2>3, <2>4, <3>1, PriceBounds
  <2>6. Cost(h) <= down[1] * Total(h)
    <3>1. \A p \in 1..MaxPrice : h[p] <= side[p]
      BY <1>11 DEF Fills
    <3>2. QED
      BY <1>1, <1>11, <2>3, <2>4, <3>1, PriceBounds
  <2>7. /\ up[1] * Total(g) = buy.filled * Min(PricesOf(side))
        /\ down[1] * Total(h) = sale.filled * Max(PricesOf(side))
    BY <1>10, <1>11, <2>4
  <2>8. QED
    BY <1>15, <2>5, <2>6, <2>7
<1>20. QED
  BY <1>10, <1>11, <1>15, <1>17, <1>18, <1>19 DEF BestFill, buy, sale

-----------------------------------------------------------------------------
(* The signals of a rebalance. *)

Signals(O, U) == [from : O, to : U, amount : Nat \ {0}]

(* A list of the members of S, each once. *)
Lists(s, S) ==
  /\ s \in Seq(S) /\ Len(s) \in Nat
  /\ \A i, j \in 1..Len(s) : s[i] = s[j] => i = j
  /\ \A e \in S : \E i \in 1..Len(s) : s[i] = e

(* The two sorted lists of rebalance_signals() hold every exchange once. *)
LEMMA SortedLists ==
  ASSUME NEW S \in SUBSET Int, IsFiniteSet(S), NEW left, \A e \in S : left[e] \in Int
  PROVE  Lists(Sorted(S, left), S) /\ Len(Sorted(S, left)) = Cardinality(S)
<1> DEFINE Before(x, y) == left[x] > left[y] \/ (left[x] = left[y] /\ x < y)
           R == {p \in S \X S : Before(p[1], p[2])}
<1>1. \A x, y \in S : <<x, y>> \in R <=> Before(x, y)
  OBVIOUS
<1> HIDE DEF R
<1>2. Orders(R, S)
  <2>1. \A x \in S : x \in Int /\ left[x] \in Int
    OBVIOUS
  <2>2. \A x, y \in S : x # y => Before(x, y) \/ Before(y, x)
    BY <2>1
  <2>3. \A x, y, z \in S : Before(x, y) /\ Before(y, z) => Before(x, z)
    BY <2>1
  <2>4. \A x \in S : ~Before(x, x)
    BY <2>1
  <2> HIDE DEF Before
  <2>5. QED
    BY <1>1, <2>2, <2>3, <2>4 DEF Orders
<1>3. PICK n \in Nat : n = Cardinality(S)
  BY FS_CardinalityType
<1>4. PICK t : SortedBy(t, S, R)
  BY <1>2, SortedExists
<1>5. t \in [1..n -> S] /\ \A i, j \in DOMAIN t : i < j => Before(t[i], t[j])
  BY <1>1, <1>3, <1>4 DEF SortedBy
<1> DEFINE s == Sorted(S, left)
<1>6. s \in [1..n -> S] /\ \A i, j \in DOMAIN s : i < j => Before(s[i], s[j])
  <2>1. \E o \in [1..n -> S] : \A i, j \in DOMAIN o : i < j => Before(o[i], o[j])
    BY <1>5
  <2>2. s = CHOOSE o \in [1..n -> S] : \A i, j \in DOMAIN o : i < j => Before(o[i], o[j])
    BY <1>3 DEF Sorted
  <2> HIDE DEF s
  <2>3. QED
    BY <2>1, <2>2
<1> HIDE DEF s
<1>7. SortedBy(s, S, R)
  BY <1>1, <1>3, <1>6 DEF SortedBy
<1>8. /\ \A i, j \in 1..n : s[i] = s[j] => i = j
      /\ \A e \in S : \E i \in 1..n : s[i] = e
  BY <1>2, <1>3, <1>7, SortedHasAll
<1>9. s \in Seq(S) /\ Len(s) = n
  BY <1>3, <1>6
<1>10. QED
  BY <1>3, <1>8, <1>9 DEF Lists, s

(* The minimum of two numbers. *)
LEMMA LesserIs ==
  ASSUME NEW m \in Int, NEW n \in Int
  PROVE  Min({m, n}) = IF m <= n THEN m ELSE n
<1>1. \E x \in {m, n} : \A y \in {m, n} : x <= y
  OBVIOUS
<1>2. QED
  BY <1>1 DEF Min

(* What signals take and bring, one by one. *)
LEMMA VolumesOf ==
  ASSUME NEW O, NEW U, NEW signals \in Seq(Signals(O, U)), NEW S \in SUBSET DOMAIN signals
  PROVE  /\ IsFiniteSet(S) /\ \A i \in S : Volumes(signals)[i] \in Nat
         /\ SumOver(Volumes(signals), S) \in Int
<1>1. \A i \in DOMAIN signals : signals[i].amount \in Nat
  <2>1. \A i \in DOMAIN signals : signals[i] \in Signals(O, U)
    OBVIOUS
  <2>2. QED
    BY <2>1 DEF Signals
<1>2. IsFiniteSet(S)
  <2>1. DOMAIN signals = 1..Len(signals) /\ Len(signals) \in Int /\ 1 \in Int
    OBVIOUS
  <2>2. IsFiniteSet(DOMAIN signals)
    BY <2>1, FS_Interval
  <2>3. QED
    BY <2>2, FS_Subset
<1>3. \A i \in S : Volumes(signals)[i] \in Nat
  BY <1>1 DEF Volumes
<1>4. QED
  BY <1>2, <1>3, SumType

(* A signal adds its amount to what two exchanges give and get. *)
LEMMA NextSignal ==
  ASSUME NEW O, NEW U, NEW signals \in Seq(Signals(O, U)), NEW signal \in Signals(O, U), NEW e
  PROVE  /\ Taken(signals, e) \in Int /\ Brought(signals, e) \in Int
         /\ Taken(Append(signals, signal), e)
              = Taken(signals, e) + (IF signal.from = e THEN signal.amount ELSE 0)
         /\ Brought(Append(signals, signal), e)
              = Brought(signals, e) + (IF signal.to = e THEN signal.amount ELSE 0)
<1> DEFINE next == Append(signals, signal)
           n == Len(signals) + 1
           f == Volumes(signals)
           g == Volumes(next)
<1>1. /\ next \in Seq(Signals(O, U)) /\ DOMAIN next = DOMAIN signals \cup {n} /\ n \notin DOMAIN signals
      /\ next[n] = signal /\ \A i \in DOMAIN signals : next[i] = signals[i]
  OBVIOUS
<1> HIDE DEF next, n
<1>2. /\ g[n] = signal.amount /\ signal.amount \in Int
      /\ \A i \in DOMAIN signals : g[i] = f[i] /\ f[i] \in Int
  <2>1. \A i \in DOMAIN next : next[i] \in Signals(O, U)
    BY <1>1
  <2>2. g = [i \in DOMAIN next |-> next[i].amount] /\ f = [i \in DOMAIN signals |-> signals[i].amount]
    BY DEF Volumes
  <2>3. \A i \in DOMAIN next : next[i].amount \in Int
    BY <2>1 DEF Signals
  <2>4. QED
    BY <1>1, <2>2, <2>3
<1>3. ASSUME NEW S \in SUBSET DOMAIN signals
      PROVE  /\ SumOver(f, S) \in Int /\ SumOver(g, S) = SumOver(f, S)
             /\ SumOver(g, S \cup {n}) = SumOver(f, S) + signal.amount
  <2>1. IsFiniteSet(S) /\ SumOver(f, S) \in Int
    BY VolumesOf
  <2>2. \A i \in S : f[i] \in Int /\ g[i] = f[i]
    BY <1>2
  <2> HIDE DEF f, g
  <2>3. SumOver(g, S) = SumOver(f, S)
    BY <2>1, <2>2, SumSame
  <2>4. PICK T : T = S \cup {n}
    OBVIOUS
  <2>5. IsFiniteSet(T) /\ n \in T /\ T \ {n} = S /\ \A i \in T : g[i] \in Int
    BY <1>1, <1>2, <2>1, <2>2, <2>4, FS_AddElement
  <2>6. SumOver(g, T) = g[n] + SumOver(g, T \ {n})
    BY <2>5, SumRemove
  <2>7. SumOver(g, T) = signal.amount + SumOver(f, S)
    BY <1>2, <2>3, <2>5, <2>6
  <2>8. QED
    BY <1>2, <2>1, <2>3, <2>4, <2>7
<1> DEFINE from == {i \in DOMAIN signals : signals[i].from = e}
           to == {i \in DOMAIN signals : signals[i].to = e}
<1>4. {i \in DOMAIN next : next[i].from = e} = IF signal.from = e THEN from \cup {n} ELSE from
  BY <1>1
<1>5. {i \in DOMAIN next : next[i].to = e} = IF signal.to = e THEN to \cup {n} ELSE to
  BY <1>1
<1>6. from \in SUBSET DOMAIN signals /\ to \in SUBSET DOMAIN signals
  OBVIOUS
<1>7. Taken(signals, e) = SumOver(f, from) /\ Brought(signals, e) = SumOver(f, to)
  BY DEF Taken, Brought
<1>8. /\ Taken(next, e) = SumOver(g, IF signal.from = e THEN from \cup {n} ELSE from)
      /\ Brought(next, e) = SumOver(g, IF signal.to = e THEN to \cup {n} ELSE to)
  BY <1>4, <1>5 DEF Taken, Brought
<1> HIDE DEF f, g, from, to
<1>9. /\ SumOver(f, from) \in Int /\ SumOver(g, from) = SumOver(f, from)
      /\ SumOver(g, from \cup {n}) = SumOver(f, from) + signal.amount
  BY <1>3, <1>6
<1>10. /\ SumOver(f, to) \in Int /\ SumOver(g, to) = SumOver(f, to)
       /\ SumOver(g, to \cup {n}) = SumOver(f, to) + signal.amount
  BY <1>3, <1>6
<1>11. QED
  BY <1>2, <1>7, <1>8, <1>9, <1>10 DEF next

(* Without signals nothing moves. *)
LEMMA NoSignals ==
  ASSUME NEW e PROVE Taken(<<>>, e) = 0 /\ Brought(<<>>, e) = 0
<1>1. {i \in DOMAIN <<>> : <<>>[i].from = e} = {} /\ {i \in DOMAIN <<>> : <<>>[i].to = e} = {}
  OBVIOUS
<1>2. QED
  BY <1>1, SumEmpty DEF Taken, Brought

(* Exchanges that are on neither list give and get nothing. *)
LEMMA OthersKeep ==
  ASSUME NEW O, NEW U, NEW signals \in Seq(Signals(O, U)), NEW e
  PROVE  (e \notin O => Taken(signals, e) = 0) /\ (e \notin U => Brought(signals, e) = 0)
<1>1. \A i \in DOMAIN signals : signals[i].from \in O /\ signals[i].to \in U
  <2>1. \A i \in DOMAIN signals : signals[i] \in Signals(O, U)
    OBVIOUS
  <2>2. QED
    BY <2>1 DEF Signals
<1>2. e \notin O => {i \in DOMAIN signals : signals[i].from = e} = {}
  BY <1>1
<1>3. e \notin U => {i \in DOMAIN signals : signals[i].to = e} = {}
  BY <1>1
<1>4. QED
  BY <1>2, <1>3, SumEmpty DEF Taken, Brought

(* What the exchanges of D have more after the signals. *)
Net(signals, D) == [e \in D |-> Brought(signals, e) - Taken(signals, e)]

(* A signal takes from one exchange what it brings to another. *)
LEMMA NetStays ==
  ASSUME NEW O, NEW U, NEW D, IsFiniteSet(D), O \cup U \subseteq D, O \cap U = {},
         NEW signals \in Seq(Signals(O, U)), NEW signal \in Signals(O, U)
  PROVE  SumOver(Net(Append(signals, signal), D), D) = SumOver(Net(signals, D), D)
<1> DEFINE from == signal.from
           to == signal.to
           net == Net(signals, D)
           next == Net(Append(signals, signal), D)
           half == [net EXCEPT ![from] = @ - signal.amount]
<1>1. from \in D /\ to \in D /\ from # to /\ signal.amount \in Int
  BY DEF Signals
<1>2. \A e \in D : Taken(signals, e) \in Int /\ Brought(signals, e) \in Int
  BY NextSignal
<1>3. \A e \in D : /\ net[e] = Brought(signals, e) - Taken(signals, e)
                   /\ next[e] = Brought(Append(signals, signal), e) - Taken(Append(signals, signal), e)
  BY DEF Net
<1>4. \A e \in D : /\ Taken(Append(signals, signal), e)
                        = Taken(signals, e) + (IF signal.from = e THEN signal.amount ELSE 0)
                   /\ Brought(Append(signals, signal), e)
                        = Brought(signals, e) + (IF signal.to = e THEN signal.amount ELSE 0)
  BY NextSignal
<1>5. \A e \in D : /\ net[e] \in Int
                   /\ half[e] = net[e] - (IF e = from THEN signal.amount ELSE 0)
  BY <1>2, <1>3 DEF Net
<1> HIDE DEF net, next, half, from, to
<1>6. \A e \in D : /\ next[e] \in Int /\ half[e] \in Int
                   /\ next[e] = half[e] + (IF e = to THEN signal.amount ELSE 0)
  <2> SUFFICES ASSUME NEW e \in D
               PROVE  /\ next[e] \in Int /\ half[e] \in Int
                      /\ next[e] = half[e] + (IF e = to THEN signal.amount ELSE 0)
    OBVIOUS
  <2>1. PICK t \in Int, m \in Int : t = Taken(signals, e) /\ m = Brought(signals, e)
    BY <1>2
  <2>2. net[e] = m - t
    BY <1>3, <2>1
  <2>3. next[e] = (m + (IF e = to THEN signal.amount ELSE 0)) - (t + (IF e = from THEN signal.amount ELSE 0))
    BY <1>3, <1>4, <2>1 DEF from, to
  <2>4. half[e] = (m - t) - (IF e = from THEN signal.amount ELSE 0)
    BY <1>5, <2>2
  <2>5. QED
    BY <1>1, <2>3, <2>4
<1>7. Numbers(net, D) /\ Numbers(half, D) /\ Numbers(next, D)
  BY <1>5, <1>6 DEF Numbers
<1>8. SameBut(half, net, D, from) /\ SameBut(next, half, D, to)
  <2>1. \A e \in D \ {from} : half[e] = net[e]
    BY <1>5
  <2>2. \A e \in D \ {to} : next[e] = half[e]
    BY <1>6
  <2>3. QED
    BY <2>1, <2>2 DEF SameBut
<1>9. SumOver(half, D) = SumOver(net, D) + (half[from] - net[from]) /\ SumOver(net, D) \in Int
  BY <1>1, <1>7, <1>8, SumPut
<1>10. SumOver(next, D) = SumOver(half, D) + (next[to] - half[to]) /\ SumOver(half, D) \in Int
  BY <1>1, <1>7, <1>8, SumPut
<1>11. half[from] - net[from] = -signal.amount /\ next[to] - half[to] = signal.amount
  BY <1>1, <1>5, <1>6
<1>12. QED
  BY <1>1, <1>9, <1>10, <1>11 DEF net, next

(* Without signals nobody has more or less. *)
LEMMA NetOfNone ==
  ASSUME NEW D, IsFiniteSet(D)
  PROVE  SumOver(Net(<<>>, D), D) = 0
<1>1. \A e \in D : Net(<<>>, D)[e] = 0
  BY NoSignals DEF Net
<1>2. QED
  BY <1>1, SumZero

-----------------------------------------------------------------------------
(* The two lists of a rebalance: the exchanges O to take from, U to bring  *)
(* to, and what each has to give or to take.                               *)
Deal(over, under, O, U, left) ==
  /\ Lists(over, O) /\ Lists(under, U) /\ O \cap U = {}
  /\ left \in [O \cup U -> Nat \ {0}]

(* The loop after at least k steps: exchanges before i and j are settled,  *)
(* the others are not, the signals account for every difference, and every *)
(* signal but the last has settled an exchange.                            *)
Settling(loop, k, over, under, O, U, left) ==
  /\ loop.i \in 1..(Len(over) + 1) /\ loop.j \in 1..(Len(under) + 1)
  /\ loop.left \in [O \cup U -> Nat] /\ loop.signals \in Seq(Signals(O, U))
  /\ (loop.i - 1) + (loop.j - 1) >= k \/ loop.i > Len(over) \/ loop.j > Len(under)
  /\ \A p \in 1..Len(over) : loop.left[over[p]] > 0 <=> p >= loop.i
  /\ \A p \in 1..Len(under) : loop.left[under[p]] > 0 <=> p >= loop.j
  /\ \A e \in O : loop.left[e] = left[e] - Taken(loop.signals, e)
  /\ \A e \in U : loop.left[e] = left[e] - Brought(loop.signals, e)
  /\ Len(loop.signals) <= (loop.i - 1) + (loop.j - 1)
  /\ loop.i > Len(over) /\ loop.j > Len(under) /\ loop.signals # <<>> =>
       Len(loop.signals) < (loop.i - 1) + (loop.j - 1)

Balanced(loop, D) == SumOver(Net(loop.signals, D), D) = 0

(* An iteration settles an exchange, or finds a list at its end. *)
LEMMA PairSettles ==
  ASSUME NEW over, NEW under, NEW O, NEW U, NEW left, Deal(over, under, O, U, left),
         NEW D, IsFiniteSet(D), O \cup U \subseteq D,
         NEW k \in Nat, NEW loop, Settling(loop, k, over, under, O, U, left), Balanced(loop, D)
  PROVE  /\ Settling(Pair(loop, over, under), k + 1, over, under, O, U, left)
         /\ Balanced(Pair(loop, over, under), D)
<1>a. /\ loop.i \in 1..(Len(over) + 1) /\ loop.j \in 1..(Len(under) + 1)
      /\ loop.left \in [O \cup U -> Nat] /\ loop.signals \in Seq(Signals(O, U))
  BY Zenon DEF Settling
<1>b. /\ \A p \in 1..Len(over) : loop.left[over[p]] > 0 <=> p >= loop.i
      /\ \A p \in 1..Len(under) : loop.left[under[p]] > 0 <=> p >= loop.j
  BY Zenon DEF Settling
<1>c. /\ over \in Seq(O) /\ Len(over) \in Nat /\ under \in Seq(U) /\ Len(under) \in Nat
      /\ O \cap U = {}
  BY Zenon DEF Deal, Lists
<1>1. CASE loop.i > Len(over) \/ loop.j > Len(under)
  <2>1. Pair(loop, over, under) = loop
    BY <1>1 DEF Pair
  <2>2. QED
    BY <1>1, <2>1 DEF Settling
<1>2. CASE ~(loop.i > Len(over) \/ loop.j > Len(under))
  <2> DEFINE from == over[loop.i]
             to == under[loop.j]
             amount == Amount(loop.left[from], loop.left[to])
             signal == [from |-> from, to |-> to, amount |-> amount]
             next == Pair(loop, over, under)
  <2>1. PICK a \in Nat, b \in Nat, i \in Nat, j \in Nat :
           a = Len(over) /\ b = Len(under) /\ i = loop.i /\ j = loop.j
    <3>1. loop.i \in Nat /\ loop.j \in Nat
      BY <1>a, <1>c
    <3>2. QED
      BY <1>c, <3>1
  <2>2. i \in 1..a /\ j \in 1..b
    BY <1>2, <1>a, <2>1
  <2>3. from \in O /\ to \in U /\ from # to
    <3>1. over[i] \in O
      BY <1>c, <2>1, <2>2
    <3>2. under[j] \in U
      BY <1>c, <2>1, <2>2
    <3>3. QED
      BY <1>c, <2>1, <3>1, <3>2
  <2>4. loop.left[from] \in Nat \ {0} /\ loop.left[to] \in Nat \ {0}
    <3>1. loop.left[from] \in Nat /\ loop.left[to] \in Nat
      BY <1>a, <2>3
    <3>2. loop.left[from] > 0 /\ loop.left[to] > 0
      <4>1. loop.left[over[i]] > 0 <=> i >= i
        BY <1>b, <2>1, <2>2
      <4>2. loop.left[under[j]] > 0 <=> j >= j
        BY <1>b, <2>1, <2>2
      <4>3. QED
        BY <2>1, <4>1, <4>2
    <3>3. QED
      BY <3>1, <3>2
  <2>5. /\ amount \in Nat \ {0} /\ amount <= loop.left[from] /\ amount <= loop.left[to]
        /\ amount = loop.left[from] \/ amount = loop.left[to]
    BY <2>4, LesserIs DEF Amount
  <2>6. signal \in Signals(O, U)
    BY <2>3, <2>5 DEF Signals
  <2>7. /\ next.i = (IF loop.left[from] = amount THEN i + 1 ELSE i)
        /\ next.j = (IF loop.left[to] = amount THEN j + 1 ELSE j)
        /\ next.left = [loop.left EXCEPT ![from] = @ - amount, ![to] = @ - amount]
        /\ next.signals = Append(loop.signals, signal)
    <3>1. /\ loop.left[from] <= amount <=> loop.left[from] = amount
          /\ loop.left[to] <= amount <=> loop.left[to] = amount
          /\ amount > 0
      BY <2>4, <2>5
    <3>2. QED
      BY <1>2, <2>1, <3>1 DEF Pair
  <2> HIDE DEF from, to, amount, next
  <2>8. loop.left \in [O \cup U -> Nat] /\ loop.signals \in Seq(Signals(O, U))
    BY <1>a
  <2>9. /\ next.left \in [O \cup U -> Nat]
        /\ next.left[from] = loop.left[from] - amount /\ next.left[to] = loop.left[to] - amount
        /\ \A e \in (O \cup U) \ {from, to} : next.left[e] = loop.left[e]
    <3>1. loop.left[from] - amount \in Nat /\ loop.left[to] - amount \in Nat
      BY <2>4, <2>5
    <3>2. next.left = [loop.left EXCEPT ![from] = @ - amount, ![to] = @ - amount]
      BY <2>7
    <3>3. QED
      BY <2>3, <2>8, <3>1, <3>2
  <2>10. /\ next.i \in i..(i + 1) /\ next.j \in j..(j + 1)
         /\ next.i = i + 1 <=> next.left[from] = 0
         /\ next.j = j + 1 <=> next.left[to] = 0
         /\ next.i = i + 1 \/ next.j = j + 1
    <3>1. PICK x \in Int, y \in Int, m \in Int :
             x = loop.left[from] /\ y = loop.left[to] /\ m = amount
      BY <2>4, <2>5
    <3>2. next.left[from] = x - m /\ next.left[to] = y - m /\ (m = x \/ m = y)
      BY <2>5, <2>9, <3>1
    <3>3. next.i = (IF x = m THEN i + 1 ELSE i) /\ next.j = (IF y = m THEN j + 1 ELSE j)
      BY <2>7, <3>1
    <3>4. QED
      BY <3>2, <3>3
  <2>11. ASSUME NEW p \in 1..a PROVE next.left[over[p]] > 0 <=> p >= next.i
    <3>1. over[p] \in O /\ over[p] \notin U /\ (over[p] = from => p = i)
      <4>1. over \in Seq(O) /\ a = Len(over)
        BY <2>1 DEF Deal, Lists
      <4>2. over[p] \in O
        BY <4>1
      <4>3. over[p] \notin U
        BY <4>2 DEF Deal
      <4>4. \A q, r \in 1..a : over[q] = over[r] => q = r
        BY <4>1 DEF Deal, Lists
      <4>5. QED
        BY <2>1, <2>2, <4>2, <4>3, <4>4 DEF from
    <3>2. loop.left[over[p]] > 0 <=> p >= i
      BY <1>b, <2>1
    <3>3. CASE p = i
      <4>1. over[p] = from /\ next.left[from] \in Nat
        BY <2>1, <2>3, <2>9, <3>3 DEF from
      <4>2. next.left[from] > 0 <=> next.left[from] # 0
        BY <4>1
      <4>3. next.left[from] # 0 <=> next.i = i
        BY <2>10
      <4>4. next.i = i <=> i >= next.i
        BY <2>10
      <4>5. QED
        BY <3>3, <4>1, <4>2, <4>3, <4>4
    <3>4. CASE p # i
      <4>1. next.left[over[p]] = loop.left[over[p]]
        BY <2>3, <2>9, <3>1, <3>4
      <4>2. p >= next.i <=> p >= i
        <5>1. next.i = i \/ next.i = i + 1
          BY <2>10
        <5>2. QED
          BY <3>4, <5>1
      <4>3. QED
        BY <3>2, <4>1, <4>2
    <3>5. QED
      BY <3>3, <3>4
  <2>12. ASSUME NEW p \in 1..b PROVE next.left[under[p]] > 0 <=> p >= next.j
    <3>1. under[p] \in U /\ under[p] \notin O /\ (under[p] = to => p = j)
      <4>1. under \in Seq(U) /\ b = Len(under)
        BY <2>1 DEF Deal, Lists
      <4>2. under[p] \in U
        BY <4>1
      <4>3. under[p] \notin O
        BY <4>2 DEF Deal
      <4>4. \A q, r \in 1..b : under[q] = under[r] => q = r
        BY <4>1 DEF Deal, Lists
      <4>5. QED
        BY <2>1, <2>2, <4>2, <4>3, <4>4 DEF to
    <3>2. loop.left[under[p]] > 0 <=> p >= j
      BY <1>b, <2>1
    <3>3. CASE p = j
      <4>1. under[p] = to /\ next.left[to] \in Nat
        BY <2>1, <2>3, <2>9, <3>3 DEF to
      <4>2. next.left[to] > 0 <=> next.left[to] # 0
        BY <4>1
      <4>3. next.left[to] # 0 <=> next.j = j
        BY <2>10
      <4>4. next.j = j <=> j >= next.j
        BY <2>10
      <4>5. QED
        BY <3>3, <4>1, <4>2, <4>3, <4>4
    <3>4. CASE p # j
      <4>1. next.left[under[p]] = loop.left[under[p]]
        BY <2>3, <2>9, <3>1, <3>4
      <4>2. p >= next.j <=> p >= j
        <5>1. next.j = j \/ next.j = j + 1
          BY <2>10
        <5>2. QED
          BY <3>4, <5>1
      <4>3. QED
        BY <3>2, <4>1, <4>2
    <3>5. QED
      BY <3>3, <3>4
  <2>13. ASSUME NEW e \in O PROVE next.left[e] = left[e] - Taken(next.signals, e)
    <3>1. /\ Taken(loop.signals, e) \in Int
          /\ Taken(next.signals, e) = Taken(loop.signals, e) + (IF from = e THEN amount ELSE 0)
      BY <2>6, <2>7, <2>8, NextSignal
    <3>2. loop.left[e] = left[e] - Taken(loop.signals, e) /\ left[e] \in Int /\ e # to
      BY <2>3 DEF Settling, Deal
    <3>3. next.left[e] = loop.left[e] - (IF from = e THEN amount ELSE 0)
      BY <2>3, <2>8, <2>9, <3>2
    <3>4. QED
      BY <2>5, <3>1, <3>2, <3>3
  <2>14. ASSUME NEW e \in U PROVE next.left[e] = left[e] - Brought(next.signals, e)
    <3>1. /\ Brought(loop.signals, e) \in Int
          /\ Brought(next.signals, e) = Brought(loop.signals, e) + (IF to = e THEN amount ELSE 0)
      BY <2>6, <2>7, <2>8, NextSignal
    <3>2. loop.left[e] = left[e] - Brought(loop.signals, e) /\ left[e] \in Int /\ e # from
      BY <2>3 DEF Settling, Deal
    <3>3. next.left[e] = loop.left[e] - (IF to = e THEN amount ELSE 0)
      BY <2>3, <2>8, <2>9, <3>2
    <3>4. QED
      BY <2>5, <3>1, <3>2, <3>3
  <2>15. /\ next.signals \in Seq(Signals(O, U)) /\ Len(loop.signals) \in Nat
         /\ Len(next.signals) = Len(loop.signals) + 1
    BY <2>6, <2>7, <2>8
  <2>16. /\ (i - 1) + (j - 1) >= k /\ Len(loop.signals) <= (i - 1) + (j - 1)
    <3>1. /\ (loop.i - 1) + (loop.j - 1) >= k \/ loop.i > Len(over) \/ loop.j > Len(under)
          /\ Len(loop.signals) <= (loop.i - 1) + (loop.j - 1)
      BY Zenon DEF Settling
    <3>2. QED
      BY <1>2, <2>1, <3>1
  <2>17. /\ next.i \in 1..(a + 1) /\ next.j \in 1..(b + 1)
         /\ (next.i - 1) + (next.j - 1) >= k + 1
         /\ Len(next.signals) <= (next.i - 1) + (next.j - 1)
         /\ next.i > a /\ next.j > b => Len(next.signals) < (next.i - 1) + (next.j - 1)
    <3>1. PICK m \in Nat, l \in Int, x \in Int, y \in Int :
             m = Len(loop.signals) /\ l = Len(next.signals) /\ x = next.i /\ y = next.j
      <4>1. next.i \in Int /\ next.j \in Int
        BY <2>10
      <4>2. Len(loop.signals) \in Nat /\ Len(next.signals) \in Int
        BY <2>15
      <4>3. QED
        BY <4>1, <4>2
    <3>2. /\ l = m + 1 /\ (i - 1) + (j - 1) >= k /\ m <= (i - 1) + (j - 1)
          /\ x \in {i, i + 1} /\ y \in {j, j + 1} /\ (x = i + 1 \/ y = j + 1)
      <4>1. x \in i..(i + 1) /\ y \in j..(j + 1) /\ (x = i + 1 \/ y = j + 1)
        BY <2>10, <3>1
      <4>2. l = m + 1 /\ (i - 1) + (j - 1) >= k /\ m <= (i - 1) + (j - 1)
        BY <2>15, <2>16, <3>1
      <4>3. QED
        BY <4>1, <4>2
    <3>3. /\ x \in 1..(a + 1) /\ y \in 1..(b + 1) /\ (x - 1) + (y - 1) >= k + 1
          /\ l <= (x - 1) + (y - 1) /\ (x > a /\ y > b => l < (x - 1) + (y - 1))
      BY <2>2, <3>2
    <3>4. QED
      BY <3>1, <3>3
  <2>18. Settling(next, k + 1, over, under, O, U, left)
    BY <2>1, <2>9, <2>11, <2>12, <2>13, <2>14, <2>15, <2>17 DEF Settling
  <2>19. Balanced(next, D)
    <3> HIDE DEF signal
    <3>1. SumOver(Net(Append(loop.signals, signal), D), D) = SumOver(Net(loop.signals, D), D)
      BY <1>c, <2>6, <2>8, NetStays
    <3>2. QED
      BY <2>7, <3>1 DEF Balanced
  <2>20. QED
    BY <2>18, <2>19 DEF next
<1>3. QED
  BY <1>1, <1>2

(* The loop of rebalance_signals(), step by step. *)
LEMMA PairingSteps ==
  ASSUME NEW over, NEW under, NEW left, Len(over) \in Nat, Len(under) \in Nat
  PROVE  /\ Pairing(over, under, left)[0] = [i |-> 1, j |-> 1, left |-> left, signals |-> <<>>]
         /\ \A k \in 1..(Len(over) + Len(under)) :
              Pairing(over, under, left)[k] = Pair(Pairing(over, under, left)[k - 1], over, under)
<1> DEFINE start == [i |-> 1, j |-> 1, left |-> left, signals |-> <<>>]
           After(g, k) == IF k = 0 THEN start ELSE Pair(g[k - 1], over, under)
           Loop(m, g) == g = [k \in 0..m |-> After(g, k)]
<1>1. PICK n, loop : n \in Nat /\ n = Len(over) + Len(under) /\ loop = Pairing(over, under, left)
  OBVIOUS
<1> DEFINE Lengths == {m \in Nat : m <= n => \E g : Loop(m, g)}
<1>2. 0 \in Lengths
  <2>1. Loop(0, [k \in 0..0 |-> start])
    OBVIOUS
  <2>2. QED
    BY <2>1
<1>3. ASSUME NEW m \in Nat, m \in Lengths PROVE m + 1 \in Lengths
  <2>1. SUFFICES ASSUME m + 1 <= n PROVE \E g : Loop(m + 1, g)
    BY <1>1
  <2>2. PICK g : Loop(m, g)
    BY <1>1, <1>3, <2>1
  <2> DEFINE h == [k \in 0..(m + 1) |-> IF k = m + 1 THEN Pair(g[m], over, under) ELSE g[k]]
  <2>3. \A k \in 0..m : g[k] = After(g, k)
    BY <2>2
  <2>4. h[m + 1] = Pair(g[m], over, under) /\ \A k \in 0..m : h[k] = g[k]
    OBVIOUS
  <2>5. DOMAIN h = 0..(m + 1) /\ h = [k \in 0..(m + 1) |-> h[k]]
    OBVIOUS
  <2> HIDE DEF h
  <2>6. \A k \in 0..(m + 1) : k = m + 1 \/ k = 0 \/ (k \in 0..m /\ k - 1 \in 0..m)
    OBVIOUS
  <2>7. m + 1 # 0 /\ (m + 1) - 1 = m /\ m \in 0..m /\ 0 \in 0..m
    OBVIOUS
  <2>8. \A k \in 0..(m + 1) : h[k] = After(h, k)
    BY <2>3, <2>4, <2>6, <2>7
  <2>9. Loop(m + 1, h)
    BY <2>5, <2>8
  <2>10. QED
    BY <2>9
<1>4. Nat \subseteq Lengths
  BY <1>2, <1>3, Inductive
<1>5. \E g : Loop(n, g)
  BY <1>1, <1>4
<1>6. loop = CHOOSE g : Loop(n, g)
  BY <1>1 DEF Pairing
<1>7. Loop(n, loop)
  BY <1>5, <1>6
<1>8. 0 \in 0..n /\ \A k \in 1..n : k \in 0..n /\ k # 0
  BY <1>1
<1>9. \A k \in 0..n : loop[k] = After(loop, k)
  BY <1>7
<1>10. QED
  BY <1>1, <1>8, <1>9

(* The loop settles as many exchanges as it makes steps, or a whole list. *)
LEMMA PairingSettles ==
  ASSUME NEW over, NEW under, NEW O, NEW U, NEW left, Deal(over, under, O, U, left),
         NEW D, IsFiniteSet(D), O \cup U \subseteq D
  PROVE  LET n == Len(over) + Len(under)
             last == Pairing(over, under, left)[n]
         IN  Settling(last, n, over, under, O, U, left) /\ Balanced(last, D)
<1>1. Len(over) \in Nat /\ Len(under) \in Nat
  BY DEF Deal, Lists
<1>2. PICK n, loop : n \in Nat /\ n = Len(over) + Len(under) /\ loop = Pairing(over, under, left)
  BY <1>1
<1>3. /\ loop[0] = [i |-> 1, j |-> 1, left |-> left, signals |-> <<>>]
      /\ \A k \in 1..n : loop[k] = Pair(loop[k - 1], over, under)
  BY <1>1, <1>2, PairingSteps
<1> DEFINE Good == {k \in Nat : k <= n => /\ Settling(loop[k], k, over, under, O, U, left)
                                          /\ Balanced(loop[k], D)}
<1>4. 0 \in Good
  <2>1. PICK start : start = loop[0]
    OBVIOUS
  <2>2. start.i = 1 /\ start.j = 1 /\ start.left = left /\ start.signals = <<>>
    BY <1>3, <2>1
  <2>3. left \in [O \cup U -> Nat] /\ \A e \in O \cup U : left[e] \in Nat \ {0}
    BY DEF Deal
  <2>4. \A p \in 1..Len(over) : left[over[p]] > 0 <=> p >= 1
    <3>1. \A p \in 1..Len(over) : over[p] \in O
      BY DEF Deal, Lists
    <3>2. QED
      BY <1>1, <2>3, <3>1
  <2>5. \A p \in 1..Len(under) : left[under[p]] > 0 <=> p >= 1
    <3>1. \A p \in 1..Len(under) : under[p] \in U
      BY DEF Deal, Lists
    <3>2. QED
      BY <1>1, <2>3, <3>1
  <2>6. \A e \in O : left[e] = left[e] - Taken(<<>>, e)
    BY <2>3, NoSignals
  <2>7. \A e \in U : left[e] = left[e] - Brought(<<>>, e)
    BY <2>3, NoSignals
  <2>8. 1 \in 1..(Len(over) + 1) /\ 1 \in 1..(Len(under) + 1) /\ (1 - 1) + (1 - 1) >= 0
    BY <1>1
  <2>9. <<>> \in Seq(Signals(O, U)) /\ Len(<<>>) <= (1 - 1) + (1 - 1)
    OBVIOUS
  <2>10. Settling(start, 0, over, under, O, U, left)
    BY <2>2, <2>3, <2>4, <2>5, <2>6, <2>7, <2>8, <2>9 DEF Settling
  <2>11. Balanced(start, D)
    BY <2>2, NetOfNone DEF Balanced
  <2>12. QED
    BY <2>1, <2>10, <2>11
<1>5. ASSUME NEW k \in Nat, k \in Good PROVE k + 1 \in Good
  <2> SUFFICES ASSUME k + 1 <= n
               PROVE  Settling(loop[k + 1], k + 1, over, under, O, U, left) /\ Balanced(loop[k + 1], D)
    OBVIOUS
  <2>1. k <= n /\ k + 1 \in 1..n /\ (k + 1) - 1 = k
    BY <1>2
  <2>2. Settling(loop[k], k, over, under, O, U, left) /\ Balanced(loop[k], D)
    BY <1>5, <2>1
  <2>3. loop[k + 1] = Pair(loop[k], over, under)
    BY <1>3, <2>1
  <2> HIDE DEF Good
  <2>4. QED
    BY <2>2, <2>3, PairSettles
<1>6. Nat \subseteq Good
  <2> HIDE DEF Good
  <2>1. QED
    BY <1>4, <1>5, Inductive
<1>7. QED
  BY <1>2, <1>6

(* The outcome: one of the two lists is settled whole. *)
Settled(signals, O, U, left) ==
  /\ signals \in Seq(Signals(O, U))
  /\ \A e \in O : left[e] - Taken(signals, e) >= 0
  /\ \A e \in U : left[e] - Brought(signals, e) >= 0
  /\ \/ \A e \in O : left[e] - Taken(signals, e) = 0
     \/ \A e \in U : left[e] - Brought(signals, e) = 0
  /\ signals # <<>> => Len(signals) < Cardinality(O) + Cardinality(U)

(* At its end a whole list is settled. *)
LEMMA LoopSettles ==
  ASSUME NEW over, NEW under, NEW O, NEW U, NEW left, Deal(over, under, O, U, left),
         Len(over) = Cardinality(O), Len(under) = Cardinality(U),
         NEW D, IsFiniteSet(D), O \cup U \subseteq D
  PROVE  LET signals == Pairing(over, under, left)[Cardinality(O) + Cardinality(U)].signals
         IN  Settled(signals, O, U, left) /\ SumOver(Net(signals, D), D) = 0
<1>1. PICK a \in Nat, b \in Nat, n \in Nat : a = Len(over) /\ b = Len(under) /\ n = a + b
  BY DEF Deal, Lists
<1>2. PICK last : last = Pairing(over, under, left)[n]
  OBVIOUS
<1>3. Settling(last, n, over, under, O, U, left) /\ Balanced(last, D)
  BY <1>1, <1>2, PairingSettles
<1>4. PICK i, j, signals : i \in Int /\ j \in Int /\ i = last.i /\ j = last.j /\ signals = last.signals
  <2>1. last.i \in 1..(Len(over) + 1) /\ last.j \in 1..(Len(under) + 1)
    BY <1>3, Zenon DEF Settling
  <2>2. last.i \in Int /\ last.j \in Int
    BY <1>1, <2>1
  <2>3. QED
    BY <2>2
<1>5. i \in 1..(a + 1) /\ j \in 1..(b + 1) /\ ((i - 1) + (j - 1) >= n \/ i > a \/ j > b)
  <2>1. /\ last.i \in 1..(Len(over) + 1) /\ last.j \in 1..(Len(under) + 1)
        /\ (last.i - 1) + (last.j - 1) >= n \/ last.i > Len(over) \/ last.j > Len(under)
    BY <1>3, Zenon DEF Settling
  <2>2. QED
    BY <1>1, <1>4, <2>1
<1>6. i > a \/ j > b
  BY <1>1, <1>5
<1>7. /\ \A e \in O : last.left[e] \in Nat /\ last.left[e] = left[e] - Taken(signals, e)
      /\ \A e \in U : last.left[e] \in Nat /\ last.left[e] = left[e] - Brought(signals, e)
  BY <1>3, <1>4 DEF Settling
<1>8. ASSUME i > a PROVE \A e \in O : last.left[e] = 0
  <2> SUFFICES ASSUME NEW e \in O PROVE last.left[e] = 0
    OBVIOUS
  <2>1. PICK p \in 1..a : over[p] = e
    BY <1>1 DEF Deal, Lists
  <2>2. last.left[over[p]] > 0 <=> p >= i
    BY <1>1, <1>3, <1>4 DEF Settling
  <2>3. ~(last.left[e] > 0)
    BY <1>4, <1>8, <2>1, <2>2
  <2>4. QED
    BY <1>7, <2>3
<1>9. ASSUME j > b PROVE \A e \in U : last.left[e] = 0
  <2> SUFFICES ASSUME NEW e \in U PROVE last.left[e] = 0
    OBVIOUS
  <2>1. PICK p \in 1..b : under[p] = e
    BY <1>1 DEF Deal, Lists
  <2>2. last.left[under[p]] > 0 <=> p >= j
    BY <1>1, <1>3, <1>4 DEF Settling
  <2>3. ~(last.left[e] > 0)
    BY <1>4, <1>9, <2>1, <2>2
  <2>4. QED
    BY <1>7, <2>3
<1>10. /\ signals \in Seq(Signals(O, U)) /\ Len(signals) <= (i - 1) + (j - 1)
       /\ i > a /\ j > b /\ signals # <<>> => Len(signals) < (i - 1) + (j - 1)
  BY <1>1, <1>3, <1>4 DEF Settling
<1>11. signals # <<>> => Len(signals) < a + b
  <2>1. PICK l \in Nat : l = Len(signals)
    BY <1>10
  <2>2. QED
    BY <1>5, <1>10, <2>1
<1>12. Settled(signals, O, U, left)
  <2>1. \A e \in O : left[e] - Taken(signals, e) >= 0
    BY <1>7
  <2>2. \A e \in U : left[e] - Brought(signals, e) >= 0
    BY <1>7
  <2>3. \/ \A e \in O : left[e] - Taken(signals, e) = 0
        \/ \A e \in U : left[e] - Brought(signals, e) = 0
    BY <1>6, <1>7, <1>8, <1>9
  <2>4. QED
    BY <1>1, <1>10, <1>11, <2>1, <2>2, <2>3 DEF Settled
<1>13. SumOver(Net(signals, D), D) = 0
  BY <1>3, <1>4 DEF Balanced
<1>14. QED
  BY <1>1, <1>2, <1>4, <1>12, <1>13

-----------------------------------------------------------------------------
(* What is suggested for totals of exchanges D. *)

Excess(total, target, threshold) ==
  [e \in Over(total, target, threshold) \cup Under(total, target, threshold) |->
     IF e \in Over(total, target, threshold) THEN Deviation(total, target, e)
                                             ELSE -Deviation(total, target, e)]

(* The capital is the sum of the totals; deviations are integers. *)
LEMMA CapitalIs ==
  ASSUME NEW D \in SUBSET Int, IsFiniteSet(D), NEW total \in [D -> Int], NEW target \in [D -> Int]
  PROVE  /\ Capital(total) \in Int /\ Capital(total) = SumOver(total, D)
         /\ \A e \in D : Deviation(total, target, e) \in Int
<1>1. Capital(total) \in Int /\ Capital(total) = SumOver(total, D)
  BY SumType DEF Capital
<1>2. ASSUME NEW e \in D PROVE Deviation(total, target, e) \in Int
  <2>1. PICK x \in Int, y \in Int, c \in Int : x = total[e] /\ y = target[e] /\ c = Capital(total)
    BY <1>1
  <2>2. y * c \in Int
    OBVIOUS
  <2>3. QED
    BY <2>1, <2>2 DEF Deviation
<1>3. QED
  BY <1>1, <1>2

(* What rebalance_signals() returns settles one of its two lists. *)
LEMMA SignalsSettle ==
  ASSUME NEW D \in SUBSET Int, IsFiniteSet(D), NEW total \in [D -> Int], NEW target \in [D -> Int],
         NEW threshold \in Nat \ {0}, Capital(total) > 0
  PROVE  LET signals == RebalanceSignals(total, target, threshold)
             over == Over(total, target, threshold)
             under == Under(total, target, threshold)
         IN  /\ Settled(signals, over, under, Excess(total, target, threshold))
             /\ SumOver(Net(signals, D), D) = 0
             /\ over \in SUBSET D /\ under \in SUBSET D /\ over \cap under = {}
             /\ \A e \in over : Excess(total, target, threshold)[e] = Deviation(total, target, e)
             /\ \A e \in under : Excess(total, target, threshold)[e] = -Deviation(total, target, e)
<1> DEFINE over == Over(total, target, threshold)
           under == Under(total, target, threshold)
           left == Excess(total, target, threshold)
<1>1. PICK c \in Int : c = Capital(total) /\ c > 0
  BY CapitalIs
<1>2. PICK limit \in Nat : limit = threshold * c
  <2>1. threshold * c \in Nat
    BY <1>1
  <2>2. QED
    BY <2>1
<1>3. \A e \in D : Deviation(total, target, e) \in Int
  BY CapitalIs
<1>4. /\ over = {e \in Targeted(target) : Deviation(total, target, e) > limit}
      /\ under = {e \in Targeted(target) : -Deviation(total, target, e) > limit}
  BY <1>1, <1>2 DEF Over, Under
<1>5. Targeted(target) \in SUBSET D
  BY DEF Targeted
<1>6. left = [e \in over \cup under |->
               IF e \in over THEN Deviation(total, target, e) ELSE -Deviation(total, target, e)]
  BY DEF Excess
<1> HIDE DEF over, under, left
<1>7. over \in SUBSET D /\ under \in SUBSET D /\ over \cap under = {}
  <2>1. over \in SUBSET D /\ under \in SUBSET D
    BY <1>4, <1>5
  <2>2. ASSUME NEW e \in over, e \in under PROVE FALSE
    <3>1. PICK x \in Int : x = Deviation(total, target, e)
      BY <1>3, <2>1
    <3>2. x > limit /\ -x > limit
      BY <1>4, <2>2, <3>1
    <3>3. QED
      BY <3>2
  <2>3. QED
    BY <2>1, <2>2
<1>8. \A e \in over : left[e] = Deviation(total, target, e) /\ left[e] \in Nat \ {0}
  BY <1>3, <1>4, <1>6, <1>7
<1>9. \A e \in under : left[e] = -Deviation(total, target, e) /\ left[e] \in Nat \ {0}
  BY <1>3, <1>4, <1>6, <1>7
<1>10. left \in [over \cup under -> Nat \ {0}]
  BY <1>6, <1>8, <1>9
<1>11. IsFiniteSet(over) /\ IsFiniteSet(under) /\ over \in SUBSET Int /\ under \in SUBSET Int
  BY <1>7, FS_Subset
<1>12. /\ Lists(Sorted(over, left), over) /\ Len(Sorted(over, left)) = Cardinality(over)
       /\ Lists(Sorted(under, left), under) /\ Len(Sorted(under, left)) = Cardinality(under)
  <2>1. \A e \in over : left[e] \in Int
    BY <1>8
  <2>2. \A e \in under : left[e] \in Int
    BY <1>9
  <2>3. QED
    BY <1>11, <2>1, <2>2, SortedLists
<1>13. PICK o, u : o = Sorted(over, left) /\ u = Sorted(under, left)
  OBVIOUS
<1>14. Deal(o, u, over, under, left)
  BY <1>7, <1>10, <1>12, <1>13 DEF Deal
<1>15. RebalanceSignals(total, target, threshold)
         = Pairing(o, u, left)[Cardinality(over) + Cardinality(under)].signals
  BY <1>1, <1>6, <1>13 DEF RebalanceSignals, over, under
<1>16. over \cup under \subseteq D
  BY <1>7
<1>17. /\ Settled(RebalanceSignals(total, target, threshold), over, under, left)
       /\ SumOver(Net(RebalanceSignals(total, target, threshold), D), D) = 0
  BY <1>12, <1>13, <1>14, <1>15, <1>16, LoopSettles
<1>18. QED
  BY <1>7, <1>8, <1>9, <1>17 DEF over, under, left

(* RebalanceSettles of one call. *)
Settles(total, target, threshold) ==
  LET signals == RebalanceSignals(total, target, threshold)
      over == Over(total, target, threshold)
      under == Under(total, target, threshold)
      Left(e) == Deviation(total, target, e) - Taken(signals, e) + Brought(signals, e)
      moved == [e \in DOMAIN total |-> 100 * total[e] - Taken(signals, e) + Brought(signals, e)]
  IN  Capital(total) > 0 =>
        /\ \A i \in DOMAIN signals : /\ signals[i].amount > 0
                                     /\ signals[i].from \in over /\ signals[i].to \in under
        /\ \A e \in over : Left(e) >= 0
        /\ \A e \in under : Left(e) <= 0
        /\ (\A e \in over : Left(e) = 0) \/ (\A e \in under : Left(e) = 0)
        /\ RebalanceSignals(moved, target, threshold) = <<>>
        /\ signals # <<>> => Len(signals) < Cardinality(over) + Cardinality(under)

(* RebalanceSettles of every call. *)
LEMMA RebalanceIsSettled ==
  ASSUME NEW D \in SUBSET Int, IsFiniteSet(D), NEW total \in [D -> Int], NEW target \in [D -> Int],
         NEW threshold \in Nat \ {0}
  PROVE  Settles(total, target, threshold)
<1> SUFFICES ASSUME Capital(total) > 0 PROVE Settles(total, target, threshold)
  BY DEF Settles
<1> DEFINE signals == RebalanceSignals(total, target, threshold)
           over == Over(total, target, threshold)
           under == Under(total, target, threshold)
           excess == Excess(total, target, threshold)
           Left(e) == Deviation(total, target, e) - Taken(signals, e) + Brought(signals, e)
           moved == [e \in D |-> 100 * total[e] - Taken(signals, e) + Brought(signals, e)]
<1>1. /\ Settled(signals, over, under, excess) /\ SumOver(Net(signals, D), D) = 0
      /\ over \in SUBSET D /\ under \in SUBSET D /\ over \cap under = {}
      /\ \A e \in over : excess[e] = Deviation(total, target, e)
      /\ \A e \in under : excess[e] = -Deviation(total, target, e)
  BY SignalsSettle
<1>2. PICK c \in Int : c = Capital(total) /\ c > 0 /\ c = SumOver(total, D)
  BY CapitalIs
<1>3. PICK limit \in Nat : limit = threshold * c
  <2>1. threshold * c \in Nat
    BY <1>2
  <2>2. QED
    BY <2>1
<1>4. \A e \in D : Deviation(total, target, e) \in Int /\ total[e] \in Int /\ target[e] \in Int
  BY CapitalIs
<1>5. /\ over = {e \in Targeted(target) : Deviation(total, target, e) > limit}
      /\ under = {e \in Targeted(target) : -Deviation(total, target, e) > limit}
  BY <1>2, <1>3 DEF Over, Under
<1> HIDE DEF over, under, excess, signals
<1>6. signals \in Seq(Signals(over, under))
  BY <1>1 DEF Settled
<1>7. \A i \in DOMAIN signals : /\ signals[i].amount > 0
                                /\ signals[i].from \in over /\ signals[i].to \in under
  <2>1. \A i \in DOMAIN signals : signals[i] \in Signals(over, under)
    BY <1>6
  <2>2. QED
    BY <2>1 DEF Signals
<1>8. ASSUME NEW e \in D
      PROVE  /\ Taken(signals, e) \in Int /\ Brought(signals, e) \in Int
             /\ e \notin over => Taken(signals, e) = 0
             /\ e \notin under => Brought(signals, e) = 0
  <2>1. PICK from, to : /\ from = {i \in DOMAIN signals : signals[i].from = e}
                        /\ to = {i \in DOMAIN signals : signals[i].to = e}
    OBVIOUS
  <2>2. from \in SUBSET DOMAIN signals /\ to \in SUBSET DOMAIN signals
    BY <2>1
  <2>3. SumOver(Volumes(signals), from) \in Int /\ SumOver(Volumes(signals), to) \in Int
    BY <1>6, <2>2, VolumesOf
  <2>4. Taken(signals, e) \in Int /\ Brought(signals, e) \in Int
    BY <2>1, <2>3 DEF Taken, Brought
  <2>5. QED
    BY <1>6, <2>4, OthersKeep
<1>9. \A e \in over : e \in D /\ e \notin under /\ Left(e) = excess[e] - Taken(signals, e)
  BY <1>1, <1>4, <1>8
<1>10. \A e \in under : e \in D /\ e \notin over /\ Left(e) = -(excess[e] - Brought(signals, e))
  BY <1>1, <1>4, <1>8
<1>11. \A e \in D : Left(e) \in Int
  BY <1>4, <1>8
<1>12. /\ \A e \in over : excess[e] - Taken(signals, e) >= 0
       /\ \A e \in under : excess[e] - Brought(signals, e) >= 0
       /\ \/ \A e \in over : excess[e] - Taken(signals, e) = 0
          \/ \A e \in under : excess[e] - Brought(signals, e) = 0
       /\ signals # <<>> => Len(signals) < Cardinality(over) + Cardinality(under)
  BY <1>1 DEF Settled
<1>13. \A e \in over : Left(e) >= 0
  BY <1>9, <1>12
<1>14. \A e \in under : excess[e] - Brought(signals, e) \in Int
  BY <1>1, <1>4, <1>8, <1>10
<1>15. \A e \in under : Left(e) <= 0
  <2> SUFFICES ASSUME NEW e \in under PROVE Left(e) <= 0
    OBVIOUS
  <2>1. PICK x \in Int : x = excess[e] - Brought(signals, e) /\ x >= 0 /\ Left(e) = -x
    BY <1>10, <1>12, <1>14
  <2>2. QED
    BY <2>1
<1>16. (\A e \in over : Left(e) = 0) \/ (\A e \in under : Left(e) = 0)
  <2>1. \A e \in under : excess[e] - Brought(signals, e) = 0 => Left(e) = 0
    BY <1>10
  <2>2. \A e \in over : excess[e] - Taken(signals, e) = 0 => Left(e) = 0
    BY <1>9
  <2>3. QED
    BY <1>12, <2>1, <2>2
<1>17. Capital(moved) = 100 * c /\ moved \in [D -> Int]
  <2>1. \A e \in D : moved[e] = Net(signals, D)[e] + 100 * total[e] /\ Net(signals, D)[e] \in Int
    BY <1>4, <1>8 DEF Net
  <2>2. moved \in [D -> Int]
    BY <1>4, <1>8
  <2>3. DOMAIN moved = D
    OBVIOUS
  <2>4. Numbers(total, D) /\ Numbers(Net(signals, D), D) /\ Combines(moved, Net(signals, D), 100, total, D)
    BY <1>4, <2>1 DEF Numbers, Combines
  <2> HIDE DEF moved
  <2>5. SumOver(moved, D) = SumOver(Net(signals, D), D) + 100 * SumOver(total, D)
    BY <2>4, SumCombines
  <2>6. QED
    BY <1>1, <1>2, <2>2, <2>3, <2>5 DEF Capital
<1>18. \A e \in D : Deviation(moved, target, e) = 100 * Left(e)
  <2> SUFFICES ASSUME NEW e \in D PROVE Deviation(moved, target, e) = 100 * Left(e)
    OBVIOUS
  <2>1. PICK t \in Int, b \in Int, x \in Int, y \in Int :
          t = Taken(signals, e) /\ b = Brought(signals, e) /\ x = total[e] /\ y = target[e]
    BY <1>4, <1>8
  <2>2. PICK yc \in Int : yc = y * c
    OBVIOUS
  <2>3. Left(e) = 100 * x - yc - t + b
    BY <1>2, <2>1, <2>2 DEF Deviation
  <2>4. Deviation(moved, target, e) = 100 * (100 * x - t + b) - y * (100 * c)
    BY <1>17, <2>1 DEF Deviation
  <2>5. y * (100 * c) = 100 * yc
    BY <2>2
  <2>6. QED
    BY <2>3, <2>4, <2>5
<1> DEFINE over2 == Over(moved, target, threshold)
           under2 == Under(moved, target, threshold)
           signals2 == RebalanceSignals(moved, target, threshold)
<1> HIDE DEF moved
<1>19. Capital(moved) > 0 /\ threshold * Capital(moved) = 100 * limit
  <2>1. threshold * (100 * c) = 100 * limit
    BY <1>3
  <2>2. QED
    BY <1>2, <1>17, <2>1
<1>20. /\ over2 = {e \in Targeted(target) : 100 * Left(e) > 100 * limit}
       /\ under2 = {e \in Targeted(target) : -(100 * Left(e)) > 100 * limit}
  <2>1. Targeted(target) \subseteq D
    BY DEF Targeted
  <2>2. QED
    BY <1>18, <1>19, <2>1 DEF Over, Under
<1>21. \A e \in Targeted(target) : e \in D
  BY DEF Targeted
<1>22. \A e \in D : e \notin over /\ e \notin under => Left(e) = Deviation(total, target, e)
  BY <1>4, <1>8
<1>23. ASSUME NEW e \in over2 PROVE e \in over /\ Left(e) # 0
  <2>1. e \in Targeted(target) /\ e \in D /\ Left(e) > limit /\ Left(e) \in Int
    <3>1. e \in Targeted(target) /\ e \in D /\ 100 * Left(e) > 100 * limit
      BY <1>20, <1>21
    <3>2. PICK x \in Int : x = Left(e)
      BY <1>11, <3>1
    <3>3. x > limit
      BY <3>1, <3>2
    <3>4. QED
      BY <3>1, <3>2, <3>3
  <2>2. e \notin under
    BY <1>15, <2>1
  <2>3. QED
    BY <1>4, <1>5, <1>22, <2>1, <2>2
<1>24. ASSUME NEW e \in under2 PROVE e \in under /\ Left(e) # 0
  <2>1. e \in Targeted(target) /\ e \in D /\ -Left(e) > limit /\ Left(e) \in Int
    <3>1. e \in Targeted(target) /\ e \in D /\ -(100 * Left(e)) > 100 * limit
      BY <1>20, <1>21
    <3>2. PICK x \in Int : x = Left(e)
      BY <1>11, <3>1
    <3>3. -x > limit
      BY <3>1, <3>2
    <3>4. QED
      BY <3>1, <3>2, <3>3
  <2>2. e \notin over
    BY <1>13, <2>1
  <2>3. QED
    BY <1>4, <1>5, <1>22, <2>1, <2>2
<1>25. over2 = {} \/ under2 = {}
  BY <1>16, <1>23, <1>24
<1>26. signals2 \in Seq(Signals(over2, under2))
  BY <1>17, <1>19, SignalsSettle DEF Settled
<1> HIDE DEF over2, under2, signals2
<1>27. signals2 = <<>>
  <2>1. \A i \in DOMAIN signals2 : signals2[i] \in Signals(over2, under2)
    BY <1>26
  <2>2. Signals(over2, under2) = {}
    BY <1>25 DEF Signals
  <2>3. DOMAIN signals2 = {}
    BY <2>1, <2>2
  <2>4. QED
    BY <1>26, <2>3
<1>28. DOMAIN total = D
  OBVIOUS
<1>29. QED
  BY <1>7, <1>12, <1>13, <1>15, <1>16, <1>27, <1>28 DEF Settles, signals, over, under, moved, signals2

-----------------------------------------------------------------------------
(* The rows of a chart. *)

Below(S, t) == {u \in S : u < t}

(* The rank of a row grows with its time and is less than their number. *)
LEMMA Ranks ==
  ASSUME NEW S \in SUBSET Int, IsFiniteSet(S), NEW t \in Int
  PROVE  /\ IsFiniteSet(Below(S, t)) /\ Cardinality(Below(S, t)) \in Nat
         /\ t \in S => Cardinality(Below(S, t)) < Cardinality(S)
         /\ \A s \in S : s < t => Cardinality(Below(S, s)) < Cardinality(Below(S, t))
<1>1. \A x \in Int : /\ IsFiniteSet(Below(S, x)) /\ Cardinality(Below(S, x)) \in Nat
                     /\ x \notin Below(S, x)
  <2> SUFFICES ASSUME NEW x \in Int
               PROVE  /\ IsFiniteSet(Below(S, x)) /\ Cardinality(Below(S, x)) \in Nat
                      /\ x \notin Below(S, x)
    OBVIOUS
  <2>1. Below(S, x) \in SUBSET S /\ x \notin Below(S, x)
    BY DEF Below
  <2>2. QED
    BY <2>1, FS_Subset, FS_CardinalityType
<1>2. ASSUME NEW s \in S, NEW T \in SUBSET S, Below(S, s) \in SUBSET T, s \in T
      PROVE  Cardinality(Below(S, s)) < Cardinality(T)
  <2>1. IsFiniteSet(T) /\ Cardinality(T) \in Nat
    BY FS_Subset, FS_CardinalityType
  <2>2. Below(S, s) \cup {s} \in SUBSET T
    BY <1>2
  <2>3. Cardinality(Below(S, s) \cup {s}) = Cardinality(Below(S, s)) + 1
    BY <1>1, FS_AddElement
  <2>4. Cardinality(Below(S, s) \cup {s}) <= Cardinality(T)
    BY <2>1, <2>2, FS_Subset
  <2>5. QED
    BY <1>1, <2>1, <2>3, <2>4
<1>3. t \in S => Cardinality(Below(S, t)) < Cardinality(S)
  <2>1. Below(S, t) \in SUBSET S
    BY DEF Below
  <2>2. QED
    BY <1>2, <2>1
<1>4. ASSUME NEW s \in S, s < t PROVE Cardinality(Below(S, s)) < Cardinality(Below(S, t))
  <2>1. /\ Below(S, t) \in SUBSET S /\ s \in Below(S, t)
        /\ \A u \in Below(S, s) : u \in S /\ u < s
    BY <1>4 DEF Below
  <2>2. \A u \in Below(S, s) : u \in Below(S, t)
    BY <1>4, <2>1 DEF Below
  <2>3. QED
    BY <1>2, <2>1, <2>2
<1>5. QED
  BY <1>1, <1>3, <1>4

(* Values that lie apart are in different intervals of a period. *)
LEMMA Apart ==
  ASSUME NEW width \in Nat \ {0}, NEW x \in Int, NEW y \in Int, y - x >= width
  PROVE  x \div width # y \div width
<1>1. PICK p \in Int, r \in 0..(width - 1) : p = x \div width /\ x = width * p + r
  OBVIOUS
<1>2. PICK q \in Int, s \in 0..(width - 1) : q = y \div width /\ y = width * q + s
  OBVIOUS
<1>3. SUFFICES ASSUME p = q PROVE FALSE
  BY <1>1, <1>2
<1>4. PICK z \in Int : z = width * p /\ z = width * q
  BY <1>3
<1>5. x = z + r /\ y = z + s
  BY <1>1, <1>2, <1>4
<1>6. QED
  BY <1>5


(* A limit that is not exceeded keeps all rows. *)
LEMMA FirstAll ==
  ASSUME NEW S \in SUBSET Int, IsFiniteSet(S), NEW n \in Nat, Cardinality(S) <= n
  PROVE  FirstOf(S, n) = S
<1>1. ASSUME NEW t \in S PROVE Cardinality({u \in S : u < t}) < n
  <2>1. /\ Cardinality(Below(S, t)) \in Nat /\ Cardinality(S) \in Nat
        /\ Cardinality(Below(S, t)) < Cardinality(S)
    BY Ranks, FS_CardinalityType
  <2>2. QED
    BY <2>1 DEF Below
<1>2. QED
  BY <1>1 DEF FirstOf

(* The rows within a limit come before those beyond it. *)
LEMMA FirstAreFirst ==
  ASSUME NEW S \in SUBSET Int, IsFiniteSet(S), NEW n \in Nat,
         NEW t \in S \ FirstOf(S, n), NEW u \in FirstOf(S, n)
  PROVE  u < t
<1>1. u \in S /\ Cardinality(Below(S, u)) < n /\ ~(Cardinality(Below(S, t)) < n)
  BY DEF FirstOf, Below
<1>2. Cardinality(Below(S, u)) \in Nat /\ Cardinality(Below(S, t)) \in Nat
  BY <1>1, Ranks
<1>3. t < u => Cardinality(Below(S, t)) < Cardinality(Below(S, u))
  BY <1>1, Ranks
<1>4. ~(t < u) /\ t # u
  BY <1>1, <1>2, <1>3
<1>5. QED
  BY <1>1, <1>4

(* As many as asked for, where there are more. *)
LEMMA FirstCount ==
  ASSUME NEW S \in SUBSET Int, IsFiniteSet(S), NEW n \in Nat
  PROVE  /\ FirstOf(S, n) \in SUBSET S /\ IsFiniteSet(FirstOf(S, n))
         /\ Cardinality(FirstOf(S, n)) \in Nat /\ Cardinality(FirstOf(S, n)) <= n
         /\ FirstOf(S, n) # S => Cardinality(FirstOf(S, n)) = n
<1> DEFINE F == FirstOf(S, n)
           rank == [t \in F |-> Cardinality(Below(S, t))]
<1>1. F \in SUBSET S /\ \A t \in S : t \in F <=> Cardinality(Below(S, t)) < n
  BY DEF FirstOf, Below
<1>2. IsFiniteSet(F) /\ Cardinality(F) \in Nat
  BY <1>1, FS_Subset, FS_CardinalityType
<1> HIDE DEF F
<1>3. \A t \in F : rank[t] \in 0..(n - 1)
  <2> SUFFICES ASSUME NEW t \in F PROVE rank[t] \in 0..(n - 1)
    OBVIOUS
  <2>1. Cardinality(Below(S, t)) \in Nat
    BY <1>1, Ranks
  <2>2. Cardinality(Below(S, t)) < n
    BY <1>1
  <2>3. QED
    BY <2>1, <2>2
<1>4. ASSUME NEW s \in F, NEW t \in F, s < t PROVE rank[s] # rank[t]
  <2>1. Cardinality(Below(S, s)) < Cardinality(Below(S, t))
    BY <1>1, <1>4, Ranks
  <2>2. Cardinality(Below(S, s)) \in Nat /\ Cardinality(Below(S, t)) \in Nat
    BY <1>1, Ranks
  <2>3. QED
    BY <2>1, <2>2
<1>5. rank \in Injection(F, 0..(n - 1))
  <2>1. rank \in [F -> 0..(n - 1)]
    BY <1>3
  <2> HIDE DEF rank
  <2>2. \A s, t \in F : s # t => s < t \/ t < s
    BY <1>1
  <2>3. \A s, t \in F : rank[s] = rank[t] => s = t
    BY <1>4, <2>2
  <2>4. QED
    BY <2>1, <2>3 DEF Injection, IsInjective
<1>6. IsFiniteSet(0..(n - 1)) /\ Cardinality(0..(n - 1)) = n
  <2>1. 0 \in Int /\ n - 1 \in Int
    OBVIOUS
  <2>2. QED
    BY <2>1, FS_Interval
<1>7. Cardinality(F) <= n
  BY <1>5, <1>6, FS_Injection
<1>8. ASSUME F # S PROVE Cardinality(F) >= n
  <2>1. PICK t \in S \ F : TRUE
    BY <1>1, <1>8
  <2>2. \A u \in F : u < t
    BY <2>1, FirstAreFirst DEF F
  <2>3. SUFFICES ASSUME Cardinality(F) < n PROVE FALSE
    BY <1>2
  <2> DEFINE Lost(r) == \E s \in S \ F : Cardinality(Below(S, s)) = r
             Ranked == {r \in Nat : Lost(r)}
  <2>4. Ranked \in SUBSET Nat /\ Ranked # {}
    <3>1. Cardinality(Below(S, t)) \in Nat
      BY <2>1, Ranks
    <3>2. QED
      BY <2>1, <3>1
  <2>5. PICK least \in Ranked : \A r \in Ranked : least <= r
    BY <2>4, Smallest
  <2>6. PICK s \in S \ F : Cardinality(Below(S, s)) = least
    BY <2>5
  <2>7. \A u \in Below(S, s) : u \in F
    <3> SUFFICES ASSUME NEW u \in Below(S, s), u \notin F PROVE FALSE
      OBVIOUS
    <3>1. u \in S \ F /\ u < s
      BY DEF Below
    <3>2. Cardinality(Below(S, u)) \in Nat /\ Cardinality(Below(S, u)) < least
      BY <2>6, <3>1, Ranks
    <3>3. Cardinality(Below(S, u)) \in Ranked
      BY <3>1, <3>2
    <3> HIDE DEF Ranked
    <3>4. QED
      BY <2>4, <2>5, <3>2, <3>3
  <2>8. Cardinality(Below(S, s)) <= Cardinality(F)
    BY <1>2, <2>7, FS_Subset
  <2>9. Cardinality(Below(S, s)) \in Nat
    BY <2>6, Ranks
  <2>10. Cardinality(Below(S, s)) < n
    BY <1>2, <2>3, <2>8, <2>9
  <2>11. QED
    BY <1>1, <2>6, <2>10
<1>9. QED
  BY <1>1, <1>2, <1>7, <1>8 DEF F

(* One query with a row to spare: rows S, of which m may be returned. *)
LEMMA OneMoreRow ==
  ASSUME NEW S \in SUBSET Int, IsFiniteSet(S), NEW m \in Nat
  PROVE  LET fetched == FirstOf(S, m + 1)
             points == FirstOf(fetched, m)
         IN  /\ Cardinality(fetched) > m <=> S \ points # {}
             /\ \A t \in S \ points, u \in points : u < t
             /\ Cardinality(S) <= m + 1 => Cardinality(S \ points) <= 1
<1> DEFINE fetched == FirstOf(S, m + 1)
           points == FirstOf(fetched, m)
<1>1. /\ fetched \in SUBSET S /\ IsFiniteSet(fetched) /\ fetched \in SUBSET Int
      /\ Cardinality(fetched) \in Nat /\ (fetched # S => Cardinality(fetched) = m + 1)
  <2>1. m + 1 \in Nat
    OBVIOUS
  <2>2. QED
    BY <2>1, FirstCount
<1>2. ASSUME NEW t \in S \ fetched, NEW u \in fetched PROVE u < t
  BY <1>2, FirstAreFirst
<1> HIDE DEF fetched
<1>3. /\ points \in SUBSET fetched /\ Cardinality(points) \in Nat /\ Cardinality(points) <= m
      /\ points # fetched => Cardinality(points) = m
  BY <1>1, FirstCount
<1>4. ASSUME NEW t \in fetched \ points, NEW u \in points PROVE u < t
  BY <1>1, <1>4, FirstAreFirst
<1>5. Cardinality(fetched) <= m => points = fetched
  BY <1>1, FirstAll
<1> HIDE DEF points
<1>6. Cardinality(fetched) > m <=> S \ points # {}
  <2>1. ASSUME Cardinality(fetched) > m PROVE S \ points # {}
    <3>1. points # fetched
      BY <1>1, <1>3, <2>1
    <3>2. QED
      BY <1>1, <1>3, <3>1
  <2>2. ASSUME ~(Cardinality(fetched) > m) PROVE S \ points = {}
    <3>1. Cardinality(fetched) <= m /\ Cardinality(fetched) # m + 1
      BY <1>1, <2>2
    <3>2. QED
      BY <1>1, <1>5, <3>1
  <2>3. QED
    BY <2>1, <2>2
<1>7. ASSUME NEW t \in S \ points, NEW u \in points PROVE u < t
  BY <1>2, <1>3, <1>4, <1>7
<1>8. ASSUME Cardinality(S) <= m + 1 PROVE Cardinality(S \ points) <= 1
  <2>1. fetched = S
    <3>1. m + 1 \in Nat
      OBVIOUS
    <3>2. QED
      BY <1>8, <3>1, FirstAll DEF fetched
  <2>2. Cardinality(S \ points) = Cardinality(S) - Cardinality(points) /\ Cardinality(S) \in Nat
    <3>1. S \cap points = points
      BY <1>3, <2>1
    <3>2. Cardinality(S \ points) = Cardinality(S) - Cardinality(S \cap points)
      BY FS_Difference
    <3>3. Cardinality(S) \in Nat
      BY FS_CardinalityType
    <3>4. QED
      BY <3>1, <3>2, <3>3
  <2>3. CASE points = S
    <3>1. S \ points = {} /\ Cardinality({}) = 0
      BY <2>3, FS_EmptySet
    <3>2. QED
      BY <3>1
  <2>4. CASE points # S
    BY <1>3, <1>8, <2>1, <2>2, <2>4
  <2>5. QED
    BY <2>3, <2>4
<1>9. QED
  BY <1>6, <1>7, <1>8 DEF points, fetched

(* Two queries with a row to spare each, and what both have. *)
LEMMA TwoSides ==
  ASSUME NEW A \in SUBSET Int, IsFiniteSet(A), NEW B \in SUBSET Int, IsFiniteSet(B), NEW m \in Nat
  PROVE  LET buy == FirstOf(A, m + 1)
             sell == FirstOf(B, m + 1)
             points == FirstOf(buy \cap sell, m)
             lost == (A \cap B) \ points
         IN  /\ lost # {} => Cardinality(buy) > m \/ Cardinality(sell) > m
             /\ \A t \in lost, u \in points : u < t
<1> DEFINE buy == FirstOf(A, m + 1)
           sell == FirstOf(B, m + 1)
           fetched == buy \cap sell
           points == FirstOf(fetched, m)
<1>0. m + 1 \in Nat
  OBVIOUS
<1>1. /\ buy \in SUBSET A /\ IsFiniteSet(buy) /\ Cardinality(buy) \in Nat
      /\ buy # A => Cardinality(buy) = m + 1
  BY <1>0, FirstCount
<1>2. /\ sell \in SUBSET B /\ IsFiniteSet(sell) /\ Cardinality(sell) \in Nat
      /\ sell # B => Cardinality(sell) = m + 1
  BY <1>0, FirstCount
<1>3. ASSUME NEW t \in A \ buy, NEW u \in buy PROVE u < t
  BY <1>0, <1>3, FirstAreFirst
<1>4. ASSUME NEW t \in B \ sell, NEW u \in sell PROVE u < t
  BY <1>0, <1>4, FirstAreFirst
<1> HIDE DEF buy, sell
<1>5. fetched \in SUBSET buy /\ fetched \in SUBSET sell /\ IsFiniteSet(fetched) /\ fetched \in SUBSET Int
  BY <1>1, FS_Subset
<1>6. Cardinality(fetched) \in Nat /\ Cardinality(fetched) <= Cardinality(buy)
  BY <1>1, <1>5, FS_Subset, FS_CardinalityType
<1>7. ASSUME NEW t \in fetched \ points, NEW u \in points PROVE u < t
  BY <1>5, <1>7, FirstAreFirst
<1>8. points \in SUBSET fetched
  BY <1>5, FirstCount
<1>9. Cardinality(fetched) <= m => points = fetched
  BY <1>5, FirstAll
<1> HIDE DEF points
<1>10. ASSUME ~(Cardinality(buy) > m \/ Cardinality(sell) > m) PROVE (A \cap B) \ points = {}
  <2>1. buy = A /\ sell = B
    BY <1>1, <1>2, <1>10
  <2>2. Cardinality(fetched) <= m
    BY <1>1, <1>6, <1>10
  <2>3. QED
    BY <1>9, <2>1, <2>2
<1>11. ASSUME NEW t \in (A \cap B) \ points, NEW u \in points PROVE u < t
  <2>1. u \in buy /\ u \in sell
    BY <1>5, <1>8
  <2>2. t \in A \ buy \/ t \in B \ sell \/ t \in fetched \ points
    BY <1>11
  <2>3. QED
    BY <1>3, <1>4, <1>7, <1>11, <2>1, <2>2
<1>12. QED
  BY <1>10, <1>11 DEF points, fetched, buy, sell

(* A later time is in no earlier interval. *)
LEMMA DivisionGrows ==
  ASSUME NEW width \in Nat \ {0}, NEW x \in Nat, NEW y \in Nat, x <= y
  PROVE  x \div width \in 0..(y \div width)
<1>1. PICK p \in Int, r \in 0..(width - 1) : p = x \div width /\ x = width * p + r
  OBVIOUS
<1>2. PICK q \in Int, s \in 0..(width - 1) : q = y \div width /\ y = width * q + s
  OBVIOUS
<1>3. p >= 0
  <2>1. SUFFICES ASSUME p <= -1 PROVE FALSE
    BY <1>1
  <2>2. width * p <= -width
    BY <2>1
  <2>3. PICK z \in Int : z = width * p
    BY <1>1
  <2>4. QED
    BY <1>1, <2>2, <2>3
<1>4. p <= q
  <2>1. SUFFICES ASSUME p >= q + 1 PROVE FALSE
    BY <1>1, <1>2
  <2>2. PICK z \in Int, v \in Int : z = width * p /\ v = width * q
    OBVIOUS
  <2>3. width * p >= width * (q + 1)
    BY <2>1
  <2>4. width * (q + 1) = v + width
    BY <2>2
  <2>5. QED
    BY <1>1, <1>2, <2>2, <2>3, <2>4
<1>5. QED
  BY <1>1, <1>2, <1>3, <1>4

(* Rows that lie apart: at most one more than whole intervals. *)
LEMMA RowsFit ==
  ASSUME NEW width \in Nat \ {0}, NEW from \in Int, NEW to \in Int, NEW m \in Nat,
         (to - from) \div width <= m,
         NEW S \in SUBSET Int, \A t \in S : from <= t /\ t < to,
         \A s, t \in S : s < t => t - s >= width
  PROVE  Cardinality(S) <= m + 1
<1> DEFINE slot == [t \in S |-> (t - from) \div width]
<1>1. ASSUME NEW t \in S PROVE (t - from) \div width \in 0..m
  <2>1. PICK x \in Nat, y \in Nat : x = t - from /\ y = to - from /\ x <= y
    OBVIOUS
  <2>2. x \div width \in 0..(y \div width) /\ y \div width \in Int
    BY <2>1, DivisionGrows
  <2>3. QED
    BY <2>1, <2>2
<1>2. ASSUME NEW s \in S, NEW t \in S, s < t PROVE (s - from) \div width # (t - from) \div width
  <2>1. PICK x \in Int, y \in Int : x = s - from /\ y = t - from /\ y - x >= width
    BY <1>2
  <2>2. x \div width # y \div width
    BY <2>1, Apart
  <2>3. QED
    BY <2>1, <2>2
<1>3. slot \in [S -> 0..m]
  BY <1>1
<1>4. \A s, t \in S : slot[s] = slot[t] => s = t
  <2>1. \A s, t \in S : s # t => s < t \/ t < s
    OBVIOUS
  <2>2. \A s \in S : slot[s] = (s - from) \div width
    OBVIOUS
  <2> HIDE DEF slot
  <2>3. QED
    BY <1>2, <2>1, <2>2
<1> HIDE DEF slot
<1>5. slot \in Injection(S, 0..m)
  BY <1>3, <1>4 DEF Injection, IsInjective
<1>6. IsFiniteSet(0..m) /\ Cardinality(0..m) = m + 1
  <2>1. 0 \in Int /\ m \in Int
    OBVIOUS
  <2>2. QED
    BY <2>1, FS_Interval
<1>7. QED
  BY <1>5, <1>6, FS_Injection

(* Buckets start at multiples of their interval. *)
LEMMA BucketsApart ==
  ASSUME NEW width \in Nat \ {0}, NEW s \in Int, NEW t \in Int, s - (s % width) < t - (t % width)
  PROVE  (t - (t % width)) - (s - (s % width)) >= width
<1>1. PICK p \in Int : s - (s % width) = width * p
  <2>1. PICK d \in Int, r \in Int : d = s \div width /\ r = s % width /\ s = width * d + r
    OBVIOUS
  <2>2. s - (s % width) = width * d
    <3>1. PICK z \in Int : z = width * d
      OBVIOUS
    <3>2. QED
      BY <2>1, <3>1
  <2>3. QED
    BY <2>2
<1>2. PICK q \in Int : t - (t % width) = width * q
  <2>1. PICK d \in Int, r \in Int : d = t \div width /\ r = t % width /\ t = width * d + r
    OBVIOUS
  <2>2. t - (t % width) = width * d
    <3>1. PICK z \in Int : z = width * d
      OBVIOUS
    <3>2. QED
      BY <2>1, <3>1
  <2>3. QED
    BY <2>2
<1>3. width * p < width * q
  BY <1>1, <1>2
<1>4. p < q
  BY <1>3
<1>5. width * (q - p) >= width
  BY <1>4
<1>6. width * (q - p) = width * q - width * p
  OBVIOUS
<1>7. QED
  BY <1>1, <1>2, <1>5, <1>6

(* choose_interval() chooses one of the intervals. *)
LEMMA LevelChosen ==
  ASSUME NEW from \in Int, NEW to \in Int, NEW maxPoints \in Int,
         NEW wanted \in {AutoInterval} \cup DOMAIN Intervals
  PROVE  ChooseInterval(from, to, maxPoints, wanted) \in DOMAIN Intervals
<1>1. DOMAIN Intervals = 1..Len(Intervals) /\ Len(Intervals) \in DOMAIN Intervals
  BY IntervalsAssumption
<1> DEFINE fitting == {i \in DOMAIN Intervals : Fits(i, from, to, maxPoints)}
<1>2. ASSUME fitting # {} PROVE Min(fitting) \in DOMAIN Intervals
  <2>1. fitting \in SUBSET Nat /\ fitting \in SUBSET Int /\ fitting \in SUBSET DOMAIN Intervals
    BY <1>1, IntervalsAssumption
  <2> HIDE DEF fitting
  <2>2. PICK n \in fitting : \A i \in fitting : n <= i
    BY <1>2, <2>1, Smallest
  <2>3. Min(fitting) = n
    BY <2>1, <2>2, MinIs
  <2>4. QED
    BY <2>1, <2>2, <2>3
<1>3. wanted # AutoInterval => wanted \in DOMAIN Intervals
  OBVIOUS
<1>4. QED
  BY <1>1, <1>2, <1>3 DEF ChooseInterval

(* The rows of a level are finitely many, and apart where the samples are. *)
LEMMA RowsAre ==
  ASSUME NEW level \in DOMAIN Intervals, NEW horizon \in Nat, NEW samples \in SUBSET (0..horizon)
  PROVE  /\ RowsAt(level, samples) \in SUBSET Int /\ IsFiniteSet(RowsAt(level, samples))
         /\ (\A s, t \in samples : s < t => t - s >= Intervals[1]) =>
              \A s, t \in RowsAt(level, samples) : s < t => t - s >= Intervals[level]
<1>1. PICK width \in Nat \ {0} : width = Intervals[level]
  BY IntervalsAssumption
<1>2. CASE level = 1
  <2>1. RowsAt(level, samples) = samples
    BY <1>2 DEF RowsAt
  <2>2. IsFiniteSet(0..horizon)
    <3>1. 0 \in Int /\ horizon \in Int
      OBVIOUS
    <3>2. QED
      BY <3>1, FS_Interval
  <2>3. IsFiniteSet(samples) /\ samples \in SUBSET Int
    <3>1. \A t \in samples : t \in Int
      OBVIOUS
    <3>2. IsFiniteSet(samples)
      BY <2>2, FS_Subset
    <3>3. QED
      BY <3>1, <3>2
  <2>4. QED
    BY <1>2, <2>1, <2>3
<1>3. CASE level # 1
  <2>1. RowsAt(level, samples) = {t - (t % width) : t \in samples}
    BY <1>1, <1>3 DEF RowsAt
  <2>2. \A t \in samples : t \in Int /\ t - (t % width) \in (-width)..horizon
    <3> SUFFICES ASSUME NEW t \in samples PROVE t \in Int /\ t - (t % width) \in (-width)..horizon
      OBVIOUS
    <3>1. t \in 0..horizon /\ t % width \in 0..(width - 1)
      OBVIOUS
    <3>2. QED
      BY <3>1
  <2>3. IsFiniteSet((-width)..horizon) /\ (-width)..horizon \in SUBSET Int
    <3>1. -width \in Int /\ horizon \in Int
      OBVIOUS
    <3>2. QED
      BY <3>1, FS_Interval
  <2>4. RowsAt(level, samples) \in SUBSET ((-width)..horizon)
    BY <2>1, <2>2
  <2>5. RowsAt(level, samples) \in SUBSET Int /\ IsFiniteSet(RowsAt(level, samples))
    BY <2>3, <2>4, FS_Subset
  <2>6. ASSUME NEW x \in RowsAt(level, samples), NEW y \in RowsAt(level, samples), x < y
        PROVE  y - x >= width
    <3>1. PICK s \in samples, t \in samples : x = s - (s % width) /\ y = t - (t % width)
      BY <2>1
    <3>2. QED
      BY <2>2, <2>6, <3>1, BucketsApart
  <2>7. QED
    BY <1>1, <2>5, <2>6
<1>4. QED
  BY <1>2, <1>3

(* The rows of a period are rows, within it. *)
LEMMA PeriodRows ==
  ASSUME NEW rows \in SUBSET Int, IsFiniteSet(rows), NEW from, NEW to
  PROVE  /\ InPeriod(rows, from, to) \in SUBSET Int /\ IsFiniteSet(InPeriod(rows, from, to))
         /\ InPeriod(rows, from, to) \in SUBSET rows
         /\ \A t \in InPeriod(rows, from, to) : from <= t /\ t < to
<1>1. InPeriod(rows, from, to) \in SUBSET rows
  BY DEF InPeriod
<1>2. QED
  BY <1>1, FS_Subset DEF InPeriod

(* The two halves of ChartsComplete, of one call each. *)
QuotesComplete(samples, from, to, wanted, maxPoints) ==
  LET level == ChooseInterval(from, to, maxPoints, wanted)
      rows == InPeriod(RowsAt(level, samples), from, to)
      chart == QuotesRoute(samples, from, to, wanted, maxPoints)
      lost == rows \ chart.points
  IN  /\ chart.truncated <=> lost # {}
      /\ \A t \in lost, u \in chart.points : u < t
      /\ wanted = AutoInterval /\ Fits(level, from, to, maxPoints) => Cardinality(lost) <= 1

SpreadsComplete(buy, sell, from, to, wanted, maxPoints) ==
  LET level == ChooseInterval(from, to, maxPoints, wanted)
      both == RowsAt(level, buy) \cap RowsAt(level, sell)
      chart == SpreadRoute(buy, sell, from, to, wanted, maxPoints)
      lost == InPeriod(both, from, to) \ chart.points
  IN  /\ lost # {} => chart.truncated
      /\ \A t \in lost, u \in chart.points : u < t

(* The first half, for every period, limit and choice of interval. *)
LEMMA QuotesAreComplete ==
  ASSUME NEW horizon \in Nat, NEW samples \in SUBSET (0..horizon),
         \A s, t \in samples : s < t => t - s >= Intervals[1],
         NEW from \in Int, NEW to \in Int, NEW maxPoints \in Nat,
         NEW wanted \in {AutoInterval} \cup DOMAIN Intervals
  PROVE  QuotesComplete(samples, from, to, wanted, maxPoints)
<1>1. PICK level \in DOMAIN Intervals : level = ChooseInterval(from, to, maxPoints, wanted)
  BY LevelChosen
<1>2. PICK all : all = RowsAt(level, samples)
  OBVIOUS
<1>3. /\ all \in SUBSET Int /\ IsFiniteSet(all)
      /\ \A s, t \in all : s < t => t - s >= Intervals[level]
  BY <1>2, RowsAre
<1>4. PICK rows : rows = InPeriod(all, from, to)
  OBVIOUS
<1>5. /\ rows \in SUBSET Int /\ IsFiniteSet(rows) /\ rows \in SUBSET all
      /\ \A t \in rows : from <= t /\ t < to
  BY <1>3, <1>4, PeriodRows
<1>6. PICK fetched, points : fetched = FirstOf(rows, maxPoints + 1) /\ points = FirstOf(fetched, maxPoints)
  OBVIOUS
<1>7. /\ Cardinality(fetched) > maxPoints <=> rows \ points # {}
      /\ \A t \in rows \ points, u \in points : u < t
      /\ Cardinality(rows) <= maxPoints + 1 => Cardinality(rows \ points) <= 1
  BY <1>5, <1>6, OneMoreRow
<1>8. /\ QuotesRoute(samples, from, to, wanted, maxPoints).points = points
      /\ QuotesRoute(samples, from, to, wanted, maxPoints).truncated = (Cardinality(fetched) > maxPoints)
  BY <1>1, <1>2, <1>4, <1>6 DEF QuotesRoute, QuoteHistory, FetchOhlc
<1>9. ASSUME Fits(level, from, to, maxPoints) PROVE Cardinality(rows) <= maxPoints + 1
  <2>1. PICK width \in Nat \ {0} : width = Intervals[level]
    BY IntervalsAssumption
  <2>2. (to - from) \div width <= maxPoints
    BY <1>9, <2>1 DEF Fits
  <2>3. \A s, t \in rows : s < t => t - s >= width
    BY <1>3, <1>5, <2>1
  <2>4. QED
    BY <1>5, <2>2, <2>3, RowsFit
<1>10. QED
  BY <1>1, <1>2, <1>4, <1>7, <1>8, <1>9 DEF QuotesComplete

(* The second half, for whatever rows the two exchanges have. *)
LEMMA SpreadsAreComplete ==
  ASSUME NEW horizon \in Nat, NEW buy \in SUBSET (0..horizon), NEW sell \in SUBSET (0..horizon),
         NEW from \in Int, NEW to \in Int, NEW maxPoints \in Nat,
         NEW wanted \in {AutoInterval} \cup DOMAIN Intervals
  PROVE  SpreadsComplete(buy, sell, from, to, wanted, maxPoints)
<1>1. PICK level \in DOMAIN Intervals : level = ChooseInterval(from, to, maxPoints, wanted)
  BY LevelChosen
<1>2. PICK a, b : a = RowsAt(level, buy) /\ b = RowsAt(level, sell)
  OBVIOUS
<1>3. a \in SUBSET Int /\ IsFiniteSet(a) /\ b \in SUBSET Int /\ IsFiniteSet(b)
  BY <1>2, RowsAre
<1>4. PICK ap, bp : ap = InPeriod(a, from, to) /\ bp = InPeriod(b, from, to)
  OBVIOUS
<1>5. ap \in SUBSET Int /\ IsFiniteSet(ap) /\ bp \in SUBSET Int /\ IsFiniteSet(bp)
  BY <1>3, <1>4, PeriodRows
<1>6. PICK fa, fb, points : /\ fa = FirstOf(ap, maxPoints + 1) /\ fb = FirstOf(bp, maxPoints + 1)
                            /\ points = FirstOf(fa \cap fb, maxPoints)
  OBVIOUS
<1>7. /\ (ap \cap bp) \ points # {} => Cardinality(fa) > maxPoints \/ Cardinality(fb) > maxPoints
      /\ \A t \in (ap \cap bp) \ points, u \in points : u < t
  BY <1>5, <1>6, TwoSides
<1>8. /\ SpreadRoute(buy, sell, from, to, wanted, maxPoints).points = points
      /\ SpreadRoute(buy, sell, from, to, wanted, maxPoints).truncated
           = (Cardinality(fa) > maxPoints \/ Cardinality(fb) > maxPoints)
  BY <1>1, <1>2, <1>4, <1>6 DEF SpreadRoute, SpreadHistory, FetchOhlc, Truncated
<1>9. InPeriod(a \cap b, from, to) = ap \cap bp
  BY <1>4 DEF InPeriod
<1>10. QED
  BY <1>1, <1>2, <1>7, <1>8, <1>9 DEF SpreadsComplete

-----------------------------------------------------------------------------
(* Reading the events page after page. *)

Rows == [id : Nat, start : Starts, duration : Durations]

EventsType ==
  /\ table \subseteq Rows /\ IsFiniteSet(table)
  /\ requested \in RequestedSizes
  /\ pages \in Seq(Seq(Rows))
  /\ known \subseteq Selected(table)

(* The selected events that are listed before those that start at s. *)
Newer(s) == {row \in Selected(table) : row.start > s}

Shown(s) == \E row \in Listed : row.start = s

(* An event of which no other of its start was shown is deeper in the list *)
(* than the pages have got, so that the last of them was full.             *)
Deeper ==
  \A row \in known : ~Shown(row.start) =>
    /\ Cardinality(Newer(row.start)) >= Len(pages) * PageSize
    /\ ~LastPage

(* A page has room for an event. *)
LEMMA SizeOfPage ==
  ASSUME EventsType
  PROVE  PageSize \in Nat \ {0}
<1> DEFINE asked == IF requested = 0 THEN DefaultPageSize ELSE requested
<1>1. asked \in Nat \ {0} /\ MaxPageSize \in Nat \ {0}
  BY PagesAssumption DEF EventsType
<1>2. \E x \in {asked, MaxPageSize} : \A y \in {asked, MaxPageSize} : x <= y
  BY <1>1
<1>3. Min({asked, MaxPageSize}) \in {asked, MaxPageSize}
  BY <1>2 DEF Min
<1>4. QED
  BY <1>1, <1>3 DEF PageSize

(* The filters select finitely many rows of the table. *)
LEMMA SelectedRows ==
  ASSUME EventsType
  PROVE  /\ Selected(table) \subseteq table /\ IsFiniteSet(Selected(table))
         /\ \A s : IsFiniteSet(Newer(s)) /\ Cardinality(Newer(s)) \in Nat
<1>1. Selected(table) \subseteq table
  BY DEF Selected, LongEnough, EventFilters
<1>2. IsFiniteSet(Selected(table))
  BY <1>1, FS_Subset DEF EventsType
<1>3. ASSUME NEW s PROVE IsFiniteSet(Newer(s)) /\ Cardinality(Newer(s)) \in Nat
  <2>1. Newer(s) \subseteq Selected(table)
    BY DEF Newer
  <2>2. QED
    BY <1>2, <2>1, FS_Subset, FS_CardinalityType
<1>4. QED
  BY <1>1, <1>2, <1>3

(* However the database breaks ties, the events newer than s come first,   *)
(* and one that starts at s comes next.                                    *)
LEMMA NewerComeFirst ==
  ASSUME EventsType, NEW order \in NewestFirst(Selected(table)), NEW r \in Selected(table),
         NEW n, n = Cardinality(Newer(r.start))
  PROVE  /\ Len(order) \in Nat /\ order \in Seq(Rows)
         /\ n + 1 \in 1..Len(order) /\ order[n + 1].start = r.start
<1> DEFINE s == r.start
           c == Cardinality(Selected(table))
           I == {i \in 1..c : order[i].start > s}
<1>1. c \in Nat /\ n \in Nat /\ Selected(table) \subseteq Rows
  BY SelectedRows, FS_CardinalityType DEF EventsType
<1>2. /\ order \in [1..c -> Selected(table)]
      /\ \A i, j \in 1..c : i # j => order[i] # order[j]
      /\ \A i, j \in 1..c : i < j => order[i].start >= order[j].start
  BY DEF NewestFirst, SetToSeqs
<1> HIDE DEF c
<1>3. Len(order) = c /\ order \in Seq(Rows) /\ \A i \in 1..c : order[i].start \in Nat
  <2>1. \A i \in 1..c : order[i] \in Rows
    BY <1>1, <1>2
  <2>2. \A i \in 1..c : order[i].start \in Nat
    BY <2>1, EventsAssumption DEF Rows
  <2>3. QED
    BY <1>1, <1>2, <2>1, <2>2
<1>4. s \in Nat
  BY <1>1, EventsAssumption DEF Rows
<1>5. \A x \in Selected(table) : \E i \in 1..c : order[i] = x
  <2>1. order \in Injection(1..c, Selected(table))
    BY <1>2 DEF Injection, IsInjective
  <2>2. IsFiniteSet(1..c) /\ Cardinality(1..c) = c
    <3>1. /\ IsFiniteSet(1..c)
          /\ Cardinality(1..c) = IF 1 > c THEN 0 ELSE c - 1 + 1
      <4>1. 1 \in Int /\ c \in Int
        BY <1>1
      <4>2. QED
        BY <4>1, FS_Interval
    <3>2. QED
      BY <1>1, <3>1
  <2>3. order \in Surjection(1..c, Selected(table))
    BY <2>1, <2>2, SelectedRows, FS_Injection DEF c
  <2>4. QED
    BY <2>3 DEF Surjection
<1>6. PICK j \in 1..c : order[j] = r
  BY <1>5
<1>7. PICK m \in 1..c \ I : \A i \in 1..c \ I : m <= i
  <2>1. j \in 1..c \ I /\ 1..c \ I \subseteq Nat
    BY <1>3, <1>6
  <2>2. QED
    BY <2>1, Smallest
<1>8. order[m].start = s
  <2>1. m <= j /\ order[m].start <= s
    BY <1>3, <1>4, <1>6, <1>7
  <2>2. QED
    BY <1>2, <1>3, <1>4, <1>6, <1>7, <2>1
<1>9. I = 1..(m - 1)
  <2>1. ASSUME NEW i \in I PROVE i \in 1..(m - 1)
    <3>1. i < m
      BY <1>2, <1>3, <1>4, <1>7, <1>8
    <3>2. QED
      BY <1>1, <1>7, <3>1
  <2>2. ASSUME NEW i \in 1..(m - 1) PROVE i \in I
    BY <1>1, <1>7
  <2>3. QED
    BY <2>1, <2>2
<1>10. Cardinality(I) = n
  <2> DEFINE f == [i \in I |-> order[i]]
  <2>1. f \in Bijection(I, Newer(s))
    <3>1. \A i \in I : order[i] \in Newer(s)
      BY <1>2 DEF Newer
    <3>2. \A i, k \in I : i # k => f[i] # f[k]
      BY <1>2
    <3>3. \A x \in Newer(s) : \E i \in I : f[i] = x
      BY <1>5 DEF Newer
    <3>4. QED
      BY <3>1, <3>2, <3>3 DEF Bijection, Injection, IsInjective, Surjection
  <2> HIDE DEF f
  <2>2. ExistsBijection(I, Newer(s))
    BY <2>1 DEF ExistsBijection
  <2>3. IsFiniteSet(I)
    <3>1. m - 1 \in Int
      BY <1>1, <1>7
    <3>2. QED
      <4>1. IsFiniteSet(1..(m - 1))
        BY <3>1, FS_Interval
      <4>2. QED
        BY Zenon, <1>9, <4>1
  <2> HIDE DEF I
  <2>4. QED
    BY <2>2, <2>3, FS_Bijection
<1> HIDE DEF I
<1>11. m - 1 = n
  <2>1. m - 1 \in Nat
    BY <1>1, <1>7
  <2>2. Cardinality(1..(m - 1)) = m - 1
    BY <2>1, FS_Interval
  <2>3. QED
    BY <1>9, <1>10, <2>2
<1>12. QED
  BY <1>1, <1>3, <1>7, <1>8, <1>11

(* An empty table has no event to miss. *)
LEMMA EventsInit == NoTable => EventsType /\ Deeper
<1> SUFFICES ASSUME NoTable PROVE EventsType /\ Deeper
  OBVIOUS
<1>1. Selected(table) = {}
  BY DEF NoTable, Selected, LongEnough, EventFilters
<1>2. EventsType
  BY <1>1, FS_EmptySet DEF NoTable, EventsType
<1>3. Deeper
  BY DEF NoTable, Deeper
<1>4. QED
  BY <1>2, <1>3

(* An event that is inserted pushes those before it deeper. *)
LEMMA InsertKeepsDeeper ==
  ASSUME EventsType, Deeper, InsertEvent
  PROVE  EventsType' /\ Deeper'
<1>1. PICK start \in Starts, duration \in Durations :
        table' = table \cup {[id |-> Cardinality(table) + 1, start |-> start, duration |-> duration]}
  BY DEF InsertEvent
<1>2. filter' = filter /\ requested' = requested /\ pages' = pages /\ known' = known
  BY DEF InsertEvent
<1>3. Cardinality(table) + 1 \in Nat
  BY FS_CardinalityType DEF EventsType
<1>4. table' \subseteq Rows /\ IsFiniteSet(table')
  <2>1. [id |-> Cardinality(table) + 1, start |-> start, duration |-> duration] \in Rows
    BY <1>3 DEF Rows
  <2>2. QED
    BY <1>1, <2>1, FS_AddElement DEF EventsType
<1>5. Selected(table) \subseteq Selected(table)'
  BY <1>1, <1>2 DEF Selected, LongEnough, EventFilters, MinDuration
<1>6. EventsType'
  BY <1>2, <1>4, <1>5 DEF EventsType
<1>7. ASSUME NEW s PROVE Cardinality(Newer(s)) <= Cardinality(Newer(s)')
  <2>1. Newer(s) \subseteq Newer(s)'
    BY <1>5 DEF Newer
  <2>2. IsFiniteSet(Newer(s)')
    <3>1. Newer(s)' \subseteq table'
      BY DEF Newer, Selected, LongEnough, EventFilters
    <3>2. QED
      BY <1>4, <3>1, FS_Subset
  <2>3. QED
    BY <2>1, <2>2, FS_Subset
<1>8. ASSUME NEW s PROVE Cardinality(Newer(s)) \in Nat /\ Cardinality(Newer(s)') \in Nat
  <2>1. IsFiniteSet(Newer(s)')
    <3>1. Newer(s)' \subseteq table'
      BY DEF Newer, Selected, LongEnough, EventFilters
    <3>2. QED
      BY <1>4, <3>1, FS_Subset
  <2>2. QED
    BY <2>1, SelectedRows, FS_CardinalityType
<1>9. PageSize' = PageSize /\ LastPage' = LastPage /\ Listed' = Listed /\ PageSize \in Nat
  BY <1>2, SizeOfPage DEF PageSize, LastPage, Listed
<1>10. Deeper'
  <2>1. SUFFICES ASSUME NEW row \in known', ~Shown(row.start)'
                 PROVE  /\ Cardinality(Newer(row.start)') >= Len(pages') * PageSize'
                        /\ ~LastPage'
    BY DEF Deeper
  <2>2. row \in known /\ ~Shown(row.start)
    BY <1>2, <1>9, <2>1 DEF Shown
  <2>3. Cardinality(Newer(row.start)) >= Len(pages) * PageSize /\ ~LastPage
    BY <2>2 DEF Deeper
  <2>4. Len(pages) * PageSize \in Nat
    BY <1>9 DEF EventsType
  <2>5. PICK depth, before, after :
          /\ depth = Len(pages) * PageSize
          /\ before = Cardinality(Newer(row.start)) /\ after = Cardinality(Newer(row.start)')
    OBVIOUS
  <2>6. after >= depth
    BY <1>7, <1>8, <2>3, <2>4, <2>5
  <2>7. QED
    BY <1>2, <1>9, <2>3, <2>5, <2>6
<1>11. QED
  BY <1>6, <1>10

(* A page that shows no event of a start ends before the first of them. *)
LEMMA ListKeepsDeeper ==
  ASSUME EventsType, Deeper, ListSpreadEvents
  PROVE  EventsType' /\ Deeper'
<1>1. PICK order \in NewestFirst(Selected(table)) :
        pages' = Append(pages, PageOf(order, Len(pages) + 1, PageSize))
  BY DEF ListSpreadEvents
<1>2. /\ table' = table /\ filter' = filter /\ requested' = requested
      /\ known' = IF pages = <<>> THEN Selected(table) ELSE known
  BY DEF ListSpreadEvents
<1>3. PICK n, k, page, c :
        /\ n = Len(pages) /\ k = PageSize /\ page = PageOf(order, n + 1, k) /\ c = Len(order)
  OBVIOUS
<1>4. n \in Nat /\ k \in Nat \ {0} /\ pages \in Seq(Seq(Rows))
  BY <1>3, SizeOfPage DEF EventsType
<1>5. c \in Nat /\ order \in Seq(Rows)
  <2>1. order \in [1..Cardinality(Selected(table)) -> Selected(table)]
    BY DEF NewestFirst, SetToSeqs
  <2>2. Cardinality(Selected(table)) \in Nat /\ Selected(table) \subseteq Rows
    BY SelectedRows, FS_CardinalityType DEF EventsType
  <2>3. order \in Seq(Rows)
    BY <2>1, <2>2
  <2>4. QED
    BY <1>3, <2>3
<1>6. PICK first, last :
        /\ first = n * k /\ first \in Nat
        /\ last = IF first + k <= c THEN first + k ELSE c
  <2>1. n * k \in Nat
    BY <1>4
  <2>2. QED
    BY <2>1
<1>7. page = SubSeq(order, first + 1, last) /\ (n + 1) * k = first + k
  <2>1. (n + 1 - 1) * k = first /\ (n + 1) * k = first + k
    BY <1>4, <1>6
  <2>2. Min({first + k, c}) = last
    <3>1. \E x \in {first + k, c} : \A y \in {first + k, c} : x <= y
      BY <1>4, <1>5, <1>6
    <3>2. /\ Min({first + k, c}) \in {first + k, c}
          /\ \A y \in {first + k, c} : Min({first + k, c}) <= y
      BY <3>1 DEF Min
    <3>3. QED
      BY <1>4, <1>5, <1>6, <3>2
  <2>3. Offset(n + 1, k) = first
    <3>1. n + 1 - 1 = n /\ Offset(n + 1, k) = (n + 1 - 1) * k
      BY <1>4 DEF Offset
    <3>2. QED
      BY <1>6, <3>1
  <2>4. page = SubSeq(order, first + 1, Min({first + k, c}))
    BY <1>3, <2>3 DEF PageOf
  <2>5. QED
    BY <2>1, <2>2, <2>4
<1>8. last \in Nat /\ last <= c
  BY <1>4, <1>5, <1>6
<1>9. /\ page \in Seq(Rows)
      /\ \A i \in (first + 1)..last : order[i] \in ToSet(page)
      /\ first + k <= c => Len(page) = k
  <2> DEFINE size == IF first <= last THEN last - first ELSE 0
  <2>1. /\ first + 1 \in Int /\ last \in Int
        /\ \A i \in (first + 1)..last : order[i] \in Rows
    BY <1>3, <1>5, <1>6, <1>8
  <2>2. /\ page \in Seq(Rows)
        /\ Len(page) = IF first + 1 <= last THEN last - (first + 1) + 1 ELSE 0
        /\ \A i \in 1..(last - (first + 1) + 1) : page[i] = order[first + 1 + i - 1]
    BY <1>7, <2>1, SubSeqProperties
  <2>3. /\ page \in Seq(Rows) /\ Len(page) = size /\ DOMAIN page = 1..size
        /\ \A i \in 1..size : page[i] = order[first + i]
    <3>1. /\ size \in Nat /\ size = IF first + 1 <= last THEN last - (first + 1) + 1 ELSE 0
          /\ \A i \in 1..size : i \in 1..(last - (first + 1) + 1) /\ first + 1 + i - 1 = first + i
      BY <1>6, <1>8
    <3> HIDE DEF size
    <3>2. Len(page) = size
      BY <2>2, <3>1
    <3>3. \A i \in 1..size : page[i] = order[first + i]
      BY <2>2, <3>1
    <3>4. QED
      BY <2>2, <3>2, <3>3
  <2>4. ASSUME NEW i \in (first + 1)..last PROVE order[i] \in ToSet(page)
    <3>1. i - first \in 1..size /\ first + (i - first) = i
      BY <1>6, <1>8
    <3>2. page[i - first] = order[i]
      BY <2>3, <3>1
    <3>3. QED
      BY <2>3, <3>1, <3>2 DEF ToSet
  <2>5. first + k <= c => size = k
    BY <1>4, <1>6
  <2>6. QED
    BY <2>3, <2>4, <2>5
<1>10. pages' = Append(pages, page) /\ pages' \in Seq(Seq(Rows)) /\ Len(pages') = n + 1
  BY <1>1, <1>3, <1>4, <1>9
<1>11. Selected(table)' = Selected(table) /\ PageSize' = PageSize
  BY <1>2 DEF Selected, LongEnough, EventFilters, MinDuration, PageSize
<1>12. EventsType'
  BY <1>2, <1>10, <1>11 DEF EventsType
<1>13. Listed \subseteq Listed' /\ ToSet(page) \subseteq Listed'
  <2>1. /\ \A i \in DOMAIN pages : i \in DOMAIN pages' /\ pages'[i] = pages[i]
        /\ n + 1 \in DOMAIN pages' /\ pages'[n + 1] = page
    BY <1>3, <1>4, <1>9, <1>10
  <2>2. QED
    BY <2>1 DEF Listed
<1>14. ASSUME NEW row \in known', ~Shown(row.start)'
       PROVE  /\ Cardinality(Newer(row.start)') >= Len(pages') * PageSize'
              /\ ~LastPage'
  <2>1. row \in Selected(table)
    BY <1>2 DEF EventsType
  <2>2. PICK depth : depth = Cardinality(Newer(row.start)) /\ depth \in Nat
    BY SelectedRows
  <2>3. depth >= first
    <3>1. CASE pages = <<>>
      BY <1>3, <1>4, <1>6, <2>2, <3>1
    <3>2. CASE pages # <<>>
      <4>1. row \in known /\ ~Shown(row.start)
        BY <1>2, <1>13, <1>14, <3>2 DEF Shown
      <4>2. QED
        BY <1>3, <1>6, <2>2, <4>1 DEF Deeper
    <3>3. QED
      BY <3>1, <3>2
  <2>4. depth + 1 \in 1..c /\ order[depth + 1].start = row.start
    BY <1>3, <2>1, <2>2, NewerComeFirst
  <2>5. depth + 1 \notin (first + 1)..last
    BY <1>9, <1>13, <1>14, <2>4 DEF Shown
  <2>6. first + k <= depth /\ first + k <= c
    BY <1>4, <1>5, <1>6, <1>8, <2>2, <2>3, <2>4, <2>5
  <2>7. Newer(row.start)' = Newer(row.start)
    BY <1>11 DEF Newer
  <2>8. ~LastPage'
    <3>1. pages'[Len(pages')] = page
      BY <1>3, <1>4, <1>9, <1>10
    <3>2. Len(page) = k
      BY <1>9, <2>6
    <3>3. QED
      BY <1>3, <1>4, <1>11, <3>1, <3>2 DEF LastPage
  <2>9. QED
    BY <1>3, <1>7, <1>10, <1>11, <2>2, <2>6, <2>7, <2>8
<1>15. Deeper'
  BY <1>14 DEF Deeper
<1>16. QED
  BY <1>12, <1>15

(* Neither insertions nor pages let an event be passed over. *)
LEMMA EventsNext == EventsType /\ Deeper /\ [QueryNext]_queryVars => EventsType' /\ Deeper'
<1> SUFFICES ASSUME EventsType, Deeper, [QueryNext]_queryVars PROVE EventsType' /\ Deeper'
  OBVIOUS
<1>1. CASE InsertEvent
  BY <1>1, InsertKeepsDeeper
<1>2. CASE ListSpreadEvents
  BY <1>2, ListKeepsDeeper
<1>3. CASE UNCHANGED queryVars
  BY <1>3 DEF queryVars, EventsType, Deeper, Newer, Shown, Listed, Selected, LongEnough,
              EventFilters, MinDuration, PageSize, LastPage
<1>4. QED
  BY <1>1, <1>2, <1>3 DEF QueryNext

-----------------------------------------------------------------------------
(* The calls. *)

TypeOfCall ==
  call \in {[kind |-> "events"]} \cup FillCalls \cup RebalanceCalls \cup QuoteCalls \cup SpreadCalls

(* What is asked for is within bounds and does not change. *)
THEOREM CallsKeepType == CallSpec => []TypeOfCall
<1>1. CallInit => TypeOfCall
  BY DEF CallInit, TypeOfCall
<1>2. TypeOfCall /\ [CallNext]_<<call, queryVars>> => TypeOfCall'
  BY DEF CallNext, TypeOfCall
<1>3. QED
  BY <1>1, <1>2, PTL DEF CallSpec

(* The kind of a call tells what it holds. *)
LEMMA CallsAreOfTheirKind ==
  ASSUME TypeOfCall
  PROVE  /\ call.kind = "fill" => call \in FillCalls
         /\ call.kind = "rebalance" => call \in RebalanceCalls
         /\ call.kind = "quotes" => call \in QuoteCalls
         /\ call.kind = "spread" => call \in SpreadCalls
<1>1. call \in QuoteCalls => call.kind = "quotes"
  BY DEF QuoteCalls
<1>2. call \in FillCalls => call.kind = "fill"
  BY DEF FillCalls
<1>3. call \in RebalanceCalls => call.kind = "rebalance"
  BY DEF RebalanceCalls
<1>4. call \in SpreadCalls => call.kind = "spread"
  BY DEF SpreadCalls
<1>5. call = [kind |-> "events"] => call.kind = "events"
  OBVIOUS
<1>6. QED
  BY <1>1, <1>2, <1>3, <1>4, <1>5 DEF TypeOfCall

(* A fill takes what there is at the best price there is: compute_vwap()   *)
(* on sorted levels is an optimum over all ways to fill, for every book.   *)
THEOREM FillsBest == CallSpec => []FillIsBest
<1>1. TypeOfCall => FillIsBest
  <2> SUFFICES ASSUME TypeOfCall, call.kind = "fill" PROVE BestFill(call.side, call.quantity)
    BY DEF FillIsBest, BestFill
  <2>1. call \in FillCalls
    BY CallsAreOfTheirKind
  <2>2. call.side \in Takes /\ call.quantity \in Nat \ {0}
    BY <2>1, BoundsAssumption DEF FillCalls
  <2>3. QED
    BY <2>2, FillsAreBest
<1>2. QED
  BY <1>1, CallsKeepType, PTL

(* After the transfers of a rebalance the next call suggests none, for   *)
(* every number of exchanges, totals, targets and threshold.             *)
THEOREM RebalancesSettle == CallSpec => []RebalanceSettles
<1>1. TypeOfCall => RebalanceSettles
  <2> SUFFICES ASSUME TypeOfCall, call.kind = "rebalance"
               PROVE  Settles(call.total, call.target, call.threshold)
    BY DEF RebalanceSettles, DeviationLeft, Settles
  <2>1. call \in RebalanceCalls
    BY CallsAreOfTheirKind
  <2>2. PICK D : D = 1..MaxExchanges
    OBVIOUS
  <2>3. D \in SUBSET Int /\ IsFiniteSet(D)
    <3>1. MaxExchanges \in Int /\ 1 \in Int
      BY BoundsAssumption
    <3>2. QED
      BY <2>2, <3>1, FS_Interval
  <2>4. call.total \in [D -> Int] /\ call.target \in [D -> Int] /\ call.threshold \in Nat \ {0}
    BY <2>1, <2>2, TargetsAssumption, CapitalAssumption DEF RebalanceCalls
  <2>5. QED
    BY <2>3, <2>4, RebalanceIsSettled
<1>2. QED
  BY <1>1, CallsKeepType, PTL

(* Every chart is honest about what it leaves out: for every set of rows,  *)
(* every period, limit and choice of intervals.                            *)
THEOREM ChartsAreComplete == CallSpec => []ChartsComplete
<1>1. TypeOfCall => ChartsComplete
  <2>1. ASSUME TypeOfCall, call.kind = "quotes"
        PROVE  QuotesComplete(call.samples, call.from, call.to, call.requested, call.maxPoints)
    <3>1. call \in QuoteCalls
      BY <2>1, CallsAreOfTheirKind
    <3>2. /\ call.samples \in SUBSET (0..Horizon) /\ call.from \in Int /\ call.to \in Int
          /\ \A s, t \in call.samples : s < t => t - s >= Intervals[1]
          /\ call.maxPoints \in Nat /\ call.requested \in {AutoInterval} \cup DOMAIN Intervals
      <4>1. /\ call.samples \in Samples /\ call.from \in ChartStarts /\ call.to \in 1..Horizon + 1
            /\ call.maxPoints \in 1..MaxPoints /\ call.requested \in {AutoInterval} \cup DOMAIN Intervals
        BY <3>1 DEF QuoteCalls
      <4>2. /\ \A n \in ChartStarts : n \in Int
            /\ \A n \in 1..Horizon + 1 : n \in Int
            /\ \A k \in 1..MaxPoints : k \in Nat
        BY BoundsAssumption
      <4>3. /\ call.samples \in SUBSET (0..Horizon)
            /\ \A s, t \in call.samples : s < t => t - s >= Intervals[1]
        BY <4>1 DEF Samples
      <4>4. QED
        BY <4>1, <4>2, <4>3
    <3>3. Horizon \in Nat
      BY BoundsAssumption
    <3>4. QED
      BY <3>2, <3>3, QuotesAreComplete
  <2>2. ASSUME TypeOfCall, call.kind = "spread"
        PROVE  SpreadsComplete(call.buy, call.sell, call.from, call.to, call.requested, call.maxPoints)
    <3>1. call \in SpreadCalls
      BY <2>2, CallsAreOfTheirKind
    <3>2. /\ call.buy \in SUBSET (0..SpreadHorizon) /\ call.sell \in SUBSET (0..SpreadHorizon)
          /\ call.from \in Int /\ call.to \in Int
          /\ call.maxPoints \in Nat /\ call.requested \in {AutoInterval} \cup DOMAIN Intervals
      <4>1. /\ call.buy \in SUBSET (0..SpreadHorizon) /\ call.sell \in SUBSET (0..SpreadHorizon)
            /\ call.from \in ChartStarts /\ call.to = SpreadHorizon + 1
            /\ call.maxPoints \in 1..MaxPoints /\ call.requested \in {AutoInterval} \cup DOMAIN Intervals
        BY <3>1 DEF SpreadCalls
      <4>2. /\ \A n \in ChartStarts : n \in Int
            /\ SpreadHorizon + 1 \in Int /\ \A k \in 1..MaxPoints : k \in Nat
        BY BoundsAssumption
      <4>3. QED
        BY <4>1, <4>2
    <3>3. SpreadHorizon \in Nat
      BY BoundsAssumption
    <3>4. QED
      BY <3>2, <3>3, SpreadsAreComplete
  <2>3. QED
    BY <2>1, <2>2 DEF ChartsComplete, QuotesComplete, SpreadsComplete
<1>2. QED
  BY <1>1, CallsKeepType, PTL

(* What the last page leaves out shares its start with an event it or      *)
(* another page showed, however many events are inserted between pages.    *)
THEOREM PagesOnlyMissTies == CallSpec => []PagesMissOnlyTies
<1>1. CallInit => EventsType /\ Deeper
  BY EventsInit DEF CallInit
<1>2. EventsType /\ Deeper /\ [CallNext]_<<call, queryVars>> => EventsType' /\ Deeper'
  <2>1. [CallNext]_<<call, queryVars>> => [QueryNext]_queryVars
    BY DEF CallNext
  <2>2. QED
    BY <2>1, EventsNext
<1>3. Deeper => PagesMissOnlyTies
  BY DEF Deeper, Shown, PagesMissOnlyTies
<1>4. QED
  BY <1>1, <1>2, <1>3, PTL DEF CallSpec
=============================================================================
