-------------------------- MODULE PushChannelProofs --------------------------
(***************************************************************************)
(* The push channel for every number of pages, connections and messages,   *)
(* every size of a queue and of the transport, and every interval of the   *)
(* heartbeat: types, queues that hold the newest messages, rows that are   *)
(* never replaced by older ones, and the counter of missed messages.       *)
(*                                                                         *)
(* All follow from the order of what is on its way to a page (InOrder):    *)
(* what it received, then the wire, then the payload its endpoint holds,   *)
(* then its queue, in ascending order.  A new connection starts with       *)
(* nothing on its way (Unused), so that all it will deliver is newer than  *)
(* the rows on display (Pages), whichever connection those came from.  The *)
(* counter is the number of messages within the gaps (Counted): a message  *)
(* that arrives adds the stretch between the last one and itself, which    *)
(* no earlier gap contains.                                                *)
(***************************************************************************)
EXTENDS PushChannel, FiniteSetTheorems, SequenceTheorems, TLAPS

Msgs == 1..MaxMessages

(* q is what is left of s when its first messages are dropped. *)
Suffix(q, s) == \E k \in 0..Len(s) : q = SubSeq(s, k + 1, Len(s))

InHand(c) == {holding[c]} \ {NoSeq}

(* What is on its way on a connection. *)
Line(c) == Range(wire[c]) \cup InHand(c) \cup Range(queue[c])

InOrder(c) ==
  /\ Ascending(wire[c]) /\ Ascending(queue[c])
  /\ \A x \in Range(wire[c]), y \in InHand(c) \cup Range(queue[c]) : x < y
  /\ \A x \in InHand(c), y \in Range(queue[c]) : x < y
  /\ \A x \in got[c], y \in Line(c) : x < y
  /\ \A x \in got[c] \cup Line(c) : x <= sequence
  /\ Suffix(queue[c], sent[c])

Lines == \A c \in Conns : InOrder(c)

(* An endpoint holds a payload exactly while it sends it. *)
Hands == \A c \in Conns : holding[c] # NoSeq <=> handler[c] = "sending"

(* Nothing is on its way on a connection that was never opened. *)
Unused ==
  \A c \in Conns : c > Len(owner) => c \notin clients /\ Line(c) = {} /\ handler[c] = "none"

(* What a page will receive is newer than the rows it shows. *)
Pages ==
  \A b \in Browsers :
    /\ rows[b] <= sequence
    /\ isOpen[b] => conn[b] # NoConn
    /\ \A c \in Conns : conn[b] = c =>
         c \in DOMAIN owner /\ owner[c] = b /\ \A x \in Line(c) : rows[b] < x

Inv == TypeOK /\ Lines /\ Hands /\ Unused /\ Pages

-----------------------------------------------------------------------------
(* Sequences of messages. *)

(* An empty line is in order. *)
LEMMA EmptyLine == Range(<<>>) = {} /\ Ascending(<<>>) /\ <<>> \in Seq(Msgs) /\ Len(<<>>) = 0
<1>1. DOMAIN <<>> = {}
  BY EmptySeq, LenProperties
<1>2. QED
  BY <1>1, EmptySeq DEF Range, Ascending

(* A newer message at the end leaves a line in order. *)
LEMMA Appended ==
  ASSUME NEW s \in Seq(Msgs), NEW n \in Msgs
  PROVE  /\ Append(s, n) \in Seq(Msgs) /\ Len(Append(s, n)) = Len(s) + 1
         /\ Range(Append(s, n)) = Range(s) \cup {n}
         /\ Ascending(s) /\ (\A x \in Range(s) : x < n) => Ascending(Append(s, n))
<1> DEFINE a == Append(s, n)
<1>1. /\ a \in Seq(Msgs) /\ Len(s) \in Nat /\ Len(a) = Len(s) + 1 /\ a[Len(s) + 1] = n
      /\ DOMAIN s = 1..Len(s) /\ DOMAIN a = 1..Len(s) + 1
      /\ \A i \in 1..Len(s) : a[i] = s[i] /\ s[i] \in Msgs
  BY AppendProperties, LenProperties, ElementOfSeq
<1> HIDE DEF a
<1>2. \A i \in DOMAIN a : i \in DOMAIN s \/ i = Len(s) + 1
  BY <1>1
<1>3. Range(a) = Range(s) \cup {n}
  <2>1. Range(s) \subseteq Range(a) /\ n \in Range(a)
    <3>1. DOMAIN s \subseteq DOMAIN a /\ Len(s) + 1 \in DOMAIN a
      BY <1>1
    <3>2. QED
      BY <1>1, <3>1 DEF Range
  <2>2. Range(a) \subseteq Range(s) \cup {n}
    BY <1>1, <1>2 DEF Range
  <2>3. QED
    BY <2>1, <2>2
<1>4. ASSUME Ascending(s), \A x \in Range(s) : x < n PROVE Ascending(a)
  <2> SUFFICES ASSUME NEW i \in DOMAIN a, NEW j \in DOMAIN a, i < j PROVE a[i] < a[j]
    BY DEF Ascending
  <2>1. i \in DOMAIN s /\ s[i] \in Range(s) /\ a[i] = s[i]
    <3>1. i \in DOMAIN s
      BY <1>1
    <3>2. QED
      BY <1>1, <3>1 DEF Range
  <2>2. CASE j \in DOMAIN s
    BY <1>1, <1>4, <2>1, <2>2 DEF Ascending
  <2>3. CASE j = Len(s) + 1
    BY <1>1, <1>4, <2>1, <2>3
  <2>4. QED
    BY <1>2, <2>2, <2>3
<1>5. QED
  BY <1>1, <1>3, <1>4 DEF a

(* The first message of a line in order is older than the others. *)
LEMMA HeadTaken ==
  ASSUME NEW s \in Seq(Msgs), s # <<>>
  PROVE  /\ Head(s) \in Msgs /\ Head(s) \in Range(s)
         /\ Tail(s) \in Seq(Msgs) /\ Len(Tail(s)) < Len(s) /\ Range(Tail(s)) \subseteq Range(s)
         /\ Ascending(s) => Ascending(Tail(s)) /\ \A x \in Range(Tail(s)) : Head(s) < x
<1> DEFINE r == Tail(s)
<1>1. /\ Len(s) \in Nat \ {0} /\ Head(s) = s[1] /\ 1 \in DOMAIN s /\ s[1] \in Msgs
      /\ r \in Seq(Msgs) /\ Len(r) = Len(s) - 1
      /\ DOMAIN s = 1..Len(s) /\ DOMAIN r = 1..Len(r)
      /\ \A i \in 1..Len(r) : r[i] = s[i + 1]
  BY HeadTailProperties, LenProperties, EmptySeq, ElementOfSeq
<1> HIDE DEF r
<1>2. \A i \in DOMAIN r : i + 1 \in DOMAIN s /\ 1 < i + 1 /\ r[i] = s[i + 1]
  BY <1>1
<1>3. Range(r) \subseteq Range(s) /\ Head(s) \in Range(s)
  BY <1>1, <1>2 DEF Range
<1>4. ASSUME Ascending(s) PROVE Ascending(r) /\ \A x \in Range(r) : Head(s) < x
  <2>1. \A i \in DOMAIN r : Head(s) < r[i]
    BY <1>1, <1>2, <1>4 DEF Ascending
  <2>2. ASSUME NEW i \in DOMAIN r, NEW j \in DOMAIN r, i < j PROVE r[i] < r[j]
    <3>1. i + 1 < j + 1
      BY <1>1, <2>2
    <3>2. QED
      BY <1>2, <1>4, <3>1 DEF Ascending
  <2>3. QED
    BY <2>1, <2>2 DEF Ascending, Range
<1>5. QED
  BY <1>1, <1>3, <1>4 DEF r

(* Two lines in order are one where the second is newer. *)
LEMMA Joined ==
  ASSUME NEW s \in Seq(Msgs), NEW t \in Seq(Msgs), Ascending(s), Ascending(t),
         \A x \in Range(s), y \in Range(t) : x < y
  PROVE  s \o t \in Seq(Msgs) /\ Ascending(s \o t) /\ Range(s \o t) = Range(s) \cup Range(t)
<1> DEFINE u == s \o t
<1>1. /\ u \in Seq(Msgs) /\ Len(s) \in Nat /\ Len(t) \in Nat /\ Len(u) = Len(s) + Len(t)
      /\ DOMAIN s = 1..Len(s) /\ DOMAIN t = 1..Len(t) /\ DOMAIN u = 1..Len(s) + Len(t)
      /\ \A i \in DOMAIN u : u[i] = IF i <= Len(s) THEN s[i] ELSE t[i - Len(s)]
  BY ConcatProperties, LenProperties
<1>2. Range(u) = Range(s) \cup Range(t)
  BY RangeConcatenation
<1> HIDE DEF u
<1>3. ASSUME NEW i \in DOMAIN u, NEW j \in DOMAIN u, i < j PROVE u[i] < u[j]
  <2>1. CASE j <= Len(s)
    <3>1. i \in DOMAIN s /\ j \in DOMAIN s /\ u[i] = s[i] /\ u[j] = s[j]
      BY <1>1, <1>3, <2>1
    <3>2. QED
      BY <1>3, <3>1 DEF Ascending
  <2>2. CASE i > Len(s)
    <3>1. /\ i - Len(s) \in DOMAIN t /\ j - Len(s) \in DOMAIN t /\ i - Len(s) < j - Len(s)
          /\ u[i] = t[i - Len(s)] /\ u[j] = t[j - Len(s)]
      BY <1>1, <1>3, <2>2
    <3>2. QED
      BY <3>1 DEF Ascending
  <2>3. CASE i <= Len(s) /\ j > Len(s)
    <3>1. /\ i \in DOMAIN s /\ j - Len(s) \in DOMAIN t
          /\ u[i] = s[i] /\ u[j] = t[j - Len(s)]
      BY <1>1, <2>3
    <3>2. u[i] \in Range(s) /\ u[j] \in Range(t)
      BY <3>1 DEF Range
    <3>3. QED
      BY <3>2
  <2>4. QED
    BY <1>1, <1>3, <2>1, <2>2, <2>3
<1>4. QED
  BY <1>1, <1>2, <1>3 DEF u, Ascending

(* The newest messages. *)
LEMMA SuffixOfNothing == ASSUME NEW s \in Seq(Msgs) PROVE Suffix(<<>>, s)
<1>1. Len(s) \in Nat /\ Len(s) \in 0..Len(s) /\ Len(s) < Len(s) + 1
  BY LenProperties
<1>2. SubSeq(s, Len(s) + 1, Len(s)) = <<>>
  BY <1>1, SubSeqEmpty
<1>3. QED
  BY <1>1, <1>2 DEF Suffix

(* A suffix without its first message is a suffix. *)
LEMMA SuffixTail ==
  ASSUME NEW s \in Seq(Msgs), NEW q \in Seq(Msgs), Suffix(q, s), q # <<>>
  PROVE  Suffix(Tail(q), s)
<1>1. PICK k \in 0..Len(s) : q = SubSeq(s, k + 1, Len(s))
  BY DEF Suffix
<1>2. Len(s) \in Nat
  BY LenProperties
<1>3. k + 1 <= Len(s)
  <2>1. Len(s) < k + 1 => q = <<>>
    BY <1>1, <1>2, SubSeqEmpty
  <2>2. QED
    BY <1>2, <2>1
<1>4. Tail(q) = SubSeq(s, (k + 1) + 1, Len(s))
  BY <1>1, <1>2, <1>3, HeadTailOfSubSeq
<1>5. QED
  BY SMTT(30), <1>2, <1>3, <1>4 DEF Suffix

(* A message added to both leaves a suffix. *)
LEMMA SuffixAppend ==
  ASSUME NEW s \in Seq(Msgs), NEW q \in Seq(Msgs), Suffix(q, s), NEW n \in Msgs
  PROVE  Suffix(Append(q, n), Append(s, n))
<1> DEFINE a == Append(s, n)
<1>1. PICK k \in 0..Len(s) : q = SubSeq(s, k + 1, Len(s))
  BY DEF Suffix
<1>2. /\ Len(s) \in Nat /\ Len(a) = Len(s) + 1 /\ a \in Seq(Msgs)
      /\ a[Len(s) + 1] = n /\ \A i \in 1..Len(s) : a[i] = s[i] /\ s[i] \in Msgs
  BY AppendProperties, LenProperties, ElementOfSeq
<1>3. /\ Len(q) = Len(s) - k
      /\ \A i \in 1..Len(q) : q[i] = s[k + i]
  BY <1>1, <1>2, SubSeqProperties
<1>4. /\ Append(q, n) \in Seq(Msgs) /\ Len(Append(q, n)) = Len(q) + 1
      /\ Append(q, n)[Len(q) + 1] = n /\ \A i \in 1..Len(q) : Append(q, n)[i] = q[i]
  BY AppendProperties
<1> DEFINE r == SubSeq(a, k + 1, Len(a))
<1>5. \A i \in k + 1..Len(a) : a[i] \in Msgs
  BY <1>2
<1> HIDE DEF a
<1>6. /\ r \in Seq(Msgs) /\ Len(r) = Len(q) + 1
      /\ \A i \in 1..Len(q) + 1 : r[i] = a[k + i]
  BY <1>2, <1>3, <1>5, SubSeqProperties
<1> HIDE DEF r
<1>7. ASSUME NEW i \in 1..Len(q) + 1 PROVE r[i] = Append(q, n)[i]
  <2>1. CASE i \in 1..Len(q)
    <3>1. k + i \in 1..Len(s) /\ q[i] = s[k + i]
      BY <1>2, <1>3, <2>1
    <3>2. QED
      BY <1>2, <1>4, <1>6, <2>1, <3>1
  <2>2. CASE i = Len(q) + 1
    <3>1. k + i = Len(s) + 1
      BY <1>2, <1>3, <2>2
    <3>2. QED
      BY <1>2, <1>4, <1>6, <2>2, <3>1
  <2>3. Len(q) \in Nat
    BY LenProperties
  <2>4. QED
    BY <2>1, <2>2, <2>3
<1>8. r = Append(q, n)
  BY <1>4, <1>6, <1>7, SeqEqual
<1>9. k \in 0..Len(a)
  BY <1>2
<1>10. QED
  BY <1>8, <1>9 DEF Suffix, a, r

(* A full queue loses its oldest message, and nothing else. *)
LEMMA PutKeepsNewest ==
  ASSUME NEW q \in Seq(Msgs), Len(q) <= QueueSize, NEW n \in Msgs
  PROVE  /\ Put(q, n) \in Seq(Msgs) /\ Len(Put(q, n)) <= QueueSize
         /\ Range(Put(q, n)) \subseteq Range(q) \cup {n}
         /\ Ascending(q) /\ (\A x \in Range(q) : x < n) => Ascending(Put(q, n))
         /\ \A s \in Seq(Msgs) : Suffix(q, s) => Suffix(Put(q, n), Append(s, n))
<1> USE ChannelAssumption
<1>1. Len(q) \in Nat
  BY LenProperties
<1>2. CASE Len(q) = QueueSize
  <2> DEFINE r == Tail(q)
  <2>1. q # <<>> /\ Put(q, n) = Append(r, n)
    BY <1>2, EmptyLine DEF Put
  <2>2. /\ r \in Seq(Msgs) /\ Len(r) < Len(q) /\ Range(r) \subseteq Range(q)
        /\ Ascending(q) => Ascending(r)
    BY <2>1, HeadTaken
  <2>3. \A s \in Seq(Msgs) : Suffix(q, s) => Suffix(r, s)
    BY <2>1, SuffixTail
  <2> HIDE DEF r
  <2>4. Len(r) \in Nat
    BY <2>2, LenProperties
  <2>5. /\ Put(q, n) \in Seq(Msgs) /\ Len(Put(q, n)) = Len(r) + 1
        /\ Range(Put(q, n)) = Range(r) \cup {n}
    BY <2>1, <2>2, Appended
  <2>6. Ascending(q) /\ (\A x \in Range(q) : x < n) => Ascending(Put(q, n))
    BY <2>1, <2>2, Appended
  <2>7. \A s \in Seq(Msgs) : Suffix(q, s) => Suffix(Put(q, n), Append(s, n))
    BY <2>1, <2>2, <2>3, SuffixAppend
  <2>8. QED
    BY <1>1, <1>2, <2>2, <2>4, <2>5, <2>6, <2>7
<1>3. CASE Len(q) # QueueSize
  <2>1. Put(q, n) = Append(q, n)
    BY <1>3 DEF Put
  <2>2. QED
    BY <1>1, <1>3, <2>1, Appended, SuffixAppend
<1>4. QED
  BY <1>2, <1>3

-----------------------------------------------------------------------------
(* One connection. *)

(* What is on its way to a page are messages, no more than the queue       *)
(* holds.                                                                  *)
LEMMA OnTheWay ==
  ASSUME TypeOK, NEW c \in Conns
  PROVE  /\ wire[c] \in Seq(Msgs) /\ queue[c] \in Seq(Msgs) /\ sent[c] \in Seq(Msgs)
         /\ Len(queue[c]) <= QueueSize /\ sequence \in 0..MaxMessages /\ sequence \in Nat
         /\ InHand(c) \subseteq Msgs /\ Range(wire[c]) \subseteq Msgs /\ Range(queue[c]) \subseteq Msgs
         /\ Line(c) \subseteq Msgs /\ got[c] \subseteq Msgs
<1> USE ChannelBoundsAssumption DEF Msgs
<1>1. /\ wire[c] \in Seq(Msgs) /\ queue[c] \in Seq(Msgs) /\ sent[c] \in Seq(Msgs)
      /\ Len(queue[c]) <= QueueSize /\ sequence \in 0..MaxMessages /\ sequence \in Nat
      /\ holding[c] \in 0..MaxMessages /\ got[c] \subseteq Msgs
  BY DEF TypeOK
<1>2. InHand(c) \subseteq Msgs
  BY <1>1 DEF InHand, NoSeq
<1> HIDE DEF Msgs
<1>3. Range(wire[c]) \subseteq Msgs /\ Range(queue[c]) \subseteq Msgs
  BY <1>1, RangeOfSeq
<1>4. QED
  BY <1>1, <1>2, <1>3 DEF Line

(* A connection on which nothing happens stays in order. *)
LEMMA SameLine ==
  ASSUME TypeOK, NEW c \in Conns, InOrder(c), sequence <= sequence', sequence' \in Nat,
         wire'[c] = wire[c], holding'[c] = holding[c], queue'[c] = queue[c],
         got'[c] = got[c], sent'[c] = sent[c]
  PROVE  InOrder(c)' /\ Line(c)' = Line(c)
<1>1. Line(c)' = Line(c) /\ InHand(c)' = InHand(c)
  BY DEF Line, InHand
<1>2. sequence \in Nat /\ \A x \in got[c] \cup Line(c) : x \in Nat
  BY OnTheWay DEF Msgs
<1>3. \A x \in got[c]' \cup Line(c)' : x <= sequence'
  BY <1>1, <1>2 DEF InOrder
<1>4. QED
  BY <1>1, <1>3 DEF InOrder

(* What a step of one endpoint has to preserve. *)
LEMMA EndpointFrame ==
  ASSUME Inv, TypeOK', NEW c \in Conns, UNCHANGED <<sequence, browser, history>>,
         \A d \in Conns \ {c} : /\ wire'[d] = wire[d] /\ queue'[d] = queue[d]
                                /\ holding'[d] = holding[d] /\ handler'[d] = handler[d],
         InOrder(c)', Line(c)' \subseteq Line(c),
         holding'[c] # NoSeq <=> handler'[c] = "sending",
         handler[c] # "none", clients' \subseteq clients \cup {c}
  PROVE  Inv'
<1> USE DEF browser, history
<1>0. sequence' = sequence /\ sequence \in Nat
  BY OnTheWay DEF Inv
<1>1. ASSUME NEW d \in Conns PROVE InOrder(d)' /\ Line(d)' \subseteq Line(d)
  <2>1. CASE d = c
    BY <2>1
  <2>2. CASE d # c
    BY <1>0, <2>2, SameLine DEF Inv, Lines
  <2>3. QED
    BY <2>1, <2>2
<1>2. Lines'
  BY <1>1 DEF Lines
<1>3. Hands'
  BY DEF Inv, Hands
<1>4. Unused'
  <2> SUFFICES ASSUME NEW d \in Conns, d > Len(owner)
               PROVE  d \notin clients' /\ Line(d)' = {} /\ handler'[d] = "none"
    BY DEF Unused
  <2>1. d \notin clients /\ Line(d) = {} /\ handler[d] = "none"
    BY DEF Inv, Unused
  <2>2. QED
    BY <1>1, <2>1
<1>5. Pages'
  <2> SUFFICES ASSUME NEW b \in Browsers, NEW d \in Conns, conn[b] = d, NEW x \in Line(d)'
               PROVE  rows[b] < x
    BY <1>0 DEF Inv, Pages
  <2>1. x \in Line(d)
    BY <1>1
  <2>2. QED
    BY <2>1 DEF Inv, Pages
<1>6. QED
  BY <1>2, <1>3, <1>4, <1>5 DEF Inv

LEMMA EndpointKeepsInv ==
  ASSUME Inv, NEW c \in Conns, Endpoint(c)
  PROVE  Inv'
<1> USE ChannelBoundsAssumption, ChannelAssumption
<1> DEFINE w == wire[c]
           q == queue[c]
<1>1. /\ w \in Seq(Msgs) /\ q \in Seq(Msgs) /\ sent[c] \in Seq(Msgs) /\ Len(q) <= QueueSize
      /\ sequence \in Nat /\ InHand(c) \subseteq Msgs /\ Range(w) \subseteq Msgs
      /\ Range(q) \subseteq Msgs /\ Line(c) \subseteq Msgs
      /\ TypeOK /\ InOrder(c)
  BY OnTheWay DEF Inv, Lines
<1>2. UNCHANGED <<sequence, sinceBeat, broken, browser, history>>
  BY DEF Endpoint, Register, AcceptFails, TakePayload, SendText, SendFails, network
<1>3. handler[c] # "none"
  BY DEF Endpoint, Register, AcceptFails, TakePayload, SendText, SendFails
<1>4. ASSUME wire' \in [Conns -> Seq(1..MaxMessages)], queue' \in [Conns -> Seq(1..MaxMessages)],
             \A d \in Conns : Len(queue'[d]) <= QueueSize,
             holding' \in [Conns -> 0..MaxMessages], handler' \in [Conns -> Handlers],
             clients' \subseteq Conns
      PROVE  TypeOK'
  BY <1>1, <1>2, <1>4 DEF TypeOK, browser, history
<1>5. CASE Register(c) \/ AcceptFails(c)
  <2>1. /\ UNCHANGED <<wire, queue, holding>> /\ handler[c] = "accepting"
        /\ \E h \in Handlers \ {"sending"} : handler' = [handler EXCEPT ![c] = h]
        /\ clients' \subseteq clients \cup {c}
    BY <1>5 DEF Register, AcceptFails, network, Handlers
  <2>2. TypeOK'
    <3>1. handler \in [Conns -> Handlers] /\ clients \subseteq Conns
      BY <1>1 DEF TypeOK
    <3>2. handler' \in [Conns -> Handlers] /\ clients' \subseteq Conns
      BY <2>1, <3>1
    <3>3. /\ wire' \in [Conns -> Seq(1..MaxMessages)] /\ queue' \in [Conns -> Seq(1..MaxMessages)]
          /\ \A d \in Conns : Len(queue'[d]) <= QueueSize
          /\ holding' \in [Conns -> 0..MaxMessages]
      BY <1>1, <2>1 DEF TypeOK
    <3>4. QED
      BY <1>4, <3>2, <3>3
  <2>3. InOrder(c)' /\ Line(c)' = Line(c)
    BY <1>1, <1>2, <2>1, SameLine DEF history
  <2>4. holding[c] = NoSeq
    BY <2>1 DEF Inv, Hands
  <2>5. handler'[c] # "sending" /\ \A d \in Conns \ {c} : handler'[d] = handler[d]
    BY <1>1, <2>1 DEF TypeOK
  <2>6. QED
    BY <1>2, <1>3, <2>1, <2>2, <2>3, <2>4, <2>5, EndpointFrame
<1>6. CASE TakePayload(c)
  <2> DEFINE h == Head(q)
             r == Tail(q)
  <2>1. /\ q # <<>> /\ handler[c] = "waiting"
        /\ holding' = [holding EXCEPT ![c] = h] /\ queue' = [queue EXCEPT ![c] = r]
        /\ handler' = [handler EXCEPT ![c] = "sending"] /\ UNCHANGED <<clients, wire>>
    BY <1>6 DEF TakePayload, network
  <2>2. /\ h \in Msgs /\ h \in Range(q) /\ r \in Seq(Msgs) /\ Len(r) < Len(q)
        /\ Range(r) \subseteq Range(q)
        /\ Ascending(r) /\ \A x \in Range(r) : h < x
    BY <1>1, <2>1, HeadTaken DEF InOrder
  <2>3. Suffix(r, sent[c])
    BY <1>1, <2>1, SuffixTail DEF InOrder
  <2>4. Len(r) \in Nat /\ Len(q) \in Nat
    BY <1>1, <2>2, LenProperties
  <2> HIDE DEF h, r, w
  <2>5. /\ holding'[c] = h /\ queue'[c] = r /\ wire'[c] = w /\ handler'[c] = "sending"
        /\ \A d \in Conns \ {c} : /\ wire'[d] = wire[d] /\ queue'[d] = queue[d]
                                  /\ holding'[d] = holding[d] /\ handler'[d] = handler[d]
    BY <1>1, <2>1 DEF TypeOK, w
  <2>6. TypeOK'
    <3>1. /\ h \in 0..MaxMessages /\ r \in Seq(1..MaxMessages) /\ Len(r) <= QueueSize
          /\ "sending" \in Handlers
      BY <1>1, <2>2, <2>4 DEF Msgs, Handlers
    <3>2. QED
      BY <1>1, <1>4, <2>1, <3>1 DEF TypeOK
  <2>7. InHand(c)' = {h} /\ Line(c)' = Range(w) \cup {h} \cup Range(r)
    BY <2>2, <2>5 DEF InHand, Line, Msgs, NoSeq
  <2>8. Line(c)' \subseteq Line(c)
    BY <2>2, <2>7 DEF Line, w
  <2>9. InOrder(c)'
    <3>1. \A x \in Range(w), y \in {h} \cup Range(r) : x < y
      BY <1>1, <2>2 DEF InOrder, w
    <3>2. got'[c] = got[c] /\ sent'[c] = sent[c] /\ sequence' = sequence
      BY <1>2 DEF history
    <3>3. QED
      BY <1>1, <2>2, <2>3, <2>5, <2>7, <2>8, <3>1, <3>2 DEF InOrder, w
  <2>10. holding'[c] # NoSeq
    BY <2>2, <2>5 DEF Msgs, NoSeq
  <2>11. QED
    BY <1>2, <1>3, <2>1, <2>5, <2>6, <2>8, <2>9, <2>10, EndpointFrame
<1>7. CASE SendText(c)
  <2> DEFINE v == wire'[c]
             h == holding[c]
  <2>1. /\ handler[c] = "sending" /\ UNCHANGED <<clients, queue>>
        /\ holding' = [holding EXCEPT ![c] = NoSeq]
        /\ handler' = [handler EXCEPT ![c] = "waiting"]
        /\ wire' = wire \/ wire' = [wire EXCEPT ![c] = Append(w, h)]
    BY <1>7 DEF SendText
  <2>2. /\ holding'[c] = NoSeq /\ handler'[c] = "waiting" /\ queue'[c] = q
        /\ v = w \/ v = Append(w, h)
        /\ \A d \in Conns \ {c} : /\ wire'[d] = wire[d] /\ queue'[d] = queue[d]
                                  /\ holding'[d] = holding[d] /\ handler'[d] = handler[d]
    BY <1>1, <2>1 DEF TypeOK
  <2>3. h \in InHand(c) /\ h \in Msgs
    BY <1>1, <2>1 DEF Inv, Hands, InHand
  <2> HIDE DEF v, w, q, h
  <2>4. v \in Seq(Msgs) /\ Ascending(v) /\ Range(v) \subseteq Range(w) \cup {h}
    <3>1. \A x \in Range(w) : x < h
      BY <1>1, <2>3 DEF InOrder, w
    <3>2. Ascending(w)
      BY <1>1 DEF InOrder, w
    <3>3. QED
      BY ZenonT(60), <1>1, <2>2, <2>3, <3>1, <3>2, Appended
  <2>5. TypeOK'
    <3>1. NoSeq \in 0..MaxMessages /\ "waiting" \in Handlers
      BY DEF NoSeq, Handlers
    <3>2. wire' \in [Conns -> Seq(1..MaxMessages)]
      <4>1. wire' = wire \/ wire' = [wire EXCEPT ![c] = v]
        BY <1>1, <2>1 DEF v, TypeOK
      <4>2. QED
        BY <1>1, <2>4, <4>1 DEF TypeOK, Msgs
    <3>3. QED
      BY <1>1, <1>4, <2>1, <3>1, <3>2 DEF TypeOK
  <2>6. InHand(c)' = {} /\ Line(c)' = Range(v) \cup Range(q)
    BY <2>2 DEF InHand, Line, v, q
  <2>7. Line(c)' \subseteq Line(c)
    BY <2>3, <2>4, <2>6 DEF Line, w, q
  <2>8. InOrder(c)'
    <3>1. \A x \in Range(v), y \in Range(q) : x < y
      BY <1>1, <2>3, <2>4 DEF InOrder, w, q
    <3>2. got'[c] = got[c] /\ sent'[c] = sent[c] /\ sequence' = sequence
      BY <1>2 DEF history
    <3>3. QED
      BY <1>1, <2>2, <2>4, <2>6, <2>7, <3>1, <3>2 DEF InOrder, v, q
  <2>9. QED
    BY <1>2, <1>3, <2>1, <2>2, <2>5, <2>7, <2>8, EndpointFrame
<1>8. CASE SendFails(c)
  <2>1. /\ handler[c] = "sending" /\ clients' \subseteq clients /\ UNCHANGED wire
        /\ holding' = [holding EXCEPT ![c] = NoSeq]
        /\ handler' = [handler EXCEPT ![c] = "ended"]
        /\ queue' = [queue EXCEPT ![c] = <<>>]
    BY <1>8 DEF SendFails, network
  <2>2. /\ holding'[c] = NoSeq /\ handler'[c] = "ended" /\ queue'[c] = <<>> /\ wire'[c] = w
        /\ \A d \in Conns \ {c} : /\ wire'[d] = wire[d] /\ queue'[d] = queue[d]
                                  /\ holding'[d] = holding[d] /\ handler'[d] = handler[d]
    BY <1>1, <2>1 DEF TypeOK
  <2>3. Range(<<>>) = {} /\ Ascending(<<>>) /\ <<>> \in Seq(Msgs) /\ Len(<<>>) = 0
    BY EmptyLine
  <2>4. TypeOK'
    <3>1. /\ NoSeq \in 0..MaxMessages /\ "ended" \in Handlers
          /\ <<>> \in Seq(1..MaxMessages) /\ Len(<<>>) <= QueueSize
      BY <2>3 DEF NoSeq, Handlers, Msgs
    <3>2. QED
      BY <1>1, <1>4, <2>1, <3>1 DEF TypeOK
  <2>5. InHand(c)' = {} /\ Line(c)' = Range(w)
    BY <2>2, <2>3 DEF InHand, Line
  <2>6. InOrder(c)'
    <3>1. Suffix(<<>>, sent[c])
      BY <1>1, SuffixOfNothing
    <3>2. got'[c] = got[c] /\ sent'[c] = sent[c] /\ sequence' = sequence
      BY <1>2 DEF history
    <3>3. QED
      BY <1>1, <2>2, <2>3, <2>5, <3>1, <3>2 DEF InOrder, Line
  <2>7. QED
    BY <1>2, <1>3, <2>1, <2>2, <2>4, <2>5, <2>6, EndpointFrame DEF Line
<1>9. QED
  BY <1>5, <1>6, <1>7, <1>8 DEF Endpoint

-----------------------------------------------------------------------------
(* The pages. *)

(* A step of a page that moves no message and changes no row. *)
LEMMA QuietPage ==
  ASSUME Inv, TypeOK',
         UNCHANGED <<sequence, clients, queue, handler, holding, wire, rows, owner, sent, got>>,
         \A b \in Browsers : conn'[b] \in {conn[b], NoConn},
         \A b \in Browsers : isOpen'[b] => conn'[b] # NoConn
  PROVE  Inv'
<1>1. \A c \in Conns : InOrder(c)' = InOrder(c) /\ Line(c)' = Line(c)
  BY DEF InOrder, Line, InHand
<1>2. Lines' /\ Hands' /\ Unused'
  BY <1>1 DEF Inv, Lines, Hands, Unused
<1>3. Pages'
  <2> SUFFICES ASSUME NEW b \in Browsers, NEW c \in Conns, conn'[b] = c
               PROVE  c \in DOMAIN owner /\ owner[c] = b /\ \A x \in Line(c)' : rows[b] < x
    BY DEF Inv, Pages
  <2>1. conn[b] = c
    <3>1. c # NoConn
      BY DEF Conns, NoConn
    <3>2. QED
      BY <3>1
  <2>2. QED
    BY <1>1, <2>1 DEF Inv, Pages
<1>4. QED
  BY <1>2, <1>3 DEF Inv

LEMMA DialKeepsInv == ASSUME Inv, NEW b \in Browsers, Dial(b) PROVE Inv'
<1> USE ChannelBoundsAssumption
<1> DEFINE new == Len(owner) + 1
<1>1. /\ owner \in Seq(Browsers) /\ Len(owner) \in Nat /\ Len(owner) < MaxConns
      /\ DOMAIN owner = 1..Len(owner) /\ new \in Conns
      /\ conn \in [Browsers -> Conns \cup {NoConn}] /\ conn[b] = NoConn
      /\ handler \in [Conns -> Handlers]
  <2>1. /\ owner \in Seq(Browsers) /\ conn \in [Browsers -> Conns \cup {NoConn}]
        /\ handler \in [Conns -> Handlers]
    BY DEF Inv, TypeOK
  <2>2. conn[b] = NoConn /\ Len(owner) < MaxConns
    BY DEF Dial
  <2>3. Len(owner) \in Nat /\ DOMAIN owner = 1..Len(owner)
    BY <2>1, LenProperties
  <2>4. new \in Conns
    BY <2>2, <2>3 DEF Conns
  <2>5. QED
    BY <2>1, <2>2, <2>3, <2>4
<1>2. /\ owner' = Append(owner, b)
      /\ UNCHANGED <<sequence, sinceBeat, clients, queue, holding, network, isOpen, lastSeq,
                     missed, updaters, paused, rows, toggles, deferred, sent, got, updates>>
  BY DEF Dial
<1>3. /\ owner' \in Seq(Browsers) /\ Len(owner') = new /\ DOMAIN owner' = 1..new
      /\ owner'[new] = b /\ \A c \in DOMAIN owner : owner'[c] = owner[c]
  <2>1. /\ owner' \in Seq(Browsers) /\ Len(owner') = new
        /\ \A c \in 1..Len(owner) : owner'[c] = owner[c] /\ owner'[new] = b
    BY <1>1, <1>2, AppendProperties
  <2>2. owner'[new] = b
    BY <1>1, <1>2
  <2>3. QED
    BY <1>1, <2>1, <2>2, LenProperties
<1>4. conn' = [conn EXCEPT ![b] = new] /\ handler' = [handler EXCEPT ![new] = "accepting"]
  BY <1>3 DEF Dial
<1>5. TypeOK'
  <2>1. new <= MaxConns /\ "accepting" \in Handlers
    BY <1>1 DEF Handlers
  <2>2. conn' \in [Browsers -> Conns \cup {NoConn}] /\ handler' \in [Conns -> Handlers]
    BY <1>1, <1>4, <2>1
  <2>3. QED
    BY <1>2, <1>3, <2>1, <2>2 DEF Inv, TypeOK, network
<1>6. \A c \in Conns : InOrder(c)' = InOrder(c) /\ Line(c)' = Line(c)
  BY <1>2 DEF InOrder, Line, InHand, network
<1>7. new \notin clients /\ Line(new) = {} /\ handler[new] = "none"
  BY <1>1 DEF Inv, Unused
<1>8. Lines' /\ Hands'
  BY <1>1, <1>2, <1>4, <1>6, <1>7 DEF Inv, Lines, Hands
<1>9. Unused'
  <2> SUFFICES ASSUME NEW c \in Conns, c > new
               PROVE  c \notin clients /\ Line(c)' = {} /\ handler'[c] = "none"
    BY <1>2, <1>3 DEF Unused
  <2>1. c > Len(owner) /\ c # new
    BY <1>1 DEF Conns
  <2>2. QED
    BY <1>1, <1>4, <1>6, <2>1 DEF Inv, Unused
<1>10. Pages'
  <2> SUFFICES ASSUME NEW d \in Browsers
               PROVE  /\ rows[d] <= sequence
                      /\ isOpen[d] => conn'[d] # NoConn
                      /\ \A c \in Conns : conn'[d] = c =>
                           c \in DOMAIN owner' /\ owner'[c] = d /\ \A x \in Line(c)' : rows[d] < x
    BY <1>2 DEF Pages
  <2>1. rows[d] <= sequence /\ (isOpen[d] => conn[d] # NoConn)
    BY DEF Inv, Pages
  <2>2. CASE d = b
    <3>1. conn'[d] = new /\ new # NoConn /\ new \in DOMAIN owner' /\ owner'[new] = d
      BY <1>1, <1>3, <1>4, <2>2 DEF NoConn, Conns
    <3>2. \A c \in Conns : c = new => Line(c)' = {}
      BY <1>6, <1>7
    <3>3. QED
      BY <2>1, <3>1, <3>2
  <2>3. CASE d # b
    <3>1. conn'[d] = conn[d]
      BY <1>1, <1>4, <2>3
    <3>2. DOMAIN owner \subseteq DOMAIN owner'
      BY <1>1, <1>3
    <3>3. \A c \in Conns : conn[d] = c =>
            c \in DOMAIN owner /\ owner[c] = d /\ \A x \in Line(c) : rows[d] < x
      BY DEF Inv, Pages
    <3>4. QED
      BY <1>3, <1>6, <2>1, <3>1, <3>2, <3>3
  <2>4. QED
    BY <2>2, <2>3
<1>11. QED
  BY <1>5, <1>8, <1>9, <1>10 DEF Inv

LEMMA OnMessageKeepsInv ==
  ASSUME Inv, NEW b \in Browsers, OnMessage(b)
  PROVE  Inv' /\ rows'[b] >= rows[b] /\ \A d \in Browsers \ {b} : rows'[d] = rows[d]
<1> USE ChannelBoundsAssumption
<1>0. PICK c \in Conns : conn[b] = c
  BY DEF OnMessage, Inv, TypeOK, Pages
<1> DEFINE w == wire[c]
           n == Head(w)
           r == Tail(w)
<1>1. /\ c \in DOMAIN owner /\ owner[c] = b /\ w # <<>>
      /\ \A x \in Line(c) : rows[b] < x
  BY <1>0 DEF OnMessage, Inv, Pages
<1>2. /\ w \in Seq(Msgs) /\ Line(c) \subseteq Msgs /\ sequence \in Nat /\ TypeOK /\ InOrder(c)
      /\ got[c] \subseteq Msgs
  BY <1>1, OnTheWay DEF Inv, Lines
<1>3. /\ n \in Msgs /\ n \in Range(w) /\ r \in Seq(Msgs) /\ Range(r) \subseteq Range(w)
      /\ Ascending(r) /\ \A x \in Range(r) : n < x
  BY <1>1, <1>2, HeadTaken DEF InOrder
<1>4. /\ wire' = [wire EXCEPT ![c] = r] /\ lastSeq' = [lastSeq EXCEPT ![b] = n]
      /\ rows' = rows \/ rows' = [rows EXCEPT ![b] = n]
      /\ got' = [got EXCEPT ![c] = @ \cup {n}] /\ CountGap(b, n)
      /\ UNCHANGED <<server, broken, conn, isOpen, paused, owner, toggles, deferred, sent, updates>>
  BY <1>0 DEF OnMessage
<1> HIDE DEF n, r
<1>5. TypeOK'
  <2>1. n \in 0..MaxMessages /\ r \in Seq(1..MaxMessages) /\ n \in Nat /\ n \in 1..MaxMessages
    BY <1>3 DEF Msgs
  <2>2. wire' \in [Conns -> Seq(1..MaxMessages)] /\ lastSeq' \in [Browsers -> 0..MaxMessages]
    BY <1>2, <1>4, <2>1 DEF TypeOK
  <2>3. rows' \in [Browsers -> 0..MaxMessages]
    BY <1>2, <1>4, <2>1 DEF TypeOK
  <2>4. got' \in [Conns -> SUBSET (1..MaxMessages)]
    BY ZenonT(60), <1>1, <1>2, <1>4, <2>1 DEF TypeOK
  <2>5. missed' \in [Browsers -> Int] /\ updaters' \in [Browsers -> Seq(1..MaxMessages)]
    <3>1. lastSeq[b] \in Int /\ missed[b] \in Int /\ updaters[b] \in Seq(1..MaxMessages)
      BY <1>2 DEF TypeOK
    <3>2. missed[b] + (n - lastSeq[b] - 1) \in Int /\ Append(updaters[b], n) \in Seq(1..MaxMessages)
      BY <2>1, <3>1
    <3>3. /\ missed' = missed \/ missed' = [missed EXCEPT ![b] = missed[b] + (n - lastSeq[b] - 1)]
          /\ updaters' = updaters \/ updaters' = [updaters EXCEPT ![b] = Append(updaters[b], n)]
      BY <1>4 DEF CountGap
    <3>4. QED
      BY ZenonT(60), <1>2, <3>2, <3>3 DEF TypeOK
  <2>6. QED
    BY <1>2, <1>4, <2>2, <2>3, <2>4, <2>5 DEF TypeOK, server
<1>6. /\ wire'[c] = r /\ got'[c] = got[c] \cup {n}
      /\ \A d \in Conns \ {c} : wire'[d] = wire[d] /\ got'[d] = got[d]
      /\ rows'[b] \in {rows[b], n} /\ \A d \in Browsers \ {b} : rows'[d] = rows[d]
  BY <1>1, <1>2, <1>4 DEF TypeOK
<1>7. InHand(c)' = InHand(c) /\ Line(c)' = Range(r) \cup InHand(c) \cup Range(queue[c])
  BY <1>4, <1>6 DEF InHand, Line, server
<1>8. Line(c)' \subseteq Line(c) /\ (\A x \in Line(c)' : n < x) /\ n \in Line(c)
  BY <1>2, <1>3, <1>7 DEF Line, InOrder
<1>9. InOrder(c)'
  <2>0. Ascending(wire[c])' /\ Ascending(queue[c])' /\ Suffix(queue[c], sent[c])'
    BY <1>2, <1>3, <1>4, <1>6 DEF InOrder, server, Ascending, Suffix
  <2>1. \A x \in Range(r), y \in InHand(c) \cup Range(queue[c]) : x < y
    BY <1>2, <1>3 DEF InOrder
  <2>2. \A x \in got[c] \cup {n}, y \in Line(c)' : x < y
    BY <1>2, <1>8 DEF InOrder
  <2>3. queue'[c] = queue[c] /\ sent'[c] = sent[c] /\ sequence' = sequence
    BY <1>4 DEF server
  <2>4. QED
    BY <1>2, <1>3, <1>6, <1>7, <1>8, <2>1, <2>2, <2>3 DEF InOrder
<1>10. ASSUME NEW d \in Conns PROVE InOrder(d)' /\ (d # c => Line(d)' = Line(d))
  <2>1. CASE d = c
    BY <1>9, <2>1
  <2>2. CASE d # c
    BY <1>2, <1>4, <1>6, <2>2, SameLine DEF Inv, Lines, server
  <2>3. QED
    BY <2>1, <2>2
<1>11. Lines' /\ Hands'
  BY <1>4, <1>10 DEF Inv, Lines, Hands, server
<1>12. Unused'
  BY <1>4, <1>8, <1>10 DEF Inv, Unused, server
<1>13. Pages'
  <2> SUFFICES ASSUME NEW d \in Browsers
               PROVE  /\ rows'[d] <= sequence
                      /\ isOpen[d] => conn[d] # NoConn
                      /\ \A e \in Conns : conn[d] = e =>
                           e \in DOMAIN owner /\ owner[e] = d /\ \A x \in Line(e)' : rows'[d] < x
    BY <1>4 DEF Pages, server
  <2>1. n <= sequence
    BY <1>2, <1>8 DEF InOrder
  <2>2. rows[d] <= sequence /\ (isOpen[d] => conn[d] # NoConn)
    BY DEF Inv, Pages
  <2>3. CASE d = b
    <3>1. \A x \in Line(c)' : rows'[b] < x
      BY <1>1, <1>6, <1>8
    <3>2. rows'[d] <= sequence
      BY <1>6, <2>1, <2>2, <2>3
    <3>3. QED
      BY <1>0, <1>1, <2>2, <2>3, <3>1, <3>2
  <2>4. CASE d # b
    <3>1. \A e \in Conns : conn[d] = e =>
            e \in DOMAIN owner /\ owner[e] = d /\ \A x \in Line(e) : rows[d] < x
      BY DEF Inv, Pages
    <3>2. conn[d] # c
      BY <1>1, <2>4, <3>1
    <3>3. QED
      BY <1>6, <1>10, <2>2, <2>4, <3>1, <3>2
  <2>5. QED
    BY <2>3, <2>4
<1>14. rows'[b] >= rows[b]
  <2>1. rows[b] < n /\ rows[b] \in Nat /\ n \in Nat
    BY <1>1, <1>2, <1>3, <1>8 DEF TypeOK, Msgs
  <2>2. QED
    BY <1>6, <2>1
<1>15. QED
  BY <1>5, <1>6, <1>11, <1>12, <1>13, <1>14 DEF Inv

LEMMA OnCloseKeepsInv == ASSUME Inv, NEW b \in Browsers, OnClose(b) PROVE Inv'
<1>0. PICK c \in Conns : conn[b] = c
  BY DEF OnClose, Inv, TypeOK
<1>1. /\ wire' = [wire EXCEPT ![c] = <<>>] /\ conn' = [conn EXCEPT ![b] = NoConn]
      /\ isOpen' = [isOpen EXCEPT ![b] = FALSE]
      /\ UNCHANGED <<server, broken, lastSeq, missed, updaters, paused, rows, history>>
  BY <1>0 DEF OnClose
<1>2. TypeOK /\ Range(<<>>) = {} /\ Ascending(<<>>) /\ <<>> \in Seq(1..MaxMessages)
  BY EmptyLine DEF Inv, Msgs
<1>3. TypeOK'
  BY <1>1, <1>2 DEF TypeOK, server, history
<1>4. /\ wire'[c] = <<>> /\ \A d \in Conns \ {c} : wire'[d] = wire[d]
      /\ conn'[b] = NoConn /\ ~isOpen'[b]
      /\ \A d \in Browsers \ {b} : conn'[d] = conn[d] /\ isOpen'[d] = isOpen[d]
  BY <1>1, <1>2 DEF TypeOK
<1>5. Line(c)' = InHand(c) \cup Range(queue[c]) /\ InHand(c)' = InHand(c)
  BY <1>1, <1>2, <1>4 DEF Line, InHand, server
<1>6. ASSUME NEW d \in Conns PROVE InOrder(d)' /\ Line(d)' \subseteq Line(d)
  <2>1. InOrder(d) /\ sequence \in Nat /\ sequence' = sequence
    BY <1>1, <1>2, OnTheWay DEF Inv, Lines, server
  <2>2. CASE d = c
    BY <1>1, <1>2, <1>4, <1>5, <2>1, <2>2 DEF InOrder, Line, server, history
  <2>3. CASE d # c
    BY <1>1, <1>2, <1>4, <2>1, <2>3, SameLine DEF server, history
  <2>4. QED
    BY <2>2, <2>3
<1>7. Lines' /\ Hands'
  BY <1>1, <1>6 DEF Inv, Lines, Hands, server
<1>8. Unused'
  BY <1>1, <1>6 DEF Inv, Unused, server, history
<1>9. Pages'
  <2> SUFFICES ASSUME NEW d \in Browsers
               PROVE  /\ rows[d] <= sequence
                      /\ isOpen'[d] => conn'[d] # NoConn
                      /\ \A e \in Conns : conn'[d] = e =>
                           e \in DOMAIN owner /\ owner[e] = d /\ \A x \in Line(e)' : rows[d] < x
    BY <1>1 DEF Pages, server, history
  <2>1. CASE d = b
    <3>1. \A e \in Conns : e # NoConn
      BY DEF Conns, NoConn
    <3>2. QED
      BY <1>4, <2>1, <3>1 DEF Inv, Pages
  <2>2. CASE d # b
    BY <1>4, <1>6, <2>2 DEF Inv, Pages
  <2>3. QED
    BY <2>1, <2>2
<1>10. QED
  BY <1>3, <1>7, <1>8, <1>9 DEF Inv

(* Opening, rendering and pausing take nothing from the line. *)
LEMMA QuietPageKeepsInv ==
  ASSUME Inv, NEW b \in Browsers, OnOpen(b) \/ Render(b) \/ TogglePause(b)
  PROVE  Inv' /\ rows' = rows
<1> USE ChannelBoundsAssumption
<1>1. /\ UNCHANGED <<server, network, conn, rows, owner, sent, got, updates>>
      /\ lastSeq' \in {lastSeq, [lastSeq EXCEPT ![b] = NoSeq]}
      /\ paused' \in {paused, [paused EXCEPT ![b] = ~@]}
      /\ isOpen' = isOpen \/ (conn[b] # NoConn /\ isOpen' = [isOpen EXCEPT ![b] = TRUE])
      /\ toggles' = toggles \/ (toggles < MaxToggles /\ toggles' = toggles + 1)
      /\ deferred' \in {deferred, deferred \cup {b}}
  BY DEF OnOpen, Render, TogglePause, history
<1>2. missed' \in [Browsers -> Int] /\ updaters' \in [Browsers -> Seq(1..MaxMessages)]
  <2>1. /\ missed \in [Browsers -> Int] /\ updaters \in [Browsers -> Seq(1..MaxMessages)]
        /\ lastSeq[b] \in Int /\ missed[b] \in Int /\ updaters[b] \in Seq(Msgs)
    BY DEF Inv, TypeOK, Msgs
  <2>2. CASE Render(b)
    <3> DEFINE n == Head(updaters[b])
               r == Tail(updaters[b])
    <3>1. /\ updaters[b] # <<>> /\ updaters' = [updaters EXCEPT ![b] = r]
          /\ missed' = [missed EXCEPT ![b] = missed[b] + (n - lastSeq[b] - 1)]
      BY <2>2 DEF Render
    <3>2. n \in 1..MaxMessages /\ r \in Seq(1..MaxMessages)
      BY <2>1, <3>1, HeadTaken DEF Msgs
    <3> HIDE DEF n, r
    <3>3. missed[b] + (n - lastSeq[b] - 1) \in Int
      BY <2>1, <3>2
    <3>4. QED
      BY <2>1, <3>1, <3>2, <3>3
  <2>3. CASE OnOpen(b) \/ TogglePause(b)
    BY <2>1, <2>3 DEF OnOpen, TogglePause
  <2>4. QED
    BY <2>2, <2>3
<1>3. TypeOK'
  <2>1. lastSeq' \in [Browsers -> 0..MaxMessages]
    <3>1. NoSeq \in 0..MaxMessages /\ lastSeq \in [Browsers -> 0..MaxMessages]
      BY DEF Inv, TypeOK, NoSeq
    <3>2. QED
      BY <1>1, <3>1
  <2>2. paused' \in [Browsers -> BOOLEAN] /\ isOpen' \in [Browsers -> BOOLEAN]
    BY <1>1 DEF Inv, TypeOK
  <2>3. toggles' \in 0..MaxToggles /\ deferred' \subseteq Browsers
    BY <1>1 DEF Inv, TypeOK
  <2>4. QED
    BY <1>1, <1>2, <2>1, <2>2, <2>3 DEF Inv, TypeOK, server, network
<1>4. \A d \in Browsers : isOpen'[d] => conn'[d] # NoConn
  <2>1. \A d \in Browsers : isOpen[d] => conn[d] # NoConn
    BY DEF Inv, Pages
  <2>2. \A d \in Browsers \ {b} : isOpen'[d] = isOpen[d]
    BY <1>1 DEF Inv, TypeOK
  <2>3. isOpen'[b] = isOpen[b] \/ conn[b] # NoConn
    BY <1>1
  <2>4. QED
    BY <1>1, <2>1, <2>2, <2>3
<1>5. QED
  BY <1>1, <1>3, <1>4, QuietPage DEF server, network

-----------------------------------------------------------------------------
(* The broadcaster. *)

(* A new message is put on a connection. *)
LEMMA PutOnLine ==
  ASSUME NEW q \in Seq(Msgs), Len(q) <= QueueSize, NEW n \in Msgs, NEW s \in Seq(Msgs),
         Ascending(q), \A x \in Range(q) : x < n, Suffix(q, s)
  PROVE  /\ Put(q, n) \in Seq(Msgs) /\ Len(Put(q, n)) <= QueueSize
         /\ Append(s, n) \in Seq(Msgs)
         /\ Range(Put(q, n)) \subseteq Range(q) \cup {n}
         /\ Ascending(Put(q, n)) /\ Suffix(Put(q, n), Append(s, n))
BY PutKeepsNewest, Appended

(* What a push does to a connection: its queue gains only new messages. *)
LEMMA Pushed ==
  ASSUME Inv, Push, NEW c \in Conns
  PROVE  /\ sequence' \in Nat /\ sequence < sequence' /\ sequence' <= MaxMessages
         /\ queue'[c] \in Seq(Msgs) /\ Len(queue'[c]) <= QueueSize /\ sent'[c] \in Seq(Msgs)
         /\ Ascending(queue'[c]) /\ Suffix(queue'[c], sent'[c])
         /\ \A x \in Range(queue'[c]) :
              x \in Range(queue[c]) \/ (c \in clients /\ sequence < x /\ x <= sequence')
<1> USE ChannelBoundsAssumption
<1> DEFINE q == queue[c]
           s == sent[c]
           row == sequence + 1
           beat == sequence + 2
           due == sinceBeat + 1 >= HeartbeatEvery
<1>1. /\ q \in Seq(Msgs) /\ s \in Seq(Msgs) /\ Len(q) <= QueueSize /\ sequence \in Nat
      /\ Range(q) \subseteq Msgs /\ Ascending(q) /\ Suffix(q, s)
      /\ \A x \in Range(q) : x <= sequence
  BY OnTheWay DEF Inv, Lines, InOrder, Line
<1>2. /\ sequence' = IF due THEN beat ELSE row
      /\ sequence' <= MaxMessages
      /\ c \notin clients => queue'[c] = q /\ sent'[c] = s
      /\ c \in clients =>
           /\ queue'[c] = IF due THEN Put(Put(q, row), beat) ELSE Put(q, row)
           /\ sent'[c] = IF due THEN s \o <<row, beat>> ELSE Append(s, row)
  BY DEF Push
<1> HIDE DEF q, s, due
<1>3. /\ row \in Msgs /\ sequence < row /\ row <= sequence' /\ sequence' \in Nat
      /\ due => beat \in Msgs /\ row < beat /\ beat = sequence'
  BY <1>1, <1>2 DEF Msgs
<1>4. /\ \A x \in Range(q) : x < row /\ x < beat
  BY <1>1 DEF Msgs
<1> DEFINE q1 == Put(q, row)
           s1 == Append(s, row)
<1>5. /\ q1 \in Seq(Msgs) /\ Len(q1) <= QueueSize /\ s1 \in Seq(Msgs)
      /\ Range(q1) \subseteq Range(q) \cup {row} /\ Ascending(q1) /\ Suffix(q1, s1)
  BY <1>1, <1>3, <1>4, PutOnLine
<1>6. CASE c \notin clients
  BY <1>1, <1>2, <1>3, <1>6 DEF q
<1>7. CASE c \in clients /\ ~due
  <2>1. queue'[c] = q1 /\ sent'[c] = s1
    BY <1>2, <1>7
  <2>2. QED
    BY <1>2, <1>3, <1>5, <1>7, <2>1 DEF q
<1>8. CASE c \in clients /\ due
  <2>1. queue'[c] = Put(q1, beat) /\ sent'[c] = s \o <<row, beat>>
    BY <1>2, <1>8
  <2>2. s \o <<row, beat>> = Append(s1, beat)
    BY <1>1, <1>3, <1>8
  <2> HIDE DEF q1, s1
  <2>3. \A x \in Range(q1) : x < beat
    BY <1>3, <1>4, <1>5, <1>8
  <2>4. /\ Put(q1, beat) \in Seq(Msgs) /\ Len(Put(q1, beat)) <= QueueSize
        /\ Append(s1, beat) \in Seq(Msgs)
        /\ Range(Put(q1, beat)) \subseteq Range(q1) \cup {beat}
        /\ Ascending(Put(q1, beat)) /\ Suffix(Put(q1, beat), Append(s1, beat))
    BY <1>3, <1>5, <1>8, <2>3, PutOnLine
  <2>5. \A x \in Range(Put(q1, beat)) : x \in Range(q) \/ x = row \/ x = beat
    BY <1>5, <2>4
  <2>6. beat <= sequence' /\ sequence < beat
    BY <1>1, <1>3, <1>8
  <2>7. QED
    BY <1>2, <1>3, <1>8, <2>1, <2>2, <2>4, <2>5, <2>6 DEF q
<1>9. QED
  BY <1>6, <1>7, <1>8

LEMMA PushKeepsInv == ASSUME Inv, Push PROVE Inv' /\ rows' = rows
<1> USE ChannelAssumption, ChannelBoundsAssumption
<1>1. /\ UNCHANGED <<clients, handler, holding, network, browser, owner, toggles, deferred, got>>
      /\ clients # {} /\ updates' = updates \cup {sequence + 1}
      /\ sinceBeat' = IF sinceBeat + 1 >= HeartbeatEvery THEN 0 ELSE sinceBeat + 1
      /\ queue' = [c \in Conns |-> queue'[c]] /\ sent' = [c \in Conns |-> sent'[c]]
  BY DEF Push
<1>2. TypeOK /\ sequence \in Nat
  BY DEF Inv, TypeOK
<1>3. sequence' \in Nat /\ sequence < sequence' /\ sequence' <= MaxMessages
  <2>1. \E c \in Conns : c \in clients
    BY <1>1, <1>2 DEF TypeOK
  <2>2. QED
    BY <2>1, Pushed
<1>4. TypeOK'
  <2>1. sequence' \in 0..MaxMessages /\ updates' \subseteq 1..MaxMessages
    <3>1. sequence' \in 0..MaxMessages /\ sequence + 1 \in 1..MaxMessages
      BY <1>2, <1>3
    <3>2. QED
      BY <1>1, <1>2, <3>1 DEF TypeOK
  <2>2. sinceBeat' \in 0..HeartbeatEvery - 1
    <3>1. sinceBeat \in 0..HeartbeatEvery - 1
      BY <1>2 DEF TypeOK
    <3>2. QED
      BY <1>1, <3>1
  <2>3. queue' \in [Conns -> Seq(Msgs)] /\ \A c \in Conns : Len(queue'[c]) <= QueueSize
    BY <1>1, Pushed
  <2>4. sent' \in [Conns -> Seq(Msgs)]
    BY <1>1, Pushed
  <2>5. QED
    BY <1>1, <1>2, <2>1, <2>2, <2>3, <2>4 DEF TypeOK, Msgs, network, browser
<1>5. ASSUME NEW c \in Conns
      PROVE  /\ InOrder(c)'
             /\ Line(c)' \subseteq Nat
             /\ \A x \in Line(c)' : x \in Line(c) \/ (c \in clients /\ sequence < x)
  <2>1. /\ InOrder(c) /\ Line(c) \subseteq Msgs /\ got[c] \subseteq Msgs
        /\ InHand(c) \subseteq Msgs /\ Range(wire[c]) \subseteq Msgs
    BY OnTheWay DEF Inv, Lines
  <2>2. wire'[c] = wire[c] /\ got'[c] = got[c] /\ InHand(c)' = InHand(c)
    BY <1>1 DEF network, InHand
  <2>3. Line(c)' = Range(wire[c]) \cup InHand(c) \cup Range(queue'[c])
    BY <2>2 DEF Line
  <2>4. /\ Ascending(queue'[c]) /\ Suffix(queue'[c], sent'[c]) /\ queue'[c] \in Seq(Msgs)
        /\ \A x \in Range(queue'[c]) :
             x \in Range(queue[c]) \/ (c \in clients /\ sequence < x /\ x <= sequence')
    BY Pushed
  <2>5. Range(queue'[c]) \subseteq Msgs
    BY <2>4, RangeOfSeq
  <2>6. \A x \in Line(c)' : x \in Line(c) \/ (c \in clients /\ sequence < x /\ x <= sequence')
    BY <2>3, <2>4 DEF Line
  <2>7. \A x \in Line(c) : x <= sequence /\ x \in Nat
    BY <2>1 DEF InOrder, Msgs
  <2>8. \A x \in Line(c)' : x <= sequence' /\ x \in Nat
    BY <1>2, <1>3, <2>1, <2>3, <2>5, <2>6, <2>7 DEF Msgs
  <2>9. /\ \A x \in Range(wire[c]), y \in InHand(c) \cup Range(queue'[c]) : x < y
        /\ \A x \in InHand(c), y \in Range(queue'[c]) : x < y
    <3>1. \A x \in Range(wire[c]) \cup InHand(c) : x \in Line(c)
      BY DEF Line
    <3>2. QED
      BY <1>2, <2>1, <2>3, <2>4, <2>7, <2>8, <3>1 DEF InOrder
  <2>10. \A x \in got[c] : x <= sequence' /\ \A y \in Line(c)' : x < y
    <3>1. \A x \in got[c] : x <= sequence /\ x \in Nat /\ \A y \in Line(c) : x < y
      BY <2>1 DEF InOrder, Msgs
    <3>2. QED
      BY <1>2, <1>3, <2>6, <2>8, <3>1
  <2>11. QED
    BY <2>1, <2>2, <2>3, <2>4, <2>6, <2>8, <2>9, <2>10 DEF InOrder
<1>6. Lines' /\ Hands'
  BY <1>1, <1>5 DEF Inv, Lines, Hands
<1>7. Unused'
  BY <1>1, <1>5 DEF Inv, Unused
<1>8. Pages'
  <2> SUFFICES ASSUME NEW b \in Browsers
               PROVE  /\ rows[b] <= sequence'
                      /\ isOpen[b] => conn[b] # NoConn
                      /\ \A c \in Conns : conn[b] = c =>
                           c \in DOMAIN owner /\ owner[c] = b /\ \A x \in Line(c)' : rows[b] < x
    BY <1>1 DEF Pages, browser
  <2>1. rows[b] <= sequence /\ rows[b] \in Nat /\ (isOpen[b] => conn[b] # NoConn)
    BY <1>2 DEF Inv, Pages, TypeOK
  <2>2. rows[b] <= sequence'
    BY <1>2, <1>3, <2>1
  <2>3. ASSUME NEW c \in Conns, conn[b] = c, NEW x \in Line(c)' PROVE rows[b] < x
    <3>1. x \in Nat /\ (x \in Line(c) \/ sequence < x)
      BY <1>5, <2>3
    <3>2. x \in Line(c) => rows[b] < x
      BY <2>3 DEF Inv, Pages
    <3>3. QED
      BY <1>2, <2>1, <3>1, <3>2
  <2>4. QED
    BY <2>1, <2>2, <2>3 DEF Inv, Pages
<1>9. QED
  BY <1>1, <1>4, <1>6, <1>7, <1>8 DEF Inv, browser

(* Numbers taken in vain, and lost connections, move nothing. *)
LEMMA OtherKeepsInv ==
  ASSUME Inv, PushFails \/ (\E c \in Conns : Break(c)) \/ UNCHANGED vars
  PROVE  Inv' /\ rows' = rows
<1> USE ChannelBoundsAssumption
<1>1. /\ UNCHANGED <<sinceBeat, clients, queue, handler, holding, wire, browser, history>>
      /\ \/ sequence' = sequence /\ broken' \subseteq Conns
         \/ sequence < MaxMessages /\ sequence' = sequence + 1 /\ broken' = broken
  BY DEF PushFails, Break, vars, server, network, Inv, TypeOK
<1>2. sequence \in Nat /\ sequence' \in Nat /\ sequence <= sequence' /\ sequence' \in 0..MaxMessages
  BY <1>1 DEF Inv, TypeOK
<1>3. TypeOK'
  BY <1>1, <1>2 DEF Inv, TypeOK, browser, history
<1>4. \A c \in Conns : InOrder(c)' /\ Line(c)' = Line(c)
  BY <1>1, <1>2, SameLine DEF Inv, Lines, history
<1>5. Lines' /\ Hands' /\ Unused'
  BY <1>1, <1>4 DEF Inv, Lines, Hands, Unused, history
<1>6. Pages'
  <2>1. \A b \in Browsers : rows[b] <= sequence'
    <3>1. \A b \in Browsers : rows[b] <= sequence /\ rows[b] \in Nat
      BY DEF Inv, Pages, TypeOK
    <3>2. QED
      BY <1>2, <3>1
  <2>2. QED
    BY <1>1, <1>4, <2>1 DEF Inv, Pages, browser, history
<1>7. QED
  BY <1>1, <1>3, <1>5, <1>6 DEF Inv, browser

-----------------------------------------------------------------------------
(* Nothing has been sent at the start. *)
LEMMA InitInv == Init => Inv
<1> SUFFICES ASSUME Init PROVE Inv
  OBVIOUS
<1> USE ChannelAssumption, ChannelBoundsAssumption
<1>1. /\ Range(<<>>) = {} /\ Ascending(<<>>) /\ Len(<<>>) = 0
      /\ <<>> \in Seq(1..MaxMessages) /\ <<>> \in Seq(Msgs) /\ <<>> \in Seq(Browsers)
  BY EmptyLine, EmptySeq DEF Msgs
<1>2. TypeOK
  <2>1. /\ sequence \in 0..MaxMessages /\ sinceBeat \in 0..HeartbeatEvery - 1
        /\ toggles \in 0..MaxToggles /\ Len(owner) <= MaxConns /\ 0 <= QueueSize
        /\ NoSeq \in 0..MaxMessages /\ "none" \in Handlers
    BY <1>1 DEF Init, NoSeq, Handlers
  <2>2. QED
    BY <1>1, <2>1 DEF Init, TypeOK
<1>3. \A c \in Conns : InHand(c) = {} /\ Line(c) = {} /\ got[c] = {}
  BY <1>1 DEF Init, InHand, Line
<1>4. Lines
  BY <1>1, <1>3, SuffixOfNothing DEF Init, Lines, InOrder, Line
<1>5. Hands /\ Unused /\ Pages
  <2>1. \A b \in Browsers, c \in Conns : conn[b] # c /\ ~isOpen[b] /\ rows[b] <= sequence
    BY DEF Init, Conns, NoConn, NoSeq
  <2>2. \A b \in Browsers : ~isOpen[b] /\ rows[b] <= sequence
    BY DEF Init, NoSeq
  <2>3. QED
    BY <1>3, <2>1, <2>2 DEF Init, Hands, Unused, Pages
<1>6. QED
  BY <1>2, <1>4, <1>5 DEF Inv

(* Every step keeps the invariant, and moves the rows on, if at all. *)
LEMMA NextInv == Inv /\ [Next]_vars => Inv' /\ \A b \in Browsers : rows'[b] >= rows[b]
<1> SUFFICES ASSUME Inv, [Next]_vars PROVE Inv' /\ \A b \in Browsers : rows'[b] >= rows[b]
  OBVIOUS
<1>1. \A b \in Browsers : rows[b] >= rows[b]
  <2>1. \A b \in Browsers : rows[b] \in Nat
    BY ChannelBoundsAssumption DEF Inv, TypeOK
  <2>2. QED
    BY <2>1
<1>2. CASE Push
  BY <1>1, <1>2, PushKeepsInv
<1>3. CASE PushFails \/ (\E c \in Conns : Break(c)) \/ UNCHANGED vars
  BY <1>1, <1>3, OtherKeepsInv
<1>4. ASSUME NEW c \in Conns, Endpoint(c) PROVE Inv' /\ rows' = rows
  <2>1. rows' = rows
    BY <1>4 DEF Endpoint, Register, AcceptFails, TakePayload, SendText, SendFails, browser
  <2>2. QED
    BY <1>4, <2>1, EndpointKeepsInv
<1>5. ASSUME NEW b \in Browsers, Dial(b) \/ OnClose(b) PROVE Inv' /\ rows' = rows
  <2>1. rows' = rows
    BY <1>5 DEF Dial, OnClose
  <2>2. QED
    BY <1>5, <2>1, DialKeepsInv, OnCloseKeepsInv
<1>6. ASSUME NEW b \in Browsers, OnMessage(b)
      PROVE  Inv' /\ \A d \in Browsers : rows'[d] >= rows[d]
  BY <1>1, <1>6, OnMessageKeepsInv
<1>7. ASSUME NEW b \in Browsers, OnOpen(b) \/ Render(b) \/ TogglePause(b) PROVE Inv' /\ rows' = rows
  BY <1>7, QuietPageKeepsInv
<1>8. QED
  BY <1>1, <1>2, <1>3, <1>4, <1>5, <1>6, <1>7 DEF Next, Page

-----------------------------------------------------------------------------
(* The counter of missed messages. *)

(* What the page has taken from its connection. *)
Reached(b) ==
  \A c \in Conns : conn[b] = c =>
    /\ ~isOpen[b] => got[c] = {}
    /\ isOpen[b] /\ got[c] = {} => lastSeq[b] = NoSeq
    /\ isOpen[b] /\ got[c] # {} =>
         lastSeq[b] \in got[c] /\ \A x \in got[c] : x <= lastSeq[b]

(* Unless an updater waits or has been put off, the count is right. *)
CountRight(b) ==
  /\ IsFiniteSet(Skips(b))
  /\ b \notin deferred /\ updaters[b] = <<>> => missed[b] = Skipped(b)

Counted ==
  /\ \A c \in Conns : c > Len(owner) => got[c] = {}
  /\ \A b \in Browsers : Reached(b) /\ CountRight(b)

(* Counting sets that have nothing in common, and pairs. *)
LEMMA CountUnion ==
  ASSUME NEW S, IsFiniteSet(S), NEW G, IsFiniteSet(G), S \cap G = {}
  PROVE  IsFiniteSet(S \cup G) /\ Cardinality(S \cup G) = Cardinality(S) + Cardinality(G)
<1> DEFINE k == Cardinality(S)
           m == Cardinality(G)
           T == S \cup G
<1>1. k \in Nat /\ m \in Nat /\ ExistsBijection(1..k, S) /\ ExistsBijection(1..m, G)
  BY FS_CardinalityType
<1>2. PICK f \in Bijection(1..k, S), h \in Bijection(1..m, G) : TRUE
  BY <1>1 DEF ExistsBijection
<1>3. /\ f \in [1..k -> S] /\ h \in [1..m -> G]
      /\ \A i, j \in 1..k : f[i] = f[j] => i = j
      /\ \A i, j \in 1..m : h[i] = h[j] => i = j
      /\ \A t \in S : \E i \in 1..k : f[i] = t
      /\ \A t \in G : \E i \in 1..m : h[i] = t
  BY <1>2 DEF Bijection, Injection, IsInjective, Surjection
<1> HIDE DEF k, m
<1> DEFINE g == [i \in 1..(k + m) |-> IF i <= k THEN f[i] ELSE h[i - k]]
<1>4. ASSUME NEW i \in 1..(k + m)
      PROVE  /\ i \in 1..k => g[i] = f[i] /\ g[i] \in S
             /\ i \notin 1..k => i - k \in 1..m /\ g[i] = h[i - k] /\ g[i] \in G
  <2>1. CASE i \in 1..k
    BY <1>1, <1>3, <2>1
  <2>2. CASE i \notin 1..k
    <3>1. ~(i <= k) /\ i - k \in 1..m
      BY <1>1, <2>2
    <3>2. QED
      BY <1>3, <2>2, <3>1
  <2>3. QED
    BY <2>1, <2>2
<1>5. g \in [1..(k + m) -> T]
  <2>1. \A i \in 1..(k + m) : g[i] \in T
    BY <1>4
  <2>2. QED
    BY <2>1
<1>6. ASSUME NEW i \in 1..(k + m), NEW j \in 1..(k + m), g[i] = g[j] PROVE i = j
  <2>1. CASE i \in 1..k /\ j \in 1..k
    BY <1>3, <1>4, <1>6, <2>1
  <2>2. CASE i \notin 1..k /\ j \notin 1..k
    <3>1. i - k = j - k
      BY <1>3, <1>4, <1>6, <2>2
    <3>2. QED
      BY <1>1, <3>1
  <2>3. CASE (i \in 1..k) # (j \in 1..k)
    BY <1>4, <1>6, <2>3
  <2>4. QED
    BY <2>1, <2>2, <2>3
<1>7. ASSUME NEW t \in T PROVE \E i \in 1..(k + m) : g[i] = t
  <2>1. CASE t \in S
    <3>1. PICK i \in 1..k : f[i] = t
      BY <1>3, <2>1
    <3>2. i \in 1..(k + m)
      BY <1>1
    <3>3. QED
      BY <1>4, <3>1, <3>2
  <2>2. CASE t \in G
    <3>1. PICK x \in 1..m : h[x] = t
      BY <1>3, <2>2
    <3> DEFINE i == k + x
    <3>2. i \in 1..(k + m) /\ i \notin 1..k /\ i - k = x
      BY <1>1
    <3> HIDE DEF i
    <3>3. QED
      BY <1>4, <3>1, <3>2
  <2>3. QED
    BY <2>1, <2>2
<1> HIDE DEF g, T
<1> DEFINE p == k + m
<1>8. p \in Nat /\ p \in Int /\ 1 \in Int
  BY <1>1
<1>9. g \in Bijection(1..p, T)
  BY <1>5, <1>6, <1>7 DEF Bijection, Injection, IsInjective, Surjection
<1> HIDE DEF p
<1>10. IsFiniteSet(1..p) /\ Cardinality(1..p) = p
  <2>1. IsFiniteSet(1..p) /\ Cardinality(1..p) = IF 1 > p THEN 0 ELSE p - 1 + 1
    BY <1>8, FS_Interval
  <2>2. QED
    BY <1>8, <2>1
<1>11. IsFiniteSet(T) /\ Cardinality(T) = p
  BY <1>9, <1>10, FS_Bijection DEF ExistsBijection
<1>12. QED
  BY <1>11 DEF T, k, m, p

(* A stretch of one connection counts as many as the stretch. *)
LEMMA CountPairs ==
  ASSUME NEW c, NEW I, IsFiniteSet(I)
  PROVE  IsFiniteSet({c} \X I) /\ Cardinality({c} \X I) = Cardinality(I)
<1> DEFINE g == [x \in I |-> <<c, x>>]
<1>1. /\ g \in [I -> {c} \X I]
      /\ \A x, y \in I : g[x] = g[y] => x = y
      /\ \A t \in {c} \X I : \E x \in I : g[x] = t
  OBVIOUS
<1> HIDE DEF g
<1>2. ExistsBijection(I, {c} \X I)
  BY <1>1 DEF ExistsBijection, Bijection, Injection, IsInjective, Surjection
<1>3. QED
  BY <1>2, FS_Bijection

(* What the counter speaks of. *)
counting == <<owner, got, conn, isOpen, lastSeq, missed, updaters, deferred>>

(* Where nothing it depends on changes the counter stays exact. *)
LEMMA QuietKeepsCount == ASSUME Counted, UNCHANGED counting PROVE Counted'
<1>1. UNCHANGED <<owner, got, conn, isOpen, lastSeq, missed, updaters, deferred>>
  BY DEF counting
<1>2. \A b \in Browsers : Skips(b)' = Skips(b)
  BY <1>1 DEF Skips, Missing
<1>3. QED
  BY <1>1, <1>2 DEF Counted, Reached, CountRight, Skipped

(* A new connection has missed nothing yet. *)
LEMMA DialKeepsCount == ASSUME Inv, Counted, NEW b \in Browsers, Dial(b) PROVE Counted'
<1> DEFINE new == Len(owner) + 1
<1>1. /\ owner \in Seq(Browsers) /\ conn \in [Browsers -> Conns \cup {NoConn}]
      /\ conn[b] = NoConn /\ Len(owner) < MaxConns /\ owner' = Append(owner, b)
      /\ UNCHANGED <<got, isOpen, lastSeq, missed, updaters, deferred>>
  BY DEF Inv, TypeOK, Dial
<1>2. /\ Len(owner) \in Nat /\ DOMAIN owner = 1..Len(owner)
      /\ Len(owner') = new /\ DOMAIN owner' = 1..new
      /\ \A c \in DOMAIN owner : owner'[c] = owner[c]
  BY <1>1, AppendProperties, LenProperties
<1>3. conn' = [conn EXCEPT ![b] = new]
  BY <1>2 DEF Dial
<1>4. /\ got[new] = {} /\ \A c \in Conns : c > new => c > Len(owner)
  <2>1. new \in Conns /\ new > Len(owner)
    BY <1>1, <1>2, ChannelBoundsAssumption DEF Conns
  <2>2. \A c \in Conns : c > new => c > Len(owner)
    BY <1>2 DEF Conns
  <2>3. QED
    BY <2>1, <2>2 DEF Counted
<1>5. \A c \in Conns : c > Len(owner') => got'[c] = {}
  BY <1>1, <1>2, <1>4 DEF Counted
<1>6. ASSUME NEW d \in Browsers PROVE Reached(d)' /\ CountRight(d)'
  <2>1. Skips(d)' = Skips(d)
    <3>1. Missing(new) = {} /\ \A c : Missing(c)' = Missing(c)
      BY <1>1, <1>4 DEF Missing
    <3>2. \A c \in DOMAIN owner' : c \in DOMAIN owner \/ c = new
      BY <1>2
    <3>3. \A c \in DOMAIN owner : c \in DOMAIN owner'
      BY <1>2
    <3>4. \A skip \in Conns \X (1..MaxMessages) : skip \in Skips(d)' <=> skip \in Skips(d)
      BY <1>2, <3>1, <3>2, <3>3 DEF Skips
    <3>5. QED
      BY <3>4 DEF Skips
  <2>2. CountRight(d)'
    BY <1>1, <2>1 DEF Counted, CountRight, Skipped
  <2>3. Reached(d)'
    <3>1. CASE d = b
      <4>1. ~isOpen[d]
        BY <1>1, <3>1 DEF Inv, Pages
      <4>2. QED
        BY <1>1, <1>3, <1>4, <3>1, <4>1 DEF Reached
    <3>2. CASE d # b
      BY <1>1, <1>3, <3>2 DEF Counted, Reached
    <3>3. QED
      BY <3>1, <3>2
  <2>4. QED
    BY <2>2, <2>3
<1>7. QED
  BY <1>5, <1>6 DEF Counted

(* Opening, closing and rendering change no connection's messages. *)
LEMMA PageKeepsCount ==
  ASSUME Inv, Counted, NEW b \in Browsers, OnOpen(b) \/ OnClose(b) \/ Render(b)
  PROVE  Counted'
<1>1. owner' = owner /\ got' = got
  BY DEF OnOpen, OnClose, Render, history
<1>2. \A d \in Browsers : Skips(d)' = Skips(d)
  BY <1>1 DEF Skips, Missing
<1>3. /\ conn \in [Browsers -> Conns \cup {NoConn}] /\ isOpen \in [Browsers -> BOOLEAN]
      /\ lastSeq \in [Browsers -> 0..MaxMessages] /\ missed \in [Browsers -> Int]
      /\ updaters \in [Browsers -> Seq(1..MaxMessages)] /\ NoConn \notin Conns
  BY DEF Inv, TypeOK, NoConn, Conns
<1>4. ASSUME NEW d \in Browsers PROVE Reached(d)' /\ CountRight(d)'
  <2>0. Reached(d) /\ CountRight(d)
    BY DEF Counted
  <2>1. CASE OnOpen(b)
    <3>1. /\ UNCHANGED <<conn, missed, updaters, deferred>> /\ ~isOpen[b]
          /\ isOpen' = [isOpen EXCEPT ![b] = TRUE] /\ lastSeq' = [lastSeq EXCEPT ![b] = NoSeq]
      BY <2>1 DEF OnOpen, history
    <3>2. CountRight(d)'
      BY <1>2, <2>0, <3>1 DEF CountRight, Skipped
    <3>3. CASE d = b
      BY <1>1, <1>3, <2>0, <3>1, <3>2, <3>3 DEF Reached
    <3>4. CASE d # b
      BY <1>1, <1>3, <2>0, <3>1, <3>2, <3>4 DEF Reached
    <3>5. QED
      BY <3>3, <3>4
  <2>2. CASE OnClose(b)
    <3>1. /\ UNCHANGED <<lastSeq, missed, updaters, deferred>>
          /\ conn' = [conn EXCEPT ![b] = NoConn] /\ isOpen' = [isOpen EXCEPT ![b] = FALSE]
      BY <2>2 DEF OnClose, history
    <3>2. CountRight(d)'
      BY <1>2, <2>0, <3>1 DEF CountRight, Skipped
    <3>3. CASE d = b
      BY <1>3, <3>1, <3>2, <3>3 DEF Reached
    <3>4. CASE d # b
      BY <1>1, <1>3, <2>0, <3>1, <3>2, <3>4 DEF Reached
    <3>5. QED
      BY <3>3, <3>4
  <2>3. CASE Render(b)
    <3>1. /\ UNCHANGED <<conn, isOpen, lastSeq>> /\ deferred' = deferred \cup {b}
          /\ \A e \in Browsers \ {b} : missed'[e] = missed[e] /\ updaters'[e] = updaters[e]
      BY <1>3, <2>3 DEF Render
    <3>2. Reached(d)'
      BY <1>1, <2>0, <3>1 DEF Reached
    <3>3. CountRight(d)'
      <4>1. CASE d = b
        BY <1>2, <2>0, <3>1, <4>1 DEF CountRight
      <4>2. CASE d # b
        BY <1>2, <2>0, <3>1, <4>2 DEF CountRight, Skipped
      <4>3. QED
        BY <4>1, <4>2
    <3>4. QED
      BY <3>2, <3>3
  <2>4. QED
    BY <2>1, <2>2, <2>3
<1>5. QED
  BY <1>1, <1>4 DEF Counted

(* A message that is newer than all others of its connection extends what  *)
(* the connection missed by the numbers since the last.                    *)
LEMMA OnMessageKeepsCount ==
  ASSUME Inv, Counted, NEW b \in Browsers, OnMessage(b)
  PROVE  Counted'
<1> USE ChannelBoundsAssumption
<1>0. PICK c \in Conns : conn[b] = c
  BY DEF OnMessage, Inv, TypeOK, Pages
<1> DEFINE n == Head(wire[c])
           a == lastSeq[b]
<1>1. /\ c \in DOMAIN owner /\ owner[c] = b /\ isOpen[b] /\ wire[c] # <<>>
      /\ \A d \in Browsers \ {b} : conn[d] # c
  BY <1>0 DEF OnMessage, Inv, Pages
<1>2. /\ got[c] \subseteq Msgs /\ InOrder(c) /\ wire[c] \in Seq(Msgs)
  BY <1>1, OnTheWay DEF Inv, Lines
<1>3. n \in Msgs /\ n \in Line(c)
  BY <1>1, <1>2, HeadTaken DEF InOrder, Line
<1>4. /\ lastSeq' = [lastSeq EXCEPT ![b] = n] /\ got' = [got EXCEPT ![c] = @ \cup {n}]
      /\ CountGap(b, n) /\ UNCHANGED <<conn, isOpen, owner, deferred>>
  BY <1>0 DEF OnMessage
<1> HIDE DEF n
<1>5. /\ \A x \in got[c] : x < n
      /\ got[c] = {} => a = NoSeq
      /\ got[c] # {} => a \in got[c] /\ \A x \in got[c] : x <= a
  BY <1>0, <1>1, <1>2, <1>3 DEF InOrder, Counted, Reached
<1>6. /\ got \in [Conns -> SUBSET (1..MaxMessages)] /\ lastSeq \in [Browsers -> 0..MaxMessages]
      /\ missed \in [Browsers -> Int] /\ updaters \in [Browsers -> Seq(1..MaxMessages)]
      /\ a \in Nat /\ n \in Nat /\ c \notin {d \in Conns : d > Len(owner)}
  <2>1. /\ got \in [Conns -> SUBSET (1..MaxMessages)] /\ lastSeq \in [Browsers -> 0..MaxMessages]
        /\ missed \in [Browsers -> Int] /\ updaters \in [Browsers -> Seq(1..MaxMessages)]
        /\ owner \in Seq(Browsers)
    BY DEF Inv, TypeOK
  <2>2. DOMAIN owner = 1..Len(owner) /\ Len(owner) \in Nat
    BY <2>1, LenProperties
  <2>3. QED
    BY <1>1, <1>3, <2>1, <2>2 DEF Msgs
<1>7. /\ got'[c] = got[c] \cup {n} /\ \A d \in Conns \ {c} : got'[d] = got[d]
      /\ lastSeq'[b] = n /\ \A d \in Browsers \ {b} : lastSeq'[d] = lastSeq[d]
  BY <1>4, <1>6
<1>8. \A d \in Conns : d > Len(owner') => got'[d] = {}
  BY <1>4, <1>6, <1>7 DEF Counted
<1>9. ASSUME NEW d \in Browsers PROVE Reached(d)'
  <2>1. CASE d = b
    <3>1. \A x \in got'[c] : x <= n
      BY <1>2, <1>3, <1>5, <1>7 DEF Msgs
    <3>2. n \in got'[c]
      BY <1>7
    <3>3. QED
      BY <1>0, <1>1, <1>4, <1>7, <2>1, <3>1, <3>2 DEF Reached
  <2>2. CASE d # b
    <3>1. conn[d] # c
      BY <1>1, <2>2
    <3>2. QED
      BY <1>4, <1>7, <2>2, <3>1 DEF Counted, Reached
  <2>3. QED
    BY <2>1, <2>2
<1>10. ASSUME NEW d \in Browsers, d # b PROVE CountRight(d)'
  <2>1. \A e \in Conns : owner[e] = d => Missing(e)' = Missing(e)
    BY <1>1, <1>7, <1>10 DEF Missing
  <2>2. Skips(d)' = Skips(d)
    BY <1>4, <2>1 DEF Skips
  <2>3. missed'[d] = missed[d] /\ updaters'[d] = updaters[d]
    BY <1>4, <1>6, <1>10 DEF CountGap
  <2>4. QED
    BY <1>4, <2>2, <2>3 DEF Counted, CountRight, Skipped
<1>11. CASE got[c] = {}
  <2>1. \A e \in Conns : Missing(e)' = Missing(e)
    <3>1. Missing(c) = {}
      BY <1>11 DEF Missing
    <3>2. Missing(c)' = {}
      <4>1. \A x, y \in got'[c] : x = y
        BY <1>7, <1>11
      <4>2. ~(n < n)
        BY <1>6
      <4>3. \A x \in 1..MaxMessages : ~(n < x /\ x < n)
        BY <1>6
      <4>4. got'[c] = {n}
        BY <1>7, <1>11
      <4>5. QED
        BY <4>3, <4>4 DEF Missing
    <3>3. \A e \in Conns : e # c => Missing(e)' = Missing(e)
      BY <1>7 DEF Missing
    <3>4. QED
      BY <3>1, <3>2, <3>3
  <2>2. Skips(b)' = Skips(b)
    BY <1>4, <2>1 DEF Skips
  <2>3. missed' = missed /\ updaters' = updaters
    BY <1>4, <1>5, <1>11 DEF CountGap, IsGap
  <2>4. CountRight(b)'
    BY <1>4, <2>2, <2>3 DEF Counted, CountRight, Skipped
  <2>5. QED
    BY <1>8, <1>9, <1>10, <2>4 DEF Counted
<1>12. CASE got[c] # {}
  <2> DEFINE gap == {c} \X ((a + 1)..(n - 1))
  <2>1. a \in got[c] /\ a < n /\ a # NoSeq
    BY <1>2, <1>5, <1>12 DEF Msgs, NoSeq
  <2>2. ASSUME NEW x \in 1..MaxMessages
        PROVE  x \in Missing(c)' <=> x \in Missing(c) \/ (a < x /\ x < n)
    <3>1. \A y \in got[c] : y \in Nat /\ y <= a /\ y < n
      BY <1>2, <1>5, <1>12 DEF Msgs
    <3>2. Missing(c)' = {y \in 1..MaxMessages \ (got[c] \cup {n}) :
                           \E first, last \in got[c] \cup {n} : first < y /\ y < last}
      BY <1>7 DEF Missing
    <3>3. ASSUME x \in Missing(c) PROVE x \in Missing(c)'
      <4>1. PICK first, last \in got[c] : first < x /\ x < last
        BY <3>3 DEF Missing
      <4>2. x # n /\ x \notin got[c]
        BY <1>6, <3>1, <3>3, <4>1 DEF Missing
      <4>3. QED
        BY <3>2, <4>1, <4>2
    <3>4. ASSUME a < x, x < n PROVE x \in Missing(c)'
      <4>1. x \notin got[c] /\ x # n
        BY <1>6, <3>1, <3>4
      <4>2. QED
        BY <2>1, <3>2, <3>4, <4>1
    <3>5. ASSUME x \in Missing(c)', ~(a < x /\ x < n) PROVE x \in Missing(c)
      <4>1. PICK first, last \in got[c] \cup {n} : first < x /\ x < last
        BY <3>2, <3>5
      <4>2. x \notin got[c]
        BY <3>2, <3>5
      <4>3. x < n
        BY <1>6, <3>1, <4>1
      <4>4. x < a
        <5>1. x # a /\ ~(a < x)
          BY <2>1, <3>5, <4>2, <4>3
        <5>2. QED
          BY <1>6, <5>1
      <4>5. first # n
        BY <1>6, <4>1, <4>3
      <4>6. QED
        BY <2>1, <4>1, <4>2, <4>4, <4>5 DEF Missing
    <3>6. QED
      BY <3>3, <3>4, <3>5
  <2>3. \A e \in Conns : e # c => Missing(e)' = Missing(e)
    BY <1>7 DEF Missing
  <2>4. Skips(b)' = Skips(b) \cup gap
    <3>1. \A x \in (a + 1)..(n - 1) : x \in 1..MaxMessages /\ a < x /\ x < n
      BY <1>3, <1>6 DEF Msgs
    <3>2. \A x \in 1..MaxMessages : a < x /\ x < n => x \in (a + 1)..(n - 1)
      BY <1>6
    <3>3. ASSUME NEW skip \in Conns \X (1..MaxMessages)
          PROVE  skip \in Skips(b)' <=> skip \in Skips(b) \/ skip \in gap
      <4>1. PICK e \in Conns, x \in 1..MaxMessages : skip = <<e, x>>
        BY <3>3
      <4>2. skip[1] = e /\ skip[2] = x
        BY <4>1
      <4>3. /\ skip \in Skips(b)' <=> e \in DOMAIN owner /\ owner[e] = b /\ x \in Missing(e)'
            /\ skip \in Skips(b) <=> e \in DOMAIN owner /\ owner[e] = b /\ x \in Missing(e)
        BY <1>4, <3>3, <4>2 DEF Skips
      <4>4. skip \in gap <=> e = c /\ a < x /\ x < n
        BY <3>1, <3>2, <4>1
      <4>5. CASE e = c
        BY <1>1, <2>2, <4>3, <4>4, <4>5
      <4>6. CASE e # c
        BY <2>3, <4>3, <4>4, <4>6
      <4>7. QED
        BY <4>5, <4>6
    <3>4. gap \subseteq Conns \X (1..MaxMessages)
      BY <3>1
    <3>5. /\ Skips(b) \subseteq Conns \X (1..MaxMessages)
          /\ Skips(b)' \subseteq Conns \X (1..MaxMessages)
      BY DEF Skips
    <3> HIDE DEF gap
    <3>6. QED
      BY <3>3, <3>4, <3>5
  <2>5. \A x \in (a + 1)..(n - 1) : <<c, x>> \notin Skips(b)
    <3>1. \A x \in (a + 1)..(n - 1), y \in got[c] : ~(x < y)
      <4>1. \A y \in got[c] : y \in Nat /\ y <= a
        BY <1>2, <1>5, <1>12 DEF Msgs
      <4>2. QED
        BY <1>6, <4>1
    <3>2. \A x \in (a + 1)..(n - 1) : x \notin Missing(c)
      BY <3>1 DEF Missing
    <3>3. QED
      BY <3>2 DEF Skips
  <2>6. IsFiniteSet(Skips(b))' /\ Skipped(b)' = Skipped(b) + (n - a - 1)
    <3>1. IsFiniteSet(Skips(b))
      BY DEF Counted, CountRight
    <3>2. IsFiniteSet((a + 1)..(n - 1)) /\ Cardinality((a + 1)..(n - 1)) = n - a - 1
      <4>1. a + 1 \in Int /\ n - 1 \in Int
        BY <1>6
      <4>2. /\ IsFiniteSet((a + 1)..(n - 1))
            /\ Cardinality((a + 1)..(n - 1))
                 = IF a + 1 > n - 1 THEN 0 ELSE n - 1 - (a + 1) + 1
        BY <4>1, FS_Interval
      <4>3. QED
        BY <1>6, <2>1, <4>2
    <3>3. IsFiniteSet(gap) /\ Cardinality(gap) = n - a - 1
      BY <3>2, CountPairs
    <3> HIDE DEF gap
    <3>4. Skips(b) \cap gap = {}
      BY <2>5 DEF gap
    <3>5. QED
      BY <2>4, <3>1, <3>3, <3>4, CountUnion DEF Skipped
  <2>7. ASSUME b \notin deferred', updaters'[b] = <<>> PROVE missed'[b] = Skipped(b)'
    <3>0. Skipped(b) \in Nat
      BY FS_CardinalityType DEF Skipped, Counted, CountRight
    <3>1. CASE ~IsGap(a, n)
      <4>1. n = a + 1
        BY <1>6, <2>1, <3>1 DEF IsGap
      <4>2. missed'[b] = missed[b] /\ updaters'[b] = updaters[b]
        BY <1>4, <3>1 DEF CountGap
      <4>3. missed[b] = Skipped(b)
        BY <1>4, <2>7, <4>2 DEF Counted, CountRight
      <4>4. Skipped(b) + (n - a - 1) = Skipped(b)
        BY <1>6, <3>0, <4>1
      <4>5. QED
        BY <2>6, <4>2, <4>3, <4>4
    <3>2. CASE IsGap(a, n)
      <4>1. updaters[b] = <<>> /\ missed' = [missed EXCEPT ![b] = @ + (n - a - 1)]
        <5>1. ~(updaters' = [updaters EXCEPT ![b] = Append(@, n)])
          <6>1. updaters[b] \in Seq(1..MaxMessages) /\ n \in 1..MaxMessages
            BY <1>3, <1>6 DEF Msgs
          <6> DEFINE u == updaters[b]
          <6> HIDE DEF u
          <6>2. u \in Seq(1..MaxMessages) /\ n \in 1..MaxMessages
            BY <6>1 DEF u
          <6>3. Append(u, n) # <<>>
            BY <6>2, AppendProperties
          <6>4. QED
            BY <1>6, <2>7, <6>3 DEF u
        <5>2. QED
          BY <1>4, <3>2, <5>1 DEF CountGap
      <4>2. missed'[b] = missed[b] + (n - a - 1)
        BY <1>6, <4>1
      <4>3. missed[b] = Skipped(b)
        BY <1>4, <2>7, <4>1 DEF Counted, CountRight
      <4>4. QED
        BY <2>6, <4>2, <4>3
    <3>3. QED
      BY <3>1, <3>2
  <2>8. CountRight(b)'
    BY <2>6, <2>7 DEF CountRight
  <2>9. QED
    BY <1>8, <1>9, <1>10, <2>8 DEF Counted
<1>13. QED
  BY <1>11, <1>12

(* Nothing is missed at the start. *)
LEMMA InitCounted == Init => Counted
<1> SUFFICES ASSUME Init PROVE Counted
  OBVIOUS
<1>1. /\ \A c \in Conns : got[c] = {}
      /\ \A b \in Browsers : conn[b] = NoConn /\ missed[b] = 0
      /\ owner = <<>> /\ NoConn \notin Conns
  BY DEF Init, NoConn, Conns
<1>2. \A b \in Browsers : Skips(b) = {}
  BY <1>1 DEF Skips, Missing
<1>3. IsFiniteSet({}) /\ Cardinality({}) = 0
  BY FS_EmptySet
<1>4. QED
  BY <1>1, <1>2, <1>3 DEF Counted, Reached, CountRight, Skipped

(* Every step keeps the counter exact. *)
LEMMA NextCounted == Inv /\ Counted /\ [Next]_vars => Counted'
<1> SUFFICES ASSUME Inv, Counted, [Next]_vars PROVE Counted'
  OBVIOUS
<1>1. CASE Push \/ PushFails \/ UNCHANGED vars
  BY <1>1, QuietKeepsCount DEF Push, PushFails, vars, browser, history, counting
<1>2. ASSUME NEW c \in Conns, Endpoint(c) \/ Break(c) PROVE Counted'
  <2>1. UNCHANGED <<browser, history>>
    BY <1>2 DEF Endpoint, Register, AcceptFails, TakePayload, SendText, SendFails, Break
  <2>2. QED
    BY <2>1, QuietKeepsCount DEF browser, history, counting
<1>3. ASSUME NEW b \in Browsers, TogglePause(b) PROVE Counted'
  BY <1>3, QuietKeepsCount DEF TogglePause, counting
<1>4. ASSUME NEW b \in Browsers, Page(b) PROVE Counted'
  BY <1>4, DialKeepsCount, PageKeepsCount, OnMessageKeepsCount DEF Page
<1>5. QED
  BY <1>1, <1>2, <1>3, <1>4 DEF Next

(* The variables keep their types, and no queue grows beyond its size. *)
THEOREM ChannelTypeCorrect == Spec => []TypeOK
<1>1. Inv => TypeOK
  BY DEF Inv
<1>2. QED
  BY InitInv, NextInv, <1>1, PTL DEF Spec

(* What is left of the messages to a connection are the newest, and all    *)
(* that is on its way is in order and newer than what arrived.             *)
THEOREM QueueAlwaysNewest == Spec => []QueueIsNewest
<1>1. Inv => QueueIsNewest
  <2> SUFFICES ASSUME Inv, NEW c \in clients
               PROVE  /\ \E k \in 0..Len(sent[c]) : queue[c] = SubSeq(sent[c], k + 1, Len(sent[c]))
                      /\ Ascending(wire[c] \o Held(c) \o queue[c])
                      /\ \A n \in got[c], i \in DOMAIN wire[c] : n < wire[c][i]
    BY DEF QueueIsNewest
  <2>1. c \in Conns
    BY DEF Inv, TypeOK
  <2>2. InOrder(c)
    BY <2>1 DEF Inv, Lines
  <2>3. /\ wire[c] \in Seq(Msgs) /\ queue[c] \in Seq(Msgs) /\ InHand(c) \subseteq Msgs
    BY <2>1, OnTheWay DEF Inv
  <2>4. Held(c) \in Seq(Msgs) /\ Range(Held(c)) = InHand(c) /\ Ascending(Held(c))
    <3>1. CASE holding[c] = NoSeq
      BY <3>1, EmptyLine DEF Held, InHand
    <3>2. CASE holding[c] # NoSeq
      <4> DEFINE h == holding[c]
      <4>1. h \in Msgs /\ Held(c) = <<h>> /\ InHand(c) = {h}
        BY <2>3, <3>2 DEF Held, InHand
      <4> HIDE DEF h
      <4>2. <<h>> \in Seq(Msgs) /\ DOMAIN <<h>> = {1} /\ <<h>>[1] = h
        BY <4>1
      <4>3. QED
        BY <4>1, <4>2 DEF Range, Ascending
    <3>3. QED
      BY <3>1, <3>2
  <2>5. Ascending(wire[c] \o Held(c)) /\ wire[c] \o Held(c) \in Seq(Msgs)
        /\ Range(wire[c] \o Held(c)) = Range(wire[c]) \cup InHand(c)
    BY <2>2, <2>3, <2>4, Joined DEF InOrder
  <2>6. Ascending(wire[c] \o Held(c) \o queue[c])
    BY <2>2, <2>3, <2>5, Joined DEF InOrder
  <2>7. \A i \in DOMAIN wire[c] : wire[c][i] \in Line(c)
    BY DEF Range, Line
  <2>8. QED
    BY <2>2, <2>6, <2>7 DEF InOrder, Suffix
<1>2. QED
  BY InitInv, NextInv, <1>1, PTL DEF Spec

(* The counter of missed messages is exact on every page that renders in   *)
(* time, whatever was dropped, broken or used up in vain.                  *)
THEOREM MissedAlwaysExact == Spec => []MissedIsExact
<1>1. Counted => MissedIsExact
  BY DEF Counted, CountRight, MissedIsExact
<1>2. QED
  BY InitInv, NextInv, InitCounted, NextCounted, <1>1, PTL DEF Spec

(* Rows on display are replaced by newer ones only, over overflows, pauses *)
(* and reconnects.                                                         *)
THEOREM RowsOnlyAdvance == Spec => RowsNeverGoBack
<1>1. Inv /\ [Next]_vars => [\A b \in Browsers : rows'[b] >= rows[b]]_vars
  BY NextInv
<1>2. QED
  BY InitInv, NextInv, <1>1, PTL DEF Spec, RowsNeverGoBack
=============================================================================
