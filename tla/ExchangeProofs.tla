---------------------------- MODULE ExchangeProofs ----------------------------
(***************************************************************************)
(* The quote of one exchange, for every set of levels, delays and number   *)
(* of updates, reconnects, restarts and broken messages: types, sides that *)
(* the exchange had at the same time, a snapshot before any quote of a     *)
(* connection, and the guard of the cache.  And the local order book: a    *)
(* synced book is the exchange's book, for every set of slots.             *)
(*                                                                         *)
(* A quote is real because each message in flight follows from the one     *)
(* before it (InStep): what the normalizer has applied, then the stream,   *)
(* then the exchange's book, without a gap.  While the numbering was never *)
(* restarted, a number is one more than the changes so far (Numbered).     *)
(* The order book needs that deltas are complete (DeltasAreComplete), a    *)
(* fact about the exchange: without it the slots a delta does not mention  *)
(* could not be trusted to be up to date.                                  *)
(***************************************************************************)
EXTENDS QuoteFeed, OrderBook, SequenceTheorems, TLAPS

(* A book from which message m leads to the book it was sent for. *)
Follows(sides, m) ==
  /\ ApplySide(sides.bid, m.bid) = m.top.bid
  /\ ApplySide(sides.ask, m.ask) = m.top.ask

Truthful(m) == m.type = "snapshot" => m.bid = m.top.bid /\ m.ask = m.top.ask

SameSides(a, b) == a.bid = b.bid /\ a.ask = b.ask

(* As long as no message was broken. *)
InStep ==
  broken = 0 =>
    /\ session \in {"open", "subscribed"} => stream = <<>>
    /\ \A i \in 1..Len(stream) : Truthful(stream[i])
    /\ \A i \in 1..Len(stream) : i > 1 => Follows(stream[i - 1].top, stream[i])
    /\ stream # <<>> =>
         stream[1].type = "snapshot" \/ (norm.seen /\ Follows(norm, stream[1]))
    /\ session = "streaming" =>
         IF stream = <<>> THEN norm.seen /\ SameSides(norm, book)
                          ELSE stream[Len(stream)].top = book

(* As long as the exchange has not restarted its numbering. *)
Numbered ==
  restarts = 0 =>
    /\ useq = clock + 1
    /\ \A i \in 1..Len(stream) : stream[i].u = stream[i].at + 1
    /\ quote # NoQuote => quote.sequence = quote.at + 1

(* What the adapter has seen of this connection. *)
Local == norm.seen => snapped

Inv == TypeOK /\ Local /\ InStep /\ Numbered /\ QuoteWasReal

USE LevelsAssumption, DelayAssumption, FeedBoundsAssumption

NormType == [bid : Sides, ask : Sides, seen : BOOLEAN]

-----------------------------------------------------------------------------
(* The messages the exchange sends. *)
LEMMA SnapshotMessage ==
  ASSUME NEW b \in Books, NEW u \in Nat, NEW n \in Nat
  PROVE  /\ Snapshot(b, u, n) \in Messages /\ Truthful(Snapshot(b, u, n))
         /\ \A sides : Follows(sides, Snapshot(b, u, n))
         /\ Snapshot(b, u, n).top = b /\ Snapshot(b, u, n).type = "snapshot"
         /\ Snapshot(b, u, n).u = u /\ Snapshot(b, u, n).at = n
<1>1. b.bid \in Sides /\ b.ask \in Sides /\ b.bid # NoChange /\ b.ask # NoChange
  BY DEF Books, Sides
<1>2. QED
  BY <1>1 DEF Snapshot, Messages, Truthful, Follows, ApplySide

(* The delta from one book to another tells of the second, and follows the *)
(* first.                                                                  *)
LEMMA DeltaMessage ==
  ASSUME NEW old \in Books, NEW b \in Books, NEW u \in Nat, NEW n \in Nat
  PROVE  /\ Delta(old, b, u, n) \in Messages /\ Truthful(Delta(old, b, u, n))
         /\ \A sides : SameSides(sides, old) => Follows(sides, Delta(old, b, u, n))
         /\ Delta(old, b, u, n).top = b
         /\ Delta(old, b, u, n).u = u /\ Delta(old, b, u, n).at = n
<1>1. b.bid \in Sides /\ b.ask \in Sides /\ b.bid # NoChange /\ b.ask # NoChange
  BY DEF Books, Sides
<1>2. QED
  BY <1>1 DEF Delta, Messages, Truthful, Follows, ApplySide, SameSides

(* Another message is sent. *)
LEMMA Sent ==
  ASSUME Inv, NEW m \in Messages, Truthful(m), stream' = Append(stream, m),
         broken = 0 /\ session = "streaming" =>
           \A sides : SameSides(sides, book) => Follows(sides, m),
         session = "streaming" \/ m.type = "snapshot",
         session \in {"subscribed", "streaming"}, session' = "streaming",
         m.top = book', m.u = useq', m.at = clock',
         restarts' = 0 => useq' = clock' + 1,
         UNCHANGED <<restarts, broken, norm, quote>>
  PROVE  stream' \in Seq(Messages) /\ InStep' /\ Numbered'
<1>1. /\ stream \in Seq(Messages) /\ Len(stream) \in Nat
      /\ stream' \in Seq(Messages) /\ Len(stream') = Len(stream) + 1
      /\ stream'[Len(stream) + 1] = m
      /\ \A i \in 1..Len(stream) : stream'[i] = stream[i]
      /\ stream' # <<>>
  BY LenProperties, AppendProperties DEF Inv, TypeOK
<1>2. stream = <<>> <=> Len(stream) = 0
  BY <1>1, EmptySeq
<1>3. Numbered'
  BY <1>1 DEF Inv, Numbered
<1>4. ASSUME broken = 0 PROVE InStep'
  <2>1. \A i \in 1..Len(stream') : Truthful(stream'[i])
    BY <1>1, <1>4 DEF Inv, InStep
  <2>2. ASSUME stream # <<>> PROVE Follows(stream[Len(stream)].top, m)
    BY <1>2, <1>4, <2>2 DEF Inv, InStep, SameSides
  <2>3. ASSUME NEW i \in 1..Len(stream'), i > 1 PROVE Follows(stream'[i - 1].top, stream'[i])
    <3>1. CASE i = Len(stream) + 1
      <4>1. i - 1 = Len(stream) /\ Len(stream) \in 1..Len(stream) /\ stream # <<>>
        BY <1>1, <1>2, <2>3, <3>1
      <4>2. QED
        BY <1>1, <2>2, <3>1, <4>1
    <3>2. CASE i \in 1..Len(stream)
      <4>1. i - 1 \in 1..Len(stream)
        BY <1>1, <2>3, <3>2
      <4>2. QED
        BY <1>1, <1>4, <2>3, <3>2, <4>1 DEF Inv, InStep
    <3>3. QED
      BY <1>1, <2>3, <3>1, <3>2
  <2>4. stream'[1].type = "snapshot" \/ (norm.seen /\ Follows(norm, stream'[1]))
    <3>1. CASE stream = <<>>
      BY <1>1, <1>2, <1>4, <3>1 DEF Inv, InStep
    <3>2. CASE stream # <<>>
      BY <1>1, <1>2, <1>4, <3>2 DEF Inv, InStep
    <3>3. QED
      BY <3>1, <3>2
  <2>5. stream'[Len(stream')].top = book'
    BY SMTT(30), <1>1
  <2>6. QED
    BY <1>1, <2>1, <2>3, <2>4, <2>5 DEF InStep
<1>5. QED
  BY <1>1, <1>3, <1>4 DEF InStep

-----------------------------------------------------------------------------
(* The first message of the stream. *)
LEMMA Headed ==
  ASSUME Inv, stream # <<>>
  PROVE  /\ stream \in Seq(Messages) /\ Len(stream) \in Nat \ {0} /\ 1 \in 1..Len(stream)
         /\ Head(stream) = stream[1] /\ Head(stream) \in Messages
         /\ Head(stream).bid \in Sides \cup {NoChange}
         /\ Head(stream).ask \in Sides \cup {NoChange}
         /\ Head(stream).type \in {"snapshot", "delta"}
         /\ Head(stream).u \in Nat /\ Head(stream).at \in Nat /\ Head(stream).top \in Books
         /\ Tail(stream) \in Seq(Messages) /\ Len(Tail(stream)) = Len(stream) - 1
         /\ \A i \in 1..Len(Tail(stream)) : Tail(stream)[i] = stream[i + 1]
         /\ Tail(stream) # stream
<1>1. stream \in Seq(Messages) /\ Len(stream) \in Nat \ {0} /\ Head(stream) = stream[1]
  BY EmptySeq DEF Inv, TypeOK
<1>2. /\ Tail(stream) \in Seq(Messages) /\ Len(Tail(stream)) = Len(stream) - 1
      /\ \A i \in 1..Len(Tail(stream)) : Tail(stream)[i] = stream[i + 1]
      /\ Head(stream) \in Messages
  BY <1>1, HeadTailProperties
<1>3. Len(stream) - 1 # Len(stream) /\ 1 \in 1..Len(stream)
  BY <1>1
<1>4. QED
  BY <1>1, <1>2, <1>3 DEF Messages

(* What the normalizer makes of a message. *)
LEMMA Normalized ==
  ASSUME NEW n \in NormType, NEW m \in Messages
  PROVE  /\ Normalize(n, m) \in NormType
         /\ Normalize(n, m).seen = (n.seen \/ m.type = "snapshot")
         /\ [n EXCEPT !.bid = ApplySide(@, m.bid)] \in NormType
         /\ [n EXCEPT !.bid = ApplySide(@, m.bid)].seen = n.seen
<1>1. /\ n.bid \in Sides /\ n.ask \in Sides /\ n.seen \in BOOLEAN
      /\ m.bid \in Sides \cup {NoChange} /\ m.ask \in Sides \cup {NoChange}
      /\ m.type \in {"snapshot", "delta"}
  BY DEF NormType, Messages
<1>2. ApplySide(n.bid, m.bid) \in Sides /\ ApplySide(n.ask, m.ask) \in Sides
  BY <1>1 DEF ApplySide
<1>3. QED
  BY <1>1, <1>2 DEF Normalize, NormType

(* Without broken messages, the normalizer shows the book of the message   *)
(* it has just taken.                                                      *)
LEMMA TakenIsReal ==
  ASSUME Inv, stream # <<>>, broken = 0, norm' = Normalize(norm, Head(stream))
  PROVE  norm'.seen /\ SameSides(norm', Head(stream).top)
<1> DEFINE m == Head(stream)
<1>1. m = stream[1] /\ 1 \in 1..Len(stream) /\ m \in Messages /\ m.top \in Books
      /\ m.type \in {"snapshot", "delta"}
  BY Headed
<1>2. Truthful(m) /\ (m.type = "snapshot" \/ (norm.seen /\ Follows(norm, m)))
  BY <1>1 DEF Inv, InStep
<1>3. norm'.seen
  BY ZenonT(60), <1>1, <1>2, Normalized DEF Inv, TypeOK, NormType
<1>4. m.top.bid \in Sides /\ m.top.ask \in Sides /\ NoChange \notin Sides
  BY <1>1 DEF Books, Sides
<1>5. CASE m.type = "snapshot"
  BY <1>2, <1>3, <1>4, <1>5 DEF Truthful, Normalize, SameSides, ApplySide
<1>6. CASE m.type = "delta"
  BY <1>2, <1>3, <1>6 DEF Follows, Normalize, SameSides
<1>7. QED
  BY <1>1, <1>3, <1>5, <1>6

(* The rest of the stream follows from it. *)
LEMMA TakenInStep ==
  ASSUME Inv, stream # <<>>, stream' = Tail(stream),
         broken' = 0 => broken = 0 /\ norm' = Normalize(norm, Head(stream)),
         UNCHANGED <<session, book>>
  PROVE  InStep'
<1> SUFFICES ASSUME broken' = 0
             PROVE  /\ session \in {"open", "subscribed"} => stream' = <<>>
                    /\ \A i \in 1..Len(stream') : Truthful(stream'[i])
                    /\ \A i \in 1..Len(stream') : i > 1 => Follows(stream'[i - 1].top, stream'[i])
                    /\ stream' # <<>> =>
                         stream'[1].type = "snapshot" \/ (norm'.seen /\ Follows(norm', stream'[1]))
                    /\ session = "streaming" =>
                         IF stream' = <<>> THEN norm'.seen /\ SameSides(norm', book)
                                           ELSE stream'[Len(stream')].top = book
  BY SMTT(30) DEF InStep
<1>1. /\ Len(stream) \in Nat \ {0} /\ Len(stream') = Len(stream) - 1
      /\ \A i \in 1..Len(stream') : stream'[i] = stream[i + 1]
      /\ stream' = <<>> <=> Len(stream') = 0
      /\ Head(stream) = stream[1]
  BY Headed, EmptySeq
<1>2. norm'.seen /\ SameSides(norm', stream[1].top)
  BY <1>1, TakenIsReal
<1>3. /\ session \notin {"open", "subscribed"}
      /\ \A i \in 1..Len(stream) : Truthful(stream[i])
      /\ \A i \in 1..Len(stream) : i > 1 => Follows(stream[i - 1].top, stream[i])
      /\ session = "streaming" => stream[Len(stream)].top = book
  BY DEF Inv, InStep
<1>4. \A i \in 1..Len(stream') : Truthful(stream'[i])
  BY <1>1, <1>3
<1>5. ASSUME NEW i \in 1..Len(stream'), i > 1 PROVE Follows(stream'[i - 1].top, stream'[i])
  <2>1. i + 1 \in 1..Len(stream) /\ i + 1 > 1 /\ (i + 1) - 1 = i /\ i - 1 \in 1..Len(stream')
        /\ (i - 1) + 1 = i
    BY <1>1, <1>5
  <2>2. stream'[i] = stream[i + 1] /\ stream'[i - 1] = stream[(i - 1) + 1]
    BY <1>1, <2>1
  <2>3. Follows(stream[(i + 1) - 1].top, stream[i + 1])
    BY <1>3, <2>1
  <2>4. QED
    BY <2>1, <2>2, <2>3
<1>6. ASSUME stream' # <<>> PROVE Follows(norm', stream'[1])
  <2>1. 1 \in 1..Len(stream') /\ 2 \in 1..Len(stream) /\ stream'[1] = stream[2]
    BY <1>1, <1>6
  <2>2. Follows(stream[1].top, stream[2])
    BY <1>3, <2>1
  <2>3. QED
    BY <1>2, <2>1, <2>2 DEF Follows, SameSides
<1>7. ASSUME session = "streaming", stream' # <<>> PROVE stream'[Len(stream')].top = book
  BY <1>1, <1>3, <1>7
<1>8. ASSUME session = "streaming", stream' = <<>> PROVE SameSides(norm', book)
  BY <1>1, <1>2, <1>3, <1>8
<1>9. QED
  BY <1>2, <1>3, <1>4, <1>5, <1>6, <1>7, <1>8

(* The numbers of the rest are what they were. *)
LEMMA TakenNumbered ==
  ASSUME Inv, stream # <<>>, stream' = Tail(stream), UNCHANGED <<restarts, useq, clock>>,
         restarts = 0 /\ quote' # NoQuote => quote'.sequence = quote'.at + 1
  PROVE  Numbered'
BY Headed DEF Inv, Numbered

-----------------------------------------------------------------------------
(* A parsed message: the quote it makes, if it makes one, is real.         *)
LEMMA MessageKeepsInv ==
  ASSUME Inv, HandleMessage
  PROVE  Inv' /\ (quote' # quote => snapped')
<1> DEFINE m == Head(stream)
<1>1. /\ stream # <<>> /\ stream' = Tail(stream) /\ norm' = Normalize(norm, m)
      /\ snapped' = (snapped \/ m.type = "snapshot")
      /\ UNCHANGED <<book, useq, clock, restarts, session, broken, stopping, status,
                     reconnects, delay>>
      /\ pc = "receiving" /\ pc' \in {"ended", "receiving"}
  BY DEF HandleMessage, NextRecv, exchange, adapter
<1>2. /\ m \in Messages /\ m.type \in {"snapshot", "delta"} /\ m.u \in Nat /\ m.at \in Nat
      /\ m.top \in Books /\ norm \in NormType /\ norm' \in NormType
      /\ norm'.seen = (norm.seen \/ m.type = "snapshot")
      /\ stream' \in Seq(Messages)
  BY <1>1, Headed, Normalized DEF Inv, TypeOK, NormType
<1>3. \/ quote' = quote
      \/ /\ quote' = QuoteOf(norm', m) /\ Complete(norm')
         /\ m.type = "delta" => norm.seen
  BY DEF HandleMessage, CacheUpdate
<1>4. norm.seen => snapped
  BY DEF Inv, Local
<1>5. quote' # quote => snapped'
  BY <1>1, <1>2, <1>3, <1>4
<1>6. quote' \in Quotes \cup {NoQuote}
  BY <1>2, <1>3 DEF Inv, TypeOK, QuoteOf, Quotes, Complete, NormType, Sides
<1>7. TypeOK'
  BY <1>1, <1>2, <1>6 DEF Inv, TypeOK, Phases, NormType
<1>8. Local'
  BY <1>1, <1>2, <1>4 DEF Local
<1>9. InStep'
  BY <1>1, TakenInStep
<1>10. Numbered'
  <2>1. 1 \in 1..Len(stream) /\ m = stream[1]
    BY <1>1, Headed
  <2>2. restarts = 0 => m.u = m.at + 1
    BY <2>1 DEF Inv, Numbered
  <2>3. restarts = 0 /\ quote' # NoQuote => quote'.sequence = quote'.at + 1
    BY <1>3, <2>2 DEF Inv, Numbered, QuoteOf
  <2>4. QED
    BY <1>1, <2>3, TakenNumbered
<1>11. QuoteWasReal'
  <2>1. broken = 0 => SameSides(norm', m.top)
    BY <1>1, TakenIsReal
  <2>2. QED
    BY <1>1, <1>3, <2>1 DEF Inv, QuoteWasReal, QuoteOf, SameSides
<1>12. QED
  BY <1>5, <1>7, <1>8, <1>9, <1>10, <1>11 DEF Inv

(* A message that is skipped. *)
LEMMA BrokenKeepsInv ==
  ASSUME Inv, HandleBroken
  PROVE  Inv' /\ quote' = quote
<1> DEFINE m == Head(stream)
<1>1. /\ stream # <<>> /\ stream' = Tail(stream)
      /\ broken' = broken + 1 /\ broken < MaxBroken
      /\ UNCHANGED <<book, useq, clock, restarts, session, stopping, status,
                     reconnects, delay, quote>>
      /\ pc = "receiving" /\ pc' \in {"ended", "receiving"}
  BY DEF HandleBroken, NextRecv, exchange, adapter
<1>2. /\ m \in Messages /\ norm \in NormType /\ stream' \in Seq(Messages)
      /\ broken \in 0..MaxBroken /\ broken' \in 0..MaxBroken /\ broken' # 0
      /\ snapped \in BOOLEAN
  BY <1>1, Headed DEF Inv, TypeOK, NormType
<1>3. /\ norm' \in NormType /\ snapped' \in BOOLEAN
      /\ norm'.seen => snapped'
  <2>1. CASE UNCHANGED local
    BY <1>2, <2>1 DEF local, Inv, Local
  <2>2. CASE norm' = [norm EXCEPT !.bid = ApplySide(@, m.bid)] /\ snapped' = snapped
    BY <1>2, <2>2, Normalized DEF Inv, Local
  <2>3. CASE norm' = Normalize(norm, m) /\ snapped' = (snapped \/ m.type = "snapshot")
    BY <1>2, <2>3, Normalized DEF Inv, Local
  <2>4. QED
    BY <2>1, <2>2, <2>3 DEF HandleBroken
<1>4. TypeOK' /\ Local'
  BY <1>1, <1>2, <1>3 DEF Inv, TypeOK, Phases, NormType, Local
<1>5. InStep' /\ QuoteWasReal'
  BY <1>2 DEF InStep, QuoteWasReal
<1>6. Numbered'
  BY <1>1, TakenNumbered DEF Inv, Numbered
<1>7. QED
  BY <1>1, <1>4, <1>5, <1>6 DEF Inv

-----------------------------------------------------------------------------
(* The exchange: its book changes, restarts, lost links.                   *)
LEMMA ExchangeKeepsInv ==
  ASSUME Inv, Exchange
  PROVE  Inv' /\ quote' = quote /\ (stream # <<>> => stream' # Tail(stream))
<1> USE DEF Inv
<1>1. /\ stream \in Seq(Messages) /\ Len(stream) \in Nat /\ book \in Books
      /\ useq \in Nat /\ clock \in 0..MaxUpdates /\ clock \in Nat
  BY LenProperties DEF TypeOK
<1>2. UNCHANGED <<broken, pc, stopping, status, reconnects, delay, norm, snapped, quote>>
  BY DEF Exchange, ExchangeSnapshot, ExchangeUpdate, ExchangeRestart, LinkLost, exchange,
         adapter, local
<1>3. Local' /\ QuoteWasReal'
  BY <1>2 DEF Local, QuoteWasReal
<1>4. CASE ExchangeSnapshot
  <2> DEFINE m == Snapshot(book, useq, clock)
  <2>1. /\ session = "subscribed" /\ session' = "streaming" /\ stream' = Append(stream, m)
        /\ UNCHANGED <<book, useq, clock, restarts>>
    BY <1>4 DEF ExchangeSnapshot, exchange
  <2>2. /\ m \in Messages /\ Truthful(m) /\ (\A sides : Follows(sides, m))
        /\ m.top = book /\ m.type = "snapshot" /\ m.u = useq /\ m.at = clock
    BY <1>1, SnapshotMessage
  <2>3. restarts' = 0 => useq' = clock' + 1
    BY <2>1 DEF Numbered
  <2> HIDE DEF m
  <2>4. stream' \in Seq(Messages) /\ InStep' /\ Numbered'
    BY <1>2, <2>1, <2>2, <2>3, Sent
  <2>5. TypeOK'
    BY <1>2, <2>1, <2>4 DEF TypeOK, Sessions
  <2>6. stream # <<>> => stream' # Tail(stream)
    BY <1>1, <2>1, <2>2, AppendProperties, HeadTailProperties
  <2>7. QED
    BY <1>2, <1>3, <2>4, <2>5, <2>6
<1>5. CASE ExchangeUpdate
  <2>1. PICK new \in Books \ {book} :
          /\ book' = new /\ useq' = useq + 1 /\ clock' = clock + 1
          /\ IF session = "streaming"
               THEN \E m \in {Delta(book, new, useq', clock'), Snapshot(new, useq', clock')} :
                      stream' = Append(stream, m)
               ELSE UNCHANGED stream
    BY <1>5 DEF ExchangeUpdate
  <2>2. /\ clock < MaxUpdates /\ UNCHANGED <<session, restarts>>
        /\ useq' \in Nat /\ clock' \in 0..MaxUpdates /\ clock' \in Nat
    BY <1>1, <1>5, <2>1 DEF ExchangeUpdate
  <2>3. restarts' = 0 => useq' = clock' + 1
    BY <1>1, <2>1, <2>2 DEF Numbered
  <2>4. CASE session = "streaming"
    <3>1. PICK m \in {Delta(book, new, useq', clock'), Snapshot(new, useq', clock')} :
            stream' = Append(stream, m)
      BY <2>1, <2>4
    <3>2. /\ m \in Messages /\ Truthful(m)
          /\ \A sides : SameSides(sides, book) => Follows(sides, m)
          /\ m.top = new /\ m.u = useq' /\ m.at = clock'
      <4>1. CASE m = Delta(book, new, useq', clock')
        BY <1>1, <2>2, <4>1, DeltaMessage
      <4>2. CASE m = Snapshot(new, useq', clock')
        BY <1>1, <2>2, <4>2, SnapshotMessage
      <4>3. QED
        BY <3>1, <4>1, <4>2
    <3>3. stream' \in Seq(Messages) /\ InStep' /\ Numbered'
      BY <1>2, <2>1, <2>2, <2>3, <2>4, <3>1, <3>2, Sent
    <3>4. TypeOK'
      BY <1>2, <2>1, <2>2, <3>3 DEF TypeOK
    <3>5. stream # <<>> => stream' # Tail(stream)
      BY <1>1, <3>1, <3>2, AppendProperties, HeadTailProperties
    <3>6. QED
      BY <1>2, <1>3, <3>3, <3>4, <3>5
  <2>5. CASE session # "streaming"
    <3>1. stream' = stream
      BY <2>1, <2>5
    <3>2. TypeOK' /\ InStep'
      BY <1>2, <2>1, <2>2, <2>5, <3>1 DEF TypeOK, InStep
    <3>3. Numbered'
      BY <1>2, <2>2, <2>3, <3>1 DEF Numbered
    <3>4. stream # <<>> => stream' # Tail(stream)
      BY <3>1, Headed
    <3>5. QED
      BY <1>2, <1>3, <3>2, <3>3, <3>4
  <2>6. QED
    BY <2>4, <2>5
<1>6. CASE ExchangeRestart \/ LinkLost
  <2>1. /\ UNCHANGED <<book, clock, stream>> /\ session' \in {"none", "gone"}
        /\ restarts' \in 0..MaxRestarts /\ useq' \in Nat
        /\ (restarts' = restarts /\ useq' = useq) \/ restarts' # 0
    BY <1>1, <1>6 DEF ExchangeRestart, LinkLost, exchange, TypeOK
  <2>2. TypeOK' /\ InStep'
    BY <1>2, <2>1 DEF TypeOK, Sessions, InStep
  <2>3. Numbered'
    BY <1>2, <2>1 DEF Numbered
  <2>4. stream # <<>> => stream' # Tail(stream)
    BY <2>1, Headed
  <2>5. QED
    BY <1>2, <1>3, <2>2, <2>3, <2>4
<1>7. QED
  BY <1>4, <1>5, <1>6 DEF Exchange

(* A stream that is dropped with its connection. *)
LEMMA DroppedInStep ==
  ASSUME Inv, stream' = <<>>, session' \in {"none", "open"},
         UNCHANGED <<restarts, useq, clock, quote>>
  PROVE  stream' \in Seq(Messages) /\ InStep' /\ Numbered'
<1>1. Len(<<>>) = 0 /\ <<>> \in Seq(Messages)
  BY EmptySeq
<1>2. QED
  BY <1>1 DEF Inv, InStep, Numbered

(* The delay stays within its bounds when it is doubled. *)
LEMMA DelayGrows ==
  ASSUME NEW d \in InitialDelay..MaxDelay
  PROVE  Least(2 * d, MaxDelay) \in InitialDelay..MaxDelay
<1>1. d \in Nat /\ d <= MaxDelay /\ MaxDelay \in Nat /\ InitialDelay \in Nat
  OBVIOUS
<1>2. QED
  BY <1>1 DEF Least

(* The connection loop and disconnect().                                   *)
LEMMA LoopKeepsInv ==
  ASSUME Inv, Loop \/ Disconnect
  PROVE  /\ Inv' /\ quote' = quote
         /\ pc = "receiving" /\ pc' # "none" /\ stream # <<>> => stream' # Tail(stream)
<1> USE DEF Inv
<1>1. /\ delay \in InitialDelay..MaxDelay /\ InitialDelay \in InitialDelay..MaxDelay
      /\ delay \in Nat /\ InitialDelay \in Nat
      /\ reconnects \in 0..MaxReconnects /\ stopping \in BOOLEAN
  BY DEF TypeOK
<1>2. stream # <<>> => stream # Tail(stream)
  BY Headed
<1>3. UNCHANGED <<book, useq, clock, restarts, broken, quote>>
  BY DEF Loop, Connect, DialOk, DialFails, SubscribeFails, RecvFails, LeaveOrBackOff, Subscribed,
         BackoffOver, Disconnect, DisconnectCall, DisconnectReturn, exchange
<1>4. QuoteWasReal'
  BY <1>3 DEF QuoteWasReal
<1>5. CASE Connect \/ BackoffOver
  <2>1. /\ UNCHANGED <<session, stream, stopping, reconnects, norm, snapped>>
        /\ pc' = "dialing" /\ status' \in {"CONNECTING", "RECONNECTING", status}
        /\ pc # "receiving"
    BY <1>5 DEF Connect, BackoffOver, local
  <2>2. delay' \in InitialDelay..MaxDelay
    <3>1. CASE Connect
      BY <1>1, <3>1 DEF Connect, Local
    <3>2. CASE BackoffOver
      BY <1>1, <3>2, DelayGrows DEF BackoffOver
    <3>3. QED
      BY <1>5, <3>1, <3>2
  <2>3. TypeOK' /\ Local'
    BY <1>3, <2>1, <2>2 DEF TypeOK, Phases, Local
  <2>4. InStep' /\ Numbered'
    BY <1>3, <2>1 DEF InStep, Numbered
  <2>5. QED
    BY <1>3, <1>4, <2>1, <2>3, <2>4
<1>6. CASE DialOk
  <2>1. /\ UNCHANGED <<stopping, status, reconnects, delay>>
        /\ pc = "dialing" /\ pc' = "subscribing" /\ session' = "open" /\ stream' = <<>>
        /\ norm' = EmptyNorm /\ snapped' = FALSE
    BY <1>6 DEF DialOk, adapter
  <2>2. stream' \in Seq(Messages) /\ InStep' /\ Numbered'
    BY <1>3, <2>1, DroppedInStep
  <2>3. norm' \in NormType /\ ~norm'.seen
    BY <2>1 DEF EmptyNorm, NormType, Sides
  <2>4. TypeOK' /\ Local'
    BY <1>3, <2>1, <2>2, <2>3 DEF TypeOK, Phases, Sessions, Local, NormType
  <2>5. QED
    BY <1>1, <1>3, <1>4, <2>1, <2>2, <2>4
<1>7. CASE Subscribed
  <2>1. /\ UNCHANGED <<stream, stopping, reconnects, norm, snapped>>
        /\ pc = "subscribing" /\ session' # "streaming"
        /\ session' \in {"subscribed", "gone"}
        /\ session' = "subscribed" => session = "open"
        /\ pc' \in {"ended", "receiving"} /\ status' = "CONNECTED" /\ delay' = InitialDelay
    BY <1>7 DEF Subscribed, NextRecv, local
  <2>2. TypeOK' /\ Local'
    BY <1>1, <1>3, <2>1 DEF TypeOK, Phases, Sessions, Local
  <2>3. InStep' /\ Numbered'
    BY <1>3, <2>1 DEF InStep, Numbered
  <2>4. QED
    BY <1>3, <1>4, <2>1, <2>2, <2>3
<1>8. CASE DialFails \/ SubscribeFails \/ RecvFails
  <2>1. /\ UNCHANGED <<stopping, delay, norm, snapped>>
        /\ session' = "none" /\ stream' = <<>>
        /\ pc' \in {"ended", "backoff"} /\ status' \in {status, "RECONNECTING"}
        /\ reconnects' = reconnects \/ (reconnects < MaxReconnects /\ reconnects' = reconnects + 1)
        /\ pc = "receiving" => stream = <<>>
    BY <1>8 DEF DialFails, SubscribeFails, RecvFails, LeaveOrBackOff, local
  <2>2. stream' \in Seq(Messages) /\ InStep' /\ Numbered'
    BY <1>3, <2>1, DroppedInStep
  <2>3. reconnects' \in 0..MaxReconnects
    BY <1>1, <2>1
  <2>4. TypeOK' /\ Local'
    BY <1>3, <2>1, <2>2, <2>3 DEF TypeOK, Phases, Sessions, Local
  <2>5. QED
    BY <1>1, <1>3, <1>4, <2>1, <2>2, <2>4
<1>9. CASE DisconnectCall
  <2>1. /\ UNCHANGED <<stream, status, reconnects, delay, norm, snapped>>
        /\ stopping' = TRUE /\ pc' \in {pc, "ended"} /\ session' \in {"none", "gone"}
    BY <1>9 DEF DisconnectCall, local
  <2>2. TypeOK' /\ Local'
    BY <1>3, <2>1 DEF TypeOK, Phases, Sessions, Local
  <2>3. InStep' /\ Numbered'
    BY <1>3, <2>1 DEF InStep, Numbered
  <2>4. QED
    BY <1>1, <1>2, <1>3, <1>4, <2>1, <2>2, <2>3
<1>10. CASE DisconnectReturn
  <2>1. /\ UNCHANGED <<stopping, reconnects, delay, norm, snapped>>
        /\ stopping /\ pc' = "none" /\ status' = "DISCONNECTED"
        /\ session' = "none" /\ stream' = <<>>
    BY <1>10 DEF DisconnectReturn, local
  <2>2. stream' \in Seq(Messages) /\ InStep' /\ Numbered'
    BY <1>3, <2>1, DroppedInStep
  <2>3. TypeOK' /\ Local'
    BY <1>3, <2>1, <2>2 DEF TypeOK, Phases, Sessions, Local
  <2>4. QED
    BY <1>1, <1>3, <1>4, <2>1, <2>2, <2>3
<1>11. QED
  BY <1>5, <1>6, <1>7, <1>8, <1>9, <1>10 DEF Loop, Disconnect

-----------------------------------------------------------------------------
(* Before the first dial nothing is known and nothing is in flight. *)
LEMMA InitInv == Init => Inv
<1> SUFFICES ASSUME Init PROVE Inv
  OBVIOUS
<1>1. Len(<<>>) = 0 /\ <<>> \in Seq(Messages)
  BY EmptySeq
<1>2. book \in Books /\ norm \in NormType
  BY DEF Init, Books, Sides, NormType, EmptyNorm
<1>3. TypeOK
  <2>1. /\ InitialDelay \in InitialDelay..MaxDelay /\ 0 \in 0..MaxUpdates
        /\ 0 \in 0..MaxReconnects /\ 0 \in 0..MaxRestarts /\ 0 \in 0..MaxBroken
    OBVIOUS
  <2>2. book \in Books /\ useq \in Nat /\ stream \in Seq(Messages)
    BY <1>1, <1>2 DEF Init
  <2>3. session \in Sessions /\ pc \in Phases
    BY DEF Init, Phases, Sessions
  <2>4. QED
    BY <1>2, <2>1, <2>2, <2>3 DEF Init, TypeOK, NormType
<1>4. Local /\ InStep /\ Numbered /\ QuoteWasReal
  BY <1>1 DEF Init, Local, InStep, Numbered, QuoteWasReal, EmptyNorm
<1>5. QED
  BY <1>3, <1>4 DEF Inv

LEMMA StutterKeepsInv == Inv /\ UNCHANGED vars => Inv'
BY DEF Inv, TypeOK, Local, InStep, Numbered, QuoteWasReal, vars, exchange, adapter, local

(* Every action of the feed and of the exchange keeps the invariant. *)
LEMMA NextInv == Inv /\ [Next]_vars => Inv'
BY StutterKeepsInv, ExchangeKeepsInv, LoopKeepsInv, MessageKeepsInv, BrokenKeepsInv
   DEF Next, Handle

(* The variables keep their types; the delay stays within its bounds.      *)
THEOREM FeedTypeCorrect == Spec => []TypeOK
<1>1. Inv => TypeOK
  BY DEF Inv
<1>2. QED
  BY InitInv, NextInv, <1>1, PTL DEF Spec

(* Unless a message could not be parsed, the two sides of a cached quote   *)
(* are of one moment of the exchange's book.                               *)
THEOREM QuoteAlwaysReal == Spec => []QuoteWasReal
<1>1. Inv => QuoteWasReal
  BY DEF Inv
<1>2. QED
  BY InitInv, NextInv, <1>1, PTL DEF Spec

(* A connection's snapshot comes before the first quote cached from it.    *)
THEOREM SnapshotAlwaysFirst == Spec => SnapshotFirst
<1>1. Inv /\ [Next]_vars => [quote' # quote => snapped']_vars
  BY ExchangeKeepsInv, LoopKeepsInv, MessageKeepsInv, BrokenKeepsInv DEF Next, Handle
<1>2. QED
  BY InitInv, NextInv, <1>1, PTL DEF Spec, SnapshotFirst

(* As long as the exchange does not restart its numbering, the cache keeps *)
(* an older quote against a message only if it is not older.               *)
THEOREM OnlyOldEverDropped == Spec => OnlyOldDropped
<1> DEFINE Parsed == /\ restarts = 0 /\ pc = "receiving" /\ pc' # "none"
                     /\ stream # <<>> /\ stream' = Tail(stream)
                     /\ broken' = broken /\ Complete(norm')
<1>1. Inv /\ [Next]_vars => [Parsed => quote'.at >= Head(stream).at]_vars
  <2> SUFFICES ASSUME Inv, Next, Parsed PROVE quote'.at >= Head(stream).at
    OBVIOUS
  <2>1. HandleMessage
    <3>1. ~Exchange /\ ~(Loop \/ Disconnect)
      BY ExchangeKeepsInv, LoopKeepsInv
    <3>2. ~HandleBroken
      <4>1. broken \in Nat
        BY DEF Inv, TypeOK
      <4>2. QED
        BY SMTT(30), <4>1 DEF HandleBroken
    <3>3. QED
      BY <3>1, <3>2 DEF Next, Handle
  <2> DEFINE m == Head(stream)
  <2>2. /\ m.at \in Nat /\ m.u \in Nat /\ m.type \in {"snapshot", "delta"}
        /\ 1 \in 1..Len(stream) /\ m = stream[1]
    BY Headed
  <2>3. m.u = m.at + 1
    BY <2>2 DEF Inv, Numbered
  <2>4. quote # NoQuote => quote.sequence = quote.at + 1 /\ quote.at \in Nat
    BY DEF Inv, Numbered, TypeOK, Quotes
  <2>5. CacheUpdate(QuoteOf(norm', m))
    BY <2>1, <2>2 DEF HandleMessage, Complete, Normalize
  <2>6. QED
    BY <2>2, <2>3, <2>4, <2>5 DEF CacheUpdate, QuoteOf
<1>2. QED
  BY InitInv, NextInv, <1>1, PTL DEF Spec, OnlyOldDropped

-----------------------------------------------------------------------------
(* The order book. *)

BookInv == BookTypeOK /\ DeltasAreComplete /\ SyncedIsExact

(* The initial state: nothing is synced and no delta exists. *)
LEMMA BookInitInv == BookInit => BookInv
<1> USE ChangesAssumption, QuantitiesAssumption
<1> SUFFICES ASSUME BookInit PROVE BookInv
  OBVIOUS
<1>1. BookTypeOK
  <2>1. version \in 0..MaxChanges /\ sequence \in NoSequence..version /\ synced \in BOOLEAN
    BY DEF BookInit, NoSequence
  <2>2. past \in [0..version -> LevelMaps] /\ changed \in [1..version -> SUBSET Slots]
    BY DEF BookInit
  <2>3. levels \in LevelMaps
    BY DEF BookInit, LevelMaps, Absent
  <2>4. QED
    BY <2>1, <2>2, <2>3 DEF BookTypeOK, BookInit
<1>2. DeltasAreComplete /\ SyncedIsExact
  BY DEF BookInit, DeltasAreComplete, SyncedIsExact
<1>3. QED
  BY <1>1, <1>2 DEF BookInv

(* A change of the exchange's book leaves the books of the past alone. *)
LEMMA ChangeKeepsInv == BookInv /\ ExchangeChanges => BookInv'
<1> USE ChangesAssumption, QuantitiesAssumption
<1> SUFFICES ASSUME BookInv, ExchangeChanges PROVE BookInv'
  OBVIOUS
<1>1. PICK top \in LevelMaps, touched \in SUBSET Slots :
        /\ \A s \in Slots \ touched : top[s] = past[version][s]
        /\ past' = [n \in 0..version' |-> IF n = version' THEN top ELSE past[n]]
        /\ changed' = [n \in 1..version' |-> IF n = version' THEN touched ELSE changed[n]]
  BY DEF ExchangeChanges
<1>2. version \in Nat /\ version' = version + 1 /\ version' \in 0..MaxChanges
  BY DEF ExchangeChanges, BookInv, BookTypeOK
<1>3. levels' = levels /\ sequence' = sequence /\ synced' = synced
  BY DEF ExchangeChanges, replica
<1>4. \A n \in 0..version : past'[n] = past[n]
  BY <1>1, <1>2
<1>5. BookTypeOK'
  <2>1. past' \in [0..version' -> LevelMaps]
    BY <1>1, <1>2 DEF BookInv, BookTypeOK
  <2>2. changed' \in [1..version' -> SUBSET Slots]
    BY <1>1, <1>2 DEF BookInv, BookTypeOK
  <2>3. sequence' \in NoSequence..version'
    BY <1>2, <1>3 DEF BookInv, BookTypeOK, NoSequence
  <2>4. QED
    BY <1>2, <1>3, <2>1, <2>2, <2>3 DEF BookInv, BookTypeOK
<1>6. DeltasAreComplete'
  <2> SUFFICES ASSUME NEW n \in 1..version', NEW s \in Slots \ changed'[n]
               PROVE past'[n][s] = past'[n - 1][s]
    BY DEF DeltasAreComplete
  <2>1. CASE n = version'
    <3>1. changed'[n] = touched /\ past'[n] = top
      BY <1>1, <1>2, <2>1
    <3>2. n - 1 = version /\ past'[n - 1] = past[version]
      BY <1>2, <1>4, <2>1
    <3>3. QED
      BY <1>1, <3>1, <3>2
  <2>2. CASE n # version'
    <3>1. n \in 1..version /\ n \in 0..version /\ n - 1 \in 0..version
      BY <1>2, <2>2
    <3>2. changed'[n] = changed[n]
      BY <1>1, <1>2, <2>2
    <3>3. QED
      BY <1>4, <3>1, <3>2 DEF BookInv, DeltasAreComplete
  <2>3. QED
    BY <2>1, <2>2
<1>7. SyncedIsExact'
  <2>1. CASE synced
    <3>1. sequence \in 0..version
      BY <1>2, <2>1 DEF BookInv, BookTypeOK, NoSequence
    <3>2. QED
      BY <1>3, <1>4, <2>1, <3>1 DEF BookInv, SyncedIsExact
  <2>2. CASE ~synced
    BY <1>3, <2>2 DEF SyncedIsExact
  <2>3. QED
    BY <2>1, <2>2
<1>8. QED
  BY <1>5, <1>6, <1>7 DEF BookInv

(* A snapshot makes the book the exchange's book at its number. *)
LEMMA SnapshotKeepsInv ==
  ASSUME BookInv, NEW n \in 0..version, ApplySnapshot(n)
  PROVE  BookInv'
<1>1. version' = version /\ past' = past /\ changed' = changed
  BY DEF ApplySnapshot, published
<1>2. past[n] \in LevelMaps /\ version \in Nat
  BY DEF BookInv, BookTypeOK
<1>3. levels' = past[n]
  BY <1>2 DEF ApplySnapshot, SnapshotLevels, LevelMaps
<1>4. sequence' = n /\ synced' = TRUE /\ n \in NoSequence..version /\ n # NoSequence
  BY <1>2 DEF ApplySnapshot, NoSequence
<1>5. BookTypeOK'
  BY <1>1, <1>2, <1>3, <1>4 DEF BookInv, BookTypeOK
<1>6. DeltasAreComplete'
  BY <1>1 DEF BookInv, DeltasAreComplete
<1>7. SyncedIsExact'
  BY <1>1, <1>3, <1>4 DEF SyncedIsExact
<1>8. QED
  BY <1>5, <1>6, <1>7 DEF BookInv

(* A delta is applied only to the book it was computed from. *)
LEMMA DeltaKeepsInv ==
  ASSUME BookInv, NEW n \in 1..version, ApplyDelta(n)
  PROVE  BookInv'
<1>1. version' = version /\ past' = past /\ changed' = changed /\ synced
  BY DEF ApplyDelta, published
<1>2. version \in Nat /\ sequence \in 0..version /\ n \in Nat
  BY <1>1 DEF BookInv, BookTypeOK, NoSequence
<1>3. CASE UNCHANGED replica
  BY <1>1, <1>3 DEF BookInv, BookTypeOK, DeltasAreComplete, SyncedIsExact, replica
<1>4. CASE synced' = FALSE /\ UNCHANGED <<levels, sequence>>
  BY <1>1, <1>4 DEF BookInv, BookTypeOK, DeltasAreComplete, SyncedIsExact
<1>5. CASE ~IsOld(n) /\ ~IsGap(n) /\ sequence' = n /\ levels' = ApplySides(n) /\ UNCHANGED synced
  <2>1. n = sequence + 1 /\ sequence = n - 1 /\ n \in 0..version
    BY <1>2, <1>5 DEF IsOld, IsGap
  <2>2. levels = past[n - 1]
    BY <1>1, <2>1 DEF BookInv, SyncedIsExact
  <2>3. past[n] \in LevelMaps
    BY <2>1 DEF BookInv, BookTypeOK
  <2>4. ASSUME NEW s \in Slots PROVE levels'[s] = past[n][s]
    BY <1>5, <2>2 DEF ApplySides, BookInv, DeltasAreComplete
  <2>5. levels' = past[n]
    BY <1>5, <2>3, <2>4 DEF ApplySides, LevelMaps
  <2>6. BookTypeOK'
    BY <1>1, <1>2, <1>5, <2>1, <2>3, <2>5 DEF BookInv, BookTypeOK, NoSequence
  <2>7. QED
    BY <1>1, <1>5, <2>5, <2>6 DEF BookInv, DeltasAreComplete, SyncedIsExact
<1>6. QED
  BY <1>3, <1>4, <1>5 DEF ApplyDelta

(* The invariant is inductive. *)
LEMMA BookNextInv == BookInv /\ [BookNext]_bookVars => BookInv'
<1> SUFFICES ASSUME BookInv, [BookNext]_bookVars PROVE BookInv'
  OBVIOUS
<1>1. CASE ExchangeChanges
  BY <1>1, ChangeKeepsInv
<1>2. CASE \E n \in 0..version : ApplySnapshot(n)
  BY <1>2, SnapshotKeepsInv
<1>3. CASE \E n \in 1..version : ApplyDelta(n)
  BY <1>3, DeltaKeepsInv
<1>4. CASE UNCHANGED bookVars
  BY <1>4 DEF BookInv, BookTypeOK, DeltasAreComplete, SyncedIsExact, bookVars, published, replica
<1>5. QED
  BY <1>1, <1>2, <1>3, <1>4 DEF BookNext

(* A synced book is the exchange's book at its sequence number, whatever   *)
(* the channel does to the deltas and however late a snapshot comes.       *)
THEOREM SyncedIsAlwaysExact == BookSpec => []SyncedIsExact
<1>1. BookInv => SyncedIsExact
  BY DEF BookInv
<1>2. QED
  BY BookInitInv, BookNextInv, <1>1, PTL DEF BookSpec

(* The variables keep their types; a synced book has a sequence number,   *)
(* which apply_delta() asserts.                                            *)
THEOREM BookTypeCorrect == BookSpec => []BookTypeOK
<1>1. BookInv => BookTypeOK
  BY DEF BookInv
<1>2. QED
  BY BookInitInv, BookNextInv, <1>1, PTL DEF BookSpec
=============================================================================
