-------------------------- MODULE SpreadHistoryProofs --------------------------
(***************************************************************************)
(* What a backtest sees, what a valid spread is made of and which events   *)
(* the detector reports, for every set of exchanges, market, lag, limit    *)
(* and number of moments, failures and losses.                             *)
(*                                                                         *)
(* A recorded sample is the cache of its moment, less the rows it lost     *)
(* (Sampled); the samples are in order, and what one holds any whole later *)
(* one holds as well (Ordered, Growing), since the cache forgets nothing.  *)
(* So the replay's cache, which holds at most what earlier samples held    *)
(* (Replaying), is after a whole sample the live cache of that moment.     *)
(*                                                                         *)
(* The detector (Tracked): an open event is that of the one run that lasts *)
(* until the last tick.  A tick prolongs that run or ends it; what a run   *)
(* leaves does not depend on later ticks.  That a stretch of net spreads   *)
(* has a peak at all is an invariant (PeaksExist), each tick adding the    *)
(* stretches that end with it.                                             *)
(***************************************************************************)
EXTENDS SpreadHistory, SequenceTheorems, TLAPS

Caches == [Exchanges -> Quotes \cup {NoQuote}]

(* What compute_all() may return. *)
Outcomes == {ComputeAll(c, t) : c \in Caches, t \in Nat}

Ticks == [at : Nat, row : Outcomes, total : [Directions -> Int]]

Samples == [at : Nat, kept : SUBSET Exchanges, quotes : Caches, whole : BOOLEAN,
            truth : Outcomes]

HistoryTypes ==
  /\ phase \in {"live", "replay"} /\ now \in Nat
  /\ cache \in Caches
  /\ arrivals \subseteq Exchanges \X Quotes
  /\ samples \in Seq(Samples)
  /\ seen \in Seq(Ticks)

(* A quote of exchange e that has arrived by the moment t. *)
Arrived(e, q, t) ==
  /\ <<e, q>> \in arrivals
  /\ q.at <= t /\ q.ets = q.at - Lag[e]

(* A sample holds quotes that had arrived, and if none was lost, they are  *)
(* all that the live spreads were computed from.                           *)
Sampled ==
  \A i \in 1..Len(samples) :
    /\ samples[i].kept = {e \in Exchanges : samples[i].quotes[e] # NoQuote}
    /\ \A e \in samples[i].kept : Arrived(e, samples[i].quotes[e], samples[i].at)
    /\ samples[i].whole => samples[i].truth = ComputeAll(samples[i].quotes, samples[i].at)

Ordered ==
  \A i, j \in 1..Len(samples) : i < j => samples[i].at < samples[j].at

Growing ==
  \A i, j \in 1..Len(samples) :
    i < j /\ samples[j].whole => samples[i].kept \subseteq samples[j].kept

Living ==
  phase = "live" =>
    /\ \A i \in 1..Len(samples) : samples[i].at <= now /\ samples[i].kept \subseteq Recorded
    /\ \A e \in Recorded : Arrived(e, cache[e], now)

Replaying ==
  phase = "replay" =>
    /\ Len(seen) <= Len(samples)
    /\ \A e \in Recorded : \E j \in 1..Len(seen) :
         e \in samples[j].kept /\ Arrived(e, cache[e], samples[j].at)

Inv ==
  /\ HistoryTypes
  /\ Sampled /\ Ordered /\ Growing
  /\ Living /\ Replaying
  /\ ReplayIsLive /\ ValidIsFresh

-----------------------------------------------------------------------------
(* A sample is a record. *)
LEMMA SampleType ==
  ASSUME samples \in Seq(Samples), NEW i \in 1..Len(samples)
  PROVE  /\ samples[i] \in Samples /\ samples[i].at \in Nat
         /\ samples[i].kept \subseteq Exchanges /\ samples[i].quotes \in Caches
<1>1. samples[i] \in Samples
  BY ElementOfSeq
<1>2. QED
  BY <1>1 DEF Samples

(* Nothing has arrived and nothing is recorded at the start. *)
LEMMA InitInv == HistoryInit => Inv
<1> SUFFICES ASSUME HistoryInit PROVE Inv
  OBVIOUS
<1>1. /\ phase = "live" /\ now = 0 /\ arrivals = {} /\ samples = <<>> /\ seen = <<>>
      /\ cache = [e \in Exchanges |-> NoQuote]
  BY DEF HistoryInit, Init
<1>2. Recorded = {} /\ Len(samples) = 0 /\ Len(seen) = 0 /\ DOMAIN seen = {}
  BY <1>1 DEF Recorded
<1>3. HistoryTypes
  BY <1>1 DEF HistoryTypes, Caches
<1>4. QED
  BY <1>1, <1>2, <1>3 DEF Inv, Sampled, Ordered, Growing, Living, Replaying,
                          ReplayIsLive, ValidIsFresh

(* The spreads of a cache whose quotes have arrived are fresh. *)
Fresher(row, at) ==
  \A d \in Directions : row[d] \in Nets =>
    \E a, b \in arrivals :
      /\ a[1] = d[1] /\ b[1] = d[2]
      /\ {a[2].at, b[2].at} \subseteq at - MaxAge..at
      /\ Distance(a[2].at - Lag[a[1]], b[2].at - Lag[b[1]]) <= MaxDiff
      /\ row[d] = NetSpread(a[2].book.ask, b[2].book.bid, TakerFee[d[1]], TakerFee[d[2]])

(* Spreads of quotes that arrived are valid only where these are fresh. *)
LEMMA SpreadsFresh ==
  ASSUME arrivals \subseteq Exchanges \X Quotes, NEW c \in Caches, NEW t \in Nat,
         \A e \in Exchanges : c[e] # NoQuote => Arrived(e, c[e], t)
  PROVE  Fresher(ComputeAll(c, t), t)
<1> DEFINE row == ComputeAll(c, t)
<1> SUFFICES ASSUME NEW d \in Directions, row[d] \in Nets
             PROVE  \E a, b \in arrivals :
      /\ a[1] = d[1] /\ b[1] = d[2]
      /\ {a[2].at, b[2].at} \subseteq t - MaxAge..t
      /\ Distance(a[2].at - Lag[a[1]], b[2].at - Lag[b[1]]) <= MaxDiff
      /\ row[d] = NetSpread(a[2].book.ask, b[2].book.bid, TakerFee[d[1]], TakerFee[d[2]])
  BY DEF Fresher
<1>1. d[1] \in Exchanges /\ d[2] \in Exchanges
  BY DEF Directions
<1>2. row[d] = IF c[d[1]] = NoQuote \/ c[d[2]] = NoQuote THEN Absent ELSE ComputePair(d, c, t)
  BY DEF ComputeAll
<1>3. c[d[1]] # NoQuote /\ c[d[2]] # NoQuote /\ row[d] = ComputePair(d, c, t)
  BY <1>2, MarksAssumption
<1> DEFINE buy == c[d[1]]  sell == c[d[2]]
<1>4. /\ Valid(buy, sell, t)
      /\ row[d] = NetSpread(buy.book.ask, sell.book.bid, TakerFee[d[1]], TakerFee[d[2]])
  BY <1>3, MarksAssumption DEF ComputePair
<1>5. /\ <<d[1], buy>> \in arrivals /\ <<d[2], sell>> \in arrivals
      /\ buy.at <= t /\ sell.at <= t
      /\ buy.ets = buy.at - Lag[d[1]] /\ sell.ets = sell.at - Lag[d[2]]
  BY <1>1, <1>3 DEF Arrived
<1>6. buy \in Quotes /\ sell \in Quotes /\ buy.at \in Nat /\ sell.at \in Nat
  BY <1>1, <1>3 DEF Caches, Quotes
<1>7. /\ t - buy.at <= MaxAge /\ t - sell.at <= MaxAge
      /\ Distance(buy.ets, sell.ets) <= MaxDiff
  BY <1>4, <1>6, AgesAssumption DEF Valid, IsStale
<1>8. {buy.at, sell.at} \subseteq t - MaxAge..t
  BY <1>5, <1>6, <1>7, AgesAssumption
<1> HIDE DEF row, buy, sell
<1>9. QED
  BY <1>4, <1>5, <1>7, <1>8

LEMMA FresherSeen == ValidIsFresh <=> \A i \in DOMAIN seen : Fresher(seen[i].row, seen[i].at)
BY DEF ValidIsFresh, Fresher
-----------------------------------------------------------------------------
(* The live phase. *)

(* Quotes arrive: the cache forgets none, and holds what has arrived.      *)
LEMMA QuotesKeepInv ==
  ASSUME Inv, QuotesArrive
  PROVE  Inv'
<1>1. PICK new \in SUBSET Exchanges \ {{}} :
        \E news \in [new -> UNION {MarketBooks[e] : e \in new}] :
          LET quote(e) == [book |-> news[e], at |-> now, ets |-> now - Lag[e]]
          IN  /\ \A e \in new : news[e] \in MarketBooks[e]
              /\ cache' = [e \in Exchanges |-> IF e \in new THEN quote(e) ELSE cache[e]]
              /\ arrivals' = arrivals \cup {<<e, quote(e)>> : e \in new}
  BY DEF QuotesArrive
<1>2. PICK news \in [new -> UNION {MarketBooks[e] : e \in new}] :
        /\ \A e \in new : news[e] \in MarketBooks[e]
        /\ cache' = [e \in Exchanges |->
                       IF e \in new THEN [book |-> news[e], at |-> now, ets |-> now - Lag[e]]
                                    ELSE cache[e]]
        /\ arrivals' = arrivals \cup
             {<<e, [book |-> news[e], at |-> now, ets |-> now - Lag[e]]>> : e \in new}
  BY <1>1
<1>3. /\ phase = "live" /\ UNCHANGED <<now, seen, phase, samples>>
      /\ now \in Nat /\ cache \in Caches
  BY DEF QuotesArrive, trackerVars, Inv, HistoryTypes
<1> DEFINE quote(e) == [book |-> news[e], at |-> now, ets |-> now - Lag[e]]
<1>4. \A e \in new : quote(e) \in Quotes /\ quote(e) # NoQuote
  BY <1>2, <1>3, BooksAssumption, LagAssumption, NoQuoteAssumption DEF Quotes
<1>5. \A e \in new : quote(e).at = now /\ quote(e).ets = now - Lag[e]
  OBVIOUS
<1>6. /\ \A e \in Exchanges : cache'[e] = IF e \in new THEN quote(e) ELSE cache[e]
      /\ arrivals' = arrivals \cup {<<e, quote(e)>> : e \in new}
  BY <1>2
<1>7. cache' \in Caches
  BY <1>2, <1>3, <1>4, <1>6 DEF Caches
<1> HIDE DEF quote
<1>8. HistoryTypes'
  BY <1>3, <1>4, <1>6, <1>7 DEF Inv, HistoryTypes
<1>9. \A e, q, t : Arrived(e, q, t) => Arrived(e, q, t)'
  BY <1>6 DEF Arrived
<1>10. \A e \in Recorded' : Arrived(e, cache[e], now)'
  <2>1. \A e \in new : <<e, quote(e)>> \in arrivals'
    BY <1>6
  <2>2. \A e \in Recorded : Arrived(e, cache[e], now)
    BY <1>3 DEF Inv, Living
  <2>3. SUFFICES ASSUME NEW e \in Recorded' PROVE Arrived(e, cache[e], now)'
    OBVIOUS
  <2>4. CASE e \in new
    <3>1. cache'[e] = quote(e)
      BY <1>6, <2>4 DEF Recorded
    <3>2. QED
      BY <1>3, <1>5, <2>1, <2>4, <3>1 DEF Arrived
  <2>5. CASE e \notin new
    <3>1. e \in Recorded /\ cache'[e] = cache[e]
      BY <1>6, <2>5 DEF Recorded
    <3>2. QED
      BY <1>3, <1>6, <2>2, <3>1 DEF Arrived
  <2>6. QED
    BY <2>4, <2>5
<1>11. Recorded \subseteq Recorded'
  BY <1>4, <1>6 DEF Recorded
<1>12. Living'
  BY <1>3, <1>10, <1>11 DEF Inv, Living
<1>13. Sampled'
  BY <1>3, <1>6 DEF Inv, Sampled, Arrived
<1>14. Ordered' /\ Growing' /\ Replaying' /\ ReplayIsLive'
  BY <1>3 DEF Inv, Ordered, Growing, Replaying, ReplayIsLive
<1>15. ValidIsFresh'
  <2>1. arrivals \subseteq arrivals' /\ seen' = seen
    BY <1>3, <1>6
  <2>2. QED
    BY <2>1 DEF Inv, ValidIsFresh
<1>16. QED
  BY <1>8, <1>12, <1>13, <1>14, <1>15 DEF Inv

-----------------------------------------------------------------------------
(* What a tick adds to the ticks seen. *)
LEMMA TickSeen ==
  ASSUME seen \in Seq(Ticks), NEW rows \in Outcomes, NEW t \in Nat, Tick(rows, t)
  PROVE  /\ seen' \in Seq(Ticks) /\ Len(seen) \in Nat /\ Len(seen') = Len(seen) + 1
         /\ \A i \in 1..Len(seen) : seen'[i] = seen[i]
         /\ LET new == seen'[Len(seen) + 1]
            IN  /\ new.at = t /\ new.row = rows
                /\ \A d \in Directions :
                     /\ Total(seen, d, Len(seen)) \in Int
                     /\ rows[d] \in Nets => new.total[d] = Total(seen, d, Len(seen)) + rows[d]
<1>1. Len(seen) \in Nat
  OBVIOUS
<1>2. \A d \in Directions : Total(seen, d, Len(seen)) \in Int
  <2>1. CASE Len(seen) = 0
    BY <2>1 DEF Total
  <2>2. CASE Len(seen) # 0
    <3>1. Len(seen) \in 1..Len(seen)
      BY <1>1, <2>2
    <3>2. seen[Len(seen)] \in Ticks
      BY <3>1, ElementOfSeq
    <3>3. QED
      BY <2>2, <3>2 DEF Ticks, Total
  <2>3. QED
    BY <2>1, <2>2
<1> DEFINE new == [at |-> t, row |-> rows, total |-> Totals(rows)]
<1>3. Totals(rows) \in [Directions -> Int]
  <2>1. ASSUME NEW d \in Directions PROVE (IF rows[d] \in Nets THEN rows[d] ELSE 0) \in Int
    <3>1. CASE rows[d] \in Nets
      BY <3>1, NetsAssumption
    <3>2. CASE rows[d] \notin Nets
      BY <3>2
    <3>3. QED
      BY <3>1, <3>2
  <2>2. ASSUME NEW d \in Directions
        PROVE  Total(seen, d, Len(seen)) + (IF rows[d] \in Nets THEN rows[d] ELSE 0) \in Int
    BY <1>2, <2>1
  <2>3. QED
    BY <2>2 DEF Totals
<1>4. \A d \in Directions : rows[d] \in Nets =>
        Totals(rows)[d] = Total(seen, d, Len(seen)) + rows[d]
  BY DEF Totals
<1>5. new \in Ticks /\ new.at = t /\ new.row = rows /\ new.total = Totals(rows)
  BY <1>3 DEF Ticks
<1>6. seen' = Append(seen, new)
  BY DEF Tick
<1> HIDE DEF new
<1>7. /\ seen' \in Seq(Ticks) /\ Len(seen') = Len(seen) + 1
      /\ \A i \in 1..Len(seen) : seen'[i] = seen[i]
      /\ seen'[Len(seen) + 1] = new
  BY <1>5, <1>6
<1>8. QED
  BY <1>1, <1>2, <1>4, <1>5, <1>7

(* A tick is added behind those that were seen. *)
LEMMA SeenGrows ==
  ASSUME Inv, NEW c \in Caches, NEW t \in Nat, Tick(ComputeAll(c, t), t),
         arrivals' = arrivals,
         \A e \in Exchanges : c[e] # NoQuote => Arrived(e, c[e], t)
  PROVE  /\ now' = t /\ seen' \in Seq(Ticks)
         /\ Len(seen') = Len(seen) + 1
         /\ \A i \in 1..Len(seen) : seen'[i] = seen[i]
         /\ seen'[Len(seen) + 1].at = t
         /\ seen'[Len(seen) + 1].row = ComputeAll(c, t)
         /\ ValidIsFresh'
<1>1. PICK row \in Outcomes : row = ComputeAll(c, t)
  BY DEF Outcomes
<1>2. Fresher(row, t)
  BY <1>1, SpreadsFresh DEF Inv, HistoryTypes
<1>3. now' = t /\ Tick(row, t) /\ seen \in Seq(Ticks)
  BY <1>1 DEF Tick, Inv, HistoryTypes
<1>4. /\ seen' \in Seq(Ticks) /\ Len(seen) \in Nat /\ Len(seen') = Len(seen) + 1
      /\ \A i \in 1..Len(seen) : seen'[i] = seen[i]
      /\ seen'[Len(seen) + 1].at = t /\ seen'[Len(seen) + 1].row = row
  BY <1>3, TickSeen
<1>5. DOMAIN seen = 1..Len(seen) /\ DOMAIN seen' = 1..(Len(seen) + 1)
  BY <1>3, <1>4
<1>6. \A i \in DOMAIN seen' : (i \in 1..Len(seen) /\ seen'[i] = seen[i]) \/ i = Len(seen) + 1
  BY <1>4, <1>5
<1>7. \A i \in DOMAIN seen : Fresher(seen[i].row, seen[i].at)
  BY FresherSeen DEF Inv
<1>8. \A i \in DOMAIN seen' : Fresher(seen'[i].row, seen'[i].at)
  BY <1>2, <1>4, <1>5, <1>6, <1>7
<1>9. ValidIsFresh'
  BY <1>8 DEF ValidIsFresh, Fresher
<1>10. QED
  BY <1>1, <1>3, <1>4, <1>9

(* An iteration of the event loop sees the cache as it is. *)
LEMMA EventTickKeepsInv ==
  ASSUME Inv, EventTick
  PROVE  Inv'
<1>1. /\ phase = "live" /\ UNCHANGED <<phase, cache, arrivals, samples>>
      /\ Tick(ComputeAll(cache, now + 1), now + 1)
      /\ cache \in Caches /\ now \in Nat
  BY DEF EventTick, Inv, HistoryTypes
<1>2. PICK t \in Nat : t = now + 1
  BY <1>1
<1>3. \A e \in Exchanges : cache[e] # NoQuote => Arrived(e, cache[e], now) /\ cache[e].at \in Nat
  BY <1>1 DEF Inv, Living, Recorded, Caches, Quotes
<1>4. \A e \in Exchanges : cache[e] # NoQuote => Arrived(e, cache[e], t)
  BY <1>1, <1>2, <1>3 DEF Arrived
<1>5. now' = t /\ seen' \in Seq(Ticks) /\ ValidIsFresh'
  BY <1>1, <1>2, <1>4, SeenGrows
<1>6. HistoryTypes'
  BY <1>1, <1>5 DEF Inv, HistoryTypes
<1>7. Recorded' = Recorded
  BY <1>1 DEF Recorded
<1>8. Sampled' /\ Ordered' /\ Growing'
  BY <1>1 DEF Inv, Sampled, Ordered, Growing, Arrived
<1>9. Living'
  <2>1. \A i \in 1..Len(samples) : samples[i].at \in Nat
    BY SampleType DEF Inv, HistoryTypes
  <2>2. \A e \in Recorded : Arrived(e, cache[e], now)'
    BY <1>1, <1>4, <1>5 DEF Arrived, Recorded
  <2>3. \A i \in 1..Len(samples) : samples[i].at <= now' /\ samples[i].kept \subseteq Recorded
    BY <1>1, <1>2, <1>5, <2>1 DEF Inv, Living
  <2>4. QED
    BY <1>1, <1>7, <2>2, <2>3 DEF Living
<1>10. Replaying' /\ ReplayIsLive'
  BY <1>1 DEF Replaying, ReplayIsLive
<1>11. QED
  BY <1>5, <1>6, <1>8, <1>9, <1>10 DEF Inv

(* A moment passes without a tick: an iteration that raised, or the stop.  *)
LEMMA MomentKeepsInv ==
  ASSUME Inv, EventTickFails \/ Stop
  PROVE  Inv'
<1>1. /\ phase = "live" /\ UNCHANGED <<phase, cache, arrivals, samples, seen>>
      /\ now \in Nat /\ now' = now + 1
  BY DEF EventTickFails, Stop, Flush, Inv, HistoryTypes
<1>2. HistoryTypes'
  BY <1>1 DEF Inv, HistoryTypes
<1>3. Recorded' = Recorded
  BY <1>1 DEF Recorded
<1>4. Sampled' /\ Ordered' /\ Growing' /\ ValidIsFresh'
  BY <1>1 DEF Inv, Sampled, Ordered, Growing, Arrived, ValidIsFresh
<1>5. Living'
  <2>1. \A i \in 1..Len(samples) : samples[i].at \in Nat
    BY SampleType DEF Inv, HistoryTypes
  <2>2. \A e \in Recorded : cache[e].at \in Nat
    BY DEF Inv, HistoryTypes, Caches, Quotes, Recorded
  <2>3. \A e \in Recorded : Arrived(e, cache[e], now)'
    BY <1>1, <2>2 DEF Inv, Living, Arrived
  <2>4. \A i \in 1..Len(samples) : samples[i].at <= now' /\ samples[i].kept \subseteq Recorded
    BY <1>1, <2>1 DEF Inv, Living
  <2>5. QED
    BY <1>1, <1>3, <2>3, <2>4 DEF Living
<1>6. Replaying' /\ ReplayIsLive'
  BY <1>1 DEF Replaying, ReplayIsLive
<1>7. QED
  BY <1>2, <1>4, <1>5, <1>6 DEF Inv

(* What is sampled is the cache, or a part of it that does not call itself *)
(* whole.                                                                  *)
LEMMA SampleKeepsInv ==
  ASSUME Inv, Sample
  PROVE  Inv'
<1>1. PICK kept \in SUBSET Recorded : samples' = Append(samples, SampleOf(kept))
  BY DEF Sample
<1>2. /\ phase = "live" /\ UNCHANGED <<phase, cache, arrivals, seen, now>>
      /\ now \in Nat /\ cache \in Caches /\ samples \in Seq(Samples) /\ Len(samples) \in Nat
      /\ \A i \in 1..Len(samples) : samples[i].at < now
  BY DEF Sample, trackerVars, Inv, HistoryTypes
<1> DEFINE new == SampleOf(kept)
<1>3. /\ new.at = now /\ new.kept = kept /\ (new.whole <=> kept = Recorded)
      /\ new.quotes = [e \in Exchanges |-> IF e \in kept THEN cache[e] ELSE NoQuote]
      /\ new.truth = ComputeAll(cache, now)
      /\ new \in Samples
  <2>1. [e \in Exchanges |-> IF e \in kept THEN cache[e] ELSE NoQuote] \in Caches
    BY <1>2 DEF Caches
  <2>2. ComputeAll(cache, now) \in Outcomes
    BY <1>2 DEF Outcomes
  <2>3. kept \in SUBSET Exchanges
    BY DEF Recorded
  <2>4. QED
    BY <1>2, <2>1, <2>2, <2>3 DEF SampleOf, Samples
<1>4. samples' = Append(samples, new)
  BY <1>1
<1> HIDE DEF new
<1>5. /\ samples' \in Seq(Samples) /\ Len(samples') = Len(samples) + 1
      /\ \A i \in 1..Len(samples) : samples'[i] = samples[i]
      /\ samples'[Len(samples) + 1] = new
  BY <1>2, <1>3, <1>4
<1>6. \A i \in 1..Len(samples') :
        \/ i \in 1..Len(samples) /\ samples'[i] = samples[i]
        \/ i = Len(samples) + 1 /\ samples'[i] = new
  BY <1>2, <1>5
<1>7. HistoryTypes'
  BY <1>2, <1>5 DEF Inv, HistoryTypes
<1>8. /\ \A e \in Recorded : Arrived(e, cache[e], now) /\ cache[e] # NoQuote
      /\ \A i \in 1..Len(samples) : samples[i].kept \subseteq Recorded
  BY <1>2 DEF Inv, Living, Recorded
<1>9. \A e, q, t : Arrived(e, q, t)' <=> Arrived(e, q, t)
  BY <1>2 DEF Arrived
<1>10. Sampled'
  <2>1. /\ kept = {e \in Exchanges : new.quotes[e] # NoQuote}
        /\ \A e \in kept : Arrived(e, new.quotes[e], now)
    BY ZenonT(60), <1>3, <1>8 DEF Recorded
  <2>2. new.whole => new.truth = ComputeAll(new.quotes, now)
    <3>1. SUFFICES ASSUME kept = Recorded PROVE new.quotes = cache
      BY <1>3
    <3>2. \A e \in Exchanges : new.quotes[e] = cache[e]
      BY <1>3, <3>1 DEF Recorded
    <3>3. QED
      BY <1>2, <1>3, <3>2 DEF Caches
  <2>3. SUFFICES ASSUME NEW i \in 1..Len(samples')
                 PROVE  /\ samples'[i].kept = {e \in Exchanges : samples'[i].quotes[e] # NoQuote}
                        /\ \A e \in samples'[i].kept :
                             Arrived(e, samples'[i].quotes[e], samples'[i].at)
                        /\ samples'[i].whole =>
                             samples'[i].truth = ComputeAll(samples'[i].quotes, samples'[i].at)
    BY <1>2 DEF Sampled, Arrived
  <2>4. CASE i \in 1..Len(samples) /\ samples'[i] = samples[i]
    BY <2>4 DEF Inv, Sampled
  <2>5. CASE i = Len(samples) + 1 /\ samples'[i] = new
    BY <1>3, <2>1, <2>2, <2>5
  <2>6. QED
    BY <1>6, <2>4, <2>5
<1>11. Ordered'
  <2>1. SUFFICES ASSUME NEW i \in 1..Len(samples'), NEW j \in 1..Len(samples'), i < j
                 PROVE  samples'[i].at < samples'[j].at
    BY DEF Ordered
  <2>2. i \in 1..Len(samples) /\ samples'[i] = samples[i]
    BY <1>2, <1>5, <1>6, <2>1
  <2>3. CASE j \in 1..Len(samples) /\ samples'[j] = samples[j]
    BY <2>1, <2>2, <2>3 DEF Inv, Ordered
  <2>4. CASE samples'[j] = new
    BY <1>2, <1>3, <2>2, <2>4
  <2>5. QED
    BY <1>6, <2>3, <2>4
<1>12. Growing'
  <2>1. SUFFICES ASSUME NEW i \in 1..Len(samples'), NEW j \in 1..Len(samples'), i < j,
                        samples'[j].whole
                 PROVE  samples'[i].kept \subseteq samples'[j].kept
    BY DEF Growing
  <2>2. i \in 1..Len(samples) /\ samples'[i] = samples[i]
    BY <1>2, <1>5, <1>6, <2>1
  <2>3. CASE j \in 1..Len(samples) /\ samples'[j] = samples[j]
    BY <2>1, <2>2, <2>3 DEF Inv, Growing
  <2>4. CASE samples'[j] = new
    BY <1>3, <1>8, <2>1, <2>2, <2>4
  <2>5. QED
    BY <1>6, <2>3, <2>4
<1>13. Living'
  <2>1. Recorded' = Recorded
    BY <1>2 DEF Recorded
  <2>2. \A i \in 1..Len(samples') : samples'[i].at <= now /\ samples'[i].kept \subseteq Recorded
    <3>1. \A i \in 1..Len(samples) : samples[i].at <= now
      BY DEF Inv, Living, Sample
    <3>2. QED
      BY <1>2, <1>3, <1>6, <1>8, <3>1
  <2>3. QED
    BY <1>2, <1>8, <2>1, <2>2 DEF Living, Arrived
<1>14. Replaying' /\ ReplayIsLive' /\ ValidIsFresh'
  BY <1>2 DEF Inv, Replaying, ReplayIsLive, ValidIsFresh
<1>15. QED
  BY <1>7, <1>10, <1>11, <1>12, <1>13, <1>14 DEF Inv
-----------------------------------------------------------------------------
(* The replay. *)

(* Sample x is y, or what the limit left of it. *)
LeftOf(x, y) ==
  /\ x.at = y.at /\ x.truth = y.truth /\ x.kept \subseteq y.kept
  /\ x.whole => y.whole /\ x.kept = y.kept
  /\ \A e \in Exchanges : x.quotes[e] = IF e \in x.kept THEN y.quotes[e] ELSE NoQuote

(* What a backtest loads is the beginning of the period's samples, the     *)
(* last of them cut perhaps.                                               *)
LEMMA LoadedIsBeginning ==
  ASSUME NEW ticks \in Seq(Samples), NEW loaded \in Loaded(ticks),
         \A i \in 1..Len(ticks) : ticks[i].kept = {e \in Exchanges : ticks[i].quotes[e] # NoQuote}
  PROVE  /\ loaded \in Seq(Samples) /\ Len(loaded) <= Len(ticks)
         /\ \A i \in 1..Len(loaded) : LeftOf(loaded[i], ticks[i])
<1>1. Len(ticks) \in Nat /\ DOMAIN ticks = 1..Len(ticks)
  OBVIOUS
<1>2. \A i \in 1..Len(ticks) : LeftOf(ticks[i], ticks[i])
  BY DEF LeftOf
<1>3. CASE loaded = ticks
  BY <1>1, <1>2, <1>3
<1>4. CASE loaded # ticks
  <2> DEFINE cut(n, kept) ==
        [ticks[n] EXCEPT !.kept = kept, !.whole = @ /\ kept = ticks[n].kept,
                         !.quotes = [e \in Exchanges |-> IF e \in kept THEN @[e] ELSE NoQuote]]
         before(n) == RowsIn(SubSeq(ticks, 1, n - 1))
         last == {n \in DOMAIN ticks : /\ before(n) < MaxRows
                                       /\ MaxRows <= before(n) + Cardinality(ticks[n].kept)}
         ends(n) == {Append(SubSeq(ticks, 1, n - 1), cut(n, kept)) :
                       kept \in kSubset(MaxRows - before(n), ticks[n].kept)}
  <2>1. loaded \in UNION {ends(n) : n \in last}
    BY <1>4 DEF Loaded
  <2>2. PICK n0 \in last : loaded \in ends(n0)
    BY <2>1
  <2>3. n0 \in DOMAIN ticks
    OBVIOUS
  <2>4. PICK kept0 \in kSubset(MaxRows - before(n0), ticks[n0].kept) :
           loaded = Append(SubSeq(ticks, 1, n0 - 1), cut(n0, kept0))
    BY <2>2
  <2>5. kept0 \in SUBSET ticks[n0].kept
    BY DEF kSubset
  <2> HIDE DEF cut, before, last, ends
  <2>6. PICK n \in DOMAIN ticks : \E kept \in SUBSET ticks[n].kept :
          loaded = Append(SubSeq(ticks, 1, n - 1), cut(n, kept))
    BY <2>3, <2>4, <2>5
  <2> USE DEF cut
  <2>7. PICK kept \in SUBSET ticks[n].kept :
          loaded = Append(SubSeq(ticks, 1, n - 1), cut(n, kept))
    BY <2>6
  <2>8. PICK c : c = cut(n, kept)
    OBVIOUS
  <2>9. n \in 1..Len(ticks) /\ ticks[n] \in Samples
    BY <1>1, ElementOfSeq
  <2>10. /\ c.at = ticks[n].at /\ c.truth = ticks[n].truth /\ c.kept = kept
        /\ (c.whole <=> ticks[n].whole /\ kept = ticks[n].kept)
        /\ c.quotes = [e \in Exchanges |-> IF e \in kept THEN ticks[n].quotes[e] ELSE NoQuote]
    BY <2>8, <2>9 DEF Samples
  <2>11. c \in Samples
    <3>1. c.quotes \in Caches
      BY <2>9, <2>10 DEF Samples, Caches
    <3>2. c = [at |-> ticks[n].at, kept |-> kept, quotes |-> c.quotes, whole |-> c.whole,
               truth |-> ticks[n].truth] /\ c.whole \in BOOLEAN
      BY <2>8, <2>9 DEF Samples
    <3>3. QED
      BY <2>9, <3>1, <3>2 DEF Samples
  <2>12. LeftOf(c, ticks[n])
    BY <2>10 DEF LeftOf
  <2> HIDE DEF cut
  <2>13. PICK s : s = SubSeq(ticks, 1, n - 1)
    OBVIOUS
  <2>14. /\ s \in Seq(Samples) /\ Len(s) = n - 1
        /\ \A i \in 1..(n - 1) : s[i] = ticks[i]
    BY <1>1, <2>9, <2>13
  <2>15. loaded = Append(s, c)
    BY <2>7, <2>8, <2>13
  <2>16. /\ loaded \in Seq(Samples) /\ Len(loaded) = n
         /\ \A i \in 1..(n - 1) : loaded[i] = ticks[i]
         /\ loaded[n] = c
    BY <2>9, <2>11, <2>14, <2>15
  <2>17. \A i \in 1..Len(loaded) : i = n \/ (i \in 1..(n - 1) /\ i \in 1..Len(ticks))
    BY <1>1, <2>9, <2>16
  <2>18. \A i \in 1..Len(loaded) : LeftOf(loaded[i], ticks[i])
    BY <1>2, <2>12, <2>16, <2>17
  <2>19. QED
    BY <1>1, <2>9, <2>16, <2>18
<1>5. QED
  BY <1>3, <1>4

(* A backtest begins with samples that are recorded ones or cut from them. *)
LEMMA StartKeepsInv ==
  ASSUME Inv, StartBacktest
  PROVE  Inv'
<1>1. PICK from \in 0..MaxMoments, first \in 1..Len(samples) + 1, last \in 0..Len(samples) :
        /\ samples' \in Loaded(SubSeq(samples, first, last))
        /\ now' = from /\ seen' = <<>>
  BY DEF StartBacktest, Fresh
<1>2. /\ phase' = "replay" /\ arrivals' = arrivals
      /\ cache' = [e \in Exchanges |-> NoQuote]
  BY DEF StartBacktest
<1>3. samples \in Seq(Samples) /\ Len(samples) \in Nat
  BY DEF Inv, HistoryTypes
<1>4. PICK ticks : ticks = SubSeq(samples, first, last)
  OBVIOUS
<1>5. /\ ticks \in Seq(Samples) /\ Len(ticks) \in Nat
      /\ \A i \in 1..Len(ticks) :
           first + i - 1 \in 1..Len(samples) /\ ticks[i] = samples[first + i - 1]
  BY <1>3, <1>4
<1>6. \A i \in 1..Len(ticks) : ticks[i].kept = {e \in Exchanges : ticks[i].quotes[e] # NoQuote}
  <2>1. \A k \in 1..Len(samples) :
          samples[k].kept = {e \in Exchanges : samples[k].quotes[e] # NoQuote}
    BY DEF Inv, Sampled
  <2>2. SUFFICES ASSUME NEW i \in 1..Len(ticks), NEW k, k = first + i - 1
                 PROVE  ticks[i].kept = {e \in Exchanges : ticks[i].quotes[e] # NoQuote}
    OBVIOUS
  <2>3. k \in 1..Len(samples) /\ ticks[i] = samples[k]
    BY <1>5, <2>2
  <2>4. QED
    BY <2>1, <2>3
<1>7. /\ samples' \in Seq(Samples) /\ Len(samples') \in Nat /\ Len(samples') <= Len(ticks)
      /\ \A i \in 1..Len(samples') : LeftOf(samples'[i], ticks[i])
  <2>1. samples' \in Loaded(ticks)
    BY <1>1, <1>4
  <2>2. ticks \in Seq(Samples)
    BY <1>5
  <2>3. PICK loaded \in Loaded(ticks) : loaded = samples'
    BY <2>1
  <2>4. /\ loaded \in Seq(Samples) /\ Len(loaded) <= Len(ticks)
        /\ \A i \in 1..Len(loaded) : LeftOf(loaded[i], ticks[i])
    BY <1>6, <2>2, LoadedIsBeginning
  <2>5. Len(loaded) \in Nat
    BY <2>4
  <2>6. QED
    BY <2>3, <2>4, <2>5
<1>8. \A i \in 1..Len(samples') :
        first + i - 1 \in 1..Len(samples) /\ LeftOf(samples'[i], samples[first + i - 1])
  BY <1>5, <1>7
<1>9. HistoryTypes'
  <2>1. now' \in Nat /\ cache' \in Caches
    BY <1>1, <1>2 DEF Caches
  <2>2. seen' \in Seq(Ticks)
    BY <1>1
  <2>3. QED
    BY <1>2, <1>7, <2>1, <2>2 DEF Inv, HistoryTypes
<1>10. Sampled'
  <2>1. SUFFICES ASSUME NEW i \in 1..Len(samples'), NEW x, NEW y,
                        x = samples'[i], y = samples[first + i - 1]
                 PROVE  /\ x.kept = {e \in Exchanges : x.quotes[e] # NoQuote}
                        /\ \A e \in x.kept : Arrived(e, x.quotes[e], x.at)
                        /\ x.whole => x.truth = ComputeAll(x.quotes, x.at)
    BY <1>2 DEF Sampled, Arrived
  <2>2. LeftOf(x, y) /\ first + i - 1 \in 1..Len(samples)
    BY <1>8, <2>1
  <2>3. /\ y.kept = {e \in Exchanges : y.quotes[e] # NoQuote}
        /\ \A e \in y.kept : Arrived(e, y.quotes[e], y.at)
        /\ y.whole => y.truth = ComputeAll(y.quotes, y.at)
    BY <2>1, <2>2 DEF Inv, Sampled
  <2>4. x \in Samples /\ y \in Samples
    BY <1>3, <1>7, <2>1, <2>2, ElementOfSeq
  <2>5. x.kept = {e \in Exchanges : x.quotes[e] # NoQuote}
    BY <2>2, <2>3 DEF LeftOf
  <2>6. \A e \in x.kept : Arrived(e, x.quotes[e], x.at)
    BY <2>2, <2>3, <2>5 DEF LeftOf
  <2>7. ASSUME x.whole PROVE x.truth = ComputeAll(x.quotes, x.at)
    <3>1. \A e \in Exchanges : x.quotes[e] = y.quotes[e]
      BY <2>2, <2>3, <2>7 DEF LeftOf
    <3>2. x.quotes \in Caches /\ y.quotes \in Caches
      BY <2>4 DEF Samples
    <3>3. x.quotes = y.quotes
      BY <3>1, <3>2 DEF Caches
    <3>4. QED
      BY <2>2, <2>3, <2>7, <3>3 DEF LeftOf
  <2>8. QED
    BY <2>5, <2>6, <2>7
<1>11. Ordered'
  <2>1. SUFFICES ASSUME NEW i \in 1..Len(samples'), NEW j \in 1..Len(samples'), i < j
                 PROVE  samples'[i].at < samples'[j].at
    BY DEF Ordered
  <2>2. PICK k, l : k = first + i - 1 /\ l = first + j - 1
    OBVIOUS
  <2>3. k < l
    BY <1>7, <2>1, <2>2
  <2>4. /\ k \in 1..Len(samples) /\ LeftOf(samples'[i], samples[k])
        /\ l \in 1..Len(samples) /\ LeftOf(samples'[j], samples[l])
    BY <1>8, <2>2
  <2>5. samples[k].at < samples[l].at
    BY <2>3, <2>4 DEF Inv, Ordered
  <2>6. QED
    BY <2>4, <2>5 DEF LeftOf
<1>12. Growing'
  <2>1. SUFFICES ASSUME NEW i \in 1..Len(samples'), NEW j \in 1..Len(samples'), i < j,
                        samples'[j].whole
                 PROVE  samples'[i].kept \subseteq samples'[j].kept
    BY DEF Growing
  <2>2. PICK k, l : k = first + i - 1 /\ l = first + j - 1
    OBVIOUS
  <2>3. k < l
    BY <1>7, <2>1, <2>2
  <2>4. /\ k \in 1..Len(samples) /\ LeftOf(samples'[i], samples[k])
        /\ l \in 1..Len(samples) /\ LeftOf(samples'[j], samples[l])
    BY <1>8, <2>2
  <2>5. /\ samples'[i].kept \subseteq samples[k].kept
        /\ samples[l].whole /\ samples'[j].kept = samples[l].kept
    BY <2>1, <2>4 DEF LeftOf
  <2>6. samples[k].kept \subseteq samples[l].kept
    BY <2>3, <2>4, <2>5 DEF Inv, Growing
  <2>7. QED
    BY <2>5, <2>6
<1>13. Living'
  BY <1>2 DEF Living
<1>14. Replaying' /\ ReplayIsLive' /\ ValidIsFresh'
  <2>1. Len(seen') = 0 /\ DOMAIN seen' = {}
    BY <1>1
  <2>2. Recorded' = {}
    BY <1>2 DEF Recorded
  <2>3. QED
    BY <1>7, <2>1, <2>2 DEF Replaying, ReplayIsLive, ValidIsFresh
<1>15. QED
  BY <1>9, <1>10, <1>11, <1>12, <1>13, <1>14 DEF Inv
(* A tick of the replay: of a whole sample the cache has all there was, and *)
(* nothing else, since earlier samples held no more.                       *)
LEMMA BacktestTickKeepsInv ==
  ASSUME Inv, BacktestTick
  PROVE  Inv'
<1>1. /\ phase = "replay" /\ UNCHANGED <<phase, arrivals, samples>>
      /\ Len(seen) < Len(samples)
  BY DEF BacktestTick, liveVars
<1>2. /\ samples \in Seq(Samples) /\ Len(samples) \in Nat /\ Len(seen) \in Nat
      /\ cache \in Caches /\ arrivals \subseteq Exchanges \X Quotes
  BY DEF Inv, HistoryTypes
<1>3. PICK n \in 1..Len(samples) : n = Len(seen) + 1
  BY <1>1, <1>2
<1>4. PICK tick \in Samples : tick = samples[n]
  BY <1>2, SampleType
<1>5. PICK rows : rows = [e \in Exchanges |-> IF e \in tick.kept THEN tick.quotes[e] ELSE cache[e]]
  OBVIOUS
<1>6. PICK t \in Nat : t = tick.at
  BY DEF Samples
<1>7. cache' = rows /\ Tick(ComputeAll(rows, t), t)
  BY <1>3, <1>4, <1>5, <1>6 DEF BacktestTick, Replayed
<1>8. rows \in Caches
  BY <1>2, <1>4, <1>5 DEF Caches, Samples
<1>9. \A i \in 1..Len(samples) : samples[i].at \in Nat
  BY <1>2, SampleType
<1>10. /\ tick.kept = {e \in Exchanges : tick.quotes[e] # NoQuote}
       /\ \A e \in tick.kept : Arrived(e, tick.quotes[e], t)
       /\ tick.whole => tick.truth = ComputeAll(tick.quotes, t)
  BY <1>4, <1>6 DEF Inv, Sampled
<1>11. \A e \in Recorded : \E j \in 1..Len(seen) :
         e \in samples[j].kept /\ Arrived(e, cache[e], samples[j].at)
  BY <1>1 DEF Inv, Replaying
<1>12. \A e \in Exchanges : rows[e] # NoQuote =>
         \E j \in 1..n : e \in samples[j].kept /\ Arrived(e, rows[e], samples[j].at)
  <2>1. SUFFICES ASSUME NEW e \in Exchanges, rows[e] # NoQuote
                 PROVE  \E j \in 1..n :
                          e \in samples[j].kept /\ Arrived(e, rows[e], samples[j].at)
    OBVIOUS
  <2>2. CASE e \in tick.kept
    <3>1. rows[e] = tick.quotes[e] /\ n \in 1..n
      BY <1>5, <2>2
    <3>2. QED
      BY <1>4, <1>6, <1>10, <2>2, <3>1
  <2>3. CASE e \notin tick.kept
    <3>1. rows[e] = cache[e] /\ e \in Recorded
      BY <1>5, <2>1, <2>3 DEF Recorded
    <3>2. 1..Len(seen) \subseteq 1..n
      BY <1>2, <1>3
    <3>3. QED
      BY <1>11, <3>1, <3>2
  <2>4. QED
    BY <2>2, <2>3
<1>13. \A j \in 1..n : j \in 1..Len(samples) /\ samples[j].at <= t
  <2>1. SUFFICES ASSUME NEW j \in 1..n PROVE j \in 1..Len(samples) /\ samples[j].at <= t
    OBVIOUS
  <2>2. j \in 1..Len(samples) /\ n \in 1..Len(samples)
    BY <1>2
  <2>3. CASE j = n
    BY <1>4, <1>6, <2>2, <2>3
  <2>4. CASE j < n
    <3>1. samples[j].at < samples[n].at
      BY <2>2, <2>4 DEF Inv, Ordered
    <3>2. QED
      BY <1>4, <1>6, <1>9, <2>2, <3>1
  <2>5. QED
    BY <2>3, <2>4
<1>14. \A e \in Exchanges : rows[e] # NoQuote => Arrived(e, rows[e], t)
  <2>1. SUFFICES ASSUME NEW e \in Exchanges, rows[e] # NoQuote PROVE Arrived(e, rows[e], t)
    OBVIOUS
  <2>2. PICK j \in 1..n : Arrived(e, rows[e], samples[j].at)
    BY <1>12, <2>1
  <2>3. samples[j].at <= t /\ samples[j].at \in Nat
    BY <1>9, <1>13
  <2>4. rows[e].at \in Nat
    BY <1>8, <2>1 DEF Caches, Quotes
  <2>5. QED
    BY <2>2, <2>3, <2>4 DEF Arrived
<1>15. /\ now' = t /\ seen' \in Seq(Ticks)
       /\ Len(seen') = n
       /\ \A i \in 1..Len(seen) : seen'[i] = seen[i]
       /\ seen'[n].at = t /\ seen'[n].row = ComputeAll(rows, t)
       /\ ValidIsFresh'
  BY <1>1, <1>3, <1>7, <1>8, <1>14, SeenGrows
<1>16. HistoryTypes'
  BY <1>1, <1>7, <1>8, <1>15 DEF Inv, HistoryTypes
<1>17. Sampled' /\ Ordered' /\ Growing' /\ Living'
  BY <1>1 DEF Inv, Sampled, Ordered, Growing, Arrived, Living
<1>18. Replaying'
  <2>1. Len(seen') <= Len(samples)
    BY <1>2, <1>15
  <2>2. \A e \in Recorded' : e \in Exchanges /\ rows[e] # NoQuote
    BY <1>7 DEF Recorded
  <2>3. QED
    BY <1>1, <1>7, <1>12, <1>15, <2>1, <2>2 DEF Replaying, Arrived
<1>19. tick.whole => rows = tick.quotes
  <2>1. SUFFICES ASSUME tick.whole PROVE \A e \in Exchanges : rows[e] = tick.quotes[e]
    <3>1. rows \in Caches /\ tick.quotes \in Caches
      BY <1>8 DEF Samples
    <3>2. QED
      BY <3>1 DEF Caches
  <2>2. SUFFICES ASSUME NEW e \in Exchanges, e \notin tick.kept PROVE cache[e] = NoQuote
    BY <1>5, <1>10
  <2>3. \A j \in 1..Len(seen) : samples[j].kept \subseteq tick.kept
    <3>1. \A j \in 1..Len(seen) : j \in 1..Len(samples) /\ j < n
      BY <1>1, <1>2, <1>3
    <3>2. QED
      BY <1>4, <2>1, <3>1 DEF Inv, Growing
  <2>4. QED
    BY <1>11, <2>2, <2>3 DEF Recorded
<1>20. ReplayIsLive'
  <2>1. SUFFICES ASSUME NEW i \in 1..n, samples[i].whole
                 PROVE  seen'[i].at = samples[i].at /\ seen'[i].row = samples[i].truth
    <3>1. DOMAIN seen' = 1..n
      BY <1>15
    <3>2. QED
      BY <1>1, <3>1 DEF ReplayIsLive
  <2>2. CASE i \in 1..Len(seen)
    <3>1. DOMAIN seen = 1..Len(seen)
      BY DEF Inv, HistoryTypes
    <3>2. QED
      BY <1>1, <1>15, <2>1, <2>2, <3>1 DEF Inv, ReplayIsLive
  <2>3. CASE i = n
    BY <1>4, <1>6, <1>10, <1>15, <1>19, <2>1, <2>3
  <2>4. QED
    BY <1>2, <1>3, <2>2, <2>3
<1>21. QED
  BY <1>15, <1>16, <1>17, <1>18, <1>20 DEF Inv

(* The end of a backtest, and stuttering, touch nothing that matters here. *)
LEMMA EndKeepsInv ==
  ASSUME Inv, EndBacktest \/ UNCHANGED vars
  PROVE  Inv'
<1>1. UNCHANGED <<phase, now, cache, arrivals, samples, seen>>
  BY DEF EndBacktest, Flush, liveVars, vars
<1>2. HistoryTypes' /\ Sampled' /\ Ordered' /\ Growing'
  BY <1>1 DEF Inv, HistoryTypes, Sampled, Ordered, Growing, Arrived
<1>3. Living' /\ Replaying'
  BY <1>1 DEF Inv, Living, Replaying, Arrived, Recorded
<1>4. ReplayIsLive' /\ ValidIsFresh'
  BY <1>1 DEF Inv, ReplayIsLive, ValidIsFresh
<1>5. QED
  BY <1>2, <1>3, <1>4 DEF Inv

(* The invariant is inductive. *)
LEMMA NextInv == Inv /\ [Next]_vars => Inv'
BY QuotesKeepInv, EventTickKeepsInv, MomentKeepsInv, SampleKeepsInv, StartKeepsInv,
   BacktestTickKeepsInv, EndKeepsInv DEF Next

-----------------------------------------------------------------------------
(* The detector. *)

(* Tick p is the peak of the stretch r of the ticks q. *)
PeakIn(q, d, r, p) ==
  /\ p \in r[1]..r[2]
  /\ \A j \in r[1]..r[2] : \/ q[j].row[d] < q[p].row[d]
                           \/ q[j].row[d] = q[p].row[d] /\ p <= j

(* Every stretch of net spreads has a peak. *)
PeaksExist(q) ==
  \A d \in Directions, s, n \in 1..Len(q) :
    s <= n /\ (\A i \in s..n : q[i].row[d] \in Nets) => \E p \in s..n : PeakIn(q, d, <<s, n>>, p)

(* The run of a direction that lasts until the last tick began at s. *)
Began(d, s) ==
  /\ s \in 1..Len(seen)
  /\ \A i \in s..Len(seen) : ActiveAt(d, i)
  /\ ~ActiveAt(d, s - 1)

OpenIsRun ==
  \A d \in Directions :
    IF task = "running" /\ ActiveAt(d, Len(seen))
      THEN \E s \in 1..Len(seen) : Began(d, s) /\ open[d] = RunEvent(seen, d, <<s, Len(seen)>>)
      ELSE open[d] = NoEvent

Tracked ==
  /\ task \in {"running", "stopped"}
  /\ PeaksExist(seen)
  /\ OpenIsRun
  /\ ClosedAreRuns

(* The peak is the one tick that is none lower and none equal before.      *)
LEMMA PeakIs ==
  ASSUME NEW q, NEW d, NEW r, NEW p, PeakIn(q, d, r, p), r[1] \in Int, r[2] \in Int,
         \A i \in r[1]..r[2] : q[i].row[d] \in Int
  PROVE  Peak(q, d, r) = p
BY DEF Peak, PeakIn

(* Stretches of the same spreads have the same peaks. *)
LEMMA SamePeak ==
  ASSUME NEW q1, NEW q2, NEW d, NEW r, \A i \in r[1]..r[2] : q1[i] = q2[i]
  PROVE  Peak(q1, d, r) = Peak(q2, d, r)
BY DEF Peak

(* What a run's event is made of. *)
LEMMA EventOfRun ==
  ASSUME NEW q \in Seq(Ticks), PeaksExist(q), NEW d \in Directions,
         NEW s \in 1..Len(q), NEW n \in 1..Len(q), s <= n,
         \A i \in s..n : q[i].row[d] \in Nets
  PROVE  \E p \in s..n :
           /\ PeakIn(q, d, <<s, n>>, p) /\ Peak(q, d, <<s, n>>) = p
           /\ RunEvent(q, d, <<s, n>>) =
                [start |-> q[s].at, first |-> q[s].row[d],
                 max |-> q[p].row[d], peak |-> q[p].at,
                 sum |-> Total(q, d, n) - Total(q, d, s - 1), samples |-> n - s + 1]
           /\ RunEvent(q, d, <<s, n>>) \in OpenEvents
<1>1. PICK p \in s..n : PeakIn(q, d, <<s, n>>, p)
  BY DEF PeaksExist
<1>2. <<s, n>>[1] = s /\ <<s, n>>[2] = n /\ s \in Int /\ n \in Int
  OBVIOUS
<1>3. \A i \in s..n : q[i].row[d] \in Int
  BY NetsAssumption
<1>4. Peak(q, d, <<s, n>>) = p
  BY <1>1, <1>2, <1>3, PeakIs
<1>5. RunEvent(q, d, <<s, n>>) =
        [start |-> q[s].at, first |-> q[s].row[d],
         max |-> q[p].row[d], peak |-> q[p].at,
         sum |-> Total(q, d, n) - Total(q, d, s - 1), samples |-> n - s + 1]
  BY <1>2, <1>4 DEF RunEvent
<1>6. ASSUME NEW i \in 1..Len(q) PROVE q[i].at \in Nat /\ q[i].total \in [Directions -> Int]
  <2>1. q[i] \in Ticks
    BY ElementOfSeq
  <2>2. QED
    BY <2>1 DEF Ticks
<1>7. Total(q, d, n) \in Int /\ Total(q, d, s - 1) \in Int
  BY <1>6 DEF Total
<1>8. /\ s \in s..n /\ p \in 1..Len(q) /\ n - s + 1 \in Nat \ {0}
      /\ Total(q, d, n) - Total(q, d, s - 1) \in Int
  BY <1>7
<1>9. RunEvent(q, d, <<s, n>>) \in OpenEvents
  BY SMTT(30), <1>5, <1>6, <1>8 DEF OpenEvents
<1>10. QED
  BY <1>1, <1>4, <1>5, <1>9

(* The event of a run does not depend on later ticks. *)
LEMMA SameEvent ==
  ASSUME NEW q1 \in Seq(Ticks), PeaksExist(q1), NEW q2, NEW d \in Directions, NEW r,
         r[1] \in 1..Len(q1), r[2] \in 1..Len(q1), r[1] <= r[2],
         \A i \in r[1]..r[2] : q1[i].row[d] \in Nets,
         \A i \in 1..r[2] : q1[i] = q2[i]
  PROVE  RunEvent(q1, d, r) = RunEvent(q2, d, r)
<1>0. r[1] \in Int /\ r[2] \in Int /\ \A i \in r[1]..r[2] : i \in 1..r[2]
  OBVIOUS
<1>1. Peak(q1, d, r) = Peak(q2, d, r)
  BY <1>0, SamePeak
<1>2. PICK p \in r[1]..r[2] : PeakIn(q1, d, <<r[1], r[2]>>, p)
  BY DEF PeaksExist
<1>3. PeakIn(q1, d, r, p)
  BY <1>2 DEF PeakIn
<1>4. \A i \in r[1]..r[2] : q1[i].row[d] \in Int
  BY NetsAssumption
<1>5. Peak(q1, d, r) = p
  BY <1>0, <1>3, <1>4, PeakIs
<1>6. q1[p] = q2[p] /\ q1[r[1]] = q2[r[1]]
  BY <1>0
<1>7. Total(q1, d, r[2]) = Total(q2, d, r[2]) /\ Total(q1, d, r[1] - 1) = Total(q2, d, r[1] - 1)
  <2>1. r[2] \in 1..r[2] /\ (r[1] - 1 # 0 => r[1] - 1 \in 1..r[2])
    BY <1>0
  <2>2. QED
    BY <2>1 DEF Total
<1>8. QED
  BY <1>1, <1>5, <1>6, <1>7 DEF RunEvent

(* A new tick has its own value as the peak, or the peak of the stretch    *)
(* that it prolongs, if that is no lower.                                  *)
LEMMA PeakGoesOn ==
  ASSUME NEW q, NEW d, NEW s \in Int, NEW n \in Int, s <= n, NEW p \in s..n,
         PeakIn(q, d, <<s, n>>, p), \A i \in s..(n + 1) : q[i].row[d] \in Int
  PROVE  PeakIn(q, d, <<s, n + 1>>,
                IF q[n + 1].row[d] > q[p].row[d] THEN n + 1 ELSE p)
<1> DEFINE v(i) == q[i].row[d]
<1>1. \A j \in s..n : v(j) < v(p) \/ (v(j) = v(p) /\ p <= j)
  BY DEF PeakIn
<1>2. \A j \in s..(n + 1) : j \in s..n \/ j = n + 1
  OBVIOUS
<1>3. n + 1 \in s..(n + 1) /\ p \in s..(n + 1) /\ \A j \in s..n : j \in s..(n + 1)
  OBVIOUS
<1>4. \A j \in s..(n + 1) : v(j) \in Int
  OBVIOUS
<1> HIDE DEF v
<1>5. CASE v(n + 1) > v(p)
  <2>1. \A j \in s..n : v(j) < v(n + 1)
    BY <1>1, <1>3, <1>4, <1>5
  <2>2. \A j \in s..(n + 1) : v(j) < v(n + 1) \/ (v(j) = v(n + 1) /\ n + 1 <= j)
    BY <1>2, <2>1
  <2>3. QED
    BY <1>3, <1>5, <2>2 DEF PeakIn, v
<1>6. CASE ~(v(n + 1) > v(p))
  <2>1. v(n + 1) < v(p) \/ (v(n + 1) = v(p) /\ p <= n + 1)
    BY <1>3, <1>4, <1>6
  <2>2. \A j \in s..(n + 1) : v(j) < v(p) \/ (v(j) = v(p) /\ p <= j)
    BY <1>1, <1>2, <2>1
  <2>3. QED
    BY <1>3, <1>6, <2>2 DEF PeakIn, v
<1>7. QED
  BY <1>5, <1>6

(* Every stretch still has a peak when a tick is added. *)
LEMMA PeaksGoOn ==
  ASSUME seen \in Seq(Ticks), PeaksExist(seen),
         NEW rows \in Outcomes, NEW t \in Nat, Tick(rows, t)
  PROVE  PeaksExist(seen')
<1> SUFFICES ASSUME NEW d \in Directions, NEW s \in 1..Len(seen'), NEW n \in 1..Len(seen'),
                    s <= n, \A i \in s..n : seen'[i].row[d] \in Nets
             PROVE  \E p \in s..n : PeakIn(seen', d, <<s, n>>, p)
  BY DEF PeaksExist
<1>1. /\ Len(seen) \in Nat /\ Len(seen') = Len(seen) + 1
      /\ \A i \in 1..Len(seen) : seen'[i] = seen[i]
  BY TickSeen
<1>2. \A i \in s..n : seen'[i].row[d] \in Int
  BY NetsAssumption
<1>3. CASE n <= Len(seen)
  <2>1. /\ s \in 1..Len(seen) /\ n \in 1..Len(seen)
        /\ \A i \in s..n : i \in 1..Len(seen) /\ seen'[i] = seen[i]
    BY <1>1, <1>3
  <2>2. PICK p \in s..n : PeakIn(seen, d, <<s, n>>, p)
    BY <2>1 DEF PeaksExist
  <2>3. PeakIn(seen', d, <<s, n>>, p)
    BY <2>1, <2>2 DEF PeakIn
  <2>4. QED
    BY <2>3
<1>4. CASE n = Len(seen) + 1 /\ s = n
  BY <1>1, <1>2, <1>4 DEF PeakIn
<1>5. CASE n = Len(seen) + 1 /\ s < n
  <2> DEFINE m == Len(seen)
  <2>1. /\ m \in 1..m /\ s \in 1..m /\ s <= m /\ n = m + 1
        /\ \A i \in s..m : i \in 1..m /\ i \in s..n /\ seen'[i] = seen[i]
    BY <1>1, <1>5
  <2>2. PICK p \in s..m : PeakIn(seen, d, <<s, m>>, p)
    BY <2>1 DEF PeaksExist
  <2>3. PeakIn(seen', d, <<s, m>>, p)
    BY <2>1, <2>2 DEF PeakIn
  <2>4. m \in Int /\ s \in Int /\ \A i \in s..(m + 1) : seen'[i].row[d] \in Int
    BY <1>1, <1>2, <2>1
  <2> HIDE DEF m
  <2>5. PeakIn(seen', d, <<s, m + 1>>, IF seen'[m + 1].row[d] > seen'[p].row[d] THEN m + 1 ELSE p)
    BY <2>1, <2>3, <2>4, PeakGoesOn
  <2>6. (IF seen'[m + 1].row[d] > seen'[p].row[d] THEN m + 1 ELSE p) \in s..n
    BY <2>1, <2>4
  <2>7. QED
    BY <2>1, <2>5, <2>6
<1>6. n <= Len(seen) \/ (n = Len(seen) + 1 /\ (s = n \/ s < n))
  BY <1>1
<1>7. QED
  BY <1>3, <1>4, <1>5, <1>6

(* Which ticks are active does not change when one more is seen. *)
LEMMA ActiveTicks ==
  ASSUME seen \in Seq(Ticks), NEW rows \in Outcomes, NEW t \in Nat, Tick(rows, t),
         NEW d \in Directions, NEW n \in Nat, n = Len(seen)
  PROVE  /\ \A i \in 1..n : ActiveAt(d, i)' <=> ActiveAt(d, i)
         /\ ActiveAt(d, n + 1)' <=> Active(rows[d])
         /\ ~ActiveAt(d, 0) /\ ~ActiveAt(d, 0)'
         /\ ~ActiveAt(d, n + 1) /\ ~ActiveAt(d, n + 2)'
         /\ \A i \in 1..n : ActiveAt(d, i) => seen[i].row[d] \in Nets
<1>1. /\ Len(seen') = n + 1
      /\ \A i \in 1..n : seen'[i] = seen[i]
      /\ seen'[n + 1].row = rows
  BY TickSeen
<1>2. threshold' = threshold
  BY DEF Tick
<1>3. /\ \A i \in 1..n : i \in 1..Len(seen')
      /\ n + 1 \in 1..Len(seen') /\ n + 1 \notin 1..Len(seen)
      /\ n + 2 \notin 1..Len(seen')
  BY <1>1
<1>4. \A row : Active(row)' <=> Active(row)
  BY <1>2 DEF Active
<1>5. \A i \in 1..n : ActiveAt(d, i)' <=> ActiveAt(d, i)
  BY <1>1, <1>3, <1>4 DEF ActiveAt
<1>6. ActiveAt(d, n + 1)' <=> Active(rows[d])
  BY <1>1, <1>3, <1>4 DEF ActiveAt
<1>7. ~ActiveAt(d, 0) /\ ~ActiveAt(d, 0)'
  BY DEF ActiveAt
<1>8. ~ActiveAt(d, n + 1) /\ ~ActiveAt(d, n + 2)'
  BY <1>3 DEF ActiveAt
<1>9. \A i \in 1..n : ActiveAt(d, i) => seen[i].row[d] \in Nets
  BY DEF ActiveAt, Active
<1>10. QED
  BY <1>5, <1>6, <1>7, <1>8, <1>9

(* A run that lasts until a tick has begun at one tick only. *)
LEMMA BeginsOnce ==
  ASSUME NEW A, NEW n \in Int, NEW s \in Int, NEW u \in Int, s <= n, u <= n,
         \A i \in s..n : i \in A, s - 1 \notin A, \A i \in u..n : i \in A, u - 1 \notin A
  PROVE  s = u
<1>1. ~(s < u)
  <2>1. s < u => u - 1 \in s..n
    OBVIOUS
  <2>2. QED
    BY <2>1
<1>2. ~(u < s)
  <2>1. u < s => s - 1 \in u..n
    OBVIOUS
  <2>2. QED
    BY <2>1
<1>3. QED
  BY <1>1, <1>2

(* An open event is that of the run going on. *)
LEMMA OpenEvent ==
  ASSUME seen \in Seq(Ticks), Tracked, task = "running", NEW d \in Directions
  PROVE  /\ open[d] # NoEvent <=> ActiveAt(d, Len(seen))
         /\ open[d] # NoEvent =>
              \E s \in 1..Len(seen) :
                Began(d, s) /\ open[d] = RunEvent(seen, d, <<s, Len(seen)>>)
<1>1. CASE ~ActiveAt(d, Len(seen))
  BY <1>1 DEF Tracked, OpenIsRun
<1>2. CASE ActiveAt(d, Len(seen))
  <2>1. PICK s \in 1..Len(seen) : Began(d, s) /\ open[d] = RunEvent(seen, d, <<s, Len(seen)>>)
    BY <1>2 DEF Tracked, OpenIsRun
  <2>2. Len(seen) \in 1..Len(seen) /\ s <= Len(seen)
    OBVIOUS
  <2>3. \A i \in s..Len(seen) : seen[i].row[d] \in Nets
    BY <2>1 DEF Began, ActiveAt, Active
  <2>4. open[d] \in OpenEvents
    <3>1. PICK q, n : q = seen /\ n = Len(seen)
      OBVIOUS
    <3>2. /\ q \in Seq(Ticks) /\ PeaksExist(q) /\ s \in 1..Len(q) /\ n \in 1..Len(q) /\ s <= n
          /\ \A i \in s..n : q[i].row[d] \in Nets
      BY <2>2, <2>3, <3>1 DEF Tracked
    <3>3. RunEvent(q, d, <<s, n>>) \in OpenEvents
      BY <3>2, EventOfRun
    <3>4. QED
      BY <2>1, <3>1, <3>3
  <2>5. QED
    BY <1>2, <2>1, <2>4, NoEventAssumption
<1>3. QED
  BY <1>1, <1>2

(* Earlier totals stay and the new spread is added. *)
LEMMA TotalGoesOn ==
  ASSUME seen \in Seq(Ticks), NEW rows \in Outcomes, NEW t \in Nat, Tick(rows, t),
         NEW d \in Directions, rows[d] \in Nets, NEW n \in Nat, n = Len(seen)
  PROVE  /\ Total(seen, d, n) \in Int
         /\ \A i \in 0..n : Total(seen', d, i) = Total(seen, d, i)
         /\ Total(seen', d, n + 1) = Total(seen, d, n) + rows[d]
<1>1. /\ \A i \in 1..n : seen'[i] = seen[i]
      /\ Total(seen, d, n) \in Int
      /\ seen'[n + 1].total[d] = Total(seen, d, n) + rows[d]
  BY TickSeen
<1>2. \A i \in 0..n : i = 0 \/ i \in 1..n
  OBVIOUS
<1>3. \A i \in 0..n : Total(seen', d, i) = Total(seen, d, i)
  BY <1>1, <1>2 DEF Total
<1>4. n + 1 # 0
  OBVIOUS
<1>5. Total(seen', d, n + 1) = Total(seen, d, n) + rows[d]
  BY <1>1, <1>4 DEF Total
<1>6. QED
  BY <1>1, <1>3, <1>5

(* process() opens, updates and closes the open events as their runs do.   *)
LEMMA OpenGoesOn ==
  ASSUME seen \in Seq(Ticks), Tracked, NEW rows \in Outcomes, NEW t \in Nat, Tick(rows, t)
  PROVE  OpenIsRun'
<1>0. PICK n, q : n \in Nat /\ n = Len(seen) /\ q = seen'
  OBVIOUS
<1>1. /\ q \in Seq(Ticks) /\ Len(q) = n + 1
      /\ \A i \in 1..n : q[i] = seen[i]
      /\ q[n + 1].at = t /\ q[n + 1].row = rows
  BY <1>0, TickSeen
<1>2. task = "running" /\ task' = "running" /\ PeaksExist(q) /\ Process(rows, t)
  BY <1>0, PeaksGoOn DEF Tick, Tracked
<1> SUFFICES ASSUME NEW d \in Directions
             PROVE  IF ActiveAt(d, n + 1)'
                      THEN \E s \in 1..(n + 1) :
                             Began(d, s)' /\ open'[d] = RunEvent(q, d, <<s, n + 1>>)
                      ELSE open'[d] = NoEvent
  BY <1>0, <1>1, <1>2 DEF OpenIsRun
<1>3. open'[d] = IF ~Active(rows[d]) THEN NoEvent
                 ELSE IF open[d] = NoEvent THEN Begin(rows[d], t)
                 ELSE Update(open[d], rows[d], t)
  BY <1>2 DEF Process
<1>4. CASE ~Active(rows[d])
  BY <1>0, <1>3, <1>4, ActiveTicks
<1>5. CASE Active(rows[d]) /\ open[d] = NoEvent
  <2>1. ~ActiveAt(d, n) /\ rows[d] \in Nets
    BY <1>0, <1>2, <1>5, OpenEvent DEF Active
  <2>2. PICK m : m = n + 1
    OBVIOUS
  <2>3. m \in 1..Len(q) /\ m <= m /\ m - 1 = n /\ m - m + 1 = 1 /\ \A i \in m..m : i = m
    BY <1>0, <1>1, <2>2
  <2>4. Began(d, m)'
    <3>1. ~ActiveAt(d, n)'
      BY <1>0, <2>1, ActiveTicks
    <3>2. ActiveAt(d, m)'
      BY <1>0, <1>5, <2>2, ActiveTicks
    <3>3. Len(seen') = m
      BY <1>0, <1>1, <2>2
    <3>4. QED
      BY <1>0, <2>3, <3>1, <3>2, <3>3 DEF Began
  <2>5. \A i \in m..m : q[i].row[d] \in Nets
    BY <1>1, <2>1, <2>2, <2>3
  <2>6. PICK p \in m..m :
          RunEvent(q, d, <<m, m>>) =
            [start |-> q[m].at, first |-> q[m].row[d],
             max |-> q[p].row[d], peak |-> q[p].at,
             sum |-> Total(q, d, m) - Total(q, d, m - 1), samples |-> m - m + 1]
    BY ZenonT(60), <1>1, <1>2, <2>3, <2>5, EventOfRun
  <2>7. Total(q, d, m) - Total(q, d, m - 1) = rows[d]
    <3>1. /\ Total(seen, d, n) \in Int /\ Total(q, d, n) = Total(seen, d, n)
          /\ Total(q, d, n + 1) = Total(seen, d, n) + rows[d]
      BY <1>0, <2>1, TotalGoesOn
    <3>2. rows[d] \in Int
      BY <2>1, NetsAssumption
    <3>3. QED
      BY <1>0, <2>2, <2>3, <3>1, <3>2
  <2>8. open'[d] = RunEvent(q, d, <<m, m>>)
    BY <1>1, <1>3, <1>5, <2>2, <2>3, <2>6, <2>7 DEF Begin
  <2>9. m \in 1..(n + 1) /\ n + 1 = m
    BY <1>0, <2>2
  <2>10. \E s \in 1..(n + 1) : Began(d, s)' /\ open'[d] = RunEvent(q, d, <<s, n + 1>>)
    BY <2>4, <2>8, <2>9
  <2>11. ActiveAt(d, n + 1)'
    BY <1>0, <1>5, ActiveTicks
  <2>12. QED
    BY <2>10, <2>11
<1>6. CASE Active(rows[d]) /\ open[d] # NoEvent
  <2>1. PICK s \in 1..n : Began(d, s) /\ open[d] = RunEvent(seen, d, <<s, n>>)
    BY <1>0, <1>2, <1>6, OpenEvent
  <2>2. rows[d] \in Nets /\ rows[d] \in Int
    BY <1>6, NetsAssumption DEF Active
  <2>3. PICK m : m = n + 1
    OBVIOUS
  <2>4. /\ n \in 1..n /\ s <= n /\ s \in Int /\ n \in Int /\ s \in 1..m /\ m \in Int /\ s - 1 \in 0..n
        /\ n + 1 = m /\ m - s + 1 = (n - s + 1) + 1
        /\ \A i \in s..m : i \in s..n \/ i = m
        /\ \A i \in s..n : i \in 1..n
    BY <1>0, <2>3
  <2>5. \A i \in s..n : seen[i].row[d] \in Nets /\ q[i] = seen[i]
    BY <1>0, <1>1, <2>1, <2>4 DEF Began, ActiveAt, Active
  <2>6. Began(d, s)'
    <3>1. Len(seen') = m
      BY <1>0, <1>1, <2>3
    <3>2. \A i \in s..n : ActiveAt(d, i)'
      BY <1>0, <2>1, <2>4, ActiveTicks DEF Began
    <3>3. ActiveAt(d, m)'
      BY <1>0, <1>6, <2>3, ActiveTicks
    <3>4. ~ActiveAt(d, s - 1)'
      <4>1. CASE s - 1 = 0
        BY <4>1, <1>0, ActiveTicks
      <4>2. CASE s - 1 \in 1..n
        BY <1>0, <2>1, <4>2, ActiveTicks DEF Began
      <4>3. QED
        BY <2>4, <4>1, <4>2
    <3>5. QED
      BY <1>0, <2>4, <3>1, <3>2, <3>3, <3>4 DEF Began
  <2>7. PICK p \in s..n :
          /\ PeakIn(seen, d, <<s, n>>, p)
          /\ open[d] = [start |-> seen[s].at, first |-> seen[s].row[d],
                        max |-> seen[p].row[d], peak |-> seen[p].at,
                        sum |-> Total(seen, d, n) - Total(seen, d, s - 1),
                        samples |-> n - s + 1]
    <3>1. PICK ticks : ticks = seen
      OBVIOUS
    <3>2. /\ ticks \in Seq(Ticks) /\ PeaksExist(ticks) /\ s \in 1..Len(ticks) /\ n \in 1..Len(ticks)
          /\ s <= n /\ \A i \in s..n : ticks[i].row[d] \in Nets
      BY <1>0, <2>4, <2>5, <3>1 DEF Tracked
    <3>3. \E p \in s..n :
            /\ PeakIn(ticks, d, <<s, n>>, p)
            /\ RunEvent(ticks, d, <<s, n>>) =
                 [start |-> ticks[s].at, first |-> ticks[s].row[d],
                  max |-> ticks[p].row[d], peak |-> ticks[p].at,
                  sum |-> Total(ticks, d, n) - Total(ticks, d, s - 1), samples |-> n - s + 1]
      BY ZenonT(60), <3>2, EventOfRun
    <3>4. QED
      BY <2>1, <3>1, <3>3
  <2>8. PICK top : top = IF q[m].row[d] > q[p].row[d] THEN m ELSE p
    OBVIOUS
  <2>9. \A i \in s..m : q[i].row[d] \in Int
    BY <1>1, <2>2, <2>3, <2>4, <2>5, NetsAssumption
  <2>10. PeakIn(q, d, <<s, n>>, p)
    BY <2>5, <2>7 DEF PeakIn
  <2>11. PeakIn(q, d, <<s, m>>, top)
    BY <2>3, <2>4, <2>8, <2>9, <2>10, PeakGoesOn
  <2>12. Peak(q, d, <<s, m>>) = top
    BY <2>4, <2>9, <2>11, PeakIs
  <2>13. RunEvent(q, d, <<s, m>>) =
           [start |-> q[s].at, first |-> q[s].row[d], max |-> q[top].row[d], peak |-> q[top].at,
            sum |-> Total(q, d, m) - Total(q, d, s - 1), samples |-> m - s + 1]
    BY <2>12 DEF RunEvent
  <2>14. /\ q[s] = seen[s] /\ q[p] = seen[p] /\ q[m].row = rows /\ q[m].at = t
    BY <1>1, <2>3, <2>4, <2>5
  <2>15. Total(q, d, m) - Total(q, d, s - 1)
           = (Total(seen, d, n) - Total(seen, d, s - 1)) + rows[d]
    <3>1. /\ Total(seen, d, n) \in Int
          /\ Total(q, d, s - 1) = Total(seen, d, s - 1)
          /\ Total(q, d, m) = Total(seen, d, n) + rows[d]
      BY <1>0, <2>2, <2>3, <2>4, TotalGoesOn
    <3>2. Total(seen, d, s - 1) \in Int
      <4>1. \A i \in 1..n : seen[i].total[d] \in Int
        <5>1. \A i \in 1..n : seen[i] \in Ticks
          BY <1>0, ElementOfSeq
        <5>2. QED
          BY <5>1 DEF Ticks
      <4>2. s - 1 = 0 \/ s - 1 \in 1..n
        BY <2>4
      <4>3. QED
        BY <4>1, <4>2 DEF Total
    <3>3. QED
      BY <2>2, <3>1, <3>2
  <2>16. Update(open[d], rows[d], t) =
           [start |-> seen[s].at, first |-> seen[s].row[d],
            max |-> IF rows[d] > seen[p].row[d] THEN rows[d] ELSE seen[p].row[d],
            peak |-> IF rows[d] > seen[p].row[d] THEN t ELSE seen[p].at,
            sum |-> (Total(seen, d, n) - Total(seen, d, s - 1)) + rows[d],
            samples |-> (n - s + 1) + 1]
    <3>1. PICK e, x, y, u, v, w, z :
            /\ e = open[d] /\ x = seen[s].at /\ y = seen[s].row[d]
            /\ u = seen[p].row[d] /\ v = seen[p].at
            /\ w = Total(seen, d, n) - Total(seen, d, s - 1) /\ z = n - s + 1
      OBVIOUS
    <3>2. e = [start |-> x, first |-> y, max |-> u, peak |-> v, sum |-> w, samples |-> z]
      BY <2>7, <3>1
    <3>3. Update(e, rows[d], t) =
            [start |-> x, first |-> y, max |-> IF rows[d] > u THEN rows[d] ELSE u,
             peak |-> IF rows[d] > u THEN t ELSE v, sum |-> w + rows[d], samples |-> z + 1]
      <4>1. /\ DOMAIN e = {"start", "first", "max", "peak", "sum", "samples"}
            /\ e.start = x /\ e.first = y /\ e.max = u /\ e.peak = v
            /\ e.sum = w /\ e.samples = z
        BY <3>2
      <4>2. PICK high, at : /\ high = IF rows[d] > u THEN rows[d] ELSE u
                           /\ at = IF rows[d] > u THEN t ELSE v
        OBVIOUS
      <4>3. Update(e, rows[d], t) =
              [[[[e EXCEPT !.samples = z + 1] EXCEPT !.sum = w + rows[d]]
                  EXCEPT !.max = high] EXCEPT !.peak = at]
        BY <4>1, <4>2 DEF Update
      <4>4. QED
        BY <3>2, <4>2, <4>3
    <3>4. QED
      BY <3>1, <3>3
  <2>17. open'[d] = RunEvent(q, d, <<s, m>>)
    <3>1. /\ q[top].row[d] = IF rows[d] > seen[p].row[d] THEN rows[d] ELSE seen[p].row[d]
          /\ q[top].at = IF rows[d] > seen[p].row[d] THEN t ELSE seen[p].at
      BY <2>8, <2>14
    <3>2. QED
      BY <1>3, <1>6, <2>4, <2>13, <2>14, <2>15, <2>16, <3>1
  <2>18. QED
    BY <1>0, <1>6, <2>3, <2>4, <2>6, <2>17, ActiveTicks
<1>7. QED
  BY <1>4, <1>5, <1>6

(* A run of direction d, from tick s to tick e. *)
IsRun(d, s, e) ==
  /\ s <= e /\ \A i \in s..e : ActiveAt(d, i)
  /\ ~ActiveAt(d, s - 1) /\ ~ActiveAt(d, e + 1)

(* The event that an ended run leaves. *)
EventOf(d, s, e) ==
  Close(d, RunEvent(seen, d, <<s, e>>), IF e < Len(seen) THEN seen[e + 1].at ELSE now)

EventsOfRuns ==
  \A x : x \in closed <=>
    \E d \in Directions : \E s, e \in 1..Len(seen) :
      /\ IsRun(d, s, e) /\ (e < Len(seen) \/ task = "stopped")
      /\ x = EventOf(d, s, e)

LEMMA ClosedByRun == ClosedAreRuns <=> EventsOfRuns
<1> DEFINE runs(d) == {Close(d, RunEvent(seen, d, r), RunEnd(r)) : r \in {q \in Runs(d) : Ended(q)}}
           leaves(d, s, e, x) == /\ IsRun(d, s, e) /\ (e < Len(seen) \/ task = "stopped")
                                 /\ x = EventOf(d, s, e)
<1>1. ASSUME NEW d, NEW s \in 1..Len(seen), NEW e \in 1..Len(seen), NEW x
      PROVE  leaves(d, s, e, x) <=>
               /\ <<s, e>> \in Runs(d) /\ Ended(<<s, e>>)
               /\ x = Close(d, RunEvent(seen, d, <<s, e>>), RunEnd(<<s, e>>))
  <2>1. IsRun(d, s, e) <=> <<s, e>> \in Runs(d)
    BY DEF Runs, IsRun
  <2>2. (e < Len(seen) \/ task = "stopped") <=> Ended(<<s, e>>)
    BY DEF Ended
  <2>3. EventOf(d, s, e) = Close(d, RunEvent(seen, d, <<s, e>>), RunEnd(<<s, e>>))
    BY DEF EventOf, RunEnd
  <2>4. QED
    BY <2>1, <2>2, <2>3
<1>2. \A d, r : r \in Runs(d) => \E s, e \in 1..Len(seen) : r = <<s, e>>
  BY DEF Runs
<1>3. ASSUME NEW d, NEW x
      PROVE  x \in runs(d) <=> \E s, e \in 1..Len(seen) : leaves(d, s, e, x)
  <2>1. ASSUME x \in runs(d) PROVE \E s, e \in 1..Len(seen) : leaves(d, s, e, x)
    <3>1. PICK r \in Runs(d) : Ended(r) /\ x = Close(d, RunEvent(seen, d, r), RunEnd(r))
      BY <2>1
    <3>2. PICK s, e \in 1..Len(seen) : r = <<s, e>>
      BY <1>2
    <3>3. leaves(d, s, e, x)
      BY <1>1, <3>1, <3>2
    <3>4. QED
      BY <3>3
  <2>2. ASSUME NEW s \in 1..Len(seen), NEW e \in 1..Len(seen), leaves(d, s, e, x)
        PROVE  x \in runs(d)
    BY <1>1, <2>2
  <2>3. QED
    BY <2>1, <2>2
<1>4. ClosedAreRuns <=> closed = UNION {runs(d) : d \in Directions}
  BY DEF ClosedAreRuns
<1> HIDE DEF runs
<1>5. QED
  BY <1>3, <1>4 DEF EventsOfRuns

LEMMA ClosedByRunNext == ClosedAreRuns' <=> EventsOfRuns'
BY ClosedByRun, PTL

(* While the tracker runs, a direction has an open event if and only if    *)
(* its last run still goes on, and it is that run's.                       *)
LEMMA OpenIfBegan ==
  ASSUME seen \in Seq(Ticks), Tracked, task = "running", NEW d \in Directions,
         NEW n, n = Len(seen)
  PROVE  /\ \A s \in 1..n : Began(d, s) =>
                open[d] # NoEvent /\ open[d] = RunEvent(seen, d, <<s, n>>)
         /\ open[d] # NoEvent => \E s \in 1..n : Began(d, s)
<1>1. ASSUME NEW s \in 1..n, Began(d, s)
      PROVE  open[d] # NoEvent /\ open[d] = RunEvent(seen, d, <<s, n>>)
  <2>1. n \in Int /\ s \in Int /\ s <= n /\ n \in s..n
    OBVIOUS
  <2>2. ActiveAt(d, n)
    BY <1>1, <2>1 DEF Began
  <2>3. open[d] # NoEvent
    BY <2>2, OpenEvent
  <2>4. PICK u \in 1..n : Began(d, u) /\ open[d] = RunEvent(seen, d, <<u, n>>)
    BY <2>3, OpenEvent
  <2>5. PICK A : \A i \in Int : i \in A <=> ActiveAt(d, i)
    <3>1. \A i \in Int : i \in {j \in Int : ActiveAt(d, j)} <=> ActiveAt(d, i)
      OBVIOUS
    <3>2. QED
      BY <3>1
  <2>6. /\ u \in Int /\ u <= n /\ s - 1 \in Int /\ u - 1 \in Int
        /\ \A i \in s..n : i \in Int /\ ActiveAt(d, i)
        /\ \A i \in u..n : i \in Int /\ ActiveAt(d, i)
        /\ ~ActiveAt(d, s - 1) /\ ~ActiveAt(d, u - 1)
    BY <1>1, <2>1, <2>4 DEF Began
  <2>7. /\ \A i \in s..n : i \in A
        /\ \A i \in u..n : i \in A
        /\ s - 1 \notin A /\ u - 1 \notin A
    BY <2>5, <2>6
  <2>8. s = u
    BY <2>1, <2>6, <2>7, BeginsOnce
  <2>9. QED
    BY <2>3, <2>4, <2>8
<1>2. QED
  BY <1>1, OpenEvent

(* What a run leaves does not change when one more tick is seen, and the   *)
(* tick ends the runs of the directions that are not active in it.         *)
LEMMA RunsGoOn ==
  ASSUME seen \in Seq(Ticks), Tracked, NEW rows \in Outcomes, NEW t \in Nat, Tick(rows, t),
         NEW d \in Directions, NEW n \in Nat, n = Len(seen), NEW s \in 1..n, NEW e \in 1..n
  PROVE  /\ e < n => (IsRun(d, s, e)' <=> IsRun(d, s, e))
         /\ e < n /\ IsRun(d, s, e) => EventOf(d, s, e)' = EventOf(d, s, e)
         /\ IsRun(d, s, n)' <=> Began(d, s) /\ ~Active(rows[d])
         /\ Began(d, s) => EventOf(d, s, n)' = Close(d, RunEvent(seen, d, <<s, n>>), t)
<1>0. PICK q : q = seen
  OBVIOUS
<1>1. /\ q \in Seq(Ticks) /\ PeaksExist(q) /\ Len(q) = n
      /\ Len(seen') = n + 1 /\ \A i \in 1..n : seen'[i] = q[i]
      /\ seen'[n + 1].at = t
  BY <1>0, TickSeen DEF Tracked
<1>2. /\ s - 1 = 0 \/ s - 1 \in 1..n
      /\ e < n => e + 1 \in 1..n
      /\ \A i \in s..e : i \in 1..n
      /\ \A i \in s..n : i \in 1..n
      /\ n \in 1..n /\ s <= n
  OBVIOUS
<1>3. ActiveAt(d, s - 1)' <=> ActiveAt(d, s - 1)
  BY <1>2, ActiveTicks
<1>4. ASSUME e < n PROVE IsRun(d, s, e)' <=> IsRun(d, s, e)
  <2>1. ActiveAt(d, e + 1)' <=> ActiveAt(d, e + 1)
    BY <1>2, <1>4, ActiveTicks
  <2>2. \A i \in s..e : ActiveAt(d, i)' <=> ActiveAt(d, i)
    BY <1>2, ActiveTicks
  <2>3. QED
    BY <1>3, <2>1, <2>2 DEF IsRun
<1>5. ASSUME NEW u \in 1..n, s <= u, \A i \in s..u : ActiveAt(d, i)
      PROVE  RunEvent(seen', d, <<s, u>>) = RunEvent(seen, d, <<s, u>>)
  <2>1. PICK r, r2 : r = <<s, u>> /\ r2 = seen'
    OBVIOUS
  <2>2. /\ r[1] = s /\ r[2] = u
        /\ \A i \in s..u : i \in 1..n /\ q[i].row[d] \in Nets
        /\ \A i \in 1..u : q[i] = r2[i]
    BY <1>0, <1>1, <1>5, <2>1, ActiveTicks
  <2>3. RunEvent(q, d, r) = RunEvent(r2, d, r)
    BY <1>1, <1>5, <2>2, SameEvent
  <2>4. QED
    BY <1>0, <2>1, <2>3
<1>6. ASSUME e < n, IsRun(d, s, e) PROVE EventOf(d, s, e)' = EventOf(d, s, e)
  <2>1. RunEvent(seen', d, <<s, e>>) = RunEvent(seen, d, <<s, e>>)
    BY <1>5, <1>6 DEF IsRun
  <2>2. seen'[e + 1] = seen[e + 1] /\ e < n + 1
    BY <1>0, <1>1, <1>2, <1>6
  <2>3. QED
    BY <1>1, <1>6, <2>1, <2>2 DEF EventOf
<1>7. IsRun(d, s, n)' <=> Began(d, s) /\ ~Active(rows[d])
  <2>1. ActiveAt(d, n + 1)' <=> Active(rows[d])
    BY ActiveTicks
  <2>2. \A i \in s..n : ActiveAt(d, i)' <=> ActiveAt(d, i)
    BY <1>2, ActiveTicks
  <2>3. QED
    BY <1>2, <1>3, <2>1, <2>2 DEF IsRun, Began
<1>8. ASSUME Began(d, s) PROVE EventOf(d, s, n)' = Close(d, RunEvent(seen, d, <<s, n>>), t)
  <2>1. \A i \in s..n : ActiveAt(d, i)
    BY <1>8 DEF Began
  <2>2. RunEvent(seen', d, <<s, n>>) = RunEvent(seen, d, <<s, n>>)
    BY <1>2, <1>5, <2>1
  <2>3. n < n + 1
    OBVIOUS
  <2>4. QED
    BY <1>1, <2>2, <2>3 DEF EventOf
<1>9. QED
  BY <1>4, <1>6, <1>7, <1>8

(* A tick opens, moves and closes the events of its runs. *)
LEMMA TickKeepsTracked ==
  ASSUME seen \in Seq(Ticks), Tracked, NEW rows \in Outcomes, NEW t \in Nat, Tick(rows, t)
  PROVE  Tracked'
<1>0. PICK n \in Nat : n = Len(seen)
  OBVIOUS
<1>1. /\ task = "running" /\ task' = "running" /\ Len(seen') = n + 1
      /\ closed' = closed \cup {Close(d, open[d], t) :
                                  d \in {c \in Directions : open[c] # NoEvent /\ ~Active(rows[c])}}
  BY <1>0, TickSeen DEF Tick, Process
<1>2. \A x : x \in closed <=>
        \E d \in Directions : \E s, e \in 1..n : e < n /\ IsRun(d, s, e) /\ x = EventOf(d, s, e)
  BY <1>0, <1>1, ClosedByRun DEF Tracked, EventsOfRuns
<1>3. ASSUME NEW x \in closed'
      PROVE  \E d \in Directions : \E s, e \in 1..(n + 1) :
               IsRun(d, s, e)' /\ e < n + 1 /\ x = EventOf(d, s, e)'
  <2>1. CASE x \in closed
    <3>1. PICK d \in Directions, s \in 1..n, e \in 1..n :
            e < n /\ IsRun(d, s, e) /\ x = EventOf(d, s, e)
      BY <1>2, <2>1
    <3>2. IsRun(d, s, e)' /\ EventOf(d, s, e)' = x
      BY ZenonT(60), <1>0, <3>1, RunsGoOn
    <3>3. s \in 1..(n + 1) /\ e \in 1..(n + 1) /\ e < n + 1
      OBVIOUS
    <3>4. QED
      BY <3>2, <3>3
  <2>2. CASE x \notin closed
    <3>1. PICK d \in Directions : open[d] # NoEvent /\ ~Active(rows[d]) /\ x = Close(d, open[d], t)
      BY <1>1, <2>2
    <3>2. PICK s \in 1..n : Began(d, s)
      BY <1>0, <1>1, <3>1, OpenIfBegan
    <3>3. open[d] = RunEvent(seen, d, <<s, n>>)
      BY <1>0, <1>1, <3>2, OpenIfBegan
    <3>4. n \in 1..n
      OBVIOUS
    <3>5. IsRun(d, s, n)' /\ EventOf(d, s, n)' = x
      BY <1>0, <3>1, <3>2, <3>3, <3>4, RunsGoOn
    <3>6. s \in 1..(n + 1) /\ n \in 1..(n + 1) /\ n < n + 1
      BY <3>4
    <3>7. QED
      BY <3>5, <3>6
  <2>3. QED
    BY <2>1, <2>2
<1>4. ASSUME NEW d \in Directions, NEW s \in 1..(n + 1), NEW e \in 1..(n + 1),
             IsRun(d, s, e)', e < n + 1
      PROVE  EventOf(d, s, e)' \in closed'
  <2>1. s <= e /\ s \in 1..n /\ e \in 1..n /\ (e < n \/ e = n)
    BY <1>4 DEF IsRun
  <2>2. CASE e < n
    <3>1. IsRun(d, s, e)' <=> IsRun(d, s, e)
      BY <1>0, <2>1, <2>2, RunsGoOn
    <3>2. IsRun(d, s, e)
      BY <1>4, <3>1
    <3>3. EventOf(d, s, e)' = EventOf(d, s, e)
      BY ZenonT(60), <1>0, <2>1, <2>2, <3>2, RunsGoOn
    <3>4. EventOf(d, s, e) \in closed
      BY <1>2, <2>1, <2>2, <3>2
    <3>5. QED
      BY <1>1, <3>3, <3>4
  <2>3. CASE e = n
    <3>1. IsRun(d, s, n)'
      BY <1>4, <2>3
    <3>2. Began(d, s) /\ ~Active(rows[d])
      BY <1>0, <2>1, <3>1, RunsGoOn
    <3>3. EventOf(d, s, n)' = Close(d, RunEvent(seen, d, <<s, n>>), t)
      BY <1>0, <2>1, <3>2, RunsGoOn
    <3>4. open[d] # NoEvent /\ open[d] = RunEvent(seen, d, <<s, n>>)
      BY <1>0, <1>1, <2>1, <3>2, OpenIfBegan
    <3>5. Close(d, open[d], t) \in closed'
      BY <1>1, <3>2, <3>4
    <3>6. EventOf(d, s, n)' \in closed'
      BY <3>3, <3>4, <3>5
    <3>7. QED
      BY <2>3, <3>6
  <2>4. QED
    BY <2>1, <2>2, <2>3
<1>5. EventsOfRuns'
  <2>1. ASSUME NEW x
        PROVE  x \in closed' <=>
                 \E d \in Directions : \E s, e \in 1..(n + 1) :
                   IsRun(d, s, e)' /\ e < n + 1 /\ x = EventOf(d, s, e)'
    BY <1>3, <1>4
  <2>2. task' # "stopped"
    BY <1>1
  <2>3. ASSUME NEW x
        PROVE  x \in closed' <=>
                 \E d \in Directions : \E s, e \in 1..Len(seen') :
                   /\ IsRun(d, s, e)' /\ (e < Len(seen') \/ task' = "stopped")
                   /\ x = EventOf(d, s, e)'
    <3>1. PICK m : m = n + 1
      OBVIOUS
    <3>2. Len(seen') = m
      BY <1>1, <3>1
    <3>3. QED
      BY <2>1, <2>2, <3>1, <3>2
  <2>4. QED
    BY <2>3 DEF EventsOfRuns
<1>6. ClosedAreRuns'
  BY <1>5, ClosedByRunNext
<1>7. QED
  BY <1>1, <1>6, PeaksGoOn, OpenGoesOn DEF Tracked

(* Between the ticks nothing that the tracker keeps changes, and the       *)
(* moment matters only once it has stopped.                                *)
LEMMA MomentKeepsTracked ==
  ASSUME Tracked, UNCHANGED <<threshold, open, closed, task, seen>>,
         task = "running" \/ now' = now
  PROVE  Tracked'
<1>1. \A d, i : ActiveAt(d, i)' <=> ActiveAt(d, i)
  BY DEF ActiveAt, Active
<1>2. PeaksExist(seen')
  BY DEF Tracked
<1>3. OpenIsRun'
  BY <1>1 DEF Tracked, OpenIsRun, Began
<1>4. \A d, s, e : IsRun(d, s, e)' <=> IsRun(d, s, e)
  BY <1>1 DEF IsRun
<1>5. \A d, s, e : e < Len(seen) \/ task = "stopped" => EventOf(d, s, e)' = EventOf(d, s, e)
  BY DEF EventOf
<1>6. EventsOfRuns
  BY ClosedByRun DEF Tracked
<1>7. EventsOfRuns'
  BY <1>4, <1>5, <1>6 DEF EventsOfRuns
<1>8. QED
  BY <1>2, <1>3, <1>7, ClosedByRunNext DEF Tracked

(* flush_open() closes the events of the runs that are going on. *)
LEMMA FlushKeepsTracked ==
  ASSUME seen \in Seq(Ticks), Tracked, NEW t \in Nat, Flush(t)
  PROVE  Tracked'
<1>0. PICK n \in Nat : n = Len(seen)
  OBVIOUS
<1>1. /\ task = "running" /\ task' = "stopped" /\ now' = t
      /\ open' = [d \in Directions |-> NoEvent]
      /\ closed' = closed \cup {Close(d, open[d], t) : d \in {e \in Directions : open[e] # NoEvent}}
      /\ threshold' = threshold /\ seen' = seen
  BY DEF Flush
<1>2. \A d, i : ActiveAt(d, i)' <=> ActiveAt(d, i)
  BY <1>1 DEF ActiveAt, Active
<1>3. \A d, s, e : IsRun(d, s, e)' <=> IsRun(d, s, e)
  BY <1>2 DEF IsRun
<1>4. \A d : \A s \in 1..n : IsRun(d, s, n) <=> Began(d, s)
  <2>1. \A d : ~ActiveAt(d, n + 1)
    BY <1>0 DEF ActiveAt
  <2>2. \A s \in 1..n : s <= n
    OBVIOUS
  <2>3. QED
    BY <1>0, <2>1, <2>2 DEF IsRun, Began
<1>5. \A d, s, e : e < n => EventOf(d, s, e)' = EventOf(d, s, e)
  BY <1>0, <1>1 DEF EventOf
<1>6. \A d, s : EventOf(d, s, n)' = Close(d, RunEvent(seen, d, <<s, n>>), t)
  BY <1>0, <1>1 DEF EventOf
<1>7. \A x : x \in closed <=>
        \E d \in Directions : \E s, e \in 1..n : e < n /\ IsRun(d, s, e) /\ x = EventOf(d, s, e)
  BY <1>0, <1>1, ClosedByRun DEF Tracked, EventsOfRuns
<1>8. \A d \in Directions :
        /\ \A s \in 1..n : Began(d, s) =>
             open[d] # NoEvent /\ open[d] = RunEvent(seen, d, <<s, n>>)
        /\ open[d] # NoEvent => \E s \in 1..n : Began(d, s)
  BY <1>0, <1>1, OpenIfBegan
<1>9. ASSUME NEW x \in closed'
      PROVE  \E d \in Directions : \E s, e \in 1..n : IsRun(d, s, e)' /\ x = EventOf(d, s, e)'
  <2>1. CASE x \in closed
    BY <1>3, <1>5, <1>7, <2>1
  <2>2. CASE x \notin closed
    <3>1. PICK d \in Directions : open[d] # NoEvent /\ x = Close(d, open[d], t)
      BY <1>1, <2>2
    <3>2. PICK s \in 1..n : Began(d, s) /\ open[d] = RunEvent(seen, d, <<s, n>>)
      BY <1>8, <3>1
    <3>3. n \in 1..n /\ IsRun(d, s, n)' /\ x = EventOf(d, s, n)'
      BY <1>3, <1>4, <1>6, <3>1, <3>2
    <3>4. QED
      BY <3>3
  <2>3. QED
    BY <2>1, <2>2
<1>10. ASSUME NEW d \in Directions, NEW s \in 1..n, NEW e \in 1..n, IsRun(d, s, e)'
       PROVE  EventOf(d, s, e)' \in closed'
  <2>1. CASE e < n
    BY <1>1, <1>3, <1>5, <1>7, <1>10, <2>1
  <2>2. CASE e = n
    <3>1. Began(d, s)
      BY <1>3, <1>4, <1>10, <2>2
    <3>2. open[d] # NoEvent /\ open[d] = RunEvent(seen, d, <<s, n>>)
      BY <1>8, <3>1
    <3>3. Close(d, open[d], t) \in closed'
      BY <1>1, <3>2
    <3>4. EventOf(d, s, n)' = Close(d, open[d], t)
      BY <1>6, <3>2
    <3>5. QED
      BY <2>2, <3>3, <3>4
  <2>3. QED
    BY <2>1, <2>2
<1>11. EventsOfRuns'
  BY <1>0, <1>1, <1>9, <1>10 DEF EventsOfRuns
<1>12. OpenIsRun'
  BY <1>1 DEF OpenIsRun
<1>13. QED
  BY <1>1, <1>11, <1>12, ClosedByRunNext DEF Tracked

(* A new tracker has seen nothing. *)
LEMMA FreshTracked ==
  ASSUME NEW limit, NEW t, Fresh(limit, t)
  PROVE  Tracked'
<1>1. /\ task' = "running" /\ seen' = <<>> /\ closed' = {} /\ Len(seen') = 0
      /\ open' = [d \in Directions |-> NoEvent]
  BY DEF Fresh
<1>2. \A d, i : ~ActiveAt(d, i)'
  BY <1>1 DEF ActiveAt
<1>3. PeaksExist(seen') /\ OpenIsRun' /\ EventsOfRuns'
  BY <1>1, <1>2 DEF PeaksExist, OpenIsRun, EventsOfRuns
<1>4. QED
  BY <1>1, <1>3, ClosedByRunNext DEF Tracked

(* A fresh tracker has no event and has seen no tick. *)
LEMMA InitTracked == HistoryInit => Tracked
<1> SUFFICES ASSUME HistoryInit PROVE Tracked
  OBVIOUS
<1>1. /\ task = "running" /\ seen = <<>> /\ closed = {} /\ Len(seen) = 0
      /\ open = [d \in Directions |-> NoEvent]
  BY DEF HistoryInit, Init
<1>2. \A d, i : ~ActiveAt(d, i)
  BY <1>1 DEF ActiveAt
<1>3. PeaksExist(seen) /\ OpenIsRun /\ EventsOfRuns
  BY <1>1, <1>2 DEF PeaksExist, OpenIsRun, EventsOfRuns
<1>4. QED
  BY <1>1, <1>3, ClosedByRun DEF Tracked

(* The rows of every tick, live or replayed, are the spreads of a cache. *)
LEMMA TicksAreOutcomes ==
  ASSUME Inv, EventTick \/ BacktestTick
  PROVE  \E rows \in Outcomes, t \in Nat : Tick(rows, t)
<1>1. CASE EventTick
  <2>1. /\ Tick(ComputeAll(cache, now + 1), now + 1)
        /\ cache \in Caches /\ now + 1 \in Nat
    BY <1>1 DEF EventTick, Inv, HistoryTypes
  <2>2. QED
    BY <2>1 DEF Outcomes
<1>2. CASE BacktestTick
  <2>1. /\ samples \in Seq(Samples) /\ Len(seen) + 1 \in 1..Len(samples) /\ cache \in Caches
    BY <1>2 DEF BacktestTick, Inv, HistoryTypes
  <2>2. PICK tick \in Samples : tick = samples[Len(seen) + 1]
    BY <2>1, SampleType
  <2>3. PICK rows : rows = [e \in Exchanges |-> IF e \in tick.kept THEN tick.quotes[e] ELSE cache[e]]
    OBVIOUS
  <2>4. rows \in Caches /\ tick.at \in Nat
    BY <2>1, <2>2, <2>3 DEF Caches, Samples
  <2>5. Tick(ComputeAll(rows, tick.at), tick.at)
    BY <1>2, <2>2, <2>3 DEF BacktestTick, Replayed
  <2>6. QED
    BY <2>4, <2>5 DEF Outcomes
<1>3. QED
  BY <1>1, <1>2

(* Live or replayed, every step keeps the events those of the runs. *)
LEMMA NextTracked == Inv /\ Tracked /\ [Next]_vars => Tracked'
<1> SUFFICES ASSUME Inv, Tracked, [Next]_vars PROVE Tracked'
  OBVIOUS
<1>1. seen \in Seq(Ticks) /\ now \in Nat
  BY DEF Inv, HistoryTypes
<1>2. CASE EventTick \/ BacktestTick
  BY <1>1, <1>2, TicksAreOutcomes, TickKeepsTracked
<1>3. CASE EventTickFails
  BY <1>3, MomentKeepsTracked DEF EventTickFails
<1>4. CASE QuotesArrive \/ Sample \/ UNCHANGED vars
  BY <1>4, MomentKeepsTracked DEF QuotesArrive, Sample, vars, trackerVars
<1>5. CASE Stop \/ EndBacktest
  <2>1. \E t \in Nat : Flush(t)
    <3>1. Flush(now) \/ Flush(now + 1)
      BY <1>5 DEF Stop, EndBacktest
    <3>2. now + 1 \in Nat
      BY <1>1
    <3>3. QED
      BY <1>1, <3>1, <3>2
  <2>2. QED
    BY <1>1, <2>1, FlushKeepsTracked
<1>6. CASE StartBacktest
  BY <1>6, FreshTracked DEF StartBacktest
<1>7. QED
  BY <1>2, <1>3, <1>4, <1>5, <1>6 DEF Next

LEMMA TrackedOpen ==
  ASSUME seen \in Seq(Ticks), Tracked
  PROVE  OpenAreRuns
<1>0. PICK n \in Nat : n = Len(seen)
  OBVIOUS
<1> SUFFICES ASSUME NEW d \in Directions
             PROVE  LET last == {r \in Runs(d) : ~Ended(r)}
                    IN  IF last = {} THEN open[d] = NoEvent
                                     ELSE \E r \in last : open[d] = RunEvent(seen, d, r)
  BY DEF OpenAreRuns
<1> DEFINE last == {r \in Runs(d) : ~Ended(r)}
<1>1. \A r \in last : task = "running" /\ r = <<r[1], n>> /\ r[1] \in 1..n /\ ActiveAt(d, n)
  <2> SUFFICES ASSUME NEW r \in last
               PROVE  task = "running" /\ r = <<r[1], n>> /\ r[1] \in 1..n /\ ActiveAt(d, n)
    OBVIOUS
  <2>1. /\ r \in (1..n) \X (1..n) /\ r[1] <= r[2] /\ \A i \in r[1]..r[2] : ActiveAt(d, i)
    BY <1>0 DEF Runs
  <2>2. task = "running" /\ ~(r[2] < n)
    BY <1>0 DEF Ended, Tracked
  <2>3. r[1] \in 1..n /\ r[2] = n /\ r = <<r[1], r[2]>> /\ n \in r[1]..r[2]
    BY <2>1, <2>2
  <2>4. QED
    BY <2>1, <2>2, <2>3
<1>2. CASE task = "running" /\ ActiveAt(d, n)
  <2>1. PICK s \in 1..n : Began(d, s) /\ open[d] = RunEvent(seen, d, <<s, n>>)
    BY <1>0, <1>2 DEF Tracked, OpenIsRun
  <2>2. s <= n /\ n \in 1..n /\ ~ActiveAt(d, n + 1)
    BY <1>0 DEF ActiveAt
  <2>3. <<s, n>> \in Runs(d)
    BY <1>0, <2>1, <2>2 DEF Runs, Began
  <2>4. ~Ended(<<s, n>>)
    BY <1>0, <1>2 DEF Ended
  <2>5. QED
    BY <2>1, <2>3, <2>4
<1>3. CASE ~(task = "running" /\ ActiveAt(d, n))
  <2>1. open[d] = NoEvent
    BY <1>0, <1>3 DEF Tracked, OpenIsRun
  <2>2. last = {}
    BY <1>1, <1>3
  <2>3. QED
    BY <2>1, <2>2
<1>4. QED
  BY <1>2, <1>3

-----------------------------------------------------------------------------
(* A backtest sees at each moment whose rows it has exactly the spreads    *)
(* that were live then, whatever rows were lost before, whatever was stale *)
(* and wherever the limit cut.                                             *)
THEOREM BacktestSeesWhatWasLive == Spec => []ReplayIsLive
<1>1. Inv => ReplayIsLive
  BY DEF Inv
<1>2. QED
  BY InitInv, NextInv, <1>1, PTL DEF Spec

(* A spread that is shown as valid, live or replayed, was made of two      *)
(* quotes that arrived within the allowed age and are close enough in      *)
(* exchange time.                                                          *)
THEOREM ValidAlwaysFresh == Spec => []ValidIsFresh
<1>1. Inv => ValidIsFresh
  BY DEF Inv
<1>2. QED
  BY InitInv, NextInv, <1>1, PTL DEF Spec
(* The events of a detector are exactly the maximal stretches of ticks at  *)
(* which a direction was valid and at or above the threshold, whatever     *)
(* rows come and go, whatever iterations raise and however many there are: *)
(* none is split, merged, cut short or lost at the end, live and in a      *)
(* backtest alike.                                                         *)
THEOREM EventsAlwaysRuns == Spec => []ClosedAreRuns
<1>1. Inv /\ Tracked => ClosedAreRuns
  BY DEF Tracked
<1>2. QED
  BY InitInv, NextInv, InitTracked, NextTracked, <1>1, PTL DEF Spec

(* An event is open exactly while the stretch it reports still goes on,    *)
(* with the values of that stretch so far.                                 *)
THEOREM OpenAlwaysRuns == Spec => []OpenAreRuns
<1>1. Inv /\ Tracked => OpenAreRuns
  BY TrackedOpen DEF Inv, HistoryTypes
<1>2. QED
  BY InitInv, NextInv, InitTracked, NextTracked, <1>1, PTL DEF Spec
=============================================================================
