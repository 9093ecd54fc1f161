------------------------------ MODULE QuoteFeed ------------------------------
(***************************************************************************)
(* How one quote of one exchange reaches the quote cache: the connection   *)
(* loop of BaseWsAdapter (exchanges/base_ws.py), the stateful Bybit        *)
(* normalizer (normalizer/bybit.py) and the sequence guard of QuoteCache   *)
(* (quote_cache/cache.py), against an exchange that numbers its updates,   *)
(* may lose the connection at any point and may restart its numbering.     *)
(* Symbols do not interact, so one symbol stands for all of them.          *)
(*                                                                         *)
(* Operators marked "Fault" are mutated forms of the one that follows      *)
(* them; they show which property notices the bug and occur nowhere else.  *)
(***************************************************************************)
EXTENDS Naturals, Sequences

CONSTANTS
  Levels,        (* the levels (price and quantity) a side may show        *)
  NoLevel,       (* an empty side                                          *)
  NoChange,      (* a side a delta does not mention                        *)
  NoQuote,       (* nothing cached yet                                     *)
  InitialDelay,  (* websocket.reconnect_initial_delay_s                    *)
  MaxDelay,      (* websocket.reconnect_max_delay_s                        *)
  MaxUpdates,    (* bound: book changes at the exchange                    *)
  MaxReconnects, (* bound: reconnections of the adapter                    *)
  MaxRestarts,   (* bound: times the exchange restarts its numbering       *)
  MaxBroken      (* bound: messages that fail to parse                     *)

ASSUME LevelsAssumption ==
  /\ NoLevel \notin Levels /\ NoChange \notin Levels
  /\ NoLevel # NoChange
ASSUME DelayAssumption ==
  /\ InitialDelay \in Nat \ {0} /\ MaxDelay \in Nat
  /\ InitialDelay <= MaxDelay
ASSUME FeedBoundsAssumption ==
  /\ MaxUpdates \in Nat /\ MaxReconnects \in Nat
  /\ MaxRestarts \in Nat /\ MaxBroken \in Nat

VARIABLES
  (* the exchange *)
  book,       (* its top of book                                           *)
  useq,       (* the update number `u` of that book                        *)
  clock,      (* history: book changes so far, never restarted             *)
  session,    (* its side of the connection                                *)
  stream,     (* messages sent on the connection and not yet received      *)
  restarts,   (* times the numbering was restarted                         *)
  broken,     (* messages that failed to parse                             *)
  (* the adapter *)
  pc,         (* where BaseWsAdapter._run is suspended                     *)
  stopping,   (* _stopping                                                 *)
  status,     (* _status, which _set_status copies to the cache            *)
  reconnects, (* _reconnect_count                                          *)
  delay,      (* the local `delay` of _run                                 *)
  norm,       (* BybitBookNormalizer: the sides, `symbol in _sequences`    *)
  snapped,    (* history: a snapshot was applied on this connection        *)
  (* the cache *)
  quote       (* QuoteCache._quotes of this exchange and symbol            *)

exchange == <<book, useq, clock, restarts>>
adapter == <<stopping, status, reconnects, delay>>
local == <<norm, snapped>>
vars == <<exchange, session, stream, broken, pc, adapter, local, quote>>

Sides == Levels \cup {NoLevel}
Books == [bid : Sides, ask : Sides]
(* What a message says, with the book it was sent for as ghost fields. *)
Messages == [type : {"snapshot", "delta"},
             bid : Sides \cup {NoChange}, ask : Sides \cup {NoChange},
             u : Nat, at : Nat, top : Books]
Quotes == [bid : Levels, ask : Levels, sequence : Nat, at : Nat, top : Books]

(* pc: no task; in websockets.connect; in _send_subscriptions; in ws.recv; *)
(* sleeping before a reconnect; returned.                                  *)
Phases == {"none", "dialing", "subscribing", "receiving", "backoff", "ended"}
(* session: no connection; accepted; subscribed, snapshot due; streaming;  *)
(* gone (closed, or silently dead).                                        *)
Sessions == {"none", "open", "subscribed", "streaming", "gone"}

TypeOK ==
  /\ book \in Books /\ useq \in Nat /\ clock \in 0..MaxUpdates
  /\ session \in Sessions /\ stream \in Seq(Messages)
  /\ restarts \in 0..MaxRestarts /\ broken \in 0..MaxBroken
  /\ pc \in Phases /\ stopping \in BOOLEAN
  /\ status \in {"CONNECTING", "CONNECTED", "RECONNECTING", "DISCONNECTED"}
  /\ reconnects \in 0..MaxReconnects /\ delay \in InitialDelay..MaxDelay
  /\ norm \in [bid : Sides, ask : Sides, seen : BOOLEAN] /\ snapped \in BOOLEAN
  /\ quote \in Quotes \cup {NoQuote}

EmptyNorm == [bid |-> NoLevel, ask |-> NoLevel, seen |-> FALSE]

Init ==
  /\ book \in [bid : Levels, ask : Levels] /\ useq = 1 /\ clock = 0
  /\ session = "none" /\ stream = <<>> /\ restarts = 0 /\ broken = 0
  /\ pc = "none" /\ stopping = FALSE /\ status = "DISCONNECTED"
  /\ reconnects = 0 /\ delay = InitialDelay
  /\ norm = EmptyNorm /\ snapped = FALSE /\ quote = NoQuote

-----------------------------------------------------------------------------
(* The exchange.                                                           *)

Snapshot(b, u, n) ==
  [type |-> "snapshot", bid |-> b.bid, ask |-> b.ask, u |-> u, at |-> n, top |-> b]

Delta(old, new, u, n) ==
  [type |-> "delta",
   bid |-> IF new.bid = old.bid THEN NoChange ELSE new.bid,
   ask |-> IF new.ask = old.ask THEN NoChange ELSE new.ask,
   u |-> u, at |-> n, top |-> new]

(* A subscription is answered by a snapshot. *)
ExchangeSnapshot ==
  /\ session = "subscribed"
  /\ session' = "streaming"
  /\ stream' = Append(stream, Snapshot(book, useq, clock))
  /\ UNCHANGED <<exchange, broken, pc, adapter, local, quote>>

(* A book change is sent as a delta, or as a snapshot, to a subscriber.    *)
ExchangeUpdate ==
  /\ clock < MaxUpdates
  /\ \E new \in Books \ {book} :
       /\ book' = new
       /\ useq' = useq + 1
       /\ clock' = clock + 1
       /\ IF session = "streaming"
            THEN \E m \in {Delta(book, new, useq', clock'), Snapshot(new, useq', clock')} :
                   stream' = Append(stream, m)
            ELSE UNCHANGED stream
  /\ UNCHANGED <<session, restarts, broken, pc, adapter, local, quote>>

(* The service restarts: numbering starts again and connections are lost. *)
ExchangeRestart ==
  /\ restarts < MaxRestarts
  /\ reconnects < MaxReconnects
  /\ restarts' = restarts + 1
  /\ useq' = 1
  /\ session' = IF session = "none" THEN "none" ELSE "gone"
  /\ UNCHANGED <<book, clock, stream, broken, pc, adapter, local, quote>>

LinkLost ==
  /\ session \in {"open", "subscribed", "streaming"}
  /\ reconnects < MaxReconnects
  /\ session' = "gone"
  /\ UNCHANGED <<exchange, stream, broken, pc, adapter, local, quote>>

-----------------------------------------------------------------------------
(* The connection loop.                                                    *)

Least(a, b) == IF a < b THEN a ELSE b

(* connect(), called once by the lifespan, creates the task, which enters  *)
(* its loop.                                                               *)
Connect ==
  /\ pc = "none"
  /\ ~stopping
  /\ pc' = "dialing"
  /\ delay' = InitialDelay
  /\ status' = IF reconnects > 0 THEN "RECONNECTING" ELSE "CONNECTING"
  /\ UNCHANGED <<exchange, session, stream, broken, stopping, reconnects, local, quote>>

(* Fault: the local state survives the reconnect. *)
DialOkNoReset ==
  /\ pc = "dialing"
  /\ pc' = "subscribing"
  /\ session' = "open"
  /\ stream' = <<>>
  /\ snapped' = FALSE
  /\ UNCHANGED <<exchange, broken, adapter, norm, quote>>

(* The connection is accepted: on_reconnect() clears the normalizer. *)
DialOk ==
  /\ pc = "dialing"
  /\ pc' = "subscribing"
  /\ session' = "open"
  /\ stream' = <<>>
  /\ norm' = EmptyNorm
  /\ snapped' = FALSE
  /\ UNCHANGED <<exchange, broken, adapter, quote>>

(* The loop test of _recv_loop: when stopping, _recv_loop and _run return. *)
NextRecv == IF stopping THEN "ended" ELSE "receiving"

(* ws.send() of each subscription succeeds, on a connection that works or  *)
(* on one that is silently dead.                                           *)
Subscribed ==
  /\ pc = "subscribing"
  /\ session' = IF session = "open" THEN "subscribed" ELSE "gone"
  /\ pc' = NextRecv
  /\ status' = "CONNECTED"
  /\ delay' = InitialDelay
  /\ UNCHANGED <<exchange, stream, broken, stopping, reconnects, local, quote>>

(* The tail of an iteration of _run: with _stopping set the loop is left,  *)
(* otherwise the adapter sleeps before it dials again.                     *)
LeaveOrBackOff ==
  /\ session' = "none"
  /\ stream' = <<>>
  /\ IF stopping
       THEN pc' = "ended" /\ UNCHANGED <<status, reconnects>>
       ELSE /\ pc' = "backoff"
            /\ reconnects < MaxReconnects
            /\ reconnects' = reconnects + 1
            /\ status' = "RECONNECTING"
  /\ UNCHANGED <<exchange, broken, stopping, delay, local, quote>>

DialFails == pc = "dialing" /\ LeaveOrBackOff

(* It raises: the connection is closed. *)
SubscribeFails == pc = "subscribing" /\ session = "gone" /\ LeaveOrBackOff

(* Fault: recv() has no timeout, so a silent connection is never left. *)
RecvFailsNoTimeout ==
  pc = "receiving" /\ stream = <<>> /\ session # "gone" /\ LeaveOrBackOff

(* recv() raises once the buffer is empty: the connection is closed, or    *)
(* nothing arrived for message_timeout_s (the link is dead, or only quiet). *)
RecvFails == pc = "receiving" /\ stream = <<>> /\ LeaveOrBackOff

(* Fault: the delay grows without bound. *)
BackoffOverUncapped ==
  /\ pc = "backoff"
  /\ pc' = "dialing"
  /\ delay' = 2 * delay
  /\ UNCHANGED <<exchange, session, stream, broken, stopping, status, reconnects,
                 local, quote>>

BackoffOver ==
  /\ pc = "backoff"
  /\ pc' = "dialing"
  /\ delay' = Least(2 * delay, MaxDelay)
  /\ UNCHANGED <<exchange, session, stream, broken, stopping, status, reconnects,
                 local, quote>>

-----------------------------------------------------------------------------
(* handle_message: BybitBookNormalizer.handle, then QuoteCache.update.     *)

(* Fault: an empty list in a snapshot leaves the side alone. *)
ApplySideKeepsEmpty(old, new) ==
  IF new \in {NoChange, NoLevel} THEN old ELSE new

ApplySide(old, new) == IF new = NoChange THEN old ELSE new

Normalize(n, m) ==
  IF m.type = "delta" /\ ~n.seen
    THEN n
    ELSE [bid |-> ApplySide(n.bid, m.bid), ask |-> ApplySide(n.ask, m.ask),
          seen |-> TRUE]

Complete(n) == n.seen /\ n.bid # NoLevel /\ n.ask # NoLevel

QuoteOf(n, m) ==
  [bid |-> n.bid, ask |-> n.ask, sequence |-> m.u, at |-> m.at, top |-> m.top]

(* Fault: only the direct successor of the cached update is accepted. *)
CacheUpdateContiguous(q) ==
  quote' = IF quote = NoQuote \/ q.sequence \in {quote.sequence, quote.sequence + 1}
             THEN q ELSE quote

CacheUpdate(q) ==
  quote' = IF quote # NoQuote /\ q.sequence < quote.sequence THEN quote ELSE q

HandleMessage ==
  /\ pc = "receiving"
  /\ stream # <<>>
  /\ stream' = Tail(stream)
  /\ norm' = Normalize(norm, Head(stream))
  /\ snapped' = (snapped \/ Head(stream).type = "snapshot")
  /\ IF Complete(norm') /\ ~(Head(stream).type = "delta" /\ ~norm.seen)
       THEN CacheUpdate(QuoteOf(norm', Head(stream)))
       ELSE UNCHANGED quote
  /\ pc' = NextRecv
  /\ UNCHANGED <<exchange, session, broken, adapter>>

(* parse() raises: the message is skipped, at once, with its bid side      *)
(* already applied (the ask side is malformed), or with both sides applied *)
(* (NormalizedQuote refuses the values).                                   *)
HandleBroken ==
  /\ pc = "receiving"
  /\ stream # <<>>
  /\ broken < MaxBroken
  /\ broken' = broken + 1
  /\ stream' = Tail(stream)
  /\ \/ UNCHANGED local
     \/ /\ Head(stream).type = "snapshot" \/ norm.seen
        /\ norm' = [norm EXCEPT !.bid = ApplySide(@, Head(stream).bid)]
        /\ UNCHANGED snapped
     \/ /\ norm' = Normalize(norm, Head(stream))
        /\ snapped' = (snapped \/ Head(stream).type = "snapshot")
  /\ pc' = NextRecv
  /\ UNCHANGED <<exchange, session, adapter, quote>>

-----------------------------------------------------------------------------
(* disconnect() sets _stopping and closes the socket, and meanwhile the    *)
(* task may go on; with no socket it cancels the task at once.             *)
DisconnectCall ==
  /\ ~stopping
  /\ pc # "none"
  /\ stopping' = TRUE
  /\ IF session = "none"
       THEN pc' = "ended" /\ UNCHANGED session
       ELSE session' = "gone" /\ UNCHANGED pc
  /\ UNCHANGED <<exchange, stream, broken, status, reconnects, delay, local, quote>>

(* Fault: the last status is the one the task has set. *)
DisconnectReturnKeepsStatus ==
  /\ stopping
  /\ pc # "none"
  /\ pc' = "none"
  /\ session' = "none"
  /\ stream' = <<>>
  /\ UNCHANGED <<exchange, broken, adapter, local, quote>>

(* The task is cancelled wherever it is suspended, and awaited. *)
DisconnectReturn ==
  /\ stopping
  /\ pc # "none"
  /\ pc' = "none"
  /\ status' = "DISCONNECTED"
  /\ session' = "none"
  /\ stream' = <<>>
  /\ UNCHANGED <<exchange, broken, stopping, reconnects, delay, local, quote>>

-----------------------------------------------------------------------------
Exchange == ExchangeSnapshot \/ ExchangeUpdate \/ ExchangeRestart \/ LinkLost
Loop == Connect \/ DialOk \/ DialFails \/ Subscribed \/ SubscribeFails
          \/ RecvFails \/ BackoffOver
Handle == HandleMessage \/ HandleBroken
Disconnect == DisconnectCall \/ DisconnectReturn

Next == Exchange \/ Loop \/ Handle \/ Disconnect

Spec == Init /\ [][Next]_vars

(* The event loop runs the adapter; a subscribed exchange sends its        *)
(* snapshot; a dial is answered; silence on a dead link is timed out; and  *)
(* ws.close() has a timeout of its own.                                    *)
FeedFairness ==
  /\ WF_vars(Connect) /\ WF_vars(DialOk \/ DialFails)
  /\ WF_vars(Subscribed \/ SubscribeFails)
  /\ WF_vars(RecvFails /\ session = "gone")
  /\ WF_vars(BackoffOver) /\ WF_vars(Handle)
  /\ WF_vars(ExchangeSnapshot)
  /\ WF_vars(DisconnectReturn)

LiveSpec == Spec /\ FeedFairness

-----------------------------------------------------------------------------
(* Properties.                                                             *)

(* As long as every message could be parsed, a cached quote shows a bid    *)
(* and an ask that the exchange had at the same time: the two sides never  *)
(* come from different updates, across deltas, emptied sides, reconnects   *)
(* and restarts of the exchange.  The code does not notice a missing       *)
(* number, so after a broken message a mixed quote is possible.            *)
QuoteWasReal ==
  broken = 0 /\ quote # NoQuote =>
    quote.bid = quote.top.bid /\ quote.ask = quote.top.ask

(* A message of the live connection that completes a two-sided book is not *)
(* dropped in favour of an older one: the guard of QuoteCache.update only  *)
(* rejects what is out of order.  It compares numbers across connections,  *)
(* so this needs an exchange that never restarts its numbering.            *)
OnlyOldDropped ==
  [][ restarts = 0 /\ pc = "receiving" /\ pc' # "none" /\ stream # <<>> /\ stream' = Tail(stream)
        /\ broken' = broken /\ Complete(norm')
        => quote'.at >= Head(stream).at ]_vars

(* A connection that is closed or silently dead does not stay in use. *)
LossNoticed == session = "gone" ~> session # "gone"

(* disconnect() ends the adapter for good, whichever step it meets the     *)
(* task in: while the socket closes the task may still subscribe, handle   *)
(* messages, raise and set its status, but nothing of that remains         *)
(* (base_ws.py:80).                                                        *)
DisconnectFinal ==
  <>[](stopping => pc = "none" /\ status = "DISCONNECTED" /\ session = "none")

(* After a reconnect nothing is cached before a snapshot of the new        *)
(* connection has been applied, even when that snapshot was broken.        *)
SnapshotFirst == [][ quote' # quote => snapped' ]_vars

(* Once the exchange has stopped changing and failures have stopped, the   *)
(* cache holds its last two-sided book, under the same two conditions.     *)
FeedCatchesUp ==
  <>[](restarts = 0 /\ broken = 0 /\ ~stopping
         /\ Complete([bid |-> book.bid, ask |-> book.ask, seen |-> TRUE])
         => quote # NoQuote /\ quote.at = clock)
=============================================================================
