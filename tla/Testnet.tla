------------------------------- MODULE Testnet -------------------------------
(***************************************************************************)
(* BinanceTestnetClient (testnet/binance.py): signed requests with a retry *)
(* loop, and create_order() with a cache of results per client order id.   *)
(*                                                                         *)
(* A call is one invocation of create_order ("POST"), cancel_order         *)
(* ("DELETE") or get_order_status ("GET"); its only suspension points are  *)
(* the HTTP request and the backoff, so an action is the code between two  *)
(* of them.  A call without an identifier raises before anything happens   *)
(* and is left out; an id made by uuid4() is one that no other call uses.  *)
(*                                                                         *)
(* The exchange and the network are external: an attempt may be handled    *)
(* late, after the client has given up on it, or never.                    *)
(***************************************************************************)
EXTENDS Integers, Sequences, FiniteSets

CONSTANTS
  OrderCalls,  (* invocations of create_order                              *)
  OtherCalls,  (* invocations of get_order_status and cancel_order         *)
  Ids,         (* client order ids                                         *)
  MaxRetries,  (* max_retries                                              *)
  None

ASSUME RetriesAssumption == MaxRetries \in Nat
ASSUME CallsAssumption == OrderCalls \cap OtherCalls = {}
ASSUME IdsAssumption == Ids # {}

VARIABLES
  call,    (* per call: where it is suspended or how it ended              *)
  cache,   (* _idempotency_cache: the order a client order id was given    *)
  closed,  (* aclose() was called                                          *)
  wire,    (* attempts sent and not handled by the exchange: <<call, attempt>> *)
  answer,  (* per call: the answer on its way to the attempt that waits    *)
  orders,  (* the exchange's orders, numbered as they were placed          *)
  doubtful,(* history, per id: order attempts that ended without a verdict *)
  overlaps (* history, per id: order calls begun while another was running *)

vars == <<call, cache, closed, wire, answer, orders, doubtful, overlaps>>

Calls == OrderCalls \cup OtherCalls
MethodsOf(c) == IF c \in OrderCalls THEN {"POST"} ELSE {"GET", "DELETE"}
Ended == {"returned", "rejected", "retryable", "failed"}
Methods == {"POST", "GET", "DELETE"}
Statuses == {"NEW", "CANCELED"}
OrderNos == 0..Len(orders)
Answers == [code : {"2xx", "4xx", "5xx"}, order : OrderNos]

TypeOK ==
  /\ call \in [Calls -> [pc : {"idle", "waiting", "backoff"} \cup Ended,
                         method : Methods, id : Ids, attempt : 0..MaxRetries,
                         result : OrderNos]]
  /\ cache \in [Ids -> OrderNos]
  /\ closed \in BOOLEAN
  /\ wire \subseteq Calls \X (0..MaxRetries)
  /\ answer \in [Calls -> Answers \cup {None}]
  /\ orders \in Seq([id : Ids, status : Statuses])
  /\ doubtful \in [Ids -> Nat] /\ overlaps \in [Ids -> Nat]

Init ==
  /\ call = [c \in Calls |-> [pc |-> "idle", method |-> "POST",
                              id |-> CHOOSE i \in Ids : TRUE,
                              attempt |-> 0, result |-> 0]]
  /\ cache = [i \in Ids |-> 0]
  /\ closed = FALSE
  /\ wire = {}
  /\ answer = [c \in Calls |-> None]
  /\ orders = <<>>
  /\ doubtful = [i \in Ids |-> 0]
  /\ overlaps = [i \in Ids |-> 0]

-----------------------------------------------------------------------------
Running(c) == call[c].pc \in {"waiting", "backoff"}

(* Order calls of an id that have begun and not ended. *)
Placing(i) == {c \in Calls : Running(c) /\ call[c].method = "POST" /\ call[c].id = i}

OrdersOf(i) == {n \in DOMAIN orders : orders[n].id = i}

(* An attempt is sent by a client that is open; a closed one raises.       *)
Send(c, method, i, attempt) ==
  LET at(pc) == [pc |-> pc, method |-> method, id |-> i,
                 attempt |-> attempt, result |-> 0]
  IN  IF closed
      THEN call' = [call EXCEPT ![c] = at("failed")] /\ UNCHANGED wire
      ELSE /\ call' = [call EXCEPT ![c] = at("waiting")]
           /\ wire' = wire \cup {<<c, attempt>>}

(* create_order() of an id whose result is known sends nothing. *)
RepeatKnown(c, i) ==
  /\ call[c].pc = "idle" /\ c \in OrderCalls
  /\ cache[i] # 0
  /\ call' = [call EXCEPT ![c] = [pc |-> "returned", method |-> "POST", id |-> i,
                                  attempt |-> 0, result |-> cache[i]]]
  /\ UNCHANGED <<cache, closed, wire, answer, orders, doubtful, overlaps>>

(* Fault: the cache is not looked at. *)
BeginUnchecked(c, method, i) ==
  /\ call[c].pc = "idle" /\ method \in MethodsOf(c)
  /\ Send(c, method, i, 0)
  /\ overlaps' = IF method = "POST" /\ Placing(i) # {}
                 THEN [overlaps EXCEPT ![i] = @ + 1] ELSE overlaps
  /\ UNCHANGED <<cache, closed, answer, orders, doubtful>>

(* The three methods up to their first request. *)
Begin(c, method, i) ==
  /\ call[c].pc = "idle" /\ method \in MethodsOf(c)
  /\ method = "POST" => cache[i] = 0
  /\ Send(c, method, i, 0)
  /\ overlaps' = IF method = "POST" /\ Placing(i) # {}
                 THEN [overlaps EXCEPT ![i] = @ + 1] ELSE overlaps
  /\ UNCHANGED <<cache, closed, answer, orders, doubtful>>

(* Fault: the loop starts again after each failure. *)
BackOffForever(c) ==
  call' = [call EXCEPT ![c].pc = "backoff", ![c].attempt = 0 - 1]

(* An attempt ended by a transport error or a 5xx: back off, or give up    *)
(* after the last one.                                                     *)
BackOff(c) ==
  call' = [call EXCEPT ![c].pc = IF call[c].attempt = MaxRetries
                                 THEN "retryable" ELSE "backoff"]

(* The caller of an attempt that ends so does not know of an order placed. *)
Doubt(c) ==
  doubtful' = IF call[c].method = "POST"
              THEN [doubtful EXCEPT ![call[c].id] = @ + 1] ELSE doubtful

(* httpx.TransportError: the connection failed or nothing came in time.    *)
(* The attempt may still reach the exchange; for a query that is no matter. *)
TransportError(c) ==
  /\ call[c].pc = "waiting"
  /\ BackOff(c)
  /\ Doubt(c)
  /\ answer' = [answer EXCEPT ![c] = None]
  /\ wire' = IF call[c].method = "GET" THEN wire \ {<<c, call[c].attempt>>} ELSE wire
  /\ UNCHANGED <<cache, closed, orders, overlaps>>

(* The end of _sleep_backoff() and the next attempt. *)
Retry(c) ==
  /\ call[c].pc = "backoff"
  /\ Send(c, call[c].method, call[c].id, call[c].attempt + 1)
  /\ UNCHANGED <<cache, closed, answer, orders, doubtful, overlaps>>

ServerError(c) ==
  /\ call[c].pc = "waiting" /\ answer[c] # None /\ answer[c].code = "5xx"
  /\ BackOff(c)
  /\ Doubt(c)
  /\ answer' = [answer EXCEPT ![c] = None]
  /\ UNCHANGED <<cache, closed, wire, orders, overlaps>>

Rejected(c) ==
  /\ call[c].pc = "waiting" /\ answer[c] # None /\ answer[c].code = "4xx"
  /\ call' = [call EXCEPT ![c].pc = "rejected"]
  /\ answer' = [answer EXCEPT ![c] = None]
  /\ UNCHANGED <<cache, closed, wire, orders, doubtful, overlaps>>

(* response.json() or _parse_order() raises on the body of a 2xx: the call *)
(* ends by that exception, and an order that was placed is not remembered. *)
Unreadable(c) ==
  /\ call[c].pc = "waiting" /\ answer[c] # None /\ answer[c].code = "2xx"
  /\ call' = [call EXCEPT ![c].pc = "failed"]
  /\ Doubt(c)
  /\ answer' = [answer EXCEPT ![c] = None]
  /\ UNCHANGED <<cache, closed, wire, orders, overlaps>>

(* Fault: the answer's code is not looked at. *)
AcceptedAnyCode(c) ==
  /\ call[c].pc = "waiting" /\ answer[c] # None
  /\ call' = [call EXCEPT ![c].pc = "returned", ![c].result = answer[c].order]
  /\ cache' = IF call[c].method = "POST"
              THEN [cache EXCEPT ![call[c].id] = answer[c].order] ELSE cache
  /\ answer' = [answer EXCEPT ![c] = None]
  /\ UNCHANGED <<closed, wire, orders, doubtful, overlaps>>

(* Fault: an order is remembered only by a retry. *)
AcceptedForgets(c) ==
  /\ call[c].pc = "waiting" /\ answer[c] # None /\ answer[c].code = "2xx"
  /\ call' = [call EXCEPT ![c].pc = "returned", ![c].result = answer[c].order]
  /\ cache' = IF call[c].method = "POST" /\ call[c].attempt > 0
              THEN [cache EXCEPT ![call[c].id] = answer[c].order] ELSE cache
  /\ answer' = [answer EXCEPT ![c] = None]
  /\ UNCHANGED <<closed, wire, orders, doubtful, overlaps>>

(* The parsed order is the result; create_order() also remembers it.       *)
Accepted(c) ==
  /\ call[c].pc = "waiting" /\ answer[c] # None /\ answer[c].code = "2xx"
  /\ call' = [call EXCEPT ![c].pc = "returned", ![c].result = answer[c].order]
  /\ cache' = IF call[c].method = "POST"
              THEN [cache EXCEPT ![call[c].id] = answer[c].order] ELSE cache
  /\ answer' = [answer EXCEPT ![c] = None]
  /\ UNCHANGED <<closed, wire, orders, doubtful, overlaps>>

(* aclose(): requests in flight fail with a transport error. *)
Close ==
  /\ ~closed
  /\ closed' = TRUE
  /\ UNCHANGED <<call, cache, wire, answer, orders, doubtful, overlaps>>

-----------------------------------------------------------------------------
(* The exchange (external).                                                *)

(* Attempt n of call c is handled: the answer reaches the client if it     *)
(* still waits for this attempt.                                           *)
Handle(c, n, ans) ==
  /\ <<c, n>> \in wire
  /\ wire' = wire \ {<<c, n>>}
  /\ answer' = IF call[c].pc = "waiting" /\ call[c].attempt = n
               THEN [answer EXCEPT ![c] = ans] ELSE answer
  /\ UNCHANGED <<call, cache, closed, doubtful, overlaps>>

Answer(code, n) == [code |-> code, order |-> n]

(* The exchange may accept an id again, as it does when the first order is *)
(* filled, and a filled order is one that it refuses to cancel.  To the    *)
(* client a 5xx sent after the order was placed is the same as an answer   *)
(* that is lost.                                                           *)
PlaceOrder(c, n) ==
  LET i == call[c].id
  IN  /\ call[c].method = "POST"
      /\ orders' = Append(orders, [id |-> i, status |-> "NEW"])
      /\ Handle(c, n, Answer("2xx", Len(orders) + 1))

CancelOrder(c, n) ==
  /\ call[c].method = "DELETE"
  /\ \E k \in OrdersOf(call[c].id) :
       /\ orders[k].status = "NEW"
       /\ orders' = [orders EXCEPT ![k].status = "CANCELED"]
       /\ Handle(c, n, Answer("2xx", k))

QueryOrder(c, n) ==
  /\ call[c].method = "GET"
  /\ \E k \in OrdersOf(call[c].id) : Handle(c, n, Answer("2xx", k))
  /\ UNCHANGED orders

(* A bad or late signature, no funds, no such order; or the server is busy. *)
Refuse(c, n) ==
  /\ \E code \in {"4xx", "5xx"} : Handle(c, n, Answer(code, 0))
  /\ UNCHANGED orders

-----------------------------------------------------------------------------
AttemptEnds(c) ==
  TransportError(c) \/ ServerError(c) \/ Rejected(c) \/ Unreadable(c) \/ Accepted(c)

CallStep(c) ==
  \/ \E i \in Ids : RepeatKnown(c, i) \/ \E method \in Methods : Begin(c, method, i)
  \/ AttemptEnds(c)
  \/ Retry(c)

ExchangeStep(c, n) ==
  PlaceOrder(c, n) \/ CancelOrder(c, n) \/ QueryOrder(c, n) \/ Refuse(c, n)

Next ==
  \/ \E c \in Calls : CallStep(c) \/ \E n \in 0..MaxRetries : ExchangeStep(c, n)
  \/ Close

(* A request ends, at the latest by httpx's own timeout, and a sleep ends. *)
Fairness == \A c \in Calls : WF_vars(AttemptEnds(c) \/ Retry(c))

Spec == Init /\ [][Next]_vars /\ Fairness

-----------------------------------------------------------------------------
(* How many orders an id can have: one, and one more at most for each      *)
(* attempt that ended without a verdict (a transport error, a 5xx, a body  *)
(* that cannot be read) and each call that overlapped another of the id.   *)
(* Repeats after an answer, refusals, closing and late requests add none   *)
(* (binance.py:123, 144, 165, 182).  That the first kind adds any is what  *)
(* SafeToRepeat finds.                                                     *)
DuplicatesExplained ==
  \A i \in Ids : Cardinality(OrdersOf(i)) <= 1 + doubtful[i] + overlaps[i]

(* create_order() is idempotent per client order id, also after an attempt *)
(* whose outcome is unknown (binance.py:22-25, 161-163): calls of an id    *)
(* made one after another place at most one order.                         *)
SafeToRepeat ==
  \A i \in Ids : overlaps[i] = 0 => Cardinality(OrdersOf(i)) <= 1

OrderCallsReturned(i) ==
  {c \in Calls : call[c].pc = "returned" /\ call[c].method = "POST" /\ call[c].id = i}

(* Callers of one id that did not overlap were all given the same order,   *)
(* however many the retries have placed (binance.py:161).                  *)
CallersAgree ==
  \A i \in Ids : overlaps[i] = 0 =>
    \A c \in OrderCallsReturned(i) : call[c].result = cache[i]

(* A result is an order of the exchange under the id asked for, and a      *)
(* cancelled one if it was to be cancelled; so is what the cache holds.    *)
ResultsAreReal ==
  /\ \A c \in Calls : call[c].pc = "returned" =>
       /\ call[c].result \in OrdersOf(call[c].id)
       /\ call[c].method = "DELETE" => orders[call[c].result].status = "CANCELED"
  /\ \A i \in Ids : cache[i] # 0 => cache[i] \in OrdersOf(i)

(* Every call ends, whatever the exchange and the network do: a call begins *)
(* once, so in the end none runs any more.                                  *)
CallsEnd == <>[](\A c \in Calls : ~Running(c))
=============================================================================
