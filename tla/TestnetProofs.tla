---------------------------- MODULE TestnetProofs ----------------------------
(***************************************************************************)
(* The testnet client for every number of calls, ids and retries: types,   *)
(* results that are real, callers of one id that are given the same order, *)
(* and no more orders of an id than its doubts and overlaps explain.       *)
(*                                                                         *)
(* Results are real because the answers that wait are (RealAnswers).  The  *)
(* callers agree because, as long as no calls of an id have overlapped, a  *)
(* call of it that runs is the only one, and before it none was given an   *)
(* order (Undisturbed).  The orders of an id are counted by a balance that *)
(* every step keeps (Account).                                             *)
(***************************************************************************)
EXTENDS Testnet, FiniteSetTheorems, SequenceTheorems, TLAPS

(* A call that backs off has an attempt left. *)
AttemptsLeft == \A c \in Calls : call[c].pc = "backoff" => call[c].attempt < MaxRetries

(* Order n is one that call c may return. *)
Fits(c, n) ==
  /\ n \in OrdersOf(call[c].id)
  /\ call[c].method = "DELETE" => orders[n].status = "CANCELED"

(* An answer waits only for a call that waits, and names an order it asked for. *)
RealAnswers ==
  \A c \in Calls : answer[c] # None =>
    /\ call[c].pc = "waiting"
    /\ answer[c].code = "2xx" => Fits(c, answer[c].order)

(* The same of the results and of the cache. *)
RealResults ==
  /\ \A c \in Calls : call[c].pc = "returned" => Fits(c, call[c].result)
  /\ \A i \in Ids : cache[i] # 0 => cache[i] \in OrdersOf(i)

(* Without overlaps, a running order call of an id is the only one and the *)
(* first to get that far.                                                  *)
Undisturbed ==
  \A i \in Ids : overlaps[i] = 0 =>
    \A c \in Placing(i) :
      cache[i] = 0 /\ OrderCallsReturned(i) = {} /\ Placing(i) = {c}

Inv ==
  /\ TypeOK /\ AttemptsLeft
  /\ RealAnswers /\ RealResults
  /\ Undisturbed /\ CallersAgree

-----------------------------------------------------------------------------
(* No call has begun and no order exists. *)
LEMMA InitInv == Init => Inv
<1> SUFFICES ASSUME Init PROVE Inv
  OBVIOUS
<1> USE RetriesAssumption, IdsAssumption
<1>1. (CHOOSE i \in Ids : TRUE) \in Ids
  OBVIOUS
<1>2. /\ Len(orders) = 0 /\ DOMAIN orders = {} /\ orders \in Seq([id : Ids, status : Statuses])
      /\ 0 \in OrderNos
  BY DEF Init, OrderNos
<1>3. TypeOK
  <2>1. call \in [Calls -> [pc : {"idle", "waiting", "backoff"} \cup Ended,
                           method : Methods, id : Ids, attempt : 0..MaxRetries,
                           result : OrderNos]]
    BY <1>1, <1>2 DEF Init, Methods
  <2>2. QED
    BY <1>2, <2>1 DEF Init, TypeOK
<1>4. \A c \in Calls : call[c].pc = "idle" /\ answer[c] = None
  BY DEF Init
<1>5. \A i \in Ids : Placing(i) = {} /\ OrderCallsReturned(i) = {}
  BY <1>4 DEF Placing, OrderCallsReturned, Running
<1>6. AttemptsLeft /\ RealAnswers /\ RealResults
  BY <1>4 DEF AttemptsLeft, RealAnswers, RealResults, Init
<1>7. Undisturbed /\ CallersAgree
  BY <1>5 DEF Undisturbed, CallersAgree
<1>8. QED
  BY <1>3, <1>6, <1>7 DEF Inv

(* The orders of the exchange are kept, and cancelled ones stay cancelled. *)
Kept ==
  \A n \in DOMAIN orders :
    /\ n \in DOMAIN orders'
    /\ orders'[n].id = orders[n].id
    /\ orders[n].status = "CANCELED" => orders'[n].status = "CANCELED"

(* An order is a record. *)
LEMMA OrderType ==
  ASSUME orders \in Seq([id : Ids, status : Statuses]), NEW k \in 1..Len(orders)
  PROVE  /\ orders[k] \in [id : Ids, status : Statuses]
         /\ orders[k].id \in Ids
         /\ \A s \in Statuses : [orders[k] EXCEPT !.status = s] \in [id : Ids, status : Statuses]
<1>1. orders[k] \in [id : Ids, status : Statuses]
  BY ElementOfSeq
<1>2. QED
  BY <1>1

(* What the exchange does to its orders and to the answers.                *)
LEMMA ExchangeAnswers ==
  ASSUME Inv, NEW c \in Calls, NEW n \in 0..MaxRetries, ExchangeStep(c, n)
  PROVE  /\ orders' \in Seq([id : Ids, status : Statuses]) /\ Len(orders) <= Len(orders')
         /\ Kept
         /\ \E ans \in Answers' :
              /\ Handle(c, n, ans)
              /\ ans.code = "2xx" => Fits(c, ans.order)'
<1> USE DEF Inv, TypeOK
<1>1. call[c].id \in Ids /\ orders \in Seq([id : Ids, status : Statuses]) /\ Len(orders) \in Nat
  OBVIOUS
<1>2. CASE PlaceOrder(c, n)
  <2> DEFINE new == [id |-> call[c].id, status |-> "NEW"]
  <2>1. new \in [id : Ids, status : Statuses]
    BY <1>1 DEF Statuses
  <2>2. orders' = Append(orders, new) /\ Handle(c, n, Answer("2xx", Len(orders) + 1))
        /\ call[c].method = "POST"
    BY <1>2 DEF PlaceOrder
  <2>3. /\ orders' \in Seq([id : Ids, status : Statuses])
        /\ Len(orders') = Len(orders) + 1
        /\ orders'[Len(orders) + 1] = new
        /\ \A k \in 1..Len(orders) : orders'[k] = orders[k]
    BY <1>1, <2>1, <2>2
  <2>4. DOMAIN orders = 1..Len(orders) /\ DOMAIN orders' = 1..(Len(orders) + 1)
    BY <1>1, <2>3
  <2>5. Kept
    <3>1. \A k \in DOMAIN orders : k \in DOMAIN orders' /\ orders'[k] = orders[k]
      BY <1>1, <2>3, <2>4
    <3>2. QED
      BY <3>1 DEF Kept
  <2>6. call' = call
    BY <2>2 DEF Handle
  <2>7. PICK m : m = Len(orders) + 1
    OBVIOUS
  <2>8. Fits(c, m)'
    <3>1. orders'[Len(orders) + 1].id = call[c].id /\ Len(orders) + 1 \in DOMAIN orders'
      BY <1>1, <2>3, <2>4
    <3>2. m \in OrdersOf(call[c].id)'
      BY <2>7, <2>6, <3>1 DEF OrdersOf
    <3>3. QED
      BY <2>2, <2>6, <3>2 DEF Fits
  <2>9. Answer("2xx", m) \in Answers'
    BY <1>1, <2>7, <2>3 DEF Answer, Answers, OrderNos
  <2>10. Answer("2xx", m).order = m
    BY DEF Answer
  <2>11. Len(orders) <= Len(orders')
    BY <1>1, <2>3
  <2>12. \E ans \in Answers' : Handle(c, n, ans) /\ Fits(c, ans.order)'
    BY <2>7, <2>2, <2>8, <2>9, <2>10
  <2>13. QED
    BY <2>3, <2>5, <2>11, <2>12
<1>3. CASE CancelOrder(c, n)
  <2>1. PICK k \in OrdersOf(call[c].id) :
          /\ orders[k].status = "NEW"
          /\ orders' = [orders EXCEPT ![k].status = "CANCELED"]
          /\ Handle(c, n, Answer("2xx", k))
    BY <1>3 DEF CancelOrder
  <2>2. k \in 1..Len(orders) /\ orders[k].id = call[c].id
    BY <1>1 DEF OrdersOf
  <2>3. /\ orders' \in Seq([id : Ids, status : Statuses])
        /\ Len(orders') = Len(orders) /\ DOMAIN orders' = DOMAIN orders
        /\ orders'[k].status = "CANCELED"
        /\ \A j \in DOMAIN orders : orders'[j].id = orders[j].id
        /\ \A j \in DOMAIN orders \ {k} : orders'[j] = orders[j]
    <3>1. [orders[k] EXCEPT !.status = "CANCELED"] \in [id : Ids, status : Statuses]
      BY <1>1, <2>2, OrderType DEF Statuses
    <3>2. orders' = [orders EXCEPT ![k] = [orders[k] EXCEPT !.status = "CANCELED"]]
      BY <2>1
    <3>3. orders[k] \in [id : Ids, status : Statuses]
      BY <1>1, <2>2, OrderType
    <3>4. orders' \in Seq([id : Ids, status : Statuses]) /\ Len(orders') = Len(orders)
      BY <1>1, <2>2, <3>1, <3>2
    <3>5. DOMAIN orders' = DOMAIN orders /\ k \in DOMAIN orders
      BY <1>1, <2>2, <3>2
    <3>6. /\ orders'[k].status = "CANCELED" /\ orders'[k].id = orders[k].id
          /\ \A j \in DOMAIN orders \ {k} : orders'[j] = orders[j]
      BY <3>2, <3>3, <3>5
    <3>7. QED
      BY <3>4, <3>5, <3>6
  <2>4. Kept
    BY <2>1, <2>3 DEF Kept
  <2>5. call' = call
    BY <2>1 DEF Handle
  <2>6. Fits(c, k)'
    BY <1>1, <2>2, <2>3, <2>5 DEF Fits, OrdersOf
  <2>7. Answer("2xx", k) \in Answers'
    BY <1>1, <2>2, <2>3 DEF Answer, Answers, OrderNos
  <2>8. QED
    BY <1>1, <2>1, <2>3, <2>4, <2>6, <2>7 DEF Answer
<1>4. CASE QueryOrder(c, n)
  <2>1. PICK k \in OrdersOf(call[c].id) : Handle(c, n, Answer("2xx", k)) /\ orders' = orders
    BY <1>4 DEF QueryOrder
  <2>2. k \in 1..Len(orders)
    BY <1>1 DEF OrdersOf
  <2>3. call' = call
    BY <2>1 DEF Handle
  <2>4. call[c].method = "GET"
    BY <1>4 DEF QueryOrder
  <2>5. Fits(c, k)'
    BY <2>1, <2>3, <2>4 DEF Fits, OrdersOf
  <2>6. Answer("2xx", k) \in Answers'
    BY <1>1, <2>1, <2>2 DEF Answer, Answers, OrderNos
  <2>7. Kept
    BY <2>1 DEF Kept
  <2>8. QED
    BY <1>1, <2>1, <2>5, <2>6, <2>7 DEF Answer
<1>5. CASE Refuse(c, n)
  <2>1. PICK code \in {"4xx", "5xx"} : Handle(c, n, Answer(code, 0)) /\ orders' = orders
    BY <1>5 DEF Refuse
  <2>2. Answer(code, 0) \in Answers'
    BY <1>1, <2>1 DEF Answer, Answers, OrderNos
  <2>3. Kept
    BY <2>1 DEF Kept
  <2>4. QED
    BY <1>1, <2>1, <2>2, <2>3 DEF Answer
<1>6. QED
  BY <1>2, <1>3, <1>4, <1>5 DEF ExchangeStep

(* What fits a call goes on to fit it. *)
LEMMA FitsOn ==
  ASSUME Kept, NEW c \in Calls, NEW n, Fits(c, n),
         call'[c].id = call[c].id, call'[c].method = call[c].method
  PROVE  Fits(c, n)'
BY DEF Kept, Fits, OrdersOf

(* The exchange keeps the invariant. *)
LEMMA ExchangeKeepsInv ==
  ASSUME Inv, NEW c \in Calls, NEW n \in 0..MaxRetries, ExchangeStep(c, n)
  PROVE  Inv'
<1>1. /\ orders' \in Seq([id : Ids, status : Statuses]) /\ Len(orders) <= Len(orders')
      /\ Kept
  BY ExchangeAnswers
<1>2. PICK ans \in Answers' : Handle(c, n, ans) /\ (ans.code = "2xx" => Fits(c, ans.order)')
  BY ExchangeAnswers
<1>3. /\ UNCHANGED <<call, cache, closed, doubtful, overlaps>>
      /\ wire' = wire \ {<<c, n>>}
      /\ answer' = IF call[c].pc = "waiting" /\ call[c].attempt = n
                   THEN [answer EXCEPT ![c] = ans] ELSE answer
  BY <1>2 DEF Handle
<1>4. Len(orders) \in Nat /\ Len(orders') \in Nat
  BY <1>1 DEF Inv, TypeOK
<1>5. OrderNos \subseteq OrderNos'
  BY <1>1, <1>4 DEF OrderNos
<1>6. Answers \subseteq Answers'
  BY <1>5 DEF Answers
<1>7. TypeOK'
  <2>1. call' \in [Calls -> [pc : {"idle", "waiting", "backoff"} \cup Ended,
                            method : Methods, id : Ids, attempt : 0..MaxRetries,
                            result : OrderNos']]
    BY <1>3, <1>5 DEF Inv, TypeOK
  <2>2. cache' \in [Ids -> OrderNos'] /\ answer' \in [Calls -> Answers' \cup {None}]
    BY <1>2, <1>3, <1>5, <1>6 DEF Inv, TypeOK
  <2>3. /\ closed' \in BOOLEAN /\ wire' \subseteq Calls \X (0..MaxRetries)
        /\ doubtful' \in [Ids -> Nat] /\ overlaps' \in [Ids -> Nat]
    BY <1>3 DEF Inv, TypeOK
  <2>4. QED
    BY <1>1, <2>1, <2>2, <2>3 DEF TypeOK
<1>8. RealAnswers'
  <2>1. ASSUME NEW d \in Calls, NEW m, answer'[d] # None,
               answer'[d].code = "2xx" => m = answer'[d].order
        PROVE  call'[d].pc = "waiting" /\ (answer'[d].code = "2xx" => Fits(d, m)')
    <3>1. CASE answer'[d] = answer[d]
      <4>1. call[d].pc = "waiting" /\ (answer[d].code = "2xx" => Fits(d, m))
        BY <2>1, <3>1 DEF Inv, RealAnswers
      <4>2. Fits(d, m) => Fits(d, m)'
        BY <1>1, <1>3, FitsOn
      <4>3. QED
        BY <1>3, <3>1, <4>1, <4>2
    <3>2. CASE d = c /\ call[c].pc = "waiting" /\ answer'[d] = ans
      <4>1. ans.code = "2xx" => \E k : k = ans.order /\ Fits(c, k)'
        BY <1>2
      <4>2. QED
        BY <1>3, <2>1, <3>2, <4>1
    <3>3. answer \in [Calls -> Answers \cup {None}]
      BY DEF Inv, TypeOK
    <3>4. QED
      BY <1>3, <3>1, <3>2, <3>3
  <2>2. QED
    BY <2>1 DEF RealAnswers
<1>9. RealResults'
  <2>1. ASSUME NEW d \in Calls, NEW m, m = call[d].result, call[d].pc = "returned"
        PROVE  Fits(d, m)'
    <3>1. Fits(d, m)
      BY <2>1 DEF Inv, RealResults
    <3>2. QED
      BY <1>1, <1>3, <3>1, FitsOn
  <2>2. ASSUME NEW d \in Calls, call'[d].pc = "returned" PROVE Fits(d, call[d].result)'
    BY <1>3, <2>1, <2>2 DEF Fits, OrdersOf
  <2>3. \A i \in Ids : cache'[i] # 0 => cache'[i] \in OrdersOf(i)'
    BY <1>1, <1>3 DEF Kept, Inv, RealResults, OrdersOf
  <2>4. QED
    BY <2>2, <2>3 DEF RealResults
<1>10. AttemptsLeft' /\ Undisturbed' /\ CallersAgree'
  BY <1>3 DEF Inv, AttemptsLeft, Undisturbed, CallersAgree, Placing, OrderCallsReturned, Running
<1>11. QED
  BY <1>7, <1>8, <1>9, <1>10 DEF Inv

-----------------------------------------------------------------------------
CallType == [pc : {"idle", "waiting", "backoff"} \cup Ended, method : Methods, id : Ids,
             attempt : 0..MaxRetries, result : OrderNos]

(* A call that runs goes on, or ends without an order. *)
LEMMA CallMoves ==
  ASSUME Inv, NEW c \in Calls, Running(c), NEW new \in CallType,
         UNCHANGED <<cache, orders, overlaps>>,
         call' = [call EXCEPT ![c] = new],
         new.pc \notin {"idle", "returned"},
         new.method = call[c].method, new.id = call[c].id,
         new.pc = "backoff" => new.attempt < MaxRetries,
         answer' = [answer EXCEPT ![c] = None],
         closed' \in BOOLEAN, wire' \subseteq Calls \X (0..MaxRetries),
         doubtful' \in [Ids -> Nat]
  PROVE  Inv'
<1>1. /\ call \in [Calls -> CallType] /\ answer \in [Calls -> Answers \cup {None}]
      /\ OrderNos' = OrderNos /\ Answers' = Answers
  BY DEF Inv, TypeOK, CallType, OrderNos, Answers
<1>2. TypeOK'
  BY <1>1 DEF Inv, TypeOK, CallType
<1>3. \A d \in Calls \ {c} : call'[d] = call[d] /\ answer'[d] = answer[d]
  BY <1>1
<1>4. call'[c] = new /\ answer'[c] = None
  BY <1>1
<1>5. AttemptsLeft'
  BY <1>3, <1>4 DEF Inv, AttemptsLeft
<1>6. \A d \in Calls \ {c} : \A m : Fits(d, m)' <=> Fits(d, m)
  BY <1>3 DEF Fits, OrdersOf
<1>7. RealAnswers' /\ RealResults'
  <2>1. \A i : OrdersOf(i)' = OrdersOf(i)
    BY DEF OrdersOf
  <2>2. QED
    BY <1>3, <1>4, <2>1 DEF Inv, RealAnswers, RealResults, Fits
<1>8. \A i \in Ids : /\ OrderCallsReturned(i)' = OrderCallsReturned(i)
                     /\ Placing(i)' \subseteq Placing(i)
  BY <1>3, <1>4 DEF OrderCallsReturned, Placing, Running
<1>9. Undisturbed' /\ CallersAgree'
  <2>1. \A i \in Ids : \A d \in OrderCallsReturned(i) : call'[d] = call[d]
    BY <1>3 DEF OrderCallsReturned, Running
  <2>2. CallersAgree'
    BY <1>8, <2>1 DEF Inv, CallersAgree
  <2>3. Undisturbed'
    BY <1>8 DEF Inv, Undisturbed
  <2>4. QED
    BY <2>2, <2>3
<1>10. QED
  BY <1>2, <1>5, <1>7, <1>9 DEF Inv

(* An attempt that fails, is refused, or is answered by a body nobody can read. *)
LEMMA FailureKeepsInv ==
  ASSUME Inv, NEW c \in Calls,
         TransportError(c) \/ ServerError(c) \/ Rejected(c) \/ Unreadable(c)
  PROVE  Inv'
<1> DEFINE new == [call[c] EXCEPT !.pc = call'[c].pc]
<1>1. call \in [Calls -> CallType] /\ MaxRetries \in Nat
  BY RetriesAssumption DEF Inv, TypeOK, CallType
<1>2. /\ Running(c) /\ UNCHANGED <<cache, closed, orders, overlaps>>
      /\ answer' = [answer EXCEPT ![c] = None] /\ wire' \subseteq wire
      /\ call' = [call EXCEPT ![c].pc = call'[c].pc]
      /\ call'[c].pc \in {"retryable", "backoff", "rejected", "failed"}
      /\ call'[c].pc = "backoff" => call[c].attempt # MaxRetries
  BY <1>1 DEF TransportError, ServerError, Rejected, Unreadable, BackOff, Running, CallType
<1>3. call' = [call EXCEPT ![c] = new]
  BY <1>1, <1>2
<1>4. /\ new \in CallType /\ new.pc \in {"retryable", "backoff", "rejected", "failed"}
      /\ new.method = call[c].method /\ new.id = call[c].id
      /\ new.pc = "backoff" => new.attempt < MaxRetries
  BY <1>1, <1>2 DEF CallType, Ended
<1>5. doubtful' \in [Ids -> Nat]
  <2>1. call[c].id \in Ids /\ doubtful \in [Ids -> Nat]
    BY <1>1 DEF Inv, TypeOK, CallType
  <2>2. doubtful' = doubtful \/ doubtful' = [doubtful EXCEPT ![call[c].id] = @ + 1]
    BY DEF TransportError, ServerError, Rejected, Unreadable, Doubt
  <2>3. QED
    BY <2>1, <2>2
<1>6. closed' \in BOOLEAN /\ wire' \subseteq Calls \X (0..MaxRetries)
  BY <1>2 DEF Inv, TypeOK
<1> HIDE DEF new
<1>7. QED
  BY <1>2, <1>3, <1>4, <1>5, <1>6, CallMoves

(* The next attempt, or the end of a call whose client was closed. *)
LEMMA RetryKeepsInv ==
  ASSUME Inv, NEW c \in Calls, Retry(c)
  PROVE  Inv'
<1> DEFINE new == [pc |-> IF closed THEN "failed" ELSE "waiting", method |-> call[c].method,
                   id |-> call[c].id, attempt |-> call[c].attempt + 1, result |-> 0]
<1>1. call \in [Calls -> CallType] /\ MaxRetries \in Nat
  BY RetriesAssumption DEF Inv, TypeOK, CallType
<1>2. call[c].pc = "backoff" /\ call[c].attempt < MaxRetries /\ Running(c)
  BY DEF Retry, Inv, AttemptsLeft, Running
<1>3. /\ UNCHANGED <<cache, closed, answer, orders, doubtful, overlaps>>
      /\ call' = [call EXCEPT ![c] = new]
      /\ wire' \in {wire, wire \cup {<<c, call[c].attempt + 1>>}}
  BY DEF Retry, Send
<1>4. call[c].attempt + 1 \in 0..MaxRetries /\ 0 \in OrderNos
  <2>1. Len(orders) \in Nat
    BY DEF Inv, TypeOK
  <2>2. QED
    BY <1>1, <1>2, <2>1 DEF CallType, OrderNos
<1>5. new \in CallType
  BY <1>1, <1>4 DEF CallType, Ended
<1>6. answer' = [answer EXCEPT ![c] = None]
  BY <1>2, <1>3 DEF Inv, RealAnswers, TypeOK
<1>7. /\ closed' \in BOOLEAN /\ wire' \subseteq Calls \X (0..MaxRetries)
      /\ doubtful' \in [Ids -> Nat]
  BY <1>3, <1>4 DEF Inv, TypeOK
<1>8. /\ new.pc \notin {"idle", "returned", "backoff"}
      /\ new.method = call[c].method /\ new.id = call[c].id
  OBVIOUS
<1> HIDE DEF new
<1>9. QED
  BY <1>2, <1>3, <1>5, <1>6, <1>7, <1>8, CallMoves

(* A call begins: if it places an order and overlaps no other, none of its *)
(* id was given an order yet.                                              *)
LEMMA BeginKeepsInv ==
  ASSUME Inv, NEW c \in Calls, NEW i \in Ids, NEW method \in Methods, Begin(c, method, i)
  PROVE  Inv'
<1> DEFINE new == [pc |-> IF closed THEN "failed" ELSE "waiting", method |-> method,
                   id |-> i, attempt |-> 0, result |-> 0]
<1>1. /\ call \in [Calls -> CallType] /\ answer \in [Calls -> Answers \cup {None}]
      /\ MaxRetries \in Nat /\ 0 \in OrderNos
  <2>1. Len(orders) \in Nat
    BY DEF Inv, TypeOK
  <2>2. QED
    BY <2>1, RetriesAssumption DEF Inv, TypeOK, CallType, OrderNos
<1>2. /\ UNCHANGED <<cache, closed, answer, orders, doubtful>>
      /\ call[c].pc = "idle" /\ (method = "POST" => cache[i] = 0)
      /\ call' = [call EXCEPT ![c] = new]
      /\ wire' \in {wire, wire \cup {<<c, 0>>}}
      /\ overlaps' = IF method = "POST" /\ Placing(i) # {}
                     THEN [overlaps EXCEPT ![i] = @ + 1] ELSE overlaps
  BY DEF Begin, Send
<1>3. new \in CallType
  BY <1>1 DEF CallType, Ended
<1>4. /\ new.pc \in {"waiting", "failed"} /\ new.method = method /\ new.id = i
  OBVIOUS
<1> HIDE DEF new
<1>5. /\ call'[c] = new /\ \A d \in Calls \ {c} : call'[d] = call[d]
      /\ call' \in [Calls -> CallType]
  BY <1>1, <1>2, <1>3
<1>6. TypeOK'
  <2>1. overlaps' \in [Ids -> Nat] /\ wire' \subseteq Calls \X (0..MaxRetries)
    BY <1>1, <1>2 DEF Inv, TypeOK
  <2>2. QED
    BY <1>2, <1>5, <2>1 DEF Inv, TypeOK, CallType, OrderNos, Answers
<1>7. AttemptsLeft'
  BY <1>4, <1>5 DEF Inv, AttemptsLeft
<1>8. RealAnswers' /\ RealResults'
  <2>1. \A k : OrdersOf(k)' = OrdersOf(k)
    BY <1>2 DEF OrdersOf
  <2>2. answer[c] = None
    BY <1>2 DEF Inv, RealAnswers
  <2>3. QED
    BY <1>2, <1>4, <1>5, <2>1, <2>2 DEF Inv, RealAnswers, RealResults, Fits
<1>9. \A k \in Ids :
        /\ OrderCallsReturned(k)' = OrderCallsReturned(k)
        /\ method # "POST" \/ k # i => Placing(k)' = Placing(k)
        /\ Placing(k)' \subseteq Placing(k) \cup {c}
  BY <1>2, <1>4, <1>5 DEF OrderCallsReturned, Placing, Running
<1>10. \A k \in Ids : overlaps'[k] = 0 =>
         overlaps[k] = 0 /\ (method = "POST" /\ k = i => Placing(k) = {})
  BY <1>2 DEF Inv, TypeOK
<1>11. CallersAgree'
  <2>1. \A k \in Ids : \A d \in OrderCallsReturned(k) : call'[d] = call[d]
    BY <1>2, <1>5 DEF OrderCallsReturned
  <2>2. QED
    BY <1>2, <1>9, <1>10, <2>1 DEF Inv, CallersAgree
<1>12. Undisturbed'
  <2> SUFFICES ASSUME NEW k \in Ids, overlaps'[k] = 0, NEW d \in Placing(k)'
               PROVE  cache[k] = 0 /\ OrderCallsReturned(k) = {} /\ Placing(k)' = {d}
    BY <1>2, <1>9 DEF Undisturbed
  <2>1. CASE method # "POST" \/ k # i
    BY <1>9, <1>10, <2>1 DEF Inv, Undisturbed
  <2>2. CASE method = "POST" /\ k = i
    <3>1. Placing(k) = {} /\ Placing(k)' = {d} /\ cache[k] = 0 /\ overlaps[k] = 0
      BY <1>2, <1>9, <1>10, <2>2
    <3>2. \A e \in OrderCallsReturned(k) : call[e].result = 0 /\ call[e].result \in OrdersOf(k)
      BY <3>1 DEF Inv, CallersAgree, RealResults, Fits, OrderCallsReturned
    <3>3. 0 \notin OrdersOf(k)
      BY DEF Inv, TypeOK, OrdersOf
    <3>4. QED
      BY <3>1, <3>2, <3>3
  <2>3. QED
    BY <2>1, <2>2
<1>13. QED
  BY <1>6, <1>7, <1>8, <1>11, <1>12 DEF Inv

(* A call is given the order the cache holds, which an order call may      *)
(* just have put there.                                                    *)
LEMMA ReturnKeepsInv ==
  ASSUME Inv, NEW c \in Calls, NEW new \in CallType,
         UNCHANGED <<closed, wire, orders, doubtful, overlaps>>,
         call' = [call EXCEPT ![c] = new], new.pc = "returned",
         new.result \in OrdersOf(new.id),
         new.method = "DELETE" => orders[new.result].status = "CANCELED",
         answer' = [answer EXCEPT ![c] = None],
         \/ cache' = cache /\ ~Running(c) /\ new.result = cache[new.id]
         \/ cache' = cache /\ new.method # "POST" /\ call[c].method = new.method
         \/ /\ cache' = [cache EXCEPT ![new.id] = new.result]
            /\ new.method = "POST" /\ c \in Placing(new.id)
  PROVE  Inv'
<1>1. /\ call \in [Calls -> CallType] /\ answer \in [Calls -> Answers \cup {None}]
      /\ OrderNos' = OrderNos /\ Answers' = Answers /\ new.id \in Ids /\ new.result \in OrderNos
      /\ new.result # 0
  <2>1. /\ call \in [Calls -> CallType] /\ answer \in [Calls -> Answers \cup {None}]
        /\ OrderNos' = OrderNos /\ Answers' = Answers
    BY DEF Inv, TypeOK, CallType, OrderNos, Answers
  <2>2. new.id \in Ids /\ new.result \in OrderNos
    BY DEF CallType
  <2>3. new.result # 0
    BY DEF Inv, TypeOK, OrdersOf
  <2>4. QED
    BY <2>1, <2>2, <2>3
<1>2. TypeOK'
  BY <1>1 DEF Inv, TypeOK, CallType
<1>3. /\ call'[c] = new /\ answer'[c] = None
      /\ \A d \in Calls \ {c} : call'[d] = call[d] /\ answer'[d] = answer[d]
  BY <1>1
<1>4. AttemptsLeft'
  BY <1>3 DEF Inv, AttemptsLeft
<1>5. \A k : OrdersOf(k)' = OrdersOf(k)
  BY DEF OrdersOf
<1>6. cache \in [Ids -> OrderNos]
  BY DEF Inv, TypeOK
<1>7. RealAnswers' /\ RealResults'
  BY <1>1, <1>3, <1>5, <1>6 DEF Inv, RealAnswers, RealResults, Fits
<1>8. \A k \in Ids :
        /\ Placing(k)' = Placing(k) \ {c}
        /\ OrderCallsReturned(k)' \subseteq OrderCallsReturned(k) \cup {c}
        /\ c \in OrderCallsReturned(k)' => k = new.id /\ new.method = "POST"
  BY <1>3 DEF Placing, OrderCallsReturned, Running
<1>9. Undisturbed' /\ CallersAgree'
  <2> SUFFICES ASSUME NEW k \in Ids, overlaps[k] = 0
               PROVE  /\ \A d \in OrderCallsReturned(k)' : call'[d].result = cache'[k]
                      /\ \A d \in Placing(k)' :
                           /\ cache'[k] = 0 /\ OrderCallsReturned(k)' = {} /\ Placing(k)' = {d}
    BY DEF Undisturbed, CallersAgree
  <2>1. /\ \A d \in OrderCallsReturned(k) : call[d].result = cache[k]
        /\ \A d \in Placing(k) : cache[k] = 0 /\ OrderCallsReturned(k) = {} /\ Placing(k) = {d}
    BY DEF Inv, Undisturbed, CallersAgree
  <2>2. CASE k # new.id \/ new.method # "POST"
    <3>1. cache'[k] = cache[k] /\ c \notin OrderCallsReturned(k)'
      BY <1>1, <1>6, <1>8, <2>2
    <3>2. QED
      BY <1>3, <1>8, <2>1, <3>1
  <2>3. CASE k = new.id /\ new.method = "POST" /\ cache' = cache /\ new.result = cache[k]
    BY <1>1, <1>3, <1>8, <2>1, <2>3
  <2>4. CASE k = new.id /\ new.method = "POST" /\ c \in Placing(k) /\ cache'[k] = new.result
    BY <1>3, <1>8, <2>1, <2>4
  <2>5. QED
    BY <1>1, <1>6, <2>2, <2>3, <2>4
<1>10. QED
  BY <1>2, <1>4, <1>7, <1>9 DEF Inv

(* A call ends with the order of its answer. *)
LEMMA AcceptedKeepsInv ==
  ASSUME Inv, NEW c \in Calls, Accepted(c)
  PROVE  Inv'
<1> DEFINE new == [call[c] EXCEPT !.pc = "returned", !.result = answer[c].order]
<1>1. /\ call \in [Calls -> CallType] /\ answer \in [Calls -> Answers \cup {None}]
      /\ call[c].pc = "waiting" /\ answer[c] # None /\ answer[c].code = "2xx"
  BY DEF Inv, TypeOK, CallType, Accepted
<1>2. /\ UNCHANGED <<closed, wire, orders, doubtful, overlaps>>
      /\ call' = [call EXCEPT ![c] = new]
      /\ answer' = [answer EXCEPT ![c] = None]
      /\ cache' = IF call[c].method = "POST"
                  THEN [cache EXCEPT ![call[c].id] = answer[c].order] ELSE cache
  BY <1>1 DEF Accepted
<1>3. answer[c].order \in OrderNos
  BY <1>1 DEF Answers
<1>4. /\ new \in CallType /\ new.pc = "returned" /\ new.result = answer[c].order
      /\ new.method = call[c].method /\ new.id = call[c].id
  BY <1>1, <1>3 DEF CallType, Ended
<1>5. Fits(c, answer[c].order)
  BY <1>1 DEF Inv, RealAnswers
<1>6. call[c].method = "POST" => c \in Placing(call[c].id)
  BY <1>1 DEF Placing, Running
<1> HIDE DEF new
<1>7. QED
  BY <1>2, <1>4, <1>5, <1>6, ReturnKeepsInv DEF Fits

(* A call ends with the order of the cache. *)
LEMMA RepeatKeepsInv ==
  ASSUME Inv, NEW c \in Calls, NEW i \in Ids, RepeatKnown(c, i)
  PROVE  Inv'
<1> DEFINE new == [pc |-> "returned", method |-> "POST", id |-> i,
                   attempt |-> 0, result |-> cache[i]]
<1>1. /\ UNCHANGED <<cache, closed, wire, answer, orders, doubtful, overlaps>>
      /\ call[c].pc = "idle" /\ cache[i] # 0 /\ call' = [call EXCEPT ![c] = new]
  BY DEF RepeatKnown
<1>2. new \in CallType
  BY RetriesAssumption DEF Inv, TypeOK, CallType, Ended, Methods
<1>3. cache[i] \in OrdersOf(i)
  BY <1>1 DEF Inv, RealResults
<1>4. answer' = [answer EXCEPT ![c] = None]
  BY <1>1 DEF Inv, RealAnswers, TypeOK
<1>5. ~Running(c)
  BY <1>1 DEF Running
<1>6. new.pc = "returned" /\ new.id = i /\ new.method = "POST" /\ new.result = cache[i]
  OBVIOUS
<1> HIDE DEF new
<1>7. QED
  BY <1>1, <1>2, <1>3, <1>4, <1>5, <1>6, ReturnKeepsInv

(* Closing the client changes nothing that it knows. *)
LEMMA CloseKeepsInv ==
  ASSUME Inv, Close \/ UNCHANGED vars
  PROVE  Inv'
<1>1. /\ UNCHANGED <<call, cache, wire, answer, orders, doubtful, overlaps>>
      /\ closed' \in BOOLEAN
  BY DEF Close, vars, Inv, TypeOK
<1>2. TypeOK'
  BY <1>1 DEF Inv, TypeOK, OrderNos, Answers
<1>3. (AttemptsLeft /\ RealAnswers /\ RealResults)'
  BY <1>1 DEF Inv, AttemptsLeft, RealAnswers, RealResults, Fits, OrdersOf
<1>4. Undisturbed' /\ CallersAgree'
  BY <1>1 DEF Inv, Undisturbed, CallersAgree, Placing, OrderCallsReturned, Running
<1>5. QED
  BY <1>2, <1>3, <1>4 DEF Inv

(* The invariant is inductive. *)
LEMMA NextInv == Inv /\ [Next]_vars => Inv'
<1> SUFFICES ASSUME Inv, [Next]_vars PROVE Inv'
  OBVIOUS
<1>1. CASE \E c \in Calls : CallStep(c)
  <2>1. PICK c \in Calls : CallStep(c)
    BY <1>1
  <2>2. CASE \E i \in Ids : RepeatKnown(c, i)
    BY <2>2, RepeatKeepsInv
  <2>3. CASE \E i \in Ids : \E method \in Methods : Begin(c, method, i)
    BY <2>3, BeginKeepsInv
  <2>4. CASE TransportError(c) \/ ServerError(c) \/ Rejected(c) \/ Unreadable(c)
    BY <2>4, FailureKeepsInv
  <2>5. CASE Accepted(c)
    BY <2>5, AcceptedKeepsInv
  <2>6. CASE Retry(c)
    BY <2>6, RetryKeepsInv
  <2>7. QED
    BY <2>1, <2>2, <2>3, <2>4, <2>5, <2>6 DEF CallStep, AttemptEnds
<1>2. CASE \E c \in Calls : \E n \in 0..MaxRetries : ExchangeStep(c, n)
  BY <1>2, ExchangeKeepsInv
<1>3. CASE Close \/ UNCHANGED vars
  BY <1>3, CloseKeepsInv
<1>4. QED
  BY <1>1, <1>2, <1>3 DEF Next

-----------------------------------------------------------------------------
(* The account behind DuplicatesExplained.  An order attempt that is sent  *)
(* and not yet answered is on the wire, and one that was answered became   *)
(* an order at most; each is paid for by a call that still waits for its   *)
(* verdict, by a doubt, or, once the id has a result in the cache, by the  *)
(* calls that have begun and ended since.                                  *)

(* Attempts on the wire that would place an order of id i. *)
WireOf(i) == {a \in wire : call[a[1]].method = "POST" /\ call[a[1]].id = i}

(* Order calls of id i that wait and have not been told of a failure. *)
Hopeful(i) ==
  {c \in Placing(i) : call[c].pc = "waiting"
                        /\ (answer[c] = None \/ answer[c].code = "2xx")}

(* What the calls that have ended may have left behind. *)
EndedShare(i) ==
  IF cache[i] = 0 THEN 0 ELSE 1 + overlaps[i] - Cardinality(Placing(i))

(* Only a call that has begun has attempts on the wire. *)
Begun == \A a \in wire : call[a[1]].pc # "idle"

Account(i) ==
  /\ IsFiniteSet(Placing(i)) /\ IsFiniteSet(WireOf(i))
  /\ Cardinality(Placing(i)) <= 1 + overlaps[i]
  /\ Cardinality(OrdersOf(i)) + Cardinality(WireOf(i))
       <= doubtful[i] + Cardinality(Hopeful(i)) + EndedShare(i)

(* How much x adds to the size of S. *)
In(x, S) == IF x \in S THEN 1 ELSE 0

(* Two sets that differ in x at most. *)
LEMMA CountWithout ==
  ASSUME NEW S, NEW x, IsFiniteSet(S)
  PROVE  /\ IsFiniteSet(S \ {x})
         /\ Cardinality(S) \in Nat /\ Cardinality(S \ {x}) \in Nat
         /\ Cardinality(S) = Cardinality(S \ {x}) + In(x, S)
<1>1. IsFiniteSet(S \ {x}) /\ Cardinality(S) \in Nat /\ Cardinality(S \ {x}) \in Nat
  BY FS_Subset, FS_CardinalityType
<1>2. Cardinality(S \ {x}) = IF x \in S THEN Cardinality(S) - 1 ELSE Cardinality(S)
  BY FS_RemoveElement
<1>3. QED
  BY <1>1, <1>2 DEF In

(* A set that changes by one element changes its size by one or not. *)
LEMMA CountChange ==
  ASSUME NEW S, NEW T, NEW x, IsFiniteSet(S), T \ {x} = S \ {x}
  PROVE  /\ IsFiniteSet(T)
         /\ Cardinality(S) \in Nat /\ Cardinality(T) \in Nat
         /\ Cardinality(T) + In(x, S) = Cardinality(S) + In(x, T)
<1>1. IsFiniteSet(T)
  <2>1. T \subseteq S \cup {x} /\ IsFiniteSet(S \cup {x})
    BY FS_AddElement
  <2>2. QED
    BY <2>1, FS_Subset
<1>2. /\ Cardinality(S) = Cardinality(S \ {x}) + In(x, S)
      /\ Cardinality(T) = Cardinality(S \ {x}) + In(x, T)
      /\ Cardinality(S) \in Nat /\ Cardinality(T) \in Nat /\ Cardinality(S \ {x}) \in Nat
  BY <1>1, CountWithout
<1>3. In(x, S) \in Nat /\ In(x, T) \in Nat
  BY DEF In
<1>4. QED
  BY <1>1, <1>2, <1>3

(* The sizes of the account's sets are numbers. *)
LEMMA AccountSizes ==
  ASSUME Inv, NEW i \in Ids, IsFiniteSet(Placing(i)), IsFiniteSet(WireOf(i))
  PROVE  /\ IsFiniteSet(Hopeful(i)) /\ IsFiniteSet(OrdersOf(i))
         /\ Cardinality(Placing(i)) \in Nat /\ Cardinality(WireOf(i)) \in Nat
         /\ Cardinality(Hopeful(i)) \in Nat /\ Cardinality(OrdersOf(i)) \in Nat
         /\ Cardinality(Hopeful(i)) <= Cardinality(Placing(i))
         /\ doubtful[i] \in Nat /\ overlaps[i] \in Nat
<1>1. /\ OrdersOf(i) \subseteq 1..Len(orders) /\ Len(orders) \in Nat
      /\ doubtful[i] \in Nat /\ overlaps[i] \in Nat
  BY DEF OrdersOf, Inv, TypeOK
<1>2. IsFiniteSet(1..Len(orders))
  BY <1>1, FS_Interval
<1>3. IsFiniteSet(OrdersOf(i))
  BY <1>1, <1>2, FS_Subset
<1>4. Hopeful(i) \subseteq Placing(i)
  BY DEF Hopeful
<1>5. IsFiniteSet(Hopeful(i)) /\ Cardinality(Hopeful(i)) <= Cardinality(Placing(i))
  BY <1>4, FS_Subset
<1>6. QED
  BY <1>1, <1>3, <1>5, FS_CardinalityType

(* The account explains the duplicates. *)
LEMMA AccountExplains ==
  ASSUME Inv, \A i \in Ids : Account(i)
  PROVE  DuplicatesExplained
<1> SUFFICES ASSUME NEW i \in Ids
             PROVE  Cardinality(OrdersOf(i)) <= 1 + doubtful[i] + overlaps[i]
  BY DEF DuplicatesExplained
<1>1. Account(i)
  OBVIOUS
<1>2. /\ Cardinality(Placing(i)) \in Nat /\ Cardinality(WireOf(i)) \in Nat
      /\ Cardinality(Hopeful(i)) \in Nat /\ Cardinality(OrdersOf(i)) \in Nat
      /\ Cardinality(Hopeful(i)) <= Cardinality(Placing(i))
      /\ doubtful[i] \in Nat /\ overlaps[i] \in Nat
  BY <1>1, AccountSizes DEF Account
<1>3. QED
  BY <1>1, <1>2 DEF Account, EndedShare

LEMMA InitAccount == Init => Begun /\ \A i \in Ids : Account(i)
<1> SUFFICES ASSUME Init PROVE Begun /\ \A i \in Ids : Account(i)
  OBVIOUS
<1>1. wire = {} /\ \A c \in Calls : call[c].pc = "idle"
  BY DEF Init
<1>2. Begun
  BY <1>1 DEF Begun
<1>3. ASSUME NEW i \in Ids PROVE Account(i)
  <2>1. Placing(i) = {} /\ WireOf(i) = {} /\ Hopeful(i) = {}
    BY <1>1 DEF Placing, Running, WireOf, Hopeful
  <2>2. OrdersOf(i) = {} /\ cache[i] = 0 /\ doubtful[i] = 0 /\ overlaps[i] = 0
    BY DEF Init, OrdersOf
  <2>3. IsFiniteSet({}) /\ Cardinality({}) = 0
    BY FS_EmptySet
  <2>4. QED
    BY <2>1, <2>2, <2>3 DEF Account, EndedShare
<1>4. QED
  BY <1>2, <1>3

(* A step of call c, which sends its attempt n if any: the other calls stay *)
(* as they are, and c adds or withdraws itself.                            *)
LEMMA OneCallMoves ==
  ASSUME Inv, Inv', Begun, NEW i \in Ids, Account(i), NEW c \in Calls, NEW n,
         \A d \in Calls \ {c} : call'[d] = call[d] /\ answer'[d] = answer[d],
         \/ call[c].pc = "idle"
         \/ call'[c].method = call[c].method /\ call'[c].id = call[c].id,
         wire' \subseteq wire \cup {<<c, n>>}, UNCHANGED orders
  PROVE  /\ IsFiniteSet(Placing(i)') /\ IsFiniteSet(WireOf(i)')
         /\ Cardinality(Placing(i)') + In(c, Placing(i))
              = Cardinality(Placing(i)) + In(c, Placing(i)')
         /\ Cardinality(Hopeful(i)') + In(c, Hopeful(i))
              = Cardinality(Hopeful(i)) + In(c, Hopeful(i)')
         /\ Cardinality(WireOf(i)') <= Cardinality(WireOf(i)) + 1
         /\ \/ wire' \subseteq wire
            \/ call'[c].method # "POST"
            \/ call'[c].id # i
            => Cardinality(WireOf(i)') <= Cardinality(WireOf(i))
         /\ Cardinality(OrdersOf(i)') = Cardinality(OrdersOf(i))
         /\ Cardinality(Placing(i)') \in Nat /\ Cardinality(WireOf(i)') \in Nat
         /\ Cardinality(Hopeful(i)') \in Nat /\ doubtful'[i] \in Nat /\ overlaps'[i] \in Nat
         /\ In(c, Placing(i)) \in {0, 1} /\ In(c, Placing(i)') \in {0, 1}
         /\ In(c, Hopeful(i)) \in {0, 1} /\ In(c, Hopeful(i)') \in {0, 1}
<1>1. IsFiniteSet(Placing(i)) /\ IsFiniteSet(WireOf(i)) /\ IsFiniteSet(Hopeful(i))
  BY AccountSizes DEF Account
<1>2. Placing(i)' \ {c} = Placing(i) \ {c} /\ Hopeful(i)' \ {c} = Hopeful(i) \ {c}
  BY DEF Placing, Hopeful, Running
<1>3. /\ IsFiniteSet(Placing(i)')
      /\ Cardinality(Placing(i)') + In(c, Placing(i))
           = Cardinality(Placing(i)) + In(c, Placing(i)')
      /\ Cardinality(Hopeful(i)') + In(c, Hopeful(i))
           = Cardinality(Hopeful(i)) + In(c, Hopeful(i)')
  BY <1>1, <1>2, CountChange
<1>4. \A a \in wire : a[1] \in Calls /\ call[a[1]].pc # "idle"
  BY DEF Inv, TypeOK, Begun
<1>5. \A a \in wire : call'[a[1]].method = call[a[1]].method /\ call'[a[1]].id = call[a[1]].id
  BY <1>4
<1>6. WireOf(i)' \subseteq WireOf(i) \cup {<<c, n>>}
  BY <1>5 DEF WireOf
<1>7. wire' \subseteq wire \/ call'[c].method # "POST" \/ call'[c].id # i
        => WireOf(i)' \subseteq WireOf(i)
  BY <1>5 DEF WireOf
<1>8. IsFiniteSet(WireOf(i) \cup {<<c, n>>})
      /\ Cardinality(WireOf(i) \cup {<<c, n>>}) <= Cardinality(WireOf(i)) + 1
      /\ Cardinality(WireOf(i)) \in Nat /\ Cardinality(WireOf(i) \cup {<<c, n>>}) \in Nat
  <2>1. Cardinality(WireOf(i)) \in Nat
    BY <1>1, FS_CardinalityType
  <2>2. IsFiniteSet(WireOf(i) \cup {<<c, n>>})
        /\ Cardinality(WireOf(i) \cup {<<c, n>>})
             = IF <<c, n>> \in WireOf(i) THEN Cardinality(WireOf(i))
                                         ELSE Cardinality(WireOf(i)) + 1
    BY <1>1, FS_AddElement
  <2>3. QED
    BY <2>1, <2>2
<1>9. IsFiniteSet(WireOf(i)') /\ Cardinality(WireOf(i)') \in Nat
      /\ Cardinality(WireOf(i)') <= Cardinality(WireOf(i) \cup {<<c, n>>})
  BY <1>6, <1>8, FS_Subset, FS_CardinalityType
<1>10. wire' \subseteq wire \/ call'[c].method # "POST" \/ call'[c].id # i
         => Cardinality(WireOf(i)') <= Cardinality(WireOf(i))
  BY <1>1, <1>7, FS_Subset
<1>11. Cardinality(WireOf(i)') <= Cardinality(WireOf(i)) + 1
  BY <1>8, <1>9
<1>12. OrdersOf(i)' = OrdersOf(i)
  BY DEF OrdersOf
<1>13. doubtful'[i] \in Nat /\ overlaps'[i] \in Nat
  BY DEF Inv, TypeOK
<1>14. IsFiniteSet(Hopeful(i)')
  BY <1>3, FS_Subset DEF Hopeful
<1>15. /\ Cardinality(Placing(i)') \in Nat /\ Cardinality(WireOf(i)') \in Nat
       /\ Cardinality(Hopeful(i)') \in Nat
  BY <1>3, <1>9, <1>14, FS_CardinalityType
<1>16. /\ In(c, Placing(i)) \in {0, 1} /\ In(c, Placing(i)') \in {0, 1}
       /\ In(c, Hopeful(i)) \in {0, 1} /\ In(c, Hopeful(i)') \in {0, 1}
  BY DEF In
<1>17. QED
  BY <1>3, <1>9, <1>10, <1>11, <1>12, <1>13, <1>15, <1>16

(* The account is a balance of numbers.                                    *)
LEMMA Balance ==
  ASSUME Inv, Inv', NEW i \in Ids, Account(i),
         IsFiniteSet(Placing(i)'), IsFiniteSet(WireOf(i)'),
         Cardinality(Placing(i)') <= 1 + overlaps'[i],
         Cardinality(OrdersOf(i)') + Cardinality(WireOf(i)')
           + doubtful[i] + Cardinality(Hopeful(i)) + EndedShare(i)
         <= Cardinality(OrdersOf(i)) + Cardinality(WireOf(i))
           + doubtful'[i] + Cardinality(Hopeful(i)') + EndedShare(i)'
  PROVE  Account(i)'
<1>1. /\ Cardinality(Placing(i)) \in Nat /\ Cardinality(WireOf(i)) \in Nat
      /\ Cardinality(Hopeful(i)) \in Nat /\ Cardinality(OrdersOf(i)) \in Nat
      /\ doubtful[i] \in Nat /\ overlaps[i] \in Nat
  BY AccountSizes DEF Account
<1>2. /\ Cardinality(Placing(i)') \in Nat /\ Cardinality(WireOf(i)') \in Nat
      /\ Cardinality(Hopeful(i)') \in Nat /\ Cardinality(OrdersOf(i)') \in Nat
      /\ doubtful'[i] \in Nat /\ overlaps'[i] \in Nat
  <2>1. /\ orders' \in Seq([id : Ids, status : Statuses])
        /\ doubtful'[i] \in Nat /\ overlaps'[i] \in Nat
    BY DEF Inv, TypeOK
  <2>2. IsFiniteSet(OrdersOf(i)')
    <3>1. OrdersOf(i)' \subseteq 1..Len(orders') /\ Len(orders') \in Nat
      BY <2>1 DEF OrdersOf
    <3>2. IsFiniteSet(1..Len(orders'))
      BY <3>1, FS_Interval
    <3>3. QED
      BY <3>1, <3>2, FS_Subset
  <2>3. Hopeful(i)' \subseteq Placing(i)'
    BY DEF Hopeful
  <2>4. IsFiniteSet(Hopeful(i)')
    BY <2>3, FS_Subset
  <2>5. QED
    BY <2>1, <2>2, <2>4, FS_CardinalityType
<1>3. EndedShare(i) \in Int /\ EndedShare(i)' \in Int
  BY <1>1, <1>2 DEF EndedShare
<1>4. Cardinality(OrdersOf(i)) + Cardinality(WireOf(i))
        <= doubtful[i] + Cardinality(Hopeful(i)) + EndedShare(i)
  BY DEF Account
<1>5. Cardinality(OrdersOf(i)') + Cardinality(WireOf(i)')
        <= doubtful'[i] + Cardinality(Hopeful(i)') + EndedShare(i)'
  BY <1>1, <1>2, <1>3, <1>4
<1>6. QED
  BY <1>5 DEF Account

(* An attempt that fails, or is refused, leaves a doubt where there was hope. *)
LEMMA FailureKeepsAccount ==
  ASSUME Inv, Inv', Begun, NEW i \in Ids, Account(i), NEW c \in Calls,
         TransportError(c) \/ ServerError(c) \/ Rejected(c) \/ Unreadable(c)
  PROVE  Account(i)' /\ Begun'
<1>1. call \in [Calls -> CallType] /\ answer \in [Calls -> Answers \cup {None}]
  BY DEF Inv, TypeOK, CallType
<1>2. /\ UNCHANGED <<cache, closed, orders, overlaps>> /\ wire' \subseteq wire
      /\ call[c].pc = "waiting" /\ call'[c].pc \in {"retryable", "backoff", "rejected", "failed"}
      /\ call'[c].method = call[c].method /\ call'[c].id = call[c].id
      /\ \A d \in Calls \ {c} : call'[d] = call[d] /\ answer'[d] = answer[d]
  <2>1. \E pc \in {"retryable", "backoff", "rejected", "failed"} : call' = [call EXCEPT ![c].pc = pc]
    BY DEF TransportError, ServerError, Rejected, Unreadable, BackOff
  <2>2. /\ UNCHANGED <<cache, closed, orders, overlaps>> /\ wire' \subseteq wire
        /\ call[c].pc = "waiting" /\ answer' = [answer EXCEPT ![c] = None]
    BY DEF TransportError, ServerError, Rejected, Unreadable
  <2>3. QED
    BY <1>1, <2>1, <2>2 DEF CallType
<1>3. Begun'
  BY ZenonT(60), <1>2 DEF Begun, Inv, TypeOK
<1>4. /\ IsFiniteSet(Placing(i)') /\ IsFiniteSet(WireOf(i)')
      /\ Cardinality(Placing(i)') + In(c, Placing(i))
           = Cardinality(Placing(i)) + In(c, Placing(i)')
      /\ Cardinality(Hopeful(i)') + In(c, Hopeful(i))
           = Cardinality(Hopeful(i)) + In(c, Hopeful(i)')
      /\ Cardinality(WireOf(i)') <= Cardinality(WireOf(i))
      /\ Cardinality(OrdersOf(i)') = Cardinality(OrdersOf(i))
      /\ Cardinality(Placing(i)') \in Nat /\ Cardinality(WireOf(i)') \in Nat
      /\ Cardinality(Hopeful(i)') \in Nat /\ doubtful'[i] \in Nat
      /\ In(c, Placing(i)) \in {0, 1} /\ In(c, Placing(i)') \in {0, 1}
      /\ In(c, Hopeful(i)) \in {0, 1}
  BY <1>2, OneCallMoves
<1>5. c \notin Hopeful(i)' /\ (c \in Placing(i)' => c \in Placing(i))
  BY <1>2 DEF Hopeful, Placing, Running
<1>6. In(c, Hopeful(i)') = 0 /\ In(c, Placing(i)') <= In(c, Placing(i))
  BY <1>5 DEF In
<1>7. In(c, Hopeful(i)) <= doubtful'[i] - doubtful[i]
  <2>1. doubtful \in [Ids -> Nat] /\ doubtful[i] \in Nat
    BY DEF Inv, TypeOK
  <2>2. doubtful'[i] = doubtful[i] \/ doubtful'[i] = doubtful[i] + 1
    BY <1>1, <2>1 DEF TransportError, ServerError, Rejected, Unreadable, Doubt, CallType
  <2>3. CASE c \in Hopeful(i)
    <3>1. /\ call[c].method = "POST" /\ call[c].id = i
          /\ answer[c] = None \/ answer[c].code = "2xx"
      BY <2>3 DEF Hopeful, Placing
    <3>2. doubtful' = [doubtful EXCEPT ![i] = @ + 1]
      BY <3>1 DEF TransportError, ServerError, Rejected, Unreadable, Doubt
    <3>3. QED
      BY <2>1, <3>2 DEF In
  <2>4. QED
    BY <2>1, <2>2, <2>3 DEF In
<1>8. /\ Cardinality(Placing(i)) \in Nat /\ Cardinality(WireOf(i)) \in Nat
      /\ Cardinality(Hopeful(i)) \in Nat /\ Cardinality(OrdersOf(i)) \in Nat
      /\ doubtful[i] \in Nat /\ overlaps[i] \in Nat
      /\ Cardinality(Placing(i)) <= 1 + overlaps[i]
  BY AccountSizes DEF Account
<1>9. Cardinality(Placing(i)') <= Cardinality(Placing(i))
  BY <1>4, <1>6, <1>8
<1>10. Cardinality(Hopeful(i)') = Cardinality(Hopeful(i)) - In(c, Hopeful(i))
  BY <1>4, <1>6, <1>8
<1>11. EndedShare(i)' >= EndedShare(i) /\ EndedShare(i) \in Int /\ EndedShare(i)' \in Int
  BY <1>2, <1>4, <1>8, <1>9 DEF EndedShare
<1>12. QED
  BY <1>2, <1>3, <1>4, <1>6, <1>7, <1>8, <1>9, <1>10, <1>11, Balance

(* The next attempt is on the wire, and its call hopes again; or the client *)
(* was closed, and the call ends.                                          *)
LEMMA RetryKeepsAccount ==
  ASSUME Inv, Inv', Begun, NEW i \in Ids, Account(i), NEW c \in Calls, Retry(c)
  PROVE  Account(i)' /\ Begun'
<1> DEFINE n == call[c].attempt + 1
<1>1. call \in [Calls -> CallType] /\ answer \in [Calls -> Answers \cup {None}]
  BY DEF Inv, TypeOK, CallType
<1>2. /\ UNCHANGED <<cache, closed, answer, orders, doubtful, overlaps>>
      /\ call[c].pc = "backoff" /\ answer[c] = None
      /\ call'[c].pc = (IF closed THEN "failed" ELSE "waiting")
      /\ call'[c].method = call[c].method /\ call'[c].id = call[c].id
      /\ \A d \in Calls \ {c} : call'[d] = call[d] /\ answer'[d] = answer[d]
      /\ wire' = IF closed THEN wire ELSE wire \cup {<<c, n>>}
  <2>1. answer[c] = None
    BY DEF Retry, Inv, RealAnswers
  <2>2. QED
    BY <1>1, <2>1 DEF Retry, Send
<1> HIDE DEF n
<1>3. Begun'
  BY <1>2 DEF Begun, Inv, TypeOK
<1>4. /\ IsFiniteSet(Placing(i)') /\ IsFiniteSet(WireOf(i)')
      /\ Cardinality(Placing(i)') + In(c, Placing(i))
           = Cardinality(Placing(i)) + In(c, Placing(i)')
      /\ Cardinality(Hopeful(i)') + In(c, Hopeful(i))
           = Cardinality(Hopeful(i)) + In(c, Hopeful(i)')
      /\ Cardinality(WireOf(i)') <= Cardinality(WireOf(i)) + 1
      /\ wire' \subseteq wire \/ call'[c].method # "POST" \/ call'[c].id # i
           => Cardinality(WireOf(i)') <= Cardinality(WireOf(i))
      /\ Cardinality(OrdersOf(i)') = Cardinality(OrdersOf(i))
      /\ Cardinality(Placing(i)') \in Nat /\ Cardinality(WireOf(i)') \in Nat
      /\ Cardinality(Hopeful(i)') \in Nat
      /\ In(c, Placing(i)) \in {0, 1} /\ In(c, Placing(i)') \in {0, 1}
      /\ In(c, Hopeful(i)') \in {0, 1}
  BY <1>2, OneCallMoves
<1>5. c \notin Hopeful(i) /\ (c \in Placing(i)' => c \in Placing(i))
  BY <1>2 DEF Hopeful, Placing, Running
<1>6. In(c, Hopeful(i)) = 0 /\ In(c, Placing(i)') <= In(c, Placing(i))
  BY <1>5 DEF In
<1>7. Cardinality(WireOf(i)') <= Cardinality(WireOf(i)) + In(c, Hopeful(i)')
  <2>1. CASE wire' \subseteq wire \/ call'[c].method # "POST" \/ call'[c].id # i
    BY <1>4, <2>1, AccountSizes DEF Account
  <2>2. CASE ~(wire' \subseteq wire) /\ call'[c].method = "POST" /\ call'[c].id = i
    <3>1. c \in Hopeful(i)'
      BY <1>2, <2>2 DEF Hopeful, Placing, Running
    <3>2. QED
      BY <1>4, <3>1 DEF In
  <2>3. QED
    BY <2>1, <2>2
<1>8. /\ Cardinality(Placing(i)) \in Nat /\ Cardinality(WireOf(i)) \in Nat
      /\ Cardinality(Hopeful(i)) \in Nat /\ Cardinality(OrdersOf(i)) \in Nat
      /\ doubtful[i] \in Nat /\ overlaps[i] \in Nat
      /\ Cardinality(Placing(i)) <= 1 + overlaps[i]
  BY AccountSizes DEF Account
<1>9. Cardinality(Placing(i)') <= Cardinality(Placing(i))
  BY <1>4, <1>6, <1>8
<1>10. Cardinality(Hopeful(i)') = Cardinality(Hopeful(i)) + In(c, Hopeful(i)')
  BY <1>4, <1>6, <1>8
<1>11. EndedShare(i)' >= EndedShare(i) /\ EndedShare(i) \in Int /\ EndedShare(i)' \in Int
  BY <1>2, <1>4, <1>8, <1>9 DEF EndedShare
<1>12. QED
  BY <1>2, <1>3, <1>4, <1>7, <1>8, <1>9, <1>10, <1>11, Balance

(* A call that begins pays for its own attempt by its hope, and for its    *)
(* place among the calls of the id by an overlap if it is not alone.       *)
LEMMA BeginKeepsAccount ==
  ASSUME Inv, Inv', Begun, NEW i \in Ids, Account(i), NEW c \in Calls,
         NEW k \in Ids, NEW method \in Methods, Begin(c, method, k)
  PROVE  Account(i)' /\ Begun'
<1>1. /\ call \in [Calls -> CallType] /\ answer \in [Calls -> Answers \cup {None}]
      /\ overlaps \in [Ids -> Nat]
  BY DEF Inv, TypeOK, CallType
<1>2. /\ UNCHANGED <<cache, closed, answer, orders, doubtful>>
      /\ call[c].pc = "idle" /\ answer[c] = None
      /\ call'[c].pc = (IF closed THEN "failed" ELSE "waiting")
      /\ call'[c].method = method /\ call'[c].id = k
      /\ \A d \in Calls \ {c} : call'[d] = call[d] /\ answer'[d] = answer[d]
      /\ wire' = (IF closed THEN wire ELSE wire \cup {<<c, 0>>})
      /\ overlaps' = IF method = "POST" /\ Placing(k) # {}
                     THEN [overlaps EXCEPT ![k] = @ + 1] ELSE overlaps
      /\ method = "POST" => cache[k] = 0
  <2>1. answer[c] = None
    BY DEF Begin, Inv, RealAnswers
  <2>2. QED
    BY <1>1, <2>1 DEF Begin, Send
<1>3. Begun'
  <2>1. \A d \in Calls : call'[d].pc = "idle" => call[d].pc = "idle" /\ d # c
    BY <1>2
  <2>2. \A a \in wire : a[1] \in Calls /\ call'[a[1]].pc # "idle"
    BY <2>1 DEF Begun, Inv, TypeOK
  <2>3. \A a \in wire' : a \in wire \/ a[1] = c
    BY <1>2
  <2>4. QED
    BY <2>1, <2>2, <2>3 DEF Begun
<1>4. /\ IsFiniteSet(Placing(i)') /\ IsFiniteSet(WireOf(i)')
      /\ Cardinality(Placing(i)') + In(c, Placing(i))
           = Cardinality(Placing(i)) + In(c, Placing(i)')
      /\ Cardinality(Hopeful(i)') + In(c, Hopeful(i))
           = Cardinality(Hopeful(i)) + In(c, Hopeful(i)')
      /\ Cardinality(WireOf(i)') <= Cardinality(WireOf(i)) + 1
      /\ wire' \subseteq wire \/ call'[c].method # "POST" \/ call'[c].id # i
           => Cardinality(WireOf(i)') <= Cardinality(WireOf(i))
      /\ Cardinality(OrdersOf(i)') = Cardinality(OrdersOf(i))
      /\ Cardinality(Placing(i)') \in Nat /\ Cardinality(WireOf(i)') \in Nat
      /\ Cardinality(Hopeful(i)') \in Nat /\ overlaps'[i] \in Nat
      /\ In(c, Placing(i)') \in {0, 1} /\ In(c, Hopeful(i)') \in {0, 1}
  BY <1>2, OneCallMoves
<1>5. c \notin Hopeful(i) /\ c \notin Placing(i)
  BY <1>2 DEF Hopeful, Placing, Running
<1>6. In(c, Hopeful(i)) = 0 /\ In(c, Placing(i)) = 0
  BY <1>5 DEF In
<1>7. Cardinality(WireOf(i)') <= Cardinality(WireOf(i)) + In(c, Hopeful(i)')
  <2>1. CASE wire' \subseteq wire \/ call'[c].method # "POST" \/ call'[c].id # i
    BY <1>4, <2>1, AccountSizes DEF Account
  <2>2. CASE ~(wire' \subseteq wire) /\ call'[c].method = "POST" /\ call'[c].id = i
    <3>1. c \in Hopeful(i)'
      BY <1>2, <2>2 DEF Hopeful, Placing, Running
    <3>2. QED
      BY <1>4, <3>1 DEF In
  <2>3. QED
    BY <2>1, <2>2
<1>8. /\ Cardinality(Placing(i)) \in Nat /\ Cardinality(WireOf(i)) \in Nat
      /\ Cardinality(Hopeful(i)) \in Nat /\ Cardinality(OrdersOf(i)) \in Nat
      /\ doubtful[i] \in Nat /\ overlaps[i] \in Nat
      /\ Cardinality(Placing(i)) <= 1 + overlaps[i]
  BY AccountSizes DEF Account
<1>9. Cardinality(Hopeful(i)') = Cardinality(Hopeful(i)) + In(c, Hopeful(i)')
      /\ Cardinality(Placing(i)') = Cardinality(Placing(i)) + In(c, Placing(i)')
  BY <1>4, <1>6, <1>8
<1>10. Cardinality(Placing(i)') <= 1 + overlaps'[i]
       /\ EndedShare(i)' >= EndedShare(i) /\ EndedShare(i) \in Int /\ EndedShare(i)' \in Int
  <2>1. CASE method = "POST" /\ k = i /\ Placing(i) # {}
    <3>1. overlaps'[i] = overlaps[i] + 1
      BY <1>1, <1>2, <2>1
    <3>2. QED
      BY <1>2, <1>4, <1>8, <1>9, <2>1, <3>1 DEF EndedShare
  <2>2. CASE method = "POST" /\ k = i /\ Placing(i) = {}
    <3>1. overlaps'[i] = overlaps[i] /\ Cardinality(Placing(i)) = 0
      BY <1>2, <2>2, FS_EmptySet
    <3>2. cache[i] = 0 /\ cache'[i] = 0
      BY <1>2, <2>2
    <3>3. QED
      BY <1>4, <1>8, <1>9, <3>1, <3>2 DEF EndedShare
  <2>3. CASE method # "POST" \/ k # i
    <3>1. c \notin Placing(i)' /\ overlaps'[i] = overlaps[i]
      BY <1>1, <1>2, <2>3 DEF Placing
    <3>2. Cardinality(Placing(i)') = Cardinality(Placing(i))
      BY <1>8, <1>9, <3>1 DEF In
    <3>3. QED
      BY <1>2, <1>8, <3>1, <3>2 DEF EndedShare
  <2>4. QED
    BY <2>1, <2>2, <2>3
<1>11. QED
  BY <1>2, <1>3, <1>4, <1>7, <1>8, <1>9, <1>10, Balance

(* A call that is given an order: its hope becomes the share of those that *)
(* have ended, from then on the cache of the id is set.                    *)
LEMMA AcceptedKeepsAccount ==
  ASSUME Inv, Inv', Begun, NEW i \in Ids, Account(i), NEW c \in Calls, Accepted(c)
  PROVE  Account(i)' /\ Begun'
<1>1. /\ call \in [Calls -> CallType] /\ answer \in [Calls -> Answers \cup {None}]
      /\ cache \in [Ids -> OrderNos]
  BY DEF Inv, TypeOK, CallType
<1>2. /\ UNCHANGED <<closed, wire, orders, doubtful, overlaps>>
      /\ call[c].pc = "waiting" /\ answer[c] # None /\ answer[c].code = "2xx"
      /\ call'[c].pc = "returned"
      /\ call'[c].method = call[c].method /\ call'[c].id = call[c].id
      /\ \A d \in Calls \ {c} : call'[d] = call[d] /\ answer'[d] = answer[d]
      /\ cache' = IF call[c].method = "POST"
                  THEN [cache EXCEPT ![call[c].id] = answer[c].order] ELSE cache
  BY <1>1 DEF Accepted, CallType
<1>3. Begun'
  BY <1>2 DEF Begun, Inv, TypeOK
<1>4. /\ IsFiniteSet(Placing(i)') /\ IsFiniteSet(WireOf(i)')
      /\ Cardinality(Placing(i)') + In(c, Placing(i))
           = Cardinality(Placing(i)) + In(c, Placing(i)')
      /\ Cardinality(Hopeful(i)') + In(c, Hopeful(i))
           = Cardinality(Hopeful(i)) + In(c, Hopeful(i)')
      /\ Cardinality(WireOf(i)') <= Cardinality(WireOf(i))
      /\ Cardinality(OrdersOf(i)') = Cardinality(OrdersOf(i))
      /\ Cardinality(Placing(i)') \in Nat /\ Cardinality(WireOf(i)') \in Nat
      /\ Cardinality(Hopeful(i)') \in Nat
  BY <1>2, OneCallMoves
<1>5. c \notin Hopeful(i)' /\ c \notin Placing(i)'
  BY <1>2 DEF Hopeful, Placing, Running
<1>6. In(c, Hopeful(i)') = 0 /\ In(c, Placing(i)') = 0
  BY <1>5 DEF In
<1>7. /\ Cardinality(Placing(i)) \in Nat /\ Cardinality(WireOf(i)) \in Nat
      /\ Cardinality(Hopeful(i)) \in Nat /\ Cardinality(OrdersOf(i)) \in Nat
      /\ doubtful[i] \in Nat /\ overlaps[i] \in Nat
      /\ Cardinality(Placing(i)) <= 1 + overlaps[i]
  BY AccountSizes DEF Account
<1>8. CASE call[c].method = "POST" /\ call[c].id = i
  <2>1. In(c, Hopeful(i)) = 1 /\ In(c, Placing(i)) = 1
    BY <1>2, <1>8 DEF Hopeful, Placing, Running, In
  <2>2. cache'[i] # 0
    <3>1. Fits(c, answer[c].order)
      BY <1>2 DEF Inv, RealAnswers
    <3>2. answer[c].order # 0
      BY SMTT(30), <3>1 DEF Fits, OrdersOf, Inv, TypeOK
    <3>3. cache'[i] = answer[c].order
      BY <1>1, <1>2, <1>8
    <3>4. QED
      BY <3>2, <3>3
  <2>3. /\ Cardinality(Placing(i)') = Cardinality(Placing(i)) - 1
        /\ Cardinality(Hopeful(i)') = Cardinality(Hopeful(i)) - 1
    BY <1>4, <1>6, <1>7, <2>1
  <2>4. /\ EndedShare(i)' >= EndedShare(i) + 1
        /\ EndedShare(i) \in Int /\ EndedShare(i)' \in Int
    BY <1>2, <1>7, <2>2, <2>3 DEF EndedShare
  <2>5. QED
    BY <1>2, <1>3, <1>4, <1>7, <2>3, <2>4, Balance
<1>9. CASE ~(call[c].method = "POST" /\ call[c].id = i)
  <2>1. In(c, Hopeful(i)) = 0 /\ In(c, Placing(i)) = 0
    BY <1>9 DEF Hopeful, Placing, In
  <2>2. cache'[i] = cache[i]
    BY <1>1, <1>2, <1>9
  <2>3. /\ Cardinality(Placing(i)') = Cardinality(Placing(i))
        /\ Cardinality(Hopeful(i)') = Cardinality(Hopeful(i))
    BY <1>4, <1>6, <1>7, <2>1
  <2>4. EndedShare(i)' = EndedShare(i) /\ EndedShare(i) \in Int
    BY <1>2, <1>7, <2>2, <2>3 DEF EndedShare
  <2>5. QED
    BY <1>2, <1>3, <1>4, <1>7, <2>3, <2>4, Balance
<1>10. QED
  BY <1>8, <1>9

(* A repeat of an id that has a result, closing the client, and stuttering *)
(* enter nothing in the account.                                           *)
LEMMA QuietKeepsAccount ==
  ASSUME Inv, Begun, NEW i \in Ids, Account(i),
         \/ \E c \in Calls, k \in Ids : RepeatKnown(c, k)
         \/ Close
         \/ UNCHANGED vars
  PROVE  Account(i)' /\ Begun'
<1>1. UNCHANGED <<cache, wire, answer, orders, doubtful, overlaps>>
  BY DEF RepeatKnown, Close, vars
<1>2. \A d \in Calls : \/ call'[d] = call[d]
                       \/ call[d].pc = "idle" /\ call'[d].pc = "returned"
  BY DEF RepeatKnown, Close, vars, Inv, TypeOK
<1>3. Placing(i)' = Placing(i)
  BY <1>2 DEF Placing, Running
<1>4. Hopeful(i)' = Hopeful(i)
  BY <1>1, <1>2, <1>3 DEF Hopeful, Placing, Running
<1>5. \A a \in wire : a[1] \in Calls /\ call[a[1]].pc # "idle"
  BY DEF Begun, Inv, TypeOK
<1>6. WireOf(i)' = WireOf(i) /\ Begun'
  BY <1>1, <1>2, <1>5 DEF WireOf, Begun
<1>7. OrdersOf(i)' = OrdersOf(i)
  BY <1>1 DEF OrdersOf
<1>8. QED
  BY <1>1, <1>3, <1>4, <1>6, <1>7 DEF Account, EndedShare

(* An attempt that the exchange handles leaves the wire: it becomes an     *)
(* order, or its call may lose hope, and those of other ids are untouched. *)
LEMMA ExchangeKeepsAccount ==
  ASSUME Inv, Inv', Begun, NEW i \in Ids, Account(i), NEW c \in Calls,
         NEW n \in 0..MaxRetries, ExchangeStep(c, n)
  PROVE  Account(i)' /\ Begun'
<1>1. PICK ans : Handle(c, n, ans)
  BY DEF ExchangeStep, PlaceOrder, CancelOrder, QueryOrder, Refuse
<1>2. /\ UNCHANGED <<call, cache, doubtful, overlaps>>
      /\ <<c, n>> \in wire /\ wire' = wire \ {<<c, n>>}
      /\ \A d \in Calls \ {c} : answer'[d] = answer[d]
  BY <1>1 DEF Handle, Inv, TypeOK
<1>3. Begun'
  BY <1>2 DEF Begun
<1>4. Placing(i)' = Placing(i) /\ EndedShare(i)' = EndedShare(i)
  BY <1>2 DEF Placing, Running, EndedShare
<1>5. WireOf(i)' = WireOf(i) \ {<<c, n>>}
  BY <1>2 DEF WireOf
<1>6. /\ Cardinality(Placing(i)) \in Nat /\ Cardinality(WireOf(i)) \in Nat
      /\ Cardinality(Hopeful(i)) \in Nat /\ Cardinality(OrdersOf(i)) \in Nat
      /\ doubtful[i] \in Nat /\ overlaps[i] \in Nat
      /\ IsFiniteSet(Placing(i)) /\ IsFiniteSet(WireOf(i))
      /\ IsFiniteSet(Hopeful(i)) /\ IsFiniteSet(OrdersOf(i))
      /\ Cardinality(Placing(i)) <= 1 + overlaps[i] /\ EndedShare(i) \in Int
  <2>1. /\ Cardinality(Placing(i)) \in Nat /\ Cardinality(WireOf(i)) \in Nat
        /\ Cardinality(Hopeful(i)) \in Nat /\ Cardinality(OrdersOf(i)) \in Nat
        /\ doubtful[i] \in Nat /\ overlaps[i] \in Nat
        /\ IsFiniteSet(Placing(i)) /\ IsFiniteSet(WireOf(i))
        /\ IsFiniteSet(Hopeful(i)) /\ IsFiniteSet(OrdersOf(i))
        /\ Cardinality(Placing(i)) <= 1 + overlaps[i]
    BY AccountSizes DEF Account
  <2>2. QED
    BY <2>1 DEF EndedShare
<1>7. /\ Len(orders) \in Nat /\ DOMAIN orders = 1..Len(orders)
      /\ orders \in Seq([id : Ids, status : Statuses])
  BY DEF Inv, TypeOK
<1>8. Hopeful(i)' \ {c} = Hopeful(i) \ {c}
  BY <1>2, <1>4 DEF Hopeful, Placing
<1>9. /\ IsFiniteSet(Hopeful(i)') /\ Cardinality(Hopeful(i)') \in Nat
      /\ Cardinality(Hopeful(i)') + In(c, Hopeful(i))
           = Cardinality(Hopeful(i)) + In(c, Hopeful(i)')
  BY <1>6, <1>8, CountChange
<1>10. CancelOrder(c, n) \/ QueryOrder(c, n) \/ Refuse(c, n) => OrdersOf(i)' = OrdersOf(i)
  <2>1. CASE CancelOrder(c, n)
    <3>1. PICK k \in OrdersOf(call[c].id) : orders' = [orders EXCEPT ![k].status = "CANCELED"]
      BY <2>1 DEF CancelOrder
    <3>2. k \in 1..Len(orders)
      BY <1>7 DEF OrdersOf
    <3>3. \E s \in Statuses : orders' = [orders EXCEPT ![k] = [orders[k] EXCEPT !.status = s]]
      BY <3>1 DEF Statuses
    <3>4. DOMAIN orders' = DOMAIN orders
      BY <3>1
    <3>5. orders[k] \in [id : Ids, status : Statuses]
      BY <1>7, <3>2, OrderType
    <3>6. \A j \in DOMAIN orders : orders'[j].id = orders[j].id
      BY <3>3, <3>5
    <3>7. QED
      BY <3>4, <3>6 DEF OrdersOf
  <2>2. CASE QueryOrder(c, n) \/ Refuse(c, n)
    BY <2>2 DEF QueryOrder, Refuse, OrdersOf
  <2>3. QED
    BY <2>1, <2>2
<1>11. PlaceOrder(c, n) =>
         /\ call[c].method = "POST"
         /\ OrdersOf(i)' = IF call[c].id = i THEN OrdersOf(i) \cup {Len(orders) + 1}
                                             ELSE OrdersOf(i)
  <2> SUFFICES ASSUME PlaceOrder(c, n)
               PROVE  /\ call[c].method = "POST"
                      /\ OrdersOf(i)' = IF call[c].id = i THEN OrdersOf(i) \cup {Len(orders) + 1}
                                                          ELSE OrdersOf(i)
    OBVIOUS
  <2> DEFINE new == [id |-> call[c].id, status |-> "NEW"]
  <2>1. call[c].method = "POST" /\ orders' = Append(orders, new)
    BY DEF PlaceOrder
  <2>2. new.id = call[c].id
    OBVIOUS
  <2> HIDE DEF new
  <2>3. /\ DOMAIN orders' = 1..(Len(orders) + 1)
        /\ orders'[Len(orders) + 1] = new
        /\ \A k \in 1..Len(orders) : orders'[k] = orders[k]
    BY <1>7, <2>1
  <2>4. 1..(Len(orders) + 1) = (1..Len(orders)) \cup {Len(orders) + 1}
    BY <1>7
  <2>5. QED
    BY <1>7, <2>1, <2>2, <2>3, <2>4 DEF OrdersOf
<1>12. CASE call[c].method = "POST" /\ call[c].id = i
  <2>1. /\ IsFiniteSet(WireOf(i)') /\ Cardinality(WireOf(i)') \in Nat
        /\ Cardinality(WireOf(i)') = Cardinality(WireOf(i)) - 1
    <3>1. <<c, n>> \in WireOf(i)
      BY <1>2, <1>12 DEF WireOf
    <3>2. QED
      BY <1>5, <1>6, <3>1, FS_RemoveElement, FS_CardinalityType
  <2>2. CASE PlaceOrder(c, n)
    <3>1. Len(orders) + 1 \notin OrdersOf(i)
      BY <1>7 DEF OrdersOf
    <3>2. /\ IsFiniteSet(OrdersOf(i) \cup {Len(orders) + 1})
          /\ Cardinality(OrdersOf(i) \cup {Len(orders) + 1}) = Cardinality(OrdersOf(i)) + 1
      BY <1>6, <3>1, FS_AddElement
    <3>3. Cardinality(OrdersOf(i)') = Cardinality(OrdersOf(i)) + 1
      BY <1>11, <1>12, <2>2, <3>2
    <3>4. c \in Hopeful(i) => c \in Hopeful(i)'
      <4>1. Handle(c, n, Answer("2xx", Len(orders) + 1))
        BY <2>2 DEF PlaceOrder
      <4>2. answer'[c] = answer[c] \/ answer'[c] = Answer("2xx", Len(orders) + 1)
        BY <4>1 DEF Handle, Inv, TypeOK
      <4>3. Answer("2xx", Len(orders) + 1).code = "2xx"
        BY DEF Answer
      <4>4. QED
        BY <1>2, <1>4, <4>2, <4>3 DEF Hopeful
    <3>5. Cardinality(Hopeful(i)') >= Cardinality(Hopeful(i))
      BY <1>6, <1>9, <3>4 DEF In
    <3>6. QED
      BY <1>2, <1>3, <1>4, <1>6, <1>9, <2>1, <3>3, <3>5, Balance
  <2>3. CASE Refuse(c, n)
    <3>1. Cardinality(Hopeful(i)') >= Cardinality(Hopeful(i)) - 1
      BY <1>6, <1>9 DEF In
    <3>2. Cardinality(OrdersOf(i)') = Cardinality(OrdersOf(i))
      BY <1>10, <2>3
    <3>3. QED
      BY <1>2, <1>3, <1>4, <1>6, <1>9, <2>1, <3>1, <3>2, Balance
  <2>4. QED
    BY <1>12, <2>2, <2>3 DEF ExchangeStep, CancelOrder, QueryOrder
<1>13. CASE ~(call[c].method = "POST" /\ call[c].id = i)
  <2>1. WireOf(i)' = WireOf(i)
    BY <1>5, <1>13 DEF WireOf
  <2>2. Hopeful(i)' = Hopeful(i)
    <3>1. c \notin Placing(i)
      BY <1>13 DEF Placing
    <3>2. c \notin Hopeful(i) /\ c \notin Hopeful(i)'
      BY <1>4, <3>1 DEF Hopeful
    <3>3. QED
      BY <1>8, <3>2
  <2>3. OrdersOf(i)' = OrdersOf(i)
    BY <1>10, <1>11, <1>13 DEF ExchangeStep
  <2>4. QED
    BY <1>2, <1>3, <1>4, <2>1, <2>2, <2>3 DEF Account
<1>14. QED
  BY <1>12, <1>13

(* Every step keeps the account. *)
LEMMA NextAccount ==
  Inv /\ Inv' /\ Begun /\ (\A i \in Ids : Account(i)) /\ [Next]_vars
    => Begun' /\ \A i \in Ids : Account(i)'
<1> SUFFICES ASSUME Inv, Inv', Begun, \A i \in Ids : Account(i), [Next]_vars, NEW i \in Ids
             PROVE  Begun' /\ Account(i)'
  BY IdsAssumption
<1>1. Account(i)
  OBVIOUS
<1>2. CASE \E c \in Calls : CallStep(c)
  <2>1. PICK c \in Calls : CallStep(c)
    BY <1>2
  <2>2. CASE \E k \in Ids : RepeatKnown(c, k)
    BY <1>1, <2>2, QuietKeepsAccount
  <2>3. CASE \E k \in Ids : \E method \in Methods : Begin(c, method, k)
    BY <1>1, <2>3, BeginKeepsAccount
  <2>4. CASE TransportError(c) \/ ServerError(c) \/ Rejected(c) \/ Unreadable(c)
    BY <1>1, <2>4, FailureKeepsAccount
  <2>5. CASE Accepted(c)
    BY <1>1, <2>5, AcceptedKeepsAccount
  <2>6. CASE Retry(c)
    BY <1>1, <2>6, RetryKeepsAccount
  <2>7. QED
    BY <2>1, <2>2, <2>3, <2>4, <2>5, <2>6 DEF CallStep, AttemptEnds
<1>3. CASE \E c \in Calls : \E n \in 0..MaxRetries : ExchangeStep(c, n)
  BY <1>1, <1>3, ExchangeKeepsAccount
<1>4. CASE Close \/ UNCHANGED vars
  BY <1>1, <1>4, QuietKeepsAccount
<1>5. QED
  BY <1>2, <1>3, <1>4 DEF Next

-----------------------------------------------------------------------------
(* The client's variables keep their types; no call makes more attempts    *)
(* than max_retries allows.                                                *)
THEOREM ClientTypeCorrect == Spec => []TypeOK
<1>1. Inv => TypeOK
  BY DEF Inv
<1>2. QED
  BY InitInv, NextInv, <1>1, PTL DEF Spec

(* What a call returns is an order of the exchange under the id it asked   *)
(* for, cancelled if it cancelled it, and so is what the cache holds: late *)
(* and lost answers, refusals and retries never mix up orders.             *)
THEOREM ResultsAlwaysReal == Spec => []ResultsAreReal
<1>1. Inv => ResultsAreReal
  BY DEF Inv, RealResults, Fits, ResultsAreReal
<1>2. QED
  BY InitInv, NextInv, <1>1, PTL DEF Spec

(* The calls of an id that did not overlap are all given the same order,   *)
(* for every number of calls and of retries.                               *)
THEOREM CallersAlwaysAgree == Spec => []CallersAgree
<1>1. Inv => CallersAgree
  BY DEF Inv
<1>2. QED
  BY InitInv, NextInv, <1>1, PTL DEF Spec

(* An id has at most one order more for each of its attempts that ended    *)
(* without a verdict and for each of its calls that overlapped another,    *)
(* for every number of calls, ids and retries.                             *)
THEOREM DuplicatesAlwaysExplained == Spec => []DuplicatesExplained
<1> DEFINE Accounts == Begun /\ \A i \in Ids : Account(i)
<1>1. Init => Inv /\ Accounts
  BY InitInv, InitAccount
<1>2. (Inv /\ Accounts) /\ [Next]_vars => (Inv /\ Accounts)'
  BY NextInv, NextAccount
<1>3. Inv /\ Accounts => DuplicatesExplained
  BY AccountExplains
<1>4. QED
  BY <1>1, <1>2, <1>3, PTL DEF Spec
=============================================================================
