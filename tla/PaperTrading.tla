----------------------------- MODULE PaperTrading -----------------------------
(***************************************************************************)
(* Simulated arbitrage trades over shared balances: PaperTradingEngine     *)
(* (paper_trading/engine.py), BalanceManager (paper_trading/balance.py),   *)
(* the order rules (paper_trading/rules.py) and the operator's changes of  *)
(* the same balances (POST /api/paper-trading/balances and                 *)
(* POST /api/capital/transfer).                                            *)
(*                                                                         *)
(* Each leg of a trade runs without a suspension point; other trades and   *)
(* the operator come between the legs, where execute_arbitrage() sleeps.   *)
(* Quantities, prices and the clock's seconds are whole numbers.  The      *)
(* books of a request are arbitrary, so the one of the sell leg may be     *)
(* chosen when that leg runs.                                              *)
(* Operators marked "Fault" are mutated forms of the one that follows      *)
(* them; they show which property notices the bug and occur nowhere else.  *)
(***************************************************************************)
EXTENDS Vwap, Integers, FiniteSetsExt

CONSTANTS
  Exchanges,
  Trades,      (* the calls of execute_arbitrage()                         *)
  Books,       (* the sides a request may hold: functions price |-> amount *)
  Quantities,  (* the quantities a request may ask for                     *)
  Opening,     (* funding of every balance at startup                      *)
  Amounts,     (* amounts an operator may set or transfer                  *)
  MinQuantity, MinNotional, StepSize,  (* SymbolRules; tick_size is 1      *)
  RateLimit,   (* rate_limit_orders_per_second                             *)
  MaxSeconds,  (* bound: seconds that pass                                 *)
  MaxChanges   (* bound: operator changes of a balance                     *)

ASSUME RulesAssumption ==
  /\ MinQuantity \in Nat /\ MinNotional \in Nat
  /\ StepSize \in Nat \ {0} /\ RateLimit \in Nat \ {0}
ASSUME RequestsAssumption ==
  /\ Quantities \subseteq Nat \ {0} /\ Amounts \subseteq Nat /\ Opening \in Nat
ASSUME BooksAssumption ==
  \A side \in Books : /\ DOMAIN side \subseteq Nat /\ IsFiniteSet(DOMAIN side)
                       /\ side \in [DOMAIN side -> Nat]
ASSUME TradingBoundsAssumption == MaxSeconds \in Nat \ {0} /\ MaxChanges \in Nat

Assets == {"base", "quote"}
NoWindow == 0   (* RateLimiter._window = None: seconds start at 1          *)
Idle == [leg |-> "none"]

VARIABLES
  balances,  (* BalanceManager._balances                                   *)
  limiters,  (* PaperTradingEngine._rate_limiters                          *)
  trade,     (* each trade: the leg it has placed, and what it filled      *)
  second,    (* the clock                                                  *)
  changes,   (* operator changes made                                      *)
  given      (* history: what the operator has put in less taken out       *)

vars == <<balances, limiters, trade, second, changes, given>>

Legs == {"bought", "sold", "unsold"}
Deals == [leg : Legs, buyer : Exchanges, seller : Exchanges, bought : Nat \ {0},
          reserved : Nat, paid : Nat, sold : Nat, earned : Nat]

TypeOK ==
  /\ balances \in [Exchanges -> [Assets -> [total : Int, locked : Nat]]]
  /\ limiters \in [Exchanges -> [window : 0..MaxSeconds, count : 0..RateLimit]]
  /\ trade \in [Trades -> {Idle} \cup Deals]
  /\ second \in 1..MaxSeconds /\ changes \in 0..MaxChanges
  /\ given \in [Exchanges -> [Assets -> Int]]

Init ==
  /\ balances = [e \in Exchanges |-> [a \in Assets |-> [total |-> Opening, locked |-> 0]]]
  /\ limiters = [e \in Exchanges |-> [window |-> NoWindow, count |-> 0]]
  /\ trade = [t \in Trades |-> Idle]
  /\ second = 1
  /\ changes = 0
  /\ given = [e \in Exchanges |-> [a \in Assets |-> Opening]]

-----------------------------------------------------------------------------
(* BalanceManager.                                                         *)

Available(b) == b.total - b.locked
Less(a, b) == IF a > b THEN a - b ELSE 0   (* max(0, a - b)                *)

Reserve(b, amount) == [b EXCEPT !.locked = @ + amount]

(* Fault: only what was used is unlocked. *)
SettleUsedOnly(b, reserved, actual) ==
  [total |-> b.total - actual, locked |-> Less(b.locked, actual)]

Settle(b, reserved, actual) ==
  [total |-> b.total - actual, locked |-> Less(b.locked, reserved)]

Credit(b, amount) == [b EXCEPT !.total = @ + amount]

-----------------------------------------------------------------------------
(* RateLimiter.allow(): a window of one second with a counter.             *)

Used(e) == IF limiters[e].window = second THEN limiters[e].count ELSE 0

(* Fault: one order too many. *)
AllowedOneMore(e) == Used(e) <= RateLimit

Allowed(e) == Used(e) < RateLimit
CountOrder(e) ==
  limiters' = [limiters EXCEPT ![e] = [window |-> second, count |-> Used(e) + 1]]

(* validate_order() *)
ValidOrder(quantity, price) ==
  /\ quantity >= MinQuantity
  /\ quantity * price >= MinNotional
  /\ quantity % StepSize = 0

-----------------------------------------------------------------------------
(* _place_leg(): an order is refused before it is counted, counted and     *)
(* refused for lack of funds, or filled from the book and settled.         *)

Refused(e, levels, quantity) ==
  levels = <<>> \/ ~ValidOrder(quantity, levels[1].price) \/ ~Allowed(e)

Unfunded(e, asset, amount) == Available(balances[e][asset]) < amount

(* The balance of a leg after reserve() and settle(). *)
Charged(e, asset, reserved, actual) ==
  [balances EXCEPT ![e][asset] = Settle(Reserve(@, reserved), reserved, actual)]

(* Fault: a buyer is charged what was reserved. *)
BuyCostReserved(reserved, fill) == reserved

(* actual_amount: what a buyer spends is what its fill cost; a seller is   *)
(* charged the quantity it reserved.                                       *)
BuyCost(reserved, fill) == fill.notional
SellCost(reserved, fill) == reserved

(* The buy leg did not fill: expired, refused or unfunded.  The trade ends *)
(* with nothing done.                                                      *)
BuyFails(t) ==
  /\ trade[t] = Idle
  /\ \E buyer \in Exchanges, asks \in Books, quantity \in Quantities :
       LET levels == AsksSorted(asks)
       IN  /\ ~Refused(buyer, levels, quantity)
           /\ Unfunded(buyer, "quote", quantity * levels[1].price)
           /\ CountOrder(buyer)
  /\ UNCHANGED <<balances, trade, second, changes, given>>

Buy(t) ==
  /\ trade[t] = Idle
  /\ \E buyer, seller \in Exchanges, asks \in Books, quantity \in Quantities :
       LET levels == AsksSorted(asks)
           fill == ComputeVwap(levels, quantity)
           reserved == quantity * levels[1].price
       IN  /\ buyer # seller
           /\ ~Refused(buyer, levels, quantity)
           /\ ~Unfunded(buyer, "quote", reserved)
           /\ CountOrder(buyer)
           /\ balances' = Charged(buyer, "quote", reserved, BuyCost(reserved, fill))
           /\ trade' = [trade EXCEPT ![t] =
                [leg |-> "bought", buyer |-> buyer, seller |-> seller,
                 bought |-> fill.filled, reserved |-> reserved, paid |-> fill.notional,
                 sold |-> 0, earned |-> 0]]
  /\ UNCHANGED <<second, changes, given>>

(* After the delay: the sell leg asks for what was bought.  When it does   *)
(* not fill, the whole purchase is left over.                              *)
SellFails(t) ==
  /\ trade[t].leg = "bought"
  /\ LET e == trade[t].seller
         quantity == trade[t].bought
     IN  \E bids \in Books :
           LET levels == BidsSorted(bids)
           IN  IF Refused(e, levels, quantity)
                 THEN UNCHANGED limiters
                 ELSE Unfunded(e, "base", quantity) /\ CountOrder(e)
  /\ trade' = [trade EXCEPT ![t].leg = "unsold"]
  /\ UNCHANGED <<balances, second, changes, given>>

(* _settle() follows at once and credits what the filled part earned.      *)
Sell(t) ==
  /\ trade[t].leg = "bought"
  /\ LET e == trade[t].seller
         quantity == trade[t].bought
     IN  \E bids \in Books :
           LET levels == BidsSorted(bids)
               fill == ComputeVwap(levels, quantity)
               charged == Charged(e, "base", quantity, SellCost(quantity, fill))
           IN  /\ ~Refused(e, levels, quantity)
               /\ ~Unfunded(e, "base", quantity)
               /\ CountOrder(e)
               /\ balances' = [charged EXCEPT ![e]["quote"] = Credit(@, fill.notional)]
               /\ trade' = [trade EXCEPT ![t].leg = "sold", ![t].sold = fill.filled,
                                         ![t].earned = fill.notional]
  /\ UNCHANGED <<second, changes, given>>

-----------------------------------------------------------------------------
(* The operator.                                                           *)

SetBalance ==
  /\ changes < MaxChanges
  /\ changes' = changes + 1
  /\ \E e \in Exchanges, a \in Assets, amount \in Amounts :
       /\ balances' = [balances EXCEPT ![e][a] = [total |-> amount, locked |-> 0]]
       /\ given' = [given EXCEPT ![e][a] = @ + amount - balances[e][a].total]
  /\ UNCHANGED <<limiters, trade, second>>

(* Fault: the transfer is credited even when the debit fails. *)
TransferUnchecked ==
  /\ changes < MaxChanges
  /\ changes' = changes + 1
  /\ \E from, to \in Exchanges, a \in Assets, amount \in Amounts \ {0} :
       /\ from # to
       /\ balances' = [balances EXCEPT ![from][a] = Credit(@, -amount),
                                       ![to][a] = Credit(@, amount)]
       /\ given' = [given EXCEPT ![from][a] = @ - amount, ![to][a] = @ + amount]
  /\ UNCHANGED <<limiters, trade, second>>

(* record_manual_transfer(): debit(), then credit(). *)
Transfer ==
  /\ changes < MaxChanges
  /\ changes' = changes + 1
  /\ \E from, to \in Exchanges, a \in Assets, amount \in Amounts \ {0} :
       /\ from # to
       /\ Available(balances[from][a]) >= amount
       /\ balances' = [balances EXCEPT ![from][a] = Credit(@, -amount),
                                       ![to][a] = Credit(@, amount)]
       /\ given' = [given EXCEPT ![from][a] = @ - amount, ![to][a] = @ + amount]
  /\ UNCHANGED <<limiters, trade, second>>

Tick ==
  /\ second < MaxSeconds
  /\ second' = second + 1
  /\ UNCHANGED <<balances, limiters, trade, changes, given>>

Next ==
  \/ \E t \in Trades : Buy(t) \/ BuyFails(t) \/ Sell(t) \/ SellFails(t)
  \/ SetBalance \/ Transfer \/ Tick

Spec == Init /\ [][Next]_vars

-----------------------------------------------------------------------------
(* Properties.                                                             *)

(* Whatever trades and operator changes interleave, no funds stay reserved *)
(* while a trade waits between its legs or after it has ended.             *)
NothingStaysLocked == \A e \in Exchanges, a \in Assets : balances[e][a].locked = 0

Placed == {t \in Trades : trade[t] # Idle}

(* What the trades have moved, unit by unit: a buyer has paid its fill, and *)
(* a seller has given all it was asked for and earned its fill.            *)
Units(t, amount) == {t} \X (1..amount)

Buys(e) == {t \in Placed : trade[t].buyer = e}
Sales(e) == {t \in Placed : trade[t].leg = "sold" /\ trade[t].seller = e}

Paid(e) == UNION {Units(t, trade[t].paid) : t \in Buys(e)}
Delivered(e) == UNION {Units(t, trade[t].bought) : t \in Sales(e)}
Earned(e) == UNION {Units(t, trade[t].earned) : t \in Sales(e)}

(* Every balance is what the operator put there and what trades moved: no  *)
(* payment is lost, repeated or booked at the other exchange, whatever     *)
(* interleaves with a trade between its legs.  What was bought is credited *)
(* nowhere, and a sale that fills in part takes the whole quantity.        *)
LedgerExact ==
  \A e \in Exchanges :
    /\ balances[e]["quote"].total
         = given[e]["quote"] + Cardinality(Earned(e)) - Cardinality(Paid(e))
    /\ balances[e]["base"].total = given[e]["base"] - Cardinality(Delivered(e))

(* Trades are paid from funds that are there, except that a fill may go    *)
(* deeper into the book than the best price it was reserved at: only such  *)
(* a purchase overdraws its quote balance, and by no more than its excess. *)
OverdraftIsExcess ==
  \A e \in Exchanges, a \in Assets :
    balances[e][a].total < 0 =>
      a = "quote" /\ \E t \in Placed :
        /\ trade[t].buyer = e
        /\ -balances[e][a].total <= trade[t].paid - trade[t].reserved

(* Only what was sold leaves a seller's balance: settle() is said to take  *)
(* what was really spent and to release the rest (balance.py:54).          *)
OnlySoldLeaves ==
  \A e \in Exchanges :
    balances[e]["base"].total
      = given[e]["base"] - MapThenSumSet(LAMBDA t : trade[t].sold, Sales(e))
=============================================================================
