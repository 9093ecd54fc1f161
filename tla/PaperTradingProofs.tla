-------------------------- MODULE PaperTradingProofs --------------------------
(***************************************************************************)
(* Simulated trades, for every set of exchanges, trades, books and         *)
(* requests: types, reservations, the ledger and overdrafts.  A fill is    *)
(* what the loop over sorted levels returns (FillOfLevels, among the       *)
(* proofs of what is computed).  A leg then leaves nothing reserved, and   *)
(* adds its units to those that its buyer has paid or its seller has       *)
(* earned, from which they are disjoint.                                   *)
(***************************************************************************)
EXTENDS PaperTrading, CalculationsProofs

(* Both sorted sides of a book are sequences of its levels. *)
LEMMA SidesAreLevels ==
  ASSUME NEW side \in Books
  PROVE  AsksSorted(side) \in Seq(Levels) /\ BidsSorted(side) \in Seq(Levels)
<1>1. PICK P \in SUBSET Nat : IsFiniteSet(P) /\ side \in [P -> Nat]
  BY BooksAssumption
<1>2. PICK n \in Nat : \E up, down :
        /\ AsksSorted(side) = LevelsAt(side, up) /\ BidsSorted(side) = LevelsAt(side, down)
        /\ Enumerates(up, n, side) /\ Rising(up, n)
        /\ Enumerates(down, n, side) /\ Falling(down, n)
  BY <1>1, SidesAreSorted
<1>3. PICK up, down :
        /\ AsksSorted(side) = LevelsAt(side, up) /\ BidsSorted(side) = LevelsAt(side, down)
        /\ Enumerates(up, n, side) /\ Enumerates(down, n, side)
  BY <1>2
<1>4. Priced(side)
  BY <1>1 DEF Priced, PricesOf
<1>5. QED
  BY <1>3, <1>4, LevelsAreLevels

-----------------------------------------------------------------------------
(* What each leg does, once its reservation is settled. *)

(* An order that is allowed keeps its exchange's counter within the limit. *)
LEMMA LimiterCounts ==
  ASSUME TypeOK, NEW e \in Exchanges, Allowed(e), CountOrder(e)
  PROVE  limiters' \in [Exchanges -> [window : 0..MaxSeconds, count : 0..RateLimit]]
<1>1. limiters[e].count \in 0..RateLimit /\ second \in 0..MaxSeconds /\ RateLimit \in Nat
  BY RulesAssumption, TradingBoundsAssumption DEF TypeOK
<1>2. Used(e) + 1 \in 0..RateLimit
  BY <1>1 DEF Used, Allowed
<1>3. QED
  BY <1>1, <1>2 DEF CountOrder, TypeOK

(* A leg leaves nothing reserved and takes what it used. *)
LEMMA ChargedTakes ==
  ASSUME TypeOK, NothingStaysLocked, NEW e \in Exchanges, NEW a \in Assets,
         NEW reserved \in Nat, NEW actual \in Nat
  PROVE  Charged(e, a, reserved, actual)
           = [balances EXCEPT ![e][a] = [total |-> balances[e][a].total - actual, locked |-> 0]]
<1>1. balances[e][a].total \in Int /\ balances[e][a].locked = 0
  BY DEF TypeOK, NothingStaysLocked
<1>2. balances[e][a] = [total |-> balances[e][a].total, locked |-> balances[e][a].locked]
  BY DEF TypeOK
<1>3. Reserve(balances[e][a], reserved)
        = [total |-> balances[e][a].total, locked |-> reserved]
  BY <1>1, <1>2 DEF Reserve
<1>4. Settle(Reserve(balances[e][a], reserved), reserved, actual)
        = [total |-> balances[e][a].total - actual, locked |-> 0]
  BY <1>3 DEF Settle, Less
<1>5. QED
  BY <1>4 DEF Charged

(* A buy leg that fills takes what it paid from its buyer and leaves       *)
(* nothing locked.                                                         *)
LEMMA BuyDoes ==
  ASSUME TypeOK, NothingStaysLocked, NEW t \in Trades, Buy(t)
  PROVE  /\ trade[t] = Idle
         /\ limiters' \in [Exchanges -> [window : 0..MaxSeconds, count : 0..RateLimit]]
         /\ \E deal \in Deals :
              /\ deal.leg = "bought"
              /\ trade' = [trade EXCEPT ![t] = deal]
              /\ deal.reserved <= balances[deal.buyer]["quote"].total
              /\ balances' = [balances EXCEPT ![deal.buyer]["quote"] =
                   [total |-> balances[deal.buyer]["quote"].total - deal.paid, locked |-> 0]]
<1>1. PICK buyer \in Exchanges, seller \in Exchanges, asks \in Books, quantity \in Quantities :
        LET levels == AsksSorted(asks)
            fill == ComputeVwap(levels, quantity)
            reserved == quantity * levels[1].price
        IN  /\ buyer # seller
            /\ ~Refused(buyer, levels, quantity)
            /\ ~Unfunded(buyer, "quote", reserved)
            /\ CountOrder(buyer)
            /\ balances' = Charged(buyer, "quote", reserved, BuyCost(reserved, fill))
            /\ trade' = [trade EXCEPT ![t] =
                 [leg |-> "bought", buyer |-> buyer, seller |-> seller,
                  bought |-> fill.filled, reserved |-> reserved, paid |-> fill.notional,
                  sold |-> 0, earned |-> 0]]
  BY DEF Buy
<1>2. PICK levels, fill, reserved :
        /\ levels = AsksSorted(asks) /\ fill = ComputeVwap(levels, quantity)
        /\ reserved = quantity * levels[1].price
  OBVIOUS
<1>3. levels \in Seq(Levels) /\ levels # <<>> /\ quantity \in Nat \ {0}
  BY <1>1, <1>2, SidesAreLevels, RequestsAssumption DEF Refused
<1>4. reserved \in Nat
  <2>1. 1 \in 1..Len(levels)
    BY <1>3
  <2>2. levels[1] \in Levels
    BY <1>3, <2>1
  <2>3. levels[1].price \in Nat
    BY <2>2 DEF Levels
  <2>4. QED
    BY <1>2, <1>3, <2>3
<1>5. fill.filled \in Nat \ {0} /\ fill.notional \in Nat
  <2>1. fill \in Filling(quantity) /\ fill.filled > 0
    BY <1>2, <1>3, FillOfLevels
  <2>2. QED
    BY <2>1 DEF Filling
<1> DEFINE deal == [leg |-> "bought", buyer |-> buyer, seller |-> seller,
                    bought |-> fill.filled, reserved |-> reserved, paid |-> fill.notional,
                    sold |-> 0, earned |-> 0]
<1>6. deal \in Deals
  BY <1>4, <1>5 DEF Deals, Legs
<1>7. trade' = [trade EXCEPT ![t] = deal] /\ trade[t] = Idle
  BY <1>1, <1>2 DEF Buy
<1>8. limiters' \in [Exchanges -> [window : 0..MaxSeconds, count : 0..RateLimit]]
  BY <1>1, LimiterCounts DEF Refused
<1>9. reserved <= balances[buyer]["quote"].total
  <2>1. balances[buyer]["quote"].total \in Int /\ balances[buyer]["quote"].locked = 0
    BY DEF TypeOK, NothingStaysLocked, Assets
  <2>2. ~Unfunded(buyer, "quote", reserved)
    BY <1>1, <1>2
  <2>3. QED
    BY <1>4, <2>1, <2>2 DEF Unfunded, Available
<1>10. balances' = [balances EXCEPT ![buyer]["quote"] =
                      [total |-> balances[buyer]["quote"].total - fill.notional, locked |-> 0]]
  <2>1. balances' = Charged(buyer, "quote", reserved, fill.notional)
    BY <1>1, <1>2 DEF BuyCost
  <2>2. "quote" \in Assets
    BY DEF Assets
  <2>3. Charged(buyer, "quote", reserved, fill.notional)
          = [balances EXCEPT ![buyer]["quote"] =
               [total |-> balances[buyer]["quote"].total - fill.notional, locked |-> 0]]
    BY <1>4, <1>5, <2>2, ChargedTakes
  <2>4. QED
    BY <2>1, <2>3
<1>11. QED
  BY <1>6, <1>7, <1>8, <1>9, <1>10

(* A sell leg takes what was bought from its seller and credits what it    *)
(* earned.                                                                 *)
LEMMA SellDoes ==
  ASSUME TypeOK, NothingStaysLocked, NEW t \in Trades, Sell(t)
  PROVE  /\ trade[t] \in Deals /\ trade[t].leg = "bought"
         /\ limiters' \in [Exchanges -> [window : 0..MaxSeconds, count : 0..RateLimit]]
         /\ trade[t].bought <= balances[trade[t].seller]["base"].total
         /\ \E deal \in Deals :
              /\ trade' = [trade EXCEPT ![t] = deal]
              /\ deal.leg = "sold" /\ deal.buyer = trade[t].buyer
              /\ deal.seller = trade[t].seller /\ deal.bought = trade[t].bought
              /\ deal.reserved = trade[t].reserved /\ deal.paid = trade[t].paid
              /\ balances' = [balances EXCEPT ![deal.seller] = [a \in Assets |->
                   [total |-> IF a = "base" THEN balances[deal.seller][a].total - deal.bought
                                            ELSE balances[deal.seller][a].total + deal.earned,
                    locked |-> 0]]]
<1> DEFINE e == trade[t].seller
<1>1. trade[t].leg = "bought" /\ trade[t] \in Deals /\ e \in Exchanges
  <2>1. trade[t].leg = "bought" /\ trade[t] \in {Idle} \cup Deals
    BY DEF Sell, TypeOK
  <2>2. trade[t] # Idle
    BY <2>1 DEF Idle
  <2>3. QED
    BY <2>1, <2>2 DEF Deals
<1>2. PICK quantity : quantity = trade[t].bought
  BY SMTT(30)
<1>3. PICK bids \in Books :
        /\ ~Refused(e, BidsSorted(bids), quantity)
        /\ ~Unfunded(e, "base", quantity)
        /\ CountOrder(e)
        /\ balances' = [Charged(e, "base", quantity,
                                SellCost(quantity, ComputeVwap(BidsSorted(bids), quantity)))
                          EXCEPT ![e]["quote"] =
                            Credit(@, ComputeVwap(BidsSorted(bids), quantity).notional)]
        /\ trade' = [trade EXCEPT ![t].leg = "sold",
                       ![t].sold = ComputeVwap(BidsSorted(bids), quantity).filled,
                       ![t].earned = ComputeVwap(BidsSorted(bids), quantity).notional]
  BY <1>2 DEF Sell
<1>4. PICK fill : fill = ComputeVwap(BidsSorted(bids), quantity)
  OBVIOUS
<1>5. quantity \in Nat \ {0}
  BY <1>1, <1>2 DEF Deals
<1>6. fill.filled \in Nat /\ fill.notional \in Nat
  <2>1. BidsSorted(bids) \in Seq(Levels)
    BY SidesAreLevels
  <2>2. fill \in Filling(quantity)
    BY <1>4, <1>5, <2>1, FillOfLevels
  <2>3. QED
    BY <2>2 DEF Filling
<1> DEFINE deal == [trade[t] EXCEPT !.leg = "sold", !.sold = fill.filled,
                                    !.earned = fill.notional]
<1>7. /\ deal \in Deals /\ deal.leg = "sold" /\ deal.buyer = trade[t].buyer
      /\ deal.seller = e /\ deal.bought = quantity /\ deal.earned = fill.notional
      /\ deal.reserved = trade[t].reserved /\ deal.paid = trade[t].paid
  BY <1>1, <1>2, <1>6 DEF Deals, Legs
<1>8. trade' = [trade EXCEPT ![t] = deal]
  BY <1>3, <1>4
<1>9. limiters' \in [Exchanges -> [window : 0..MaxSeconds, count : 0..RateLimit]]
  BY <1>1, <1>3, LimiterCounts DEF Refused
<1>10. \A a \in Assets : balances[e][a].total \in Int /\ balances[e][a].locked = 0
  BY <1>1 DEF TypeOK, NothingStaysLocked
<1>11. quantity <= balances[e]["base"].total
  BY SMTT(30), <1>3, <1>5, <1>10 DEF Unfunded, Available, Assets
<1>12. balances' = [balances EXCEPT ![e] = [a \in Assets |->
                     [total |-> IF a = "base" THEN balances[e][a].total - quantity
                                              ELSE balances[e][a].total + fill.notional,
                      locked |-> 0]]]
  <2>1. Charged(e, "base", quantity, quantity)
          = [balances EXCEPT ![e]["base"] =
               [total |-> balances[e]["base"].total - quantity, locked |-> 0]]
    BY <1>1, <1>5, ChargedTakes DEF Assets
  <2>2. balances' = [[balances EXCEPT ![e]["base"] =
                       [total |-> balances[e]["base"].total - quantity, locked |-> 0]]
                       EXCEPT ![e]["quote"] = Credit(@, fill.notional)]
    BY <1>3, <1>4, <2>1 DEF SellCost
  <2>3. balances \in [Exchanges -> [Assets -> [total : Int, locked : Nat]]]
    BY DEF TypeOK
  <2>4. Credit(balances[e]["quote"], fill.notional)
          = [total |-> balances[e]["quote"].total + fill.notional, locked |-> 0]
    BY <1>1, <1>10, <2>3 DEF Credit, Assets
  <2>5. [[balances[e] EXCEPT !["base"] =
             [total |-> balances[e]["base"].total - quantity, locked |-> 0]]
           EXCEPT !["quote"] = Credit(@, fill.notional)]
        = [a \in Assets |->
             [total |-> IF a = "base" THEN balances[e][a].total - quantity
                                      ELSE balances[e][a].total + fill.notional,
              locked |-> 0]]
    BY <1>1, <2>3, <2>4 DEF Assets
  <2>6. QED
    BY <1>1, <2>2, <2>3, <2>5
<1>13. QED
  BY <1>1, <1>2, <1>7, <1>8, <1>9, <1>11, <1>12

(* A sale that fails leaves only the trade's leg and the counter changed. *)
LEMMA SellFailsDoes ==
  ASSUME TypeOK, NEW t \in Trades, SellFails(t)
  PROVE  /\ trade[t] \in Deals /\ trade[t].leg = "bought"
         /\ limiters' \in [Exchanges -> [window : 0..MaxSeconds, count : 0..RateLimit]]
         /\ \E deal \in Deals :
              /\ trade' = [trade EXCEPT ![t] = deal]
              /\ deal.leg = "unsold" /\ deal.buyer = trade[t].buyer
              /\ deal.seller = trade[t].seller /\ deal.bought = trade[t].bought
              /\ deal.reserved = trade[t].reserved /\ deal.paid = trade[t].paid
<1>1. trade[t].leg = "bought" /\ trade[t] \in Deals
  <2>1. trade[t].leg = "bought" /\ trade[t] \in {Idle} \cup Deals
    BY DEF SellFails, TypeOK
  <2>2. trade[t] # Idle
    BY <2>1 DEF Idle
  <2>3. QED
    BY <2>1, <2>2
<1>2. trade[t].seller \in Exchanges
  BY <1>1 DEF Deals
<1>3. limiters' \in [Exchanges -> [window : 0..MaxSeconds, count : 0..RateLimit]]
  BY <1>2, LimiterCounts DEF SellFails, Refused, TypeOK
<1> DEFINE deal == [trade[t] EXCEPT !.leg = "unsold"]
<1>4. /\ deal \in Deals /\ deal.leg = "unsold" /\ deal.buyer = trade[t].buyer
      /\ deal.seller = trade[t].seller /\ deal.bought = trade[t].bought
      /\ deal.reserved = trade[t].reserved /\ deal.paid = trade[t].paid
  BY <1>1 DEF Deals, Legs
<1>5. trade' = [trade EXCEPT ![t] = deal]
  BY DEF SellFails
<1>6. QED
  BY <1>1, <1>3, <1>4, <1>5

-----------------------------------------------------------------------------
(* The units of the ledger. *)

(* New units add their number to those that were counted. *)
LEMMA UnitsAdd ==
  ASSUME NEW S, IsFiniteSet(S), NEW t, NEW n \in Nat, \A x \in Units(t, n) : x \notin S
  PROVE  /\ IsFiniteSet(S \cup Units(t, n))
         /\ Cardinality(S \cup Units(t, n)) = Cardinality(S) + n
<1>1. IsFiniteSet(1..n) /\ Cardinality(1..n) = n
  BY FS_Interval
<1>2. IsFiniteSet({t}) /\ Cardinality({t}) = 1
  BY FS_Singleton
<1>3. IsFiniteSet(Units(t, n)) /\ Cardinality(Units(t, n)) = n
  <2>1. /\ IsFiniteSet({t} \X (1..n))
        /\ Cardinality({t} \X (1..n)) = Cardinality({t}) * Cardinality(1..n)
    BY <1>1, <1>2, FS_Product
  <2>2. Cardinality({t}) * Cardinality(1..n) = n
    BY <1>1, <1>2
  <2>3. QED
    BY <2>1, <2>2 DEF Units
<1>4. S \cap Units(t, n) = {} /\ Cardinality({}) = 0
  BY FS_EmptySet
<1>5. /\ IsFiniteSet(S \cup Units(t, n))
      /\ Cardinality(S \cup Units(t, n))
           = Cardinality(S) + Cardinality(Units(t, n)) - Cardinality(S \cap Units(t, n))
  BY <1>3, FS_Union
<1>6. Cardinality(S) \in Nat
  BY FS_CardinalityType
<1>7. Cardinality(S \cup Units(t, n)) = Cardinality(S) + n - 0
  BY Zenon, <1>3, <1>4, <1>5
<1>8. QED
  BY <1>5, <1>6, <1>7

(* A recorded trade is not an idle one. *)
LEMMA DealsArePlaced ==
  ASSUME NEW deal \in Deals
  PROVE  deal # Idle
BY DEF Deals, Legs, Idle

(* A purchase is one more payment of its buyer. *)
LEMMA BuyPays ==
  ASSUME TypeOK, NEW t \in Trades, NEW deal \in Deals, trade[t] = Idle,
         deal.leg = "bought", trade' = [trade EXCEPT ![t] = deal], NEW e \in Exchanges
  PROVE  /\ Paid(e)' = IF e = deal.buyer THEN Paid(e) \cup Units(t, deal.paid) ELSE Paid(e)
         /\ \A x \in Units(t, deal.paid) : x \notin Paid(e)
         /\ Delivered(e)' = Delivered(e) /\ Earned(e)' = Earned(e)
<1>1. trade \in [Trades -> {Idle} \cup Deals] /\ deal # Idle
  BY DealsArePlaced DEF TypeOK
<1>2. trade'[t] = deal /\ \A u \in Trades \ {t} : trade'[u] = trade[u]
  BY <1>1
<1>3. t \notin Placed /\ Placed' = Placed \cup {t}
  BY <1>1, <1>2 DEF Placed
<1>4. t \notin Buys(e) /\ Buys(e)' = IF e = deal.buyer THEN Buys(e) \cup {t} ELSE Buys(e)
  BY <1>2, <1>3 DEF Buys, Placed
<1>5. t \notin Sales(e) /\ Sales(e)' = Sales(e)
  BY <1>2, <1>3 DEF Sales, Placed
<1>6. \A u \in Buys(e) : trade'[u] = trade[u]
  BY <1>2, <1>4 DEF Buys, Placed
<1>7. \A u \in Sales(e) : trade'[u] = trade[u]
  BY <1>2, <1>5 DEF Sales, Placed
<1>8. Delivered(e)' = Delivered(e) /\ Earned(e)' = Earned(e)
  BY <1>5, <1>7 DEF Delivered, Earned
<1>9. Paid(e)' = IF e = deal.buyer THEN Paid(e) \cup Units(t, deal.paid) ELSE Paid(e)
  BY <1>2, <1>4, <1>6 DEF Paid
<1>10. ASSUME NEW x \in Units(t, deal.paid), x \in Paid(e) PROVE FALSE
  <2>1. PICK u \in Buys(e) : x \in Units(u, trade[u].paid)
    BY <1>10 DEF Paid
  <2>2. u = t
    BY <1>10, <2>1 DEF Units
  <2>3. QED
    BY <1>4, <2>1, <2>2
<1>11. QED
  BY <1>8, <1>9, <1>10

(* The end of a trade changes no payment, and is one more delivery and one *)
(* more revenue of its seller when the sale filled.                        *)
LEMMA SaleEarns ==
  ASSUME TypeOK, NEW t \in Trades, NEW deal \in Deals, trade[t] \in Deals,
         trade[t].leg = "bought", deal.leg \in {"sold", "unsold"},
         deal.buyer = trade[t].buyer, deal.paid = trade[t].paid,
         trade' = [trade EXCEPT ![t] = deal], NEW e \in Exchanges
  PROVE  /\ Paid(e)' = Paid(e)
         /\ Delivered(e)' = IF deal.leg = "sold" /\ deal.seller = e
                              THEN Delivered(e) \cup Units(t, deal.bought) ELSE Delivered(e)
         /\ Earned(e)' = IF deal.leg = "sold" /\ deal.seller = e
                           THEN Earned(e) \cup Units(t, deal.earned) ELSE Earned(e)
         /\ \A n \in Nat : \A x \in Units(t, n) : x \notin Delivered(e) /\ x \notin Earned(e)
<1>1. trade \in [Trades -> {Idle} \cup Deals] /\ deal # Idle /\ trade[t] # Idle
  BY DealsArePlaced DEF TypeOK
<1>2. trade'[t] = deal /\ \A u \in Trades \ {t} : trade'[u] = trade[u]
  BY <1>1
<1>3. t \in Placed /\ Placed' = Placed
  BY <1>1, <1>2 DEF Placed
<1>4. /\ Buys(e)' = Buys(e)
      /\ \A u \in Buys(e) : trade'[u].paid = trade[u].paid
  BY <1>2, <1>3 DEF Buys, Placed
<1>5. /\ t \notin Sales(e)
      /\ Sales(e)' = IF deal.leg = "sold" /\ deal.seller = e THEN Sales(e) \cup {t} ELSE Sales(e)
  BY <1>2, <1>3 DEF Sales, Placed
<1>6. \A u \in Sales(e) : trade'[u] = trade[u]
  BY <1>2, <1>5 DEF Sales, Placed
<1>7. Paid(e)' = Paid(e)
  BY <1>4 DEF Paid
<1>8. Delivered(e)' = IF deal.leg = "sold" /\ deal.seller = e
                        THEN Delivered(e) \cup Units(t, deal.bought) ELSE Delivered(e)
  BY <1>2, <1>5, <1>6 DEF Delivered
<1>9. Earned(e)' = IF deal.leg = "sold" /\ deal.seller = e
                     THEN Earned(e) \cup Units(t, deal.earned) ELSE Earned(e)
  BY <1>2, <1>5, <1>6 DEF Earned
<1>10. ASSUME NEW n \in Nat, NEW x \in Units(t, n), x \in Delivered(e) \/ x \in Earned(e)
       PROVE  FALSE
  <2>1. PICK u \in Sales(e) : \E m : x \in Units(u, m)
    BY <1>10 DEF Delivered, Earned
  <2>2. u = t
    BY <1>10, <2>1 DEF Units
  <2>3. QED
    BY <1>5, <2>1, <2>2
<1>11. QED
  BY <1>7, <1>8, <1>9, <1>10

-----------------------------------------------------------------------------
(* The inductive invariant: types, nothing reserved, and a ledger of       *)
(* finitely many units that balances.                                      *)

Finite(e) == IsFiniteSet(Paid(e)) /\ IsFiniteSet(Delivered(e)) /\ IsFiniteSet(Earned(e))

BooksOpen == \A e \in Exchanges : Finite(e)

(* What was paid, delivered and earned can be counted. *)
LEMMA SizesAreNaturals ==
  ASSUME BooksOpen, NEW e \in Exchanges
  PROVE  /\ Cardinality(Paid(e)) \in Nat /\ Cardinality(Delivered(e)) \in Nat
         /\ Cardinality(Earned(e)) \in Nat
BY FS_CardinalityType DEF BooksOpen, Finite

TradingInv == TypeOK /\ NothingStaysLocked /\ BooksOpen /\ LedgerExact /\ OverdraftIsExcess

(* At the start every balance is what the operator put there. *)
LEMMA TradingInitInv == Init => TradingInv
<1> SUFFICES ASSUME Init PROVE TradingInv
  OBVIOUS
<1>1. Opening \in Nat /\ RateLimit \in Nat /\ 0 \in 0..RateLimit /\ 0 \in 0..MaxSeconds
      /\ 1 \in 1..MaxSeconds /\ 0 \in 0..MaxChanges
  BY RequestsAssumption, RulesAssumption, TradingBoundsAssumption
<1>2. TypeOK
  BY <1>1 DEF Init, TypeOK, NoWindow
<1>3. NothingStaysLocked
  BY DEF Init, NothingStaysLocked
<1>4. \A e \in Exchanges : Paid(e) = {} /\ Delivered(e) = {} /\ Earned(e) = {}
  BY DEF Init, Paid, Delivered, Earned, Buys, Sales, Placed
<1>5. BooksOpen
  BY <1>4, FS_EmptySet DEF BooksOpen, Finite
<1>6. LedgerExact
  <2>1. Cardinality({}) = 0
    BY FS_EmptySet
  <2>2. ASSUME NEW e \in Exchanges
        PROVE  /\ balances[e]["quote"].total = Opening /\ balances[e]["base"].total = Opening
               /\ given[e]["quote"] = Opening /\ given[e]["base"] = Opening
    BY DEF Init, Assets
  <2>3. ASSUME NEW e \in Exchanges
        PROVE  /\ Cardinality(Paid(e)) = 0 /\ Cardinality(Delivered(e)) = 0
               /\ Cardinality(Earned(e)) = 0
    BY Zenon, <1>4, <2>1
  <2>4. QED
    BY <1>1, <2>2, <2>3 DEF LedgerExact
<1>7. OverdraftIsExcess
  BY <1>1 DEF Init, OverdraftIsExcess
<1>8. QED
  BY <1>2, <1>3, <1>5, <1>6, <1>7 DEF TradingInv

(* A buy leg keeps the invariant. *)
LEMMA BuyKeeps ==
  ASSUME TradingInv, NEW t \in Trades, Buy(t)
  PROVE  TradingInv'
<1>1. PICK deal \in Deals :
        /\ deal.leg = "bought" /\ trade[t] = Idle
        /\ trade' = [trade EXCEPT ![t] = deal]
        /\ deal.reserved <= balances[deal.buyer]["quote"].total
        /\ balances' = [balances EXCEPT ![deal.buyer]["quote"] =
             [total |-> balances[deal.buyer]["quote"].total - deal.paid, locked |-> 0]]
  BY BuyDoes DEF TradingInv
<1>2. /\ deal.buyer \in Exchanges /\ deal.paid \in Nat /\ deal.reserved \in Nat
      /\ balances \in [Exchanges -> [Assets -> [total : Int, locked : Nat]]]
      /\ trade \in [Trades -> {Idle} \cup Deals]
      /\ given' = given /\ second' = second /\ changes' = changes
      /\ \A e \in Exchanges : given[e]["quote"] \in Int /\ given[e]["base"] \in Int
  BY DEF TradingInv, TypeOK, Deals, Buy, Assets
<1>3. \A e \in Exchanges : /\ balances[e]["base"].total \in Int
                            /\ balances[e]["quote"].total \in Int
  BY <1>2 DEF Assets
<1>4. ASSUME NEW e \in Exchanges
      PROVE  /\ balances'[e]["base"] = balances[e]["base"]
             /\ e # deal.buyer => balances'[e]["quote"] = balances[e]["quote"]
             /\ e = deal.buyer =>
                  /\ balances'[e]["quote"].total = balances[e]["quote"].total - deal.paid
                  /\ balances'[e]["quote"].locked = 0
  BY <1>1, <1>2 DEF Assets
<1>5. TypeOK'
  <2>1. balances' \in [Exchanges -> [Assets -> [total : Int, locked : Nat]]]
    <3>1. [total |-> balances[deal.buyer]["quote"].total - deal.paid, locked |-> 0]
            \in [total : Int, locked : Nat]
      BY <1>2, <1>3
    <3>2. "quote" \in Assets
      BY DEF Assets
    <3>3. QED
      BY <1>1, <1>2, <3>1, <3>2
  <2>2. trade' \in [Trades -> {Idle} \cup Deals]
    BY <1>1, <1>2
  <2>3. limiters' \in [Exchanges -> [window : 0..MaxSeconds, count : 0..RateLimit]]
    BY BuyDoes DEF TradingInv
  <2>4. QED
    BY <1>2, <2>1, <2>2, <2>3 DEF TradingInv, TypeOK
<1>6. NothingStaysLocked'
  <2>1. SUFFICES ASSUME NEW e \in Exchanges, NEW a \in Assets
                 PROVE  balances'[e][a].locked = 0
    BY DEF NothingStaysLocked
  <2>2. balances[e][a].locked = 0
    BY DEF TradingInv, NothingStaysLocked
  <2>3. QED
    BY <1>4, <2>2 DEF Assets
<1>7. ASSUME NEW e \in Exchanges
      PROVE  /\ e = deal.buyer => Paid(e)' = Paid(e) \cup Units(t, deal.paid)
             /\ e # deal.buyer => Paid(e)' = Paid(e)
             /\ \A x \in Units(t, deal.paid) : x \notin Paid(e)
             /\ Delivered(e)' = Delivered(e) /\ Earned(e)' = Earned(e)
  BY <1>1, BuyPays DEF TradingInv
<1>8. ASSUME NEW e \in Exchanges
      PROVE  /\ Finite(e)' /\ Cardinality(Delivered(e)') = Cardinality(Delivered(e))
             /\ Cardinality(Earned(e)') = Cardinality(Earned(e))
             /\ e = deal.buyer => Cardinality(Paid(e)') = Cardinality(Paid(e)) + deal.paid
             /\ e # deal.buyer => Cardinality(Paid(e)') = Cardinality(Paid(e))
  <2>1. IsFiniteSet(Paid(e)) /\ IsFiniteSet(Delivered(e)) /\ IsFiniteSet(Earned(e))
    BY DEF TradingInv, BooksOpen, Finite
  <2>2. /\ IsFiniteSet(Paid(e) \cup Units(t, deal.paid))
        /\ Cardinality(Paid(e) \cup Units(t, deal.paid)) = Cardinality(Paid(e)) + deal.paid
    BY <1>2, <1>7, <2>1, UnitsAdd
  <2>3. QED
    BY <1>7, <2>1, <2>2 DEF Finite
<1>9. BooksOpen'
  BY <1>8 DEF BooksOpen
<1>10. LedgerExact'
  <2>1. SUFFICES ASSUME NEW e \in Exchanges
                 PROVE  /\ balances'[e]["quote"].total = given'[e]["quote"]
                             + Cardinality(Earned(e)') - Cardinality(Paid(e)')
                        /\ balances'[e]["base"].total
                             = given'[e]["base"] - Cardinality(Delivered(e)')
    BY DEF LedgerExact
  <2>2. /\ balances[e]["quote"].total
             = given[e]["quote"] + Cardinality(Earned(e)) - Cardinality(Paid(e))
        /\ balances[e]["base"].total = given[e]["base"] - Cardinality(Delivered(e))
    BY DEF TradingInv, LedgerExact
  <2>3. /\ Cardinality(Paid(e)) \in Nat /\ Cardinality(Delivered(e)) \in Nat
        /\ Cardinality(Earned(e)) \in Nat
    BY SizesAreNaturals DEF TradingInv
  <2>4. /\ balances'[e]["base"].total = balances[e]["base"].total
        /\ given'[e]["base"] = given[e]["base"] /\ given'[e]["quote"] = given[e]["quote"]
    BY <1>2, <1>4
  <2>5. balances'[e]["base"].total = given'[e]["base"] - Cardinality(Delivered(e)')
    BY <1>8, <2>2, <2>4
  <2>6. CASE e = deal.buyer
    <3>1. balances'[e]["quote"].total = balances[e]["quote"].total - deal.paid
      BY <1>4, <2>6
    <3>2. QED
      BY <1>2, <1>8, <2>2, <2>3, <2>4, <2>5, <2>6, <3>1
  <2>7. CASE e # deal.buyer
    BY <1>4, <1>8, <2>2, <2>4, <2>5, <2>7
  <2>8. QED
    BY <2>6, <2>7
<1>11. OverdraftIsExcess'
  <2>1. SUFFICES ASSUME NEW e \in Exchanges, NEW a \in Assets, balances'[e][a].total < 0
                 PROVE  a = "quote" /\ \E u \in Placed' :
                          /\ trade'[u].buyer = e
                          /\ -balances'[e][a].total <= trade'[u].paid - trade'[u].reserved
    BY DEF OverdraftIsExcess
  <2>2. t \in Placed' /\ trade'[t] = deal
    BY <1>1, <1>2, DealsArePlaced DEF Placed
  <2>3. CASE a = "quote" /\ e = deal.buyer
    BY <1>1, <1>2, <1>3, <1>4, <2>1, <2>2, <2>3
  <2>4. CASE ~(a = "quote" /\ e = deal.buyer)
    <3>1. balances'[e][a] = balances[e][a]
      BY <1>4, <2>4 DEF Assets
    <3>2. /\ a = "quote"
          /\ \E u \in Placed : /\ trade[u].buyer = e
                               /\ -balances[e][a].total <= trade[u].paid - trade[u].reserved
      BY <2>1, <3>1 DEF TradingInv, OverdraftIsExcess
    <3>3. \A u \in Placed : u \in Placed' /\ trade'[u] = trade[u]
      BY <1>1, <1>2 DEF Placed
    <3>4. QED
      BY <3>1, <3>2, <3>3
  <2>5. QED
    BY <2>3, <2>4
<1>12. QED
  BY <1>5, <1>6, <1>9, <1>10, <1>11 DEF TradingInv

(* A sell leg keeps the invariant. *)
LEMMA SellKeeps ==
  ASSUME TradingInv, NEW t \in Trades, Sell(t)
  PROVE  TradingInv'
<1>1. PICK deal \in Deals :
        /\ trade[t] \in Deals /\ trade[t].leg = "bought"
        /\ trade[t].bought <= balances[trade[t].seller]["base"].total
        /\ trade' = [trade EXCEPT ![t] = deal]
        /\ deal.leg = "sold" /\ deal.buyer = trade[t].buyer
        /\ deal.seller = trade[t].seller /\ deal.bought = trade[t].bought
        /\ deal.reserved = trade[t].reserved /\ deal.paid = trade[t].paid
        /\ balances' = [balances EXCEPT ![deal.seller] = [a \in Assets |->
             [total |-> IF a = "base" THEN balances[deal.seller][a].total - deal.bought
                                      ELSE balances[deal.seller][a].total + deal.earned,
              locked |-> 0]]]
  BY SellDoes DEF TradingInv
<1>2. PICK e :
        /\ e = deal.seller /\ deal.bought <= balances[e]["base"].total
        /\ balances' = [balances EXCEPT ![e] = [a \in Assets |->
             [total |-> IF a = "base" THEN balances[e][a].total - deal.bought
                                      ELSE balances[e][a].total + deal.earned,
              locked |-> 0]]]
  BY <1>1
<1>3. /\ e \in Exchanges /\ deal.bought \in Nat /\ deal.earned \in Nat
      /\ balances \in [Exchanges -> [Assets -> [total : Int, locked : Nat]]]
      /\ trade \in [Trades -> {Idle} \cup Deals]
      /\ given' = given /\ second' = second /\ changes' = changes
      /\ \A f \in Exchanges : given[f]["quote"] \in Int /\ given[f]["base"] \in Int
  BY <1>2 DEF TradingInv, TypeOK, Deals, Sell, Assets
<1>4. \A f \in Exchanges, a \in Assets : balances[f][a].total \in Int
  BY <1>3
<1>5. /\ balances'[e]["base"].total = balances[e]["base"].total - deal.bought
      /\ balances'[e]["quote"].total = balances[e]["quote"].total + deal.earned
      /\ \A a \in Assets : balances'[e][a].locked = 0
      /\ \A f \in Exchanges \ {e} : balances'[f] = balances[f]
  BY <1>2, <1>3 DEF Assets
<1>6. TypeOK'
  <2>1. balances' \in [Exchanges -> [Assets -> [total : Int, locked : Nat]]]
    <3>1. ASSUME NEW a \in Assets
          PROVE  [total |-> IF a = "base" THEN balances[e][a].total - deal.bought
                                          ELSE balances[e][a].total + deal.earned,
                  locked |-> 0] \in [total : Int, locked : Nat]
      BY <1>3, <1>4
    <3>2. QED
      BY <1>2, <1>3, <3>1
  <2>2. trade' \in [Trades -> {Idle} \cup Deals]
    BY <1>1, <1>3
  <2>3. limiters' \in [Exchanges -> [window : 0..MaxSeconds, count : 0..RateLimit]]
    BY <1>1, SellDoes DEF TradingInv
  <2>4. QED
    BY <1>3, <2>1, <2>2, <2>3 DEF TradingInv, TypeOK
<1>7. NothingStaysLocked'
  BY <1>5 DEF TradingInv, NothingStaysLocked
<1>8. ASSUME NEW f \in Exchanges
      PROVE  /\ Paid(f)' = Paid(f)
             /\ f = e => /\ Delivered(f)' = Delivered(f) \cup Units(t, deal.bought)
                         /\ Earned(f)' = Earned(f) \cup Units(t, deal.earned)
             /\ f # e => Delivered(f)' = Delivered(f) /\ Earned(f)' = Earned(f)
             /\ \A n \in Nat : \A x \in Units(t, n) : x \notin Delivered(f) /\ x \notin Earned(f)
  <2>1. TypeOK /\ deal.leg \in {"sold", "unsold"}
    BY <1>1 DEF TradingInv
  <2>2. /\ Paid(f)' = Paid(f)
        /\ Delivered(f)' = IF deal.leg = "sold" /\ deal.seller = f
                             THEN Delivered(f) \cup Units(t, deal.bought) ELSE Delivered(f)
        /\ Earned(f)' = IF deal.leg = "sold" /\ deal.seller = f
                          THEN Earned(f) \cup Units(t, deal.earned) ELSE Earned(f)
        /\ \A n \in Nat : \A x \in Units(t, n) : x \notin Delivered(f) /\ x \notin Earned(f)
    BY <1>1, <2>1, SaleEarns
  <2>3. QED
    BY <1>1, <1>2, <2>2
<1>9. ASSUME NEW f \in Exchanges
      PROVE  /\ Finite(f)' /\ Cardinality(Paid(f)') = Cardinality(Paid(f))
             /\ f = e => /\ Cardinality(Delivered(f)') = Cardinality(Delivered(f)) + deal.bought
                         /\ Cardinality(Earned(f)') = Cardinality(Earned(f)) + deal.earned
             /\ f # e => /\ Cardinality(Delivered(f)') = Cardinality(Delivered(f))
                         /\ Cardinality(Earned(f)') = Cardinality(Earned(f))
  <2>1. IsFiniteSet(Paid(f)) /\ IsFiniteSet(Delivered(f)) /\ IsFiniteSet(Earned(f))
    BY DEF TradingInv, BooksOpen, Finite
  <2>2. /\ IsFiniteSet(Delivered(f) \cup Units(t, deal.bought))
        /\ Cardinality(Delivered(f) \cup Units(t, deal.bought))
             = Cardinality(Delivered(f)) + deal.bought
    BY <1>3, <1>8, <2>1, UnitsAdd
  <2>3. /\ IsFiniteSet(Earned(f) \cup Units(t, deal.earned))
        /\ Cardinality(Earned(f) \cup Units(t, deal.earned))
             = Cardinality(Earned(f)) + deal.earned
    BY <1>3, <1>8, <2>1, UnitsAdd
  <2>4. QED
    BY <1>8, <2>1, <2>2, <2>3 DEF Finite
<1>10. BooksOpen'
  BY <1>9 DEF BooksOpen
<1>11. LedgerExact'
  <2>1. SUFFICES ASSUME NEW f \in Exchanges
                 PROVE  /\ balances'[f]["quote"].total = given'[f]["quote"]
                             + Cardinality(Earned(f)') - Cardinality(Paid(f)')
                        /\ balances'[f]["base"].total
                             = given'[f]["base"] - Cardinality(Delivered(f)')
    BY DEF LedgerExact
  <2>2. /\ balances[f]["quote"].total
             = given[f]["quote"] + Cardinality(Earned(f)) - Cardinality(Paid(f))
        /\ balances[f]["base"].total = given[f]["base"] - Cardinality(Delivered(f))
    BY DEF TradingInv, LedgerExact
  <2>3. /\ Cardinality(Paid(f)) \in Nat /\ Cardinality(Delivered(f)) \in Nat
        /\ Cardinality(Earned(f)) \in Nat
    BY SizesAreNaturals DEF TradingInv
  <2>4. CASE f = e
    BY <1>3, <1>5, <1>9, <2>2, <2>3, <2>4
  <2>5. CASE f # e
    BY <1>3, <1>5, <1>9, <2>2, <2>5
  <2>6. QED
    BY <2>4, <2>5
<1>12. OverdraftIsExcess'
  <2>1. SUFFICES ASSUME NEW f \in Exchanges, NEW a \in Assets, balances'[f][a].total < 0
                 PROVE  a = "quote" /\ \E u \in Placed' :
                          /\ trade'[u].buyer = f
                          /\ -balances'[f][a].total <= trade'[u].paid - trade'[u].reserved
    BY DEF OverdraftIsExcess
  <2>2. ~(f = e /\ a = "base")
    <3>1. balances[e]["base"].total \in Int
      BY <1>3, <1>4 DEF Assets
    <3>2. QED
      BY <1>2, <1>3, <1>5, <2>1, <3>1
  <2>3. balances[f][a].total <= balances'[f][a].total /\ balances'[f][a].total \in Int
    <3>1. balances[f][a].total \in Int
      BY <1>4
    <3>2. CASE f = e
      BY <1>3, <1>5, <2>2, <3>1, <3>2 DEF Assets
    <3>3. CASE f # e
      BY <1>5, <3>1, <3>3
    <3>4. QED
      BY <3>2, <3>3
  <2>4. balances[f][a].total \in Int /\ balances[f][a].total < 0
    BY <1>4, <2>1, <2>3
  <2>5. a = "quote"
    BY <2>4 DEF TradingInv, OverdraftIsExcess
  <2>6. PICK u \in Placed : /\ trade[u].buyer = f
                            /\ -balances[f][a].total <= trade[u].paid - trade[u].reserved
    BY <2>4 DEF TradingInv, OverdraftIsExcess
  <2>7. /\ u \in Placed' /\ trade'[u].buyer = trade[u].buyer
        /\ trade'[u].paid = trade[u].paid /\ trade'[u].reserved = trade[u].reserved
    BY <1>1, <1>3, DealsArePlaced DEF Placed
  <2>8. trade[u].paid \in Nat /\ trade[u].reserved \in Nat
    BY <1>3 DEF Placed, Deals
  <2>9. -balances'[f][a].total <= trade'[u].paid - trade'[u].reserved
    BY <2>3, <2>4, <2>6, <2>7, <2>8
  <2>10. QED
    BY <2>5, <2>6, <2>7, <2>9
<1>13. QED
  BY <1>6, <1>7, <1>10, <1>11, <1>12 DEF TradingInv

(* A sale that fails leaves every balance and the ledger alone. *)
LEMMA SellFailsKeeps ==
  ASSUME TradingInv, NEW t \in Trades, SellFails(t)
  PROVE  TradingInv'
<1>1. PICK deal \in Deals :
        /\ trade[t] \in Deals /\ trade[t].leg = "bought"
        /\ trade' = [trade EXCEPT ![t] = deal]
        /\ deal.leg = "unsold" /\ deal.buyer = trade[t].buyer
        /\ deal.reserved = trade[t].reserved /\ deal.paid = trade[t].paid
  BY SellFailsDoes DEF TradingInv
<1>2. /\ balances' = balances /\ given' = given /\ second' = second /\ changes' = changes
      /\ trade \in [Trades -> {Idle} \cup Deals]
  BY DEF SellFails, TradingInv, TypeOK
<1>3. TypeOK'
  <2>1. limiters' \in [Exchanges -> [window : 0..MaxSeconds, count : 0..RateLimit]]
    BY SellFailsDoes DEF TradingInv
  <2>2. trade' \in [Trades -> {Idle} \cup Deals]
    BY <1>1, <1>2
  <2>3. QED
    BY <1>2, <2>1, <2>2 DEF TradingInv, TypeOK
<1>4. NothingStaysLocked'
  BY <1>2 DEF TradingInv, NothingStaysLocked
<1>5. \A e \in Exchanges :
        Paid(e)' = Paid(e) /\ Delivered(e)' = Delivered(e) /\ Earned(e)' = Earned(e)
  BY <1>1, SaleEarns DEF TradingInv
<1>6. BooksOpen'
  BY <1>5 DEF TradingInv, BooksOpen, Finite
<1>7. LedgerExact'
  BY <1>2, <1>5 DEF TradingInv, LedgerExact
<1>8. OverdraftIsExcess'
  <2>1. \A u \in Placed : /\ u \in Placed' /\ trade'[u].buyer = trade[u].buyer
                          /\ trade'[u].paid = trade[u].paid
                          /\ trade'[u].reserved = trade[u].reserved
    BY <1>1, <1>2, DealsArePlaced DEF Placed
  <2>2. QED
    BY <1>2, <2>1 DEF TradingInv, OverdraftIsExcess
<1>9. QED
  BY <1>3, <1>4, <1>6, <1>7, <1>8 DEF TradingInv

(* The operator's changes. *)
LEMMA SetBalanceKeeps ==
  ASSUME TradingInv, SetBalance
  PROVE  TradingInv'
<1>1. PICK e \in Exchanges, a \in Assets, amount \in Amounts :
        /\ balances' = [balances EXCEPT ![e][a] = [total |-> amount, locked |-> 0]]
        /\ given' = [given EXCEPT ![e][a] = @ + amount - balances[e][a].total]
  BY DEF SetBalance
<1>2. /\ amount \in Nat /\ limiters' = limiters /\ trade' = trade /\ second' = second
      /\ balances \in [Exchanges -> [Assets -> [total : Int, locked : Nat]]]
      /\ given \in [Exchanges -> [Assets -> Int]]
  BY RequestsAssumption DEF SetBalance, TradingInv, TypeOK
<1>3. \A f \in Exchanges, b \in Assets : balances[f][b].total \in Int /\ given[f][b] \in Int
  BY <1>2
<1>4. ASSUME NEW f \in Exchanges, NEW b \in Assets
      PROVE  /\ f = e /\ b = a => /\ balances'[f][b].total = amount
                                  /\ balances'[f][b].locked = 0
                                  /\ given'[f][b] = given[f][b] + amount - balances[f][b].total
             /\ ~(f = e /\ b = a) => /\ balances'[f][b] = balances[f][b]
                                     /\ given'[f][b] = given[f][b]
  BY <1>1, <1>2
<1>5. TypeOK'
  <2>1. [total |-> amount, locked |-> 0] \in [total : Int, locked : Nat]
    BY <1>2
  <2>2. balances' \in [Exchanges -> [Assets -> [total : Int, locked : Nat]]]
    BY <1>1, <1>2, <2>1
  <2>3. given' \in [Exchanges -> [Assets -> Int]]
    BY <1>1, <1>2, <1>3
  <2>4. changes' \in 0..MaxChanges
    BY TradingBoundsAssumption DEF SetBalance, TradingInv, TypeOK
  <2>5. QED
    BY <1>2, <2>2, <2>3, <2>4 DEF TradingInv, TypeOK
<1>6. NothingStaysLocked'
  BY <1>4 DEF TradingInv, NothingStaysLocked
<1>7. \A f \in Exchanges :
        Paid(f)' = Paid(f) /\ Delivered(f)' = Delivered(f) /\ Earned(f)' = Earned(f)
  BY <1>2 DEF Paid, Delivered, Earned, Buys, Sales, Placed
<1>8. BooksOpen'
  BY <1>7 DEF TradingInv, BooksOpen, Finite
<1>9. LedgerExact'
  <2>1. SUFFICES ASSUME NEW f \in Exchanges
                 PROVE  /\ balances'[f]["quote"].total = given'[f]["quote"]
                             + Cardinality(Earned(f)) - Cardinality(Paid(f))
                        /\ balances'[f]["base"].total
                             = given'[f]["base"] - Cardinality(Delivered(f))
    BY <1>7 DEF LedgerExact
  <2>2. /\ balances[f]["quote"].total
             = given[f]["quote"] + Cardinality(Earned(f)) - Cardinality(Paid(f))
        /\ balances[f]["base"].total = given[f]["base"] - Cardinality(Delivered(f))
    BY DEF TradingInv, LedgerExact
  <2>3. /\ Cardinality(Paid(f)) \in Nat /\ Cardinality(Delivered(f)) \in Nat
        /\ Cardinality(Earned(f)) \in Nat
    BY SizesAreNaturals DEF TradingInv
  <2>4. ASSUME NEW b \in Assets
        PROVE  balances'[f][b].total - given'[f][b] = balances[f][b].total - given[f][b]
    <3>1. balances[f][b].total \in Int /\ given[f][b] \in Int
      BY <1>3
    <3>2. CASE f = e /\ b = a
      BY <1>2, <1>4, <3>1, <3>2
    <3>3. CASE ~(f = e /\ b = a)
      BY <1>4, <3>3
    <3>4. QED
      BY <3>2, <3>3
  <2>5. \A b \in Assets : balances'[f][b].total \in Int /\ given'[f][b] \in Int
    BY <1>2, <1>3, <1>4
  <2>6. "base" \in Assets /\ "quote" \in Assets
    BY DEF Assets
  <2>7. /\ balances'[f]["quote"].total - given'[f]["quote"]
             = balances[f]["quote"].total - given[f]["quote"]
        /\ balances'[f]["base"].total - given'[f]["base"]
             = balances[f]["base"].total - given[f]["base"]
    BY <2>4, <2>6
  <2>8. /\ given[f]["quote"] \in Int /\ given[f]["base"] \in Int
        /\ balances'[f]["quote"].total \in Int /\ balances'[f]["base"].total \in Int
        /\ given'[f]["quote"] \in Int /\ given'[f]["base"] \in Int
    BY <1>3, <2>5, <2>6
  <2>9. QED
    BY <2>2, <2>3, <2>7, <2>8
<1>10. OverdraftIsExcess'
  <2>1. \A f \in Exchanges, b \in Assets :
          balances'[f][b].total < 0 => balances'[f][b] = balances[f][b]
    BY <1>2, <1>4
  <2>2. Placed' = Placed
    BY <1>2 DEF Placed
  <2>3. QED
    BY <1>2, <2>1, <2>2 DEF TradingInv, OverdraftIsExcess
<1>11. QED
  BY <1>5, <1>6, <1>8, <1>9, <1>10 DEF TradingInv

(* A transfer of what is available keeps the invariant. *)
LEMMA TransferKeeps ==
  ASSUME TradingInv, Transfer
  PROVE  TradingInv'
<1>1. PICK from \in Exchanges, to \in Exchanges, a \in Assets, amount \in Amounts \ {0} :
        /\ from # to
        /\ Available(balances[from][a]) >= amount
        /\ balances' = [balances EXCEPT ![from][a] = Credit(@, -amount),
                                        ![to][a] = Credit(@, amount)]
        /\ given' = [given EXCEPT ![from][a] = @ - amount, ![to][a] = @ + amount]
  BY DEF Transfer
<1>2. /\ amount \in Nat \ {0} /\ limiters' = limiters /\ trade' = trade /\ second' = second
      /\ balances \in [Exchanges -> [Assets -> [total : Int, locked : Nat]]]
      /\ given \in [Exchanges -> [Assets -> Int]]
  BY RequestsAssumption DEF Transfer, TradingInv, TypeOK
<1>3. \A f \in Exchanges, b \in Assets :
        balances[f][b].total \in Int /\ balances[f][b].locked = 0 /\ given[f][b] \in Int
  BY <1>2 DEF TradingInv, NothingStaysLocked
<1>4. ASSUME NEW f \in Exchanges, NEW b \in Assets
      PROVE  /\ f = from /\ b = a => /\ balances'[f][b].total = balances[f][b].total - amount
                                     /\ balances'[f][b].locked = 0
                                     /\ given'[f][b] = given[f][b] - amount
             /\ f = to /\ b = a => /\ balances'[f][b].total = balances[f][b].total + amount
                                   /\ balances'[f][b].locked = 0
                                   /\ given'[f][b] = given[f][b] + amount
             /\ ~(f \in {from, to} /\ b = a) => /\ balances'[f][b] = balances[f][b]
                                                /\ given'[f][b] = given[f][b]
  BY <1>1, <1>2, <1>3 DEF Credit
<1>5. amount <= balances[from][a].total
  BY <1>1, <1>2, <1>3 DEF Available
<1>6. TypeOK'
  <2>1. /\ Credit(balances[from][a], -amount) \in [total : Int, locked : Nat]
        /\ Credit(balances[to][a], amount) \in [total : Int, locked : Nat]
    <3>1. /\ balances[from][a] \in [total : Int, locked : Nat]
          /\ balances[to][a] \in [total : Int, locked : Nat] /\ amount \in Int
      BY <1>2
    <3>2. QED
      BY <3>1 DEF Credit
  <2>2. balances' \in [Exchanges -> [Assets -> [total : Int, locked : Nat]]]
    BY <1>1, <1>2, <2>1
  <2>3. given' \in [Exchanges -> [Assets -> Int]]
    <3>1. /\ amount \in Int /\ given[from][a] - amount \in Int
          /\ given[to][a] \in Int /\ given[to][a] + amount \in Int
      BY <1>2, <1>3
    <3>2. given' = [[given EXCEPT ![from][a] = @ - amount] EXCEPT ![to][a] = @ + amount]
      BY <1>1
    <3>3. [given EXCEPT ![from][a] = @ - amount][to][a] = given[to][a]
      BY <1>1, <1>2
    <3>4. QED
      BY <1>2, <3>1, <3>2, <3>3
  <2>4. changes' \in 0..MaxChanges
    BY TradingBoundsAssumption DEF Transfer, TradingInv, TypeOK
  <2>5. QED
    BY <1>2, <2>2, <2>3, <2>4 DEF TradingInv, TypeOK
<1>7. NothingStaysLocked'
  BY <1>3, <1>4 DEF NothingStaysLocked
<1>8. \A f \in Exchanges :
        Paid(f)' = Paid(f) /\ Delivered(f)' = Delivered(f) /\ Earned(f)' = Earned(f)
  BY <1>2 DEF Paid, Delivered, Earned, Buys, Sales, Placed
<1>9. BooksOpen'
  BY <1>8 DEF TradingInv, BooksOpen, Finite
<1>10. LedgerExact'
  <2>1. SUFFICES ASSUME NEW f \in Exchanges
                 PROVE  /\ balances'[f]["quote"].total = given'[f]["quote"]
                             + Cardinality(Earned(f)) - Cardinality(Paid(f))
                        /\ balances'[f]["base"].total
                             = given'[f]["base"] - Cardinality(Delivered(f))
    BY <1>8 DEF LedgerExact
  <2>2. /\ balances[f]["quote"].total
             = given[f]["quote"] + Cardinality(Earned(f)) - Cardinality(Paid(f))
        /\ balances[f]["base"].total = given[f]["base"] - Cardinality(Delivered(f))
    BY DEF TradingInv, LedgerExact
  <2>3. /\ Cardinality(Paid(f)) \in Nat /\ Cardinality(Delivered(f)) \in Nat
        /\ Cardinality(Earned(f)) \in Nat
    BY SizesAreNaturals DEF TradingInv
  <2>4. ASSUME NEW b \in Assets
        PROVE  balances'[f][b].total - given'[f][b] = balances[f][b].total - given[f][b]
    <3>1. balances[f][b].total \in Int /\ given[f][b] \in Int
      BY <1>3
    <3>2. CASE f = from /\ b = a
      BY <1>2, <1>4, <3>1, <3>2
    <3>3. CASE f = to /\ b = a
      BY <1>2, <1>4, <3>1, <3>3
    <3>4. CASE ~(f \in {from, to} /\ b = a)
      BY <1>4, <3>4
    <3>5. QED
      BY <3>2, <3>3, <3>4
  <2>5. \A b \in Assets : balances'[f][b].total \in Int /\ given'[f][b] \in Int
    BY <1>2, <1>3, <1>4
  <2>6. "base" \in Assets /\ "quote" \in Assets
    BY DEF Assets
  <2>7. /\ balances'[f]["quote"].total - given'[f]["quote"]
             = balances[f]["quote"].total - given[f]["quote"]
        /\ balances'[f]["base"].total - given'[f]["base"]
             = balances[f]["base"].total - given[f]["base"]
    BY <2>4, <2>6
  <2>8. /\ given[f]["quote"] \in Int /\ given[f]["base"] \in Int
        /\ balances'[f]["quote"].total \in Int /\ balances'[f]["base"].total \in Int
        /\ given'[f]["quote"] \in Int /\ given'[f]["base"] \in Int
    BY <1>3, <2>5, <2>6
  <2>9. QED
    BY <2>2, <2>3, <2>7, <2>8
<1>11. OverdraftIsExcess'
  <2>1. SUFFICES ASSUME NEW f \in Exchanges, NEW b \in Assets, balances'[f][b].total < 0
                 PROVE  b = "quote" /\ \E u \in Placed' :
                          /\ trade'[u].buyer = f
                          /\ -balances'[f][b].total <= trade'[u].paid - trade'[u].reserved
    BY DEF OverdraftIsExcess
  <2>2. ~(f = from /\ b = a)
    BY <1>2, <1>3, <1>4, <1>5, <2>1
  <2>3. balances[f][b].total <= balances'[f][b].total /\ balances'[f][b].total \in Int
    BY <1>2, <1>3, <1>4, <2>2
  <2>4. balances[f][b].total \in Int /\ balances[f][b].total < 0
    BY <1>3, <2>1, <2>3
  <2>5. b = "quote"
    BY <2>4 DEF TradingInv, OverdraftIsExcess
  <2>6. PICK u \in Placed : /\ trade[u].buyer = f
                            /\ -balances[f][b].total <= trade[u].paid - trade[u].reserved
    BY <2>4 DEF TradingInv, OverdraftIsExcess
  <2>7. trade[u].paid \in Nat /\ trade[u].reserved \in Nat
    BY DEF TradingInv, TypeOK, Placed, Deals
  <2>8. -balances'[f][b].total <= trade[u].paid - trade[u].reserved
    BY <2>3, <2>4, <2>6, <2>7
  <2>9. u \in Placed' /\ trade' = trade
    BY <1>2 DEF Placed
  <2>10. QED
    BY <2>5, <2>6, <2>8, <2>9
<1>12. QED
  BY <1>6, <1>7, <1>9, <1>10, <1>11 DEF TradingInv

-----------------------------------------------------------------------------
(* The steps together. *)

(* Where no money moves, nothing is locked or missing either. *)
LEMMA MoneyStays ==
  ASSUME TradingInv, balances' = balances, trade' = trade, given' = given
  PROVE  NothingStaysLocked' /\ BooksOpen' /\ LedgerExact' /\ OverdraftIsExcess'
<1>1. NothingStaysLocked'
  BY DEF TradingInv, NothingStaysLocked
<1>2. Placed' = Placed /\ \A e \in Exchanges : Buys(e)' = Buys(e) /\ Sales(e)' = Sales(e)
  BY DEF Buys, Sales, Placed
<1>3. \A e \in Exchanges :
        Paid(e)' = Paid(e) /\ Delivered(e)' = Delivered(e) /\ Earned(e)' = Earned(e)
  BY <1>2 DEF Paid, Delivered, Earned
<1>4. BooksOpen'
  BY <1>3 DEF TradingInv, BooksOpen, Finite
<1>5. LedgerExact'
  BY <1>3 DEF TradingInv, LedgerExact
<1>6. OverdraftIsExcess'
  BY <1>2 DEF TradingInv, OverdraftIsExcess
<1>7. QED
  BY <1>1, <1>4, <1>5, <1>6

(* An order refused for lack of funds is counted and changes nothing else. *)
LEMMA BuyFailsKeeps ==
  ASSUME TradingInv, NEW t \in Trades, BuyFails(t)
  PROVE  TradingInv'
<1>1. PICK e \in Exchanges : Allowed(e) /\ CountOrder(e)
  BY DEF BuyFails, Refused
<1>2. limiters' \in [Exchanges -> [window : 0..MaxSeconds, count : 0..RateLimit]]
  BY <1>1, LimiterCounts DEF TradingInv
<1>3. /\ balances' = balances /\ trade' = trade /\ second' = second
      /\ changes' = changes /\ given' = given
  BY DEF BuyFails
<1>4. QED
  BY <1>2, <1>3, MoneyStays DEF TradingInv, TypeOK

(* Every leg and every change by the operator keeps the invariant. *)
LEMMA TradingNextInv == TradingInv /\ [Next]_vars => TradingInv'
<1> SUFFICES ASSUME TradingInv, [Next]_vars PROVE TradingInv'
  OBVIOUS
<1>1. ASSUME NEW t \in Trades, Buy(t) PROVE TradingInv'
  BY <1>1, BuyKeeps
<1>2. ASSUME NEW t \in Trades, BuyFails(t) PROVE TradingInv'
  BY <1>2, BuyFailsKeeps
<1>3. ASSUME NEW t \in Trades, Sell(t) PROVE TradingInv'
  BY <1>3, SellKeeps
<1>4. ASSUME NEW t \in Trades, SellFails(t) PROVE TradingInv'
  BY <1>4, SellFailsKeeps
<1>5. CASE SetBalance
  BY <1>5, SetBalanceKeeps
<1>6. CASE Transfer
  BY <1>6, TransferKeeps
<1>7. CASE Tick
  <2>1. second' \in 1..MaxSeconds
    BY <1>7, TradingBoundsAssumption DEF Tick, TradingInv, TypeOK
  <2>2. /\ balances' = balances /\ trade' = trade /\ limiters' = limiters
        /\ changes' = changes /\ given' = given
    BY <1>7 DEF Tick
  <2>3. QED
    BY <2>1, <2>2, MoneyStays DEF TradingInv, TypeOK
<1>8. CASE UNCHANGED vars
  BY <1>8, MoneyStays DEF vars, TradingInv, TypeOK
<1>9. QED
  BY <1>1, <1>2, <1>3, <1>4, <1>5, <1>6, <1>7, <1>8 DEF Next

(* The invariant of trades: none of what is kept between the legs of a     *)
(* trade (paper_trading/engine.py) is lost, whatever comes between them.   *)
THEOREM TradingAlwaysInv == Spec => []TradingInv
BY TradingInitInv, TradingNextInv, PTL DEF Spec

(* Whatever trades and the operator do, a limiter counts at most its limit *)
(* in a window, and every trade on record bought something.                *)
THEOREM TradingTypeCorrect == Spec => []TypeOK
BY TradingAlwaysInv, PTL DEF TradingInv

(* reserve() and settle() of one leg undo each other: no funds are         *)
(* reserved between the legs of a trade, or after a leg that failed.       *)
THEOREM NothingEverLocked == Spec => []NothingStaysLocked
BY TradingAlwaysInv, PTL DEF TradingInv

(* However trades, operator changes and refused orders interleave, each    *)
(* balance is what was put there, less what its trades paid or delivered,  *)
(* plus what they earned.                                                  *)
THEOREM LedgerAlwaysExact == Spec => []LedgerExact
BY TradingAlwaysInv, PTL DEF TradingInv

(* A balance is overdrawn only by a purchase that was filled deeper in the *)
(* book than the price it was reserved at, and by no more than that.       *)
THEOREM OverdraftAlwaysExcess == Spec => []OverdraftIsExcess
BY TradingAlwaysInv, PTL DEF TradingInv
=============================================================================
