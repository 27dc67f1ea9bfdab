---------------------------- MODULE CheckoutProofs ----------------------------
(***************************************************************************)
(* The orders of one customer, for any number of them: what is proved of   *)
(* Checkout, along one inductive invariant, CheckoutInv.                   *)
(***************************************************************************)
EXTENDS Checkout, CollectionLemmas

-----------------------------------------------------------------------------
(* The inductive invariant                                                 *)

\* An order nothing has happened to yet.
Untouched(o) ==
    /\ o \notin Open \union committed \union authorized \union paid \union served \union booked
    /\ stage[o] = "none" /\ referral # o
    /\ <<o, "debit">> \notin ledger /\ <<o, "refund">> \notin ledger

\* An order with its parts makes up the price of its package.
PartsOK(o) ==
    /\ order[o].kind = "wallet" <=> order[o].gateway = 0
    /\ order[o].base \in Prices
    /\ order[o].wallet + order[o].gateway + order[o].discount = order[o].base
    /\ "plan" \notin raced => order[o].base = order[o].snapshot

OrdersOK ==
    \A o \in Orders :
        /\ order[o].kind # "none" => PartsOK(o)
        /\ order[o].kind = "none" \/ o \in thread => Untouched(o)
        /\ o \in thread => order[o].kind = "gateway"

HandlerOK ==
    /\ at # "idle" /\ at # "duplicates" => cur \in Orders
    /\ InCheckout => Untouched(cur)
    /\ at \in {"started", "balance"} => order[cur].kind = "none"
    /\ at = "started" => ("plan" \notin raced => order[cur].snapshot = plan)
    /\ at = "balance" => /\ order[cur].base \in Prices
                         /\ "plan" \notin raced => order[cur].base = order[cur].snapshot
    /\ at \in {"priced", "link"} => order[cur].kind # "none"
    /\ at = "priced" => cur \notin thread
    /\ at = "link" => cur \in thread
    /\ at = "cancelled" => /\ cur \in Open /\ order[cur].kind = "wallet"
                           /\ stage[cur] \in {"none", "lock"}

\* Only a gateway order is found unpaid, and only once its row is there.
AnsweredOK ==
    \A o \in Orders : Answered(o) =>
        /\ order[o].kind = "gateway"
        /\ o \notin thread /\ ~(InCheckout /\ cur = o)

\* An order that is delivered has its row, or waits for its lock, or lost its
\* row to a release.
StagesOK ==
    \A o \in Orders : stage[o] # "none" =>
        /\ o \in Open \/ stage[o] = "lock" \/ "release" \in raced
        /\ order[o].gateway > 0 => o \in paid
        /\ order[o].kind = "wallet" \/ o \in authorized
        /\ stage[o] = "flag" => Debited(o)
        /\ stage[o] \in {"serve", "book", "pop"} => order[o].wallet = 0 \/ Debited(o)
        /\ stage[o] \in {"book", "pop"} => o \in served
        /\ stage[o] = "pop" => o \in booked

FlagsOK ==
    /\ \A o \in committed : Debited(o)
    /\ \A o \in authorized : o \in paid /\ order[o].kind # "wallet"
    /\ booked \subseteq served
    /\ referral \in booked \union {0}
    /\ \A o \in Orders : <<o, "refund">> \in ledger => Debited(o)

\* As long as no link outlived its deadline: one order at a time.
InTurn ==
    "deadline" \notin raced =>
        /\ \A o \in thread : at = "link" /\ cur = o
        /\ \A i \in DOMAIN rows : i < Len(rows) \/ InCheckout => order[rows[i]].kind = "gateway"
        /\ InCheckout /\ order[cur].first => \A o \in Open : ~order[o].first

Undebited == {o \in Open : ~Debited(o)}

Covered ==
    raced \cap {"deadline", "decrease", "debit", "release"} = {} =>
        /\ at = "balance" => seen <= balance
        /\ at \in {"priced", "link"} => order[cur].wallet + Wallet(Undebited) <= balance

CheckoutInv ==
    /\ CheckoutTypeOK /\ OrdersOK /\ HandlerOK /\ AnsweredOK /\ StagesOK /\ FlagsOK /\ InTurn
    /\ Covered
    /\ WalletAddsUp /\ ReservationsCovered /\ ServedIsPaid /\ OneDiscount

-----------------------------------------------------------------------------
(* Lemmas about orders, rows and the wallet                                *)

\* The orders are finitely many and the prices have a greatest one.
LEMMA Bounds ==
    /\ IsFiniteSet(Orders) /\ Orders \subseteq Nat \ {0}
    /\ Max(Prices) \in Nat /\ \A p \in Prices : p <= Max(Prices)
<1>1. IsFiniteSet(Orders) /\ Orders \subseteq Nat \ {0}
  BY CheckoutAssumption, FS_Interval DEF Orders
<1>2. Prices \in SUBSET Nat /\ Prices # {} /\ IsFiniteSet(Prices) BY CheckoutAssumption
<1>3. Max(Prices) \in Prices /\ \A p \in Prices : p <= Max(Prices) BY <1>2, GreatestNumber
<1> QED BY <1>1, <1>2, <1>3

\* pop_pending takes one row out of the table and leaves the order of the others.
LEMMA Dropped ==
  ASSUME CheckoutTypeOK, NEW o, Drop(o)
  PROVE  /\ rows' \in Seq(Orders) /\ IsInjective(rows')
         /\ Open' = Open \ {o}
         /\ \A i \in DOMAIN rows' :
                \E j \in DOMAIN rows : rows'[i] = rows[j] /\ (i < Len(rows') => j < Len(rows))
BY RowRemoved DEF CheckoutTypeOK, Drop, Open

\* add_pending puts a row after the others.
LEMMA Stored ==
  ASSUME CheckoutTypeOK, NEW o \in Orders, o \notin Open, rows' = Append(rows, o)
  PROVE  /\ rows' \in Seq(Orders) /\ IsInjective(rows')
         /\ Open' = Open \union {o}
         /\ \A i \in DOMAIN rows' :
                \/ i \in DOMAIN rows /\ rows'[i] = rows[i]
                \/ i = Len(rows') /\ rows'[i] = o
<1>1. rows \in Seq(Orders) /\ IsInjective(rows) /\ o \notin ToSet(rows)
  BY DEF CheckoutTypeOK, Open
<1> DEFINE t == rows'
<1>2. t = Append(rows, o) OBVIOUS
<1> HIDE DEF t
<1>3. t \in Seq(Orders) BY <1>1, <1>2, AppendProperties
<1>4. IsInjective(t) BY <1>1, <1>2, RowAppended
<1>5. \A x : x \in ToSet(t) <=> x \in ToSet(rows) \/ x = o BY <1>1, <1>2, RowAppended DEF ToSet
<1>6. \A i \in DOMAIN t :
         (i \in DOMAIN rows /\ t[i] = rows[i]) \/ (i = Len(t) /\ t[i] = o)
  BY <1>1, <1>2, RowAppended
<1> QED BY <1>3, <1>4, <1>5, <1>6 DEF t, Open

\* The rows are those of orders, and the latest is the last of them.
LEMMA LatestRow ==
  ASSUME CheckoutTypeOK
  PROVE  /\ Open \subseteq Orders /\ 0 \notin Open
         /\ Latest # 0 => Latest \in Open
         /\ Latest = 0 => Open = {}
         /\ rows # << >> => Len(rows) \in DOMAIN rows /\ Latest = rows[Len(rows)]
<1>1. Len(rows) \in Nat /\ DOMAIN rows = 1..Len(rows) /\ \A i \in DOMAIN rows : rows[i] \in Orders
  BY LenProperties, ElementOfSeq DEF CheckoutTypeOK
<1>2. Open \subseteq Orders /\ 0 \notin Open BY <1>1, Bounds DEF Open, ToSet
<1>3. CASE rows = << >>
  <2>1. Len(rows) = 0 BY <1>3
  <2>2. Open = {} BY <1>1, <2>1 DEF Open, ToSet
  <2> QED BY <1>2, <1>3, <2>2 DEF Latest
<1>4. CASE rows # << >>
  <2>1. Len(rows) \in DOMAIN rows BY <1>1, <1>4, EmptySeq DEF CheckoutTypeOK
  <2>2. Latest = rows[Len(rows)] BY <1>4 DEF Latest, Last
  <2>3. Latest \in Open BY <2>1, <2>2 DEF Open, ToSet
  <2> QED BY <1>2, <1>4, <2>1, <2>2, <2>3
<1> QED BY <1>3, <1>4

\* pending_first_purchase_for_user finds one if there is one.
LEMMA LatestFirstRow ==
  ASSUME CheckoutTypeOK
  PROVE  /\ LatestFirst = 0 => \A o \in Open : ~order[o].first
         /\ LatestFirst # 0 => LatestFirst \in Open /\ order[LatestFirst].first
<1> DEFINE I == {i \in 1..Len(rows) : order[rows[i]].first}
           i == SelectLastInSeq(rows, LAMBDA o : order[o].first)
<1>1. Len(rows) \in Nat /\ DOMAIN rows = 1..Len(rows) /\ \A j \in DOMAIN rows : rows[j] \in Orders
  BY LenProperties, ElementOfSeq DEF CheckoutTypeOK
<1>2. i = IF I # {} THEN Max(I) ELSE 0 BY Zenon DEF SelectLastInSeq
<1>3. LatestFirst = IF i = 0 THEN 0 ELSE rows[i] BY Zenon DEF LatestFirst
<1>4. CASE I = {}
  <2>1. \A o \in Open : ~order[o].first BY <1>1, <1>4 DEF Open, ToSet
  <2>2. LatestFirst = 0 BY <1>2, <1>3, <1>4, Zenon
  <2> QED BY <2>1, <2>2
<1>5. CASE I # {}
  <2>1. I \in SUBSET Nat /\ IsFiniteSet(I)
    <3>1. IsFiniteSet(1..Len(rows)) BY <1>1, FS_Interval
    <3> QED BY <1>1, <3>1, FS_Subset
  <2> HIDE DEF i
  <2>2. i \in I
    <3>1. Max(I) \in I BY <1>5, <2>1, GreatestNumber
    <3> QED BY <1>2, <1>5, <3>1, Zenon
  <2>3. i # 0 /\ LatestFirst = rows[i] BY <1>1, <1>3, <2>2
  <2>4. rows[i] \in Open /\ order[rows[i]].first /\ rows[i] # 0
    BY <1>1, <2>2, Bounds DEF Open, ToSet
  <2> QED BY <2>3, <2>4
<1> QED BY <1>4, <1>5

\* What some orders take is a sum of naturals: one more adds its part, and
\* fewer take no more.
LEMMA PartSum ==
  ASSUME NEW part \in [Orders -> Nat]
  PROVE  /\ SumFunctionOnSet(part, {}) = 0
         /\ \A S \in SUBSET Orders : SumFunctionOnSet(part, S) \in Nat
         /\ \A S \in SUBSET Orders, o \in Orders : o \notin S =>
                SumFunctionOnSet(part, S \union {o}) = part[o] + SumFunctionOnSet(part, S)
         /\ \A S \in SUBSET Orders : \A T \in SUBSET S :
                SumFunctionOnSet(part, T) <= SumFunctionOnSet(part, S)
<1>1. \A S \in SUBSET Orders : IsFiniteSet(S) BY Bounds, FS_Subset
<1>0. \A o \in Orders : part[o] \in Int OBVIOUS
<1>2. \A S \in SUBSET Orders : SumFunctionOnSet(part, S) \in Int BY <1>0, SumInt, Bounds
<1>3. ASSUME NEW S \in SUBSET Orders, NEW T \in SUBSET S
      PROVE  SumFunctionOnSet(part, T) <= SumFunctionOnSet(part, S)
  BY <1>1, SumSubset
<1>4. SumFunctionOnSet(part, {}) = 0 BY SumEmpty
<1>5. ASSUME NEW S \in SUBSET Orders PROVE SumFunctionOnSet(part, S) \in Nat
  <2>1. SumFunctionOnSet(part, {}) <= SumFunctionOnSet(part, S) BY <1>3
  <2> QED BY <1>2, <1>4, <2>1
<1>6. ASSUME NEW S \in SUBSET Orders, NEW o \in Orders, o \notin S
      PROVE  SumFunctionOnSet(part, S \union {o}) = part[o] + SumFunctionOnSet(part, S)
  <2>1. \A p \in S \union {o} : part[p] \in Int OBVIOUS
  <2> QED BY <1>1, <1>6, <2>1, SumAdd
<1> QED BY <1>3, <1>4, <1>5, <1>6

-----------------------------------------------------------------------------
(* Types                                                                   *)

\* Between its creation and its row an order is new in the table.
LEMMA NewRow ==
  ASSUME CheckoutInv
  PROVE  /\ InCheckout => cur \in Orders /\ cur \notin Open
         /\ \A o \in thread : o \notin Open
BY DEF CheckoutInv, HandlerOK, OrdersOK, InCheckout, Untouched, CheckoutTypeOK

\* What a checkout takes from the wallet is at most the balance it has read, and
\* at most what is due.
LEMMA Used ==
  ASSUME CheckoutInv, at = "balance"
  PROVE  LET due == order[cur].base - order[cur].discount
             used == Min({Available, due}) IN
         /\ due \in 1..Max(Prices)
         /\ used \in 0..due /\ used <= seen
         /\ used > 0 => used <= seen - Reserved
<1> DEFINE due == order[cur].base - order[cur].discount
<1>1. cur \in Orders /\ order[cur].base \in Prices /\ order[cur].discount \in {0, Discount}
  BY DEF CheckoutInv, HandlerOK, CheckoutTypeOK, Order
<1>2. due \in 1..Max(Prices)
  <2>1. order[cur].base \in Nat /\ order[cur].base <= Max(Prices) /\ Max(Prices) \in Nat
    BY <1>1, Bounds, CheckoutAssumption
  <2>2. order[cur].base \in Nat \ {0} /\ Discount \in Nat /\ Discount < order[cur].base
    BY <1>1, CheckoutAssumption
  <2>3. order[cur].discount = 0 \/ order[cur].discount = Discount BY <1>1
  <2> QED BY <2>1, <2>2, <2>3
<1>3. Reserved \in Nat
  <2>1. WalletPart \in [Orders -> Nat]
    BY CheckoutAssumption DEF WalletPart, CheckoutInv, CheckoutTypeOK, Order
  <2>2. Open \ committed \in SUBSET Orders BY LatestRow DEF CheckoutInv
  <2> QED BY <2>1, <2>2, PartSum DEF Reserved, Wallet
<1>4. seen \in Nat BY CheckoutAssumption DEF CheckoutInv, CheckoutTypeOK
<1> HIDE DEF due
<1>5. Available \in Nat /\ Available <= seen /\ (Available > 0 => Available <= seen - Reserved)
  BY <1>3, <1>4 DEF Available
<1>6. Min({Available, due}) = IF Available <= due THEN Available ELSE due
  BY <1>2, <1>5, Smaller
<1> DEFINE used == Min({Available, due})
<1>7. used \in 0..due /\ used <= seen /\ (used > 0 => used <= seen - Reserved)
  BY <1>2, <1>3, <1>4, <1>5, <1>6
<1> QED BY <1>2, <1>7 DEF due

\* What the steps of a checkout write is the row of an order.
LEMMA OrderFields ==
    /\ NoOrder \in Order
    /\ \A r \in Order, first, buy \in BOOLEAN, p \in Prices, d \in {0, Discount} :
           [r EXCEPT !.first = first, !.buy = buy, !.snapshot = p, !.discount = d] \in Order
    /\ \A r \in Order, p \in Prices : [r EXCEPT !.base = p] \in Order
    /\ \A r \in Order, w \in 0..MaxBalance, g \in 0..Max(Prices), k \in Kinds :
           [r EXCEPT !.wallet = w, !.gateway = g, !.kind = k] \in Order
<1>1. NoOrder \in Order BY Bounds, CheckoutAssumption DEF NoOrder, Order
<1>2. ASSUME NEW r \in Order, NEW first \in BOOLEAN, NEW buy \in BOOLEAN, NEW p \in Prices,
             NEW d \in {0, Discount}
      PROVE  [r EXCEPT !.first = first, !.buy = buy, !.snapshot = p, !.discount = d] \in Order
  BY DEF Order
<1>3. ASSUME NEW r \in Order, NEW p \in Prices PROVE [r EXCEPT !.base = p] \in Order
  BY DEF Order
<1>4. ASSUME NEW r \in Order, NEW w \in 0..MaxBalance, NEW g \in 0..Max(Prices), NEW k \in Kinds
      PROVE  [r EXCEPT !.wallet = w, !.gateway = g, !.kind = k] \in Order
  BY DEF Order
<1> QED BY <1>1, <1>2, <1>3, <1>4

\* Every step keeps the types.
LEMMA TypeStep == ASSUME CheckoutInv, [Next]_vars PROVE CheckoutTypeOK'
<1> USE CheckoutAssumption DEF handler, money, flags, outcome, bounds, Idle
<1>1. CheckoutTypeOK BY DEF CheckoutInv
<1>2. /\ Open \subseteq Orders /\ 0 \notin Orders
      /\ Latest # 0 => Latest \in Orders
      /\ LatestFirst # 0 => LatestFirst \in Orders
  BY <1>1, Bounds, LatestRow, LatestFirstRow
<1>3. /\ NoOrder \in Order
      /\ \A o \in Orders : order[o].wallet \in 0..MaxBalance /\ 0 <= order[o].wallet
  BY <1>1, Bounds DEF CheckoutTypeOK, Order, NoOrder
<1>4. InCheckout => cur \in Orders /\ cur \notin Open BY NewRow
<1>10. ASSUME NEW o \in Orders, NEW buy \in BOOLEAN, NEW code \in BOOLEAN, StartOrder(o, buy, code)
      PROVE  CheckoutTypeOK'
  <2> DEFINE first == buy /\ ~HasPurchase
             new == [NoOrder EXCEPT !.first = first, !.buy = buy, !.snapshot = plan,
                                    !.discount = IF code THEN Discount ELSE 0]
  <2>1. new \in Order
    <3>1. first \in BOOLEAN /\ plan \in Prices /\ (IF code THEN Discount ELSE 0) \in {0, Discount}
      BY <1>1 DEF CheckoutTypeOK
    <3> HIDE DEF first
    <3> QED BY <3>1, OrderFields
  <2>2. /\ order' = [order EXCEPT ![o] = new] /\ at' = "started" /\ cur' = o /\ seen' = 0
        /\ UNCHANGED <<money, plan, rows, flags, thread, told, stage, outcome, raced, bounds>>
    BY <1>10 DEF StartOrder
  <2> HIDE DEF new
  <2>3. order' \in [Orders -> Order] BY <1>1, <2>1, <2>2 DEF CheckoutTypeOK
  <2> QED BY <1>1, <2>2, <2>3 DEF CheckoutTypeOK
<1>11. CASE ReadBalance
  <2>1. cur \in Orders BY <1>4, <1>11 DEF InCheckout, ReadBalance
  <2>2. order' = [order EXCEPT ![cur] = [order[cur] EXCEPT !.base = plan]]
    BY <1>11 DEF ReadBalance
  <2>3. order' \in [Orders -> Order] BY <1>1, <2>1, <2>2, OrderFields DEF CheckoutTypeOK
  <2> QED BY <1>1, <1>11, <2>3 DEF CheckoutTypeOK, ReadBalance
<1>12. CASE Price
  <2> DEFINE due == order[cur].base - order[cur].discount
             used == Min({Available, due})
  <2>1. cur \in Orders BY <1>4, <1>12 DEF InCheckout, Price
  <2>2. due \in 1..Max(Prices) /\ used \in 0..due /\ used <= seen BY <1>12, Used DEF Price
  <2>3. used \in 0..MaxBalance /\ due - used \in 0..Max(Prices)
    BY <1>1, <2>2, Bounds, CheckoutAssumption DEF CheckoutTypeOK
  <2>4. PICK k \in Kinds :
           order' = [order EXCEPT ![cur] = [order[cur] EXCEPT !.wallet = used,
                                                              !.gateway = due - used, !.kind = k]]
    BY <1>12 DEF Price, Kinds
  <2> HIDE DEF due, used
  <2>5. order' \in [Orders -> Order] BY <1>1, <2>1, <2>3, <2>4, OrderFields DEF CheckoutTypeOK
  <2> QED BY <1>1, <1>12, <2>5 DEF CheckoutTypeOK, Price
<1>13. CASE StoreRow
  <2>1. cur \in Orders /\ cur \notin Open BY <1>4, <1>13 DEF InCheckout, StoreRow
  <2>2. order' \in [Orders -> Order]
    BY <1>1, <1>3, <1>13, <2>1 DEF CheckoutTypeOK, StoreRow
  <2>3. rows' \in Seq(Orders) /\ IsInjective(rows') BY <1>1, <1>13, <2>1, Stored DEF StoreRow,
     CheckoutTypeOK
  <2>4. stage' \in [Orders -> {"none", "lock", "debit", "flag", "serve", "book", "pop"}]
    BY <1>1, <1>13, <2>1 DEF CheckoutTypeOK, StoreRow, Deliver
  <2> QED BY <1>1, <1>13, <2>1, <2>2, <2>3, <2>4 DEF CheckoutTypeOK, StoreRow
<1>14. CASE RequestLink
  BY <1>1, <1>4, <1>14 DEF CheckoutTypeOK, RequestLink, InCheckout
<1>15. CASE LinkDeadline
  BY <1>1, <1>2, <1>15 DEF CheckoutTypeOK, LinkDeadline
<1>16. ASSUME NEW o \in Orders, Check(o)
      PROVE  CheckoutTypeOK'
  BY <1>1, <1>2, <1>16 DEF CheckoutTypeOK, Check, Verify, Deliver
<1>17. CASE ReleaseUnpaid
  BY <1>1, <1>2, <1>17, Dropped DEF Release, CheckoutTypeOK, ReleaseUnpaid, Cancelled
<1>18. CASE ReleaseDuplicate
  BY <1>1, <1>2, <1>18, Dropped DEF Release, CheckoutTypeOK, ReleaseDuplicate, Cancelled
<1>19. CASE EndDuplicates
  BY <1>1, <1>2, <1>19 DEF CheckoutTypeOK, EndDuplicates
<1>20. CASE CancelCard
  BY <1>1, <1>2, <1>20, Dropped DEF CheckoutTypeOK, CancelCard
<1>21. CASE CancelLocal
  <2>1. Latest \in Orders BY <1>2, <1>21 DEF CancelLocal, KindOf
  <2>2. balance' \in 0..MaxBalance BY <1>1, <1>3, <1>21, <2>1 DEF CheckoutTypeOK, CancelLocal
  <2>3. ledger' \subseteq Orders \X {"debit", "refund"} BY <1>1, <1>21, <2>1 DEF CheckoutTypeOK,
     CancelLocal
  <2> QED BY <1>1, <1>21, <2>1, <2>2, <2>3 DEF CheckoutTypeOK, CancelLocal
<1>22. CASE DropCancelled
  BY <1>1, <1>2, <1>22, Dropped DEF CheckoutTypeOK, DropCancelled, Cancelled
<1>23. ASSUME NEW o \in Orders, LinkStored(o)
      PROVE  CheckoutTypeOK'
  BY <1>1, <1>2, <1>23, NewRow, Stored DEF CheckoutTypeOK, LinkStored
<1>24. ASSUME NEW o \in Orders, LinkRefused(o)
      PROVE  CheckoutTypeOK'
  <2>1. order' \in [Orders -> Order] BY <1>1, <1>3, <1>24 DEF CheckoutTypeOK, LinkRefused
  <2> QED BY <1>1, <1>24, <2>1 DEF CheckoutTypeOK, LinkRefused
<1>25. ASSUME NEW o \in Orders, Pay(o)
      PROVE  CheckoutTypeOK'
  BY <1>1, <1>2, <1>25 DEF CheckoutTypeOK, Pay
<1>26. ASSUME NEW o \in Orders, FindUnpaid(o)
      PROVE  CheckoutTypeOK'
  BY <1>1, <1>2, <1>26 DEF Unpaid, CheckoutTypeOK, FindUnpaid
<1>27. ASSUME NEW o \in Orders, FindDuplicate(o)
      PROVE  CheckoutTypeOK'
  BY <1>1, <1>2, <1>27 DEF Unpaid, CheckoutTypeOK, FindDuplicate
<1>28. ASSUME NEW o \in Orders, Debit(o)
      PROVE  CheckoutTypeOK'
  <2>1. balance' \in 0..MaxBalance BY <1>1, <1>3, <1>28 DEF CheckoutTypeOK, Debit
  <2>2. ledger' \subseteq Orders \X {"debit", "refund"} BY <1>1, <1>28 DEF CheckoutTypeOK, Debit
  <2>3. stage' \in [Orders -> {"none", "lock", "debit", "flag", "serve", "book", "pop"}]
    BY <1>1, <1>28 DEF CheckoutTypeOK, Debit
  <2>4. UNCHANGED handler \/ Idle BY <1>28 DEF Debit, Return
  <2>5. UNCHANGED <<adjusted, plan, rows, order, flags, thread, told, outcome, bounds>>
    BY <1>28 DEF Debit
  <2>6. raced' \subseteq raced \union {"debit"} BY <1>28 DEF Debit, Between
  <2> QED BY <1>1, <2>1, <2>2, <2>3, <2>4, <2>5, <2>6 DEF CheckoutTypeOK
<1>29. ASSUME NEW o \in Orders, Commit(o)
      PROVE  CheckoutTypeOK'
  BY <1>1, <1>2, <1>29 DEF CheckoutTypeOK, Commit
<1>30. ASSUME NEW o \in Orders, Serve(o)
      PROVE  CheckoutTypeOK'
  BY <1>1, <1>2, <1>30 DEF CheckoutTypeOK, Serve
<1>31. ASSUME NEW o \in Orders, Book(o)
      PROVE  CheckoutTypeOK'
  BY <1>1, <1>2, <1>31 DEF CheckoutTypeOK, Book, Return
<1>32. ASSUME NEW o \in Orders, Pop(o)
      PROVE  CheckoutTypeOK'
  BY <1>1, <1>2, <1>32, Dropped DEF CheckoutTypeOK, Pop, Return
<1>33. ASSUME NEW o \in Orders, Fail(o)
      PROVE  CheckoutTypeOK'
  BY <1>1, <1>2, <1>33 DEF CheckoutTypeOK, Fail, Return
<1>34. ASSUME NEW o \in Orders, ApproveCard(o)
      PROVE  CheckoutTypeOK'
  BY <1>1, <1>2, <1>34 DEF CheckoutTypeOK, ApproveCard, Deliver
<1>35. ASSUME NEW delta \in {Step, -Step}, AdjustWallet(delta)
      PROVE  CheckoutTypeOK'
  <2>1. raced' \subseteq {"deadline", "decrease", "debit", "release", "plan"}
    BY <1>1, <1>35 DEF CheckoutTypeOK, AdjustWallet, Beside
  <2>2. adjusted' \in Int BY <1>1, <1>35 DEF CheckoutTypeOK, AdjustWallet
  <2>3. /\ balance' \in 0..MaxBalance /\ admin' \in 0..MaxAdmin
        /\ UNCHANGED <<ledger, plan, rows, order, flags, thread, handler, told, stage, outcome,
                       faults, deadlines>>
    BY <1>1, <1>35 DEF CheckoutTypeOK, AdjustWallet
  <2> QED BY <1>1, <2>1, <2>2, <2>3 DEF CheckoutTypeOK
<1>36. ASSUME NEW price \in Prices, EditPlan(price)
      PROVE  CheckoutTypeOK'
  BY <1>1, <1>2, <1>36 DEF CheckoutTypeOK, EditPlan, Beside
<1>37. CASE Crash
  <2>1. order' \in [Orders -> Order] BY <1>1, <1>3, <1>37 DEF CheckoutTypeOK, Crash
  <2>2. stage' \in [Orders -> {"none", "lock", "debit", "flag", "serve", "book", "pop"}]
    BY <1>37 DEF Crash
  <2>3. /\ thread' = {} /\ told' = {} /\ Idle /\ faults' \in 0..MaxFaults
        /\ UNCHANGED <<money, plan, rows, flags, outcome, raced, deadlines, admin>>
    BY <1>1, <1>37 DEF CheckoutTypeOK, Crash
  <2> QED BY <1>1, <2>1, <2>2, <2>3 DEF CheckoutTypeOK
<1>38. CASE UNCHANGED vars
  BY <1>1, <1>2, <1>38 DEF CheckoutTypeOK, vars
<1>39. ASSUME NEW o \in Orders, TakeUp(o)
      PROVE  CheckoutTypeOK'
  BY <1>1, <1>2, <1>39 DEF CheckoutTypeOK, TakeUp, Return
<1>40. ASSUME NEW o \in Orders, AdminVerify(o)
      PROVE  CheckoutTypeOK'
  BY <1>1, <1>2, <1>40 DEF CheckoutTypeOK, AdminVerify, Verify, Deliver
<1>41. ASSUME NEW o \in Orders, AdminFindUnpaid(o)
      PROVE  CheckoutTypeOK'
  BY <1>1, <1>2, <1>41 DEF CheckoutTypeOK, AdminFindUnpaid
<1>42. ASSUME NEW o \in Orders, AdminRelease(o)
      PROVE  CheckoutTypeOK'
  BY <1>1, <1>2, <1>42, Dropped DEF CheckoutTypeOK, AdminRelease, Release
<1> QED
  BY <1>10, <1>11, <1>12, <1>13, <1>14, <1>15, <1>16, <1>17, <1>18, <1>19, <1>20, <1>21, <1>22,
     <1>23, <1>24, <1>25, <1>26, <1>27, <1>28, <1>29, <1>30, <1>31, <1>32, <1>33, <1>34, <1>35,
     <1>36, <1>37, <1>38, <1>39, <1>40, <1>41, <1>42 DEF Next

-----------------------------------------------------------------------------
(* What a step does to an order                                            *)

\* What goes on beside an open checkout is not forgotten.
LEMMA RacedGrows == ASSUME [Next]_vars PROVE raced \subseteq raced'
<1> USE DEF bounds
<1>1. ASSUME NEW o \in Orders, NEW buy \in BOOLEAN, NEW code \in BOOLEAN, StartOrder(o, buy, code)
      PROVE  raced \subseteq raced'
  BY <1>1 DEF StartOrder
<1>2. CASE ReadBalance
  BY <1>2 DEF ReadBalance
<1>3. CASE Price
  BY <1>3 DEF Price
<1>4. CASE StoreRow
  BY <1>4 DEF StoreRow
<1>5. CASE RequestLink
  BY <1>5 DEF RequestLink
<1>6. CASE LinkDeadline
  BY <1>6 DEF LinkDeadline
<1>7. ASSUME NEW o \in Orders, Check(o)
      PROVE  raced \subseteq raced'
  BY <1>7 DEF Check, Verify, Deliver
<1>8. CASE ReleaseUnpaid
  BY <1>8 DEF Release, ReleaseUnpaid
<1>9. CASE ReleaseDuplicate
  BY <1>9 DEF Release, ReleaseDuplicate
<1>10. CASE EndDuplicates
  BY <1>10 DEF EndDuplicates
<1>11. CASE CancelCard
  BY <1>11 DEF CancelCard
<1>12. CASE CancelLocal
  BY <1>12 DEF CancelLocal
<1>13. CASE DropCancelled
  BY <1>13 DEF DropCancelled
<1>14. ASSUME NEW o \in Orders, LinkStored(o)
      PROVE  raced \subseteq raced'
  BY <1>14 DEF LinkStored
<1>15. ASSUME NEW o \in Orders, LinkRefused(o)
      PROVE  raced \subseteq raced'
  BY <1>15 DEF LinkRefused
<1>16. ASSUME NEW o \in Orders, Pay(o)
      PROVE  raced \subseteq raced'
  BY <1>16 DEF Pay
<1>17. ASSUME NEW o \in Orders, FindUnpaid(o)
      PROVE  raced \subseteq raced'
  BY <1>17 DEF Unpaid, FindUnpaid
<1>18. ASSUME NEW o \in Orders, FindDuplicate(o)
      PROVE  raced \subseteq raced'
  BY <1>18 DEF Unpaid, FindDuplicate
<1>19. ASSUME NEW o \in Orders, Debit(o)
      PROVE  raced \subseteq raced'
  BY <1>19 DEF Debit, Between
<1>20. ASSUME NEW o \in Orders, Commit(o)
      PROVE  raced \subseteq raced'
  BY <1>20 DEF Commit
<1>21. ASSUME NEW o \in Orders, Serve(o)
      PROVE  raced \subseteq raced'
  BY <1>21 DEF Serve
<1>22. ASSUME NEW o \in Orders, Book(o)
      PROVE  raced \subseteq raced'
  BY <1>22 DEF Book
<1>23. ASSUME NEW o \in Orders, Pop(o)
      PROVE  raced \subseteq raced'
  BY <1>23 DEF Pop
<1>24. ASSUME NEW o \in Orders, Fail(o)
      PROVE  raced \subseteq raced'
  BY <1>24 DEF Fail
<1>25. ASSUME NEW o \in Orders, ApproveCard(o)
      PROVE  raced \subseteq raced'
  BY <1>25 DEF ApproveCard
<1>26. ASSUME NEW delta \in {Step, -Step}, AdjustWallet(delta)
      PROVE  raced \subseteq raced'
  BY <1>26 DEF AdjustWallet, Beside
<1>27. ASSUME NEW price \in Prices, EditPlan(price)
      PROVE  raced \subseteq raced'
  BY <1>27 DEF EditPlan, Beside
<1>28. CASE Crash
  BY <1>28 DEF Crash
<1>29. CASE UNCHANGED vars
  BY <1>29 DEF vars
<1>30. ASSUME NEW o \in Orders, TakeUp(o)
      PROVE  raced \subseteq raced'
  BY <1>30 DEF TakeUp, Return
<1>31. ASSUME NEW o \in Orders, AdminVerify(o)
      PROVE  raced \subseteq raced'
  BY <1>31 DEF AdminVerify, Verify, Deliver
<1>32. ASSUME NEW o \in Orders, AdminFindUnpaid(o)
      PROVE  raced \subseteq raced'
  BY <1>32 DEF AdminFindUnpaid
<1>33. ASSUME NEW o \in Orders, AdminRelease(o)
      PROVE  raced \subseteq raced'
  BY <1>33 DEF AdminRelease, Release
<1> QED
  BY <1>1, <1>2, <1>3, <1>4, <1>5, <1>6, <1>7, <1>8, <1>9, <1>10, <1>11, <1>12, <1>13, <1>14,
     <1>15, <1>16, <1>17, <1>18, <1>19, <1>20, <1>21, <1>22, <1>23, <1>24, <1>25, <1>26, <1>27,
     <1>28, <1>29, <1>30, <1>31, <1>32, <1>33 DEF Next

\* A step leaves an untouched order untouched, unless it stores its row.
LEMMA StillUntouched ==
  ASSUME CheckoutInv, [Next]_vars, NEW q \in Orders, Untouched(q)
  PROVE  \/ Untouched(q)'
         \/ StoreRow /\ q = cur /\ rows' # rows
         \/ LinkStored(q)
<1> USE DEF money, flags, outcome
<1>1. CheckoutTypeOK BY DEF CheckoutInv
<1>2. /\ q \notin Open \union committed \union authorized \union paid \union served \union booked
      /\ stage[q] = "none" /\ referral # q
      /\ <<q, "debit">> \notin ledger /\ <<q, "refund">> \notin ledger
  BY DEF Untouched
<1>3. /\ Open \subseteq Orders
      /\ Latest # 0 => Latest \in Open
  BY <1>1, LatestRow
<1>10. ASSUME NEW o \in Orders, NEW buy \in BOOLEAN, NEW code \in BOOLEAN, StartOrder(o, buy, code)
      PROVE  Untouched(q)'
  BY <1>1, <1>2, <1>3, <1>10 DEF CheckoutTypeOK, Untouched, Open, StartOrder
<1>11. CASE ReadBalance
  BY <1>1, <1>2, <1>3, <1>11 DEF CheckoutTypeOK, Untouched, Open, ReadBalance
<1>12. CASE Price
  BY <1>1, <1>2, <1>3, <1>12 DEF CheckoutTypeOK, Untouched, Open, Price
<1>13. ASSUME StoreRow PROVE Untouched(q)' \/ (q = cur /\ rows' # rows)
  <2>1. CASE q # cur
    <3>1. cur \in Orders /\ cur \notin Open BY <1>13, NewRow DEF StoreRow, InCheckout
    <3>2. Open' \subseteq Open \union {cur} BY <1>1, <1>13, <3>1, Stored DEF StoreRow, Open
    <3> QED BY <1>1, <1>2, <1>13, <2>1, <3>2 DEF CheckoutTypeOK, StoreRow, Deliver, Untouched
  <2>2. CASE q = cur
    <3>1. CASE rows' = rows
      <4>1. stage' = stage
         BY <1>1, <1>13, <3>1, LenProperties, AppendProperties DEF CheckoutTypeOK, StoreRow
      <4> QED BY <1>2, <1>13, <3>1, <4>1 DEF StoreRow, Untouched, Open
    <3> QED BY <1>13, <2>2, <3>1
  <2> QED BY <2>1, <2>2
<1>14. CASE RequestLink
  BY <1>1, <1>2, <1>3, <1>14 DEF CheckoutTypeOK, Untouched, Open, RequestLink
<1>15. CASE LinkDeadline
  BY <1>1, <1>2, <1>3, <1>15 DEF CheckoutTypeOK, Untouched, Open, LinkDeadline
<1>16. ASSUME NEW o \in Orders, Check(o)
      PROVE  Untouched(q)'
  BY <1>1, <1>2, <1>3, <1>16 DEF CheckoutTypeOK, Untouched, Open, Check, Verify, Deliver
<1>17. CASE ReleaseUnpaid
  BY <1>1, <1>2, <1>3, <1>17, Dropped DEF Release, CheckoutTypeOK, Untouched, Open, ReleaseUnpaid
<1>18. CASE ReleaseDuplicate
  BY <1>1, <1>2, <1>3, <1>18, Dropped DEF Release, CheckoutTypeOK, Untouched, Open, ReleaseDuplicate
<1>19. CASE EndDuplicates
  BY <1>1, <1>2, <1>3, <1>19 DEF CheckoutTypeOK, Untouched, Open, EndDuplicates
<1>20. CASE CancelCard
  BY <1>1, <1>2, <1>3, <1>20, Dropped DEF CheckoutTypeOK, Untouched, Open, CancelCard
<1>21. CASE CancelLocal
  BY <1>1, <1>2, <1>3, <1>21 DEF CheckoutTypeOK, Untouched, Open, CancelLocal, KindOf
<1>22. CASE DropCancelled
  BY <1>1, <1>2, <1>3, <1>22, Dropped DEF CheckoutTypeOK, Untouched, Open, DropCancelled
<1>23. ASSUME NEW o \in Orders, LinkStored(o)
      PROVE  Untouched(q)' \/ LinkStored(q)
  <2>1. CASE o = q BY <1>23, <2>1
  <2>2. CASE o # q
    <3>1. Open' = Open \union {o} BY <1>1, <1>23, NewRow, Stored DEF LinkStored
    <3> QED BY <1>2, <1>23, <2>2, <3>1 DEF LinkStored, Untouched
  <2> QED BY <2>1, <2>2
<1>24. ASSUME NEW o \in Orders, LinkRefused(o)
      PROVE  Untouched(q)'
  BY <1>1, <1>2, <1>3, <1>24 DEF CheckoutTypeOK, Untouched, Open, LinkRefused
<1>25. ASSUME NEW o \in Orders, Pay(o)
      PROVE  Untouched(q)'
  BY <1>1, <1>2, <1>3, <1>25 DEF CheckoutTypeOK, Untouched, Open, Pay
<1>26. ASSUME NEW o \in Orders, FindUnpaid(o)
      PROVE  Untouched(q)'
  BY <1>1, <1>2, <1>3, <1>26 DEF Unpaid, CheckoutTypeOK, Untouched, Open, FindUnpaid
<1>27. ASSUME NEW o \in Orders, FindDuplicate(o)
      PROVE  Untouched(q)'
  BY <1>1, <1>2, <1>3, <1>27 DEF Unpaid, CheckoutTypeOK, Untouched, Open, FindDuplicate
<1>28. ASSUME NEW o \in Orders, Debit(o)
      PROVE  Untouched(q)'
  BY <1>1, <1>2, <1>3, <1>28 DEF CheckoutTypeOK, Untouched, Open, Debit
<1>29. ASSUME NEW o \in Orders, Commit(o)
      PROVE  Untouched(q)'
  BY <1>1, <1>2, <1>3, <1>29 DEF CheckoutTypeOK, Untouched, Open, Commit
<1>30. ASSUME NEW o \in Orders, Serve(o)
      PROVE  Untouched(q)'
  BY <1>1, <1>2, <1>3, <1>30 DEF CheckoutTypeOK, Untouched, Open, Serve
<1>31. ASSUME NEW o \in Orders, Book(o)
      PROVE  Untouched(q)'
  BY <1>1, <1>2, <1>3, <1>31 DEF CheckoutTypeOK, Untouched, Open, Book
<1>32. ASSUME NEW o \in Orders, Pop(o)
      PROVE  Untouched(q)'
  BY <1>1, <1>2, <1>3, <1>32, Dropped DEF CheckoutTypeOK, Untouched, Open, Pop
<1>33. ASSUME NEW o \in Orders, Fail(o)
      PROVE  Untouched(q)'
  BY <1>1, <1>2, <1>3, <1>33 DEF CheckoutTypeOK, Untouched, Open, Fail
<1>34. ASSUME NEW o \in Orders, ApproveCard(o)
      PROVE  Untouched(q)'
  BY <1>1, <1>2, <1>3, <1>34 DEF CheckoutTypeOK, Untouched, Open, ApproveCard, Deliver
<1>35. ASSUME NEW delta \in {Step, -Step}, AdjustWallet(delta)
      PROVE  Untouched(q)'
  BY <1>1, <1>2, <1>3, <1>35 DEF CheckoutTypeOK, Untouched, Open, AdjustWallet
<1>36. ASSUME NEW price \in Prices, EditPlan(price)
      PROVE  Untouched(q)'
  BY <1>1, <1>2, <1>3, <1>36 DEF CheckoutTypeOK, Untouched, Open, EditPlan
<1>37. CASE Crash
  BY <1>1, <1>2, <1>3, <1>37 DEF CheckoutTypeOK, Untouched, Open, Crash
<1>38. CASE UNCHANGED vars
  BY <1>1, <1>2, <1>3, <1>38 DEF CheckoutTypeOK, Untouched, Open, vars
<1>39. ASSUME NEW o \in Orders, TakeUp(o)
      PROVE  Untouched(q)'
  BY <1>1, <1>2, <1>3, <1>39 DEF CheckoutTypeOK, Untouched, Open, TakeUp, Return
<1>40. ASSUME NEW o \in Orders, AdminVerify(o)
      PROVE  Untouched(q)'
  BY <1>1, <1>2, <1>3, <1>40 DEF CheckoutTypeOK, Untouched, Open, AdminVerify, Verify, Deliver
<1>41. ASSUME NEW o \in Orders, AdminFindUnpaid(o)
      PROVE  Untouched(q)'
  BY <1>1, <1>2, <1>3, <1>41 DEF CheckoutTypeOK, Untouched, Open, AdminFindUnpaid
<1>42. ASSUME NEW o \in Orders, AdminRelease(o)
      PROVE  Untouched(q)'
  BY <1>1, <1>2, <1>3, <1>42, Dropped DEF CheckoutTypeOK, Untouched, Open, AdminRelease, Release
<1> QED
  BY <1>10, <1>11, <1>12, <1>13, <1>14, <1>15, <1>16, <1>17, <1>18, <1>19, <1>20, <1>21, <1>22,
     <1>23, <1>24, <1>25, <1>26, <1>27, <1>28, <1>29, <1>30, <1>31, <1>32, <1>33, <1>34, <1>35,
     <1>36, <1>37, <1>38, <1>39, <1>40, <1>41, <1>42 DEF Next

\* The row of an order is written while it is checked out, and erased when its
\* link is refused, its receipt cannot be asked for, or it left no trace.
LEMMA OrderWritten ==
  ASSUME CheckoutInv, [Next]_vars, NEW q \in Orders
  PROVE  \/ order'[q] = order[q]
         \/ /\ q \notin Started /\ at' = "started" /\ cur' = q
            /\ order'[q].kind = "none" /\ order'[q].snapshot = plan /\ plan' = plan
         \/ /\ ReadBalance /\ q = cur
            /\ order'[q] = [order[q] EXCEPT !.base = plan]
         \/ Price /\ q = cur
         \/ order'[q] = NoOrder /\ StoreRow /\ q = cur /\ UNCHANGED <<rows, stage>> /\ at' = "idle"
         \/ order'[q] = NoOrder /\ LinkRefused(q)
         \/ order'[q] = NoOrder /\ Crash /\ q \notin Open \union served \union paid /\ ~Debited(q)
<1> USE DEF money, flags, outcome
<1>1. order \in [Orders -> Order] BY DEF CheckoutInv, CheckoutTypeOK
<1>10. ASSUME NEW o \in Orders, NEW buy \in BOOLEAN, NEW code \in BOOLEAN, StartOrder(o, buy, code)
      PROVE  \/ order'[q] = order[q]
             \/ /\ q \notin Started /\ at' = "started" /\ cur' = q
                /\ order'[q].kind = "none" /\ order'[q].snapshot = plan /\ plan' = plan
  BY <1>1, <1>10 DEF StartOrder, NoOrder
<1>11. ASSUME ReadBalance PROVE order'[q] = order[q] \/ (q = cur /\ order'[q] = [order[q] EXCEPT !.base = plan])
  BY <1>1, <1>11 DEF ReadBalance
<1>12. ASSUME Price PROVE order'[q] = order[q] \/ q = cur
  BY <1>1, <1>12 DEF Price
<1>13. ASSUME StoreRow PROVE 
             \/ order'[q] = order[q]
             \/ order'[q] = NoOrder /\ q = cur /\ UNCHANGED <<rows, stage>> /\ at' = "idle"
  BY <1>1, <1>13 DEF StoreRow, Idle
<1>14. ASSUME RequestLink PROVE order'[q] = order[q]
  BY <1>1, <1>14 DEF RequestLink
<1>15. ASSUME LinkDeadline PROVE order'[q] = order[q]
  BY <1>1, <1>15 DEF LinkDeadline
<1>16. ASSUME NEW o \in Orders, Check(o)
      PROVE  order'[q] = order[q]
  BY <1>1, <1>16 DEF Check, Verify, Deliver
<1>17. ASSUME ReleaseUnpaid PROVE order'[q] = order[q]
  BY <1>1, <1>17 DEF Release, ReleaseUnpaid
<1>18. ASSUME ReleaseDuplicate PROVE order'[q] = order[q]
  BY <1>1, <1>18 DEF Release, ReleaseDuplicate
<1>19. ASSUME EndDuplicates PROVE order'[q] = order[q]
  BY <1>1, <1>19 DEF EndDuplicates
<1>20. ASSUME CancelCard PROVE order'[q] = order[q]
  BY <1>1, <1>20 DEF CancelCard
<1>21. ASSUME CancelLocal PROVE order'[q] = order[q]
  BY <1>1, <1>21 DEF CancelLocal
<1>22. ASSUME DropCancelled PROVE order'[q] = order[q]
  BY <1>1, <1>22 DEF DropCancelled
<1>23. ASSUME NEW o \in Orders, LinkStored(o)
      PROVE  order'[q] = order[q]
  BY <1>1, <1>23 DEF LinkStored
<1>24. ASSUME NEW o \in Orders, LinkRefused(o)
      PROVE  order'[q] = order[q] \/ (order'[q] = NoOrder /\ o = q)
  BY <1>1, <1>24 DEF LinkRefused
<1>25. ASSUME NEW o \in Orders, Pay(o)
      PROVE  order'[q] = order[q]
  BY <1>1, <1>25 DEF Pay
<1>26. ASSUME NEW o \in Orders, FindUnpaid(o)
      PROVE  order'[q] = order[q]
  BY <1>1, <1>26 DEF Unpaid, FindUnpaid
<1>27. ASSUME NEW o \in Orders, FindDuplicate(o)
      PROVE  order'[q] = order[q]
  BY <1>1, <1>27 DEF Unpaid, FindDuplicate
<1>28. ASSUME NEW o \in Orders, Debit(o)
      PROVE  order'[q] = order[q]
  BY <1>1, <1>28 DEF Debit
<1>29. ASSUME NEW o \in Orders, Commit(o)
      PROVE  order'[q] = order[q]
  BY <1>1, <1>29 DEF Commit
<1>30. ASSUME NEW o \in Orders, Serve(o)
      PROVE  order'[q] = order[q]
  BY <1>1, <1>30 DEF Serve
<1>31. ASSUME NEW o \in Orders, Book(o)
      PROVE  order'[q] = order[q]
  BY <1>1, <1>31 DEF Book
<1>32. ASSUME NEW o \in Orders, Pop(o)
      PROVE  order'[q] = order[q]
  BY <1>1, <1>32 DEF Pop
<1>33. ASSUME NEW o \in Orders, Fail(o)
      PROVE  order'[q] = order[q]
  BY <1>1, <1>33 DEF Fail
<1>34. ASSUME NEW o \in Orders, ApproveCard(o)
      PROVE  order'[q] = order[q]
  BY <1>1, <1>34 DEF ApproveCard
<1>35. ASSUME NEW delta \in {Step, -Step}, AdjustWallet(delta)
      PROVE  order'[q] = order[q]
  BY <1>1, <1>35 DEF AdjustWallet
<1>36. ASSUME NEW price \in Prices, EditPlan(price)
      PROVE  order'[q] = order[q]
  BY <1>1, <1>36 DEF EditPlan
<1>37. ASSUME Crash PROVE 
             \/ order'[q] = order[q]
             \/ order'[q] = NoOrder /\ q \notin Open \union served \union paid /\ ~Debited(q)
  BY <1>1, <1>37 DEF Crash
<1>38. ASSUME UNCHANGED vars PROVE order'[q] = order[q]
  BY <1>1, <1>38 DEF vars
<1>39. ASSUME NEW o \in Orders, TakeUp(o)
      PROVE  order'[q] = order[q]
  BY <1>1, <1>39 DEF TakeUp, Return
<1>40. ASSUME NEW o \in Orders, AdminVerify(o)
      PROVE  order'[q] = order[q]
  BY <1>1, <1>40 DEF AdminVerify, Verify, Deliver
<1>41. ASSUME NEW o \in Orders, AdminFindUnpaid(o)
      PROVE  order'[q] = order[q]
  BY <1>1, <1>41 DEF AdminFindUnpaid
<1>42. ASSUME NEW o \in Orders, AdminRelease(o)
      PROVE  order'[q] = order[q]
  BY <1>1, <1>42 DEF AdminRelease, Release
<1> QED
  BY <1>10, <1>11, <1>12, <1>13, <1>14, <1>15, <1>16, <1>17, <1>18, <1>19, <1>20, <1>21, <1>22,
     <1>23, <1>24, <1>25, <1>26, <1>27, <1>28, <1>29, <1>30, <1>31, <1>32, <1>33, <1>34, <1>35,
     <1>36, <1>37, <1>38, <1>39, <1>40, <1>41, <1>42 DEF Next

\* Only a request for a link starts a thread.
LEMMA ThreadGrows ==
  ASSUME [Next]_vars
  PROVE  thread' \subseteq thread \/ (RequestLink /\ thread' = thread \union {cur})
<1> USE DEF bounds
<1>1. ASSUME NEW o \in Orders, NEW buy \in BOOLEAN, NEW code \in BOOLEAN, StartOrder(o, buy, code)
      PROVE  thread' \subseteq thread
  BY <1>1 DEF StartOrder
<1>2. CASE ReadBalance
  BY <1>2 DEF ReadBalance
<1>3. CASE Price
  BY <1>3 DEF Price
<1>4. CASE StoreRow
  BY <1>4 DEF StoreRow
<1>5. ASSUME RequestLink PROVE thread' = thread \union {cur}
  BY <1>5 DEF RequestLink
<1>6. CASE LinkDeadline
  BY <1>6 DEF LinkDeadline
<1>7. ASSUME NEW o \in Orders, Check(o)
      PROVE  thread' \subseteq thread
  BY <1>7 DEF Check, Verify, Deliver
<1>8. CASE ReleaseUnpaid
  BY <1>8 DEF Release, ReleaseUnpaid
<1>9. CASE ReleaseDuplicate
  BY <1>9 DEF Release, ReleaseDuplicate
<1>10. CASE EndDuplicates
  BY <1>10 DEF EndDuplicates
<1>11. CASE CancelCard
  BY <1>11 DEF CancelCard
<1>12. CASE CancelLocal
  BY <1>12 DEF CancelLocal
<1>13. CASE DropCancelled
  BY <1>13 DEF DropCancelled
<1>14. ASSUME NEW o \in Orders, LinkStored(o)
      PROVE  thread' \subseteq thread
  BY <1>14 DEF LinkStored
<1>15. ASSUME NEW o \in Orders, LinkRefused(o)
      PROVE  thread' \subseteq thread
  BY <1>15 DEF LinkRefused
<1>16. ASSUME NEW o \in Orders, Pay(o)
      PROVE  thread' \subseteq thread
  BY <1>16 DEF Pay
<1>17. ASSUME NEW o \in Orders, FindUnpaid(o)
      PROVE  thread' \subseteq thread
  BY <1>17 DEF Unpaid, FindUnpaid
<1>18. ASSUME NEW o \in Orders, FindDuplicate(o)
      PROVE  thread' \subseteq thread
  BY <1>18 DEF Unpaid, FindDuplicate
<1>19. ASSUME NEW o \in Orders, Debit(o)
      PROVE  thread' \subseteq thread
  BY <1>19 DEF Debit
<1>20. ASSUME NEW o \in Orders, Commit(o)
      PROVE  thread' \subseteq thread
  BY <1>20 DEF Commit
<1>21. ASSUME NEW o \in Orders, Serve(o)
      PROVE  thread' \subseteq thread
  BY <1>21 DEF Serve
<1>22. ASSUME NEW o \in Orders, Book(o)
      PROVE  thread' \subseteq thread
  BY <1>22 DEF Book
<1>23. ASSUME NEW o \in Orders, Pop(o)
      PROVE  thread' \subseteq thread
  BY <1>23 DEF Pop
<1>24. ASSUME NEW o \in Orders, Fail(o)
      PROVE  thread' \subseteq thread
  BY <1>24 DEF Fail
<1>25. ASSUME NEW o \in Orders, ApproveCard(o)
      PROVE  thread' \subseteq thread
  BY <1>25 DEF ApproveCard
<1>26. ASSUME NEW delta \in {Step, -Step}, AdjustWallet(delta)
      PROVE  thread' \subseteq thread
  BY <1>26 DEF AdjustWallet
<1>27. ASSUME NEW price \in Prices, EditPlan(price)
      PROVE  thread' \subseteq thread
  BY <1>27 DEF EditPlan
<1>28. CASE Crash
  BY <1>28 DEF Crash
<1>29. CASE UNCHANGED vars
  BY <1>29 DEF vars
<1>30. ASSUME NEW o \in Orders, TakeUp(o)
      PROVE  thread' \subseteq thread
  BY <1>30 DEF TakeUp, Return
<1>31. ASSUME NEW o \in Orders, AdminVerify(o)
      PROVE  thread' \subseteq thread
  BY <1>31 DEF AdminVerify, Verify, Deliver
<1>32. ASSUME NEW o \in Orders, AdminFindUnpaid(o)
      PROVE  thread' \subseteq thread
  BY <1>32 DEF AdminFindUnpaid
<1>33. ASSUME NEW o \in Orders, AdminRelease(o)
      PROVE  thread' \subseteq thread
  BY <1>33 DEF AdminRelease, Release
<1> QED
  BY <1>1, <1>2, <1>3, <1>4, <1>5, <1>6, <1>7, <1>8, <1>9, <1>10, <1>11, <1>12, <1>13, <1>14,
     <1>15, <1>16, <1>17, <1>18, <1>19, <1>20, <1>21, <1>22, <1>23, <1>24, <1>25, <1>26, <1>27,
     <1>28, <1>29, <1>30, <1>31, <1>32, <1>33 DEF Next

\* The three parts of an order make up its price (start_order_message).
LEMMA Priced ==
  ASSUME CheckoutInv, Price, NEW q, q = cur
  PROVE  /\ q \in Orders /\ order'[q].kind \in Kinds /\ PartsOK(q)'
         /\ order'[q].first = order[q].first
         /\ order'[q].wallet \in Nat
         /\ order'[q].wallet > 0 => order'[q].wallet <= seen - Reserved
<1> DEFINE due == order[cur].base - order[cur].discount
           used == Min({Available, due})
<1>1. /\ due \in 1..Max(Prices) /\ used \in 0..due
      /\ used > 0 => used <= seen - Reserved
  BY Used DEF Price
<1>2. /\ cur \in Orders /\ order \in [Orders -> Order]
      /\ order[cur].base \in Prices /\ order[cur].discount \in {0, Discount}
      /\ "plan" \notin raced => order[cur].base = order[cur].snapshot
  BY DEF Price, CheckoutInv, CheckoutTypeOK, HandlerOK, Order
<1>3. PICK k \in Kinds :
         /\ order' = [order EXCEPT ![cur] = [order[cur] EXCEPT !.wallet = used,
                                                               !.gateway = due - used, !.kind = k]]
         /\ k = "wallet" <=> used = due
  BY DEF Price, Kinds
<1>4. raced' = raced BY DEF Price
<1>5. used \in Int /\ due \in Int /\ order[cur].base \in Int /\ order[cur].discount \in Int
  <2>0. Prices \subseteq Int /\ Discount \in Int BY CheckoutAssumption
  <2>1. order[cur].base \in Int BY <1>2, <2>0
  <2>2. order[cur].discount \in Int BY <1>2, <2>0
  <2> HIDE DEF used
  <2> QED BY <1>1, <2>1, <2>2
<1> DEFINE new == order'[q]
<1> HIDE DEF used
<1>6. /\ new.wallet = used /\ new.gateway = due - used /\ new.kind = k
      /\ new.base = order[cur].base /\ new.discount = order[cur].discount
      /\ new.snapshot = order[cur].snapshot /\ new.first = order[cur].first
  BY <1>2, <1>3 DEF Order
<1> HIDE DEF new
<1>7. /\ new.wallet + new.gateway + new.discount = new.base
      /\ new.kind = "wallet" <=> new.gateway = 0
  BY <1>3, <1>5, <1>6
<1>8. PartsOK(q)' BY <1>2, <1>4, <1>6, <1>7 DEF PartsOK, new
<1>9. new.wallet \in Nat /\ (new.wallet > 0 => new.wallet <= seen - Reserved)
  BY <1>1, <1>5, <1>6
<1> QED BY <1>2, <1>3, <1>6, <1>8, <1>9 DEF new

\* Every step keeps an order with its parts, and one without a row untouched.
LEMMA OrdersStep == ASSUME CheckoutInv, [Next]_vars PROVE OrdersOK'
<1>1. CheckoutTypeOK /\ OrdersOK /\ HandlerOK /\ FlagsOK BY DEF CheckoutInv
<1> SUFFICES ASSUME NEW q \in Orders
             PROVE  /\ order'[q].kind # "none" => PartsOK(q)'
                    /\ order'[q].kind = "none" \/ q \in thread' => Untouched(q)'
                    /\ q \in thread' => order'[q].kind = "gateway"
  BY DEF OrdersOK
<1>2. \/ order'[q] = order[q]
      \/ q \notin Started /\ order'[q].kind = "none" /\ order'[q].snapshot = plan
      \/ ReadBalance /\ q = cur /\ order'[q] = [order[q] EXCEPT !.base = plan]
      \/ Price /\ q = cur
      \/ order'[q] = NoOrder /\ StoreRow /\ q = cur /\ UNCHANGED <<rows, stage>>
      \/ order'[q] = NoOrder /\ LinkRefused(q)
      \/ order'[q] = NoOrder /\ Crash /\ q \notin Open \union served \union paid /\ ~Debited(q)
  BY OrderWritten
<1>3. \/ ~Untouched(q) \/ Untouched(q)'
      \/ StoreRow /\ q = cur /\ rows' # rows
      \/ LinkStored(q)
  BY StillUntouched
<1>4. q \in thread' => q \in thread \/ (RequestLink /\ q = cur)
  BY ThreadGrows
<1>5. order'[q].kind # "none" => PartsOK(q)'
  <2>1. CASE order'[q] = order[q] BY <1>1, <2>1, RacedGrows DEF OrdersOK, PartsOK
  <2>2. CASE ReadBalance /\ q = cur /\ order'[q] = [order[q] EXCEPT !.base = plan]
    <3>1. order[q].kind = "none" BY <1>1, <2>2 DEF ReadBalance, HandlerOK
    <3>2. order'[q].kind = order[q].kind BY <1>1, <2>2 DEF CheckoutTypeOK, Order
    <3> QED BY <3>1, <3>2
  <2>3. CASE Price /\ q = cur BY <2>3, Priced
  <2> QED BY <1>2, <2>1, <2>2, <2>3 DEF NoOrder
<1>6. q \in thread' => order'[q].kind = "gateway"
  <2>1. CASE RequestLink /\ q = cur BY <2>1 DEF RequestLink, KindOf
  <2>2. CASE q \in thread /\ q \in thread'
    <3>1. order[q].kind = "gateway" /\ Untouched(q) BY <1>1, <2>2 DEF OrdersOK
    <3>2. q \in Started BY <3>1 DEF Started, NoOrder
    <3>3. ~(Crash /\ order'[q] = NoOrder) BY <2>2 DEF Crash
    <3>4. ~LinkRefused(q) BY <2>2 DEF LinkRefused
    <3>5. q = cur => ~ReadBalance /\ ~Price /\ ~StoreRow
      BY <1>1, <2>2, <3>1 DEF HandlerOK, ReadBalance, Price, StoreRow
    <3> QED BY <1>2, <3>1, <3>2, <3>3, <3>4, <3>5
  <2> QED BY <1>4, <2>1, <2>2
<1>7. q \in thread' => Untouched(q)'
  <2>1. q \in thread' => Untouched(q)
    BY <1>1, <1>4 DEF OrdersOK, HandlerOK, RequestLink, InCheckout
  <2>2. q \in thread' => ~LinkStored(q) BY DEF LinkStored
  <2>3. q \in thread' /\ StoreRow => q # cur
    BY <1>1, <1>4 DEF StoreRow, HandlerOK, RequestLink
  <2> QED BY <1>3, <2>1, <2>2, <2>3
<1>8. order'[q].kind = "none" => Untouched(q)'
  <2>1. CASE order[q].kind = "none"
    <3>1. Untouched(q) BY <1>1, <2>1 DEF OrdersOK
    <3>2. ~LinkStored(q) BY <1>1, <2>1 DEF OrdersOK, LinkStored
    <3>3. ~(StoreRow /\ q = cur) BY <2>1 DEF StoreRow, KindOf
    <3> QED BY <1>3, <3>1, <3>2, <3>3
  <2>2. CASE order[q].kind # "none" /\ order'[q].kind = "none"
    <3>1. CASE q \notin Started BY <2>2, <3>1 DEF Started, NoOrder
    <3>2. CASE ReadBalance /\ q = cur
      BY <1>1, <2>2, <3>2 DEF ReadBalance, HandlerOK
    <3>3. CASE Price /\ q = cur BY <2>2, <3>3, Priced DEF Kinds
    <3>4. CASE order'[q] = NoOrder /\ StoreRow /\ q = cur /\ UNCHANGED <<rows, stage>>
      <4>1. Untouched(q) BY <1>1, <3>4 DEF HandlerOK, StoreRow, InCheckout
      <4>2. ~LinkStored(q) BY <1>1, <3>4 DEF LinkStored, HandlerOK, StoreRow
      <4> QED BY <1>3, <3>4, <4>1, <4>2
    <3>5. CASE LinkRefused(q)
      <4>1. Untouched(q) BY <1>1, <3>5 DEF LinkRefused, OrdersOK
      <4> QED BY <3>5, <4>1 DEF LinkRefused, Untouched, Open, money, flags, outcome
    <3>6. CASE Crash /\ q \notin Open \union served \union paid /\ ~Debited(q)
      <4>1. /\ q \notin Open \union committed \union authorized \union paid \union served \union booked
            /\ <<q, "debit">> \notin ledger /\ <<q, "refund">> \notin ledger
            /\ referral # q
        BY <1>1, <3>6, Bounds DEF FlagsOK, Debited
      <4> QED BY <3>6, <4>1 DEF Crash, Untouched, Open, money, flags, outcome
    <3> QED BY <1>2, <2>2, <3>1, <3>2, <3>3, <3>4, <3>5, <3>6
  <2> QED BY <2>1, <2>2
<1> QED BY <1>5, <1>6, <1>7, <1>8

-----------------------------------------------------------------------------
(* The handler                                                             *)

\* A step that leaves the customer's handler where it is, and what it relies on.
LEMMA HandlerKept ==
  ASSUME CheckoutInv, [Next]_vars, UNCHANGED handler,
         order'[cur] = order[cur] \/ ~(InCheckout \/ at = "cancelled"),
         InCheckout => plan' = plan \/ "plan" \in raced',
         at = "link" => cur \in thread',
         at = "priced" => cur \notin thread',
         at = "cancelled" => cur \in Open' /\ stage'[cur] \in {"none", "lock"},
         ~StoreRow, InCheckout => ~LinkStored(cur)
  PROVE  HandlerOK'
<1>1. HandlerOK /\ (InCheckout <=> InCheckout') /\ at' = at /\ cur' = cur /\ raced \subseteq raced'
  BY RacedGrows DEF CheckoutInv, InCheckout, handler
<1>2. InCheckout => Untouched(cur)'
  BY <1>1, StillUntouched DEF HandlerOK, InCheckout
<1> QED BY <1>1, <1>2 DEF HandlerOK, InCheckout

\* Every step keeps what the handler of the customer relies on across its awaits.
LEMMA HandlerStep == ASSUME CheckoutInv, [Next]_vars PROVE HandlerOK'
<1> USE DEF handler, Idle
<1>1. CheckoutTypeOK /\ OrdersOK /\ HandlerOK /\ AnsweredOK /\ StagesOK BY DEF CheckoutInv
<1>2. /\ Latest # 0 => Latest \in Open
      /\ LatestFirst # 0 => LatestFirst \in Open
      /\ Open \subseteq Orders
  BY <1>1, LatestRow, LatestFirstRow
<1>3. at' = "idle" => HandlerOK' BY DEF HandlerOK, InCheckout
<1>4. ASSUME UNCHANGED <<rows, order, thread, plan, handler>>, ~StoreRow,
             at = "cancelled" => stage'[cur] \in {"none", "lock"}
      PROVE  HandlerOK'
  <2>1. ~LinkStored(cur) \/ ~InCheckout
    BY <1>1, <1>4 DEF LinkStored
  <2> QED BY <1>1, <1>4, <2>1, HandlerKept DEF HandlerOK, Open
<1>10. ASSUME NEW o \in Orders, NEW buy \in BOOLEAN, NEW code \in BOOLEAN, StartOrder(o, buy, code)
      PROVE  HandlerOK'
  <2>1. order[o] = NoOrder BY <1>10 DEF StartOrder, Started
  <2>2. Untouched(o) BY <1>1, <2>1 DEF OrdersOK, NoOrder
  <2>3. Untouched(o)' BY <1>10, <2>2 DEF StartOrder, Untouched, Open, money, flags, outcome
  <2>4. order'[o].kind = "none" /\ order'[o].snapshot = plan
    BY <1>1, <1>10 DEF CheckoutTypeOK, StartOrder, NoOrder
  <2> QED BY <1>10, <2>3, <2>4 DEF StartOrder, HandlerOK, InCheckout
<1>11. CASE ReadBalance
  <2>1. Untouched(cur)' BY <1>11, <1>1 DEF HandlerOK, InCheckout, ReadBalance, Untouched, Open,
     money, flags, outcome
  <2>2. order'[cur] = [order[cur] EXCEPT !.base = plan]
    BY <1>1, <1>11 DEF CheckoutTypeOK, HandlerOK, ReadBalance
  <2>3. order[cur] \in Order BY <1>1, <1>11 DEF CheckoutTypeOK, HandlerOK, ReadBalance
  <2>4. /\ order'[cur].base = plan /\ order'[cur].kind = order[cur].kind
        /\ order'[cur].snapshot = order[cur].snapshot
    BY <2>2, <2>3 DEF Order
  <2> QED BY <1>1, <1>11, <2>1, <2>4 DEF CheckoutTypeOK, HandlerOK, InCheckout, ReadBalance
<1>12. CASE Price
  <2>1. Untouched(cur)' BY <1>12, <1>1 DEF HandlerOK, InCheckout, Price, Untouched, Open, money,
     flags, outcome
  <2>2. order'[cur].kind \in Kinds /\ cur \in Orders BY <1>12, Priced
  <2>3. cur \notin thread BY <1>1, <1>12 DEF OrdersOK, HandlerOK, Price
  <2> QED BY <1>12, <2>1, <2>2, <2>3 DEF HandlerOK, InCheckout, Price, Kinds
<1>13. CASE StoreRow
  <2>1. at' = "idle" \/ (at' = "delivering" /\ cur' = cur /\ rows' = Append(rows, cur))
    BY <1>13 DEF StoreRow
  <2>2. cur \in Orders /\ cur \notin Open BY <1>13, NewRow DEF StoreRow, InCheckout
  <2>3. CASE at' = "delivering" /\ cur' = cur /\ rows' = Append(rows, cur)
    <3>1. cur \in Open' BY <1>1, <2>2, <2>3, Stored
    <3> QED BY <2>2, <2>3, <3>1 DEF HandlerOK, InCheckout
  <2> QED BY <1>3, <2>1, <2>3
<1>14. CASE RequestLink
  <2>1. Untouched(cur)' BY <1>14, <1>1 DEF HandlerOK, InCheckout, RequestLink, Untouched, Open,
     money, flags, outcome
  <2> QED BY <1>1, <1>14, <2>1 DEF HandlerOK, InCheckout, RequestLink
<1>15. CASE LinkDeadline
  BY <1>3, <1>15 DEF LinkDeadline
<1>16. ASSUME NEW o \in Orders, Check(o)
      PROVE  HandlerOK'
  BY <1>2, <1>16 DEF Check, Verify, HandlerOK, InCheckout
<1>17. CASE ReleaseUnpaid
  BY <1>3, <1>17 DEF Release, ReleaseUnpaid, Cancelled, HandlerOK, InCheckout
<1>18. CASE ReleaseDuplicate
  BY <1>18 DEF Release, ReleaseDuplicate, Cancelled, HandlerOK, InCheckout
<1>19. CASE EndDuplicates
  BY <1>3, <1>19 DEF EndDuplicates
<1>20. CASE CancelCard
  BY <1>20 DEF CancelCard, HandlerOK, InCheckout
<1>21. CASE CancelLocal
  BY <1>1, <1>2, <1>21 DEF CancelLocal, HandlerOK, InCheckout, KindOf, Open
<1>22. CASE DropCancelled
  BY <1>3, <1>22 DEF DropCancelled, Cancelled, HandlerOK, InCheckout
<1>23. ASSUME NEW o \in Orders, LinkStored(o)
      PROVE  HandlerOK'
  <2>1. CASE at = "link" /\ cur = o BY <1>3, <1>23, <2>1 DEF LinkStored
  <2>2. CASE ~(at = "link" /\ cur = o)
    <3>1. UNCHANGED <<handler, order, plan, stage>> /\ thread' = thread \ {o}
      BY <1>23, <2>2 DEF LinkStored
    <3>2. Open' = Open \union {o} BY <1>1, <1>23, NewRow, Stored DEF LinkStored
    <3>3. InCheckout /\ cur = o => FALSE
      BY <1>1, <1>23, <2>2 DEF HandlerOK, OrdersOK, InCheckout, LinkStored
    <3>4. InCheckout => ~LinkStored(cur)
      BY <1>1, <1>23, <2>2, <3>1, <3>3 DEF HandlerOK, OrdersOK, InCheckout, LinkStored
    <3>5. ~StoreRow BY <1>23, <3>1, <3>2, NewRow DEF StoreRow, LinkStored, InCheckout, HandlerOK,
       Open
    <3>6. /\ at = "link" => cur \in thread'
          /\ at = "priced" => cur \notin thread'
          /\ at = "cancelled" => cur \in Open' /\ stage'[cur] \in {"none", "lock"}
      BY <1>1, <2>2, <3>1, <3>2 DEF HandlerOK
    <3> QED BY <3>1, <3>4, <3>5, <3>6, HandlerKept
  <2> QED BY <2>1, <2>2
<1>24. ASSUME NEW o \in Orders, LinkRefused(o)
      PROVE  HandlerOK'
  <2>1. CASE at = "link" /\ cur = o BY <1>3, <1>24, <2>1 DEF LinkRefused
  <2>2. CASE ~(at = "link" /\ cur = o)
    <3>1. UNCHANGED <<handler, rows, plan, stage>> /\ thread' = thread \ {o}
          /\ order' = [order EXCEPT ![o] = NoOrder]
      BY <1>24, <2>2 DEF LinkRefused
    <3>2. order'[cur] = order[cur] \/ ~(InCheckout \/ at = "cancelled")
      BY <1>1, <1>24, <2>2, <3>1
         DEF LinkRefused, HandlerOK, OrdersOK, InCheckout, Untouched, CheckoutTypeOK
    <3>3. ~StoreRow BY <1>1, <1>24, <3>1 DEF StoreRow, LinkRefused
    <3>4. Open' = Open BY <3>1 DEF Open
    <3>5. InCheckout => ~LinkStored(cur)
      BY <1>1, <2>2, <3>1 DEF HandlerOK, OrdersOK, InCheckout, LinkStored
    <3>6. /\ at = "link" => cur \in thread'
          /\ at = "priced" => cur \notin thread'
          /\ at = "cancelled" => cur \in Open' /\ stage'[cur] \in {"none", "lock"}
      BY <1>1, <2>2, <3>1, <3>4 DEF HandlerOK
    <3> QED BY <3>1, <3>2, <3>3, <3>5, <3>6, HandlerKept
  <2> QED BY <2>1, <2>2
<1>25. ASSUME NEW o \in Orders, Pay(o)
      PROVE  HandlerOK'
  <2>1. at' = "idle" \/ UNCHANGED handler BY <1>25 DEF Pay
  <2>2. UNCHANGED <<rows, order, thread, plan>> /\ ~StoreRow
    BY <1>1, <1>25 DEF Pay, flags, StoreRow, CheckoutTypeOK
  <2>3. at = "cancelled" => stage'[cur] \in {"none", "lock"}
    BY <1>1, <1>2, <1>25 DEF Pay, HandlerOK, CheckoutTypeOK
  <2> QED BY <1>3, <1>4, <2>1, <2>2, <2>3
<1>26. ASSUME NEW o \in Orders, FindUnpaid(o)
      PROVE  HandlerOK'
  BY <1>2, <1>26 DEF FindUnpaid, HandlerOK, InCheckout
<1>27. ASSUME NEW o \in Orders, FindDuplicate(o)
      PROVE  HandlerOK'
  BY <1>2, <1>27 DEF FindDuplicate, HandlerOK, InCheckout
<1>28. ASSUME NEW o \in Orders, Debit(o)
      PROVE  HandlerOK'
  <2>1. at' = "idle" \/ UNCHANGED handler BY <1>28 DEF Debit, Return
  <2>2. UNCHANGED <<rows, order, thread, plan>> /\ ~StoreRow
    BY <1>1, <1>28 DEF Debit, Return, flags, StoreRow, CheckoutTypeOK
  <2>3. at = "cancelled" => stage'[cur] \in {"none", "lock"}
    BY <1>1, <1>2, <1>28 DEF Debit, HandlerOK, CheckoutTypeOK
  <2> QED BY <1>3, <1>4, <2>1, <2>2, <2>3
<1>29. ASSUME NEW o \in Orders, Commit(o)
      PROVE  HandlerOK'
  <2>1. at' = "idle" \/ UNCHANGED handler BY <1>29 DEF Commit
  <2>2. UNCHANGED <<rows, order, thread, plan>> /\ ~StoreRow
    BY <1>1, <1>29 DEF Commit, flags, StoreRow, CheckoutTypeOK
  <2>3. at = "cancelled" => stage'[cur] \in {"none", "lock"}
    BY <1>1, <1>2, <1>29 DEF Commit, HandlerOK, CheckoutTypeOK
  <2> QED BY <1>3, <1>4, <2>1, <2>2, <2>3
<1>30. ASSUME NEW o \in Orders, Serve(o)
      PROVE  HandlerOK'
  <2>1. at' = "idle" \/ UNCHANGED handler BY <1>30 DEF Serve
  <2>2. UNCHANGED <<rows, order, thread, plan>> /\ ~StoreRow
    BY <1>1, <1>30 DEF Serve, flags, StoreRow, CheckoutTypeOK
  <2>3. at = "cancelled" => stage'[cur] \in {"none", "lock"}
    BY <1>1, <1>2, <1>30 DEF Serve, HandlerOK, CheckoutTypeOK
  <2> QED BY <1>3, <1>4, <2>1, <2>2, <2>3
<1>31. ASSUME NEW o \in Orders, Book(o)
      PROVE  HandlerOK'
  <2>1. at' = "idle" \/ UNCHANGED handler BY <1>31 DEF Book, Return
  <2>2. UNCHANGED <<rows, order, thread, plan>> /\ ~StoreRow
    BY <1>1, <1>31 DEF Book, Return, flags, StoreRow, CheckoutTypeOK
  <2>3. at = "cancelled" => stage'[cur] \in {"none", "lock"}
    BY <1>1, <1>2, <1>31 DEF Book, HandlerOK, CheckoutTypeOK
  <2> QED BY <1>3, <1>4, <2>1, <2>2, <2>3
<1>32. ASSUME NEW o \in Orders, Pop(o)
      PROVE  HandlerOK'
  <2>1. CASE at = "delivering" /\ cur = o BY <1>3, <1>32, <2>1 DEF Pop, Return
  <2>2. CASE ~(at = "delivering" /\ cur = o)
    <3>1. UNCHANGED <<handler, order, plan, thread>> /\ Open' = Open \ {o}
      BY <1>1, <1>32, <2>2, Dropped DEF Pop, Return
    <3>2. at = "cancelled" => cur \in Open' /\ stage'[cur] \in {"none", "lock"}
      BY <1>1, <1>2, <1>32, <3>1 DEF HandlerOK, CheckoutTypeOK, Pop
    <3>3. ~StoreRow /\ (InCheckout => ~LinkStored(cur))
      BY <1>32, <3>1 DEF StoreRow, LinkStored, Pop
    <3> QED BY <1>1, <3>1, <3>2, <3>3, HandlerKept DEF HandlerOK
  <2> QED BY <2>1, <2>2
<1>33. ASSUME NEW o \in Orders, Fail(o)
      PROVE  HandlerOK'
  <2>1. at' = "idle" \/ UNCHANGED handler BY <1>33 DEF Fail, Return
  <2>2. UNCHANGED <<rows, order, thread, plan>> /\ ~StoreRow
    BY <1>1, <1>33 DEF Fail, Return, flags, StoreRow, CheckoutTypeOK
  <2>3. at = "cancelled" => stage'[cur] \in {"none", "lock"}
    BY <1>1, <1>2, <1>33 DEF Fail, HandlerOK, CheckoutTypeOK
  <2> QED BY <1>3, <1>4, <2>1, <2>2, <2>3
<1>34. ASSUME NEW o \in Orders, ApproveCard(o)
      PROVE  HandlerOK'
  <2>1. UNCHANGED <<handler, rows, order, plan, thread>> /\ order[o].kind = "card"
        /\ stage' = [stage EXCEPT ![o] = "debit"]
    BY <1>34, Bounds DEF ApproveCard, KindOf
  <2>2. ~StoreRow /\ ~LinkStored(cur) BY <1>34, <2>1 DEF StoreRow, LinkStored, ApproveCard
  <2>3. Open' = Open BY <2>1 DEF Open
  <2>4. at = "cancelled" => stage'[cur] \in {"none", "lock"}
    BY <1>1, <1>2, <2>1 DEF HandlerOK, CheckoutTypeOK
  <2> QED BY <1>1, <2>1, <2>2, <2>3, <2>4, HandlerKept DEF HandlerOK
<1>35. ASSUME NEW delta \in {Step, -Step}, AdjustWallet(delta)
      PROVE  HandlerOK'
  <2>1. at' = "idle" \/ UNCHANGED handler BY <1>35 DEF AdjustWallet
  <2>2. UNCHANGED <<rows, order, thread, plan>> /\ ~StoreRow
    BY <1>1, <1>35 DEF AdjustWallet, flags, StoreRow, CheckoutTypeOK
  <2>3. at = "cancelled" => stage'[cur] \in {"none", "lock"}
    BY <1>1, <1>2, <1>35 DEF AdjustWallet, HandlerOK, CheckoutTypeOK
  <2> QED BY <1>3, <1>4, <2>1, <2>2, <2>3
<1>36. ASSUME NEW price \in Prices, EditPlan(price)
      PROVE  HandlerOK'
  <2>1. UNCHANGED <<handler, rows, order, thread, stage>> /\ (InCheckout => "plan" \in raced')
    BY <1>36 DEF EditPlan, Beside
  <2>2. ~StoreRow /\ ~LinkStored(cur) BY <1>36 DEF StoreRow, LinkStored, EditPlan, money
  <2>3. Open' = Open BY <2>1 DEF Open
  <2> QED BY <1>1, <2>1, <2>2, <2>3, HandlerKept DEF HandlerOK
<1>37. CASE Crash
  BY <1>3, <1>37 DEF Crash
<1>38. CASE UNCHANGED vars
  <2>1. at' = "idle" \/ UNCHANGED handler BY <1>38 DEF vars
  <2>2. UNCHANGED <<rows, order, thread, plan>> /\ ~StoreRow
    BY <1>1, <1>38 DEF vars, flags, StoreRow, CheckoutTypeOK
  <2>3. at = "cancelled" => stage'[cur] \in {"none", "lock"}
    BY <1>1, <1>2, <1>38 DEF vars, HandlerOK, CheckoutTypeOK
  <2> QED BY <1>3, <1>4, <2>1, <2>2, <2>3
<1>39. ASSUME NEW o \in Orders, TakeUp(o)
      PROVE  HandlerOK'
  <2>1. at' = "idle" \/ UNCHANGED handler BY <1>39 DEF TakeUp, Return
  <2>2. UNCHANGED <<rows, order, thread, plan>> /\ ~StoreRow
    BY <1>1, <1>39 DEF TakeUp, StoreRow, CheckoutTypeOK
  <2>3. at = "cancelled" => stage'[cur] \in {"none", "lock"}
    BY <1>1, <1>2, <1>39 DEF TakeUp, HandlerOK, CheckoutTypeOK
  <2> QED BY <1>3, <1>4, <2>1, <2>2, <2>3
<1>40. ASSUME NEW o \in Orders, AdminVerify(o)
      PROVE  HandlerOK'
  <2>1. at' = "idle" \/ UNCHANGED handler BY <1>40 DEF AdminVerify
  <2>2. UNCHANGED <<rows, order, thread, plan>> /\ ~StoreRow
    BY <1>1, <1>40 DEF AdminVerify, StoreRow, CheckoutTypeOK, Verify, Deliver
  <2>3. at = "cancelled" => stage'[cur] \in {"none", "lock"}
    BY <1>1, <1>2, <1>40 DEF AdminVerify, HandlerOK, CheckoutTypeOK, Verify, Deliver
  <2> QED BY <1>3, <1>4, <2>1, <2>2, <2>3
<1>41. ASSUME NEW o \in Orders, AdminFindUnpaid(o)
      PROVE  HandlerOK'
  <2>1. at' = "idle" \/ UNCHANGED handler BY <1>41 DEF AdminFindUnpaid
  <2>2. UNCHANGED <<rows, order, thread, plan>> /\ ~StoreRow
    BY <1>1, <1>41 DEF AdminFindUnpaid, StoreRow, CheckoutTypeOK
  <2>3. at = "cancelled" => stage'[cur] \in {"none", "lock"}
    BY <1>1, <1>2, <1>41 DEF AdminFindUnpaid, HandlerOK, CheckoutTypeOK
  <2> QED BY <1>3, <1>4, <2>1, <2>2, <2>3
<1>42. ASSUME NEW o \in Orders, AdminRelease(o)
      PROVE  HandlerOK'
  <2>1. UNCHANGED <<handler, order, plan, thread, stage>> /\ Open' = Open \ {o}
    BY <1>1, <1>42, Dropped DEF AdminRelease, Release
  <2>2. at = "cancelled" => cur # o
    BY <1>1, <1>42 DEF AdminRelease, Answered, AnsweredOK, HandlerOK
  <2>3. ~StoreRow /\ (InCheckout => ~LinkStored(cur))
    BY <1>42, <2>1, NewRow DEF AdminRelease, Answered, StoreRow, LinkStored, InCheckout
  <2> QED BY <1>1, <2>1, <2>2, <2>3, HandlerKept DEF HandlerOK
<1> QED
  BY <1>10, <1>11, <1>12, <1>13, <1>14, <1>15, <1>16, <1>17, <1>18, <1>19, <1>20, <1>21, <1>22,
     <1>23, <1>24, <1>25, <1>26, <1>27, <1>28, <1>29, <1>30, <1>31, <1>32, <1>33, <1>34, <1>35,
     <1>36, <1>37, <1>38, <1>39, <1>40, <1>41, <1>42 DEF Next

-----------------------------------------------------------------------------
(* Deliveries                                                              *)

\* The row of an order does not change once something has come of the order,
\* unless a restart forgets it.
LEMMA OrderFixed ==
  ASSUME CheckoutInv, [Next]_vars, NEW q \in Orders, ~Untouched(q),
         Crash => q \in Open \union served \union paid \/ Debited(q)
  PROVE  order'[q] = order[q] /\ order[q].kind # "none"
<1>1. OrdersOK /\ HandlerOK BY DEF CheckoutInv
<1>2. order[q].kind # "none" /\ q \notin thread /\ ~(InCheckout /\ cur = q)
  BY <1>1 DEF OrdersOK, HandlerOK
<1>3. q \in Started BY <1>2 DEF Started, NoOrder
<1> QED
  BY <1>2, <1>3, OrderWritten DEF ReadBalance, Price, StoreRow, LinkRefused, InCheckout

\* Every step keeps what each stage of a delivery relies on.
LEMMA StagesStep == ASSUME CheckoutInv, [Next]_vars PROVE StagesOK'
<1> USE DEF handler, money, flags, outcome, Idle
<1>1. CheckoutTypeOK /\ OrdersOK /\ HandlerOK /\ AnsweredOK /\ StagesOK /\ FlagsOK
  BY DEF CheckoutInv
<1>2. Open \subseteq Orders /\ (Latest # 0 => Latest \in Open) BY <1>1, LatestRow
<1> SUFFICES ASSUME NEW q \in Orders, stage'[q] # "none"
             PROVE  /\ q \in Open' \/ stage'[q] = "lock" \/ "release" \in raced'
                    /\ order'[q].gateway > 0 => q \in paid'
                    /\ order'[q].kind = "wallet" \/ q \in authorized'
                    /\ stage'[q] = "flag" => Debited(q)'
                    /\ stage'[q] \in {"serve", "book", "pop"} => order'[q].wallet = 0 \/ Debited(q)'
                    /\ stage'[q] \in {"book", "pop"} => q \in served'
                    /\ stage'[q] = "pop" => q \in booked'
  BY DEF StagesOK
<1> DEFINE Goal == /\ q \in Open' \/ stage'[q] = "lock" \/ "release" \in raced'
                   /\ order'[q].gateway > 0 => q \in paid'
                   /\ order'[q].kind = "wallet" \/ q \in authorized'
                   /\ stage'[q] = "flag" => Debited(q)'
                   /\ stage'[q] \in {"serve", "book", "pop"} => order'[q].wallet = 0 \/ Debited(q)'
                   /\ stage'[q] \in {"book", "pop"} => q \in served'
                   /\ stage'[q] = "pop" => q \in booked'
<1>3. ~Crash BY DEF Crash
<1>4. /\ q \in Open \/ stage[q] # "none" => order'[q] = order[q]
      /\ q \in Open => PartsOK(q)
  <2>1. q \in Open \/ stage[q] # "none" => ~Untouched(q) BY DEF Untouched
  <2> QED BY <1>1, <1>3, <2>1, OrderFixed DEF OrdersOK
<1>5. raced \subseteq raced' BY RacedGrows
<1>6. ASSUME NEW o \in Orders, Verify(o), UNCHANGED <<rows, order, money, paid, served, booked>>
      PROVE  Goal
  <2>1. CASE q = o
    <3>1. q \in Open /\ stage'[q] = "lock" /\ order[q].kind \in {"wallet", "gateway"}
      BY <1>1, <1>6, <2>1, Bounds DEF Verify, Deliver, KindOf, CheckoutTypeOK
    <3>2. order[q].kind = "wallet" => order[q].gateway = 0 BY <1>4, <3>1 DEF PartsOK
    <3>3. order[q].kind = "gateway" => q \in paid /\ q \in authorized'
      BY <1>1, <1>2, <1>6, <2>1, <3>1 DEF Verify, KindOf
    <3> QED BY <1>6, <3>1, <3>2, <3>3 DEF Open
  <2>2. CASE q # o
    <3>1. stage'[q] = stage[q] /\ authorized \subseteq authorized'
      BY <1>1, <1>6, <2>2 DEF Verify, Deliver, CheckoutTypeOK
    <3> QED BY <1>1, <1>5, <1>6, <3>1 DEF StagesOK, Open, Debited
  <2> QED BY <2>1, <2>2
<1>7. ASSUME NEW o \in Orders, Answered(o), Release(o),
             UNCHANGED <<order, stage, money, flags, served, booked>>
      PROVE  Goal
  <2>1. order[o].kind = "gateway" BY <1>1, <1>7 DEF AnsweredOK
  <2>2. q \in Open' \/ q = o \/ q \notin Open BY <1>1, <1>7, Dropped DEF Release
  <2>3. q = o /\ q \in Open => "release" \in raced'
    BY <1>1, <1>7, <2>1 DEF Release, StagesOK
  <2> QED BY <1>1, <1>5, <1>7, <2>2, <2>3 DEF StagesOK, Debited
<1>10. ASSUME NEW o \in Orders, NEW buy \in BOOLEAN, NEW code \in BOOLEAN, StartOrder(o, buy, code)
      PROVE  Goal
  BY <1>1, <1>2, <1>4, <1>5, <1>10 DEF CheckoutTypeOK, StagesOK, HandlerOK, Open, Debited,
     StartOrder
<1>11. CASE ReadBalance
  BY <1>1, <1>2, <1>4, <1>5, <1>11 DEF CheckoutTypeOK, StagesOK, HandlerOK, Open, Debited,
     ReadBalance
<1>12. CASE Price
  BY <1>1, <1>2, <1>4, <1>5, <1>12 DEF CheckoutTypeOK, StagesOK, HandlerOK, Open, Debited, Price
<1>13. CASE StoreRow
  <2>1. cur \in Orders /\ cur \notin Open BY <1>13, NewRow DEF StoreRow, InCheckout
  <2>2. CASE rows' = Append(rows, cur) /\ order' = order
    <3>1. Open' = Open \union {cur} BY <1>1, <2>1, <2>2, Stored
    <3>2. CASE q = cur
      <4>1. order[cur].kind = "wallet" \/ stage'[q] = stage[q]
        BY <1>1, <1>13, <2>1, <3>2 DEF StoreRow, KindOf, Deliver
      <4>2. stage[q] = "none" BY <1>1, <1>13, <3>2 DEF HandlerOK, Untouched, StoreRow, InCheckout
      <4>3. order[cur].kind = "wallet" /\ stage'[q] = "lock"
        BY <1>1, <1>13, <3>2, <4>1, <4>2 DEF StoreRow, Deliver, CheckoutTypeOK
      <4>4. order[cur].gateway = 0 BY <1>1, <2>1, <4>3 DEF OrdersOK, PartsOK
      <4> QED BY <2>2, <3>1, <3>2, <4>3, <4>4
    <3>3. CASE q # cur
      <4>1. stage'[q] = stage[q] BY <1>1, <1>13, <3>3 DEF StoreRow, Deliver, CheckoutTypeOK
      <4> QED BY <1>1, <1>5, <1>13, <2>2, <3>1, <4>1 DEF StoreRow, StagesOK, Debited
    <3> QED BY <3>2, <3>3
  <2>3. CASE UNCHANGED <<rows, stage>>
    BY <1>1, <1>4, <1>5, <1>13, <2>3 DEF StoreRow, StagesOK, Open, Debited
  <2> QED BY <1>13, <2>2, <2>3 DEF StoreRow
<1>14. CASE RequestLink
  BY <1>1, <1>2, <1>4, <1>5, <1>14 DEF CheckoutTypeOK, StagesOK, HandlerOK, Open, Debited,
     RequestLink
<1>15. CASE LinkDeadline
  BY <1>1, <1>2, <1>4, <1>5, <1>15 DEF CheckoutTypeOK, StagesOK, HandlerOK, Open, Debited,
     LinkDeadline
<1>16. ASSUME NEW o \in Orders, Check(o)
      PROVE  Goal
  BY <1>6, <1>16 DEF Check
<1>17. CASE ReleaseUnpaid
  <2>1. CASE cur \in Orders /\ Answered(cur) BY <1>7, <1>17, <2>1 DEF ReleaseUnpaid
  <2> QED BY <1>1, <1>17, <2>1 DEF ReleaseUnpaid, Answered, HandlerOK
<1>18. CASE ReleaseDuplicate
  <2>1. CASE cur \in Orders /\ Answered(cur) BY <1>7, <1>18, <2>1 DEF ReleaseDuplicate
  <2> QED BY <1>1, <1>18, <2>1 DEF ReleaseDuplicate, Answered, HandlerOK
<1>19. CASE EndDuplicates
  BY <1>1, <1>2, <1>4, <1>5, <1>19 DEF CheckoutTypeOK, StagesOK, HandlerOK, Open, Debited,
     EndDuplicates
<1>20. CASE CancelCard
  <2>1. Latest # 0 /\ order[Latest].kind = "card" /\ Latest \in Orders
    BY <1>2, <1>20 DEF CancelCard, KindOf
  <2>2. stage[Latest] = "none" BY <1>1, <1>20, <2>1 DEF CancelCard, StagesOK
  <2>3. Open' = Open \ {Latest} BY <1>1, <1>20, Dropped DEF CancelCard
  <2> QED BY <1>1, <1>5, <1>20, <2>2, <2>3 DEF CancelCard, StagesOK, Debited
<1>21. CASE CancelLocal
  BY <1>1, <1>2, <1>4, <1>5, <1>21 DEF CheckoutTypeOK, StagesOK, HandlerOK, Open, Debited,
     CancelLocal, KindOf
<1>22. CASE DropCancelled
  <2>1. Open' = Open \ {cur} BY <1>1, <1>22, Dropped DEF DropCancelled
  <2>2. stage[cur] \in {"none", "lock"} BY <1>1, <1>22 DEF DropCancelled, HandlerOK
  <2> QED BY <1>1, <1>5, <1>22, <2>1, <2>2 DEF DropCancelled, StagesOK, Debited
<1>23. ASSUME NEW o \in Orders, LinkStored(o)
      PROVE  Goal
  BY <1>1, <1>2, <1>4, <1>5, <1>23, NewRow, Stored DEF CheckoutTypeOK, StagesOK, HandlerOK, Open,
     Debited, LinkStored
<1>24. ASSUME NEW o \in Orders, LinkRefused(o)
      PROVE  Goal
  BY <1>1, <1>2, <1>4, <1>5, <1>24 DEF CheckoutTypeOK, StagesOK, HandlerOK, Open, Debited,
     LinkRefused
<1>25. ASSUME NEW o \in Orders, Pay(o)
      PROVE  Goal
  BY <1>1, <1>2, <1>4, <1>5, <1>25 DEF CheckoutTypeOK, StagesOK, HandlerOK, Open, Debited, Pay
<1>26. ASSUME NEW o \in Orders, FindUnpaid(o)
      PROVE  Goal
  BY <1>1, <1>2, <1>4, <1>5, <1>26 DEF Unpaid, CheckoutTypeOK, StagesOK, HandlerOK, Open, Debited,
     FindUnpaid, KindOf
<1>27. ASSUME NEW o \in Orders, FindDuplicate(o)
      PROVE  Goal
  BY <1>1, <1>2, <1>4, <1>5, <1>27 DEF Unpaid, CheckoutTypeOK, StagesOK, HandlerOK, Open, Debited,
     FindDuplicate, KindOf
<1>28. ASSUME NEW o \in Orders, Debit(o)
      PROVE  Goal
  <2>1. CASE q # o
    <3>1. stage'[q] = stage[q] BY <1>1, <1>28, <2>1 DEF Debit, CheckoutTypeOK
    <3>2. Debited(q) => Debited(q)' BY <1>28 DEF Debit, Debited
    <3>3. UNCHANGED <<rows, order, flags, served, booked>> BY <1>28 DEF Debit
    <3> QED BY <1>1, <1>5, <3>1, <3>2, <3>3 DEF StagesOK, Open
  <2>2. CASE q = o
    <3>1. UNCHANGED <<rows, order, flags, served, booked>> BY <1>28 DEF Debit
    <3>2. stage'[q] \in {"serve", "flag"}
      BY <1>1, <1>28, <2>2 DEF Debit, CheckoutTypeOK
    <3>3. stage'[q] = "flag" => Debited(q)'
      BY <1>1, <1>28, <2>2 DEF Debit, CheckoutTypeOK, Debited
    <3>4. stage'[q] = "serve" => order[q].wallet = 0 \/ Debited(q)'
      BY <1>1, <1>28, <2>2 DEF Debit, CheckoutTypeOK, Debited, FlagsOK
    <3>5. stage[q] = "debit" BY <1>28, <2>2 DEF Debit
    <3> QED BY <1>1, <1>5, <3>1, <3>2, <3>3, <3>4, <3>5 DEF StagesOK, Open
  <2> QED BY <2>1, <2>2
<1>29. ASSUME NEW o \in Orders, Commit(o)
      PROVE  Goal
  BY <1>1, <1>2, <1>4, <1>5, <1>29 DEF CheckoutTypeOK, StagesOK, HandlerOK, Open, Debited, Commit
<1>30. ASSUME NEW o \in Orders, Serve(o)
      PROVE  Goal
  BY <1>1, <1>2, <1>4, <1>5, <1>30 DEF CheckoutTypeOK, StagesOK, HandlerOK, Open, Debited, Serve
<1>31. ASSUME NEW o \in Orders, Book(o)
      PROVE  Goal
  BY <1>1, <1>2, <1>4, <1>5, <1>31 DEF CheckoutTypeOK, StagesOK, HandlerOK, Open, Debited, Book,
     Return
<1>32. ASSUME NEW o \in Orders, Pop(o)
      PROVE  Goal
  BY <1>1, <1>2, <1>4, <1>5, <1>32, Dropped DEF CheckoutTypeOK, StagesOK, HandlerOK, Open,
     Debited, Pop, Return
<1>33. ASSUME NEW o \in Orders, Fail(o)
      PROVE  Goal
  BY <1>1, <1>2, <1>4, <1>5, <1>33 DEF CheckoutTypeOK, StagesOK, HandlerOK, Open, Debited, Fail,
     Return
<1>34. ASSUME NEW o \in Orders, ApproveCard(o)
      PROVE  Goal
  BY <1>1, <1>2, <1>4, <1>5, <1>34 DEF CheckoutTypeOK, StagesOK, HandlerOK, Open, Debited,
     ApproveCard, Deliver, KindOf
<1>35. ASSUME NEW delta \in {Step, -Step}, AdjustWallet(delta)
      PROVE  Goal
  BY <1>1, <1>2, <1>4, <1>5, <1>35 DEF CheckoutTypeOK, StagesOK, HandlerOK, Open, Debited,
     AdjustWallet
<1>36. ASSUME NEW price \in Prices, EditPlan(price)
      PROVE  Goal
  BY <1>1, <1>2, <1>4, <1>5, <1>36 DEF CheckoutTypeOK, StagesOK, HandlerOK, Open, Debited, EditPlan
<1>37. CASE Crash
  BY <1>3, <1>37
<1>38. CASE UNCHANGED vars
  BY <1>1, <1>2, <1>4, <1>5, <1>38 DEF CheckoutTypeOK, StagesOK, HandlerOK, Open, Debited, vars
<1>39. ASSUME NEW o \in Orders, TakeUp(o)
      PROVE  Goal
  BY <1>1, <1>2, <1>4, <1>5, <1>39 DEF CheckoutTypeOK, StagesOK, HandlerOK, Open, Debited,
     TakeUp, Return, KindOf
<1>40. ASSUME NEW o \in Orders, AdminVerify(o)
      PROVE  Goal
  BY <1>6, <1>40 DEF AdminVerify
<1>41. ASSUME NEW o \in Orders, AdminFindUnpaid(o)
      PROVE  Goal
  BY <1>1, <1>2, <1>4, <1>5, <1>41 DEF CheckoutTypeOK, StagesOK, HandlerOK, Open, Debited,
     AdminFindUnpaid, KindOf
<1>42. ASSUME NEW o \in Orders, AdminRelease(o)
      PROVE  Goal
  BY <1>7, <1>42 DEF AdminRelease, Answered
<1> QED
  BY <1>10, <1>11, <1>12, <1>13, <1>14, <1>15, <1>16, <1>17, <1>18, <1>19, <1>20, <1>21, <1>22,
     <1>23, <1>24, <1>25, <1>26, <1>27, <1>28, <1>29, <1>30, <1>31, <1>32, <1>33, <1>34, <1>35,
     <1>36, <1>37, <1>38, <1>39, <1>40, <1>41, <1>42 DEF Next

\* Every step keeps the flags of the rows and the ledger in agreement.
LEMMA FlagsStep == ASSUME CheckoutInv, [Next]_vars PROVE FlagsOK'
<1> USE DEF money, flags, outcome
<1>1. CheckoutTypeOK /\ OrdersOK /\ HandlerOK /\ StagesOK /\ FlagsOK BY DEF CheckoutInv
<1>2. Open \subseteq Orders /\ (Latest # 0 => Latest \in Open) BY <1>1, LatestRow
<1>3. \A q \in authorized : q \in Orders /\ order'[q] = order[q]
  BY <1>1, OrderFixed DEF Untouched, CheckoutTypeOK, FlagsOK
<1>4. ASSUME NEW o \in Orders PROVE KindOf(o) = order[o].kind
  BY <1>4, Bounds DEF KindOf
<1>10. ASSUME NEW o \in Orders, NEW buy \in BOOLEAN, NEW code \in BOOLEAN, StartOrder(o, buy, code)
      PROVE  FlagsOK'
  BY <1>1, <1>2, <1>3, <1>10 DEF CheckoutTypeOK, FlagsOK, Debited, StartOrder
<1>11. CASE ReadBalance
  BY <1>1, <1>2, <1>3, <1>11 DEF CheckoutTypeOK, FlagsOK, Debited, ReadBalance
<1>12. CASE Price
  BY <1>1, <1>2, <1>3, <1>12 DEF CheckoutTypeOK, FlagsOK, Debited, Price
<1>13. CASE StoreRow
  BY <1>1, <1>2, <1>3, <1>13 DEF CheckoutTypeOK, FlagsOK, Debited, StoreRow
<1>14. CASE RequestLink
  BY <1>1, <1>2, <1>3, <1>14 DEF CheckoutTypeOK, FlagsOK, Debited, RequestLink
<1>15. CASE LinkDeadline
  BY <1>1, <1>2, <1>3, <1>15 DEF CheckoutTypeOK, FlagsOK, Debited, LinkDeadline
<1>16. ASSUME NEW o \in Orders, Check(o)
      PROVE  FlagsOK'
  BY <1>1, <1>2, <1>3, <1>4, <1>16 DEF CheckoutTypeOK, FlagsOK, Debited, Check, Verify
<1>17. CASE ReleaseUnpaid
  BY <1>1, <1>2, <1>3, <1>17 DEF Release, CheckoutTypeOK, FlagsOK, Debited, ReleaseUnpaid
<1>18. CASE ReleaseDuplicate
  BY <1>1, <1>2, <1>3, <1>18 DEF Release, CheckoutTypeOK, FlagsOK, Debited, ReleaseDuplicate
<1>19. CASE EndDuplicates
  BY <1>1, <1>2, <1>3, <1>19 DEF CheckoutTypeOK, FlagsOK, Debited, EndDuplicates
<1>20. CASE CancelCard
  BY <1>1, <1>2, <1>3, <1>20 DEF CheckoutTypeOK, FlagsOK, Debited, CancelCard
<1>21. CASE CancelLocal
  <2>1. UNCHANGED <<flags, booked, served, referral, order>> BY <1>21 DEF CancelLocal
  <2>2. ledger \subseteq ledger' /\ \A o \in Orders : <<o, "refund">> \in ledger' => Debited(o)
    BY <1>1, <1>21 DEF CancelLocal, FlagsOK, Debited
  <2> QED BY <1>1, <2>1, <2>2 DEF FlagsOK, Debited
<1>22. CASE DropCancelled
  BY <1>1, <1>2, <1>3, <1>22 DEF CheckoutTypeOK, FlagsOK, Debited, DropCancelled
<1>23. ASSUME NEW o \in Orders, LinkStored(o)
      PROVE  FlagsOK'
  BY <1>1, <1>2, <1>3, <1>23 DEF CheckoutTypeOK, FlagsOK, Debited, LinkStored
<1>24. ASSUME NEW o \in Orders, LinkRefused(o)
      PROVE  FlagsOK'
  BY <1>1, <1>2, <1>3, <1>24 DEF CheckoutTypeOK, FlagsOK, Debited, LinkRefused
<1>25. ASSUME NEW o \in Orders, Pay(o)
      PROVE  FlagsOK'
  BY <1>1, <1>2, <1>3, <1>25 DEF CheckoutTypeOK, FlagsOK, Debited, Pay
<1>26. ASSUME NEW o \in Orders, FindUnpaid(o)
      PROVE  FlagsOK'
  BY <1>1, <1>2, <1>3, <1>26 DEF Unpaid, CheckoutTypeOK, FlagsOK, Debited, FindUnpaid
<1>27. ASSUME NEW o \in Orders, FindDuplicate(o)
      PROVE  FlagsOK'
  BY <1>1, <1>2, <1>3, <1>27 DEF Unpaid, CheckoutTypeOK, FlagsOK, Debited, FindDuplicate
<1>28. ASSUME NEW o \in Orders, Debit(o)
      PROVE  FlagsOK'
  BY <1>1, <1>2, <1>3, <1>28 DEF CheckoutTypeOK, FlagsOK, Debited, Debit
<1>29. ASSUME NEW o \in Orders, Commit(o)
      PROVE  FlagsOK'
  BY <1>1, <1>2, <1>3, <1>29 DEF CheckoutTypeOK, FlagsOK, Debited, Commit, StagesOK
<1>30. ASSUME NEW o \in Orders, Serve(o)
      PROVE  FlagsOK'
  BY <1>1, <1>2, <1>3, <1>30 DEF CheckoutTypeOK, FlagsOK, Debited, Serve, StagesOK
<1>31. ASSUME NEW o \in Orders, Book(o)
      PROVE  FlagsOK'
  <2>1. o \in served BY <1>1, <1>31 DEF Book, StagesOK
  <2>2. booked' \subseteq booked \union {o} /\ booked \subseteq booked' BY <1>31 DEF Book
  <2>3. referral' = referral \/ (referral' = o /\ o \in booked') BY <1>31 DEF Book
  <2>4. UNCHANGED <<money, flags, order, served>> BY <1>31 DEF Book
  <2> QED BY <1>1, <2>1, <2>2, <2>3, <2>4 DEF FlagsOK, Debited
<1>32. ASSUME NEW o \in Orders, Pop(o)
      PROVE  FlagsOK'
  BY <1>1, <1>2, <1>3, <1>32 DEF CheckoutTypeOK, FlagsOK, Debited, Pop
<1>33. ASSUME NEW o \in Orders, Fail(o)
      PROVE  FlagsOK'
  BY <1>1, <1>2, <1>3, <1>33 DEF CheckoutTypeOK, FlagsOK, Debited, Fail
<1>34. ASSUME NEW o \in Orders, ApproveCard(o)
      PROVE  FlagsOK'
  BY <1>1, <1>2, <1>3, <1>34 DEF CheckoutTypeOK, FlagsOK, Debited, ApproveCard, KindOf
<1>35. ASSUME NEW delta \in {Step, -Step}, AdjustWallet(delta)
      PROVE  FlagsOK'
  BY <1>1, <1>2, <1>3, <1>35 DEF CheckoutTypeOK, FlagsOK, Debited, AdjustWallet
<1>36. ASSUME NEW price \in Prices, EditPlan(price)
      PROVE  FlagsOK'
  BY <1>1, <1>2, <1>3, <1>36 DEF CheckoutTypeOK, FlagsOK, Debited, EditPlan
<1>37. CASE Crash
  BY <1>1, <1>2, <1>3, <1>37 DEF CheckoutTypeOK, FlagsOK, Debited, Crash
<1>38. CASE UNCHANGED vars
  BY <1>1, <1>2, <1>3, <1>38 DEF CheckoutTypeOK, FlagsOK, Debited, vars
<1>39. ASSUME NEW o \in Orders, TakeUp(o)
      PROVE  FlagsOK'
  BY <1>1, <1>2, <1>3, <1>39 DEF CheckoutTypeOK, FlagsOK, Debited, TakeUp, Return
<1>40. ASSUME NEW o \in Orders, AdminVerify(o)
      PROVE  FlagsOK'
  BY <1>1, <1>2, <1>3, <1>4, <1>40 DEF CheckoutTypeOK, FlagsOK, Debited, AdminVerify, Verify
<1>41. ASSUME NEW o \in Orders, AdminFindUnpaid(o)
      PROVE  FlagsOK'
  BY <1>1, <1>2, <1>3, <1>41 DEF CheckoutTypeOK, FlagsOK, Debited, AdminFindUnpaid
<1>42. ASSUME NEW o \in Orders, AdminRelease(o)
      PROVE  FlagsOK'
  BY <1>1, <1>2, <1>3, <1>42 DEF CheckoutTypeOK, FlagsOK, Debited, AdminRelease, Release
<1> QED
  BY <1>10, <1>11, <1>12, <1>13, <1>14, <1>15, <1>16, <1>17, <1>18, <1>19, <1>20, <1>21, <1>22,
     <1>23, <1>24, <1>25, <1>26, <1>27, <1>28, <1>29, <1>30, <1>31, <1>32, <1>33, <1>34, <1>35,
     <1>36, <1>37, <1>38, <1>39, <1>40, <1>41, <1>42 DEF Next

\* The ledger and what the customer has paid are never taken back.
LEMMA MoneyGrows == ASSUME [Next]_vars PROVE ledger \subseteq ledger' /\ paid \subseteq paid'
<1> USE DEF money, flags
<1>1. ASSUME NEW o \in Orders, NEW buy \in BOOLEAN, NEW code \in BOOLEAN, StartOrder(o, buy, code)
      PROVE  ledger \subseteq ledger' /\ paid \subseteq paid'
  BY <1>1 DEF StartOrder
<1>2. CASE ReadBalance
  BY <1>2 DEF ReadBalance
<1>3. CASE Price
  BY <1>3 DEF Price
<1>4. CASE StoreRow
  BY <1>4 DEF StoreRow
<1>5. CASE RequestLink
  BY <1>5 DEF RequestLink
<1>6. CASE LinkDeadline
  BY <1>6 DEF LinkDeadline
<1>7. ASSUME NEW o \in Orders, Check(o)
      PROVE  ledger \subseteq ledger' /\ paid \subseteq paid'
  BY <1>7 DEF Check, Verify, Deliver
<1>8. CASE ReleaseUnpaid
  BY <1>8 DEF Release, ReleaseUnpaid
<1>9. CASE ReleaseDuplicate
  BY <1>9 DEF Release, ReleaseDuplicate
<1>10. CASE EndDuplicates
  BY <1>10 DEF EndDuplicates
<1>11. CASE CancelCard
  BY <1>11 DEF CancelCard
<1>12. CASE CancelLocal
  BY <1>12 DEF CancelLocal
<1>13. CASE DropCancelled
  BY <1>13 DEF DropCancelled
<1>14. ASSUME NEW o \in Orders, LinkStored(o)
      PROVE  ledger \subseteq ledger' /\ paid \subseteq paid'
  BY <1>14 DEF LinkStored
<1>15. ASSUME NEW o \in Orders, LinkRefused(o)
      PROVE  ledger \subseteq ledger' /\ paid \subseteq paid'
  BY <1>15 DEF LinkRefused
<1>16. ASSUME NEW o \in Orders, Pay(o)
      PROVE  ledger \subseteq ledger' /\ paid \subseteq paid'
  BY <1>16 DEF Pay
<1>17. ASSUME NEW o \in Orders, FindUnpaid(o)
      PROVE  ledger \subseteq ledger' /\ paid \subseteq paid'
  BY <1>17 DEF Unpaid, FindUnpaid
<1>18. ASSUME NEW o \in Orders, FindDuplicate(o)
      PROVE  ledger \subseteq ledger' /\ paid \subseteq paid'
  BY <1>18 DEF Unpaid, FindDuplicate
<1>19. ASSUME NEW o \in Orders, Debit(o)
      PROVE  ledger \subseteq ledger' /\ paid \subseteq paid'
  BY <1>19 DEF Debit
<1>20. ASSUME NEW o \in Orders, Commit(o)
      PROVE  ledger \subseteq ledger' /\ paid \subseteq paid'
  BY <1>20 DEF Commit
<1>21. ASSUME NEW o \in Orders, Serve(o)
      PROVE  ledger \subseteq ledger' /\ paid \subseteq paid'
  BY <1>21 DEF Serve
<1>22. ASSUME NEW o \in Orders, Book(o)
      PROVE  ledger \subseteq ledger' /\ paid \subseteq paid'
  BY <1>22 DEF Book
<1>23. ASSUME NEW o \in Orders, Pop(o)
      PROVE  ledger \subseteq ledger' /\ paid \subseteq paid'
  BY <1>23 DEF Pop
<1>24. ASSUME NEW o \in Orders, Fail(o)
      PROVE  ledger \subseteq ledger' /\ paid \subseteq paid'
  BY <1>24 DEF Fail
<1>25. ASSUME NEW o \in Orders, ApproveCard(o)
      PROVE  ledger \subseteq ledger' /\ paid \subseteq paid'
  BY <1>25 DEF ApproveCard
<1>26. ASSUME NEW delta \in {Step, -Step}, AdjustWallet(delta)
      PROVE  ledger \subseteq ledger' /\ paid \subseteq paid'
  BY <1>26 DEF AdjustWallet
<1>27. ASSUME NEW price \in Prices, EditPlan(price)
      PROVE  ledger \subseteq ledger' /\ paid \subseteq paid'
  BY <1>27 DEF EditPlan
<1>28. CASE Crash
  BY <1>28 DEF Crash
<1>29. CASE UNCHANGED vars
  BY <1>29 DEF vars
<1>30. ASSUME NEW o \in Orders, TakeUp(o)
      PROVE  ledger \subseteq ledger' /\ paid \subseteq paid'
  BY <1>30 DEF TakeUp, Return
<1>31. ASSUME NEW o \in Orders, AdminVerify(o)
      PROVE  ledger \subseteq ledger' /\ paid \subseteq paid'
  BY <1>31 DEF AdminVerify, Verify, Deliver
<1>32. ASSUME NEW o \in Orders, AdminFindUnpaid(o)
      PROVE  ledger \subseteq ledger' /\ paid \subseteq paid'
  BY <1>32 DEF AdminFindUnpaid
<1>33. ASSUME NEW o \in Orders, AdminRelease(o)
      PROVE  ledger \subseteq ledger' /\ paid \subseteq paid'
  BY <1>33 DEF AdminRelease, Release
<1> QED
  BY <1>1, <1>2, <1>3, <1>4, <1>5, <1>6, <1>7, <1>8, <1>9, <1>10, <1>11, <1>12, <1>13, <1>14,
     <1>15, <1>16, <1>17, <1>18, <1>19, <1>20, <1>21, <1>22, <1>23, <1>24, <1>25, <1>26, <1>27,
     <1>28, <1>29, <1>30, <1>31, <1>32, <1>33 DEF Next

\* Only fulfilment adds to the accounts.
LEMMA ServedGrows ==
  ASSUME [Next]_vars, NEW q \in served', q \notin served PROVE Serve(q)
<1> USE DEF outcome
<1>1. ASSUME NEW o \in Orders, NEW buy \in BOOLEAN, NEW code \in BOOLEAN, StartOrder(o, buy, code)
      PROVE  served' = served
  BY <1>1 DEF StartOrder
<1>2. CASE ReadBalance
  BY <1>2 DEF ReadBalance
<1>3. CASE Price
  BY <1>3 DEF Price
<1>4. CASE StoreRow
  BY <1>4 DEF StoreRow
<1>5. CASE RequestLink
  BY <1>5 DEF RequestLink
<1>6. CASE LinkDeadline
  BY <1>6 DEF LinkDeadline
<1>7. ASSUME NEW o \in Orders, Check(o)
      PROVE  served' = served
  BY <1>7 DEF Check, Verify, Deliver
<1>8. CASE ReleaseUnpaid
  BY <1>8 DEF Release, ReleaseUnpaid
<1>9. CASE ReleaseDuplicate
  BY <1>9 DEF Release, ReleaseDuplicate
<1>10. CASE EndDuplicates
  BY <1>10 DEF EndDuplicates
<1>11. CASE CancelCard
  BY <1>11 DEF CancelCard
<1>12. CASE CancelLocal
  BY <1>12 DEF CancelLocal
<1>13. CASE DropCancelled
  BY <1>13 DEF DropCancelled
<1>14. ASSUME NEW o \in Orders, LinkStored(o)
      PROVE  served' = served
  BY <1>14 DEF LinkStored
<1>15. ASSUME NEW o \in Orders, LinkRefused(o)
      PROVE  served' = served
  BY <1>15 DEF LinkRefused
<1>16. ASSUME NEW o \in Orders, Pay(o)
      PROVE  served' = served
  BY <1>16 DEF Pay
<1>17. ASSUME NEW o \in Orders, FindUnpaid(o)
      PROVE  served' = served
  BY <1>17 DEF Unpaid, FindUnpaid
<1>18. ASSUME NEW o \in Orders, FindDuplicate(o)
      PROVE  served' = served
  BY <1>18 DEF Unpaid, FindDuplicate
<1>19. ASSUME NEW o \in Orders, Debit(o)
      PROVE  served' = served
  BY <1>19 DEF Debit
<1>20. ASSUME NEW o \in Orders, Commit(o)
      PROVE  served' = served
  BY <1>20 DEF Commit
<1>21. ASSUME NEW o \in Orders, Serve(o)
      PROVE  served' = served \union {o}
  BY <1>21 DEF Serve
<1>22. ASSUME NEW o \in Orders, Book(o)
      PROVE  served' = served
  BY <1>22 DEF Book
<1>23. ASSUME NEW o \in Orders, Pop(o)
      PROVE  served' = served
  BY <1>23 DEF Pop
<1>24. ASSUME NEW o \in Orders, Fail(o)
      PROVE  served' = served
  BY <1>24 DEF Fail
<1>25. ASSUME NEW o \in Orders, ApproveCard(o)
      PROVE  served' = served
  BY <1>25 DEF ApproveCard
<1>26. ASSUME NEW delta \in {Step, -Step}, AdjustWallet(delta)
      PROVE  served' = served
  BY <1>26 DEF AdjustWallet
<1>27. ASSUME NEW price \in Prices, EditPlan(price)
      PROVE  served' = served
  BY <1>27 DEF EditPlan
<1>28. CASE Crash
  BY <1>28 DEF Crash
<1>29. CASE UNCHANGED vars
  BY <1>29 DEF vars
<1>30. ASSUME NEW o \in Orders, TakeUp(o)
      PROVE  served' = served
  BY <1>30 DEF TakeUp, Return
<1>31. ASSUME NEW o \in Orders, AdminVerify(o)
      PROVE  served' = served
  BY <1>31 DEF AdminVerify, Verify, Deliver
<1>32. ASSUME NEW o \in Orders, AdminFindUnpaid(o)
      PROVE  served' = served
  BY <1>32 DEF AdminFindUnpaid
<1>33. ASSUME NEW o \in Orders, AdminRelease(o)
      PROVE  served' = served
  BY <1>33 DEF AdminRelease, Release
<1> QED
  BY <1>1, <1>2, <1>3, <1>4, <1>5, <1>6, <1>7, <1>8, <1>9, <1>10, <1>11, <1>12, <1>13, <1>14,
     <1>15, <1>16, <1>17, <1>18, <1>19, <1>20, <1>21, <1>22, <1>23, <1>24, <1>25, <1>26, <1>27,
     <1>28, <1>29, <1>30, <1>31, <1>32, <1>33 DEF Next

-----------------------------------------------------------------------------
(* Properties of the orders                                                *)

\* Every step keeps the accounts paid for.
LEMMA ServedStep == ASSUME CheckoutInv, [Next]_vars PROVE ServedIsPaid'
<1>1. CheckoutTypeOK /\ OrdersOK /\ HandlerOK /\ StagesOK /\ FlagsOK /\ ServedIsPaid
  BY DEF CheckoutInv
<1>2. OrdersOK' BY OrdersStep
<1> SUFFICES ASSUME NEW q \in served'
             PROVE  /\ order'[q].wallet > 0 => Debited(q)'
                    /\ order'[q].gateway > 0 => q \in paid'
                    /\ PartsOK(q)'
  BY DEF ServedIsPaid, PartsOK
<1>3. ledger \subseteq ledger' /\ paid \subseteq paid' BY MoneyGrows
<1>4. q \in Orders BY TypeStep DEF CheckoutTypeOK
<1>5. CASE q \in served
  <2>1. order'[q] = order[q] /\ order[q].kind # "none" BY <1>4, <1>5, OrderFixed DEF Untouched
  <2>2. PartsOK(q)' BY <1>2, <1>4, <2>1 DEF OrdersOK
  <2> QED BY <1>1, <1>3, <1>5, <2>1, <2>2 DEF ServedIsPaid, Debited
<1>6. CASE q \notin served
  <2>1. Serve(q) BY <1>6, ServedGrows
  <2>2. stage[q] = "serve" BY <2>1 DEF Serve
  <2>3. order'[q] = order[q] /\ order[q].kind # "none"
    BY <1>1, <1>4, <2>1, <2>2 DEF Serve, OrdersOK, Untouched
  <2>4. PartsOK(q)' BY <1>2, <1>4, <2>3 DEF OrdersOK
  <2> QED BY <1>1, <1>3, <1>4, <2>2, <2>3, <2>4 DEF StagesOK, Debited
<1> QED BY <1>5, <1>6

\* What a step does to the rows: none, one less, or one more after the others.
LEMMA RowsChange ==
  ASSUME [Next]_vars
  PROVE  \/ rows' = rows
         \/ \E o : Drop(o) /\ (UNCHANGED handler \/ at' \in {"idle", "duplicates"})
         \/ StoreRow /\ rows' = Append(rows, cur) /\ order' = order /\ at' \in {"idle",
            "delivering"}
         \/ \E o \in thread : LinkStored(o)
<1> USE DEF Idle, handler
<1>1. ASSUME NEW o \in Orders, NEW buy \in BOOLEAN, NEW code \in BOOLEAN, StartOrder(o, buy, code)
      PROVE  rows' = rows
  BY <1>1 DEF StartOrder
<1>2. ASSUME ReadBalance PROVE rows' = rows
  BY <1>2 DEF ReadBalance
<1>3. ASSUME Price PROVE rows' = rows
  BY <1>3 DEF Price
<1>4. ASSUME StoreRow
      PROVE  \/ rows' = rows
             \/ rows' = Append(rows, cur) /\ order' = order /\ at' \in {"idle", "delivering"}
  <2>1. rows' = rows \/ rows' = Append(rows, cur) BY <1>4 DEF StoreRow
  <2>2. rows' = rows \/ order' = order BY <1>4 DEF StoreRow
  <2>3. at' \in {"idle", "delivering"} BY <1>4 DEF StoreRow
  <2> QED BY <2>1, <2>2, <2>3
<1>5. ASSUME RequestLink PROVE rows' = rows
  BY <1>5 DEF RequestLink
<1>6. ASSUME LinkDeadline PROVE rows' = rows
  BY <1>6 DEF LinkDeadline
<1>7. ASSUME NEW o \in Orders, Check(o)
      PROVE  rows' = rows
  BY <1>7 DEF Check, Verify, Deliver
<1>8. ASSUME ReleaseUnpaid PROVE Drop(cur) /\ at' \in {"idle", "duplicates"}
  BY <1>8 DEF Release, ReleaseUnpaid, Cancelled
<1>9. ASSUME ReleaseDuplicate PROVE Drop(cur) /\ at' \in {"idle", "duplicates"}
  BY <1>9 DEF Release, ReleaseDuplicate, Cancelled
<1>10. ASSUME EndDuplicates PROVE rows' = rows
  BY <1>10 DEF EndDuplicates
<1>11. ASSUME CancelCard PROVE Drop(Latest) /\ UNCHANGED handler
  BY <1>11 DEF CancelCard
<1>12. ASSUME CancelLocal PROVE rows' = rows
  BY <1>12 DEF CancelLocal
<1>13. ASSUME DropCancelled PROVE Drop(cur) /\ at' \in {"idle", "duplicates"}
  BY <1>13 DEF DropCancelled, Cancelled
<1>14. ASSUME NEW o \in Orders, LinkStored(o)
      PROVE  o \in thread
  BY <1>14 DEF LinkStored
<1>15. ASSUME NEW o \in Orders, LinkRefused(o)
      PROVE  rows' = rows
  BY <1>15 DEF LinkRefused
<1>16. ASSUME NEW o \in Orders, Pay(o)
      PROVE  rows' = rows
  BY <1>16 DEF Pay
<1>17. ASSUME NEW o \in Orders, FindUnpaid(o)
      PROVE  rows' = rows
  BY <1>17 DEF Unpaid, FindUnpaid
<1>18. ASSUME NEW o \in Orders, FindDuplicate(o)
      PROVE  rows' = rows
  BY <1>18 DEF Unpaid, FindDuplicate
<1>19. ASSUME NEW o \in Orders, Debit(o)
      PROVE  rows' = rows
  BY <1>19 DEF Debit
<1>20. ASSUME NEW o \in Orders, Commit(o)
      PROVE  rows' = rows
  BY <1>20 DEF Commit
<1>21. ASSUME NEW o \in Orders, Serve(o)
      PROVE  rows' = rows
  BY <1>21 DEF Serve
<1>22. ASSUME NEW o \in Orders, Book(o)
      PROVE  rows' = rows
  BY <1>22 DEF Book
<1>23. ASSUME NEW o \in Orders, Pop(o)
      PROVE  Drop(o) /\ (UNCHANGED handler \/ at' = "idle")
  BY <1>23 DEF Pop, Return
<1>24. ASSUME NEW o \in Orders, Fail(o)
      PROVE  rows' = rows
  BY <1>24 DEF Fail
<1>25. ASSUME NEW o \in Orders, ApproveCard(o)
      PROVE  rows' = rows
  BY <1>25 DEF ApproveCard
<1>26. ASSUME NEW delta \in {Step, -Step}, AdjustWallet(delta)
      PROVE  rows' = rows
  BY <1>26 DEF AdjustWallet
<1>27. ASSUME NEW price \in Prices, EditPlan(price)
      PROVE  rows' = rows
  BY <1>27 DEF EditPlan
<1>28. ASSUME Crash PROVE rows' = rows
  BY <1>28 DEF Crash
<1>29. ASSUME UNCHANGED vars PROVE rows' = rows
  BY <1>29 DEF vars
<1>30. ASSUME NEW o \in Orders, TakeUp(o)
      PROVE  rows' = rows
  BY <1>30 DEF TakeUp, Return
<1>31. ASSUME NEW o \in Orders, AdminVerify(o)
      PROVE  rows' = rows
  BY <1>31 DEF AdminVerify, Verify, Deliver
<1>32. ASSUME NEW o \in Orders, AdminFindUnpaid(o)
      PROVE  rows' = rows
  BY <1>32 DEF AdminFindUnpaid
<1>33. ASSUME NEW o \in Orders, AdminRelease(o)
      PROVE  Drop(o) /\ UNCHANGED handler
  BY <1>33 DEF AdminRelease, Release
<1> QED
  BY <1>1, <1>2, <1>3, <1>4, <1>5, <1>6, <1>7, <1>8, <1>9, <1>10, <1>11, <1>12, <1>13, <1>14,
     <1>15, <1>16, <1>17, <1>18, <1>19, <1>20, <1>21, <1>22, <1>23, <1>24, <1>25, <1>26, <1>27,
     <1>28, <1>29, <1>30, <1>31, <1>32, <1>33 DEF Next

\* What a step does to the handler of an open checkout.
LEMMA CheckoutGoesOn ==
  ASSUME [Next]_vars, InCheckout'
  PROVE  \/ \E o \in Orders, buy, code \in BOOLEAN : StartOrder(o, buy, code)
         \/ ReadBalance \/ Price \/ RequestLink
         \/ InCheckout /\ UNCHANGED handler
<1> USE DEF Idle, handler, InCheckout
<1>1. ASSUME NEW o \in Orders, NEW buy \in BOOLEAN, NEW code \in BOOLEAN, StartOrder(o, buy, code)
      PROVE  TRUE
  BY <1>1 DEF StartOrder
<1>2. ASSUME ReadBalance PROVE TRUE
  BY <1>2 DEF ReadBalance
<1>3. ASSUME Price PROVE TRUE
  BY <1>3 DEF Price
<1>4. ASSUME StoreRow PROVE UNCHANGED handler
  BY <1>4, Zenon DEF StoreRow
<1>5. ASSUME RequestLink PROVE TRUE
  BY <1>5 DEF RequestLink
<1>6. ASSUME LinkDeadline PROVE UNCHANGED handler
  BY <1>6 DEF LinkDeadline
<1>7. ASSUME NEW o \in Orders, Check(o)
      PROVE  UNCHANGED handler
  BY <1>7 DEF Check, Verify, Deliver
<1>8. ASSUME ReleaseUnpaid PROVE UNCHANGED handler
  BY <1>8 DEF Release, ReleaseUnpaid, Cancelled
<1>9. ASSUME ReleaseDuplicate PROVE UNCHANGED handler
  BY <1>9 DEF Release, ReleaseDuplicate, Cancelled
<1>10. ASSUME EndDuplicates PROVE UNCHANGED handler
  BY <1>10 DEF EndDuplicates
<1>11. ASSUME CancelCard PROVE UNCHANGED handler
  BY <1>11 DEF CancelCard
<1>12. ASSUME CancelLocal PROVE UNCHANGED handler
  BY <1>12 DEF CancelLocal
<1>13. ASSUME DropCancelled PROVE UNCHANGED handler
  BY <1>13 DEF DropCancelled, Cancelled
<1>14. ASSUME NEW o \in Orders, LinkStored(o)
      PROVE  UNCHANGED handler
  BY <1>14 DEF LinkStored
<1>15. ASSUME NEW o \in Orders, LinkRefused(o)
      PROVE  UNCHANGED handler
  BY <1>15 DEF LinkRefused
<1>16. ASSUME NEW o \in Orders, Pay(o)
      PROVE  UNCHANGED handler
  BY <1>16 DEF Pay
<1>17. ASSUME NEW o \in Orders, FindUnpaid(o)
      PROVE  UNCHANGED handler
  BY <1>17 DEF Unpaid, FindUnpaid
<1>18. ASSUME NEW o \in Orders, FindDuplicate(o)
      PROVE  UNCHANGED handler
  BY <1>18 DEF Unpaid, FindDuplicate
<1>19. ASSUME NEW o \in Orders, Debit(o)
      PROVE  UNCHANGED handler
  BY <1>19 DEF Debit, Return
<1>20. ASSUME NEW o \in Orders, Commit(o)
      PROVE  UNCHANGED handler
  BY <1>20 DEF Commit
<1>21. ASSUME NEW o \in Orders, Serve(o)
      PROVE  UNCHANGED handler
  BY <1>21 DEF Serve
<1>22. ASSUME NEW o \in Orders, Book(o)
      PROVE  UNCHANGED handler
  BY <1>22 DEF Book, Return
<1>23. ASSUME NEW o \in Orders, Pop(o)
      PROVE  UNCHANGED handler
  BY <1>23 DEF Pop, Return
<1>24. ASSUME NEW o \in Orders, Fail(o)
      PROVE  UNCHANGED handler
  BY <1>24 DEF Fail, Return
<1>25. ASSUME NEW o \in Orders, ApproveCard(o)
      PROVE  UNCHANGED handler
  BY <1>25 DEF ApproveCard
<1>26. ASSUME NEW delta \in {Step, -Step}, AdjustWallet(delta)
      PROVE  UNCHANGED handler
  BY <1>26 DEF AdjustWallet
<1>27. ASSUME NEW price \in Prices, EditPlan(price)
      PROVE  UNCHANGED handler
  BY <1>27 DEF EditPlan
<1>28. ASSUME Crash PROVE UNCHANGED handler
  BY <1>28 DEF Crash
<1>29. ASSUME UNCHANGED vars PROVE UNCHANGED handler
  BY <1>29 DEF vars
<1>30. ASSUME NEW o \in Orders, TakeUp(o)
      PROVE  UNCHANGED handler
  BY <1>30 DEF TakeUp, Return
<1>31. ASSUME NEW o \in Orders, AdminVerify(o)
      PROVE  UNCHANGED handler
  BY <1>31 DEF AdminVerify, Verify, Deliver
<1>32. ASSUME NEW o \in Orders, AdminFindUnpaid(o)
      PROVE  UNCHANGED handler
  BY <1>32 DEF AdminFindUnpaid
<1>33. ASSUME NEW o \in Orders, AdminRelease(o)
      PROVE  UNCHANGED handler
  BY <1>33 DEF AdminRelease, Release
<1> QED
  BY <1>1, <1>2, <1>3, <1>4, <1>5, <1>6, <1>7, <1>8, <1>9, <1>10, <1>11, <1>12, <1>13, <1>14,
     <1>15, <1>16, <1>17, <1>18, <1>19, <1>20, <1>21, <1>22, <1>23, <1>24, <1>25, <1>26, <1>27,
     <1>28, <1>29, <1>30, <1>31, <1>32, <1>33 DEF Next

\* An answer of the gateway is asked for, of a row that is open and unpaid.
LEMMA AnswerAsked ==
  ASSUME [Next]_vars, NEW q, Answered(q)'
  PROVE  Answered(q) \/ (Unpaid(q) /\ UNCHANGED <<order, thread>>)
<1> USE DEF Answered, handler, Idle
<1>1. ASSUME NEW o \in Orders, NEW buy \in BOOLEAN, NEW code \in BOOLEAN, StartOrder(o, buy, code)
      PROVE  Answered(q) \/ (Unpaid(q) /\ UNCHANGED <<order, thread>>)
  BY <1>1 DEF StartOrder
<1>2. CASE ReadBalance
  BY <1>2 DEF ReadBalance
<1>3. CASE Price
  BY <1>3 DEF Price
<1>4. CASE StoreRow
  BY <1>4 DEF StoreRow
<1>5. CASE RequestLink
  BY <1>5 DEF RequestLink
<1>6. CASE LinkDeadline
  BY <1>6 DEF LinkDeadline
<1>7. ASSUME NEW o \in Orders, Check(o)
      PROVE  Answered(q) \/ (Unpaid(q) /\ UNCHANGED <<order, thread>>)
  BY <1>7 DEF Check, Verify, Deliver
<1>8. CASE ReleaseUnpaid
  BY <1>8 DEF Release, ReleaseUnpaid, Cancelled
<1>9. CASE ReleaseDuplicate
  BY <1>9 DEF Release, ReleaseDuplicate, Cancelled
<1>10. CASE EndDuplicates
  BY <1>10 DEF EndDuplicates
<1>11. CASE CancelCard
  BY <1>11 DEF CancelCard
<1>12. CASE CancelLocal
  BY <1>12 DEF CancelLocal
<1>13. CASE DropCancelled
  BY <1>13 DEF DropCancelled, Cancelled
<1>14. ASSUME NEW o \in Orders, LinkStored(o)
      PROVE  Answered(q) \/ (Unpaid(q) /\ UNCHANGED <<order, thread>>)
  BY <1>14 DEF LinkStored
<1>15. ASSUME NEW o \in Orders, LinkRefused(o)
      PROVE  Answered(q) \/ (Unpaid(q) /\ UNCHANGED <<order, thread>>)
  BY <1>15 DEF LinkRefused
<1>16. ASSUME NEW o \in Orders, Pay(o)
      PROVE  Answered(q) \/ (Unpaid(q) /\ UNCHANGED <<order, thread>>)
  BY <1>16 DEF Pay
<1>17. ASSUME NEW o \in Orders, FindUnpaid(o)
      PROVE  Answered(q) \/ (Unpaid(q) /\ UNCHANGED <<order, thread>>)
  BY <1>17 DEF Unpaid, FindUnpaid
<1>18. ASSUME NEW o \in Orders, FindDuplicate(o)
      PROVE  Answered(q) \/ (Unpaid(q) /\ UNCHANGED <<order, thread>>)
  BY <1>18 DEF Unpaid, FindDuplicate
<1>19. ASSUME NEW o \in Orders, Debit(o)
      PROVE  Answered(q) \/ (Unpaid(q) /\ UNCHANGED <<order, thread>>)
  BY <1>19 DEF Debit, Return
<1>20. ASSUME NEW o \in Orders, Commit(o)
      PROVE  Answered(q) \/ (Unpaid(q) /\ UNCHANGED <<order, thread>>)
  BY <1>20 DEF Commit
<1>21. ASSUME NEW o \in Orders, Serve(o)
      PROVE  Answered(q) \/ (Unpaid(q) /\ UNCHANGED <<order, thread>>)
  BY <1>21 DEF Serve
<1>22. ASSUME NEW o \in Orders, Book(o)
      PROVE  Answered(q) \/ (Unpaid(q) /\ UNCHANGED <<order, thread>>)
  BY <1>22 DEF Book, Return
<1>23. ASSUME NEW o \in Orders, Pop(o)
      PROVE  Answered(q) \/ (Unpaid(q) /\ UNCHANGED <<order, thread>>)
  BY <1>23 DEF Pop, Return
<1>24. ASSUME NEW o \in Orders, Fail(o)
      PROVE  Answered(q) \/ (Unpaid(q) /\ UNCHANGED <<order, thread>>)
  BY <1>24 DEF Fail, Return
<1>25. ASSUME NEW o \in Orders, ApproveCard(o)
      PROVE  Answered(q) \/ (Unpaid(q) /\ UNCHANGED <<order, thread>>)
  BY <1>25 DEF ApproveCard
<1>26. ASSUME NEW delta \in {Step, -Step}, AdjustWallet(delta)
      PROVE  Answered(q) \/ (Unpaid(q) /\ UNCHANGED <<order, thread>>)
  BY <1>26 DEF AdjustWallet
<1>27. ASSUME NEW price \in Prices, EditPlan(price)
      PROVE  Answered(q) \/ (Unpaid(q) /\ UNCHANGED <<order, thread>>)
  BY <1>27 DEF EditPlan
<1>28. CASE Crash
  BY <1>28 DEF Crash
<1>29. CASE UNCHANGED vars
  BY <1>29 DEF vars
<1>30. ASSUME NEW o \in Orders, TakeUp(o)
      PROVE  Answered(q) \/ (Unpaid(q) /\ UNCHANGED <<order, thread>>)
  BY <1>30 DEF TakeUp, Return
<1>31. ASSUME NEW o \in Orders, AdminVerify(o)
      PROVE  Answered(q) \/ (Unpaid(q) /\ UNCHANGED <<order, thread>>)
  BY <1>31 DEF AdminVerify, Verify, Deliver
<1>32. ASSUME NEW o \in Orders, AdminFindUnpaid(o)
      PROVE  Answered(q) \/ (Unpaid(q) /\ UNCHANGED <<order, thread>>)
  BY <1>32 DEF AdminFindUnpaid
<1>33. ASSUME NEW o \in Orders, AdminRelease(o)
      PROVE  Answered(q) \/ (Unpaid(q) /\ UNCHANGED <<order, thread>>)
  BY <1>33 DEF AdminRelease, Release
<1> QED
  BY <1>1, <1>2, <1>3, <1>4, <1>5, <1>6, <1>7, <1>8, <1>9, <1>10, <1>11, <1>12, <1>13, <1>14,
     <1>15, <1>16, <1>17, <1>18, <1>19, <1>20, <1>21, <1>22, <1>23, <1>24, <1>25, <1>26, <1>27,
     <1>28, <1>29, <1>30, <1>31, <1>32, <1>33 DEF Next

\* Every step keeps the answers those of gateway orders with a row.
LEMMA AnsweredStep == ASSUME CheckoutInv, [Next]_vars PROVE AnsweredOK'
<1>1. CheckoutTypeOK /\ OrdersOK /\ HandlerOK /\ AnsweredOK BY DEF CheckoutInv
<1> SUFFICES ASSUME NEW q \in Orders, Answered(q)'
             PROVE  /\ order'[q].kind = "gateway"
                    /\ q \notin thread' /\ ~(InCheckout' /\ cur' = q)
  BY DEF AnsweredOK
<1>2. /\ order[q].kind = "gateway" /\ order'[q] = order[q]
      /\ q \notin thread /\ q \notin thread' /\ ~(InCheckout /\ cur = q)
  <2>1. CASE Unpaid(q) /\ UNCHANGED <<order, thread>>
    <3>1. order[q].kind = "gateway" BY <2>1, Bounds DEF Unpaid, KindOf
    <3> QED BY <2>1, <3>1, NewRow DEF Unpaid
  <2>2. CASE Answered(q)
    <3>1. order[q].kind = "gateway" /\ q \notin thread /\ ~(InCheckout /\ cur = q)
      BY <1>1, <2>2 DEF AnsweredOK
    <3>2. q \in Started BY <3>1 DEF Started, NoOrder
    <3>3. ~Crash BY DEF Crash, Answered, Idle
    <3>4. q \notin thread' BY <3>1, ThreadGrows DEF RequestLink, InCheckout
    <3> QED
      BY <3>1, <3>2, <3>3, <3>4, OrderWritten
      DEF ReadBalance, Price, StoreRow, LinkRefused, InCheckout
  <2> QED BY <2>1, <2>2, AnswerAsked
<1>3. ASSUME InCheckout', cur' = q PROVE FALSE
  <2>1. q \in Started BY <1>2 DEF Started, NoOrder
  <2> QED
    BY <1>2, <1>3, <2>1, CheckoutGoesOn
    DEF StartOrder, ReadBalance, Price, RequestLink, InCheckout, handler
<1> QED BY <1>2, <1>3

\* What a step does to the money.
LEMMA MoneyChange ==
  ASSUME CheckoutInv, [Next]_vars
  PROVE  \/ UNCHANGED money
         \/ \E o \in Orders :
               /\ o \in Open \/ "release" \in raced
               /\ stage[o] = "debit" /\ ~Debited(o) /\ balance' = balance - order[o].wallet
               /\ ledger' = ledger \union {<<o, "debit">>} /\ adjusted' = adjusted
               /\ at = "balance" => "debit" \in raced'
               /\ UNCHANGED <<rows, order>> /\ (UNCHANGED handler \/ at' = "idle")
         \/ \E o \in Open :
               /\ <<o, "refund">> \notin ledger /\ balance' = balance + order[o].wallet
               /\ ledger' = ledger \union {<<o, "refund">>} /\ adjusted' = adjusted
               /\ UNCHANGED <<rows, order, raced>> /\ at' = "cancelled"
         \/ \E delta \in {Step, -Step} : AdjustWallet(delta)
<1> USE DEF money
<1>0. CheckoutTypeOK /\ StagesOK BY DEF CheckoutInv
<1>1. ASSUME NEW o \in Orders, NEW buy \in BOOLEAN, NEW code \in BOOLEAN, StartOrder(o, buy, code)
      PROVE  UNCHANGED money
  BY <1>1 DEF StartOrder
<1>2. ASSUME ReadBalance PROVE UNCHANGED money
  BY <1>2 DEF ReadBalance
<1>3. ASSUME Price PROVE UNCHANGED money
  BY <1>3 DEF Price
<1>4. ASSUME StoreRow PROVE UNCHANGED money
  BY <1>4, Zenon DEF StoreRow
<1>5. ASSUME RequestLink PROVE UNCHANGED money
  BY <1>5 DEF RequestLink
<1>6. ASSUME LinkDeadline PROVE UNCHANGED money
  BY <1>6 DEF LinkDeadline
<1>7. ASSUME NEW o \in Orders, Check(o)
      PROVE  UNCHANGED money
  BY <1>7 DEF Check, Verify, Deliver
<1>8. ASSUME ReleaseUnpaid PROVE UNCHANGED money
  BY <1>8 DEF Release, ReleaseUnpaid
<1>9. ASSUME ReleaseDuplicate PROVE UNCHANGED money
  BY <1>9 DEF Release, ReleaseDuplicate
<1>10. ASSUME EndDuplicates PROVE UNCHANGED money
  BY <1>10 DEF EndDuplicates
<1>11. ASSUME CancelCard PROVE UNCHANGED money
  BY <1>11 DEF CancelCard
<1>12. ASSUME CancelLocal
      PROVE  \/ UNCHANGED money
             \/ /\ Latest \in Open /\ <<Latest, "refund">> \notin ledger
                /\ balance' = balance + order[Latest].wallet
                /\ ledger' = ledger \union {<<Latest, "refund">>} /\ adjusted' = adjusted
                /\ UNCHANGED <<rows, order, raced>> /\ at' = "cancelled"
  BY <1>0, <1>12, LatestRow DEF CancelLocal, KindOf
<1>13. ASSUME DropCancelled PROVE UNCHANGED money
  BY <1>13 DEF DropCancelled
<1>14. ASSUME NEW o \in Orders, LinkStored(o)
      PROVE  UNCHANGED money
  BY <1>14 DEF LinkStored
<1>15. ASSUME NEW o \in Orders, LinkRefused(o)
      PROVE  UNCHANGED money
  BY <1>15 DEF LinkRefused
<1>16. ASSUME NEW o \in Orders, Pay(o)
      PROVE  UNCHANGED money
  BY <1>16 DEF Pay
<1>17. ASSUME NEW o \in Orders, FindUnpaid(o)
      PROVE  UNCHANGED money
  BY <1>17 DEF Unpaid, FindUnpaid
<1>18. ASSUME NEW o \in Orders, FindDuplicate(o)
      PROVE  UNCHANGED money
  BY <1>18 DEF Unpaid, FindDuplicate
<1>19. ASSUME NEW o \in Orders, Debit(o)
      PROVE  \/ UNCHANGED money
             \/ /\ o \in Open \/ "release" \in raced
                /\ stage[o] = "debit" /\ ~Debited(o)
                /\ balance' = balance - order[o].wallet
                /\ ledger' = ledger \union {<<o, "debit">>} /\ adjusted' = adjusted
                /\ at = "balance" => "debit" \in raced'
                /\ UNCHANGED <<rows, order>> /\ (UNCHANGED handler \/ at' = "idle")
  BY <1>0, <1>19 DEF Debit, Between, Return, StagesOK, handler, Idle
<1>20. ASSUME NEW o \in Orders, Commit(o)
      PROVE  UNCHANGED money
  BY <1>20 DEF Commit
<1>21. ASSUME NEW o \in Orders, Serve(o)
      PROVE  UNCHANGED money
  BY <1>21 DEF Serve
<1>22. ASSUME NEW o \in Orders, Book(o)
      PROVE  UNCHANGED money
  BY <1>22 DEF Book
<1>23. ASSUME NEW o \in Orders, Pop(o)
      PROVE  UNCHANGED money
  BY <1>23 DEF Pop
<1>24. ASSUME NEW o \in Orders, Fail(o)
      PROVE  UNCHANGED money
  BY <1>24 DEF Fail
<1>25. ASSUME NEW o \in Orders, ApproveCard(o)
      PROVE  UNCHANGED money
  BY <1>25 DEF ApproveCard
<1>26. ASSUME NEW delta \in {Step, -Step}, AdjustWallet(delta)
      PROVE  TRUE
  BY <1>26 DEF AdjustWallet
<1>27. ASSUME NEW price \in Prices, EditPlan(price)
      PROVE  UNCHANGED money
  BY <1>27 DEF EditPlan
<1>28. ASSUME Crash PROVE UNCHANGED money
  BY <1>28 DEF Crash
<1>29. ASSUME UNCHANGED vars PROVE UNCHANGED money
  BY <1>29 DEF vars
<1>30. ASSUME NEW o \in Orders, TakeUp(o)
      PROVE  UNCHANGED money
  BY <1>30 DEF TakeUp, Return
<1>31. ASSUME NEW o \in Orders, AdminVerify(o)
      PROVE  UNCHANGED money
  BY <1>31 DEF AdminVerify, Verify, Deliver
<1>32. ASSUME NEW o \in Orders, AdminFindUnpaid(o)
      PROVE  UNCHANGED money
  BY <1>32 DEF AdminFindUnpaid
<1>33. ASSUME NEW o \in Orders, AdminRelease(o)
      PROVE  UNCHANGED money
  BY <1>33 DEF AdminRelease, Release
<1> QED
  BY <1>1, <1>2, <1>3, <1>4, <1>5, <1>6, <1>7, <1>8, <1>9, <1>10, <1>11, <1>12, <1>13, <1>14,
     <1>15, <1>16, <1>17, <1>18, <1>19, <1>20, <1>21, <1>22, <1>23, <1>24, <1>25, <1>26, <1>27,
     <1>28, <1>29, <1>30, <1>31, <1>32, <1>33 DEF Next

\* A link is waited for until its row is stored or refused, its deadline passes
\* or the process is restarted.
LEMMA LinkEnds ==
  ASSUME [Next]_vars, at = "link"
  PROVE  UNCHANGED handler \/ cur \notin thread' \/ "deadline" \in raced'
<1> USE DEF Idle, handler
<1>1. ASSUME NEW o \in Orders, NEW buy \in BOOLEAN, NEW code \in BOOLEAN, StartOrder(o, buy, code)
      PROVE  UNCHANGED handler \/ cur \notin thread' \/ "deadline" \in raced'
  BY <1>1 DEF StartOrder
<1>2. CASE ReadBalance
  BY <1>2 DEF ReadBalance
<1>3. CASE Price
  BY <1>3 DEF Price
<1>4. CASE StoreRow
  BY <1>4 DEF StoreRow
<1>5. CASE RequestLink
  BY <1>5 DEF RequestLink
<1>6. CASE LinkDeadline
  BY <1>6 DEF LinkDeadline
<1>7. ASSUME NEW o \in Orders, Check(o)
      PROVE  UNCHANGED handler \/ cur \notin thread' \/ "deadline" \in raced'
  BY <1>7 DEF Check, Verify, Deliver
<1>8. CASE ReleaseUnpaid
  BY <1>8 DEF Release, ReleaseUnpaid, Cancelled
<1>9. CASE ReleaseDuplicate
  BY <1>9 DEF Release, ReleaseDuplicate, Cancelled
<1>10. CASE EndDuplicates
  BY <1>10 DEF EndDuplicates
<1>11. CASE CancelCard
  BY <1>11 DEF CancelCard
<1>12. CASE CancelLocal
  BY <1>12 DEF CancelLocal
<1>13. CASE DropCancelled
  BY <1>13 DEF DropCancelled, Cancelled
<1>14. ASSUME NEW o \in Orders, LinkStored(o)
      PROVE  UNCHANGED handler \/ cur \notin thread' \/ "deadline" \in raced'
  BY <1>14 DEF LinkStored
<1>15. ASSUME NEW o \in Orders, LinkRefused(o)
      PROVE  UNCHANGED handler \/ cur \notin thread' \/ "deadline" \in raced'
  BY <1>15 DEF LinkRefused
<1>16. ASSUME NEW o \in Orders, Pay(o)
      PROVE  UNCHANGED handler \/ cur \notin thread' \/ "deadline" \in raced'
  BY <1>16 DEF Pay
<1>17. ASSUME NEW o \in Orders, FindUnpaid(o)
      PROVE  UNCHANGED handler \/ cur \notin thread' \/ "deadline" \in raced'
  BY <1>17 DEF Unpaid, FindUnpaid
<1>18. ASSUME NEW o \in Orders, FindDuplicate(o)
      PROVE  UNCHANGED handler \/ cur \notin thread' \/ "deadline" \in raced'
  BY <1>18 DEF Unpaid, FindDuplicate
<1>19. ASSUME NEW o \in Orders, Debit(o)
      PROVE  UNCHANGED handler \/ cur \notin thread' \/ "deadline" \in raced'
  BY <1>19 DEF Debit, Return
<1>20. ASSUME NEW o \in Orders, Commit(o)
      PROVE  UNCHANGED handler \/ cur \notin thread' \/ "deadline" \in raced'
  BY <1>20 DEF Commit
<1>21. ASSUME NEW o \in Orders, Serve(o)
      PROVE  UNCHANGED handler \/ cur \notin thread' \/ "deadline" \in raced'
  BY <1>21 DEF Serve
<1>22. ASSUME NEW o \in Orders, Book(o)
      PROVE  UNCHANGED handler \/ cur \notin thread' \/ "deadline" \in raced'
  BY <1>22 DEF Book, Return
<1>23. ASSUME NEW o \in Orders, Pop(o)
      PROVE  UNCHANGED handler \/ cur \notin thread' \/ "deadline" \in raced'
  BY <1>23 DEF Pop, Return
<1>24. ASSUME NEW o \in Orders, Fail(o)
      PROVE  UNCHANGED handler \/ cur \notin thread' \/ "deadline" \in raced'
  BY <1>24 DEF Fail, Return
<1>25. ASSUME NEW o \in Orders, ApproveCard(o)
      PROVE  UNCHANGED handler \/ cur \notin thread' \/ "deadline" \in raced'
  BY <1>25 DEF ApproveCard
<1>26. ASSUME NEW delta \in {Step, -Step}, AdjustWallet(delta)
      PROVE  UNCHANGED handler \/ cur \notin thread' \/ "deadline" \in raced'
  BY <1>26 DEF AdjustWallet
<1>27. ASSUME NEW price \in Prices, EditPlan(price)
      PROVE  UNCHANGED handler \/ cur \notin thread' \/ "deadline" \in raced'
  BY <1>27 DEF EditPlan
<1>28. CASE Crash
  BY <1>28 DEF Crash
<1>29. CASE UNCHANGED vars
  BY <1>29 DEF vars
<1>30. ASSUME NEW o \in Orders, TakeUp(o)
      PROVE  UNCHANGED handler \/ cur \notin thread' \/ "deadline" \in raced'
  BY <1>30 DEF TakeUp, Return
<1>31. ASSUME NEW o \in Orders, AdminVerify(o)
      PROVE  UNCHANGED handler \/ cur \notin thread' \/ "deadline" \in raced'
  BY <1>31 DEF AdminVerify, Verify, Deliver
<1>32. ASSUME NEW o \in Orders, AdminFindUnpaid(o)
      PROVE  UNCHANGED handler \/ cur \notin thread' \/ "deadline" \in raced'
  BY <1>32 DEF AdminFindUnpaid
<1>33. ASSUME NEW o \in Orders, AdminRelease(o)
      PROVE  UNCHANGED handler \/ cur \notin thread' \/ "deadline" \in raced'
  BY <1>33 DEF AdminRelease, Release
<1> QED
  BY <1>1, <1>2, <1>3, <1>4, <1>5, <1>6, <1>7, <1>8, <1>9, <1>10, <1>11, <1>12, <1>13, <1>14,
     <1>15, <1>16, <1>17, <1>18, <1>19, <1>20, <1>21, <1>22, <1>23, <1>24, <1>25, <1>26, <1>27,
     <1>28, <1>29, <1>30, <1>31, <1>32, <1>33 DEF Next

\* Every step keeps one order at a time, as long as no link outlives its deadline.
LEMMA InTurnStep == ASSUME CheckoutInv, [Next]_vars PROVE InTurn'
<1> SUFFICES ASSUME "deadline" \notin raced'
             PROVE  /\ \A o \in thread' : at' = "link" /\ cur' = o
                    /\ \A i \in DOMAIN rows' :
                           i < Len(rows') \/ InCheckout' => order'[rows'[i]].kind = "gateway"
                    /\ InCheckout' /\ order'[cur'].first => \A o \in Open' : ~order'[o].first
  BY DEF InTurn
<1>1. CheckoutTypeOK /\ OrdersOK /\ HandlerOK BY DEF CheckoutInv
<1>2. /\ \A o \in thread : at = "link" /\ cur = o
      /\ \A i \in DOMAIN rows : i < Len(rows) \/ InCheckout => order[rows[i]].kind = "gateway"
      /\ InCheckout /\ order[cur].first => \A o \in Open : ~order[o].first
  BY RacedGrows DEF CheckoutInv, InTurn
<1>3. \A o \in Open : o \in Orders /\ order'[o] = order[o] /\ order[o].kind # "none"
  BY <1>1, LatestRow, OrderFixed DEF Untouched
<1>4. Len(rows) \in Nat /\ \A i \in DOMAIN rows : i \in 1..Len(rows) /\ rows[i] \in Open
  BY <1>1, LenProperties DEF CheckoutTypeOK, Open, ToSet
<1>5. ASSUME NEW o \in thread' PROVE at' = "link" /\ cur' = o
  <2>1. CASE RequestLink /\ thread' = thread \union {cur} BY <1>2, <1>5, <2>1 DEF RequestLink
  <2>2. CASE thread' \subseteq thread BY <1>2, <1>5, <2>2, LinkEnds DEF handler
  <2> QED BY <2>1, <2>2, ThreadGrows
<1>6. \A o \in thread : LinkStored(o) =>
         at' = "idle" /\ InCheckout /\ rows' = Append(rows, o) /\ o \notin Open
  BY <1>2, NewRow DEF LinkStored, Idle, InCheckout
<1>7. StoreRow => InCheckout /\ cur \in Orders /\ cur \notin Open BY NewRow DEF StoreRow, InCheckout
<1>8. ASSUME NEW i \in DOMAIN rows', i < Len(rows') \/ InCheckout'
      PROVE  order'[rows'[i]].kind = "gateway"
  <2>1. CASE rows' = rows
    <3>1. CASE i < Len(rows) \/ InCheckout BY <1>2, <1>3, <1>4, <1>8, <2>1, <3>1
    <3>2. CASE ~(i < Len(rows) \/ InCheckout)
      <4>1. PICK o \in Orders, buy \in BOOLEAN, code \in BOOLEAN : StartOrder(o, buy, code)
        BY <1>8, <2>1, <3>2, CheckoutGoesOn DEF ReadBalance, Price, RequestLink, InCheckout
      <4>2. KindOf(Latest) \notin {"wallet", "card"} BY <4>1 DEF StartOrder
      <4>3. Latest = rows[i] /\ rows[i] \in Open
        <5>1. i = Len(rows) BY <1>4, <1>8, <2>1, <3>2
        <5>2. rows # << >> BY <1>4, <1>8, <2>1
        <5> QED BY <1>1, <1>4, <1>8, <2>1, <5>1, <5>2, LatestRow
      <4>4. order[rows[i]].kind \in Kinds \union {"none"} /\ rows[i] # 0
        BY <1>1, <1>3, <4>3, Bounds DEF CheckoutTypeOK, Order
      <4> QED BY <1>3, <2>1, <4>2, <4>3, <4>4 DEF KindOf, Kinds
    <3> QED BY <3>1, <3>2
  <2>2. ASSUME NEW o, Drop(o), UNCHANGED handler \/ at' \in {"idle", "duplicates"}
        PROVE  order'[rows'[i]].kind = "gateway"
    <3>1. PICK j \in DOMAIN rows : rows'[i] = rows[j] /\ (i < Len(rows') => j < Len(rows))
      BY <1>1, <2>2, Dropped
    <3>2. InCheckout' => InCheckout BY <2>2 DEF InCheckout, handler
    <3> QED BY <1>2, <1>3, <1>4, <1>8, <3>1, <3>2
  <2>3. ASSUME NEW o \in Orders, o \notin Open, rows' = Append(rows, o), InCheckout, ~InCheckout'
        PROVE  order'[rows'[i]].kind = "gateway"
    <3>1. i \in DOMAIN rows /\ rows'[i] = rows[i]
      <4>1. i \in Int /\ Len(rows') \in Nat
        BY <1>1, <2>3, Stored, LenProperties DEF CheckoutTypeOK
      <4> QED BY <1>1, <1>8, <2>3, <4>1, Stored
    <3> QED BY <1>2, <1>3, <1>4, <2>3, <3>1
  <2>4. CASE StoreRow /\ rows' = Append(rows, cur) /\ at' \in {"idle", "delivering"}
    BY <1>7, <2>3, <2>4 DEF InCheckout
  <2>5. CASE \E o \in thread : LinkStored(o)
    <3>1. thread \subseteq Orders BY <1>1 DEF CheckoutTypeOK
    <3> QED BY <1>6, <2>3, <2>5, <3>1 DEF InCheckout
  <2> QED BY <2>1, <2>2, <2>4, <2>5, RowsChange
<1>9. ASSUME InCheckout', order'[cur'].first, NEW q \in Open' PROVE ~order'[q].first
  <2>1. q \in Open
    <3>1. CASE rows' = rows BY <1>9, <3>1 DEF Open
    <3>2. ASSUME NEW o, Drop(o) PROVE q \in Open BY <1>1, <1>9, <3>2, Dropped
    <3> QED BY <1>6, <1>9, <3>1, <3>2, RowsChange DEF InCheckout
  <2>2. SUFFICES ~order[q].first BY <1>3, <2>1
  <2>3. ASSUME NEW o \in Orders, NEW buy \in BOOLEAN, NEW code \in BOOLEAN,
               StartOrder(o, buy, code)
        PROVE  ~order[q].first
    <3>1. order'[cur'].first = (buy /\ ~HasPurchase) /\ (buy /\ ~HasPurchase => LatestFirst = 0)
      BY <1>1, <2>3 DEF StartOrder, CheckoutTypeOK, NoOrder
    <3> QED BY <1>1, <1>9, <2>1, <3>1, LatestFirstRow
  <2>4. CASE ReadBalance
    <3>1. InCheckout /\ order'[cur'].first = order[cur].first
      BY <1>1, <2>4 DEF ReadBalance, CheckoutTypeOK, Order, InCheckout, HandlerOK
    <3> QED BY <1>2, <1>9, <2>1, <3>1
  <2>5. CASE Price
    <3>1. InCheckout /\ order'[cur'].first = order[cur].first
      BY <2>5, Priced DEF Price, InCheckout
    <3> QED BY <1>2, <1>9, <2>1, <3>1
  <2>6. CASE RequestLink BY <1>2, <1>9, <2>1, <2>6 DEF RequestLink, InCheckout
  <2>7. CASE InCheckout /\ UNCHANGED handler
    <3>1. cur \in Orders /\ cur \in Started BY <1>1, <2>7 DEF HandlerOK, InCheckout, Started
    <3>2. order'[cur] = order[cur]
      BY <1>2, <1>9, <2>7, <3>1, OrderWritten
      DEF ReadBalance, Price, LinkRefused, Crash, Idle, InCheckout, handler
    <3> QED BY <1>2, <1>9, <2>1, <2>7, <3>2 DEF handler
  <2> QED BY <1>9, <2>3, <2>4, <2>5, <2>6, <2>7, CheckoutGoesOn
<1> QED BY <1>5, <1>8, <1>9

\* Only finalize_successful_order books an order or uses the referral.
LEMMA Booking ==
  ASSUME [Next]_vars
  PROVE  UNCHANGED <<booked, referral>> \/ \E o \in Orders : Book(o)
<1> USE DEF outcome
<1>1. ASSUME NEW o \in Orders, NEW buy \in BOOLEAN, NEW code \in BOOLEAN, StartOrder(o, buy, code)
      PROVE  UNCHANGED <<booked, referral>>
  BY <1>1 DEF StartOrder
<1>2. CASE ReadBalance
  BY <1>2 DEF ReadBalance
<1>3. CASE Price
  BY <1>3 DEF Price
<1>4. CASE StoreRow
  BY <1>4 DEF StoreRow
<1>5. CASE RequestLink
  BY <1>5 DEF RequestLink
<1>6. CASE LinkDeadline
  BY <1>6 DEF LinkDeadline
<1>7. ASSUME NEW o \in Orders, Check(o)
      PROVE  UNCHANGED <<booked, referral>>
  BY <1>7 DEF Check, Verify, Deliver
<1>8. CASE ReleaseUnpaid
  BY <1>8 DEF Release, ReleaseUnpaid
<1>9. CASE ReleaseDuplicate
  BY <1>9 DEF Release, ReleaseDuplicate
<1>10. CASE EndDuplicates
  BY <1>10 DEF EndDuplicates
<1>11. CASE CancelCard
  BY <1>11 DEF CancelCard
<1>12. CASE CancelLocal
  BY <1>12 DEF CancelLocal
<1>13. CASE DropCancelled
  BY <1>13 DEF DropCancelled
<1>14. ASSUME NEW o \in Orders, LinkStored(o)
      PROVE  UNCHANGED <<booked, referral>>
  BY <1>14 DEF LinkStored
<1>15. ASSUME NEW o \in Orders, LinkRefused(o)
      PROVE  UNCHANGED <<booked, referral>>
  BY <1>15 DEF LinkRefused
<1>16. ASSUME NEW o \in Orders, Pay(o)
      PROVE  UNCHANGED <<booked, referral>>
  BY <1>16 DEF Pay
<1>17. ASSUME NEW o \in Orders, FindUnpaid(o)
      PROVE  UNCHANGED <<booked, referral>>
  BY <1>17 DEF Unpaid, FindUnpaid
<1>18. ASSUME NEW o \in Orders, FindDuplicate(o)
      PROVE  UNCHANGED <<booked, referral>>
  BY <1>18 DEF Unpaid, FindDuplicate
<1>19. ASSUME NEW o \in Orders, Debit(o)
      PROVE  UNCHANGED <<booked, referral>>
  BY <1>19 DEF Debit
<1>20. ASSUME NEW o \in Orders, Commit(o)
      PROVE  UNCHANGED <<booked, referral>>
  BY <1>20 DEF Commit
<1>21. ASSUME NEW o \in Orders, Serve(o)
      PROVE  UNCHANGED <<booked, referral>>
  BY <1>21 DEF Serve
<1>23. ASSUME NEW o \in Orders, Pop(o)
      PROVE  UNCHANGED <<booked, referral>>
  BY <1>23 DEF Pop
<1>24. ASSUME NEW o \in Orders, Fail(o)
      PROVE  UNCHANGED <<booked, referral>>
  BY <1>24 DEF Fail
<1>25. ASSUME NEW o \in Orders, ApproveCard(o)
      PROVE  UNCHANGED <<booked, referral>>
  BY <1>25 DEF ApproveCard
<1>26. ASSUME NEW delta \in {Step, -Step}, AdjustWallet(delta)
      PROVE  UNCHANGED <<booked, referral>>
  BY <1>26 DEF AdjustWallet
<1>27. ASSUME NEW price \in Prices, EditPlan(price)
      PROVE  UNCHANGED <<booked, referral>>
  BY <1>27 DEF EditPlan
<1>28. CASE Crash
  BY <1>28 DEF Crash
<1>29. CASE UNCHANGED vars
  BY <1>29 DEF vars
<1>30. ASSUME NEW o \in Orders, TakeUp(o)
      PROVE  UNCHANGED <<booked, referral>>
  BY <1>30 DEF TakeUp, Return
<1>31. ASSUME NEW o \in Orders, AdminVerify(o)
      PROVE  UNCHANGED <<booked, referral>>
  BY <1>31 DEF AdminVerify, Verify, Deliver
<1>32. ASSUME NEW o \in Orders, AdminFindUnpaid(o)
      PROVE  UNCHANGED <<booked, referral>>
  BY <1>32 DEF AdminFindUnpaid
<1>33. ASSUME NEW o \in Orders, AdminRelease(o)
      PROVE  UNCHANGED <<booked, referral>>
  BY <1>33 DEF AdminRelease, Release
<1> QED
  BY <1>1, <1>2, <1>3, <1>4, <1>5, <1>6, <1>7, <1>8, <1>9, <1>10, <1>11, <1>12, <1>13, <1>14,
     <1>15, <1>16, <1>17, <1>18, <1>19, <1>20, <1>21, <1>23, <1>24, <1>25, <1>26, <1>27, <1>28,
     <1>29, <1>30, <1>31, <1>32, <1>33 DEF Next

\* Every step keeps the discount with one order.
LEMMA OneDiscountStep == ASSUME CheckoutInv, [Next]_vars PROVE OneDiscount'
<1>1. CheckoutTypeOK /\ FlagsOK /\ InTurn /\ OneDiscount /\ HandlerOK BY DEF CheckoutInv
<1>2. \A o \in Open \union booked : o \in Orders /\ order'[o] = order[o]
  BY <1>1, LatestRow, OrderFixed DEF Untouched, CheckoutTypeOK, FlagsOK
<1>3. ASSUME "deadline" \notin raced',
             NEW o \in Open', NEW p \in Open', order'[o].first, order'[p].first
      PROVE  o = p
  <2>1. \A q, r \in Open : order'[q].first /\ order'[r].first => q = r
    BY <1>1, <1>2, <1>3, RacedGrows DEF OneDiscount
  <2>2. ASSUME NEW q \in Orders, q \notin Open, rows' = Append(rows, q), order' = order,
               InCheckout, q = cur
        PROVE  o = p
    <3>1. Open' = Open \union {q} BY <1>1, <2>2, Stored
    <3>2. order[q].first => \A r \in Open : ~order[r].first
      BY <1>1, <1>3, <2>2, RacedGrows DEF InTurn
    <3> QED BY <1>3, <2>1, <2>2, <3>1, <3>2
  <2>3. CASE rows' = rows BY <1>3, <2>1, <2>3 DEF Open
  <2>4. ASSUME NEW q, Drop(q) PROVE o = p BY <1>1, <1>3, <2>1, <2>4, Dropped
  <2>5. CASE StoreRow /\ rows' = Append(rows, cur) /\ order' = order
    BY <2>2, <2>5, NewRow DEF StoreRow, InCheckout
  <2>6. ASSUME NEW q \in thread, LinkStored(q) PROVE o = p
    <3>1. q = cur /\ InCheckout BY <1>1, <1>3, <2>6, RacedGrows DEF InTurn, InCheckout
    <3> QED BY <2>2, <2>6, <3>1, NewRow DEF LinkStored
  <2> QED BY <2>3, <2>4, <2>5, <2>6, RowsChange
<1>4. ASSUME NEW q \in booked', order'[q].discount > 0 PROVE referral' = q
  <2>1. CASE UNCHANGED <<booked, referral>> BY <1>1, <1>2, <1>4, <2>1 DEF OneDiscount
  <2>2. ASSUME NEW o \in Orders, Book(o) PROVE referral' = q
    <3>1. order' = order BY <2>2 DEF Book
    <3>2. 0 \notin Orders BY Bounds
    <3>3. q \in booked => order[q].discount > 0 /\ referral = q /\ q # 0
      BY <1>1, <1>2, <1>4, <3>1, <3>2 DEF OneDiscount
    <3>4. CASE order[o].discount > 0 /\ referral \notin {0, o}
      BY <1>4, <2>2, <3>3, <3>4 DEF Book
    <3>5. CASE order[o].discount > 0 /\ referral \in {0, o}
      BY <1>4, <2>2, <3>3, <3>5 DEF Book
    <3>6. CASE ~(order[o].discount > 0)
      BY <1>4, <2>2, <3>1, <3>3, <3>6 DEF Book
    <3> QED BY <3>4, <3>5, <3>6
  <2> QED BY <2>1, <2>2, Booking
<1> QED BY <1>3, <1>4 DEF OneDiscount

\* A row leaves the table when its order is booked, when nobody has authorized
\* it, or by a release that holds an older answer.
LEMMA RowLeaves ==
  ASSUME CheckoutInv, [Next]_vars, NEW q \in Open
  PROVE  q \in Open' \/ q \notin authorized \/ q \in booked \/ Answered(q)
<1>1. CheckoutTypeOK /\ HandlerOK /\ StagesOK /\ FlagsOK BY DEF CheckoutInv
<1>2. ASSUME NEW o, Drop(o) PROVE q \in Open' \/ q = o BY <1>1, <1>2, Dropped
<1>3. /\ \A o \in Orders : o \notin Open /\ rows' = Append(rows, o) => q \in Open'
      /\ InCheckout => cur \in Orders /\ cur \notin Open
      /\ \A o \in thread : o \notin Open
  BY <1>1, NewRow, Stored
<1>4. ASSUME NEW o \in Orders, NEW buy \in BOOLEAN, NEW code \in BOOLEAN, StartOrder(o, buy, code)
      PROVE  q \in Open' \/ q \notin authorized \/ q \in booked \/ Answered(q)
  BY <1>4 DEF StartOrder, Open
<1>5. CASE ReadBalance
  BY <1>5 DEF ReadBalance, Open
<1>6. CASE Price
  BY <1>6 DEF Price, Open
<1>7. CASE StoreRow
  BY <1>1, <1>3, <1>7 DEF StoreRow, InCheckout, Open
<1>8. CASE RequestLink
  BY <1>8 DEF RequestLink, Open
<1>9. CASE LinkDeadline
  BY <1>9 DEF LinkDeadline, Open
<1>10. ASSUME NEW o \in Orders, Check(o)
      PROVE  q \in Open' \/ q \notin authorized \/ q \in booked \/ Answered(q)
  BY <1>10 DEF Check, Verify, Deliver, Open
<1>11. CASE ReleaseUnpaid
  BY <1>1, <1>2, <1>11 DEF Release, ReleaseUnpaid, Answered
<1>12. CASE ReleaseDuplicate
  BY <1>1, <1>2, <1>12 DEF Release, ReleaseDuplicate, Answered
<1>13. CASE EndDuplicates
  BY <1>13 DEF EndDuplicates, Open
<1>14. CASE CancelCard
  BY <1>1, <1>2, <1>14 DEF CancelCard
<1>15. CASE CancelLocal
  BY <1>15 DEF CancelLocal, Open
<1>16. CASE DropCancelled
  BY <1>1, <1>2, <1>16 DEF DropCancelled, HandlerOK, FlagsOK
<1>17. ASSUME NEW o \in Orders, LinkStored(o)
      PROVE  q \in Open' \/ q \notin authorized \/ q \in booked \/ Answered(q)
  BY <1>1, <1>3, <1>17 DEF LinkStored, CheckoutTypeOK, Open
<1>18. ASSUME NEW o \in Orders, LinkRefused(o)
      PROVE  q \in Open' \/ q \notin authorized \/ q \in booked \/ Answered(q)
  BY <1>18 DEF LinkRefused, Open
<1>19. ASSUME NEW o \in Orders, Pay(o)
      PROVE  q \in Open' \/ q \notin authorized \/ q \in booked \/ Answered(q)
  BY <1>19 DEF Pay, Open
<1>20. ASSUME NEW o \in Orders, FindUnpaid(o)
      PROVE  q \in Open' \/ q \notin authorized \/ q \in booked \/ Answered(q)
  BY <1>20 DEF Unpaid, FindUnpaid, Open
<1>21. ASSUME NEW o \in Orders, FindDuplicate(o)
      PROVE  q \in Open' \/ q \notin authorized \/ q \in booked \/ Answered(q)
  BY <1>21 DEF Unpaid, FindDuplicate, Open
<1>22. ASSUME NEW o \in Orders, Debit(o)
      PROVE  q \in Open' \/ q \notin authorized \/ q \in booked \/ Answered(q)
  BY <1>22 DEF Debit, Open
<1>23. ASSUME NEW o \in Orders, Commit(o)
      PROVE  q \in Open' \/ q \notin authorized \/ q \in booked \/ Answered(q)
  BY <1>23 DEF Commit, Open
<1>24. ASSUME NEW o \in Orders, Serve(o)
      PROVE  q \in Open' \/ q \notin authorized \/ q \in booked \/ Answered(q)
  BY <1>24 DEF Serve, Open
<1>25. ASSUME NEW o \in Orders, Book(o)
      PROVE  q \in Open' \/ q \notin authorized \/ q \in booked \/ Answered(q)
  BY <1>25 DEF Book, Open
<1>26. ASSUME NEW o \in Orders, Pop(o)
      PROVE  q \in Open' \/ q \notin authorized \/ q \in booked \/ Answered(q)
  BY <1>1, <1>2, <1>26 DEF Pop, StagesOK
<1>27. ASSUME NEW o \in Orders, Fail(o)
      PROVE  q \in Open' \/ q \notin authorized \/ q \in booked \/ Answered(q)
  BY <1>27 DEF Fail, Open
<1>28. ASSUME NEW o \in Orders, ApproveCard(o)
      PROVE  q \in Open' \/ q \notin authorized \/ q \in booked \/ Answered(q)
  BY <1>28 DEF ApproveCard, Open
<1>29. ASSUME NEW delta \in {Step, -Step}, AdjustWallet(delta)
      PROVE  q \in Open' \/ q \notin authorized \/ q \in booked \/ Answered(q)
  BY <1>29 DEF AdjustWallet, Open
<1>30. ASSUME NEW price \in Prices, EditPlan(price)
      PROVE  q \in Open' \/ q \notin authorized \/ q \in booked \/ Answered(q)
  BY <1>30 DEF EditPlan, Open
<1>31. CASE Crash
  BY <1>31 DEF Crash, Open
<1>32. CASE UNCHANGED vars
  BY <1>32 DEF vars, Open
<1>33. ASSUME NEW o \in Orders, TakeUp(o)
      PROVE  q \in Open' \/ q \notin authorized \/ q \in booked \/ Answered(q)
  BY <1>33 DEF TakeUp, Return, Open
<1>34. ASSUME NEW o \in Orders, AdminVerify(o)
      PROVE  q \in Open' \/ q \notin authorized \/ q \in booked \/ Answered(q)
  BY <1>34 DEF AdminVerify, Verify, Deliver, Open
<1>35. ASSUME NEW o \in Orders, AdminFindUnpaid(o)
      PROVE  q \in Open' \/ q \notin authorized \/ q \in booked \/ Answered(q)
  BY <1>35 DEF AdminFindUnpaid, Open
<1>36. ASSUME NEW o \in Orders, AdminRelease(o)
      PROVE  q \in Open' \/ q \notin authorized \/ q \in booked \/ Answered(q)
  BY <1>2, <1>36 DEF AdminRelease, Release, Answered
<1> QED
  BY <1>4, <1>5, <1>6, <1>7, <1>8, <1>9, <1>10, <1>11, <1>12, <1>13, <1>14, <1>15, <1>16, <1>17,
     <1>18, <1>19, <1>20, <1>21, <1>22, <1>23, <1>24, <1>25, <1>26, <1>27, <1>28, <1>29, <1>30,
        <1>31, <1>32,
     <1>33, <1>34, <1>35, <1>36 DEF Next

-----------------------------------------------------------------------------
(* The wallet                                                              *)

\* The wallet parts before and after a step; those of orders with a row or a
\* debit are the same.
LEMMA Parts ==
  ASSUME CheckoutInv, [Next]_vars
  PROVE  /\ WalletPart \in [Orders -> Nat] /\ WalletPart' \in [Orders -> Nat]
         /\ \A o \in Orders : WalletPart[o] = order[o].wallet /\ WalletPart'[o] = order'[o].wallet
         /\ \A S \in SUBSET Orders : (\A o \in S : o \in Open \/ Debited(o)) =>
                SumFunctionOnSet(WalletPart', S) = SumFunctionOnSet(WalletPart, S)
<1>1. CheckoutTypeOK /\ CheckoutTypeOK' BY TypeStep DEF CheckoutInv
<1>2. \A o \in Orders : order[o].wallet \in Nat /\ order'[o].wallet \in Nat
  <2>1. MaxBalance \in Nat BY CheckoutAssumption
  <2>2. \A o \in Orders : order[o] \in Order /\ order'[o] \in Order BY <1>1 DEF CheckoutTypeOK
  <2>3. \A x \in Order : x.wallet \in Nat BY <2>1 DEF Order
  <2> QED BY <2>2, <2>3
<1>3. /\ WalletPart \in [Orders -> Nat] /\ WalletPart' \in [Orders -> Nat]
      /\ \A o \in Orders : WalletPart[o] = order[o].wallet /\ WalletPart'[o] = order'[o].wallet
  BY <1>2 DEF WalletPart
<1>4. ASSUME NEW S \in SUBSET Orders, \A o \in S : o \in Open \/ Debited(o)
      PROVE  SumFunctionOnSet(WalletPart', S) = SumFunctionOnSet(WalletPart, S)
  <2>1. IsFiniteSet(S) BY Bounds, FS_Subset
  <2>2. \A o \in S : WalletPart'[o] = WalletPart[o] BY <1>3, <1>4, OrderFixed DEF Untouched, Debited
  <2> QED BY <2>1, <2>2, SumAgrees
<1> QED BY <1>3, <1>4

\* Every step keeps the wallet equal to what came in less what the orders took.
LEMMA WalletStep == ASSUME CheckoutInv, [Next]_vars PROVE WalletAddsUp'
<1> DEFINE D == {o \in Orders : <<o, "debit">> \in ledger}
           R == {o \in Orders : <<o, "refund">> \in ledger}
           D2 == {o \in Orders : <<o, "debit">> \in ledger'}
           R2 == {o \in Orders : <<o, "refund">> \in ledger'}
           W(S) == SumFunctionOnSet(WalletPart, S)
           W2(S) == SumFunctionOnSet(WalletPart', S)
<1>1. CheckoutTypeOK /\ CheckoutTypeOK' BY TypeStep DEF CheckoutInv
<1>2. balance = FirstBalance + adjusted - W(D) + W(R)
  BY DEF CheckoutInv, WalletAddsUp, Moved, Wallet
<1>3. SUFFICES balance' = FirstBalance + adjusted' - W2(D2) + W2(R2)
  BY DEF WalletAddsUp, Moved, Wallet
<1>4. D \in SUBSET Orders /\ R \in SUBSET Orders /\ \A o \in D \union R : Debited(o)
  BY DEF CheckoutInv, FlagsOK, Debited
<1>5. W2(D) = W(D) /\ W2(R) = W(R) BY <1>4, Parts
<1>6. W(D) \in Nat /\ W(R) \in Nat BY <1>4, Parts, PartSum
<1>7. \A o \in Orders : order' = order =>
         WalletPart'[o] = order[o].wallet /\ order[o].wallet \in Nat
  BY Parts
<1>8. /\ balance \in Int /\ balance' \in Int /\ adjusted \in Int /\ adjusted' \in Int
      /\ FirstBalance \in Int
  BY <1>1, CheckoutAssumption DEF CheckoutTypeOK
<1> DEFINE d == W(D)
           r == W(R)
<1>9. CASE UNCHANGED money
  <2>1. D2 = D /\ R2 = R BY <1>9 DEF money
  <2> QED BY <1>2, <1>5, <1>9, <2>1 DEF money
<1>10. ASSUME NEW o \in Orders, order' = order, ~Debited(o), balance' = balance - order[o].wallet,
              ledger' = ledger \union {<<o, "debit">>}, adjusted' = adjusted
       PROVE  balance' = FirstBalance + adjusted' - W2(D2) + W2(R2)
  <2>1. D2 = D \union {o} /\ o \notin D /\ R2 = R BY <1>7, <1>10 DEF Debited
  <2>2. W2(D2) = order[o].wallet + d
    <3>1. WalletPart' \in [Orders -> Nat] BY Parts
    <3>2. SumFunctionOnSet(WalletPart', D \union {o}) = WalletPart'[o] + SumFunctionOnSet(WalletPart', D)
      BY <1>4, <1>7, <2>1, <3>1, PartSum
    <3> QED BY <1>5, <1>7, <1>10, <2>1, <3>2
  <2>3. W2(R2) = r BY <1>5, <2>1
  <2>4. order[o].wallet \in Nat BY <1>7, <1>10
  <2> HIDE DEF W, W2, D2, R2, D, R
  <2> QED BY <1>2, <1>6, <1>8, <1>10, <2>2, <2>3, <2>4
<1>11. ASSUME NEW o \in Orders, order' = order, <<o, "refund">> \notin ledger,
              balance' = balance + order[o].wallet,
              ledger' = ledger \union {<<o, "refund">>}, adjusted' = adjusted
       PROVE  balance' = FirstBalance + adjusted' - W2(D2) + W2(R2)
  <2>1. R2 = R \union {o} /\ o \notin R /\ D2 = D BY <1>7, <1>11
  <2>2. W2(R2) = order[o].wallet + r
    <3>1. WalletPart' \in [Orders -> Nat] BY Parts
    <3>2. SumFunctionOnSet(WalletPart', R \union {o}) = WalletPart'[o] + SumFunctionOnSet(WalletPart', R)
      BY <1>4, <1>7, <2>1, <3>1, PartSum
    <3> QED BY <1>5, <1>7, <1>11, <2>1, <3>2
  <2>3. W2(D2) = d BY <1>5, <2>1
  <2>4. order[o].wallet \in Nat BY <1>7, <1>11
  <2> HIDE DEF W, W2, D2, R2, D, R
  <2> QED BY <1>2, <1>6, <1>8, <1>11, <2>2, <2>3, <2>4
<1>12. ASSUME NEW delta \in {Step, -Step}, AdjustWallet(delta)
       PROVE  balance' = FirstBalance + adjusted' - W2(D2) + W2(R2)
  <2>1. D2 = D /\ R2 = R /\ balance' = balance + delta /\ adjusted' = adjusted + delta
    BY <1>12 DEF AdjustWallet
  <2>2. W2(D2) = d /\ W2(R2) = r BY <1>5, <2>1
  <2>3. delta \in Int BY CheckoutAssumption
  <2> HIDE DEF W, W2, D2, R2, D, R
  <2> QED BY <1>2, <1>6, <1>8, <2>1, <2>2, <2>3
<1>13. Open \subseteq Orders BY <1>1, LatestRow
<1> QED BY <1>9, <1>10, <1>11, <1>12, <1>13, MoneyChange

\* What the rows without a debit take: no more than the reservations, and no
\* more after a step that adds no row.
LEMMA Reserving ==
  ASSUME CheckoutInv, [Next]_vars
  PROVE  /\ Undebited \in SUBSET Orders /\ Wallet(Undebited) \in Nat
         /\ Reserved \in Nat /\ Wallet(Undebited) <= Reserved
         /\ \A S \in SUBSET Undebited :
                /\ SumFunctionOnSet(WalletPart', S) \in Nat
                /\ SumFunctionOnSet(WalletPart', S) <= Wallet(Undebited)
<1>1. CheckoutTypeOK /\ FlagsOK BY DEF CheckoutInv
<1>2. Open \in SUBSET Orders /\ Undebited \in SUBSET Orders
  BY <1>1, LatestRow DEF Undebited
<1>3. Undebited \in SUBSET (Open \ committed) /\ Open \ committed \in SUBSET Orders
  BY <1>1, <1>2 DEF Undebited, FlagsOK
<1>4. WalletPart \in [Orders -> Nat] BY Parts
<1>5. /\ Wallet(Undebited) \in Nat /\ Reserved \in Nat /\ Wallet(Undebited) <= Reserved
  BY <1>2, <1>3, <1>4, PartSum DEF Wallet, Reserved
<1>6. ASSUME NEW S \in SUBSET Undebited
      PROVE  /\ SumFunctionOnSet(WalletPart', S) \in Nat
             /\ SumFunctionOnSet(WalletPart', S) <= Wallet(Undebited)
  <2>1. S \in SUBSET Orders /\ \A o \in S : o \in Open BY <1>2 DEF Undebited
  <2>2. SumFunctionOnSet(WalletPart', S) = SumFunctionOnSet(WalletPart, S) BY <2>1, Parts
  <2> QED BY <1>2, <1>4, <2>1, <2>2, PartSum DEF Wallet
<1> QED BY <1>2, <1>5, <1>6

\* While none of the four races happens, a step that adds no row leaves the
\* wallet as much above what its rows take as before, but for a decrease; and
\* nothing is taken from it between the two reads of a checkout.
LEMMA Slack ==
  ASSUME CheckoutInv, [Next]_vars, Open' \subseteq Open,
         raced' \cap {"deadline", "decrease", "debit", "release"} = {}
  PROVE  /\ Wallet(Undebited)' \in Nat /\ Wallet(Undebited)' <= Wallet(Undebited)
         /\ at = "balance" => balance <= balance'
         /\ \/ balance - Wallet(Undebited) <= balance' - Wallet(Undebited)'
            \/ ~InCheckout /\ \E delta \in {Step, -Step} : delta < 0 /\ AdjustWallet(delta)
<1>1. CheckoutTypeOK BY DEF CheckoutInv
<1>2. balance \in Int /\ balance' \in Int /\ Step \in Nat
  BY CheckoutAssumption, TypeStep DEF CheckoutInv, CheckoutTypeOK
<1>3. Wallet(Undebited)' = SumFunctionOnSet(WalletPart', Undebited') BY DEF Wallet
<1>4. Undebited' \in SUBSET Undebited BY MoneyGrows DEF Undebited, Debited
<1>5. /\ Undebited \in SUBSET Orders /\ Wallet(Undebited) \in Nat
      /\ Wallet(Undebited)' \in Nat /\ Wallet(Undebited)' <= Wallet(Undebited)
  BY <1>3, <1>4, Reserving
<1>6. \A o \in Orders : WalletPart[o] = order[o].wallet /\ order[o].wallet \in Nat
  BY Parts
<1>7. "release" \notin raced BY RacedGrows
<1>8. CASE UNCHANGED money BY <1>2, <1>5, <1>8 DEF money
<1>9. ASSUME NEW o \in Open, ~Debited(o), balance' = balance - order[o].wallet,
             ledger' = ledger \union {<<o, "debit">>}, UNCHANGED rows
      PROVE  balance - Wallet(Undebited) <= balance' - Wallet(Undebited)'
  <2> DEFINE U == Undebited \ {o}
  <2>1. Undebited' = U /\ o \in Undebited /\ o \in Orders
    BY <1>5, <1>9 DEF Undebited, Debited, Open
  <2>2. U \in SUBSET Orders /\ o \notin U /\ Undebited = U \union {o} BY <1>5, <2>1
  <2>3. Wallet(Undebited) = order[o].wallet + SumFunctionOnSet(WalletPart, U)
    <3>1. WalletPart \in [Orders -> Nat] BY Parts
    <3> HIDE DEF U
    <3>2. SumFunctionOnSet(WalletPart, U \union {o}) = WalletPart[o] + SumFunctionOnSet(WalletPart, U)
      BY <2>1, <2>2, <3>1, PartSum
    <3> QED BY <1>6, <2>1, <2>2, <3>2 DEF Wallet
  <2>4. Wallet(Undebited)' = SumFunctionOnSet(WalletPart, U)
    <3>1. \A p \in U : p \in Open BY DEF Undebited
    <3> HIDE DEF U
    <3> QED BY <1>3, <2>1, <2>2, <3>1, Parts
  <2> HIDE DEF U
  <2>5. SumFunctionOnSet(WalletPart, U) \in Nat BY <2>2, Parts, PartSum
  <2>6. order[o].wallet \in Nat BY <1>6, <2>1
  <2> QED BY <1>2, <1>9, <2>3, <2>4, <2>5, <2>6
<1>10. ASSUME NEW o \in Open, balance' = balance + order[o].wallet
       PROVE  /\ balance <= balance'
              /\ balance - Wallet(Undebited) <= balance' - Wallet(Undebited)'
  <2>1. order[o].wallet \in Nat BY <1>1, <1>6, LatestRow
  <2> QED BY <1>2, <1>5, <1>10, <2>1
<1>11. ASSUME NEW delta \in {Step, -Step}, AdjustWallet(delta)
       PROVE  \/ /\ balance <= balance'
                 /\ balance - Wallet(Undebited) <= balance' - Wallet(Undebited)'
              \/ ~InCheckout /\ delta < 0
  <2>1. balance' = balance + delta BY <1>11 DEF AdjustWallet
  <2>2. delta < 0 => ~InCheckout BY <1>11 DEF AdjustWallet, Beside
  <2> QED BY <1>2, <1>5, <2>1, <2>2
<1> QED BY <1>2, <1>5, <1>7, <1>8, <1>9, <1>10, <1>11, MoneyChange DEF InCheckout

\* While a checkout is open and its handler waits, or only reads, no row is added.
LEMMA NoRowAdded ==
  ASSUME CheckoutInv, [Next]_vars, InCheckout, "deadline" \notin raced',
         UNCHANGED handler \/ rows' = rows
  PROVE  Open' \subseteq Open
<1>1. CheckoutTypeOK /\ InTurn BY DEF CheckoutInv
<1>2. CASE rows' = rows BY <1>2 DEF Open
<1>3. ASSUME NEW o, Drop(o) PROVE Open' \subseteq Open BY <1>1, <1>3, Dropped
<1>4. ~(StoreRow /\ rows' = Append(rows, cur) /\ at' \in {"idle", "delivering"}) \/ rows' = rows
  BY DEF StoreRow, handler
<1>5. \A o \in thread : LinkStored(o) => rows' = rows
  BY <1>1, RacedGrows DEF LinkStored, InTurn, handler, Idle
<1> QED BY <1>2, <1>3, <1>4, <1>5, RowsChange

\* Every step keeps what an open checkout is about to take in the wallet.
LEMMA CoveredStep == ASSUME CheckoutInv, [Next]_vars PROVE Covered'
<1> SUFFICES ASSUME raced' \cap {"deadline", "decrease", "debit", "release"} = {}
             PROVE  /\ at' = "balance" => seen' <= balance'
                    /\ at' \in {"priced", "link"} =>
                           order'[cur'].wallet + Wallet(Undebited)' <= balance'
  BY DEF Covered
<1>1. CheckoutTypeOK /\ HandlerOK /\ InTurn BY DEF CheckoutInv
<1>2. /\ at = "balance" => seen <= balance
      /\ at \in {"priced", "link"} => order[cur].wallet + Wallet(Undebited) <= balance
      /\ Wallet(Undebited) <= balance
  BY RacedGrows DEF CheckoutInv, Covered, ReservationsCovered, Undebited
<1>3. balance \in Int /\ balance' \in Int /\ seen \in Int
  BY CheckoutAssumption, TypeStep DEF CheckoutInv, CheckoutTypeOK
<1>4. InCheckout' => InCheckout \/ at' = "started"
  BY CheckoutGoesOn DEF InCheckout, StartOrder, ReadBalance, Price, RequestLink
<1>5. ASSUME InCheckout,
             UNCHANGED handler \/ rows' = rows
      PROVE  /\ Wallet(Undebited)' \in Nat /\ Wallet(Undebited)' <= Wallet(Undebited)
             /\ at = "balance" => balance <= balance'
             /\ balance - Wallet(Undebited) <= balance' - Wallet(Undebited)'
  BY <1>5, NoRowAdded, Slack
<1>6. Wallet(Undebited) \in Nat /\ Reserved \in Nat /\ Wallet(Undebited) <= Reserved
  BY Reserving
<1>7. ASSUME at' = "balance" PROVE seen' <= balance'
  <2>1. CASE ReadBalance BY <1>3, <2>1 DEF ReadBalance, money
  <2>2. CASE InCheckout /\ UNCHANGED handler
    BY <1>2, <1>3, <1>5, <1>7, <2>2 DEF handler
  <2> QED BY <1>7, <2>1, <2>2, CheckoutGoesOn DEF InCheckout, StartOrder, Price, RequestLink
<1>8. ASSUME at' \in {"priced", "link"}
      PROVE  order'[cur'].wallet + Wallet(Undebited)' <= balance'
  <2>1. CASE Price
    <3>1. InCheckout /\ rows' = rows /\ balance' = balance /\ cur' = cur /\ at = "balance"
      BY <2>1 DEF Price, InCheckout, money
    <3>2. /\ order'[cur].wallet \in Nat
          /\ order'[cur].wallet > 0 => order'[cur].wallet <= seen - Reserved
      BY <2>1, Priced
    <3> QED BY <1>2, <1>3, <1>5, <1>6, <3>1, <3>2
  <2>2. CASE RequestLink
    <3>1. InCheckout /\ rows' = rows /\ balance' = balance /\ cur' = cur
          /\ order' = order /\ at = "priced"
      BY <2>2 DEF RequestLink, InCheckout, money
    <3>2. order[cur].wallet \in Int
      BY <1>1, <3>1, Parts DEF HandlerOK, InCheckout
    <3> QED BY <1>2, <1>3, <1>5, <1>6, <3>1, <3>2
  <2>3. CASE InCheckout /\ UNCHANGED handler
    <3>1. cur \in Orders /\ at' = at /\ cur' = cur BY <1>1, <2>3 DEF HandlerOK, InCheckout, handler
    <3>2. order'[cur] = order[cur]
      BY <1>1, <1>8, <2>3, <3>1, OrderWritten, RacedGrows
      DEF ReadBalance, Price, LinkRefused, Crash, Idle, InCheckout, handler, InTurn, Started
    <3>3. order[cur].wallet \in Int BY <3>1, Parts
    <3> QED BY <1>2, <1>3, <1>5, <1>6, <1>8, <2>3, <3>1, <3>2, <3>3
  <2> QED BY <1>8, <2>1, <2>2, <2>3, CheckoutGoesOn DEF InCheckout, StartOrder, ReadBalance
<1> QED BY <1>7, <1>8

\* Every step keeps what the open orders count on in the wallet.
LEMMA ReservationsStep == ASSUME CheckoutInv, [Next]_vars PROVE ReservationsCovered'
<1> SUFFICES ASSUME raced' \cap {"deadline", "decrease", "debit", "release"} = {}
             PROVE  Wallet(Undebited)' <= balance'
  BY DEF ReservationsCovered, Undebited
<1>1. CheckoutTypeOK /\ HandlerOK /\ InTurn BY DEF CheckoutInv
<1>2. /\ at \in {"priced", "link"} => order[cur].wallet + Wallet(Undebited) <= balance
      /\ Wallet(Undebited) <= balance
  BY RacedGrows DEF CheckoutInv, Covered, ReservationsCovered, Undebited
<1>3. balance \in Int /\ balance' \in Int
  BY CheckoutAssumption, TypeStep DEF CheckoutInv, CheckoutTypeOK
<1>4. Wallet(Undebited)' = SumFunctionOnSet(WalletPart', Undebited') BY DEF Wallet
<1>5. /\ Undebited \in SUBSET Orders /\ Wallet(Undebited) \in Nat
      /\ Reserved \in Nat /\ Wallet(Undebited) <= Reserved
  BY Reserving
<1>7. ASSUME Open' \subseteq Open PROVE Wallet(Undebited)' <= balance'
  <2>1. CASE balance - Wallet(Undebited) <= balance' - Wallet(Undebited)'
    BY <1>2, <1>3, <1>5, <1>7, <2>1, Slack
  <2>2. ASSUME NEW delta \in {Step, -Step}, delta < 0, AdjustWallet(delta)
        PROVE  Wallet(Undebited)' <= balance'
    <3>1. balance' >= Reserved BY <2>2 DEF AdjustWallet
    <3> QED BY <1>3, <1>5, <1>7, <3>1, Slack
  <2> QED BY <1>7, <2>1, <2>2, Slack
<1>8. ASSUME NEW o \in Orders, o = cur, at \in {"priced", "link"}, InCheckout, o \notin Open,
             rows' = Append(rows, o), order' = order, UNCHANGED money
      PROVE  Wallet(Undebited)' <= balance'
  <2>1. Untouched(o) BY <1>1, <1>8 DEF HandlerOK
  <2>2. Undebited' = Undebited \union {o} /\ o \notin Undebited
    <3>1. Open' = Open \union {o} BY <1>1, <1>8, Stored
    <3> QED BY <1>8, <2>1, <3>1 DEF Undebited, Untouched, Debited, money
  <2>3. WalletPart' = WalletPart BY <1>8 DEF WalletPart
  <2>4. Wallet(Undebited)' = order[o].wallet + Wallet(Undebited)
    <3>1. WalletPart \in [Orders -> Nat] /\ WalletPart[o] = order[o].wallet BY Parts
    <3>2. SumFunctionOnSet(WalletPart, Undebited \union {o})
            = WalletPart[o] + SumFunctionOnSet(WalletPart, Undebited)
      BY <1>5, <2>2, <3>1, PartSum
    <3> QED BY <1>4, <2>2, <2>3, <3>1, <3>2 DEF Wallet
  <2> QED BY <1>2, <1>8, <2>4 DEF money
<1>9. CASE rows' = rows BY <1>7, <1>9 DEF Open
<1>10. ASSUME NEW o, Drop(o) PROVE Wallet(Undebited)' <= balance'
  BY <1>1, <1>7, <1>10, Dropped
<1>11. CASE StoreRow /\ rows' = Append(rows, cur) /\ order' = order
  BY <1>8, <1>11, NewRow DEF StoreRow, InCheckout
<1>12. ASSUME NEW o \in thread, LinkStored(o) PROVE Wallet(Undebited)' <= balance'
  <2>1. o = cur /\ at = "link" BY <1>1, RacedGrows DEF InTurn
  <2> QED BY <1>8, <1>12, <2>1, NewRow DEF LinkStored, InCheckout
<1> QED BY <1>9, <1>10, <1>11, <1>12, RowsChange

-----------------------------------------------------------------------------
(* The theorems                                                            *)

\* Nothing is ordered at first.
LEMMA CheckoutInit == ASSUME Init PROVE CheckoutInv
<1> USE CheckoutAssumption DEF Init
<1>1. Open = {} BY DEF Open, ToSet
<1>2. CheckoutTypeOK
  <2>1. rows \in Seq(Orders) /\ IsInjective(rows) BY DEF IsInjective
  <2>2. order \in [Orders -> Order] BY OrderFields
  <2>3. adjusted \in Int /\ balance \in 0..MaxBalance /\ seen \in 0..MaxBalance OBVIOUS
  <2>4. /\ plan \in Prices /\ ledger \subseteq Orders \X {"debit", "refund"}
        /\ committed \subseteq Orders /\ authorized \subseteq Orders /\ paid \subseteq Orders
        /\ thread \subseteq Orders /\ told \subseteq Orders /\ served \subseteq Orders /\ booked \subseteq Orders
        /\ raced \subseteq {"deadline", "decrease", "debit", "release", "plan"}
    OBVIOUS
  <2>5. /\ at \in {"idle", "started", "balance", "priced", "link", "delivering",
                   "unpaid", "cancelled", "duplicates", "duplicate"}
        /\ cur \in Orders \union {0} /\ referral \in Orders \union {0}
        /\ stage \in [Orders -> {"none", "lock", "debit", "flag", "serve", "book", "pop"}]
    OBVIOUS
  <2>6. faults \in 0..MaxFaults /\ deadlines \in 0..MaxDeadlines /\ admin \in 0..MaxAdmin
    OBVIOUS
  <2> QED BY <2>1, <2>2, <2>3, <2>4, <2>5, <2>6 DEF CheckoutTypeOK
<1>3. OrdersOK /\ HandlerOK /\ AnsweredOK /\ StagesOK /\ FlagsOK /\ InTurn
  BY <1>1, Bounds DEF OrdersOK, Untouched, NoOrder, HandlerOK, AnsweredOK, Answered, InCheckout,
     StagesOK, FlagsOK, InTurn
<1>4. WalletAddsUp
  <2>1. Wallet({}) = 0 BY SumEmpty DEF Wallet
  <2>2. {o \in Orders : <<o, "debit">> \in ledger} = {} OBVIOUS
  <2>3. {o \in Orders : <<o, "refund">> \in ledger} = {} OBVIOUS
  <2>4. balance = FirstBalance /\ adjusted = 0 /\ balance \in Int OBVIOUS
  <2>5. Moved("debit") = 0 /\ Moved("refund") = 0 BY <2>1, <2>2, <2>3 DEF Moved
  <2> HIDE DEF Init
  <2> QED BY <2>4, <2>5 DEF WalletAddsUp
<1>5. ReservationsCovered /\ Covered
  <2>1. Wallet({}) = 0 BY SumEmpty DEF Wallet
  <2>2. {o \in Open : ~Debited(o)} = {} BY <1>1
  <2>3. 0 <= balance /\ at = "idle" OBVIOUS
  <2> HIDE DEF Init
  <2> QED BY <2>1, <2>2, <2>3 DEF ReservationsCovered, Covered
<1>6. ServedIsPaid /\ OneDiscount BY <1>1 DEF ServedIsPaid, OneDiscount
<1> QED BY <1>2, <1>3, <1>4, <1>5, <1>6 DEF CheckoutInv

\* Every reachable state satisfies the inductive invariant.
THEOREM CheckoutInvariant == Spec => []CheckoutInv
<1>1. Init => CheckoutInv BY CheckoutInit
<1>2. CheckoutInv /\ [Next]_vars => CheckoutInv'
  BY TypeStep, OrdersStep, HandlerStep, AnsweredStep, StagesStep, FlagsStep, InTurnStep, CoveredStep,
     WalletStep, ReservationsStep, ServedStep, OneDiscountStep
  DEF CheckoutInv
<1> QED BY <1>1, <1>2, PTL DEF Spec

\* Every variable of the orders has its type.
THEOREM CheckoutTypes == Spec => []CheckoutTypeOK
<1>1. CheckoutInv => CheckoutTypeOK BY DEF CheckoutInv
<1> QED BY <1>1, CheckoutInvariant, PTL

\* The wallet holds what came in less what the orders took
\* (_wallet_tx, wallet_order_debited).
THEOREM WalletBalance == Spec => []WalletAddsUp
<1>1. CheckoutInv => WalletAddsUp BY DEF CheckoutInv
<1> QED BY <1>1, CheckoutInvariant, PTL

\* The money every open order counts on is in the wallet, unless one of four
\* races happened: a decrease or a late link beside a checkout, a debit between
\* the two reads of wallet_available, or the release of an order authorized
\* meanwhile (wallet_available, admin_adjust_wallet, pop_pending).
THEOREM Reservations == Spec => []ReservationsCovered
<1>1. CheckoutInv => ReservationsCovered BY DEF CheckoutInv
<1> QED BY <1>1, CheckoutInvariant, PTL

\* An account is made or renewed only for an order whose parts were debited
\* and paid and make up its price (start_order_message, finalize_successful_order).
THEOREM Payment == Spec => []ServedIsPaid
<1>1. CheckoutInv => ServedIsPaid BY DEF CheckoutInv
<1> QED BY <1>1, CheckoutInvariant, PTL

\* The referral discount is given once (the first-purchase lock of
\* start_order_message, mark_referral_used).
THEOREM Discounts == Spec => []OneDiscount
<1>1. CheckoutInv => OneDiscount BY DEF CheckoutInv
<1> QED BY <1>1, CheckoutInvariant, PTL

\* The row of an authorized order leaves only when the order is booked, or by a
\* release whose question is older than the authorization; none begins on an
\* authorized order (verify_latest, verify_cmd, the releases, pop_pending,
\* finalize_successful_order).
THEOREM AuthorizedRows == Spec => AuthorizedStays
<1>1. CheckoutInv /\ [Next]_vars =>
         [\A o \in authorized :
              /\ (o \in Open /\ o \notin ToSet(rows')) => o \in booked \/ Answered(o)
              /\ Answered(o)' => Answered(o)]_vars
  <2> SUFFICES ASSUME CheckoutInv, [Next]_vars, NEW o \in authorized
               PROVE  /\ (o \in Open /\ o \notin ToSet(rows')) => o \in booked \/ Answered(o)
                      /\ Answered(o)' => Answered(o)
    OBVIOUS
  <2>1. ASSUME o \in Open, o \notin ToSet(rows') PROVE o \in booked \/ Answered(o)
    BY <2>1, RowLeaves DEF Open
  <2>2. ASSUME Answered(o)' PROVE Answered(o)
    <3>1. o \in paid BY DEF CheckoutInv, FlagsOK
    <3> QED BY <2>2, <3>1, AnswerAsked DEF Unpaid
  <2> QED BY <2>1, <2>2
<1> QED BY <1>1, CheckoutInvariant, PTL DEF Spec, AuthorizedStays
=============================================================================
