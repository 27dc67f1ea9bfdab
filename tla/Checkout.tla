------------------------------ MODULE Checkout ------------------------------
(***************************************************************************)
(* Several orders of one customer: what start_order_message reserves,      *)
(* prices and writes, and what becomes of the rows.                        *)
(*                                                                         *)
(* The customer's own updates come one after the other, but three things   *)
(* run beside them: the thread of a create_payment call whose deadline has *)
(* passed and that still stores its row, the administrator (wallet, plans, *)
(* card receipts, and /verify and the release of any open order), and a    *)
(* crash.  The delivery itself is OrderDelivery's subject; here it is the  *)
(* few transactions that touch money and rows.                             *)
(***************************************************************************)
EXTENDS Integers, Sequences, FiniteSetsExt, SequencesExt

CONSTANTS
    MaxOrders,      (* bound: orders the customer starts                   *)
    Prices,         (* the prices the plan may have                        *)
    FirstPrice,     (* its price at the start                              *)
    Discount,       (* what a referral code takes off                      *)
    FirstBalance,   (* the wallet at the start                             *)
    Step,           (* what the administrator adds or takes                *)
    MaxBalance,     (* MAX_WALLET_BALANCE_TOMAN                            *)
    MaxFaults, MaxDeadlines, MaxAdmin   (* bounds on what happens beside   *)

ASSUME CheckoutAssumption ==
    /\ MaxOrders \in Nat \ {0}
    /\ IsFiniteSet(Prices) /\ Prices \subseteq Nat \ {0} /\ FirstPrice \in Prices
    /\ Discount \in Nat /\ \A p \in Prices : Discount < p
    /\ FirstBalance \in 0..MaxBalance /\ Step \in Nat \ {0} /\ MaxBalance \in Nat
    /\ MaxFaults \in Nat /\ MaxDeadlines \in Nat /\ MaxAdmin \in Nat

VARIABLES
    balance,     \* wallets.balance_toman
    ledger,      \* wallet_transactions of orders: <<order, "debit" | "refund">>
    adjusted,    \* the sum of the administrator's adjustments
    plan,        \* the price in the plan registry
    rows,        \* open pending rows, oldest first
    order,       \* for each order, what its row says
    committed,   \* rows with wallet_committed
    authorized,  \* rows with payment_authorized
    paid,        \* gateway orders the customer has paid (ghost of the gateway)
    thread,      \* orders whose create_payment call still runs
    at, cur,     \* the customer's handler: what it awaits, and for which order
    seen,        \* the balance the handler has read
    told,        \* orders the gateway has told the administrator are unpaid
    stage,       \* for each order, where its delivery is
    served,      \* orders whose account has been made or renewed
    booked,      \* orders whose bookkeeping is complete
    referral,    \* referrals.used_order_id; 0: none
    raced,       \* what has gone on beside an open checkout (ghost)
    faults, deadlines, admin

money == <<balance, ledger, adjusted>>
flags == <<committed, authorized, paid>>
handler == <<at, cur, seen>>
outcome == <<served, booked, referral>>
bounds == <<faults, deadlines, admin>>
vars == <<money, plan, rows, order, flags, thread, handler, told, stage, outcome, raced, bounds>>

Orders == 1..MaxOrders
Kinds == {"wallet", "gateway", "card"}
NoOrder == [kind |-> "none", wallet |-> 0, gateway |-> 0, discount |-> 0,
            first |-> FALSE, buy |-> FALSE, base |-> 0, snapshot |-> 0]
Order == [kind : Kinds \union {"none"}, wallet : 0..MaxBalance, gateway : 0..Max(Prices),
          discount : {0, Discount}, first : BOOLEAN, buy : BOOLEAN,
          base : Prices \union {0}, snapshot : Prices \union {0}]

Open == ToSet(rows)
Drop(o) == rows' = RemoveFirst(rows, o)
\* latest_pending_for_user, pending_first_purchase_for_user
Latest == IF rows = << >> THEN 0 ELSE Last(rows)
LatestFirst == LET i == SelectLastInSeq(rows, LAMBDA o : order[o].first)
               IN  IF i = 0 THEN 0 ELSE rows[i]
KindOf(o) == IF o = 0 THEN "none" ELSE order[o].kind
\* pending_plan_is_stale: the snapshot differs from the plan.
Stale(o) == order[o].snapshot # plan
\* has_completed_purchase
HasPurchase == \E o \in booked : order[o].buy
Debited(o) == <<o, "debit">> \in ledger
InCheckout == at \in {"started", "balance", "priced", "link"}
Started == {o \in Orders : order[o] # NoOrder \/ (InCheckout /\ cur = o)}

\* What orders take from the wallet, each of them and some together.
WalletPart == [o \in Orders |-> order[o].wallet]
Wallet(S) == SumFunctionOnSet(WalletPart, S)
\* reserved_wallet_for_user: the rows not marked as committed.
Reserved == Wallet(Open \ committed)

-----------------------------------------------------------------------------
Init ==
    /\ balance = FirstBalance /\ ledger = {} /\ adjusted = 0
    /\ plan = FirstPrice
    /\ rows = << >>
    /\ order = [o \in Orders |-> NoOrder]
    /\ committed = {} /\ authorized = {} /\ paid = {}
    /\ thread = {}
    /\ at = "idle" /\ cur = 0 /\ seen = 0
    /\ told = {}
    /\ stage = [o \in Orders |-> "none"]
    /\ served = {} /\ booked = {} /\ referral = 0
    /\ raced = {}
    /\ faults = 0 /\ deadlines = 0 /\ admin = 0

Idle == at' = "idle" /\ cur' = 0 /\ seen' = 0

\* _deliver_verified_pending waits for the lock of the order.
Deliver(o) == stage' = [stage EXCEPT ![o] = "lock"]

(***************************************************************************)
(* start_order_message, await by await                                     *)
(***************************************************************************)

\* Mutant: an open first purchase does not come first.
StartUnlocked(o, buy, code) ==
    LET first == buy /\ ~HasPurchase IN
    /\ at = "idle"
    /\ o \notin Started /\ \A p \in Orders : p < o => p \in Started
    /\ KindOf(Latest) \notin {"wallet", "card"}
    /\ code => first /\ referral = 0
    /\ order' = [order EXCEPT ![o] =
                    [NoOrder EXCEPT !.first = first, !.buy = buy, !.snapshot = plan,
                                    !.discount = IF code THEN Discount ELSE 0]]
    /\ at' = "started" /\ cur' = o /\ seen' = 0
    /\ UNCHANGED <<money, plan, rows, flags, thread, told, stage, outcome,
                   raced, bounds>>

\* A local or card order that is open comes first; so does an open first
\* purchase, unless its plan has changed (Reconcile).  A referral code needs
\* a first purchase and an unused referral.  The plan is photographed here.
StartOrder(o, buy, code) ==
    LET first == buy /\ ~HasPurchase IN
    /\ at = "idle"
    /\ o \notin Started /\ \A p \in Orders : p < o => p \in Started
    /\ KindOf(Latest) \notin {"wallet", "card"}
    /\ code => first /\ referral = 0
    /\ first => LatestFirst = 0
    /\ order' = [order EXCEPT ![o] =
                    [NoOrder EXCEPT !.first = first, !.buy = buy, !.snapshot = plan,
                                    !.discount = IF code THEN Discount ELSE 0]]
    /\ at' = "started" /\ cur' = o /\ seen' = 0
    /\ UNCHANGED <<money, plan, rows, flags, thread, told, stage, outcome,
                   raced, bounds>>

\* order_price_breakdown reads the price again, then the balance ...
ReadBalance ==
    /\ at = "started"
    /\ order' = [order EXCEPT ![cur].base = plan]
    /\ seen' = balance
    /\ at' = "balance"
    /\ UNCHANGED <<money, plan, rows, flags, thread, cur, told, stage, outcome,
                   raced, bounds>>

\* Mutant: what open orders reserve is not subtracted.
AvailableUnreserved == seen

\* Mutant: a balance below what is reserved is not floored.
AvailableRaw == seen - Reserved

\* wallet_available: two reads on two connections.
Available == IF seen > Reserved THEN seen - Reserved ELSE 0

\* ... then the reservations; the rest goes to a gateway the customer picks.
Price ==
    LET due == order[cur].base - order[cur].discount
        used == Min({Available, due}) IN
    /\ at = "balance"
    /\ \E kind \in IF used = due THEN {"wallet"} ELSE {"gateway", "card"} :
           order' = [order EXCEPT ![cur].wallet = used, ![cur].gateway = due - used,
                                  ![cur].kind = kind]
    /\ at' = "priced"
    /\ UNCHANGED <<money, plan, rows, flags, thread, cur, seen, told, stage,
                   outcome, raced, bounds>>

\* add_pending of a wallet order, which is delivered at once, or
\* create_card_transfer_request; a second active card request is refused.
StoreRow ==
    /\ at = "priced"
    /\ KindOf(cur) \in {"wallet", "card"}
    /\ IF KindOf(cur) = "card" /\ \E o \in Open : KindOf(o) = "card"
         THEN order' = [order EXCEPT ![cur] = NoOrder] /\ UNCHANGED <<rows, stage>> /\ Idle
         ELSE /\ rows' = Append(rows, cur)
              /\ UNCHANGED order
              /\ IF KindOf(cur) = "wallet"
                   THEN /\ Deliver(cur)
                        /\ at' = "delivering" /\ UNCHANGED <<cur, seen>>
                   ELSE Idle /\ UNCHANGED stage
    /\ UNCHANGED <<money, plan, flags, thread, told, outcome, raced, bounds>>

\* run_zarinpal(create_payment): a thread asks the gateway for a link.
RequestLink ==
    /\ at = "priced"
    /\ KindOf(cur) = "gateway"
    /\ thread' = thread \union {cur}
    /\ at' = "link"
    /\ UNCHANGED <<money, plan, rows, order, flags, cur, seen, told, stage,
                   outcome, raced, bounds>>

\* The thread has its authority and stores the row, whether its handler
\* still waits or not; the row's time is that of the gateway's answer.
LinkStored(o) ==
    /\ o \in thread
    /\ thread' = thread \ {o}
    /\ rows' = Append(rows, o)
    /\ IF at = "link" /\ cur = o THEN Idle ELSE UNCHANGED handler
    /\ UNCHANGED <<money, plan, order, flags, told, stage, outcome, raced,
                   bounds>>

\* The gateway refuses, and nothing is stored.
LinkRefused(o) ==
    /\ o \in thread
    /\ thread' = thread \ {o}
    /\ order' = [order EXCEPT ![o] = NoOrder]
    /\ IF at = "link" /\ cur = o THEN Idle ELSE UNCHANGED handler
    /\ UNCHANGED <<money, plan, rows, flags, told, stage, outcome, raced,
                   bounds>>

\* The deadline passes: the customer is told it failed, the thread goes on.
LinkDeadline ==
    /\ at = "link"
    /\ deadlines < MaxDeadlines
    /\ deadlines' = deadlines + 1
    /\ raced' = raced \union {"deadline"}
    /\ Idle
    /\ UNCHANGED <<money, plan, rows, order, flags, thread, told, stage,
                   outcome, faults, admin>>

-----------------------------------------------------------------------------
\* The customer pays at the gateway, or sends a receipt for a card order.
Pay(o) ==
    /\ o \in Open \ paid
    /\ KindOf(o) \in {"gateway", "card"}
    /\ paid' = paid \union {o}
    /\ UNCHANGED <<money, plan, rows, order, committed, authorized, thread,
                   handler, told, stage, outcome, raced, bounds>>

\* Mutant: the gateway is not asked.
VerifyTrusting(o) ==
    /\ o \in Open /\ stage[o] = "none"
    /\ KindOf(o) \in {"gateway", "wallet"}
    /\ authorized' = authorized \union {o}
    /\ Deliver(o)

\* A local order goes on; a gateway order the gateway says is paid is
\* authorized and delivered, whatever its plan is now.
Verify(o) ==
    /\ o \in Open /\ stage[o] = "none"
    /\ \/ KindOf(o) = "wallet" /\ UNCHANGED authorized
       \/ KindOf(o) = "gateway" /\ o \in paid /\ authorized' = authorized \union {o}
    /\ Deliver(o)

\* The customer's own: verify_latest, cancel_latest_payment of a paid order,
\* reconcile_stale_pending, and verify_cmd, which takes any order of theirs.
Check(o) ==
    /\ at = "idle"
    /\ Verify(o)
    /\ at' = "delivering" /\ cur' = o /\ seen' = 0
    /\ UNCHANGED <<money, plan, rows, order, committed, paid, thread, told,
                   outcome, raced, bounds>>

\* The gateway says of a row that it is unpaid.
Unpaid(o) == o \in Open /\ KindOf(o) = "gateway" /\ o \notin paid

\* The row of an order that was found unpaid goes, under no lock and
\* whatever has become of the order since.
Release(o) ==
    /\ Drop(o)
    /\ raced' = IF o \in Open \cap authorized THEN raced \union {"release"} ELSE raced

\* The gateway says unpaid.  The row goes if the customer cancels the latest
\* order, or if its plan has changed (verify_latest, verify_cmd, and
\* reconcile_stale_pending for a first purchase in the way of a new one).
FindUnpaid(o) ==
    /\ at = "idle"
    /\ Unpaid(o)
    /\ o = Latest \/ Stale(o)
    /\ at' = "unpaid" /\ cur' = o /\ seen' = 0
    /\ UNCHANGED <<money, plan, rows, order, flags, thread, told, stage,
                   outcome, raced, bounds>>

\* After the cancellation of a first purchase the others are looked through.
Cancelled(o) == /\ order[o].first
                /\ at' = "duplicates" /\ cur' = 0 /\ seen' = 0

\* pop_pending of a row found unpaid, cancelled or stale.
ReleaseUnpaid ==
    /\ at = "unpaid"
    /\ Release(cur)
    /\ Idle \/ Cancelled(cur)
    /\ UNCHANGED <<money, plan, order, flags, thread, told, stage, outcome,
                   bounds>>

\* _cleanup_duplicate_unpaid_first_purchase_pendings: the gateway says of
\* another first purchase that it is unpaid ...
FindDuplicate(o) ==
    /\ at = "duplicates"
    /\ Unpaid(o) /\ order[o].first /\ o \notin committed
    /\ at' = "duplicate" /\ cur' = o /\ seen' = 0
    /\ UNCHANGED <<money, plan, rows, order, flags, thread, told, stage,
                   outcome, raced, bounds>>

\* ... and its row goes.
ReleaseDuplicate ==
    /\ at = "duplicate"
    /\ Release(cur)
    /\ Cancelled(cur)
    /\ UNCHANGED <<money, plan, order, flags, thread, told, stage, outcome,
                   bounds>>

\* The others are not first purchases, or paid, or the gateway does not say.
EndDuplicates ==
    /\ at = "duplicates"
    /\ Idle
    /\ UNCHANGED <<money, plan, rows, order, flags, thread, told, stage,
                   outcome, raced, bounds>>

\* cancel_card_transfer_request, before the receipt is decided.
CancelCard ==
    LET o == Latest IN
    /\ at = "idle" /\ KindOf(o) = "card" /\ o \notin authorized
    /\ Drop(o)
    /\ UNCHANGED <<money, plan, order, flags, thread, handler, told, stage,
                   outcome, raced, bounds>>

\* _cancel_local_pending, under the lock of the order: what was debited goes
\* back unless the account is there ...
CancelLocal ==
    LET o == Latest IN
    /\ at = "idle" /\ KindOf(o) = "wallet" /\ o \notin served
    /\ stage[o] \in {"none", "lock"}
    /\ IF Debited(o) /\ <<o, "refund">> \notin ledger
         THEN /\ balance + order[o].wallet <= MaxBalance
              /\ balance' = balance + order[o].wallet
              /\ ledger' = ledger \union {<<o, "refund">>}
         ELSE UNCHANGED <<balance, ledger>>
    /\ at' = "cancelled" /\ cur' = o /\ seen' = 0
    /\ UNCHANGED <<adjusted, plan, rows, order, flags, thread, told, stage,
                   outcome, raced, bounds>>

\* ... then the row.
DropCancelled ==
    /\ at = "cancelled"
    /\ Drop(cur)
    /\ IF order[cur].first THEN Cancelled(cur) ELSE Idle
    /\ UNCHANGED <<money, plan, order, flags, thread, told, stage, outcome,
                   raced, bounds>>

(***************************************************************************)
(* The delivery of an order, transaction by transaction                    *)
(***************************************************************************)

\* The handler behind a delivery is the customer's, or the administrator's.
Return(o) == IF at = "delivering" /\ cur = o THEN Idle ELSE UNCHANGED handler

\* The lock is there (_cancel_local_pending may hold it), and the row is read
\* once more: a delivery whose row has gone is none.
TakeUp(o) ==
    /\ stage[o] = "lock"
    /\ ~(at = "cancelled" /\ cur = o)
    /\ IF o \in Open
         THEN stage' = [stage EXCEPT ![o] = "debit"] /\ UNCHANGED handler
         ELSE stage' = [stage EXCEPT ![o] = "none"] /\ Return(o)
    /\ UNCHANGED <<money, plan, rows, order, flags, thread, told, outcome,
                   raced, bounds>>

\* wallet_available reads the balance, then the reservations: the debit of
\* another order may fall between the two.
Between == raced' = IF at = "balance" THEN raced \union {"debit"} ELSE raced

\* Mutant: the flag of the row, set after the debit, decides instead of the ledger.
DebitFlagged(o) ==
    /\ stage[o] = "debit"
    /\ IF order[o].wallet = 0 \/ o \in committed
         THEN /\ stage' = [stage EXCEPT ![o] = "serve"]
              /\ UNCHANGED <<balance, ledger, handler, raced>>
         ELSE IF balance >= order[o].wallet
         THEN /\ balance' = balance - order[o].wallet
              /\ ledger' = ledger \union {<<o, "debit">>}
              /\ stage' = [stage EXCEPT ![o] = "flag"]
              /\ Between
              /\ UNCHANGED handler
         ELSE /\ stage' = [stage EXCEPT ![o] = "none"]
              /\ Return(o)
              /\ UNCHANGED <<balance, ledger, raced>>
    /\ UNCHANGED <<adjusted, plan, rows, order, flags, thread, told, outcome,
                   bounds>>

\* debit_wallet: once for an order; refused when the money is not there.
Debit(o) ==
    /\ stage[o] = "debit"
    /\ IF order[o].wallet = 0 \/ o \in committed
         THEN /\ stage' = [stage EXCEPT ![o] = "serve"]
              /\ UNCHANGED <<balance, ledger, handler, raced>>
         ELSE IF Debited(o)
         THEN /\ stage' = [stage EXCEPT ![o] = "flag"]
              /\ UNCHANGED <<balance, ledger, handler, raced>>
         ELSE IF balance >= order[o].wallet
         THEN /\ balance' = balance - order[o].wallet
              /\ ledger' = ledger \union {<<o, "debit">>}
              /\ stage' = [stage EXCEPT ![o] = "flag"]
              /\ Between
              /\ UNCHANGED handler
         ELSE /\ stage' = [stage EXCEPT ![o] = "none"]
              /\ Return(o)
              /\ UNCHANGED <<balance, ledger, raced>>
    /\ UNCHANGED <<adjusted, plan, rows, order, flags, thread, told, outcome,
                   bounds>>

\* update_pending(wallet_committed=True), which does nothing to a row that
\* has gone.
Commit(o) ==
    /\ stage[o] = "flag"
    /\ committed' = committed \union ({o} \cap Open)
    /\ stage' = [stage EXCEPT ![o] = "serve"]
    /\ UNCHANGED <<money, plan, rows, order, authorized, paid, thread, handler,
                   told, outcome, raced, bounds>>

\* fulfill, once for an order.
Serve(o) ==
    /\ stage[o] = "serve"
    /\ served' = served \union {o}
    /\ stage' = [stage EXCEPT ![o] = "book"]
    /\ UNCHANGED <<money, plan, rows, order, flags, thread, handler, told,
                   booked, referral, raced, bounds>>

\* Mutant: the row goes even when its referral was used by another order.
BookOrPop(o) ==
    /\ stage[o] = "book"
    /\ IF order[o].discount > 0 /\ referral \notin {0, o}
         THEN UNCHANGED <<referral, booked>>
         ELSE /\ referral' = IF order[o].discount > 0 THEN o ELSE referral
              /\ booked' = booked \union {o}
    /\ stage' = [stage EXCEPT ![o] = "pop"]
    /\ UNCHANGED <<money, plan, rows, order, flags, thread, handler, told,
                   served, raced, bounds>>

\* finalize_successful_order: mark_referral_used raises when another order
\* has used the referral; the row then stays.
Book(o) ==
    /\ stage[o] = "book"
    /\ IF order[o].discount > 0 /\ referral \notin {0, o}
         THEN /\ stage' = [stage EXCEPT ![o] = "none"]
              /\ Return(o)
              /\ UNCHANGED <<referral, booked>>
         ELSE /\ referral' = IF order[o].discount > 0 THEN o ELSE referral
              /\ booked' = booked \union {o}
              /\ stage' = [stage EXCEPT ![o] = "pop"]
              /\ UNCHANGED handler
    /\ UNCHANGED <<money, plan, rows, order, flags, thread, told, served,
                   raced, bounds>>

Pop(o) ==
    /\ stage[o] = "pop"
    /\ Drop(o)
    /\ stage' = [stage EXCEPT ![o] = "none"]
    /\ Return(o)
    /\ UNCHANGED <<money, plan, order, flags, thread, told, outcome, raced,
                   bounds>>

\* A transaction, a panel or Telegram fails: the order is left where it is.
Fail(o) ==
    /\ stage[o] # "none"
    /\ faults < MaxFaults
    /\ faults' = faults + 1
    /\ stage' = [stage EXCEPT ![o] = "none"]
    /\ Return(o)
    /\ UNCHANGED <<money, plan, rows, order, flags, thread, told, outcome,
                   raced, deadlines, admin>>

-----------------------------------------------------------------------------
Beside(what) == raced' = IF InCheckout THEN raced \union {what} ELSE raced

\* The administrator's /verify of an open order, beside whatever the customer
\* is doing.
AdminVerify(o) ==
    /\ admin < MaxAdmin
    /\ admin' = admin + 1
    /\ Verify(o)
    /\ UNCHANGED <<money, plan, rows, order, committed, paid, thread, handler,
                   told, outcome, raced, faults, deadlines>>

\* The release of an order, or /verify of one whose plan has changed: the
\* gateway says unpaid ...
AdminFindUnpaid(o) ==
    /\ admin < MaxAdmin
    /\ admin' = admin + 1
    /\ Unpaid(o)
    /\ told' = told \union {o}
    /\ UNCHANGED <<money, plan, rows, order, flags, thread, handler, stage, outcome, raced,
                   faults, deadlines>>

\* ... and its row goes.
AdminRelease(o) ==
    /\ o \in told
    /\ told' = told \ {o}
    /\ Release(o)
    /\ UNCHANGED <<money, plan, order, flags, thread, handler, stage, outcome,
                   bounds>>

\* The administrator approves a receipt and the order is delivered, under the
\* lock of the order.
ApproveCard(o) ==
    /\ o \in Open \cap paid /\ KindOf(o) = "card" /\ stage[o] = "none"
    /\ authorized' = authorized \union {o}
    /\ stage' = [stage EXCEPT ![o] = "debit"]
    /\ UNCHANGED <<money, plan, rows, order, committed, paid, thread, handler,
                   told, outcome, raced, bounds>>

\* admin_adjust_wallet: a decrease leaves what open orders have reserved.
AdjustWallet(delta) ==
    /\ admin < MaxAdmin
    /\ admin' = admin + 1
    /\ balance + delta \in 0..MaxBalance
    /\ delta < 0 => balance + delta >= Reserved
    /\ balance' = balance + delta
    /\ adjusted' = adjusted + delta
    /\ IF delta < 0 THEN Beside("decrease") ELSE UNCHANGED raced
    /\ UNCHANGED <<ledger, plan, rows, order, flags, thread, handler, told,
                   stage, outcome, faults, deadlines>>

\* update_sale_plan
EditPlan(price) ==
    /\ admin < MaxAdmin
    /\ admin' = admin + 1
    /\ price # plan
    /\ plan' = price
    /\ Beside("plan")
    /\ UNCHANGED <<money, rows, order, flags, thread, handler, told, stage,
                   outcome, faults, deadlines>>

\* The process is restarted; an order that left no trace is forgotten.
Crash ==
    /\ faults < MaxFaults
    /\ faults' = faults + 1
    /\ order' = [o \in Orders |->
                    IF o \in Open \union served \union paid \/ Debited(o)
                      THEN order[o] ELSE NoOrder]
    /\ thread' = {} /\ told' = {}
    /\ stage' = [o \in Orders |-> "none"]
    /\ Idle
    /\ UNCHANGED <<money, plan, rows, flags, outcome, raced, deadlines, admin>>

Next ==
    \/ \E o \in Orders, buy, code \in BOOLEAN : StartOrder(o, buy, code)
    \/ ReadBalance \/ Price \/ StoreRow \/ RequestLink \/ LinkDeadline
    \/ ReleaseUnpaid \/ ReleaseDuplicate \/ EndDuplicates
    \/ CancelCard \/ CancelLocal \/ DropCancelled
    \/ \E o \in Orders :
           \/ LinkStored(o) \/ LinkRefused(o) \/ Pay(o)
           \/ Check(o) \/ FindUnpaid(o) \/ FindDuplicate(o)
           \/ TakeUp(o) \/ Debit(o) \/ Commit(o) \/ Serve(o) \/ Book(o) \/ Pop(o) \/ Fail(o)
           \/ AdminVerify(o) \/ AdminFindUnpaid(o) \/ AdminRelease(o) \/ ApproveCard(o)
    \/ \E delta \in {Step, -Step} : AdjustWallet(delta)
    \/ \E price \in Prices : EditPlan(price)
    \/ Crash

Spec == Init /\ [][Next]_vars

-----------------------------------------------------------------------------
CheckoutTypeOK ==
    /\ balance \in 0..MaxBalance
    /\ ledger \subseteq Orders \X {"debit", "refund"}
    /\ adjusted \in Int
    /\ plan \in Prices
    /\ rows \in Seq(Orders) /\ IsInjective(rows)
    /\ order \in [Orders -> Order]
    /\ committed \subseteq Orders /\ authorized \subseteq Orders /\ paid \subseteq Orders
    /\ thread \subseteq Orders
    /\ at \in {"idle", "started", "balance", "priced", "link", "delivering",
               "unpaid", "cancelled", "duplicates", "duplicate"}
    /\ cur \in Orders \union {0} /\ seen \in 0..MaxBalance
    /\ told \subseteq Orders
    /\ stage \in [Orders -> {"none", "lock", "debit", "flag", "serve", "book", "pop"}]
    /\ served \subseteq Orders /\ booked \subseteq Orders
    /\ referral \in Orders \union {0}
    /\ raced \subseteq {"deadline", "decrease", "debit", "release", "plan"}
    /\ faults \in 0..MaxFaults /\ deadlines \in 0..MaxDeadlines /\ admin \in 0..MaxAdmin

Moved(what) == Wallet({o \in Orders : <<o, what>> \in ledger})

(***************************************************************************)
(* The wallet holds what came in less what the orders took: no order is    *)
(* debited twice, through retries and through a crash between the debit    *)
(* and the flag on the row (_wallet_tx, wallet_order_debited).             *)
(***************************************************************************)
WalletAddsUp ==
    balance = FirstBalance + adjusted - Moved("debit") + Moved("refund")

(***************************************************************************)
(* The money every open order counts on is in the wallet, so that an order *)
(* paid at the gateway can also be debited.  Only four things break it,    *)
(* and each must have happened beside somebody's handler: a decrease by    *)
(* the administrator beside an open checkout, a payment link stored after  *)
(* its deadline, the debit of another order between the two reads of       *)
(* wallet_available, and the release, on an older answer of the gateway,   *)
(* of an order that was authorized meanwhile (its reservation goes while   *)
(* its delivery still takes the money).                                    *)
(***************************************************************************)
ReservationsCovered ==
    raced \cap {"deadline", "decrease", "debit", "release"} = {}
        => Wallet({o \in Open : ~Debited(o)}) <= balance

(***************************************************************************)
(* An account is made or renewed only for an order whose wallet part was   *)
(* debited and whose gateway part was paid, and the parts and the discount *)
(* make up the price of the package the order carries, unless the plan     *)
(* was edited between the two reads of the registry.                       *)
(***************************************************************************)
ServedIsPaid ==
    \A o \in served :
        /\ order[o].wallet > 0 => Debited(o)
        /\ order[o].gateway > 0 => o \in paid
        /\ order[o].wallet + order[o].gateway + order[o].discount = order[o].base
        /\ "plan" \notin raced => order[o].base = order[o].snapshot

(***************************************************************************)
(* The referral discount is given once: a customer has one first purchase  *)
(* open at a time (start_order_message, first-purchase lock), and where a  *)
(* link stored after its deadline gets around that, one discounted order   *)
(* at most is booked and the referral names it for good                    *)
(* (mark_referral_used).                                                   *)
(***************************************************************************)
OneDiscount ==
    /\ "deadline" \notin raced =>
           \A o, p \in Open : order[o].first /\ order[p].first => o = p
    /\ \A o \in booked : order[o].discount > 0 => referral = o

\* Somebody holds the answer that an order is unpaid and will drop its row.
Answered(o) == o \in told \/ (at \in {"unpaid", "duplicate"} /\ cur = o)

(***************************************************************************)
(* The row of an authorized order leaves only when the order is booked,    *)
(* and one whose bookkeeping is refused stays; or by a release whose       *)
(* question to the gateway is older than the authorization, for no release *)
(* begins on an authorized order.                                          *)
(***************************************************************************)
AuthorizedStays ==
    [][\A o \in authorized :
           /\ (o \in Open /\ o \notin ToSet(rows')) => o \in booked \/ Answered(o)
           /\ Answered(o)' => Answered(o)]_vars
=============================================================================
