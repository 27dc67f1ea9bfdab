---------------------------- MODULE OrderDelivery ----------------------------
(***************************************************************************)
(* The life of a financial order from the moment its pending row exists    *)
(* until that row is deleted: payment proof, wallet debit, the fulfillment *)
(* journal around the remote write, the bookkeeping after it, the Telegram *)
(* message, and the two ways of giving an order up (cancelling a local     *)
(* order, releasing an unpaid gateway order).                              *)
(*                                                                         *)
(* A handler is one Telegram update being processed: a coroutine that      *)
(* loses control at every await, so every storage transaction and every    *)
(* remote call is an action of its own, and pc names the await it stands   *)
(* at.  A crash kills every handler and every in-memory lock and leaves    *)
(* SQLite and the remote panel as they are.                                *)
(***************************************************************************)
EXTENDS Naturals, FiniteSets

CONSTANTS
    Orders,     \* identifiers of orders (order_id), each with its own pending row
    Handlers,   \* updates that can be in progress at the same time
    Services,   \* the services sold: a subset of {"openvpn", "v2ray"}
    Methods,    \* the payment kinds in use
    MaxFaults,  \* bound: failed calls and crashes in one behaviour
    NoHandler,  \* value of a free lock
    NoOrder     \* value of ord for an idle handler

LocalMethods == {"wallet", "owner", "reseller_debt"}

ASSUME ServicesAssumption == Services \subseteq {"openvpn", "v2ray"}
ASSUME MethodsAssumption ==
    Methods \subseteq LocalMethods \cup {"gateway", "card_transfer"}
ASSUME FaultsAssumption == MaxFaults \in Nat
ASSUME NoHandlerAssumption == NoHandler \notin Handlers
ASSUME NoOrderAssumption == NoOrder \notin Orders

VARIABLES
    payload,    \* what the customer orders; fixed when the row is written
    pending,    \* the pending_payments row: "unplaced", "open" or "gone"
    committed,  \* its wallet_committed flag
    authorized, \* its payment_authorized flag
    paid,       \* the payment gateway's own record: the customer has paid
    ledger,     \* wallet_transactions of the order: subset of {"debit", "refund"}
    journal,    \* fulfillments.state, "absent" when there is no row
    stale,      \* the journal row is older than two minutes
    remote,     \* the account on RouterOS or 3x-ui
    applied,    \* packages granted on the remote side for this order
    inflight,   \* the mutation ("write" or "assign") whose caller is gone
    books,      \* bookkeeping rows written for the order
    told,       \* Telegram accepted the delivery message
    lock,       \* ORDER_LOCKS, in memory
    pc,         \* the await each handler stands at
    ord,        \* the order each handler works on
    task,       \* why it does
    seen,       \* wallet_committed in the handler's own copy of the row
    ok,         \* bookkeeping_ok
    faults      \* failures so far

rowVars == <<payload, pending, committed, authorized>>
moneyVars == <<paid, ledger>>
journalVars == <<journal, stale>>
remoteVars == <<remote, applied, inflight>>
outcomeVars == <<books, told>>
memoryVars == <<lock, pc, ord, task, seen, ok>>
vars == <<rowVars, moneyVars, journalVars, remoteVars, outcomeVars, memoryVars, faults>>

-----------------------------------------------------------------------------
(* Data *)

\* The fields of pending_payments.payload_json the delivery reads. wallet: a
\* part of the price is taken from the wallet; referred: a referral code. And
\* one thing of the account it renews. depleted: expired or used up.
Payload ==
    { p \in [service : Services, action : {"buy", "renew"}, method : Methods,
             wallet : BOOLEAN, referred : BOOLEAN, depleted : BOOLEAN] :
        /\ p.method = "wallet" => p.wallet
        /\ p.method \in {"owner", "reseller_debt"} => ~p.wallet /\ ~p.referred
        /\ p.referred => p.action = "buy"
        /\ p.depleted => p.service = "v2ray" /\ p.action = "renew" }

JournalState ==
    {"absent", "prepared", "executing", "remote_done", "provisioned", "completed"}

\* Awaits before the order lock, then those under it, in the order of the code.
FreePc == {"idle", "authorize", "waiting", "release"}
DeliverPc == {"fresh", "commit", "flag", "fulfill", "lookup", "adopt", "unclaim", "prepare",
              "check", "claim", "write", "assign", "record", "hydrate", "save"}
BookPc == {"debt", "transaction", "referral", "purchase", "reward", "complete"}
CancelPc == {"inspect", "refund", "drop"}
LockedPc == DeliverPc \cup BookPc \cup {"send", "pop", "finish"} \cup CancelPc

IsLocal(o) == payload[o].method \in LocalMethods
IsBuy(o) == payload[o].action = "buy"
IsV2Ray(o) == payload[o].service = "v2ray"

\* The remote mutations a grant takes. OpenVPN: the user is added (or its old
\* profile removed), then the profile assigned. 3x-ui: one request, but for a
\* depleted account, whose traffic is reset before the new package is set.
TwoWrites(o) == ~IsV2Ray(o) \/ payload[o].depleted

\* Every row the bookkeeping of an order writes.
BooksOf(p) ==
    {"account", "transaction"}
    \cup (IF p.method = "reseller_debt" THEN {"debt"} ELSE {})
    \cup (IF p.action = "buy" THEN {"purchase"} ELSE {})
    \cup (IF p.referred THEN {"referral", "reward"} ELSE {})

\* A synthetic authority (wallet, owner, reseller debt) is authorized by its
\* row; any other needs the persisted flag (_assert_delivery_payment_authorized).
PaymentProof(o) == IsLocal(o) \/ authorized[o]

-----------------------------------------------------------------------------
(* Handlers *)

Goto(h, label) ==
    /\ pc' = [pc EXCEPT ![h] = label]
    /\ UNCHANGED <<lock, ord, task, seen, ok>>

\* A handler takes up an order.
Enter(h, o, label, why) ==
    /\ pc[h] = "idle"
    /\ pc' = [pc EXCEPT ![h] = label]
    /\ ord' = [ord EXCEPT ![h] = o]
    /\ task' = [task EXCEPT ![h] = why]
    /\ UNCHANGED <<lock, seen, ok>>

\* A handler returns or raises: the context manager frees the lock it holds.
Leave(h) ==
    /\ pc' = [pc EXCEPT ![h] = "idle"]
    /\ lock' = [o \in Orders |-> IF lock[o] = h THEN NoHandler ELSE lock[o]]
    /\ ord' = [ord EXCEPT ![h] = NoOrder]
    /\ task' = [task EXCEPT ![h] = "none"]
    /\ seen' = [seen EXCEPT ![h] = FALSE]
    /\ ok' = [ok EXCEPT ![h] = FALSE]

SetJournal(o, state) ==
    /\ journal' = [journal EXCEPT ![o] = state]
    /\ stale' = [stale EXCEPT ![o] = FALSE]

-----------------------------------------------------------------------------
(* Rows appear, customers pay *)

\* start_order_message writes the row of a local order before anything else,
\* then delivers it in the same update.
PlaceLocal(h, o) ==
    /\ IsLocal(o)
    /\ pending[o] = "unplaced"
    /\ pending' = [pending EXCEPT ![o] = "open"]
    /\ Enter(h, o, "waiting", "deliver")
    /\ UNCHANGED <<payload, committed, authorized, moneyVars, journalVars, remoteVars,
                   outcomeVars, faults>>

\* create_payment: the gateway hands out an authority and the row is written.
PlaceGateway(o) ==
    /\ payload[o].method = "gateway"
    /\ pending[o] = "unplaced"
    /\ pending' = [pending EXCEPT ![o] = "open"]
    /\ UNCHANGED <<payload, committed, authorized, moneyVars, journalVars, remoteVars,
                   outcomeVars, memoryVars, faults>>

\* The customer pays at the gateway; the bot learns of it only by asking.
Pay(o) ==
    /\ payload[o].method = "gateway"
    /\ pending[o] # "unplaced"
    /\ ~paid[o]
    /\ paid' = [paid EXCEPT ![o] = TRUE]
    /\ UNCHANGED <<rowVars, ledger, journalVars, remoteVars, outcomeVars, memoryVars, faults>>

\* Mutant: whatever verify answers counts as paid.
StartVerifyUnasked(h, o) ==
    /\ payload[o].method = "gateway"
    /\ pending[o] = "open"
    /\ Enter(h, o, "authorize", "deliver")
    /\ UNCHANGED <<rowVars, moneyVars, journalVars, remoteVars, outcomeVars, faults>>

\* "Payment made" on a gateway order: verify answers 100 or 101.
StartVerify(h, o) ==
    /\ payload[o].method = "gateway"
    /\ pending[o] = "open"
    /\ paid[o]
    /\ Enter(h, o, "authorize", "deliver")
    /\ UNCHANGED <<rowVars, moneyVars, journalVars, remoteVars, outcomeVars, faults>>

\* authorize_pending_payment raises when the row has disappeared meanwhile.
Authorize(h) ==
    LET o == ord[h] IN
    /\ pc[h] = "authorize"
    /\ IF pending[o] = "open"
         THEN authorized' = [authorized EXCEPT ![o] = TRUE] /\ Goto(h, "waiting")
         ELSE UNCHANGED authorized /\ Leave(h)
    /\ UNCHANGED <<payload, pending, committed, moneyVars, journalVars, remoteVars,
                   outcomeVars, faults>>

\* "Continue delivery", /verify, or a stale local order met by a new one.
StartDeliver(h, o) ==
    /\ IsLocal(o)
    /\ pending[o] = "open"
    /\ Enter(h, o, "waiting", "deliver")
    /\ UNCHANGED <<rowVars, moneyVars, journalVars, remoteVars, outcomeVars, faults>>

\* "Cancel" on a local order.
StartCancel(h, o) ==
    /\ IsLocal(o)
    /\ pending[o] = "open"
    /\ Enter(h, o, "waiting", "cancel")
    /\ UNCHANGED <<rowVars, moneyVars, journalVars, remoteVars, outcomeVars, faults>>

\* "Cancel" on a gateway order, the administrator's release, and the removal of
\* an order whose plan changed or that duplicates another first purchase: the
\* gateway says the authority is unpaid.
StartRelease(h, o) ==
    /\ payload[o].method = "gateway"
    /\ pending[o] = "open"
    /\ ~committed[o]
    /\ ~paid[o]
    /\ Enter(h, o, "release", "release")
    /\ UNCHANGED <<rowVars, moneyVars, journalVars, remoteVars, outcomeVars, faults>>

\* ... and then the row is deleted, under no lock and without looking again.
Release(h) ==
    LET o == ord[h] IN
    /\ pc[h] = "release"
    /\ pending' = [pending EXCEPT ![o] = "gone"]
    /\ Leave(h)
    /\ UNCHANGED <<payload, committed, authorized, moneyVars, journalVars, remoteVars,
                   outcomeVars, faults>>

-----------------------------------------------------------------------------
(* The order lock and the fresh read under it *)

\* Mutant: the wait for the lock is forgotten.
AcquireAtOnce(h) ==
    LET o == ord[h] IN
    /\ pc[h] = "waiting"
    /\ lock' = [lock EXCEPT ![o] = h]
    /\ pc' = [pc EXCEPT ![h] = "fresh"]
    /\ UNCHANGED <<ord, task, seen, ok>>
    /\ UNCHANGED <<rowVars, moneyVars, journalVars, remoteVars, outcomeVars, faults>>

Acquire(h) ==
    LET o == ord[h] IN
    /\ pc[h] = "waiting"
    /\ lock[o] = NoHandler
    /\ lock' = [lock EXCEPT ![o] = h]
    /\ pc' = [pc EXCEPT ![h] = "fresh"]
    /\ UNCHANGED <<ord, task, seen, ok>>
    /\ UNCHANGED <<rowVars, moneyVars, journalVars, remoteVars, outcomeVars, faults>>

\* get_pending under the lock: no row, nothing to do; no payment proof, raise.
\* An approval reads its row its own way (CardTransfer).
ReadFresh(h) ==
    LET o == ord[h] IN
    /\ pc[h] = "fresh"
    /\ task[h] \in {"deliver", "cancel"}
    /\ IF pending[o] # "open" \/ (task[h] = "deliver" /\ ~PaymentProof(o))
         THEN Leave(h)
         ELSE /\ pc' = [pc EXCEPT ![h] = IF task[h] = "cancel" THEN "inspect" ELSE "commit"]
              /\ seen' = [seen EXCEPT ![h] = committed[o]]
              /\ UNCHANGED <<lock, ord, task, ok>>
    /\ UNCHANGED <<rowVars, moneyVars, journalVars, remoteVars, outcomeVars, faults>>

-----------------------------------------------------------------------------
(* Delivery: the wallet *)

\* debit_wallet, idempotent by its transaction id; when the row already says
\* committed, wallet_order_debited looks for the debit in the ledger instead.
Commit(h) ==
    LET o == ord[h]
        due == payload[o].wallet
    IN
    /\ pc[h] = "commit"
    /\ IF due /\ seen[h] /\ "debit" \notin ledger[o]
         THEN Leave(h) /\ UNCHANGED ledger
         ELSE IF due /\ ~seen[h]
           THEN /\ ledger' = [ledger EXCEPT ![o] = @ \cup {"debit"}]
                /\ Goto(h, "flag")
           ELSE Goto(h, "fulfill") /\ UNCHANGED ledger
    /\ UNCHANGED <<rowVars, paid, journalVars, remoteVars, outcomeVars, faults>>

\* update_pending does nothing when the row has disappeared.
Flag(h) ==
    LET o == ord[h] IN
    /\ pc[h] = "flag"
    /\ committed' = [committed EXCEPT ![o] = (pending[o] = "open") \/ @]
    /\ Goto(h, "fulfill")
    /\ UNCHANGED <<payload, pending, authorized, moneyVars, journalVars, remoteVars,
                   outcomeVars, faults>>

-----------------------------------------------------------------------------
(* Delivery: fulfill *)

FirstBook(p) == IF p.method = "reseller_debt" THEN "debt" ELSE "transaction"

\* Mutant: interrupted renewals are retried like purchases.
ResumeRenewals(o) ==
    CASE journal[o] \in {"provisioned", "completed"} -> FirstBook(payload[o])
      [] journal[o] = "executing" ->
            IF ~stale[o] THEN "idle"
            ELSE IF IsBuy(o) /\ IsV2Ray(o) THEN "lookup" ELSE "unclaim"
      [] journal[o] = "absent" -> "prepare"
      [] journal[o] = "prepared" -> "check"
      [] journal[o] = "remote_done" -> "hydrate"

\* Mutant: an interrupted purchase stays interrupted.
ResumeNothing(o) ==
    CASE journal[o] \in {"provisioned", "completed"} -> FirstBook(payload[o])
      [] journal[o] = "executing" -> "idle"
      [] journal[o] = "absent" -> "prepare"
      [] journal[o] = "prepared" -> "check"
      [] journal[o] = "remote_done" -> "hydrate"

\* Where fulfill goes from the journal it has read: a stored result is
\* replayed; an interrupted purchase is examined once it is two minutes old;
\* an interrupted renewal, or a fresh one, raises ("idle").
Resume(o) ==
    CASE journal[o] \in {"provisioned", "completed"} -> FirstBook(payload[o])
      [] journal[o] = "executing" ->
            IF ~IsBuy(o) \/ ~stale[o] THEN "idle"
            ELSE IF IsV2Ray(o) THEN "lookup" ELSE "unclaim"
      [] journal[o] = "absent" -> "prepare"
      [] journal[o] = "prepared" -> "check"
      [] journal[o] = "remote_done" -> "hydrate"

ReadJournal(h) ==
    LET o == ord[h] IN
    /\ pc[h] = "fulfill"
    /\ IF Resume(o) = "idle" THEN Leave(h) ELSE Goto(h, Resume(o))
    /\ UNCHANGED <<rowVars, moneyVars, journalVars, remoteVars, outcomeVars, faults>>

\* Mutant: on 3x-ui too, nothing is asked.
LookupUnasked(h) ==
    /\ pc[h] = "lookup"
    /\ Goto(h, "unclaim")
    /\ UNCHANGED <<rowVars, moneyVars, journalVars, remoteVars, outcomeVars, faults>>

\* _recover_prepared_buy: the panel is asked whether the client exists. For
\* OpenVPN nothing is asked and the row goes straight back to prepared.
Lookup(h) ==
    LET o == ord[h] IN
    /\ pc[h] = "lookup"
    /\ Goto(h, IF remote[o] = "absent" THEN "unclaim" ELSE "adopt")
    /\ UNCHANGED <<rowVars, moneyVars, journalVars, remoteVars, outcomeVars, faults>>

\* mark_fulfillment_prepared: executing -> prepared only.
Unclaim(h) ==
    LET o == ord[h] IN
    /\ pc[h] = "unclaim"
    /\ IF journal[o] = "executing" THEN SetJournal(o, "prepared") ELSE UNCHANGED journalVars
    /\ Goto(h, "check")
    /\ UNCHANGED <<rowVars, moneyVars, remoteVars, outcomeVars, faults>>

\* prepare_fulfillment: INSERT OR IGNORE; an existing row keeps its state.
Prepare(h) ==
    LET o == ord[h] IN
    /\ pc[h] = "prepare"
    /\ IF journal[o] = "absent" THEN SetJournal(o, "prepared") ELSE UNCHANGED journalVars
    /\ Goto(h, "check")
    /\ UNCHANGED <<rowVars, moneyVars, remoteVars, outcomeVars, faults>>

\* Mutant: the account found on the panel is not recognised as this order's.
CheckNothing(h) ==
    /\ pc[h] = "check"
    /\ Goto(h, "claim")
    /\ UNCHANGED <<rowVars, moneyVars, journalVars, remoteVars, outcomeVars, faults>>

\* The reads before the write. A purchase whose account is already complete on
\* the panel under this order's identifier is adopted instead of written again.
Check(h) ==
    LET o == ord[h] IN
    /\ pc[h] = "check"
    /\ Goto(h, IF IsBuy(o) /\ remote[o] = "active" THEN "adopt" ELSE "claim")
    /\ UNCHANGED <<rowVars, moneyVars, journalVars, remoteVars, outcomeVars, faults>>

\* before_write: mark_fulfillment_executing succeeds from prepared alone.
Claim(h) ==
    LET o == ord[h] IN
    /\ pc[h] = "claim"
    /\ IF journal[o] = "prepared"
         THEN SetJournal(o, "executing") /\ Goto(h, "write")
         ELSE UNCHANGED journalVars /\ Leave(h)
    /\ UNCHANGED <<rowVars, moneyVars, remoteVars, outcomeVars, faults>>

\* One remote mutation: the first of two, or the one that grants the package.
Mutate(o, mutation) ==
    IF mutation = "write" /\ TwoWrites(o)
      THEN remote' = [remote EXCEPT ![o] = "partial"] /\ UNCHANGED applied
      ELSE /\ remote' = [remote EXCEPT ![o] = "active"]
           /\ applied' = [applied EXCEPT ![o] = @ + 1]

Write(h) ==
    /\ pc[h] \in {"write", "assign"}
    /\ Mutate(ord[h], pc[h])
    /\ UNCHANGED inflight
    /\ Goto(h, IF pc[h] = "write" /\ TwoWrites(ord[h]) THEN "assign" ELSE "record")
    /\ UNCHANGED <<rowVars, moneyVars, journalVars, outcomeVars, faults>>

\* Mutant: the row is set to a state its readers do not know.
RemoteDoneUnknown(h) ==
    LET o == ord[h] IN
    /\ pc[h] \in {"record", "adopt"}
    /\ SetJournal(o, "done")
    /\ Goto(h, "hydrate")
    /\ UNCHANGED <<rowVars, moneyVars, remoteVars, outcomeVars, faults>>

\* after_write and the call after it: mark_fulfillment_remote_done.
RemoteDone(h) ==
    LET o == ord[h] IN
    /\ pc[h] \in {"record", "adopt"}
    /\ IF journal[o] \in {"prepared", "executing", "remote_done"}
         THEN SetJournal(o, "remote_done") ELSE UNCHANGED journalVars
    /\ Goto(h, "hydrate")
    /\ UNCHANGED <<rowVars, moneyVars, remoteVars, outcomeVars, faults>>

\* The reads after the write (links, subscription, password), then the local
\* account row.
Hydrate(h) ==
    LET o == ord[h] IN
    /\ pc[h] = "hydrate"
    /\ books' = [books EXCEPT ![o] = @ \cup {"account"}]
    /\ Goto(h, "save")
    /\ UNCHANGED <<rowVars, moneyVars, journalVars, remoteVars, told, faults>>

\* mark_fulfillment_provisioned, or the result another handler stored.
Save(h) ==
    LET o == ord[h] IN
    /\ pc[h] = "save"
    /\ IF journal[o] \in {"remote_done", "provisioned"}
         THEN SetJournal(o, "provisioned") /\ Goto(h, FirstBook(payload[o]))
         ELSE /\ UNCHANGED journalVars
              /\ IF journal[o] = "completed" THEN Goto(h, FirstBook(payload[o])) ELSE Leave(h)
    /\ UNCHANGED <<rowVars, moneyVars, remoteVars, outcomeVars, faults>>

-----------------------------------------------------------------------------
(* Delivery: finalize_successful_order, the message, the end *)

\* One idempotent bookkeeping transaction (INSERT OR IGNORE, or keyed by tx_id).
Book(h, row, next) ==
    /\ pc[h] = row
    /\ books' = [books EXCEPT ![ord[h]] = @ \cup {row}]
    /\ Goto(h, next)
    /\ UNCHANGED <<rowVars, moneyVars, journalVars, remoteVars, told, faults>>

ChargeReseller(h) == Book(h, "debt", "transaction")

RecordTransaction(h) ==
    LET p == payload[ord[h]] IN
    Book(h, "transaction", IF p.action # "buy" THEN "complete"
                           ELSE IF p.referred THEN "referral" ELSE "purchase")

MarkReferralUsed(h) == Book(h, "referral", "purchase")

RecordPurchase(h) ==
    Book(h, "purchase", IF payload[ord[h]].referred THEN "reward" ELSE "complete")

CreditReward(h) == Book(h, "reward", "complete")

\* mark_fulfillment_completed; a refusal counts as failed bookkeeping.
Complete(h) ==
    LET o == ord[h]
        may == journal[o] \in {"provisioned", "completed"}
    IN
    /\ pc[h] = "complete"
    /\ IF may THEN SetJournal(o, "completed") ELSE UNCHANGED journalVars
    /\ ok' = [ok EXCEPT ![h] = may]
    /\ pc' = [pc EXCEPT ![h] = "send"]
    /\ UNCHANGED <<lock, ord, task, seen>>
    /\ UNCHANGED <<rowVars, moneyVars, remoteVars, outcomeVars, faults>>

\* Mutant: a failed step is skipped and the rest of the bookkeeping done.
BookSkips(h) ==
    /\ pc[h] \in BookPc
    /\ faults < MaxFaults
    /\ faults' = faults + 1
    /\ pc' = [pc EXCEPT ![h] = "complete"]
    /\ UNCHANGED <<lock, ord, task, seen, ok>>
    /\ UNCHANGED <<rowVars, moneyVars, journalVars, remoteVars, outcomeVars>>

\* An exception in the bookkeeping is caught: the account is handed over and
\* the row kept.
BookFails(h) ==
    /\ pc[h] \in BookPc
    /\ faults < MaxFaults
    /\ faults' = faults + 1
    /\ pc' = [pc EXCEPT ![h] = "send"]
    /\ UNCHANGED <<lock, ord, task, seen, ok>>
    /\ UNCHANGED <<rowVars, moneyVars, journalVars, remoteVars, outcomeVars>>

\* Mutant: the row goes even when the bookkeeping failed.
SendAnyway(h) ==
    LET o == ord[h] IN
    /\ pc[h] = "send"
    /\ told' = [told EXCEPT ![o] = TRUE]
    /\ Goto(h, IF task[h] = "approve" THEN "finish" ELSE "pop")
    /\ UNCHANGED <<rowVars, moneyVars, journalVars, remoteVars, books, faults>>

\* The Telegram message. Only complete bookkeeping lets the row go.
Send(h) ==
    LET o == ord[h] IN
    /\ pc[h] = "send"
    /\ told' = [told EXCEPT ![o] = TRUE]
    /\ IF ok[h] THEN Goto(h, IF task[h] = "approve" THEN "finish" ELSE "pop") ELSE Leave(h)
    /\ UNCHANGED <<rowVars, moneyVars, journalVars, remoteVars, books, faults>>

Pop(h) ==
    LET o == ord[h] IN
    /\ pc[h] = "pop"
    /\ pending' = [pending EXCEPT ![o] = "gone"]
    /\ Leave(h)
    /\ UNCHANGED <<payload, committed, authorized, moneyVars, journalVars, remoteVars,
                   outcomeVars, faults>>

-----------------------------------------------------------------------------
(* Cancelling a local order *)

\* Mutant: the flag of the row is believed instead of the ledger.
InspectFlag(h) ==
    LET o == ord[h] IN
    /\ pc[h] = "inspect"
    /\ IF journal[o] \in {"executing", "remote_done", "provisioned", "completed"}
         THEN Leave(h)
         ELSE Goto(h, IF payload[o].wallet /\ seen[h] THEN "refund" ELSE "drop")
    /\ UNCHANGED <<rowVars, moneyVars, journalVars, remoteVars, outcomeVars, faults>>

\* A started delivery is not cancellable; a debit is returned first.
Inspect(h) ==
    LET o == ord[h] IN
    /\ pc[h] = "inspect"
    /\ IF journal[o] \in {"executing", "remote_done", "provisioned", "completed"}
         THEN Leave(h)
         ELSE Goto(h, IF payload[o].wallet /\ "debit" \in ledger[o] THEN "refund" ELSE "drop")
    /\ UNCHANGED <<rowVars, moneyVars, journalVars, remoteVars, outcomeVars, faults>>

\* refund_wallet, idempotent by its own transaction id.
Refund(h) ==
    LET o == ord[h] IN
    /\ pc[h] = "refund"
    /\ ledger' = [ledger EXCEPT ![o] = @ \cup {"refund"}]
    /\ Goto(h, "drop")
    /\ UNCHANGED <<rowVars, paid, journalVars, remoteVars, outcomeVars, faults>>

Drop(h) ==
    LET o == ord[h] IN
    /\ pc[h] = "drop"
    /\ pending' = [pending EXCEPT ![o] = "gone"]
    /\ Leave(h)
    /\ UNCHANGED <<payload, committed, authorized, moneyVars, journalVars, remoteVars,
                   outcomeVars, faults>>

-----------------------------------------------------------------------------
(* Failures, crashes, time *)

\* A call raises without effect (a busy lane, SQLite, the network, Telegram,
\* too small a wallet) and the exception leaves the handler.
Fail(h) ==
    /\ pc[h] \notin {"idle", "waiting"} \cup BookPc
    /\ faults < MaxFaults
    /\ faults' = faults + 1
    /\ Leave(h)
    /\ UNCHANGED <<rowVars, moneyVars, journalVars, remoteVars, outcomeVars>>

\* A remote call raises (a timeout, a reset) although its request is under way.
WriteUnacknowledged(h) ==
    /\ pc[h] \in {"write", "assign"}
    /\ faults < MaxFaults
    /\ faults' = faults + 1
    /\ inflight' = [inflight EXCEPT ![ord[h]] = pc[h]]
    /\ Leave(h)
    /\ UNCHANGED <<rowVars, moneyVars, journalVars, remote, applied, outcomeVars>>

\* The panel executes a request whose caller is gone, or never gets it.
Land(o) ==
    /\ inflight[o] # "none"
    /\ Mutate(o, inflight[o])
    /\ inflight' = [inflight EXCEPT ![o] = "none"]
    /\ UNCHANGED <<rowVars, moneyVars, journalVars, outcomeVars, memoryVars, faults>>

Lose(o) ==
    /\ inflight[o] # "none"
    /\ inflight' = [inflight EXCEPT ![o] = "none"]
    /\ UNCHANGED <<rowVars, moneyVars, journalVars, remote, applied, outcomeVars, memoryVars,
                   faults>>

\* The watchdog's os._exit, or any death of the process, and its restart. A
\* request being written to the panel at that moment outlives the process.
Crash ==
    /\ faults < MaxFaults
    /\ faults' = faults + 1
    /\ pc' = [h \in Handlers |-> "idle"]
    /\ ord' = [h \in Handlers |-> NoOrder]
    /\ task' = [h \in Handlers |-> "none"]
    /\ seen' = [h \in Handlers |-> FALSE]
    /\ ok' = [h \in Handlers |-> FALSE]
    /\ lock' = [o \in Orders |-> NoHandler]
    /\ inflight' = [o \in Orders |->
                      IF \E h \in Handlers : ord[h] = o /\ pc[h] = "write" THEN "write"
                      ELSE IF \E h \in Handlers : ord[h] = o /\ pc[h] = "assign" THEN "assign"
                      ELSE inflight[o]]
    /\ UNCHANGED <<rowVars, moneyVars, journalVars, remote, applied, outcomeVars>>

\* A mutation of the order's account is being written to the panel, by a handler
\* or by nobody any more.
UnderWay(o) ==
    \/ inflight[o] # "none"
    \/ \E h \in Handlers : ord[h] = o /\ pc[h] \in {"write", "assign"}

\* Two minutes pass since the journal row of an order was written: longer than a
\* mutation can stay under way (the clients' timeouts are at most 60 seconds).
Age(o) ==
    /\ journal[o] = "executing"
    /\ ~stale[o]
    /\ ~UnderWay(o)
    /\ stale' = [stale EXCEPT ![o] = TRUE]
    /\ UNCHANGED <<rowVars, moneyVars, journal, remoteVars, outcomeVars, memoryVars, faults>>

-----------------------------------------------------------------------------
(* The specification *)

Init ==
    /\ payload \in [Orders -> Payload]
    /\ pending = [o \in Orders |-> "unplaced"]
    /\ committed = [o \in Orders |-> FALSE]
    /\ authorized = [o \in Orders |-> FALSE]
    /\ paid = [o \in Orders |-> FALSE]
    /\ ledger = [o \in Orders |-> {}]
    /\ journal = [o \in Orders |-> "absent"]
    /\ stale = [o \in Orders |-> FALSE]
    /\ remote = [o \in Orders |-> IF IsBuy(o) THEN "absent" ELSE "active"]
    /\ applied = [o \in Orders |-> 0]
    /\ inflight = [o \in Orders |-> "none"]
    /\ books = [o \in Orders |-> {}]
    /\ told = [o \in Orders |-> FALSE]
    /\ lock = [o \in Orders |-> NoHandler]
    /\ pc = [h \in Handlers |-> "idle"]
    /\ ord = [h \in Handlers |-> NoOrder]
    /\ task = [h \in Handlers |-> "none"]
    /\ seen = [h \in Handlers |-> FALSE]
    /\ ok = [h \in Handlers |-> FALSE]
    /\ faults = 0

\* A button or a command starts a handler.
Start(h) ==
    \E o \in Orders :
        PlaceLocal(h, o) \/ StartVerify(h, o) \/ StartDeliver(h, o)
        \/ StartCancel(h, o) \/ StartRelease(h, o)

\* A handler in progress runs to its next await.
Proceed(h) ==
    \/ Authorize(h) \/ Release(h) \/ ReadFresh(h)
    \/ Commit(h) \/ Flag(h)
    \/ ReadJournal(h) \/ Lookup(h) \/ Unclaim(h) \/ Prepare(h) \/ Check(h) \/ Claim(h)
    \/ Write(h) \/ RemoteDone(h) \/ Hydrate(h) \/ Save(h)
    \/ ChargeReseller(h) \/ RecordTransaction(h) \/ MarkReferralUsed(h)
    \/ RecordPurchase(h) \/ CreditReward(h) \/ Complete(h)
    \/ Send(h) \/ Pop(h)
    \/ Inspect(h) \/ Refund(h) \/ Drop(h)

Fault(h) == Fail(h) \/ BookFails(h) \/ WriteUnacknowledged(h)

Environment == Crash \/ \E o \in Orders : PlaceGateway(o) \/ Pay(o) \/ Age(o) \/ Land(o) \/ Lose(o)

Next ==
    \/ \E h \in Handlers : Start(h) \/ Acquire(h) \/ Proceed(h) \/ Fault(h)
    \/ Environment

Spec == Init /\ [][Next]_vars

\* The event loop runs every ready handler; asyncio.Lock wakes its waiters in
\* order of arrival; time passes; and the owner of an open order (or the
\* administrator with /verify) keeps asking for its delivery.
Fairness ==
    /\ \A h \in Handlers : WF_vars(Proceed(h)) /\ SF_vars(Acquire(h))
    /\ \A o \in Orders :
        /\ WF_vars(Age(o)) /\ WF_vars(Land(o) \/ Lose(o))
        /\ SF_vars(\E h \in Handlers : StartDeliver(h, o))
        /\ SF_vars(\E h \in Handlers : StartVerify(h, o))

FairSpec == Spec /\ Fairness

-----------------------------------------------------------------------------
(* Properties *)

RowTypes ==
    /\ payload \in [Orders -> Payload]
    /\ pending \in [Orders -> {"unplaced", "open", "gone"}]
    /\ committed \in [Orders -> BOOLEAN]
    /\ authorized \in [Orders -> BOOLEAN]

ServiceTypes ==
    /\ paid \in [Orders -> BOOLEAN]
    /\ ledger \in [Orders -> SUBSET {"debit", "refund"}]
    /\ journal \in [Orders -> JournalState]
    /\ stale \in [Orders -> BOOLEAN]
    /\ remote \in [Orders -> {"absent", "partial", "active"}]
    /\ applied \in [Orders -> Nat]
    /\ inflight \in [Orders -> {"none", "write", "assign"}]
    /\ books \in [Orders -> SUBSET (BookPc \cup {"account"})]
    /\ told \in [Orders -> BOOLEAN]

MemoryTypes ==
    /\ lock \in [Orders -> Handlers \cup {NoHandler}]
    /\ pc \in [Handlers -> FreePc \cup LockedPc]
    /\ ord \in [Handlers -> Orders \cup {NoOrder}]
    /\ task \in [Handlers -> {"none", "deliver", "cancel", "release", "approve"}]
    /\ seen \in [Handlers -> BOOLEAN]
    /\ ok \in [Handlers -> BOOLEAN]

\* Every persisted row holds a state its readers know, and every handler stands
\* at an await of the code.
TypeOK == RowTypes /\ ServiceTypes /\ MemoryTypes /\ faults \in 0..MaxFaults

\* What must have been taken from the customer before anything is provided.
Funded(o) ==
    /\ payload[o].wallet => "debit" \in ledger[o]
    /\ PaymentProof(o)
    /\ payload[o].method = "gateway" => paid[o]

\* A renewal adds quota and days, so no order is ever applied twice on the
\* remote side, however often it is retried, interrupted or asked for
\* (fulfill's journal, the write claim and the two-minute rule).
AppliedAtMostOnce == \A o \in Orders : applied[o] <= 1

\* Nothing is prepared, let alone granted, on the remote side for an order
\* whose wallet debit is not in the ledger or whose payment is not proved
\* (the commit block of _deliver_verified_pending_unlocked and
\* _assert_delivery_payment_authorized).
PaidBeforeService ==
    \A o \in Orders : journal[o] # "absent" \/ applied[o] > 0 => Funded(o)

\* Financial rows are written only for a granted package whose result can be
\* replayed, and an order is completed only when all its rows are there
\* (finalize_successful_order before mark_fulfillment_completed).
BooksFollowService ==
    \A o \in Orders :
        /\ books[o] \ {"account"} # {} =>
              applied[o] = 1 /\ journal[o] \in {"provisioned", "completed"}
        /\ journal[o] = "completed" => books[o] = BooksOf(payload[o])

\* A wallet, owner or reseller order leaves the pending table in two ways only:
\* served, recorded and announced to the customer, or with its money back and
\* its remote write never claimed since.
NoLocalOrderLost ==
    \A o \in Orders : IsLocal(o) /\ pending[o] = "gone" =>
        \/ journal[o] = "completed" /\ told[o]
        \/ /\ journal[o] \in {"absent", "prepared"}
           /\ "debit" \in ledger[o] => "refund" \in ledger[o]

\* At the moment a debit is returned, the remote write of the order has not
\* been claimed (the state check of _cancel_local_pending, under the lock that
\* also serialises deliveries).
RefundOnlyBeforeWrite ==
    [][\A o \in Orders : "refund" \in ledger'[o] \ ledger[o]
          => journal[o] \in {"absent", "prepared"}]_vars

Rank == [absent |-> 0, prepared |-> 1, executing |-> 2,
         remote_done |-> 3, provisioned |-> 4, completed |-> 5]

\* The journal never moves backwards, with one exception: a purchase, and never
\* a renewal, interrupted more than two minutes ago is taken back to prepared,
\* and on 3x-ui only while its client does not exist on the panel.
JournalForward ==
    [][\A o \in Orders :
          \/ Rank[journal'[o]] >= Rank[journal[o]]
          \/ /\ journal[o] = "executing" /\ journal'[o] = "prepared"
             /\ IsBuy(o) /\ stale[o]
             /\ IsV2Ray(o) => remote[o] = "absent"]_vars

\* The one situation in which asking again cannot help: a renewal interrupted
\* between claim and acknowledgement, which fulfill refuses to touch.
RenewalInDoubt(o) == ~IsBuy(o) /\ journal[o] = "executing"

\* If its owner keeps asking and calls stop failing, every open order that is
\* paid for gets delivered (or was cancelled), unless it is a renewal in doubt.
EveryOrderSettles ==
    \A o \in Orders :
        pending[o] = "open" /\ (IsLocal(o) \/ paid[o])
            ~> pending[o] = "gone" \/ RenewalInDoubt(o)

\* What the refusal of a cancellation promises: an order the customer got is
\* not also given back ("to prevent duplicate delivery or refund").
NeverServedAndRefunded ==
    \A o \in Orders : ~(journal[o] = "completed" /\ "refund" \in ledger[o])

\* What mark_fulfillment_prepared asks of its callers: a journal row in
\* prepared stands for an order with no remote write.
PreparedMeansUnwritten ==
    \A o \in Orders : journal[o] = "prepared" =>
        remote[o] = IF IsBuy(o) THEN "absent" ELSE "active"

\* "A paid authority is delivered, never cancelled": a gateway order whose
\* payment is recorded does not leave the pending table undelivered.
AuthorizedNeverDropped ==
    \A o \in Orders : authorized[o] /\ pending[o] = "gone" => journal[o] = "completed"
=============================================================================
