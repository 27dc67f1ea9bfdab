----------------------------- MODULE CardTransfer -----------------------------
(***************************************************************************)
(* Card-to-card payments on top of OrderDelivery: the customer of the      *)
(* module sends a receipt, the administrator approves or rejects it, and   *)
(* the approval delivers the order.  The request row and the pending row   *)
(* live in two tables; the handlers of OrderDelivery carry the approval    *)
(* through the same wallet debit, journal and bookkeeping.                 *)
(***************************************************************************)
EXTENDS OrderDelivery

VARIABLE request    \* card_transfer_requests.status, "none" when there is no row

cardVars == <<vars, request>>

RequestState ==
    {"none", "awaiting_receipt", "submitted", "processing",
     "approved", "rejected", "cancelled"}
Active == {"awaiting_receipt", "submitted", "processing"}
Decided == {"approved", "rejected", "cancelled"}

IsCard(o) == payload[o].method = "card_transfer"

-----------------------------------------------------------------------------

\* create_card_transfer_request: both rows in one transaction, and only while
\* the customer (who owns every order of this module) has no active request.
CreateRequest(o) ==
    /\ IsCard(o)
    /\ pending[o] = "unplaced"
    /\ \A other \in Orders : request[other] \notin Active
    /\ request' = [request EXCEPT ![o] = "awaiting_receipt"]
    /\ pending' = [pending EXCEPT ![o] = "open"]
    /\ UNCHANGED <<payload, committed, authorized, moneyVars, journalVars, remoteVars,
                   outcomeVars, memoryVars, faults>>

\* submit_card_transfer_receipt changes only a request that awaits its receipt.
SubmitReceipt(o) ==
    /\ request[o] = "awaiting_receipt"
    /\ request' = [request EXCEPT ![o] = "submitted"]
    /\ UNCHANGED vars

\* Mutant: the pending row and its reservation stay behind.
DiscardRequestOnly(o, from, to) ==
    /\ request[o] = from
    /\ request' = [request EXCEPT ![o] = to]
    /\ UNCHANGED vars

\* The end of a request without service: its row is closed and the pending row,
\* with its wallet reservation, deleted in the same transaction.
Discard(o, from, to) ==
    /\ request[o] = from
    /\ request' = [request EXCEPT ![o] = to]
    /\ pending' = [pending EXCEPT ![o] = "gone"]
    /\ UNCHANGED <<payload, committed, authorized, moneyVars, journalVars, remoteVars,
                   outcomeVars, memoryVars, faults>>

\* cancel_card_transfer_request: the customer, before the receipt only.
CancelRequest(o) == Discard(o, "awaiting_receipt", "cancelled")

\* Mutant: a request whose approval has begun can still be rejected.
RejectClaimed(o) ==
    \E from \in {"submitted", "processing"} : Discard(o, from, "rejected")

\* reject_card_transfer_request: the administrator, before the claim only.
RejectRequest(o) == Discard(o, "submitted", "rejected")

\* Mutant: any request with a receipt can be claimed.
StartApproveAny(h, o) ==
    /\ request[o] \notin {"none", "awaiting_receipt"}
    /\ request' = [request EXCEPT ![o] = "processing"]
    /\ Enter(h, o, "waiting", "approve")
    /\ UNCHANGED <<rowVars, moneyVars, journalVars, remoteVars, outcomeVars, faults>>

\* Mutant: a claimed request cannot be tried again.
StartApproveOnce(h, o) ==
    /\ request[o] = "submitted"
    /\ request' = [request EXCEPT ![o] = "processing"]
    /\ Enter(h, o, "waiting", "approve")
    /\ UNCHANGED <<rowVars, moneyVars, journalVars, remoteVars, outcomeVars, faults>>

\* "Approve", or "try again" after a failed approval: the request is claimed
\* (submitted -> processing), then the handler queues for the order lock.
StartApprove(h, o) ==
    /\ request[o] \in {"submitted", "processing"}
    /\ request' = [request EXCEPT ![o] = "processing"]
    /\ Enter(h, o, "waiting", "approve")
    /\ UNCHANGED <<rowVars, moneyVars, journalVars, remoteVars, outcomeVars, faults>>

\* Under the lock: the status is read again, the row authorized, and the
\* delivery entered with that row.
AuthorizeCard(h) ==
    LET o == ord[h] IN
    /\ pc[h] = "fresh"
    /\ task[h] = "approve"
    /\ IF request[o] = "processing" /\ pending[o] = "open"
         THEN /\ authorized' = [authorized EXCEPT ![o] = TRUE]
              /\ pc' = [pc EXCEPT ![h] = "commit"]
              /\ seen' = [seen EXCEPT ![h] = committed[o]]
              /\ UNCHANGED <<lock, ord, task, ok>>
         ELSE UNCHANGED authorized /\ Leave(h)
    /\ UNCHANGED <<payload, pending, committed, moneyVars, journalVars, remoteVars,
                   outcomeVars, faults, request>>

\* complete_card_transfer_request: approved and the pending row deleted in one
\* transaction, instead of pop_pending.
Finish(h) ==
    LET o == ord[h]
        may == request[o] = "processing" /\ pending[o] = "open" /\ authorized[o]
    IN
    /\ pc[h] = "finish"
    /\ request' = [request EXCEPT ![o] = IF may THEN "approved" ELSE @]
    /\ pending' = [pending EXCEPT ![o] = IF may THEN "gone" ELSE @]
    /\ Leave(h)
    /\ UNCHANGED <<payload, committed, authorized, moneyVars, journalVars, remoteVars,
                   outcomeVars, faults>>

-----------------------------------------------------------------------------

CardInit == Init /\ request = [o \in Orders |-> "none"]

CardNext ==
    \/ Next /\ UNCHANGED request
    \/ \E o \in Orders :
          CreateRequest(o) \/ SubmitReceipt(o) \/ CancelRequest(o) \/ RejectRequest(o)
    \/ \E h \in Handlers : AuthorizeCard(h) \/ Finish(h) \/ \E o \in Orders : StartApprove(h, o)

CardSpec == CardInit /\ [][CardNext]_cardVars

\* The fairness of OrderDelivery, and an administrator who presses "try again"
\* on an approval that did not complete.
CardFairness ==
    /\ \A h \in Handlers :
        /\ WF_cardVars(Proceed(h) /\ UNCHANGED request)
        /\ WF_cardVars(AuthorizeCard(h) \/ Finish(h))
        /\ SF_cardVars(Acquire(h) /\ UNCHANGED request)
    /\ \A o \in Orders :
        /\ WF_cardVars(Age(o) /\ UNCHANGED request)
        /\ WF_cardVars((Land(o) \/ Lose(o)) /\ UNCHANGED request)
        /\ SF_cardVars(request[o] = "processing" /\ \E h \in Handlers : StartApprove(h, o))

CardFairSpec == CardSpec /\ CardFairness

-----------------------------------------------------------------------------
(* Properties *)

\* A request's status is one its readers know, and the two tables agree: a card
\* order has a pending row exactly while its request is active, so a reservation
\* never outlives its request and an approval never finds its order missing.
RequestMatchesRow ==
    /\ request \in [Orders -> RequestState]
    /\ \A o \in Orders : IsCard(o) => (pending[o] = "open" <=> request[o] \in Active)

\* A rejected or cancelled request has cost nothing and provided nothing, even
\* when the decision raced an approval; no receipt, no service.
NothingWithoutApproval ==
    \A o \in Orders : IsCard(o) /\ request[o] \notin {"processing", "approved"} =>
        journal[o] = "absent" /\ ledger[o] = {} /\ applied[o] = 0 /\ ~authorized[o]

\* An approved request was served once, fully recorded, and announced to the
\* customer in a message of its own.
ApprovedMeansServed ==
    \A o \in Orders : request[o] = "approved" =>
        journal[o] = "completed" /\ applied[o] = 1 /\ told[o]
        /\ books[o] = BooksOf(payload[o])

\* A decision is final, and the decision to approve cannot be taken back once
\* the delivery may have begun.
DecisionsAreFinal ==
    [][\A o \in Orders :
          /\ request[o] \in Decided => request'[o] = request[o]
          /\ request[o] = "processing" => request'[o] \in {"processing", "approved"}]_cardVars

\* A claimed request ends approved, unless its renewal is in doubt.
ClaimedGetsApproved ==
    \A o \in Orders :
        request[o] = "processing" ~> request[o] = "approved" \/ RenewalInDoubt(o)
=============================================================================
