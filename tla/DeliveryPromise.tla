--------------------------- MODULE DeliveryPromise ---------------------------
(***************************************************************************)
(* The delivery pipeline and the card transfers on top of it implement     *)
(* OrderPromise.  A return on OpenVPN is not observable: the code takes an *)
(* interrupted purchase back to prepared without asking the router.  A     *)
(* gateway order is never closed here: what becomes of one whose row is    *)
(* gone is AuthorizedNeverDropped.                                         *)
(***************************************************************************)
EXTENDS CardTransfer

\* The orders the shop settles itself: all but those paid at the gateway.
Settled(o) == payload[o].method # "gateway"

Promise == INSTANCE OrderPromise WITH
    priced <- [o \in Orders |-> payload[o].wallet],
    observable <- [o \in Orders |-> IsV2Ray(o)],
    taken <- [o \in Orders |-> "debit" \in ledger[o]],
    granted <- applied,
    returned <- [o \in Orders |-> "refund" \in ledger[o]],
    closed <- [o \in Orders |-> Settled(o) /\ pending[o] = "gone"]

\* The shop with every payment kind.  No administrator is assumed to decide:
\* the fairness is that of the deliveries.
ShopSpec == CardSpec /\ Fairness

\* Every step of handlers, administrators, crashes and late requests is a step
\* of the promise, or none of its business.
KeepsThePromise == Promise!Spec
=============================================================================
