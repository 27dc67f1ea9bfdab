----------------------------- MODULE OrderPromise -----------------------------
(***************************************************************************)
(* What the shop promises for an order paid from inside the bot (wallet,   *)
(* owner, reseller) or by card transfer, with no handlers, locks, journal, *)
(* requests or crashes in sight:                                           *)
(* the price is taken at most once, the package is granted at most once    *)
(* and never before the price is taken, the money returns only while       *)
(* nothing is granted, and the order is closed only when it is served, or  *)
(* nothing was taken, or what was taken is back.                           *)
(***************************************************************************)
EXTENDS Naturals

CONSTANT Orders

VARIABLES
    priced,     \* something has to be taken from the wallet
    observable, \* a grant can be read back from the service before a return
    taken,      \* the price is taken
    granted,    \* packages granted
    returned,   \* the price is given back
    closed      \* the order is settled

promiseVars == <<priced, observable, taken, granted, returned, closed>>

Init ==
    /\ priced \in [Orders -> BOOLEAN]
    /\ observable \in [Orders -> BOOLEAN]
    /\ taken = [o \in Orders |-> FALSE]
    /\ granted = [o \in Orders |-> 0]
    /\ returned = [o \in Orders |-> FALSE]
    /\ closed = [o \in Orders |-> FALSE]

Take(o) ==
    /\ priced[o] /\ ~taken[o] /\ granted[o] = 0 /\ ~closed[o]
    /\ taken' = [taken EXCEPT ![o] = TRUE]
    /\ UNCHANGED <<priced, observable, granted, returned, closed>>

Grant(o) ==
    /\ granted[o] = 0
    /\ priced[o] => taken[o]
    /\ ~closed[o]
    /\ granted' = [granted EXCEPT ![o] = 1]
    /\ UNCHANGED <<priced, observable, taken, returned, closed>>

Return(o) ==
    /\ taken[o] /\ ~returned[o] /\ ~closed[o]
    /\ observable[o] => granted[o] = 0
    /\ returned' = [returned EXCEPT ![o] = TRUE]
    /\ UNCHANGED <<priced, observable, taken, granted, closed>>

Close(o) ==
    /\ ~closed[o]
    /\ granted[o] = 1 \/ ~taken[o] \/ returned[o]
    /\ closed' = [closed EXCEPT ![o] = TRUE]
    /\ UNCHANGED <<priced, observable, taken, granted, returned>>

Next == \E o \in Orders : Take(o) \/ Grant(o) \/ Return(o) \/ Close(o)

Spec == Init /\ [][Next]_promiseVars
=============================================================================
