----------------------------- MODULE OrderProofs -----------------------------
(***************************************************************************)
(* Proofs about OrderDelivery, the promise it implements and the card      *)
(* transfers built on it, for every number of orders, of concurrent        *)
(* handlers and of faults.                                                 *)
(*                                                                         *)
(* Six parts, each with an invariant of its own on top of those before:    *)
(* the pipeline (Inv), what becomes of an order (OutcomeInv), the promise  *)
(* (PromiseInv), the requests of card transfers (CardInv), what an         *)
(* approved transfer stands for (CardOutcomeInv), and the promise with     *)
(* card transfers (CardPromiseInv).                                        *)
(***************************************************************************)
EXTENDS DeliveryPromise, TLAPS

-----------------------------------------------------------------------------
(***************************************************************************)
(* Part 1: the delivery pipeline.                                          *)
(*                                                                         *)
(* AppliedAtMostOnce is not inductive: that a remote write is not repeated *)
(* rests on who holds the order lock, on what the journal says at each     *)
(* await under that lock, and on what the age of a journal row says of     *)
(* requests whose callers are gone.  Inv is the conjunction of these.      *)
(***************************************************************************)

(* The inductive invariant *)

\* ORDER_LOCKS: whoever stands at an await under the lock holds it.
LockInv ==
    \A h \in Handlers :
        /\ pc[h] # "idle" => ord[h] \in Orders
        /\ pc[h] \in LockedPc => lock[ord[h]] = h

\* The journal, the panel and the payment of one order, whoever works on it.
OrderInv(o) ==
    /\ applied[o] \in {0, 1}
    /\ IsBuy(o) => (applied[o] = 1 <=> remote[o] = "active")
    /\ IsBuy(o) /\ IsV2Ray(o) => remote[o] # "partial"
    /\ journal[o] = "absent" => applied[o] = 0
    /\ journal[o] = "prepared" /\ applied[o] = 1 => IsBuy(o)
    /\ journal[o] \in {"remote_done", "provisioned", "completed"} => applied[o] = 1
    /\ stale[o] => journal[o] = "executing" /\ inflight[o] = "none"
    /\ inflight[o] # "none" => journal[o] = "executing" /\ applied[o] = 0
    /\ inflight[o] = "assign" => TwoWrites(o)
    /\ payload[o].method = "gateway" /\ authorized[o] => paid[o]
    /\ journal[o] # "absent" => Funded(o)

\* What a handler may rely on about its order at the await it stands at.
At(h, o) ==
    /\ pc[h] = "authorize" => paid[o]
    /\ pc[h] \in {"commit", "flag"} =>
          PaymentProof(o) /\ (payload[o].method = "gateway" => paid[o])
    /\ pc[h] \in {"flag", "fulfill", "prepare"} => Funded(o)
    /\ pc[h] = "prepare" => journal[o] = "absent"
    /\ pc[h] = "check" => journal[o] = "prepared"
    /\ pc[h] = "claim" => journal[o] = "prepared" /\ applied[o] = 0
    /\ pc[h] \in {"write", "assign"} =>
          /\ journal[o] = "executing" /\ ~stale[o]
          /\ inflight[o] = "none" /\ applied[o] = 0
    /\ pc[h] = "assign" => TwoWrites(o)
    /\ pc[h] \in {"lookup", "unclaim"} => journal[o] = "executing" /\ stale[o] /\ IsBuy(o)
    /\ pc[h] = "lookup" => IsV2Ray(o)
    /\ pc[h] = "unclaim" /\ IsV2Ray(o) => remote[o] = "absent"
    /\ pc[h] \in {"record", "adopt"} => journal[o] # "absent" /\ applied[o] = 1
    /\ pc[h] \in {"hydrate", "save"} =>
          journal[o] \in {"remote_done", "provisioned", "completed"}
    /\ pc[h] = "refund" => journal[o] \in {"absent", "prepared"}

HandlersInv == \A h \in Handlers, o \in Orders : ord[h] = o => At(h, o)
OrdersInv == \A o \in Orders : OrderInv(o)

Inv == TypeOK /\ LockInv /\ OrdersInv /\ HandlersInv

-----------------------------------------------------------------------------
(* Type correctness *)

USE DEF FreePc, LockedPc, DeliverPc, BookPc, CancelPc

\* The initial state has the declared types.
LEMMA InitTypeOK == Init => TypeOK
<1>. SUFFICES ASSUME Init PROVE TypeOK
  OBVIOUS
<1>1. RowTypes
  BY DEF Init, RowTypes
<1>2. ServiceTypes
  BY DEF Init, ServiceTypes, JournalState
<1>3. MemoryTypes
  BY DEF Init, MemoryTypes
<1>4. faults \in 0..MaxFaults
  BY FaultsAssumption DEF Init
<1>. QED
  BY <1>1, <1>2, <1>3, <1>4 DEF TypeOK

\* Going on, returning and taking up an order keep the types of the memory.
LEMMA GotoTypes ==
    ASSUME MemoryTypes, NEW h \in Handlers, NEW label \in FreePc \cup LockedPc, Goto(h, label)
    PROVE  MemoryTypes'
BY DEF MemoryTypes, Goto

\* A handler that returns keeps the types of the memory.
LEMMA LeaveTypes ==
    ASSUME MemoryTypes, NEW h \in Handlers, Leave(h)
    PROVE  MemoryTypes'
BY DEF MemoryTypes, Leave

\* So does one that takes up an order.
LEMMA EnterTypes ==
    ASSUME MemoryTypes, NEW h \in Handlers, NEW o \in Orders, NEW label \in FreePc,
           NEW why \in {"deliver", "cancel", "release"}, Enter(h, o, label, why)
    PROVE  MemoryTypes'
BY DEF MemoryTypes, Enter

\* A journal row is set to a state its readers know.
LEMMA SetJournalTypes ==
    ASSUME ServiceTypes, NEW o \in Orders, NEW state \in JournalState, SetJournal(o, state)
    PROVE  /\ journal' \in [Orders -> JournalState]
           /\ stale' \in [Orders -> BOOLEAN]
BY DEF ServiceTypes, SetJournal

\* Where a handler may go from the journal is a label.
LEMMA ResumeLabels ==
    ASSUME ServiceTypes, NEW o \in Orders
    PROVE  Resume(o) \in LockedPc \cup {"idle"}
BY DEF ServiceTypes, JournalState, Resume, FirstBook

\* The groups of variables an action leaves alone.
LEMMA RowsUnchanged == RowTypes /\ UNCHANGED rowVars => RowTypes'
BY DEF RowTypes, rowVars

\* The types of what a step leaves alone are kept.
LEMMA ServiceUnchanged ==
    ServiceTypes /\ UNCHANGED <<moneyVars, journalVars, remoteVars, outcomeVars>>
        => ServiceTypes'
BY DEF ServiceTypes, moneyVars, journalVars, remoteVars, outcomeVars

\* The same of the memory.
LEMMA MemoryUnchanged == MemoryTypes /\ UNCHANGED memoryVars => MemoryTypes'
BY DEF MemoryTypes, memoryVars

\* The step of a handler that works on an order.
LEMMA WorkingHandler ==
    ASSUME TypeOK, LockInv, NEW h \in Handlers, pc[h] # "idle"
    PROVE  ord[h] \in Orders
BY DEF LockInv

\* Handlers take up orders.
LEMMA StartTypes ==
    ASSUME TypeOK, NEW h \in Handlers, Start(h)
    PROVE  TypeOK'
<1>. PICK o \in Orders :
        PlaceLocal(h, o) \/ StartVerify(h, o) \/ StartDeliver(h, o)
        \/ StartCancel(h, o) \/ StartRelease(h, o)
  BY DEF Start
<1>1. RowTypes'
  BY RowsUnchanged DEF TypeOK, RowTypes, PlaceLocal, StartVerify, StartDeliver, StartCancel,
     StartRelease
<1>2. ServiceTypes'
  BY ServiceUnchanged DEF TypeOK, PlaceLocal, StartVerify, StartDeliver, StartCancel,
     StartRelease
<1>3. MemoryTypes'
  BY EnterTypes DEF TypeOK, PlaceLocal, StartVerify, StartDeliver, StartCancel,
     StartRelease
<1>4. faults' \in 0..MaxFaults
  BY DEF TypeOK, PlaceLocal, StartVerify, StartDeliver, StartCancel, StartRelease
<1>. QED
  BY <1>1, <1>2, <1>3, <1>4 DEF TypeOK

\* The awaits before the lock and the fresh read under it.
LEMMA AdmissionTypes ==
    ASSUME TypeOK, LockInv, NEW h \in Handlers,
           Authorize(h) \/ Release(h) \/ Acquire(h) \/ ReadFresh(h)
    PROVE  TypeOK'
<1>1. CASE Authorize(h)
  BY <1>1, WorkingHandler, ServiceUnchanged, GotoTypes, LeaveTypes
  DEF TypeOK, Authorize, RowTypes
<1>2. CASE Release(h)
  BY <1>2, WorkingHandler, ServiceUnchanged, LeaveTypes DEF TypeOK, Release, RowTypes
<1>3. CASE Acquire(h)
  BY <1>3, WorkingHandler, ServiceUnchanged, RowsUnchanged DEF TypeOK, Acquire, MemoryTypes
<1>4. CASE ReadFresh(h)
  BY <1>4, WorkingHandler, ServiceUnchanged, RowsUnchanged, LeaveTypes
  DEF TypeOK, ReadFresh, MemoryTypes, RowTypes
<1>. QED
  BY <1>1, <1>2, <1>3, <1>4

\* The wallet and the journal up to the claim.
LEMMA PreparationTypes ==
    ASSUME TypeOK, LockInv, NEW h \in Handlers,
           Commit(h) \/ Flag(h) \/ ReadJournal(h) \/ Lookup(h) \/ Unclaim(h) \/ Prepare(h)
           \/ Check(h) \/ Claim(h)
    PROVE  TypeOK'
<1>1. CASE Commit(h)
  BY <1>1, WorkingHandler, RowsUnchanged, GotoTypes, LeaveTypes
  DEF TypeOK, Commit, ServiceTypes, journalVars, remoteVars, outcomeVars
<1>2. CASE Flag(h)
  BY <1>2, WorkingHandler, ServiceUnchanged, GotoTypes DEF TypeOK, Flag, RowTypes
<1>3. CASE ReadJournal(h)
  BY <1>3, WorkingHandler, ResumeLabels, ServiceUnchanged, RowsUnchanged, GotoTypes, LeaveTypes
  DEF TypeOK, ReadJournal
<1>4. CASE Lookup(h)
  BY <1>4, ServiceUnchanged, RowsUnchanged, GotoTypes DEF TypeOK, Lookup
<1>5. CASE Unclaim(h)
  BY <1>5, WorkingHandler, RowsUnchanged, GotoTypes, SetJournalTypes
  DEF TypeOK, Unclaim, ServiceTypes, JournalState, moneyVars, journalVars, remoteVars, outcomeVars
<1>6. CASE Prepare(h)
  BY <1>6, WorkingHandler, RowsUnchanged, GotoTypes, SetJournalTypes
  DEF TypeOK, Prepare, ServiceTypes, JournalState, moneyVars, journalVars, remoteVars, outcomeVars
<1>7. CASE Check(h)
  BY <1>7, ServiceUnchanged, RowsUnchanged, GotoTypes DEF TypeOK, Check
<1>8. CASE Claim(h)
  BY <1>8, WorkingHandler, RowsUnchanged, GotoTypes, LeaveTypes, SetJournalTypes
  DEF TypeOK, Claim, ServiceTypes, JournalState, moneyVars, journalVars, remoteVars, outcomeVars
<1>. QED
  BY <1>1, <1>2, <1>3, <1>4, <1>5, <1>6, <1>7, <1>8

\* One remote mutation.
LEMMA MutateTypes ==
    ASSUME ServiceTypes, NEW o \in Orders, NEW mutation, Mutate(o, mutation)
    PROVE  /\ remote' \in [Orders -> {"absent", "partial", "active"}]
           /\ applied' \in [Orders -> Nat]
BY DEF ServiceTypes, Mutate

\* The remote write and what is recorded of it.
LEMMA WriteTypes ==
    ASSUME TypeOK, LockInv, NEW h \in Handlers,
           Write(h) \/ RemoteDone(h) \/ Hydrate(h) \/ Save(h)
    PROVE  TypeOK'
<1>. FirstBook(payload[ord[h]]) \in LockedPc
  BY DEF FirstBook
<1>1. CASE Write(h)
  BY <1>1, WorkingHandler, RowsUnchanged, GotoTypes, MutateTypes
  DEF TypeOK, Write, ServiceTypes, moneyVars, journalVars, remoteVars, outcomeVars
<1>2. CASE RemoteDone(h)
  BY <1>2, WorkingHandler, RowsUnchanged, GotoTypes, SetJournalTypes
  DEF TypeOK, RemoteDone, ServiceTypes, JournalState, moneyVars, journalVars, remoteVars,
      outcomeVars
<1>3. CASE Hydrate(h)
  BY <1>3, WorkingHandler, RowsUnchanged, GotoTypes
  DEF TypeOK, Hydrate, ServiceTypes, moneyVars, journalVars, remoteVars
<1>4. CASE Save(h)
  BY <1>4, WorkingHandler, RowsUnchanged, GotoTypes, LeaveTypes, SetJournalTypes
  DEF TypeOK, Save, ServiceTypes, JournalState, moneyVars, journalVars, remoteVars, outcomeVars
<1>. QED
  BY <1>1, <1>2, <1>3, <1>4

\* A bookkeeping transaction adds a row of its own kind.
LEMMA BookTypes ==
    ASSUME TypeOK, LockInv, NEW h \in Handlers, NEW row \in BookPc, NEW next \in LockedPc,
           Book(h, row, next)
    PROVE  TypeOK'
BY WorkingHandler, RowsUnchanged, GotoTypes
DEF TypeOK, Book, ServiceTypes, moneyVars, journalVars, remoteVars

\* The bookkeeping, the message and the end of the row.
LEMMA ClosingTypes ==
    ASSUME TypeOK, LockInv, NEW h \in Handlers,
           \/ ChargeReseller(h) \/ RecordTransaction(h) \/ MarkReferralUsed(h)
           \/ RecordPurchase(h) \/ CreditReward(h) \/ Complete(h) \/ Send(h) \/ Pop(h)
    PROVE  TypeOK'
<1>1. CASE ChargeReseller(h)
  BY <1>1, BookTypes DEF ChargeReseller
<1>2. CASE RecordTransaction(h)
  BY <1>2, BookTypes DEF RecordTransaction
<1>3. CASE MarkReferralUsed(h)
  BY <1>3, BookTypes DEF MarkReferralUsed
<1>4. CASE RecordPurchase(h)
  BY <1>4, BookTypes DEF RecordPurchase
<1>5. CASE CreditReward(h)
  BY <1>5, BookTypes DEF CreditReward
<1>6. CASE Complete(h)
  <2>1. MemoryTypes'
    BY <1>6 DEF TypeOK, Complete, MemoryTypes, JournalState
  <2>. QED
    BY <1>6, <2>1, WorkingHandler, RowsUnchanged, SetJournalTypes
    DEF TypeOK, Complete, ServiceTypes, JournalState, moneyVars, journalVars, remoteVars,
        outcomeVars
<1>7. CASE Send(h)
  BY <1>7, WorkingHandler, RowsUnchanged, GotoTypes, LeaveTypes
  DEF TypeOK, Send, ServiceTypes, moneyVars, journalVars, remoteVars
<1>8. CASE Pop(h)
  BY <1>8, WorkingHandler, ServiceUnchanged, LeaveTypes DEF TypeOK, Pop, RowTypes
<1>. QED
  BY <1>1, <1>2, <1>3, <1>4, <1>5, <1>6, <1>7, <1>8

\* The cancellation of a local order.
LEMMA CancelTypes ==
    ASSUME TypeOK, LockInv, NEW h \in Handlers, Inspect(h) \/ Refund(h) \/ Drop(h)
    PROVE  TypeOK'
<1>1. CASE Inspect(h)
  BY <1>1, ServiceUnchanged, RowsUnchanged, GotoTypes, LeaveTypes DEF TypeOK, Inspect
<1>2. CASE Refund(h)
  BY <1>2, WorkingHandler, RowsUnchanged, GotoTypes
  DEF TypeOK, Refund, ServiceTypes, journalVars, remoteVars, outcomeVars
<1>3. CASE Drop(h)
  BY <1>3, WorkingHandler, ServiceUnchanged, LeaveTypes DEF TypeOK, Drop, RowTypes
<1>. QED
  BY <1>1, <1>2, <1>3

\* Failures of a handler.
LEMMA FaultTypes ==
    ASSUME TypeOK, LockInv, NEW h \in Handlers, Fault(h)
    PROVE  TypeOK'
<1>. faults < MaxFaults /\ faults' = faults + 1 => faults' \in 0..MaxFaults
  BY FaultsAssumption DEF TypeOK
<1>1. CASE Fail(h)
  BY <1>1, ServiceUnchanged, RowsUnchanged, LeaveTypes DEF TypeOK, Fail
<1>2. CASE BookFails(h)
  <2>1. MemoryTypes'
    BY <1>2 DEF TypeOK, BookFails, MemoryTypes
  <2>. QED
    BY <1>2, <2>1, ServiceUnchanged, RowsUnchanged DEF TypeOK, BookFails
<1>3. CASE WriteUnacknowledged(h)
  BY <1>3, WorkingHandler, RowsUnchanged, LeaveTypes
  DEF TypeOK, WriteUnacknowledged, ServiceTypes, moneyVars, journalVars, outcomeVars
<1>. QED
  BY <1>1, <1>2, <1>3 DEF Fault

\* Customers, the gateway, time, late requests and the death of the process.
LEMMA EnvironmentTypes == ASSUME TypeOK, Environment PROVE TypeOK'
<1>1. CASE Crash
  <2>1. MemoryTypes'
    BY <1>1 DEF Crash, MemoryTypes
  <2>2. ServiceTypes'
    BY <1>1 DEF TypeOK, Crash, ServiceTypes, moneyVars, journalVars, outcomeVars
  <2>. QED
    BY <1>1, <2>1, <2>2, RowsUnchanged, FaultsAssumption DEF TypeOK, Crash
<1>2. ASSUME NEW o \in Orders, PlaceGateway(o) PROVE TypeOK'
  BY <1>2, ServiceUnchanged, MemoryUnchanged DEF TypeOK, PlaceGateway, RowTypes
<1>3. ASSUME NEW o \in Orders, Pay(o) PROVE TypeOK'
  BY <1>3, RowsUnchanged, MemoryUnchanged
  DEF TypeOK, Pay, ServiceTypes, journalVars, remoteVars, outcomeVars
<1>4. ASSUME NEW o \in Orders, Age(o) PROVE TypeOK'
  BY <1>4, RowsUnchanged, MemoryUnchanged
  DEF TypeOK, Age, ServiceTypes, moneyVars, remoteVars, outcomeVars
<1>5. ASSUME NEW o \in Orders, Land(o) PROVE TypeOK'
  BY <1>5, RowsUnchanged, MemoryUnchanged, MutateTypes
  DEF TypeOK, Land, ServiceTypes, moneyVars, journalVars, outcomeVars
<1>6. ASSUME NEW o \in Orders, Lose(o) PROVE TypeOK'
  BY <1>6, RowsUnchanged, MemoryUnchanged
  DEF TypeOK, Lose, ServiceTypes, moneyVars, journalVars, outcomeVars
<1>. QED
  BY <1>1, <1>2, <1>3, <1>4, <1>5, <1>6 DEF Environment

\* Every step keeps the types.
LEMMA NextTypeOK == ASSUME TypeOK, LockInv, [Next]_vars PROVE TypeOK'
<1>1. CASE UNCHANGED vars
  BY <1>1, RowsUnchanged, ServiceUnchanged, MemoryUnchanged DEF TypeOK, vars
<1>2. ASSUME NEW h \in Handlers, Start(h) \/ Acquire(h) \/ Proceed(h) \/ Fault(h)
      PROVE  TypeOK'
  BY <1>2, StartTypes, AdmissionTypes, PreparationTypes, WriteTypes, ClosingTypes, CancelTypes,
     FaultTypes
  DEF Proceed
<1>3. CASE Environment
  BY <1>3, EnvironmentTypes
<1>. QED
  BY <1>1, <1>2, <1>3 DEF Next

-----------------------------------------------------------------------------
(* The order lock *)

\* A handler goes on under its lock, or returns and frees it.
GoesOn(h) == pc'[h] \in LockedPc /\ ord'[h] = ord[h] /\ lock' = lock
OthersStand(h) == \A k \in Handlers \ {h} : pc'[k] = pc[k] /\ ord'[k] = ord[k]

\* Two handlers never stand under the lock of the same order.
LEMMA SoleHolder ==
    ASSUME TypeOK, LockInv, NEW h \in Handlers, NEW k \in Handlers,
           pc[h] \in LockedPc, pc[k] \in LockedPc, ord[h] = ord[k]
    PROVE  h = k
BY DEF LockInv

\* A step under the lock keeps the lock discipline.
LEMMA LockedStepLocks ==
    ASSUME TypeOK, LockInv, NEW h \in Handlers, pc[h] \in LockedPc,
           (GoesOn(h) /\ OthersStand(h)) \/ Leave(h)
    PROVE  LockInv'
BY DEF TypeOK, MemoryTypes, LockInv, GoesOn, OthersStand, Leave

\* What an action of h that is not Leave does to the memory.
LEMMA GotoGoesOn ==
    ASSUME TypeOK, NEW h \in Handlers, NEW label \in LockedPc, Goto(h, label)
    PROVE  GoesOn(h) /\ OthersStand(h) /\ pc'[h] = label
BY DEF TypeOK, MemoryTypes, Goto, GoesOn, OthersStand

\* A handler that returns leaves the others where they are.
LEMMA LeaveStands ==
    ASSUME TypeOK, NEW h \in Handlers, Leave(h)
    PROVE  pc'[h] = "idle" /\ OthersStand(h)
BY DEF TypeOK, MemoryTypes, Leave, OthersStand

-----------------------------------------------------------------------------
(* Steps of a handler under the lock *)

\* What the invariant of an order reads is as it was.
Untouched(o) ==
    /\ payload'[o] = payload[o] /\ authorized'[o] = authorized[o]
    /\ paid'[o] = paid[o] /\ ledger'[o] = ledger[o]
    /\ journal'[o] = journal[o] /\ stale'[o] = stale[o]
    /\ remote'[o] = remote[o] /\ applied'[o] = applied[o] /\ inflight'[o] = inflight[o]

\* An untouched order keeps its invariant.
LEMMA UntouchedOrder ==
    ASSUME NEW o \in Orders, OrderInv(o), Untouched(o)
    PROVE  OrderInv(o)'
BY DEF OrderInv, Untouched, Funded, PaymentProof, IsLocal, IsBuy, IsV2Ray, TwoWrites

\* What a handler knows of an untouched order stays true.
LEMMA UntouchedAt ==
    ASSUME NEW o \in Orders, NEW h \in Handlers, At(h, o), Untouched(o), pc'[h] = pc[h]
    PROVE  At(h, o)'
BY DEF At, Untouched, Funded, PaymentProof, IsLocal, IsBuy, IsV2Ray, TwoWrites

\* A handler under the lock that keeps the invariant of its own order, and knows
\* what it must where it arrives, keeps the whole invariant.
LEMMA LockedStep ==
    ASSUME Inv, NEW h \in Handlers, NEW o \in Orders, ord[h] = o, pc[h] \in LockedPc,
           (GoesOn(h) /\ OthersStand(h)) \/ Leave(h),
           \A q \in Orders \ {o} : Untouched(q),
           paid'[o] = paid[o],
           OrderInv(o)',
           pc'[h] # "idle" => At(h, o)',
           TypeOK'
    PROVE  Inv'
<1>1. LockInv'
  BY LockedStepLocks DEF Inv
<1>2. OrdersInv'
  BY UntouchedOrder DEF Inv, OrdersInv
<1>3. ASSUME NEW k \in Handlers, NEW q \in Orders, ord'[k] = q
      PROVE  At(k, q)'
  <2>1. CASE k = h /\ pc'[h] = "idle"
    BY <2>1 DEF At
  <2>2. CASE k = h /\ pc'[h] # "idle"
    <3>1. q = o
      BY <1>3, <2>2, LeaveStands DEF Inv, GoesOn
    <3>. QED
      BY <2>2, <3>1
  <2>3. CASE k # h
    <3>1. pc'[k] = pc[k] /\ ord[k] = q
      BY <1>3, <2>3, LeaveStands DEF Inv, OthersStand
    <3>2. At(k, q)
      BY <3>1 DEF Inv, HandlersInv
    <3>3. CASE q # o
      BY <3>1, <3>2, <3>3, UntouchedAt
    <3>4. CASE q = o
      <4>1. pc[k] \notin LockedPc
        BY <2>3, <3>1, <3>4, SoleHolder DEF Inv
      <4>. QED
        BY <3>1, <3>2, <3>4, <4>1 DEF At
    <3>. QED
      BY <3>3, <3>4
  <2>. QED
    BY <2>1, <2>2, <2>3
<1>. QED
  BY <1>1, <1>2, <1>3 DEF Inv, HandlersInv

\* A handler that returns without touching its order keeps the invariant.
LEMMA UntouchedReturn ==
    ASSUME Inv, NEW h \in Handlers, pc[h] \in LockedPc, Leave(h),
           \A q \in Orders : Untouched(q), TypeOK'
    PROVE  Inv'
<1>. PICK o \in Orders : o = ord[h]
  BY DEF Inv, LockInv
<1>1. OrderInv(o)' /\ pc'[h] = "idle"
  BY UntouchedOrder, LeaveStands DEF Inv, OrdersInv
<1>. QED
  BY <1>1, LockedStep DEF Untouched

\* A handler that goes on without touching its order, likewise, if it knows what
\* it must where it arrives.
LEMMA UntouchedGoto ==
    ASSUME Inv, NEW h \in Handlers, NEW o \in Orders, ord[h] = o, pc[h] \in LockedPc,
           GoesOn(h), OthersStand(h), \A q \in Orders : Untouched(q), At(h, o)', TypeOK'
    PROVE  Inv'
<1>1. OrderInv(o)'
  BY UntouchedOrder DEF Inv, OrdersInv
<1>. QED
  BY <1>1, LockedStep DEF Untouched

\* A step that leaves the rows, the money, the journal and the panel alone touches no order.
LEMMA UnchangedUntouched ==
    ASSUME UNCHANGED <<rowVars, moneyVars, journalVars, remoteVars>>
    PROVE  \A q \in Orders : Untouched(q)
BY DEF Untouched, rowVars, moneyVars, journalVars, remoteVars

\* What the invariant says of a handler and its order.
LEMMA AtWork ==
    ASSUME Inv, NEW h \in Handlers, NEW o \in Orders, ord[h] = o
    PROVE  OrderInv(o) /\ At(h, o)
BY DEF Inv, OrdersInv, HandlersInv

\* The fresh read: only a paid order goes on to its delivery.
LEMMA ReadFreshInv ==
    ASSUME Inv, NEW h \in Handlers, NEW o \in Orders, ord[h] = o, ReadFresh(h), TypeOK'
    PROVE  Inv'
<1>1. pc[h] = "fresh" /\ \A q \in Orders : Untouched(q)
  BY UnchangedUntouched DEF ReadFresh
<1>2. CASE Leave(h)
  BY <1>1, <1>2, UntouchedReturn
<1>3. CASE ~Leave(h)
  <2>1. /\ pc'[h] = (IF task[h] = "cancel" THEN "inspect" ELSE "commit")
        /\ GoesOn(h) /\ OthersStand(h)
    BY <1>3 DEF ReadFresh, Inv, TypeOK, MemoryTypes, GoesOn, OthersStand
  <2>2. At(h, o)'
    <3>1. CASE task[h] = "cancel"
      BY <2>1, <3>1 DEF At
    <3>2. CASE task[h] # "cancel"
      <4>1. PaymentProof(o) /\ (payload[o].method = "gateway" => paid[o])
        BY <1>3, <3>2, AtWork DEF ReadFresh, PaymentProof, IsLocal, LocalMethods, OrderInv
      <4>. QED
        BY <1>1, <2>1, <3>2, <4>1 DEF At, PaymentProof, IsLocal, Untouched
    <3>. QED
      BY <3>1, <3>2
  <2>. QED
    BY <1>1, <2>1, <2>2, UntouchedGoto
<1>. QED
  BY <1>2, <1>3

\* The wallet: whoever goes on has the debit in the ledger, if one is due.
LEMMA CommitInv ==
    ASSUME Inv, NEW h \in Handlers, NEW o \in Orders, ord[h] = o, Commit(h), TypeOK'
    PROVE  Inv'
<1>. /\ pc[h] = "commit" /\ OrderInv(o)
     /\ PaymentProof(o) /\ (payload[o].method = "gateway" => paid[o])
  BY AtWork DEF Commit, At
<1>1. CASE Leave(h) /\ UNCHANGED ledger
  BY <1>1, UnchangedUntouched, UntouchedReturn DEF Commit, moneyVars
<1>2. CASE Goto(h, "flag") /\ ledger' = [ledger EXCEPT ![o] = @ \cup {"debit"}]
  <2>1. GoesOn(h) /\ OthersStand(h) /\ pc'[h] = "flag"
    BY <1>2, GotoGoesOn DEF Inv
  <2>2. /\ \A q \in Orders \ {o} : Untouched(q)
        /\ ledger'[o] = ledger[o] \cup {"debit"}
        /\ payload' = payload /\ authorized' = authorized /\ paid' = paid /\ journal' = journal
        /\ stale' = stale /\ remote' = remote /\ applied' = applied /\ inflight' = inflight
    BY <1>2 DEF Commit, Inv, TypeOK, ServiceTypes, Untouched, rowVars, journalVars, remoteVars
  <2>3. OrderInv(o)'
    BY <2>2 DEF OrderInv, Funded, PaymentProof, IsLocal, IsBuy, IsV2Ray, TwoWrites
  <2>4. At(h, o)'
    BY <2>1, <2>2 DEF At, Funded, PaymentProof, IsLocal
  <2>. QED
    BY <2>1, <2>2, <2>3, <2>4, LockedStep
<1>3. CASE Goto(h, "fulfill") /\ UNCHANGED ledger
           /\ (payload[o].wallet => "debit" \in ledger[o])
  <2>1. GoesOn(h) /\ OthersStand(h) /\ pc'[h] = "fulfill"
    BY <1>3, GotoGoesOn DEF Inv
  <2>2. \A q \in Orders : Untouched(q)
    BY <1>3, UnchangedUntouched DEF Commit, moneyVars
  <2>3. At(h, o)'
    BY <1>3, <2>1, <2>2 DEF At, Funded, PaymentProof, IsLocal, Untouched
  <2>. QED
    BY <2>1, <2>2, <2>3, UntouchedGoto
<1>. QED
  BY <1>1, <1>2, <1>3 DEF Commit

\* The flag of the row is not part of the invariant: the ledger is.
LEMMA FlagInv ==
    ASSUME Inv, NEW h \in Handlers, NEW o \in Orders, ord[h] = o, Flag(h), TypeOK'
    PROVE  Inv'
<1>1. pc[h] = "flag" /\ Funded(o)
  BY AtWork DEF Flag, At
<1>2. GoesOn(h) /\ OthersStand(h) /\ pc'[h] = "fulfill"
  BY GotoGoesOn DEF Flag, Inv
<1>3. \A q \in Orders : Untouched(q)
  BY DEF Flag, Untouched, moneyVars, journalVars, remoteVars
<1>4. At(h, o)'
  BY <1>1, <1>2, <1>3 DEF At, Funded, PaymentProof, IsLocal, Untouched
<1>. QED
  BY <1>1, <1>2, <1>3, <1>4, UntouchedGoto

\* Each way fulfill can go from the journal leads where its assumptions hold.
LEMMA ReadJournalInv ==
    ASSUME Inv, NEW h \in Handlers, NEW o \in Orders, ord[h] = o, ReadJournal(h), TypeOK'
    PROVE  Inv'
<1>1. pc[h] = "fulfill" /\ Funded(o) /\ OrderInv(o)
  BY AtWork DEF ReadJournal, At
<1>2. \A q \in Orders : Untouched(q)
  BY UnchangedUntouched DEF ReadJournal
<1>3. CASE Leave(h)
  BY <1>1, <1>2, <1>3, UntouchedReturn
<1>4. CASE Resume(o) # "idle" /\ Goto(h, Resume(o))
  <2>1. Resume(o) \in LockedPc
    BY <1>4, ResumeLabels DEF Inv, TypeOK
  <2>2. GoesOn(h) /\ OthersStand(h) /\ pc'[h] = Resume(o)
    BY <1>4, <2>1, GotoGoesOn DEF Inv
  <2>3. journal[o] \in JournalState
    BY DEF Inv, TypeOK, ServiceTypes
  <2>4. At(h, o)'
    <3>1. CASE journal[o] \in {"provisioned", "completed"}
      BY <2>2, <3>1 DEF Resume, FirstBook, At
    <3>2. CASE journal[o] = "executing"
      <4>1. /\ IsBuy(o) /\ stale[o]
            /\ pc'[h] = (IF IsV2Ray(o) THEN "lookup" ELSE "unclaim")
        BY <1>4, <2>2, <3>2 DEF Resume
      <4>. QED
        BY <1>2, <3>2, <4>1 DEF At, Untouched, IsBuy, IsV2Ray, TwoWrites
    <3>3. CASE journal[o] = "absent"
      <4>1. pc'[h] = "prepare"
        BY <2>2, <3>3 DEF Resume
      <4>. QED
        BY <1>1, <1>2, <3>3, <4>1 DEF At, Untouched, Funded, PaymentProof, IsLocal
    <3>4. CASE journal[o] = "prepared"
      <4>1. pc'[h] = "check"
        BY <2>2, <3>4 DEF Resume
      <4>. QED
        BY <1>2, <3>4, <4>1 DEF At, Untouched
    <3>5. CASE journal[o] = "remote_done"
      <4>1. pc'[h] = "hydrate"
        BY <2>2, <3>5 DEF Resume
      <4>. QED
        BY <1>2, <3>5, <4>1 DEF At, Untouched
    <3>. QED
      BY <2>3, <3>1, <3>2, <3>3, <3>4, <3>5 DEF JournalState
  <2>. QED
    BY <1>1, <1>2, <2>2, <2>4, UntouchedGoto
<1>. QED
  BY <1>3, <1>4 DEF ReadJournal

\* _recover_prepared_buy on 3x-ui: what the panel answers stays true, because a
\* stale journal row has no request under way.
LEMMA LookupInv ==
    ASSUME Inv, NEW h \in Handlers, NEW o \in Orders, ord[h] = o, Lookup(h), TypeOK'
    PROVE  Inv'
<1>1. /\ pc[h] = "lookup" /\ OrderInv(o)
      /\ journal[o] = "executing" /\ stale[o] /\ IsBuy(o) /\ IsV2Ray(o)
  BY AtWork DEF Lookup, At
<1>2. \A q \in Orders : Untouched(q)
  BY UnchangedUntouched DEF Lookup
<1>3. /\ GoesOn(h) /\ OthersStand(h)
      /\ pc'[h] = (IF remote[o] = "absent" THEN "unclaim" ELSE "adopt")
  BY GotoGoesOn DEF Lookup, Inv
<1>4. At(h, o)'
  <2>1. CASE remote[o] = "absent"
    BY <1>1, <1>2, <1>3, <2>1 DEF At, Untouched, IsBuy, IsV2Ray, TwoWrites
  <2>2. CASE remote[o] # "absent"
    <3>1. applied[o] = 1
      BY <1>1, <2>2 DEF OrderInv, Inv, TypeOK, ServiceTypes
    <3>. QED
      BY <1>1, <1>2, <1>3, <2>2, <3>1 DEF At, Untouched
  <2>. QED
    BY <2>1, <2>2
<1>. QED
  BY <1>1, <1>2, <1>3, <1>4, UntouchedGoto

\* Setting the journal of one order leaves the others alone.
LEMMA JournalSet ==
    ASSUME TypeOK, NEW o \in Orders, NEW state, SetJournal(o, state),
           UNCHANGED <<rowVars, moneyVars, remoteVars>>
    PROVE  /\ \A q \in Orders \ {o} : Untouched(q)
           /\ journal'[o] = state /\ ~stale'[o]
           /\ payload' = payload /\ authorized' = authorized /\ paid' = paid
           /\ ledger' = ledger /\ remote' = remote /\ applied' = applied
           /\ inflight' = inflight
BY DEF SetJournal, TypeOK, ServiceTypes, Untouched, rowVars, moneyVars, remoteVars

\* A journal state may be set when what it says of the grant is true.
LEMMA JournalSetOrder ==
    ASSUME Inv, NEW o \in Orders, NEW state \in JournalState \ {"absent"},
           SetJournal(o, state), UNCHANGED <<rowVars, moneyVars, remoteVars>>,
           OrderInv(o), Funded(o),
           inflight[o] = "none",
           state = "prepared" /\ applied[o] = 1 => IsBuy(o),
           state \in {"remote_done", "provisioned", "completed"} => applied[o] = 1
    PROVE  OrderInv(o)'
<1>1. /\ journal'[o] = state /\ ~stale'[o]
      /\ payload' = payload /\ authorized' = authorized /\ paid' = paid
      /\ ledger' = ledger /\ remote' = remote /\ applied' = applied /\ inflight' = inflight
  BY JournalSet DEF Inv
<1>2. Funded(o)'
  BY <1>1 DEF Funded, PaymentProof, IsLocal
<1>. QED
  BY <1>1, <1>2 DEF OrderInv, IsBuy, IsV2Ray, TwoWrites

\* mark_fulfillment_prepared: only a purchase is taken back.
LEMMA UnclaimInv ==
    ASSUME Inv, NEW h \in Handlers, NEW o \in Orders, ord[h] = o, Unclaim(h), TypeOK'
    PROVE  Inv'
<1>1. /\ pc[h] = "unclaim" /\ OrderInv(o)
      /\ journal[o] = "executing" /\ stale[o] /\ IsBuy(o)
  BY AtWork DEF Unclaim, At
<1>2. GoesOn(h) /\ OthersStand(h) /\ pc'[h] = "check"
  BY GotoGoesOn DEF Unclaim, Inv
<1>3. SetJournal(o, "prepared") /\ UNCHANGED <<rowVars, moneyVars, remoteVars>>
  BY <1>1 DEF Unclaim
<1>4. OrderInv(o)'
  BY <1>1, <1>3, JournalSetOrder DEF JournalState, OrderInv
<1>5. At(h, o)'
  BY <1>2, <1>3, JournalSet DEF Inv, At
<1>. QED
  BY <1>1, <1>2, <1>3, <1>4, <1>5, JournalSet, LockedStep DEF Inv

\* prepare_fulfillment: the journal row appears for a paid order.
LEMMA PrepareInv ==
    ASSUME Inv, NEW h \in Handlers, NEW o \in Orders, ord[h] = o, Prepare(h), TypeOK'
    PROVE  Inv'
<1>1. pc[h] = "prepare" /\ OrderInv(o) /\ journal[o] = "absent" /\ Funded(o)
  BY AtWork DEF Prepare, At
<1>2. GoesOn(h) /\ OthersStand(h) /\ pc'[h] = "check"
  BY GotoGoesOn DEF Prepare, Inv
<1>3. SetJournal(o, "prepared") /\ UNCHANGED <<rowVars, moneyVars, remoteVars>>
  BY <1>1 DEF Prepare
<1>4. OrderInv(o)'
  BY <1>1, <1>3, JournalSetOrder DEF JournalState, OrderInv
<1>5. At(h, o)'
  BY <1>2, <1>3, JournalSet DEF Inv, At
<1>. QED
  BY <1>1, <1>2, <1>3, <1>4, <1>5, JournalSet, LockedStep DEF Inv

\* A purchase that is complete on the panel is adopted: whoever goes on to claim
\* the write has an order that was not applied.
LEMMA CheckInv ==
    ASSUME Inv, NEW h \in Handlers, NEW o \in Orders, ord[h] = o, Check(h), TypeOK'
    PROVE  Inv'
<1>1. pc[h] = "check" /\ OrderInv(o) /\ journal[o] = "prepared"
  BY AtWork DEF Check, At
<1>2. \A q \in Orders : Untouched(q)
  BY UnchangedUntouched DEF Check
<1>3. /\ GoesOn(h) /\ OthersStand(h)
      /\ pc'[h] = (IF IsBuy(o) /\ remote[o] = "active" THEN "adopt" ELSE "claim")
  BY GotoGoesOn DEF Check, Inv
<1>4. At(h, o)'
  BY <1>1, <1>2, <1>3 DEF At, Untouched, OrderInv
<1>. QED
  BY <1>1, <1>2, <1>3, <1>4, UntouchedGoto

\* mark_fulfillment_executing: the claim opens the write.
LEMMA ClaimInv ==
    ASSUME Inv, NEW h \in Handlers, NEW o \in Orders, ord[h] = o, Claim(h), TypeOK'
    PROVE  Inv'
<1>1. pc[h] = "claim" /\ OrderInv(o) /\ journal[o] = "prepared" /\ applied[o] = 0
  BY AtWork DEF Claim, At
<1>2. GoesOn(h) /\ OthersStand(h) /\ pc'[h] = "write"
  BY <1>1, GotoGoesOn DEF Claim, Inv
<1>3. SetJournal(o, "executing") /\ UNCHANGED <<rowVars, moneyVars, remoteVars>>
  BY <1>1 DEF Claim
<1>4. OrderInv(o)'
  BY <1>1, <1>3, JournalSetOrder DEF JournalState, OrderInv
<1>5. At(h, o)'
  <2>1. inflight[o] = "none"
    BY <1>1 DEF OrderInv
  <2>. QED
    BY <1>1, <1>2, <1>3, <2>1, JournalSet DEF Inv, At
<1>. QED
  BY <1>1, <1>2, <1>3, <1>4, <1>5, JournalSet, LockedStep DEF Inv

\* The second mutation of 3x-ui is for renewals: a new client is one request.
LEMMA NewClientOneWrite ==
    ASSUME TypeOK, NEW o \in Orders, IsBuy(o), IsV2Ray(o)
    PROVE  ~TwoWrites(o)
BY DEF TypeOK, RowTypes, Payload, IsBuy, IsV2Ray, TwoWrites

\* One remote mutation by its caller, or after its caller is gone.
LEMMA Mutation ==
    ASSUME Inv, NEW o \in Orders, NEW mutation \in {"write", "assign"}, Mutate(o, mutation)
    PROVE  /\ \A q \in Orders \ {o} : remote'[q] = remote[q] /\ applied'[q] = applied[q]
           /\ mutation = "write" /\ TwoWrites(o) =>
                 remote'[o] = "partial" /\ applied'[o] = applied[o]
           /\ mutation = "assign" \/ ~TwoWrites(o) =>
                 remote'[o] = "active" /\ applied'[o] = applied[o] + 1
BY DEF Mutate, Inv, TypeOK, ServiceTypes

\* The write itself: the package is granted when its last mutation is done.
LEMMA WriteInv ==
    ASSUME Inv, NEW h \in Handlers, NEW o \in Orders, ord[h] = o, Write(h), TypeOK'
    PROVE  Inv'
<1>1. /\ pc[h] \in {"write", "assign"} /\ OrderInv(o)
      /\ journal[o] = "executing" /\ ~stale[o] /\ inflight[o] = "none" /\ applied[o] = 0
      /\ pc[h] = "assign" => TwoWrites(o)
  BY AtWork DEF Write, At
<1>2. /\ GoesOn(h) /\ OthersStand(h)
      /\ pc'[h] = (IF pc[h] = "write" /\ TwoWrites(o) THEN "assign" ELSE "record")
  BY GotoGoesOn DEF Write, Inv
<1>3. /\ payload' = payload /\ authorized' = authorized /\ paid' = paid /\ ledger' = ledger
      /\ journal' = journal /\ stale' = stale /\ inflight' = inflight
      /\ Mutate(o, pc[h])
  BY DEF Write, rowVars, moneyVars, journalVars
<1>4. \A q \in Orders \ {o} : Untouched(q)
  BY <1>1, <1>3, Mutation DEF Untouched
<1>5. CASE pc[h] = "write" /\ TwoWrites(o)
  <2>1. remote'[o] = "partial" /\ applied'[o] = 0 /\ pc'[h] = "assign"
    BY <1>1, <1>2, <1>3, <1>5, Mutation
  <2>2. OrderInv(o)'
    <3>1. ~(IsBuy(o) /\ IsV2Ray(o))
      BY <1>5, NewClientOneWrite DEF Inv
    <3>. QED
      BY <1>1, <1>3, <1>5, <2>1, <3>1
      DEF OrderInv, Funded, PaymentProof, IsLocal, IsBuy, IsV2Ray, TwoWrites
  <2>3. At(h, o)'
    BY <1>1, <1>3, <1>5, <2>1 DEF At, TwoWrites, IsV2Ray
  <2>. QED
    BY <1>1, <1>2, <1>3, <1>4, <2>2, <2>3, LockedStep
<1>6. CASE pc[h] = "assign" \/ ~TwoWrites(o)
  <2>1. remote'[o] = "active" /\ applied'[o] = 1 /\ pc'[h] = "record"
    BY <1>1, <1>2, <1>3, <1>6, Mutation
  <2>2. OrderInv(o)'
    BY <1>1, <1>3, <2>1 DEF OrderInv, Funded, PaymentProof, IsLocal, IsBuy, IsV2Ray, TwoWrites
  <2>3. At(h, o)'
    BY <1>1, <1>3, <2>1 DEF At
  <2>. QED
    BY <1>1, <1>2, <1>3, <1>4, <2>2, <2>3, LockedStep
<1>. QED
  BY <1>1, <1>5, <1>6

\* mark_fulfillment_remote_done, after a write or for an adopted account.
LEMMA RemoteDoneInv ==
    ASSUME Inv, NEW h \in Handlers, NEW o \in Orders, ord[h] = o, RemoteDone(h), TypeOK'
    PROVE  Inv'
<1>1. /\ pc[h] \in {"record", "adopt"} /\ OrderInv(o)
      /\ journal[o] # "absent" /\ applied[o] = 1
  BY AtWork DEF RemoteDone, At
<1>2. GoesOn(h) /\ OthersStand(h) /\ pc'[h] = "hydrate"
  BY GotoGoesOn DEF RemoteDone, Inv
<1>3. CASE journal[o] \in {"prepared", "executing", "remote_done"}
  <2>1. SetJournal(o, "remote_done") /\ UNCHANGED <<rowVars, moneyVars, remoteVars>>
    BY <1>3 DEF RemoteDone
  <2>2. OrderInv(o)'
    BY <1>1, <2>1, JournalSetOrder DEF JournalState, OrderInv
  <2>3. At(h, o)'
    BY <1>2, <2>1, JournalSet DEF Inv, At
  <2>. QED
    BY <1>1, <1>2, <2>1, <2>2, <2>3, JournalSet, LockedStep DEF Inv
<1>4. CASE journal[o] \notin {"prepared", "executing", "remote_done"}
  <2>1. \A q \in Orders : Untouched(q)
    BY <1>4, UnchangedUntouched DEF RemoteDone, journalVars
  <2>2. journal[o] \in {"provisioned", "completed"}
    BY <1>1, <1>4 DEF Inv, TypeOK, ServiceTypes, JournalState
  <2>3. At(h, o)'
    BY <1>2, <2>1, <2>2 DEF At, Untouched
  <2>. QED
    BY <1>1, <1>2, <2>1, <2>3, UntouchedGoto
<1>. QED
  BY <1>3, <1>4

\* The reads after the write change nothing remote.
LEMMA HydrateInv ==
    ASSUME Inv, NEW h \in Handlers, NEW o \in Orders, ord[h] = o, Hydrate(h), TypeOK'
    PROVE  Inv'
<1>1. pc[h] = "hydrate" /\ journal[o] \in {"remote_done", "provisioned", "completed"}
  BY AtWork DEF Hydrate, At
<1>2. GoesOn(h) /\ OthersStand(h) /\ pc'[h] = "save"
  BY GotoGoesOn DEF Hydrate, Inv
<1>3. \A q \in Orders : Untouched(q)
  BY UnchangedUntouched DEF Hydrate
<1>4. At(h, o)'
  BY <1>1, <1>2, <1>3 DEF At, Untouched
<1>. QED
  BY <1>1, <1>2, <1>3, <1>4, UntouchedGoto

\* mark_fulfillment_provisioned.
LEMMA SaveInv ==
    ASSUME Inv, NEW h \in Handlers, NEW o \in Orders, ord[h] = o, Save(h), TypeOK'
    PROVE  Inv'
<1>1. pc[h] = "save" /\ OrderInv(o)
  BY AtWork DEF Save
<1>2. CASE journal[o] \in {"remote_done", "provisioned"}
  <2>1. SetJournal(o, "provisioned") /\ UNCHANGED <<rowVars, moneyVars, remoteVars>>
    BY <1>2 DEF Save
  <2>2. GoesOn(h) /\ OthersStand(h) /\ pc'[h] \in {"debt", "transaction"}
    BY <1>2, GotoGoesOn DEF Save, FirstBook, Inv
  <2>3. OrderInv(o)'
    BY <1>1, <1>2, <2>1, JournalSetOrder DEF JournalState, OrderInv
  <2>4. At(h, o)'
    BY <2>2 DEF At
  <2>. QED
    BY <1>1, <2>1, <2>2, <2>3, <2>4, JournalSet, LockedStep DEF Inv
<1>3. CASE journal[o] \notin {"remote_done", "provisioned"}
  <2>1. \A q \in Orders : Untouched(q)
    BY <1>3, UnchangedUntouched DEF Save
  <2>2. CASE Leave(h)
    BY <1>1, <2>1, <2>2, UntouchedReturn
  <2>3. CASE Goto(h, FirstBook(payload[o]))
    <3>1. GoesOn(h) /\ OthersStand(h) /\ pc'[h] \in {"debt", "transaction"}
      BY <2>3, GotoGoesOn DEF FirstBook, Inv
    <3>2. At(h, o)'
      BY <3>1 DEF At
    <3>. QED
      BY <1>1, <2>1, <3>1, <3>2, UntouchedGoto
  <2>. QED
    BY <1>3, <2>2, <2>3 DEF Save
<1>. QED
  BY <1>2, <1>3

\* A bookkeeping transaction changes nothing the invariant reads.
LEMMA BookInv ==
    ASSUME Inv, NEW h \in Handlers, NEW o \in Orders, ord[h] = o,
           NEW row \in BookPc, NEW next \in BookPc, Book(h, row, next), TypeOK'
    PROVE  Inv'
<1>1. pc[h] \in LockedPc /\ \A q \in Orders : Untouched(q)
  BY UnchangedUntouched DEF Book
<1>2. GoesOn(h) /\ OthersStand(h) /\ pc'[h] = next
  BY GotoGoesOn DEF Book, Inv
<1>3. At(h, o)'
  BY <1>2 DEF At
<1>. QED
  BY <1>1, <1>2, <1>3, UntouchedGoto

\* mark_fulfillment_completed.
LEMMA CompleteInv ==
    ASSUME Inv, NEW h \in Handlers, NEW o \in Orders, ord[h] = o, Complete(h), TypeOK'
    PROVE  Inv'
<1>1. pc[h] = "complete" /\ OrderInv(o)
  BY AtWork DEF Complete
<1>2. GoesOn(h) /\ OthersStand(h) /\ pc'[h] = "send"
  BY DEF Complete, Inv, TypeOK, MemoryTypes, GoesOn, OthersStand
<1>3. At(h, o)'
  BY <1>2 DEF At
<1>4. CASE journal[o] \in {"provisioned", "completed"}
  <2>1. SetJournal(o, "completed") /\ UNCHANGED <<rowVars, moneyVars, remoteVars>>
    BY <1>4 DEF Complete
  <2>2. OrderInv(o)'
    BY <1>1, <1>4, <2>1, JournalSetOrder DEF JournalState, OrderInv
  <2>. QED
    BY <1>1, <1>2, <1>3, <2>1, <2>2, JournalSet, LockedStep DEF Inv
<1>5. CASE journal[o] \notin {"provisioned", "completed"}
  <2>1. \A q \in Orders : Untouched(q)
    BY <1>5, UnchangedUntouched DEF Complete
  <2>. QED
    BY <1>1, <1>2, <1>3, <2>1, UntouchedGoto
<1>. QED
  BY <1>4, <1>5

\* The bookkeeping, the message and the end of the row.
LEMMA ClosingInv ==
    ASSUME Inv, NEW h \in Handlers, NEW o \in Orders, ord[h] = o, TypeOK',
           \/ ChargeReseller(h) \/ RecordTransaction(h) \/ MarkReferralUsed(h)
           \/ RecordPurchase(h) \/ CreditReward(h) \/ Complete(h) \/ Send(h) \/ Pop(h)
    PROVE  Inv'
<1>1. CASE ChargeReseller(h)
  BY <1>1, BookInv DEF ChargeReseller
<1>2. CASE RecordTransaction(h)
  BY <1>2, BookInv DEF RecordTransaction
<1>3. CASE MarkReferralUsed(h)
  BY <1>3, BookInv DEF MarkReferralUsed
<1>4. CASE RecordPurchase(h)
  BY <1>4, BookInv DEF RecordPurchase
<1>5. CASE CreditReward(h)
  BY <1>5, BookInv DEF CreditReward
<1>6. CASE Complete(h)
  BY <1>6, CompleteInv
<1>7. CASE Send(h)
  <2>1. pc[h] \in LockedPc /\ \A q \in Orders : Untouched(q)
    BY <1>7, UnchangedUntouched DEF Send
  <2>2. CASE Leave(h)
    BY <2>1, <2>2, UntouchedReturn
  <2>3. CASE Goto(h, IF task[h] = "approve" THEN "finish" ELSE "pop")
    <3>1. GoesOn(h) /\ OthersStand(h) /\ pc'[h] \in {"finish", "pop"}
      BY <2>3, GotoGoesOn DEF Inv
    <3>2. At(h, o)'
      BY <3>1 DEF At
    <3>. QED
      BY <2>1, <3>1, <3>2, UntouchedGoto
  <2>. QED
    BY <1>7, <2>2, <2>3 DEF Send
<1>8. CASE Pop(h)
  <2>1. pc[h] \in LockedPc /\ Leave(h) /\ \A q \in Orders : Untouched(q)
    BY <1>8 DEF Pop, Untouched, moneyVars, journalVars, remoteVars
  <2>. QED
    BY <2>1, UntouchedReturn
<1>. QED
  BY <1>1, <1>2, <1>3, <1>4, <1>5, <1>6, <1>7, <1>8

\* Cancelling a local order: a refund is reached only while nothing is claimed.
LEMMA CancelInv ==
    ASSUME Inv, NEW h \in Handlers, NEW o \in Orders, ord[h] = o, TypeOK',
           Inspect(h) \/ Refund(h) \/ Drop(h)
    PROVE  Inv'
<1>1. CASE Inspect(h)
  <2>1. pc[h] \in LockedPc /\ \A q \in Orders : Untouched(q)
    BY <1>1, UnchangedUntouched DEF Inspect
  <2>2. CASE Leave(h)
    BY <2>1, <2>2, UntouchedReturn
  <2>3. CASE ~Leave(h)
    <3>1. /\ GoesOn(h) /\ OthersStand(h) /\ pc'[h] \in {"refund", "drop"}
          /\ journal[o] \in {"absent", "prepared"}
      BY <1>1, <2>3, GotoGoesOn DEF Inspect, Inv, TypeOK, ServiceTypes, JournalState
    <3>2. At(h, o)'
      BY <2>1, <3>1 DEF At, Untouched
    <3>. QED
      BY <2>1, <3>1, <3>2, UntouchedGoto
  <2>. QED
    BY <2>2, <2>3
<1>2. CASE Refund(h)
  <2>1. pc[h] = "refund" /\ OrderInv(o)
    BY <1>2, AtWork DEF Refund
  <2>2. GoesOn(h) /\ OthersStand(h) /\ pc'[h] = "drop"
    BY <1>2, GotoGoesOn DEF Refund, Inv
  <2>3. /\ \A q \in Orders \ {o} : Untouched(q)
        /\ ledger'[o] = ledger[o] \cup {"refund"}
        /\ payload' = payload /\ authorized' = authorized /\ paid' = paid /\ journal' = journal
        /\ stale' = stale /\ remote' = remote /\ applied' = applied /\ inflight' = inflight
    BY <1>2 DEF Refund, Inv, TypeOK, ServiceTypes, Untouched, rowVars, journalVars, remoteVars
  <2>4. OrderInv(o)'
    BY <2>1, <2>3 DEF OrderInv, Funded, PaymentProof, IsLocal, IsBuy, IsV2Ray, TwoWrites
  <2>5. At(h, o)'
    BY <2>2 DEF At
  <2>. QED
    BY <2>1, <2>2, <2>3, <2>4, <2>5, LockedStep
<1>3. CASE Drop(h)
  <2>1. pc[h] \in LockedPc /\ Leave(h) /\ \A q \in Orders : Untouched(q)
    BY <1>3 DEF Drop, Untouched, moneyVars, journalVars, remoteVars
  <2>. QED
    BY <2>1, UntouchedReturn
<1>. QED
  BY <1>1, <1>2, <1>3

-----------------------------------------------------------------------------
(* Steps under no lock *)

\* As it was, or with more payment than before.
Grown(o) ==
    /\ payload'[o] = payload[o] /\ ledger'[o] = ledger[o]
    /\ authorized[o] => authorized'[o]
    /\ paid[o] => paid'[o]
    /\ journal'[o] = journal[o] /\ stale'[o] = stale[o]
    /\ remote'[o] = remote[o] /\ applied'[o] = applied[o] /\ inflight'[o] = inflight[o]

\* Payments and proofs only grow, which keeps the invariant of an order.
LEMMA GrownOrder ==
    ASSUME NEW o \in Orders, OrderInv(o), Grown(o),
           payload[o].method = "gateway" /\ authorized'[o] => paid'[o]
    PROVE  OrderInv(o)'
<1>1. Funded(o) => Funded(o)'
  BY DEF Grown, Funded, PaymentProof, IsLocal
<1>. QED
  BY <1>1 DEF OrderInv, Grown, IsBuy, IsV2Ray, TwoWrites

\* And what a handler knows of it.
LEMMA GrownAt ==
    ASSUME NEW o \in Orders, NEW h \in Handlers, At(h, o), Grown(o), pc'[h] = pc[h]
    PROVE  At(h, o)'
<1>1. Funded(o) => Funded(o)'
  BY DEF Grown, Funded, PaymentProof, IsLocal
<1>2. PaymentProof(o) => PaymentProof(o)'
  BY DEF Grown, PaymentProof, IsLocal
<1>. QED
  BY <1>1, <1>2 DEF At, Grown, IsBuy, IsV2Ray, TwoWrites

\* A step of a handler that stands at an await before the lock.
LEMMA FreeStep ==
    ASSUME Inv, NEW h \in Handlers, OthersStand(h), LockInv', TypeOK',
           \A q \in Orders : Grown(q) /\ (payload[q].method = "gateway" /\ authorized'[q] => paid'[q]),
           \A q \in Orders : ord'[h] = q => At(h, q)'
    PROVE  Inv'
<1>1. OrdersInv'
  BY GrownOrder DEF Inv, OrdersInv
<1>2. ASSUME NEW k \in Handlers, NEW q \in Orders, ord'[k] = q
      PROVE  At(k, q)'
  <2>1. CASE k # h
    BY <1>2, <2>1, GrownAt DEF Inv, HandlersInv, OthersStand
  <2>. QED
    BY <1>2, <2>1
<1>. QED
  BY <1>1, <1>2 DEF Inv, HandlersInv

\* The same, when the row or nothing at all changes.
LEMMA QuietStep ==
    ASSUME Inv, NEW h \in Handlers, OthersStand(h), LockInv', TypeOK',
           UNCHANGED <<payload, authorized, moneyVars, journalVars, remoteVars>>,
           \A q \in Orders : ord'[h] = q => At(h, q)'
    PROVE  Inv'
<1>1. \A q \in Orders :
        Grown(q) /\ (payload[q].method = "gateway" /\ authorized'[q] => paid'[q])
  BY DEF Grown, Inv, OrdersInv, OrderInv, moneyVars, journalVars, remoteVars
<1>. QED
  BY <1>1, FreeStep

\* A handler that returns gives back its lock and no other.
LEMMA LeaveLocks ==
    ASSUME TypeOK, LockInv, NEW h \in Handlers, Leave(h)
    PROVE  LockInv'
BY DEF TypeOK, MemoryTypes, LockInv, Leave

\* A handler that takes up an order holds no lock yet.
LEMMA EnterStands ==
    ASSUME TypeOK, LockInv, NEW h \in Handlers, NEW o \in Orders,
           NEW label \in {"waiting", "authorize", "release"}, NEW why, Enter(h, o, label, why)
    PROVE  LockInv' /\ OthersStand(h) /\ pc'[h] = label /\ ord'[h] = o
BY DEF TypeOK, MemoryTypes, LockInv, Enter, OthersStand

\* A handler takes up an order; only a paid one is taken up to be authorized.
LEMMA StartInv ==
    ASSUME Inv, NEW h \in Handlers, Start(h), TypeOK'
    PROVE  Inv'
<1>. PICK o \in Orders :
        PlaceLocal(h, o) \/ StartVerify(h, o) \/ StartDeliver(h, o)
        \/ StartCancel(h, o) \/ StartRelease(h, o)
  BY DEF Start
<1>1. UNCHANGED <<payload, authorized, moneyVars, journalVars, remoteVars>>
  BY DEF PlaceLocal, StartVerify, StartDeliver, StartCancel, StartRelease, rowVars
<1>2. CASE StartVerify(h, o)
  <2>1. LockInv' /\ OthersStand(h) /\ pc'[h] = "authorize" /\ ord'[h] = o
    BY <1>2, EnterStands DEF StartVerify, Inv
  <2>2. \A q \in Orders : ord'[h] = q => At(h, q)'
    BY <1>1, <1>2, <2>1 DEF StartVerify, At, moneyVars
  <2>. QED
    BY <1>1, <2>1, <2>2, QuietStep
<1>3. CASE PlaceLocal(h, o) \/ StartDeliver(h, o) \/ StartCancel(h, o) \/ StartRelease(h, o)
  <2>1. LockInv' /\ OthersStand(h) /\ pc'[h] \in {"waiting", "release"}
    BY <1>3, EnterStands DEF PlaceLocal, StartDeliver, StartCancel, StartRelease, Inv
  <2>2. \A q \in Orders : ord'[h] = q => At(h, q)'
    BY <2>1 DEF At
  <2>. QED
    BY <1>1, <2>1, <2>2, QuietStep
<1>. QED
  BY <1>2, <1>3

\* A handler that returns from an await before the lock.
LEMMA FreeReturn ==
    ASSUME Inv, NEW h \in Handlers, Leave(h), TypeOK',
           UNCHANGED <<payload, authorized, moneyVars, journalVars, remoteVars>>
    PROVE  Inv'
<1>1. LockInv' /\ OthersStand(h) /\ pc'[h] = "idle"
  BY LeaveLocks, LeaveStands DEF Inv
<1>2. \A q \in Orders : ord'[h] = q => At(h, q)'
  BY <1>1 DEF At
<1>. QED
  BY <1>1, <1>2, QuietStep

\* authorize_pending_payment, and the way to the lock.
LEMMA AuthorizeInv ==
    ASSUME Inv, NEW h \in Handlers, NEW o \in Orders, ord[h] = o, Authorize(h), TypeOK'
    PROVE  Inv'
<1>1. pc[h] = "authorize" /\ paid[o]
  BY AtWork DEF Authorize, At
<1>2. CASE Leave(h) /\ UNCHANGED authorized
  BY <1>2, FreeReturn DEF Authorize
<1>3. CASE Goto(h, "waiting") /\ authorized' = [authorized EXCEPT ![o] = TRUE]
  <2>1. LockInv' /\ OthersStand(h) /\ pc'[h] = "waiting"
    BY <1>1, <1>3 DEF Goto, Inv, TypeOK, MemoryTypes, LockInv, OthersStand
  <2>2. ASSUME NEW q \in Orders
        PROVE  Grown(q) /\ (payload[q].method = "gateway" /\ authorized'[q] => paid'[q])
    <3>1. UNCHANGED <<payload, paid, ledger, journal, stale, remote, applied, inflight>>
      BY DEF Authorize, moneyVars, journalVars, remoteVars
    <3>2. authorized'[o] /\ (q # o => authorized'[q] = authorized[q])
      BY <1>3 DEF Inv, TypeOK, RowTypes
    <3>3. payload[q].method = "gateway" /\ authorized[q] => paid[q]
      BY DEF Inv, OrdersInv, OrderInv
    <3>. QED
      BY <1>1, <3>1, <3>2, <3>3 DEF Grown
  <2>3. \A q \in Orders : ord'[h] = q => At(h, q)'
    BY <2>1 DEF At
  <2>. QED
    BY <2>1, <2>2, <2>3, FreeStep
<1>. QED
  BY <1>2, <1>3 DEF Authorize

\* The lock is taken only when it is free.
LEMMA AcquireInv ==
    ASSUME Inv, NEW h \in Handlers, NEW o \in Orders, ord[h] = o, Acquire(h), TypeOK'
    PROVE  Inv'
<1>1. UNCHANGED <<payload, authorized, moneyVars, journalVars, remoteVars>>
  BY DEF Acquire, rowVars
<1>2. OthersStand(h) /\ pc'[h] = "fresh"
  BY DEF Acquire, Inv, TypeOK, MemoryTypes, OthersStand
<1>3. LockInv'
  BY NoHandlerAssumption DEF Acquire, Inv, TypeOK, MemoryTypes, LockInv
<1>4. \A q \in Orders : ord'[h] = q => At(h, q)'
  BY <1>2 DEF At
<1>. QED
  BY <1>1, <1>2, <1>3, <1>4, QuietStep

\* A failed call; a write whose answer is lost leaves its request under way.
LEMMA FaultInv ==
    ASSUME Inv, NEW h \in Handlers, NEW o \in Orders, ord[h] = o, Fault(h), TypeOK'
    PROVE  Inv'
<1>1. CASE Fail(h)
  BY <1>1, FreeReturn DEF Fail, rowVars
<1>2. CASE BookFails(h)
  <2>1. pc[h] \in LockedPc /\ \A q \in Orders : Untouched(q)
    BY <1>2, UnchangedUntouched DEF BookFails
  <2>2. GoesOn(h) /\ OthersStand(h) /\ pc'[h] = "send"
    BY <1>2 DEF BookFails, Inv, TypeOK, MemoryTypes, GoesOn, OthersStand
  <2>3. At(h, o)'
    BY <2>2 DEF At
  <2>. QED
    BY <2>1, <2>2, <2>3, UntouchedGoto
<1>3. CASE WriteUnacknowledged(h)
  <2>1. /\ pc[h] \in {"write", "assign"} /\ OrderInv(o)
        /\ journal[o] = "executing" /\ ~stale[o] /\ applied[o] = 0
        /\ pc[h] = "assign" => TwoWrites(o)
    BY <1>3, AtWork DEF WriteUnacknowledged, At
  <2>2. /\ \A q \in Orders \ {o} : Untouched(q)
        /\ inflight'[o] = pc[h]
        /\ payload' = payload /\ authorized' = authorized /\ paid' = paid
        /\ ledger' = ledger /\ journal' = journal /\ stale' = stale
        /\ remote' = remote /\ applied' = applied
    BY <1>3 DEF WriteUnacknowledged, Inv, TypeOK, ServiceTypes, Untouched, rowVars, moneyVars,
       journalVars
  <2>3. OrderInv(o)'
    <3>1. Funded(o) => Funded(o)'
      BY <2>2 DEF Funded, PaymentProof, IsLocal
    <3>. QED
      BY <2>1, <2>2, <3>1 DEF OrderInv, IsBuy, IsV2Ray, TwoWrites
  <2>4. pc'[h] = "idle" /\ Leave(h)
    BY <1>3, LeaveStands DEF WriteUnacknowledged, Inv
  <2>. QED
    BY <2>1, <2>2, <2>3, <2>4, LockedStep
<1>. QED
  BY <1>1, <1>2, <1>3 DEF Fault

-----------------------------------------------------------------------------
(* Steps of the environment *)

\* A step that leaves the handlers alone and keeps what they rely on.
LEMMA OutsideStep ==
    ASSUME Inv, UNCHANGED memoryVars, TypeOK', OrdersInv',
           \A h \in Handlers, q \in Orders : ord[h] = q => At(h, q)'
    PROVE  Inv'
BY DEF Inv, LockInv, HandlersInv, memoryVars

\* Time: no handler and no lost request is writing when a journal row ages.
LEMMA AgeInv ==
    ASSUME Inv, NEW o \in Orders, Age(o), TypeOK'
    PROVE  Inv'
<1>1. /\ \A q \in Orders \ {o} : Untouched(q)
      /\ stale'[o] /\ UNCHANGED memoryVars
      /\ payload' = payload /\ authorized' = authorized /\ paid' = paid /\ ledger' = ledger
      /\ journal' = journal /\ remote' = remote /\ applied' = applied /\ inflight' = inflight
  BY DEF Age, Inv, TypeOK, ServiceTypes, Untouched, rowVars, moneyVars, remoteVars
<1>2. journal[o] = "executing" /\ inflight[o] = "none" /\ OrderInv(o)
  BY DEF Age, UnderWay, Inv, OrdersInv
<1>3. OrderInv(o)'
  <2>1. Funded(o) => Funded(o)'
    BY <1>1 DEF Funded, PaymentProof, IsLocal
  <2>. QED
    BY <1>1, <1>2, <2>1 DEF OrderInv, IsBuy, IsV2Ray, TwoWrites
<1>4. OrdersInv'
  BY <1>1, <1>3, UntouchedOrder DEF Inv, OrdersInv
<1>5. ASSUME NEW h \in Handlers, NEW q \in Orders, ord[h] = q
      PROVE  At(h, q)'
  <2>1. At(h, q) /\ pc' = pc
    BY <1>1, <1>5 DEF Inv, HandlersInv, memoryVars
  <2>2. CASE q # o
    BY <1>1, <2>1, <2>2, UntouchedAt
  <2>3. CASE q = o
    <3>1. pc[h] \notin {"write", "assign"}
      BY <1>5, <2>3 DEF Age, UnderWay
    <3>2. Funded(o) => Funded(o)'
      BY <1>1 DEF Funded, PaymentProof, IsLocal
    <3>3. PaymentProof(o) => PaymentProof(o)'
      BY <1>1 DEF PaymentProof, IsLocal
    <3>. QED
      BY <1>1, <1>2, <2>1, <2>3, <3>1, <3>2, <3>3 DEF At, IsBuy, IsV2Ray, TwoWrites
  <2>. QED
    BY <2>2, <2>3
<1>. QED
  BY <1>1, <1>4, <1>5, OutsideStep

\* A request whose caller is gone lands or is lost: no handler is in between, for
\* it would be writing, and nothing is in flight for an order being written.
LEMMA LandInv ==
    ASSUME Inv, NEW o \in Orders, Land(o) \/ Lose(o), TypeOK'
    PROVE  Inv'
<1>1. /\ UNCHANGED memoryVars /\ inflight'[o] = "none"
      /\ \A q \in Orders \ {o} : inflight'[q] = inflight[q]
      /\ payload' = payload /\ authorized' = authorized /\ paid' = paid /\ ledger' = ledger
      /\ journal' = journal /\ stale' = stale
  BY DEF Land, Lose, Inv, TypeOK, ServiceTypes, rowVars, moneyVars, journalVars
<1>2. /\ inflight[o] \in {"write", "assign"} /\ OrderInv(o)
      /\ journal[o] = "executing" /\ applied[o] = 0 /\ ~stale[o]
  BY DEF Land, Lose, Inv, TypeOK, ServiceTypes, OrdersInv, OrderInv
<1>3. \A q \in Orders \ {o} : Untouched(q)
  <2>1. \A q \in Orders \ {o} : remote'[q] = remote[q] /\ applied'[q] = applied[q]
    BY <1>2, Mutation DEF Land, Lose
  <2>. QED
    BY <1>1, <2>1 DEF Untouched
<1>4. Funded(o) => Funded(o)'
  BY <1>1 DEF Funded, PaymentProof, IsLocal
<1>5. OrderInv(o)'
  <2>1. CASE Lose(o)
    BY <1>1, <1>2, <1>4, <2>1 DEF Lose, OrderInv, IsBuy, IsV2Ray, TwoWrites
  <2>2. CASE Land(o) /\ inflight[o] = "write" /\ TwoWrites(o)
    <3>1. remote'[o] = "partial" /\ applied'[o] = 0
      BY <1>2, <2>2, Mutation DEF Land
    <3>2. ~(IsBuy(o) /\ IsV2Ray(o))
      BY <2>2, NewClientOneWrite DEF Inv
    <3>. QED
      BY <1>1, <1>2, <1>4, <2>2, <3>1, <3>2 DEF OrderInv, IsBuy, IsV2Ray, TwoWrites
  <2>3. CASE Land(o) /\ (inflight[o] = "assign" \/ ~TwoWrites(o))
    <3>1. remote'[o] = "active" /\ applied'[o] = 1
      BY <1>2, <2>3, Mutation DEF Land
    <3>. QED
      BY <1>1, <1>2, <1>4, <3>1 DEF OrderInv, IsBuy, IsV2Ray, TwoWrites
  <2>. QED
    BY <1>2, <2>1, <2>2, <2>3
<1>6. OrdersInv'
  BY <1>3, <1>5, UntouchedOrder DEF Inv, OrdersInv
<1>7. ASSUME NEW h \in Handlers, NEW q \in Orders, ord[h] = q
      PROVE  At(h, q)'
  <2>1. At(h, q) /\ pc' = pc
    BY <1>1, <1>7 DEF Inv, HandlersInv, memoryVars
  <2>2. CASE q # o
    BY <1>3, <2>1, <2>2, UntouchedAt
  <2>3. CASE q = o
    <3>1. PaymentProof(o) => PaymentProof(o)'
      BY <1>1 DEF PaymentProof, IsLocal
    <3>. QED
      BY <1>1, <1>2, <1>4, <2>1, <2>3, <3>1 DEF At
  <2>. QED
    BY <2>2, <2>3
<1>. QED
  BY <1>1, <1>6, <1>7, OutsideStep

\* Money at the gateway only grows.
LEMMA PayInv ==
    ASSUME Inv, NEW o \in Orders, Pay(o) \/ PlaceGateway(o), TypeOK'
    PROVE  Inv'
<1>1. /\ UNCHANGED <<payload, authorized, ledger, journalVars, remoteVars, memoryVars>>
      /\ \A q \in Orders : paid[q] => paid'[q]
  BY DEF Pay, PlaceGateway, Inv, TypeOK, ServiceTypes, rowVars, moneyVars
<1>2. \A q \in Orders :
        Grown(q) /\ (payload[q].method = "gateway" /\ authorized'[q] => paid'[q])
  BY <1>1 DEF Grown, Inv, OrdersInv, OrderInv, journalVars, remoteVars
<1>3. OrdersInv'
  BY <1>2, GrownOrder DEF Inv, OrdersInv
<1>4. \A h \in Handlers, q \in Orders : ord[h] = q => At(h, q)'
  BY <1>1, <1>2, GrownAt DEF Inv, HandlersInv, memoryVars
<1>. QED
  BY <1>1, <1>3, <1>4, OutsideStep

\* The death of the process: what was being written becomes a late request of an
\* order whose journal says so.
LEMMA CrashInv ==
    ASSUME Inv, Crash, TypeOK'
    PROVE  Inv'
<1>1. \A h \in Handlers : pc'[h] = "idle"
  BY DEF Crash
<1>2. LockInv' /\ HandlersInv'
  BY <1>1 DEF LockInv, HandlersInv, At
<1>3. ASSUME NEW o \in Orders
      PROVE  OrderInv(o)'
  <2>1. UNCHANGED <<payload, authorized, paid, ledger, journal, stale, remote, applied>>
    BY DEF Crash, rowVars, moneyVars, journalVars
  <2>2. Funded(o) => Funded(o)'
    BY <2>1 DEF Funded, PaymentProof, IsLocal
  <2>3. OrderInv(o)
    BY DEF Inv, OrdersInv
  <2>4. CASE inflight'[o] = inflight[o]
    BY <2>1, <2>2, <2>3, <2>4 DEF OrderInv, IsBuy, IsV2Ray, TwoWrites
  <2>5. CASE inflight'[o] # inflight[o]
    <3>1. PICK h \in Handlers : ord[h] = o /\ pc[h] \in {"write", "assign"}
                                /\ inflight'[o] = pc[h]
      BY <2>5 DEF Crash
    <3>2. /\ journal[o] = "executing" /\ ~stale[o] /\ applied[o] = 0
          /\ pc[h] = "assign" => TwoWrites(o)
      BY <3>1, AtWork DEF At
    <3>. QED
      BY <2>1, <2>2, <2>3, <3>1, <3>2 DEF OrderInv, IsBuy, IsV2Ray, TwoWrites
  <2>. QED
    BY <2>4, <2>5
<1>. QED
  BY <1>2, <1>3 DEF Inv, OrdersInv

-----------------------------------------------------------------------------
(* The invariant, and what it says *)

\* It holds initially.
LEMMA InitInv == Init => Inv
<1>. SUFFICES ASSUME Init PROVE Inv
  OBVIOUS
<1>1. TypeOK
  BY InitTypeOK
<1>2. LockInv /\ HandlersInv
  BY DEF Init, LockInv, HandlersInv, At
<1>3. OrdersInv
  BY DEF Init, OrdersInv, OrderInv, IsBuy
<1>. QED
  BY <1>1, <1>2, <1>3 DEF Inv

\* Every step keeps it.
LEMMA NextInv == Inv /\ [Next]_vars => Inv'
<1>. SUFFICES ASSUME Inv, [Next]_vars PROVE Inv'
  OBVIOUS
<1>. TypeOK'
  BY NextTypeOK DEF Inv
<1>1. CASE UNCHANGED vars
  BY <1>1, UnchangedUntouched, UntouchedOrder, UntouchedAt
  DEF Inv, LockInv, OrdersInv, HandlersInv, vars, memoryVars
<1>2. ASSUME NEW h \in Handlers, Start(h)
      PROVE  Inv'
  BY <1>2, StartInv
<1>3. ASSUME NEW h \in Handlers, Acquire(h) \/ Proceed(h) \/ Fault(h)
      PROVE  Inv'
  <2>1. CASE Release(h)
    BY <2>1, FreeReturn DEF Release
  <2>2. CASE pc[h] # "idle"
    <3>. PICK o \in Orders : ord[h] = o
      BY <2>2 DEF Inv, LockInv
    <3>. QED
      BY <1>3, <2>1, AcquireInv, AuthorizeInv, ReadFreshInv, CommitInv, FlagInv,
         ReadJournalInv, LookupInv, UnclaimInv, PrepareInv, CheckInv, ClaimInv, WriteInv,
         RemoteDoneInv, HydrateInv, SaveInv, ClosingInv, CancelInv, FaultInv
      DEF Proceed
  <2>3. pc[h] # "idle"
    BY <1>3
    DEF Proceed, Fault, Acquire, Authorize, Release, ReadFresh, Commit, Flag, ReadJournal,
        Lookup, Unclaim, Prepare, Check, Claim, Write, RemoteDone, Hydrate, Save,
        ChargeReseller, RecordTransaction, MarkReferralUsed, RecordPurchase, CreditReward,
        Book, Complete, Send, Pop, Inspect, Refund, Drop, Fail, BookFails,
        WriteUnacknowledged
  <2>. QED
    BY <2>2, <2>3
<1>4. CASE Environment
  BY <1>4, CrashInv, PayInv, AgeInv, LandInv DEF Environment
<1>. QED
  BY <1>1, <1>2, <1>3, <1>4 DEF Next

\* The types of the rows and of the handlers hold in every reachable state.
THEOREM TypeCorrect == Spec => []TypeOK
<1>1. Inv => TypeOK
  BY DEF Inv
<1>. QED
  BY <1>1, InitInv, NextInv, PTL DEF Spec

\* The invariant of the journal, the lock and the panel holds throughout.
THEOREM Inductive == Spec => []Inv
BY InitInv, NextInv, PTL DEF Spec

\* However many handlers run, calls fail, requests land late and processes die,
\* no order is applied twice on the remote side (fulfill and its journal).
THEOREM AtMostOnce == Spec => []AppliedAtMostOnce
<1>1. Inv => AppliedAtMostOnce
  BY DEF Inv, OrdersInv, OrderInv, AppliedAtMostOnce
<1>. QED
  BY <1>1, Inductive, PTL

\* Nothing is prepared or granted before it is paid for
\* (_deliver_verified_pending_unlocked, _assert_delivery_payment_authorized).
THEOREM PaidFirst == Spec => []PaidBeforeService
<1>1. Inv => PaidBeforeService
  BY DEF Inv, OrdersInv, OrderInv, PaidBeforeService
<1>. QED
  BY <1>1, Inductive, PTL

\* A debit is returned only while the remote write is unclaimed
\* (_cancel_local_pending).
THEOREM RefundUnclaimed == Spec => RefundOnlyBeforeWrite
<1>1. ASSUME Inv, Next, NEW o \in Orders, "refund" \in ledger'[o] \ ledger[o]
      PROVE  journal[o] \in {"absent", "prepared"}
  <2>1. CASE \E h \in Handlers : Refund(h)
    <3>. PICK h \in Handlers : Refund(h)
      BY <2>1
    <3>1. pc[h] = "refund" /\ ord[h] = o
      BY <1>1 DEF Refund, Inv, TypeOK, ServiceTypes
    <3>. QED
      BY <1>1, <3>1, AtWork DEF At
  <2>2. ASSUME NEW h \in Handlers, Start(h) \/ Acquire(h) \/ Proceed(h) \/ Fault(h), ~Refund(h)
        PROVE  FALSE
    <3>1. CASE Commit(h)
      BY <1>1, <3>1 DEF Commit, Inv, TypeOK, ServiceTypes
    <3>2. CASE ~Commit(h)
      BY <1>1, <2>2, <3>2
      DEF Start, Acquire, Proceed, Fault, PlaceLocal, StartVerify, StartDeliver, StartCancel,
          StartRelease, Authorize, Release, ReadFresh, Flag, ReadJournal, Lookup, Unclaim,
          Prepare, Check, Claim, Write, RemoteDone, Hydrate, Save, ChargeReseller,
          RecordTransaction, MarkReferralUsed, RecordPurchase, CreditReward, Book, Complete,
          Send, Pop, Inspect, Drop, Fail, BookFails, WriteUnacknowledged, moneyVars
    <3>. QED
      BY <3>1, <3>2
  <2>3. CASE Environment
    BY <1>1, <2>3 DEF Environment, Crash, PlaceGateway, Pay, Age, Land, Lose, moneyVars
  <2>. QED
    BY <1>1, <2>1, <2>2, <2>3 DEF Next
<1>2. Inv /\ [Next]_vars =>
        [\A o \in Orders : "refund" \in ledger'[o] \ ledger[o]
            => journal[o] \in {"absent", "prepared"}]_vars
  BY <1>1
<1>. QED
  BY <1>2, Inductive, PTL DEF Spec, RefundOnlyBeforeWrite

\* The journal moves forward, and back only from an interrupted purchase that no
\* request is under way for (mark_fulfillment_*, _recover_prepared_buy).
THEOREM JournalOrder == Spec => JournalForward
<1>. DEFINE Forward(o) ==
        \/ Rank[journal'[o]] >= Rank[journal[o]]
        \/ /\ journal[o] = "executing" /\ journal'[o] = "prepared"
           /\ IsBuy(o) /\ stale[o]
           /\ IsV2Ray(o) => remote[o] = "absent"
<1>1. ASSUME Inv, NEW o \in Orders, journal'[o] = journal[o]
      PROVE  Forward(o)
  BY <1>1 DEF Inv, TypeOK, ServiceTypes, JournalState, Rank
<1>2. ASSUME Inv, NEW p \in Orders, NEW state, SetJournal(p, state),
             Rank[state] >= Rank[journal[p]], NEW o \in Orders
      PROVE  Forward(o)
  BY <1>1, <1>2 DEF SetJournal, Inv, TypeOK, ServiceTypes
<1>3. ASSUME Inv, NEW h \in Handlers, Start(h) \/ Acquire(h) \/ Proceed(h) \/ Fault(h),
             NEW o \in Orders
      PROVE  Forward(o)
  <2>1. CASE UNCHANGED journal
    BY <1>1, <1>3, <2>1
  <2>2. CASE Unclaim(h)
    <3>. PICK p \in Orders : ord[h] = p
      BY <1>3, <2>2 DEF Unclaim, Inv, LockInv
    <3>1. /\ journal[p] = "executing" /\ stale[p] /\ IsBuy(p)
          /\ IsV2Ray(p) => remote[p] = "absent"
      BY <1>3, <2>2, AtWork DEF Unclaim, At
    <3>2. journal' = [journal EXCEPT ![p] = "prepared"]
      BY <2>2, <3>1 DEF Unclaim, SetJournal
    <3>3. CASE o # p
      BY <1>1, <1>3, <3>2, <3>3 DEF Inv, TypeOK, ServiceTypes
    <3>4. CASE o = p
      BY <1>3, <3>1, <3>2, <3>4 DEF Inv, TypeOK, ServiceTypes
    <3>. QED
      BY <3>3, <3>4
  <2>3. CASE \E state \in {"prepared", "executing", "remote_done", "provisioned", "completed"} :
               /\ pc[h] # "idle"
               /\ SetJournal(ord[h], state) /\ Rank[state] >= Rank[journal[ord[h]]]
    <3>. PICK p \in Orders : ord[h] = p
      BY <1>3, <2>3 DEF Inv, LockInv
    <3>. QED
      BY <1>2, <1>3, <2>3
  <2>4. CASE Prepare(h) \/ Claim(h) \/ RemoteDone(h) \/ Save(h) \/ Complete(h)
    BY <2>1, <2>3, <2>4
    DEF Prepare, Claim, RemoteDone, Save, Complete, Rank, journalVars
  <2>. QED
    BY <1>3, <2>1, <2>2, <2>4
    DEF Start, Acquire, Proceed, Fault, PlaceLocal, StartVerify, StartDeliver, StartCancel,
        StartRelease, Authorize, Release, ReadFresh, Commit, Flag, ReadJournal, Lookup,
        Check, Write, Hydrate, ChargeReseller, RecordTransaction, MarkReferralUsed,
        RecordPurchase, CreditReward, Book, Send, Pop, Inspect, Refund, Drop, Fail,
        BookFails, WriteUnacknowledged, journalVars
<1>4. ASSUME Inv, Environment, NEW o \in Orders
      PROVE  Forward(o)
  <2>1. UNCHANGED journal
    BY <1>4 DEF Environment, Crash, PlaceGateway, Pay, Age, Land, Lose, journalVars
  <2>. QED
    BY <1>1, <1>4, <2>1
<1>5. Inv /\ [Next]_vars => [\A o \in Orders : Forward(o)]_vars
  BY <1>3, <1>4 DEF Next
<1>. QED
  BY <1>5, Inductive, PTL DEF Spec, JournalForward

-----------------------------------------------------------------------------
(***************************************************************************)
(* Part 2: what becomes of an order.                                       *)
(*                                                                         *)
(* The books of an order follow its service, and an order not paid at the  *)
(* gateway that leaves the pending table was served and announced, or      *)
(* given up with its money back.                                           *)
(*                                                                         *)
(* The invariant of part 1 says who may write; here it is                  *)
(* joined by what has been written for an order when a handler reaches     *)
(* each await of the bookkeeping, of the message and of a cancellation.    *)
(***************************************************************************)

(* The inductive invariant *)

Recorded(o) == journal[o] \in {"provisioned", "completed"}
Unclaimed(o) == journal[o] \in {"absent", "prepared"}
MoneyBack(o) == "debit" \in ledger[o] => "refund" \in ledger[o]

\* The order in which finalize_successful_order writes its rows.
Position == [account |-> 0, debt |-> 1, transaction |-> 2, referral |-> 3,
             purchase |-> 4, reward |-> 5, complete |-> 6]
RowsBefore(label, p) == {row \in BooksOf(p) : Position[row] < Position[label]}

\* The books of an order, and where it has gone.
Outcome(o) ==
    /\ books[o] \subseteq BooksOf(payload[o])
    /\ books[o] \ {"account"} # {} => Recorded(o)
    /\ Recorded(o) => "account" \in books[o]
    /\ journal[o] = "completed" => books[o] = BooksOf(payload[o])
    /\ "debit" \in ledger[o] => payload[o].wallet
    /\ Settled(o) /\ pending[o] = "gone" =>
          (journal[o] = "completed" /\ told[o]) \/ (Unclaimed(o) /\ MoneyBack(o))

\* What is known of the order at each await.
Knows(h, o) ==
    /\ pc[h] = "save" => "account" \in books[o]
    /\ pc[h] \in BookPc =>
          /\ Recorded(o)
          /\ pc[h] \in BooksOf(payload[o]) \cup {"complete"}
          /\ RowsBefore(pc[h], payload[o]) \subseteq books[o]
    /\ pc[h] = "send" /\ ok[h] => journal[o] = "completed"
    /\ pc[h] \in {"pop", "finish"} => journal[o] = "completed" /\ told[o]
    /\ pc[h] = "drop" => Unclaimed(o) /\ MoneyBack(o)
    /\ pc[h] = "release" => payload[o].method = "gateway"
    /\ pc[h] \in LockedPc \ {"fresh"} /\ Settled(o) => pending[o] = "open"

OutcomesInv == \A o \in Orders : Outcome(o)
KnowledgeInv == \A h \in Handlers, o \in Orders : pc[h] # "idle" /\ ord[h] = o => Knows(h, o)

\* bookkeeping_ok is set by the last bookkeeping transaction alone.
OkInv == \A h \in Handlers : ok[h] => pc[h] \in {"send", "pop", "finish"}

OutcomeInv == Inv /\ OutcomesInv /\ KnowledgeInv /\ OkInv

-----------------------------------------------------------------------------
(* Steps *)

\* What Outcome and Knows read of an order is as it was.
SameView(o) ==
    /\ payload'[o] = payload[o] /\ pending'[o] = pending[o] /\ ledger'[o] = ledger[o]
    /\ journal'[o] = journal[o] /\ books'[o] = books[o] /\ told'[o] = told[o]

\* The other handlers stand where they stood, this one goes on with its order
\* or returns.
OneMoves(h) ==
    /\ \A k \in Handlers \ {h} : pc'[k] = pc[k] /\ ord'[k] = ord[k] /\ ok'[k] = ok[k]
    /\ pc'[h] # "idle" => ord'[h] = ord[h]

\* An order nothing has happened to keeps its outcome.
LEMMA SameOutcome ==
    ASSUME NEW o \in Orders, Outcome(o), SameView(o)
    PROVE  Outcome(o)'
BY DEF Outcome, SameView, Recorded, Unclaimed, MoneyBack, Settled

\* And a handler that stands still what it knows of it.
LEMMA SameKnowledge ==
    ASSUME NEW o \in Orders, NEW h \in Handlers, Knows(h, o), SameView(o),
           pc'[h] = pc[h], ok'[h] = ok[h]
    PROVE  Knows(h, o)'
BY DEF Knows, SameView, Recorded, Unclaimed, MoneyBack, Settled

\* A handler under the lock answers for its own order only.
LEMMA LockedOutcome ==
    ASSUME OutcomeInv, NEW h \in Handlers, NEW o \in Orders, ord[h] = o, pc[h] \in LockedPc,
           OneMoves(h), \A q \in Orders \ {o} : SameView(q), payload'[o] = payload[o],
           Outcome(o)', pc'[h] # "idle" => Knows(h, o)'
    PROVE  OutcomesInv' /\ KnowledgeInv'
<1>1. OutcomesInv'
  BY SameOutcome DEF OutcomeInv, OutcomesInv
<1>2. ASSUME NEW k \in Handlers, NEW q \in Orders, pc'[k] # "idle", ord'[k] = q
      PROVE  Knows(k, q)'
  <2>1. CASE k = h
    BY <1>2, <2>1 DEF OneMoves
  <2>2. CASE k # h
    <3>1. pc'[k] = pc[k] /\ ok'[k] = ok[k] /\ ord[k] = q /\ Knows(k, q)
      BY <1>2, <2>2 DEF OneMoves, OutcomeInv, KnowledgeInv
    <3>2. CASE q # o
      BY <3>1, <3>2, SameKnowledge
    <3>3. CASE q = o
      <4>1. pc[k] \notin LockedPc
        BY <2>2, <3>1, <3>3, SoleHolder DEF OutcomeInv, Inv
      <4>. QED
        BY <3>1, <3>3, <4>1 DEF Knows
    <3>. QED
      BY <3>2, <3>3
  <2>. QED
    BY <2>1, <2>2
<1>. QED
  BY <1>1, <1>2 DEF OutcomesInv, KnowledgeInv

\* A handler that goes on leaves the others where they are.
LEMMA GotoMoves ==
    ASSUME TypeOK, NEW h \in Handlers, NEW label, Goto(h, label)
    PROVE  OneMoves(h) /\ pc'[h] = label /\ ok' = ok
BY DEF TypeOK, MemoryTypes, Goto, OneMoves

\* So does one that returns.
LEMMA LeaveMoves ==
    ASSUME TypeOK, NEW h \in Handlers, Leave(h)
    PROVE  OneMoves(h) /\ pc'[h] = "idle"
BY DEF TypeOK, MemoryTypes, Leave, OneMoves

\* What is known of a handler's order.
LEMMA Known ==
    ASSUME OutcomeInv, NEW h \in Handlers, NEW o \in Orders, ord[h] = o, pc[h] # "idle"
    PROVE  Outcome(o) /\ Knows(h, o) /\ At(h, o) /\ OrderInv(o)
BY AtWork DEF OutcomeInv, OutcomesInv, KnowledgeInv

\* A handler under the lock that returns and leaves its order as it was.
LEMMA PlainReturn ==
    ASSUME OutcomeInv, NEW h \in Handlers, pc[h] \in LockedPc, Leave(h),
           \A q \in Orders : SameView(q)
    PROVE  OutcomesInv' /\ KnowledgeInv'
<1>. PICK o \in Orders : ord[h] = o
  BY DEF OutcomeInv, Inv, LockInv
<1>1. Outcome(o)' /\ OneMoves(h) /\ pc'[h] = "idle"
  BY Known, SameOutcome, LeaveMoves DEF OutcomeInv, Inv
<1>. QED
  BY <1>1, LockedOutcome DEF SameView

\* One that goes on and leaves it as it was.
LEMMA PlainGoto ==
    ASSUME OutcomeInv, NEW h \in Handlers, NEW o \in Orders, ord[h] = o, pc[h] \in LockedPc,
           OneMoves(h), \A q \in Orders : SameView(q), Knows(h, o)'
    PROVE  OutcomesInv' /\ KnowledgeInv'
<1>1. Outcome(o)'
  BY Known, SameOutcome
<1>. QED
  BY <1>1, LockedOutcome DEF SameView

\* A step that leaves rows, money, journal and books alone changes no outcome.
LEMMA UnchangedView ==
    ASSUME UNCHANGED <<rowVars, moneyVars, journalVars, outcomeVars>>
    PROVE  \A q \in Orders : SameView(q)
BY DEF SameView, rowVars, moneyVars, journalVars, outcomeVars

-----------------------------------------------------------------------------
(* Up to the write *)

\* The awaits on the way to the write, of which Knows says nothing but that a
\* row the gateway has no part in is still pending.
WayPc == DeliverPc \ {"fresh", "save"}

\* There, a handler that goes on with an untouched row knows what it must.
LEMMA OnTheWay ==
    ASSUME OutcomeInv, NEW h \in Handlers, NEW o \in Orders, ord[h] = o,
           pc[h] \in LockedPc \ {"fresh"}, pc'[h] \in WayPc,
           payload'[o] = payload[o], pending'[o] = pending[o]
    PROVE  Knows(h, o)'
BY Known DEF Knows, WayPc, Settled

\* The fresh read: without a row there is nothing to do.
LEMMA ReadFreshOutcome ==
    ASSUME OutcomeInv, NEW h \in Handlers, NEW o \in Orders, ord[h] = o, ReadFresh(h)
    PROVE  OutcomesInv' /\ KnowledgeInv'
<1>1. pc[h] = "fresh" /\ \A q \in Orders : SameView(q)
  BY UnchangedView DEF ReadFresh
<1>2. CASE Leave(h)
  BY <1>1, <1>2, PlainReturn
<1>3. CASE ~Leave(h)
  <2>1. OneMoves(h) /\ pc'[h] \in {"inspect", "commit"} /\ pending[o] = "open"
    BY <1>3 DEF ReadFresh, OutcomeInv, Inv, TypeOK, MemoryTypes, OneMoves
  <2>2. Knows(h, o)'
    BY <1>1, <2>1 DEF Knows, SameView
  <2>. QED
    BY <1>1, <2>1, <2>2, PlainGoto
<1>. QED
  BY <1>2, <1>3

\* The wallet: only an order with a wallet part is debited.
LEMMA CommitOutcome ==
    ASSUME OutcomeInv, NEW h \in Handlers, NEW o \in Orders, ord[h] = o, Commit(h)
    PROVE  OutcomesInv' /\ KnowledgeInv'
<1>1. /\ pc[h] = "commit" /\ payload' = payload /\ pending' = pending /\ journal' = journal
      /\ books' = books /\ told' = told
  BY DEF Commit, rowVars, journalVars, outcomeVars
<1>2. CASE UNCHANGED ledger
  <2>1. \A q \in Orders : SameView(q)
    BY <1>1, <1>2 DEF SameView
  <2>2. CASE Leave(h)
    BY <1>1, <2>1, <2>2, PlainReturn
  <2>3. CASE Goto(h, "flag") \/ Goto(h, "fulfill")
    <3>1. OneMoves(h) /\ pc'[h] \in WayPc
      BY <2>3, GotoMoves DEF OutcomeInv, Inv, WayPc
    <3>. QED
      BY <1>1, <2>1, <3>1, OnTheWay, PlainGoto
  <2>. QED
    BY <2>2, <2>3 DEF Commit
<1>3. CASE /\ payload[o].wallet /\ Goto(h, "flag")
           /\ ledger' = [ledger EXCEPT ![o] = @ \cup {"debit"}]
  <2>1. OneMoves(h) /\ pc'[h] \in WayPc
    BY <1>3, GotoMoves DEF OutcomeInv, Inv, WayPc
  <2>2. \A q \in Orders \ {o} : SameView(q)
    BY <1>1, <1>3 DEF SameView, OutcomeInv, Inv, TypeOK, ServiceTypes
  <2>3. Outcome(o)'
    BY <1>1, <1>3, Known DEF Outcome, Knows, Recorded, Settled
  <2>. QED
    BY <1>1, <2>1, <2>2, <2>3, OnTheWay, LockedOutcome
<1>. QED
  BY <1>2, <1>3 DEF Commit

\* The flag, the reads and the remote mutations leave the view of the order.
LEMMA QuietOutcome ==
    ASSUME OutcomeInv, NEW h \in Handlers, NEW o \in Orders, ord[h] = o,
           Flag(h) \/ Lookup(h) \/ Check(h) \/ Write(h)
    PROVE  OutcomesInv' /\ KnowledgeInv'
<1>1. pc[h] \in LockedPc \ {"fresh"} /\ \A q \in Orders : SameView(q)
  BY DEF Flag, Lookup, Check, Write, SameView, rowVars, moneyVars, journalVars, outcomeVars
<1>2. OneMoves(h) /\ pc'[h] \in WayPc
  BY GotoMoves DEF Flag, Lookup, Check, Write, OutcomeInv, Inv, WayPc
<1>3. Knows(h, o)'
  BY <1>1, <1>2, OnTheWay DEF SameView
<1>. QED
  BY <1>1, <1>2, <1>3, PlainGoto

\* A stored result is replayed from the first row of the books.
LEMMA FirstRow ==
    ASSUME OutcomeInv, NEW h \in Handlers, NEW o \in Orders,
           payload'[o] = payload[o], books'[o] = books[o], pending'[o] = pending[o],
           Outcome(o), "account" \in books[o], Recorded(o)',
           Settled(o) => pending[o] = "open", pc'[h] = FirstBook(payload[o])
    PROVE  Knows(h, o)'
<1>1. /\ RowsBefore(FirstBook(payload[o]), payload[o]) \subseteq {"account"}
      /\ FirstBook(payload[o]) \in BooksOf(payload[o]) \cap {"debt", "transaction"}
  BY DEF RowsBefore, FirstBook, BooksOf, Position
<1>. QED
  BY <1>1 DEF Knows, Settled, RowsBefore, BooksOf

\* The journal read: a recorded order goes to its books, any other on towards the write.
LEMMA ReadJournalOutcome ==
    ASSUME OutcomeInv, NEW h \in Handlers, NEW o \in Orders, ord[h] = o, ReadJournal(h)
    PROVE  OutcomesInv' /\ KnowledgeInv'
<1>1. pc[h] = "fulfill" /\ (\A q \in Orders : SameView(q)) /\ Outcome(o) /\ Knows(h, o)
  BY UnchangedView, Known DEF ReadJournal
<1>2. CASE Leave(h)
  BY <1>1, <1>2, PlainReturn
<1>3. CASE Goto(h, Resume(o)) /\ Resume(o) # "idle"
  <2>1. OneMoves(h) /\ pc'[h] = Resume(o)
    BY <1>3, GotoMoves DEF OutcomeInv, Inv
  <2>2. CASE Recorded(o)
    <3>1. Resume(o) = FirstBook(payload[o])
      BY <2>2 DEF Resume, Recorded
    <3>2. "account" \in books[o] /\ (Settled(o) => pending[o] = "open") /\ Recorded(o)'
      BY <1>1, <2>2 DEF Outcome, Knows, SameView, Recorded
    <3>3. Knows(h, o)'
      BY <1>1, <2>1, <3>1, <3>2, FirstRow DEF SameView
    <3>. QED
      BY <1>1, <2>1, <3>3, PlainGoto
  <2>3. CASE ~Recorded(o)
    <3>1. Resume(o) \in WayPc
      BY <1>3, <2>3 DEF Resume, Recorded, WayPc, OutcomeInv, Inv, TypeOK, ServiceTypes, JournalState
    <3>. QED
      BY <1>1, <2>1, <3>1, OnTheWay, PlainGoto DEF SameView
  <2>. QED
    BY <2>2, <2>3
<1>. QED
  BY <1>2, <1>3 DEF ReadJournal

\* The journal before a result is stored: what Outcome says of it is not touched.
LEMMA EarlyJournal ==
    ASSUME OutcomeInv, NEW h \in Handlers, NEW o \in Orders, ord[h] = o,
           pc[h] \in LockedPc \ {"fresh"},
           NEW state \in {"prepared", "executing", "remote_done"}, SetJournal(o, state),
           ~Recorded(o), NEW label \in WayPc, Goto(h, label),
           UNCHANGED <<rowVars, moneyVars, outcomeVars>>
    PROVE  OutcomesInv' /\ KnowledgeInv'
<1>1. OneMoves(h) /\ pc'[h] \in WayPc
  BY GotoMoves DEF OutcomeInv, Inv
<1>2. /\ \A q \in Orders \ {o} : SameView(q)
      /\ payload' = payload /\ pending' = pending /\ books' = books /\ ledger' = ledger
      /\ journal'[o] = state
  BY DEF SetJournal, SameView, rowVars, moneyVars, outcomeVars, OutcomeInv, Inv, TypeOK, ServiceTypes
<1>3. Outcome(o)'
  BY <1>2, Known DEF Outcome, Knows, Recorded, Settled
<1>. QED
  BY <1>1, <1>2, <1>3, OnTheWay, LockedOutcome

\* prepare, take back, claim, record.
LEMMA JournalOutcome ==
    ASSUME OutcomeInv, NEW h \in Handlers, NEW o \in Orders, ord[h] = o,
           Unclaim(h) \/ Prepare(h) \/ Claim(h) \/ RemoteDone(h)
    PROVE  OutcomesInv' /\ KnowledgeInv'
<1>1. At(h, o) /\ pc[h] \in LockedPc \ {"fresh"}
  BY Known DEF Unclaim, Prepare, Claim, RemoteDone
<1>2. CASE Unclaim(h)
  BY <1>1, <1>2, EarlyJournal DEF Unclaim, At, Recorded, WayPc
<1>3. CASE Prepare(h)
  BY <1>1, <1>3, EarlyJournal DEF Prepare, At, Recorded, WayPc
<1>4. CASE Claim(h)
  BY <1>1, <1>4, EarlyJournal DEF Claim, At, Recorded, WayPc
<1>5. CASE RemoteDone(h)
  <2>1. CASE journal[o] \in {"prepared", "executing", "remote_done"}
    BY <1>1, <1>5, <2>1, EarlyJournal DEF RemoteDone, Recorded, WayPc
  <2>2. CASE journal[o] \notin {"prepared", "executing", "remote_done"}
    <3>1. \A q \in Orders : SameView(q)
      BY <1>5, <2>2, UnchangedView DEF RemoteDone
    <3>2. OneMoves(h) /\ pc'[h] \in WayPc
      BY <1>5, GotoMoves DEF RemoteDone, OutcomeInv, Inv, WayPc
    <3>. QED
      BY <1>1, <3>1, <3>2, OnTheWay, PlainGoto DEF SameView
  <2>. QED
    BY <2>1, <2>2
<1>. QED
  BY <1>2, <1>3, <1>4, <1>5

-----------------------------------------------------------------------------
(* The result, the books, the message *)

\* The account row comes first.
LEMMA HydrateOutcome ==
    ASSUME OutcomeInv, NEW h \in Handlers, NEW o \in Orders, ord[h] = o, Hydrate(h)
    PROVE  OutcomesInv' /\ KnowledgeInv'
<1>1. pc[h] = "hydrate" /\ Outcome(o) /\ Knows(h, o)
  BY Known DEF Hydrate
<1>2. OneMoves(h) /\ pc'[h] = "save"
  BY GotoMoves DEF Hydrate, OutcomeInv, Inv
<1>3. /\ \A q \in Orders \ {o} : SameView(q)
      /\ payload' = payload /\ pending' = pending /\ ledger' = ledger /\ journal' = journal
      /\ books'[o] = books[o] \cup {"account"}
  BY DEF Hydrate, SameView, rowVars, moneyVars, journalVars, OutcomeInv, Inv, TypeOK, ServiceTypes
<1>4. Outcome(o)'
  <2>1. "account" \in BooksOf(payload[o])
    BY DEF BooksOf
  <2>2. Settled(o) => pending[o] = "open"
    BY <1>1 DEF Knows
  <2>3. books[o] \cup {"account"} \subseteq BooksOf(payload[o])
    BY <1>1, <2>1 DEF Outcome
  <2>. QED
    BY <1>1, <1>3, <2>1, <2>2, <2>3 DEF Outcome, Recorded, Settled
<1>5. Knows(h, o)'
  BY <1>1, <1>2, <1>3 DEF Knows, Settled
<1>. QED
  BY <1>1, <1>2, <1>3, <1>4, <1>5, LockedOutcome

\* The journal of an order whose account row is there is set to a stored state.
LEMMA StoredJournal ==
    ASSUME OutcomeInv, NEW o \in Orders, Outcome(o),
           NEW state \in {"provisioned", "completed"}, SetJournal(o, state),
           "account" \in books[o], state = "completed" => books[o] = BooksOf(payload[o]),
           Settled(o) => pending[o] = "open",
           UNCHANGED <<rowVars, moneyVars, outcomeVars>>
    PROVE  /\ \A q \in Orders \ {o} : SameView(q)
           /\ payload' = payload /\ pending' = pending /\ books' = books /\ told' = told
           /\ journal'[o] = state /\ Outcome(o)'
<1>1. /\ \A q \in Orders \ {o} : SameView(q)
      /\ payload' = payload /\ pending' = pending /\ books' = books /\ told' = told
      /\ ledger' = ledger /\ journal'[o] = state
  BY DEF SetJournal, SameView, rowVars, moneyVars, outcomeVars, OutcomeInv, Inv, TypeOK, ServiceTypes
<1>. QED
  BY <1>1 DEF Outcome, Recorded, Settled

\* mark_fulfillment_provisioned: the books begin.
LEMMA SaveOutcome ==
    ASSUME OutcomeInv, NEW h \in Handlers, NEW o \in Orders, ord[h] = o, Save(h)
    PROVE  OutcomesInv' /\ KnowledgeInv'
<1>1. /\ pc[h] = "save" /\ Outcome(o) /\ "account" \in books[o]
      /\ Settled(o) => pending[o] = "open"
  BY Known DEF Save, Knows
<1>2. CASE journal[o] \in {"remote_done", "provisioned"}
  <2>1. OneMoves(h) /\ pc'[h] = FirstBook(payload[o])
    BY <1>2, GotoMoves DEF Save, OutcomeInv, Inv
  <2>2. /\ \A q \in Orders \ {o} : SameView(q)
        /\ payload' = payload /\ pending' = pending /\ books' = books
        /\ journal'[o] = "provisioned" /\ Outcome(o)'
    BY <1>1, <1>2, StoredJournal DEF Save
  <2>3. Knows(h, o)'
    BY <1>1, <2>1, <2>2, FirstRow DEF Recorded
  <2>. QED
    BY <1>1, <2>1, <2>2, <2>3, LockedOutcome
<1>3. CASE journal[o] \notin {"remote_done", "provisioned"}
  <2>1. \A q \in Orders : SameView(q)
    BY <1>3, UnchangedView DEF Save
  <2>2. CASE Leave(h)
    BY <1>1, <2>1, <2>2, PlainReturn
  <2>3. CASE journal[o] = "completed" /\ Goto(h, FirstBook(payload[o]))
    <3>1. OneMoves(h) /\ pc'[h] = FirstBook(payload[o]) /\ Recorded(o)'
      BY <2>1, <2>3, GotoMoves DEF OutcomeInv, Inv, Recorded, SameView
    <3>2. Knows(h, o)'
      BY <1>1, <2>1, <3>1, FirstRow DEF SameView
    <3>. QED
      BY <1>1, <2>1, <3>1, <3>2, PlainGoto
  <2>. QED
    BY <1>3, <2>2, <2>3 DEF Save
<1>. QED
  BY <1>2, <1>3

\* A row of the books, and the next one the order's kind asks for.
LEMMA BookOutcome ==
    ASSUME OutcomeInv, NEW h \in Handlers, NEW o \in Orders, ord[h] = o,
           NEW row \in BookPc \ {"complete"}, NEW next \in BookPc, Book(h, row, next),
           next \in BooksOf(payload[o]) \cup {"complete"},
           RowsBefore(next, payload[o]) \subseteq RowsBefore(row, payload[o]) \cup {row}
    PROVE  OutcomesInv' /\ KnowledgeInv'
<1>1. pc[h] = row /\ Outcome(o) /\ Knows(h, o)
  BY Known DEF Book
<1>2. OneMoves(h) /\ pc'[h] = next
  BY GotoMoves DEF Book, OutcomeInv, Inv
<1>3. /\ \A q \in Orders \ {o} : SameView(q)
      /\ payload' = payload /\ pending' = pending /\ ledger' = ledger /\ journal' = journal
      /\ told' = told /\ books'[o] = books[o] \cup {row}
  BY DEF Book, SameView, rowVars, moneyVars, journalVars, OutcomeInv, Inv, TypeOK, ServiceTypes
<1>4. /\ row \in BooksOf(payload[o]) /\ Recorded(o) /\ (Settled(o) => pending[o] = "open")
      /\ RowsBefore(row, payload[o]) \subseteq books[o]
  BY <1>1 DEF Knows
<1>5. books[o] \cup {row} \subseteq BooksOf(payload[o])
  BY <1>1, <1>4 DEF Outcome
<1>6. Outcome(o)'
  <2>1. journal[o] = "completed" => books[o] \cup {row} = BooksOf(payload[o])
    BY <1>1, <1>5 DEF Outcome
  <2>. QED
    BY <1>1, <1>3, <1>4, <1>5, <2>1 DEF Outcome, Recorded, Settled
<1>7. Knows(h, o)'
  <2>1. RowsBefore(next, payload[o]) \subseteq books[o] \cup {row}
    BY <1>4
  <2>. QED
    BY <1>2, <1>3, <1>4, <2>1 DEF Knows, Recorded, Settled, RowsBefore
<1>. QED
  BY <1>1, <1>2, <1>3, <1>6, <1>7, LockedOutcome

\* The five bookkeeping transactions, in their order.
LEMMA BooksOutcome ==
    ASSUME OutcomeInv, NEW h \in Handlers, NEW o \in Orders, ord[h] = o,
           \/ ChargeReseller(h) \/ RecordTransaction(h) \/ MarkReferralUsed(h)
           \/ RecordPurchase(h) \/ CreditReward(h)
    PROVE  OutcomesInv' /\ KnowledgeInv'
<1>. DEFINE p == payload[o]
<1>1. p.referred => p.action = "buy" /\ p.method # "reseller_debt"
  BY DEF OutcomeInv, Inv, TypeOK, RowTypes, Payload
<1>2. CASE ChargeReseller(h)
  <2>1. RowsBefore("transaction", p) \subseteq RowsBefore("debt", p) \cup {"debt"}
    BY DEF RowsBefore, BooksOf, Position
  <2>. QED
    BY <1>2, <2>1, BookOutcome DEF ChargeReseller, BooksOf
<1>3. CASE RecordTransaction(h)
  <2>. DEFINE then == IF p.action # "buy" THEN "complete"
                      ELSE IF p.referred THEN "referral" ELSE "purchase"
  <2>1. /\ then \in BooksOf(p) \cup {"complete"} /\ then \in BookPc
        /\ RowsBefore(then, p) \subseteq RowsBefore("transaction", p) \cup {"transaction"}
    BY <1>1 DEF RowsBefore, BooksOf, Position
  <2>. QED
    BY <1>3, <2>1, BookOutcome DEF RecordTransaction
<1>4. CASE MarkReferralUsed(h)
  <2>1. p.referred
    BY <1>4, Known DEF MarkReferralUsed, Book, Knows, BooksOf
  <2>2. RowsBefore("purchase", p) \subseteq RowsBefore("referral", p) \cup {"referral"}
    BY DEF RowsBefore, BooksOf, Position
  <2>. QED
    BY <1>1, <1>4, <2>1, <2>2, BookOutcome DEF MarkReferralUsed, BooksOf
<1>5. CASE RecordPurchase(h)
  <2>. DEFINE then == IF p.referred THEN "reward" ELSE "complete"
  <2>1. /\ then \in BooksOf(p) \cup {"complete"} /\ then \in BookPc
        /\ RowsBefore(then, p) \subseteq RowsBefore("purchase", p) \cup {"purchase"}
    BY DEF RowsBefore, BooksOf, Position
  <2>. QED
    BY <1>5, <2>1, BookOutcome DEF RecordPurchase
<1>6. CASE CreditReward(h)
  <2>1. RowsBefore("complete", p) \subseteq RowsBefore("reward", p) \cup {"reward"}
    BY DEF RowsBefore, BooksOf, Position
  <2>. QED
    BY <1>6, <2>1, BookOutcome DEF CreditReward
<1>. QED
  BY <1>2, <1>3, <1>4, <1>5, <1>6

\* mark_fulfillment_completed, when every row is there.
LEMMA CompleteOutcome ==
    ASSUME OutcomeInv, NEW h \in Handlers, NEW o \in Orders, ord[h] = o, Complete(h)
    PROVE  OutcomesInv' /\ KnowledgeInv'
<1>1. pc[h] = "complete" /\ Outcome(o) /\ Knows(h, o) /\ Recorded(o)
  BY Known DEF Complete, Knows
<1>2. OneMoves(h) /\ pc'[h] = "send"
  BY DEF Complete, OutcomeInv, Inv, TypeOK, MemoryTypes, OneMoves
<1>3. "account" \in books[o] /\ books[o] = BooksOf(payload[o])
  <2>1. RowsBefore("complete", payload[o]) = BooksOf(payload[o])
    BY DEF RowsBefore, BooksOf, Position
  <2>. QED
    BY <1>1, <2>1 DEF Knows, Outcome
<1>4. SetJournal(o, "completed") /\ UNCHANGED <<rowVars, moneyVars, outcomeVars>>
  BY <1>1 DEF Complete, Recorded
<1>5. /\ \A q \in Orders \ {o} : SameView(q)
      /\ payload' = payload /\ pending' = pending /\ journal'[o] = "completed" /\ Outcome(o)'
  BY <1>1, <1>3, <1>4, StoredJournal DEF Knows
<1>6. Knows(h, o)'
  BY <1>1, <1>2, <1>5 DEF Knows, Settled
<1>. QED
  BY <1>1, <1>2, <1>5, <1>6, LockedOutcome

\* The message, and the end of the row.
LEMMA SendOutcome ==
    ASSUME OutcomeInv, NEW h \in Handlers, NEW o \in Orders, ord[h] = o, Send(h) \/ Pop(h)
    PROVE  OutcomesInv' /\ KnowledgeInv'
<1>1. CASE Send(h)
  <2>1. pc[h] = "send" /\ Outcome(o) /\ Knows(h, o)
    BY <1>1, Known DEF Send
  <2>2. /\ \A q \in Orders \ {o} : SameView(q)
        /\ payload' = payload /\ pending' = pending /\ ledger' = ledger /\ journal' = journal
        /\ books' = books /\ told'[o]
    BY <1>1
    DEF Send, SameView, rowVars, moneyVars, journalVars, OutcomeInv, Inv, TypeOK, ServiceTypes
  <2>3. Outcome(o)'
    BY <2>1, <2>2 DEF Outcome, Recorded, Unclaimed, MoneyBack, Settled
  <2>4. OneMoves(h) /\ (pc'[h] = "idle" \/ (ok[h] /\ pc'[h] \in {"finish", "pop"}))
    BY <1>1, GotoMoves, LeaveMoves DEF Send, OutcomeInv, Inv
  <2>5. pc'[h] # "idle" => Knows(h, o)'
    BY <2>1, <2>2, <2>4 DEF Knows, Settled
  <2>. QED
    BY <2>1, <2>2, <2>3, <2>4, <2>5, LockedOutcome
<1>2. CASE Pop(h)
  <2>1. pc[h] = "pop" /\ Outcome(o) /\ journal[o] = "completed" /\ told[o]
    BY <1>2, Known DEF Pop, Knows
  <2>2. /\ \A q \in Orders \ {o} : SameView(q)
        /\ payload' = payload /\ ledger' = ledger /\ journal' = journal
        /\ books' = books /\ told' = told
    BY <1>2
    DEF Pop, SameView, moneyVars, journalVars, outcomeVars, OutcomeInv, Inv, TypeOK, RowTypes
  <2>3. Outcome(o)'
    BY <2>1, <2>2 DEF Outcome, Recorded
  <2>4. OneMoves(h) /\ pc'[h] = "idle"
    BY <1>2, LeaveMoves DEF Pop, OutcomeInv, Inv
  <2>. QED
    BY <2>1, <2>2, <2>3, <2>4, LockedOutcome
<1>. QED
  BY <1>1, <1>2

-----------------------------------------------------------------------------
(* Cancellation, failures *)

\* A cancellation returns the debit before it drops the row.
LEMMA CancelOutcome ==
    ASSUME OutcomeInv, NEW h \in Handlers, NEW o \in Orders, ord[h] = o,
           Inspect(h) \/ Refund(h) \/ Drop(h)
    PROVE  OutcomesInv' /\ KnowledgeInv'
<1>1. pc[h] \in {"inspect", "refund", "drop"} /\ Outcome(o) /\ Knows(h, o) /\ At(h, o)
  BY Known DEF Inspect, Refund, Drop
<1>2. CASE Inspect(h)
  <2>1. \A q \in Orders : SameView(q)
    BY <1>2, UnchangedView DEF Inspect
  <2>2. CASE Leave(h)
    BY <1>1, <2>1, <2>2, PlainReturn
  <2>3. CASE ~Leave(h)
    <3>1. /\ Unclaimed(o)
          /\ \/ Goto(h, "refund")
             \/ Goto(h, "drop") /\ ~(payload[o].wallet /\ "debit" \in ledger[o])
      BY <1>2, <2>3
      DEF Inspect, Unclaimed, OutcomeInv, Inv, TypeOK, ServiceTypes, JournalState
    <3>2. /\ OneMoves(h) /\ pc'[h] \in {"refund", "drop"}
          /\ pc'[h] = "drop" => "debit" \notin ledger[o]
      BY <1>1, <3>1, GotoMoves DEF Outcome, OutcomeInv, Inv
    <3>3. Knows(h, o)'
      BY <1>1, <1>2, <2>1, <3>1, <3>2
      DEF Inspect, Knows, SameView, Unclaimed, MoneyBack, Settled
    <3>. QED
      BY <1>1, <2>1, <3>2, <3>3, PlainGoto
  <2>. QED
    BY <2>2, <2>3
<1>3. CASE Refund(h)
  <2>1. pc[h] = "refund" /\ OneMoves(h) /\ pc'[h] = "drop"
    BY <1>3, GotoMoves DEF Refund, OutcomeInv, Inv
  <2>2. /\ \A q \in Orders \ {o} : SameView(q)
        /\ payload' = payload /\ pending' = pending /\ journal' = journal /\ books' = books
        /\ told' = told /\ ledger'[o] = ledger[o] \cup {"refund"}
    BY <1>3
    DEF Refund, SameView, rowVars, journalVars, outcomeVars, OutcomeInv, Inv, TypeOK, ServiceTypes
  <2>3. Outcome(o)'
    BY <1>1, <2>1, <2>2 DEF Outcome, Recorded, Unclaimed, MoneyBack, Settled
  <2>4. Knows(h, o)'
    BY <1>1, <2>1, <2>2 DEF Knows, At, Unclaimed, MoneyBack, Settled
  <2>. QED
    BY <2>1, <2>2, <2>3, <2>4, LockedOutcome
<1>4. CASE Drop(h)
  <2>1. pc[h] = "drop" /\ Unclaimed(o) /\ MoneyBack(o)
    BY <1>1, <1>4 DEF Drop, Knows
  <2>2. /\ \A q \in Orders \ {o} : SameView(q)
        /\ payload' = payload /\ ledger' = ledger /\ journal' = journal
        /\ books' = books /\ told' = told
    BY <1>4
    DEF Drop, SameView, moneyVars, journalVars, outcomeVars, OutcomeInv, Inv, TypeOK, RowTypes
  <2>3. Outcome(o)'
    BY <1>1, <2>1, <2>2 DEF Outcome, Recorded, Unclaimed, MoneyBack
  <2>4. OneMoves(h) /\ pc'[h] = "idle"
    BY <1>4, LeaveMoves DEF Drop, OutcomeInv, Inv
  <2>. QED
    BY <2>1, <2>2, <2>3, <2>4, LockedOutcome
<1>. QED
  BY <1>2, <1>3, <1>4

\* Failures of a handler leave the view of every order; one whose bookkeeping
\* failed is announced with its row kept.
LEMMA FaultOutcome ==
    ASSUME OutcomeInv, NEW h \in Handlers, NEW o \in Orders, ord[h] = o, Fault(h)
    PROVE  OutcomesInv' /\ KnowledgeInv'
<1>1. \A q \in Orders : SameView(q)
  BY UnchangedView DEF Fault, Fail, BookFails, WriteUnacknowledged
<1>2. CASE Leave(h)
  <2>1. /\ \A q \in Orders : Outcome(q)'
        /\ \A k \in Handlers, q \in Orders : pc'[k] # "idle" /\ ord'[k] = q => Knows(k, q)'
    BY <1>1, <1>2, LeaveMoves, SameOutcome, SameKnowledge
    DEF OneMoves, OutcomeInv, OutcomesInv, KnowledgeInv, Inv
  <2>. QED
    BY <2>1 DEF OutcomesInv, KnowledgeInv
<1>3. CASE BookFails(h)
  <2>1. OneMoves(h) /\ pc'[h] = "send" /\ pc[h] \in BookPc /\ ok'[h] = ok[h] /\ ~ok[h]
    BY <1>3 DEF BookFails, OutcomeInv, Inv, TypeOK, MemoryTypes, OneMoves, OkInv
  <2>2. Knows(h, o)'
    BY <1>1, <2>1, Known DEF Knows, SameView, Settled
  <2>. QED
    BY <1>1, <2>1, <2>2, PlainGoto
<1>. QED
  BY <1>2, <1>3 DEF Fault, Fail, WriteUnacknowledged

-----------------------------------------------------------------------------
(* Before the lock, and outside the handlers *)

\* The row of an order nobody works on may go once it is served, or undone with
\* its money back.
MayClose(o) ==
    /\ (journal[o] = "completed" /\ told[o]) \/ (Unclaimed(o) /\ MoneyBack(o))
    /\ \A k \in Handlers : ord'[k] = o => pc'[k] \notin LockedPc \ {"fresh"}

\* What is written for an order is as it was; its row may have appeared, or gone
\* in time.
LEMMA OutsideOutcome ==
    ASSUME OutcomeInv,
           \A q \in Orders :
              /\ payload'[q] = payload[q] /\ ledger'[q] = ledger[q] /\ journal'[q] = journal[q]
              /\ books'[q] = books[q] /\ told'[q] = told[q]
              /\ \/ pending'[q] = pending[q] \/ pending'[q] = "open"
                 \/ ~Settled(q) \/ MayClose(q),
           \A k \in Handlers :
              \/ pc'[k] \in {"idle", "waiting", "authorize", "fresh"}
              \/ pc'[k] = "release" /\ payload[ord'[k]].method = "gateway"
              \/ pc'[k] = pc[k] /\ ord'[k] = ord[k] /\ ok'[k] = ok[k]
    PROVE  OutcomesInv' /\ KnowledgeInv'
<1>1. ASSUME NEW q \in Orders
      PROVE  Outcome(q)'
  BY DEF OutcomeInv, OutcomesInv, Outcome, MayClose, Recorded, Unclaimed, MoneyBack, Settled
<1>2. ASSUME NEW k \in Handlers, NEW q \in Orders, pc'[k] # "idle", ord'[k] = q
      PROVE  Knows(k, q)'
  <2>1. CASE pc'[k] \in {"waiting", "authorize", "fresh", "release"}
    BY <1>2, <2>1 DEF Knows, OutcomeInv, KnowledgeInv
  <2>2. CASE pc'[k] \notin {"waiting", "authorize", "fresh", "release"}
    <3>1. pc'[k] = pc[k] /\ ord[k] = q /\ ok'[k] = ok[k] /\ Knows(k, q)
      BY <1>2, <2>2 DEF OutcomeInv, KnowledgeInv
    <3>. QED
      BY <1>2, <3>1 DEF Knows, MayClose, Recorded, Unclaimed, MoneyBack, Settled
  <2>. QED
    BY <2>1, <2>2
<1>. QED
  BY <1>1, <1>2 DEF OutcomesInv, KnowledgeInv

\* A handler is started, with a row of its own when the order is local.
LEMMA StartOutcome ==
    ASSUME OutcomeInv, NEW h \in Handlers, Start(h)
    PROVE  OutcomesInv' /\ KnowledgeInv'
<1>. PICK o \in Orders :
        PlaceLocal(h, o) \/ StartVerify(h, o) \/ StartDeliver(h, o)
        \/ StartCancel(h, o) \/ StartRelease(h, o)
  BY DEF Start
<1>1. \A q \in Orders :
        /\ payload'[q] = payload[q] /\ ledger'[q] = ledger[q] /\ journal'[q] = journal[q]
        /\ books'[q] = books[q] /\ told'[q] = told[q]
        /\ pending'[q] = pending[q] \/ pending'[q] = "open"
  BY DEF PlaceLocal, StartVerify, StartDeliver, StartCancel, StartRelease, rowVars, moneyVars,
         journalVars, outcomeVars, OutcomeInv, Inv, TypeOK, RowTypes
<1>2. \E label \in {"waiting", "authorize", "release"} :
        /\ label = "release" => payload[o].method = "gateway"
        /\ \E why : Enter(h, o, label, why)
  BY DEF PlaceLocal, StartVerify, StartDeliver, StartCancel, StartRelease
<1>3. /\ pc'[h] \in {"waiting", "authorize", "release"} /\ ord'[h] = o
      /\ pc'[h] = "release" => payload[o].method = "gateway"
      /\ \A k \in Handlers \ {h} : pc'[k] = pc[k] /\ ord'[k] = ord[k] /\ ok'[k] = ok[k]
  BY <1>2 DEF Enter, OutcomeInv, Inv, TypeOK, MemoryTypes
<1>. QED
  BY <1>1, <1>3, OutsideOutcome

\* Payment proof, lock and release; only gateway orders are released.
LEMMA FreeOutcome ==
    ASSUME OutcomeInv, NEW h \in Handlers, NEW o \in Orders, ord[h] = o,
           Authorize(h) \/ Acquire(h) \/ Release(h)
    PROVE  OutcomesInv' /\ KnowledgeInv'
<1>1. pc[h] = "release" => payload[o].method = "gateway"
  BY Known DEF Knows
<1>2. \A q \in Orders :
        /\ payload'[q] = payload[q] /\ ledger'[q] = ledger[q] /\ journal'[q] = journal[q]
        /\ books'[q] = books[q] /\ told'[q] = told[q]
        /\ pending'[q] = pending[q] \/ ~Settled(q)
  BY <1>1
  DEF Authorize, Acquire, Release, rowVars, moneyVars, journalVars, outcomeVars, Settled,
      OutcomeInv, Inv, TypeOK, RowTypes
<1>3. /\ pc'[h] \in {"idle", "waiting", "fresh"}
      /\ \A k \in Handlers \ {h} : pc'[k] = pc[k] /\ ord'[k] = ord[k] /\ ok'[k] = ok[k]
  BY DEF Authorize, Acquire, Release, Goto, Leave, OutcomeInv, Inv, TypeOK, MemoryTypes
<1>. QED
  BY <1>2, <1>3, OutsideOutcome

\* The gateway, time, late requests and the death of the process.
LEMMA EnvironmentOutcome ==
    ASSUME OutcomeInv, Environment
    PROVE  OutcomesInv' /\ KnowledgeInv'
<1>1. CASE Crash
  <2>1. /\ \A q \in Orders : SameView(q)
        /\ \A k \in Handlers : pc'[k] = "idle"
    BY <1>1, UnchangedView DEF Crash
  <2>. QED
    BY <2>1, OutsideOutcome DEF SameView
<1>2. ASSUME NEW o \in Orders, PlaceGateway(o)
      PROVE  OutcomesInv' /\ KnowledgeInv'
  <2>1. /\ \A q \in Orders :
              /\ payload'[q] = payload[q] /\ ledger'[q] = ledger[q] /\ journal'[q] = journal[q]
              /\ books'[q] = books[q] /\ told'[q] = told[q]
              /\ pending'[q] = pending[q] \/ pending'[q] = "open"
        /\ UNCHANGED memoryVars
    BY <1>2
    DEF PlaceGateway, moneyVars, journalVars, outcomeVars, OutcomeInv, Inv, TypeOK, RowTypes
  <2>. QED
    BY <2>1, OutsideOutcome DEF memoryVars
<1>3. ASSUME NEW o \in Orders, Pay(o) \/ Age(o) \/ Land(o) \/ Lose(o)
      PROVE  OutcomesInv' /\ KnowledgeInv'
  <2>1. (\A q \in Orders : SameView(q)) /\ UNCHANGED memoryVars
    BY <1>3
    DEF Pay, Age, Land, Lose, SameView, rowVars, moneyVars, journalVars, outcomeVars
  <2>. QED
    BY <2>1, OutsideOutcome DEF SameView, memoryVars
<1>. QED
  BY <1>1, <1>2, <1>3 DEF Environment

-----------------------------------------------------------------------------
(* bookkeeping_ok *)

\* A new handler starts without it, and only Complete sets it.
LEMMA OkNext ==
    ASSUME TypeOK, OkInv, Next
    PROVE  OkInv'
<1>1. ASSUME NEW h \in Handlers, Start(h) \/ Acquire(h) \/ Proceed(h) \/ Fault(h)
      PROVE  OkInv'
  <2>1. CASE Start(h) \/ Acquire(h) \/ ReadFresh(h)
    BY <2>1
    DEF Start, PlaceLocal, StartVerify, StartDeliver, StartCancel, StartRelease, Enter,
        Acquire, ReadFresh, Leave, OkInv, TypeOK, MemoryTypes
  <2>2. CASE Complete(h) \/ BookFails(h)
    BY <2>2 DEF Complete, BookFails, OkInv, TypeOK, MemoryTypes
  <2>3. CASE Leave(h)
    BY <2>3 DEF Leave, OkInv, TypeOK, MemoryTypes
  <2>4. CASE \E label : Goto(h, label) /\ pc[h] \notin {"send", "pop", "finish"}
    BY <2>4 DEF Goto, OkInv, TypeOK, MemoryTypes
  <2>5. CASE Send(h)
    BY <2>3, <2>5 DEF Send, Goto, OkInv, TypeOK, MemoryTypes
  <2>6. CASE Authorize(h) \/ Commit(h) \/ Flag(h) \/ ReadJournal(h) \/ Lookup(h) \/ Unclaim(h)
             \/ Prepare(h) \/ Check(h) \/ Claim(h) \/ Write(h) \/ RemoteDone(h) \/ Hydrate(h)
             \/ Save(h)
    BY <2>3, <2>4, <2>6
    DEF Authorize, Commit, Flag, ReadJournal, Lookup, Unclaim, Prepare, Check, Claim, Write,
        RemoteDone, Hydrate, Save
  <2>7. CASE ChargeReseller(h) \/ RecordTransaction(h) \/ MarkReferralUsed(h)
             \/ RecordPurchase(h) \/ CreditReward(h) \/ Inspect(h) \/ Refund(h)
    BY <2>3, <2>4, <2>7
    DEF ChargeReseller, RecordTransaction, MarkReferralUsed, RecordPurchase, CreditReward,
        Book, Inspect, Refund
  <2>8. CASE Release(h) \/ Pop(h) \/ Drop(h) \/ Fail(h) \/ WriteUnacknowledged(h)
    BY <2>3, <2>8 DEF Release, Pop, Drop, Fail, WriteUnacknowledged
  <2>. QED
    BY <1>1, <2>1, <2>2, <2>5, <2>6, <2>7, <2>8 DEF Proceed, Fault
<1>2. CASE Environment
  BY <1>2
  DEF Environment, Crash, PlaceGateway, Pay, Age, Land, Lose, memoryVars, OkInv
<1>. QED
  BY <1>1, <1>2 DEF Next

-----------------------------------------------------------------------------
(* The invariant, and what it says *)

\* Nothing is written for an order yet, and no handler works.
LEMMA OutcomeInitially == Init => OutcomeInv
<1>. SUFFICES ASSUME Init PROVE OutcomeInv
  OBVIOUS
<1>1. OutcomesInv
  BY DEF Init, OutcomesInv, Outcome, Recorded, BooksOf
<1>2. KnowledgeInv /\ OkInv
  BY DEF Init, KnowledgeInv, OkInv
<1>. QED
  BY <1>1, <1>2, InitInv DEF OutcomeInv

\* Every step keeps it.
LEMMA OutcomeNext == OutcomeInv /\ [Next]_vars => OutcomeInv'
<1>. SUFFICES ASSUME OutcomeInv, [Next]_vars PROVE OutcomeInv'
  OBVIOUS
<1>1. Inv'
  BY NextInv DEF OutcomeInv
<1>2. CASE UNCHANGED vars
  <2>1. (\A q \in Orders : SameView(q)) /\ UNCHANGED memoryVars
    BY <1>2, UnchangedView DEF vars
  <2>2. OutcomesInv' /\ KnowledgeInv' /\ OkInv'
    BY <2>1, OutsideOutcome DEF SameView, memoryVars, OutcomeInv, OkInv
  <2>. QED
    BY <1>1, <2>2 DEF OutcomeInv
<1>3. CASE Next
  <2>1. OkInv'
    BY <1>3, OkNext DEF OutcomeInv, Inv
  <2>2. ASSUME NEW h \in Handlers, Acquire(h) \/ Proceed(h) \/ Fault(h)
        PROVE  OutcomesInv' /\ KnowledgeInv'
    <3>1. pc[h] # "idle"
      BY <2>2
      DEF Proceed, Fault, Acquire, Authorize, Release, ReadFresh, Commit, Flag, ReadJournal,
          Lookup, Unclaim, Prepare, Check, Claim, Write, RemoteDone, Hydrate, Save,
          ChargeReseller, RecordTransaction, MarkReferralUsed, RecordPurchase, CreditReward,
          Book, Complete, Send, Pop, Inspect, Refund, Drop, Fail, BookFails,
          WriteUnacknowledged
    <3>. PICK o \in Orders : ord[h] = o
      BY <3>1 DEF OutcomeInv, Inv, LockInv
    <3>. QED
      BY <2>2, FreeOutcome, ReadFreshOutcome, CommitOutcome, QuietOutcome,
         ReadJournalOutcome, JournalOutcome, HydrateOutcome, SaveOutcome, BooksOutcome,
         CompleteOutcome, SendOutcome, CancelOutcome, FaultOutcome
      DEF Proceed
  <2>3. OutcomesInv' /\ KnowledgeInv'
    BY <1>3, <2>2, StartOutcome, EnvironmentOutcome DEF Next
  <2>. QED
    BY <1>1, <2>1, <2>3 DEF OutcomeInv
<1>. QED
  BY <1>2, <1>3

\* What has been written for every order at every await of the bookkeeping, of
\* the message and of a cancellation (_deliver_verified_pending_unlocked and
\* _cancel_local_pending) is so throughout.
THEOREM OutcomeInductive == Spec => []OutcomeInv
BY OutcomeInitially, OutcomeNext, PTL DEF Spec

\* Financial rows follow the grant of the package, and an order is completed
\* with all of them (finalize_successful_order before mark_fulfillment_completed).
THEOREM BooksInOrder == Spec => []BooksFollowService
<1>1. ASSUME OutcomeInv, NEW o \in Orders
      PROVE  /\ books[o] \ {"account"} # {} => applied[o] = 1 /\ Recorded(o)
             /\ journal[o] = "completed" => books[o] = BooksOf(payload[o])
  <2>1. Outcome(o) /\ OrderInv(o)
    BY <1>1 DEF OutcomeInv, OutcomesInv, Inv, OrdersInv
  <2>. QED
    BY <2>1 DEF Outcome, OrderInv, Recorded
<1>2. OutcomeInv => BooksFollowService
  BY <1>1 DEF BooksFollowService, Recorded
<1>. QED
  BY <1>2, OutcomeInductive, PTL

\* A wallet, owner or reseller order leaves the pending table served, recorded
\* and announced, or given up before its write with its money back
\* (pop_pending after ok, and _cancel_local_pending under the order lock).
THEOREM NoOrderLost == Spec => []NoLocalOrderLost
<1>1. OutcomeInv => NoLocalOrderLost
  BY DEF OutcomeInv, OutcomesInv, Outcome, Unclaimed, MoneyBack, NoLocalOrderLost, Settled,
     IsLocal, LocalMethods
<1>. QED
  BY <1>1, OutcomeInductive, PTL

-----------------------------------------------------------------------------
(***************************************************************************)
(* Part 3: the promise.                                                    *)
(*                                                                         *)
(* The delivery pipeline implements OrderPromise: every step of it is,     *)
(* order by order, the taking of a price, a grant, a return or a closing   *)
(* that the promise allows, or changes nothing the promise speaks of.      *)
(***************************************************************************)

\* What the outcomes of part 2 leave open: on 3x-ui a prepared order
\* has no grant, and whoever returns a price has seen it taken.
PreparedInv == \A o \in Orders : journal[o] = "prepared" /\ IsV2Ray(o) => applied[o] = 0
RefundsInv ==
    \A h \in Handlers, o \in Orders : pc[h] = "refund" /\ ord[h] = o => "debit" \in ledger[o]

PromiseInv == OutcomeInv /\ PreparedInv /\ RefundsInv

-----------------------------------------------------------------------------
(* The two additions to the invariant *)

\* Who writes journal and remote side, and what: the recovery of a purchase has
\* asked 3x-ui, and a mutation is under way only while the order is executing.
LEMMA PreparedNext ==
    ASSUME OutcomeInv, PreparedInv, Next
    PROVE  PreparedInv'
<1>. TypeOK
  BY DEF OutcomeInv, Inv
<1>1. payload' = payload
  BY DEF Next, Start, PlaceLocal, StartVerify, StartDeliver, StartCancel, StartRelease, Acquire,
         Proceed, Authorize, Release, ReadFresh, Commit, Flag, ReadJournal, Lookup, Unclaim,
         Prepare, Check, Claim, Write, RemoteDone, Hydrate, Save, ChargeReseller,
         RecordTransaction, MarkReferralUsed, RecordPurchase, CreditReward, Book, Complete, Send,
         Pop, Inspect, Refund, Drop, Fault, Fail, BookFails, WriteUnacknowledged, Environment,
         Crash, PlaceGateway, Pay, Age, Land, Lose, rowVars
<1>2. ASSUME NEW h \in Handlers, Unclaim(h) \/ Prepare(h)
      PROVE  PreparedInv'
  <2>. PICK o \in Orders : ord[h] = o
    BY <1>2 DEF Unclaim, Prepare, OutcomeInv, Inv, LockInv
  <2>1. At(h, o) /\ OrderInv(o) /\ applied' = applied
    BY <1>2, Known DEF Unclaim, Prepare, remoteVars
  <2>2. IsV2Ray(o) => applied[o] = 0
    BY <1>2, <2>1 DEF Unclaim, Prepare, At, OrderInv
  <2>3. \A q \in Orders \ {o} : journal'[q] = journal[q]
    BY <1>2 DEF Unclaim, Prepare, SetJournal, journalVars, TypeOK, ServiceTypes
  <2>. QED
    BY <1>1, <2>1, <2>2, <2>3 DEF PreparedInv, IsV2Ray
<1>3. ASSUME NEW h \in Handlers, Write(h)
      PROVE  PreparedInv'
  <2>. PICK o \in Orders : ord[h] = o
    BY <1>3 DEF Write, OutcomeInv, Inv, LockInv
  <2>1. journal[o] = "executing" /\ journal' = journal
    BY <1>3, Known DEF Write, At, journalVars
  <2>2. \A q \in Orders \ {o} : applied'[q] = applied[q]
    BY <1>3 DEF Write, Mutate, TypeOK, ServiceTypes
  <2>. QED
    BY <1>1, <2>1, <2>2 DEF PreparedInv, IsV2Ray
<1>4. ASSUME NEW o \in Orders, Land(o)
      PROVE  PreparedInv'
  <2>1. journal[o] = "executing" /\ journal' = journal
    BY <1>4 DEF Land, OutcomeInv, Inv, OrdersInv, OrderInv, journalVars
  <2>2. \A q \in Orders \ {o} : applied'[q] = applied[q]
    BY <1>4 DEF Land, Mutate, TypeOK, ServiceTypes
  <2>. QED
    BY <1>1, <2>1, <2>2 DEF PreparedInv, IsV2Ray
<1>5. CASE applied' = applied /\ \A q \in Orders : journal'[q] = "prepared" => journal[q] = "prepared"
  BY <1>1, <1>5 DEF PreparedInv, IsV2Ray
<1>6. ASSUME NEW h \in Handlers, Start(h) \/ Acquire(h) \/ Fault(h)
      PROVE  PreparedInv'
  BY <1>5, <1>6
  DEF Start, PlaceLocal, StartVerify, StartDeliver, StartCancel, StartRelease, Acquire, Fault,
      Fail, BookFails, WriteUnacknowledged, journalVars, remoteVars
<1>7. ASSUME NEW h \in Handlers, Claim(h) \/ RemoteDone(h) \/ Save(h) \/ Complete(h)
      PROVE  PreparedInv'
  BY <1>5, <1>7
  DEF Claim, RemoteDone, Save, Complete, SetJournal, journalVars, remoteVars, TypeOK,
      ServiceTypes
<1>8. ASSUME NEW h \in Handlers,
             \/ Authorize(h) \/ Release(h) \/ ReadFresh(h) \/ Commit(h) \/ Flag(h)
             \/ ReadJournal(h) \/ Lookup(h) \/ Check(h) \/ Hydrate(h)
             \/ ChargeReseller(h) \/ RecordTransaction(h) \/ MarkReferralUsed(h)
             \/ RecordPurchase(h) \/ CreditReward(h) \/ Send(h) \/ Pop(h)
             \/ Inspect(h) \/ Refund(h) \/ Drop(h)
      PROVE  PreparedInv'
  BY <1>5, <1>8
  DEF Authorize, Release, ReadFresh, Commit, Flag, ReadJournal, Lookup, Check, Hydrate,
      ChargeReseller, RecordTransaction, MarkReferralUsed, RecordPurchase, CreditReward, Book,
      Send, Pop, Inspect, Refund, Drop, journalVars, remoteVars
<1>9. CASE Environment
  BY <1>4, <1>5, <1>9
  DEF Environment, Crash, PlaceGateway, Pay, Age, Lose, journalVars, remoteVars
<1>. QED
  BY <1>2, <1>3, <1>6, <1>7, <1>8, <1>9 DEF Next, Proceed

\* Only Inspect sends a handler to the refund, with the debit in the ledger,
\* and the ledger only grows.
LEMMA RefundsNext ==
    ASSUME OutcomeInv, RefundsInv, Next
    PROVE  RefundsInv'
<1>. TypeOK
  BY DEF OutcomeInv, Inv
<1>1. CASE /\ \A q \in Orders : ledger[q] \subseteq ledger'[q]
           /\ \A k \in Handlers : pc'[k] = "refund" => pc[k] = "refund" /\ ord'[k] = ord[k]
  BY <1>1 DEF RefundsInv
<1>2. ASSUME NEW h \in Handlers, OneMoves(h), pc'[h] # "refund",
             \A q \in Orders : ledger[q] \subseteq ledger'[q]
      PROVE  RefundsInv'
  BY <1>1, <1>2 DEF OneMoves
<1>3. ASSUME NEW h \in Handlers, Start(h) \/ Acquire(h) \/ Fault(h)
      PROVE  RefundsInv'
  <2>1. ledger' = ledger
    BY <1>3
    DEF Start, PlaceLocal, StartVerify, StartDeliver, StartCancel, StartRelease, Acquire, Fault,
        Fail, BookFails, WriteUnacknowledged, moneyVars
  <2>2. /\ \A k \in Handlers \ {h} : pc'[k] = pc[k] /\ ord'[k] = ord[k]
        /\ pc'[h] # "refund"
    BY <1>3
    DEF Start, PlaceLocal, StartVerify, StartDeliver, StartCancel, StartRelease, Acquire, Fault,
        Fail, BookFails, WriteUnacknowledged, Enter, Leave, TypeOK, MemoryTypes
  <2>. QED
    BY <1>1, <2>1, <2>2
<1>4. ASSUME NEW h \in Handlers, ReadFresh(h) \/ Complete(h)
      PROVE  RefundsInv'
  <2>1. /\ ledger' = ledger /\ pc'[h] # "refund"
        /\ \A k \in Handlers \ {h} : pc'[k] = pc[k] /\ ord'[k] = ord[k]
    BY <1>4 DEF ReadFresh, Complete, Leave, moneyVars, TypeOK, MemoryTypes
  <2>. QED
    BY <1>1, <2>1
<1>5. ASSUME NEW h \in Handlers,
             \/ Authorize(h) \/ Release(h) \/ Flag(h) \/ Lookup(h) \/ Unclaim(h) \/ Prepare(h)
             \/ Check(h) \/ Claim(h) \/ Write(h) \/ RemoteDone(h) \/ Hydrate(h)
      PROVE  RefundsInv'
  BY <1>2, <1>5, GotoMoves, LeaveMoves
  DEF Authorize, Release, Flag, Lookup, Unclaim, Prepare, Check, Claim, Write, RemoteDone,
      Hydrate, moneyVars
<1>6. ASSUME NEW h \in Handlers,
             \/ ReadJournal(h) \/ Save(h) \/ ChargeReseller(h) \/ RecordTransaction(h)
             \/ MarkReferralUsed(h) \/ RecordPurchase(h) \/ CreditReward(h) \/ Send(h)
             \/ Pop(h) \/ Drop(h)
      PROVE  RefundsInv'
  <2>1. ledger' = ledger
    BY <1>6
    DEF ReadJournal, Save, ChargeReseller, RecordTransaction, MarkReferralUsed, RecordPurchase,
        CreditReward, Book, Send, Pop, Drop, moneyVars
  <2>2. \A o \in Orders : Resume(o) # "refund" /\ FirstBook(payload[o]) # "refund"
    BY DEF Resume, FirstBook, TypeOK, ServiceTypes, JournalState
  <2>3. ord[h] \in Orders
    BY <1>6
    DEF ReadJournal, Save, ChargeReseller, RecordTransaction, MarkReferralUsed, RecordPurchase,
        CreditReward, Book, Send, Pop, Drop, OutcomeInv, Inv, LockInv
  <2>4. OneMoves(h) /\ pc'[h] # "refund"
    BY <1>6, <2>2, <2>3, GotoMoves, LeaveMoves
    DEF ReadJournal, Save, ChargeReseller, RecordTransaction, MarkReferralUsed, RecordPurchase,
        CreditReward, Book, Send, Pop, Drop
  <2>. QED
    BY <1>2, <2>1, <2>4
<1>7. ASSUME NEW h \in Handlers, Commit(h) \/ Refund(h)
      PROVE  RefundsInv'
  <2>1. \A q \in Orders : ledger[q] \subseteq ledger'[q]
    BY <1>7 DEF Commit, Refund, TypeOK, ServiceTypes
  <2>2. OneMoves(h) /\ pc'[h] # "refund"
    BY <1>7, GotoMoves, LeaveMoves DEF Commit, Refund
  <2>. QED
    BY <1>2, <2>1, <2>2
<1>8. ASSUME NEW h \in Handlers, Inspect(h)
      PROVE  RefundsInv'
  <2>. PICK o \in Orders : ord[h] = o
    BY <1>8 DEF Inspect, OutcomeInv, Inv, LockInv
  <2>1. ledger' = ledger
    BY <1>8 DEF Inspect, moneyVars
  <2>2. OneMoves(h) /\ (pc'[h] = "refund" => "debit" \in ledger[o])
    BY <1>8, GotoMoves, LeaveMoves DEF Inspect
  <2>. QED
    BY <2>1, <2>2 DEF OneMoves, RefundsInv
<1>9. CASE Environment
  BY <1>1, <1>9
  DEF Environment, Crash, PlaceGateway, Pay, Age, Land, Lose, memoryVars, moneyVars
<1>. QED
  BY <1>3, <1>4, <1>5, <1>6, <1>7, <1>8, <1>9 DEF Next, Proceed

\* The invariant holds initially.
LEMMA PromiseInitially == Init => PromiseInv
BY OutcomeInitially DEF Init, PromiseInv, PreparedInv, RefundsInv

\* Every step keeps it.
LEMMA PromiseNext == PromiseInv /\ [Next]_vars => PromiseInv'
<1>1. PromiseInv /\ Next => PromiseInv'
  BY OutcomeNext, PreparedNext, RefundsNext DEF PromiseInv
<1>2. PromiseInv /\ UNCHANGED vars => PromiseInv'
  <2>. SUFFICES ASSUME PromiseInv, UNCHANGED vars PROVE PromiseInv'
    OBVIOUS
  <2>1. OutcomeInv'
    BY OutcomeNext DEF PromiseInv
  <2>2. PreparedInv' /\ RefundsInv'
    BY DEF PromiseInv, PreparedInv, RefundsInv, IsV2Ray, vars, rowVars, moneyVars, journalVars,
           remoteVars, memoryVars
  <2>. QED
    BY <2>1, <2>2 DEF PromiseInv
<1>. QED
  BY <1>1, <1>2

-----------------------------------------------------------------------------
(* Every step is one of the promise *)

Closed(o) == Settled(o) /\ pending[o] = "gone"

\* What the promise speaks of is as it was, for one order.
SameBargain(o) ==
    /\ payload'[o] = payload[o] /\ applied'[o] = applied[o] /\ ledger'[o] = ledger[o]
    /\ Closed(o)' <=> Closed(o)

\* A step that leaves it so for every order is none of the promise's business.
LEMMA StutterStep ==
    ASSUME TypeOK, TypeOK', \A o \in Orders : SameBargain(o)
    PROVE  UNCHANGED Promise!promiseVars
<1>1. applied' = applied
  BY DEF SameBargain, TypeOK, ServiceTypes
<1>2. [o \in Orders |-> payload[o].wallet]' = [o \in Orders |-> payload[o].wallet]
  BY DEF SameBargain
<1>3. [o \in Orders |-> IsV2Ray(o)]' = [o \in Orders |-> IsV2Ray(o)]
  BY DEF SameBargain, IsV2Ray
<1>4. [o \in Orders |-> "debit" \in ledger[o]]' = [o \in Orders |-> "debit" \in ledger[o]]
  BY DEF SameBargain
<1>5. [o \in Orders |-> "refund" \in ledger[o]]' = [o \in Orders |-> "refund" \in ledger[o]]
  BY DEF SameBargain
<1>6. [o \in Orders |-> Settled(o) /\ pending[o] = "gone"]'
        = [o \in Orders |-> Settled(o) /\ pending[o] = "gone"]
  BY DEF SameBargain, Closed, Settled
<1>. QED
  BY <1>1, <1>2, <1>3, <1>4, <1>5, <1>6 DEF Promise!promiseVars

\* A debit of an open order with nothing granted takes its price.
LEMMA TakeStep ==
    ASSUME TypeOK, TypeOK', NEW o \in Orders, \A q \in Orders \ {o} : SameBargain(q),
           payload'[o] = payload[o], applied'[o] = applied[o], Closed(o)' <=> Closed(o),
           ledger'[o] = ledger[o] \cup {"debit"}, "debit" \notin ledger[o],
           payload[o].wallet, applied[o] = 0, ~Closed(o)
    PROVE  Promise!Next
<1>1. applied' = applied
  BY DEF SameBargain, TypeOK, ServiceTypes
<1>2. [q \in Orders |-> payload[q].wallet]' = [q \in Orders |-> payload[q].wallet]
  BY DEF SameBargain
<1>3. [q \in Orders |-> IsV2Ray(q)]' = [q \in Orders |-> IsV2Ray(q)]
  BY DEF SameBargain, IsV2Ray
<1>4. [q \in Orders |-> "debit" \in ledger[q]]'
        = [[q \in Orders |-> "debit" \in ledger[q]] EXCEPT ![o] = TRUE]
  BY DEF SameBargain
<1>5. [q \in Orders |-> "refund" \in ledger[q]]' = [q \in Orders |-> "refund" \in ledger[q]]
  BY DEF SameBargain
<1>6. [q \in Orders |-> Settled(q) /\ pending[q] = "gone"]'
        = [q \in Orders |-> Settled(q) /\ pending[q] = "gone"]
  BY DEF SameBargain, Closed, Settled
<1>7. Promise!Take(o)
  BY <1>1, <1>2, <1>3, <1>4, <1>5, <1>6 DEF Promise!Take, Closed
<1>. QED
  BY <1>7 DEF Promise!Next

\* A package is granted once, to an open order whose price is taken.
LEMMA GrantStep ==
    ASSUME TypeOK, TypeOK', NEW o \in Orders, \A q \in Orders \ {o} : SameBargain(q),
           payload'[o] = payload[o], ledger'[o] = ledger[o], Closed(o)' <=> Closed(o),
           applied[o] = 0, applied'[o] = 1, payload[o].wallet => "debit" \in ledger[o],
           ~Closed(o)
    PROVE  Promise!Next
<1>1. applied' = [applied EXCEPT ![o] = 1]
  BY DEF SameBargain, TypeOK, ServiceTypes
<1>2. [q \in Orders |-> payload[q].wallet]' = [q \in Orders |-> payload[q].wallet]
  BY DEF SameBargain
<1>3. [q \in Orders |-> IsV2Ray(q)]' = [q \in Orders |-> IsV2Ray(q)]
  BY DEF SameBargain, IsV2Ray
<1>4. [q \in Orders |-> "debit" \in ledger[q]]' = [q \in Orders |-> "debit" \in ledger[q]]
  BY DEF SameBargain
<1>5. [q \in Orders |-> "refund" \in ledger[q]]' = [q \in Orders |-> "refund" \in ledger[q]]
  BY DEF SameBargain
<1>6. [q \in Orders |-> Settled(q) /\ pending[q] = "gone"]'
        = [q \in Orders |-> Settled(q) /\ pending[q] = "gone"]
  BY DEF SameBargain, Closed, Settled
<1>7. Promise!Grant(o)
  BY <1>1, <1>2, <1>3, <1>4, <1>5, <1>6 DEF Promise!Grant, Closed
<1>. QED
  BY <1>7 DEF Promise!Next

\* A refund returns what was taken.
LEMMA ReturnStep ==
    ASSUME TypeOK, TypeOK', NEW o \in Orders, \A q \in Orders \ {o} : SameBargain(q),
           payload'[o] = payload[o], applied'[o] = applied[o], Closed(o)' <=> Closed(o),
           ledger'[o] = ledger[o] \cup {"refund"}, "refund" \notin ledger[o],
           "debit" \in ledger[o], IsV2Ray(o) => applied[o] = 0, ~Closed(o)
    PROVE  Promise!Next
<1>1. applied' = applied
  BY DEF SameBargain, TypeOK, ServiceTypes
<1>2. [q \in Orders |-> payload[q].wallet]' = [q \in Orders |-> payload[q].wallet]
  BY DEF SameBargain
<1>3. [q \in Orders |-> IsV2Ray(q)]' = [q \in Orders |-> IsV2Ray(q)]
  BY DEF SameBargain, IsV2Ray
<1>4. [q \in Orders |-> "debit" \in ledger[q]]' = [q \in Orders |-> "debit" \in ledger[q]]
  BY DEF SameBargain
<1>5. [q \in Orders |-> "refund" \in ledger[q]]'
        = [[q \in Orders |-> "refund" \in ledger[q]] EXCEPT ![o] = TRUE]
  BY DEF SameBargain
<1>6. [q \in Orders |-> Settled(q) /\ pending[q] = "gone"]'
        = [q \in Orders |-> Settled(q) /\ pending[q] = "gone"]
  BY DEF SameBargain, Closed, Settled
<1>7. Promise!Return(o)
  BY <1>1, <1>2, <1>3, <1>4, <1>5, <1>6 DEF Promise!Return, Closed
<1>. QED
  BY <1>7 DEF Promise!Next

\* The row of an order that is served, or owes nothing, goes.
LEMMA CloseStep ==
    ASSUME TypeOK, TypeOK', NEW o \in Orders, \A q \in Orders \ {o} : SameBargain(q),
           payload'[o] = payload[o], applied'[o] = applied[o], ledger'[o] = ledger[o],
           ~Closed(o), Closed(o)', applied[o] = 1 \/ MoneyBack(o)
    PROVE  Promise!Next
<1>1. applied' = applied
  BY DEF SameBargain, TypeOK, ServiceTypes
<1>2. [q \in Orders |-> payload[q].wallet]' = [q \in Orders |-> payload[q].wallet]
  BY DEF SameBargain
<1>3. [q \in Orders |-> IsV2Ray(q)]' = [q \in Orders |-> IsV2Ray(q)]
  BY DEF SameBargain, IsV2Ray
<1>4. [q \in Orders |-> "debit" \in ledger[q]]' = [q \in Orders |-> "debit" \in ledger[q]]
  BY DEF SameBargain
<1>5. [q \in Orders |-> "refund" \in ledger[q]]' = [q \in Orders |-> "refund" \in ledger[q]]
  BY DEF SameBargain
<1>6. [q \in Orders |-> Settled(q) /\ pending[q] = "gone"]'
        = [[q \in Orders |-> Settled(q) /\ pending[q] = "gone"] EXCEPT ![o] = TRUE]
  BY DEF SameBargain, Closed, Settled
<1>7. Promise!Close(o)
  BY <1>1, <1>2, <1>3, <1>4, <1>5, <1>6 DEF Promise!Close, Closed, MoneyBack
<1>. QED
  BY <1>7 DEF Promise!Next

\* A handler under the lock of an order it may settle finds it open.
LEMMA LockedOpen ==
    ASSUME PromiseInv, NEW h \in Handlers, NEW o \in Orders, ord[h] = o,
           pc[h] \in LockedPc \ {"fresh"}
    PROVE  ~Closed(o)
BY Known DEF PromiseInv, Knows, Closed

\* The steps that touch money, grants or rows, each with its place in the promise.
LEMMA CommitPromised ==
    ASSUME PromiseInv, TypeOK, TypeOK', NEW h \in Handlers, Commit(h)
    PROVE  Promise!Next \/ UNCHANGED Promise!promiseVars
<1>. PICK o \in Orders : ord[h] = o
  BY DEF Commit, PromiseInv, OutcomeInv, Inv, LockInv
<1>1. \A q \in Orders \ {o} : SameBargain(q)
  BY DEF Commit, SameBargain, Closed, Settled, rowVars, remoteVars, TypeOK, ServiceTypes
<1>2. payload'[o] = payload[o] /\ applied'[o] = applied[o] /\ (Closed(o)' <=> Closed(o))
  BY DEF Commit, Closed, Settled, rowVars, remoteVars
<1>3. CASE ledger'[o] = ledger[o]
  BY <1>1, <1>2, <1>3, StutterStep DEF SameBargain
<1>4. CASE ledger'[o] # ledger[o]
  <2>1. payload[o].wallet /\ ledger' = [ledger EXCEPT ![o] = @ \cup {"debit"}]
    BY <1>4 DEF Commit
  <2>2. ledger'[o] = ledger[o] \cup {"debit"}
    BY <2>1 DEF TypeOK, ServiceTypes
  <2>3. "debit" \notin ledger[o]
    BY <1>4, <2>2
  <2>4. applied[o] = 0
    BY <2>1, <2>3, Known DEF Commit, PromiseInv, OrderInv, Funded
  <2>. QED
    BY <1>1, <1>2, <2>1, <2>2, <2>3, <2>4, LockedOpen, TakeStep DEF Commit
<1>. QED
  BY <1>3, <1>4

\* A mutation of an executing order, by its handler or landing later.
LEMMA MutationPromised ==
    ASSUME PromiseInv, TypeOK, TypeOK', NEW o \in Orders, NEW mutation, Mutate(o, mutation),
           journal[o] = "executing", applied[o] = 0,
           UNCHANGED <<rowVars, moneyVars>>
    PROVE  Promise!Next \/ UNCHANGED Promise!promiseVars
<1>1. \A q \in Orders \ {o} : SameBargain(q)
  BY DEF Mutate, SameBargain, Closed, Settled, rowVars, moneyVars, TypeOK, ServiceTypes
<1>2. payload'[o] = payload[o] /\ ledger'[o] = ledger[o] /\ (Closed(o)' <=> Closed(o))
  BY DEF Closed, Settled, rowVars, moneyVars
<1>3. CASE applied'[o] = applied[o]
  BY <1>1, <1>2, <1>3, StutterStep DEF SameBargain
<1>4. CASE applied'[o] # applied[o]
  <2>1. applied'[o] = 1
    BY <1>4 DEF Mutate, TypeOK, ServiceTypes
  <2>2. payload[o].wallet => "debit" \in ledger[o]
    BY DEF PromiseInv, OutcomeInv, Inv, OrdersInv, OrderInv, Funded
  <2>3. ~Closed(o)
    BY DEF PromiseInv, OutcomeInv, OutcomesInv, Outcome, Closed, Unclaimed
  <2>. QED
    BY <1>1, <1>2, <2>1, <2>2, <2>3, GrantStep
<1>. QED
  BY <1>3, <1>4

\* A refund, under the lock, before the write is claimed.
LEMMA RefundPromised ==
    ASSUME PromiseInv, TypeOK, TypeOK', NEW h \in Handlers, Refund(h)
    PROVE  Promise!Next \/ UNCHANGED Promise!promiseVars
<1>. PICK o \in Orders : ord[h] = o
  BY DEF Refund, PromiseInv, OutcomeInv, Inv, LockInv
<1>1. \A q \in Orders \ {o} : SameBargain(q)
  BY DEF Refund, SameBargain, Closed, Settled, rowVars, remoteVars, TypeOK, ServiceTypes
<1>2. /\ payload'[o] = payload[o] /\ applied'[o] = applied[o] /\ (Closed(o)' <=> Closed(o))
      /\ ledger'[o] = ledger[o] \cup {"refund"}
  BY DEF Refund, Closed, Settled, rowVars, remoteVars, TypeOK, ServiceTypes
<1>3. CASE "refund" \in ledger[o]
  BY <1>1, <1>2, <1>3, StutterStep DEF SameBargain
<1>4. CASE "refund" \notin ledger[o]
  <2>1. "debit" \in ledger[o]
    BY DEF Refund, PromiseInv, RefundsInv
  <2>2. IsV2Ray(o) => applied[o] = 0
    BY Known DEF Refund, PromiseInv, PreparedInv, At, OrderInv
  <2>. QED
    BY <1>1, <1>2, <1>4, <2>1, <2>2, LockedOpen, ReturnStep DEF Refund
<1>. QED
  BY <1>3, <1>4

\* A row is dropped when its money is back, or popped when its order is served;
\* the release of a gateway order is not a closing.
LEMMA ClosingPromised ==
    ASSUME PromiseInv, TypeOK, TypeOK', NEW h \in Handlers, Drop(h) \/ Pop(h) \/ Release(h)
    PROVE  Promise!Next \/ UNCHANGED Promise!promiseVars
<1>. PICK o \in Orders : ord[h] = o
  BY DEF Drop, Pop, Release, PromiseInv, OutcomeInv, Inv, LockInv
<1>1. \A q \in Orders \ {o} : SameBargain(q)
  BY DEF Drop, Pop, Release, SameBargain, Closed, Settled, moneyVars, remoteVars, TypeOK, RowTypes
<1>2. /\ payload'[o] = payload[o] /\ applied'[o] = applied[o] /\ ledger'[o] = ledger[o]
      /\ pending'[o] = "gone"
  BY DEF Drop, Pop, Release, moneyVars, remoteVars, TypeOK, RowTypes
<1>3. CASE ~Settled(o)
  BY <1>1, <1>2, <1>3, StutterStep DEF SameBargain, Closed, Settled
<1>4. CASE Settled(o)
  <2>1. pc[h] \in {"drop", "pop"}
    BY <1>4, Known DEF Drop, Pop, Release, PromiseInv, Knows, Settled
  <2>2. Closed(o)'
    BY <1>2, <1>4 DEF Closed, Settled
  <2>3. applied[o] = 1 \/ MoneyBack(o)
    BY <2>1, Known DEF PromiseInv, Knows, OrderInv
  <2>. QED
    BY <1>1, <1>2, <2>1, <2>2, <2>3, LockedOpen, CloseStep
<1>. QED
  BY <1>3, <1>4

\* Every other step of a handler, and of the world around it, leaves all of it.
LEMMA QuietPromised ==
    ASSUME TypeOK, TypeOK', UNCHANGED <<payload, ledger, applied>>,
           \A q \in Orders : (pending'[q] = "gone") <=> (pending[q] = "gone")
    PROVE  UNCHANGED Promise!promiseVars
BY StutterStep DEF SameBargain, Closed, Settled

\* Every step of the pipeline is one of the promise.
LEMMA StepPromised ==
    PromiseInv /\ [Next]_vars => [Promise!Next]_(Promise!promiseVars)
<1>. SUFFICES ASSUME PromiseInv, [Next]_vars
              PROVE  Promise!Next \/ UNCHANGED Promise!promiseVars
  OBVIOUS
<1>. TypeOK /\ TypeOK'
  BY PromiseNext DEF PromiseInv, OutcomeInv, Inv
<1>1. CASE UNCHANGED vars
  BY <1>1, QuietPromised DEF vars, rowVars, moneyVars, remoteVars
<1>2. ASSUME NEW h \in Handlers, Start(h) \/ Acquire(h) \/ Fault(h)
      PROVE  UNCHANGED Promise!promiseVars
  <2>1. CASE \E o \in Orders : PlaceLocal(h, o)
    <3>. PICK o \in Orders : PlaceLocal(h, o)
      BY <2>1
    <3>1. \A q \in Orders : (pending'[q] = "gone") <=> (pending[q] = "gone")
      BY DEF PlaceLocal, TypeOK, RowTypes
    <3>. QED
      BY <3>1, QuietPromised DEF PlaceLocal, moneyVars, remoteVars
  <2>2. CASE UNCHANGED <<payload, pending, ledger, applied>>
    BY <2>2, QuietPromised
  <2>. QED
    BY <1>2, <2>1, <2>2
    DEF Start, StartVerify, StartDeliver, StartCancel, StartRelease, Acquire, Fault, Fail,
        BookFails, WriteUnacknowledged, rowVars, moneyVars, remoteVars
<1>3. ASSUME NEW h \in Handlers, Write(h)
      PROVE  Promise!Next \/ UNCHANGED Promise!promiseVars
  <2>. PICK o \in Orders : ord[h] = o
    BY <1>3 DEF Write, PromiseInv, OutcomeInv, Inv, LockInv
  <2>1. journal[o] = "executing" /\ applied[o] = 0
    BY <1>3, Known DEF Write, PromiseInv, At
  <2>. QED
    BY <1>3, <2>1, MutationPromised DEF Write
<1>4. ASSUME NEW h \in Handlers,
             Commit(h) \/ Refund(h) \/ Drop(h) \/ Pop(h) \/ Release(h)
      PROVE  Promise!Next \/ UNCHANGED Promise!promiseVars
  BY <1>4, CommitPromised, RefundPromised, ClosingPromised
<1>5. ASSUME NEW h \in Handlers,
             \/ Authorize(h) \/ ReadFresh(h) \/ Flag(h) \/ ReadJournal(h) \/ Lookup(h)
             \/ Unclaim(h) \/ Prepare(h) \/ Check(h) \/ Claim(h) \/ RemoteDone(h)
             \/ Hydrate(h) \/ Save(h) \/ ChargeReseller(h) \/ RecordTransaction(h)
             \/ MarkReferralUsed(h) \/ RecordPurchase(h) \/ CreditReward(h) \/ Complete(h)
             \/ Send(h) \/ Inspect(h)
      PROVE  UNCHANGED Promise!promiseVars
  <2>1. UNCHANGED <<payload, pending, ledger, applied>>
    BY <1>5
    DEF Authorize, ReadFresh, Flag, ReadJournal, Lookup, Unclaim, Prepare, Check, Claim,
        RemoteDone, Hydrate, Save, ChargeReseller, RecordTransaction, MarkReferralUsed,
        RecordPurchase, CreditReward, Book, Complete, Send, Inspect, rowVars, moneyVars,
        remoteVars
  <2>. QED
    BY <2>1, QuietPromised
<1>6. ASSUME Environment
      PROVE  Promise!Next \/ UNCHANGED Promise!promiseVars
  <2>1. ASSUME NEW o \in Orders, Land(o)
        PROVE  Promise!Next \/ UNCHANGED Promise!promiseVars
    <3>1. journal[o] = "executing" /\ applied[o] = 0
      BY <2>1 DEF Land, PromiseInv, OutcomeInv, Inv, OrdersInv, OrderInv
    <3>. QED
      BY <2>1, <3>1, MutationPromised DEF Land
  <2>2. ASSUME NEW o \in Orders, PlaceGateway(o)
        PROVE  UNCHANGED Promise!promiseVars
    <3>1. \A q \in Orders : (pending'[q] = "gone") <=> (pending[q] = "gone")
      BY <2>2 DEF PlaceGateway, TypeOK, RowTypes
    <3>. QED
      BY <2>2, <3>1, QuietPromised DEF PlaceGateway, moneyVars, remoteVars
  <2>3. ASSUME Crash \/ \E o \in Orders : Pay(o) \/ Age(o) \/ Lose(o)
        PROVE  UNCHANGED Promise!promiseVars
    <3>1. UNCHANGED <<payload, pending, ledger, applied>>
      BY <2>3 DEF Crash, Pay, Age, Lose, rowVars, moneyVars, remoteVars
    <3>. QED
      BY <3>1, QuietPromised
  <2>. QED
    BY <1>6, <2>1, <2>2, <2>3 DEF Environment
<1>. QED
  BY <1>1, <1>2, <1>3, <1>4, <1>5, <1>6 DEF Next, Proceed

\* The rows a behaviour starts from promise nothing yet.
LEMMA InitPromised == Init => Promise!Init
<1>. SUFFICES ASSUME Init PROVE Promise!Init
  OBVIOUS
<1>1. /\ [o \in Orders |-> payload[o].wallet] \in [Orders -> BOOLEAN]
      /\ [o \in Orders |-> IsV2Ray(o)] \in [Orders -> BOOLEAN]
  BY DEF Init, Payload, IsV2Ray
<1>2. [o \in Orders |-> "debit" \in ledger[o]] = [o \in Orders |-> FALSE]
  <2>1. \A o \in Orders : ("debit" \in ledger[o]) = FALSE
    BY DEF Init
  <2>. QED
    BY <2>1, Zenon
<1>3. [o \in Orders |-> "refund" \in ledger[o]] = [o \in Orders |-> FALSE]
  <2>1. \A o \in Orders : ("refund" \in ledger[o]) = FALSE
    BY DEF Init
  <2>. QED
    BY <2>1, Zenon
<1>4. [o \in Orders |-> Settled(o) /\ pending[o] = "gone"] = [o \in Orders |-> FALSE]
  <2>1. \A o \in Orders : (Settled(o) /\ pending[o] = "gone") = FALSE
    BY DEF Init
  <2>. QED
    BY <2>1, Zenon
<1>5. applied = [o \in Orders |-> 0]
  BY DEF Init
<1>. QED
  BY <1>1, <1>2, <1>3, <1>4, <1>5 DEF Promise!Init

\* Whatever handlers, crashes, late requests and retries do, every order is
\* treated as the shop promises: what _deliver_verified_pending_unlocked,
\* fulfill and _cancel_local_pending do comes to taking, granting, returning
\* and closing in an order the promise allows.
THEOREM ImplementsPromise == Spec => KeepsThePromise
<1>1. Spec => []PromiseInv
  BY PromiseInitially, PromiseNext, PTL DEF Spec
<1>. QED
  BY <1>1, InitPromised, StepPromised, PTL DEF Spec, KeepsThePromise, Promise!Spec

-----------------------------------------------------------------------------
(***************************************************************************)
(* Part 4: card transfers.                                                 *)
(*                                                                         *)
(* The invariant of OrderDelivery is kept by the steps that card transfers *)
(* add to it.  To it comes what a request, its row and the handlers that   *)
(* carry its approval say of one another: nobody works on a card order     *)
(* whose request has not been claimed, so nothing has happened to it.      *)
(***************************************************************************)

(* The inductive invariant *)

Claimed == {"processing", "approved"}

\* Nothing has been taken, granted or authorized for the order.
Undone(o) ==
    journal[o] = "absent" /\ ledger[o] = {} /\ applied[o] = 0 /\ ~authorized[o]

\* The request and the row of an order, and what a request unclaimed says.
RequestInv(o) ==
    /\ ~IsCard(o) => request[o] = "none"
    /\ IsCard(o) => /\ request[o] = "none" <=> pending[o] = "unplaced"
                    /\ request[o] \in Active <=> pending[o] = "open"
                    /\ request[o] \notin Claimed => Undone(o)

\* The awaits of an approval: the pipeline up to the message, then Finish.
ApprovePc == {"waiting", "send", "finish"} \cup DeliverPc \cup BookPc

\* Whoever works on a card order carries the approval of a claimed request.
Approving(h, o) ==
    IsCard(o) => task[h] = "approve" /\ pc[h] \in ApprovePc /\ request[o] \in Claimed

ApprovalsInv ==
    \A h \in Handlers, o \in Orders : pc[h] # "idle" /\ ord[h] = o => Approving(h, o)

RequestsInv == request \in [Orders -> RequestState] /\ \A o \in Orders : RequestInv(o)

CardInv == Inv /\ RequestsInv /\ ApprovalsInv

-----------------------------------------------------------------------------
(* The steps of OrderDelivery, seen from the requests *)

\* What RequestInv reads of an order is as it was.
SameRow(o) ==
    /\ pending'[o] = pending[o] /\ journal'[o] = journal[o] /\ ledger'[o] = ledger[o]
    /\ applied'[o] = applied[o] /\ authorized'[o] = authorized[o]

OthersWait(h) == \A k \in Handlers \ {h} : pc'[k] = pc[k] /\ ord'[k] = ord[k] /\ task'[k] = task[k]
Stays(h) == pc'[h] # "idle" => ord'[h] = ord[h] /\ task'[h] = task[h]

\* A step of a handler at work, and what it may do to a card order.
Works(h) ==
    /\ payload' = payload
    /\ OthersWait(h) /\ Stays(h)
    /\ \A q \in Orders \ {ord[h]} : SameRow(q)
    /\ \A q \in Orders : ord[h] = q /\ IsCard(q) =>
           pending'[q] = pending[q] /\ pc'[h] \in ApprovePc \cup {"idle"}

\* Such a step keeps what requests and rows say of one another.
LEMMA WorkKeeps ==
    ASSUME RequestsInv, ApprovalsInv, NEW h \in Handlers, pc[h] # "idle", Works(h),
           request' = request
    PROVE  RequestsInv' /\ ApprovalsInv'
<1>1. ASSUME NEW o \in Orders
      PROVE  RequestInv(o)'
  <2>1. RequestInv(o) /\ (IsCard(o)' <=> IsCard(o))
    BY DEF RequestsInv, Works, IsCard
  <2>2. CASE o # ord[h]
    BY <2>1, <2>2 DEF Works, SameRow, RequestInv, Undone
  <2>3. CASE o = ord[h]
    <3>1. IsCard(o) => request[o] \in Claimed /\ pending'[o] = pending[o]
      BY <2>3 DEF ApprovalsInv, Approving, Works
    <3>. QED
      BY <2>1, <3>1 DEF RequestInv
  <2>. QED
    BY <2>2, <2>3
<1>2. ASSUME NEW k \in Handlers, NEW o \in Orders, pc'[k] # "idle", ord'[k] = o
      PROVE  Approving(k, o)'
  <2>1. IsCard(o)' <=> IsCard(o)
    BY DEF Works, IsCard
  <2>2. CASE k # h
    BY <1>2, <2>1, <2>2 DEF Works, OthersWait, ApprovalsInv, Approving
  <2>3. CASE k = h
    <3>1. ord[h] = o /\ task'[h] = task[h]
      BY <1>2, <2>3 DEF Works, Stays
    <3>. QED
      BY <1>2, <2>1, <2>3, <3>1 DEF Works, ApprovalsInv, Approving
  <2>. QED
    BY <2>2, <2>3
<1>. QED
  BY <1>1, <1>2 DEF RequestsInv, ApprovalsInv

\* Going on and returning leave the other handlers where they are.
LEMMA GotoWaits ==
    ASSUME TypeOK, NEW h \in Handlers, NEW label, Goto(h, label)
    PROVE  OthersWait(h) /\ Stays(h) /\ pc'[h] = label
BY DEF TypeOK, MemoryTypes, Goto, OthersWait, Stays

\* A handler that returns leaves the others where they are.
LEMMA LeaveWaits ==
    ASSUME TypeOK, NEW h \in Handlers, Leave(h)
    PROVE  OthersWait(h) /\ Stays(h) /\ pc'[h] = "idle"
BY DEF TypeOK, MemoryTypes, Leave, OthersWait, Stays

\* A handler that goes on along the awaits of an approval, or returns, and has
\* changed nothing but the books, the journal, the ledger or the grants of its
\* own order.
LEMMA WorkOn ==
    ASSUME TypeOK, NEW h \in Handlers, NEW label \in ApprovePc,
           Goto(h, label) \/ Leave(h),
           UNCHANGED <<payload, pending>>, \A q \in Orders \ {ord[h]} : SameRow(q)
    PROVE  Works(h)
BY GotoWaits, LeaveWaits DEF Works

\* A handler at an await that no approval reaches works on no card order.
LEMMA WorkElsewhere ==
    ASSUME TypeOK, ApprovalsInv, NEW h \in Handlers, pc[h] # "idle",
           pc[h] \notin ApprovePc \/ task[h] # "approve",
           OthersWait(h), Stays(h), payload' = payload,
           \A q \in Orders \ {ord[h]} : SameRow(q)
    PROVE  Works(h)
BY DEF ApprovalsInv, Approving, Works

\* The awaits before the lock and the fresh read under it.
LEMMA AdmissionWorks ==
    ASSUME TypeOK, LockInv, ApprovalsInv, NEW h \in Handlers,
           Authorize(h) \/ Release(h) \/ Acquire(h) \/ ReadFresh(h)
    PROVE  pc[h] # "idle" /\ Works(h)
<1>1. CASE Authorize(h)
  <2>1. \A q \in Orders \ {ord[h]} : SameRow(q)
    BY <1>1 DEF Authorize, TypeOK, RowTypes, SameRow, moneyVars, journalVars, remoteVars
  <2>. QED
    BY <1>1, <2>1, GotoWaits, LeaveWaits, WorkElsewhere DEF Authorize, ApprovePc
<1>2. CASE Release(h)
  <2>1. \A q \in Orders \ {ord[h]} : SameRow(q)
    BY <1>2 DEF Release, TypeOK, RowTypes, SameRow, moneyVars, journalVars, remoteVars
  <2>. QED
    BY <1>2, <2>1, LeaveWaits, WorkElsewhere DEF Release, ApprovePc
<1>3. CASE Acquire(h)
  <2>1. OthersWait(h) /\ Stays(h) /\ pc'[h] = "fresh"
    BY <1>3 DEF Acquire, TypeOK, MemoryTypes, OthersWait, Stays
  <2>. QED
    BY <1>3, <2>1
    DEF Acquire, Works, SameRow, ApprovePc, rowVars, moneyVars, journalVars, remoteVars
<1>4. CASE ReadFresh(h)
  <2>1. OthersWait(h) /\ Stays(h)
    BY <1>4, LeaveWaits DEF ReadFresh, TypeOK, MemoryTypes, OthersWait, Stays
  <2>. QED
    BY <1>4, <2>1, WorkElsewhere
    DEF ReadFresh, SameRow, rowVars, moneyVars, journalVars, remoteVars
<1>. QED
  BY <1>1, <1>2, <1>3, <1>4

\* Where a handler may go from the journal is on the way of an approval.
LEMMA ResumeOnTheWay ==
    ASSUME ServiceTypes, NEW o \in Orders
    PROVE  Resume(o) \in ApprovePc \cup {"idle"}
BY DEF ServiceTypes, JournalState, Resume, FirstBook, ApprovePc

\* The wallet and the journal up to the claim.
LEMMA PreparationWorks ==
    ASSUME TypeOK, LockInv, NEW h \in Handlers,
           Commit(h) \/ Flag(h) \/ ReadJournal(h) \/ Lookup(h) \/ Unclaim(h) \/ Prepare(h)
           \/ Check(h) \/ Claim(h)
    PROVE  pc[h] # "idle" /\ Works(h)
<1>1. pc[h] # "idle" /\ ord[h] \in Orders
  BY WorkingHandler
  DEF Commit, Flag, ReadJournal, Lookup, Unclaim, Prepare, Check, Claim
<1>2. /\ UNCHANGED <<payload, pending>>
      /\ \A q \in Orders \ {ord[h]} : SameRow(q)
  BY DEF Commit, Flag, ReadJournal, Lookup, Unclaim, Prepare, Check, Claim, SetJournal, SameRow,
     TypeOK, ServiceTypes, rowVars, moneyVars, journalVars, remoteVars
<1>3. \E label \in ApprovePc : Goto(h, label) \/ Leave(h)
  BY <1>1, ResumeOnTheWay
  DEF Commit, Flag, ReadJournal, Lookup, Unclaim, Prepare, Check, Claim, ApprovePc, TypeOK
<1>. QED
  BY <1>1, <1>2, <1>3, WorkOn

\* The remote write and what is recorded of it.
LEMMA WriteWorks ==
    ASSUME TypeOK, LockInv, NEW h \in Handlers,
           Write(h) \/ RemoteDone(h) \/ Hydrate(h) \/ Save(h)
    PROVE  pc[h] # "idle" /\ Works(h)
<1>1. pc[h] # "idle" /\ ord[h] \in Orders
  BY WorkingHandler DEF Write, RemoteDone, Hydrate, Save
<1>2. /\ UNCHANGED <<payload, pending>>
      /\ \A q \in Orders \ {ord[h]} : SameRow(q)
  BY DEF Write, Mutate, RemoteDone, Hydrate, Save, SetJournal, SameRow,
     TypeOK, ServiceTypes, rowVars, moneyVars, journalVars, remoteVars
<1>3. \E label \in ApprovePc : Goto(h, label) \/ Leave(h)
  BY DEF Write, RemoteDone, Hydrate, Save, FirstBook, ApprovePc
<1>. QED
  BY <1>1, <1>2, <1>3, WorkOn

\* The bookkeeping, the message and the end of the row.
LEMMA ClosingWorks ==
    ASSUME TypeOK, LockInv, ApprovalsInv, NEW h \in Handlers,
           \/ ChargeReseller(h) \/ RecordTransaction(h) \/ MarkReferralUsed(h)
           \/ RecordPurchase(h) \/ CreditReward(h) \/ Complete(h) \/ Send(h) \/ Pop(h)
    PROVE  pc[h] # "idle" /\ Works(h)
<1>1. pc[h] # "idle" /\ ord[h] \in Orders
  BY WorkingHandler
  DEF ChargeReseller, RecordTransaction, MarkReferralUsed, RecordPurchase, CreditReward, Book,
      Complete, Send, Pop
<1>2. payload' = payload /\ \A q \in Orders \ {ord[h]} : SameRow(q)
  BY DEF ChargeReseller, RecordTransaction, MarkReferralUsed, RecordPurchase, CreditReward, Book,
     Complete, Send, Pop, SetJournal, SameRow, TypeOK, RowTypes, ServiceTypes,
     rowVars, moneyVars, journalVars, remoteVars
<1>3. CASE \/ ChargeReseller(h) \/ RecordTransaction(h) \/ MarkReferralUsed(h)
           \/ RecordPurchase(h) \/ CreditReward(h)
  BY <1>1, <1>2, <1>3, WorkOn
  DEF ChargeReseller, RecordTransaction, MarkReferralUsed, RecordPurchase, CreditReward, Book,
      ApprovePc, rowVars
<1>4. CASE Complete(h)
  <2>1. OthersWait(h) /\ Stays(h) /\ pc'[h] = "send"
    BY <1>4 DEF Complete, TypeOK, MemoryTypes, OthersWait, Stays
  <2>. QED
    BY <1>1, <1>2, <1>4, <2>1 DEF Complete, Works, ApprovePc, rowVars
<1>5. CASE Send(h)
  <2>1. CASE task[h] = "approve"
    BY <1>1, <1>2, <1>5, <2>1, WorkOn DEF Send, ApprovePc, rowVars
  <2>2. CASE task[h] # "approve"
    BY <1>1, <1>2, <1>5, <2>2, GotoWaits, LeaveWaits, WorkElsewhere DEF Send
  <2>. QED
    BY <2>1, <2>2
<1>6. CASE Pop(h)
  BY <1>1, <1>2, <1>6, LeaveWaits, WorkElsewhere DEF Pop, ApprovePc
<1>. QED
  BY <1>3, <1>4, <1>5, <1>6

\* The cancellation of a local order.
LEMMA CancelWorks ==
    ASSUME TypeOK, LockInv, ApprovalsInv, NEW h \in Handlers,
           Inspect(h) \/ Refund(h) \/ Drop(h)
    PROVE  pc[h] # "idle" /\ Works(h)
<1>1. pc[h] # "idle" /\ pc[h] \notin ApprovePc
  BY DEF Inspect, Refund, Drop, ApprovePc
<1>2. payload' = payload /\ \A q \in Orders \ {ord[h]} : SameRow(q)
  BY DEF Inspect, Refund, Drop, SameRow, TypeOK, RowTypes, ServiceTypes,
     rowVars, moneyVars, journalVars, remoteVars
<1>3. OthersWait(h) /\ Stays(h)
  BY GotoWaits, LeaveWaits DEF Inspect, Refund, Drop
<1>. QED
  BY <1>1, <1>2, <1>3, WorkElsewhere

\* Failures of a handler.
LEMMA FaultWorks ==
    ASSUME TypeOK, NEW h \in Handlers, Fault(h)
    PROVE  pc[h] # "idle" /\ Works(h)
<1>1. UNCHANGED <<payload, pending>> /\ \A q \in Orders : SameRow(q)
  BY DEF Fault, Fail, BookFails, WriteUnacknowledged, SameRow, rowVars, moneyVars, journalVars,
     remoteVars
<1>2. CASE Leave(h) /\ pc[h] # "idle"
  BY <1>1, <1>2, LeaveWaits DEF Works
<1>3. CASE BookFails(h)
  <2>1. OthersWait(h) /\ Stays(h) /\ pc'[h] = "send"
    BY <1>3 DEF BookFails, TypeOK, MemoryTypes, OthersWait, Stays
  <2>. QED
    BY <1>1, <1>3, <2>1 DEF BookFails, Works, ApprovePc
<1>. QED
  BY <1>2, <1>3 DEF Fault, Fail, WriteUnacknowledged

\* A handler in progress, or waiting for its lock.
LEMMA HandlerKeeps ==
    ASSUME Inv, RequestsInv, ApprovalsInv, request' = request, NEW h \in Handlers,
           Acquire(h) \/ Proceed(h) \/ Fault(h)
    PROVE  RequestsInv' /\ ApprovalsInv'
<1>1. pc[h] # "idle" /\ Works(h)
  BY AdmissionWorks, PreparationWorks, WriteWorks, ClosingWorks, CancelWorks, FaultWorks
  DEF Inv, Proceed
<1>. QED
  BY <1>1, WorkKeeps

\* A handler of OrderDelivery never takes up a card order.
LEMMA StartKeeps ==
    ASSUME Inv, RequestsInv, ApprovalsInv, request' = request, NEW h \in Handlers, Start(h)
    PROVE  RequestsInv' /\ ApprovalsInv'
<1>. PICK o \in Orders :
        PlaceLocal(h, o) \/ StartVerify(h, o) \/ StartDeliver(h, o)
        \/ StartCancel(h, o) \/ StartRelease(h, o)
  BY DEF Start
<1>1. /\ ~IsCard(o) /\ payload' = payload
      /\ \A q \in Orders \ {o} : SameRow(q)
  BY DEF PlaceLocal, StartVerify, StartDeliver, StartCancel, StartRelease, IsCard, IsLocal,
     LocalMethods, SameRow, Inv, TypeOK, RowTypes, rowVars, moneyVars, journalVars, remoteVars
<1>2. /\ OthersWait(h) /\ ord'[h] = o
  BY DEF PlaceLocal, StartVerify, StartDeliver, StartCancel, StartRelease, Enter, OthersWait,
     Inv, TypeOK, MemoryTypes
<1>3. RequestsInv'
  BY <1>1 DEF RequestsInv, RequestInv, Undone, SameRow, IsCard
<1>4. ApprovalsInv'
  BY <1>1, <1>2 DEF ApprovalsInv, Approving, OthersWait, IsCard
<1>. QED
  BY <1>3, <1>4

\* Customers, the gateway, late requests, time and the death of the process: an
\* order nobody has claimed has no request under way.
LEMMA EnvironmentKeeps ==
    ASSUME Inv, RequestsInv, ApprovalsInv, request' = request, Environment
    PROVE  RequestsInv' /\ ApprovalsInv'
<1>1. payload' = payload
  BY DEF Environment, Crash, PlaceGateway, Pay, Age, Land, Lose, rowVars
<1>2. ASSUME NEW q \in Orders, IsCard(q)
      PROVE  pending'[q] = pending[q] /\ (request[q] \notin Claimed => SameRow(q))
  <2>1. CASE Crash
    BY <2>1 DEF Crash, SameRow, rowVars, moneyVars, journalVars
  <2>2. ASSUME NEW o \in Orders, PlaceGateway(o) PROVE SameRow(q)
    BY <1>2, <2>2
    DEF PlaceGateway, IsCard, SameRow, Inv, TypeOK, RowTypes, moneyVars, journalVars, remoteVars
  <2>3. ASSUME NEW o \in Orders, Pay(o) \/ Age(o) \/ Lose(o) PROVE SameRow(q)
    BY <2>3 DEF Pay, Age, Lose, SameRow, rowVars, moneyVars, journalVars, remoteVars
  <2>4. ASSUME NEW o \in Orders, Land(o)
        PROVE  pending' = pending /\ (request[q] \notin Claimed => SameRow(q))
    <3>1. request[q] \notin Claimed => o # q
      BY <1>2, <2>4 DEF RequestsInv, RequestInv, Undone, Land, Inv, OrdersInv, OrderInv
    <3>. QED
      BY <2>4, <3>1
      DEF Land, Mutate, SameRow, Inv, TypeOK, ServiceTypes, rowVars, moneyVars, journalVars
  <2>. QED
    BY <2>1, <2>2, <2>3, <2>4 DEF Environment, SameRow
<1>3. RequestsInv'
  BY <1>1, <1>2 DEF RequestsInv, RequestInv, Undone, SameRow, IsCard
<1>4. CASE Crash
  BY <1>3, <1>4 DEF Crash, ApprovalsInv
<1>5. CASE UNCHANGED memoryVars
  BY <1>1, <1>3, <1>5 DEF ApprovalsInv, Approving, IsCard, memoryVars
<1>. QED
  BY <1>3, <1>4, <1>5
  DEF Environment, ApprovalsInv, PlaceGateway, Pay, Age, Land, Lose

-----------------------------------------------------------------------------
(* The steps of card transfers *)

\* Rows that appear and disappear change nothing Inv reads.
LEMMA RowStep ==
    ASSUME Inv, TypeOK', UNCHANGED memoryVars, \A q \in Orders : Untouched(q)
    PROVE  Inv'
<1>1. LockInv' /\ \A h \in Handlers : pc'[h] = pc[h] /\ ord'[h] = ord[h]
  BY DEF Inv, LockInv, memoryVars
<1>. QED
  BY <1>1, UntouchedOrder, UntouchedAt DEF Inv, OrdersInv, HandlersInv

\* A request is made, its receipt submitted, or it ends without service.
LEMMA RequestStep ==
    ASSUME CardInv, NEW o \in Orders,
           CreateRequest(o) \/ SubmitReceipt(o) \/ CancelRequest(o) \/ RejectRequest(o)
    PROVE  CardInv'
<1>1. /\ \A q \in Orders : Untouched(q)
      /\ payload' = payload /\ UNCHANGED memoryVars
      /\ pending' \in [Orders -> {"unplaced", "open", "gone"}]
      /\ UNCHANGED <<committed, authorized, moneyVars, journalVars, remoteVars, outcomeVars, faults>>
  BY DEF CardInv, Inv, TypeOK, RowTypes, CreateRequest, SubmitReceipt, CancelRequest, RejectRequest,
     Discard, Untouched, vars, rowVars, moneyVars, journalVars, remoteVars
<1>2. TypeOK'
  BY <1>1, ServiceUnchanged, MemoryUnchanged DEF CardInv, Inv, TypeOK, RowTypes
<1>3. Inv'
  BY <1>1, <1>2, RowStep DEF CardInv
<1>4. /\ IsCard(o) /\ request[o] \notin Claimed /\ Undone(o)
      /\ \/ request'[o] \in Active \ Claimed /\ pending'[o] = "open"
         \/ request'[o] \in {"cancelled", "rejected"} /\ pending'[o] = "gone"
      /\ request' \in [Orders -> RequestState]
      /\ \A q \in Orders \ {o} : request'[q] = request[q] /\ pending'[q] = pending[q]
  BY DEF CardInv, Inv, TypeOK, RowTypes, RequestsInv, RequestInv, RequestState, Active, Claimed,
     CreateRequest, SubmitReceipt, CancelRequest, RejectRequest, Discard, vars, rowVars
<1>5. RequestsInv'
  <2>1. ASSUME NEW q \in Orders PROVE RequestInv(q)'
    <3>1. (IsCard(q)' <=> IsCard(q)) /\ (Undone(q) => Undone(q)')
      BY <1>1 DEF IsCard, Undone, Untouched
    <3>2. RequestInv(q)
      BY DEF CardInv, RequestsInv
    <3>. QED
      BY <1>4, <3>1, <3>2 DEF RequestInv, Active, Claimed
  <2>. QED
    BY <1>4, <2>1 DEF RequestsInv
<1>6. ApprovalsInv'
  BY <1>1, <1>4 DEF CardInv, ApprovalsInv, Approving, IsCard, memoryVars
<1>. QED
  BY <1>3, <1>5, <1>6 DEF CardInv

\* The claim of a request, and the way to the order lock.
LEMMA StartApproveStep ==
    ASSUME CardInv, NEW h \in Handlers, NEW o \in Orders, StartApprove(h, o)
    PROVE  CardInv'
<1>1. /\ UNCHANGED <<payload, authorized, moneyVars, journalVars, remoteVars>>
      /\ UNCHANGED <<rowVars, outcomeVars, faults>>
  BY DEF StartApprove, rowVars
<1>2. LockInv' /\ OthersStand(h) /\ pc'[h] = "waiting" /\ ord'[h] = o
  BY EnterStands DEF StartApprove, CardInv, Inv
<1>3. TypeOK'
  <2>1. MemoryTypes'
    BY DEF StartApprove, Enter, CardInv, Inv, TypeOK, MemoryTypes
  <2>. QED
    BY <1>1, <2>1, RowsUnchanged, ServiceUnchanged DEF CardInv, Inv, TypeOK
<1>4. Inv'
  <2>1. \A q \in Orders : ord'[h] = q => At(h, q)'
    BY <1>2 DEF At
  <2>. QED
    BY <1>1, <1>2, <1>3, <2>1, QuietStep DEF CardInv
<1>5. /\ IsCard(o) /\ request'[o] = "processing" /\ request[o] \in Active
      /\ request' \in [Orders -> RequestState]
      /\ \A q \in Orders \ {o} : request'[q] = request[q]
  BY DEF StartApprove, CardInv, RequestsInv, RequestInv, RequestState, Active
<1>6. RequestsInv'
  <2>1. ASSUME NEW q \in Orders PROVE RequestInv(q)'
    <3>1. /\ IsCard(q)' <=> IsCard(q)
          /\ Undone(q) => Undone(q)'
          /\ pending'[q] = pending[q]
      BY <1>1 DEF IsCard, Undone, rowVars, moneyVars, journalVars, remoteVars
    <3>2. RequestInv(q)
      BY DEF CardInv, RequestsInv
    <3>. QED
      BY <1>5, <3>1, <3>2 DEF RequestInv, Active, Claimed
  <2>. QED
    BY <1>5, <2>1 DEF RequestsInv
<1>7. ApprovalsInv'
  <2>1. /\ task'[h] = "approve"
        /\ \A k \in Handlers \ {h} : pc'[k] = pc[k] /\ ord'[k] = ord[k] /\ task'[k] = task[k]
    BY DEF StartApprove, Enter, CardInv, Inv, TypeOK, MemoryTypes
  <2>2. \A q \in Orders : request[q] \in Claimed => request'[q] \in Claimed
    BY <1>5 DEF Claimed
  <2>. QED
    BY <1>1, <1>2, <1>5, <2>1, <2>2
    DEF CardInv, ApprovalsInv, Approving, IsCard, ApprovePc, Claimed
<1>. QED
  BY <1>4, <1>6, <1>7 DEF CardInv

\* Under the lock: the row of a claimed request is authorized.
LEMMA AuthorizeCardStep ==
    ASSUME CardInv, NEW h \in Handlers, AuthorizeCard(h)
    PROVE  CardInv'
<1>. PICK o \in Orders : ord[h] = o
  BY DEF AuthorizeCard, CardInv, Inv, LockInv
<1>1. pc[h] = "fresh" /\ request' = request
      /\ UNCHANGED <<payload, pending, committed, moneyVars, journalVars, remoteVars, outcomeVars,
                     faults>>
  BY DEF AuthorizeCard
<1>2. TypeOK'
  <2>1. MemoryTypes'
    BY LeaveTypes DEF AuthorizeCard, CardInv, Inv, TypeOK, MemoryTypes, RowTypes
  <2>2. RowTypes'
    BY DEF AuthorizeCard, CardInv, Inv, TypeOK, RowTypes
  <2>. QED
    BY <1>1, <2>1, <2>2, ServiceUnchanged DEF CardInv, Inv, TypeOK
<1>3. CASE Leave(h) /\ UNCHANGED authorized
  <2>1. \A q \in Orders : Untouched(q) /\ SameRow(q)
    BY <1>1, <1>3 DEF Untouched, SameRow, moneyVars, journalVars, remoteVars
  <2>2. Inv'
    BY <1>1, <1>2, <1>3, <2>1, UntouchedReturn DEF CardInv
  <2>3. Works(h)
    BY <1>1, <1>3, <2>1, LeaveWaits DEF Works, CardInv, Inv
  <2>. QED
    BY <1>1, <2>2, <2>3, WorkKeeps DEF CardInv
<1>4. CASE /\ request[o] = "processing"
           /\ authorized' = [authorized EXCEPT ![o] = TRUE]
           /\ pc' = [pc EXCEPT ![h] = "commit"]
           /\ UNCHANGED <<lock, ord, task, ok>>
  <2>1. /\ GoesOn(h) /\ OthersStand(h) /\ OthersWait(h) /\ Stays(h) /\ pc'[h] = "commit"
    BY <1>4 DEF CardInv, Inv, TypeOK, MemoryTypes, GoesOn, OthersStand, OthersWait, Stays
  <2>2. /\ authorized'[o] /\ IsCard(o)
        /\ \A q \in Orders \ {o} : Untouched(q) /\ SameRow(q)
        /\ UNCHANGED <<paid, ledger, journal, stale, remote, applied, inflight>>
    BY <1>1, <1>4
    DEF CardInv, RequestsInv, RequestInv, Inv, TypeOK, RowTypes, Untouched, SameRow, moneyVars,
        journalVars, remoteVars
  <2>3. OrderInv(o)'
    BY <1>1, <2>2, AtWork
    DEF CardInv, OrderInv, Funded, PaymentProof, IsCard, IsLocal, IsBuy, IsV2Ray, TwoWrites
  <2>4. At(h, o)'
    BY <1>1, <2>1, <2>2 DEF At, PaymentProof, IsCard
  <2>5. Inv'
    BY <1>1, <1>2, <2>1, <2>2, <2>3, <2>4, LockedStep DEF CardInv
  <2>6. Works(h)
    BY <1>1, <2>1, <2>2 DEF Works, ApprovePc
  <2>. QED
    BY <1>1, <2>5, <2>6, WorkKeeps DEF CardInv
<1>. QED
  BY <1>3, <1>4 DEF AuthorizeCard

\* Approved, and the pending row deleted, together.
LEMMA FinishStep ==
    ASSUME CardInv, NEW h \in Handlers, Finish(h)
    PROVE  CardInv'
<1>. PICK o \in Orders : ord[h] = o
  BY DEF Finish, CardInv, Inv, LockInv
<1>. DEFINE may == request[o] = "processing" /\ pending[o] = "open" /\ authorized[o]
<1>1. /\ pc[h] = "finish" /\ Leave(h)
      /\ request' = [request EXCEPT ![o] = IF may THEN "approved" ELSE @]
      /\ pending' = [pending EXCEPT ![o] = IF may THEN "gone" ELSE @]
      /\ UNCHANGED <<payload, committed, authorized, moneyVars, journalVars, remoteVars,
                     outcomeVars, faults>>
  BY DEF Finish
<1>2. TypeOK'
  BY <1>1, ServiceUnchanged, LeaveTypes DEF CardInv, Inv, TypeOK, RowTypes
<1>3. \A q \in Orders : Untouched(q)
  BY <1>1 DEF Untouched, moneyVars, journalVars, remoteVars
<1>4. Inv'
  BY <1>1, <1>2, <1>3, UntouchedReturn DEF CardInv
<1>5. /\ request' \in [Orders -> RequestState]
      /\ \A q \in Orders \ {o} : request'[q] = request[q] /\ pending'[q] = pending[q]
      /\ \/ request'[o] = request[o] /\ pending'[o] = pending[o]
         \/ /\ request[o] = "processing" /\ request'[o] = "approved"
            /\ pending[o] = "open" /\ pending'[o] = "gone"
  BY <1>1 DEF CardInv, Inv, TypeOK, RowTypes, RequestsInv, RequestState
<1>6. RequestsInv'
  <2>1. ASSUME NEW q \in Orders PROVE RequestInv(q)'
    <3>1. (IsCard(q)' <=> IsCard(q)) /\ (Undone(q) => Undone(q)')
      BY <1>1, <1>3 DEF IsCard, Undone, Untouched
    <3>2. RequestInv(q)
      BY DEF CardInv, RequestsInv
    <3>. QED
      BY <1>5, <3>1, <3>2 DEF RequestInv, Active, Claimed
  <2>. QED
    BY <1>5, <2>1 DEF RequestsInv
<1>7. ApprovalsInv'
  <2>1. OthersWait(h) /\ pc'[h] = "idle"
    BY <1>1, LeaveWaits DEF CardInv, Inv
  <2>2. \A q \in Orders : request[q] \in Claimed => request'[q] \in Claimed
    BY <1>5 DEF Claimed
  <2>. QED
    BY <1>1, <2>1, <2>2 DEF CardInv, ApprovalsInv, Approving, OthersWait, IsCard
<1>. QED
  BY <1>4, <1>6, <1>7 DEF CardInv

-----------------------------------------------------------------------------
(* The invariant, and what it says *)

\* It holds initially.
LEMMA CardInitInv == CardInit => CardInv
<1>. SUFFICES ASSUME CardInit PROVE CardInv
  OBVIOUS
<1>1. Inv
  BY InitInv DEF CardInit
<1>2. RequestsInv
  BY DEF CardInit, Init, RequestsInv, RequestInv, RequestState, Active, Claimed, Undone
<1>3. ApprovalsInv
  BY DEF CardInit, Init, ApprovalsInv
<1>. QED
  BY <1>1, <1>2, <1>3 DEF CardInv

\* Every step keeps it.
LEMMA CardNextInv == CardInv /\ [CardNext]_cardVars => CardInv'
<1>. SUFFICES ASSUME CardInv, [CardNext]_cardVars PROVE CardInv'
  OBVIOUS
<1>1. CASE UNCHANGED cardVars
  <2>1. Inv'
    BY <1>1, NextInv DEF CardInv, cardVars
  <2>2. RequestsInv' /\ ApprovalsInv'
    BY <1>1
    DEF CardInv, RequestsInv, RequestInv, Undone, IsCard, ApprovalsInv, Approving, cardVars, vars,
        rowVars, moneyVars, journalVars, remoteVars, memoryVars
  <2>. QED
    BY <2>1, <2>2 DEF CardInv
<1>2. CASE Next /\ UNCHANGED request
  <2>1. Inv'
    BY <1>2, NextInv DEF CardInv
  <2>2. RequestsInv' /\ ApprovalsInv'
    BY <1>2, HandlerKeeps, StartKeeps, EnvironmentKeeps DEF CardInv, Next
  <2>. QED
    BY <2>1, <2>2 DEF CardInv
<1>. QED
  BY <1>1, <1>2, RequestStep, StartApproveStep, AuthorizeCardStep, FinishStep DEF CardNext

\* The invariant holds throughout.
THEOREM CardInductive == CardSpec => []CardInv
BY CardInitInv, CardNextInv, PTL DEF CardSpec

\* The request and the pending row agree: a reservation never outlives its
\* request and an approval never finds its order missing (storage.py writes both
\* rows in one transaction).
THEOREM RowFollowsRequest == CardSpec => []RequestMatchesRow
<1>1. CardInv => RequestMatchesRow
  BY DEF CardInv, RequestsInv, RequestInv, RequestMatchesRow
<1>. QED
  BY <1>1, CardInductive, PTL

\* A request that was not approved has cost and provided nothing, whatever raced
\* its rejection or cancellation (claim_card_transfer_for_approval).
THEOREM NoReceiptNoService == CardSpec => []NothingWithoutApproval
<1>1. CardInv => NothingWithoutApproval
  BY DEF CardInv, RequestsInv, RequestInv, Undone, Claimed, NothingWithoutApproval
<1>. QED
  BY <1>1, CardInductive, PTL

\* A card order, too, is applied at most once and only when it is paid for.
THEOREM CardOrdersSafe == CardSpec => [](AppliedAtMostOnce /\ PaidBeforeService)
<1>1. CardInv => AppliedAtMostOnce /\ PaidBeforeService
  BY DEF CardInv, Inv, OrdersInv, OrderInv, AppliedAtMostOnce, PaidBeforeService
<1>. QED
  BY <1>1, CardInductive, PTL

\* Decisions are final, and a claim can only become an approval
\* (reject_card_transfer_request and cancel_card_transfer_request change only
\* what is not claimed).
THEOREM DecisionsStand == CardSpec => DecisionsAreFinal
<1>1. ASSUME CardInv, CardNext, NEW o \in Orders
      PROVE  /\ request[o] \in Decided => request'[o] = request[o]
             /\ request[o] = "processing" => request'[o] \in {"processing", "approved"}
  <2>1. ASSUME NEW q \in Orders, CreateRequest(q)
        PROVE  request[q] = "none" /\ request' = [request EXCEPT ![q] = "awaiting_receipt"]
    BY <1>1, <2>1 DEF CreateRequest, CardInv, RequestsInv, RequestInv
  <2>. QED
    BY <1>1, <2>1
    DEF CardNext, SubmitReceipt, CancelRequest, RejectRequest, Discard, StartApprove,
        AuthorizeCard, Finish, CardInv, RequestsInv, Decided
<1>2. CardInv /\ [CardNext]_cardVars =>
        [\A o \in Orders :
           /\ request[o] \in Decided => request'[o] = request[o]
           /\ request[o] = "processing" => request'[o] \in {"processing", "approved"}]_cardVars
  BY <1>1
<1>. QED
  BY <1>2, CardInductive, PTL DEF CardSpec, DecisionsAreFinal

-----------------------------------------------------------------------------
(***************************************************************************)
(* Part 5: what an approved transfer stands for.                           *)
(*                                                                         *)
(* An order served once, with all its books, and announced.  The outcome   *)
(* of part 2 is kept by the steps that card transfers add, and Finish      *)
(* closes a request only at the end of the delivery its approval carried.  *)
(***************************************************************************)

\* An approved request, and the end of its delivery.
Served(o) == request[o] = "approved" => journal[o] = "completed" /\ told[o]
ServedInv == \A o \in Orders : Served(o)

CardOutcomeInv == CardInv /\ OutcomeInv /\ ServedInv

-----------------------------------------------------------------------------
(* The steps of OrderDelivery *)

\* A completed order stays completed, and what was said is said.
LEMMA CompletedStays ==
    ASSUME TypeOK, Next, NEW o \in Orders
    PROVE  /\ journal[o] = "completed" => journal'[o] = "completed"
           /\ told[o] => told'[o]
<1>1. ASSUME NEW h \in Handlers, Start(h) \/ Acquire(h) \/ Fault(h)
      PROVE  journal' = journal /\ told' = told
  BY <1>1
  DEF Start, PlaceLocal, StartVerify, StartDeliver, StartCancel, StartRelease, Acquire, Fault,
      Fail, BookFails, WriteUnacknowledged, journalVars, outcomeVars
<1>2. ASSUME NEW h \in Handlers,
             Unclaim(h) \/ Prepare(h) \/ Claim(h) \/ RemoteDone(h) \/ Save(h) \/ Complete(h)
      PROVE  (journal[o] = "completed" => journal'[o] = "completed") /\ told' = told
  BY <1>2
  DEF Unclaim, Prepare, Claim, RemoteDone, Save, Complete, SetJournal, TypeOK, ServiceTypes,
      journalVars, outcomeVars
<1>3. ASSUME NEW h \in Handlers, Send(h)
      PROVE  journal' = journal /\ (told[o] => told'[o])
  BY <1>3 DEF Send, journalVars, TypeOK, ServiceTypes
<1>4. ASSUME NEW h \in Handlers,
             \/ Authorize(h) \/ Release(h) \/ ReadFresh(h) \/ Commit(h) \/ Flag(h)
             \/ ReadJournal(h) \/ Lookup(h) \/ Check(h) \/ Write(h) \/ Hydrate(h)
             \/ ChargeReseller(h) \/ RecordTransaction(h) \/ MarkReferralUsed(h)
             \/ RecordPurchase(h) \/ CreditReward(h) \/ Pop(h)
             \/ Inspect(h) \/ Refund(h) \/ Drop(h)
      PROVE  journal' = journal /\ told' = told
  BY <1>4
  DEF Authorize, Release, ReadFresh, Commit, Flag, ReadJournal, Lookup, Check, Write, Hydrate,
      ChargeReseller, RecordTransaction, MarkReferralUsed, RecordPurchase, CreditReward, Book,
      Pop, Inspect, Refund, Drop, journalVars, outcomeVars
<1>5. CASE Environment
  BY <1>5
  DEF Environment, Crash, PlaceGateway, Pay, Age, Land, Lose, journalVars, outcomeVars
<1>. QED
  BY <1>1, <1>2, <1>3, <1>4, <1>5 DEF Next, Proceed

\* A step of the pipeline leaves the requests alone, and a served order served.
LEMMA DeliveryOutcome ==
    ASSUME CardOutcomeInv, CardInv', Next, request' = request
    PROVE  CardOutcomeInv'
<1>1. OutcomeInv'
  BY OutcomeNext DEF CardOutcomeInv
<1>2. ServedInv'
  BY CompletedStays DEF CardOutcomeInv, CardInv, Inv, ServedInv, Served
<1>. QED
  BY <1>1, <1>2 DEF CardOutcomeInv

-----------------------------------------------------------------------------
(* The steps of CardTransfer *)

\* What is written for the orders is as it was, a row may have come, or gone in
\* time, and the handlers stand as OutsideOutcome allows; who is approved was,
\* or has just been served.
LEMMA RequestOutcome ==
    ASSUME CardOutcomeInv, CardInv',
           UNCHANGED <<payload, ledger, journal, books, told>>,
           \A q \in Orders : pending'[q] = pending[q] \/ pending'[q] = "open" \/ MayClose(q),
           \A k \in Handlers :
              \/ pc'[k] \in {"idle", "waiting", "authorize", "fresh"}
              \/ pc'[k] = pc[k] /\ ord'[k] = ord[k] /\ ok'[k] = ok[k],
           OkInv',
           \A q \in Orders : request'[q] = "approved" =>
              request[q] = "approved" \/ (journal[q] = "completed" /\ told[q])
    PROVE  CardOutcomeInv'
<1>1. OutcomesInv' /\ KnowledgeInv'
  BY OutsideOutcome DEF CardOutcomeInv
<1>2. ServedInv'
  BY DEF CardOutcomeInv, ServedInv, Served
<1>. QED
  BY <1>1, <1>2 DEF CardOutcomeInv, CardInv, OutcomeInv

\* Before the claim of a request nothing has been done for its order, and nobody
\* works on it.
LEMMA UnclaimedIsIdle ==
    ASSUME CardInv, NEW o \in Orders,
           CreateRequest(o) \/ SubmitReceipt(o) \/ CancelRequest(o) \/ RejectRequest(o)
    PROVE  /\ IsCard(o) /\ Undone(o)
           /\ \A k \in Handlers : ord[k] = o => pc[k] = "idle"
<1>1. IsCard(o) /\ request[o] \notin Claimed
  BY DEF CreateRequest, SubmitReceipt, CancelRequest, RejectRequest, Discard, CardInv, RequestsInv,
     RequestInv, Claimed
<1>. QED
  BY <1>1 DEF CardInv, RequestsInv, RequestInv, ApprovalsInv, Approving

\* The customer's and the administrator's answers.
LEMMA AnswerOutcome ==
    ASSUME CardOutcomeInv, CardInv', NEW o \in Orders,
           CreateRequest(o) \/ SubmitReceipt(o) \/ CancelRequest(o) \/ RejectRequest(o)
    PROVE  CardOutcomeInv'
<1>1. UNCHANGED <<payload, ledger, journal, books, told>> /\ UNCHANGED memoryVars
  BY DEF CreateRequest, SubmitReceipt, CancelRequest, RejectRequest, Discard, vars, rowVars,
         moneyVars, journalVars, outcomeVars
<1>2. \A q \in Orders : pending'[q] = pending[q] \/ pending'[q] = "open" \/ MayClose(q)
  <2>1. MayClose(o)
    BY <1>1, UnclaimedIsIdle DEF MayClose, Undone, Unclaimed, MoneyBack, memoryVars,
       CardOutcomeInv
  <2>2. \A q \in Orders \ {o} : pending'[q] = pending[q]
    BY DEF CreateRequest, SubmitReceipt, CancelRequest, RejectRequest, Discard, vars, rowVars,
           CardOutcomeInv, CardInv, Inv, TypeOK, RowTypes
  <2>. QED
    BY <2>1, <2>2
<1>3. \A q \in Orders : request'[q] = "approved" => request[q] = "approved"
  BY DEF CreateRequest, SubmitReceipt, CancelRequest, RejectRequest, Discard, CardOutcomeInv,
         CardInv, RequestsInv
<1>4. OkInv'
  BY <1>1 DEF memoryVars, CardOutcomeInv, OutcomeInv, OkInv
<1>. QED
  BY <1>1, <1>2, <1>3, <1>4, RequestOutcome DEF memoryVars

\* An approval that begins waits for the lock and has written nothing.
LEMMA StartApproveOutcome ==
    ASSUME CardOutcomeInv, CardInv', NEW h \in Handlers, NEW o \in Orders, StartApprove(h, o)
    PROVE  CardOutcomeInv'
<1>1. /\ UNCHANGED <<payload, pending, ledger, journal, books, told, ok>>
      /\ pc[h] = "idle" /\ pc'[h] = "waiting"
      /\ \A k \in Handlers \ {h} : pc'[k] = pc[k] /\ ord'[k] = ord[k]
  BY DEF StartApprove, Enter, rowVars, moneyVars, journalVars, outcomeVars, CardOutcomeInv,
         CardInv, Inv, TypeOK, MemoryTypes
<1>2. \A q \in Orders : request'[q] = "approved" => request[q] = "approved"
  BY DEF StartApprove, CardOutcomeInv, CardInv, RequestsInv
<1>3. OkInv'
  BY <1>1 DEF CardOutcomeInv, OutcomeInv, OkInv
<1>. QED
  BY <1>1, <1>2, <1>3, RequestOutcome

\* An approval that has read its request enters the delivery.
LEMMA AuthorizeCardOutcome ==
    ASSUME CardOutcomeInv, CardInv', NEW h \in Handlers, AuthorizeCard(h)
    PROVE  CardOutcomeInv'
<1>. PICK o \in Orders : ord[h] = o
  BY DEF AuthorizeCard, CardOutcomeInv, CardInv, Inv, LockInv
<1>1. /\ pc[h] = "fresh" /\ request' = request /\ (\A q \in Orders : SameView(q))
      /\ UNCHANGED <<journal, told>> /\ TypeOK
  BY DEF AuthorizeCard, SameView, moneyVars, journalVars, outcomeVars, CardOutcomeInv, CardInv,
         Inv
<1>2. ServedInv'
  BY <1>1 DEF CardOutcomeInv, ServedInv, Served
<1>3. CASE Leave(h)
  <2>1. OutcomesInv' /\ KnowledgeInv'
    BY <1>1, <1>3, PlainReturn DEF CardOutcomeInv
  <2>2. OkInv'
    BY <1>1, <1>3 DEF Leave, CardOutcomeInv, OutcomeInv, OkInv, TypeOK, MemoryTypes
  <2>. QED
    BY <1>2, <2>1, <2>2 DEF CardOutcomeInv, CardInv, OutcomeInv
<1>4. CASE /\ pending[o] = "open"
           /\ pc' = [pc EXCEPT ![h] = "commit"]
           /\ UNCHANGED <<ord, ok>>
  <2>1. OneMoves(h) /\ pc'[h] = "commit" /\ ok'[h] = ok[h]
    BY <1>1, <1>4 DEF OneMoves, TypeOK, MemoryTypes
  <2>2. Knows(h, o)'
    BY <1>1, <1>4, <2>1 DEF Knows, SameView
  <2>3. OutcomesInv' /\ KnowledgeInv'
    BY <1>1, <2>1, <2>2, PlainGoto DEF CardOutcomeInv
  <2>4. OkInv'
    BY <1>1, <1>4, <2>1 DEF CardOutcomeInv, OutcomeInv, OkInv, OneMoves
  <2>. QED
    BY <1>2, <2>3, <2>4 DEF CardOutcomeInv, CardInv, OutcomeInv
<1>. QED
  BY <1>3, <1>4 DEF AuthorizeCard

\* A request is approved at the end of its delivery.
LEMMA FinishOutcome ==
    ASSUME CardOutcomeInv, CardInv', NEW h \in Handlers, Finish(h)
    PROVE  CardOutcomeInv'
<1>. PICK o \in Orders : ord[h] = o
  BY DEF Finish, CardOutcomeInv, CardInv, Inv, LockInv
<1>1. /\ UNCHANGED <<payload, ledger, journal, books, told>>
      /\ pc[h] = "finish" /\ Leave(h) /\ TypeOK
  BY DEF Finish, moneyVars, journalVars, outcomeVars, CardOutcomeInv, CardInv, Inv
<1>2. journal[o] = "completed" /\ told[o]
  BY <1>1, Known DEF CardOutcomeInv, Knows
<1>3. \A q \in Orders \ {o} : request'[q] = request[q] /\ pending'[q] = pending[q]
  BY DEF Finish, CardOutcomeInv, CardInv, Inv, TypeOK, RowTypes, RequestsInv
<1>4. /\ pc'[h] = "idle"
      /\ \A k \in Handlers \ {h} : pc'[k] = pc[k] /\ ord'[k] = ord[k] /\ ok'[k] = ok[k]
  BY <1>1, LeaveMoves DEF OneMoves
<1>6. MayClose(o)
  <2>1. ASSUME NEW k \in Handlers, ord'[k] = o
        PROVE  pc'[k] \notin LockedPc \ {"fresh"}
    BY <1>1, <1>4, <2>1, SoleHolder DEF CardOutcomeInv, CardInv, Inv
  <2>. QED
    BY <1>2, <2>1 DEF MayClose
<1>5. OkInv'
  BY <1>1 DEF Leave, CardOutcomeInv, OutcomeInv, OkInv, TypeOK, MemoryTypes
<1>. QED
  BY <1>1, <1>2, <1>3, <1>4, <1>5, <1>6, RequestOutcome

-----------------------------------------------------------------------------
(* The invariant, and what it says *)

\* It holds initially.
LEMMA CardOutcomeInitially == CardInit => CardOutcomeInv
<1>. SUFFICES ASSUME CardInit PROVE CardOutcomeInv
  OBVIOUS
<1>1. ServedInv
  BY DEF CardInit, ServedInv, Served
<1>. QED
  BY <1>1, CardInitInv, OutcomeInitially DEF CardInit, CardOutcomeInv

\* Every step keeps it.
LEMMA CardOutcomeNext == CardOutcomeInv /\ [CardNext]_cardVars => CardOutcomeInv'
<1>. SUFFICES ASSUME CardOutcomeInv, [CardNext]_cardVars PROVE CardOutcomeInv'
  OBVIOUS
<1>1. CardInv'
  BY CardNextInv DEF CardOutcomeInv
<1>2. CASE UNCHANGED cardVars
  <2>1. OutcomeInv'
    BY <1>2, OutcomeNext DEF CardOutcomeInv, cardVars
  <2>2. ServedInv'
    BY <1>2
    DEF CardOutcomeInv, ServedInv, Served, cardVars, vars, journalVars, outcomeVars
  <2>. QED
    BY <1>1, <2>1, <2>2 DEF CardOutcomeInv
<1>. QED
  BY <1>1, <1>2, DeliveryOutcome, AnswerOutcome, StartApproveOutcome, AuthorizeCardOutcome,
     FinishOutcome
  DEF CardNext

\* An approved request was served exactly once, recorded in full and announced
\* to its customer (complete_card_transfer_request after the message of
\* _deliver_verified_pending_unlocked), through any retries and crashes.
THEOREM ApprovedIsServed == CardSpec => []ApprovedMeansServed
<1>1. ASSUME CardOutcomeInv, NEW o \in Orders, request[o] = "approved"
      PROVE  /\ journal[o] = "completed" /\ applied[o] = 1 /\ told[o]
             /\ books[o] = BooksOf(payload[o])
  <2>1. Served(o) /\ Outcome(o) /\ OrderInv(o)
    BY <1>1 DEF CardOutcomeInv, ServedInv, OutcomeInv, OutcomesInv, Inv, OrdersInv
  <2>. QED
    BY <1>1, <2>1 DEF Served, Outcome, OrderInv
<1>2. CardOutcomeInv => ApprovedMeansServed
  BY <1>1 DEF ApprovedMeansServed
<1>. QED
  BY <1>2, CardOutcomeInitially, CardOutcomeNext, PTL DEF CardSpec

\* The books of a card order, too, follow its grant (finalize_successful_order).
THEOREM CardBooksInOrder == CardSpec => []BooksFollowService
<1>1. ASSUME CardOutcomeInv, NEW o \in Orders
      PROVE  /\ books[o] \ {"account"} # {} => applied[o] = 1 /\ Recorded(o)
             /\ journal[o] = "completed" => books[o] = BooksOf(payload[o])
  <2>1. Outcome(o) /\ OrderInv(o)
    BY <1>1 DEF CardOutcomeInv, OutcomeInv, OutcomesInv, Inv, OrdersInv
  <2>. QED
    BY <2>1 DEF Outcome, OrderInv, Recorded
<1>2. CardOutcomeInv => BooksFollowService
  BY <1>1 DEF BooksFollowService, Recorded
<1>. QED
  BY <1>2, CardOutcomeInitially, CardOutcomeNext, PTL DEF CardSpec

-----------------------------------------------------------------------------
(***************************************************************************)
(* Part 6: card transfers keep the promise.                                *)
(*                                                                         *)
(* The invariants of parts 3 and 5 hold together.  What card transfers add *)
(* is two ways of closing an order: a request that ends undecided closes   *)
(* one for which nothing was taken, Finish one that is served.             *)
(***************************************************************************)

CardPromiseInv == CardOutcomeInv /\ PromiseInv

\* The steps card transfers add, of an administrator, a customer or a handler.
CardStep ==
    \/ \E o \in Orders :
          CreateRequest(o) \/ SubmitReceipt(o) \/ CancelRequest(o) \/ RejectRequest(o)
    \/ \E h \in Handlers : AuthorizeCard(h) \/ Finish(h) \/ \E o \in Orders : StartApprove(h, o)

\* None of them takes, grants or returns anything, and none leads to a refund.
LEMMA CardStepGivesNothing ==
    ASSUME TypeOK, CardStep
    PROVE  /\ UNCHANGED <<payload, ledger, journal, applied>>
           /\ \A k \in Handlers : pc'[k] = "refund" => pc[k] = "refund" /\ ord'[k] = ord[k]
<1>1. ASSUME NEW o \in Orders,
             CreateRequest(o) \/ SubmitReceipt(o) \/ CancelRequest(o) \/ RejectRequest(o)
      PROVE  UNCHANGED <<payload, ledger, journal, applied, pc, ord>>
  BY <1>1
  DEF CreateRequest, SubmitReceipt, CancelRequest, RejectRequest, Discard, vars, rowVars,
      moneyVars, journalVars, remoteVars, memoryVars
<1>2. ASSUME NEW h \in Handlers, NEW o \in Orders, StartApprove(h, o)
      PROVE  /\ UNCHANGED <<payload, ledger, journal, applied>>
             /\ \A k \in Handlers : pc'[k] = "refund" => pc[k] = "refund" /\ ord'[k] = ord[k]
  BY <1>2
  DEF StartApprove, Enter, rowVars, moneyVars, journalVars, remoteVars, TypeOK, MemoryTypes
<1>3. ASSUME NEW h \in Handlers, AuthorizeCard(h) \/ Finish(h)
      PROVE  /\ UNCHANGED <<payload, ledger, journal, applied>>
             /\ \A k \in Handlers : pc'[k] = "refund" => pc[k] = "refund" /\ ord'[k] = ord[k]
  BY <1>3
  DEF AuthorizeCard, Finish, Leave, moneyVars, journalVars, remoteVars, TypeOK, MemoryTypes
<1>. QED
  BY <1>1, <1>2, <1>3 DEF CardStep

\* It holds initially.
LEMMA CardPromiseInitially == CardInit => CardPromiseInv
BY CardOutcomeInitially, PromiseInitially DEF CardInit, CardPromiseInv

\* Every step keeps it.
LEMMA CardPromiseNext == CardPromiseInv /\ [CardNext]_cardVars => CardPromiseInv'
<1>. SUFFICES ASSUME CardPromiseInv, [CardNext]_cardVars PROVE CardPromiseInv'
  OBVIOUS
<1>1. CardOutcomeInv'
  BY CardOutcomeNext DEF CardPromiseInv
<1>2. CASE [Next]_vars
  BY <1>1, <1>2, PromiseNext DEF CardPromiseInv
<1>3. CASE CardStep
  <2>1. TypeOK
    BY DEF CardPromiseInv, PromiseInv, OutcomeInv, Inv
  <2>2. PreparedInv' /\ RefundsInv'
    BY <1>3, <2>1, CardStepGivesNothing
    DEF CardPromiseInv, PromiseInv, PreparedInv, RefundsInv, IsV2Ray
  <2>. QED
    BY <1>1, <2>2 DEF CardPromiseInv, PromiseInv, CardOutcomeInv
<1>. QED
  BY <1>2, <1>3 DEF CardNext, CardStep, cardVars

\* A request made or answered closes its order at most, with nothing taken.
LEMMA AnswerPromised ==
    ASSUME CardPromiseInv, TypeOK', NEW o \in Orders,
           CreateRequest(o) \/ SubmitReceipt(o) \/ CancelRequest(o) \/ RejectRequest(o)
    PROVE  Promise!Next \/ UNCHANGED Promise!promiseVars
<1>. TypeOK /\ CardInv
  BY DEF CardPromiseInv, CardOutcomeInv, CardInv, Inv
<1>1. UNCHANGED <<payload, ledger, applied>>
  BY CardStepGivesNothing DEF CardStep
<1>2. CASE CreateRequest(o) \/ SubmitReceipt(o)
  <2>1. \A q \in Orders : (pending'[q] = "gone") <=> (pending[q] = "gone")
    BY <1>2 DEF CreateRequest, SubmitReceipt, vars, rowVars, TypeOK, RowTypes
  <2>. QED
    BY <1>1, <2>1, QuietPromised
<1>3. CASE CancelRequest(o) \/ RejectRequest(o)
  <2>1. IsCard(o) /\ MoneyBack(o)
    BY UnclaimedIsIdle DEF Undone, MoneyBack
  <2>2. /\ pending[o] = "open" /\ pending'[o] = "gone"
        /\ \A q \in Orders \ {o} : pending'[q] = pending[q]
    BY <1>3, <2>1 DEF CancelRequest, RejectRequest, Discard, CardInv, RequestsInv, RequestInv,
       Active, TypeOK, RowTypes
  <2>3. ~Closed(o) /\ Closed(o)' /\ \A q \in Orders \ {o} : SameBargain(q)
    BY <1>1, <2>1, <2>2 DEF Closed, Settled, IsCard, SameBargain
  <2>. QED
    BY <1>1, <2>1, <2>3, CloseStep
<1>. QED
  BY <1>2, <1>3

\* The end of an approval closes an order that is served.
LEMMA FinishPromised ==
    ASSUME CardPromiseInv, TypeOK', NEW h \in Handlers, Finish(h)
    PROVE  Promise!Next \/ UNCHANGED Promise!promiseVars
<1>. TypeOK /\ CardInv
  BY DEF CardPromiseInv, CardOutcomeInv, CardInv, Inv
<1>. PICK o \in Orders : ord[h] = o
  BY DEF Finish, CardInv, Inv, LockInv
<1>1. UNCHANGED <<payload, ledger, applied>>
  BY CardStepGivesNothing DEF CardStep
<1>2. CASE pending' = pending
  BY <1>1, <1>2, QuietPromised
<1>3. CASE pending' # pending
  <2>1. /\ request[o] = "processing" /\ pending[o] = "open" /\ pending'[o] = "gone"
        /\ \A q \in Orders \ {o} : pending'[q] = pending[q]
    BY <1>3 DEF Finish, TypeOK, RowTypes
  <2>2. IsCard(o)
    BY <2>1 DEF CardInv, RequestsInv, RequestInv
  <2>3. applied[o] = 1
    BY Known DEF Finish, CardPromiseInv, CardOutcomeInv, Knows, OrderInv
  <2>4. ~Closed(o) /\ Closed(o)' /\ \A q \in Orders \ {o} : SameBargain(q)
    BY <1>1, <2>1, <2>2 DEF Closed, Settled, IsCard, SameBargain
  <2>. QED
    BY <1>1, <2>3, <2>4, CloseStep
<1>. QED
  BY <1>2, <1>3

\* Every step is one of the promise, or none of its business.
LEMMA CardStepPromised ==
    CardPromiseInv /\ [CardNext]_cardVars => [Promise!Next]_(Promise!promiseVars)
<1>. SUFFICES ASSUME CardPromiseInv, [CardNext]_cardVars
              PROVE  Promise!Next \/ UNCHANGED Promise!promiseVars
  OBVIOUS
<1>. TypeOK /\ TypeOK'
  BY CardPromiseNext DEF CardPromiseInv, PromiseInv, OutcomeInv, Inv
<1>1. CASE [Next]_vars
  BY <1>1, StepPromised DEF CardPromiseInv
<1>2. ASSUME NEW h \in Handlers, AuthorizeCard(h) \/ \E o \in Orders : StartApprove(h, o)
      PROVE  UNCHANGED Promise!promiseVars
  <2>1. UNCHANGED <<payload, ledger, applied, pending>>
    BY <1>2, CardStepGivesNothing DEF CardStep, AuthorizeCard, StartApprove, rowVars
  <2>. QED
    BY <2>1, QuietPromised
<1>. QED
  BY <1>1, <1>2, AnswerPromised, FinishPromised DEF CardNext, cardVars

\* Card transfers, too, are treated as the shop promises: through any retried
\* approval, rejection or cancellation the price is taken at most once, the
\* package granted at most once and only for it, and the request's row deleted
\* (complete_card_transfer_request, reject_card_transfer_request,
\* cancel_card_transfer_request) only for an order served or one that took nothing.
THEOREM CardsKeepThePromise == CardSpec => KeepsThePromise
<1>1. CardSpec => []CardPromiseInv
  BY CardPromiseInitially, CardPromiseNext, PTL DEF CardSpec
<1>2. CardInit => Promise!Init
  BY InitPromised DEF CardInit
<1>. QED
  BY <1>1, <1>2, CardStepPromised, PTL DEF CardSpec, KeepsThePromise, Promise!Spec
=============================================================================
