-------------------------- MODULE BackgroundProofs --------------------------
(***************************************************************************)
(* Proofs about Background, for every length of the day, every set of      *)
(* hours, every number of readers, of drafts and of faults.                *)
(*                                                                         *)
(* That a draft is sent once is not inductive: it rests on the remembered  *)
(* draft, and every token not yet given out, having no copy anywhere, and  *)
(* on what the failed attempts at a reader say of his copies.  That the    *)
(* loop sleeps on current settings rests on what it has read and not yet   *)
(* acted on.                                                               *)
(***************************************************************************)
EXTENDS Background, TLAPS

USE DEF Drafts

\* What the loop has read is current, or somebody is about to wake it.
SchedulerInv ==
    /\ loop \in {"read", "wait"} /\ ~wake /\ handler = "idle" /\ ~unsaid => seen = stored
    /\ loop = "wait" =>
         IF seen.enabled
           THEN timer = Until(seen.hour) \/ (timer = 0 /\ Until(seen.hour) = Day)
           ELSE timer \in {0, 1}

SchedulerTypes ==
    /\ stored \in Settings /\ seen \in Settings
    /\ wake \in BOOLEAN /\ unsaid \in BOOLEAN /\ restoring \in BOOLEAN
    /\ handler \in {"idle", "saved"}
    /\ clock \in 0..(Day - 1) /\ timer \in 0..Day
    /\ loop \in {"top", "read", "wait", "due", "create", "deliver"}
    /\ acts \in 0..MaxActs /\ faults \in 0..MaxFaults

BroadcastTypes ==
    /\ made \in 0..MaxDrafts /\ draft \in 0..made /\ current \in 0..made
    /\ next \in 0..(Readers + 1) /\ attempt \in {0, 1}
    /\ sent \in Nat /\ failed \in Nat

GhostTypes ==
    /\ got \in [Drafts -> [1..Readers -> 0..2]]
    /\ lost \in [Drafts -> SUBSET (1..Readers)]

\* The types, in three parts that few steps touch together.
LEMMA TypesSplit ==
    /\ BackgroundTypeOK <=> SchedulerTypes /\ BroadcastTypes /\ GhostTypes
    /\ BackgroundTypeOK' <=> SchedulerTypes' /\ BroadcastTypes' /\ GhostTypes'
BY DEF BackgroundTypeOK, SchedulerTypes, BroadcastTypes, GhostTypes

\* Who can have which copies.
CopiesInv ==
    /\ \A d \in Drafts, r \in 1..Readers : got[d][r] > 1 => r \in lost[d]
    /\ \A d \in Drafts, r \in 1..Readers : d > made \/ d = draft => got[d][r] = 0
    /\ current # 0 => draft # current

\* How far the broadcast that is on has come.
ProgressInv ==
    current # 0 =>
        /\ next = 0 => \A r \in 1..Readers : got[current][r] = 0
        /\ next = 0 => sent = 0 /\ failed = 0 /\ attempt = 0
        /\ next > 0 => sent + failed = next - 1
        /\ \A r \in 1..Readers : r > next => got[current][r] = 0
        /\ \A r \in 1..Readers : r = next =>
              IF attempt = 0 THEN got[current][r] = 0
              ELSE got[current][r] = 0 \/ (got[current][r] = 1 /\ r \in lost[current])
        /\ failed = 0 => \A r \in 1..Readers : r < next => got[current][r] > 0
        /\ sent = 0 => \A r \in 1..Readers :
              r < next /\ got[current][r] > 0 => r \in lost[current]

BInv == BackgroundTypeOK /\ SchedulerInv /\ CopiesInv /\ ProgressInv

\* The next full hour lies within a day.
LEMMA UntilRange ==
    ASSUME NEW h \in Hours, clock \in 0..(Day - 1)
    PROVE  Until(h) \in 1..Day
BY BackgroundAssumption DEF Until

\* An hour later it is an hour nearer, until it is reached.
LEMMA UntilTick ==
    ASSUME NEW h \in Hours, clock \in 0..(Day - 1),
           clock' = IF clock + 1 = Day THEN 0 ELSE clock + 1
    PROVE  IF Until(h) = 1 THEN Until(h)' = Day ELSE Until(h)' = Until(h) - 1
BY BackgroundAssumption DEF Until

\* The invariant holds initially.
LEMMA InitBInv == Init => BInv
<1> SUFFICES ASSUME Init PROVE BInv
  OBVIOUS
<1>1. BackgroundTypeOK
  <2>1. SchedulerTypes
    <3>1. stored \in Settings /\ seen \in Settings
      BY DEF Init
    <3>2. /\ clock \in 0..(Day - 1) /\ timer \in 0..Day
          /\ acts \in 0..MaxActs /\ faults \in 0..MaxFaults
      BY BackgroundAssumption DEF Init
    <3> QED
      BY <3>1, <3>2 DEF Init, SchedulerTypes
  <2>2. BroadcastTypes
    BY BackgroundAssumption DEF Init, BroadcastTypes
  <2>3. GhostTypes
    BY DEF Init, GhostTypes
  <2> QED
    BY <2>1, <2>2, <2>3, TypesSplit
<1>2. SchedulerInv
  BY DEF Init, SchedulerInv
<1>3. CopiesInv
  BY DEF Init, CopiesInv
<1>4. ProgressInv
  BY DEF Init, ProgressInv
<1> QED
  BY <1>1, <1>2, <1>3, <1>4 DEF BInv

-----------------------------------------------------------------------------
(* Each part of the invariant is preserved *)

\* The administrator, the restore and the loop leave the broadcast alone.
SchedulerStep ==
    /\ \/ \E s \in Settings : Save(s) \/ Replace(s)
       \/ Wake \/ AuditFails \/ CloseGate \/ OpenGate
       \/ Loop \/ Tick \/ Fail
    /\ UNCHANGED broadcast

\* The broadcast leaves the scheduler alone.
BroadcastStep ==
    /\ \/ Preview \/ Forget \/ \E d \in Drafts : Confirm(d)
       \/ List \/ Copy \/ EndBroadcast
    /\ UNCHANGED <<settings, scheduler>>

\* What one answer, or one error, does to the copies and to the counters.
LEMMA CopyEffect ==
    ASSUME BackgroundTypeOK, Copy
    PROVE  /\ current \in Drafts /\ next \in 1..Readers
           /\ got' \in {got, [got EXCEPT ![current][next] = @ + 1]}
           /\ lost' \in {lost, [lost EXCEPT ![current] = @ \union {next}]}
           /\ current' = current /\ draft' = draft /\ made' = made
           /\ \A d \in Drafts, r \in 1..Readers :
                 d # current \/ r # next =>
                     got'[d][r] = got[d][r] /\ (r \in lost'[d] <=> r \in lost[d])
           /\ \/ /\ got'[current][next] = got[current][next] + 1
                 /\ lost' = lost
                 /\ Count(TRUE)
              \/ /\ \/ got' = got /\ lost' = lost
                    \/ /\ got'[current][next] = got[current][next] + 1
                       /\ next \in lost'[current]
                 /\ \/ Count(FALSE)
                    \/ /\ attempt = 0 /\ attempt' = 1
                       /\ UNCHANGED <<sent, failed, next>>
<1> current \in Drafts /\ next \in 1..Readers
  BY BackgroundAssumption DEF Copy, BackgroundTypeOK
<1> /\ got \in [Drafts -> [1..Readers -> 0..2]]
    /\ lost \in [Drafts -> SUBSET (1..Readers)]
  BY DEF BackgroundTypeOK
<1> USE DEF Copy, Copies
<1>1. CASE Copies(1) /\ Count(TRUE) /\ UNCHANGED lost
  BY <1>1
<1>2. CASE UNCHANGED <<got, lost>> /\ Count(FALSE)
  BY <1>2
<1>3. ASSUME NEW arrived \in BOOLEAN,
             IF arrived
               THEN /\ Copies(1)
                    /\ lost' = [lost EXCEPT ![current] = @ \union {next}]
               ELSE UNCHANGED <<got, lost>>
      PROVE  /\ got' \in {got, [got EXCEPT ![current][next] = @ + 1]}
             /\ lost' \in {lost, [lost EXCEPT ![current] = @ \union {next}]}
             /\ \A d \in Drafts, r \in 1..Readers :
                   d # current \/ r # next =>
                       got'[d][r] = got[d][r] /\ (r \in lost'[d] <=> r \in lost[d])
             /\ \/ got' = got /\ lost' = lost
                \/ /\ got'[current][next] = got[current][next] + 1
                   /\ next \in lost'[current]
  <2>1. CASE arrived
    <3>1. /\ got' = [got EXCEPT ![current][next] = @ + 1]
          /\ lost' = [lost EXCEPT ![current] = @ \union {next}]
      BY <1>3, <2>1
    <3>2. /\ got'[current][next] = got[current][next] + 1
          /\ \A d \in Drafts, r \in 1..Readers :
                d # current \/ r # next => got'[d][r] = got[d][r]
      BY <3>1
    <3>3. /\ next \in lost'[current]
          /\ \A d \in Drafts, r \in 1..Readers :
                d # current \/ r # next => (r \in lost'[d] <=> r \in lost[d])
      BY <3>1
    <3> QED
      BY <3>1, <3>2, <3>3
  <2>2. CASE ~arrived
    BY <1>3, <2>2
  <2> QED
    BY <2>1, <2>2
<1>4. \/ Copies(1) /\ Count(TRUE) /\ UNCHANGED lost
      \/ UNCHANGED <<got, lost>> /\ Count(FALSE)
      \/ /\ \/ Count(FALSE)
            \/ /\ attempt = 0 /\ attempt' = 1
               /\ UNCHANGED <<sent, failed, next>>
         /\ \E arrived \in BOOLEAN :
               IF arrived
                 THEN /\ Copies(1)
                      /\ lost' = [lost EXCEPT ![current] = @ \union {next}]
                 ELSE UNCHANGED <<got, lost>>
  BY DEF Copies
<1>5. current' = current /\ draft' = draft /\ made' = made
  OBVIOUS
<1> QED
  BY <1>1, <1>2, <1>3, <1>4, <1>5

\* A step is the scheduler's, the broadcast's or a crash.
LEMMA Halves ==
    ASSUME Next
    PROVE  SchedulerStep \/ BroadcastStep \/ Crash
<1>1. CASE \E s \in Settings : Save(s) \/ Replace(s)
  BY <1>1 DEF SchedulerStep, Save, Replace
<1>2. CASE Wake \/ AuditFails \/ CloseGate \/ OpenGate
  BY <1>2 DEF SchedulerStep, Wake, AuditFails, CloseGate, OpenGate
<1>3. CASE Loop
  BY <1>3 DEF SchedulerStep, Loop, ReadStatus, Arm, Woken, Timeout, Recheck, Create, Deliver
<1>4. CASE Tick \/ Fail
  BY <1>4 DEF SchedulerStep, Tick, Fail
<1>5. CASE Preview \/ Forget \/ \E d \in Drafts : Confirm(d)
  BY <1>5 DEF BroadcastStep, Preview, Forget, Confirm
<1>6. CASE List \/ Copy \/ EndBroadcast
  BY <1>6 DEF BroadcastStep, List, Copy, EndBroadcast
<1> QED
  BY <1>1, <1>2, <1>3, <1>4, <1>5, <1>6 DEF Next

\* A fault is counted within its bound.
LEMMA FaultCounted ==
    ASSUME SchedulerTypes, Trouble
    PROVE  faults' \in 0..MaxFaults
BY BackgroundAssumption DEF SchedulerTypes, Trouble

\* Every step keeps the types of settings and scheduler.
LEMMA SchedulerTypesStep ==
    ASSUME BInv, [Next]_vars
    PROVE  SchedulerTypes'
<1> SchedulerTypes
  BY TypesSplit DEF BInv
<1> 0 \in 0..Day /\ 1 \in 0..Day
  BY BackgroundAssumption
<1> USE BackgroundAssumption DEF SchedulerTypes
<1>1. ASSUME NEW s \in Settings, Save(s) PROVE SchedulerTypes'
  BY <1>1 DEF Save, scheduler
<1>13. ASSUME NEW s \in Settings, Replace(s) PROVE SchedulerTypes'
  BY <1>13 DEF Replace, scheduler
<1>2. CASE Wake \/ OpenGate
  BY <1>2 DEF Wake, OpenGate, scheduler
<1>14. CASE AuditFails
  BY <1>14, FaultCounted DEF AuditFails, scheduler
<1>15. CASE CloseGate
  BY <1>15 DEF CloseGate, scheduler
<1>3. CASE ReadStatus \/ Woken \/ Timeout \/ Recheck \/ Create \/ Deliver
  BY <1>3 DEF ReadStatus, Woken, Timeout, Recheck, Create, Deliver, settings
<1>10. CASE Fail
  BY <1>10, FaultCounted DEF Fail, settings
<1>4. CASE Arm
  <2>1. Until(seen.hour) \in 1..Day
    BY UntilRange DEF Settings
  <2> QED
    BY <1>4, <2>1 DEF Arm, settings
<1>5. CASE Tick
  BY <1>5 DEF Tick, settings
<1>6. CASE Preview \/ Forget \/ List
  BY <1>6 DEF Preview, Forget, List, settings, scheduler
<1>11. CASE Copy
  BY <1>11 DEF Copy, settings, scheduler
<1>12. CASE EndBroadcast
  BY <1>12, FaultCounted DEF EndBroadcast, settings, scheduler
<1>7. ASSUME NEW d \in Drafts, Confirm(d) PROVE SchedulerTypes'
  BY <1>7 DEF Confirm, settings, scheduler
<1>8. CASE Crash
  BY <1>8, FaultCounted DEF Crash
<1>9. CASE UNCHANGED vars
  BY <1>9 DEF vars, settings, scheduler
<1> QED
  BY <1>1, <1>2, <1>3, <1>4, <1>5, <1>6, <1>7, <1>8, <1>9, <1>10, <1>11, <1>12,
     <1>13, <1>14, <1>15
  DEF Next, Loop

\* Every step keeps the types of draft and task.
LEMMA BroadcastTypesStep ==
    ASSUME BInv, [Next]_vars
    PROVE  BroadcastTypes'
<1> BroadcastTypes /\ BackgroundTypeOK
  BY TypesSplit DEF BInv
<1> USE BackgroundAssumption DEF BroadcastTypes
<1>1. CASE SchedulerStep \/ UNCHANGED vars
  BY <1>1 DEF SchedulerStep, vars, broadcast
<1>2. CASE Preview \/ Forget \/ List
  BY <1>2 DEF Preview, Forget, List
<1>3. ASSUME NEW d \in Drafts, Confirm(d) PROVE BroadcastTypes'
  BY <1>3 DEF Confirm, NoBroadcast
<1>4. CASE Copy
  BY <1>4, CopyEffect DEF Count
<1>5. CASE EndBroadcast \/ Crash
  BY <1>5 DEF EndBroadcast, Crash, NoBroadcast
<1> QED
  BY <1>1, <1>2, <1>3, <1>4, <1>5, Halves DEF BroadcastStep

\* A reader gets two copies at most: the retry is the last attempt.
LEMMA GhostTypesStep ==
    ASSUME BInv, [Next]_vars
    PROVE  GhostTypes'
<1> GhostTypes /\ BackgroundTypeOK
  BY TypesSplit DEF BInv
<1> USE DEF GhostTypes
<1>1. CASE SchedulerStep \/ Crash \/ UNCHANGED vars
  BY <1>1 DEF SchedulerStep, Crash, vars, broadcast
<1>2. CASE Preview \/ Forget \/ List \/ EndBroadcast
  BY <1>2 DEF Preview, Forget, List, EndBroadcast
<1>3. ASSUME NEW d \in Drafts, Confirm(d) PROVE GhostTypes'
  BY <1>3 DEF Confirm
<1>4. CASE Copy
  <2>1. got[current][next] \in {0, 1}
    BY <1>4 DEF Copy, BInv, ProgressInv
  <2>2. current \in Drafts /\ next \in 1..Readers
    BY <1>4, CopyEffect
  <2> DEFINE row == [got[current] EXCEPT ![next] = @ + 1]
  <2>5. row \in [1..Readers -> 0..2]
    BY <2>1, <2>2
  <2>6. [got EXCEPT ![current] = row] \in [Drafts -> [1..Readers -> 0..2]]
    BY <2>2, <2>5
  <2>7. [got EXCEPT ![current][next] = @ + 1] = [got EXCEPT ![current] = row]
    BY <2>2
  <2>3. got' \in [Drafts -> [1..Readers -> 0..2]]
    BY <1>4, <2>6, <2>7, CopyEffect
  <2>4. lost' \in [Drafts -> SUBSET (1..Readers)]
    BY <1>4, <2>2, CopyEffect
  <2> QED
    BY <2>3, <2>4
<1> QED
  BY <1>1, <1>2, <1>3, <1>4, Halves DEF BroadcastStep

\* A save leaves its wake-up to come, and a round of the loop reads what is stored.
LEMMA SchedulerInvStep ==
    ASSUME BInv, [Next]_vars
    PROVE  SchedulerInv'
<1> USE DEF BInv, SchedulerInv
<1>1. ASSUME NEW s \in Settings, Save(s) \/ Replace(s) PROVE SchedulerInv'
  BY <1>1 DEF Save, Replace, scheduler, Until, BackgroundTypeOK
<1>2. CASE Wake \/ AuditFails \/ CloseGate \/ OpenGate
  BY <1>2 DEF Wake, AuditFails, CloseGate, OpenGate, scheduler, Until, BackgroundTypeOK
<1>3. CASE ReadStatus \/ Woken \/ Timeout \/ Recheck \/ Create \/ Deliver \/ Fail
  BY <1>3 DEF ReadStatus, Woken, Timeout, Recheck, Create, Deliver, Fail,
              settings, scheduler, Until
<1>4. CASE Arm
  BY <1>4 DEF Arm, settings, Until
<1>5. CASE Tick
  <2>1. CASE seen.enabled
    <3>1. /\ Until(seen.hour) \in 1..Day
          /\ IF Until(seen.hour) = 1 THEN Until(seen.hour)' = Day
             ELSE Until(seen.hour)' = Until(seen.hour) - 1
      BY <1>5, UntilRange, UntilTick DEF Tick, Settings, BackgroundTypeOK, Until
    <3>2. timer = Until(seen.hour)
      BY <1>5, <2>1 DEF Tick
    <3> QED
      BY <1>5, <2>1, <3>1, <3>2 DEF Tick, settings
  <2>2. CASE ~seen.enabled
    BY <1>5, <2>2 DEF Tick, settings, BackgroundTypeOK
  <2> QED
    BY <2>1, <2>2
<1>6. CASE BroadcastStep \/ UNCHANGED vars
  BY <1>6 DEF BroadcastStep, settings, scheduler, vars, Until
<1>7. CASE Crash
  BY <1>7 DEF Crash
<1> QED
  BY <1>1, <1>2, <1>3, <1>4, <1>5, <1>6, <1>7, Halves DEF SchedulerStep, Loop

\* Only the task copies, and its draft is no longer the one remembered.
LEMMA CopiesInvStep ==
    ASSUME BInv, [Next]_vars
    PROVE  CopiesInv'
<1> USE DEF BInv, CopiesInv
<1>1. CASE SchedulerStep \/ UNCHANGED vars
  BY <1>1 DEF SchedulerStep, broadcast, vars
<1>2. CASE Forget \/ EndBroadcast \/ Crash
  <2>1. /\ draft' \in {0, draft} /\ current' \in {0, current}
        /\ UNCHANGED <<got, lost, made>>
        /\ current' # 0 => draft' = 0
    BY <1>2 DEF Forget, EndBroadcast, Crash
  <2> QED
    BY <2>1
<1>6. CASE List
  BY <1>6 DEF List
<1>3. CASE Preview
  BY <1>3, BackgroundAssumption DEF Preview, BackgroundTypeOK
<1>4. ASSUME NEW d \in Drafts, Confirm(d) PROVE CopiesInv'
  BY <1>4 DEF Confirm, BackgroundTypeOK
<1>5. CASE Copy
  <2>1. got[current][next] = 0 \/ (got[current][next] = 1 /\ next \in lost[current])
    BY <1>5 DEF Copy, ProgressInv
  <2>2. /\ current # draft /\ current <= made
        /\ draft' = draft /\ made' = made /\ current' = current
    BY <1>5, CopyEffect DEF BackgroundTypeOK, Copy
  <2>3. ASSUME NEW d \in Drafts, NEW r \in 1..Readers
        PROVE  /\ got'[d][r] > 1 => r \in lost'[d]
               /\ d > made \/ d = draft => got'[d][r] = 0
    <3>1. CASE d # current \/ r # next
      BY <3>1, <1>5, CopyEffect
    <3>2. CASE d = current /\ r = next
      <4>1. /\ got'[d][r] \in {got[d][r], got[d][r] + 1}
            /\ r \in lost[d] => r \in lost'[d]
        BY <3>2, <1>5, CopyEffect
      <4>2. got'[d][r] > 1 => r \in lost'[d]
        BY <3>2, <2>1, <4>1
      <4>3. ~(d > made \/ d = draft)
        BY <3>2, <2>2 DEF BackgroundTypeOK
      <4> QED
        BY <2>2, <4>2, <4>3
    <3> QED
      BY <3>1, <3>2
  <2> QED
    BY <2>2, <2>3
<1> QED
  BY <1>1, <1>2, <1>3, <1>4, <1>5, <1>6, Halves DEF BroadcastStep

\* The numbers move with the reader, and the first failed attempt is remembered.
LEMMA ProgressInvStep ==
    ASSUME BInv, [Next]_vars
    PROVE  ProgressInv'
<1> USE DEF BInv, ProgressInv
<1>1. CASE SchedulerStep \/ UNCHANGED vars
  BY <1>1 DEF SchedulerStep, broadcast, vars
<1>2. CASE Preview \/ EndBroadcast \/ Crash
  BY <1>2 DEF Preview, EndBroadcast, Crash
<1>3. CASE Forget
  BY <1>3 DEF Forget
<1>6. CASE List
  BY <1>6, BackgroundAssumption DEF List
<1>4. ASSUME NEW d \in Drafts, Confirm(d) PROVE ProgressInv'
  BY <1>4 DEF Confirm, NoBroadcast, CopiesInv
<1>5. CASE Copy
  <2> DEFINE Beyond == \A r \in 1..Readers : r > next => got[current][r] = 0
             AtNext == \A r \in 1..Readers : r = next =>
                          IF attempt = 0 THEN got[current][r] = 0
                          ELSE \/ got[current][r] = 0
                               \/ got[current][r] = 1 /\ r \in lost[current]
  <2>1. /\ Beyond /\ AtNext
        /\ sent + failed = next - 1
        /\ next \in Nat /\ next > 0 /\ sent \in Nat /\ failed \in Nat
        /\ \A r \in 1..Readers : got[current][r] \in 0..2
    <3>1. current \in Drafts /\ next \in 1..Readers /\ current # 0
      BY <1>5, CopyEffect DEF Copy
    <3>2. got[current] \in [1..Readers -> 0..2] /\ next \in Nat /\ next > 0
      BY <3>1, BackgroundAssumption DEF BackgroundTypeOK
    <3>3. sent + failed = next - 1 /\ sent \in Nat /\ failed \in Nat
      BY <3>1, <3>2 DEF BackgroundTypeOK
    <3>4. Beyond /\ AtNext
      BY <3>1
    <3> QED
      BY <3>2, <3>3, <3>4
  <2>2. Beyond' /\ AtNext'
    BY <1>5, <2>1, CopyEffect DEF Count
  <2>3. next' > 0 /\ sent' + failed' = next' - 1
    BY <1>5, <2>1, CopyEffect DEF Count
  <2>4. failed' = 0 => \A r \in 1..Readers : r < next' => got'[current][r] > 0
    BY <1>5, <2>1, CopyEffect DEF Count
  <2>5. sent' = 0 => \A r \in 1..Readers :
              r < next' /\ got'[current][r] > 0 => r \in lost'[current]
    BY <1>5, <2>1, CopyEffect DEF Count
  <2> QED
    BY <1>5, <2>2, <2>3, <2>4, <2>5, CopyEffect
<1> QED
  BY <1>1, <1>2, <1>3, <1>4, <1>5, <1>6, Halves DEF BroadcastStep

-----------------------------------------------------------------------------
(* The theorems *)

\* BInv is an invariant, and with it the types.
THEOREM BackgroundInductive == Spec => []BInv
<1>1. BInv /\ [Next]_vars => BInv'
  BY SchedulerTypesStep, BroadcastTypesStep, GhostTypesStep, TypesSplit,
     SchedulerInvStep, CopiesInvStep, ProgressInvStep DEF BInv
<1> QED
  BY InitBInv, <1>1, PTL DEF Spec

\* The scheduler never sleeps on settings that have changed: no order of
\* saves, wake-ups, restores and rounds of the loop loses a wake-up.
THEOREM NoLostWakeup == Spec => []SleepsOnCurrentSettings
<1>1. BInv => SleepsOnCurrentSettings
  BY DEF BInv, SchedulerInv, SleepsOnCurrentSettings
<1> QED
  BY BackgroundInductive, <1>1, PTL

\* A draft goes to a reader once unless an answer was lost, whatever buttons
\* are pressed, and the report's numbers follow the copies.
THEOREM OneCopy == Spec => []DraftSentOnce
<1>1. BInv => DraftSentOnce
  BY BackgroundAssumption
  DEF BInv, BackgroundTypeOK, CopiesInv, ProgressInv, DraftSentOnce
<1> QED
  BY BackgroundInductive, <1>1, PTL
=============================================================================
