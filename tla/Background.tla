----------------------------- MODULE Background -----------------------------
(***************************************************************************)
(* What runs beside the updates for long: the scheduler of the automatic   *)
(* backup (_backup_loop), which sleeps until the stored hour and is woken  *)
(* when the administrator changes its settings, and the public broadcast,  *)
(* a task that copies one message to every user.                           *)
(*                                                                         *)
(* Time is counted in hours of a day of Day hours, and passes only while   *)
(* the loop sleeps: what it does when awake takes no hour.                 *)
(***************************************************************************)
EXTENDS Integers

CONSTANTS
    Day,         (* hours of a day; the setting goes from 0 to Day         *)
    Hours,       (* the settings the administrator uses                    *)
    Readers,     (* how many users a broadcast goes to, in order           *)
    MaxActs, MaxDrafts, MaxFaults    (* bounds                          *)

ASSUME BackgroundAssumption ==
    /\ Day \in Nat \ {0}
    /\ Hours \subseteq 0..Day
    /\ Readers \in Nat \ {0}
    /\ MaxActs \in Nat /\ MaxDrafts \in Nat /\ MaxFaults \in Nat

VARIABLES
    stored,    \* the settings in the database: enabled, hour
    wake,      \* _BACKUP_SCHEDULER_WAKE
    handler,   \* the administrator's update: idle, or its setting is saved
    unsaid,    \* a change was saved and its handler failed before the wake,
               \* and the loop has not read the settings since (ghost)
    restoring, \* _DATABASE_RESTORE_IN_PROGRESS
    clock,     \* the hour of the day
    loop,      \* where _backup_loop is
    seen,      \* the settings it last read
    timer,     \* hours until its sleep is over
    draft,     \* public_broadcast_draft: its token; 0: none
    made,      \* tokens given out
    current,   \* public_broadcast_task: the draft it sends; 0: none
    next,      \* the reader it is at; 0: the readers are not listed yet
    attempt,   \* failed attempts for that reader
    sent, failed,
    got,       \* the copies of a draft a reader has (ghost)
    lost,      \* the drafts whose answer was lost at a reader (ghost)
    acts, faults

settings == <<stored, wake, handler, unsaid, restoring>>
scheduler == <<clock, loop, seen, timer>>
broadcast == <<draft, made, current, next, attempt, sent, failed, got, lost>>
vars == <<settings, scheduler, broadcast, acts, faults>>

Settings == [enabled : BOOLEAN, hour : Hours]
Drafts == 1..MaxDrafts

\* _seconds_until_next_backup: to the next full hour of that name, hour Day
\* being hour 0; never "now".
Until(h) ==
    LET target == IF h = Day THEN 0 ELSE h
    IN  IF target > clock THEN target - clock ELSE target - clock + Day

-----------------------------------------------------------------------------
Init ==
    /\ stored \in Settings
    /\ wake = FALSE /\ handler = "idle" /\ unsaid = FALSE /\ restoring = FALSE
    /\ clock = 0 /\ loop = "top" /\ seen = stored /\ timer = 0
    /\ draft = 0 /\ made = 0
    /\ current = 0 /\ next = 0 /\ attempt = 0 /\ sent = 0 /\ failed = 0
    /\ got = [d \in Drafts |-> [r \in 1..Readers |-> 0]]
    /\ lost = [d \in Drafts |-> {}]
    /\ acts = 0 /\ faults = 0

Trouble == faults < MaxFaults /\ faults' = faults + 1

(***************************************************************************)
(* The administrator's settings                                            *)
(***************************************************************************)

\* set_auto_backup_enabled, set_auto_backup_hour: the change is committed in
\* a thread, and its audit row in a transaction of its own.
Save(s) ==
    /\ handler = "idle" /\ ~restoring
    /\ acts < MaxActs
    /\ s # stored
    /\ s.enabled = stored.enabled \/ s.hour = stored.hour
    /\ stored' = s
    /\ handler' = "saved"
    /\ acts' = acts + 1
    /\ UNCHANGED <<wake, unsaid, restoring, scheduler, broadcast, faults>>

\* The handler resumes: _wake_backup_scheduler.
Wake ==
    /\ handler = "saved"
    /\ handler' = "idle"
    /\ wake' = TRUE
    /\ UNCHANGED <<stored, unsaid, restoring, scheduler, broadcast, acts, faults>>

\* The audit row cannot be written, or the lane's answer is lost: the handler
\* raises and the loop is not woken.
AuditFails ==
    /\ handler = "saved"
    /\ Trouble
    /\ handler' = "idle"
    /\ unsaid' = TRUE
    /\ UNCHANGED <<stored, wake, restoring, scheduler, broadcast, acts>>

\* A restore of the database closes its gate, and once lanes, updates and
\* background work are quiet brings in other settings and wakes the loop;
\* the gate opens later, or without a replacement.
CloseGate ==
    /\ ~restoring /\ handler = "idle"
    /\ acts < MaxActs
    /\ acts' = acts + 1
    /\ restoring' = TRUE
    /\ UNCHANGED <<stored, wake, handler, unsaid, scheduler, broadcast, faults>>

Replace(s) ==
    /\ restoring
    /\ acts < MaxActs
    /\ acts' = acts + 1
    /\ loop \in {"top", "wait"}
    /\ stored' = s
    /\ wake' = TRUE
    /\ UNCHANGED <<handler, unsaid, restoring, scheduler, broadcast, faults>>

OpenGate ==
    /\ restoring
    /\ restoring' = FALSE
    /\ UNCHANGED <<stored, wake, handler, unsaid, scheduler, broadcast, acts, faults>>

(***************************************************************************)
(* _backup_loop                                                            *)
(***************************************************************************)

\* The loop goes round: during a restore it only sleeps for a second.
ReadStatus ==
    /\ loop = "top" /\ ~restoring
    /\ seen' = stored
    /\ unsaid' = FALSE
    /\ loop' = "read"
    /\ UNCHANGED <<stored, wake, handler, restoring, clock, timer, broadcast, acts, faults>>

\* Mutant: the event is cleared when the wait begins.
ArmAfresh ==
    /\ loop = "read"
    /\ timer' = IF seen.enabled THEN Until(seen.hour) ELSE 1
    /\ wake' = FALSE
    /\ loop' = "wait"
    /\ UNCHANGED <<stored, handler, unsaid, restoring, clock, seen, broadcast, acts, faults>>

\* wait_for(wake.wait(), delay); disabled, it looks again in an hour.
Arm ==
    /\ loop = "read"
    /\ timer' = IF seen.enabled THEN Until(seen.hour) ELSE 1
    /\ loop' = "wait"
    /\ UNCHANGED <<settings, clock, seen, broadcast, acts, faults>>

Woken ==
    /\ loop = "wait" /\ wake
    /\ wake' = FALSE
    /\ loop' = "top"
    /\ UNCHANGED <<stored, handler, unsaid, restoring, clock, seen, timer, broadcast, acts, faults>>

\* An hour of sleep.
Tick ==
    /\ loop = "wait" /\ timer > 0
    /\ ~wake /\ handler = "idle"
    /\ clock' = IF clock + 1 = Day THEN 0 ELSE clock + 1
    /\ timer' = timer - 1
    /\ UNCHANGED <<settings, loop, seen, broadcast, acts, faults>>

\* The time is up, whether or not somebody is waking the loop just now.
Timeout ==
    /\ loop = "wait" /\ timer = 0
    /\ loop' = IF restoring THEN "top" ELSE "due"
    /\ UNCHANGED <<settings, clock, seen, timer, broadcast, acts, faults>>

\* Still enabled?
Recheck ==
    /\ loop = "due"
    /\ loop' = IF stored.enabled THEN "create" ELSE "top"
    /\ UNCHANGED <<settings, clock, seen, timer, broadcast, acts, faults>>

\* backup_database(force=True) copies the database and drops old copies.
Create ==
    /\ loop = "create"
    /\ loop' = "deliver"
    /\ UNCHANGED <<settings, clock, seen, timer, broadcast, acts, faults>>

\* _send_scheduled_backup: three attempts for each administrator, and a row
\* that says who has it; the loop goes round again either way.
Deliver ==
    /\ loop = "deliver"
    /\ loop' = "top"
    /\ UNCHANGED <<settings, clock, seen, timer, broadcast, acts, faults>>

\* Mutant: an exception ends the loop.
FailForGood ==
    /\ loop \in {"read", "due", "create", "deliver"}
    /\ Trouble
    /\ loop' = "stopped"
    /\ UNCHANGED <<settings, clock, seen, timer, broadcast, acts>>

\* A step raises: the loop goes round again in a minute.
Fail ==
    /\ loop \in {"read", "due", "create", "deliver"}
    /\ Trouble
    /\ loop' = "top"
    /\ UNCHANGED <<settings, clock, seen, timer, broadcast, acts>>

(***************************************************************************)
(* The public broadcast                                                    *)
(***************************************************************************)
NoBroadcast == next' = 0 /\ attempt' = 0 /\ sent' = 0 /\ failed' = 0

\* The administrator's text becomes a draft with a token of its own, unless a
\* broadcast is on; an older draft is forgotten.
Preview ==
    /\ current = 0 /\ ~restoring
    /\ made < MaxDrafts
    /\ acts < MaxActs
    /\ acts' = acts + 1
    /\ made' = made + 1
    /\ draft' = made'
    /\ UNCHANGED <<settings, scheduler, current, next, attempt, sent, failed, got, lost, faults>>

\* Cancelled, replaced by another dialogue, or older than its time to live.
Forget ==
    /\ draft # 0
    /\ draft' = 0
    /\ UNCHANGED <<settings, scheduler, made, current, next, attempt, sent, failed, got, lost, acts, faults>>

\* Mutant: the draft is remembered after it was confirmed.
ConfirmAgain(d) ==
    /\ d <= made /\ current = 0 /\ ~restoring
    /\ draft = d
    /\ current' = d
    /\ NoBroadcast
    /\ UNCHANGED <<settings, scheduler, draft, made, got, lost, acts, faults>>

\* A confirmation button, an old one perhaps.  While no broadcast is on, its
\* draft is sent if it is the one remembered; the remembered one is forgotten
\* in any case.
Confirm(d) ==
    /\ d <= made /\ current = 0 /\ ~restoring
    /\ draft' = 0
    /\ current' = IF draft = d THEN d ELSE 0
    /\ NoBroadcast
    /\ UNCHANGED <<settings, scheduler, made, got, lost, acts, faults>>

\* list_broadcast_recipient_ids.
List ==
    /\ current # 0 /\ next = 0
    /\ next' = 1
    /\ UNCHANGED <<settings, scheduler, draft, made, current, attempt, sent, failed, got, lost, acts, faults>>

\* _run_public_broadcast counts the outcome and goes on to the next reader.
Count(ok) ==
    /\ sent' = IF ok THEN sent + 1 ELSE sent
    /\ failed' = IF ok THEN failed ELSE failed + 1
    /\ next' = next + 1
    /\ attempt' = 0

Copies(n) == got' = [got EXCEPT ![current][next] = @ + n]

\* copy_message answers; a second error ends the attempts.  An error may be
\* an answer that was lost on the way back.
Copy ==
    /\ current # 0 /\ next \in 1..Readers
    /\ \/ Copies(1) /\ Count(TRUE) /\ UNCHANGED lost
       \/ UNCHANGED <<got, lost>> /\ Count(FALSE)
       \/ \E arrived \in BOOLEAN :
              /\ IF arrived
                   THEN /\ Copies(1)
                        /\ lost' = [lost EXCEPT ![current] = @ \union {next}]
                   ELSE UNCHANGED <<got, lost>>
              /\ IF attempt = 0
                   THEN attempt' = 1 /\ UNCHANGED <<sent, failed, next>>
                   ELSE Count(FALSE)
    /\ UNCHANGED <<settings, scheduler, draft, made, current, acts, faults>>

\* The report; or the task stops with an error before the end.
EndBroadcast ==
    /\ current # 0
    /\ IF next > Readers THEN UNCHANGED faults ELSE Trouble
    /\ current' = 0
    /\ NoBroadcast
    /\ UNCHANGED <<settings, scheduler, draft, made, got, lost, acts>>

\* The process is restarted; tasks, drafts and the event are gone.
Crash ==
    /\ Trouble
    /\ wake' = FALSE /\ handler' = "idle" /\ unsaid' = FALSE /\ restoring' = FALSE
    /\ loop' = "top" /\ timer' = 0
    /\ draft' = 0 /\ current' = 0
    /\ NoBroadcast
    /\ UNCHANGED <<stored, clock, seen, made, got, lost, acts>>

-----------------------------------------------------------------------------
Loop ==
    \/ ReadStatus \/ Arm \/ Woken \/ Timeout
    \/ Recheck \/ Create \/ Deliver

Next ==
    \/ \E s \in Settings : Save(s) \/ Replace(s)
    \/ Wake \/ AuditFails \/ CloseGate \/ OpenGate
    \/ Loop \/ Tick \/ Fail
    \/ Preview \/ Forget \/ \E d \in Drafts : Confirm(d)
    \/ List \/ Copy \/ EndBroadcast
    \/ Crash

Spec == Init /\ [][Next]_vars

\* The event loop runs what is ready, a handler and a restore come to their
\* end, and time passes; nothing is assumed of the broadcast or its readers.
FairSpec ==
    /\ Spec
    /\ WF_vars(Loop) /\ WF_vars(Tick)
    /\ WF_vars(Wake) /\ WF_vars(OpenGate)

-----------------------------------------------------------------------------
BackgroundTypeOK ==
    /\ stored \in Settings /\ seen \in Settings
    /\ wake \in BOOLEAN /\ unsaid \in BOOLEAN /\ restoring \in BOOLEAN
    /\ handler \in {"idle", "saved"}
    /\ clock \in 0..(Day - 1) /\ timer \in 0..Day
    /\ loop \in {"top", "read", "wait", "due", "create", "deliver"}
    /\ made \in 0..MaxDrafts /\ draft \in 0..made /\ current \in 0..made
    /\ next \in 0..(Readers + 1) /\ attempt \in {0, 1}
    /\ sent \in Nat /\ failed \in Nat
    /\ got \in [Drafts -> [1..Readers -> 0..2]]
    /\ lost \in [Drafts -> SUBSET (1..Readers)]
    /\ acts \in 0..MaxActs /\ faults \in 0..MaxFaults

(***************************************************************************)
(* The scheduler never sleeps on settings that have changed: asleep, with  *)
(* nobody about to wake it, its timer ends at the stored hour, or within   *)
(* the hour if backups are off.  No order of saves, wakes, restores and    *)
(* rounds of the loop loses a wake-up; only a handler that fails between   *)
(* its commit and its wake-up does.                                        *)
(***************************************************************************)
SleepsOnCurrentSettings ==
    loop = "wait" /\ ~wake /\ handler = "idle" /\ ~unsaid =>
        IF stored.enabled
          THEN timer = Until(stored.hour) \/ (timer = 0 /\ Until(stored.hour) = Day)
          ELSE timer \in {0, 1}

(***************************************************************************)
(* A draft goes to a reader once, whatever confirmation buttons are        *)
(* pressed again, later or out of order, unless the answer of a copy was   *)
(* lost; and the report's numbers follow: who is counted as reached has    *)
(* the message, who has it and is not counted lost the answer.             *)
(***************************************************************************)
DraftSentOnce ==
    /\ \A d \in Drafts, r \in 1..Readers : got[d][r] > 1 => r \in lost[d]
    /\ current # 0 /\ next > 0 =>
         LET reached == {r \in 1..(next - 1) : got[current][r] > 0}
         IN  /\ sent + failed = next - 1
             /\ \A r \in (next + 1)..Readers : got[current][r] = 0
             /\ failed = 0 => reached = 1..(next - 1)
             /\ sent = 0 => reached \subseteq lost[current]

(***************************************************************************)
(* Backups go on every day as long as they stay enabled, whatever steps    *)
(* failed, changes raced the timer and restarts came before.               *)
(***************************************************************************)
BackupsGoOn ==
    <>[](stored.enabled /\ ~restoring) => []<>(loop = "deliver")
=============================================================================
