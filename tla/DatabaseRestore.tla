-------------------------- MODULE DatabaseRestore --------------------------
(***************************************************************************)
(* The replacement of the database file inside the running bot             *)
(* (admin_restore_execute, restore_manager.py) and everything that may be  *)
(* writing to the file meanwhile: the updates of users, the background     *)
(* loops, the profile saves an update leaves behind, and a broadcast.      *)
(* The expiry monitor runs its two scans together: when one of them raises *)
(* the loop goes on, and the other scan is left to itself, counted by      *)
(* nobody.                                                                 *)
(*                                                                         *)
(* A database is abstracted to where it comes from and to the writes it    *)
(* holds, one for each activity.  The file is in WAL mode: a commit goes   *)
(* to the log beside the file until a checkpoint brings it in.             *)
(***************************************************************************)
EXTENDS Naturals, Sequences, FiniteSets, SequencesExt

CONSTANTS
    Updates, Loops, Saves, Broadcasts,  (* activities of the four kinds    *)
    Scans,                              (* the loops that run together     *)
    Parts,                              (* the snapshots kept in memory    *)
    Keep,                               (* the pre-restore copies kept: 5  *)
    MaxRestores, MaxFaults, MaxLate     (* bounds                          *)

Workers == Updates \union Loops \union Saves \union Broadcasts
\* A broadcast is the one activity the restore does not wait for.
Counted == Workers \ Broadcasts

ASSUME RestoreAssumption ==
    /\ IsFiniteSet(Workers)
    /\ Updates \cap Loops = {} /\ (Updates \union Loops) \cap Saves = {}
    /\ (Updates \union Loops \union Saves) \cap Broadcasts = {}
    /\ Scans \subseteq Loops
    /\ Parts \in Nat \ {0} /\ Keep \in Nat \ {0}
    /\ MaxRestores \in Nat /\ MaxFaults \in Nat /\ MaxLate \in Nat

VARIABLES
    file,      \* the database file: its origin and the writes in it
    wal,       \* the writes that are only in the log beside it
    epoch,     \* counts the files that have been the database (ghost)
    copies,    \* the pre-restore copies ever made, the newest last
    oldest,    \* the first of them that is still on disk
    loaded,    \* the origin of each snapshot in memory
    part,      \* the next snapshot to load
    cached,    \* PROFILE_SAVE_CACHE: the profiles believed to be saved
    status,    \* what each activity is doing
    base,      \* the epoch in which it began (ghost)
    job,       \* the epoch its thread's connection belongs to; 0: no thread
    acked,     \* the activities whose write has been committed (ghost)
    orphans,   \* the scans whose sibling has raised
    restoring, \* _DATABASE_RESTORE_IN_PROGRESS
    step,      \* where the restore is
    quiet,     \* successive quiet polls
    stranded,  \* a restore failed where nothing is undone (ghost)
    restores, faults, late

database == <<file, wal, epoch, copies, oldest>>
memory == <<loaded, part, cached>>
work == <<status, base, job, acked, orphans>>
gate == <<restoring, step, quiet, stranded>>
bounds == <<restores, faults, late>>
vars == <<database, memory, work, gate, bounds>>

Content == [origin : {"live", "upload"}, rows : SUBSET Workers]
Upload == [origin |-> "upload", rows |-> {}]
Rows == file.rows \union wal

\* What _wait_for_restore_quiescence looks at: other updates in flight, busy
\* lanes (a thread whose update is gone included), and background activity,
\* in which an orphan is not counted.
Quiet ==
    /\ \A w \in (Updates \union Loops) \ orphans : status[w] \notin {"running", "waiting"}
    /\ \A w \in Workers : job[w] = 0

-----------------------------------------------------------------------------
Init ==
    /\ file = [origin |-> "live", rows |-> {}] /\ wal = {}
    /\ epoch = 1 /\ copies = << >> /\ oldest = 1
    /\ loaded = [p \in 1..Parts |-> "live"] /\ part = 1 /\ cached = {}
    /\ status = [w \in Workers |-> "idle"]
    /\ base = [w \in Workers |-> 1]
    /\ job = [w \in Workers |-> 0]
    /\ acked = {} /\ orphans = {}
    /\ restoring = FALSE /\ step = "idle" /\ quiet = 0 /\ stranded = FALSE
    /\ restores = 0 /\ faults = 0 /\ late = 0

Trouble == faults < MaxFaults /\ faults' = faults + 1 /\ UNCHANGED <<restores, late>>

(***************************************************************************)
(* Updates, loops, profile saves, broadcasts                               *)
(***************************************************************************)

\* While a restore is on, an update is answered "busy" and a loop sleeps;
\* the flag is read and the activity counted without an await between.
Begin(w) ==
    /\ w \in Updates \union Loops
    /\ status[w] = "idle" /\ ~restoring
    /\ status' = [status EXCEPT ![w] = "running"]
    /\ base' = [base EXCEPT ![w] = epoch]
    /\ UNCHANGED <<database, memory, job, acked, orphans, gate, bounds>>

\* schedule_telegram_profile, and the confirmation of a broadcast: an update
\* that has passed the gate creates a task.  The restore's own update does
\* so before it closes the gate.
CreateTask(w) ==
    /\ w \in Saves \union Broadcasts
    /\ status[w] \in {"idle", "done"} /\ w \notin cached
    /\ w \in Broadcasts => status[w] = "idle"
    /\ ~restoring \/ \E u \in Updates : status[u] = "running"
    /\ cached' = IF w \in Saves THEN cached \union {w} ELSE cached
    /\ status' = [status EXCEPT ![w] = "created"]
    /\ base' = [base EXCEPT ![w] = epoch]
    /\ UNCHANGED <<database, loaded, part, job, acked, orphans, gate, bounds>>

\* run_blocking: a thread of a lane opens a connection.  An update and a
\* loop do so while they are on, a save as soon as the event loop starts
\* it, a broadcast when its last message is out.
Submit(w) ==
    /\ status[w] = IF w \in Updates \union Loops THEN "running" ELSE "created"
    /\ job' = [job EXCEPT ![w] = epoch]
    /\ status' = [status EXCEPT ![w] = "waiting"]
    /\ UNCHANGED <<database, memory, base, acked, orphans, gate, bounds>>

\* The lane is full, or the database refuses.  A save that fails is
\* forgotten, so that the next update tries it again; a scan that fails
\* (claim or mark, which nothing catches) ends the gather, and its sibling
\* goes on alone.
Busy(w) ==
    /\ status[w] \in {IF w \in Updates \union Loops THEN "running" ELSE "created", "waiting"}
    /\ Trouble
    /\ status' = [status EXCEPT ![w] = "done"]
    /\ job' = [job EXCEPT ![w] = 0]
    /\ cached' = cached \ {w}
    /\ orphans' = IF w \in Scans
                  THEN orphans \union {v \in Scans \ {w} : status[v] \in {"running", "waiting"}}
                  ELSE orphans
    /\ UNCHANGED <<database, loaded, part, base, acked, gate>>

\* The commit reaches the file that was opened, whether it still is the
\* database or not; whoever waited for it goes on.
Commit(w) ==
    /\ job[w] # 0
    /\ wal' = IF job[w] = epoch THEN wal \union {w} ELSE wal
    /\ job' = [job EXCEPT ![w] = 0]
    /\ acked' = acked \union {w}
    /\ status' = [status EXCEPT ![w] = "done"]
    /\ UNCHANGED <<file, epoch, copies, oldest, memory, base, orphans, gate, bounds>>

\* The deadline of an update passes while its thread works on.
Abandon(w) ==
    /\ w \in Updates /\ status[w] = "waiting"
    /\ late < MaxLate
    /\ late' = late + 1
    /\ status' = [status EXCEPT ![w] = "gone"]
    /\ UNCHANGED <<database, memory, base, job, acked, orphans, gate, restores, faults>>

-----------------------------------------------------------------------------
(***************************************************************************)
(* The restore                                                             *)
(***************************************************************************)

At(from, to) == step = from /\ step' = to /\ UNCHANGED <<restoring, quiet, stranded>>
\* The last block of the handler opens the gate, whatever happened.
Finally == step' = "idle" /\ restoring' = FALSE /\ quiet' = 0

\* The root administrator confirms the preview of an upload.
Execute ==
    /\ step = "idle" /\ ~restoring
    /\ restores < MaxRestores
    /\ restores' = restores + 1
    /\ step' = "wait" /\ restoring' = TRUE /\ quiet' = 0
    /\ UNCHANGED <<database, memory, work, stranded, faults, late>>

\* Mutant: one quiet moment is enough.
PollOnce ==
    /\ step = "wait" /\ Quiet
    /\ step' = "copy" /\ quiet' = 0
    /\ UNCHANGED <<database, memory, work, restoring, stranded, bounds>>

\* A poll every 50 ms, until it has been quiet for 250 ms.  Two quiet polls
\* tell the difference: between them the event loop starts every task that
\* had been created.
Poll ==
    /\ step = "wait"
    /\ quiet > 0 => \A w \in Saves : status[w] # "created"
    /\ quiet' = IF Quiet /\ quiet = 0 THEN 1 ELSE 0
    /\ step' = IF Quiet /\ quiet = 1 THEN "copy" ELSE "wait"
    /\ UNCHANGED <<database, memory, work, restoring, stranded, bounds>>

\* Mutant: the gate is not opened again.
GiveUpShut ==
    /\ step = "wait"
    /\ step' = "idle" /\ quiet' = 0
    /\ UNCHANGED <<database, memory, work, restoring, stranded, bounds>>

\* It does not become quiet in time.
GiveUp ==
    /\ step = "wait"
    /\ Finally
    /\ UNCHANGED <<database, memory, work, stranded, bounds>>

\* The upload is copied beside the database and inspected once more.
CopyUpload ==
    /\ At("copy", "safety")
    /\ UNCHANGED <<database, memory, work, bounds>>

\* Mutant: the file is copied without a checkpoint of its log.
SafetyFileOnly ==
    /\ At("safety", "sidecars")
    /\ copies' = Append(copies, file)
    /\ UNCHANGED <<file, wal, epoch, oldest, memory, work, bounds>>

\* _make_safety_backup: a checkpoint, and a copy of all that is there.
Safety ==
    /\ At("safety", "sidecars")
    /\ file' = [file EXCEPT !.rows = Rows] /\ wal' = {}
    /\ copies' = Append(copies, file')
    /\ UNCHANGED <<epoch, oldest, memory, work, bounds>>

\* _replace_database_file: the log beside the old file is unlinked first ...
RemoveSidecars ==
    /\ \/ At("sidecars", "replace")
       \/ At("rollback_sidecars", "rollback")
       \/ At("return_sidecars", "return")
    /\ wal' = {}
    /\ UNCHANGED <<file, epoch, copies, oldest, memory, work, bounds>>

\* ... then the new file takes its name.
Install(content) ==
    /\ file' = content /\ wal' = {}
    /\ epoch' = epoch + 1
    /\ UNCHANGED <<copies, oldest>>

Replace ==
    /\ At("replace", "sync")
    /\ Install(Upload)
    /\ UNCHANGED <<memory, work, bounds>>

\* The directory is synced; only then is the file known to be replaced.
Sync ==
    /\ At("sync", "migrate")
    /\ UNCHANGED <<database, memory, work, bounds>>

\* initialize_storage brings the upload to the current schema.
Migrate ==
    /\ At("migrate", "trim")
    /\ UNCHANGED <<database, memory, work, bounds>>

\* _trim_safety_backups: the newest copies are kept, the others unlinked.
Trim ==
    /\ At("trim", "reload")
    /\ oldest' = IF oldest + Keep <= Len(copies) THEN Len(copies) + 1 - Keep ELSE oldest
    /\ part' = 1
    /\ UNCHANGED <<file, wal, epoch, copies, loaded, cached, work, bounds>>

\* _reload_runtime_after_database_restore: settings, plans, referral and
\* maintenance, each from the file.
Reload ==
    /\ step \in {"reload", "reload_again"}
    /\ loaded' = [loaded EXCEPT ![part] = file.origin]
    /\ part' = part + 1
    /\ stranded' = (stranded /\ part < Parts)
    /\ IF part < Parts THEN UNCHANGED <<restoring, step, quiet>>
       ELSE IF step = "reload" THEN step' = "caches" /\ UNCHANGED <<restoring, quiet>>
       ELSE Finally
    /\ UNCHANGED <<database, cached, work, bounds>>

\* _clear_runtime_caches_after_restore; the schedulers are woken, the audit
\* row is tried, the result is shown.
ClearCaches ==
    /\ step = "caches"
    /\ cached' = {}
    /\ Finally
    /\ UNCHANGED <<database, loaded, part, work, stranded, bounds>>

\* The migration failed: the safety copy comes back, the snapshots are
\* still those of before.
RollBack ==
    /\ step = "rollback"
    /\ Install(Last(copies))
    /\ Finally
    /\ UNCHANGED <<memory, work, stranded, bounds>>

\* Mutant: the database returns, the snapshot in memory does not.
ReturnWithoutReload ==
    /\ step = "return"
    /\ Install(Last(copies))
    /\ Finally
    /\ UNCHANGED <<memory, work, stranded, bounds>>

\* The reload failed: rollback_to_safety_backup, and everything is loaded
\* again.
Return ==
    /\ At("return", "reload_again")
    /\ Install(Last(copies))
    /\ part' = 1
    /\ UNCHANGED <<loaded, cached, work, bounds>>

\* Every step may raise.  The migration and the reload are undone.  After
\* any other, and after a second failure, the handler reports and ends; if
\* the upload has its name but "replaced" is not set yet, or the copies are
\* being trimmed, the upload stays and memory does not follow it.  A safety
\* copy that fails may leave a copy of nothing.
Raise ==
    /\ step \notin {"idle", "wait", "caches"}
    /\ Trouble
    /\ CASE step = "migrate" -> step' = "rollback_sidecars" /\ UNCHANGED <<restoring, quiet>>
         [] step = "reload"  -> step' = "return_sidecars" /\ UNCHANGED <<restoring, quiet>>
         [] OTHER            -> Finally
    /\ stranded' = (stranded \/ step \in {"sync", "trim"})
    /\ copies' \in {copies} \union
          IF step = "safety" THEN {Append(copies, [file EXCEPT !.rows = {}])} ELSE {}
    /\ UNCHANGED <<file, wal, epoch, oldest, memory, work>>

\* The process dies and starts again on the file that has the name.
Crash ==
    /\ Trouble
    /\ loaded' = [p \in 1..Parts |-> file.origin] /\ part' = 1 /\ cached' = {}
    /\ status' = [w \in Workers |-> IF status[w] = "idle" THEN "idle" ELSE "done"]
    /\ job' = [w \in Workers |-> 0]
    /\ Finally /\ stranded' = FALSE
    /\ UNCHANGED <<database, base, acked, orphans>>

RestoreStep ==
    \/ CopyUpload \/ Safety \/ RemoveSidecars \/ Replace \/ Sync \/ Migrate \/ Trim
    \/ Reload \/ ClearCaches \/ RollBack \/ Return \/ Raise

Next ==
    \/ \E w \in Workers : Begin(w) \/ CreateTask(w) \/ Submit(w) \/ Busy(w)
                          \/ Commit(w) \/ Abandon(w)
    \/ Execute \/ Poll \/ GiveUp
    \/ RestoreStep
    \/ Crash

Spec == Init /\ [][Next]_vars

\* The deadline of the wait passes, and every step of the handler ends.
FairSpec == Spec /\ WF_vars(GiveUp) /\ WF_vars(RestoreStep)

-----------------------------------------------------------------------------
RestoreTypeOK ==
    /\ file \in Content /\ wal \subseteq Workers
    /\ epoch \in 1..(2 * MaxRestores + 1)
    /\ copies \in Seq(Content) /\ Len(copies) <= restores
    /\ oldest \in 1..(Len(copies) + 1)
    /\ loaded \in [1..Parts -> {"live", "upload"}] /\ part \in 1..(Parts + 1)
    /\ step \in {"reload", "reload_again"} => part <= Parts
    /\ cached \subseteq Saves
    /\ status \in [Workers -> {"idle", "created", "running", "waiting", "gone", "done"}]
    /\ base \in [Workers -> 1..epoch] /\ job \in [Workers -> 0..epoch]
    /\ acked \subseteq Workers /\ orphans \subseteq Scans
    /\ restoring \in BOOLEAN /\ quiet \in {0, 1} /\ stranded \in BOOLEAN
    /\ restoring <=> step # "idle"
    /\ restores \in 0..MaxRestores /\ faults \in 0..MaxFaults /\ late \in 0..MaxLate

\* The activities a restore waits for: neither a broadcast nor an orphan.
Awaited == Counted \ orphans

(***************************************************************************)
(* Nothing that was committed is gone: it is in the database, or in a copy *)
(* made before a replacement, through failures and crashes at every step;  *)
(* and that copy is still on disk, unless Keep later ones have been made.  *)
(* It is the order quiescence, checkpoint, copy, unlink, rename that makes *)
(* it so; the audit row of a broadcast and the marks of an orphaned scan   *)
(* are the exceptions.                                                     *)
(***************************************************************************)
NothingLost ==
    \A w \in acked \cap Awaited :
        \/ w \in Rows
        \/ \E i \in 1..Len(copies) :
               w \in copies[i].rows /\ (oldest <= i \/ i + Keep <= Len(copies))

(***************************************************************************)
(* No update, loop or profile save begins on one database and ends on      *)
(* another: a decision read from the old one is never written to the new,  *)
(* not even by a thread whose update has given up on it.  An orphaned scan *)
(* may.                                                                    *)
(***************************************************************************)
UnderOneDatabase ==
    \A w \in Awaited :
        (job[w] # 0 \/ status[w] \in {"created", "running", "waiting"}) => base[w] = epoch

\* The database memory belongs to.  A restore that fails where nothing is
\* undone leaves behind the memory of the database it has copied.
Remembered ==
    IF stranded THEN Last(copies) ELSE [origin |-> file.origin, rows |-> Rows]

(***************************************************************************)
(* When the gate is open, memory and database belong together: the         *)
(* snapshots come from the file, and a profile is remembered as saved only *)
(* if it is in it or on its way.  One failure or crash is survived, but    *)
(* for the one between the rename and the reload: then the upload serves   *)
(* with all of the memory of the database in the newest copy, never with a *)
(* part of it.  When the way back fails too, nothing puts the two together *)
(* again.                                                                  *)
(***************************************************************************)
SettledTogether ==
    ~restoring /\ faults <= 1 =>
        /\ \A p \in 1..Parts : loaded[p] = Remembered.origin
        /\ \A w \in cached :
               w \in Rows \union Remembered.rows \/ status[w] \in {"created", "waiting"}

(***************************************************************************)
(* The gate does not stay shut: customers are served again, whatever the   *)
(* restore meets (the finally block of admin_restore_execute).             *)
(***************************************************************************)
GateOpens == restoring ~> ~restoring
=============================================================================
