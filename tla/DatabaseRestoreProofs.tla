----------------------- MODULE DatabaseRestoreProofs -----------------------
(***************************************************************************)
(* Proofs about DatabaseRestore, for every number of updates, loops, saves *)
(* and broadcasts, of snapshots, copies kept, restores, failures and       *)
(* crashes.                                                                *)
(*                                                                         *)
(* None of the theorems is inductive.  All rest on quiescence: from the    *)
(* second quiet poll to the end of the handler nothing the restore waits   *)
(* for is running or has a thread, and the closed gate lets nothing new    *)
(* in (RInv).  On it stands what the handler keeps from one of its steps   *)
(* to the next: which file the snapshots and the remembered profiles are   *)
(* those of, and how many files and copies there can be (SInv).            *)
(***************************************************************************)
EXTENDS DatabaseRestore, TLAPS

-----------------------------------------------------------------------------
(* The inductive invariant *)

\* The steps after the safety copy, and all steps after the wait.
Copied == {"sidecars", "replace", "sync", "migrate", "trim", "reload", "caches",
           "rollback_sidecars", "rollback", "return_sidecars", "return", "reload_again"}
Critical == {"copy", "safety"} \union Copied

Statuses == {"idle", "created", "running", "waiting", "gone", "done"}
Alive == {"created", "running", "waiting"}

FileTypes ==
    /\ file \in Content /\ wal \subseteq Workers
    /\ copies \in Seq(Content)
    /\ step \in Copied => copies # << >>

\* Only a copy with Keep later ones is unlinked.
KeepInv == oldest \in Nat \ {0} /\ (oldest = 1 \/ oldest + Keep <= Len(copies) + 1)

WorkTypes ==
    /\ epoch \in Nat \ {0}
    /\ status \in [Workers -> Statuses]
    /\ base \in [Workers -> Nat] /\ job \in [Workers -> Nat]
    /\ acked \subseteq Workers /\ orphans \subseteq Scans

GateInv ==
    /\ step \in {"idle", "wait"} \union Critical
    /\ quiet \in {0, 1}
    /\ step # "idle" => restoring

\* A thread belongs to whoever waits for it, or has given up on it.
ThreadInv ==
    /\ \A w \in Workers : job[w] # 0 => status[w] \in {"waiting", "gone"}
    /\ \A w \in Workers : status[w] = "waiting" => job[w] # 0
    /\ \A w \in Updates \union Loops : status[w] # "created"
    /\ \A w \in Saves : status[w] # "running"

\* Whatever is alive began on the database there is, and so did its thread.
EpochInv ==
    \A w \in Awaited :
        job[w] # 0 \/ status[w] \in Alive =>
            base[w] = epoch /\ job[w] \in {0, epoch}

StillInv ==
    step \in Critical =>
        \A w \in Awaited : job[w] = 0 /\ status[w] \notin Alive

Saved(w) == \E i \in 1..Len(copies) : w \in copies[i].rows

RowsInv ==
    \A w \in acked \cap Awaited :
        /\ w \in Rows \/ Saved(w)
        /\ step \in Copied => Saved(w)

RInv ==
    FileTypes /\ KeepInv /\ WorkTypes /\ GateInv /\ ThreadInv /\ EpochInv /\ StillInv /\ RowsInv

\* The invariant holds initially.
LEMMA InitRInv == Init => RInv
<1> SUFFICES ASSUME Init PROVE RInv
  OBVIOUS
<1>1. FileTypes
  BY DEF Init, FileTypes, Content, Copied
<1>6. KeepInv
  BY DEF Init, KeepInv
<1>2. WorkTypes
  BY DEF Init, WorkTypes, Statuses
<1>3. GateInv /\ ThreadInv
  BY DEF Init, GateInv, ThreadInv, Workers
<1>4. EpochInv
  BY DEF Init, EpochInv, Alive, Awaited, Counted
<1>5. StillInv /\ RowsInv
  BY DEF Init, StillInv, RowsInv, Critical, Copied
<1> QED
  BY <1>1, <1>2, <1>3, <1>4, <1>5, <1>6 DEF RInv

-----------------------------------------------------------------------------
(* Each part of the invariant is preserved *)

\* The steps of the activities, which leave files and gate alone but for the
\* log; the steps of the handler, which leave the activities alone.
Activity(w) ==
    Begin(w) \/ CreateTask(w) \/ Submit(w) \/ Busy(w) \/ Commit(w) \/ Abandon(w)
Handler == Execute \/ Poll \/ GiveUp \/ RestoreStep

\* What an activity leaves alone.
LEMMA ActivityFrame ==
    ASSUME NEW w \in Workers, Activity(w)
    PROVE  /\ UNCHANGED <<file, epoch, copies, oldest, restoring, step, quiet, stranded>>
           /\ wal \subseteq wal' /\ wal' \subseteq wal \union {w}
BY DEF Activity, Begin, CreateTask, Submit, Busy, Commit, Abandon, database, gate

\* What the restore leaves alone.
LEMMA HandlerFrame ==
    ASSUME Handler
    PROVE  UNCHANGED <<status, base, job, acked, orphans>>
BY DEF Handler, Execute, Poll, GiveUp, RestoreStep, CopyUpload, Safety, RemoveSidecars,
       Replace, Sync, Migrate, Trim, Reload, ClearCaches, RollBack, Return, Raise, work

\* A step is an activity's, the restore's, or a crash.
LEMMA NextSplit ==
    ASSUME [Next]_vars
    PROVE  (\E w \in Workers : Activity(w)) \/ Handler \/ Crash \/ UNCHANGED vars
BY DEF Next, Activity, Handler

\* The latest copy is a database.
LEMMA LastCopy ==
    ASSUME NEW S, NEW s \in Seq(S), s # << >>
    PROVE  Last(s) \in S
BY DEF Last

\* Every step keeps the types of files and copies; a copy is there from Safety on.
LEMMA FileTypesStep ==
    ASSUME RInv, [Next]_vars
    PROVE  FileTypes'
<1> USE DEF RInv, FileTypes
<1>1. ASSUME NEW w \in Workers, Activity(w) PROVE FileTypes'
  BY <1>1, ActivityFrame
<1>2. CASE Execute \/ Poll \/ GiveUp \/ CopyUpload
  BY <1>2 DEF Execute, Poll, GiveUp, CopyUpload, At, Finally, Copied, database
<1>3. CASE Safety
  <2>1. file' \in Content
    BY <1>3 DEF Safety, Content, Rows
  <2> QED
    BY <1>3, <2>1 DEF Safety
<1>4. CASE RemoveSidecars
  BY <1>4 DEF RemoveSidecars, At, Copied
<1>5. CASE Replace
  BY <1>5 DEF Replace, At, Install, Upload, Content, Copied
<1>6. CASE Sync \/ Migrate \/ Trim \/ Reload \/ ClearCaches
  BY <1>6 DEF Sync, Migrate, Trim, Reload, ClearCaches, At, Finally, database, gate, Copied
<1>10. CASE Raise
  <2>1. [file EXCEPT !.rows = {}] \in Content
    BY DEF Content
  <2>2. copies' \in Seq(Content) /\ (copies # << >> => copies' # << >>)
    BY <1>10, <2>1 DEF Raise
  <2> QED
    BY <1>10, <2>2 DEF Raise, Finally, Copied
<1>7. CASE RollBack \/ Return
  <2>1. Last(copies) \in Content
    BY <1>7, LastCopy DEF RollBack, Return, At, Copied
  <2> QED
    BY <1>7, <2>1 DEF RollBack, Return, At, Finally, Install, Copied
<1>8. CASE Crash
  BY <1>8 DEF Crash, Finally, database, Copied
<1>9. CASE UNCHANGED vars
  BY <1>9 DEF vars, database, gate
<1> QED
  BY <1>1, <1>2, <1>3, <1>4, <1>5, <1>6, <1>7, <1>8, <1>9, <1>10, NextSplit DEF Handler, RestoreStep

\* Every step unlinks only copies with Keep later ones.
LEMMA KeepInvStep ==
    ASSUME RInv, [Next]_vars
    PROVE  KeepInv'
<1> USE RestoreAssumption DEF RInv, KeepInv
<1>0. copies \in Seq(Content) /\ Len(copies) \in Nat
  BY DEF FileTypes
<1>1. ASSUME NEW w \in Workers, Activity(w) PROVE KeepInv'
  BY <1>1, ActivityFrame
<1>2. CASE Trim
  BY <1>0, <1>2 DEF Trim
<1>3. CASE (Handler /\ ~Trim) \/ Crash \/ UNCHANGED vars
  <2>1. oldest' = oldest
    BY <1>3 DEF Handler, Crash, Execute, Poll, GiveUp, RestoreStep, CopyUpload, Safety,
       RemoveSidecars, Replace, Sync, Migrate, Reload, ClearCaches, RollBack, Return, Raise,
       Install, database, vars
  <2>2. Len(copies') >= Len(copies)
    <3>1. file' \in Content /\ [file EXCEPT !.rows = {}] \in Content
      BY FileTypesStep DEF FileTypes, Content
    <3>2. copies' \in {copies, Append(copies, file'), Append(copies, [file EXCEPT !.rows = {}])}
      BY <1>3 DEF Handler, Crash, Execute, Poll, GiveUp, RestoreStep, CopyUpload, Safety,
         RemoveSidecars, Replace, Sync, Migrate, Reload, ClearCaches, RollBack, Return, Raise,
         Install, database, vars
    <3> QED
      BY <1>0, <3>1, <3>2
  <2>3. Len(copies') \in Nat
    BY FileTypesStep DEF FileTypes
  <2> QED
    BY <1>0, <2>1, <2>2, <2>3
<1> QED
  BY <1>1, <1>2, <1>3, NextSplit

\* The number of databases there have been only grows.
LEMMA EpochGrows ==
    ASSUME RInv, [Next]_vars
    PROVE  epoch' \in {epoch, epoch + 1}
<1>1. ASSUME NEW w \in Workers, Activity(w) PROVE epoch' = epoch
  BY <1>1, ActivityFrame
<1>2. CASE Handler \/ Crash
  BY <1>2 DEF Handler, Crash, Execute, Poll, GiveUp, RestoreStep, CopyUpload, Safety,
     RemoveSidecars, Replace, Sync, Migrate, Trim, Reload, ClearCaches, RollBack, Return, Raise,
     Install, database
<1>3. CASE UNCHANGED vars
  BY <1>3 DEF vars, database
<1> QED
  BY <1>1, <1>2, <1>3, NextSplit

\* Every step keeps the types of the activities.
LEMMA WorkTypesStep ==
    ASSUME RInv, [Next]_vars
    PROVE  WorkTypes'
<1> USE DEF RInv, WorkTypes, Statuses
<1>0. epoch' \in Nat \ {0}
  BY EpochGrows
<1>1. ASSUME NEW w \in Workers, Begin(w) \/ CreateTask(w) PROVE WorkTypes'
  BY <1>0, <1>1 DEF Begin, CreateTask
<1>2. ASSUME NEW w \in Workers, Submit(w) \/ Busy(w) PROVE WorkTypes'
  BY <1>0, <1>2 DEF Submit, Busy
<1>3. ASSUME NEW w \in Workers, Commit(w) \/ Abandon(w) PROVE WorkTypes'
  BY <1>0, <1>3 DEF Commit, Abandon
<1>4. CASE Handler
  BY <1>0, <1>4, HandlerFrame
<1>5. CASE Crash
  BY <1>0, <1>5 DEF Crash
<1>6. CASE UNCHANGED vars
  BY <1>6 DEF vars, work, database
<1> QED
  BY <1>1, <1>2, <1>3, <1>4, <1>5, <1>6, NextSplit DEF Activity

\* The gate is closed from Execute to the end of the handler.
LEMMA GateInvStep ==
    ASSUME RInv, [Next]_vars
    PROVE  GateInv'
<1> USE DEF RInv, GateInv
<1>1. ASSUME NEW w \in Workers, Activity(w) PROVE GateInv'
  BY <1>1, ActivityFrame
<1>2. CASE Execute \/ Poll \/ GiveUp \/ Crash
  BY <1>2 DEF Execute, Poll, GiveUp, Crash, Finally, Critical, Copied
<1>3. CASE CopyUpload \/ Safety \/ RemoveSidecars \/ Replace \/ Sync \/ Migrate \/ Trim
  BY <1>3 DEF CopyUpload, Safety, RemoveSidecars, Replace, Sync, Migrate, Trim, At, Critical, Copied
<1>4. CASE Reload \/ ClearCaches \/ RollBack \/ Return \/ Raise
  BY <1>4 DEF Reload, ClearCaches, RollBack, Return, Raise, At, Finally, gate, Critical, Copied
<1>5. CASE UNCHANGED vars
  BY <1>5 DEF vars, gate
<1> QED
  BY <1>1, <1>2, <1>3, <1>4, <1>5, NextSplit DEF Handler, RestoreStep

\* Threads begin and end with whoever waits for them.
LEMMA ThreadInvStep ==
    ASSUME RInv, [Next]_vars
    PROVE  ThreadInv'
<1> USE RestoreAssumption DEF RInv, ThreadInv, WorkTypes, Workers
<1>1. ASSUME NEW w \in Workers, Begin(w) \/ CreateTask(w) PROVE ThreadInv'
  BY <1>1 DEF Begin, CreateTask
<1>2. ASSUME NEW w \in Workers, Submit(w) \/ Busy(w) PROVE ThreadInv'
  BY <1>2 DEF Submit, Busy
<1>3. ASSUME NEW w \in Workers, Commit(w) \/ Abandon(w) PROVE ThreadInv'
  BY <1>3 DEF Commit, Abandon
<1>4. CASE Handler
  BY <1>4, HandlerFrame
<1>5. CASE Crash
  BY <1>5 DEF Crash
<1>6. CASE UNCHANGED vars
  BY <1>6 DEF vars, work
<1> QED
  BY <1>1, <1>2, <1>3, <1>4, <1>5, <1>6, NextSplit DEF Activity

\* A file is replaced only when nothing that is counted is alive.
LEMMA EpochInvStep ==
    ASSUME RInv, [Next]_vars
    PROVE  EpochInv'
<1> USE RestoreAssumption DEF RInv, EpochInv, WorkTypes, Alive, Awaited, Counted
<1>1. ASSUME NEW w \in Workers, Begin(w) \/ CreateTask(w) PROVE EpochInv'
  <2>1. job[w] = 0
    BY <1>1 DEF Begin, CreateTask, ThreadInv
  <2> QED
    BY <1>1, <2>1, ActivityFrame DEF Begin, CreateTask, Activity
<1>2. ASSUME NEW w \in Workers, Submit(w) \/ Busy(w) PROVE EpochInv'
  BY <1>2, ActivityFrame DEF Submit, Busy, Activity
<1>3. ASSUME NEW w \in Workers, Commit(w) \/ Abandon(w) PROVE EpochInv'
  BY <1>3, ActivityFrame DEF Commit, Abandon, Activity
<1>4. CASE Handler
  <2>1. CASE step \in Critical
    BY <1>4, <2>1, HandlerFrame DEF StillInv
  <2>2. CASE step \notin Critical
    <3>1. epoch' = epoch
      BY <1>4, <2>2 DEF Handler, Execute, Poll, GiveUp, RestoreStep, CopyUpload, Safety,
         RemoveSidecars, Replace, Sync, Migrate, Trim, Reload, ClearCaches, RollBack, Return, Raise,
         At, database, Critical, Copied
    <3> QED
      BY <1>4, <3>1, HandlerFrame
  <2> QED
    BY <2>1, <2>2
<1>5. CASE Crash
  BY <1>5 DEF Crash
<1>6. CASE UNCHANGED vars
  BY <1>6 DEF vars, work, database
<1> QED
  BY <1>1, <1>2, <1>3, <1>4, <1>5, <1>6, NextSplit DEF Activity

\* The second quiet poll finds nothing alive, and the closed gate lets nothing in.
LEMMA StillInvStep ==
    ASSUME RInv, [Next]_vars
    PROVE  StillInv'
<1> USE DEF RInv, StillInv, WorkTypes
<1>1. ASSUME NEW w \in Workers, Activity(w) PROVE StillInv'
  <2>5. Awaited' \subseteq Awaited
    BY <1>1 DEF Activity, Begin, CreateTask, Submit, Busy, Commit, Abandon, work, Awaited
  <2> SUFFICES ASSUME step \in Critical
               PROVE  \A v \in Awaited : job'[v] = 0 /\ status'[v] \notin Alive
    BY <1>1, <2>5, ActivityFrame
  <2>1. restoring /\ \A u \in Updates : status[u] # "running"
    <3>1. restoring
      BY DEF GateInv, Critical, Copied
    <3>2. \A u \in Updates : u \in Awaited
      BY RestoreAssumption DEF Awaited, Counted, Workers
    <3> QED
      BY <3>1, <3>2 DEF Alive
  <2>2. w \in Awaited => Abandon(w) \/ UNCHANGED <<status, job>>
    BY <1>1, <2>1 DEF Activity, Begin, CreateTask, Submit, Busy, Commit, Alive, Awaited, Counted
  <2>3. w \notin Awaited \/ UNCHANGED <<status, job>>
    BY <2>2 DEF Abandon, Alive
  <2>4. \A v \in Workers : v # w => status'[v] = status[v] /\ job'[v] = job[v]
    BY <1>1 DEF Activity, Begin, CreateTask, Submit, Busy, Commit, Abandon
  <2> QED
    BY <2>3, <2>4 DEF Awaited, Counted
<1>2. CASE Poll
  <2> SUFFICES ASSUME step' \in Critical, NEW w \in Awaited
               PROVE  job[w] = 0 /\ status[w] \notin Alive
    BY <1>2, HandlerFrame DEF Handler, Awaited
  <2>1. Quiet /\ \A v \in Saves : status[v] # "created"
    BY <1>2 DEF Poll, Critical, Copied
  <2>2. job[w] = 0 /\ status[w] # "waiting"
    BY <2>1 DEF Quiet, ThreadInv, Awaited, Counted
  <2> QED
    BY <2>1, <2>2 DEF Quiet, Alive, Awaited, Counted, Workers, ThreadInv
<1>3. CASE Handler /\ ~Poll
  <2>1. step' \in Critical => step \in Critical
    BY <1>3 DEF Handler, Execute, GiveUp, RestoreStep, CopyUpload, Safety, RemoveSidecars,
       Replace, Sync, Migrate, Trim, Reload, ClearCaches, RollBack, Return, Raise, At, Finally, gate,
       Critical, Copied
  <2> QED
    BY <1>3, <2>1, HandlerFrame DEF Awaited
<1>4. CASE Crash
  BY <1>4 DEF Crash, Finally, Critical, Copied
<1>5. CASE UNCHANGED vars
  BY <1>5 DEF vars, work, gate, Awaited
<1> QED
  BY <1>1, <1>2, <1>3, <1>4, <1>5, NextSplit

\* The checkpoint and the safety copy hold every committed row before the log is unlinked.
LEMMA RowsInvStep ==
    ASSUME RInv, [Next]_vars
    PROVE  RowsInv'
<1> USE DEF RInv, RowsInv, Rows, Saved
<1>1. ASSUME NEW w \in Workers, Activity(w) PROVE RowsInv'
  <2>1. acked' \subseteq acked \union {w}
    BY <1>1 DEF Activity, Begin, CreateTask, Submit, Busy, Commit, Abandon, work
  <2>3. Awaited' \subseteq Awaited
    BY <1>1 DEF Activity, Begin, CreateTask, Submit, Busy, Commit, Abandon, work, Awaited
  <2>2. w \in Awaited /\ w \notin acked /\ w \in acked' => w \in wal' /\ step \notin Critical
    BY <1>1 DEF Activity, Begin, CreateTask, Submit, Busy, Commit, Abandon, EpochInv,
       StillInv, WorkTypes
  <2> QED
    BY <1>1, <2>1, <2>2, <2>3, ActivityFrame DEF Critical
<1>2. CASE Safety
  <2>1. /\ copies' = Append(copies, file') /\ file'.rows = file.rows \union wal
        /\ copies \in Seq(Content) /\ file' \in Content
    BY <1>2, FileTypesStep DEF Safety, FileTypes, Content
  <2>2. /\ Len(copies') = Len(copies) + 1 /\ Len(copies) \in Nat
        /\ copies'[Len(copies) + 1] = file'
        /\ \A i \in 1..Len(copies) : copies'[i] = copies[i]
    BY <2>1
  <2>3. \A w \in acked \cap Awaited : \E i \in 1..Len(copies') : w \in copies'[i].rows
    BY <2>1, <2>2
  <2> QED
    BY <1>2, <2>3, HandlerFrame DEF Handler, RestoreStep, Awaited
<1>3. CASE Handler /\ ~Safety
  <2>0. copies' \in {copies, Append(copies, [file EXCEPT !.rows = {}])}
    BY <1>3 DEF Handler, Execute, Poll, GiveUp, RestoreStep, CopyUpload, RemoveSidecars,
       Replace, Sync, Migrate, Trim, Reload, ClearCaches, RollBack, Return, Raise, Install,
       database
  <2>1. \A w \in Workers : Saved(w) => Saved(w)'
    <3>1. [file EXCEPT !.rows = {}] \in Content /\ copies \in Seq(Content)
      BY DEF FileTypes, Content
    <3>2. /\ Len(copies') >= Len(copies) /\ Len(copies) \in Nat /\ Len(copies') \in Nat
          /\ \A i \in 1..Len(copies) : copies'[i] = copies[i]
      BY <2>0, <3>1
    <3> QED
      BY <3>2
  <2>2. step' \in Copied => step \in Copied
    BY <1>3 DEF Handler, Execute, Poll, GiveUp, RestoreStep, CopyUpload, RemoveSidecars,
       Replace, Sync, Migrate, Trim, Reload, ClearCaches, RollBack, Return, Raise, At, Finally, gate,
       Copied
  <2>3. step \in Copied \/ UNCHANGED <<file, wal>>
    BY <1>3 DEF Handler, Execute, Poll, GiveUp, RestoreStep, CopyUpload, RemoveSidecars,
       Replace, Sync, Migrate, Trim, Reload, ClearCaches, RollBack, Return, Raise, At, database, Copied
  <2> QED
    BY <1>3, <2>1, <2>2, <2>3, HandlerFrame DEF Awaited, Counted
<1>4. CASE Crash
  BY <1>4 DEF Crash, Finally, database, Copied, Awaited
<1>5. CASE UNCHANGED vars
  BY <1>5 DEF vars, work, database, gate, Awaited
<1> QED
  BY <1>1, <1>2, <1>3, <1>4, <1>5, NextSplit

-----------------------------------------------------------------------------
(* The theorems *)

\* RInv is an invariant.
THEOREM RestoreInductive == Spec => []RInv
<1>1. RInv /\ [Next]_vars => RInv'
  BY FileTypesStep, KeepInvStep, WorkTypesStep, GateInvStep, ThreadInvStep, EpochInvStep,
     StillInvStep, RowsInvStep DEF RInv
<1> QED
  BY InitRInv, <1>1, PTL DEF Spec

\* No update, loop or profile save spans two databases, however many there
\* are and whatever fails.
THEOREM NobodySpans == Spec => []UnderOneDatabase
<1>1. RInv => UnderOneDatabase
  BY DEF RInv, EpochInv, Alive, UnderOneDatabase
<1> QED
  BY RestoreInductive, <1>1, PTL

\* What was committed is in the database, or in a copy that is still on disk
\* unless Keep later ones were made (_make_safety_backup, _trim_safety_backups).
THEOREM NoCommitLost == Spec => []NothingLost
<1>1. ASSUME RInv PROVE NothingLost
  <2>1. \A i \in 1..Len(copies) : oldest <= i \/ i + Keep <= Len(copies)
    BY <1>1, RestoreAssumption DEF RInv, KeepInv, FileTypes
  <2> QED
    BY <1>1, <2>1 DEF RInv, RowsInv, Saved, NothingLost
<1> QED
  BY RestoreInductive, <1>1, PTL

-----------------------------------------------------------------------------
(* The inductive invariant of the types and of SettledTogether *)

Reloading == {"reload", "reload_again"}
\* Where the restore is after a failure, and where the file is still, or is
\* again, the one the safety copy was made of.
Undoing == {"rollback_sidecars", "rollback", "return_sidecars", "return", "reload_again"}
Untouched == {"sidecars", "replace"}
OldMemory == Untouched \union {"sync", "migrate", "trim", "rollback_sidecars", "rollback"}

\* The gate is shut exactly while the handler is between its first and last step.
ShutInv ==
    /\ restoring \in BOOLEAN /\ stranded \in BOOLEAN
    /\ restoring <=> step # "idle"

\* A restore makes one copy and installs at most two files, one before and one
\* after its first failure.
CountInv ==
    /\ restores \in 0..MaxRestores /\ faults \in 0..MaxFaults /\ late \in 0..MaxLate
    /\ step \in Undoing \/ stranded => faults >= 1
    /\ step \in Undoing /\ faults <= 1 => ~stranded
    /\ step = "caches" => ~stranded
    /\ Len(copies) <= restores
    /\ step \in {"wait", "copy", "safety"} => Len(copies) + 1 <= restores
    /\ epoch <= 2 * restores + 1
    /\ step \in {"wait", "copy", "safety"} \union Untouched => epoch + 1 <= 2 * restores
    /\ step \in Critical \ {"reload_again"} => epoch <= 2 * restores

MemoryTypes ==
    /\ loaded \in [1..Parts -> {"live", "upload"}]
    /\ part \in 1..(Parts + 1)
    /\ step \in Reloading => part <= Parts
    /\ cached \subseteq Saves

HistoryInv == \A w \in Workers : base[w] \in 1..epoch /\ job[w] \in 0..epoch

\* The snapshots come from the file until it is replaced, from the safety copy
\* until the reload, and then one after the other from the file.  Those that
\* are stranded stay as they are until the next reload.
SnapshotsInv ==
    faults <= 1 =>
        /\ step \in {"idle", "wait", "copy", "safety", "caches"} =>
               \A p \in 1..Parts : loaded[p] = Remembered.origin
        /\ step \in Untouched /\ ~stranded => \A p \in 1..Parts : loaded[p] = file.origin
        /\ step \in OldMemory /\ ~stranded =>
               \A p \in 1..Parts : loaded[p] = Last(copies).origin
        /\ step \in Reloading => \A p \in 1..Parts : p < part => loaded[p] = file.origin

\* So do the profiles that are believed to be saved.
ProfilesInv ==
    faults <= 1 =>
        \A w \in cached :
            /\ step \in {"idle", "wait", "copy", "safety"} =>
                   w \in Rows \union Remembered.rows \/ status[w] \in {"created", "waiting"}
            /\ step \in Untouched \union {"reload_again"} /\ ~stranded => w \in file.rows
            /\ step \in Copied \ {"caches", "reload_again"} /\ ~stranded =>
                   w \in Last(copies).rows

SInv == ShutInv /\ CountInv /\ MemoryTypes /\ HistoryInv /\ SnapshotsInv /\ ProfilesInv

\* What holds of types, counts, snapshots and profiles holds initially.
LEMMA InitSInv == Init => SInv
<1> SUFFICES ASSUME Init PROVE SInv
  OBVIOUS
<1>1. CountInv
  <2>1. /\ step = "idle" /\ Len(copies) = 0
        /\ restores = 0 /\ faults = 0 /\ late = 0 /\ epoch = 1 /\ stranded = FALSE
    BY DEF Init
  <2> QED
    BY <2>1, RestoreAssumption DEF CountInv, Undoing, Untouched, Critical, Copied
<1>2. ShutInv
  BY DEF Init, ShutInv
<1>6. MemoryTypes
  BY RestoreAssumption DEF Init, MemoryTypes, Reloading
<1>3. HistoryInv
  BY DEF Init, HistoryInv
<1>4. SnapshotsInv
  BY DEF Init, SnapshotsInv, Remembered, Untouched, OldMemory, Reloading
<1>5. ProfilesInv
  BY DEF Init, ProfilesInv, Copied, Untouched
<1> QED
  BY <1>1, <1>2, <1>3, <1>4, <1>5, <1>6 DEF SInv

\* An activity counts no restore; the failures it counts are within the bound.
LEMMA ActivityCounts ==
    ASSUME NEW w \in Workers, Activity(w), CountInv
    PROVE  /\ restores' = restores
           /\ faults' \in 0..MaxFaults /\ faults <= faults'
           /\ late' \in 0..MaxLate
BY RestoreAssumption DEF Activity, Begin, CreateTask, Submit, Busy, Commit, Abandon, Trouble,
   bounds, CountInv

\* Every step keeps the gate shut, or opens it as the handler ends.
LEMMA ShutStep ==
    ASSUME RInv, SInv, [Next]_vars
    PROVE  ShutInv'
<1> USE DEF SInv, ShutInv
<1>1. ASSUME NEW w \in Workers, Activity(w) PROVE ShutInv'
  BY <1>1, ActivityFrame
<1>2. CASE Execute \/ Poll \/ GiveUp \/ Crash
  BY <1>2 DEF Execute, Poll, GiveUp, Crash, Finally
<1>3. CASE CopyUpload \/ Safety \/ RemoveSidecars \/ Replace \/ Sync \/ Migrate \/ Trim
  BY <1>3 DEF CopyUpload, Safety, RemoveSidecars, Replace, Sync, Migrate, Trim, At
<1>4. CASE Reload \/ ClearCaches \/ RollBack \/ Return
  BY <1>4 DEF Reload, ClearCaches, RollBack, Return, At, Finally, gate
<1>5. CASE Raise
  BY <1>5 DEF Raise, At, Finally
<1>6. CASE UNCHANGED vars
  BY <1>6 DEF vars, gate
<1> QED
  BY <1>1, <1>2, <1>3, <1>4, <1>5, <1>6, NextSplit DEF Handler, RestoreStep

\* Every step keeps the counts of restores, failures, copies and files.
LEMMA CountStep ==
    ASSUME RInv, SInv, [Next]_vars
    PROVE  CountInv'
<1> USE RestoreAssumption DEF SInv, CountInv
<1>0. epoch \in Nat /\ Len(copies) \in Nat
  BY DEF RInv, WorkTypes, FileTypes
<1>1. ASSUME NEW w \in Workers, Activity(w) PROVE CountInv'
  BY <1>1, ActivityCounts, ActivityFrame
<1>2. CASE Execute
  BY <1>0, <1>2 DEF Execute, database, Undoing, Untouched, Critical, Copied
<1>3. CASE Poll \/ GiveUp \/ CopyUpload
  <2>1. UNCHANGED <<epoch, copies, restores, faults, late>>
    BY <1>3 DEF Poll, GiveUp, CopyUpload, database, bounds
  <2>2. CASE Poll
    BY <1>0, <2>1, <2>2 DEF Poll, Undoing, Untouched, Critical, Copied
  <2>3. CASE GiveUp
    BY <1>0, <2>1, <2>3 DEF GiveUp, Finally, Undoing, Untouched, Critical, Copied
  <2>4. CASE CopyUpload
    BY <1>0, <2>1, <2>4 DEF CopyUpload, At, Undoing, Untouched, Critical, Copied
  <2> QED
    BY <1>3, <2>2, <2>3, <2>4
<1>4. CASE Safety
  <2>1. Len(copies') = Len(copies) + 1
    <3>1. file' \in Content /\ copies \in Seq(Content) /\ copies' = Append(copies, file')
      BY <1>4, FileTypesStep DEF Safety, RInv, FileTypes
    <3> QED
      BY <3>1
  <2> QED
    BY <1>0, <1>4, <2>1 DEF Safety, At, bounds, Undoing, Untouched, Critical, Copied
<1>5. CASE RemoveSidecars \/ Sync \/ Migrate \/ Trim
  BY <1>0, <1>5 DEF RemoveSidecars, Sync, Migrate, Trim, At, database, bounds, Undoing,
     Untouched, Critical, Copied
<1>6. CASE Replace
  BY <1>0, <1>6 DEF Replace, At, Install, bounds, Undoing, Untouched, Critical, Copied
<1>7. CASE RollBack \/ Return
  <2>1. /\ step \in {"rollback", "return"} /\ step' \in {"idle", "reload_again"}
        /\ step' = "reload_again" <=> step = "return"
        /\ epoch' = epoch + 1
        /\ UNCHANGED <<copies, restores, faults, late, stranded>>
    BY <1>7 DEF RollBack, Return, At, Finally, Install, bounds
  <2> QED
    BY <1>0, <2>1 DEF Undoing, Untouched, Critical, Copied
<1>8. CASE Reload \/ ClearCaches
  <2>1. /\ UNCHANGED <<epoch, copies, restores, faults, late>>
        /\ step \in {"reload", "reload_again", "caches"}
        /\ step' \in {step, "idle", "caches"}
        /\ step = "reload_again" => step' \in {step, "idle"}
        /\ stranded' => stranded
        /\ step' = "caches" => ~stranded'
    <3>1. CASE ClearCaches
      BY <3>1 DEF ClearCaches, Finally, database, bounds
    <3>2. CASE Reload /\ part < Parts
      BY <3>2 DEF Reload, database, bounds
    <3>3. CASE Reload /\ ~(part < Parts)
      BY <3>3 DEF Reload, Finally, database, bounds
    <3> QED
      BY <1>8, <3>1, <3>2, <3>3
  <2> QED
    BY <1>0, <2>1 DEF Undoing, Untouched, Critical, Copied
<1>9. CASE Raise
  <2>1. /\ UNCHANGED <<epoch, restores, late>>
        /\ faults' \in 0..MaxFaults /\ faults' >= 1 /\ faults' = faults + 1
    BY <1>9 DEF Raise, Trouble
  <2>2. \/ step = "migrate" /\ step' = "rollback_sidecars" /\ stranded' = stranded
        \/ step = "reload" /\ step' = "return_sidecars" /\ stranded' = stranded
        \/ step' = "idle" /\ step \in Critical
    BY <1>9 DEF Raise, Finally, RInv, GateInv, ShutInv
  <2>3. Len(copies') = Len(copies) \/ (step = "safety" /\ Len(copies') = Len(copies) + 1)
    <3>1. [file EXCEPT !.rows = {}] \in Content /\ copies \in Seq(Content)
      BY DEF RInv, FileTypes, Content
    <3> QED
      BY <1>9, <3>1 DEF Raise
  <2> QED
    BY <1>0, <2>1, <2>2, <2>3 DEF Undoing, Untouched, Critical, Copied
<1>10. CASE Crash
  <2>1. /\ UNCHANGED <<epoch, copies, restores, late>>
        /\ faults' \in 0..MaxFaults
        /\ step' = "idle" /\ stranded' = FALSE
    BY <1>10 DEF Crash, Trouble, Finally, database
  <2> QED
    BY <1>0, <2>1 DEF Undoing, Untouched, Critical, Copied
<1>11. CASE UNCHANGED vars
  BY <1>11 DEF vars, database, gate, bounds
<1> QED
  BY <1>1, <1>2, <1>3, <1>4, <1>5, <1>6, <1>7, <1>8, <1>9, <1>10, <1>11, NextSplit
     DEF Handler, RestoreStep

\* The origin of the file is one of the two there are.
LEMMA Origin ==
    ASSUME RInv
    PROVE  file.origin \in {"live", "upload"}
BY DEF RInv, FileTypes, Content

\* An activity leaves the snapshots alone and remembers profiles only.
LEMMA ActivityMemory ==
    ASSUME NEW w \in Workers, Activity(w)
    PROVE  /\ loaded' = loaded /\ part' = part
           /\ cached' \subseteq cached \union ({w} \cap Saves)
BY DEF Activity, Begin, CreateTask, Submit, Busy, Commit, Abandon, memory

\* Every step keeps the types of what is in memory.
LEMMA MemoryTypesStep ==
    ASSUME RInv, SInv, [Next]_vars
    PROVE  MemoryTypes'
<1> USE RestoreAssumption DEF SInv, MemoryTypes
<1>1. ASSUME NEW w \in Workers, Activity(w) PROVE MemoryTypes'
  BY <1>1, ActivityMemory, ActivityFrame
<1>2. CASE Execute \/ Poll \/ GiveUp \/ CopyUpload \/ Safety \/ RemoveSidecars \/ Replace
  BY <1>2 DEF Execute, Poll, GiveUp, CopyUpload, Safety, RemoveSidecars, Replace, At,
     Finally, memory, Reloading
<1>3. CASE Sync \/ Migrate \/ Trim \/ ClearCaches \/ RollBack \/ Return
  BY <1>3 DEF Sync, Migrate, Trim, ClearCaches, RollBack, Return, At, Finally, memory, Reloading
<1>4. CASE Reload
  <2>1. loaded' \in [1..Parts -> {"live", "upload"}]
    BY <1>4, Origin DEF Reload
  <2>2. part' \in 1..(Parts + 1) /\ (step' \in Reloading => part' <= Parts)
    BY <1>4 DEF Reload, At, Finally, gate, Reloading
  <2> QED
    BY <1>4, <2>1, <2>2 DEF Reload
<1>5. CASE Raise
  BY <1>5 DEF Raise, At, Finally, memory, Reloading
<1>6. CASE Crash
  BY <1>6, Origin DEF Crash, Finally, Reloading
<1>7. CASE UNCHANGED vars
  BY <1>7 DEF vars, memory, gate
<1> QED
  BY <1>1, <1>2, <1>3, <1>4, <1>5, <1>6, <1>7, NextSplit DEF Handler, RestoreStep

\* Nothing begins in a file that has not been the database yet.
LEMMA HistoryStep ==
    ASSUME RInv, SInv, [Next]_vars
    PROVE  HistoryInv'
<1> USE DEF SInv, HistoryInv
<1>0. epoch \in Nat \ {0} /\ epoch' \in Nat /\ epoch <= epoch'
  BY EpochGrows DEF RInv, WorkTypes
<1>1. ASSUME NEW w \in Workers, Activity(w) PROVE HistoryInv'
  <2>1. epoch' = epoch
    BY <1>1, ActivityFrame
  <2>2. \A v \in Workers : base'[v] \in {base[v], epoch} /\ job'[v] \in {job[v], epoch, 0}
    BY <1>1 DEF Activity, Begin, CreateTask, Submit, Busy, Commit, Abandon, RInv, WorkTypes
  <2> QED
    BY <1>0, <2>1, <2>2
<1>2. CASE Handler
  BY <1>0, <1>2, HandlerFrame
<1>3. CASE Crash
  BY <1>0, <1>3 DEF Crash
<1>4. CASE UNCHANGED vars
  BY <1>0, <1>4 DEF vars, work
<1> QED
  BY <1>1, <1>2, <1>3, <1>4, NextSplit

\* The latest copy is the one just made, and it is as the file now is.
LEMMA SafetyCopy ==
    ASSUME RInv, Safety, FileTypes'
    PROVE  /\ Last(copies') = file'
           /\ file'.rows = Rows /\ file'.origin = file.origin
<1>1. /\ copies \in Seq(Content) /\ file' \in Content
      /\ copies' = Append(copies, file')
  BY DEF Safety, RInv, FileTypes
<1>2. Last(copies') = file'
  BY <1>1 DEF Last
<1> QED
  BY <1>2 DEF Safety, RInv, FileTypes, Content

\* The snapshots follow the file through every step of the handler.
LEMMA SnapshotsStep ==
    ASSUME RInv, SInv, [Next]_vars
    PROVE  SnapshotsInv'
<1> USE DEF SInv, SnapshotsInv, Remembered
<1>0. faults' \in Nat /\ faults \in Nat /\ stranded \in BOOLEAN
  BY CountStep, RestoreAssumption DEF CountInv, ShutInv
<1>1. ASSUME NEW w \in Workers, Activity(w) PROVE SnapshotsInv'
  <2>1. faults' <= 1 => faults <= 1
    BY <1>0, <1>1, ActivityCounts DEF CountInv
  <2> QED
    BY <1>1, <2>1, ActivityFrame, ActivityMemory DEF OldMemory, Untouched, Reloading
<1>2. CASE Execute \/ Poll \/ GiveUp \/ CopyUpload
  <2>1. /\ UNCHANGED <<file, wal, copies, loaded, faults, stranded>>
        /\ step \in {"idle", "wait", "copy"} /\ step' \in {"idle", "wait", "copy", "safety"}
    BY <1>2 DEF Execute, Poll, GiveUp, CopyUpload, At, Finally, database, memory, bounds
  <2> QED
    BY <2>1 DEF Untouched, OldMemory, Reloading
<1>3. CASE Safety
  <2>1. /\ UNCHANGED <<loaded, faults, stranded>> /\ step = "safety" /\ step' = "sidecars"
        /\ Last(copies') = file' /\ file'.origin = file.origin
    BY <1>3, SafetyCopy, FileTypesStep DEF Safety, At, memory, bounds
  <2> QED
    BY <2>1 DEF Untouched, OldMemory, Reloading
<1>4. CASE RemoveSidecars
  <2>1. /\ UNCHANGED <<file, copies, loaded, faults, stranded>>
        /\ \/ step = "sidecars" /\ step' = "replace"
           \/ step = "rollback_sidecars" /\ step' = "rollback"
           \/ step = "return_sidecars" /\ step' = "return"
    BY <1>4 DEF RemoveSidecars, At, memory, bounds
  <2> QED
    BY <2>1 DEF Untouched, OldMemory, Reloading
<1>5. CASE Replace \/ Sync \/ Migrate
  <2>1. /\ UNCHANGED <<copies, loaded, faults, stranded>>
        /\ \/ step = "replace" /\ step' = "sync"
           \/ step = "sync" /\ step' = "migrate"
           \/ step = "migrate" /\ step' = "trim"
    BY <1>5 DEF Replace, Sync, Migrate, At, Install, database, memory, bounds
  <2> QED
    BY <2>1 DEF Untouched, OldMemory, Reloading
<1>6. CASE Trim \/ ClearCaches
  <2>1. /\ UNCHANGED <<file, wal, copies, loaded, faults, stranded>>
        /\ \/ step = "trim" /\ step' = "reload" /\ part' = 1
           \/ step = "caches" /\ step' = "idle"
    BY <1>6 DEF Trim, ClearCaches, At, Finally, database, bounds
  <2>2. \A p \in 1..Parts : ~(p < 1)
    BY RestoreAssumption
  <2> QED
    BY <2>1, <2>2 DEF Untouched, OldMemory, Reloading
<1>7. CASE Reload
  <2> SUFFICES ASSUME faults <= 1
               PROVE  SnapshotsInv'
    BY <1>7 DEF Reload, bounds
  <2>1. /\ \A p \in 1..Parts : p < part' => loaded'[p] = file.origin
        /\ file' = file /\ wal' = wal
    BY <1>7, RestoreAssumption DEF Reload, MemoryTypes, Reloading, database
  <2>2. CASE part < Parts
    <3>1. step' = step /\ step \in Reloading
      BY <1>7, <2>2 DEF Reload, Reloading
    <3> QED
      BY <2>1, <3>1 DEF Untouched, OldMemory, Reloading
  <2>3. CASE ~(part < Parts)
    <3>1. \A p \in 1..Parts : loaded'[p] = file.origin
      BY <1>7, <2>1, <2>3, RestoreAssumption DEF Reload, MemoryTypes, Reloading
    <3>2. step' \in {"caches", "idle"} /\ stranded' = FALSE
      BY <1>7, <2>3 DEF Reload, Finally
    <3> QED
      BY <2>1, <3>1, <3>2 DEF Untouched, OldMemory, Reloading
  <2> QED
    BY <2>2, <2>3
<1>8. CASE RollBack
  <2>1. /\ UNCHANGED <<copies, loaded, faults, stranded>> /\ file' = Last(copies)
        /\ step = "rollback" /\ step' = "idle"
    BY <1>8 DEF RollBack, Install, Finally, memory, bounds
  <2>2. faults <= 1 => ~stranded
    BY <2>1 DEF CountInv, Undoing
  <2> QED
    BY <2>1, <2>2 DEF Untouched, OldMemory, Reloading
<1>9. CASE Return
  <2>1. step' = "reload_again" /\ part' = 1
    BY <1>9 DEF Return, At
  <2>2. \A p \in 1..Parts : ~(p < 1)
    BY RestoreAssumption
  <2> QED
    BY <2>1, <2>2 DEF Untouched, OldMemory, Reloading
<1>10. CASE Raise
  <2> SUFFICES ASSUME faults' <= 1
               PROVE  SnapshotsInv'
    OBVIOUS
  <2>1. faults = 0 /\ step \notin Undoing /\ ~stranded
    BY <1>0, <1>10 DEF Raise, Trouble, CountInv
  <2>2. step \in {"copy", "safety", "sidecars", "replace", "sync", "migrate", "trim", "reload"}
    BY <1>10, <2>1 DEF Raise, RInv, GateInv, Critical, Copied, Undoing
  <2>3. /\ UNCHANGED <<file, wal, loaded>>
        /\ step # "safety" => copies' = copies
        /\ stranded' <=> step \in {"sync", "trim"}
        /\ step' = CASE step = "migrate" -> "rollback_sidecars"
                     [] step = "reload" -> "return_sidecars"
                     [] OTHER -> "idle"
    BY <1>10, <2>1 DEF Raise, Finally, memory
  <2> QED
    BY <2>1, <2>2, <2>3 DEF Untouched, OldMemory, Reloading
<1>11. CASE Crash
  <2>1. /\ file' = file /\ wal' = wal /\ stranded' = FALSE /\ step' = "idle"
        /\ \A p \in 1..Parts : loaded'[p] = file.origin
    BY <1>11 DEF Crash, Finally, database
  <2> QED
    BY <2>1 DEF Untouched, OldMemory, Reloading
<1>12. CASE UNCHANGED vars
  BY <1>12 DEF vars, database, memory, gate, bounds, Rows
<1> QED
  BY <1>1, <1>2, <1>3, <1>4, <1>5, <1>6, <1>7, <1>8, <1>9, <1>10, <1>11, <1>12, NextSplit
     DEF Handler, RestoreStep

\* What a restore waits for: every update and every profile save.
LEMMA AwaitedKinds ==
    ASSUME RInv
    PROVE  Updates \subseteq Awaited /\ Saves \subseteq Awaited
BY RestoreAssumption DEF RInv, WorkTypes, Awaited, Counted, Workers

\* An activity that forgets nothing brings its profile on the way or into the file.
LEMMA ActivityProfiles ==
    ASSUME RInv, SInv, NEW w \in Workers, Activity(w), NEW v \in cached', NEW S,
           v \in cached => v \in Rows \union S \/ status[v] \in {"created", "waiting"}
    PROVE  v \in Rows' \union S \/ status'[v] \in {"created", "waiting"}
<1> USE DEF RInv, WorkTypes
<1>1. CASE v # w
  <2>1. v \in cached
    BY <1>1, ActivityMemory
  <2>2. v \in Workers
    BY <2>1 DEF SInv, MemoryTypes, Workers
  <2>3. status'[v] = status[v]
    BY <1>1, <2>2 DEF Activity, Begin, CreateTask, Submit, Busy, Commit, Abandon
  <2> QED
    BY <2>1, <2>3, ActivityFrame DEF Rows
<1>2. CASE v = w
  <2>1. w \in Saves /\ w \in Awaited
    BY <1>2, ActivityMemory, AwaitedKinds DEF SInv, MemoryTypes
  <2>2. ~Begin(w) /\ ~Abandon(w) /\ ~Busy(w)
    BY <1>2, <2>1, RestoreAssumption DEF Begin, Abandon, Busy
  <2>3. CASE CreateTask(w) \/ Submit(w)
    BY <1>2, <2>3 DEF CreateTask, Submit
  <2>4. CASE Commit(w)
    BY <1>2, <2>1, <2>4 DEF Commit, EpochInv, Rows
  <2> QED
    BY <2>2, <2>3, <2>4 DEF Activity
<1> QED
  BY <1>1, <1>2

\* From the second quiet poll on, no profile is remembered.
LEMMA NoNewProfile ==
    ASSUME RInv, step \in Critical, NEW w \in Workers, Activity(w)
    PROVE  cached' \subseteq cached
<1>1. restoring
  BY DEF RInv, GateInv, Critical, Copied
<1>2. \A u \in Updates : status[u] # "running"
  BY AwaitedKinds DEF RInv, StillInv, Alive
<1> QED
  BY <1>1, <1>2 DEF Activity, Begin, CreateTask, Submit, Busy, Commit, Abandon, memory

\* What is believed to be saved follows the file through every step of the handler.
LEMMA ProfilesStep ==
    ASSUME RInv, SInv, [Next]_vars
    PROVE  ProfilesInv'
<1> USE DEF SInv, ProfilesInv, Remembered
<1>0. faults' \in Nat /\ faults \in Nat /\ stranded \in BOOLEAN
  BY CountStep, RestoreAssumption DEF CountInv, ShutInv
<1>1. ASSUME NEW w \in Workers, Activity(w) PROVE ProfilesInv'
  <2>1. faults' <= 1 => faults <= 1
    BY <1>0, <1>1, ActivityCounts DEF CountInv
  <2>2. CASE step \in {"idle", "wait", "copy", "safety"}
    <3>1. ASSUME faults' <= 1, NEW v \in cached'
          PROVE  v \in Rows' \union Remembered'.rows \/ status'[v] \in {"created", "waiting"}
      <4>1. CASE stranded
        <5>1. Remembered = Last(copies) /\ Remembered' = Last(copies)
          BY <1>1, <4>1, ActivityFrame
        <5> QED
          BY <1>1, <2>1, <2>2, <3>1, <5>1, ActivityProfiles
      <4>2. CASE ~stranded
        <5>1. Remembered.rows = Rows /\ Remembered'.rows = Rows'
          BY <1>1, <4>2, ActivityFrame
        <5>2. v \in Rows' \union {} \/ status'[v] \in {"created", "waiting"}
          BY <1>1, <2>1, <2>2, <3>1, <5>1, ActivityProfiles
        <5> QED
          BY <5>2
      <4> QED
        BY <1>0, <4>1, <4>2
    <3> QED
      BY <1>1, <2>2, <3>1, ActivityFrame DEF Untouched, Copied
  <2>3. CASE step \in Copied
    <3>1. cached' \subseteq cached
      BY <1>1, <2>3, NoNewProfile DEF Critical
    <3> QED
      BY <1>1, <2>1, <2>3, <3>1, ActivityFrame DEF Copied
  <2>4. step' = step /\ step \in {"idle", "wait", "copy", "safety"} \union Copied
    BY <1>1, ActivityFrame DEF RInv, GateInv, Critical
  <2> QED
    BY <2>2, <2>3, <2>4
<1>2. CASE Execute \/ Poll \/ GiveUp \/ CopyUpload
  <2>1. /\ UNCHANGED <<file, wal, copies, cached, status, faults, stranded>>
        /\ step \in {"idle", "wait", "copy"} /\ step' \in {"idle", "wait", "copy", "safety"}
    BY <1>2 DEF Execute, Poll, GiveUp, CopyUpload, At, Finally, database, memory, work, bounds
  <2> QED
    BY <2>1 DEF Rows, Untouched, Copied
<1>3. CASE Safety
  <2>1. /\ step = "safety" /\ step' = "sidecars" /\ cached' = cached /\ faults' = faults
        /\ stranded' = stranded /\ Last(copies') = file' /\ file'.rows = Rows
    BY <1>3, SafetyCopy, FileTypesStep DEF Safety, At, memory, bounds
  <2>2. \A w \in cached : status[w] \notin {"created", "waiting"}
    BY <2>1, AwaitedKinds DEF RInv, StillInv, MemoryTypes, Critical, Alive
  <2>3. faults <= 1 /\ ~stranded => \A w \in cached : w \in Rows
    BY <2>1, <2>2
  <2> QED
    BY <2>1, <2>3 DEF Untouched, Copied
<1>4. CASE RemoveSidecars
  <2>1. /\ UNCHANGED <<file, copies, cached, faults, stranded>>
        /\ \/ step = "sidecars" /\ step' = "replace"
           \/ step = "rollback_sidecars" /\ step' = "rollback"
           \/ step = "return_sidecars" /\ step' = "return"
    BY <1>4 DEF RemoveSidecars, At, memory, bounds
  <2> QED
    BY <2>1 DEF Untouched, Copied
<1>5. CASE Replace \/ Sync \/ Migrate \/ Trim
  <2>1. /\ UNCHANGED <<copies, cached, faults, stranded>>
        /\ \/ step = "replace" /\ step' = "sync"
           \/ step = "sync" /\ step' = "migrate"
           \/ step = "migrate" /\ step' = "trim"
           \/ step = "trim" /\ step' = "reload"
    BY <1>5 DEF Replace, Sync, Migrate, Trim, At, Install, database, memory, bounds
  <2> QED
    BY <2>1 DEF Untouched, Copied
<1>6. CASE Reload
  <2>1. /\ UNCHANGED <<file, wal, copies, cached, faults>> /\ (stranded' => stranded)
        /\ \/ step' = step /\ stranded' = (stranded /\ part < Parts) /\ part < Parts
           \/ step = "reload" /\ step' = "caches"
           \/ step = "reload_again" /\ step' = "idle" /\ stranded' = FALSE
        /\ step \in {"reload", "reload_again"}
    BY <1>6 DEF Reload, Finally, database, bounds
  <2>2. step = "reload_again" /\ faults <= 1 => ~stranded
    BY DEF CountInv, Undoing
  <2> QED
    BY <1>0, <2>1, <2>2 DEF Rows, Untouched, Copied
<1>7. CASE ClearCaches
  BY <1>7 DEF ClearCaches
<1>8. CASE RollBack \/ Return
  <2>1. /\ UNCHANGED <<copies, cached, faults, stranded>> /\ file' = Last(copies) /\ wal' = {}
        /\ \/ step = "rollback" /\ step' = "idle"
           \/ step = "return" /\ step' = "reload_again"
    BY <1>8 DEF RollBack, Return, Install, At, Finally, memory, bounds
  <2>2. faults <= 1 => ~stranded
    BY <2>1 DEF CountInv, Undoing
  <2> QED
    BY <2>1, <2>2 DEF Rows, Untouched, Copied
<1>9. CASE Raise
  <2> SUFFICES ASSUME faults' <= 1
               PROVE  ProfilesInv'
    OBVIOUS
  <2>1. faults = 0 /\ step \notin Undoing /\ ~stranded
    BY <1>0, <1>9 DEF Raise, Trouble, CountInv
  <2>2. step \in {"copy", "safety", "sidecars", "replace", "sync", "migrate", "trim", "reload"}
    BY <1>9, <2>1 DEF Raise, RInv, GateInv, Critical, Copied, Undoing
  <2>3. /\ UNCHANGED <<file, wal, cached, status>>
        /\ step # "safety" => copies' = copies
        /\ stranded' <=> step \in {"sync", "trim"}
        /\ step' = CASE step = "migrate" -> "rollback_sidecars"
                     [] step = "reload" -> "return_sidecars"
                     [] OTHER -> "idle"
    BY <1>9, <2>1 DEF Raise, Finally, memory, work
  <2> QED
    BY <2>1, <2>2, <2>3 DEF Rows, Untouched, Copied
<1>10. CASE Crash
  BY <1>10 DEF Crash
<1>11. CASE UNCHANGED vars
  BY <1>11 DEF vars, database, memory, work, gate, bounds, Rows
<1> QED
  BY <1>1, <1>2, <1>3, <1>4, <1>5, <1>6, <1>7, <1>8, <1>9, <1>10, <1>11, NextSplit
     DEF Handler, RestoreStep

\* Both invariants hold in every state.
THEOREM RestoreInvariants == Spec => [](RInv /\ SInv)
<1>1. SInv /\ RInv /\ [Next]_vars => SInv'
  BY ShutStep, CountStep, MemoryTypesStep, HistoryStep, SnapshotsStep, ProfilesStep DEF SInv
<1> QED
  BY RestoreInductive, InitSInv, <1>1, PTL DEF Spec

\* Every variable keeps its type, and the files, copies and failures their bounds.
THEOREM RestoreTypes == Spec => []RestoreTypeOK
<1>1. ASSUME RInv, SInv PROVE RestoreTypeOK
  <2>1. /\ epoch \in Nat \ {0} /\ restores \in 0..MaxRestores /\ epoch <= 2 * restores + 1
    BY <1>1 DEF RInv, WorkTypes, SInv, CountInv
  <2>2. epoch \in 1..(2 * MaxRestores + 1)
    BY <2>1, RestoreAssumption
  <2>3. base \in [Workers -> 1..epoch] /\ job \in [Workers -> 0..epoch]
    BY <1>1 DEF RInv, WorkTypes, SInv, HistoryInv
  <2>4. oldest \in 1..(Len(copies) + 1)
    BY <1>1, RestoreAssumption DEF RInv, KeepInv, FileTypes
  <2> QED
    BY <1>1, <2>2, <2>3, <2>4 DEF RestoreTypeOK, RInv, FileTypes, WorkTypes, GateInv, SInv,
       ShutInv, CountInv, MemoryTypes, Reloading, Statuses
<1> QED
  BY RestoreInvariants, <1>1, PTL

\* With the gate open and at most one failure behind it, memory and database
\* belong together: snapshots and remembered profiles are those of the file,
\* or all of them those of the newest copy, if the upload was left in place.
THEOREM Settled == Spec => []SettledTogether
<1>1. RInv /\ SInv => SettledTogether
  BY DEF RInv, GateInv, SInv, SnapshotsInv, ProfilesInv, SettledTogether, Critical, Copied
<1> QED
  BY RestoreInvariants, <1>1, PTL
=============================================================================
