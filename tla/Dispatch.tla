------------------------------ MODULE Dispatch ------------------------------
(***************************************************************************)
(* How an update reaches its handler, and a handler its blocking calls.    *)
(*                                                                         *)
(* PerUserUpdateProcessor (bot.py) takes an update into a bounded waiting  *)
(* room, makes it wait for the lock of its user, then for an execution     *)
(* slot, and runs its handler.  The lock of a user lives in a dictionary   *)
(* as long as somebody counts on it; KeyedAsyncLocks.hold does the same    *)
(* for orders.  The handler sends its blocking calls to a BlockingLane: a  *)
(* thread pool whose slots follow the threads, not the handlers that wait  *)
(* for them, since a deadline stops only the waiting.  Reads of the panels *)
(* and calls to the gateway have a deadline (run_blocking_retry,           *)
(* run_zarinpal); the calls of the storage and the writes to a panel go    *)
(* through run_blocking alone and wait as long as their thread takes.      *)
(*                                                                         *)
(* One action is the code between two awaits.                              *)
(***************************************************************************)
EXTENDS Integers, Sequences, FiniteSets, SequencesExt

CONSTANTS Updates, Users, UserOf,
          StartUpdates,    (* the updates that are /start                  *)
          Slow,            (* users whose handlers may never end           *)
          RoomSize,        (* outer_cap of the processor                   *)
          WorkSlots, FastSlots,
          Workers, Capacity,    (* of the lane                             *)
          Jobs, MaxCalls,  (* bounds: jobs at once, calls of one handler   *)
          NoLock, NoJob

ASSUME DispatchAssumption ==
    /\ IsFiniteSet(Updates) /\ IsFiniteSet(Jobs)
    /\ UserOf \in [Updates -> Users]
    /\ StartUpdates \subseteq Updates /\ Slow \subseteq Users
    /\ {RoomSize, WorkSlots, FastSlots, Workers, Capacity} \subseteq Nat \ {0}
    /\ Workers <= Capacity
    /\ MaxCalls \in Nat
    /\ NoLock \notin 1..Cardinality(Updates)
    /\ Jobs \subseteq Nat /\ Cardinality(Jobs) >= Capacity
    /\ NoJob \notin Jobs

VARIABLES
    pc,       \* where the coroutine of an update is
    table,    \* _locks: the lock of a user, if there is one
    refs,     \* _lock_refs: how many updates count on it
    lockOf,   \* the lock object an update holds a reference to
    line,     \* for a lock object: its holder, then those who wait, in order
    room,     \* for a kind of slot: the updates waiting for one, in order
    arrived,  \* the order in which updates came to the lock of their user
    job,      \* what the lane knows of a job
    pool,     \* the executor's queue
    taken,    \* slots of the lane that are taken (also lane.active)
    awaits,   \* the job a handler waits for
    timed,    \* the updates whose handler waits under a deadline
    calls     \* the blocking calls a handler has made

vars == <<pc, table, refs, lockOf, line, room, arrived, job, pool, taken,
          awaits, timed, calls>>
locking == <<table, refs, lockOf, line, arrived>>
lane == <<job, pool, taken, awaits, timed, calls>>

Locks == 1..Cardinality(Updates)
Kinds == {"work", "fast"}

\* _is_start picks the lane of execution slots.
KindOf(u) == IF u \in StartUpdates THEN "fast" ELSE "work"
SlotsOf(kind) == IF kind = "fast" THEN FastSlots ELSE WorkSlots

At(p) == {u \in Updates : pc[u] = p}
\* Updates that have entered do_process_update and not left it.
Inside == {u \in Updates : pc[u] \notin {"new", "done"}}
Running(kind) == {u \in At("running") : KindOf(u) = kind}

\* asyncio.Lock() makes an object nobody else refers to.
FreshLock ==
    LET unused == Locks \ {lockOf[u] : u \in Updates} IN
    CHOOSE l \in unused : \A m \in unused : l <= m

-----------------------------------------------------------------------------
Init ==
    /\ pc = [u \in Updates |-> "new"]
    /\ table = [k \in Users |-> NoLock]
    /\ refs = [k \in Users |-> 0]
    /\ lockOf = [u \in Updates |-> NoLock]
    /\ line = [l \in Locks |-> << >>]
    /\ room = [kind \in Kinds |-> << >>]
    /\ arrived = << >>
    /\ job = [j \in Jobs |-> "free"]
    /\ pool = << >>
    /\ taken = 0
    /\ awaits = [u \in Updates |-> NoJob]
    /\ timed = {}
    /\ calls = [u \in Updates |-> 0]

\* Mutant: whoever comes second is not counted.
JoinUncounted(u) ==
    /\ pc[u] = "new"
    /\ Cardinality(Inside) < RoomSize
    /\ LET k == UserOf[u]
           l == IF table[k] = NoLock THEN FreshLock ELSE table[k] IN
       /\ table' = [table EXCEPT ![k] = l]
       /\ refs' = [refs EXCEPT ![k] = 1]
       /\ lockOf' = [lockOf EXCEPT ![u] = l]
    /\ pc' = [pc EXCEPT ![u] = "joined"]
    /\ UNCHANGED <<line, room, arrived, lane>>

\* The outer semaphore lets the update in; under _locks_guard it finds the
\* lock of its user, or makes one, and counts itself.
Join(u) ==
    /\ pc[u] = "new"
    /\ Cardinality(Inside) < RoomSize
    /\ LET k == UserOf[u]
           l == IF table[k] = NoLock THEN FreshLock ELSE table[k] IN
       /\ table' = [table EXCEPT ![k] = l]
       /\ refs' = [refs EXCEPT ![k] = @ + 1]
       /\ lockOf' = [lockOf EXCEPT ![u] = l]
    /\ pc' = [pc EXCEPT ![u] = "joined"]
    /\ UNCHANGED <<line, room, arrived, lane>>

\* Mutant: a work slot is asked for before the lock.
LineUpWithSlot(u) ==
    /\ pc[u] = "joined"
    /\ line' = [line EXCEPT ![lockOf[u]] = Append(@, u)]
    /\ room' = [room EXCEPT ![KindOf(u)] = Append(@, u)]
    /\ arrived' = Append(arrived, u)
    /\ pc' = [pc EXCEPT ![u] = "ready"]
    /\ UNCHANGED <<table, refs, lockOf, lane>>

\* "async with lock": asyncio.Lock serves its waiters in order.
LineUp(u) ==
    /\ pc[u] = "joined"
    /\ line' = [line EXCEPT ![lockOf[u]] = Append(@, u)]
    /\ arrived' = Append(arrived, u)
    /\ pc' = [pc EXCEPT ![u] = "queued"]
    /\ UNCHANGED <<table, refs, lockOf, room, lane>>

\* The update holds the lock and asks for an execution slot of its kind; the
\* semaphore, too, serves its waiters in order.
Acquire(u) ==
    /\ pc[u] = "queued"
    /\ Head(line[lockOf[u]]) = u
    /\ room' = [room EXCEPT ![KindOf(u)] = Append(@, u)]
    /\ pc' = [pc EXCEPT ![u] = "ready"]
    /\ UNCHANGED <<locking, lane>>

\* _run_and_measure: the handler runs.
Run(u) ==
    LET kind == KindOf(u) IN
    /\ pc[u] = "ready"
    /\ Head(line[lockOf[u]]) = u
    /\ Head(room[kind]) = u
    /\ Cardinality(Running(kind)) < SlotsOf(kind)
    /\ room' = [room EXCEPT ![kind] = Tail(@)]
    /\ pc' = [pc EXCEPT ![u] = "running"]
    /\ UNCHANGED <<locking, lane>>

-----------------------------------------------------------------------------
\* run_blocking, with the deadline of run_blocking_retry or run_zarinpal around
\* it or without: a slot of the lane is taken without waiting, or the call is
\* refused (ServiceBusyError) and the handler goes on with the error.
Submit(u) ==
    /\ pc[u] = "running" /\ awaits[u] = NoJob
    /\ calls[u] < MaxCalls
    /\ calls' = [calls EXCEPT ![u] = @ + 1]
    /\ IF taken < Capacity
         THEN \E j \in Jobs :
                  /\ job[j] = "free"
                  /\ \A i \in Jobs : job[i] = "free" => i >= j
                  /\ job' = [job EXCEPT ![j] = "pooled"]
                  /\ pool' = Append(pool, j)
                  /\ taken' = taken + 1
                  /\ awaits' = [awaits EXCEPT ![u] = j]
                  /\ timed' \in {timed, timed \union {u}}
         ELSE UNCHANGED <<job, pool, taken, awaits, timed>>
    /\ UNCHANGED <<pc, room, locking>>

\* A worker thread takes the next job.
Work ==
    /\ pool # << >>
    /\ Cardinality({j \in Jobs : job[j] = "running"}) < Workers
    /\ job' = [job EXCEPT ![Head(pool)] = "running"]
    /\ pool' = Tail(pool)
    /\ UNCHANGED <<pc, room, taken, awaits, timed, calls, locking>>

\* The function returns or raises: _finish gives the slot back, and the
\* handler, if it still waits, resumes.
WorkDone(j) ==
    /\ job[j] = "running"
    /\ job' = [job EXCEPT ![j] = "free"]
    /\ taken' = taken - 1
    /\ awaits' = [u \in Updates |-> IF awaits[u] = j THEN NoJob ELSE awaits[u]]
    /\ timed' = {u \in timed : awaits[u] # j}
    /\ UNCHANGED <<pc, room, pool, calls, locking>>

\* Mutant: the slot follows the caller instead of the thread.
DeadlineFreesSlot(u) ==
    LET j == awaits[u] IN
    /\ u \in timed
    /\ awaits' = [awaits EXCEPT ![u] = NoJob]
    /\ timed' = timed \ {u}
    /\ taken' = taken - 1
    /\ IF job[j] = "pooled"
         THEN /\ job' = [job EXCEPT ![j] = "free"]
              /\ pool' = RemoveFirst(pool, j)
         ELSE UNCHANGED <<job, pool>>
    /\ UNCHANGED <<pc, room, calls, locking>>

\* wait_for cancels the future, where the call has a deadline
\* (run_blocking_retry, run_zarinpal).  A job the pool has not started is
\* withdrawn, and its callback gives the slot back; a running one goes on and
\* keeps its slot.
Deadline(u) ==
    LET j == awaits[u] IN
    /\ u \in timed
    /\ awaits' = [awaits EXCEPT ![u] = NoJob]
    /\ timed' = timed \ {u}
    /\ IF job[j] = "pooled"
         THEN /\ job' = [job EXCEPT ![j] = "free"]
              /\ pool' = RemoveFirst(pool, j)
              /\ taken' = taken - 1
         ELSE UNCHANGED <<job, pool, taken>>
    /\ UNCHANGED <<pc, room, calls, locking>>

-----------------------------------------------------------------------------
\* The handler ends, well or not, and leaves its execution slot ...
Finish(u) ==
    /\ pc[u] = "running" /\ awaits[u] = NoJob
    /\ pc' = [pc EXCEPT ![u] = "finished"]
    /\ UNCHANGED <<room, locking, lane>>

\* ... then the lock of its user ...
Release(u) ==
    /\ pc[u] = "finished"
    /\ line' = [line EXCEPT ![lockOf[u]] = Tail(@)]
    /\ pc' = [pc EXCEPT ![u] = "leaving"]
    /\ UNCHANGED <<table, refs, lockOf, room, arrived, lane>>

\* Mutant: the lock of a user is never evicted.
LeaveAnyway(u) ==
    LET k == UserOf[u] IN
    /\ pc[u] = "leaving"
    /\ refs' = [refs EXCEPT ![k] = @ - 1]
    /\ lockOf' = [lockOf EXCEPT ![u] = NoLock]
    /\ pc' = [pc EXCEPT ![u] = "done"]
    /\ UNCHANGED <<table, line, room, arrived, lane>>

\* ... and, under _locks_guard again, its count; the last one out evicts the
\* lock, if it is still the one in the dictionary.
Leave(u) ==
    LET k == UserOf[u] IN
    /\ pc[u] = "leaving"
    /\ refs' = [refs EXCEPT ![k] = IF @ > 0 THEN @ - 1 ELSE 0]
    /\ table' = [table EXCEPT ![k] =
                     IF refs'[k] = 0 /\ @ = lockOf[u] THEN NoLock ELSE @]
    /\ lockOf' = [lockOf EXCEPT ![u] = NoLock]
    /\ pc' = [pc EXCEPT ![u] = "done"]
    /\ UNCHANGED <<line, room, arrived, lane>>

\* What the event loop does for an update, once it is in.
Step(u) ==
    \/ LineUp(u) \/ Acquire(u) \/ Run(u)
    \/ Finish(u) \/ Release(u) \/ Leave(u)

Next ==
    \/ \E u \in Updates : Join(u) \/ Submit(u) \/ Deadline(u) \/ Step(u)
    \/ Work
    \/ \E j \in Jobs : WorkDone(j)

Spec == Init /\ [][Next]_vars

(***************************************************************************)
(* The event loop runs whatever is ready and its timers fire, so every     *)
(* step of an update is fair, but for the end of a handler of a slow user. *)
(* Nothing is assumed of the threads: neither Work nor WorkDone is fair.   *)
(***************************************************************************)
Fairness ==
    \A u \in Updates :
        /\ WF_vars(Join(u))
        /\ WF_vars(LineUp(u)) /\ WF_vars(Acquire(u)) /\ WF_vars(Run(u))
        /\ WF_vars(Release(u)) /\ WF_vars(Leave(u))
        /\ UserOf[u] \notin Slow => WF_vars(Deadline(u)) /\ WF_vars(Finish(u))

FairSpec == Spec /\ Fairness

-----------------------------------------------------------------------------
DispatchTypeOK ==
    /\ pc \in [Updates -> {"new", "joined", "queued", "ready", "running",
                           "finished", "leaving", "done"}]
    /\ table \in [Users -> Locks \union {NoLock}]
    /\ refs \in [Users -> 0..Cardinality(Updates)]
    /\ lockOf \in [Updates -> Locks \union {NoLock}]
    /\ line \in [Locks -> Seq(Updates)]
    /\ room \in [Kinds -> Seq(Updates)]
    /\ arrived \in Seq(Updates)
    /\ job \in [Jobs -> {"free", "pooled", "running"}]
    /\ pool \in Seq(Jobs)
    /\ taken \in 0..Cardinality(Jobs)
    /\ awaits \in [Updates -> Jobs \union {NoJob}]
    /\ timed \subseteq {u \in Updates : awaits[u] # NoJob}
    /\ calls \in [Updates -> 0..MaxCalls]

(***************************************************************************)
(* The updates of one user are handled one at a time, in the order they    *)
(* came, whatever locks were evicted and made anew meanwhile: an update    *)
(* past its lock has every earlier one of its user behind it               *)
(* (context.user_data is never shared by two handlers).                    *)
(***************************************************************************)
OneAtATimeInOrder ==
    \A i, k \in DOMAIN arrived :
        /\ i < k
        /\ UserOf[arrived[i]] = UserOf[arrived[k]]
        /\ pc[arrived[k]] \notin {"queued"}
        => pc[arrived[i]] \in {"leaving", "done"}

(***************************************************************************)
(* Nothing is leaked or freed too early, by whatever mix of deadlines,     *)
(* threads that end late and users that come back.  The dictionary of      *)
(* locks holds exactly the users who have an update in the processor, and  *)
(* everyone of a user inside has the one lock that is there: no lock is    *)
(* evicted under a waiter, none stays behind.  And a slot of the lane      *)
(* belongs to a job until its thread ends.                                 *)
(***************************************************************************)
NothingLeaks ==
    /\ \A k \in Users :
           LET mine == {u \in Inside : UserOf[u] = k} IN
           /\ refs[k] = Cardinality(mine)
           /\ table[k] = NoLock <=> mine = {}
           /\ \A u \in mine : lockOf[u] = table[k]
    /\ taken = Cardinality({j \in Jobs : job[j] # "free"})
    /\ taken <= Capacity

\* Every thread takes its job up and ends it.
ThreadsReturn == WF_vars(Work) /\ \A j \in Jobs : WF_vars(WorkDone(j))

\* No call without a deadline of a user who is not slow waits for ever.
PlainCallsReturn ==
    \A u \in Updates :
        UserOf[u] \notin Slow => []<>(awaits[u] = NoJob \/ u \in timed)

(***************************************************************************)
(* One user's handlers may hang: every update of the other users ends all  *)
(* the same, if the threads return, and even if threads never return, as   *)
(* long as no call without a deadline of those other users waits for ever. *)
(* Waiting updates of one user consume no execution slot, and a timed-out  *)
(* thread cannot hold the lock of its user.  A plain run_blocking behind   *)
(* threads that never return does wait for ever: nothing is claimed then.  *)
(***************************************************************************)
OthersAreServed ==
    ThreadsReturn \/ PlainCallsReturn =>
        \A u \in Updates :
            UserOf[u] \notin Slow => (pc[u] = "joined" ~> pc[u] = "done")
=============================================================================
