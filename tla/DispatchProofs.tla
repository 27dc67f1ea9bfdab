--------------------------- MODULE DispatchProofs ---------------------------
(***************************************************************************)
(* Proofs about Dispatch, for every number of updates, users, slots,       *)
(* threads and calls.                                                      *)
(*                                                                         *)
(* Each queue is shown to hold, once each, exactly the updates whose       *)
(* program counter says so; the order of the line of a lock is the order   *)
(* of arrival; and whoever is past the lock is the first in its line.      *)
(* Since all of one user who are inside hold one lock, the one who gets it *)
(* has every earlier one behind it.                                        *)
(***************************************************************************)
EXTENDS Dispatch, CollectionLemmas

-----------------------------------------------------------------------------
(* The inductive invariant *)

InLine == {"queued", "ready", "running", "finished"}
Past == {"ready", "running", "finished"}

Mine(k) == {u \in Inside : UserOf[u] = k}
Waiting(l) == {u \in Updates : lockOf[u] = l /\ pc[u] \in InLine}
Arrived == {u \in Updates : pc[u] \notin {"new", "joined"}}
Ready(kind) == {u \in Updates : pc[u] = "ready" /\ KindOf(u) = kind}
Busy == {j \in Jobs : job[j] # "free"}

\* A queue of updates that holds each member of S once, and nobody else.
Queue(s, S) == s \in Seq(Updates) /\ IsInjective(s) /\ ToSet(s) = S

PlainTypes ==
    /\ pc \in [Updates -> {"new", "joined", "queued", "ready", "running",
                           "finished", "leaving", "done"}]
    /\ table \in [Users -> Locks \union {NoLock}]
    /\ refs \in [Users -> Nat]
    /\ lockOf \in [Updates -> Locks \union {NoLock}]
    /\ line \in [Locks -> Seq(Updates)]
    /\ room \in [Kinds -> Seq(Updates)]
    /\ calls \in [Updates -> 0..MaxCalls]

\* Everyone of a user inside has the lock of the dictionary and is counted.
LocksInv ==
    /\ \A k \in Users :
           /\ refs[k] = Cardinality(Mine(k))
           /\ table[k] = NoLock <=> Mine(k) = {}
           /\ \A u \in Mine(k) : lockOf[u] = table[k]
    /\ \A u \in Updates \ Inside : lockOf[u] = NoLock

QueuesInv ==
    /\ \A l \in Locks : Queue(line[l], Waiting(l))
    /\ \A kind \in Kinds : Queue(room[kind], Ready(kind))
    /\ Queue(arrived, Arrived)

\* In the line of a lock, who stands before has come before.
OrderInv ==
    \A l \in Locks : \A i, k \in DOMAIN line[l] :
        i < k => \E a, b \in DOMAIN arrived :
                     a < b /\ arrived[a] = line[l][i] /\ arrived[b] = line[l][k]

HeadInv == \A u \in Updates : pc[u] \in Past => Head(line[lockOf[u]]) = u

LaneInv ==
    /\ job \in [Jobs -> {"free", "pooled", "running"}]
    /\ awaits \in [Updates -> Jobs \union {NoJob}]
    /\ timed \subseteq {u \in Updates : awaits[u] # NoJob}
    /\ pool \in Seq(Jobs) /\ IsInjective(pool)
    /\ \A j \in ToSet(pool) : job[j] = "pooled"
    /\ taken = Cardinality(Busy) /\ taken <= Capacity

DInv ==
    PlainTypes /\ LocksInv /\ QueuesInv /\ OrderInv /\ HeadInv /\ OneAtATimeInOrder /\ LaneInv

-----------------------------------------------------------------------------
(* Queues *)

\* One more at the end of a queue.
LEMMA QueueJoin ==
  ASSUME NEW s, NEW S, Queue(s, S), NEW u \in Updates, u \notin S
  PROVE  /\ Queue(Append(s, u), S \union {u})
         /\ Len(s) \in Nat /\ DOMAIN s = 1..Len(s) /\ DOMAIN Append(s, u) = 1..(Len(s) + 1)
         /\ \A i \in DOMAIN s : Append(s, u)[i] = s[i]
         /\ Append(s, u)[Len(s) + 1] = u
<1> DEFINE t == Append(s, u)
<1>1. s \in Seq(Updates) /\ IsInjective(s) /\ u \notin ToSet(s)
  BY DEF Queue
<1>2. t \in Seq(Updates) /\ IsInjective(t) /\ \A x : x \in ToSet(t) <=> x \in ToSet(s) \/ x = u
  <2>1. t = Append(s, u)
    OBVIOUS
  <2> HIDE DEF t
  <2>2. t \in Seq(Updates) /\ IsInjective(t)
    BY <1>1, <2>1, RowAppended
  <2>3. \A x : x \in ToSet(t) <=> x \in ToSet(s) \/ x = u
    BY <1>1, <2>1, RowAppended DEF ToSet
  <2> QED
    BY <2>2, <2>3
<1>3. ToSet(t) = S \union {u}
  BY <1>2 DEF Queue
<1>4. /\ Len(s) \in Nat /\ DOMAIN s = 1..Len(s) /\ DOMAIN t = 1..(Len(s) + 1)
      /\ \A i \in DOMAIN s : t[i] = s[i]
      /\ t[Len(s) + 1] = u
  BY <1>1, AppendProperties, LenProperties
<1> QED
  BY <1>2, <1>3, <1>4 DEF Queue

\* The first leaves a queue.
LEMMA QueueLeave ==
  ASSUME NEW s, NEW S, Queue(s, S), NEW u \in S, Head(s) = u
  PROVE  /\ Queue(Tail(s), S \ {u})
         /\ Len(s) \in Nat /\ DOMAIN s = 1..Len(s) /\ DOMAIN Tail(s) = 1..(Len(s) - 1)
         /\ \A i \in DOMAIN Tail(s) : Tail(s)[i] = s[i + 1]
<1> DEFINE t == Tail(s)
<1>1. s \in Seq(Updates) /\ IsInjective(s) /\ ToSet(s) = S /\ s # << >>
  BY DEF Queue, ToSet
<1>2. /\ Len(s) \in Nat /\ DOMAIN s = 1..Len(s) /\ Len(s) # 0
  BY <1>1, LenProperties, EmptySeq
<1>3. /\ t \in Seq(Updates) /\ Len(t) = Len(s) - 1
      /\ \A i \in 1..Len(t) : t[i] = s[i + 1]
  BY <1>1, HeadTailProperties
<1>4. DOMAIN t = 1..(Len(s) - 1)
  BY <1>3, LenProperties
<1>5. s[1] = u
  BY <1>1
<1> HIDE DEF t
<1>6. IsInjective(t)
  BY <1>1, <1>2, <1>3, <1>4 DEF IsInjective
<1>7. ASSUME NEW x \in ToSet(t) PROVE x \in S \ {u}
  <2>1. PICK i \in 1..(Len(s) - 1) : t[i] = x
    BY <1>4 DEF ToSet
  <2>2. i + 1 \in DOMAIN s /\ s[i + 1] = x /\ i + 1 # 1 /\ 1 \in DOMAIN s
    BY <1>2, <1>3, <1>4, <2>1
  <2> QED
    BY <1>1, <1>5, <2>2 DEF ToSet, IsInjective
<1>8. ASSUME NEW x \in S \ {u} PROVE x \in ToSet(t)
  <2>1. PICK i \in 1..Len(s) : s[i] = x
    BY <1>1, <1>2 DEF ToSet
  <2>2. i - 1 \in 1..(Len(s) - 1) /\ t[i - 1] = x
    BY <1>2, <1>3, <1>5, <1>8, <2>1
  <2> QED
    BY <1>4, <2>2 DEF ToSet
<1>9. ToSet(t) = S \ {u}
  BY <1>7, <1>8
<1> QED
  BY <1>2, <1>3, <1>4, <1>6, <1>9 DEF Queue, t

\* Who stands first in a queue is in it; who is in it stands somewhere.
LEMMA QueueMember ==
  ASSUME NEW s, NEW S, Queue(s, S)
  PROVE  /\ \A u \in S : \E i \in DOMAIN s : s[i] = u
         /\ \A i \in DOMAIN s : s[i] \in S
         /\ \A i, k \in DOMAIN s : s[i] = s[k] => i = k
         /\ Len(s) \in Nat /\ DOMAIN s = 1..Len(s)
BY LenProperties DEF Queue, ToSet, IsInjective

-----------------------------------------------------------------------------
(* The steps *)

\* Among as many locks as updates, one is unused when an update joins.
LEMMA FreshIsUnused ==
  ASSUME PlainTypes, NEW u \in Updates, lockOf[u] = NoLock
  PROVE  /\ FreshLock \in Locks
         /\ \A v \in Updates : lockOf[v] # FreshLock
<1> DEFINE unused == Locks \ {lockOf[v] : v \in Updates}
           rest == Updates \ {u}
           f == [l \in Locks |-> CHOOSE v \in rest : lockOf[v] = l]
<1>1. IsFiniteSet(Updates) /\ Cardinality(Updates) \in Nat
  BY DispatchAssumption, FS_CardinalityType
<1>2. IsFiniteSet(rest) /\ Cardinality(rest) = Cardinality(Updates) - 1
  BY <1>1, FS_RemoveElement
<1>3. IsFiniteSet(Locks) /\ Cardinality(Locks) = Cardinality(Updates)
  BY <1>1, FS_Interval DEF Locks
<1>4. unused # {}
  <2> SUFFICES ASSUME unused = {} PROVE FALSE
    OBVIOUS
  <2>1. \A l \in Locks : \E v \in rest : lockOf[v] = l
    <3> TAKE l \in Locks
    <3>1. PICK v \in Updates : lockOf[v] = l
      OBVIOUS
    <3>2. l # NoLock
      BY DispatchAssumption DEF Locks
    <3> QED
      BY <3>1, <3>2
  <2>2. \A l \in Locks : f[l] \in rest /\ lockOf[f[l]] = l
    BY <2>1
  <2>3. f \in [Locks -> rest]
    BY <2>2
  <2> HIDE DEF f
  <2>4. Cardinality(rest) < Cardinality(Locks)
    BY <1>1, <1>2, <1>3
  <2>5. \E x, y \in Locks : x # y /\ f[x] = f[y]
    BY <1>2, <1>3, <2>3, <2>4, FS_PigeonHole
  <2> QED
    BY <2>2, <2>5
<1>5. unused \subseteq Nat
  BY <1>1 DEF Locks
<1>6. \E l \in unused : \A m \in unused : l <= m
  BY <1>4, <1>5, LeastNumber
<1>7. FreshLock \in unused
  BY <1>6 DEF FreshLock
<1> QED
  BY <1>7

\* The invariant holds initially.
LEMMA InitDInv == Init => DInv
<1> SUFFICES ASSUME Init PROVE DInv
  OBVIOUS
<1>0. Inside = {} /\ \A k : Mine(k) = {}
  BY DEF Init, Inside, Mine
<1>1. PlainTypes
  BY DispatchAssumption DEF Init, PlainTypes
<1>2. LocksInv
  BY <1>0, FS_EmptySet DEF Init, LocksInv
<1>3. Queue(<< >>, {})
  BY DEF Queue, IsInjective, ToSet
<1>4. QueuesInv
  <2>1. Arrived = {} /\ (\A l : Waiting(l) = {}) /\ (\A kind : Ready(kind) = {})
    BY DEF Init, Arrived, Waiting, Ready, InLine
  <2> QED
    BY <1>3, <2>1 DEF Init, QueuesInv
<1>5. OrderInv /\ HeadInv /\ OneAtATimeInOrder
  BY DEF Init, OrderInv, HeadInv, OneAtATimeInOrder, Past
<1>6. LaneInv
  <2>1. Busy = {}
    BY DEF Init, Busy
  <2> QED
    BY <2>1, DispatchAssumption, FS_EmptySet DEF Init, LaneInv, IsInjective, ToSet
<1> QED
  BY <1>1, <1>2, <1>4, <1>5, <1>6 DEF DInv

\* The steps of the lane touch no queue of updates.
LaneStep ==
    \/ \E u \in Updates : Submit(u) \/ Deadline(u)
    \/ Work
    \/ \E j \in Jobs : WorkDone(j)

\* The steps of an update leave the lane alone.
UpdateStep(u) == Join(u) \/ Step(u)

\* A step is the lane's or an update's.
LEMMA NextSplit ==
  ASSUME [Next]_vars
  PROVE  LaneStep \/ (\E u \in Updates : UpdateStep(u)) \/ UNCHANGED vars
BY DEF Next, LaneStep, UpdateStep

\* What the lane leaves alone.
LEMMA LaneFrame ==
  ASSUME LaneStep
  PROVE  UNCHANGED <<pc, table, refs, lockOf, line, room, arrived>>
BY DEF LaneStep, Submit, Deadline, Work, WorkDone, locking

\* What a step of an update leaves alone.
LEMMA UpdateFrame ==
  ASSUME NEW u \in Updates, UpdateStep(u)
  PROVE  /\ UNCHANGED lane
         /\ \E p : pc' = [pc EXCEPT ![u] = p]
BY DEF UpdateStep, Step, Join, LineUp, Acquire, Run, Finish, Release, Leave, locking

\* A job put into the pool.
LEMMA JobPooled ==
  ASSUME NEW j \in Jobs, pool \in Seq(Jobs), IsInjective(pool), j \notin ToSet(pool),
         pool' = Append(pool, j)
  PROVE  /\ pool' \in Seq(Jobs) /\ IsInjective(pool')
         /\ \A x : x \in ToSet(pool') <=> x \in ToSet(pool) \/ x = j
<1> DEFINE t == pool'
<1>1. t = Append(pool, j)
  OBVIOUS
<1> HIDE DEF t
<1>2. t \in Seq(Jobs)
  BY <1>1, AppendProperties
<1>3. IsInjective(t)
  BY <1>1, RowAppended
<1>4. \A x : x \in ToSet(t) <=> x \in ToSet(pool) \/ x = j
  BY <1>1, RowAppended DEF ToSet
<1> QED
  BY <1>2, <1>3, <1>4 DEF t

\* The pool holds the jobs no thread has taken, and every job that is not over has a slot.
LEMMA LaneInvStep ==
  ASSUME DInv, [Next]_vars
  PROVE  LaneInv'
<1> USE DEF DInv, LaneInv
<1>0. IsFiniteSet(Busy) /\ Cardinality(Busy) \in Nat /\ Capacity \in Nat
  BY DispatchAssumption, FS_Subset, FS_CardinalityType DEF Busy
<1>1. ASSUME NEW u \in Updates, Submit(u) PROVE LaneInv'
  <2>1. CASE taken < Capacity
    <3>1. PICK j \in Jobs : /\ job[j] = "free" /\ job' = [job EXCEPT ![j] = "pooled"]
                            /\ pool' = Append(pool, j) /\ taken' = taken + 1
                            /\ awaits' = [awaits EXCEPT ![u] = j]
                            /\ timed' \in {timed, timed \union {u}}
      BY <1>1, <2>1 DEF Submit
    <3>2. j \notin ToSet(pool)
      BY <3>1
    <3>3. /\ pool' \in Seq(Jobs) /\ IsInjective(pool')
          /\ \A x : x \in ToSet(pool') <=> x \in ToSet(pool) \/ x = j
      <4>1. j \in Jobs /\ pool \in Seq(Jobs) /\ IsInjective(pool) /\ pool' = Append(pool, j)
        BY <3>1
      <4> QED
        BY <3>2, <4>1, JobPooled
    <3>4. Busy' = Busy \union {j} /\ j \notin Busy
      BY <3>1 DEF Busy
    <3>5. Cardinality(Busy') = Cardinality(Busy) + 1
      BY <1>0, <3>4, FS_AddElement
    <3>6. \A x \in ToSet(pool') : job'[x] = "pooled"
      BY <3>1, <3>3
    <3>7. timed' \subseteq {v \in Updates : awaits'[v] # NoJob}
      BY <3>1, DispatchAssumption
    <3> QED
      BY <1>0, <2>1, <3>1, <3>3, <3>5, <3>6, <3>7
  <2>2. CASE ~(taken < Capacity)
    BY <1>1, <2>2 DEF Submit, Busy
  <2> QED
    BY <2>1, <2>2
<1>2. CASE Work
  <2> DEFINE j == Head(pool)
  <2>1. /\ j \in Jobs /\ j \in ToSet(pool)
        /\ Tail(pool) \in Seq(Jobs) /\ Len(Tail(pool)) = Len(pool) - 1 /\ Len(pool) \in Nat
        /\ DOMAIN pool = 1..Len(pool)
        /\ \A i \in 1..Len(Tail(pool)) : Tail(pool)[i] = pool[i + 1]
        /\ DOMAIN Tail(pool) = 1..Len(Tail(pool))
        /\ pool[1] = j /\ Len(pool) # 0
    <3>1. pool # << >>
      BY <1>2 DEF Work
    <3>2. Len(pool) # 0 /\ Len(pool) \in Nat /\ DOMAIN pool = 1..Len(pool)
      BY <3>1, LenProperties, EmptySeq
    <3>3. pool[1] = j
      OBVIOUS
    <3>4. j \in ToSet(pool)
      BY <3>2, <3>3 DEF ToSet
    <3> QED
      BY <3>1, <3>2, <3>3, <3>4, HeadTailProperties, LenProperties
  <2>2. job' = [job EXCEPT ![j] = "running"] /\ pool' = Tail(pool) /\ UNCHANGED <<taken, awaits, timed>>
    BY <1>2 DEF Work
  <2> HIDE DEF j
  <2>3. Busy' = Busy
    BY <2>1, <2>2 DEF Busy
  <2>4. IsInjective(pool')
    BY <2>1, <2>2 DEF IsInjective
  <2>5. \A x \in ToSet(pool') : x \in ToSet(pool) /\ x # j
    BY <2>1, <2>2 DEF IsInjective, ToSet
  <2>6. \A x \in ToSet(pool') : job'[x] = "pooled"
    BY <2>2, <2>5
  <2> QED
    BY <2>1, <2>2, <2>3, <2>4, <2>6
<1>3. ASSUME NEW j \in Jobs, WorkDone(j) PROVE LaneInv'
  <2>1. Busy' = Busy \ {j} /\ j \in Busy
    BY <1>3 DEF WorkDone, Busy
  <2>2. Cardinality(Busy') = Cardinality(Busy) - 1
    BY <1>0, <2>1, FS_RemoveElement
  <2>3. j \notin ToSet(pool)
    BY <1>3 DEF WorkDone
  <2>4. /\ awaits' \in [Updates -> Jobs \union {NoJob}]
        /\ timed' \subseteq {v \in Updates : awaits'[v] # NoJob}
    BY <1>3 DEF WorkDone
  <2> QED
    BY <1>0, <1>3, <2>2, <2>3, <2>4 DEF WorkDone
<1>4. ASSUME NEW u \in Updates, Deadline(u) PROVE LaneInv'
  <2> DEFINE j == awaits[u]
  <2>1. /\ j \in Jobs /\ awaits' \in [Updates -> Jobs \union {NoJob}]
        /\ timed' \subseteq {v \in Updates : awaits'[v] # NoJob}
    BY <1>4 DEF Deadline
  <2>2. CASE job[j] = "pooled"
    <3>1. /\ job' = [job EXCEPT ![j] = "free"]
          /\ pool' = RemoveFirst(pool, j) /\ taken' = taken - 1
      BY <1>4, <2>2 DEF Deadline
    <3> HIDE DEF j
    <3>2. pool' \in Seq(Jobs) /\ IsInjective(pool') /\ ToSet(pool') = ToSet(pool) \ {j}
      BY <3>1, RowRemoved
    <3>3. Busy' = Busy \ {j} /\ j \in Busy
      BY <2>1, <2>2, <3>1 DEF Busy
    <3>4. Cardinality(Busy') = Cardinality(Busy) - 1
      BY <1>0, <3>3, FS_RemoveElement
    <3>5. \A x \in ToSet(pool') : job'[x] = "pooled"
      BY <3>1, <3>2
    <3> QED
      BY <1>0, <2>1, <3>1, <3>2, <3>4, <3>5
  <2>3. CASE job[j] # "pooled"
    BY <1>4, <2>1, <2>3 DEF Deadline, Busy
  <2> QED
    BY <2>2, <2>3
<1>5. ASSUME NEW u \in Updates, UpdateStep(u) PROVE LaneInv'
  BY <1>5, UpdateFrame DEF lane, Busy
<1>6. CASE UNCHANGED vars
  BY <1>6 DEF vars, Busy
<1> QED
  BY <1>1, <1>2, <1>3, <1>4, <1>5, <1>6, NextSplit DEF LaneStep

\* Whoever is inside holds a lock; nobody else does.
LEMMA Holders ==
  ASSUME PlainTypes, LocksInv, NEW u \in Updates
  PROVE  /\ u \in Inside => lockOf[u] \in Locks /\ lockOf[u] = table[UserOf[u]]
         /\ u \notin Inside => lockOf[u] = NoLock
<1>1. CASE u \in Inside
  <2>1. u \in Mine(UserOf[u]) /\ UserOf[u] \in Users
    BY <1>1, DispatchAssumption DEF Mine
  <2>2. table[UserOf[u]] # NoLock /\ lockOf[u] = table[UserOf[u]]
    BY <2>1 DEF LocksInv
  <2>3. table[UserOf[u]] \in Locks \union {NoLock}
    BY <2>1 DEF PlainTypes
  <2> QED
    BY <1>1, <2>2, <2>3
<1>2. CASE u \notin Inside
  BY <1>2 DEF LocksInv
<1> QED
  BY <1>1, <1>2

\* Where an update is before and after each of its steps.
LEMMA Moves ==
  ASSUME PlainTypes, NEW u \in Updates, UpdateStep(u)
  PROVE  /\ \/ Join(u) /\ pc[u] = "new" /\ pc'[u] = "joined"
            \/ LineUp(u) /\ pc[u] = "joined" /\ pc'[u] = "queued"
            \/ Acquire(u) /\ pc[u] = "queued" /\ pc'[u] = "ready"
            \/ Run(u) /\ pc[u] = "ready" /\ pc'[u] = "running"
            \/ Finish(u) /\ pc[u] = "running" /\ pc'[u] = "finished"
            \/ Release(u) /\ pc[u] = "finished" /\ pc'[u] = "leaving"
            \/ Leave(u) /\ pc[u] = "leaving" /\ pc'[u] = "done"
         /\ \A v \in Updates : v # u => pc'[v] = pc[v]
<1>1. Join(u) => pc[u] = "new" /\ pc' = [pc EXCEPT ![u] = "joined"]
  BY DEF Join
<1>2. LineUp(u) => pc[u] = "joined" /\ pc' = [pc EXCEPT ![u] = "queued"]
  BY DEF LineUp
<1>3. Acquire(u) => pc[u] = "queued" /\ pc' = [pc EXCEPT ![u] = "ready"]
  BY DEF Acquire
<1>4. Run(u) => pc[u] = "ready" /\ pc' = [pc EXCEPT ![u] = "running"]
  BY DEF Run
<1>5. Finish(u) => pc[u] = "running" /\ pc' = [pc EXCEPT ![u] = "finished"]
  BY DEF Finish
<1>6. Release(u) => pc[u] = "finished" /\ pc' = [pc EXCEPT ![u] = "leaving"]
  BY DEF Release
<1>7. Leave(u) => pc[u] = "leaving" /\ pc' = [pc EXCEPT ![u] = "done"]
  BY DEF Leave
<1>8. \E p : pc' = [pc EXCEPT ![u] = p]
  BY UpdateFrame
<1> QED
  BY <1>1, <1>2, <1>3, <1>4, <1>5, <1>6, <1>7, <1>8 DEF UpdateStep, Step, PlainTypes

\* A join and a leave change who is inside; no other step does.
LEMMA InsideStep ==
  ASSUME PlainTypes, NEW u \in Updates, UpdateStep(u), NEW k
  PROVE  /\ Join(u) => /\ Inside' = Inside \union {u} /\ u \notin Inside
                       /\ Mine(k)' = IF k = UserOf[u] THEN Mine(k) \union {u} ELSE Mine(k)
         /\ Leave(u) => /\ Inside' = Inside \ {u} /\ u \in Inside
                        /\ Mine(k)' = IF k = UserOf[u] THEN Mine(k) \ {u} ELSE Mine(k)
         /\ ~Join(u) /\ ~Leave(u) => /\ Inside' = Inside /\ Mine(k)' = Mine(k)
                                     /\ UNCHANGED <<table, refs, lockOf>>
<1>1. CASE Join(u)
  <2>1. ~Leave(u) /\ Inside' = Inside \union {u} /\ u \notin Inside
    BY <1>1, Moves DEF Join, Leave, Inside
  <2> QED
    BY <1>1, <2>1 DEF Mine
<1>2. CASE Leave(u)
  <2>1. ~Join(u) /\ Inside' = Inside \ {u} /\ u \in Inside
    BY <1>2, Moves DEF Join, Leave, Inside
  <2> QED
    BY <1>2, <2>1 DEF Mine
<1>3. CASE ~Join(u) /\ ~Leave(u)
  <2>1. Inside' = Inside
    BY <1>3, Moves DEF Inside
  <2>2. UNCHANGED <<table, refs, lockOf>>
    BY <1>3 DEF UpdateStep, Step, LineUp, Acquire, Run, Finish, Release, locking
  <2> QED
    BY <1>3, <2>1, <2>2 DEF Mine
<1> QED
  BY <1>1, <1>2, <1>3

\* Nobody is counted twice, and the sets that are counted are finite.
LEMMA MineFinite ==
  ASSUME NEW k
  PROVE  /\ IsFiniteSet(Mine(k)) /\ Cardinality(Mine(k)) \in Nat
         /\ Cardinality(Mine(k)) <= Cardinality(Updates)
         /\ Cardinality(Mine(k)) = 0 <=> Mine(k) = {}
<1>1. Mine(k) \subseteq Updates /\ IsFiniteSet(Updates)
  BY DispatchAssumption DEF Mine, Inside
<1> QED
  BY <1>1, FS_Subset, FS_CardinalityType, FS_EmptySet

\* The dictionary and its counts follow who is inside.
LEMMA LocksInvStep ==
  ASSUME PlainTypes, LocksInv, NEW u \in Updates, UpdateStep(u)
  PROVE  LocksInv'
<1> DEFINE k == UserOf[u]
<1>0. k \in Users
  BY DispatchAssumption
<1>1. CASE Join(u)
  <2> DEFINE l == IF table[k] = NoLock THEN FreshLock ELSE table[k]
  <2>1. lockOf[u] = NoLock /\ u \notin Inside
    BY <1>1, InsideStep, Holders
  <2>2. FreshLock \in Locks
    BY <2>1, FreshIsUnused
  <2>3. l \in Locks /\ l # NoLock
    BY <1>0, <2>2, DispatchAssumption DEF PlainTypes, Locks
  <2>4. table' = [table EXCEPT ![k] = l] /\ refs' = [refs EXCEPT ![k] = @ + 1]
        /\ lockOf' = [lockOf EXCEPT ![u] = l]
    BY <1>1 DEF Join
  <2>5. table[k] = NoLock \/ l = table[k]
    OBVIOUS
  <2> HIDE DEF l
  <2>6. Mine(k)' = Mine(k) \union {u} /\ u \notin Mine(k)
    BY <1>1, <2>1, InsideStep DEF Mine
  <2>7. \A m \in Users : m # k => Mine(m)' = Mine(m) /\ u \notin Mine(m)
    BY <1>1, <2>1, InsideStep DEF Mine
  <2>8. refs'[k] = Cardinality(Mine(k)')
    <3>1. Cardinality(Mine(k)') = Cardinality(Mine(k)) + 1
      BY <2>6, MineFinite, FS_AddElement
    <3> QED
      BY <1>0, <2>4, <3>1 DEF LocksInv, PlainTypes
  <2>9. \A v \in Mine(k)' : lockOf'[v] = table'[k]
    <3> TAKE v \in Mine(k)'
    <3>1. CASE v = u
      BY <1>0, <2>4, <3>1 DEF PlainTypes
    <3>2. CASE v # u
      <4>1. v \in Mine(k) /\ v \in Updates
        BY <2>6, <3>2 DEF Mine, Inside
      <4>2. lockOf[v] = table[k] /\ table[k] # NoLock
        BY <1>0, <4>1 DEF LocksInv
      <4> QED
        BY <1>0, <2>4, <2>5, <3>2, <4>1, <4>2 DEF PlainTypes
    <3> QED
      BY <3>1, <3>2
  <2>10. ASSUME NEW m \in Users, m # k
         PROVE  /\ refs'[m] = Cardinality(Mine(m)')
                /\ table'[m] = NoLock <=> Mine(m)' = {}
                /\ \A v \in Mine(m)' : lockOf'[v] = table'[m]
    <3>1. refs'[m] = refs[m] /\ table'[m] = table[m] /\ Mine(m)' = Mine(m)
      BY <2>4, <2>7, <2>10 DEF PlainTypes
    <3>2. \A v \in Mine(m) : v \in Updates /\ v # u
      BY <2>7, <2>10 DEF Mine, Inside
    <3>3. \A v \in Mine(m) : lockOf'[v] = lockOf[v]
      BY <2>4, <3>2 DEF PlainTypes
    <3> QED
      BY <3>1, <3>3 DEF LocksInv
  <2>11. \A v \in Updates \ Inside' : lockOf'[v] = NoLock
    <3>1. Inside' = Inside \union {u}
      BY <1>1, InsideStep
    <3> QED
      BY <2>4, <3>1 DEF LocksInv, PlainTypes
  <2>12. table'[k] # NoLock /\ Mine(k)' # {}
    BY <1>0, <2>3, <2>4, <2>6 DEF PlainTypes
  <2> HIDE DEF k
  <2> QED
    BY <2>8, <2>9, <2>10, <2>11, <2>12 DEF LocksInv
<1>2. CASE Leave(u)
  <2>1. u \in Mine(k) /\ Inside' = Inside \ {u}
    BY <1>2, InsideStep DEF Mine
  <2>2. Mine(k)' = Mine(k) \ {u}
    BY <1>2, InsideStep
  <2>3. \A m \in Users : m # k => Mine(m)' = Mine(m) /\ u \notin Mine(m)
    BY <1>2, InsideStep DEF Mine
  <2>4. /\ refs[k] = Cardinality(Mine(k)) /\ table[k] = lockOf[u] /\ table[k] # NoLock
        /\ refs[k] > 0
    BY <1>0, <2>1, MineFinite DEF LocksInv
  <2>5. /\ refs' = [refs EXCEPT ![k] = refs[k] - 1]
        /\ table' = [table EXCEPT ![k] = IF refs'[k] = 0 THEN NoLock ELSE table[k]]
        /\ lockOf' = [lockOf EXCEPT ![u] = NoLock]
    BY <1>0, <1>2, <2>4 DEF Leave, PlainTypes
  <2>6. refs'[k] = Cardinality(Mine(k)')
    <3>1. Cardinality(Mine(k)') = Cardinality(Mine(k)) - 1
      BY <2>1, <2>2, MineFinite, FS_RemoveElement
    <3> QED
      BY <1>0, <2>4, <2>5, <3>1 DEF PlainTypes
  <2>7. table'[k] = NoLock <=> Mine(k)' = {}
    <3>1. Cardinality(Mine(k)') = 0 <=> Mine(k)' = {}
      BY <2>2, MineFinite, FS_RemoveElement, FS_EmptySet
    <3> QED
      BY <1>0, <2>4, <2>5, <2>6, <3>1 DEF PlainTypes
  <2>8. \A v \in Mine(k)' : lockOf'[v] = table'[k]
    <3>1. \A v \in Mine(k)' : v \in Mine(k) /\ v # u /\ v \in Updates
      BY <2>2 DEF Mine, Inside
    <3>2. Mine(k)' # {} => table'[k] = table[k]
      BY <1>0, <2>5, <2>7 DEF PlainTypes
    <3> QED
      BY <1>0, <2>5, <3>1, <3>2 DEF LocksInv, PlainTypes
  <2>9. ASSUME NEW m \in Users, m # k
        PROVE  /\ refs'[m] = Cardinality(Mine(m)')
               /\ table'[m] = NoLock <=> Mine(m)' = {}
               /\ \A v \in Mine(m)' : lockOf'[v] = table'[m]
    <3>1. refs'[m] = refs[m] /\ table'[m] = table[m] /\ Mine(m)' = Mine(m)
      BY <2>3, <2>5, <2>9 DEF PlainTypes
    <3>2. \A v \in Mine(m) : v \in Updates /\ v # u
      BY <2>3, <2>9 DEF Mine, Inside
    <3>3. \A v \in Mine(m) : lockOf'[v] = lockOf[v]
      BY <2>5, <3>2 DEF PlainTypes
    <3> QED
      BY <3>1, <3>3 DEF LocksInv
  <2>10. \A v \in Updates \ Inside' : lockOf'[v] = NoLock
    BY <2>1, <2>5 DEF LocksInv, PlainTypes
  <2> HIDE DEF k
  <2> QED
    BY <2>6, <2>7, <2>8, <2>9, <2>10 DEF LocksInv
<1>3. CASE ~Join(u) /\ ~Leave(u)
  BY <1>3, InsideStep DEF LocksInv
<1> QED
  BY <1>1, <1>2, <1>3

\* Which queue a step changes, and how.
LEMMA QueueSteps ==
  ASSUME PlainTypes, LocksInv, NEW u \in Updates, UpdateStep(u)
  PROVE  /\ LineUp(u) =>
                /\ lockOf[u] \in Locks /\ u \notin Waiting(lockOf[u]) /\ u \notin Arrived
                /\ line' = [line EXCEPT ![lockOf[u]] = Append(line[lockOf[u]], u)]
                /\ arrived' = Append(arrived, u)
                /\ \A l : Waiting(l)' = IF l = lockOf[u] THEN Waiting(l) \union {u} ELSE Waiting(l)
                /\ Arrived' = Arrived \union {u}
         /\ Release(u) =>
                /\ lockOf[u] \in Locks /\ u \in Waiting(lockOf[u])
                /\ line' = [line EXCEPT ![lockOf[u]] = Tail(line[lockOf[u]])]
                /\ arrived' = arrived
                /\ \A l : Waiting(l)' = IF l = lockOf[u] THEN Waiting(l) \ {u} ELSE Waiting(l)
                /\ Arrived' = Arrived
         /\ ~LineUp(u) /\ ~Release(u) =>
                /\ UNCHANGED <<line, arrived>>
                /\ \A l \in Locks : Waiting(l)' = Waiting(l)
                /\ Arrived' = Arrived
<1>1. CASE LineUp(u)
  <2>1. ~Release(u) /\ pc[u] = "joined" /\ pc'[u] = "queued" /\ lockOf' = lockOf
    BY <1>1, Moves DEF LineUp, Release
  <2>2. lockOf[u] \in Locks
    BY <2>1, Holders DEF Inside
  <2>3. u \notin Waiting(lockOf[u]) /\ u \notin Arrived
    BY <2>1 DEF Waiting, Arrived, InLine
  <2>4. \A l : Waiting(l)' = IF l = lockOf[u] THEN Waiting(l) \union {u} ELSE Waiting(l)
    BY <2>1, Moves DEF Waiting, InLine
  <2>5. Arrived' = Arrived \union {u}
    BY <2>1, Moves DEF Arrived
  <2> QED
    BY <1>1, <2>1, <2>2, <2>3, <2>4, <2>5 DEF LineUp
<1>2. CASE Release(u)
  <2>1. ~LineUp(u) /\ pc[u] = "finished" /\ pc'[u] = "leaving" /\ lockOf' = lockOf
    BY <1>2, Moves DEF LineUp, Release
  <2>2. lockOf[u] \in Locks
    BY <2>1, Holders DEF Inside
  <2>3. u \in Waiting(lockOf[u])
    BY <2>1 DEF Waiting, InLine
  <2>4. \A l : Waiting(l)' = IF l = lockOf[u] THEN Waiting(l) \ {u} ELSE Waiting(l)
    BY <2>1, Moves DEF Waiting, InLine
  <2>5. Arrived' = Arrived
    BY <2>1, Moves DEF Arrived
  <2> QED
    BY <1>2, <2>1, <2>2, <2>3, <2>4, <2>5 DEF Release
<1>3. CASE ~LineUp(u) /\ ~Release(u)
  <2>1. UNCHANGED <<line, arrived>>
    BY <1>3 DEF UpdateStep, Step, Join, Acquire, Run, Finish, Leave, locking
  <2>2. Arrived' = Arrived
    BY <1>3, Moves DEF Arrived
  <2>3. pc'[u] \in InLine <=> pc[u] \in InLine
    BY <1>3, Moves DEF InLine
  <2>4. pc[u] \in InLine => lockOf' = lockOf
    BY <1>3, Moves, InsideStep DEF InLine, Join, Leave
  <2>5. \A v \in Updates : v # u => lockOf'[v] = lockOf[v]
    <3>1. CASE Join(u)
      BY <3>1 DEF Join, PlainTypes
    <3>2. CASE Leave(u)
      BY <3>2 DEF Leave, PlainTypes
    <3> QED
      BY <1>3, <3>1, <3>2, InsideStep
  <2>6. \A l \in Locks : Waiting(l)' = Waiting(l)
    BY <2>3, <2>4, <2>5, Moves DEF Waiting
  <2> QED
    BY <1>3, <2>1, <2>2, <2>6
<1> QED
  BY <1>1, <1>2, <1>3

\* Who wants an execution slot, and who has got one.
LEMMA RoomSteps ==
  ASSUME PlainTypes, NEW u \in Updates, UpdateStep(u)
  PROVE  /\ Acquire(u) =>
                /\ room' = [room EXCEPT ![KindOf(u)] = Append(room[KindOf(u)], u)]
                /\ u \notin Ready(KindOf(u))
                /\ \A kind : Ready(kind)' =
                       IF kind = KindOf(u) THEN Ready(kind) \union {u} ELSE Ready(kind)
         /\ Run(u) =>
                /\ room' = [room EXCEPT ![KindOf(u)] = Tail(room[KindOf(u)])]
                /\ u \in Ready(KindOf(u)) /\ Head(room[KindOf(u)]) = u
                /\ \A kind : Ready(kind)' =
                       IF kind = KindOf(u) THEN Ready(kind) \ {u} ELSE Ready(kind)
         /\ ~Acquire(u) /\ ~Run(u) =>
                /\ room' = room
                /\ \A kind : Ready(kind)' = Ready(kind)
         /\ KindOf(u) \in Kinds
<1>0. KindOf(u) \in Kinds
  BY DEF KindOf, Kinds
<1>1. CASE Acquire(u)
  <2>1. ~Run(u) /\ pc[u] = "queued" /\ pc'[u] = "ready"
    BY <1>1, Moves DEF Acquire, Run
  <2>2. \A kind : Ready(kind)' = IF kind = KindOf(u) THEN Ready(kind) \union {u} ELSE Ready(kind)
    BY <2>1, Moves DEF Ready, KindOf
  <2> QED
    BY <1>0, <1>1, <2>1, <2>2 DEF Acquire, Ready
<1>2. CASE Run(u)
  <2>1. ~Acquire(u) /\ pc[u] = "ready" /\ pc'[u] = "running"
    BY <1>2, Moves DEF Acquire, Run
  <2>2. \A kind : Ready(kind)' = IF kind = KindOf(u) THEN Ready(kind) \ {u} ELSE Ready(kind)
    BY <2>1, Moves DEF Ready, KindOf
  <2> QED
    BY <1>0, <1>2, <2>1, <2>2 DEF Run, Ready
<1>3. CASE ~Acquire(u) /\ ~Run(u)
  <2>1. room' = room
    BY <1>3 DEF UpdateStep, Step, Join, LineUp, Finish, Release, Leave
  <2>2. \A kind : Ready(kind)' = Ready(kind)
    BY <1>3, Moves DEF Ready, KindOf
  <2> QED
    BY <1>0, <1>3, <2>1, <2>2
<1> QED
  BY <1>1, <1>2, <1>3

\* Every queue holds whom the program counters say, once each.
LEMMA QueuesInvStep ==
  ASSUME PlainTypes, LocksInv, QueuesInv, HeadInv, NEW u \in Updates, UpdateStep(u)
  PROVE  QueuesInv'
<1>1. \A l \in Locks : Queue(line'[l], Waiting(l)')
  <2> TAKE l \in Locks
  <2>1. Queue(line[l], Waiting(l))
    BY DEF QueuesInv
  <2>2. CASE LineUp(u) /\ l = lockOf[u]
    <3>1. /\ u \notin Waiting(l) /\ line'[l] = Append(line[l], u)
          /\ Waiting(l)' = Waiting(l) \union {u}
      BY <2>2, QueueSteps DEF PlainTypes
    <3> QED
      BY <2>1, <3>1, QueueJoin
  <2>3. CASE Release(u) /\ l = lockOf[u]
    <3>1. /\ u \in Waiting(l) /\ line'[l] = Tail(line[l])
          /\ Waiting(l)' = Waiting(l) \ {u}
      BY <2>3, QueueSteps DEF PlainTypes
    <3>2. Head(line[l]) = u
      BY <2>3, Moves DEF HeadInv, Past, Release
    <3> QED
      BY <2>1, <3>1, <3>2, QueueLeave
  <2>4. CASE ~(LineUp(u) /\ l = lockOf[u]) /\ ~(Release(u) /\ l = lockOf[u])
    <3>1. line'[l] = line[l] /\ Waiting(l)' = Waiting(l)
      BY <2>4, QueueSteps DEF PlainTypes
    <3> QED
      BY <2>1, <3>1
  <2> QED
    BY <2>2, <2>3, <2>4
<1>2. \A kind \in Kinds : Queue(room'[kind], Ready(kind)')
  <2> TAKE kind \in Kinds
  <2>1. Queue(room[kind], Ready(kind))
    BY DEF QueuesInv
  <2>2. CASE Acquire(u) /\ kind = KindOf(u)
    <3>1. /\ u \notin Ready(kind) /\ room'[kind] = Append(room[kind], u)
          /\ Ready(kind)' = Ready(kind) \union {u}
      BY <2>2, RoomSteps DEF PlainTypes
    <3> QED
      BY <2>1, <3>1, QueueJoin
  <2>3. CASE Run(u) /\ kind = KindOf(u)
    <3>1. /\ u \in Ready(kind) /\ room'[kind] = Tail(room[kind]) /\ Head(room[kind]) = u
          /\ Ready(kind)' = Ready(kind) \ {u}
      BY <2>3, RoomSteps DEF PlainTypes
    <3> QED
      BY <2>1, <3>1, QueueLeave
  <2>4. CASE ~(Acquire(u) /\ kind = KindOf(u)) /\ ~(Run(u) /\ kind = KindOf(u))
    <3>1. room'[kind] = room[kind] /\ Ready(kind)' = Ready(kind)
      BY <2>4, RoomSteps DEF PlainTypes
    <3> QED
      BY <2>1, <3>1
  <2> QED
    BY <2>2, <2>3, <2>4
<1>3. Queue(arrived', Arrived')
  <2>1. Queue(arrived, Arrived)
    BY DEF QueuesInv
  <2>2. CASE LineUp(u)
    <3>1. u \notin Arrived /\ arrived' = Append(arrived, u) /\ Arrived' = Arrived \union {u}
      BY <2>2, QueueSteps
    <3> QED
      BY <2>1, <3>1, QueueJoin
  <2>3. CASE ~LineUp(u)
    <3>1. arrived' = arrived /\ Arrived' = Arrived
      BY <2>3, QueueSteps
    <3> QED
      BY <2>1, <3>1
  <2> QED
    BY <2>2, <2>3
<1> QED
  BY <1>1, <1>2, <1>3 DEF QueuesInv, Queue

\* Every step keeps the types.
LEMMA PlainTypesStep ==
  ASSUME PlainTypes, LocksInv, NEW u \in Updates, UpdateStep(u), LocksInv', QueuesInv'
  PROVE  PlainTypes'
<1>1. pc' \in [Updates -> {"new", "joined", "queued", "ready", "running", "finished",
                           "leaving", "done"}]
  BY DEF PlainTypes, UpdateStep, Step, Join, LineUp, Acquire, Run, Finish, Release, Leave
<1>2. table' \in [Users -> Locks \union {NoLock}] /\ lockOf' \in [Updates -> Locks \union {NoLock}]
  <2>1. CASE Join(u)
    <3>1. FreshLock \in Locks
      BY <2>1, InsideStep, Holders, FreshIsUnused
    <3> QED
      BY <2>1, <3>1, DispatchAssumption DEF Join, PlainTypes
  <2>2. CASE Leave(u)
    BY <2>2 DEF Leave, PlainTypes
  <2>3. CASE ~Join(u) /\ ~Leave(u)
    BY <2>3, InsideStep DEF PlainTypes
  <2> QED
    BY <2>1, <2>2, <2>3
<1>3. refs' \in [Users -> Nat]
  <2>0. UserOf[u] \in Users /\ refs[UserOf[u]] \in Nat
    BY DispatchAssumption DEF PlainTypes
  <2>1. CASE Join(u)
    <3>1. refs' = [refs EXCEPT ![UserOf[u]] = refs[UserOf[u]] + 1]
      BY <2>1 DEF Join
    <3> QED
      BY <2>0, <3>1 DEF PlainTypes
  <2>2. CASE Leave(u)
    <3>1. refs' = [refs EXCEPT ![UserOf[u]] = IF refs[UserOf[u]] > 0 THEN refs[UserOf[u]] - 1 ELSE 0]
      BY <2>2 DEF Leave
    <3> QED
      BY <2>0, <3>1 DEF PlainTypes
  <2>3. CASE ~Join(u) /\ ~Leave(u)
    BY <2>3, InsideStep DEF PlainTypes
  <2> QED
    BY <2>1, <2>2, <2>3
<1>4. line' \in [Locks -> Seq(Updates)] /\ room' \in [Kinds -> Seq(Updates)]
  <2>1. DOMAIN line' = Locks /\ DOMAIN room' = Kinds
    BY QueueSteps, RoomSteps DEF PlainTypes
  <2>2. line' = [l \in DOMAIN line' |-> line'[l]] /\ room' = [kind \in DOMAIN room' |-> room'[kind]]
    BY QueueSteps, RoomSteps DEF PlainTypes
  <2> QED
    BY <2>1, <2>2 DEF QueuesInv, Queue
<1>5. calls' = calls
  BY UpdateFrame DEF lane
<1> QED
  BY <1>1, <1>2, <1>3, <1>4, <1>5 DEF PlainTypes

\* A lock's line keeps the order of arrival.
LEMMA OrderInvStep ==
  ASSUME PlainTypes, LocksInv, QueuesInv, HeadInv, OrderInv, NEW u \in Updates, UpdateStep(u)
  PROVE  OrderInv'
<1> SUFFICES ASSUME NEW l \in Locks, NEW i \in DOMAIN line'[l], NEW k \in DOMAIN line'[l], i < k
             PROVE  \E a, b \in DOMAIN arrived' :
                        a < b /\ arrived'[a] = line'[l][i] /\ arrived'[b] = line'[l][k]
  BY DEF OrderInv
<1>1. Queue(line[l], Waiting(l)) /\ Queue(arrived, Arrived)
  BY DEF QueuesInv
<1>2. \A m, n \in DOMAIN line[l] :
          m < n => \E a, b \in DOMAIN arrived :
                       a < b /\ arrived[a] = line[l][m] /\ arrived[b] = line[l][n]
  BY DEF OrderInv
<1>3. CASE LineUp(u)
  <2>1. /\ u \notin Arrived /\ u \notin Waiting(lockOf[u])
        /\ arrived' = Append(arrived, u)
        /\ line'[l] = IF l = lockOf[u] THEN Append(line[l], u) ELSE line[l]
    BY <1>3, QueueSteps DEF PlainTypes
  <2>2. /\ Len(arrived) \in Nat /\ DOMAIN arrived = 1..Len(arrived)
        /\ DOMAIN arrived' = 1..(Len(arrived) + 1)
        /\ \A a \in DOMAIN arrived : arrived'[a] = arrived[a]
        /\ arrived'[Len(arrived) + 1] = u
    BY <1>1, <2>1, QueueJoin
  <2>3. ASSUME NEW m \in DOMAIN line[l], NEW n \in DOMAIN line[l], m < n,
               line[l][m] = line'[l][i], line[l][n] = line'[l][k]
        PROVE  \E a, b \in DOMAIN arrived' :
                   a < b /\ arrived'[a] = line'[l][i] /\ arrived'[b] = line'[l][k]
    <3>1. PICK a \in DOMAIN arrived, b \in DOMAIN arrived :
              a < b /\ arrived[a] = line[l][m] /\ arrived[b] = line[l][n]
      BY <1>2, <2>3
    <3>2. a \in DOMAIN arrived' /\ b \in DOMAIN arrived'
      BY <2>2
    <3> QED
      BY <2>2, <2>3, <3>1, <3>2
  <2>4. CASE l # lockOf[u]
    BY <2>1, <2>3, <2>4
  <2>5. CASE l = lockOf[u]
    <3>1. /\ Len(line[l]) \in Nat /\ DOMAIN line[l] = 1..Len(line[l])
          /\ DOMAIN line'[l] = 1..(Len(line[l]) + 1)
          /\ \A m \in DOMAIN line[l] : line'[l][m] = line[l][m]
          /\ line'[l][Len(line[l]) + 1] = u
      BY <1>1, <2>1, <2>5, QueueJoin
    <3>2. CASE k \in DOMAIN line[l]
      <4>1. i \in DOMAIN line[l]
        BY <3>1, <3>2
      <4> QED
        BY <2>3, <3>1, <3>2, <4>1
    <3>3. CASE k = Len(line[l]) + 1
      <4>1. i \in DOMAIN line[l]
        BY <3>1, <3>3
      <4>2. line[l][i] \in Arrived
        <5>1. line[l][i] \in Waiting(l)
          BY <1>1, <4>1, QueueMember
        <5> QED
          BY <5>1 DEF Waiting, Arrived, InLine
      <4>3. PICK a \in DOMAIN arrived : arrived[a] = line[l][i]
        BY <1>1, <4>2, QueueMember
      <4>4. a \in DOMAIN arrived' /\ Len(arrived) + 1 \in DOMAIN arrived' /\ a < Len(arrived) + 1
        BY <2>2
      <4> QED
        BY <2>2, <3>1, <3>3, <4>1, <4>3, <4>4
    <3> QED
      BY <3>1, <3>2, <3>3
  <2> QED
    BY <2>4, <2>5
<1>4. CASE Release(u)
  <2>1. /\ arrived' = arrived
        /\ line'[l] = IF l = lockOf[u] THEN Tail(line[l]) ELSE line[l]
        /\ u \in Waiting(lockOf[u])
    <3>1. /\ arrived' = arrived /\ lockOf[u] \in Locks /\ u \in Waiting(lockOf[u])
          /\ line' = [line EXCEPT ![lockOf[u]] = Tail(line[lockOf[u]])]
      BY <1>4, QueueSteps
    <3>2. line'[l] = IF l = lockOf[u] THEN Tail(line[l]) ELSE line[l]
      BY <3>1 DEF PlainTypes
    <3> QED
      BY <3>1, <3>2
  <2>2. CASE l # lockOf[u]
    BY <1>2, <2>1, <2>2
  <2>3. CASE l = lockOf[u]
    <3>1. Head(line[l]) = u
      BY <1>4, <2>3, Moves DEF HeadInv, Past, Release
    <3>2. /\ Len(line[l]) \in Nat /\ DOMAIN line[l] = 1..Len(line[l])
          /\ DOMAIN line'[l] = 1..(Len(line[l]) - 1)
          /\ \A m \in DOMAIN line'[l] : line'[l][m] = line[l][m + 1]
      BY <1>1, <2>1, <2>3, <3>1, QueueLeave
    <3>3. /\ i + 1 \in DOMAIN line[l] /\ k + 1 \in DOMAIN line[l] /\ i + 1 < k + 1
          /\ line'[l][i] = line[l][i + 1] /\ line'[l][k] = line[l][k + 1]
      BY <3>2
    <3> QED
      BY <1>2, <2>1, <3>3
  <2> QED
    BY <2>2, <2>3
<1>5. CASE ~LineUp(u) /\ ~Release(u)
  BY <1>2, <1>5, QueueSteps
<1> QED
  BY <1>3, <1>4, <1>5

\* Who is past the lock stands first in its line.
LEMMA HeadInvStep ==
  ASSUME PlainTypes, LocksInv, QueuesInv, HeadInv, NEW u \in Updates, UpdateStep(u)
  PROVE  HeadInv'
<1> SUFFICES ASSUME NEW v \in Updates, pc'[v] \in Past
             PROVE  Head(line'[lockOf'[v]]) = v
  BY DEF HeadInv
<1>1. lockOf'[v] = lockOf[v]
  <2>1. CASE v = u
    BY <2>1, Moves, InsideStep DEF Past, Join, Leave
  <2>2. CASE v # u
    <3>1. CASE Join(u)
      BY <2>2, <3>1 DEF Join, PlainTypes
    <3>2. CASE Leave(u)
      BY <2>2, <3>2 DEF Leave, PlainTypes
    <3> QED
      BY <3>1, <3>2, InsideStep
  <2> QED
    BY <2>1, <2>2
<1> DEFINE l == lockOf[v]
<1>2. CASE LineUp(u)
  <2>1. v # u /\ pc[v] \in Past
    BY <1>2, Moves DEF Past, LineUp
  <2>2. Head(line[l]) = v /\ v \in Waiting(l) /\ l \in Locks
    BY <2>1, Holders DEF HeadInv, Waiting, Past, InLine, Inside
  <2>3. line'[l] = IF l = lockOf[u] THEN Append(line[l], u) ELSE line[l]
    BY <1>2, <2>2, QueueSteps DEF PlainTypes
  <2>4. Queue(line[l], Waiting(l))
    BY <2>2 DEF QueuesInv
  <2>5. CASE l = lockOf[u]
    <3>1. /\ Len(line[l]) \in Nat /\ DOMAIN line[l] = 1..Len(line[l])
          /\ \A m \in DOMAIN line[l] : line'[l][m] = line[l][m]
      BY <1>2, <2>3, <2>4, <2>5, QueueJoin, QueueSteps
    <3>2. 1 \in DOMAIN line[l]
      BY <2>2, <2>4, <3>1, QueueMember
    <3>3. line'[l][1] = v
      BY <2>2, <3>1, <3>2
    <3> QED
      BY <1>1, <3>3
  <2> QED
    BY <1>1, <2>2, <2>3, <2>5
<1>3. CASE Release(u)
  <2>1. v # u /\ pc[v] \in Past
    BY <1>3, Moves DEF Past, Release
  <2>2. Head(line[l]) = v /\ Head(line[lockOf[u]]) = u /\ l \in Locks
    BY <1>3, <2>1, Moves, Holders DEF HeadInv, Past, Inside, Release
  <2>3. l # lockOf[u]
    BY <2>1, <2>2
  <2>4. line'[l] = line[l]
    BY <1>3, <2>2, <2>3, QueueSteps DEF PlainTypes
  <2> QED
    BY <1>1, <2>2, <2>4
<1>4. CASE Acquire(u)
  <2>1. line' = line /\ Head(line[lockOf[u]]) = u
    BY <1>4 DEF Acquire, locking
  <2>2. v # u => pc[v] \in Past
    BY Moves
  <2> QED
    BY <1>1, <2>1, <2>2 DEF HeadInv
<1>5. CASE ~LineUp(u) /\ ~Release(u) /\ ~Acquire(u)
  <2>1. line' = line
    BY <1>5, QueueSteps
  <2>2. pc[v] \in Past
    BY <1>5, Moves DEF Past
  <2> QED
    BY <1>1, <2>1, <2>2 DEF HeadInv
<1> QED
  BY <1>2, <1>3, <1>4, <1>5

\* Who gets the lock has every earlier update of the same user behind it.
LEMMA FirstInLine ==
  ASSUME PlainTypes, LocksInv, QueuesInv, OrderInv,
         NEW u \in Updates, pc[u] = "queued", Head(line[lockOf[u]]) = u,
         NEW i \in DOMAIN arrived, NEW k \in DOMAIN arrived, i < k, arrived[k] = u,
         UserOf[arrived[i]] = UserOf[u]
  PROVE  pc[arrived[i]] \in {"leaving", "done"}
<1> DEFINE v == arrived[i]
           l == lockOf[u]
<1>1. Queue(arrived, Arrived)
  BY DEF QueuesInv
<1>2. v \in Arrived /\ v \in Updates
  BY <1>1, QueueMember DEF Arrived
<1>3. SUFFICES ASSUME pc[v] \in InLine PROVE FALSE
  BY <1>2 DEF PlainTypes, Arrived, InLine
<1>4. lockOf[v] = l /\ l \in Locks
  BY <1>2, <1>3, Holders DEF Inside, InLine
<1>5. u \in Waiting(l) /\ v \in Waiting(l)
  BY <1>2, <1>3, <1>4 DEF Waiting, InLine
<1>6. Queue(line[l], Waiting(l))
  BY <1>4 DEF QueuesInv
<1>7. PICK n \in DOMAIN line[l] : line[l][n] = v
  BY <1>5, <1>6, QueueMember
<1>8. v # u
  BY <1>1, QueueMember
<1>9. 1 \in DOMAIN line[l] /\ line[l][1] = u /\ 1 < n
  BY <1>6, <1>7, <1>8, QueueMember
<1>10. PICK a \in DOMAIN arrived, b \in DOMAIN arrived : a < b /\ arrived[a] = u /\ arrived[b] = v
  BY <1>4, <1>7, <1>9 DEF OrderInv
<1>11. a = k /\ b = i
  BY <1>1, <1>10, QueueMember
<1>12. i \in Int /\ k \in Int
  BY <1>1, QueueMember
<1> QED
  BY <1>10, <1>11, <1>12

\* Every step keeps the updates of one user one at a time and in order.
LEMMA OneAtATimeStep ==
  ASSUME PlainTypes, LocksInv, QueuesInv, OrderInv, HeadInv, OneAtATimeInOrder,
         NEW u \in Updates, UpdateStep(u)
  PROVE  OneAtATimeInOrder'
<1> SUFFICES ASSUME NEW i \in DOMAIN arrived', NEW k \in DOMAIN arrived', i < k,
                    UserOf[arrived'[i]] = UserOf[arrived'[k]], pc'[arrived'[k]] # "queued"
             PROVE  pc'[arrived'[i]] \in {"leaving", "done"}
  BY DEF OneAtATimeInOrder
<1>1. Queue(arrived, Arrived)
  BY DEF QueuesInv
<1>2. /\ i \in DOMAIN arrived /\ k \in DOMAIN arrived
      /\ arrived'[i] = arrived[i] /\ arrived'[k] = arrived[k]
  <2>1. CASE LineUp(u)
    <3>1. u \notin Arrived /\ arrived' = Append(arrived, u) /\ pc'[u] = "queued"
      BY <2>1, QueueSteps, Moves DEF LineUp
    <3>2. /\ Len(arrived) \in Nat /\ DOMAIN arrived = 1..Len(arrived)
          /\ DOMAIN arrived' = 1..(Len(arrived) + 1)
          /\ \A a \in DOMAIN arrived : arrived'[a] = arrived[a]
          /\ arrived'[Len(arrived) + 1] = u
      BY <1>1, <3>1, QueueJoin
    <3> QED
      BY <3>1, <3>2
  <2>2. CASE ~LineUp(u)
    BY <2>2, QueueSteps
  <2> QED
    BY <2>1, <2>2
<1>3. /\ arrived[i] \in Arrived /\ arrived[k] \in Arrived
      /\ arrived[i] \in Updates /\ arrived[k] \in Updates
  BY <1>1, <1>2, QueueMember DEF Arrived
<1>4. pc[arrived[i]] \in {"leaving", "done"} => pc'[arrived[i]] \in {"leaving", "done"}
  BY <1>3, Moves
<1>5. CASE Acquire(u) /\ arrived[k] = u
  <2>1. pc[u] = "queued" /\ Head(line[lockOf[u]]) = u
    BY <1>5 DEF Acquire
  <2> QED
    BY <1>2, <1>4, <1>5, <2>1, FirstInLine
<1>6. CASE ~(Acquire(u) /\ arrived[k] = u)
  <2>1. pc[arrived[k]] # "queued"
    BY <1>2, <1>3, <1>6, Moves
  <2> QED
    BY <1>2, <1>4, <2>1 DEF OneAtATimeInOrder
<1> QED
  BY <1>5, <1>6

\* What neither the lane nor a stuttering step touches stays right.
LEMMA Untouched ==
  ASSUME DInv, UNCHANGED <<pc, table, refs, lockOf, line, room, arrived>>,
         calls' \in [Updates -> 0..MaxCalls]
  PROVE  PlainTypes' /\ LocksInv' /\ QueuesInv' /\ OrderInv' /\ HeadInv' /\ OneAtATimeInOrder'
<1>1. Inside' = Inside /\ Arrived' = Arrived
  BY DEF Inside, Arrived
<1>2. \A x : Mine(x)' = Mine(x) /\ Waiting(x)' = Waiting(x) /\ Ready(x)' = Ready(x)
  BY <1>1 DEF Mine, Waiting, Ready
<1>3. PlainTypes' /\ HeadInv' /\ OneAtATimeInOrder' /\ OrderInv'
  BY DEF DInv, PlainTypes, HeadInv, OneAtATimeInOrder, OrderInv
<1>4. LocksInv'
  BY <1>1, <1>2 DEF DInv, LocksInv
<1>5. QueuesInv'
  BY <1>1, <1>2 DEF DInv, QueuesInv, Queue
<1> QED
  BY <1>3, <1>4, <1>5

\* A handler makes no more calls than it may.
LEMMA CallsStep ==
  ASSUME PlainTypes, LaneStep
  PROVE  calls' \in [Updates -> 0..MaxCalls]
<1>1. ASSUME NEW u \in Updates, Submit(u) PROVE calls' \in [Updates -> 0..MaxCalls]
  BY <1>1, DispatchAssumption DEF Submit, PlainTypes
<1>2. ~(\E u \in Updates : Submit(u)) => calls' = calls
  BY DEF LaneStep, Deadline, Work, WorkDone
<1> QED
  BY <1>1, <1>2 DEF PlainTypes

-----------------------------------------------------------------------------
(* The theorems *)

\* DInv is an invariant.
THEOREM DispatchInvariant == Spec => []DInv
<1>1. ASSUME DInv, [Next]_vars PROVE DInv'
  <2>1. CASE LaneStep
    <3>1. PlainTypes
      BY <1>1 DEF DInv
    <3> QED
      BY <1>1, <2>1, <3>1, LaneFrame, CallsStep, Untouched, LaneInvStep DEF DInv
  <2>2. ASSUME NEW u \in Updates, UpdateStep(u) PROVE DInv'
    <3>1. /\ PlainTypes /\ LocksInv /\ QueuesInv /\ OrderInv /\ HeadInv
          /\ OneAtATimeInOrder /\ LaneInv
      BY <1>1 DEF DInv
    <3>2. LocksInv' /\ QueuesInv'
      BY <2>2, <3>1, LocksInvStep, QueuesInvStep
    <3>3. PlainTypes'
      BY <2>2, <3>1, <3>2, PlainTypesStep
    <3>4. OrderInv' /\ HeadInv' /\ OneAtATimeInOrder'
      BY <2>2, <3>1, OrderInvStep, HeadInvStep, OneAtATimeStep
    <3>5. LaneInv'
      BY <1>1, LaneInvStep
    <3> QED
      BY <3>2, <3>3, <3>4, <3>5 DEF DInv
  <2>3. CASE UNCHANGED vars
    <3>1. UNCHANGED <<pc, table, refs, lockOf, line, room, arrived, calls>>
      BY <2>3 DEF vars
    <3>2. calls' \in [Updates -> 0..MaxCalls]
      BY <1>1, <3>1 DEF DInv, PlainTypes
    <3> QED
      BY <1>1, <3>1, <3>2, Untouched, LaneInvStep DEF DInv
  <2> QED
    BY <1>1, <2>1, <2>2, <2>3, NextSplit
<1> QED
  BY InitDInv, <1>1, PTL DEF Spec

\* Every variable keeps its type.
THEOREM DispatchTypes == Spec => []DispatchTypeOK
<1>1. ASSUME DInv PROVE DispatchTypeOK
  <2>1. /\ Cardinality(Updates) \in Nat /\ IsFiniteSet(Jobs) /\ Cardinality(Jobs) \in Nat
        /\ Capacity \in Nat /\ Capacity <= Cardinality(Jobs)
    BY DispatchAssumption, FS_CardinalityType
  <2>2. refs \in [Users -> 0..Cardinality(Updates)]
    <3>1. \A k \in Users : refs[k] \in 0..Cardinality(Updates)
      BY <1>1, <2>1, MineFinite DEF DInv, LocksInv
    <3> QED
      BY <1>1, <3>1 DEF DInv, PlainTypes
  <2>3. taken \in 0..Cardinality(Jobs)
    <3>1. Cardinality(Busy) \in Nat
      BY <2>1, FS_Subset, FS_CardinalityType DEF Busy
    <3> QED
      BY <1>1, <2>1, <3>1 DEF DInv, LaneInv
  <2>4. arrived \in Seq(Updates)
    BY <1>1 DEF DInv, QueuesInv, Queue
  <2> QED
    BY <1>1, <2>2, <2>3, <2>4 DEF DInv, PlainTypes, LaneInv, DispatchTypeOK
<1> QED
  BY DispatchInvariant, <1>1, PTL

\* The updates of one user are handled one at a time, in the order they came,
\* however many users, updates and evictions of locks there are.
THEOREM InOrder == Spec => []OneAtATimeInOrder
<1>1. DInv => OneAtATimeInOrder
  BY DEF DInv
<1> QED
  BY DispatchInvariant, <1>1, PTL

\* No lock is evicted under a waiter and none stays behind; every slot of the
\* lane that is taken belongs to a job that is not over.
THEOREM NoLeak == Spec => []NothingLeaks
<1>1. ASSUME DInv PROVE NothingLeaks
  <2>1. \A k \in Users : Mine(k) = {u \in Inside : UserOf[u] = k}
    BY DEF Mine
  <2>2. Busy = {j \in Jobs : job[j] # "free"}
    BY DEF Busy
  <2> QED
    BY <1>1, <2>1, <2>2 DEF DInv, LocksInv, LaneInv, NothingLeaks
<1> QED
  BY DispatchInvariant, <1>1, PTL
=============================================================================
