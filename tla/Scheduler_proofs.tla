-------------------------- MODULE Scheduler_proofs --------------------------
(***************************************************************************)
(* Proofs about Scheduler, for every number of schedulers and kinds.       *)
(* A periodic job is enqueued at most once per bucket, provided a hash     *)
(* outlives a bucket and a stalled iteration together; the lock plays no   *)
(* part in that.  Iterations overlap only after a lock has expired.  And a *)
(* kind is not left out two buckets in a row while nothing fails, provided *)
(* an iteration takes half of the wait at most.                            *)
(***************************************************************************)
EXTENDS Scheduler, TLAPS

(* A bucket starts before the instants in it and ends after them. *)
LEMMA BucketBounds ==
    ASSUME NEW t \in Nat, NEW i \in Nat \ {0}
    PROVE  /\ t \div i \in Nat
           /\ (t \div i) * i <= t
           /\ t < (t \div i) * i + i
BY SMT

(* The id of an instant's job of a kind is a slot. *)
LEMMA SlotType ==
    ASSUME NEW k \in Kinds, NEW t \in Nat
    PROVE  Slot(k, t) \in Slots
<1>1. Interval[k] \in Nat \ {0}
  BY SchedulerAssumption
<1>2. t \div Interval[k] \in Nat
  BY <1>1, BucketBounds
<1> QED
  BY <1>2 DEF Slot, Slots, Bucket

(* A running iteration has read the clock since it began, starts with the  *)
(* first kind, and has not lasted longer than MaxRun.                      *)
Iterations ==
    \A s \in Schedulers :
        /\ Active(s) => run[s].began <= now /\ now <= run[s].began + MaxRun
        /\ run[s].pc = "enqueue" =>
              /\ run[s].kind >= 1
              /\ run[s].began <= run[s].at
              /\ run[s].at <= now

(* A job was posted after its bucket began, and RQ keeps its hash for      *)
(* ResultTTL.                                                              *)
HashesLast ==
    \A p \in posted :
        /\ p.slot.bucket * Interval[p.slot.kind] <= p.at
        /\ p.slot \in hashes \/ p.at + ResultTTL <= now

(* Types and Iterations are inductive together: an iteration that enqueues *)
(* has a kind.                                                             *)
LEMMA TypeStep == TypeOK /\ Iterations /\ [Next]_vars => TypeOK'
<1> SUFFICES ASSUME TypeOK, Iterations, [Next]_vars PROVE TypeOK'
  OBVIOUS
<1> USE SchedulerAssumption
<1>1. ASSUME NEW s \in Schedulers, Acquire(s) PROVE TypeOK'
  <2>1. now + LockTimeout \in Nat
    BY DEF TypeOK
  <2> QED
    BY <1>1, <2>1, ZenonT(60) DEF TypeOK, Acquire, RunStates
<1>2. ASSUME NEW s \in Schedulers, SkipLocked(s) PROVE TypeOK'
  <2>1. now + Wait \in Nat
    BY DEF TypeOK
  <2> QED
    BY <1>2, <2>1 DEF TypeOK, SkipLocked, RunStates
<1>3. ASSUME NEW s \in Schedulers, ReadClock(s) PROVE TypeOK'
  <2>1. run' \in [Schedulers -> RunStates]
    <3>1. now \in Nat /\ run[s] \in RunStates
      BY DEF TypeOK
    <3>2. [run[s] EXCEPT !.pc = "enqueue", !.at = now, !.kind = 1] \in RunStates
      BY <3>1 DEF RunStates
    <3>3. run' = [run EXCEPT ![s] =
                    [run[s] EXCEPT !.pc = "enqueue", !.at = now, !.kind = 1]]
      BY <1>3 DEF ReadClock
    <3> QED
      BY <3>2, <3>3 DEF TypeOK
  <2> QED
    BY <1>3, <2>1 DEF TypeOK, ReadClock
<1>4. ASSUME NEW s \in Schedulers, Enqueue(s) PROVE TypeOK'
  <2>1. run[s].kind \in Kinds /\ run[s].at \in Nat /\ run[s].kind + 1 \in Nat
    <3>1. run[s].kind \in Nat /\ run[s].at \in Nat
      BY DEF TypeOK, RunStates
    <3>2. run[s].kind >= 1 /\ run[s].kind <= NumKinds
      BY <1>4 DEF Iterations, Enqueue
    <3> QED
      BY <3>1, <3>2 DEF Kinds
  <2>2. Slot(run[s].kind, run[s].at) \in Slots
    BY <2>1, SlotType
  <2>3. hashes' \subseteq Slots /\ posted' \subseteq [slot : Slots, at : Nat]
    BY <1>4, <2>2 DEF TypeOK, Enqueue
  <2>4. run' \in [Schedulers -> RunStates]
    BY <1>4, <2>1 DEF TypeOK, Enqueue, RunStates
  <2> QED
    BY <1>4, <2>3, <2>4 DEF TypeOK, Enqueue
<1>5. ASSUME NEW s \in Schedulers PROVE LockAfterRelease(s) \in
              [owner : Schedulers \cup {"none"}, until : Nat]
  BY DEF TypeOK, LockAfterRelease, Unlocked
<1>6. ASSUME NEW s \in Schedulers, Release(s) PROVE TypeOK'
  <2>1. Waiting(now + Wait) \in RunStates
    BY DEF TypeOK, Waiting, RunStates
  <2> QED
    BY <1>5, <1>6, <2>1 DEF TypeOK, Release
<1>7. Dead \in RunStates
  BY DEF Dead, RunStates
<1>8. ASSUME NEW s \in Schedulers, Fail(s) PROVE TypeOK'
  BY <1>5, <1>7, <1>8 DEF TypeOK, Fail
<1>9. ASSUME NEW s \in Schedulers, Crash(s) PROVE TypeOK'
  BY <1>7, <1>9 DEF TypeOK, Crash
<1>10. ASSUME NEW s \in Schedulers, Restart(s) PROVE TypeOK'
  <2>1. Waiting(now) \in RunStates
    BY DEF TypeOK, Waiting, RunStates
  <2> QED
    BY <1>10, <2>1 DEF TypeOK, Restart
<1>11. ASSUME NEW slot \in hashes, Expire(slot) PROVE TypeOK'
  BY <1>11 DEF TypeOK, Expire
<1>12. ASSUME Tick PROVE TypeOK'
  BY <1>12 DEF TypeOK, Tick
<1>13. ASSUME UNCHANGED vars PROVE TypeOK'
  BY <1>13 DEF TypeOK, vars
<1> QED
  BY <1>1, <1>2, <1>3, <1>4, <1>6, <1>8, <1>9, <1>10, <1>11, <1>12, <1>13
     DEF Next

(* The iterations keep to their bounds. *)
LEMMA IterationStep ==
    TypeOK /\ Iterations /\ [Next]_vars => Iterations'
<1> SUFFICES ASSUME TypeOK, Iterations, [Next]_vars,
                    NEW u \in Schedulers
             PROVE  /\ Active(u)' => run'[u].began <= now' /\ now' <= run'[u].began + MaxRun
                    /\ run'[u].pc = "enqueue" =>
                          /\ run'[u].kind >= 1
                          /\ run'[u].began <= run'[u].at
                          /\ run'[u].at <= now'
  BY DEF Iterations
<1> USE SchedulerAssumption DEF TypeOK, Iterations, RunStates, Active
<1>1. ASSUME NEW s \in Schedulers, Acquire(s) \/ SkipLocked(s) \/ ReadClock(s)
      PROVE  Iterations'
  BY <1>1 DEF Acquire, SkipLocked, ReadClock
<1>2. ASSUME NEW s \in Schedulers, Enqueue(s) PROVE Iterations'
  BY <1>2 DEF Enqueue
<1>3. ASSUME NEW s \in Schedulers,
             Release(s) \/ Fail(s) \/ Crash(s) \/ Restart(s)
      PROVE  Iterations'
  BY <1>3 DEF Release, Fail, Crash, Restart, Waiting, Dead
<1>4. ASSUME NEW slot \in hashes, Expire(slot) PROVE Iterations'
  BY <1>4 DEF Expire
<1>5. ASSUME Tick PROVE Iterations'
  BY <1>5 DEF Tick
<1>6. ASSUME UNCHANGED vars PROVE Iterations'
  BY <1>6 DEF vars
<1> QED
  BY <1>1, <1>2, <1>3, <1>4, <1>5, <1>6 DEF Next

(* Hashes keep their time. *)
LEMMA HashStep ==
    TypeOK /\ Iterations /\ HashesLast /\ [Next]_vars => HashesLast'
<1> SUFFICES ASSUME TypeOK, Iterations, HashesLast, [Next]_vars
             PROVE  HashesLast'
  OBVIOUS
<1> USE SchedulerAssumption
<1>1. ASSUME NEW s \in Schedulers, Enqueue(s) PROVE HashesLast'
  <2> DEFINE slot == Slot(run[s].kind, run[s].at)
  <2>1. run[s].kind \in Kinds /\ run[s].at \in Nat /\ run[s].at <= now
    BY <1>1 DEF TypeOK, Iterations, Enqueue, RunStates, Kinds
  <2>2. Interval[run[s].kind] \in Nat \ {0}
    BY <2>1
  <2>3. /\ (run[s].at \div Interval[run[s].kind]) \in Nat
        /\ (run[s].at \div Interval[run[s].kind]) * Interval[run[s].kind] <= run[s].at
    BY <2>1, <2>2, BucketBounds
  <2>4. slot.bucket * Interval[slot.kind] <= run[s].at
    BY <2>3 DEF Slot, Bucket
  <2>5. slot.bucket * Interval[slot.kind] \in Int
    BY <2>2, <2>3 DEF Slot, Bucket
  <2>6. slot.bucket * Interval[slot.kind] <= now
    BY <2>1, <2>4, <2>5 DEF TypeOK
  <2>7. UNCHANGED now
    BY <1>1 DEF Enqueue
  <2>8. ASSUME NEW p \in posted'
        PROVE  /\ p.slot.bucket * Interval[p.slot.kind] <= p.at
               /\ p.slot \in hashes' \/ p.at + ResultTTL <= now
    <3>1. CASE p \in posted
      BY <1>1, <3>1 DEF HashesLast, Enqueue
    <3>2. CASE p = [slot |-> slot, at |-> now] /\ p \notin posted
      <4>1. slot \in hashes'
        BY <1>1, <3>2 DEF Enqueue
      <4> QED
        BY <2>6, <3>2, <4>1
    <3> QED
      BY <1>1, <3>1, <3>2 DEF Enqueue
  <2> QED
    BY <2>7, <2>8 DEF HashesLast
<1>2. ASSUME NEW slot \in hashes, Expire(slot) PROVE HashesLast'
  BY <1>2 DEF HashesLast, Expire
<1>3. ASSUME Tick PROVE HashesLast'
  BY <1>3 DEF TypeOK, HashesLast, Tick
<1>4. ASSUME UNCHANGED <<now, posted, hashes>> PROVE HashesLast'
  BY <1>4 DEF HashesLast
<1> QED
  BY <1>1, <1>2, <1>3, <1>4
     DEF Next, vars, Acquire, SkipLocked, ReadClock, Release, Fail, Crash,
         Restart

(* What the scheduler relies on: the hash of a job outlives its bucket and *)
(* the iteration that may still want to post it.                           *)
HashOutlivesStall == \A k \in Kinds : ResultTTL >= Interval[k] + MaxRun

(* A slot whose hash is gone is wanted by no iteration any more. *)
LEMMA SlotStep ==
    ASSUME HashOutlivesStall
    PROVE  TypeOK /\ Iterations /\ HashesLast /\ EachSlotOnce /\ [Next]_vars
              => EachSlotOnce'
<1> SUFFICES ASSUME TypeOK, Iterations, HashesLast, EachSlotOnce, [Next]_vars
             PROVE  EachSlotOnce'
  OBVIOUS
<1> USE SchedulerAssumption
<1>1. ASSUME NEW s \in Schedulers, Enqueue(s) PROVE EachSlotOnce'
  <2> DEFINE k == run[s].kind
             slot == Slot(k, run[s].at)
             b == run[s].at \div Interval[k]
  <2>1. k \in Kinds /\ run[s].at \in Nat
    BY <1>1 DEF TypeOK, Iterations, Enqueue, RunStates, Kinds
  <2>2. run[s].began \in Nat /\ now \in Nat
    BY DEF TypeOK, RunStates
  <2>3. run[s].began <= run[s].at /\ now <= run[s].began + MaxRun
    BY <1>1 DEF Iterations, Enqueue, Active
  <2>4. Interval[k] \in Nat \ {0} /\ ResultTTL >= Interval[k] + MaxRun
    BY <2>1 DEF HashOutlivesStall
  <2>5. b \in Nat /\ run[s].at < b * Interval[k] + Interval[k]
    BY <2>1, <2>4, BucketBounds
  <2>6. b * Interval[k] \in Nat
    BY <2>4, <2>5
  <2>7. now < b * Interval[k] + ResultTTL
    <3> HIDE DEF b, k
    <3> DEFINE start == b * Interval[k]
    <3>1. start \in Nat /\ run[s].at < start + Interval[k]
      BY <2>5, <2>6
    <3> HIDE DEF start
    <3>2. now < start + ResultTTL
      BY <2>1, <2>2, <2>3, <2>4, <3>1
    <3> QED
      BY <3>2 DEF start
  <2>8. ASSUME NEW p \in posted, p.slot = slot PROVE slot \in hashes
    <3>1. p.at \in Nat /\ b * Interval[k] <= p.at
      BY <2>8 DEF TypeOK, HashesLast, Slot, Bucket
    <3>2. p.at + ResultTTL > now
      <4> DEFINE start == b * Interval[k]
      <4>1. start \in Nat /\ start <= p.at /\ now < start + ResultTTL
        BY <2>6, <2>7, <3>1
      <4> HIDE DEF start
      <4> QED
        BY <2>2, <3>1, <4>1
    <3>3. p.slot \in hashes \/ p.at + ResultTTL <= now
      BY DEF HashesLast
    <3> QED
      BY <2>2, <2>8, <3>1, <3>2, <3>3
  <2>9. CASE slot \notin hashes
    <3>1. \A p \in posted : p.slot # slot
      BY <2>8, <2>9
    <3>2. posted' = posted \cup {[slot |-> slot, at |-> now]}
      BY <1>1, <2>9 DEF Enqueue
    <3> HIDE DEF slot
    <3> QED
      BY <3>1, <3>2 DEF EachSlotOnce
  <2>10. CASE slot \in hashes
    BY <1>1, <2>10 DEF Enqueue, EachSlotOnce
  <2> QED
    BY <2>9, <2>10
<1>2. ASSUME UNCHANGED posted PROVE EachSlotOnce'
  BY <1>2 DEF EachSlotOnce
<1> QED
  BY <1>1, <1>2
     DEF Next, vars, Acquire, SkipLocked, ReadClock, Release, Fail, Crash,
         Restart, Expire, Tick

(* The initial state satisfies every part of the invariant. *)
LEMMA Initially == Init => TypeOK /\ Iterations /\ HashesLast /\ EachSlotOnce
<1> SUFFICES ASSUME Init PROVE TypeOK /\ Iterations /\ HashesLast /\ EachSlotOnce
  OBVIOUS
<1>1. Waiting(0) \in RunStates
  BY DEF Waiting, RunStates
<1>2. TypeOK
  BY <1>1 DEF Init, TypeOK, Unlocked
<1>3. Iterations
  BY DEF Init, Iterations, Active, Waiting
<1> QED
  BY <1>2, <1>3 DEF Init, HashesLast, EachSlotOnce

(* The scheduler's state (lock, job hashes, the steps of run_once) keeps   *)
(* its types.                                                              *)
THEOREM TypeCorrect == Spec => []TypeOK
<1>1. TypeOK /\ Iterations /\ [Next]_vars => (TypeOK /\ Iterations)'
  BY TypeStep, IterationStep
<1> QED
  BY Initially, <1>1, PTL DEF Spec

(* However many schedulers run, stall beyond their lock, fail, crash and   *)
(* restart, a periodic job is enqueued at most once per bucket, if the     *)
(* result TTL covers a bucket and the longest iteration.                   *)
THEOREM SlotsAreUnique ==
    ASSUME HashOutlivesStall
    PROVE  Spec => []EachSlotOnce
<1> DEFINE IInv == TypeOK /\ Iterations /\ HashesLast /\ EachSlotOnce
<1>1. IInv /\ [Next]_vars => IInv'
  BY TypeStep, IterationStep, HashStep, SlotStep
<1>2. Init => IInv
  BY Initially
<1>3. IInv => EachSlotOnce
  OBVIOUS
<1> QED
  BY <1>1, <1>2, <1>3, PTL DEF Spec

-----------------------------------------------------------------------------
(* Until its lock has expired, an iteration holds it: it is released by    *)
(* the token of its own instance only.                                     *)
LockHeld ==
    \A s \in Schedulers : Active(s) =>
        \/ now >= run[s].began + LockTimeout
        \/ lock = [owner |-> s, until |-> run[s].began + LockTimeout]

LEMMA LockStep == TypeOK /\ LockHeld /\ [Next]_vars => LockHeld'
<1> SUFFICES ASSUME TypeOK, LockHeld, [Next]_vars PROVE LockHeld'
  OBVIOUS
<1> USE SchedulerAssumption, InstanceAssumption DEF Active
<1>0. now \in Nat /\ \A s \in Schedulers : run[s].began \in Nat
  BY DEF TypeOK, RunStates
<1>1. ASSUME NEW s \in Schedulers, Acquire(s) PROVE LockHeld'
  <2>1. \A u \in Schedulers \ {s} : run'[u] = run[u]
    BY <1>1 DEF TypeOK, Acquire
  <2>2. ASSUME NEW u \in Schedulers \ {s}, Active(u)
        PROVE  now >= run[u].began + LockTimeout
    BY <1>0, <1>1, <2>2 DEF LockHeld, Acquire, Held
  <2>3. run'[s].began = now
    BY <1>1 DEF TypeOK, Acquire, RunStates
  <2> QED
    BY <1>1, <2>1, <2>2, <2>3 DEF LockHeld, Acquire
<1>2. ASSUME NEW s \in Schedulers, SkipLocked(s) \/ ReadClock(s) \/ Enqueue(s)
      PROVE  LockHeld'
  <2>1. UNCHANGED <<now, lock>>
    BY <1>2 DEF SkipLocked, ReadClock, Enqueue
  <2>2. \A u \in Schedulers : Active(u)' => Active(u) /\ run'[u].began = run[u].began
    BY <1>2 DEF TypeOK, RunStates, SkipLocked, ReadClock, Enqueue
  <2> QED
    BY <2>1, <2>2 DEF LockHeld
<1>3. ASSUME NEW s \in Schedulers,
             Release(s) \/ Fail(s) \/ Crash(s) \/ Restart(s)
      PROVE  LockHeld'
  <2>1. \A u \in Schedulers : Active(u)' => u # s /\ run'[u] = run[u]
    BY <1>3 DEF TypeOK, Release, Fail, Crash, Restart, Waiting, Dead
  <2>2. now' = now /\ (lock' = lock \/ lock.owner = s)
    BY <1>3 DEF Release, Fail, Crash, Restart, LockAfterRelease
  <2> QED
    BY <2>1, <2>2 DEF LockHeld
<1>4. CASE Tick
  BY <1>0, <1>4 DEF LockHeld, Tick
<1>5. CASE UNCHANGED <<now, lock, run>>
  BY <1>5 DEF LockHeld
<1> QED
  BY <1>1, <1>2, <1>3, <1>4, <1>5 DEF Next, vars, Expire

(* However many schedulers run, fail and restart, two iterations overlap   *)
(* only when one of them has outlived its lock: no instance deletes the    *)
(* lock of another, also after its own has expired.                        *)
THEOREM OverlapsAreLate == Spec => []OverlapOnlyAfterExpiry
<1> DEFINE IInv == TypeOK /\ Iterations /\ LockHeld
<1>1. IInv /\ [Next]_vars => IInv'
  BY TypeStep, IterationStep, LockStep
<1>2. Init => IInv
  BY Initially DEF Init, LockHeld, Active, Waiting
<1>3. IInv => OverlapOnlyAfterExpiry
  BY DEF LockHeld, OverlapOnlyAfterExpiry
<1> QED
  BY <1>1, <1>2, <1>3, PTL DEF Spec

-----------------------------------------------------------------------------
(* An iteration lasts half of the wait between two of them at most. *)
IterationsAreShort == 2 * MaxRun <= Wait

(* Among the jobs P is one of kind k for the bucket of instant x or a      *)
(* later one; before the system ran there was nothing to post.             *)
Covered(P, k, x) ==
    \/ x < 0
    \/ \E p \in P : /\ p.slot.kind = k
                         /\ x < (p.slot.bucket + 1) * Interval[k]

(* An iteration has posted the kinds before the one it is at. *)
PostsInOrder ==
    /\ \A slot \in hashes : \E p \in posted : p.slot = slot
    /\ \A s \in Schedulers : run[s].pc = "enqueue" =>
          \A k \in Kinds : k < run[s].kind => 
              \E p \in posted : p.slot = Slot(k, run[s].at)

(* What holds while no iteration fails and no process dies. *)
Healthy ==
    /\ \A s \in Schedulers : run[s].pc # "dead"
    /\ Held(now) => Active(lock.owner)

WakesInTime == \A s \in Schedulers : run[s].pc = "waiting" => now <= run[s].wake

(* Whoever waits has seen an iteration to its end or another one running. *)
WaitersCovered(k) ==
    \A s \in Schedulers : run[s].pc = "waiting" =>
        LET seen == run[s].wake - Wait - MaxRun
        IN  \/ Covered(posted, k, seen)
            \/ \E u \in Schedulers : Active(u) /\ run[u].began >= seen

(* One of the running iterations has begun soon enough after a job. *)
IterationsCovered(k) ==
    (\E s \in Schedulers : Active(s)) =>
        \E u \in Schedulers :
            Active(u) /\ Covered(posted, k, run[u].began - Wait - MaxRun)

(* Covering is monotone in the instant and in the jobs. *)
LEMMA CoveredEarlier ==
    ASSUME TypeOK, NEW k \in Kinds, NEW x \in Int, NEW y \in Int,
           Covered(posted, k, x), y <= x
    PROVE  Covered(posted, k, y)
<1>1. ASSUME NEW p \in posted
      PROVE  (p.slot.bucket + 1) * Interval[k] \in Int
  BY SchedulerAssumption DEF TypeOK, Slots
<1> QED
  BY <1>1 DEF Covered

(* Jobs are never taken back. *)
LEMMA PostedGrows == [Next]_vars => posted \subseteq posted'
BY DEF Next, vars, Acquire, SkipLocked, ReadClock, Enqueue, Release, Fail,
       Crash, Restart, Expire, Tick

LEMMA CoveredStays ==
    ASSUME [Next]_vars, NEW k, NEW x, Covered(posted, k, x)
    PROVE  Covered(posted', k, x)
BY PostedGrows DEF Covered

(* Posting for an instant covers it. *)
LEMMA SlotCovers ==
    ASSUME NEW k \in Kinds, NEW t \in Nat, NEW p \in posted, p.slot = Slot(k, t)
    PROVE  Covered(posted, k, t)
<1>1. Interval[k] \in Nat \ {0}
  BY SchedulerAssumption
<1> DEFINE b == t \div Interval[k]
<1>2. t < b * Interval[k] + Interval[k] /\ b \in Nat
  BY <1>1, BucketBounds
<1>3. p.slot.bucket = b /\ p.slot.kind = k
  BY DEF Slot, Bucket
<1> HIDE DEF b
<1>4. (b + 1) * Interval[k] = b * Interval[k] + Interval[k]
  BY <1>1, <1>2
<1> QED
  BY <1>2, <1>3, <1>4 DEF Covered

LEMMA PostStep ==
    TypeOK /\ Iterations /\ PostsInOrder /\ [Next]_vars => PostsInOrder'
<1> SUFFICES ASSUME TypeOK, Iterations, PostsInOrder, [Next]_vars
             PROVE  PostsInOrder'
  OBVIOUS
<1>1. ASSUME NEW s \in Schedulers, Enqueue(s) PROVE PostsInOrder'
  <2> DEFINE slot == Slot(run[s].kind, run[s].at)
  <2>1. \E p \in posted' : p.slot = slot
    <3>1. CASE slot \in hashes
      BY <1>1, <3>1, PostedGrows DEF PostsInOrder
    <3>2. CASE slot \notin hashes
      <4> HIDE DEF slot
      <4>1. [slot |-> slot, at |-> now] \in posted'
        BY <1>1, <3>2 DEF Enqueue, slot
      <4> QED
        BY <4>1
    <3> QED
      BY <3>1, <3>2
  <2>2. hashes' \subseteq hashes \cup {slot}
    BY <1>1 DEF Enqueue
  <2>3. \A h \in hashes' : \E p \in posted' : p.slot = h
    BY <2>1, <2>2, PostedGrows DEF PostsInOrder
  <2>4. /\ \A u \in Schedulers \ {s} : run'[u] = run[u]
        /\ run'[s].kind = run[s].kind + 1 /\ run'[s].at = run[s].at
        /\ run[s].kind \in Nat /\ run[s].pc = "enqueue"
    BY <1>1 DEF TypeOK, RunStates, Enqueue
  <2>5. ASSUME NEW u \in Schedulers, run'[u].pc = "enqueue",
               NEW k \in Kinds, k < run'[u].kind
        PROVE  \E p \in posted' : p.slot = Slot(k, run'[u].at)
    <3>1. CASE u # s
      BY <2>4, <2>5, <3>1, PostedGrows DEF PostsInOrder
    <3>2. CASE u = s /\ k < run[s].kind
      BY <2>4, <3>2, PostedGrows DEF PostsInOrder
    <3>3. CASE u = s /\ k = run[s].kind
      BY <2>1, <2>4, <3>3
    <3> QED
      BY <2>4, <2>5, <3>1, <3>2, <3>3, SchedulerAssumption DEF Kinds
  <2> QED
    BY <2>3, <2>5 DEF PostsInOrder, Slot, Bucket
<1>2. ASSUME NEW s \in Schedulers,
             Acquire(s) \/ SkipLocked(s) \/ Release(s) \/ Fail(s) \/ Crash(s)
             \/ Restart(s)
      PROVE  PostsInOrder'
  <2>1. UNCHANGED <<hashes, posted>>
    BY <1>2 DEF Acquire, SkipLocked, Release, Fail, Crash, Restart
  <2>2. \A u \in Schedulers : run'[u].pc = "enqueue" => run'[u] = run[u]
    BY <1>2 DEF TypeOK, RunStates, Acquire, SkipLocked, Release, Fail, Crash,
                Restart, Waiting, Dead
  <2> QED
    BY <2>1, <2>2 DEF PostsInOrder, Slot, Bucket
<1>3. ASSUME NEW s \in Schedulers, ReadClock(s) PROVE PostsInOrder'
  <2>1. UNCHANGED <<hashes, posted>>
    BY <1>3 DEF ReadClock
  <2>2. /\ \A u \in Schedulers \ {s} : run'[u] = run[u]
        /\ run'[s].kind = 1
    BY <1>3 DEF TypeOK, RunStates, ReadClock
  <2>3. \A k \in Kinds : ~(k < 1)
    BY SchedulerAssumption DEF Kinds
  <2> QED
    BY <2>1, <2>2, <2>3 DEF PostsInOrder, Slot, Bucket
<1>4. CASE hashes' \subseteq hashes /\ UNCHANGED <<posted, run>>
  BY <1>4 DEF PostsInOrder, Slot, Bucket
<1> QED
  BY <1>1, <1>2, <1>3, <1>4 DEF Next, vars, Expire, Tick

LEMMA WakeStep == TypeOK /\ WakesInTime /\ [Next]_vars => WakesInTime'
<1> SUFFICES ASSUME TypeOK, WakesInTime, [Next]_vars PROVE WakesInTime'
  OBVIOUS
<1> USE SchedulerAssumption
<1>1. ASSUME NEW s \in Schedulers,
             Acquire(s) \/ SkipLocked(s) \/ ReadClock(s) \/ Enqueue(s)
             \/ Release(s) \/ Fail(s) \/ Crash(s) \/ Restart(s)
      PROVE  WakesInTime'
  <2>1. now' = now /\ now \in Nat
    BY <1>1 DEF TypeOK, Acquire, SkipLocked, ReadClock, Enqueue, Release, Fail,
                Crash, Restart
  <2>2. \A u \in Schedulers : u # s => run'[u] = run[u]
    BY <1>1 DEF TypeOK, Acquire, SkipLocked, ReadClock, Enqueue, Release, Fail,
                Crash, Restart
  <2>3. run'[s].pc = "waiting" => now <= run'[s].wake
    BY <1>1, <2>1 DEF TypeOK, RunStates, Acquire, SkipLocked, ReadClock,
                      Enqueue, Release, Fail, Crash, Restart, Waiting, Dead
  <2> QED
    BY <2>1, <2>2, <2>3 DEF WakesInTime
<1>2. CASE Tick
  <2>1. now \in Nat /\ \A s \in Schedulers : run[s].wake \in Nat
    BY DEF TypeOK, RunStates
  <2> QED
    BY <1>2, <2>1 DEF WakesInTime, Tick
<1>3. CASE UNCHANGED <<now, run>>
  BY <1>3 DEF WakesInTime
<1> QED
  BY <1>1, <1>2, <1>3 DEF Next, vars, Expire

(* A lock that holds is held by an iteration, if none has failed. *)
LEMMA HealthStep ==
    TypeOK /\ Healthy /\ [Next]_vars /\ failures = 0 /\ failures' = 0 => Healthy'
<1> SUFFICES ASSUME TypeOK, Healthy, [Next]_vars, failures = 0, failures' = 0
             PROVE  Healthy'
  OBVIOUS
<1> USE SchedulerAssumption, InstanceAssumption
<1>1. ASSUME NEW s \in Schedulers, Acquire(s) PROVE Healthy'
  <2>1. /\ run'[s].pc = "acquired" /\ lock'.owner = s
        /\ \A u \in Schedulers \ {s} : run'[u] = run[u]
    BY <1>1 DEF TypeOK, RunStates, Acquire
  <2> QED
    BY <2>1 DEF Healthy, Active
<1>2. ASSUME NEW s \in Schedulers, SkipLocked(s) \/ ReadClock(s) \/ Enqueue(s)
      PROVE  Healthy'
  <2>1. /\ \A u \in Schedulers \ {s} : run'[u] = run[u]
        /\ run'[s].pc # "dead" /\ (Active(s) => Active(s)')
    BY <1>2 DEF TypeOK, RunStates, Active, SkipLocked, ReadClock, Enqueue
  <2>2. UNCHANGED <<now, lock>>
    BY <1>2 DEF SkipLocked, ReadClock, Enqueue
  <2>3. lock.owner \in Schedulers \cup {"none"}
    BY DEF TypeOK
  <2> QED
    BY <2>1, <2>2, <2>3 DEF Healthy, Active, Held
<1>3. ASSUME NEW s \in Schedulers, Release(s) PROVE Healthy'
  <2>1. /\ \A u \in Schedulers \ {s} : run'[u] = run[u]
        /\ run'[s].pc # "dead" /\ now' = now
    BY <1>3 DEF TypeOK, Release, Waiting
  <2>2. CASE lock.owner = s /\ Held(now)
    BY <1>3, <2>1, <2>2 DEF Healthy, Held, Release, LockAfterRelease, Unlocked
  <2>3. CASE ~(lock.owner = s /\ Held(now))
    <3>1. lock' = lock
      BY <1>3, <2>3 DEF Release, LockAfterRelease
    <3>2. lock.owner \in Schedulers \cup {"none"}
      BY DEF TypeOK
    <3> QED
      BY <2>1, <2>3, <3>1, <3>2 DEF Healthy, Active, Held
  <2> QED
    BY <2>2, <2>3
<1>4. ASSUME NEW s \in Schedulers PROVE ~(Fail(s) \/ Crash(s) \/ Restart(s))
  BY DEF Healthy, Fail, Crash, Restart
<1>5. CASE Tick
  <2>1. /\ now \in Nat /\ lock.until \in Nat /\ now' = now + 1
        /\ UNCHANGED <<lock, run>>
    BY <1>5 DEF TypeOK, Tick
  <2>2. Held(now)' => Held(now)
    BY <2>1 DEF Held
  <2> QED
    BY <2>1, <2>2 DEF Healthy, Active
<1>6. CASE UNCHANGED <<now, lock, run>>
  BY <1>6 DEF Healthy, Active, Held
<1> QED
  BY <1>1, <1>2, <1>3, <1>4, <1>5, <1>6 DEF Next, vars, Expire

(* Iterations that go on keep those who wait covered. *)
LEMMA OthersCovered ==
    ASSUME NEW k \in Kinds, [Next]_vars, NEW s \in Schedulers,
           WaitersCovered(k),
           \A v \in Schedulers : Active(v) =>
              Active(v)' /\ run'[v].began = run[v].began,
           NEW u \in Schedulers \ {s},
           run'[u].pc = "waiting", run'[u] = run[u]
    PROVE  LET seen == run'[u].wake - Wait - MaxRun
           IN  \/ Covered(posted', k, seen)
               \/ \E v \in Schedulers : Active(v)' /\ run'[v].began >= seen
<1> DEFINE seen == run[u].wake - Wait - MaxRun
<1>1. \/ Covered(posted, k, seen)
      \/ \E v \in Schedulers : Active(v) /\ run[v].began >= seen
  BY DEF WaitersCovered
<1>2. Covered(posted, k, seen) => Covered(posted', k, seen)
  BY CoveredStays
<1>3. run'[u].wake - Wait - MaxRun = seen
  OBVIOUS
<1> HIDE DEF seen
<1> QED
  BY <1>1, <1>2, <1>3

(* So do they keep themselves. *)
LEMMA IterationsGoOn ==
    ASSUME NEW k \in Kinds, [Next]_vars, IterationsCovered(k),
           \E v \in Schedulers : Active(v),
           \A v \in Schedulers : Active(v) =>
              Active(v)' /\ run'[v].began = run[v].began
    PROVE  IterationsCovered(k)'
<1>1. PICK u \in Schedulers :
             Active(u) /\ Covered(posted, k, run[u].began - Wait - MaxRun)
  BY DEF IterationsCovered
<1>2. Covered(posted', k, run[u].began - Wait - MaxRun)
  BY <1>1, CoveredStays
<1>3. Covered(posted', k, run'[u].began - Wait - MaxRun)
  BY <1>1, <1>2
<1> QED
  BY <1>1, <1>3 DEF IterationsCovered

(* What the steps of a regular life do to those who wait and run. *)
CoverageFor(k) == WaitersCovered(k) /\ IterationsCovered(k)

(* One who takes the lock has waited, and those who run are covered as he  *)
(* was; one who finds it taken has seen its owner running.                 *)
LEMMA AcquireCovers ==
    ASSUME NEW k \in Kinds, TypeOK, [Next]_vars, CoverageFor(k),
           NEW s \in Schedulers, Acquire(s), WakesInTime
    PROVE  CoverageFor(k)'
<1> USE SchedulerAssumption
<1>1. /\ \A u \in Schedulers \ {s} : run'[u] = run[u]
      /\ run'[s].pc = "acquired" /\ run'[s].began = now /\ now = run[s].wake
      /\ run[s].pc = "waiting"
  BY DEF TypeOK, RunStates, Acquire, WakesInTime
<1>2. \A v \in Schedulers : Active(v) =>
         Active(v)' /\ run'[v].began = run[v].began
  BY <1>1 DEF Active
<1>3. WaitersCovered(k)'
  <2>1. ASSUME NEW u \in Schedulers, run'[u].pc = "waiting"
        PROVE  LET seen == run'[u].wake - Wait - MaxRun
               IN  \/ Covered(posted', k, seen)
                   \/ \E v \in Schedulers : Active(v)' /\ run'[v].began >= seen
    BY <1>1, <1>2, <2>1, OthersCovered DEF CoverageFor
  <2> QED
    BY <2>1 DEF WaitersCovered
<1>4. CASE \E v \in Schedulers : Active(v)
  BY <1>2, <1>3, <1>4, IterationsGoOn DEF CoverageFor
<1>5. CASE ~ \E v \in Schedulers : Active(v)
  <2>1. Covered(posted, k, now - Wait - MaxRun)
    BY <1>1, <1>5 DEF CoverageFor, WaitersCovered
  <2>2. Covered(posted', k, run'[s].began - Wait - MaxRun)
    BY <1>1, <2>1, CoveredStays
  <2>3. Active(s)'
    BY <1>1 DEF Active
  <2> QED
    BY <1>3, <2>2, <2>3 DEF CoverageFor, IterationsCovered
<1> QED
  BY <1>4, <1>5

LEMMA SkipCovers ==
    ASSUME NEW k \in Kinds, TypeOK, Iterations, Healthy, [Next]_vars,
           CoverageFor(k), NEW s \in Schedulers, SkipLocked(s)
    PROVE  CoverageFor(k)'
<1> USE SchedulerAssumption
<1>1. /\ \A u \in Schedulers \ {s} : run'[u] = run[u]
      /\ run'[s].pc = "waiting" /\ run'[s].wake = now + Wait
      /\ run[s].pc = "waiting"
  BY DEF TypeOK, RunStates, SkipLocked
<1>2. \A v \in Schedulers : Active(v) =>
         Active(v)' /\ run'[v].began = run[v].began
  BY <1>1 DEF Active
<1>3. PICK o \in Schedulers : Active(o)
  BY DEF TypeOK, SkipLocked, Held, Healthy
<1>4. now - MaxRun <= run'[o].began /\ run[o].began \in Nat /\ now \in Nat
  BY <1>2, <1>3 DEF Iterations, TypeOK, RunStates
<1>5. run'[s].wake - Wait - MaxRun <= run'[o].began
  BY <1>1, <1>2, <1>3, <1>4
<1>6. ASSUME NEW u \in Schedulers, run'[u].pc = "waiting"
      PROVE  LET seen == run'[u].wake - Wait - MaxRun
             IN  \/ Covered(posted', k, seen)
                 \/ \E v \in Schedulers : Active(v)' /\ run'[v].began >= seen
  <2>1. CASE u = s
    <3>1. run'[o].began >= run'[u].wake - Wait - MaxRun
      BY <1>1, <1>2, <1>3, <1>4, <1>5, <2>1
    <3> QED
      BY <1>2, <1>3, <3>1
  <2>2. CASE u # s
    BY <1>1, <1>2, <1>6, <2>2, OthersCovered DEF CoverageFor
  <2> QED
    BY <2>1, <2>2
<1>7. WaitersCovered(k)'
  BY <1>6 DEF WaitersCovered
<1> QED
  BY <1>2, <1>3, <1>7, IterationsGoOn DEF CoverageFor

(* Steps in which nobody begins to run, to wait, or ends. *)
LEMMA NobodyMovesCovers ==
    ASSUME NEW k \in Kinds, [Next]_vars, CoverageFor(k),
           \A v \in Schedulers : /\ Active(v)' <=> Active(v)
                                 /\ run'[v].began = run[v].began
                                 /\ run'[v].pc = "waiting" => run'[v] = run[v]
    PROVE  CoverageFor(k)'
<1>1. IterationsCovered(k)'
  <2>1. CASE \E v \in Schedulers : Active(v)
    BY <2>1, IterationsGoOn DEF CoverageFor
  <2>2. CASE ~ \E v \in Schedulers : Active(v)
    BY <2>2 DEF IterationsCovered
  <2> QED
    BY <2>1, <2>2
<1>2. ASSUME NEW u \in Schedulers, run'[u].pc = "waiting"
      PROVE  LET seen == run'[u].wake - Wait - MaxRun
             IN  \/ Covered(posted', k, seen)
                 \/ \E v \in Schedulers : Active(v)' /\ run'[v].began >= seen
  <2> DEFINE seen == run[u].wake - Wait - MaxRun
  <2>1. \/ Covered(posted, k, seen)
        \/ \E v \in Schedulers : Active(v) /\ run[v].began >= seen
    BY <1>2 DEF CoverageFor, WaitersCovered
  <2>2. Covered(posted, k, seen) => Covered(posted', k, seen)
    BY CoveredStays
  <2>3. run'[u].wake - Wait - MaxRun = seen
    BY <1>2
  <2> HIDE DEF seen
  <2> QED
    BY <2>1, <2>2, <2>3
<1> QED
  BY <1>1, <1>2 DEF CoverageFor, WaitersCovered

(* An iteration that ends has posted every kind since it began. *)
LEMMA ReleaseCovers ==
    ASSUME NEW k \in Kinds, TypeOK, Iterations, PostsInOrder, [Next]_vars,
           CoverageFor(k), NEW s \in Schedulers, Release(s)
    PROVE  CoverageFor(k)'
<1> USE SchedulerAssumption
<1>1. /\ \A u \in Schedulers \ {s} : run'[u] = run[u]
      /\ run'[s].pc = "waiting" /\ run'[s].wake = now + Wait
      /\ run[s].pc = "enqueue" /\ posted' = posted
      /\ ~ Active(s)'
  BY DEF TypeOK, Release, Waiting, Active
<1>2. /\ now \in Nat /\ run[s].began \in Nat /\ run[s].at \in Nat
      /\ run[s].began <= run[s].at /\ now <= run[s].began + MaxRun
      /\ run[s].kind \in Nat
  BY <1>1 DEF TypeOK, RunStates, Iterations, Active
<1>3. k < run[s].kind
  BY <1>2 DEF Release, Kinds
<1>4. Covered(posted, k, run[s].at)
  BY <1>1, <1>2, <1>3, SlotCovers DEF PostsInOrder
<1>5. ASSUME NEW x \in Int, x <= run[s].began PROVE Covered(posted', k, x)
  BY <1>1, <1>2, <1>4, <1>5, CoveredEarlier
<1>6. ASSUME NEW u \in Schedulers, run'[u].pc = "waiting"
      PROVE  LET seen == run'[u].wake - Wait - MaxRun
             IN  \/ Covered(posted', k, seen)
                 \/ \E v \in Schedulers : Active(v)' /\ run'[v].began >= seen
  <2>1. CASE u = s
    <3>1. /\ (now + Wait) - Wait - MaxRun \in Int
          /\ (now + Wait) - Wait - MaxRun <= run[s].began
      BY <1>2
    <3>2. Covered(posted', k, (now + Wait) - Wait - MaxRun)
      BY <1>5, <3>1
    <3>3. run'[u].wake - Wait - MaxRun = (now + Wait) - Wait - MaxRun
      BY <1>1, <2>1
    <3>4. Covered(posted', k, run'[u].wake - Wait - MaxRun)
      BY <3>2, <3>3
    <3> QED
      BY <3>4
  <2>2. CASE u # s
    <3> DEFINE seen == run[u].wake - Wait - MaxRun
    <3>1. run[u].pc = "waiting" /\ run'[u].wake - Wait - MaxRun = seen
      BY <1>1, <1>6, <2>2
    <3>2. seen \in Int
      BY DEF TypeOK, RunStates
    <3>3. \/ Covered(posted, k, seen)
          \/ \E v \in Schedulers : Active(v) /\ run[v].began >= seen
      BY <3>1 DEF CoverageFor, WaitersCovered
    <3> HIDE DEF seen
    <3>4. CASE run[s].began >= seen
      BY <1>2, <1>5, <3>1, <3>2, <3>4
    <3>5. \A v \in Schedulers \ {s} : Active(v) =>
             Active(v)' /\ run'[v].began = run[v].began
      BY <1>1 DEF Active
    <3> QED
      BY <1>1, <3>1, <3>3, <3>4, <3>5
  <2> QED
    BY <2>1, <2>2
<1>7. WaitersCovered(k)'
  BY <1>6 DEF WaitersCovered
<1>8. ASSUME NEW v \in Schedulers, Active(v)'
      PROVE  Covered(posted', k, run'[v].began - Wait - MaxRun)
  <2>1. v # s /\ run'[v] = run[v] /\ Active(v) /\ run[v].began \in Nat
    BY <1>1, <1>8 DEF Active, TypeOK, RunStates
  <2>2. run[v].began <= now
    BY <2>1 DEF Iterations
  <2>3. /\ run[v].began - Wait - MaxRun \in Int
        /\ run[v].began - Wait - MaxRun <= run[s].began
    BY <1>2, <2>1, <2>2
  <2> QED
    BY <1>5, <2>1, <2>3
<1> QED
  BY <1>7, <1>8 DEF CoverageFor, IterationsCovered

LEMMA CoverageStep ==
    ASSUME NEW k \in Kinds, TypeOK, Iterations, PostsInOrder, WakesInTime,
           Healthy, CoverageFor(k), [Next]_vars, failures = 0, failures' = 0
    PROVE  CoverageFor(k)'
<1>1. ASSUME NEW s \in Schedulers, ReadClock(s) \/ Enqueue(s)
      PROVE  CoverageFor(k)'
  <2>1. \A v \in Schedulers : /\ Active(v)' <=> Active(v)
                              /\ run'[v].began = run[v].began
                              /\ run'[v].pc = "waiting" => run'[v] = run[v]
    BY <1>1 DEF TypeOK, RunStates, Active, ReadClock, Enqueue
  <2> QED
    BY <2>1, NobodyMovesCovers
<1>2. ASSUME NEW s \in Schedulers PROVE ~(Fail(s) \/ Crash(s) \/ Restart(s))
  BY DEF Healthy, Fail, Crash, Restart
<1>3. CASE UNCHANGED run
  BY <1>3, NobodyMovesCovers DEF Active
<1> QED
  BY <1>1, <1>2, <1>3, AcquireCovers, SkipCovers, ReleaseCovers
     DEF Next, vars, Expire, Tick

(* While nothing fails, everybody is covered. *)
Regular ==
    /\ PostsInOrder
    /\ WakesInTime
    /\ failures = 0 => Healthy /\ \A k \in Kinds : CoverageFor(k)

LEMMA RegularStep == TypeOK /\ Iterations /\ Regular /\ [Next]_vars => Regular'
<1> SUFFICES ASSUME TypeOK, Iterations, Regular, [Next]_vars PROVE Regular'
  OBVIOUS
<1>1. failures' = 0 => failures = 0
  <2>1. failures' \in {failures, failures + 1}
    BY DEF Next, vars, Acquire, SkipLocked, ReadClock, Enqueue, Release, Fail,
           Crash, Restart, Expire, Tick
  <2> QED
    BY <2>1 DEF TypeOK
<1>2. PostsInOrder' /\ WakesInTime'
  BY PostStep, WakeStep DEF Regular
<1>3. ASSUME failures' = 0 PROVE Healthy' /\ \A k \in Kinds : CoverageFor(k)'
  BY <1>1, <1>3, HealthStep, CoverageStep DEF Regular
<1> QED
  BY <1>2, <1>3 DEF Regular, Kinds

(* The two iterations that matter lie less than two buckets back. *)
LEMMA RegularImplies ==
    ASSUME IterationsAreShort, TypeOK, Iterations, Regular
    PROVE  NoTwoBucketsSkipped
<1> USE SchedulerAssumption, InstanceAssumption
<1> SUFFICES ASSUME NEW k \in Kinds, failures = 0, Interval[k] >= Wait,
                    Bucket(k, now) >= 2
             PROVE  \E p \in posted : /\ p.slot.kind = k
                                      /\ p.slot.bucket >= Bucket(k, now) - 2
  BY DEF NoTwoBucketsSkipped
<1> DEFINE i == Interval[k]
           b == now \div i
<1>1. now \in Nat /\ i \in Nat \ {0} /\ b \in Nat /\ b * i <= now
  BY BucketBounds DEF TypeOK
<1>2. b >= 2 /\ Bucket(k, now) = b
  BY DEF Bucket
<1>3. Wait + 2 * MaxRun <= 2 * i
  BY <1>1 DEF IterationsAreShort
<1>4. Covered(posted, k, now - 2 * i)
  <2>1. ASSUME NEW x \in Int, Covered(posted, k, x), now - Wait - 2 * MaxRun <= x
        PROVE  Covered(posted, k, now - 2 * i)
    <3>1. now - 2 * i \in Int /\ now - 2 * i <= x
      BY <1>1, <1>3, <2>1
    <3> QED
      BY <2>1, <3>1, CoveredEarlier
  <2>2. CASE \E s \in Schedulers : Active(s)
    <3>1. PICK u \in Schedulers :
                 Active(u) /\ Covered(posted, k, run[u].began - Wait - MaxRun)
      BY <2>2 DEF Regular, CoverageFor, IterationsCovered
    <3>2. run[u].began \in Nat /\ now <= run[u].began + MaxRun
      BY <3>1 DEF TypeOK, RunStates, Iterations
    <3>3. /\ run[u].began - Wait - MaxRun \in Int
          /\ now - Wait - 2 * MaxRun <= run[u].began - Wait - MaxRun
      BY <1>1, <3>2
    <3> QED
      BY <2>1, <3>1, <3>3
  <2>3. CASE ~ \E s \in Schedulers : Active(s)
    <3>1. PICK s \in Schedulers : run[s].pc = "waiting"
      BY <2>3 DEF Regular, Healthy, Active, TypeOK, RunStates
    <3>2. now <= run[s].wake /\ run[s].wake \in Nat
      BY <3>1 DEF Regular, WakesInTime, TypeOK, RunStates
    <3>3. Covered(posted, k, run[s].wake - Wait - MaxRun)
      BY <2>3, <3>1 DEF Regular, CoverageFor, WaitersCovered
    <3>4. /\ run[s].wake - Wait - MaxRun \in Int
          /\ now - Wait - 2 * MaxRun <= run[s].wake - Wait - MaxRun
      BY <1>1, <3>2
    <3> QED
      BY <2>1, <3>3, <3>4
  <2> QED
    BY <2>2, <2>3
<1>5. now - 2 * i >= 0
  <2>1. b * i >= 2 * i
    BY <1>1, <1>2
  <2> QED
    BY <1>1, <2>1
<1>6. PICK p \in posted : p.slot.kind = k /\ now - 2 * i < (p.slot.bucket + 1) * i
  BY <1>1, <1>4, <1>5 DEF Covered
<1>7. p.slot.bucket \in Nat
  BY DEF TypeOK, Slots
<1>8. b < p.slot.bucket + 3
  <2> DEFINE c == p.slot.bucket + 3
  <2>1. c \in Nat /\ (p.slot.bucket + 1) * i = c * i - 2 * i
    BY <1>1, <1>7
  <2> HIDE DEF b, i, c
  <2>2. b * i < c * i
    <3> DEFINE bi == b * i
               ci == c * i
    <3>1. bi \in Int /\ ci \in Int /\ i \in Int
      BY <1>1, <2>1
    <3>2. bi <= now /\ now - 2 * i < ci - 2 * i
      BY <1>1, <1>6, <2>1 DEF i
    <3> HIDE DEF bi, ci
    <3>3. bi < ci
      BY <1>1, <3>1, <3>2
    <3> QED
      BY <3>3 DEF bi, ci
  <2>3. b >= c => b * i >= c * i
    BY <1>1, <2>1
  <2>4. b < c
    <3> DEFINE bi == b * i
               ci == c * i
    <3>1. bi \in Int /\ ci \in Int
      BY <1>1, <2>1
    <3>2. bi < ci /\ (b >= c => bi >= ci)
      BY <2>2, <2>3
    <3> HIDE DEF bi, ci
    <3> QED
      BY <1>1, <2>1, <3>1, <3>2
  <2> QED
    BY <2>4 DEF c
<1> QED
  BY <1>1, <1>2, <1>6, <1>7, <1>8

(* However many schedulers take turns, none of them failing, a job whose   *)
(* bucket is not narrower than the wait never stays out two buckets in a   *)
(* row, if an iteration takes half of the wait at most.                    *)
THEOREM BucketsAreCovered ==
    ASSUME IterationsAreShort
    PROVE  Spec => []NoTwoBucketsSkipped
<1> DEFINE IInv == TypeOK /\ Iterations /\ Regular
<1>1. IInv /\ [Next]_vars => IInv'
  BY TypeStep, IterationStep, RegularStep
<1>2. ASSUME Init PROVE Regular
  <2>1. PostsInOrder /\ WakesInTime /\ Healthy
    BY <1>2 DEF Init, PostsInOrder, WakesInTime, Healthy, Waiting, Held,
                Unlocked
  <2>2. ASSUME NEW k \in Kinds PROVE CoverageFor(k)
    <3>1. \A s \in Schedulers : run[s].pc = "waiting" /\ run[s].wake = 0
      BY <1>2 DEF Init, Waiting
    <3>2. 0 - Wait - MaxRun < 0
      BY SchedulerAssumption
    <3> QED
      BY <3>1, <3>2 DEF CoverageFor, WaitersCovered, IterationsCovered, Covered,
                        Active
  <2> QED
    BY <2>1, <2>2 DEF Regular
<1>3. Init => IInv
  BY <1>2, Initially
<1>4. IInv => NoTwoBucketsSkipped
  BY RegularImplies
<1> QED
  BY <1>1, <1>3, <1>4, PTL DEF Spec

=============================================================================
