----------------------------- MODULE Scheduler -----------------------------
(***************************************************************************)
(* The scheduler processes.  Each one runs run_forever: it tries a Redis   *)
(* lock without waiting, reads the clock, enqueues one periodic job of     *)
(* each kind under an id made of the kind and of the time bucket the clock *)
(* is in, releases the lock and waits for the interval.  The lock expires  *)
(* while a stalled iteration still runs, and the id is unique only as long *)
(* as RQ keeps the job's hash: what prevents a periodic job from running   *)
(* twice is the two of them together with how long an iteration may stall. *)
(***************************************************************************)
EXTENDS Integers, FiniteSets

CONSTANTS
    Schedulers,    \* scheduler instances
    NumKinds,      \* kinds of periodic jobs, enqueued in the order 1..NumKinds
    Interval,      \* width of the time bucket of each kind
    Wait,          \* scheduler_interval_seconds
    LockTimeout,   \* scheduler_lock_timeout_seconds
    ResultTTL,     \* rq_result_ttl_seconds: a hash lives at least that long
    MaxRun,        \* bound: no iteration lasts longer
    MaxTime,       \* bound: last instant explored
    MaxFailures    \* bound: exceptions and deaths explored

Kinds == 1..NumKinds

ASSUME SchedulerAssumption ==
    /\ NumKinds \in Nat \ {0}
    /\ Interval \in [Kinds -> Nat \ {0}]
    /\ Wait \in Nat \ {0}
    /\ LockTimeout \in Nat \ {0}
    /\ ResultTTL \in Nat
    /\ MaxRun \in Nat
    /\ MaxTime \in Nat
    /\ MaxFailures \in Nat

(* "none" stands for the missing key. *)
ASSUME InstanceAssumption == Schedulers # {} /\ "none" \notin Schedulers

VARIABLES now, lock, hashes, posted, failures, run

vars == <<now, lock, hashes, posted, failures, run>>

-----------------------------------------------------------------------------
(* _time_bucket; a slot is what the job id is made of. *)
Bucket(k, t) == t \div Interval[k]

Slot(k, t) == [kind |-> k, bucket |-> Bucket(k, t)]

Slots == [kind : Kinds, bucket : Nat]

Unlocked == [owner |-> "none", until |-> 0]

(* SET NX PX: the key exists until it expires. *)
Held(t) == lock.owner # "none" /\ t < lock.until

(* What this instance's client believes is not asked again before the end. *)
Active(s) == run[s].pc \in {"acquired", "enqueue"}

RunStates == [pc    : {"waiting", "acquired", "enqueue", "dead"},
              began : Nat,     \* when the lock was acquired
              at    : Nat,     \* current_time, read once per iteration
              kind  : Nat,     \* the next kind to enqueue
              wake  : Nat]     \* end of stop_event.wait

TypeOK ==
    /\ now \in Nat
    /\ lock \in [owner : Schedulers \cup {"none"}, until : Nat]
    /\ hashes \subseteq Slots
    /\ posted \subseteq [slot : Slots, at : Nat]
    /\ failures \in Nat
    /\ run \in [Schedulers -> RunStates]

(* Fields that a step does not use are 0. *)
Waiting(t) == [pc |-> "waiting", began |-> 0, at |-> 0, kind |-> 0, wake |-> t]

Dead == [pc |-> "dead", began |-> 0, at |-> 0, kind |-> 0, wake |-> 0]

Init ==
    /\ now = 0
    /\ lock = Unlocked
    /\ hashes = {}
    /\ posted = {}
    /\ failures = 0
    /\ run = [s \in Schedulers |-> Waiting(0)]

-----------------------------------------------------------------------------
(* RedisSchedulerLock.acquire, non-blocking, and run_once's first lines. *)
Acquire(s) ==
    /\ run[s].pc = "waiting"
    /\ run[s].wake <= now
    /\ ~Held(now)
    /\ lock' = [owner |-> s, until |-> now + LockTimeout]
    /\ run' = [run EXCEPT ![s].pc = "acquired", ![s].began = now,
                          ![s].wake = 0]
    /\ UNCHANGED <<now, hashes, posted, failures>>

(* SKIPPED_LOCKED: the instance waits a whole interval before it retries. *)
SkipLocked(s) ==
    /\ run[s].pc = "waiting"
    /\ run[s].wake <= now
    /\ Held(now)
    /\ run' = [run EXCEPT ![s].wake = now + Wait]
    /\ UNCHANGED <<now, lock, hashes, posted, failures>>

(* (Mutated form of ReadClock: the clock was read when the process began.) *)
ReadClockAtStart(s) ==
    /\ run[s].pc = "acquired"
    /\ run' = [run EXCEPT ![s].pc = "enqueue", ![s].kind = 1]
    /\ UNCHANGED <<now, lock, hashes, posted, failures>>

(* current_time = self._clock(): every id of the iteration comes from it. *)
ReadClock(s) ==
    /\ run[s].pc = "acquired"
    /\ run' = [run EXCEPT ![s].pc = "enqueue", ![s].at = now, ![s].kind = 1]
    /\ UNCHANGED <<now, lock, hashes, posted, failures>>

(* (Mutated form of Enqueue: unique=False.) *)
EnqueueNotUnique(s) ==
    LET slot == Slot(run[s].kind, run[s].at)
    IN  /\ run[s].pc = "enqueue"
        /\ run[s].kind <= NumKinds
        /\ hashes' = hashes \cup {slot}
        /\ posted' = posted \cup {[slot |-> slot, at |-> now]}
        /\ run' = [run EXCEPT ![s].kind = @ + 1]
        /\ UNCHANGED <<now, lock, failures>>

(* One of the nine enqueue calls; DuplicateJobError is passed over. *)
Enqueue(s) ==
    LET slot == Slot(run[s].kind, run[s].at)
    IN  /\ run[s].pc = "enqueue"
        /\ run[s].kind <= NumKinds
        /\ \/ /\ slot \notin hashes
              /\ hashes' = hashes \cup {slot}
              /\ posted' = posted \cup {[slot |-> slot, at |-> now]}
           \/ /\ slot \in hashes
              /\ UNCHANGED <<hashes, posted>>
        /\ run' = [run EXCEPT ![s].kind = @ + 1]
        /\ UNCHANGED <<now, lock, failures>>

(* (Mutated form of LockAfterRelease: the key is deleted, whoever's it is.) *)
DeleteKey(s) == Unlocked

(* Lock.release deletes the key only while it holds this instance's token; *)
(* otherwise LockNotOwnedError, which is swallowed.                        *)
LockAfterRelease(s) ==
    IF lock.owner = s /\ Held(now) THEN Unlocked ELSE lock

(* The end of run_once (finally: release) and stop_event.wait. *)
Release(s) ==
    /\ run[s].pc = "enqueue"
    /\ run[s].kind > NumKinds
    /\ lock' = LockAfterRelease(s)
    /\ run' = [run EXCEPT ![s] = Waiting(now + Wait)]
    /\ UNCHANGED <<now, hashes, posted, failures>>

(* An enqueue or the clock raises anything but DuplicateJobError: the lock *)
(* is released, nothing catches the exception, and the process ends.       *)
Fail(s) ==
    /\ failures < MaxFailures
    /\ Active(s)
    /\ lock' = LockAfterRelease(s)
    /\ run' = [run EXCEPT ![s] = Dead]
    /\ failures' = failures + 1
    /\ UNCHANGED <<now, hashes, posted>>

(* The process dies, or Redis cannot be reached for the release either. *)
Crash(s) ==
    /\ failures < MaxFailures
    /\ run[s].pc # "dead"
    /\ run' = [run EXCEPT ![s] = Dead]
    /\ failures' = failures + 1
    /\ UNCHANGED <<now, lock, hashes, posted>>

(* The container is restarted (restart: unless-stopped). *)
Restart(s) ==
    /\ run[s].pc = "dead"
    /\ run' = [run EXCEPT ![s] = Waiting(now)]
    /\ UNCHANGED <<now, lock, hashes, posted, failures>>

(* RQ drops the hash of a job that has finished.  The result TTL counts    *)
(* from the end of the job, the failure TTL is longer: ResultTTL after the *)
(* enqueue is the earliest.                                                *)
Expire(slot) ==
    /\ slot \in hashes
    /\ \A p \in posted : p.slot = slot => p.at + ResultTTL <= now
    /\ hashes' = hashes \ {slot}
    /\ UNCHANGED <<now, lock, posted, failures, run>>

(* Waiting ends on time and an iteration lasts MaxRun at most. *)
Tick ==
    /\ now < MaxTime
    /\ \A s \in Schedulers :
          /\ run[s].pc = "waiting" => now < run[s].wake
          /\ Active(s) => now < run[s].began + MaxRun
    /\ now' = now + 1
    /\ UNCHANGED <<lock, hashes, posted, failures, run>>

Next ==
    \/ \E s \in Schedulers :
          \/ Acquire(s) \/ SkipLocked(s) \/ ReadClock(s) \/ Enqueue(s)
          \/ Release(s) \/ Fail(s) \/ Crash(s) \/ Restart(s)
    \/ \E slot \in hashes : Expire(slot)
    \/ Tick

Spec == Init /\ [][Next]_vars

-----------------------------------------------------------------------------
(* A periodic job is enqueued at most once per time bucket, by whichever   *)
(* instances, stalled beyond their lock or not (deterministic job ids,     *)
(* test_deterministic_job_id_prevents_duplicates).                         *)
EachSlotOnce ==
    \A p, q \in posted : p.slot = q.slot => p = q

(* Two iterations overlap only when the earlier one has outlived its lock. *)
OverlapOnlyAfterExpiry ==
    \A s, u \in Schedulers :
        (s # u /\ Active(s) /\ Active(u)) =>
            \/ now >= run[s].began + LockTimeout
            \/ now >= run[u].began + LockTimeout

(* The wait is added to the time an iteration takes, so the iterations     *)
(* drift; no two buckets in a row are left without the job for that.       *)
NoTwoBucketsSkipped ==
    \A k \in Kinds :
        (failures = 0 /\ Interval[k] >= Wait /\ Bucket(k, now) >= 2) =>
            \E p \in posted : /\ p.slot.kind = k
                              /\ p.slot.bucket >= Bucket(k, now) - 2

=============================================================================
