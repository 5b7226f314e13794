-------------------------- MODULE ScriptGeneration --------------------------
(***************************************************************************)
(* process_news_script for one news intake: workers that claim the row of  *)
(* the intake's script, generate the script over the network outside any   *)
(* transaction, and write the result back.                                 *)
(*                                                                         *)
(* A run begins with transaction 1 (validate, insert the row if there is   *)
(* none, claim), which is one action: the claim is a single conditional    *)
(* UPDATE and the insert is protected by a unique index.  The write-back   *)
(* is three statements under READ COMMITTED, and each is an action: the    *)
(* manager reads the row and computes the new domain object, the           *)
(* repository reads the record again, and the flush updates it.  The       *)
(* identity map of a session holds clean records weakly, so both reads     *)
(* reach the database.  Runs that change nothing (already generated,       *)
(* claimed by a fresh attempt, ranking score mismatch) are stuttering.     *)
(*                                                                         *)
(* RQ may start a run in any idle worker at any time (a job of another     *)
(* time bucket, a retry) and may lose a worker at any step.  A run is      *)
(* killed at the latest Grace after its claim has gone stale: the job's    *)
(* timeout raises an exception in the run, which the failure path          *)
(* catches, and only later is the process killed.                          *)
(*                                                                         *)
(* The write-back compares no attempt, so a late run may write into the    *)
(* attempt of another.  That it has happened is kept in overwritten, a     *)
(* history variable: no step depends on it, and the properties say what    *)
(* holds until then, which is all the code can promise.                    *)
(***************************************************************************)
EXTENDS GenerationRow

CONSTANTS Workers,        \* RQ worker processes
          Scores,         \* ranking scores a job may carry
          StaleAfter,     \* rq_job_timeout_seconds
          Grace,          \* how long a run outlives its timeout
          MaxTime,        \* bound of the clock
          MaxAttempts     \* bound of the attempt counter

ASSUME ScriptAssumption ==
    /\ Scores \subseteq 0..100
    /\ StaleAfter \in Nat \ {0}
    /\ Grace \in Nat
    /\ MaxTime \in Nat
    /\ MaxAttempts \in Nat

VARIABLES now,            \* the clock of the workers' host
          gen,            \* the generation row, PendingRow while there is none
          score,          \* its ranking_score, NoScore while there is no row
          worker,         \* the run of each worker
          overwritten     \* history: a run has written to a row not its own

vars == <<now, gen, score, worker, overwritten>>

NoScore == -1

Steps == {"idle", "network", "settle", "update", "flush"}
Intents == {"none", "generated", "failed"}

Runs == [pc     : Steps,
         mine   : Nat,          \* claimed_generation.attempt_count
         began  : Nat,          \* claimed_generation.started_at
         intent : Intents,
         next   : Rows,         \* domain object to write
         seen   : Rows]         \* record as the repository read it

Idle == [pc |-> "idle", mine |-> 0, began |-> 0, intent |-> "none",
         next |-> PendingRow, seen |-> PendingRow]

TypeOK ==
    /\ now \in Nat
    /\ gen \in Rows
    /\ score \in Scores \cup {NoScore}
    /\ worker \in [Workers -> Runs]
    /\ overwritten \in BOOLEAN

Init ==
    /\ now = 0
    /\ gen = PendingRow
    /\ score = NoScore
    /\ worker = [w \in Workers |-> Idle]
    /\ overwritten = FALSE

-----------------------------------------------------------------------------
(* A run that has not been killed yet. *)
Alive(w) == now < worker[w].began + StaleAfter + Grace

At(w, pc) == worker[w].pc = pc /\ Alive(w)

(* The row reports the attempt the run has claimed. *)
Owner(w) == gen.status = "GENERATING" /\ gen.attempt = worker[w].mine

End(w) == worker' = [worker EXCEPT ![w] = Idle]

(* (Mutated form of Prepared: an existing row's score is not compared.) *)
PreparedAnyScore(s) == TRUE

(* manager.prepare: insert the row, or require the score of the row. *)
Prepared(s) == score \in {NoScore, s}

(* Transaction 1. *)
Claim(w, s) ==
    /\ worker[w].pc = "idle"
    /\ Prepared(s)
    /\ WellFormed(gen)
    /\ gen.attempt < MaxAttempts
    /\ Claimable(gen, now, StaleAfter)
    /\ gen' = Claimed(gen, now)
    /\ score' = s
    /\ worker' = [worker EXCEPT ![w] =
                    [Idle EXCEPT !.pc = "network", !.mine = gen.attempt + 1,
                                 !.began = now]]
    /\ UNCHANGED <<now, overwritten>>

(* service.execute returns or raises; the exception handler may itself run *)
(* because the job's timeout has fired.                                    *)
Generate(w, outcome) ==
    /\ At(w, "network")
    /\ worker' = [worker EXCEPT ![w].pc = "settle", ![w].intent = outcome]
    /\ UNCHANGED <<now, gen, score, overwritten>>

(* manager.record_generated / mark_failed up to repository.update: any     *)
(* GENERATING row will do.                                                 *)
Settled(w) ==
    IF worker[w].intent = "generated" THEN Succeeded(gen, worker[w].mine, now)
                                      ELSE FailedRow(gen, now)

Settle(w) ==
    /\ At(w, "settle")
    /\ WellFormed(gen) /\ gen.status = "GENERATING"
    /\ worker' = [worker EXCEPT ![w].pc = "update", ![w].next = Settled(w)]
    /\ UNCHANGED <<now, gen, score, overwritten>>

(* repository.update, the session.get of the record. *)
ReadRecord(w) ==
    /\ At(w, "update")
    /\ worker' = [worker EXCEPT ![w].pc = "flush", ![w].seen = gen]
    /\ UNCHANGED <<now, gen, score, overwritten>>

(* repository.update, the flush, and the commit. *)
Flush(w) ==
    /\ At(w, "flush")
    /\ gen' = Flushed(gen, worker[w].seen, worker[w].next)
    /\ overwritten' = (overwritten \/ ~Owner(w))
    /\ End(w)
    /\ UNCHANGED <<now, score>>

(* The worker process dies, RQ kills the run, or a late run finds a row it *)
(* cannot load or that is not GENERATING any more (to_domain and           *)
(* _require_generating raise): the transaction rolls back.                 *)
Crash(w) ==
    /\ worker[w].pc # "idle"
    /\ End(w)
    /\ UNCHANGED <<now, gen, score, overwritten>>

Tick ==
    /\ now < MaxTime
    /\ now' = now + 1
    /\ UNCHANGED <<gen, score, worker, overwritten>>

Next ==
    \/ Tick
    \/ \E w \in Workers :
         \/ \E s \in Scores : Claim(w, s)
         \/ \E outcome \in {"generated", "failed"} : Generate(w, outcome)
         \/ Settle(w)
         \/ ReadRecord(w)
         \/ Flush(w)
         \/ Crash(w)

Spec == Init /\ [][Next]_vars

-----------------------------------------------------------------------------
(* Every committed row can be loaded again: whatever flush of one worker   *)
(* meets whatever claim or flush of another, they leave no row that the    *)
(* checks of NewsScriptGeneration reject, unless a late run writes into an *)
(* attempt that is not its own.                                            *)
RowStaysLoadable == WellFormed(gen) \/ overwritten

Busy(w) == worker[w].pc # "idle"

InTime(w) == Busy(w) /\ now < worker[w].began + StaleAfter

(* No claim and no late run takes the row from a run that is in time, as   *)
(* long as no late run has written over another's attempt: it is still     *)
(* the attempt of their caller that record_generated and mark_failed end.  *)
LiveRunOwnsAttempt ==
    \A w \in Workers : InTime(w) => Owner(w) \/ overwritten

(* The stored script is the work of the attempt the row reports. *)
ScriptOfItsAttempt ==
    gen.status = "GENERATED" => gen.output = gen.attempt \/ overwritten

(* A generated script is never failed, reclaimed or replaced, but by a     *)
(* late run.                                                               *)
GeneratedScriptIsFinal ==
    [][gen.status = "GENERATED" => gen' = gen \/ overwritten']_vars

(* The ranking score a row was inserted with never changes, although two   *)
(* jobs of different time buckets, both selected before the row existed,   *)
(* carry different scores for the same intake: the job that comes second   *)
(* changes nothing, whatever the state of the row.                         *)
RankingScoreIsFixed ==
    [][score # NoScore => score' = score]_vars

(* The row and its runs as a ledger of attempts: a run holds the attempt   *)
(* it has claimed until it ends, and the script is the result.             *)
Phase ==
    CASE gen.status \in {"PENDING", "FAILED"} -> "waiting"
      [] gen.status = "GENERATING" -> "open"
      [] gen.status = "GENERATED" -> "done"

Leases == [w \in Workers |-> IF Busy(w) THEN worker[w].mine ELSE 0]

Ledger == INSTANCE AttemptLedger WITH
    Holders <- Workers,
    phase   <- Phase,
    attempt <- gen.attempt,
    result  <- gen.output,
    lease   <- Leases

(* Every step is one of the ledger's: a claim opens the next attempt, only *)
(* its run ends it, once, with its own result.  The one step of the code   *)
(* that is not is the write of a late run into an attempt not its own.     *)
KeepsLedger ==
    /\ Ledger!LedgerInit
    /\ [][Ledger!LedgerNext \/ overwritten']_<<Phase, gen.attempt, gen.output, Leases>>

=============================================================================
