----------------------------- MODULE ScriptJob -----------------------------
(***************************************************************************)
(* The script jobs of one analysed article: enqueue_ranked_news_scripts    *)
(* enqueues one in each time bucket in which the article is chosen, and    *)
(* process_news_script runs it under RQ's retries until a script exists.   *)
(*                                                                         *)
(* A run is ScriptGeneration's, here with one step for transaction 1 and   *)
(* one for its end; it never outlives the freshness of its attempt.  Jobs  *)
(* of two buckets exist at a time, under different ids.                    *)
(*                                                                         *)
(* RQ: enqueue gives a job MaxRetries retries without an interval, used by *)
(* runs that raise or die.  A run that returns Retry(max=1) is scheduled   *)
(* for an interval that is as long as an attempt stays fresh; at its       *)
(* second time RQ treats it as a run that has raised.                      *)
(***************************************************************************)
EXTENDS Naturals

CONSTANTS Buckets,       \* the time buckets of the jobs that exist
          Scores,        \* ranking scores of the article over time
          MaxRetries,    \* rq_max_retries
          MaxDeaths      \* bound: runs that end without settling their row

VARIABLES listed,    \* the ranking puts the article among the best `limit'
          script,    \* its script row
          deaths,
          job        \* the job of each bucket

vars == <<listed, script, deaths, job>>

Rows == [status : {"NONE", "GENERATING", "GENERATED", "FAILED"},
         score  : Scores \cup {0},
         fresh  : BOOLEAN]      \* a GENERATING row that is not stale

Jobs == [state : {"absent", "queued", "started", "scheduled", "over"},
         score : Scores \cup {0},
         left  : 0..MaxRetries,   \* retries_left
         asked : BOOLEAN,         \* has returned Retry
         early : BOOLEAN]         \* the attempt it has met is still fresh

NoJob == [state |-> "absent", score |-> 0, left |-> MaxRetries,
          asked |-> FALSE, early |-> FALSE]

TypeOK ==
    /\ listed \in BOOLEAN
    /\ script \in Rows
    /\ deaths \in 0..MaxDeaths
    /\ job \in [Buckets -> Jobs]

Init ==
    /\ listed = FALSE
    /\ script = [status |-> "NONE", score |-> 0, fresh |-> FALSE]
    /\ deaths = 0
    /\ job = [b \in Buckets |-> NoJob]

-----------------------------------------------------------------------------
(* (Mutated form of Selectable: a failed script is not written again.) *)
SelectableIfNew == script.status = "NONE"

Selectable == script.status \in {"NONE", "FAILED"}

Claimable == \/ script.status \in {"NONE", "FAILED"}
             \/ script.status = "GENERATING" /\ ~script.fresh

(* SelectNewsScriptEnqueueCandidates and EnqueueNewsScriptGeneration. *)
Select(b) ==
    /\ listed /\ Selectable
    /\ job[b].state = "absent"
    /\ \E s \in IF script.status = "NONE" THEN Scores ELSE {script.score} :
          job' = [job EXCEPT ![b] = [NoJob EXCEPT !.state = "queued", !.score = s]]
    /\ UNCHANGED <<listed, script, deaths>>

(* RQ's handling of a run that has raised or died. *)
Raised(j) ==
    IF j.left > 0 THEN [j EXCEPT !.state = "queued", !.left = @ - 1]
                  ELSE [j EXCEPT !.state = "over"]

(* Nobody waits any longer for the attempt that has ended or gone stale. *)
Overtaken(jobs) == [b \in Buckets |-> [jobs[b] EXCEPT !.early = FALSE]]

Queued(b) == job[b].state = "queued"

(* manager.prepare accepts the score of the job. *)
Prepared(b) == script.status = "NONE" \/ script.score = job[b].score

(* Transaction 1 of a run, by its outcome. *)
Mismatch(b) ==
    /\ Queued(b) /\ ~Prepared(b)
    /\ job' = [job EXCEPT ![b] = Raised(@)]
    /\ UNCHANGED <<listed, script, deaths>>

AlreadyGenerated(b) ==
    /\ Queued(b) /\ Prepared(b)
    /\ script.status = "GENERATED"
    /\ job' = [job EXCEPT ![b].state = "over"]
    /\ UNCHANGED <<listed, script, deaths>>

Claim(b) ==
    /\ Queued(b) /\ Prepared(b)
    /\ Claimable
    /\ script' = [status |-> "GENERATING", score |-> job[b].score, fresh |-> TRUE]
    /\ job' = [job EXCEPT ![b].state = "started"]
    /\ UNCHANGED <<listed, deaths>>

(* (Mutated form of MeetFresh: the run returns the status of the row.) *)
MeetAndReturn(b) ==
    /\ Queued(b) /\ Prepared(b)
    /\ script.status = "GENERATING" /\ script.fresh
    /\ job' = [job EXCEPT ![b].state = "over"]
    /\ UNCHANGED <<listed, script, deaths>>

(* The run returns Retry(max=1, interval=rq_job_timeout_seconds). *)
MeetFresh(b) ==
    /\ Queued(b) /\ Prepared(b)
    /\ script.status = "GENERATING" /\ script.fresh
    /\ job' = [job EXCEPT ![b] =
                 IF job[b].asked THEN Raised(@)
                 ELSE [@ EXCEPT !.state = "scheduled", !.asked = TRUE,
                                !.early = TRUE]]
    /\ UNCHANGED <<listed, script, deaths>>

(* Transaction 2. *)
Generate(b) ==
    /\ job[b].state = "started"
    /\ script' = [script EXCEPT !.status = "GENERATED", !.fresh = FALSE]
    /\ job' = Overtaken([job EXCEPT ![b].state = "over"])
    /\ UNCHANGED <<listed, deaths>>

(* Generation raises or times out: mark_failed, and the error is raised. *)
FailGeneration(b) ==
    /\ job[b].state = "started"
    /\ script' = [script EXCEPT !.status = "FAILED", !.fresh = FALSE]
    /\ job' = Overtaken([job EXCEPT ![b] = Raised(@)])
    /\ UNCHANGED <<listed, deaths>>

(* The process dies, or the database fails: the row stays GENERATING. *)
Die(b) ==
    /\ job[b].state = "started"
    /\ deaths < MaxDeaths
    /\ deaths' = deaths + 1
    /\ job' = [job EXCEPT ![b] = Raised(@)]
    /\ UNCHANGED <<listed, script>>

(* The interval of a scheduled job has passed. *)
Due(b) ==
    /\ job[b].state = "scheduled" /\ ~job[b].early
    /\ job' = [job EXCEPT ![b].state = "queued"]
    /\ UNCHANGED <<listed, script, deaths>>

(* The TTL of the result or of the failure has passed. *)
Expire(b) ==
    /\ job[b].state = "over"
    /\ job' = [job EXCEPT ![b] = NoJob]
    /\ UNCHANGED <<listed, script, deaths>>

(* stale_after_seconds have passed; the timeout has ended the attempt's    *)
(* run before.                                                             *)
GoStale ==
    /\ script.fresh
    /\ \A b \in Buckets : job[b].state # "started"
    /\ script' = [script EXCEPT !.fresh = FALSE]
    /\ job' = Overtaken(job)
    /\ UNCHANGED <<listed, deaths>>

(* The article loses its freshness, or its rank to others, or regains it.  *)
Rerank == listed' = ~listed /\ UNCHANGED <<script, deaths, job>>

Run(b) == Mismatch(b) \/ AlreadyGenerated(b) \/ Claim(b) \/ MeetFresh(b)

Next ==
    \/ GoStale \/ Rerank
    \/ \E b \in Buckets :
          \/ Select(b) \/ Due(b) \/ Expire(b)
          \/ Run(b) \/ Generate(b) \/ FailGeneration(b) \/ Die(b)

(***************************************************************************)
(* Fairness: the scheduler enqueues the selection in every bucket; RQ      *)
(* starts queued jobs, queues scheduled ones and expires hashes; time      *)
(* passes; a run ends by its timeout at the latest; a generation that is   *)
(* tried again and again succeeds at last.                                 *)
(***************************************************************************)
Fairness ==
    /\ WF_vars(GoStale)
    /\ WF_vars(\E b \in Buckets : Select(b))
    /\ \A b \in Buckets :
          /\ WF_vars(Run(b)) /\ WF_vars(Due(b)) /\ WF_vars(Expire(b))
          /\ WF_vars(Generate(b) \/ FailGeneration(b))
          /\ SF_vars(Generate(b))

Spec == Init /\ [][Next]_vars /\ Fairness

-----------------------------------------------------------------------------
(* A job that will claim the row when its attempt is stale: it waits for   *)
(* that, or has a run left and has not yet returned Retry.                 *)
InLine(b) ==
    /\ script.score = job[b].score
    /\ \/ job[b].state = "scheduled" /\ (job[b].early \/ ~script.fresh)
       \/ ~job[b].asked /\ job[b].state = "queued"
       \/ ~job[b].asked /\ job[b].state = "started" /\ job[b].left > 0

(* A script is not left GENERATING by a run that has died if one more job  *)
(* stands in line, unless another run dies: the selection passes such a    *)
(* row over, so that a job that already exists must end it.  Its place in  *)
(* line is not kept: once its Retry is used up, another job may claim the  *)
(* stale row first, and it is over when that job's run dies as well.       *)
AbandonedScriptsEnd ==
    \A d \in 0..MaxDeaths :
        script.status = "GENERATING" /\ deaths = d /\ (\E b \in Buckets : InLine(b))
            ~> script.status \in {"GENERATED", "FAILED"} \/ deaths # d

Stranded ==
    /\ script.status = "GENERATING"
    /\ \A b \in Buckets : job[b].state \in {"absent", "over"}

(* An article that stays chosen gets its script at last, whatever jobs of  *)
(* two buckets with different scores do to each other and however often    *)
(* generation fails, unless a run has died and no job was left to follow.  *)
ScriptsGetWritten ==
    listed ~> script.status = "GENERATED" \/ ~listed \/ Stranded

=============================================================================
