--------------------------- MODULE NarrationQueue ---------------------------
(***************************************************************************)
(* From generated scripts to narration jobs, for several productions: the  *)
(* two batch jobs create_news_media_production_intakes and                 *)
(* prepare_news_narration_audio_jobs, the RQ jobs the second one enqueues  *)
(* after its commit, and the runs of those jobs.                           *)
(*                                                                         *)
(* A narration job is named by a production and an attempt number but only *)
(* carries the production, so a late job may run another attempt than the  *)
(* one it is named by.  RQ is external, as in NewsAnalysis.  A run that    *)
(* outlives its attempt is the subject of NarrationAudio: here an attempt  *)
(* goes stale only when its run is gone.  A row that cannot be loaded and  *)
(* a changed speech configuration, which make the whole batch raise, do    *)
(* not occur here.                                                         *)
(***************************************************************************)
EXTENDS Integers, FiniteSets

CONSTANTS Productions,    \* numbered as their scripts are completed
          Limit,          \* limit of both batch jobs
          MaxRetries,     \* rq_max_retries
          MaxFailures     \* bound: failing runs and dying processes explored

ASSUME NarrationAssumption ==
    /\ Productions \subseteq Nat /\ IsFiniteSet(Productions)
    /\ Limit \in 1..50
    /\ MaxRetries \in Nat /\ MaxFailures \in Nat

VARIABLES script,     \* productions whose script is GENERATED
          media,      \* productions with a media row
          audio,      \* narration audio row of each production
          hash,       \* the RQ hash of each job
          retries,    \* its retries_left
          run,        \* the step of its run
          todo,       \* jobs the current batch has still to enqueue
          failures

rows == <<script, media, audio>>
rq == <<hash, retries, run>>
qvars == <<rows, rq, todo, failures>>

(* An attempt that is not the first costs a failure. *)
Jobs == Productions \X (1..MaxFailures + 1)

AudioRows == [status : {"NONE", "PENDING", "GENERATING", "GENERATED", "FAILED"},
              attempt : 0..MaxFailures + 1,
              stale : BOOLEAN]

QueueTypeOK ==
    /\ script \subseteq Productions
    /\ media \subseteq Productions
    /\ audio \in [Productions -> AudioRows]
    /\ hash \in [Jobs -> {"absent", "queued", "started", "finished", "failed"}]
    /\ retries \in [Jobs -> 0..MaxRetries]
    /\ run \in [Jobs -> {"none", "claim", "speech"}]
    /\ todo \subseteq Jobs
    /\ failures \in 0..MaxFailures

QueueInit ==
    /\ script = {}
    /\ media = {}
    /\ audio = [p \in Productions |->
                  [status |-> "NONE", attempt |-> 0, stale |-> FALSE]]
    /\ hash = [j \in Jobs |-> "absent"]
    /\ retries = [j \in Jobs |-> 0]
    /\ run = [j \in Jobs |-> "none"]
    /\ todo = {}
    /\ failures = 0

-----------------------------------------------------------------------------
(* The order and the limit of both candidate queries: scripts as they were *)
(* completed, productions as they were created.  (Productions created by   *)
(* one batch share created_at; their ids, which decide then, are taken to  *)
(* be in the order of the scripts.)                                        *)
FirstOf(S) == {p \in S : Cardinality({q \in S : q < p}) < Limit}

(* (Mutated forms of Claimable: what is being generated is taken over, or  *)
(* is never taken over.)                                                   *)
ClaimableAnyTime(p) == audio[p].status \in {"PENDING", "FAILED", "GENERATING"}

ClaimableNotStale(p) == audio[p].status \in {"PENDING", "FAILED"}

(* Waiting, failed, or generating since before the timeout. *)
Claimable(p) ==
    \/ audio[p].status \in {"PENDING", "FAILED"}
    \/ audio[p].status = "GENERATING" /\ audio[p].stale

NeedsNarration(p) == audio[p].status = "NONE" \/ Claimable(p)

Production(j) == j[1]

(* (Mutated form of NextJob: one attempt too far.) *)
JobAfterNext(p) == <<p, audio[p].attempt + 2>>

NextJob(p) == <<p, audio[p].attempt + 1>>

(* Scripts are numbered in the order in which they are completed. *)
FinishScript(p) ==
    /\ p \notin script
    /\ \A q \in Productions : q < p => q \in script
    /\ script' = script \cup {p}
    /\ UNCHANGED <<media, audio, rq, todo, failures>>

(* create_news_media_production_intakes, one transaction. *)
CreateIntakes ==
    /\ script \ media # {}
    /\ media' = media \cup FirstOf(script \ media)
    /\ UNCHANGED <<script, audio, rq, todo, failures>>

(* The transaction of prepare_news_narration_audio_jobs: rows are inserted *)
(* for productions that have none.                                         *)
Prepare ==
    LET batch == FirstOf({p \in media : NeedsNarration(p)})
    IN  /\ todo = {}
        /\ batch # {}
        /\ audio' = [p \in Productions |->
                       IF p \in batch /\ audio[p].status = "NONE"
                         THEN [audio[p] EXCEPT !.status = "PENDING"]
                         ELSE audio[p]]
        /\ todo' = {NextJob(p) : p \in batch}
        /\ UNCHANGED <<script, media, rq, failures>>

(* After the commit; DuplicateJobError is counted and passed over. *)
EnqueueNext(j) ==
    /\ j \in todo
    /\ todo' = todo \ {j}
    /\ IF hash[j] = "absent"
         THEN /\ hash' = [hash EXCEPT ![j] = "queued"]
              /\ retries' = [retries EXCEPT ![j] = MaxRetries]
         ELSE UNCHANGED <<hash, retries>>
    /\ UNCHANGED <<rows, run, failures>>

(* The batch dies or Redis fails between the commit and an enqueue. *)
BatchDies ==
    /\ todo # {}
    /\ failures < MaxFailures
    /\ failures' = failures + 1
    /\ todo' = {}
    /\ UNCHANGED <<rows, rq>>

-----------------------------------------------------------------------------
Start(j) ==
    /\ hash[j] = "queued"
    /\ hash' = [hash EXCEPT ![j] = "started"]
    /\ run' = [run EXCEPT ![j] = "claim"]
    /\ UNCHANGED <<rows, retries, todo, failures>>

(* RQ after a run that asked for a retry or raised.  (The retry asked for  *)
(* is counted with the others.)                                            *)
Requeued(j) ==
    /\ run' = [run EXCEPT ![j] = "none"]
    /\ IF retries[j] > 0
         THEN /\ hash' = [hash EXCEPT ![j] = "queued"]
              /\ retries' = [retries EXCEPT ![j] = @ - 1]
         ELSE hash' = [hash EXCEPT ![j] = "failed"] /\ UNCHANGED retries

Finished(j) ==
    /\ run' = [run EXCEPT ![j] = "none"]
    /\ hash' = [hash EXCEPT ![j] = "finished"]
    /\ UNCHANGED retries

(* Transaction 1 of process_news_narration_audio. *)
Claim(j) ==
    LET p == Production(j)
    IN  /\ run[j] = "claim"
        /\ Claimable(p)
        /\ audio' = [audio EXCEPT ![p] = [status |-> "GENERATING",
                                          attempt |-> @.attempt + 1,
                                          stale |-> FALSE]]
        /\ run' = [run EXCEPT ![j] = "speech"]
        /\ UNCHANGED <<script, media, hash, retries, todo, failures>>

(* Nothing to claim: Retry while another run is at it, else already done. *)
NotClaimed(j) ==
    /\ run[j] = "claim"
    /\ ~Claimable(Production(j))
    /\ IF audio[Production(j)].status = "GENERATING" THEN Requeued(j)
                                                     ELSE Finished(j)
    /\ UNCHANGED <<rows, todo, failures>>

(* The narration is stored and recorded. *)
Speak(j) ==
    /\ run[j] = "speech"
    /\ audio' = [audio EXCEPT ![Production(j)].status = "GENERATED"]
    /\ Finished(j)
    /\ UNCHANGED <<script, media, todo, failures>>

(* Speech or storage fails: the row is FAILED and the job is finished.     *)
SpeechFails(j) ==
    /\ run[j] = "speech"
    /\ failures < MaxFailures
    /\ failures' = failures + 1
    /\ audio' = [audio EXCEPT ![Production(j)].status = "FAILED"]
    /\ Finished(j)
    /\ UNCHANGED <<script, media, todo>>

(* The run raises outside the try, or its worker dies. *)
RunDies(j) ==
    /\ run[j] # "none"
    /\ failures < MaxFailures
    /\ failures' = failures + 1
    /\ Requeued(j)
    /\ UNCHANGED <<rows, todo>>

(* rq_job_timeout_seconds have passed since a claim whose run is gone. *)
GoStale(p) ==
    /\ audio[p].status = "GENERATING" /\ ~audio[p].stale
    /\ \A j \in Jobs : Production(j) = p => run[j] # "speech"
    /\ audio' = [audio EXCEPT ![p].stale = TRUE]
    /\ UNCHANGED <<script, media, rq, todo, failures>>

Expire(j) ==
    /\ hash[j] \in {"finished", "failed"}
    /\ hash' = [hash EXCEPT ![j] = "absent"]
    /\ UNCHANGED <<rows, retries, run, todo, failures>>

QueueNext ==
    \/ \E p \in Productions : FinishScript(p) \/ GoStale(p)
    \/ CreateIntakes \/ Prepare \/ BatchDies
    \/ \E j \in todo : EnqueueNext(j)
    \/ \E j \in Jobs :
          \/ Start(j) \/ Claim(j) \/ NotClaimed(j) \/ Speak(j)
          \/ SpeechFails(j) \/ RunDies(j) \/ Expire(j)

QueueSpec == QueueInit /\ [][QueueNext]_qvars

(***************************************************************************)
(* The scheduler enqueues both batch jobs every five minutes; RQ starts    *)
(* what is queued and drops hashes in the end; a run that neither fails    *)
(* nor dies goes on; time passes.                                          *)
(***************************************************************************)
QueueFairness ==
    /\ WF_qvars(CreateIntakes)
    /\ SF_qvars(Prepare)
    /\ \A p \in Productions : WF_qvars(GoStale(p))
    /\ \A j \in Jobs :
          /\ WF_qvars(EnqueueNext(j)) /\ WF_qvars(Start(j))
          /\ WF_qvars(Claim(j) \/ NotClaimed(j))
          /\ WF_qvars(Speak(j))
          /\ WF_qvars(Expire(j))

FairQueueSpec == QueueSpec /\ QueueFairness

-----------------------------------------------------------------------------
(* Whatever jobs of a production are queued, retried and started at the    *)
(* same time, one run at most narrates it, and only while its row says so. *)
OneNarrator ==
    \A j \in Jobs : run[j] = "speech" =>
        /\ audio[Production(j)].status = "GENERATING"
        /\ ~audio[Production(j)].stale
        /\ \A i \in Jobs \ {j} :
              Production(i) = Production(j) => run[i] # "speech"

(* No job is ahead of its production: an id is used for the next attempt   *)
(* at most, so that attempt can still be enqueued when it is due.          *)
NoJobAhead ==
    \A j \in Jobs : hash[j] # "absent" => j[2] <= audio[Production(j)].attempt + 1

(* Every generated script is narrated at last, with any limit, when only   *)
(* finitely many runs fail.                                                *)
ScriptsAreNarrated ==
    \A p \in Productions : p \in script ~> audio[p].status = "GENERATED"

=============================================================================
