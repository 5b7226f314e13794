---------------------------- MODULE NewsAnalysis ----------------------------
(***************************************************************************)
(* The three analysis stages of one news intake (metadata, relevance,      *)
(* priority): the rows, the RQ jobs that carry a stage out and hand over   *)
(* to the next one after their commit, and the two recovery jobs that      *)
(* enqueue a stage again whose row was left PENDING.                       *)
(*                                                                         *)
(* RQ is external.  A job id is unique while its hash exists: a job is     *)
(* queued, started, and over when it has finished or failed; a failed run  *)
(* is queued again while it has retries left; the hash of a job that is    *)
(* over stays for its TTL.  A run of a job is one transaction, then the enqueue of    *)
(* the next stage.                                                         *)
(***************************************************************************)
EXTENDS Naturals

CONSTANT MaxRetries      \* rq_max_retries

ASSUME RetriesAssumption == MaxRetries \in Nat

Stages == {"metadata", "relevance", "priority"}

VARIABLES metadata,     \* status of the article metadata
          relevance,    \* status and decision of the relevance analysis
          priority,     \* status of the priority analysis
          hash,         \* the RQ hash of each stage's job
          retries,      \* retries_left of each job
          at            \* the step of a started job's run

vars == <<metadata, relevance, priority, hash, retries, at>>

rows == <<metadata, relevance, priority>>

TypeOK ==
    /\ metadata \in {"PENDING", "READY", "UNAVAILABLE", "FAILED"}
    /\ relevance \in {"PENDING", "ACCEPTED", "REVIEW", "REJECTED"}
    /\ priority \in {"ABSENT", "PENDING", "ANALYZED"}
    /\ hash \in [Stages -> {"absent", "queued", "started", "over"}]
    /\ retries \in [Stages -> 0..MaxRetries]
    /\ at \in [Stages -> {"none", "transaction", "handover"}]

(* The intake has been registered, with or without its metadata job: the   *)
(* run of NewsDiscovery may have ended before it was enqueued.             *)
Init ==
    /\ metadata = "PENDING"
    /\ relevance = "PENDING"
    /\ priority = "ABSENT"
    /\ \E m \in {"absent", "queued"} :
          hash = [s \in Stages |-> IF s = "metadata" THEN m ELSE "absent"]
    /\ retries = [s \in Stages |-> MaxRetries]
    /\ at = [s \in Stages |-> "none"]

-----------------------------------------------------------------------------
Eligible == relevance \in {"ACCEPTED", "REVIEW"}

(* Queue.enqueue with a unique job id. *)
Unique(s) == hash[s] = "absent"

Enqueued(h, s) == [h EXCEPT ![s] = "queued"]

Start(s) ==
    /\ hash[s] = "queued"
    /\ hash' = [hash EXCEPT ![s] = "started"]
    /\ at' = [at EXCEPT ![s] = "transaction"]
    /\ UNCHANGED <<rows, retries>>

Running(s, step) == at[s] = step

Finished(s) ==
    /\ hash' = [hash EXCEPT ![s] = "over"]
    /\ at' = [at EXCEPT ![s] = "none"]

(* process_news_metadata, the transaction: an extracted page hands over to *)
(* the relevance analysis, another outcome ends the job.                   *)
ExtractMetadata ==
    /\ Running("metadata", "transaction")
    /\ metadata = "PENDING"
    /\ metadata' = "READY"
    /\ IF relevance = "PENDING"
         THEN at' = [at EXCEPT !["metadata"] = "handover"] /\ UNCHANGED hash
         ELSE Finished("metadata")
    /\ UNCHANGED <<relevance, priority, retries>>

RejectMetadata ==
    /\ Running("metadata", "transaction")
    /\ metadata = "PENDING"
    /\ metadata' \in {"UNAVAILABLE", "FAILED"}
    /\ Finished("metadata")
    /\ UNCHANGED <<relevance, priority, retries>>

(* The enqueue after the commit; a DuplicateJobError is not caught here.   *)
HandOverRelevance ==
    /\ Running("metadata", "handover")
    /\ Unique("relevance")
    /\ hash' = Enqueued([hash EXCEPT !["metadata"] = "over"], "relevance")
    /\ at' = [at EXCEPT !["metadata"] = "none"]
    /\ UNCHANGED <<rows, retries>>

(* process_news_relevance, the transaction: the decision, and the priority *)
(* row of an eligible news item.                                           *)
AnalyzeRelevance ==
    /\ Running("relevance", "transaction")
    /\ metadata = "READY" /\ relevance = "PENDING"
    /\ \/ /\ relevance' \in {"ACCEPTED", "REVIEW"}
          /\ priority' = IF priority = "ABSENT" THEN "PENDING" ELSE priority
          /\ IF priority' = "PENDING"
               THEN at' = [at EXCEPT !["relevance"] = "handover"]
                      /\ UNCHANGED hash
               ELSE Finished("relevance")
       \/ /\ relevance' = "REJECTED"
          /\ UNCHANGED priority
          /\ Finished("relevance")
    /\ UNCHANGED <<metadata, retries>>

(* The enqueue after the commit; a DuplicateJobError is caught. *)
HandOverPriority ==
    /\ Running("relevance", "handover")
    /\ LET done == [hash EXCEPT !["relevance"] = "over"]
       IN  hash' = IF Unique("priority") THEN Enqueued(done, "priority")
                                         ELSE done
    /\ at' = [at EXCEPT !["relevance"] = "none"]
    /\ UNCHANGED <<rows, retries>>

(* process_news_priority. *)
AnalyzePriority ==
    /\ Running("priority", "transaction")
    /\ metadata = "READY" /\ Eligible /\ priority = "PENDING"
    /\ priority' = "ANALYZED"
    /\ Finished("priority")
    /\ UNCHANGED <<metadata, relevance, retries>>

(* A run raises (a service fails, a row is not in the status the stage     *)
(* requires, the next job exists), times out, or its worker dies.          *)
Fail(s) ==
    /\ at[s] # "none"
    /\ at' = [at EXCEPT ![s] = "none"]
    /\ IF retries[s] > 0
         THEN /\ hash' = Enqueued(hash, s)
              /\ retries' = [retries EXCEPT ![s] = @ - 1]
         ELSE hash' = [hash EXCEPT ![s] = "over"] /\ UNCHANGED retries
    /\ UNCHANGED <<rows>>

(* The TTL of the result or of the failure has passed, and with the hash   *)
(* go its retries: the next job of the stage has all of them.              *)
Expire(s) ==
    /\ hash[s] = "over"
    /\ hash' = [hash EXCEPT ![s] = "absent"]
    /\ retries' = [retries EXCEPT ![s] = MaxRetries]
    /\ UNCHANGED <<rows, at>>

(* recover_pending_news_relevance; a duplicate changes nothing. *)
RecoverRelevance ==
    /\ metadata = "READY" /\ relevance = "PENDING"
    /\ Unique("relevance")
    /\ hash' = Enqueued(hash, "relevance")
    /\ UNCHANGED <<rows, retries, at>>

(* (Mutated form of RecoverPriority: news to be reviewed is forgotten.) *)
RecoverAccepted ==
    /\ metadata = "READY" /\ relevance = "ACCEPTED" /\ priority = "PENDING"
    /\ Unique("priority")
    /\ hash' = Enqueued(hash, "priority")
    /\ UNCHANGED <<rows, retries, at>>

(* recover_pending_news_priority; a duplicate changes nothing. *)
RecoverPriority ==
    /\ metadata = "READY" /\ Eligible /\ priority = "PENDING"
    /\ Unique("priority")
    /\ hash' = Enqueued(hash, "priority")
    /\ UNCHANGED <<rows, retries, at>>

(* set_news_metadata; nothing is enqueued. *)
EnterManually ==
    /\ metadata \in {"PENDING", "UNAVAILABLE"}
    /\ metadata' = "READY"
    /\ UNCHANGED <<relevance, priority, hash, retries, at>>

Next ==
    \/ ExtractMetadata \/ RejectMetadata \/ HandOverRelevance
    \/ AnalyzeRelevance \/ HandOverPriority
    \/ AnalyzePriority
    \/ RecoverRelevance \/ RecoverPriority
    \/ EnterManually
    \/ \E s \in Stages : Start(s) \/ Fail(s) \/ Expire(s)

(***************************************************************************)
(* Fairness: the queue is first in, first out, so a job that is queued     *)
(* again and again is started; a run that does not end otherwise is ended  *)
(* by its timeout; RQ expires hashes; the scheduler enqueues the recovery  *)
(* jobs every few minutes; an analyzer that is called again and again      *)
(* answers at last.  Nothing is assumed of the metadata stage, nor that a  *)
(* handover is ever made.                                                  *)
(***************************************************************************)
Fairness ==
    /\ \A s \in {"relevance", "priority"} :
          /\ SF_vars(Start(s))
          /\ WF_vars(Expire(s))
          /\ WF_vars(Fail(s))
    /\ WF_vars(RecoverRelevance) /\ WF_vars(RecoverPriority)
    /\ SF_vars(AnalyzeRelevance) /\ SF_vars(AnalyzePriority)

Spec == Init /\ [][Next]_vars /\ Fairness

-----------------------------------------------------------------------------
(* News whose metadata are extracted or entered is rejected or gets its    *)
(* priority at last, though every run may die between its commit and the   *)
(* enqueue of the next stage, and a hash that is left keeps a job's id.    *)
NewsGetsAnalyzed ==
    metadata = "READY" ~> relevance = "REJECTED" \/ priority = "ANALYZED"

=============================================================================
