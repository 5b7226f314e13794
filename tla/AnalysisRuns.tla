---------------------------- MODULE AnalysisRuns ----------------------------
(***************************************************************************)
(* The runs of process_news_relevance and process_news_priority on one     *)
(* news intake whose metadata is ready.  A run is a single transaction     *)
(* that stays open while the analyzer is called over the network: it reads *)
(* the analysis, calls the analyzer, derives the new object from the one   *)
(* it has read, reads the record again and writes it (READ COMMITTED).     *)
(* The row lock of that UPDATE is held to the commit, so the write and the *)
(* rest of the transaction are one step.                                   *)
(*                                                                         *)
(* RQ, which is external, delivers at least once: it starts a job again    *)
(* after a failure, and when it takes a run for abandoned that is still    *)
(* going on, so a job has as many runs at a time as the set of its runs    *)
(* has elements.  The score of the priority analysis is represented by the *)
(* relevance score the analyzer was given.                                 *)
(*                                                                         *)
(* The UPDATE of the analysis compares nothing, so that of two relevance   *)
(* runs that overlap the later one overwrites a committed decision;        *)
(* `overtaken' records that this has happened.                             *)
(***************************************************************************)
EXTENDS RankingPolicy

CONSTANTS RelevanceRuns,     \* runs of the relevance job
          PriorityRuns,      \* runs of the priority job
          Scores             \* what the relevance analyzer may answer

ASSUME ScoresAssumption == Scores \subseteq ScoreRange

Row == INSTANCE GenerationRow

VARIABLES relevance,    \* the row of news_relevance_analyses
          priority,     \* the row of news_priority_analyses
          enqueued,     \* the priority job has been enqueued
          judge,        \* each relevance run
          rater,        \* each priority run
          overtaken     \* history: a run that had read a PENDING analysis
                        \* has written over one committed in the meantime

vars == <<relevance, priority, enqueued, judge, rater, overtaken>>

NoScore == -1

RelevanceRows == [status : {"PENDING", "ANALYZED"},
                  score : {NoScore} \cup Scores,
                  decision : {"NONE", "ACCEPTED", "REVIEW", "REJECTED"}]

PriorityRows == [status : {"ABSENT", "PENDING", "ANALYZED"},
                 basis : {NoScore} \cup Scores]

PendingRelevance ==
    [status |-> "PENDING", score |-> NoScore, decision |-> "NONE"]

(* A run: its step, the analysis read first, the record read again, and    *)
(* the score to be written.                                                *)
IdleJudge == [at |-> "idle", read |-> PendingRelevance,
              record |-> PendingRelevance, score |-> NoScore]

NoPriority == [status |-> "ABSENT", basis |-> NoScore]

IdleRater == [at |-> "idle", read |-> NoPriority, record |-> NoPriority,
              basis |-> NoScore]

TypeOK ==
    /\ relevance \in RelevanceRows
    /\ priority \in PriorityRows
    /\ enqueued \in BOOLEAN
    /\ judge \in [RelevanceRuns ->
          [at : {"idle", "analyzer", "write", "enqueue"},
           read : RelevanceRows, record : RelevanceRows,
           score : {NoScore} \cup Scores]]
    /\ rater \in [PriorityRuns ->
          [at : {"idle", "analyzer", "write"},
           read : PriorityRows, record : PriorityRows,
           basis : {NoScore} \cup Scores]]
    /\ overtaken \in BOOLEAN

Init ==
    /\ relevance = PendingRelevance
    /\ priority = NoPriority
    /\ enqueued = FALSE
    /\ judge = [r \in RelevanceRuns |-> IdleJudge]
    /\ rater = [p \in PriorityRuns |-> IdleRater]
    /\ overtaken = FALSE

-----------------------------------------------------------------------------
EligibleDecision == relevance.decision \in {"ACCEPTED", "REVIEW"}

ReadRelevance(r) ==
    /\ judge[r].at = "idle"
    /\ judge' = [judge EXCEPT ![r].at = "analyzer", ![r].read = relevance]
    /\ UNCHANGED <<relevance, priority, enqueued, rater, overtaken>>

(* (Mutated form of RequirePending: an analysis may be made again.) *)
AnyStatus(analysis) == analysis.status \in {"PENDING", "ANALYZED"}

(* record_analyzed raises for an analysis that is not PENDING.             *)
RequirePending(analysis) == analysis.status = "PENDING"

(* The analyzer answers; update reads the record again. *)
JudgeRelevance(r) ==
    /\ judge[r].at = "analyzer"
    /\ RequirePending(judge[r].read)
    /\ \E s \in Scores :
          judge' = [judge EXCEPT ![r].at = "write", ![r].score = s,
                                 ![r].record = relevance]
    /\ UNCHANGED <<relevance, priority, enqueued, rater, overtaken>>

(* The row after the flush of an analysis with this score. *)
Analyzed(row, seen, score) ==
    Row!Flushed(row, seen, [status |-> "ANALYZED", score |-> score,
                            decision |-> Decision(score)])

(* An eligible decision creates the priority row that is missing. *)
WithPriorityRow(row, score) ==
    IF Eligible(score) /\ row.status = "ABSENT"
      THEN [status |-> "PENDING", basis |-> NoScore] ELSE row

(* Another run has committed since this one began. *)
Overtakes(r) ==
    judge[r].read.status = "PENDING" /\ relevance.status # "PENDING"

(* The flush, the priority row and the commit. *)
WriteRelevance(r) ==
    LET score == judge[r].score
    IN  /\ judge[r].at = "write"
        /\ relevance' = Analyzed(relevance, judge[r].record, score)
        /\ priority' = WithPriorityRow(priority, score)
        /\ judge' = [judge EXCEPT ![r] =
              IF Eligible(score) /\ priority'.status = "PENDING"
                THEN [IdleJudge EXCEPT !.at = "enqueue"] ELSE IdleJudge]
        /\ overtaken' = (overtaken \/ Overtakes(r))
        /\ UNCHANGED <<enqueued, rater>>

(* After the commit; a duplicate is counted and passed over. *)
EnqueuePriority(r) ==
    /\ judge[r].at = "enqueue"
    /\ enqueued' = TRUE
    /\ judge' = [judge EXCEPT ![r] = IdleJudge]
    /\ UNCHANGED <<relevance, priority, rater, overtaken>>

(* The run raises or its worker dies: the transaction is rolled back. *)
JudgeDies(r) ==
    /\ judge[r].at # "idle"
    /\ judge' = [judge EXCEPT ![r] = IdleJudge]
    /\ UNCHANGED <<relevance, priority, enqueued, rater, overtaken>>

-----------------------------------------------------------------------------
(* Both stages require an eligible decision and a priority row. *)
ReadyForPriority ==
    /\ relevance.status = "ANALYZED" /\ EligibleDecision
    /\ priority.status # "ABSENT"

ReadPriority(p) ==
    /\ rater[p].at = "idle"
    /\ enqueued
    /\ ReadyForPriority
    /\ rater' = [rater EXCEPT ![p].at = "analyzer", ![p].read = priority,
                              ![p].basis = relevance.score]
    /\ UNCHANGED <<relevance, priority, enqueued, judge, overtaken>>

RatePriority(p) ==
    /\ rater[p].at = "analyzer"
    /\ RequirePending(rater[p].read)
    /\ rater' = [rater EXCEPT ![p].at = "write", ![p].record = priority]
    /\ UNCHANGED <<relevance, priority, enqueued, judge, overtaken>>

(* The flush and the commit. *)
WritePriority(p) ==
    /\ rater[p].at = "write"
    /\ priority' = Row!Flushed(priority, rater[p].record,
                       [status |-> "ANALYZED", basis |-> rater[p].basis])
    /\ rater' = [rater EXCEPT ![p] = IdleRater]
    /\ UNCHANGED <<relevance, enqueued, judge, overtaken>>

RaterDies(p) ==
    /\ rater[p].at # "idle"
    /\ rater' = [rater EXCEPT ![p] = IdleRater]
    /\ UNCHANGED <<relevance, priority, enqueued, judge, overtaken>>

(* recover_pending_news_priority, which takes up what a run that died      *)
(* after its commit has left.                                              *)
RecoverPriority ==
    /\ priority.status = "PENDING" /\ ReadyForPriority
    /\ enqueued' = TRUE
    /\ UNCHANGED <<relevance, priority, judge, rater, overtaken>>

Next ==
    \/ \E r \in RelevanceRuns :
          \/ ReadRelevance(r) \/ JudgeRelevance(r) \/ WriteRelevance(r)
          \/ EnqueuePriority(r) \/ JudgeDies(r)
    \/ \E p \in PriorityRuns :
          \/ ReadPriority(p) \/ RatePriority(p) \/ WritePriority(p)
          \/ RaterDies(p)
    \/ RecoverPriority

Spec == Init /\ [][Next]_vars

-----------------------------------------------------------------------------
(* Rejected news has no priority, and a priority was rated for the very    *)
(* relevance score that the row holds: until a relevance run has           *)
(* overwritten a decision that another one committed while it was at its   *)
(* analyzer.  A job that is only run again, however often, does not.       *)
PriorityMatchesRelevance ==
    \/ overtaken
    \/ /\ priority.status # "ABSENT" => EligibleDecision
       /\ priority.status = "ANALYZED" => priority.basis = relevance.score

=============================================================================
