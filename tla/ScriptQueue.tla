---------------------------- MODULE ScriptQueue ----------------------------
(***************************************************************************)
(* enqueue_ranked_news_scripts against the script workers.  A dispatcher   *)
(* ranks the eligible articles with one query, then reads the script row   *)
(* of each in turn (READ COMMITTED: each read sees what has been committed *)
(* by then) until it has Limit candidates, and enqueues a job for each     *)
(* under an id made of the article and the time bucket.  A script job      *)
(* carries a ranking score, and the row its first run inserts keeps it.    *)
(* The steps of a script run are those of ScriptGeneration; here a run     *)
(* starts, ends or is lost.                                                *)
(***************************************************************************)
EXTENDS RankingPolicy, Sequences

CONSTANTS
    Ids,          \* intake ids, in the order of their strings
    Relevance,    \* analysed scores of each article
    Priority,
    Published,    \* publication in seconds, or Undated
    Dispatchers,  \* workers that run the job
    MinScore,     \* min_ranking_score
    Limit,        \* limit
    BucketWidth,  \* enqueue_interval_seconds
    TickWidth,    \* seconds between two instants explored
    MaxTime       \* bound of the clock

ASSUME QueueAssumption ==
    /\ Ids \subseteq Nat /\ IsFiniteSet(Ids)
    /\ Relevance \in [Ids -> ScoreRange] /\ Priority \in [Ids -> ScoreRange]
    /\ Published \in [Ids -> Int \cup {Undated}]
    /\ MinScore \in ScoreRange
    /\ Limit \in 1..50
    /\ BucketWidth \in Nat \ {0} /\ TickWidth \in Nat /\ MaxTime \in Nat

VARIABLES now,     \* the clock, in seconds
          row,     \* script row of each article
          jobs,    \* script jobs waiting in RQ
          ids,     \* job ids RQ knows: no hash expires within MaxTime
          disp     \* each dispatcher's run

vars == <<now, row, jobs, ids, disp>>

Statuses == {"NONE", "GENERATING", "GENERATED", "FAILED"}

Jobs == [id : Ids, score : ScoreRange, known : BOOLEAN]

DispStates ==
    [pc : {"idle", "select", "enqueue"},
     asOf : Nat,              \* when the articles were ranked
     left : SUBSET Ids,       \* candidates not examined yet
     chosen : Seq(Jobs),
     bucket : Nat,
     next : Nat \ {0}]        \* index of the candidate to enqueue next

TypeOK ==
    /\ now \in Nat
    /\ row \in [Ids -> [status : Statuses, score : ScoreRange]]
    /\ jobs \subseteq Jobs
    /\ ids \subseteq [id : Ids, bucket : Nat]
    /\ disp \in [Dispatchers -> DispStates]

Idle == [pc |-> "idle", asOf |-> 0, left |-> {}, chosen |-> <<>>,
         bucket |-> 0, next |-> 1]

Init ==
    /\ now = 0
    /\ row = [i \in Ids |-> [status |-> "NONE", score |-> 0]]
    /\ jobs = {}
    /\ ids = {}
    /\ disp = [d \in Dispatchers |-> Idle]

-----------------------------------------------------------------------------
(* A ranked candidate, as rank_news_candidates computes it at time t. *)
Candidate(i, t) ==
    LET freshness == FreshnessScore(Published[i], t)
    IN  [id |-> i, published |-> Published[i], priority |-> Priority[i],
         freshness |-> freshness,
         ranking |-> RankingScore(Relevance[i], Priority[i], freshness)]

Better(i, j, t) == RanksBefore(Candidate(i, t), Candidate(j, t))

(* (Mutated form of Qualified: the freshness test is forgotten.) *)
QualifiedByScore(t) ==
    {i \in Ids : /\ Eligible(Relevance[i])
                 /\ Candidate(i, t).ranking >= MinScore}

(* The candidates that pass the score and freshness tests. *)
Qualified(t) ==
    {i \in Ids : /\ Eligible(Relevance[i])
                 /\ Candidate(i, t).ranking >= MinScore
                 /\ Candidate(i, t).freshness > 0}

(* (Mutated form of Chosen: the score of the day, also for a row that      *)
(* exists.)                                                                *)
ChosenAtCurrentScore(i, t) ==
    [id |-> i, known |-> row[i].status # "NONE",
     score |-> Candidate(i, t).ranking]

(* A new article gets the score of the ranking, a failed one keeps that of *)
(* its row.                                                                *)
Chosen(i, t) ==
    [id |-> i, known |-> row[i].status # "NONE",
     score |-> IF row[i].status = "NONE" THEN Candidate(i, t).ranking
                                         ELSE row[i].score]

(* list_eligible_candidates and the sort, one statement. *)
Rank(d) ==
    /\ disp[d].pc = "idle"
    /\ disp' = [disp EXCEPT ![d] = [Idle EXCEPT !.pc = "select", !.asOf = now,
                                                !.left = Qualified(now)]]
    /\ UNCHANGED <<now, row, jobs, ids>>

(* (Mutated form of Done: the limit is one of the candidates examined.) *)
DoneExamining(run) ==
    \/ run.left = {}
    \/ Cardinality(Qualified(run.asOf) \ run.left) >= Limit

(* The end of the selection loop. *)
Done(run) == run.left = {} \/ Len(run.chosen) >= Limit

(* One iteration of the loop. *)
Examine(d, i) ==
    LET run == disp[d]
        free == row[i].status \in {"NONE", "FAILED"}
    IN  /\ run.pc = "select" /\ ~Done(run)
        /\ i \in run.left
        /\ \A j \in run.left \ {i} : Better(i, j, run.asOf)
        /\ disp' = [disp EXCEPT
               ![d].left = @ \ {i},
               ![d].chosen = IF free THEN Append(@, Chosen(i, run.asOf)) ELSE @]
        /\ UNCHANGED <<now, row, jobs, ids>>

(* The session ends; the clock is read again for the bucket. *)
Selected(d) ==
    /\ disp[d].pc = "select" /\ Done(disp[d])
    /\ disp' = [disp EXCEPT ![d].pc = "enqueue", ![d].left = {},
                            ![d].bucket = now \div BucketWidth]
    /\ UNCHANGED <<now, row, jobs, ids>>

(* The next candidate; DuplicateJobError is counted and passed over. *)
EnqueueNext(d) ==
    LET run == disp[d]
        job == run.chosen[run.next]
        id == [id |-> job.id, bucket |-> run.bucket]
    IN  /\ run.pc = "enqueue"
        /\ run.next <= Len(run.chosen)
        /\ \/ /\ id \notin ids
              /\ ids' = ids \cup {id}
              /\ jobs' = jobs \cup {job}
           \/ /\ id \in ids
              /\ UNCHANGED <<ids, jobs>>
        /\ disp' = [disp EXCEPT ![d].next = @ + 1]
        /\ UNCHANGED <<now, row>>

(* The end of the job, or its death at any step. *)
Return(d) ==
    /\ disp[d].pc # "idle"
    /\ disp' = [disp EXCEPT ![d] = Idle]
    /\ UNCHANGED <<now, row, jobs, ids>>

-----------------------------------------------------------------------------
Accepted(j) ==
    \/ row[j.id].status = "NONE"
    \/ row[j.id].status = "FAILED" /\ row[j.id].score = j.score

(* A script run inserts or claims the row. *)
StartScript(j) ==
    /\ j \in jobs
    /\ Accepted(j)
    /\ row' = [row EXCEPT ![j.id] = [status |-> "GENERATING", score |-> j.score]]
    /\ jobs' = jobs \ {j}
    /\ UNCHANGED <<now, ids, disp>>

(* NewsScriptGenerationRankingScoreMismatchError until the retries are     *)
(* spent, or nothing left to do.                                           *)
RefuseScript(j) ==
    /\ j \in jobs
    /\ ~Accepted(j)
    /\ jobs' = jobs \ {j}
    /\ UNCHANGED <<now, row, ids, disp>>

(* The run ends; one that is lost leaves the row GENERATING until RQ       *)
(* retries the job, which is when it ends here.                            *)
EndScript(i, outcome) ==
    /\ row[i].status = "GENERATING"
    /\ row' = [row EXCEPT ![i].status = outcome]
    /\ UNCHANGED <<now, jobs, ids, disp>>

Tick ==
    /\ now < MaxTime
    /\ now' = now + TickWidth
    /\ UNCHANGED <<row, jobs, ids, disp>>

Next ==
    \/ \E d \in Dispatchers :
          \/ Rank(d) \/ Selected(d) \/ EnqueueNext(d) \/ Return(d)
          \/ \E i \in Ids : Examine(d, i)
    \/ \E j \in jobs : StartScript(j) \/ RefuseScript(j)
    \/ \E i \in Ids : \E outcome \in {"GENERATED", "FAILED"} :
          EndScript(i, outcome)
    \/ Tick

Spec == Init /\ [][Next]_vars

-----------------------------------------------------------------------------
(* A script row never holds a score under the bar, however much the        *)
(* article's freshness has decayed since it was ranked, and no article     *)
(* without a date or rejected as irrelevant gets one.                      *)
RowsReachedTheBar ==
    \A i \in Ids : row[i].status # "NONE" =>
        /\ row[i].score \in MinScore..100
        /\ Published[i] # Undated
        /\ Eligible(Relevance[i])

(* The job of an article that already had a row when it was selected is    *)
(* never refused for its score, although the article has aged since and    *)
(* the row may have been run again in between.                             *)
RetriesKeepTheScore ==
    \A j \in jobs : j.known => j.score = row[j.id].score

ChosenIds(run) == {run.chosen[n].id : n \in DOMAIN run.chosen}

(* The loop selects the best, whatever workers do to the rows while it     *)
(* reads them: the selection is in the order of the ranking, and an        *)
(* article that qualified, is not in it and has no script row to this day  *)
(* was left out for Limit others, each of which outranks it.  What the     *)
(* loop passes over, because it has a script or a run, takes nobody's      *)
(* place.                                                                  *)
BestAreChosen ==
    \A d \in Dispatchers : disp[d].pc = "enqueue" =>
        LET run == disp[d]
        IN  /\ Len(run.chosen) <= Limit
            /\ \A m, n \in DOMAIN run.chosen :
                  m < n => Better(run.chosen[m].id, run.chosen[n].id, run.asOf)
            /\ \A i \in Qualified(run.asOf) \ ChosenIds(run) :
                  row[i].status = "NONE" =>
                      /\ Len(run.chosen) = Limit
                      /\ \A c \in ChosenIds(run) : Better(c, i, run.asOf)

=============================================================================
