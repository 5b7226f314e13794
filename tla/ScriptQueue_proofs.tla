------------------------- MODULE ScriptQueue_proofs -------------------------
(***************************************************************************)
(* Proofs about ScriptQueue, for any articles, dispatchers, limits and     *)
(* rates of the clock: the sort key orders the candidates strictly and     *)
(* totally; a dispatcher chooses the best; and the score of a job keeps to *)
(* what the bar and the article's row ask of it, from the ranking through  *)
(* the queue to the row.                                                   *)
(***************************************************************************)
EXTENDS ScriptQueue, TLAPS

-----------------------------------------------------------------------------
(* The rules of ranking. *)

LEMMA FreshnessBounds ==
    ASSUME NEW p \in Int \cup {Undated}, NEW t \in Nat
    PROVE  /\ FreshnessScore(p, t) \in ScoreRange
           /\ FreshnessScore(p, t) > 0 => p # Undated
<1>1. CASE p = Undated
  BY <1>1 DEF FreshnessScore, ScoreRange
<1>2. CASE p # Undated
  BY <1>2 DEF FreshnessScore, FreshnessOfAge, ScoreRange
<1> QED
  BY <1>1, <1>2

(* The weights add up to a hundred: a score of scores is a score. *)
LEMMA RankingBounds ==
    ASSUME NEW r \in ScoreRange, NEW p \in ScoreRange, NEW f \in ScoreRange
    PROVE  RankingScore(r, p, f) \in ScoreRange
BY DEF RankingScore, ScoreRange

LEMMA CandidateTypes ==
    ASSUME NEW i \in Ids, NEW t \in Nat
    PROVE  /\ Candidate(i, t).id = i /\ Candidate(i, t).published = Published[i]
           /\ Candidate(i, t).priority = Priority[i]
           /\ Candidate(i, t).ranking \in ScoreRange
           /\ Candidate(i, t).freshness = FreshnessScore(Published[i], t)
<1>1. FreshnessScore(Published[i], t) \in ScoreRange
  BY QueueAssumption, FreshnessBounds
<1>2. RankingScore(Relevance[i], Priority[i], FreshnessScore(Published[i], t))
         \in ScoreRange
  BY <1>1, QueueAssumption, RankingBounds
<1> QED
  BY <1>2 DEF Candidate

(* The sort key of rank_news_candidates orders any articles strictly and   *)
(* totally, the undated and those of equal scores included, so the order   *)
(* of the selection is that of the ranking and nobody's choice.            *)
THEOREM RankingIsTotal ==
    ASSUME NEW t \in Nat, NEW i \in Ids, NEW j \in Ids, NEW k \in Ids
    PROVE  /\ ~ Better(i, i, t)
           /\ ~ (Better(i, j, t) /\ Better(j, i, t))
           /\ i # j => Better(i, j, t) \/ Better(j, i, t)
           /\ Better(i, j, t) /\ Better(j, k, t) => Better(i, k, t)
<1> DEFINE a == Candidate(i, t)
           b == Candidate(j, t)
           c == Candidate(k, t)
<1>1. /\ a.id = i /\ b.id = j /\ c.id = k
      /\ i \in Int /\ j \in Int /\ k \in Int
      /\ a.ranking \in Int /\ b.ranking \in Int /\ c.ranking \in Int
      /\ a.priority \in Int /\ b.priority \in Int /\ c.priority \in Int
      /\ a.published \in Int \cup {Undated} /\ b.published \in Int \cup {Undated}
      /\ c.published \in Int \cup {Undated}
  <2>1. ASSUME NEW n \in Ids
        PROVE  /\ Candidate(n, t).id = n /\ n \in Int
               /\ Candidate(n, t).ranking \in Int
               /\ Candidate(n, t).priority \in Int
               /\ Candidate(n, t).published \in Int \cup {Undated}
    <3>1. /\ n \in Int /\ Priority[n] \in Int
          /\ Published[n] \in Int \cup {Undated}
      BY QueueAssumption DEF ScoreRange
    <3>2. /\ Candidate(n, t).id = n /\ Candidate(n, t).published = Published[n]
          /\ Candidate(n, t).priority = Priority[n]
          /\ Candidate(n, t).ranking \in ScoreRange
      BY CandidateTypes
    <3>3. Candidate(n, t).ranking \in Int
      BY <3>2 DEF ScoreRange
    <3> QED
      BY <3>1, <3>2, <3>3
  <2> QED
    BY <2>1
<1> HIDE DEF a, b, c
<1>2. ~ RanksBefore(a, a)
  BY <1>1, UndatedAssumption DEF RanksBefore
<1>3. ~ (RanksBefore(a, b) /\ RanksBefore(b, a))
  BY <1>1, UndatedAssumption DEF RanksBefore
<1>4. i # j => RanksBefore(a, b) \/ RanksBefore(b, a)
  BY <1>1, UndatedAssumption DEF RanksBefore
<1>5. RanksBefore(a, b) /\ RanksBefore(b, c) => RanksBefore(a, c)
  BY <1>1, UndatedAssumption DEF RanksBefore
<1> QED
  BY <1>2, <1>3, <1>4, <1>5 DEF Better, a, b, c

-----------------------------------------------------------------------------
(* What every script row keeps to. *)
ReachedTheBar(i, score) ==
    /\ score \in MinScore..100
    /\ Published[i] # Undated
    /\ Eligible(Relevance[i])

(* A job's score may become its row's, and is its row's (in the rows r) if *)
(* it was known.                                                           *)
Sound(r, job) ==
    /\ ReachedTheBar(job.id, job.score)
    /\ job.known => /\ r[job.id].status # "NONE"
                    /\ job.score = r[job.id].score

ScoresKept ==
    /\ \A i \in Ids : row[i].status # "NONE" => ReachedTheBar(i, row[i].score)
    /\ \A j \in jobs : Sound(row, j)
    /\ \A d \in Dispatchers :
          /\ disp[d].left \subseteq Qualified(disp[d].asOf)
          /\ \A n \in DOMAIN disp[d].chosen : Sound(row, disp[d].chosen[n])

IInv == TypeOK /\ ScoresKept

LEMMA IdleTypes ==
    /\ Idle \in DispStates /\ Idle.left = {} /\ DOMAIN Idle.chosen = {}
    /\ Idle.pc = "idle"
BY DEF Idle, DispStates

LEMMA QualifiedSound ==
    ASSUME TypeOK, ScoresKept, NEW t \in Nat, NEW i \in Qualified(t)
    PROVE  Chosen(i, t) \in Jobs /\ Sound(row, Chosen(i, t))
<1> USE QueueAssumption
<1>1. /\ i \in Ids /\ Eligible(Relevance[i])
      /\ Candidate(i, t).ranking >= MinScore /\ Candidate(i, t).freshness > 0
  BY DEF Qualified
<1>2. /\ Candidate(i, t).ranking \in ScoreRange /\ Published[i] # Undated
      /\ Candidate(i, t).ranking \in MinScore..100
  <2>1. /\ Candidate(i, t).ranking \in ScoreRange
        /\ Candidate(i, t).freshness = FreshnessScore(Published[i], t)
    BY <1>1, CandidateTypes
  <2>2. Published[i] # Undated
    BY <1>1, <2>1, FreshnessBounds
  <2> QED
    BY <1>1, <2>1, <2>2 DEF ScoreRange
<1>3. row[i].score \in ScoreRange
  BY <1>1 DEF TypeOK
<1>4. /\ Chosen(i, t).id = i /\ Chosen(i, t).known = (row[i].status # "NONE")
      /\ Chosen(i, t).score = IF row[i].status = "NONE"
                                THEN Candidate(i, t).ranking ELSE row[i].score
  BY DEF Chosen
<1>5. Chosen(i, t) \in Jobs
  BY <1>1, <1>2, <1>3 DEF Chosen, Jobs
<1>6. Sound(row, Chosen(i, t))
  BY <1>1, <1>2, <1>4 DEF Sound, ReachedTheBar, ScoresKept
<1> QED
  BY <1>5, <1>6

(* A step of d leaves the invariant to what it does to d and the jobs.     *)
LEMMA DispatcherStep ==
    ASSUME IInv, NEW d \in Dispatchers, NEW run \in DispStates,
           disp' = [disp EXCEPT ![d] = run],
           run.left \subseteq Qualified(run.asOf),
           \A n \in DOMAIN run.chosen : Sound(row, run.chosen[n]),
           UNCHANGED <<now, row>>,
           ids' \subseteq [id : Ids, bucket : Nat],
           jobs' \subseteq Jobs, \A j \in jobs' : Sound(row, j)
    PROVE  IInv'
<1>1. TypeOK'
  BY DEF IInv, TypeOK
<1>3. disp'[d] = run /\ \A e \in Dispatchers \ {d} : disp'[e] = disp[e]
  BY DEF IInv, TypeOK
<1>5. ASSUME NEW e \in Dispatchers
      PROVE  /\ disp'[e].left \subseteq Qualified(disp'[e].asOf)
             /\ \A n \in DOMAIN disp'[e].chosen : Sound(row, disp'[e].chosen[n])
  BY <1>3, <1>5 DEF IInv, ScoresKept
<1>6. ScoresKept'
  <2>1. \A i \in Ids : row'[i].status # "NONE" => ReachedTheBar(i, row'[i].score)
    BY DEF IInv, ScoresKept
  <2>3. \A e \in Dispatchers : disp'[e].left \subseteq Qualified(disp'[e].asOf)
    BY <1>5
  <2> QED
    BY <1>5, <2>1, <2>3 DEF ScoresKept, ReachedTheBar, Sound, Qualified, Candidate
<1> QED
  BY <1>1, <1>6 DEF IInv


LEMMA RankStep ==
    ASSUME IInv, NEW d \in Dispatchers, Rank(d)
    PROVE  IInv'
<1> DEFINE run == [Idle EXCEPT !.pc = "select", !.asOf = now,
                               !.left = Qualified(now)]
<1>1. run \in DispStates /\ run.left = Qualified(run.asOf) /\ run.chosen = <<>>
  <2>1. now \in Nat /\ Qualified(now) \subseteq Ids
    BY DEF IInv, TypeOK, Qualified
  <2>2. /\ run.pc = "select" /\ run.asOf = now /\ run.left = Qualified(now)
        /\ run.chosen = <<>> /\ run.bucket = 0 /\ run.next = 1
    BY DEF Idle
  <2>3. run \in DispStates
    BY <2>1, IdleTypes DEF DispStates
  <2> QED
    BY <2>2, <2>3
<1> HIDE DEF run
<1>2. /\ disp' = [disp EXCEPT ![d] = run]
      /\ UNCHANGED <<now, row, jobs, ids>>
  BY DEF Rank, run
<1> QED
  BY <1>1, <1>2, DispatcherStep DEF IInv, TypeOK, ScoresKept

LEMMA ExamineStep ==
    ASSUME IInv, NEW d \in Dispatchers, NEW i \in Ids, Examine(d, i)
    PROVE  IInv'
<1> DEFINE old == disp[d]
           free == row[i].status \in {"NONE", "FAILED"}
           run == [old EXCEPT
                     !.left = @ \ {i},
                     !.chosen = IF free THEN Append(@, Chosen(i, old.asOf)) ELSE @]
<1>1. /\ disp' = [disp EXCEPT ![d] = run]
      /\ UNCHANGED <<now, row, jobs, ids>>
      /\ i \in old.left
  BY DEF Examine, IInv, TypeOK
<1>2. /\ old \in DispStates /\ old.asOf \in Nat /\ old.chosen \in Seq(Jobs)
      /\ old.left \subseteq Qualified(old.asOf)
      /\ \A n \in DOMAIN old.chosen : Sound(row, old.chosen[n])
  BY DEF IInv, TypeOK, ScoresKept, DispStates
<1>3. Chosen(i, old.asOf) \in Jobs /\ Sound(row, Chosen(i, old.asOf))
  BY <1>1, <1>2, QualifiedSound DEF IInv
<1> HIDE DEF old
<1>4. run.left = old.left \ {i} /\ run.asOf = old.asOf
      /\ run.chosen = IF free THEN Append(old.chosen, Chosen(i, old.asOf))
                              ELSE old.chosen
  BY <1>2 DEF DispStates
<1>5. run.chosen \in Seq(Jobs)
  BY <1>2, <1>3, <1>4
<1>6. run \in DispStates
  BY <1>2, <1>5 DEF DispStates
<1>7. \A n \in DOMAIN run.chosen : Sound(row, run.chosen[n])
  <2>1. CASE free
    <3> DEFINE c == Chosen(i, old.asOf)
    <3> HIDE DEF c
    <3>1. run.chosen = Append(old.chosen, c)
      BY <1>4, <2>1 DEF c
    <3>2. \A n \in DOMAIN Append(old.chosen, c) :
             \/ n \in DOMAIN old.chosen /\ Append(old.chosen, c)[n] = old.chosen[n]
             \/ Append(old.chosen, c)[n] = c
      BY <1>2
    <3> QED
      BY <1>2, <1>3, <3>1, <3>2 DEF c
  <2>2. CASE ~ free
    BY <1>2, <1>4, <2>2
  <2> QED
    BY <2>1, <2>2
<1>8. run.left \subseteq Qualified(run.asOf)
  BY <1>2, <1>4
<1> HIDE DEF run
<1> QED
  BY <1>1, <1>6, <1>7, <1>8, DispatcherStep DEF IInv, TypeOK, ScoresKept

LEMMA SelectedStep ==
    ASSUME IInv, NEW d \in Dispatchers, Selected(d)
    PROVE  IInv'
<1> DEFINE old == disp[d]
           run == [old EXCEPT !.pc = "enqueue", !.left = {},
                              !.bucket = now \div BucketWidth]
<1>1. now \div BucketWidth \in Nat
  BY QueueAssumption DEF IInv, TypeOK
<1>2. old \in DispStates
  BY DEF IInv, TypeOK
<1>3. /\ disp' = [disp EXCEPT ![d] = run]
      /\ UNCHANGED <<now, row, jobs, ids>>
  BY DEF Selected, IInv, TypeOK
<1>4. run \in DispStates /\ run.left = {} /\ run.chosen = old.chosen
  BY <1>1, <1>2 DEF DispStates
<1> HIDE DEF run
<1> QED
  BY <1>3, <1>4, DispatcherStep DEF IInv, TypeOK, ScoresKept

LEMMA EnqueueStep ==
    ASSUME IInv, NEW d \in Dispatchers, EnqueueNext(d)
    PROVE  IInv'
<1> DEFINE old == disp[d]
           run == [old EXCEPT !.next = @ + 1]
           job == old.chosen[old.next]
           id == [id |-> job.id, bucket |-> old.bucket]
<1>1. /\ disp' = [disp EXCEPT ![d] = run]
      /\ UNCHANGED <<now, row>>
      /\ old.next <= Len(old.chosen)
      /\ ids' \subseteq ids \cup {id} /\ jobs' \subseteq jobs \cup {job}
  BY DEF EnqueueNext, IInv, TypeOK
<1>2. /\ old \in DispStates /\ old.bucket \in Nat /\ old.chosen \in Seq(Jobs)
      /\ old.next \in Nat \ {0}
      /\ old.left \subseteq Qualified(old.asOf)
      /\ \A n \in DOMAIN old.chosen : Sound(row, old.chosen[n])
  BY DEF IInv, TypeOK, ScoresKept, DispStates
<1> HIDE DEF old
<1>3. job \in Jobs /\ Sound(row, job)
  <2>1. old.next \in DOMAIN old.chosen
    BY <1>1, <1>2
  <2> QED
    BY <1>2, <2>1
<1>4. /\ run \in DispStates /\ run.left = old.left /\ run.asOf = old.asOf
      /\ run.chosen = old.chosen
  BY <1>2 DEF DispStates
<1>5. id \in [id : Ids, bucket : Nat]
  BY <1>2, <1>3 DEF Jobs
<1> HIDE DEF run, job, id
<1>6. ids' \subseteq [id : Ids, bucket : Nat] /\ jobs' \subseteq Jobs
  BY <1>1, <1>3, <1>5 DEF IInv, TypeOK
<1>7. \A j \in jobs' : Sound(row, j)
  BY <1>1, <1>3 DEF IInv, ScoresKept
<1> QED
  BY <1>1, <1>2, <1>4, <1>6, <1>7, DispatcherStep

LEMMA ReturnStep ==
    ASSUME IInv, NEW d \in Dispatchers, Return(d)
    PROVE  IInv'
BY IdleTypes, DispatcherStep DEF IInv, TypeOK, ScoresKept, Return


(* A step that leaves the dispatchers alone and keeps every score.         *)
LEMMA WorkerStep ==
    ASSUME IInv, TypeOK', UNCHANGED disp, jobs' \subseteq jobs,
           \A i \in Ids : row'[i].status # "NONE" => ReachedTheBar(i, row'[i].score),
           \A i \in Ids : row[i].status # "NONE" =>
              row'[i].status # "NONE" /\ row'[i].score = row[i].score
    PROVE  IInv'
<1>1. ASSUME NEW j \in Jobs, Sound(row, j) PROVE Sound(row', j)
  BY <1>1 DEF Sound, Jobs
<1>2. \A j \in jobs' : Sound(row', j)
  BY <1>1 DEF IInv, TypeOK, ScoresKept
<1>3. ASSUME NEW d \in Dispatchers, NEW n \in DOMAIN disp[d].chosen
      PROVE  Sound(row', disp[d].chosen[n])
  <2>1. disp[d].chosen \in Seq(Jobs)
    BY DEF IInv, TypeOK, DispStates
  <2>2. disp[d].chosen[n] \in Jobs
    BY <2>1
  <2> QED
    BY <1>1, <2>2 DEF IInv, ScoresKept
<1>4. \A d \in Dispatchers : disp[d].left \subseteq Qualified(disp[d].asOf)
  BY DEF IInv, ScoresKept
<1>5. ScoresKept'
  BY <1>2, <1>3, <1>4
     DEF ScoresKept, ReachedTheBar, Sound, Qualified, Candidate
<1> QED
  BY <1>5 DEF IInv

LEMMA StartStep ==
    ASSUME IInv, NEW j \in jobs, StartScript(j)
    PROVE  IInv'
<1>1. j \in Jobs /\ Sound(row, j) /\ j.id \in Ids /\ j.score \in ScoreRange
  BY DEF IInv, TypeOK, ScoresKept, Jobs
<1>2. TypeOK'
  BY <1>1 DEF IInv, TypeOK, StartScript, Statuses
<1>3. /\ \A i \in Ids \ {j.id} : row'[i] = row[i]
      /\ row'[j.id].status = "GENERATING" /\ row'[j.id].score = j.score
      /\ row[j.id].status # "NONE" => row[j.id].score = j.score
      /\ jobs' \subseteq jobs /\ UNCHANGED disp
  BY <1>1 DEF IInv, TypeOK, StartScript, Accepted
<1>4. ReachedTheBar(j.id, j.score)
  BY <1>1 DEF Sound
<1>5. \A i \in Ids : row'[i].status # "NONE" => ReachedTheBar(i, row'[i].score)
  BY <1>3, <1>4 DEF IInv, ScoresKept
<1> QED
  BY <1>2, <1>3, <1>5, WorkerStep

LEMMA EndStep ==
    ASSUME IInv, NEW i \in Ids, NEW outcome \in {"GENERATED", "FAILED"},
           EndScript(i, outcome)
    PROVE  IInv'
<1>1. TypeOK'
  BY DEF IInv, TypeOK, EndScript, Statuses
<1>2. /\ UNCHANGED <<jobs, disp>>
      /\ \A n \in Ids : row'[n].score = row[n].score
      /\ \A n \in Ids : row'[n].status # "NONE" => row[n].status # "NONE"
      /\ \A n \in Ids : row[n].status # "NONE" => row'[n].status # "NONE"
  BY DEF IInv, TypeOK, EndScript
<1>3. ASSUME NEW n \in Ids, row'[n].status # "NONE"
      PROVE  ReachedTheBar(n, row'[n].score)
  <2>1. row[n].status # "NONE" /\ row'[n].score = row[n].score
    BY <1>2, <1>3
  <2>2. ReachedTheBar(n, row[n].score)
    BY <2>1 DEF IInv, ScoresKept
  <2> QED
    BY <2>1, <2>2
<1> QED
  BY <1>1, <1>2, <1>3, WorkerStep

LEMMA Inductive == IInv /\ [Next]_vars => IInv'
<1> SUFFICES ASSUME IInv, [Next]_vars PROVE IInv'
  OBVIOUS
<1>1. ASSUME NEW j \in jobs, RefuseScript(j) PROVE IInv'
  <2>1. TypeOK' /\ jobs' \subseteq jobs /\ UNCHANGED <<row, disp>>
    BY <1>1 DEF IInv, TypeOK, RefuseScript
  <2> QED
    BY <2>1, WorkerStep DEF IInv, ScoresKept
<1>2. CASE Tick
  <2>1. TypeOK' /\ UNCHANGED <<row, jobs, disp>>
    BY <1>2, QueueAssumption DEF IInv, TypeOK, Tick
  <2> QED
    BY <2>1, WorkerStep DEF IInv, ScoresKept
<1>3. CASE UNCHANGED vars
  <2>1. TypeOK' /\ UNCHANGED <<row, jobs, disp>>
    BY <1>3 DEF IInv, TypeOK, vars
  <2> QED
    BY <2>1, WorkerStep DEF IInv, ScoresKept
<1> QED
  BY <1>1, <1>2, <1>3, RankStep, ExamineStep, SelectedStep, EnqueueStep,
     ReturnStep, StartStep, EndStep DEF Next

LEMMA Initially == Init => IInv
<1> SUFFICES ASSUME Init PROVE IInv
  OBVIOUS
<1>1. TypeOK
  BY IdleTypes DEF Init, TypeOK, Statuses, ScoreRange
<1>2. ScoresKept
  BY IdleTypes DEF Init, ScoresKept
<1> QED
  BY <1>1, <1>2 DEF IInv

LEMMA Invariance == Spec => []IInv
BY Initially, Inductive, PTL DEF Spec

(* Rows, jobs and dispatchers keep their types. *)
THEOREM TypeCorrect == Spec => []TypeOK
<1>1. IInv => TypeOK
  BY DEF IInv
<1> QED
  BY <1>1, Invariance, PTL

(* Whatever the articles, their dates and scores, and however long a job   *)
(* waits: a row's score has reached the bar, and neither an undated nor a  *)
(* rejected article has one.                                               *)
THEOREM BarIsReached == Spec => []RowsReachedTheBar
<1>1. IInv => RowsReachedTheBar
  BY DEF IInv, ScoresKept, ReachedTheBar, RowsReachedTheBar
<1> QED
  BY <1>1, Invariance, PTL

(* A retry is never refused for its score: the score of a job whose        *)
(* article had a row when it was selected is that row's for as long as the *)
(* job waits, whoever runs the row in the meantime.                        *)
THEOREM RetriesAreAccepted == Spec => []RetriesKeepTheScore
<1>1. IInv => RetriesKeepTheScore
  BY DEF IInv, ScoresKept, Sound, RetriesKeepTheScore
<1> QED
  BY <1>1, Invariance, PTL

-----------------------------------------------------------------------------
(* What a dispatcher knows of its selection, with the rows r: while it     *)
(* selects, that nothing left outranks what it has chosen, and that what   *)
(* it has neither chosen nor left has a row; and then what the property    *)
(* says.                                                                   *)
Best(run, r) ==
    /\ run.pc \in {"select", "enqueue"} =>
          /\ Len(run.chosen) <= Limit
          /\ \A m, n \in DOMAIN run.chosen :
                m < n => Better(run.chosen[m].id, run.chosen[n].id, run.asOf)
    /\ run.pc = "select" =>
          /\ \A c \in ChosenIds(run), j \in run.left : Better(c, j, run.asOf)
          /\ \A i \in Qualified(run.asOf) \ (ChosenIds(run) \cup run.left) :
                r[i].status # "NONE"
    /\ run.pc = "enqueue" =>
          \A i \in Qualified(run.asOf) \ ChosenIds(run) :
              r[i].status = "NONE" =>
                  /\ Len(run.chosen) = Limit
                  /\ \A c \in ChosenIds(run) : Better(c, i, run.asOf)

Selection == \A d \in Dispatchers : Best(disp[d], row)

LEMMA SelectionNext ==
    (\A d \in Dispatchers : Best(disp'[d], row')) => Selection'
BY DEF Selection, Best, ChosenIds, Qualified, Better, Candidate

(* Rows are not deleted. *)
LEMMA RowsStay ==
    ASSUME IInv, [Next]_vars, NEW i \in Ids, row[i].status # "NONE"
    PROVE  row'[i].status # "NONE"
<1>1. ASSUME NEW j \in jobs, StartScript(j) PROVE row'[i].status # "NONE"
  BY <1>1 DEF StartScript, IInv, TypeOK, Jobs
<1>2. ASSUME NEW n \in Ids, NEW outcome \in {"GENERATED", "FAILED"},
             EndScript(n, outcome)
      PROVE  row'[i].status # "NONE"
  BY <1>2 DEF EndScript, IInv, TypeOK
<1>3. CASE UNCHANGED row
  BY <1>3
<1> QED
  BY <1>1, <1>2, <1>3
     DEF Next, vars, Rank, Selected, EnqueueNext, Return, Examine,
         RefuseScript, Tick

(* A dispatcher that does not move keeps what it knows. *)
LEMMA StillBest ==
    ASSUME NEW run, Best(run, row),
           \A i \in Ids : row[i].status # "NONE" => row'[i].status # "NONE"
    PROVE  Best(run, row')
<1>1. Qualified(run.asOf) \subseteq Ids
  BY DEF Qualified
<1> QED
  BY <1>1 DEF Best

LEMMA ExamineChooses ==
    ASSUME IInv, NEW d \in Dispatchers, NEW i \in Ids, Examine(d, i),
           Best(disp[d], row)
    PROVE  Best(disp'[d], row')
<1> DEFINE old == disp[d]
           run == disp'[d]
           free == row[i].status \in {"NONE", "FAILED"}
           c == Chosen(i, old.asOf)
<1>1. /\ old.chosen \in Seq(Jobs) /\ Len(old.chosen) \in Nat
      /\ Len(old.chosen) < Limit /\ old.pc = "select" /\ i \in old.left
      /\ \A j \in old.left \ {i} : Better(i, j, old.asOf)
      /\ c.id = i /\ UNCHANGED row
  <2>1. /\ old.pc = "select" /\ i \in old.left /\ ~ Done(old)
        /\ \A j \in old.left \ {i} : Better(i, j, old.asOf)
        /\ UNCHANGED row
    BY DEF Examine
  <2>2. old.chosen \in Seq(Jobs)
    BY DEF IInv, TypeOK, DispStates
  <2>3. c.id = i
    BY DEF Chosen
  <2>4. Limit \in Int
    BY QueueAssumption
  <2> HIDE DEF old, c
  <2>5. Len(old.chosen) \in Nat
    BY <2>2
  <2> QED
    BY <2>1, <2>2, <2>3, <2>4, <2>5 DEF Done
<1>2. /\ run.pc = "select" /\ run.asOf = old.asOf
      /\ run.left = old.left \ {i}
      /\ run.chosen = IF free THEN Append(old.chosen, c) ELSE old.chosen
  BY DEF Examine, IInv, TypeOK, DispStates
<1>3. /\ \A h \in ChosenIds(old), j \in old.left : Better(h, j, old.asOf)
      /\ \A m, n \in DOMAIN old.chosen :
            m < n => Better(old.chosen[m].id, old.chosen[n].id, old.asOf)
      /\ Len(old.chosen) <= Limit
      /\ \A h \in Qualified(old.asOf) \ (ChosenIds(old) \cup old.left) :
            row[h].status # "NONE"
  BY <1>1 DEF Best
<1>4. CASE free
  <2> DEFINE new == Append(old.chosen, c)
  <2> HIDE DEF old, run, c, free
  <2>1. /\ run.chosen = new
        /\ Len(new) = Len(old.chosen) + 1
        /\ DOMAIN new = 1..(Len(old.chosen) + 1)
        /\ DOMAIN old.chosen = 1..Len(old.chosen)
        /\ \A n \in DOMAIN old.chosen : new[n] = old.chosen[n]
        /\ new[Len(old.chosen) + 1] = c
    BY <1>1, <1>2, <1>4
  <2> HIDE DEF new
  <2>2. Len(run.chosen) <= Limit
    <3>1. Limit \in Int
      BY QueueAssumption
    <3> QED
      BY <1>1, <2>1, <3>1
  <2>3. ChosenIds(run) = ChosenIds(old) \cup {i}
    BY <1>1, <2>1 DEF ChosenIds
  <2>4. ASSUME NEW h \in ChosenIds(run), NEW j \in run.left
        PROVE  Better(h, j, old.asOf)
    BY <1>1, <1>2, <1>3, <2>3
  <2>5. ASSUME NEW m \in DOMAIN run.chosen, NEW n \in DOMAIN run.chosen, m < n
        PROVE  Better(run.chosen[m].id, run.chosen[n].id, old.asOf)
    <3>1. m \in DOMAIN old.chosen /\ new[m] = old.chosen[m]
      BY <1>1, <2>1, <2>5
    <3>2. CASE n \in DOMAIN old.chosen
      BY <1>3, <2>1, <2>5, <3>1, <3>2
    <3>3. CASE n = Len(old.chosen) + 1
      BY <1>1, <1>3, <2>1, <3>1, <3>3 DEF ChosenIds
    <3> QED
      BY <1>1, <2>1, <3>2, <3>3
  <2>6. ASSUME NEW h \in Qualified(run.asOf) \ (ChosenIds(run) \cup run.left)
        PROVE  row'[h].status # "NONE"
    BY <1>1, <1>2, <1>3, <2>3
  <2> QED
    BY <1>2, <2>2, <2>4, <2>5, <2>6 DEF Best, run
<1>5. CASE ~ free
  <2>1. row[i].status # "NONE"
    BY <1>5
  <2> HIDE DEF old, run, c, free
  <2>2. run.chosen = old.chosen /\ ChosenIds(run) = ChosenIds(old)
    BY <1>2, <1>5 DEF ChosenIds
  <2>3. ASSUME NEW h \in ChosenIds(run), NEW j \in run.left
        PROVE  Better(h, j, old.asOf)
    BY <1>2, <1>3, <2>2
  <2>4. ASSUME NEW h \in Qualified(run.asOf) \ (ChosenIds(run) \cup run.left)
        PROVE  row'[h].status # "NONE"
    BY <1>1, <1>2, <1>3, <2>1, <2>2
  <2> QED
    BY <1>2, <1>3, <2>2, <2>3, <2>4 DEF Best, run
<1> QED
  BY <1>4, <1>5

(* The end of the loop: everything was examined, or the limit is reached   *)
(* and what is left is outranked.                                          *)
LEMMA SelectedChooses ==
    ASSUME IInv, NEW d \in Dispatchers, Selected(d), Best(disp[d], row)
    PROVE  Best(disp'[d], row')
<1> DEFINE old == disp[d]
           run == disp'[d]
<1>1. /\ old.pc = "select" /\ Done(old) /\ UNCHANGED row
      /\ old.chosen \in Seq(Jobs)
      /\ run.pc = "enqueue" /\ run.asOf = old.asOf /\ run.chosen = old.chosen
  BY DEF Selected, IInv, TypeOK, DispStates
<1> HIDE DEF old, run
<1>2. Len(old.chosen) \in Nat /\ Limit \in Int
  <2>1. Limit \in Int
    BY QueueAssumption
  <2> QED
    BY <1>1, <2>1
<1>3. /\ Best(old, row)
      /\ ChosenIds(run) = ChosenIds(old)
  BY <1>1 DEF old, ChosenIds
<1>4. ASSUME NEW i \in Qualified(old.asOf) \ ChosenIds(old),
             row[i].status = "NONE"
      PROVE  /\ Len(old.chosen) = Limit
             /\ \A c \in ChosenIds(old) : Better(c, i, old.asOf)
  <2>1. i \in old.left
    BY <1>1, <1>3, <1>4 DEF Best
  <2> QED
    BY <1>1, <1>2, <1>3, <2>1 DEF Best, Done
<1> QED
  BY <1>1, <1>3, <1>4 DEF Best, run

LEMMA ChoiceStep == IInv /\ Selection /\ [Next]_vars => Selection'
<1> SUFFICES ASSUME IInv, Selection, [Next]_vars,
                    NEW e \in Dispatchers
             PROVE  Best(disp'[e], row')
  BY SelectionNext
<1>0. Best(disp[e], row)
  BY DEF Selection
<1>1. disp'[e] = disp[e] => Best(disp'[e], row')
  BY <1>0, RowsStay, StillBest
<1>2. ASSUME NEW d \in Dispatchers, NEW i \in Ids, Examine(d, i)
      PROVE  Best(disp'[e], row')
  <2>1. e # d => disp'[e] = disp[e]
    BY <1>2 DEF Examine, IInv, TypeOK
  <2> QED
    BY <1>0, <1>1, <1>2, <2>1, ExamineChooses
<1>3. ASSUME NEW d \in Dispatchers, Rank(d)
      PROVE  Best(disp'[e], row')
  <2>1. CASE e = d
    <3>1. /\ disp'[e].chosen = <<>> /\ disp'[e].pc = "select"
          /\ disp'[e].left = Qualified(disp'[e].asOf)
      BY <1>3, <2>1 DEF Rank, Idle, IInv, TypeOK
    <3>2. DOMAIN disp'[e].chosen = {} /\ Len(disp'[e].chosen) = 0
      BY <3>1
    <3>3. ChosenIds(disp'[e]) = {} /\ 0 <= Limit
      BY <3>2, QueueAssumption DEF ChosenIds
    <3> QED
      BY <3>1, <3>2, <3>3 DEF Best
  <2>2. CASE e # d
    BY <1>1, <1>3, <2>2 DEF Rank, IInv, TypeOK
  <2> QED
    BY <2>1, <2>2
<1>4. ASSUME NEW d \in Dispatchers, Selected(d)
      PROVE  Best(disp'[e], row')
  <2>1. e # d => disp'[e] = disp[e]
    BY <1>4 DEF Selected, IInv, TypeOK
  <2> QED
    BY <1>0, <1>1, <1>4, <2>1, SelectedChooses
<1>5. ASSUME NEW d \in Dispatchers, Return(d)
      PROVE  Best(disp'[e], row')
  <2>1. CASE e = d
    BY <1>5, <2>1, IdleTypes DEF Return, IInv, TypeOK, Best
  <2>2. CASE e # d
    BY <1>1, <1>5, <2>2 DEF Return, IInv, TypeOK
  <2> QED
    BY <2>1, <2>2
<1>6. ASSUME NEW d \in Dispatchers, EnqueueNext(d)
      PROVE  Best(disp'[e], row')
  <2>1. /\ disp'[e].pc = disp[e].pc /\ disp'[e].asOf = disp[e].asOf
        /\ disp'[e].left = disp[e].left /\ disp'[e].chosen = disp[e].chosen
        /\ UNCHANGED row
    BY <1>6 DEF EnqueueNext, IInv, TypeOK, DispStates
  <2>2. ChosenIds(disp'[e]) = ChosenIds(disp[e])
    BY <2>1 DEF ChosenIds
  <2> QED
    BY <1>0, <2>1, <2>2 DEF Best
<1>7. CASE UNCHANGED disp
  BY <1>1, <1>7
<1> QED
  BY <1>2, <1>3, <1>4, <1>5, <1>6, <1>7
     DEF Next, vars, StartScript, RefuseScript, EndScript, Tick

(* With any articles and any limit, and whatever workers do to the rows    *)
(* while a dispatcher reads them: its selection is in order, and an        *)
(* article it leaves out has got a script row, or is outranked by each of  *)
(* Limit others.                                                           *)
THEOREM BestAreSelected == Spec => []BestAreChosen
<1>1. IInv /\ Selection /\ [Next]_vars => (IInv /\ Selection)'
  BY Inductive, ChoiceStep
<1>2. Init => IInv /\ Selection
  <2> SUFFICES ASSUME Init PROVE IInv /\ Selection
    OBVIOUS
  <2>1. \A d \in Dispatchers : disp[d].pc = "idle"
    BY DEF Init, Idle
  <2> QED
    BY <2>1, Initially DEF Selection, Best
<1>3. Selection => BestAreChosen
  BY DEF Selection, Best, BestAreChosen
<1> QED
  BY <1>1, <1>2, <1>3, PTL DEF Spec

=============================================================================
