--------------------------- MODULE NewsRows_proofs ---------------------------
(***************************************************************************)
(* Proofs about the rows of one news intake.  First AnalysisRuns: type     *)
(* correctness, and that a priority is the priority of the decision in the *)
(* row, both for any number of runs of either job.  The invariant says     *)
(* what an open transaction still knows: a relevance run that read a       *)
(* PENDING analysis finds it unchanged or overtakes another one, and until *)
(* that has happened a priority run that read a decision finds the same    *)
(* one when it commits.  Then NewsRows: that neither race of the two       *)
(* writers of the metadata leaves a job row that contradicts the metadata  *)
(* row.                                                                    *)
(***************************************************************************)
EXTENDS NewsRows, TLAPS

ScoreColumn == {NoScore} \cup Scores

(* A score, and no score at all, are different values. *)
LEMMA ScoreFacts ==
    /\ \A s \in Scores : s \in Int /\ s # NoScore
    /\ \A s \in Scores : Decision(s) \in {"ACCEPTED", "REVIEW", "REJECTED"}
    /\ \A s \in Scores : Eligible(s) <=> Decision(s) \in {"ACCEPTED", "REVIEW"}
<1>1. \A s \in Scores : s \in Int /\ s # NoScore
  BY ScoresAssumption, SMT DEF ScoreRange, NoScore
<1>2. \A s \in Scores : Decision(s) \in {"ACCEPTED", "REVIEW", "REJECTED"}
  BY DEF Decision
<1> QED
  BY <1>1, <1>2 DEF Eligible

(* The flush of an analysis yields a row of the table, and an ANALYZED row *)
(* stays ANALYZED.                                                         *)
LEMMA AnalyzedType ==
    ASSUME NEW row \in RelevanceRows, NEW seen \in RelevanceRows,
           NEW s \in Scores
    PROVE  /\ Analyzed(row, seen, s) \in RelevanceRows
           /\ row.status = "ANALYZED" => Analyzed(row, seen, s).status = "ANALYZED"
<1> DEFINE new == [status |-> "ANALYZED", score |-> s, decision |-> Decision(s)]
<1>1. Decision(s) \in {"NONE", "ACCEPTED", "REVIEW", "REJECTED"}
  BY ScoreFacts
<1>2. new \in RelevanceRows /\ new.status = "ANALYZED"
  BY <1>1 DEF RelevanceRows
<1> HIDE DEF new
<1>3. [c \in DOMAIN row |-> IF new[c] = seen[c] THEN row[c] ELSE new[c]]
          = [status |-> IF new.status = seen.status THEN row.status ELSE new.status,
             score |-> IF new.score = seen.score THEN row.score ELSE new.score,
             decision |-> IF new.decision = seen.decision
                            THEN row.decision ELSE new.decision]
  BY DEF RelevanceRows
<1>4. Analyzed(row, seen, s)
          = [c \in DOMAIN row |-> IF new[c] = seen[c] THEN row[c] ELSE new[c]]
  BY DEF Analyzed, Row!Flushed, new
<1> QED
  BY <1>2, <1>3, <1>4 DEF RelevanceRows

(* Flushed over the row it has read, an analysis is stored as it is. *)
LEMMA AnalyzedOfPending ==
    ASSUME NEW s \in Scores
    PROVE  Analyzed(PendingRelevance, PendingRelevance, s)
              = [status |-> "ANALYZED", score |-> s, decision |-> Decision(s)]
<1>1. s # NoScore /\ Decision(s) # "NONE"
  BY ScoreFacts
<1> QED
  BY <1>1 DEF Analyzed, Row!Flushed, PendingRelevance

(* The columns of a flushed priority. *)
Rated(row, seen, b) ==
    [status |-> IF seen.status = "ANALYZED" THEN row.status ELSE "ANALYZED",
     basis |-> IF b = seen.basis THEN row.basis ELSE b]

LEMMA RatedColumns ==
    ASSUME NEW row \in PriorityRows, NEW seen \in PriorityRows,
           NEW b \in ScoreColumn
    PROVE  /\ Row!Flushed(row, seen, [status |-> "ANALYZED", basis |-> b])
                = Rated(row, seen, b)
           /\ Rated(row, seen, b) \in PriorityRows
<1>1. Row!Flushed(row, seen, [status |-> "ANALYZED", basis |-> b])
          = Rated(row, seen, b)
  BY DEF Row!Flushed, PriorityRows, Rated
<1> QED
  BY <1>1 DEF PriorityRows, ScoreColumn, Rated

-----------------------------------------------------------------------------
(* The steps of one run. *)
JudgeStep(r) ==
    \/ ReadRelevance(r) \/ JudgeRelevance(r) \/ WriteRelevance(r)
    \/ EnqueuePriority(r) \/ JudgeDies(r)

RaterStep(p) ==
    \/ ReadPriority(p) \/ RatePriority(p) \/ WritePriority(p) \/ RaterDies(p)

(* A relevance run at its write has a score to write. *)
HasScore ==
    \A r \in RelevanceRuns : judge[r].at = "write" => judge[r].score \in Scores

(* The records of the idle runs, and the rows that are created. *)
LEMMA IdleTypes ==
    /\ PendingRelevance \in RelevanceRows /\ NoPriority \in PriorityRows
    /\ [status |-> "PENDING", basis |-> NoScore] \in PriorityRows
BY DEF PendingRelevance, NoPriority, RelevanceRows, PriorityRows

LEMMA TypeStep == TypeOK /\ HasScore /\ [Next]_vars => (TypeOK /\ HasScore)'
<1> SUFFICES ASSUME TypeOK, HasScore, [Next]_vars
             PROVE  TypeOK' /\ HasScore'
  OBVIOUS
<1>1. ASSUME NEW r \in RelevanceRuns, JudgeStep(r) PROVE TypeOK' /\ HasScore'
  <2>1. CASE ReadRelevance(r)
    BY <2>1, ZenonT(60) DEF TypeOK, HasScore, ReadRelevance
  <2>2. CASE JudgeRelevance(r)
    <3>1. PICK s \in Scores :
              judge' = [judge EXCEPT ![r] = [@ EXCEPT !.at = "write",
                                        !.score = s, !.record = relevance]]
      BY <2>2 DEF JudgeRelevance
    <3>2. [judge[r] EXCEPT !.at = "write", !.score = s, !.record = relevance]
              \in [at : {"idle", "analyzer", "write", "enqueue"},
                  read : RelevanceRows, record : RelevanceRows,
                  score : {NoScore} \cup Scores]
      BY DEF TypeOK
    <3>3. judge' \in [RelevanceRuns ->
              [at : {"idle", "analyzer", "write", "enqueue"},
               read : RelevanceRows, record : RelevanceRows,
               score : {NoScore} \cup Scores]]
      BY <3>1, <3>2 DEF TypeOK
    <3>4. HasScore'
      <4>1. judge'[r].score = s
        BY <3>1 DEF TypeOK
      <4>2. \A q \in RelevanceRuns \ {r} : judge'[q] = judge[q]
        BY <3>1 DEF TypeOK
      <4> QED
        BY <4>1, <4>2 DEF HasScore
    <3> QED
      BY <2>2, <3>3, <3>4 DEF TypeOK, JudgeRelevance
  <2>3. CASE WriteRelevance(r)
    <3>1. judge[r].score \in Scores /\ judge[r].record \in RelevanceRows
      BY <2>3 DEF TypeOK, HasScore, WriteRelevance
    <3>2. relevance' \in RelevanceRows
      BY <2>3, <3>1, AnalyzedType DEF TypeOK, WriteRelevance
    <3>3. priority' \in PriorityRows
      BY <2>3, IdleTypes DEF TypeOK, WriteRelevance, WithPriorityRow
    <3>4. judge' \in [RelevanceRuns ->
              [at : {"idle", "analyzer", "write", "enqueue"},
               read : RelevanceRows, record : RelevanceRows,
               score : {NoScore} \cup Scores]] /\ HasScore'
      BY <2>3, IdleTypes DEF TypeOK, HasScore, WriteRelevance, IdleJudge
    <3> QED
      BY <2>3, <3>2, <3>3, <3>4 DEF TypeOK, WriteRelevance
  <2>4. CASE EnqueuePriority(r)
    BY <2>4, IdleTypes DEF TypeOK, HasScore, EnqueuePriority, IdleJudge
  <2>5. CASE JudgeDies(r)
    BY <2>5, IdleTypes DEF TypeOK, HasScore, JudgeDies, IdleJudge
  <2> QED
    BY <1>1, <2>1, <2>2, <2>3, <2>4, <2>5 DEF JudgeStep
<1>2. ASSUME NEW p \in PriorityRuns, RaterStep(p) PROVE TypeOK' /\ HasScore'
  <2>1. CASE ReadPriority(p)
    <3>1. priority \in PriorityRows /\ relevance.score \in {NoScore} \cup Scores
      BY DEF TypeOK, RelevanceRows
    <3>2. rater' \in [PriorityRuns ->
              [at : {"idle", "analyzer", "write"},
               read : PriorityRows, record : PriorityRows,
               basis : {NoScore} \cup Scores]]
      <4>1. rater' = [rater EXCEPT ![p] = [@ EXCEPT !.at = "analyzer",
                              !.read = priority, !.basis = relevance.score]]
        BY <2>1 DEF ReadPriority
      <4>2. [rater[p] EXCEPT !.at = "analyzer", !.read = priority,
                             !.basis = relevance.score]
                \in [at : {"idle", "analyzer", "write"},
                    read : PriorityRows, record : PriorityRows,
                    basis : {NoScore} \cup Scores]
        BY <3>1 DEF TypeOK
      <4> QED
        BY <4>1, <4>2 DEF TypeOK
    <3> QED
      BY <2>1, <3>2 DEF TypeOK, HasScore, ReadPriority
  <2>2. CASE RatePriority(p)
    BY <2>2, ZenonT(60) DEF TypeOK, HasScore, RatePriority
  <2>3. CASE WritePriority(p)
    <3>1. priority' \in PriorityRows
      BY <2>3, RatedColumns DEF TypeOK, WritePriority, ScoreColumn
    <3> QED
      BY <2>3, <3>1, IdleTypes DEF TypeOK, HasScore, WritePriority, IdleRater
  <2>4. CASE RaterDies(p)
    BY <2>4, IdleTypes DEF TypeOK, HasScore, RaterDies, IdleRater
  <2> QED
    BY <1>2, <2>1, <2>2, <2>3, <2>4 DEF RaterStep
<1>3. CASE RecoverPriority
  BY <1>3 DEF TypeOK, HasScore, RecoverPriority
<1>4. CASE UNCHANGED vars
  BY <1>4 DEF TypeOK, HasScore, vars
<1> QED
  BY <1>1, <1>2, <1>3, <1>4 DEF Next, JudgeStep, RaterStep

LEMMA TypeInit == Init => TypeOK /\ HasScore
<1> SUFFICES ASSUME Init PROVE TypeOK /\ HasScore
  OBVIOUS
<1>1. IdleJudge \in [at : {"idle", "analyzer", "write", "enqueue"},
                     read : RelevanceRows, record : RelevanceRows,
                     score : {NoScore} \cup Scores]
  BY IdleTypes DEF IdleJudge
<1>2. IdleRater \in [at : {"idle", "analyzer", "write"},
                     read : PriorityRows, record : PriorityRows,
                     basis : {NoScore} \cup Scores]
  BY IdleTypes DEF IdleRater
<1>3. TypeOK
  BY <1>1, <1>2, IdleTypes DEF Init, TypeOK
<1>4. HasScore
  BY DEF Init, HasScore, IdleJudge
<1> QED
  BY <1>3, <1>4

(* The rows and the runs of both analysis jobs keep their types, however   *)
(* many runs of each overlap.                                              *)
THEOREM TypeCorrect == Spec => []TypeOK
<1> QED
  BY TypeInit, TypeStep, PTL DEF Spec

-----------------------------------------------------------------------------
(* A PENDING analysis has no result yet. *)
Unanalyzed == relevance.status = "PENDING" => relevance = PendingRelevance

(* A relevance run at its write has read a PENDING analysis, and if the    *)
(* row is PENDING still, so was the record it read again.                  *)
JudgeKnows ==
    \A r \in RelevanceRuns : judge[r].at = "write" =>
        /\ judge[r].read.status = "PENDING"
        /\ relevance.status = "PENDING" => judge[r].record = PendingRelevance

(* The decision is that of the score, and the priority row exists exactly  *)
(* if it is eligible.                                                      *)
Decided ==
    \/ relevance = PendingRelevance /\ priority = NoPriority
    \/ /\ relevance.status = "ANALYZED" /\ relevance.score \in Scores
       /\ relevance.decision = Decision(relevance.score)
       /\ priority.status # "ABSENT" <=> Eligible(relevance.score)

(* An open priority run was given the score in the row, and the record it  *)
(* read again is at most as old as the row.                                *)
RaterKnows ==
    /\ priority.status = "ANALYZED" => priority.basis = relevance.score
    /\ \A p \in PriorityRuns : rater[p].at # "idle" =>
          /\ relevance.status = "ANALYZED" /\ priority.status # "ABSENT"
          /\ rater[p].basis = relevance.score
    /\ \A p \in PriorityRuns : rater[p].at = "write" =>
          /\ rater[p].record.status = "ANALYZED" => priority.status = "ANALYZED"
          /\ rater[p].record.basis = relevance.score
                => priority.basis = relevance.score

Agree == Decided /\ RaterKnows

Inv ==
    /\ TypeOK /\ HasScore /\ Unanalyzed /\ JudgeKnows
    /\ overtaken \/ Agree

(* The write of a relevance run: the row it finds is the one it has read,  *)
(* and no priority run is open, or it overtakes another run.               *)
LEMMA WriteStep ==
    ASSUME Inv, NEW r \in RelevanceRuns, WriteRelevance(r)
    PROVE  Unanalyzed' /\ JudgeKnows' /\ (overtaken' \/ Agree')
<1> DEFINE s == judge[r].score
<1>1. /\ s \in Scores /\ judge[r].record \in RelevanceRows
      /\ relevance \in RelevanceRows /\ judge[r].read.status = "PENDING"
      /\ relevance' = Analyzed(relevance, judge[r].record, s)
  BY DEF Inv, TypeOK, HasScore, JudgeKnows, WriteRelevance
<1>2. \A q \in RelevanceRuns :
          judge'[q].at = "write" => judge'[q].read.status = "PENDING"
  <2>1. judge'[r].at # "write"
          /\ \A q \in RelevanceRuns \ {r} : judge'[q] = judge[q]
    BY DEF Inv, TypeOK, WriteRelevance, IdleJudge
  <2> QED
    BY <2>1 DEF Inv, JudgeKnows
<1>3. CASE relevance.status = "PENDING"
  <2>1. relevance = PendingRelevance /\ judge[r].record = PendingRelevance
    BY <1>3 DEF Inv, Unanalyzed, JudgeKnows, WriteRelevance
  <2>2. relevance' = [status |-> "ANALYZED", score |-> s,
                      decision |-> Decision(s)]
    BY <1>1, <2>1, AnalyzedOfPending
  <2>3. Unanalyzed' /\ JudgeKnows'
    BY <1>2, <2>2 DEF Unanalyzed, JudgeKnows
  <2>4. ASSUME ~overtaken' PROVE Agree'
    <3>1. Agree /\ priority = NoPriority
      BY <2>1, <2>4 DEF Inv, Agree, Decided, PendingRelevance, WriteRelevance
    <3>2. priority' = IF Eligible(s) THEN [status |-> "PENDING", basis |-> NoScore]
                                     ELSE NoPriority
      BY <3>1 DEF WriteRelevance, WithPriorityRow, NoPriority
    <3>3. Decided'
      BY <1>1, <2>2, <3>2 DEF Decided, NoPriority
    <3>4. \A p \in PriorityRuns : rater'[p].at = "idle"
      BY <3>1 DEF Agree, RaterKnows, NoPriority, WriteRelevance
    <3>5. priority'.status # "ANALYZED"
      BY <3>2 DEF NoPriority
    <3> QED
      BY <3>3, <3>4, <3>5 DEF Agree, RaterKnows
  <2> QED
    BY <2>3, <2>4
<1>4. CASE relevance.status = "ANALYZED"
  <2>1. relevance'.status = "ANALYZED"
    BY <1>1, <1>4, AnalyzedType
  <2>2. overtaken'
    BY <1>1, <1>4 DEF WriteRelevance, Overtakes
  <2> QED
    BY <1>2, <2>1, <2>2 DEF Unanalyzed, JudgeKnows
<1> QED
  BY <1>1, <1>3, <1>4 DEF RelevanceRows

(* The other steps of a relevance run leave both rows alone. *)
LEMMA JudgeStepKeeps ==
    ASSUME Inv, NEW r \in RelevanceRuns, JudgeStep(r)
    PROVE  Unanalyzed' /\ JudgeKnows' /\ (overtaken' \/ Agree')
<1>1. CASE ReadRelevance(r)
  <2>1. JudgeKnows'
    <3>1. judge'[r].at = "analyzer"
            /\ \A q \in RelevanceRuns \ {r} : judge'[q] = judge[q]
      BY <1>1 DEF ReadRelevance, Inv, TypeOK
    <3> QED
      BY <1>1, <3>1 DEF Inv, JudgeKnows, ReadRelevance
  <2> QED
    BY <1>1, <2>1 DEF Inv, Unanalyzed, Agree, Decided, RaterKnows, ReadRelevance
<1>2. CASE JudgeRelevance(r)
  <2>1. JudgeKnows'
    <3>1. PICK s \in Scores :
              judge' = [judge EXCEPT ![r] = [@ EXCEPT !.at = "write",
                                        !.score = s, !.record = relevance]]
      BY <1>2 DEF JudgeRelevance
    <3>2. /\ judge'[r].record = relevance /\ judge'[r].read = judge[r].read
          /\ \A q \in RelevanceRuns \ {r} : judge'[q] = judge[q]
      BY <3>1 DEF Inv, TypeOK
    <3>3. judge[r].read.status = "PENDING" /\ UNCHANGED relevance
      BY <1>2 DEF JudgeRelevance, RequirePending
    <3> QED
      BY <3>2, <3>3 DEF Inv, Unanalyzed, JudgeKnows
  <2> QED
    BY <1>2, <2>1 DEF Inv, Unanalyzed, Agree, Decided, RaterKnows, JudgeRelevance
<1>3. CASE WriteRelevance(r)
  BY <1>3, WriteStep
<1>4. CASE EnqueuePriority(r)
  BY <1>4 DEF EnqueuePriority, IdleJudge, Inv, TypeOK, Unanalyzed, Agree,
              Decided, JudgeKnows, RaterKnows
<1>5. CASE JudgeDies(r)
  BY <1>5 DEF JudgeDies, IdleJudge, Inv, TypeOK, Unanalyzed, Agree, Decided,
              JudgeKnows, RaterKnows
<1> QED
  BY <1>1, <1>2, <1>3, <1>4, <1>5 DEF JudgeStep

(* A priority run reads an eligible decision and writes what it was given. *)
LEMMA RaterStepKeeps ==
    ASSUME Inv, Agree, NEW p \in PriorityRuns, RaterStep(p)
    PROVE  Agree'
<1>1. CASE ReadPriority(p)
  <2>1. rater'[p].at = "analyzer" /\ rater'[p].basis = relevance.score
          /\ \A q \in PriorityRuns \ {p} : rater'[q] = rater[q]
    BY <1>1 DEF ReadPriority, Inv, TypeOK
  <2>2. relevance.status = "ANALYZED" /\ priority.status # "ABSENT"
          /\ UNCHANGED <<relevance, priority, judge>>
    BY <1>1 DEF ReadPriority, ReadyForPriority
  <2> QED
    BY <2>1, <2>2 DEF Agree, Decided, RaterKnows
<1>2. CASE RatePriority(p)
  <2>1. rater'[p].at = "write" /\ rater'[p].basis = rater[p].basis
          /\ rater'[p].record = priority
          /\ \A q \in PriorityRuns \ {p} : rater'[q] = rater[q]
    BY <1>2 DEF RatePriority, Inv, TypeOK
  <2>2. rater[p].at # "idle" /\ UNCHANGED <<relevance, priority, judge>>
    BY <1>2 DEF RatePriority
  <2> QED
    BY <2>1, <2>2 DEF Agree, Decided, RaterKnows
<1>3. CASE WritePriority(p)
  <2> DEFINE b == rater[p].basis
  <2>1. b = relevance.score /\ relevance.status = "ANALYZED"
          /\ priority.status # "ABSENT" /\ rater[p].record \in PriorityRows
          /\ b \in ScoreColumn
    BY <1>3 DEF WritePriority, Inv, TypeOK, Agree, RaterKnows, ScoreColumn
  <2>2. priority' = Rated(priority, rater[p].record, b)
    <3>1. priority \in PriorityRows
      BY DEF Inv, TypeOK
    <3>2. priority' = Row!Flushed(priority, rater[p].record,
                          [status |-> "ANALYZED", basis |-> b])
      BY <1>3 DEF WritePriority
    <3> QED
      BY <2>1, <3>1, <3>2, RatedColumns
  <2>3. priority'.status = "ANALYZED" /\ priority'.basis = relevance.score
    <3>1. rater[p].at = "write" /\ RaterKnows
      BY <1>3 DEF WritePriority, Agree
    <3>2. priority.status = "ANALYZED" \/ rater[p].record.status # "ANALYZED"
      BY <3>1 DEF RaterKnows
    <3>3. b = rater[p].record.basis => priority.basis = relevance.score
      BY <2>1, <3>1 DEF RaterKnows
    <3> QED
      BY <2>1, <2>2, <3>2, <3>3 DEF Rated
  <2>4. UNCHANGED <<relevance, judge>>
          /\ rater'[p].at = "idle"
          /\ \A q \in PriorityRuns \ {p} : rater'[q] = rater[q]
    BY <1>3 DEF WritePriority, IdleRater, Inv, TypeOK
  <2>5. relevance # PendingRelevance /\ Decided'
    BY <2>1, <2>3, <2>4 DEF Agree, Decided, PendingRelevance
  <2>6. RaterKnows'
    BY <2>1, <2>3, <2>4 DEF Agree, RaterKnows
  <2> QED
    BY <2>5, <2>6 DEF Agree
<1>4. CASE RaterDies(p)
  BY <1>4 DEF RaterDies, IdleRater, Inv, TypeOK, Agree, Decided, RaterKnows
<1> QED
  BY <1>1, <1>2, <1>3, <1>4 DEF RaterStep

LEMMA InvStep == Inv /\ [Next]_vars => Inv'
<1> SUFFICES ASSUME Inv, [Next]_vars PROVE Inv'
  OBVIOUS
<1>1. TypeOK' /\ HasScore'
  BY TypeStep DEF Inv
<1>2. Unanalyzed' /\ JudgeKnows' /\ (overtaken' \/ Agree')
  <2>1. ASSUME NEW r \in RelevanceRuns, JudgeStep(r)
        PROVE  Unanalyzed' /\ JudgeKnows' /\ (overtaken' \/ Agree')
    BY <2>1, JudgeStepKeeps
  <2>2. ASSUME NEW p \in PriorityRuns, RaterStep(p)
        PROVE  Unanalyzed' /\ JudgeKnows' /\ (overtaken' \/ Agree')
    <3>1. UNCHANGED <<relevance, judge, overtaken>>
      BY <2>2 DEF RaterStep, ReadPriority, RatePriority, WritePriority, RaterDies
    <3>2. Agree => Agree'
      BY <2>2, RaterStepKeeps
    <3> QED
      BY <3>1, <3>2 DEF Inv, Unanalyzed, JudgeKnows
  <2>3. CASE RecoverPriority \/ UNCHANGED vars
    BY <2>3 DEF RecoverPriority, vars, Inv, Unanalyzed, Agree, Decided,
                JudgeKnows, RaterKnows
  <2> QED
    BY <2>1, <2>2, <2>3 DEF Next, JudgeStep, RaterStep
<1> QED
  BY <1>1, <1>2 DEF Inv

LEMMA InvInit == Init => Inv
<1> SUFFICES ASSUME Init PROVE Inv
  OBVIOUS
<1>1. Unanalyzed /\ JudgeKnows /\ Agree
  BY DEF Init, Unanalyzed, Agree, Decided, JudgeKnows, RaterKnows, IdleJudge,
         IdleRater, NoPriority
<1> QED
  BY <1>1, TypeInit DEF Inv

(* A PENDING relevance row has no decision, any other has an eligible one  *)
(* exactly if the priority row exists.                                     *)
LEMMA InvMatches == Inv => PriorityMatchesRelevance
BY ScoreFacts DEF Inv, Agree, Decided, RaterKnows, PriorityMatchesRelevance,
                  EligibleDecision, PendingRelevance, NoPriority

(* However many runs of the two jobs overlap, are repeated or die, a       *)
(* priority belongs to the decision in the row until a relevance run has   *)
(* overwritten what another one committed during its analysis, with an     *)
(* UPDATE that compares nothing; nothing else can part them.               *)
THEOREM PriorityIsOfDecision == Spec => []PriorityMatchesRelevance
<1>1. Inv /\ [Next]_vars => Inv'
  BY InvStep
<1> QED
  BY <1>1, InvInit, InvMatches, PTL DEF Spec

-----------------------------------------------------------------------------
(***************************************************************************)
(* The rows under all their writers: RowsSpec.                             *)
(***************************************************************************)
OneWorker   == \A a, b \in AutoWriters : a = b
OneOperator == \A a, b \in ManualWriters : a = b

EnrichmentVars == <<metadata, job, writer>>

(* The transaction has a new metadata object. *)
Writes(w) == writer[w].pc \in {"checked", "flush"}

(* What the transaction of the automatic enrichment knows: only an         *)
(* operator has written since it read PENDING metadata, and the job status *)
(* it will store is that of its metadata.                                  *)
WorkerKnows(w) ==
    /\ writer[w].pc # "idle" /\ writer[w].read.status = "PENDING" =>
          metadata.status \in {"PENDING", "MANUAL"}
    /\ Writes(w) =>
          /\ writer[w].read.status = "PENDING"
          /\ \/ /\ writer[w].next.status \in {"EXTRACTED", "UNAVAILABLE"}
                /\ writer[w].job = "COMPLETED"
             \/ writer[w].next.status = "FAILED" /\ writer[w].job = "FAILED"
    /\ writer[w].pc = "flush" => writer[w].seen.status \in {"PENDING", "MANUAL"}

(* What the operator's transaction knows: the worker may have written      *)
(* since it read PENDING metadata, but nobody since it read UNAVAILABLE.   *)
OperatorKnows(w) ==
    /\ writer[w].pc # "idle" /\ writer[w].read.status = "PENDING" =>
          metadata.status # "MANUAL"
    /\ writer[w].pc # "idle" /\ writer[w].read.status = "UNAVAILABLE" =>
          metadata.status = "UNAVAILABLE"
    /\ Writes(w) =>
          /\ writer[w].read.status \in {"PENDING", "UNAVAILABLE"}
          /\ writer[w].next.status = "MANUAL"
          /\ writer[w].job = "COMPLETED"
    /\ writer[w].pc = "flush" => writer[w].seen.status # "MANUAL"

WritersKnow ==
    /\ \A w \in AutoWriters : WorkerKnows(w)
    /\ \A w \in ManualWriters : OperatorKnows(w)

EnrichmentInv == M!TypeOK /\ JobFollowsMetadata /\ WritersKnow

(* The flush of new metadata yields a row of the table, with the new       *)
(* status if that differs from the one update has read.                    *)
LEMMA FlushedMetadata ==
    ASSUME NEW row \in M!MetadataRows, NEW seen \in M!MetadataRows,
           NEW new \in M!MetadataRows
    PROVE  LET flushed == [c \in DOMAIN row |->
                             IF new[c] = seen[c] THEN row[c] ELSE new[c]]
           IN  /\ flushed \in M!MetadataRows
               /\ new.status # seen.status => flushed.status = new.status
<1> DEFINE f == [c \in DOMAIN row |->
                   IF new[c] = seen[c] THEN row[c] ELSE new[c]]
<1>1. DOMAIN row = {"status", "title", "description", "reason"}
  BY DEF M!MetadataRows
<1>2. \A c \in DOMAIN row : f[c] = IF new[c] = seen[c] THEN row[c] ELSE new[c]
  OBVIOUS
<1>3. f = [status |-> f.status, title |-> f.title,
           description |-> f.description, reason |-> f.reason]
  BY <1>1
<1> HIDE DEF f
<1>4. /\ f.status \in {row.status, new.status}
      /\ f.title \in {row.title, new.title}
      /\ f.description \in {row.description, new.description}
      /\ f.reason \in {row.reason, new.reason}
      /\ new.status # seen.status => f.status = new.status
  BY <1>1, <1>2
<1>5. f \in M!MetadataRows
  BY <1>3, <1>4 DEF M!MetadataRows
<1>6. QED BY <1>4, <1>5 DEF f

(* The objects that a transaction makes have their types. *)
LEMMA MetadataTypes ==
    /\ M!PendingMetadata \in M!MetadataRows /\ M!Idle \in M!Transactions
    /\ \A w \in M!Writers, d \in M!Writers \cup {Nobody} :
          M!Completed("EXTRACTED", w, d) \in M!MetadataRows
            /\ M!Completed("MANUAL", w, d) \in M!MetadataRows
    /\ M!Rejected("UNAVAILABLE") \in M!MetadataRows
    /\ M!Rejected("FAILED") \in M!MetadataRows
<1>1. M!PendingMetadata \in M!MetadataRows
  BY DEF M!PendingMetadata, M!MetadataRows
<1>2. M!Idle \in M!Transactions
  BY <1>1 DEF M!Idle, M!Transactions, M!Jobs
<1>3. QED
  BY <1>1, <1>2 DEF M!Completed, M!Rejected, M!MetadataRows

(* A check leaves the rows alone and records the object and the job status *)
(* that go with it.                                                        *)
LEMMA CheckRecords ==
    ASSUME M!TypeOK, NEW w \in M!Writers,
           NEW next \in M!MetadataRows, NEW status \in M!Jobs,
           M!Checked(w, next, status)
    PROVE  /\ writer' \in [M!Writers -> M!Transactions]
           /\ writer'[w].pc = "checked" /\ writer'[w].read = writer[w].read
           /\ writer'[w].next = next /\ writer'[w].job = status
           /\ \A u \in M!Writers : u # w => writer'[u] = writer[u]
<1> DEFINE run == [writer[w] EXCEPT !.pc = "checked", !.next = next,
                                    !.job = status]
<1>1. writer[w] \in M!Transactions
  BY DEF M!TypeOK
<1>2. /\ run \in M!Transactions
      /\ run.pc = "checked" /\ run.read = writer[w].read
      /\ run.next = next /\ run.job = status
  BY <1>1 DEF M!Transactions
<1>3. writer' = [writer EXCEPT ![w] = run]
  BY DEF M!TypeOK, M!Checked
<1> HIDE DEF run
<1>4. QED BY <1>2, <1>3 DEF M!TypeOK

(* The automatic enrichment checks PENDING metadata only. *)
LEMMA AutoChecks ==
    ASSUME M!TypeOK, NEW w \in AutoWriters, M!CheckAuto(w)
    PROVE  /\ writer' \in [M!Writers -> M!Transactions]
           /\ UNCHANGED <<metadata, job>>
           /\ writer[w].pc = "loaded" /\ writer[w].read.status = "PENDING"
           /\ writer'[w].pc = "checked" /\ writer'[w].read = writer[w].read
           /\ \/ /\ writer'[w].next.status \in {"EXTRACTED", "UNAVAILABLE"}
                 /\ writer'[w].job = "COMPLETED"
              \/ writer'[w].next.status = "FAILED" /\ writer'[w].job = "FAILED"
           /\ \A u \in M!Writers : u # w => writer'[u] = writer[u]
<1>1. w \in M!Writers
  BY DEF M!Writers
<1>2. /\ UNCHANGED <<metadata, job>>
      /\ writer[w].pc = "loaded" /\ writer[w].read.status = "PENDING"
  BY DEF M!CheckAuto
<1>3. PICK next \in M!MetadataRows, status \in M!Jobs :
        /\ M!Checked(w, next, status)
        /\ \/ next.status \in {"EXTRACTED", "UNAVAILABLE"} /\ status = "COMPLETED"
           \/ next.status = "FAILED" /\ status = "FAILED"
  <2>1. /\ M!Rejected("UNAVAILABLE").status = "UNAVAILABLE"
        /\ M!Rejected("FAILED").status = "FAILED"
        /\ \A d : M!Completed("EXTRACTED", w, d).status = "EXTRACTED"
    BY DEF M!Rejected, M!Completed
  <2>2. {"COMPLETED", "FAILED"} \subseteq M!Jobs
    BY DEF M!Jobs
  <2>3. \A d \in {w, Nobody} : M!Completed("EXTRACTED", w, d) \in M!MetadataRows
    BY <1>1, MetadataTypes
  <2>4. QED BY <1>1, <2>1, <2>2, <2>3, MetadataTypes DEF M!CheckAuto
<1>4. QED BY <1>1, <1>2, <1>3, CheckRecords

(* An operator's entry is checked on PENDING metadata, or on UNAVAILABLE   *)
(* metadata whose job is COMPLETED.                                        *)
LEMMA ManualChecks ==
    ASSUME M!TypeOK, NEW w \in ManualWriters, M!CheckManual(w)
    PROVE  /\ writer' \in [M!Writers -> M!Transactions]
           /\ UNCHANGED <<metadata, job>>
           /\ writer[w].pc = "loaded"
           /\ writer[w].read.status \in {"PENDING", "UNAVAILABLE"}
           /\ writer'[w].pc = "checked" /\ writer'[w].read = writer[w].read
           /\ writer'[w].next.status = "MANUAL"
           /\ writer'[w].job = "COMPLETED"
           /\ \A u \in M!Writers : u # w => writer'[u] = writer[u]
<1>1. w \in M!Writers
  BY DEF M!Writers
<1>2. /\ UNCHANGED <<metadata, job>>
      /\ writer[w].pc = "loaded"
      /\ writer[w].read.status \in {"PENDING", "UNAVAILABLE"}
  BY DEF M!CheckManual
<1>3. PICK d \in {w, Nobody} :
        M!Checked(w, M!Completed("MANUAL", w, d), "COMPLETED")
  BY DEF M!CheckManual
<1>4. /\ M!Completed("MANUAL", w, d) \in M!MetadataRows
      /\ M!Completed("MANUAL", w, d).status = "MANUAL"
      /\ "COMPLETED" \in M!Jobs
  BY <1>1, MetadataTypes DEF M!Completed, M!Jobs
<1>5. QED BY <1>1, <1>2, <1>3, <1>4, CheckRecords

(* The reads, the end of a transaction, and the flush. *)
LEMMA WriterMoves ==
    ASSUME M!TypeOK, NEW w \in M!Writers
    PROVE  /\ M!Load(w) =>
                /\ UNCHANGED <<metadata, job>>
                /\ writer'[w].pc = "loaded" /\ writer'[w].read = metadata
           /\ M!ReadRecord(w) =>
                /\ UNCHANGED <<metadata, job>>
                /\ writer[w].pc = "checked" /\ writer'[w].pc = "flush"
                /\ writer'[w].read = writer[w].read
                /\ writer'[w].next = writer[w].next
                /\ writer'[w].job = writer[w].job
                /\ writer'[w].seen = metadata
           /\ M!Commit(w) \/ M!Rollback(w) => writer'[w].pc = "idle"
           /\ M!Load(w) \/ M!ReadRecord(w) \/ M!Commit(w) \/ M!Rollback(w) =>
                /\ writer' \in [M!Writers -> M!Transactions]
                /\ \A u \in M!Writers : u # w => writer'[u] = writer[u]
<1>1. /\ writer \in [M!Writers -> M!Transactions]
      /\ writer[w] \in M!Transactions /\ metadata \in M!MetadataRows
  BY DEF M!TypeOK
<1>2. ASSUME M!Load(w)
      PROVE  /\ UNCHANGED <<metadata, job>>
             /\ writer'[w].pc = "loaded" /\ writer'[w].read = metadata
             /\ writer' \in [M!Writers -> M!Transactions]
             /\ \A u \in M!Writers : u # w => writer'[u] = writer[u]
  <2> DEFINE run == [writer[w] EXCEPT !.pc = "loaded", !.read = metadata]
  <2>1. run \in M!Transactions /\ run.pc = "loaded" /\ run.read = metadata
    BY <1>1 DEF M!Transactions
  <2>2. writer' = [writer EXCEPT ![w] = run] /\ UNCHANGED <<metadata, job>>
    BY <1>1, <1>2 DEF M!Load
  <2> HIDE DEF run
  <2>3. QED BY <1>1, <2>1, <2>2
<1>3. ASSUME M!ReadRecord(w)
      PROVE  /\ UNCHANGED <<metadata, job>>
             /\ writer[w].pc = "checked" /\ writer'[w].pc = "flush"
             /\ writer'[w].read = writer[w].read
             /\ writer'[w].next = writer[w].next
             /\ writer'[w].job = writer[w].job
             /\ writer'[w].seen = metadata
             /\ writer' \in [M!Writers -> M!Transactions]
             /\ \A u \in M!Writers : u # w => writer'[u] = writer[u]
  <2> DEFINE run == [writer[w] EXCEPT !.pc = "flush", !.seen = metadata]
  <2>1. /\ run \in M!Transactions /\ run.pc = "flush" /\ run.seen = metadata
        /\ run.read = writer[w].read /\ run.next = writer[w].next
        /\ run.job = writer[w].job
    BY <1>1 DEF M!Transactions
  <2>2. /\ writer' = [writer EXCEPT ![w] = run]
        /\ writer[w].pc = "checked" /\ UNCHANGED <<metadata, job>>
    BY <1>1, <1>3 DEF M!ReadRecord
  <2> HIDE DEF run
  <2>3. QED BY <1>1, <2>1, <2>2
<1>4. ASSUME M!Commit(w) \/ M!Rollback(w)
      PROVE  /\ writer'[w].pc = "idle"
             /\ writer' \in [M!Writers -> M!Transactions]
             /\ \A u \in M!Writers : u # w => writer'[u] = writer[u]
  <2>1. writer' = [writer EXCEPT ![w] = M!Idle]
    BY <1>4 DEF M!Commit, M!Rollback
  <2>2. M!Idle.pc = "idle"
    BY DEF M!Idle
  <2>3. QED BY <1>1, <2>1, <2>2, MetadataTypes
<1>5. QED BY <1>2, <1>3, <1>4

(* Every step of a writer keeps the types. *)
LEMMA EnrichmentTypes ==
    M!TypeOK /\ [M!Next]_EnrichmentVars => M!TypeOK'
<1> SUFFICES ASSUME M!TypeOK, [M!Next]_EnrichmentVars PROVE M!TypeOK'
  OBVIOUS
<1>1. ASSUME NEW w \in M!Writers, M!Commit(w) PROVE M!TypeOK'
  <2>1. /\ writer[w] \in M!Transactions /\ metadata \in M!MetadataRows
        /\ job \in M!Jobs
    BY DEF M!TypeOK
  <2>2. /\ writer[w].next \in M!MetadataRows /\ writer[w].job \in M!Jobs
        /\ writer[w].seen \in M!MetadataRows
    BY <2>1 DEF M!Transactions
  <2>3. metadata' \in M!MetadataRows
    BY <1>1, <2>1, <2>2, FlushedMetadata DEF M!Commit
  <2>4. job' \in M!Jobs
    BY <1>1, <2>1, <2>2 DEF M!Commit
  <2>5. QED BY <1>1, <2>3, <2>4, WriterMoves DEF M!TypeOK
<1>2. ASSUME NEW w \in M!Writers, M!Load(w) \/ M!ReadRecord(w) \/ M!Rollback(w)
      PROVE  M!TypeOK'
  <2>1. UNCHANGED <<metadata, job>>
    BY <1>2 DEF M!Load, M!ReadRecord, M!Rollback
  <2>2. QED BY <1>2, <2>1, WriterMoves DEF M!TypeOK
<1>3. ASSUME NEW w \in AutoWriters, M!CheckAuto(w) PROVE M!TypeOK'
  BY <1>3, AutoChecks DEF M!TypeOK
<1>4. ASSUME NEW w \in ManualWriters, M!CheckManual(w) PROVE M!TypeOK'
  BY <1>4, ManualChecks DEF M!TypeOK
<1>5. CASE UNCHANGED EnrichmentVars
  BY <1>5 DEF EnrichmentVars, M!TypeOK
<1>6. QED BY <1>1, <1>2, <1>3, <1>4, <1>5 DEF M!Next

(* A writer that does not move still knows what it knew if the metadata    *)
(* are unchanged.                                                          *)
LEMMA StillKnows ==
    ASSUME NEW w, writer'[w] = writer[w], UNCHANGED metadata
    PROVE  /\ WorkerKnows(w) => WorkerKnows(w)'
           /\ OperatorKnows(w) => OperatorKnows(w)'
BY DEF WorkerKnows, OperatorKnows, Writes

(* A step of w that leaves the rows alone keeps the invariant if w knows   *)
(* what it should.                                                         *)
LEMMA QuietWriter ==
    ASSUME EnrichmentInv, M!TypeOK', UNCHANGED <<metadata, job>>,
           NEW w \in M!Writers,
           \A u \in M!Writers : u # w => writer'[u] = writer[u],
           w \in AutoWriters => WorkerKnows(w)',
           w \in ManualWriters => OperatorKnows(w)'
    PROVE  EnrichmentInv'
<1>1. JobFollowsMetadata'
  BY DEF EnrichmentInv, JobFollowsMetadata, M!JobFollowsMetadata
<1>2. ASSUME NEW u \in AutoWriters, u # w PROVE WorkerKnows(u)'
  BY <1>2, StillKnows DEF EnrichmentInv, WritersKnow, M!Writers
<1>3. ASSUME NEW u \in ManualWriters, u # w PROVE OperatorKnows(u)'
  BY <1>3, StillKnows DEF EnrichmentInv, WritersKnow, M!Writers
<1>4. QED BY <1>1, <1>2, <1>3 DEF EnrichmentInv, WritersKnow

(* The commit of the worker: its metadata are new, and its job status is   *)
(* theirs; the operator cannot be at work on UNAVAILABLE metadata.         *)
LEMMA WorkerCommits ==
    ASSUME EnrichmentInv, M!TypeOK', OneWorker,
           NEW w \in AutoWriters, M!Commit(w)
    PROVE  EnrichmentInv'
<1>1. /\ w \in M!Writers /\ writer[w] \in M!Transactions
      /\ metadata \in M!MetadataRows
  BY DEF EnrichmentInv, M!TypeOK, M!Writers
<1>2. /\ writer[w].seen \in M!MetadataRows
      /\ writer[w].next \in M!MetadataRows
  BY <1>1 DEF M!Transactions
<1>3. /\ writer[w].read.status = "PENDING"
      /\ writer[w].seen.status \in {"PENDING", "MANUAL"}
      /\ metadata.status \in {"PENDING", "MANUAL"}
      /\ \/ /\ writer[w].next.status \in {"EXTRACTED", "UNAVAILABLE"}
            /\ writer[w].job = "COMPLETED"
         \/ writer[w].next.status = "FAILED" /\ writer[w].job = "FAILED"
  BY DEF EnrichmentInv, WritersKnow, WorkerKnows, Writes, M!Commit
<1>4. metadata'.status = writer[w].next.status /\ job' = writer[w].job
  BY <1>1, <1>2, <1>3, FlushedMetadata DEF M!Commit
<1>5. JobFollowsMetadata'
  BY <1>3, <1>4 DEF JobFollowsMetadata, M!JobFollowsMetadata
<1>6. /\ writer'[w].pc = "idle"
      /\ \A u \in M!Writers : u # w => writer'[u] = writer[u]
  BY <1>1, WriterMoves DEF EnrichmentInv
<1>7. ASSUME NEW u \in AutoWriters PROVE WorkerKnows(u)'
  BY <1>6 DEF OneWorker, WorkerKnows, Writes
<1>8. ASSUME NEW u \in ManualWriters PROVE OperatorKnows(u)'
  <2>1. u # w /\ writer'[u] = writer[u]
    BY <1>6, WriterAssumption DEF M!Writers
  <2>2. OperatorKnows(u) /\ metadata'.status # "MANUAL"
        /\ ~(writer[u].pc # "idle" /\ writer[u].read.status = "UNAVAILABLE")
    BY <1>3, <1>4 DEF EnrichmentInv, WritersKnow, OperatorKnows
  <2>3. QED BY <2>1, <2>2 DEF OperatorKnows, Writes
<1>9. QED BY <1>5, <1>7, <1>8 DEF EnrichmentInv, WritersKnow

(* The commit of the operator: the metadata become MANUAL, and the job is  *)
(* COMPLETED by this commit, or already since it was UNAVAILABLE.          *)
LEMMA OperatorCommits ==
    ASSUME EnrichmentInv, M!TypeOK', OneOperator,
           NEW w \in ManualWriters, M!Commit(w)
    PROVE  EnrichmentInv'
<1>1. /\ w \in M!Writers /\ writer[w] \in M!Transactions
      /\ metadata \in M!MetadataRows
  BY DEF EnrichmentInv, M!TypeOK, M!Writers
<1>2. /\ writer[w].seen \in M!MetadataRows
      /\ writer[w].next \in M!MetadataRows
  BY <1>1 DEF M!Transactions
<1>3. /\ writer[w].seen.status # "MANUAL"
      /\ writer[w].next.status = "MANUAL" /\ writer[w].job = "COMPLETED"
      /\ writer[w].read.status = "UNAVAILABLE" =>
            metadata.status = "UNAVAILABLE"
  BY DEF EnrichmentInv, WritersKnow, OperatorKnows, Writes, M!Commit
<1>4. metadata'.status = "MANUAL"
  BY <1>1, <1>2, <1>3, FlushedMetadata DEF M!Commit
<1>5. job' = "COMPLETED"
  BY <1>3 DEF M!Commit, EnrichmentInv, JobFollowsMetadata, M!JobFollowsMetadata
<1>6. JobFollowsMetadata'
  BY <1>4, <1>5 DEF JobFollowsMetadata, M!JobFollowsMetadata
<1>7. /\ writer'[w].pc = "idle"
      /\ \A u \in M!Writers : u # w => writer'[u] = writer[u]
  BY <1>1, WriterMoves DEF EnrichmentInv
<1>8. ASSUME NEW u \in ManualWriters PROVE OperatorKnows(u)'
  BY <1>7 DEF OneOperator, OperatorKnows, Writes
<1>9. ASSUME NEW u \in AutoWriters PROVE WorkerKnows(u)'
  <2>1. u # w /\ writer'[u] = writer[u]
    BY <1>7, WriterAssumption DEF M!Writers
  <2>2. WorkerKnows(u)
    BY DEF EnrichmentInv, WritersKnow
  <2>3. QED BY <1>4, <2>1, <2>2 DEF WorkerKnows, Writes
<1>10. QED BY <1>6, <1>8, <1>9 DEF EnrichmentInv, WritersKnow

(* Every step of a writer keeps the invariant. *)
LEMMA EnrichmentStep ==
    ASSUME OneWorker, OneOperator
    PROVE  EnrichmentInv /\ [M!Next]_EnrichmentVars => EnrichmentInv'
<1> SUFFICES ASSUME EnrichmentInv, [M!Next]_EnrichmentVars
             PROVE  EnrichmentInv'
  OBVIOUS
<1>1. M!TypeOK /\ M!TypeOK'
  BY EnrichmentTypes DEF EnrichmentInv
<1>2. ASSUME NEW w \in M!Writers, M!Load(w) PROVE EnrichmentInv'
  <2>1. /\ UNCHANGED <<metadata, job>>
        /\ writer'[w].pc = "loaded" /\ writer'[w].read = metadata
        /\ \A u \in M!Writers : u # w => writer'[u] = writer[u]
    BY <1>1, <1>2, WriterMoves
  <2>2. WorkerKnows(w)' /\ OperatorKnows(w)'
    BY <2>1 DEF WorkerKnows, OperatorKnows, Writes
  <2>3. QED BY <1>1, <2>1, <2>2, QuietWriter
<1>3. ASSUME NEW w \in M!Writers, M!ReadRecord(w) PROVE EnrichmentInv'
  <2>1. /\ UNCHANGED <<metadata, job>>
        /\ writer[w].pc = "checked" /\ writer'[w].pc = "flush"
        /\ writer'[w].read = writer[w].read
        /\ writer'[w].next = writer[w].next
        /\ writer'[w].job = writer[w].job
        /\ writer'[w].seen = metadata
        /\ \A u \in M!Writers : u # w => writer'[u] = writer[u]
    BY <1>1, <1>3, WriterMoves
  <2>2. /\ WorkerKnows(w) => WorkerKnows(w)'
        /\ OperatorKnows(w) => OperatorKnows(w)'
    BY <2>1 DEF WorkerKnows, OperatorKnows, Writes
  <2>3. QED
    BY <1>1, <2>1, <2>2, QuietWriter DEF EnrichmentInv, WritersKnow
<1>4. ASSUME NEW w \in M!Writers, M!Rollback(w) PROVE EnrichmentInv'
  <2>1. /\ UNCHANGED <<metadata, job>> /\ writer'[w].pc = "idle"
        /\ \A u \in M!Writers : u # w => writer'[u] = writer[u]
    BY <1>1, <1>4, WriterMoves DEF M!Rollback
  <2>2. WorkerKnows(w)' /\ OperatorKnows(w)'
    BY <2>1 DEF WorkerKnows, OperatorKnows, Writes
  <2>3. QED BY <1>1, <2>1, <2>2, QuietWriter
<1>5. ASSUME NEW w \in M!Writers, M!Commit(w) PROVE EnrichmentInv'
  BY <1>1, <1>5, WorkerCommits, OperatorCommits DEF M!Writers
<1>6. ASSUME NEW w \in AutoWriters, M!CheckAuto(w) PROVE EnrichmentInv'
  <2>1. w \in M!Writers /\ w \notin ManualWriters
    BY WriterAssumption DEF M!Writers
  <2>2. WorkerKnows(w)'
    BY <1>1, <1>6, AutoChecks DEF EnrichmentInv, WritersKnow, WorkerKnows
  <2>3. QED BY <1>1, <1>6, <2>1, <2>2, AutoChecks, QuietWriter
<1>7. ASSUME NEW w \in ManualWriters, M!CheckManual(w) PROVE EnrichmentInv'
  <2>1. w \in M!Writers /\ w \notin AutoWriters
    BY WriterAssumption DEF M!Writers
  <2>2. OperatorKnows(w)'
    BY <1>1, <1>7, ManualChecks DEF EnrichmentInv, WritersKnow, OperatorKnows
  <2>3. QED BY <1>1, <1>7, <2>1, <2>2, ManualChecks, QuietWriter
<1>8. CASE UNCHANGED EnrichmentVars
  BY <1>8
  DEF EnrichmentVars, EnrichmentInv, M!TypeOK, JobFollowsMetadata,
      M!JobFollowsMetadata, WritersKnow, WorkerKnows, OperatorKnows, Writes
<1>9. QED BY <1>2, <1>3, <1>4, <1>5, <1>6, <1>7, <1>8 DEF M!Next

(* A step on the rows is a step of the analyses or of the enrichment.      *)
LEMMA RowsStep ==
    ASSUME [RowsNext]_<<vars, metadata, job, writer>>
    PROVE  [Next]_vars /\ [M!Next]_EnrichmentVars
BY DEF RowsNext, EnrichmentVars

(* The initial rows. *)
LEMMA EnrichmentInit == RowsInit => EnrichmentInv
<1> SUFFICES ASSUME RowsInit PROVE EnrichmentInv
  OBVIOUS
<1>1. /\ metadata = M!PendingMetadata /\ job = "PENDING"
      /\ writer = [w \in M!Writers |-> M!Idle]
  BY DEF RowsInit, M!Init
<1>2. M!TypeOK
  BY <1>1, MetadataTypes DEF M!TypeOK, M!Jobs
<1>3. JobFollowsMetadata
  BY <1>1 DEF JobFollowsMetadata, M!JobFollowsMetadata, M!PendingMetadata
<1>4. WritersKnow
  BY <1>1
  DEF WritersKnow, WorkerKnows, OperatorKnows, Writes, M!Idle, M!Writers
<1>5. QED BY <1>2, <1>3, <1>4 DEF EnrichmentInv

(* One worker and one operator, in any interleaving of their transactions, *)
(* with crashes and repetitions: the job row follows the metadata row,     *)
(* although neither is locked between its read and its flush.              *)
THEOREM JobTellsTheTruth ==
    ASSUME OneWorker, OneOperator PROVE RowsSpec => []JobFollowsMetadata
<1>1. EnrichmentInv => JobFollowsMetadata
  BY DEF EnrichmentInv
<1>2. EnrichmentInv /\ [RowsNext]_<<vars, metadata, job, writer>>
        => EnrichmentInv'
  BY RowsStep, EnrichmentStep
<1>3. QED BY <1>1, <1>2, EnrichmentInit, PTL DEF RowsSpec

(* The same among all writers of the rows: those of the metadata and the   *)
(* job can neither part a priority from its decision, nor do they have to  *)
(* be kept away from the analyses once these have begun.                   *)
THEOREM PriorityIsOfDecisionInRows == RowsSpec => []PriorityMatchesRelevance
<1>1. RowsInit => Inv
  BY InvInit DEF RowsInit
<1>2. Inv /\ [RowsNext]_<<vars, metadata, job, writer>> => Inv'
  BY RowsStep, InvStep
<1>3. QED BY <1>1, <1>2, InvMatches, PTL DEF RowsSpec

=============================================================================
