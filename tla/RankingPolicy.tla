--------------------------- MODULE RankingPolicy ---------------------------
(***************************************************************************)
(* The pure rules by which news is accepted, scored and ordered: the       *)
(* relevance decision, the freshness and ranking scores and the sort key   *)
(* of rank_news_candidates.  Ages are in whole seconds.                    *)
(***************************************************************************)
EXTENDS Integers, FiniteSets

ScoreRange == 0..100

Hour == 3600

CONSTANT Undated     \* published_at IS NULL

ASSUME UndatedAssumption == Undated \notin Int

(* decide_news_relevance *)
Decision(relevance) ==
    IF relevance >= 70 THEN "ACCEPTED"
    ELSE IF relevance >= 40 THEN "REVIEW" ELSE "REJECTED"

(* Only what is accepted or under review is ranked. *)
Eligible(relevance) == Decision(relevance) \in {"ACCEPTED", "REVIEW"}

(* An article dated in the future counts as new. *)
Age(published, now) == IF published > now THEN 0 ELSE now - published

FreshnessOfAge(age) ==
    IF age <= 2 * Hour THEN 100
    ELSE IF age <= 6 * Hour THEN 90
    ELSE IF age <= 12 * Hour THEN 75
    ELSE IF age <= 24 * Hour THEN 60
    ELSE IF age <= 48 * Hour THEN 30
    ELSE 0

FreshnessScore(published, now) ==
    IF published = Undated THEN 0 ELSE FreshnessOfAge(Age(published, now))

(* Percent weights, rounded half up. *)
RankingScore(relevance, priority, freshness) ==
    (relevance * 15 + priority * 65 + freshness * 20 + 50) \div 100

(* The sort key: ranking score, priority score, publication (undated       *)
(* last), and the id, each candidate's own.                                *)
RanksBefore(c, d) ==
    \/ c.ranking > d.ranking
    \/ /\ c.ranking = d.ranking
       /\ \/ c.priority > d.priority
          \/ /\ c.priority = d.priority
             /\ \/ c.published # Undated /\ d.published = Undated
                \/ /\ c.published # Undated /\ d.published # Undated
                   /\ c.published > d.published
                \/ c.published = d.published /\ c.id < d.id

=============================================================================
