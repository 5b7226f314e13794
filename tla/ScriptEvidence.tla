--------------------------- MODULE ScriptEvidence ---------------------------
(***************************************************************************)
(* GenerateNewsScript up to the call of the script model: the background   *)
(* facts of one article, from recent news in the database and from the     *)
(* official box scores of games.  Facts are sets: nothing depends on the   *)
(* order in which they are told.                                           *)
(*                                                                         *)
(* Time is in ticks, Day of them to a day of Japan, day 0 beginning at 0.  *)
(* A box score tells its day in its URL and the time of day at which the   *)
(* game ended in its text.  Statistics and wording are left out: a game    *)
(* fact is told apart by its game, its pitcher and its role.               *)
(***************************************************************************)
EXTENDS Integers, Sequences, FiniteSets

CONSTANTS Published,       \* published_at of the article
          Day,             \* ticks of a day
          Lookback,        \* lookback_days, of both kinds of fact
          News,            \* other intakes: id, when published, when stored
          NewsLimit,       \* candidate_limit
          Games,           \* see Game below
          MonthOf(_)       \* the month of a day

(* An intake is in the database, with its metadata, from "stored" on; ids  *)
(* are numbered in the order of their strings.                             *)
(* A game has its day, when it really ended, the schedule page that lists  *)
(* it ("games" or "farm"), whether the Giants play, and how many rows of   *)
(* its box score show each pitcher.                                        *)
ASSUME EvidenceAssumption ==
    /\ Published \in Int /\ Day \in Nat \ {0}
    /\ Lookback \in 1..30 /\ NewsLimit \in 1..100
    /\ IsFiniteSet(News)
    /\ \A n \in News : n.id \in Int /\ n.published \in Int /\ n.stored \in Int
    /\ \A m, n \in News : m.id = n.id => m = n
    /\ \A g \in Games : /\ g.day \in Int /\ g.ended \in Int
                        /\ g.ended >= g.day * Day
                        /\ g.list \in {"games", "farm"} /\ g.giants \in BOOLEAN

Roles == {"target", "comparison", "team_context"}

DayOf(t) == t \div Day

-----------------------------------------------------------------------------
(* The order of list_recent_context: the latest first, then by id. *)
Newer(m, n) ==
    \/ m.published > n.published
    \/ m.published = n.published /\ m.id < n.id

(* list_recent_context at time t: its rows, and the first of them. *)
Recent(t) == {n \in News : /\ n.stored <= t
                           /\ n.published >= Published - Lookback * Day
                           /\ n.published <= Published}

RecentContext(t) ==
    LET found == Cardinality(Recent(t))
    IN  [k \in 1..(IF found < NewsLimit THEN found ELSE NewsLimit) |->
           CHOOSE n \in Recent(t) :
              Cardinality({m \in Recent(t) : Newer(m, n)}) = k - 1]

(* An answer of the context selector is a sequence of selections: the      *)
(* index of a candidate, a text and a role.  An index that is out of range *)
(* raises, in the schema of the answer or after it.                        *)
Answerable(answer, candidates) ==
    \A k \in DOMAIN answer : answer[k].index \in DOMAIN candidates

(* The first of the selections with one index and text. *)
ContextFacts(answer, candidates) ==
    LET First(k) == \A j \in 1..(k - 1) : \/ answer[j].index # answer[k].index
                                         \/ answer[j].text # answer[k].text
        Fact(s) == [kind |-> "news", of |-> candidates[s.index],
                    text |-> s.text, role |-> s.role]
    IN  {Fact(answer[k]) : k \in {k \in DOMAIN answer : First(k)}}

-----------------------------------------------------------------------------
(* An answer of the player selector: a name, whether the mention is in the *)
(* article and the name in the mention, and a role.                        *)
PlayerCandidates(answer) ==
    {[name |-> answer[k].name, role |-> answer[k].role] :
       k \in {k \in DOMAIN answer : /\ answer[k].mentioned
                                    /\ answer[k].role # "team_context"}}

WindowEnd == DayOf(Published)
WindowStart == WindowEnd - Lookback

(* Months are numbered through the years. *)
ASSUME MonthAssumption ==
    \A d, e \in WindowStart..WindowEnd :
        MonthOf(d) \in Int /\ (d <= e => MonthOf(d) <= MonthOf(e))

(* (Mutated form of Months: the month of the article only.) *)
MonthsOfArticle == {MonthOf(WindowEnd)}

(* _iter_months. *)
Months == MonthOf(WindowStart)..MonthOf(WindowEnd)

(* The schedule pages and the box scores that cannot be fetched. *)
AllUp == [lists |-> {}, games |-> {}]

(* NPBGiantsGameUrlDiscovery with NPBGiantsScheduleParser: each schedule   *)
(* page is fetched, unless it is down, and its box scores in the window    *)
(* are taken; a page also links to games of other months.                  *)
GameUrls(down) ==
    LET pages == (Months \X {"games", "farm"}) \ down.lists
    IN  {g \in Games : /\ \E p \in pages : <<MonthOf(g.day), g.list>> = p
                       /\ g.giants
                       /\ g.day \in WindowStart..WindowEnd}

(* _parse_game_ended_at, of a game marked as finished. *)
ShownEnd(g) == g.day * Day + (g.ended % Day)

(* The page has one row of the pitcher; otherwise extract_pitcher raises. *)
Extractable(g, name) == name \in DOMAIN g.rows /\ g.rows[name] = 1

(* (Mutated form of Usable: whatever is finished by now.) *)
UsableByNow(g, t) == g.ended <= t

(* The fetched box score counts: the game is finished, and by the time it  *)
(* shows before the article was published.                                 *)
Usable(g, t) == g.ended <= t /\ ShownEnd(g) <= Published

(* CollectNPBAuthoritativeFacts at time t; a page that is down, or that    *)
(* cannot be read, is passed over.                                         *)
GameFacts(answer, t, down) ==
    LET games == {g \in GameUrls(down) \ down.games : Usable(g, t)}
        Fact(g, p) == [kind |-> "game", of |-> g, text |-> p.name, role |-> p.role]
        asked == {gp \in games \X PlayerCandidates(answer) :
                     Extractable(gp[1], gp[2].name)}
    IN  {Fact(gp[1], gp[2]) : gp \in asked}

(* _deduplicate_background_facts. *)
Deduplicated(recent, official) == recent \cup official

-----------------------------------------------------------------------------
(* When what a fact tells became known. *)
KnownSince(f) == IF f.kind = "game" THEN f.of.ended ELSE f.of.published

(* A game that goes on past midnight shows the end of the day before. *)
PastMidnight(f) == f.kind = "game" /\ DayOf(f.of.ended) # f.of.day

(* The outings of a pitcher that an article may be told with, all of the   *)
(* window's games being readable.                                          *)
Outings(name, t) ==
    {g \in Games : /\ g.giants /\ Extractable(g, name)
                   /\ g.ended <= t /\ g.ended <= Published
                   /\ DayOf(Published) - g.day <= Lookback}

=============================================================================
