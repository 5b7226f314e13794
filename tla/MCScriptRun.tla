----------------------------- MODULE MCScriptRun -----------------------------
(***************************************************************************)
(* Two workers and two ranking scores for one article, published in the    *)
(* first half of day 0, in a month that has begun on day -1.  Three other  *)
(* articles, one of them stored only later, and games at the ends of the   *)
(* window, before and after the article, past midnight, of other teams.    *)
(***************************************************************************)
EXTENDS ScriptRun, TLC

CONSTANTS w1, w2

MCWorkers == {w1, w2}
MCScores  == {70, 75}
MCMonthOf(day) == IF day < -1 THEN 5 ELSE 6

Symmetry == Permutations(MCWorkers)

Article(id, published, stored) ==
    [id |-> id, published |-> published, stored |-> stored]

MCNews == {Article(4, -3, -3), Article(2, -1, 2), Article(3, -1, -1),
           Article(1, 1, 1), Article(5, -8, -8)}

Game(day, ended, list, giants, rows) ==
    [day |-> day, ended |-> ended, list |-> list, giants |-> giants,
     rows |-> rows]

MCGames ==
    {Game(-3, -5, "games", TRUE, [togo |-> 1]),
     Game(-1, -1, "farm", TRUE, [togo |-> 1, ide |-> 1]),
     Game(-1, 1, "games", TRUE, [ide |-> 1]),
     Game(0, 1, "games", TRUE, [togo |-> 1]),
     Game(-4, -7, "games", TRUE, [togo |-> 1]),
     Game(-2, -3, "games", FALSE, [togo |-> 1]),
     Game(-2, -3, "farm", TRUE, [togo |-> 2])}

Selection(index, text, role) == [index |-> index, text |-> text, role |-> role]

MCContextAnswers ==
    {<<Selection(1, "form", "target"), Selection(1, "form", "comparison")>>,
     <<Selection(2, "form", "team_context")>>}

Player(name, mentioned, role) ==
    [name |-> name, mentioned |-> mentioned, role |-> role]

MCPlayerAnswers ==
    {<<Player("togo", TRUE, "target"), Player("ide", TRUE, "comparison"),
       Player("ide", TRUE, "team_context")>>,
     <<Player("ide", FALSE, "target"), Player("togo", TRUE, "target"),
       Player("togo", TRUE, "target")>>}

MCOutages ==
    {AllUp, [lists |-> {<<5, "games">>}, games |-> {}],
     [lists |-> {}, games |-> {g \in MCGames : g.day = -1}]}

=============================================================================
