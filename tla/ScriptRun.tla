------------------------------ MODULE ScriptRun ------------------------------
(***************************************************************************)
(* ScriptGeneration with what its runs do between the claim and the        *)
(* write-back: they read recent news in a short transaction, fetch the box *)
(* scores of games, and generate the script from these facts, which are    *)
(* stored with it as its evidence snapshot.  Time goes on meanwhile, and a *)
(* retry may come long after the article, when more has happened.          *)
(***************************************************************************)
EXTENDS ScriptGeneration, ScriptEvidence

CONSTANTS ContextAnswers,   \* answers of the context selector
          PlayerAnswers,    \* answers of the player selector
          Outages           \* which pages may be down

VARIABLES found,            \* what each run has collected
          snapshot          \* evidence_snapshot of the row

evidence == <<found, snapshot>>

Nothing == [step |-> "none", facts |-> {}]

RunInit ==
    /\ Init
    /\ found = [w \in Workers |-> Nothing]
    /\ snapshot = {}

-----------------------------------------------------------------------------
(* BuildNewsScriptBackgroundFacts; without candidates nobody is asked. *)
ReadContext(w) ==
    LET candidates == RecentContext(now)
    IN  /\ At(w, "network")
        /\ found[w].step = "none"
        /\ \E answer \in IF candidates = <<>> THEN {<<>>} ELSE ContextAnswers :
              /\ Answerable(answer, candidates)
              /\ found' = [found EXCEPT ![w] =
                    [step |-> "context", facts |-> ContextFacts(answer, candidates)]]
        /\ UNCHANGED <<vars, snapshot>>

(* CollectNPBAuthoritativeFacts, and all facts together. *)
FetchGames(w, answer, down) ==
    /\ At(w, "network")
    /\ found[w].step = "context"
    /\ found' = [found EXCEPT ![w] =
          [step |-> "games",
           facts |-> Deduplicated(found[w].facts, GameFacts(answer, now, down))]]
    /\ UNCHANGED <<vars, snapshot>>

(* The script model answers, or something on the way has raised. *)
Answer(w, outcome) ==
    /\ outcome = "generated" => found[w].step = "games"
    /\ Generate(w, outcome)
    /\ UNCHANGED evidence

(* The end of a run; its facts are written with the script. *)
Finish(w) ==
    /\ \/ Flush(w) /\ snapshot' = IF gen'.output = gen.output THEN snapshot
                                  ELSE IF gen'.output = NoOutput THEN {}
                                  ELSE found[w].facts
       \/ Crash(w) /\ UNCHANGED snapshot
    /\ found' = [found EXCEPT ![w] = Nothing]

Start(w, s) ==
    /\ Claim(w, s)
    /\ snapshot' = {}
    /\ UNCHANGED found

RunNext ==
    \/ Tick /\ UNCHANGED evidence
    \/ \E w \in Workers :
         \/ \E s \in Scores : Start(w, s)
         \/ ReadContext(w)
         \/ \E answer \in PlayerAnswers, down \in Outages :
               FetchGames(w, answer, down)
         \/ \E outcome \in {"generated", "failed"} : Answer(w, outcome)
         \/ (Settle(w) \/ ReadRecord(w)) /\ UNCHANGED evidence
         \/ Finish(w)

RunSpec == RunInit /\ [][RunNext]_<<vars, evidence>>

-----------------------------------------------------------------------------
(* A script tells nothing that was not known when its article was          *)
(* published, however late it is generated, except of games that end past  *)
(* midnight.                                                               *)
NothingFromTheFuture ==
    \A f \in snapshot : KnownSince(f) <= Published \/ PastMidnight(f)

(* A run to which every page is readable misses no outing of a pitcher it  *)
(* asks about, at the ends of the window and over the turn of a month too. *)
NoOutingMissed ==
    [][\A w \in Workers, answer \in PlayerAnswers :
          FetchGames(w, answer, AllUp) =>
             \A p \in PlayerCandidates(answer) :
                \A g \in Outings(p.name, now) :
                   \E f \in found'[w].facts :
                      f.of = g /\ f.text = p.name /\ f.role = p.role]_<<vars, evidence>>

=============================================================================
