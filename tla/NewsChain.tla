------------------------------ MODULE NewsChain ------------------------------
(***************************************************************************)
(* One news intake from its metadata job to its script: NewsAnalysis takes *)
(* it through the three analysis stages, the ranking sees it when they are *)
(* done, and ScriptJob's jobs write its script.                            *)
(***************************************************************************)
EXTENDS NewsAnalysis

CONSTANTS Buckets, Scores, MaxDeaths

ASSUME ChainAssumption ==
    /\ Scores \subseteq 0..100
    /\ MaxDeaths \in Nat

VARIABLES listed, script, deaths, job

writing == <<listed, script, deaths, job>>

S == INSTANCE ScriptJob

ChainInit == Init /\ S!Init

(* list_eligible_candidates: the rows the ranking selects. *)
Ranked == metadata = "READY" /\ Eligible /\ priority = "ANALYZED"

(* No job of a stage is left.  Such a job of ranked news touches nothing   *)
(* that the script's jobs look at: the ranking may wait until it is gone,  *)
(* which bounds the states.                                                *)
StagesOver == \A s \in Stages : hash[s] = "absent"

ChainNext ==
    \/ Next /\ UNCHANGED writing
    \/ S!Next /\ (listed' => Ranked /\ StagesOver) /\ UNCHANGED vars

ChainSpec ==
    /\ ChainInit
    /\ [][ChainNext]_<<vars, writing>>
    /\ Fairness /\ S!Fairness

-----------------------------------------------------------------------------
(* (See ScriptJob.)  A script is not left GENERATING by a run that has     *)
(* died if one more job stands in line for it, unless another run dies.    *)
AbandonedScriptsEnd == S!AbandonedScriptsEnd

(* (See ScriptJob.)  An article that stays chosen gets its script at last, *)
(* unless a run has died and no job was left to follow.                    *)
ScriptsGetWritten == S!ScriptsGetWritten

=============================================================================
