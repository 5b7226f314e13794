--------------------------- MODULE AttemptLedger ---------------------------
(***************************************************************************)
(* What the claim protocol of a generation row promises, without clocks,   *)
(* rows or messages: attempts are numbered, opening one hands its number   *)
(* to one holder, and only the holder of the latest number can end the     *)
(* attempt, with a result that is that attempt's.  An attempt may be taken *)
(* over while its holder still works; the late holder can then only give   *)
(* its number back.                                                        *)
(***************************************************************************)
EXTENDS Integers

CONSTANT Holders

VARIABLES phase,      \* waiting for an attempt, in an attempt, or done
          attempt,    \* number of the latest attempt
          result,     \* the attempt that produced the result, 0 if none
          lease       \* the attempt each holder works on, 0 if none

lvars == <<phase, attempt, result, lease>>

LedgerTypeOK ==
    /\ phase \in {"waiting", "open", "done"}
    /\ attempt \in Nat
    /\ result \in Nat
    /\ lease \in [Holders -> Nat]

LedgerInit ==
    /\ phase = "waiting"
    /\ attempt = 0
    /\ result = 0
    /\ lease = [h \in Holders |-> 0]

Open(h) ==
    /\ phase # "done"
    /\ lease[h] = 0
    /\ phase' = "open"
    /\ attempt' = attempt + 1
    /\ lease' = [lease EXCEPT ![h] = attempt + 1]
    /\ UNCHANGED result

Latest(h) == phase = "open" /\ lease[h] = attempt

GiveBack(h) == lease' = [lease EXCEPT ![h] = 0]

Succeed(h) ==
    /\ Latest(h)
    /\ phase' = "done"
    /\ result' = attempt
    /\ GiveBack(h)
    /\ UNCHANGED attempt

Fail(h) ==
    /\ Latest(h)
    /\ phase' = "waiting"
    /\ GiveBack(h)
    /\ UNCHANGED <<attempt, result>>

(* Superseded, crashed or killed. *)
Release(h) ==
    /\ lease[h] # 0
    /\ GiveBack(h)
    /\ UNCHANGED <<phase, attempt, result>>

LedgerNext ==
    \E h \in Holders : Open(h) \/ Succeed(h) \/ Fail(h) \/ Release(h)

LedgerSpec == LedgerInit /\ [][LedgerNext]_lvars

-----------------------------------------------------------------------------
(* No two holders ever work on the same attempt, and none on an attempt    *)
(* that has not been opened.                                               *)
OneHolderPerAttempt ==
    /\ \A h \in Holders : lease[h] <= attempt
    /\ \A g, h \in Holders : g # h /\ lease[g] # 0 => lease[g] # lease[h]

(* The result exists exactly when the ledger is done, and it is the latest *)
(* attempt's.                                                              *)
ResultIsLatest ==
    /\ phase = "done" => result = attempt /\ attempt # 0
    /\ phase # "done" => result = 0

=============================================================================
