--------------------------- MODULE GenerationRow ---------------------------
(***************************************************************************)
(* One row of a generation table (news_script_generations,                 *)
(* news_narration_audio_generations, news_video_generations): the columns  *)
(* that the claim protocol reads or writes, the transitions of the domain  *)
(* object, the conditional UPDATE that claims an attempt, and the way the  *)
(* ORM writes a changed object back.  The three tables share the protocol; *)
(* each component module says which operators its own code uses.           *)
(*                                                                         *)
(* The columns that hold a result (script text and evidence, storage key,  *)
(* size, hash, duration) are always set and cleared together by the code   *)
(* and are one field here, "output": the number of the attempt whose work  *)
(* produced them, or NoOutput.  The row is created at time 0.              *)
(***************************************************************************)
EXTENDS Integers

Never    == -1          \* a NULL timestamp
NoOutput == 0           \* NULL result columns

Instants == Nat \cup {Never}

Statuses == {"PENDING", "GENERATING", "GENERATED", "FAILED"}

Rows == [status    : Statuses,
         attempt   : Nat,
         output    : Nat,
         reason    : BOOLEAN,      \* failure_reason IS NOT NULL
         started   : Instants,
         completed : Instants,
         updated   : Nat]

PendingRow == [status |-> "PENDING", attempt |-> 0, output |-> NoOutput,
               reason |-> FALSE, started |-> Never, completed |-> Never,
               updated |-> 0]

(* (Mutated form of IsStale: the boundary one unit early.) *)
StaleTooEarly(row, t, staleAfter) ==
    /\ row.status = "GENERATING"
    /\ row.started # Never
    /\ row.started <= t - staleAfter + 1

(***************************************************************************)
(* The WHERE clause of the claim: waiting or failed, or generating since   *)
(* at least staleAfter.                                                    *)
(***************************************************************************)
IsStale(row, t, staleAfter) ==
    /\ row.status = "GENERATING"
    /\ row.started # Never
    /\ row.started <= t - staleAfter

(* (Mutated form of Claimable: everything that is not being generated.) *)
ClaimableIfIdle(row, t, staleAfter) ==
    /\ row.status # "GENERATING" \/ IsStale(row, t, staleAfter)
    /\ row.updated <= t

Claimable(row, t, staleAfter) ==
    /\ \/ row.status \in {"PENDING", "FAILED"}
       \/ IsStale(row, t, staleAfter)
    /\ row.updated <= t

(* (Mutated form of Claimed: completed_at is not reset.) *)
ClaimedKeepingEnd(row, t) ==
    [row EXCEPT !.status = "GENERATING", !.attempt = @ + 1,
                !.output = NoOutput, !.reason = FALSE,
                !.started = t, !.updated = t]

(* (Mutated form of Claimed: attempt_count stays as it is.) *)
ClaimedUncounted(row, t) ==
    [row EXCEPT !.status = "GENERATING", !.output = NoOutput,
                !.reason = FALSE, !.started = t, !.completed = Never,
                !.updated = t]

(* The SET clause of the claim. *)
Claimed(row, t) ==
    [row EXCEPT !.status = "GENERATING", !.attempt = @ + 1,
                !.output = NoOutput, !.reason = FALSE,
                !.started = t, !.completed = Never, !.updated = t]

(***************************************************************************)
(* The domain transitions out of GENERATING; the caller checks the status. *)
(***************************************************************************)
Succeeded(row, out, t) ==
    [row EXCEPT !.status = "GENERATED", !.output = out, !.reason = FALSE,
                !.completed = t, !.updated = t]

FailedRow(row, t) ==
    [row EXCEPT !.status = "FAILED", !.output = NoOutput, !.reason = TRUE,
                !.completed = t, !.updated = t]

(***************************************************************************)
(* What the domain object's __post_init__ accepts.  to_domain runs it on   *)
(* every row that is read, so a row that fails it can no longer be loaded. *)
(***************************************************************************)
WellFormed(row) ==
    /\ (row.started # Never /\ row.completed # Never)
          => row.completed >= row.started
    /\ row.status = "PENDING" =>
          /\ row.attempt = 0
          /\ row.started = Never /\ row.completed = Never
          /\ ~row.reason /\ row.output = NoOutput
    /\ row.status # "PENDING" => row.attempt >= 1 /\ row.started # Never
    /\ row.status = "GENERATING" =>
          row.completed = Never /\ ~row.reason /\ row.output = NoOutput
    /\ row.status = "GENERATED" =>
          row.completed # Never /\ ~row.reason /\ row.output # NoOutput
    /\ row.status = "FAILED" =>
          row.completed # Never /\ row.reason /\ row.output = NoOutput

(***************************************************************************)
(* repository.update: the record is read again ("seen"), every column is   *)
(* assigned from the new domain object, and the flush sends an UPDATE by   *)
(* primary key that names only the columns whose value differs from the    *)
(* one seen.  A column another transaction has changed in the meantime     *)
(* keeps that change unless it is among them.                              *)
(***************************************************************************)
Flushed(row, seen, new) ==
    [c \in DOMAIN row |-> IF new[c] = seen[c] THEN row[c] ELSE new[c]]

=============================================================================
