-------------------------- MODULE Generation_proofs --------------------------
(***************************************************************************)
(* What the proofs about the three generation protocols share: what the    *)
(* transitions of a generation row preserve, and the invariants of the     *)
(* ledger of attempts that the protocols implement.                        *)
(***************************************************************************)
EXTENDS GenerationRow, AttemptLedger, TLAPS

(* A row that has just been inserted is a row, and can be loaded. *)
LEMMA PendingType == PendingRow \in Rows /\ WellFormed(PendingRow)
BY DEF PendingRow, Rows, Statuses, Instants, NoOutput, Never, WellFormed

(* The row operators stay within the rows. *)
LEMMA RowTypes ==
    ASSUME NEW row \in Rows, NEW t \in Nat, NEW out \in Nat
    PROVE  /\ Claimed(row, t) \in Rows
           /\ Succeeded(row, out, t) \in Rows
           /\ FailedRow(row, t) \in Rows
<1> USE DEF Rows, Statuses, Instants, NoOutput
<1>1. Claimed(row, t) \in Rows
  <2>1. row.attempt + 1 \in Nat
    OBVIOUS
  <2>2. QED BY <2>1 DEF Claimed
<1>2. Succeeded(row, out, t) \in Rows
  BY DEF Succeeded
<1>3. FailedRow(row, t) \in Rows
  BY DEF FailedRow
<1>4. QED BY <1>1, <1>2, <1>3

(* A claimed row can be loaded, whatever was in the columns before. *)
LEMMA ClaimedWellFormed ==
    ASSUME NEW row \in Rows, NEW t \in Nat
    PROVE  WellFormed(Claimed(row, t))
<1>1. row.attempt + 1 >= 1 /\ t # Never
  BY DEF Rows, Never
<1>2. QED BY <1>1 DEF Claimed, WellFormed, Rows

(* The end of an attempt can be loaded if it is not before its start. *)
LEMMA EndedWellFormed ==
    ASSUME NEW row \in Rows, NEW t \in Nat, NEW out \in Nat \ {NoOutput},
           WellFormed(row), row.status = "GENERATING", row.started <= t
    PROVE  WellFormed(Succeeded(row, out, t)) /\ WellFormed(FailedRow(row, t))
<1>1. t # Never
  BY DEF Never
<1>2. row.attempt >= 1 /\ row.started # Never /\ t >= row.started
  BY DEF WellFormed, Rows, Instants, Never
<1>3. WellFormed(Succeeded(row, out, t))
  BY <1>1, <1>2 DEF Succeeded, WellFormed, Rows
<1>4. WellFormed(FailedRow(row, t))
  BY <1>1, <1>2 DEF FailedRow, WellFormed, Rows
<1>5. QED BY <1>3, <1>4

(* Without an interference between the repository's read and its flush,    *)
(* the flush stores the new object.                                        *)
LEMMA UndisturbedFlush ==
    ASSUME NEW row \in Rows, NEW new \in Rows
    PROVE  Flushed(row, row, new) = new
<1>1. DOMAIN row = DOMAIN new
  BY DEF Rows
<1>2. Flushed(row, row, new) = [c \in DOMAIN row |-> new[c]]
  BY DEF Flushed
<1>3. new = [c \in DOMAIN new |-> new[c]]
  BY DEF Rows
<1>4. QED BY <1>1, <1>2, <1>3

-----------------------------------------------------------------------------
(***************************************************************************)
(* The ledger's own invariants, which every component that implements it   *)
(* inherits.                                                               *)
(***************************************************************************)
LedgerInv ==
    /\ LedgerTypeOK
    /\ phase = "open" => attempt # 0
    /\ OneHolderPerAttempt
    /\ ResultIsLatest

(* Every step of the ledger keeps the invariant. *)
LEMMA LedgerStepInv == LedgerInv /\ [LedgerNext]_lvars => LedgerInv'
<1> SUFFICES ASSUME LedgerInv, [LedgerNext]_lvars PROVE LedgerInv'
  OBVIOUS
<1> USE DEF LedgerInv, LedgerTypeOK, OneHolderPerAttempt, ResultIsLatest
<1>1. ASSUME NEW h \in Holders, Open(h) PROVE LedgerInv'
  BY <1>1 DEF Open
<1>2. ASSUME NEW h \in Holders, Succeed(h) PROVE LedgerInv'
  <2>1. \A g \in Holders : lease'[g] \in {0, lease[g]}
    BY <1>2 DEF Succeed, GiveBack
  <2>2. attempt # 0
    BY <1>2 DEF Succeed, Latest
  <2>3. QED BY <1>2, <2>1, <2>2 DEF Succeed, GiveBack
<1>3. ASSUME NEW h \in Holders, Fail(h) PROVE LedgerInv'
  BY <1>3 DEF Fail, Latest, GiveBack
<1>4. ASSUME NEW h \in Holders, Release(h) PROVE LedgerInv'
  BY <1>4 DEF Release, GiveBack
<1>5. CASE UNCHANGED lvars
  BY <1>5 DEF lvars
<1>6. QED BY <1>1, <1>2, <1>3, <1>4, <1>5 DEF LedgerNext

(* No attempt is ever held twice, and a result is always the latest        *)
(* attempt's: what claim, record_generated_if_current and                  *)
(* mark_failed_if_current promise together.                                *)
THEOREM LedgerCorrect == LedgerSpec => [](OneHolderPerAttempt /\ ResultIsLatest)
<1>1. LedgerInit => LedgerInv
  BY DEF LedgerInit, LedgerInv, LedgerTypeOK, OneHolderPerAttempt, ResultIsLatest
<1>2. LedgerInv => OneHolderPerAttempt /\ ResultIsLatest
  BY DEF LedgerInv
<1>3. QED BY <1>1, <1>2, LedgerStepInv, PTL DEF LedgerSpec

=============================================================================
