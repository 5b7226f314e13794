------------------------- MODULE MetadataEnrichment -------------------------
(***************************************************************************)
(* The article metadata and the processing job of one news intake, written *)
(* by the automatic enrichment (the RQ job and the management command) and *)
(* by set_news_metadata, an operator's command, each in one transaction.   *)
(*                                                                         *)
(* A transaction reads both rows, checks the transitions on what it read,  *)
(* reads the metadata record again and flushes the columns that differ     *)
(* from it.  The flush takes the lock of the metadata row, and the update  *)
(* of the job row follows under it, so flush, job update and commit are    *)
(* one action; the reads before are not protected by any lock.             *)
(***************************************************************************)
EXTENDS Naturals

CONSTANTS AutoWriters,    \* process_news_metadata, enrich_news_metadata
          ManualWriters,  \* set_news_metadata
          Nobody

Writers == AutoWriters \cup ManualWriters

VARIABLES metadata, job, writer

vars == <<metadata, job, writer>>

(* A title and a description are named by the writer they come from. *)
MetadataRows ==
    [status      : {"PENDING", "EXTRACTED", "MANUAL", "UNAVAILABLE", "FAILED"},
     title       : Writers \cup {Nobody},
     description : Writers \cup {Nobody},
     reason      : BOOLEAN]              \* failure_reason IS NOT NULL

PendingMetadata == [status |-> "PENDING", title |-> Nobody,
                    description |-> Nobody, reason |-> FALSE]

Jobs == {"PENDING", "PROCESSING", "COMPLETED", "FAILED"}

Transactions == [pc   : {"idle", "loaded", "checked", "flush"},
                 read : MetadataRows,    \* metadata as _load_records read it
                 next : MetadataRows,
                 seen : MetadataRows,    \* the record as update read it
                 job  : Jobs]            \* status to store

Idle == [pc |-> "idle", read |-> PendingMetadata, next |-> PendingMetadata,
         seen |-> PendingMetadata, job |-> "PENDING"]

TypeOK ==
    /\ metadata \in MetadataRows
    /\ job \in Jobs
    /\ writer \in [Writers -> Transactions]

Init ==
    /\ metadata = PendingMetadata
    /\ job = "PENDING"
    /\ writer = [w \in Writers |-> Idle]

-----------------------------------------------------------------------------
(* __post_init__ of NewsArticleMetadata, run on every read. *)
Loadable(row) ==
    CASE row.status = "PENDING" -> row = PendingMetadata
      [] row.status \in {"EXTRACTED", "MANUAL"} ->
            row.title # Nobody /\ ~row.reason
      [] OTHER -> row.title = Nobody /\ row.description = Nobody /\ row.reason

(* record_extracted, record_manual, mark_unavailable, mark_failed. *)
Completed(status, w, description) ==
    [status |-> status, title |-> w, description |-> description,
     reason |-> FALSE]

Rejected(status) ==
    [status |-> status, title |-> Nobody, description |-> Nobody,
     reason |-> TRUE]

(* _load_records, the metadata. *)
Load(w) ==
    /\ writer[w].pc = "idle"
    /\ Loadable(metadata)
    /\ writer' = [writer EXCEPT ![w].pc = "loaded", ![w].read = metadata]
    /\ UNCHANGED <<metadata, job>>

Checked(w, next, jobStatus) ==
    writer' = [writer EXCEPT ![w].pc = "checked", ![w].next = next,
                             ![w].job = jobStatus]

(* _start_if_pending. *)
JobStartable == job \in {"PENDING", "PROCESSING"}

(* _load_records, the job, and the transitions of the automatic enrichment *)
(* for a page that was parsed, is not available, or could not be fetched.  *)
CheckAuto(w) ==
    /\ writer[w].pc = "loaded"
    /\ writer[w].read.status = "PENDING"
    /\ JobStartable
    /\ \/ \E d \in {w, Nobody} : Checked(w, Completed("EXTRACTED", w, d), "COMPLETED")
       \/ Checked(w, Rejected("UNAVAILABLE"), "COMPLETED")
       \/ Checked(w, Rejected("FAILED"), "FAILED")
    /\ UNCHANGED <<metadata, job>>

(* The same for metadata that an operator enters, which is also accepted   *)
(* for an unavailable page whose job is completed and then stays so.       *)
CheckManual(w) ==
    /\ writer[w].pc = "loaded"
    /\ \/ writer[w].read.status = "PENDING" /\ JobStartable
       \/ writer[w].read.status = "UNAVAILABLE" /\ job = "COMPLETED"
    /\ \E d \in {w, Nobody} : Checked(w, Completed("MANUAL", w, d), "COMPLETED")
    /\ UNCHANGED <<metadata, job>>

(* metadata_repository.update, the session.get of the record. *)
ReadRecord(w) ==
    /\ writer[w].pc = "checked"
    /\ writer' = [writer EXCEPT ![w].pc = "flush", ![w].seen = metadata]
    /\ UNCHANGED <<metadata, job>>

(* (Mutated form of Commit: the job is left alone if the record that update *)
(* reads is not PENDING any more.)                                         *)
CommitJobOfPending(w) ==
    /\ writer[w].pc = "flush"
    /\ metadata' = [c \in DOMAIN metadata |->
                      IF writer[w].next[c] = writer[w].seen[c]
                        THEN metadata[c] ELSE writer[w].next[c]]
    /\ job' = IF writer[w].seen.status = "PENDING" THEN writer[w].job ELSE job
    /\ writer' = [writer EXCEPT ![w] = Idle]

(* The flush of the changed columns, job_repository.update unless the page *)
(* was unavailable, and the commit.                                        *)
Commit(w) ==
    /\ writer[w].pc = "flush"
    /\ metadata' = [c \in DOMAIN metadata |->
                      IF writer[w].next[c] = writer[w].seen[c]
                        THEN metadata[c] ELSE writer[w].next[c]]
    /\ job' = IF writer[w].read.status = "UNAVAILABLE" THEN job
                                                      ELSE writer[w].job
    /\ writer' = [writer EXCEPT ![w] = Idle]

(* A check raises, or the process dies: the transaction rolls back. *)
Rollback(w) ==
    /\ writer[w].pc # "idle"
    /\ writer' = [writer EXCEPT ![w] = Idle]
    /\ UNCHANGED <<metadata, job>>

Next ==
    \/ \E w \in Writers :
         Load(w) \/ ReadRecord(w) \/ Commit(w) \/ Rollback(w)
    \/ \E w \in AutoWriters : CheckAuto(w)
    \/ \E w \in ManualWriters : CheckManual(w)

Spec == Init /\ [][Next]_vars

-----------------------------------------------------------------------------
(* However the worker and one operator race, the job row tells the truth   *)
(* about the metadata row: it is COMPLETED exactly when the metadata is    *)
(* EXTRACTED, MANUAL or UNAVAILABLE, and FAILED exactly when it is FAILED, *)
(* so "Unavailable metadata requires a completed job" is never raised.     *)
JobFollowsMetadata ==
    /\ job = "COMPLETED" <=>
          metadata.status \in {"EXTRACTED", "MANUAL", "UNAVAILABLE"}
    /\ job = "FAILED" <=> metadata.status = "FAILED"

(* "completed metadata must not include a failure reason", "unavailable or *)
(* failed metadata must not include article data": every committed         *)
(* metadata row can be loaded again.                                       *)
MetadataStaysLoadable == Loadable(metadata)

=============================================================================
