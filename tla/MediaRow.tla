------------------------------ MODULE MediaRow ------------------------------
(***************************************************************************)
(* The row of a media production (news_media_productions), the parent of   *)
(* one narration audio and one video: its columns and the transitions of   *)
(* the domain object NewsMediaProduction.  Nothing claims this row: both   *)
(* workers read it, compute the next object and write it back.             *)
(***************************************************************************)
EXTENDS Integers

Never == -1

MediaStatuses == {"PENDING", "PROCESSING", "READY", "FAILED"}

MediaRows == [status    : MediaStatuses,
              attempt   : Nat,
              reason    : BOOLEAN,
              started   : Nat \cup {Never},
              completed : Nat \cup {Never},
              updated   : Nat]

PendingMedia == [status |-> "PENDING", attempt |-> 0, reason |-> FALSE,
                 started |-> Never, completed |-> Never, updated |-> 0]

(* start is allowed from PENDING and FAILED, at no time before updated_at. *)
Startable(media) == media.status \in {"PENDING", "FAILED"}

(* (Mutated form of Started: completed_at is not reset.) *)
StartedKeepingEnd(media, t) ==
    [media EXCEPT !.status = "PROCESSING", !.attempt = @ + 1,
                  !.reason = FALSE, !.started = t, !.updated = t]

Started(media, t) ==
    [media EXCEPT !.status = "PROCESSING", !.attempt = @ + 1,
                  !.reason = FALSE, !.started = t, !.completed = Never,
                  !.updated = t]

(* mark_ready and mark_failed, both from PROCESSING only. *)
MarkedReady(media, t) ==
    [media EXCEPT !.status = "READY", !.reason = FALSE,
                  !.completed = t, !.updated = t]

MarkedFailed(media, t) ==
    [media EXCEPT !.status = "FAILED", !.reason = TRUE,
                  !.completed = t, !.updated = t]

(* __post_init__, run by to_domain on every row that is read. *)
MediaWellFormed(media) ==
    /\ (media.started # Never /\ media.completed # Never)
          => media.completed >= media.started
    /\ media.status = "PENDING" =>
          /\ media.attempt = 0 /\ ~media.reason
          /\ media.started = Never /\ media.completed = Never
    /\ media.status # "PENDING" => media.attempt >= 1 /\ media.started # Never
    /\ media.status = "PROCESSING" => ~media.reason /\ media.completed = Never
    /\ media.status = "READY" => ~media.reason /\ media.completed # Never
    /\ media.status = "FAILED" => media.reason /\ media.completed # Never

=============================================================================
