-------------------------- MODULE VideoGeneration --------------------------
(***************************************************************************)
(* process_news_video and prepare_news_video_jobs for one media            *)
(* production: jobs that carry the number of the attempt they are for,     *)
(* workers that claim exactly that attempt, render to a file of the        *)
(* attempt, and end it with an UPDATE whose predicate names the attempt.   *)
(*                                                                         *)
(* Transaction 1 is two actions, the reads and the claim: the media row is *)
(* overwritten with the object started from the earlier read.  The write-  *)
(* back is two as well, the repository's read of the row and the           *)
(* conditional UPDATE; what follows the UPDATE in the same transaction     *)
(* happens under the row lock it holds.                                    *)
(*                                                                         *)
(* A queued job may run late, several times (retries of RQ) or never.  The *)
(* audio row and the audio file are only read here.                        *)
(***************************************************************************)
EXTENDS GenerationRow

CONSTANTS VideoWorkers,   \* RQ worker processes
          StaleAfter,     \* rq_job_timeout_seconds
          Grace,          \* how long a run outlives its timeout
          MaxTime,        \* bound of the clock
          MaxAttempts     \* bound of the attempt counters

ASSUME VideoAssumption ==
    /\ StaleAfter \in Nat \ {0}
    /\ Grace \in Nat
    /\ MaxTime \in Nat
    /\ MaxAttempts \in Nat

VARIABLES now,
          media,          \* the media production row
          audio,          \* the narration audio row
          store,          \* content of the audio file
          video,          \* the video row, PendingRow while there is none
          source,         \* its source_audio_sha256, NoOutput if no row
          jobs,           \* attempts for which a job was enqueued
          files,          \* attempts whose video file exists
          renderer        \* the run of each worker

vvars == <<video, source, jobs, files, renderer>>
vars  == <<now, media, audio, store, vvars>>

M == INSTANCE MediaRow

Steps == {"idle", "claim", "render", "check", "update"}
Intents == {"none", "generated", "failed"}

Runs == [pc     : Steps,
         job    : Nat,          \* expected_attempt_number
         parent : M!MediaRows,  \* media_production as transaction 1 read it
         began  : Nat,          \* claimed_generation.started_at
         intent : Intents,
         ended  : Nat]          \* completed_at / failed_at

Idle == [pc |-> "idle", job |-> 0, parent |-> M!PendingMedia, began |-> 0,
         intent |-> "none", ended |-> 0]

TypeOK ==
    /\ now \in Nat
    /\ media \in M!MediaRows
    /\ audio \in Rows
    /\ store \in Nat
    /\ video \in Rows
    /\ source \in Nat
    /\ jobs \subseteq Nat
    /\ files \subseteq Nat
    /\ renderer \in [VideoWorkers -> Runs]

VideoInit ==
    /\ video = PendingRow
    /\ source = NoOutput
    /\ jobs = {}
    /\ files = {}
    /\ renderer = [w \in VideoWorkers |-> Idle]

(* The narration is done.  Its last writer left the media row PROCESSING,  *)
(* or FAILED if it had claimed with a stale read of the row.               *)
Init ==
    /\ now = 0
    /\ media \in {M!Started(M!PendingMedia, 0),
                  M!MarkedFailed(M!Started(M!PendingMedia, 0), 0)}
    /\ audio = Succeeded(Claimed(PendingRow, 0), 1, 0)
    /\ store = 1
    /\ VideoInit

-----------------------------------------------------------------------------
Claiming(w) == renderer[w].pc \in {"render", "check", "update"}

Alive(w) == now < renderer[w].began + StaleAfter + Grace

At(w, pc) == renderer[w].pc = pc /\ Alive(w)

End(w) == renderer' = [renderer EXCEPT ![w] = Idle]

(* list_candidates: the production is being worked on, its narration is    *)
(* generated and its video is waiting, failed or stale; productions and    *)
(* narrations that cannot be loaded are passed over.                       *)
VideoCandidate ==
    /\ M!MediaWellFormed(media) /\ media.status \in {"PROCESSING", "FAILED"}
    /\ WellFormed(audio) /\ audio.status = "GENERATED"
    /\ \/ video.status \in {"PENDING", "FAILED"}
       \/ IsStale(video, now, StaleAfter)

(* A row that was prepared for another narration makes the batch raise. *)
SameConfiguration == source \in {NoOutput, audio.output}

(* prepare_news_video_jobs: insert the row if there is none, commit, and   *)
(* enqueue the next attempt, unless the process or Redis fails in between. *)
PrepareVideo ==
    /\ VideoCandidate /\ WellFormed(video)
    /\ SameConfiguration
    /\ video.attempt < MaxAttempts
    /\ source' = audio.output
    /\ jobs' \in {jobs, jobs \cup {video.attempt + 1}}
    /\ UNCHANGED <<now, media, audio, store, video, files, renderer>>

(* Transaction 1, the reads of the job for attempt n. *)
ReadParents(w, n) ==
    /\ renderer[w].pc = "idle"
    /\ n \in jobs
    /\ WellFormed(video) /\ video.status # "GENERATED"
    /\ M!MediaWellFormed(media) /\ media.status # "READY"
    /\ WellFormed(audio) /\ audio.status = "GENERATED"
    /\ audio.output = source
    /\ renderer' = [renderer EXCEPT ![w] =
                      [Idle EXCEPT !.pc = "claim", !.job = n,
                                   !.parent = media]]
    /\ UNCHANGED <<now, media, audio, store, video, source, jobs, files>>

(* (Mutated form of ExpectedClaim: any waiting or stale attempt will do.) *)
AnyClaim(n) == Claimable(video, now, StaleAfter)

(* claim_by_media_production_version with expected_attempt_number. *)
ExpectedClaim(n) ==
    /\ Claimable(video, now, StaleAfter)
    /\ video.attempt = n - 1

(* Transaction 1, the claim and the start of the media production. *)
ClaimVideo(w) ==
    /\ renderer[w].pc = "claim"
    /\ ExpectedClaim(renderer[w].job)
    /\ renderer[w].parent.attempt < MaxAttempts
    /\ video' = Claimed(video, now)
    /\ media' = IF M!Startable(renderer[w].parent)
                  THEN M!Started(renderer[w].parent, now) ELSE media
    /\ renderer' = [renderer EXCEPT ![w].pc = "render", ![w].began = now]
    /\ UNCHANGED <<now, audio, store, source, jobs, files>>

NotClaimed(w) ==
    /\ renderer[w].pc = "claim"
    /\ ~ExpectedClaim(renderer[w].job)
    /\ End(w)
    /\ UNCHANGED <<now, media, audio, store, video, source, jobs, files>>

Rendered(w, outcome) ==
    renderer' = [renderer EXCEPT ![w].pc = "check", ![w].intent = outcome,
                                 ![w].ended = now]

(* The audio file has the hash that the video row names; the video is      *)
(* rendered and stored under the key of the attempt.                       *)
Render(w) ==
    /\ At(w, "render")
    /\ store = source
    /\ files' = files \cup {renderer[w].job}
    /\ Rendered(w, "generated")
    /\ UNCHANGED <<now, media, audio, store, video, source, jobs>>

(* Reading, verifying, rendering or storing raises; the file may have been *)
(* linked already.                                                         *)
RenderRaises(w) ==
    /\ At(w, "render")
    /\ files' \in {files, files \cup {renderer[w].job}}
    /\ Rendered(w, "failed")
    /\ UNCHANGED <<now, media, audio, store, video, source, jobs>>

(* (Mutated form of Current: the attempt is not compared.) *)
CurrentStatus(w) == video.status = "GENERATING"

(* record_generated_if_current / mark_failed_if_current: the read. *)
Current(w) ==
    video.status = "GENERATING" /\ video.attempt = renderer[w].job

CheckCurrent(w) ==
    /\ At(w, "check")
    /\ WellFormed(video) /\ Current(w)
    /\ renderer' = [renderer EXCEPT ![w].pc = "update"]
    /\ UNCHANGED <<now, media, audio, store, video, source, jobs, files>>

(* The read or the conditional UPDATE finds another attempt. *)
Superseded(w) ==
    /\ At(w, "check") \/ At(w, "update")
    /\ ~Current(w)
    /\ End(w)
    /\ UNCHANGED <<now, media, audio, store, video, source, jobs, files>>

(* The conditional UPDATE, the media row marked READY, the commit. *)
RecordGenerated(w) ==
    /\ At(w, "update") /\ renderer[w].intent = "generated"
    /\ Current(w)
    /\ M!MediaWellFormed(media) /\ media.status = "PROCESSING"
    /\ media.started <= renderer[w].ended
    /\ video' = Succeeded(video, renderer[w].job, renderer[w].ended)
    /\ media' = M!MarkedReady(media, renderer[w].ended)
    /\ End(w)
    /\ UNCHANGED <<now, audio, store, source, jobs, files>>

(* "Media production must be processing before becoming ready", or the     *)
(* media object refuses its timestamp: the whole transaction rolls back.   *)
RecordRaises(w) ==
    /\ At(w, "update") /\ renderer[w].intent = "generated"
    /\ Current(w)
    /\ ~(/\ M!MediaWellFormed(media) /\ media.status = "PROCESSING"
         /\ media.started <= renderer[w].ended)
    /\ End(w)
    /\ UNCHANGED <<now, media, audio, store, video, source, jobs, files>>

(* The conditional UPDATE of a failure; the media row follows if it is     *)
(* PROCESSING.                                                             *)
RecordFailed(w) ==
    /\ At(w, "update") /\ renderer[w].intent = "failed"
    /\ Current(w)
    /\ M!MediaWellFormed(media)
    /\ media.status = "PROCESSING" => media.started <= renderer[w].ended
    /\ video' = FailedRow(video, renderer[w].ended)
    /\ media' = IF media.status = "PROCESSING"
                  THEN M!MarkedFailed(media, renderer[w].ended) ELSE media
    /\ End(w)
    /\ UNCHANGED <<now, audio, store, source, jobs, files>>

(* The worker process dies, RQ kills the run, or the database fails. *)
Crash(w) ==
    /\ renderer[w].pc # "idle"
    /\ End(w)
    /\ UNCHANGED <<now, media, audio, store, video, source, jobs, files>>

Tick ==
    /\ now < MaxTime
    /\ now' = now + 1
    /\ UNCHANGED <<media, audio, store, vvars>>

RunVideo(w) ==
    \/ \E n \in jobs : ReadParents(w, n)
    \/ ClaimVideo(w) \/ NotClaimed(w)
    \/ Render(w) \/ RenderRaises(w)
    \/ CheckCurrent(w) \/ Superseded(w)
    \/ RecordGenerated(w) \/ RecordRaises(w) \/ RecordFailed(w)
    \/ Crash(w)

Next == Tick \/ PrepareVideo \/ \E w \in VideoWorkers : RunVideo(w)

Spec == Init /\ [][Next]_vars

-----------------------------------------------------------------------------
(* However long runs outlive their timeout and however often jobs are      *)
(* delivered, the row, the jobs and the workers implement the ledger.      *)
Phase ==
    CASE video.status \in {"PENDING", "FAILED"} -> "waiting"
      [] video.status = "GENERATING" -> "open"
      [] video.status = "GENERATED" -> "done"

Leases == [w \in VideoWorkers |-> IF Claiming(w) THEN renderer[w].job ELSE 0]

Ledger == INSTANCE AttemptLedger WITH
    Holders <- VideoWorkers,
    phase   <- Phase,
    attempt <- video.attempt,
    result  <- video.output,
    lease   <- Leases

ImplementsLedger == Ledger!LedgerSpec

(* A media production is READY exactly when its video is GENERATED, the    *)
(* video is the work of the attempt the row reports, and its file exists.  *)
ReadyIffGenerated ==
    /\ media.status = "READY" <=> video.status = "GENERATED"
    /\ video.status = "GENERATED" =>
          video.output = video.attempt /\ video.output \in files

(* A run that has claimed works on an attempt of its own, which it started *)
(* if the row still reports it, and has its file if it rendered one: what  *)
(* makes the predicate of the conditional UPDATE identify the run.         *)
RunHoldsItsAttempt(w) ==
    Claiming(w) =>
      /\ renderer[w].job \in 1..video.attempt
      /\ Current(w) => video.started = renderer[w].began
      /\ renderer[w].began <= now
      /\ renderer[w].pc # "render" =>
            /\ renderer[w].began <= renderer[w].ended
            /\ renderer[w].intent = "generated" => renderer[w].job \in files

RunsHoldTheirAttempts ==
    /\ \A w \in VideoWorkers : RunHoldsItsAttempt(w)
    /\ \A u, w \in VideoWorkers :
         u # w /\ Claiming(u) /\ Claiming(w) => renderer[u].job # renderer[w].job

(* Every committed video row and media row can be loaded again. *)
RowsStayLoadable == WellFormed(video) /\ M!MediaWellFormed(media)

(* Once READY and GENERATED, neither row changes again. *)
ReadyIsFinal ==
    [][media.status = "READY" => UNCHANGED <<media, video>>]_vars

=============================================================================
