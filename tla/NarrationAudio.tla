--------------------------- MODULE NarrationAudio ---------------------------
(***************************************************************************)
(* process_news_narration_audio for one media production: workers that     *)
(* claim the audio row, fetch or synthesize the narration, store it under  *)
(* the one canonical key of the media production, and write the result     *)
(* back after checking that they still own the attempt.                    *)
(*                                                                         *)
(* Transaction 1 is two actions: the audio and media rows are read and     *)
(* validated first, and the claim and the update of the media row (from    *)
(* the object read before the claim) commit later.  The write-back         *)
(* transactions 2a and 2b are the ownership check, the manager's read, the *)
(* repository's read and the flush, one action each, because nothing locks *)
(* the row between them under READ COMMITTED.  The artifact store is       *)
(* atomic here; module ArtifactStore has its protocol.                     *)
(*                                                                         *)
(* An audio artifact is named by the attempt that synthesized it: two      *)
(* calls of the speech service do not return the same bytes.  The audio    *)
(* row exists from the start (prepare_news_narration_audio_jobs committed  *)
(* it before it enqueued the first job), its script is GENERATED and its   *)
(* source hash matches; runs rejected for those reasons change nothing.    *)
(*                                                                         *)
(* The ownership check is one statement and the UPDATE another.  That a    *)
(* run has written after it had lost its attempt in between is kept in     *)
(* overwritten, a history variable on which no step depends.               *)
(*                                                                         *)
(* The clock, the video stage and the specification are MediaPipeline's.   *)
(***************************************************************************)
EXTENDS GenerationRow

CONSTANTS AudioWorkers, StaleAfter, Grace, MaxAttempts

VARIABLES now,
          media,          \* the media production row
          audio,          \* the narration audio row
          store,          \* content under the canonical key, NoOutput if none
          narrator,       \* the run of each audio worker
          overwritten     \* history: a run has written to a row not its own

M == INSTANCE MediaRow

Steps == {"idle", "claim", "store", "tts", "check", "settle", "update",
          "flush"}

Intents == {"none", "generated", "failed"}

Runs == [pc     : Steps,
         parent : M!MediaRows,  \* media_production as transaction 1 read it
         mine   : Nat,          \* claimed_generation.attempt_count
         began  : Nat,          \* claimed_generation.started_at
         intent : Intents,
         out    : Nat,          \* content of the artifact
         ended  : Nat,          \* completed_at / failed_at
         next   : Rows,
         seen   : Rows]

Idle == [pc |-> "idle", parent |-> M!PendingMedia, mine |-> 0, began |-> 0,
         intent |-> "none", out |-> NoOutput, ended |-> 0,
         next |-> PendingRow, seen |-> PendingRow]

TypeOK ==
    /\ now \in Nat
    /\ media \in M!MediaRows
    /\ audio \in Rows
    /\ store \in Nat
    /\ narrator \in [AudioWorkers -> Runs]
    /\ overwritten \in BOOLEAN

Init ==
    /\ now = 0
    /\ media = M!PendingMedia
    /\ audio = PendingRow
    /\ store = NoOutput
    /\ narrator = [w \in AudioWorkers |-> Idle]
    /\ overwritten = FALSE

-----------------------------------------------------------------------------
Alive(w) ==
    narrator[w].pc # "claim" =>
        now < narrator[w].began + StaleAfter + Grace

At(w, pc) == narrator[w].pc = pc /\ Alive(w)

(* The row reports the attempt the run has claimed. *)
Owner(w) == audio.status = "GENERATING" /\ audio.attempt = narrator[w].mine

End(w) == narrator' = [narrator EXCEPT ![w] = Idle]

(* Transaction 1, the reads.  A GENERATED row, a READY media production or *)
(* a row that cannot be loaded ends the run without a change.              *)
ReadParents(w) ==
    /\ narrator[w].pc = "idle"
    /\ WellFormed(audio) /\ audio.status # "GENERATED"
    /\ M!MediaWellFormed(media) /\ media.status # "READY"
    /\ narrator' = [narrator EXCEPT ![w] =
                      [Idle EXCEPT !.pc = "claim", !.parent = media]]
    /\ UNCHANGED <<now, media, audio, store, overwritten>>

(* Transaction 1, the claim.  The media row is overwritten with the object *)
(* started from the earlier read, or left alone if that was PROCESSING.    *)
ClaimAudio(w) ==
    /\ narrator[w].pc = "claim"
    /\ Claimable(audio, now, StaleAfter)
    /\ audio.attempt < MaxAttempts /\ narrator[w].parent.attempt < MaxAttempts
    /\ audio' = Claimed(audio, now)
    /\ media' = IF M!Startable(narrator[w].parent)
                  THEN M!Started(narrator[w].parent, now) ELSE media
    /\ narrator' = [narrator EXCEPT ![w].pc = "store",
                                    ![w].mine = audio.attempt + 1,
                                    ![w].began = now]
    /\ UNCHANGED <<now, store, overwritten>>

(* Another attempt is fresh or has finished: Retry or already_generated.   *)
ClaimRefused(w) ==
    /\ narrator[w].pc = "claim"
    /\ ~Claimable(audio, now, StaleAfter)
    /\ End(w)
    /\ UNCHANGED <<now, media, audio, store, overwritten>>

(* storage.get finds the artifact of an earlier attempt. *)
ReuseArtifact(w) ==
    /\ At(w, "store")
    /\ store # NoOutput
    /\ narrator' = [narrator EXCEPT ![w].pc = "check", ![w].out = store,
                                    ![w].intent = "generated",
                                    ![w].ended = now]
    /\ UNCHANGED <<now, media, audio, store, overwritten>>

(* storage.get finds nothing and the speech service is called. *)
Synthesize(w) ==
    /\ At(w, "store")
    /\ store = NoOutput
    /\ narrator' = [narrator EXCEPT ![w].pc = "tts"]
    /\ UNCHANGED <<now, media, audio, store, overwritten>>

(* (Mutated form of WriteArtifact: the file is replaced.) *)
WriteReplaces(w) ==
    /\ At(w, "tts")
    /\ store' = narrator[w].mine
    /\ narrator' = [narrator EXCEPT ![w].pc = "check",
                                    ![w].out = narrator[w].mine,
                                    ![w].intent = "generated",
                                    ![w].ended = now]
    /\ UNCHANGED <<now, media, audio, overwritten>>

(* storage.write creates the canonical file, or finds the same bytes. *)
WriteArtifact(w) ==
    /\ At(w, "tts")
    /\ store \in {NoOutput, narrator[w].mine}
    /\ store' = narrator[w].mine
    /\ narrator' = [narrator EXCEPT ![w].pc = "check",
                                    ![w].out = narrator[w].mine,
                                    ![w].intent = "generated",
                                    ![w].ended = now]
    /\ UNCHANGED <<now, media, audio, overwritten>>

(* The speech service or the storage raises, storage.write for another     *)
(* content under the key included.                                         *)
RaiseInTry(w) ==
    /\ At(w, "store") \/ At(w, "tts")
    /\ narrator' = [narrator EXCEPT ![w].pc = "check", ![w].intent = "failed",
                                    ![w].ended = now]
    /\ UNCHANGED <<now, media, audio, store, overwritten>>

(* Transactions 2a and 2b: the ownership check. *)
CheckOwner(w) ==
    /\ At(w, "check")
    /\ WellFormed(audio) /\ Owner(w)
    /\ narrator' = [narrator EXCEPT ![w].pc = "settle"]
    /\ UNCHANGED <<now, media, audio, store, overwritten>>

(* superseded, already_generated, or a row that cannot be loaded. *)
Superseded(w) ==
    /\ At(w, "check")
    /\ ~(WellFormed(audio) /\ Owner(w))
    /\ End(w)
    /\ UNCHANGED <<now, media, audio, store, overwritten>>

(* (Mutated form of Settled: the hash of the attempt, not of the artifact.) *)
SettledWithOwnHash(w) ==
    IF narrator[w].intent = "generated"
      THEN Succeeded(audio, narrator[w].mine, narrator[w].ended)
      ELSE FailedRow(audio, narrator[w].ended)

(* manager.record_generated / mark_failed: the row is read again, and only *)
(* its status and the order of its timestamps are checked.                 *)
Settled(w) ==
    IF narrator[w].intent = "generated"
      THEN Succeeded(audio, narrator[w].out, narrator[w].ended)
      ELSE FailedRow(audio, narrator[w].ended)

CanSettle(w) ==
    WellFormed(audio) /\ audio.status = "GENERATING" /\ WellFormed(Settled(w))

Settle(w) ==
    /\ At(w, "settle")
    /\ CanSettle(w)
    /\ narrator' = [narrator EXCEPT ![w].pc = "update", ![w].next = Settled(w)]
    /\ UNCHANGED <<now, media, audio, store, overwritten>>

SettleRaises(w) ==
    /\ At(w, "settle")
    /\ ~CanSettle(w)
    /\ End(w)
    /\ UNCHANGED <<now, media, audio, store, overwritten>>

ReadRecord(w) ==
    /\ At(w, "update")
    /\ narrator' = [narrator EXCEPT ![w].pc = "flush", ![w].seen = audio]
    /\ UNCHANGED <<now, media, audio, store, overwritten>>

(* The flush and the commit of a success. *)
FlushGenerated(w) ==
    /\ At(w, "flush") /\ narrator[w].intent = "generated"
    /\ audio' = Flushed(audio, narrator[w].seen, narrator[w].next)
    /\ overwritten' = (overwritten \/ ~Owner(w))
    /\ End(w)
    /\ UNCHANGED <<now, media, store>>

(* The flush of a failure; the same transaction then reads the media row   *)
(* and marks it FAILED if it is PROCESSING.                                *)
FlushFailed(w) ==
    /\ At(w, "flush") /\ narrator[w].intent = "failed"
    /\ M!MediaWellFormed(media)
    /\ media.status = "PROCESSING" => media.started <= narrator[w].ended
    /\ audio' = Flushed(audio, narrator[w].seen, narrator[w].next)
    /\ media' = IF media.status = "PROCESSING"
                  THEN M!MarkedFailed(media, narrator[w].ended) ELSE media
    /\ overwritten' = (overwritten \/ ~Owner(w))
    /\ End(w)
    /\ UNCHANGED <<now, store>>

(* mark_failed of the media row raises: the transaction rolls back. *)
FlushRaises(w) ==
    /\ At(w, "flush") /\ narrator[w].intent = "failed"
    /\ ~(/\ M!MediaWellFormed(media)
         /\ media.status = "PROCESSING" => media.started <= narrator[w].ended)
    /\ End(w)
    /\ UNCHANGED <<now, media, audio, store, overwritten>>

Crash(w) ==
    /\ narrator[w].pc # "idle"
    /\ End(w)
    /\ UNCHANGED <<now, media, audio, store, overwritten>>

Narrate(w) ==
    \/ ReadParents(w) \/ ClaimAudio(w) \/ ClaimRefused(w)
    \/ ReuseArtifact(w) \/ Synthesize(w) \/ WriteArtifact(w) \/ RaiseInTry(w)
    \/ CheckOwner(w) \/ Superseded(w)
    \/ Settle(w) \/ SettleRaises(w) \/ ReadRecord(w)
    \/ FlushGenerated(w) \/ FlushFailed(w) \/ FlushRaises(w)
    \/ Crash(w)

=============================================================================
