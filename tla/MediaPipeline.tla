--------------------------- MODULE MediaPipeline ---------------------------
(***************************************************************************)
(* One media production from its narration to its video: VideoGeneration   *)
(* preceded by the audio workers of NarrationAudio, on the same media row, *)
(* audio row and audio file.  The two stages are coupled by the rows       *)
(* alone: prepare_news_video_jobs picks the production up once the audio   *)
(* row is GENERATED.                                                       *)
(***************************************************************************)
EXTENDS VideoGeneration

CONSTANT AudioWorkers

VARIABLES narrator,       \* the run of each audio worker
          overwritten     \* history: see NarrationAudio

avars == <<narrator, overwritten>>
pvars == <<vars, avars>>

A == INSTANCE NarrationAudio

PipelineInit == A!Init /\ VideoInit

AudioStage ==
    /\ \E w \in AudioWorkers : A!Narrate(w)
    /\ UNCHANGED vvars

VideoStage ==
    /\ PrepareVideo \/ \E w \in VideoWorkers : RunVideo(w)
    /\ UNCHANGED avars

PipelineTick == Tick /\ UNCHANGED avars

PipelineNext == PipelineTick \/ AudioStage \/ VideoStage

PipelineSpec == PipelineInit /\ [][PipelineNext]_pvars

-----------------------------------------------------------------------------
(* Whatever the interleaving, late runs included, a hash that the database *)
(* keeps is the hash of the file under the canonical key, so the video     *)
(* worker's verification of the audio bytes cannot fail for good.          *)
StoredHashIsOfArtifact ==
    audio.output # NoOutput => audio.output = store

(* A READY production is whole: its video was made from the bytes under    *)
(* the canonical key and the file of the reported attempt exists, and its  *)
(* narration is GENERATED from the same bytes, unless a narration run has  *)
(* written after it had lost its attempt.                                  *)
ReadyIsComplete ==
    media.status = "READY" =>
        /\ video.status = "GENERATED" /\ source = store
        /\ video.output = video.attempt /\ video.output \in files
        /\ \/ audio.status = "GENERATED" /\ audio.output = source
           \/ overwritten

(* A video row never names other audio than the file that stays under the  *)
(* canonical key, and no narration attempt after it differs from it, the   *)
(* writes of late runs included, so "Source audio SHA-256 does not match"  *)
(* cannot stop a production for good.                                      *)
VideoNamesCanonicalAudio ==
    source # NoOutput =>
        /\ source = store
        /\ audio.output \in {NoOutput, source}

(* The media row and the video row can be loaded again whatever the two    *)
(* stages do to them, and the audio row unless a narration run has written *)
(* after it had lost its attempt.                                          *)
ProductionStaysLoadable ==
    RowsStayLoadable /\ (WellFormed(audio) \/ overwritten)

(* A READY production is left alone: no run that has read its rows before  *)
(* it became READY takes the video up again, nor, unless a narration run   *)
(* has written after it had lost its attempt, the narration.               *)
ProductionIsFinal ==
    [][media.status = "READY" =>
          UNCHANGED video /\ (UNCHANGED <<media, audio>> \/ overwritten')]_pvars

(* The audio row and its runs as a ledger of attempts.                     *)
AudioPhase ==
    CASE audio.status \in {"PENDING", "FAILED"} -> "waiting"
      [] audio.status = "GENERATING" -> "open"
      [] audio.status = "GENERATED" -> "done"

Working(w) == narrator[w].pc \notin {"idle", "claim"}

AudioLeases ==
    [w \in AudioWorkers |-> IF Working(w) THEN narrator[w].mine ELSE 0]

AudioLedger == INSTANCE AttemptLedger WITH
    Holders <- AudioWorkers,
    phase   <- AudioPhase,
    attempt <- audio.attempt,
    result  <- IF audio.status = "GENERATED" THEN audio.attempt ELSE 0,
    lease   <- AudioLeases

(* Every step is one of the ledger's: a claim opens the next attempt and   *)
(* only the run that has claimed it ends it.  The one step of the code     *)
(* that is not is the write of a run that has lost its attempt between the *)
(* ownership check and the UPDATE.                                         *)
NarrationKeepsLedger ==
    /\ AudioLedger!LedgerInit
    /\ [][AudioLedger!LedgerNext \/ overwritten']_
          <<AudioPhase, audio.attempt, AudioLeases>>

(* "Persist failure only if this worker still owns the same durable        *)
(* attempt", "Persist GENERATED only if this worker still owns the claimed *)
(* attempt": a run that changes the audio row at its flush changes the     *)
(* attempt it claimed.                                                     *)
OnlyOwnerPersists ==
    [][\A w \in AudioWorkers :
          (narrator[w].pc = "flush" /\ narrator'[w].pc = "idle"
             /\ audio' # audio) =>
          A!Owner(w)]_pvars

=============================================================================
