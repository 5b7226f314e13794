------------------------ MODULE MediaPipeline_proofs ------------------------
(***************************************************************************)
(* Proofs about the production of one medium, for every number of workers, *)
(* every timeout and every Grace.  First VideoGeneration: type             *)
(* correctness, the inductive invariant of the claim protocol, and that    *)
(* the protocol implements AttemptLedger.  Then MediaPipeline, where the   *)
(* audio workers share its rows: what no late narration run can disturb,   *)
(* and what holds until one of them has written into another's attempt.    *)
(***************************************************************************)
EXTENDS MediaPipeline, Generation_proofs

(* The transitions of the media row stay within the media rows. *)
LEMMA MediaTypes ==
    ASSUME NEW row \in M!MediaRows, NEW t \in Nat
    PROVE  /\ M!Started(row, t) \in M!MediaRows
           /\ M!MarkedReady(row, t) \in M!MediaRows
           /\ M!MarkedFailed(row, t) \in M!MediaRows
<1> USE DEF M!MediaRows, M!MediaStatuses
<1>1. M!Started(row, t) \in M!MediaRows
  <2>1. row.attempt + 1 \in Nat
    OBVIOUS
  <2>2. QED BY <2>1 DEF M!Started
<1>2. M!MarkedReady(row, t) \in M!MediaRows
  BY DEF M!MarkedReady
<1>3. M!MarkedFailed(row, t) \in M!MediaRows
  BY DEF M!MarkedFailed
<1>4. QED BY <1>1, <1>2, <1>3

(* A started media row can be loaded, whatever the columns were before. *)
LEMMA StartedWellFormed ==
    ASSUME NEW row \in M!MediaRows, NEW t \in Nat
    PROVE  /\ M!MediaWellFormed(M!Started(row, t))
           /\ M!Started(row, t).status = "PROCESSING"
           /\ M!Started(row, t).started = t
<1>1. row.attempt + 1 >= 1 /\ t # M!Never
  BY DEF M!MediaRows, M!Never
<1>2. QED BY <1>1 DEF M!Started, M!MediaWellFormed, M!MediaRows

(* A processed media row can be loaded if it does not end before it began. *)
LEMMA EndedMediaWellFormed ==
    ASSUME NEW row \in M!MediaRows, NEW t \in Nat,
           M!MediaWellFormed(row), row.status = "PROCESSING", row.started <= t
    PROVE  /\ M!MediaWellFormed(M!MarkedReady(row, t))
           /\ M!MediaWellFormed(M!MarkedFailed(row, t))
<1>1. t # M!Never
  BY DEF M!Never
<1>2. row.attempt >= 1 /\ row.started # M!Never /\ t >= row.started
  BY DEF M!MediaWellFormed, M!MediaRows, M!Never
<1>3. M!MediaWellFormed(M!MarkedReady(row, t))
  BY <1>1, <1>2 DEF M!MarkedReady, M!MediaWellFormed, M!MediaRows
<1>4. M!MediaWellFormed(M!MarkedFailed(row, t))
  BY <1>1, <1>2 DEF M!MarkedFailed, M!MediaWellFormed, M!MediaRows
<1>5. QED BY <1>3, <1>4

(* The initial media row and runs have their types. *)
LEMMA InitialTypes ==
    /\ M!PendingMedia \in M!MediaRows
    /\ Idle \in Runs
BY DEF M!PendingMedia, M!MediaRows, M!MediaStatuses, M!Never, Idle, Runs, Steps,
       Intents

-----------------------------------------------------------------------------
(* Every step of a worker keeps the types. *)
LEMMA RunTypes ==
    ASSUME TypeOK, NEW w \in VideoWorkers, RunVideo(w)
    PROVE  TypeOK'
<1> USE DEF TypeOK
<1>0. renderer[w] \in Runs
  OBVIOUS
<1>1. ASSUME NEW n \in jobs, ReadParents(w, n) PROVE TypeOK'
  <2>1. [Idle EXCEPT !.pc = "claim", !.job = n, !.parent = media] \in Runs
    BY InitialTypes DEF Runs, Steps
  <2>2. QED BY <1>1, <2>1 DEF ReadParents
<1>2. CASE ClaimVideo(w)
  <2>1. video' \in Rows
    BY <1>2, RowTypes DEF ClaimVideo
  <2>2. media' \in M!MediaRows
    BY <1>0, <1>2, MediaTypes DEF ClaimVideo, Runs
  <2>3. [renderer[w] EXCEPT !.pc = "render", !.began = now] \in Runs
    BY <1>0 DEF Runs, Steps
  <2>4. renderer' \in [VideoWorkers -> Runs]
    BY <1>2, <2>3 DEF ClaimVideo
  <2>5. QED BY <1>2, <2>1, <2>2, <2>4 DEF ClaimVideo
<1>3. CASE NotClaimed(w) \/ Superseded(w) \/ RecordRaises(w) \/ Crash(w)
  BY <1>3, InitialTypes DEF NotClaimed, Superseded, RecordRaises, Crash, End
<1>4. CASE Render(w) \/ RenderRaises(w)
  <2>1. ASSUME NEW i \in Intents
        PROVE [renderer[w] EXCEPT !.pc = "check", !.intent = i,
                                  !.ended = now] \in Runs
    BY <1>0 DEF Runs, Steps
  <2>2. renderer' \in [VideoWorkers -> Runs]
    BY <1>4, <2>1 DEF Render, RenderRaises, Rendered, Intents
  <2>3. files' \subseteq Nat
    BY <1>0, <1>4 DEF Render, RenderRaises, Runs
  <2>4. QED BY <1>4, <2>2, <2>3 DEF Render, RenderRaises
<1>5. CASE CheckCurrent(w)
  <2>1. [renderer[w] EXCEPT !.pc = "update"] \in Runs
    BY <1>0 DEF Runs, Steps
  <2>2. QED BY <1>5, <2>1 DEF CheckCurrent
<1>6. CASE RecordGenerated(w) \/ RecordFailed(w)
  <2>1. renderer[w].ended \in Nat /\ renderer[w].job \in Nat
    BY <1>0 DEF Runs
  <2>2. video' \in Rows /\ media' \in M!MediaRows
    BY <1>6, <2>1, RowTypes, MediaTypes DEF RecordGenerated, RecordFailed
  <2>3. renderer' \in [VideoWorkers -> Runs]
    BY <1>6, InitialTypes DEF RecordGenerated, RecordFailed, End
  <2>4. QED BY <1>6, <2>2, <2>3 DEF RecordGenerated, RecordFailed
<1>7. QED BY <1>1, <1>2, <1>3, <1>4, <1>5, <1>6 DEF RunVideo

(* Every step keeps the types. *)
LEMMA StepTypes == TypeOK /\ [Next]_vars => TypeOK'
<1> SUFFICES ASSUME TypeOK, [Next]_vars PROVE TypeOK'
  OBVIOUS
<1>1. CASE Tick
  BY <1>1 DEF Tick, vvars, TypeOK
<1>2. CASE PrepareVideo
  <2>1. video.attempt + 1 \in Nat /\ audio.output \in Nat
    BY DEF TypeOK, Rows
  <2>2. QED BY <1>2, <2>1 DEF PrepareVideo, TypeOK
<1>3. ASSUME NEW w \in VideoWorkers, RunVideo(w) PROVE TypeOK'
  BY <1>3, RunTypes
<1>4. CASE UNCHANGED vars
  BY <1>4 DEF vars, vvars, TypeOK
<1>5. QED BY <1>1, <1>2, <1>3, <1>4 DEF Next

(* The initial states are well typed. *)
LEMMA InitTypes == Init => TypeOK
<1> SUFFICES ASSUME Init PROVE TypeOK
  OBVIOUS
<1>1. media \in M!MediaRows
  BY InitialTypes, MediaTypes DEF Init
<1>2. audio \in Rows
  BY PendingType, RowTypes DEF Init
<1>3. QED BY <1>1, <1>2, InitialTypes, PendingType DEF Init, VideoInit, TypeOK, NoOutput

(* process_news_video only ever writes columns, run states and file names  *)
(* of their types.                                                         *)
THEOREM TypeCorrect == Spec => []TypeOK
BY InitTypes, StepTypes, PTL DEF Spec

-----------------------------------------------------------------------------
(***************************************************************************)
(* The inductive invariant.  RowsStayLoadable alone is not inductive: that *)
(* the end of an attempt is not before its start follows from the run's    *)
(* own clock readings only because the row still carries the start of the  *)
(* run's own claim, which RunsHoldTheirAttempts says.                      *)
(***************************************************************************)
ReadyHasVideo ==
    /\ media.status = "READY" => video.status = "GENERATED"
    /\ video.status = "GENERATED" =>
          video.output = video.attempt /\ video.output \in files

Inv == TypeOK /\ RunsHoldTheirAttempts /\ RowsStayLoadable /\ ReadyHasVideo

(* The initial states satisfy it. *)
LEMMA InitInv == Init => Inv
<1> SUFFICES ASSUME Init PROVE Inv
  OBVIOUS
<1>1. TypeOK
  BY InitTypes
<1>2. RunsHoldTheirAttempts
  BY DEF Init, VideoInit, RunsHoldTheirAttempts, RunHoldsItsAttempt, Claiming,
         Idle
<1>3. M!MediaWellFormed(media) /\ media.status # "READY"
  <2> DEFINE first == M!Started(M!PendingMedia, 0)
  <2>1. first \in M!MediaRows
    BY InitialTypes, MediaTypes
  <2>2. M!MediaWellFormed(first) /\ first.status = "PROCESSING"
        /\ first.started = 0
    BY InitialTypes, StartedWellFormed
  <2>3. M!MediaWellFormed(M!MarkedFailed(first, 0))
    BY <2>1, <2>2, EndedMediaWellFormed
  <2>4. M!MarkedFailed(first, 0).status = "FAILED"
    BY <2>1 DEF M!MarkedFailed, M!MediaRows
  <2>5. media \in {first, M!MarkedFailed(first, 0)}
    BY DEF Init
  <2> HIDE DEF first
  <2>6. QED BY <2>2, <2>3, <2>4, <2>5
<1>4. WellFormed(video) /\ video.status # "GENERATED"
  BY PendingType DEF Init, VideoInit, PendingRow
<1>5. QED
  BY <1>1, <1>2, <1>3, <1>4 DEF Inv, RowsStayLoadable, ReadyHasVideo

(* A step that leaves the rows and the files alone and at most ends a run, *)
(* or moves it on without a new claim, keeps the invariant.                *)
LEMMA QuietStep ==
    ASSUME Inv, TypeOK', UNCHANGED <<media, video, files>>,
           \A w \in VideoWorkers :
              Claiming(w)' =>
                 Claiming(w) /\ renderer[w].job = renderer'[w].job
                   /\ RunHoldsItsAttempt(w)'
    PROVE  Inv'
<1>1. RowsStayLoadable'
  BY DEF Inv, RowsStayLoadable
<1>2. ReadyHasVideo'
  BY DEF Inv, ReadyHasVideo
<1>3. ASSUME NEW w \in VideoWorkers PROVE RunHoldsItsAttempt(w)'
  BY <1>3 DEF RunHoldsItsAttempt
<1>4. ASSUME NEW u \in VideoWorkers, NEW w \in VideoWorkers,
             u # w, Claiming(u)', Claiming(w)'
      PROVE  renderer'[u].job # renderer'[w].job
  BY <1>4 DEF Inv, RunsHoldTheirAttempts
<1>5. RunsHoldTheirAttempts'
  BY <1>3, <1>4 DEF RunsHoldTheirAttempts
<1>6. QED BY <1>1, <1>2, <1>5 DEF Inv

(* The claim opens an attempt that no other run holds. *)
LEMMA ClaimInv ==
    ASSUME Inv, TypeOK', NEW w \in VideoWorkers, ClaimVideo(w)
    PROVE  Inv'
<1> DEFINE n == renderer[w].job
<1>1. /\ n \in Nat /\ now \in Nat /\ video \in Rows
      /\ renderer[w].parent \in M!MediaRows
  BY DEF Inv, TypeOK, Runs
<1>2. /\ n = video.attempt + 1
      /\ video'.attempt = n /\ video'.started = now
      /\ video'.status = "GENERATING"
  BY <1>1 DEF ClaimVideo, ExpectedClaim, Claimed, Rows
<1>3. /\ renderer'[w] = [renderer[w] EXCEPT !.pc = "render", !.began = now]
      /\ \A u \in VideoWorkers : u # w => renderer'[u] = renderer[u]
  BY DEF ClaimVideo, Inv, TypeOK
<1>4. /\ renderer'[w].job = n /\ renderer'[w].began = now
      /\ renderer'[w].pc = "render"
  BY <1>1, <1>3 DEF Inv, TypeOK, Runs
<1>5. ASSUME NEW u \in VideoWorkers, u # w, Claiming(u)'
      PROVE  /\ Claiming(u) /\ renderer'[u].job = renderer[u].job
             /\ renderer[u].job \in 1..video.attempt
  BY <1>3, <1>5 DEF Claiming, Inv, RunsHoldTheirAttempts, RunHoldsItsAttempt
<1>6. video.attempt \in Nat
  BY <1>1 DEF Rows
<1>7. ASSUME NEW u \in VideoWorkers PROVE RunHoldsItsAttempt(u)'
  <2>1. CASE u = w
    <3>1. now' = now
      BY DEF ClaimVideo
    <3>2. QED BY <1>1, <1>2, <1>4, <1>6, <2>1, <3>1 DEF RunHoldsItsAttempt
  <2>2. CASE u # w /\ Claiming(u)'
    <3>1. renderer'[u].job \in 1..video'.attempt /\ ~Current(u)'
      BY <1>2, <1>5, <1>6, <2>2 DEF Current
    <3>2. files' = files /\ now' = now
      BY DEF ClaimVideo
    <3>3. RunHoldsItsAttempt(u)
      BY DEF Inv, RunsHoldTheirAttempts
    <3>4. QED BY <1>3, <1>5, <2>2, <3>1, <3>2, <3>3 DEF RunHoldsItsAttempt
  <2>3. QED BY <2>1, <2>2 DEF RunHoldsItsAttempt
<1>8. ASSUME NEW u \in VideoWorkers, NEW v \in VideoWorkers, u # v,
             Claiming(u)', Claiming(v)'
      PROVE  renderer'[u].job # renderer'[v].job
  <2>1. CASE u # w /\ v # w
    BY <1>5, <1>8, <2>1 DEF Inv, RunsHoldTheirAttempts
  <2>2. CASE u = w
    BY <1>2, <1>4, <1>5, <1>6, <1>8, <2>2
  <2>3. CASE v = w
    BY <1>2, <1>4, <1>5, <1>6, <1>8, <2>3
  <2>4. QED BY <2>1, <2>2, <2>3
<1>9. RunsHoldTheirAttempts'
  BY <1>7, <1>8 DEF RunsHoldTheirAttempts
<1>10. WellFormed(video)'
  <2>1. WellFormed(Claimed(video, now))
    BY <1>1, ClaimedWellFormed
  <2>2. video' = Claimed(video, now)
    BY DEF ClaimVideo
  <2>3. QED BY <2>1, <2>2 DEF WellFormed
<1>11. video.status # "GENERATED" /\ media.status # "READY"
  BY DEF ClaimVideo, ExpectedClaim, Claimable, IsStale, Inv, ReadyHasVideo
<1>12. media'.status # "READY" /\ M!MediaWellFormed(media)'
  <2>1. CASE media' = media
    BY <1>11, <2>1 DEF Inv, RowsStayLoadable, M!MediaWellFormed
  <2>2. CASE media' = M!Started(renderer[w].parent, now)
    <3>1. M!MediaWellFormed(M!Started(renderer[w].parent, now))
      BY <1>1, StartedWellFormed
    <3>2. M!Started(renderer[w].parent, now).status = "PROCESSING"
      BY <1>1, StartedWellFormed
    <3>3. QED BY <2>2, <3>1, <3>2 DEF M!MediaWellFormed
  <2>3. QED BY <2>1, <2>2 DEF ClaimVideo
<1>13. QED
  BY <1>2, <1>9, <1>10, <1>12 DEF Inv, RowsStayLoadable, ReadyHasVideo
(* The end of an attempt by the run that still holds it: the rows move     *)
(* together, and the run lets go of its attempt.                           *)
LEMMA RecordInv ==
    ASSUME Inv, TypeOK', NEW w \in VideoWorkers,
           RecordGenerated(w) \/ RecordFailed(w)
    PROVE  Inv'
<1> DEFINE n == renderer[w].job
           t == renderer[w].ended
<1>1. /\ video \in Rows /\ media \in M!MediaRows
      /\ n \in Nat /\ t \in Nat /\ renderer[w].began \in Nat
  BY DEF Inv, TypeOK, Runs
<1>2. /\ Claiming(w) /\ renderer[w].pc # "render" /\ Current(w)
      /\ video.status = "GENERATING" /\ video.attempt = n
  BY DEF RecordGenerated, RecordFailed, At, Claiming, Current
<1>3. RunHoldsItsAttempt(w)
  BY DEF Inv, RunsHoldTheirAttempts
<1>4. n # NoOutput /\ video.started = renderer[w].began /\ video.started <= t
  BY <1>1, <1>2, <1>3 DEF RunHoldsItsAttempt, Rows, NoOutput
<1>5. /\ WellFormed(Succeeded(video, n, t))
      /\ WellFormed(FailedRow(video, t))
  BY <1>1, <1>2, <1>4, EndedWellFormed DEF Inv, RowsStayLoadable
<1>6. M!MediaWellFormed(media) /\ media.status # "READY"
  BY <1>2 DEF Inv, RowsStayLoadable, ReadyHasVideo
<1>7. media.status = "PROCESSING" /\ media.started <= t =>
        /\ M!MediaWellFormed(M!MarkedReady(media, t))
        /\ M!MediaWellFormed(M!MarkedFailed(media, t))
  BY <1>1, <1>6, EndedMediaWellFormed
<1>8. ASSUME NEW u \in VideoWorkers, Claiming(u)'
      PROVE  u # w /\ Claiming(u) /\ renderer'[u] = renderer[u]
                /\ RunHoldsItsAttempt(u)'
  <2>1. u # w /\ renderer'[u] = renderer[u]
    BY <1>8 DEF RecordGenerated, RecordFailed, End, Claiming, Idle, Inv, TypeOK
  <2>2. Claiming(u)
    BY <1>8, <2>1 DEF Claiming
  <2>3. video'.attempt = video.attempt /\ video'.status # "GENERATING"
    BY <1>1 DEF RecordGenerated, RecordFailed, Succeeded, FailedRow, Rows
  <2>4. files' = files /\ now' = now
    BY DEF RecordGenerated, RecordFailed
  <2>5. RunHoldsItsAttempt(u)
    BY DEF Inv, RunsHoldTheirAttempts
  <2>6. QED
    BY <2>1, <2>2, <2>3, <2>4, <2>5 DEF RunHoldsItsAttempt, Current
<1>9. RunsHoldTheirAttempts'
  <2>1. \A u \in VideoWorkers : RunHoldsItsAttempt(u)'
    BY <1>8 DEF RunHoldsItsAttempt
  <2>2. QED BY <1>8, <2>1 DEF Inv, RunsHoldTheirAttempts
<1>10. CASE RecordGenerated(w)
  <2>1. renderer[w].intent = "generated"
    BY <1>10 DEF RecordGenerated
  <2>2. n \in files
    BY <1>2, <1>3, <2>1 DEF RunHoldsItsAttempt
  <2>3. /\ video' = Succeeded(video, n, t)
        /\ media' = M!MarkedReady(media, t) /\ files' = files
    BY <1>10 DEF RecordGenerated
  <2>4. /\ video'.status = "GENERATED" /\ video'.output = n
        /\ video'.attempt = n
    BY <1>1, <1>2, <2>3 DEF Succeeded, Rows
  <2>5. media'.status = "READY"
    BY <1>1, <2>3 DEF M!MarkedReady, M!MediaRows
  <2>6. M!MediaWellFormed(media)'
    BY <1>7, <1>10, <2>3 DEF RecordGenerated, M!MediaWellFormed
  <2>7. WellFormed(video)'
    BY <1>5, <2>3 DEF WellFormed
  <2>8. QED
    BY <1>9, <2>2, <2>3, <2>4, <2>5, <2>6, <2>7
    DEF Inv, RowsStayLoadable, ReadyHasVideo
<1>11. CASE RecordFailed(w)
  <2>1. video' = FailedRow(video, t)
    BY <1>11 DEF RecordFailed
  <2>2. video'.status = "FAILED"
    BY <1>1, <2>1 DEF FailedRow, Rows
  <2>3. media'.status # "READY"
    BY <1>1, <1>6, <1>11 DEF RecordFailed, M!MarkedFailed, M!MediaRows
  <2>4. M!MediaWellFormed(media)'
    BY <1>6, <1>7, <1>11 DEF RecordFailed, M!MediaWellFormed
  <2>5. WellFormed(video)'
    BY <1>5, <2>1 DEF WellFormed
  <2>6. QED
    BY <1>9, <2>2, <2>3, <2>4, <2>5 DEF Inv, RowsStayLoadable, ReadyHasVideo
<1>12. QED BY <1>10, <1>11

(* The end of the rendering: one more file, and the run keeps its claim.   *)
LEMMA RenderInv ==
    ASSUME Inv, TypeOK', NEW w \in VideoWorkers, Render(w) \/ RenderRaises(w)
    PROVE  Inv'
<1>1. /\ renderer[w] \in Runs /\ now \in Nat /\ renderer[w].pc = "render"
      /\ RunHoldsItsAttempt(w)
  BY DEF Inv, TypeOK, RunsHoldTheirAttempts, Render, RenderRaises, At
<1>2. UNCHANGED <<video, media>> /\ files \subseteq files'
  BY DEF Render, RenderRaises
<1>3. /\ renderer'[w].pc = "check" /\ renderer'[w].job = renderer[w].job
      /\ renderer'[w].began = renderer[w].began /\ renderer'[w].ended = now
      /\ renderer'[w].intent = "generated" => renderer[w].job \in files'
      /\ \A u \in VideoWorkers : u # w => renderer'[u] = renderer[u]
  BY <1>1 DEF Render, RenderRaises, Rendered, Inv, TypeOK, Runs
<1>4. Claiming(w) /\ renderer[w].began <= now
  BY <1>1 DEF Claiming, RunHoldsItsAttempt
<1>5. ASSUME NEW u \in VideoWorkers, Claiming(u)'
      PROVE  /\ Claiming(u) /\ renderer'[u].job = renderer[u].job
             /\ RunHoldsItsAttempt(u)'
  <2>1. CASE u = w
    <3>1. renderer[w].job \in 1..video'.attempt
      BY <1>1, <1>2, <1>4 DEF RunHoldsItsAttempt
    <3>2. Current(w)' => video'.started = renderer'[w].began
      BY <1>1, <1>2, <1>3, <1>4 DEF RunHoldsItsAttempt, Current
    <3>3. now' = now
      BY DEF Render, RenderRaises
    <3>4. QED
      BY <1>3, <1>4, <2>1, <3>1, <3>2, <3>3 DEF RunHoldsItsAttempt
  <2>2. CASE u # w
    <3>1. Claiming(u) /\ renderer'[u] = renderer[u]
      BY <1>3, <1>5, <2>2 DEF Claiming
    <3>2. RunHoldsItsAttempt(u)
      BY DEF Inv, RunsHoldTheirAttempts
    <3>3. now' = now
      BY DEF Render, RenderRaises
    <3>4. QED BY <1>2, <3>1, <3>2, <3>3 DEF RunHoldsItsAttempt, Current
  <2>3. QED BY <2>1, <2>2
<1>6. RunsHoldTheirAttempts'
  <2>1. \A u \in VideoWorkers : RunHoldsItsAttempt(u)'
    BY <1>5 DEF RunHoldsItsAttempt
  <2>2. QED BY <1>5, <2>1 DEF Inv, RunsHoldTheirAttempts
<1>7. RowsStayLoadable' /\ ReadyHasVideo'
  BY <1>2 DEF Inv, RowsStayLoadable, ReadyHasVideo, WellFormed,
              M!MediaWellFormed
<1>8. QED BY <1>6, <1>7 DEF Inv

(* Every step of a worker keeps the invariant. *)
LEMMA RunInv ==
    ASSUME Inv, NEW w \in VideoWorkers, RunVideo(w)
    PROVE  Inv'
<1>1. TypeOK'
  BY RunTypes DEF Inv
<1>2. ASSUME NEW n \in jobs, ReadParents(w, n) PROVE Inv'
  <2>1. UNCHANGED <<now, media, video, files>>
    BY <1>2 DEF ReadParents
  <2>2. ASSUME NEW u \in VideoWorkers, Claiming(u)'
        PROVE  Claiming(u) /\ renderer'[u] = renderer[u]
    BY <1>2, <2>2 DEF ReadParents, Claiming, Idle, Inv, TypeOK
  <2>3. \A u \in VideoWorkers : RunHoldsItsAttempt(u)
    BY DEF Inv, RunsHoldTheirAttempts
  <2>4. ASSUME NEW u \in VideoWorkers, Claiming(u)'
        PROVE  RunHoldsItsAttempt(u)'
    BY <2>1, <2>2, <2>3, <2>4 DEF RunHoldsItsAttempt, Current
  <2>5. QED BY <1>1, <2>1, <2>2, <2>4, QuietStep
<1>3. CASE ClaimVideo(w)
  BY <1>1, <1>3, ClaimInv
<1>4. CASE NotClaimed(w) \/ Superseded(w) \/ RecordRaises(w) \/ Crash(w)
  <2>1. UNCHANGED <<now, media, video, files>> /\ End(w)
    BY <1>4 DEF NotClaimed, Superseded, RecordRaises, Crash
  <2>2. ASSUME NEW u \in VideoWorkers, Claiming(u)'
        PROVE  Claiming(u) /\ renderer'[u] = renderer[u]
    BY <2>1, <2>2 DEF End, Claiming, Idle, Inv, TypeOK
  <2>3. \A u \in VideoWorkers : RunHoldsItsAttempt(u)
    BY DEF Inv, RunsHoldTheirAttempts
  <2>4. ASSUME NEW u \in VideoWorkers, Claiming(u)'
        PROVE  RunHoldsItsAttempt(u)'
    BY <2>1, <2>2, <2>3, <2>4 DEF RunHoldsItsAttempt, Current
  <2>5. QED BY <1>1, <2>1, <2>2, <2>4, QuietStep
<1>5. CASE Render(w) \/ RenderRaises(w)
  BY <1>1, <1>5, RenderInv
<1>6. CASE CheckCurrent(w)
  <2>1. UNCHANGED <<now, media, video, files>> /\ renderer[w].pc = "check"
    BY <1>6 DEF CheckCurrent, At
  <2>2. /\ renderer'[w] = [renderer[w] EXCEPT !.pc = "update"]
        /\ \A u \in VideoWorkers : u # w => renderer'[u] = renderer[u]
        /\ renderer[w] \in Runs
    BY <1>6 DEF CheckCurrent, Inv, TypeOK
  <2>3. ASSUME NEW u \in VideoWorkers, Claiming(u)'
        PROVE  /\ Claiming(u)
               /\ renderer'[u].pc # "render" => renderer[u].pc # "render"
               /\ renderer'[u].job = renderer[u].job
               /\ renderer'[u].began = renderer[u].began
               /\ renderer'[u].ended = renderer[u].ended
               /\ renderer'[u].intent = renderer[u].intent
    BY <2>1, <2>2, <2>3 DEF Claiming, Runs
  <2>4. \A u \in VideoWorkers : RunHoldsItsAttempt(u)
    BY DEF Inv, RunsHoldTheirAttempts
  <2>5. ASSUME NEW u \in VideoWorkers, Claiming(u)'
        PROVE  RunHoldsItsAttempt(u)'
    BY <2>1, <2>3, <2>4, <2>5 DEF RunHoldsItsAttempt, Current
  <2>6. QED BY <1>1, <2>1, <2>3, <2>5, QuietStep
<1>7. CASE RecordGenerated(w) \/ RecordFailed(w)
  BY <1>1, <1>7, RecordInv
<1>8. QED BY <1>2, <1>3, <1>4, <1>5, <1>6, <1>7 DEF RunVideo

(* Every step keeps the invariant. *)
LEMMA StepInv == Inv /\ [Next]_vars => Inv'
<1> SUFFICES ASSUME Inv, [Next]_vars PROVE Inv'
  OBVIOUS
<1>1. TypeOK'
  BY StepTypes DEF Inv
<1>2. CASE Tick \/ PrepareVideo \/ UNCHANGED vars
  <2>1. UNCHANGED <<media, video, files, renderer>> /\ now <= now'
    BY <1>2 DEF Tick, PrepareVideo, vars, vvars, Inv, TypeOK
  <2>2. now \in Nat /\ now' \in Nat
    BY <1>1 DEF Inv, TypeOK
  <2>3. ASSUME NEW u \in VideoWorkers, Claiming(u)'
        PROVE  Claiming(u) /\ RunHoldsItsAttempt(u)'
    <3>1. Claiming(u) /\ RunHoldsItsAttempt(u)
      BY <2>1, <2>3 DEF Claiming, Inv, RunsHoldTheirAttempts
    <3>2. renderer[u].began \in Nat
      BY DEF Inv, TypeOK, Runs
    <3>3. QED BY <2>1, <2>2, <3>1, <3>2 DEF RunHoldsItsAttempt, Current
  <2>4. QED BY <1>1, <2>1, <2>3, QuietStep
<1>3. ASSUME NEW w \in VideoWorkers, RunVideo(w) PROVE Inv'
  BY <1>3, RunInv
<1>4. QED BY <1>2, <1>3 DEF Next

(* Any number of late, repeated and crashing runs, of any length: the      *)
(* invariant of the claim protocol of process_news_video holds.            *)
THEOREM Invariance == Spec => []Inv
BY InitInv, StepInv, PTL DEF Spec

(* No two runs ever work on the same attempt, and the predicate of the     *)
(* conditional UPDATE (status and attempt) identifies one run.             *)
THEOREM AttemptsAreExclusive == Spec => []RunsHoldTheirAttempts
<1>1. Inv => RunsHoldTheirAttempts
  BY DEF Inv
<1>2. QED BY <1>1, Invariance, PTL

(* No interleaving of claims, write-backs and crashes leaves a video row   *)
(* or a media row that to_domain rejects.                                  *)
THEOREM RowsLoadable == Spec => []RowsStayLoadable
<1>1. Inv => RowsStayLoadable
  BY DEF Inv
<1>2. QED BY <1>1, Invariance, PTL

(* No step of any worker changes a READY production or its video again.    *)
LEMMA ReadyStep ==
    Inv /\ [Next]_vars =>
       [media.status = "READY" => UNCHANGED <<media, video>>]_vars
<1> SUFFICES ASSUME Inv, Next, media.status = "READY"
             PROVE  UNCHANGED <<media, video>>
  BY DEF vars, vvars
<1>1. video.status = "GENERATED"
  BY DEF Inv, ReadyHasVideo
<1>2. ASSUME NEW w \in VideoWorkers
      PROVE  ~ClaimVideo(w) /\ ~RecordGenerated(w) /\ ~RecordFailed(w)
  BY <1>1 DEF ClaimVideo, ExpectedClaim, Claimable, IsStale, RecordGenerated,
              RecordFailed, Current
<1>3. ASSUME NEW w \in VideoWorkers, RunVideo(w)
      PROVE  UNCHANGED <<media, video>>
  BY <1>2, <1>3 DEF RunVideo, ReadParents, NotClaimed, Render, RenderRaises,
                    CheckCurrent, Superseded, RecordRaises, Crash
<1>4. QED BY <1>3 DEF Next, Tick, PrepareVideo, vvars

(* A video becomes GENERATED in the step that makes the production READY.  *)
GeneratedIsReady == video.status = "GENERATED" => media.status = "READY"

LEMMA GeneratedStep ==
    ASSUME Inv, GeneratedIsReady, [Next]_vars
    PROVE  GeneratedIsReady'
<1> SUFFICES ASSUME video'.status = "GENERATED" PROVE media'.status = "READY"
  BY DEF GeneratedIsReady
<1>1. CASE video.status = "GENERATED"
  BY <1>1, ReadyStep DEF GeneratedIsReady, vars, vvars
<1>2. CASE video.status # "GENERATED"
  <2>1. video' # video
    BY <1>2
  <2>2. PICK w \in VideoWorkers : RunVideo(w)
    BY <2>1 DEF Next, Tick, PrepareVideo, vars, vvars
  <2>3. ClaimVideo(w) \/ RecordGenerated(w) \/ RecordFailed(w)
    BY <2>1, <2>2 DEF RunVideo, ReadParents, NotClaimed, Render, RenderRaises,
                      CheckCurrent, Superseded, RecordRaises, Crash
  <2>4. video \in Rows /\ media \in M!MediaRows
    BY DEF Inv, TypeOK
  <2>5. ~ClaimVideo(w) /\ ~RecordFailed(w)
    BY <2>4 DEF ClaimVideo, RecordFailed, Claimed, FailedRow, Rows
  <2>6. media' = M!MarkedReady(media, renderer[w].ended)
    BY <2>3, <2>5 DEF RecordGenerated
  <2>7. QED BY <2>4, <2>6 DEF M!MarkedReady, M!MediaRows
<1>3. QED BY <1>1, <1>2

(* The media production is READY exactly while the video is GENERATED, and *)
(* the video is the file of the attempt that the row reports.              *)
THEOREM ReadyMeansGenerated == Spec => []ReadyIffGenerated
<1>1. Init => GeneratedIsReady
  BY DEF Init, VideoInit, PendingRow, GeneratedIsReady
<1>2. Inv /\ GeneratedIsReady => ReadyIffGenerated
  BY DEF Inv, ReadyHasVideo, GeneratedIsReady, ReadyIffGenerated
<1>3. QED BY <1>1, <1>2, GeneratedStep, Invariance, PTL DEF Spec

(* What has been published is not taken back.                              *)
THEOREM ReadyStaysReady == Spec => ReadyIsFinal
BY ReadyStep, Invariance, PTL DEF Spec, ReadyIsFinal

-----------------------------------------------------------------------------
(***************************************************************************)
(* The refinement of AttemptLedger.                                        *)
(***************************************************************************)

(* A step that leaves the video row alone and lets go of the claim of w,   *)
(* if it has one, is a Release or a stutter.                               *)
LEMMA ReleaseStep ==
    ASSUME Inv, NEW w \in VideoWorkers, UNCHANGED video, End(w)
    PROVE  [Ledger!LedgerNext]_(Ledger!lvars)
<1>1. /\ ~Claiming(w)'
      /\ \A u \in VideoWorkers : u # w => renderer'[u] = renderer[u]
  BY DEF End, Claiming, Idle, Inv, TypeOK
<1>2. Phase' = Phase /\ video'.attempt = video.attempt
        /\ video'.output = video.output
  BY DEF Phase
<1>3. Leases' = [Leases EXCEPT ![w] = 0]
  BY <1>1 DEF Leases, Claiming
<1>4. CASE Claiming(w)
  <2>1. Leases[w] # 0
    BY <1>4 DEF Leases, Inv, RunsHoldTheirAttempts, RunHoldsItsAttempt
  <2>2. Ledger!Release(w)
    BY <1>2, <1>3, <2>1 DEF Ledger!Release, Ledger!GiveBack
  <2>3. QED BY <2>2 DEF Ledger!LedgerNext
<1>5. CASE ~Claiming(w)
  <2>1. Leases' = Leases
    BY <1>3, <1>5 DEF Leases
  <2>2. QED BY <1>2, <2>1 DEF Ledger!lvars
<1>6. QED BY <1>4, <1>5

(* The claim of the expected attempt opens the next one. *)
LEMMA OpenStep ==
    ASSUME Inv, NEW w \in VideoWorkers, ClaimVideo(w)
    PROVE  Ledger!Open(w)
<1>1. video \in Rows /\ renderer[w] \in Runs
  BY DEF Inv, TypeOK
<1>2. /\ renderer'[w].pc = "render" /\ renderer'[w].job = renderer[w].job
      /\ \A u \in VideoWorkers : u # w => renderer'[u] = renderer[u]
  BY <1>1 DEF ClaimVideo, Inv, TypeOK, Runs
<1>3. /\ renderer[w].job = video.attempt + 1
      /\ video.status # "GENERATED"
  BY <1>1 DEF ClaimVideo, ExpectedClaim, Claimable, IsStale, Rows, Runs
<1>4. /\ video'.status = "GENERATING" /\ video'.attempt = video.attempt + 1
      /\ video'.output = NoOutput
  BY <1>1 DEF ClaimVideo, Claimed, Rows
<1>5. video.output = NoOutput
  BY <1>1, <1>3 DEF Inv, RowsStayLoadable, WellFormed, Rows, Statuses
<1>6. Phase # "done" /\ Phase' = "open"
  BY <1>1, <1>3, <1>4 DEF Phase, Rows, Statuses
<1>7. Leases[w] = 0
  BY DEF Leases, Claiming, ClaimVideo
<1>8. Leases' = [Leases EXCEPT ![w] = video.attempt + 1]
  BY <1>2, <1>3 DEF Leases, Claiming
<1>9. QED BY <1>4, <1>5, <1>6, <1>7, <1>8 DEF Ledger!Open

(* A write-back that passes the predicate ends the attempt as its holder.  *)
LEMMA EndStep ==
    ASSUME Inv, NEW w \in VideoWorkers
    PROVE  /\ RecordGenerated(w) => Ledger!Succeed(w)
           /\ RecordFailed(w) => Ledger!Fail(w)
<1>1. video \in Rows /\ renderer[w] \in Runs
  BY DEF Inv, TypeOK
<1>2. ASSUME RecordGenerated(w) \/ RecordFailed(w)
      PROVE  Ledger!Latest(w) /\ Ledger!GiveBack(w)
  <2>1. Claiming(w) /\ Current(w)
    BY <1>2 DEF RecordGenerated, RecordFailed, At, Claiming
  <2>2. Phase = "open" /\ Leases[w] = video.attempt
    BY <2>1 DEF Phase, Leases, Current
  <2>3. Leases' = [Leases EXCEPT ![w] = 0]
    <3>1. /\ ~Claiming(w)'
          /\ \A u \in VideoWorkers : u # w => renderer'[u] = renderer[u]
      BY <1>2 DEF RecordGenerated, RecordFailed, End, Claiming, Idle, Inv, TypeOK
    <3>2. QED BY <3>1 DEF Leases, Claiming
  <2>4. QED BY <2>2, <2>3 DEF Ledger!Latest, Ledger!GiveBack
<1>3. ASSUME RecordGenerated(w) PROVE Ledger!Succeed(w)
  <2>1. /\ video'.status = "GENERATED" /\ video'.attempt = video.attempt
        /\ video'.output = video.attempt
    BY <1>1, <1>3 DEF RecordGenerated, Current, Succeeded, Rows
  <2>2. Phase' = "done"
    BY <2>1 DEF Phase
  <2>3. QED BY <1>2, <1>3, <2>1, <2>2 DEF Ledger!Succeed
<1>4. ASSUME RecordFailed(w) PROVE Ledger!Fail(w)
  <2>1. /\ video'.status = "FAILED" /\ video'.attempt = video.attempt
        /\ video'.output = NoOutput
    BY <1>1, <1>4 DEF RecordFailed, FailedRow, Rows
  <2>2. video.output = NoOutput
    <3>1. WellFormed(video) /\ video.status = "GENERATING"
      BY <1>4 DEF RecordFailed, Current, Inv, RowsStayLoadable
    <3>2. QED BY <3>1 DEF WellFormed
  <2>3. Phase' = "waiting"
    BY <2>1 DEF Phase
  <2>4. QED BY <1>2, <1>4, <2>1, <2>2, <2>3 DEF Ledger!Fail
<1>5. QED BY <1>3, <1>4

(* A step that changes neither the row nor a claim is a stutter. *)
LEMMA StutterStep ==
    ASSUME UNCHANGED video,
           \A u \in VideoWorkers :
              /\ Claiming(u)' <=> Claiming(u)
              /\ Claiming(u) => renderer'[u].job = renderer[u].job
    PROVE  [Ledger!LedgerNext]_(Ledger!lvars)
<1>1. Phase' = Phase /\ Leases' = Leases
  BY DEF Phase, Leases
<1>2. QED BY <1>1 DEF Ledger!lvars

(* Every step of the protocol is a step of the ledger or a stutter. *)
LEMMA LedgerStep ==
    Inv /\ [Next]_vars => [Ledger!LedgerNext]_(Ledger!lvars)
<1> SUFFICES ASSUME Inv, [Next]_vars
             PROVE  [Ledger!LedgerNext]_(Ledger!lvars)
  OBVIOUS
<1>1. CASE Tick \/ PrepareVideo \/ UNCHANGED vars
  BY <1>1, StutterStep DEF Tick, PrepareVideo, vars, vvars, Claiming
<1>2. ASSUME NEW w \in VideoWorkers, RunVideo(w)
      PROVE  [Ledger!LedgerNext]_(Ledger!lvars)
  <2>1. ASSUME NEW n \in jobs, ReadParents(w, n)
        PROVE  [Ledger!LedgerNext]_(Ledger!lvars)
    BY <2>1, StutterStep DEF ReadParents, Claiming, Idle, Inv, TypeOK
  <2>2. CASE ClaimVideo(w)
    BY <2>2, OpenStep DEF Ledger!LedgerNext
  <2>3. CASE NotClaimed(w) \/ Superseded(w) \/ RecordRaises(w) \/ Crash(w)
    BY <2>3, ReleaseStep DEF NotClaimed, Superseded, RecordRaises, Crash
  <2>4. CASE Render(w) \/ RenderRaises(w)
    <3>1. /\ renderer[w].pc = "render" /\ renderer'[w].pc = "check"
          /\ renderer'[w].job = renderer[w].job
          /\ \A u \in VideoWorkers : u # w => renderer'[u] = renderer[u]
      BY <2>4 DEF Render, RenderRaises, Rendered, At, Inv, TypeOK, Runs
    <3>2. video' = video
      BY <2>4 DEF Render, RenderRaises
    <3>3. QED BY <3>1, <3>2, StutterStep DEF Claiming
  <2>5. CASE CheckCurrent(w)
    <3>1. /\ renderer[w].pc = "check" /\ renderer'[w].pc = "update"
          /\ renderer'[w].job = renderer[w].job
          /\ \A u \in VideoWorkers : u # w => renderer'[u] = renderer[u]
      BY <2>5 DEF CheckCurrent, At, Inv, TypeOK, Runs
    <3>2. video' = video
      BY <2>5 DEF CheckCurrent
    <3>3. QED BY <3>1, <3>2, StutterStep DEF Claiming
  <2>6. CASE RecordGenerated(w) \/ RecordFailed(w)
    BY <2>6, EndStep DEF Ledger!LedgerNext
  <2>7. QED BY <1>2, <2>1, <2>2, <2>3, <2>4, <2>5, <2>6 DEF RunVideo
<1>3. QED BY <1>1, <1>2 DEF Next

(* No attempt is open and nobody holds one at first. *)
LEMMA LedgerInitially == VideoInit => Ledger!LedgerInit
<1>1. ASSUME VideoInit PROVE Phase = "waiting" /\ video.attempt = 0
                             /\ video.output = 0
  BY <1>1 DEF VideoInit, Phase, PendingRow, NoOutput
<1>2. ASSUME VideoInit PROVE Leases = [w \in VideoWorkers |-> 0]
  BY <1>2 DEF VideoInit, Leases, Claiming, Idle
<1>3. QED BY <1>1, <1>2 DEF Ledger!LedgerInit

(* process_news_video with its conditional claim and its conditional       *)
(* write-back implements the ledger of attempts, for every number of       *)
(* workers, every delay of a run and every redelivery of a job.            *)
THEOREM Refinement == Spec => ImplementsLedger
<1>1. Init => Ledger!LedgerInit
  BY LedgerInitially DEF Init
<1>2. QED
  BY <1>1, LedgerStep, Invariance, PTL
  DEF Spec, ImplementsLedger, Ledger!LedgerSpec

-----------------------------------------------------------------------------
(***************************************************************************)
(* The two stages together.  NarrationAudio reaches GenerationRow and      *)
(* MediaRow through an INSTANCE of its own; its copies of their operators  *)
(* are the same.                                                           *)
(***************************************************************************)

(* The copies of the types and of the initial objects. *)
LEMMA SameTypes ==
    /\ A!NoOutput = NoOutput
    /\ A!Rows = Rows /\ A!PendingRow = PendingRow
    /\ A!M!MediaRows = M!MediaRows /\ A!M!PendingMedia = M!PendingMedia
BY DEF A!NoOutput, NoOutput, A!Rows, Rows, A!Statuses, Statuses, A!Instants,
       Instants, A!Never, Never, A!PendingRow, PendingRow, A!M!MediaRows,
       M!MediaRows, A!M!MediaStatuses, M!MediaStatuses, A!M!Never, M!Never,
       A!M!PendingMedia, M!PendingMedia

(* The copies of the row operators. *)
LEMMA SameRowOperators ==
    ASSUME NEW row, NEW t, NEW out
    PROVE  /\ A!Claimed(row, t) = Claimed(row, t)
           /\ A!Succeeded(row, out, t) = Succeeded(row, out, t)
           /\ A!FailedRow(row, t) = FailedRow(row, t)
           /\ A!WellFormed(row) <=> WellFormed(row)
           /\ A!Claimable(row, t, out) <=> Claimable(row, t, out)
<1>1. A!Claimed(row, t) = Claimed(row, t)
  BY DEF A!Claimed, Claimed, A!Never, Never, A!NoOutput, NoOutput
<1>2. A!Succeeded(row, out, t) = Succeeded(row, out, t)
  BY DEF A!Succeeded, Succeeded
<1>3. A!FailedRow(row, t) = FailedRow(row, t)
  BY DEF A!FailedRow, FailedRow, A!NoOutput, NoOutput
<1>4. A!WellFormed(row) <=> WellFormed(row)
  BY DEF A!WellFormed, WellFormed, A!Never, Never, A!NoOutput, NoOutput
<1>5. A!Claimable(row, t, out) <=> Claimable(row, t, out)
  BY DEF A!Claimable, Claimable, A!IsStale, IsStale, A!Never, Never
<1>6. QED BY <1>1, <1>2, <1>3, <1>4, <1>5

(* The copy of the flush. *)
LEMMA SameFlush ==
    ASSUME NEW row, NEW seen, NEW new
    PROVE  A!Flushed(row, seen, new) = Flushed(row, seen, new)
BY DEF A!Flushed, Flushed

(* The copies of the operators of the media row. *)
LEMMA SameMediaOperators ==
    ASSUME NEW row, NEW t
    PROVE  /\ A!M!Started(row, t) = M!Started(row, t)
           /\ A!M!MarkedFailed(row, t) = M!MarkedFailed(row, t)
           /\ A!M!MediaWellFormed(row) <=> M!MediaWellFormed(row)
<1>1. A!M!Started(row, t) = M!Started(row, t)
  BY DEF A!M!Started, M!Started, A!M!Never, M!Never
<1>2. A!M!MarkedFailed(row, t) = M!MarkedFailed(row, t)
  BY DEF A!M!MarkedFailed, M!MarkedFailed
<1>3. A!M!MediaWellFormed(row) <=> M!MediaWellFormed(row)
  BY DEF A!M!MediaWellFormed, M!MediaWellFormed, A!M!Never, M!Never
<1>4. QED BY <1>1, <1>2, <1>3

-----------------------------------------------------------------------------
(***************************************************************************)
(* The parts of the invariant of the pipeline.  NarratorsOwn speaks of the *)
(* runs that own their attempt, because the flush of a narration compares  *)
(* nothing: it holds until one of the others has written.                  *)
(***************************************************************************)

(* The steps of an audio worker after its work. *)
Ending == {"check", "settle", "update", "flush"}

(* What a run is about to record is the artifact. *)
RunIsCanonical(w) ==
    /\ Working(w) => narrator[w].mine # 0
    /\ narrator[w].pc \in Ending /\ narrator[w].intent = "generated" =>
          narrator[w].out = store /\ store # NoOutput
    /\ narrator[w].pc \in {"update", "flush"} =>
          narrator[w].next.output \in {NoOutput, store}

NarrationIsCanonical ==
    /\ audio.output \in {NoOutput, store}
    /\ \A w \in AudioWorkers : RunIsCanonical(w)

(* While a run owns its attempt, the row has the start of its claim, and   *)
(* what the run has read of the row is still there.                        *)
NarratorOwns(w) ==
    Working(w) =>
      /\ narrator[w].mine \in 1..audio.attempt
      /\ narrator[w].began <= now
      /\ narrator[w].pc \in Ending =>
            /\ narrator[w].intent # "none"
            /\ narrator[w].began <= narrator[w].ended
      /\ A!Owner(w) =>
            /\ audio.started = narrator[w].began
            /\ narrator[w].pc \in {"update", "flush"} =>
                  narrator[w].next = A!Settled(w)
            /\ narrator[w].pc = "flush" => narrator[w].seen = audio

NarratorsOwn == \A w \in AudioWorkers : NarratorOwns(w)

(* The video stage has jobs and runs only once it has a row, and its row   *)
(* names the artifact.                                                     *)
VideoAfterSource ==
    /\ source # NoOutput => source = store
    /\ source = NoOutput =>
          /\ jobs = {} /\ video.status = "PENDING"
          /\ \A w \in VideoWorkers : renderer[w].pc = "idle"

(* It has a row only once the narration is GENERATED.                      *)
SourceAfterNarration == source # NoOutput => audio.status = "GENERATED"

-----------------------------------------------------------------------------
PipelineTypes ==
    /\ TypeOK
    /\ narrator \in [AudioWorkers -> A!Runs]
    /\ overwritten \in BOOLEAN

(* An idle audio worker has its type. *)
LEMMA IdleNarrator == A!Idle \in A!Runs
<1>1. A!PendingRow \in A!Rows /\ A!M!PendingMedia \in A!M!MediaRows
  BY SameTypes, PendingType, InitialTypes
<1>2. QED BY <1>1 DEF A!Idle, A!Runs, A!Steps, A!Intents, A!NoOutput

(* What an audio worker records about itself has its type. *)
LEMMA NarratorTypes ==
    ASSUME PipelineTypes, NEW w \in AudioWorkers, A!Narrate(w)
    PROVE  narrator' \in [AudioWorkers -> A!Runs]
<1> DEFINE run == narrator[w]
<1>1. run \in A!Runs /\ now \in Nat /\ audio \in Rows /\ store \in Nat
  BY DEF PipelineTypes, TypeOK
<1>2. ASSUME NEW new \in A!Runs, narrator' = [narrator EXCEPT ![w] = new]
      PROVE  narrator' \in [AudioWorkers -> A!Runs]
  BY <1>2 DEF PipelineTypes
<1>3. CASE A!ReadParents(w)
  <2>1. media \in A!M!MediaRows
    BY SameTypes DEF PipelineTypes, TypeOK
  <2>2. [A!Idle EXCEPT !.pc = "claim", !.parent = media] \in A!Runs
    BY <2>1, IdleNarrator DEF A!Runs, A!Steps, A!Intents
  <2>3. QED BY <1>2, <1>3, <2>2 DEF A!ReadParents
<1>4. CASE A!ClaimAudio(w)
  <2>1. audio.attempt + 1 \in Nat
    BY <1>1 DEF Rows
  <2>2. [run EXCEPT !.pc = "store", !.mine = audio.attempt + 1, !.began = now]
          \in A!Runs
    BY <1>1, <2>1 DEF A!Runs, A!Steps, A!Intents
  <2>3. QED BY <1>4, <2>2 DEF A!ClaimAudio, PipelineTypes
<1>5. CASE A!ReuseArtifact(w)
  <2>1. [run EXCEPT !.pc = "check", !.out = store, !.intent = "generated",
                    !.ended = now] \in A!Runs
    BY <1>1 DEF A!Runs, A!Steps, A!Intents
  <2>2. QED BY <1>5, <2>1 DEF A!ReuseArtifact, PipelineTypes
<1>6. CASE A!Synthesize(w)
  <2>1. [run EXCEPT !.pc = "tts"] \in A!Runs
    BY <1>1 DEF A!Runs, A!Steps, A!Intents
  <2>2. QED BY <1>6, <2>1 DEF A!Synthesize, PipelineTypes
<1>7. CASE A!WriteArtifact(w)
  <2>1. [run EXCEPT !.pc = "check", !.out = run.mine, !.intent = "generated",
                    !.ended = now] \in A!Runs
    BY <1>1 DEF A!Runs, A!Steps, A!Intents
  <2>2. QED BY <1>7, <2>1 DEF A!WriteArtifact, PipelineTypes
<1>8. CASE A!RaiseInTry(w)
  <2>1. [run EXCEPT !.pc = "check", !.intent = "failed", !.ended = now]
          \in A!Runs
    BY <1>1 DEF A!Runs, A!Steps, A!Intents
  <2>2. QED BY <1>8, <2>1 DEF A!RaiseInTry, PipelineTypes
<1>9. CASE A!CheckOwner(w)
  <2>1. [run EXCEPT !.pc = "settle"] \in A!Runs
    BY <1>1 DEF A!Runs, A!Steps, A!Intents
  <2>2. QED BY <1>9, <2>1 DEF A!CheckOwner, PipelineTypes
<1>10. CASE A!Settle(w)
  <2>1. A!Settled(w) \in A!Rows
    <3>1. A!Settled(w) \in {Succeeded(audio, run.out, run.ended),
                            FailedRow(audio, run.ended)}
      BY SameRowOperators DEF A!Settled
    <3>2. run.out \in Nat /\ run.ended \in Nat
      BY <1>1 DEF A!Runs
    <3>3. QED BY <1>1, <3>1, <3>2, RowTypes, SameTypes
  <2>2. [run EXCEPT !.pc = "update", !.next = A!Settled(w)] \in A!Runs
    BY <1>1, <2>1 DEF A!Runs, A!Steps, A!Intents
  <2>3. QED BY <1>10, <2>2 DEF A!Settle, PipelineTypes
<1>11. CASE A!ReadRecord(w)
  <2>1. [run EXCEPT !.pc = "flush", !.seen = audio] \in A!Runs
    BY <1>1, SameTypes DEF A!Runs, A!Steps, A!Intents
  <2>2. QED BY <1>11, <2>1 DEF A!ReadRecord, PipelineTypes
<1>12. CASE A!ClaimRefused(w) \/ A!Superseded(w) \/ A!SettleRaises(w)
            \/ A!FlushGenerated(w) \/ A!FlushFailed(w) \/ A!FlushRaises(w)
            \/ A!Crash(w)
  BY <1>2, <1>12, IdleNarrator
  DEF A!ClaimRefused, A!Superseded, A!SettleRaises, A!FlushGenerated,
      A!FlushFailed, A!FlushRaises, A!Crash, A!End
<1>13. QED
  BY <1>3, <1>4, <1>5, <1>6, <1>7, <1>8, <1>9, <1>10, <1>11, <1>12
  DEF A!Narrate

(* The flush takes every column from the row or from the new object. *)
LEMMA FlushedType ==
    ASSUME NEW row \in Rows, NEW seen \in Rows, NEW new \in Rows
    PROVE  /\ Flushed(row, seen, new) \in Rows
           /\ Flushed(row, seen, new).output \in {row.output, new.output}
<1> DEFINE f == Flushed(row, seen, new)
<1>1. DOMAIN row = {"status", "attempt", "output", "reason", "started",
                    "completed", "updated"}
  BY DEF Rows
<1>2. f = [c \in DOMAIN row |-> IF new[c] = seen[c] THEN row[c] ELSE new[c]]
  BY DEF Flushed
<1> HIDE DEF f
<1>3. \A c \in DOMAIN row : f[c] \in {row[c], new[c]}
  BY <1>2
<1>4. /\ f.status \in {row.status, new.status}
      /\ f.attempt \in {row.attempt, new.attempt}
      /\ f.output \in {row.output, new.output}
      /\ f.reason \in {row.reason, new.reason}
      /\ f.started \in {row.started, new.started}
      /\ f.completed \in {row.completed, new.completed}
      /\ f.updated \in {row.updated, new.updated}
  BY <1>1, <1>3
<1>5. /\ f.status \in Statuses /\ f.attempt \in Nat /\ f.output \in Nat
      /\ f.reason \in BOOLEAN /\ f.started \in Instants
      /\ f.completed \in Instants /\ f.updated \in Nat
  BY <1>4 DEF Rows
<1>6. f = [status |-> f.status, attempt |-> f.attempt, output |-> f.output,
           reason |-> f.reason, started |-> f.started,
           completed |-> f.completed, updated |-> f.updated]
  BY <1>1, <1>2
<1>7. f \in Rows
  BY <1>5, <1>6 DEF Rows
<1>8. QED BY <1>4, <1>7 DEF f

(* A step of an audio worker leaves the clock and the other runs alone. *)
LEMMA OthersKeepRunning ==
    ASSUME PipelineTypes, NEW w \in AudioWorkers, A!Narrate(w)
    PROVE  /\ now' = now
           /\ \A u \in AudioWorkers : u # w => narrator'[u] = narrator[u]
BY DEF PipelineTypes, A!Narrate, A!ReadParents, A!ClaimAudio, A!ClaimRefused,
       A!ReuseArtifact, A!Synthesize, A!WriteArtifact, A!RaiseInTry,
       A!CheckOwner, A!Superseded, A!Settle, A!SettleRaises, A!ReadRecord,
       A!FlushGenerated, A!FlushFailed, A!FlushRaises, A!Crash, A!End

(* A run that ends, or that has only read the rows, holds nothing. *)
LEMMA RunsThatHoldNothing ==
    ASSUME PipelineTypes, NEW w \in AudioWorkers,
           \/ A!ReadParents(w) \/ A!ClaimRefused(w) \/ A!Superseded(w)
           \/ A!SettleRaises(w) \/ A!FlushGenerated(w) \/ A!FlushFailed(w)
           \/ A!FlushRaises(w) \/ A!Crash(w)
    PROVE  narrator'[w].pc \in {"idle", "claim"}
<1>1. CASE A!ReadParents(w)
  <2>1. narrator'[w] = [A!Idle EXCEPT !.pc = "claim", !.parent = media]
    BY <1>1 DEF A!ReadParents, PipelineTypes
  <2>2. QED BY <2>1 DEF A!Idle
<1>2. CASE ~A!ReadParents(w)
  <2>1. narrator'[w] = A!Idle
    BY <1>2
    DEF A!ClaimRefused, A!Superseded, A!SettleRaises, A!FlushGenerated,
        A!FlushFailed, A!FlushRaises, A!Crash, A!End, PipelineTypes
  <2>2. QED BY <2>1 DEF A!Idle
<1>3. QED BY <1>1, <1>2

(* What the claim records. *)
LEMMA ClaimRecords ==
    ASSUME PipelineTypes, NEW w \in AudioWorkers, A!ClaimAudio(w)
    PROVE  /\ narrator'[w].pc = "store"
           /\ narrator'[w].mine = audio.attempt + 1
           /\ narrator'[w].began = now
BY DEF PipelineTypes, A!ClaimAudio, A!Runs

(* A run that goes on keeps its attempt and its start. *)
LEMMA RunsThatGoOn ==
    ASSUME PipelineTypes, NEW w \in AudioWorkers,
           \/ A!ReuseArtifact(w) \/ A!Synthesize(w) \/ A!WriteArtifact(w)
           \/ A!RaiseInTry(w) \/ A!CheckOwner(w) \/ A!Settle(w)
           \/ A!ReadRecord(w)
    PROVE  /\ A!Alive(w) /\ Working(w)
           /\ narrator'[w].mine = narrator[w].mine
           /\ narrator'[w].began = narrator[w].began
           /\ UNCHANGED <<now, media, audio>>
<1>1. A!Alive(w) /\ Working(w) /\ UNCHANGED <<now, media, audio>>
  BY DEF A!ReuseArtifact, A!Synthesize, A!WriteArtifact, A!RaiseInTry,
         A!CheckOwner, A!Settle, A!ReadRecord, A!At, Working
<1>2. narrator'[w].mine = narrator[w].mine
        /\ narrator'[w].began = narrator[w].began
  BY DEF PipelineTypes, A!Runs, A!ReuseArtifact, A!Synthesize,
         A!WriteArtifact, A!RaiseInTry, A!CheckOwner, A!Settle, A!ReadRecord
<1>3. QED BY <1>1, <1>2

(* What a run records at the end of its work ... *)
LEMMA WorkRecords ==
    ASSUME PipelineTypes, NEW w \in AudioWorkers
    PROVE  /\ A!ReuseArtifact(w) \/ A!WriteArtifact(w) \/ A!RaiseInTry(w) =>
                narrator'[w].pc = "check" /\ narrator'[w].ended = now
           /\ A!ReuseArtifact(w) =>
                /\ narrator'[w].intent = "generated"
                /\ narrator'[w].out = store
                /\ store # A!NoOutput /\ UNCHANGED store
           /\ A!WriteArtifact(w) =>
                /\ narrator'[w].intent = "generated"
                /\ narrator'[w].out = narrator[w].mine
                /\ store \in {A!NoOutput, narrator[w].mine}
                /\ store' = narrator[w].mine
           /\ A!RaiseInTry(w) =>
                narrator'[w].intent = "failed" /\ UNCHANGED store
<1>1. narrator \in [AudioWorkers -> A!Runs]
  BY DEF PipelineTypes
<1>2. ASSUME A!ReuseArtifact(w)
      PROVE  /\ narrator'[w].pc = "check" /\ narrator'[w].ended = now
             /\ narrator'[w].intent = "generated"
             /\ narrator'[w].out = store
             /\ store # A!NoOutput /\ UNCHANGED store
  BY <1>1, <1>2 DEF A!Runs, A!ReuseArtifact
<1>3. ASSUME A!WriteArtifact(w)
      PROVE  /\ narrator'[w].pc = "check" /\ narrator'[w].ended = now
             /\ narrator'[w].intent = "generated"
             /\ narrator'[w].out = narrator[w].mine
             /\ store \in {A!NoOutput, narrator[w].mine}
             /\ store' = narrator[w].mine
  BY <1>1, <1>3 DEF A!Runs, A!WriteArtifact
<1>4. ASSUME A!RaiseInTry(w)
      PROVE  /\ narrator'[w].pc = "check" /\ narrator'[w].ended = now
             /\ narrator'[w].intent = "failed" /\ UNCHANGED store
  BY <1>1, <1>4 DEF A!Runs, A!RaiseInTry
<1>5. QED BY <1>2, <1>3, <1>4

(* ... and on its way to the flush. *)
LEMMA WriteBackRecords ==
    ASSUME PipelineTypes, NEW w \in AudioWorkers,
           A!CheckOwner(w) \/ A!Settle(w) \/ A!ReadRecord(w)
    PROVE  /\ narrator'[w].intent = narrator[w].intent
           /\ narrator'[w].out = narrator[w].out
           /\ narrator'[w].ended = narrator[w].ended
           /\ narrator[w].pc \in Ending /\ narrator'[w].pc \in Ending
           /\ UNCHANGED store
           /\ A!CheckOwner(w) => narrator'[w].pc = "settle"
           /\ A!Settle(w) => /\ narrator'[w].pc = "update"
                             /\ narrator'[w].next = A!Settled(w)
           /\ A!ReadRecord(w) => /\ narrator[w].pc = "update"
                                 /\ narrator'[w].pc = "flush"
                                 /\ narrator'[w].next = narrator[w].next
                                 /\ narrator'[w].seen = audio
<1>1. CASE A!CheckOwner(w)
  BY <1>1 DEF PipelineTypes, A!Runs, A!CheckOwner, A!Settle, A!ReadRecord,
              A!At, Ending
<1>2. CASE A!Settle(w)
  BY <1>2 DEF PipelineTypes, A!Runs, A!CheckOwner, A!Settle, A!ReadRecord,
              A!At, Ending
<1>3. CASE A!ReadRecord(w)
  BY <1>3 DEF PipelineTypes, A!Runs, A!CheckOwner, A!Settle, A!ReadRecord,
              A!At, Ending
<1>4. QED BY <1>1, <1>2, <1>3

-----------------------------------------------------------------------------
(* A run that does not move stays canonical: the artifact is written once. *)
LEMMA RunStaysCanonical ==
    ASSUME NEW w \in AudioWorkers, RunIsCanonical(w),
           narrator'[w] = narrator[w], store' = store \/ store = NoOutput
    PROVE  RunIsCanonical(w)'
BY DEF RunIsCanonical, Working

(* Every step of an audio worker keeps the artifact the only one. *)
LEMMA NarrateCanonical ==
    ASSUME PipelineTypes, NarrationIsCanonical,
           NEW w \in AudioWorkers, A!Narrate(w)
    PROVE  NarrationIsCanonical'
<1> USE SameTypes
<1>1. /\ narrator[w] \in A!Runs /\ audio \in Rows
      /\ RunIsCanonical(w) /\ audio.output \in {NoOutput, store}
  BY DEF PipelineTypes, TypeOK, NarrationIsCanonical
<1>2. ASSUME audio'.output \in {NoOutput, store'}, RunIsCanonical(w)',
             store' = store \/ store = NoOutput
      PROVE  NarrationIsCanonical'
  <2>1. ASSUME NEW u \in AudioWorkers, u # w PROVE RunIsCanonical(u)'
    BY <1>2, <2>1, OthersKeepRunning, RunStaysCanonical DEF NarrationIsCanonical
  <2>2. QED BY <1>2, <2>1 DEF NarrationIsCanonical
<1>3. ASSUME narrator'[w].pc \in {"idle", "claim"} PROVE RunIsCanonical(w)'
  BY <1>3 DEF RunIsCanonical, Working, Ending
<1>4. CASE \/ A!ReadParents(w) \/ A!ClaimRefused(w) \/ A!Superseded(w)
           \/ A!SettleRaises(w) \/ A!FlushRaises(w) \/ A!Crash(w)
  <2>1. UNCHANGED <<audio, store>>
    BY <1>4 DEF A!ReadParents, A!ClaimRefused, A!Superseded, A!SettleRaises,
                A!FlushRaises, A!Crash
  <2>2. QED BY <1>1, <1>2, <1>3, <1>4, <2>1, RunsThatHoldNothing
<1>5. CASE A!ClaimAudio(w)
  <2>1. audio'.output = NoOutput /\ store' = store
    <3>1. audio' = Claimed(audio, now) /\ store' = store
      BY <1>5, SameRowOperators DEF A!ClaimAudio
    <3>2. Claimed(audio, now).output = NoOutput
      BY <1>1 DEF Claimed, Rows
    <3>3. QED BY <3>1, <3>2
  <2>2. audio.attempt + 1 # 0
    BY <1>1 DEF Rows
  <2>3. RunIsCanonical(w)'
    BY <1>5, <2>2, ClaimRecords DEF RunIsCanonical, Ending
  <2>4. QED BY <1>2, <2>1, <2>3
<1>6. CASE A!ReuseArtifact(w) \/ A!WriteArtifact(w) \/ A!RaiseInTry(w)
  <2>1. /\ Working(w) /\ narrator'[w].mine = narrator[w].mine
        /\ UNCHANGED audio /\ narrator'[w].pc = "check"
    BY <1>6, RunsThatGoOn, WorkRecords
  <2>2. narrator[w].mine # 0
    BY <1>1, <2>1 DEF RunIsCanonical
  <2>3. store' = store \/ store = NoOutput
    BY <1>6, WorkRecords
  <2>4. narrator'[w].intent = "generated" =>
           narrator'[w].out = store' /\ store' # NoOutput
    BY <1>6, <2>2, WorkRecords DEF NoOutput
  <2>5. RunIsCanonical(w)'
    BY <2>1, <2>2, <2>4 DEF RunIsCanonical
  <2>6. audio'.output \in {NoOutput, store'}
    BY <1>1, <2>1, <2>3
  <2>7. QED BY <1>2, <2>3, <2>5, <2>6
<1>7. CASE A!Synthesize(w)
  <2>1. /\ narrator'[w].pc = "tts" /\ UNCHANGED <<audio, store>>
    BY <1>1, <1>7 DEF A!Synthesize, PipelineTypes, A!Runs
  <2>2. narrator'[w].mine # 0
    BY <1>1, <1>7, RunsThatGoOn DEF RunIsCanonical
  <2>3. RunIsCanonical(w)'
    BY <2>1, <2>2 DEF RunIsCanonical, Ending
  <2>4. QED BY <1>1, <1>2, <2>1, <2>3
<1>8. CASE A!CheckOwner(w) \/ A!Settle(w) \/ A!ReadRecord(w)
  <2>1. /\ UNCHANGED <<audio, store>> /\ Working(w)
        /\ narrator'[w].mine = narrator[w].mine
    BY <1>8, RunsThatGoOn, WriteBackRecords
  <2>2. A!Settle(w) => narrator'[w].next.output \in {NoOutput, store}
    <3>1. ASSUME A!Settle(w)
          PROVE  \/ A!Settled(w).output = NoOutput
                 \/ /\ narrator[w].intent = "generated"
                    /\ A!Settled(w).output = narrator[w].out
      <4>1. A!Settled(w) = IF narrator[w].intent = "generated"
              THEN Succeeded(audio, narrator[w].out, narrator[w].ended)
              ELSE FailedRow(audio, narrator[w].ended)
        BY SameRowOperators DEF A!Settled
      <4>2. /\ Succeeded(audio, narrator[w].out, narrator[w].ended).output
                 = narrator[w].out
            /\ FailedRow(audio, narrator[w].ended).output = NoOutput
        BY <1>1 DEF Succeeded, FailedRow, Rows
      <4>3. QED BY <4>1, <4>2
    <3>2. QED BY <1>1, <3>1, WriteBackRecords DEF RunIsCanonical
  <2>3. A!ReadRecord(w) => narrator'[w].next.output \in {NoOutput, store}
    BY <1>1, WriteBackRecords DEF RunIsCanonical
  <2>4. A!CheckOwner(w) => narrator'[w].pc \notin {"update", "flush"}
    BY WriteBackRecords
  <2>5. RunIsCanonical(w)'
    BY <1>1, <1>8, <2>1, <2>2, <2>3, <2>4, WriteBackRecords DEF RunIsCanonical
  <2>6. QED BY <1>1, <1>2, <2>1, <2>5
<1>9. CASE A!FlushGenerated(w) \/ A!FlushFailed(w)
  <2>1. /\ narrator[w].pc = "flush" /\ UNCHANGED store
        /\ audio' = Flushed(audio, narrator[w].seen, narrator[w].next)
    BY <1>9, SameFlush DEF A!FlushGenerated, A!FlushFailed, A!At
  <2>2. narrator[w].seen \in Rows /\ narrator[w].next \in Rows
    BY <1>1 DEF A!Runs
  <2>3. audio'.output \in {audio.output, narrator[w].next.output}
    BY <1>1, <2>1, <2>2, FlushedType
  <2>4. audio'.output \in {NoOutput, store'}
    BY <1>1, <2>1, <2>3 DEF RunIsCanonical
  <2>5. QED BY <1>2, <1>3, <1>9, <2>1, <2>4, RunsThatHoldNothing
<1>10. QED
  BY <1>4, <1>5, <1>6, <1>7, <1>8, <1>9 DEF A!Narrate

(* What an audio worker writes to the rows and the store has its type. *)
LEMMA NarrateRowTypes ==
    ASSUME PipelineTypes, NEW w \in AudioWorkers, A!Narrate(w)
    PROVE  media' \in M!MediaRows /\ audio' \in Rows /\ store' \in Nat
<1>1. /\ narrator[w] \in A!Runs /\ audio \in Rows /\ now \in Nat
      /\ media \in M!MediaRows /\ store \in Nat
  BY DEF PipelineTypes, TypeOK
<1>2. /\ narrator[w].parent \in M!MediaRows /\ narrator[w].ended \in Nat
      /\ narrator[w].seen \in Rows /\ narrator[w].next \in Rows
      /\ narrator[w].mine \in Nat
  BY <1>1, SameTypes DEF A!Runs
<1>3. CASE A!ClaimAudio(w)
  <2>1. audio' = Claimed(audio, now) /\ store' = store
        /\ media' \in {media, M!Started(narrator[w].parent, now)}
    BY <1>3, SameRowOperators, SameMediaOperators DEF A!ClaimAudio
  <2>2. QED BY <1>1, <1>2, <2>1, RowTypes, MediaTypes
<1>4. CASE A!FlushGenerated(w) \/ A!FlushFailed(w)
  <2>1. /\ audio' = Flushed(audio, narrator[w].seen, narrator[w].next)
        /\ store' = store
        /\ media' \in {media, M!MarkedFailed(media, narrator[w].ended)}
    BY <1>4, SameFlush, SameMediaOperators DEF A!FlushGenerated, A!FlushFailed
  <2>2. QED BY <1>1, <1>2, <2>1, FlushedType, MediaTypes
<1>5. CASE A!WriteArtifact(w)
  BY <1>1, <1>2, <1>5 DEF A!WriteArtifact
<1>6. CASE ~(\/ A!ClaimAudio(w) \/ A!FlushGenerated(w) \/ A!FlushFailed(w)
             \/ A!WriteArtifact(w))
  <2>1. UNCHANGED <<media, audio, store>>
    BY <1>6
    DEF A!Narrate, A!ReadParents, A!ClaimRefused, A!ReuseArtifact,
        A!Synthesize, A!RaiseInTry, A!CheckOwner, A!Superseded, A!Settle,
        A!SettleRaises, A!ReadRecord, A!FlushRaises, A!Crash
  <2>2. QED BY <1>1, <2>1
<1>7. QED BY <1>3, <1>4, <1>5, <1>6

(* A step of the video stage or of the clock is one of VideoGeneration. *)
LEMMA VideoStageIsVideoGeneration ==
    ASSUME PipelineTick \/ VideoStage \/ UNCHANGED pvars
    PROVE  [Next]_vars /\ UNCHANGED <<audio, store, narrator, overwritten>>
<1>1. CASE PipelineTick
  BY <1>1 DEF PipelineTick, Next, Tick, avars
<1>2. CASE VideoStage
  BY <1>2 DEF VideoStage, avars, Next, PrepareVideo, RunVideo, ReadParents,
              ClaimVideo, NotClaimed, Render, RenderRaises, CheckCurrent,
              Superseded, RecordGenerated, RecordRaises, RecordFailed, Crash
<1>3. CASE UNCHANGED pvars
  BY <1>3 DEF pvars, avars, vars
<1>4. QED BY <1>1, <1>2, <1>3

(* The initial states are well typed. *)
LEMMA PipelineInitTypes == PipelineInit => PipelineTypes
<1> SUFFICES ASSUME PipelineInit PROVE PipelineTypes
  OBVIOUS
<1>1. /\ now = 0 /\ media = M!PendingMedia /\ audio = PendingRow
      /\ store = NoOutput /\ narrator = [w \in AudioWorkers |-> A!Idle]
      /\ overwritten = FALSE
  BY SameTypes DEF PipelineInit, A!Init
<1>2. TypeOK
  BY <1>1, InitialTypes, PendingType
  DEF PipelineInit, VideoInit, TypeOK, NoOutput
<1>3. QED BY <1>1, <1>2, IdleNarrator DEF PipelineTypes

(* The write of a run that has lost its attempt is not forgotten, and the  *)
(* writes of the others are not counted.                                   *)
LEMMA NarrateHistory ==
    ASSUME NEW w \in AudioWorkers, A!Narrate(w)
    PROVE  /\ overwritten' \in {overwritten, overwritten \/ ~A!Owner(w)}
           /\ A!FlushGenerated(w) \/ A!FlushFailed(w) =>
                overwritten' = (overwritten \/ ~A!Owner(w))
<1>1. A!FlushGenerated(w) \/ A!FlushFailed(w) =>
         overwritten' = (overwritten \/ ~A!Owner(w))
  BY DEF A!FlushGenerated, A!FlushFailed
<1>2. ~(A!FlushGenerated(w) \/ A!FlushFailed(w)) => overwritten' = overwritten
  BY DEF A!Narrate, A!ReadParents, A!ClaimAudio, A!ClaimRefused,
         A!ReuseArtifact, A!Synthesize, A!WriteArtifact, A!RaiseInTry,
         A!CheckOwner, A!Superseded, A!Settle, A!SettleRaises, A!ReadRecord,
         A!FlushRaises, A!Crash
<1>3. QED BY <1>1, <1>2

(* Every step keeps the types. *)
LEMMA PipelineStepTypes ==
    PipelineTypes /\ [PipelineNext]_pvars => PipelineTypes'
<1> SUFFICES ASSUME PipelineTypes, [PipelineNext]_pvars PROVE PipelineTypes'
  OBVIOUS
<1>1. CASE PipelineTick \/ VideoStage \/ UNCHANGED pvars
  BY <1>1, VideoStageIsVideoGeneration, StepTypes DEF PipelineTypes
<1>2. ASSUME NEW w \in AudioWorkers, A!Narrate(w), UNCHANGED vvars
      PROVE  PipelineTypes'
  <2>1. now' = now
    BY <1>2, OthersKeepRunning
  <2>2. TypeOK'
    BY <1>2, <2>1, NarrateRowTypes DEF PipelineTypes, TypeOK, vvars
  <2>3. overwritten' \in BOOLEAN
    BY <1>2, NarrateHistory DEF PipelineTypes
  <2>4. QED BY <1>2, <2>2, <2>3, NarratorTypes DEF PipelineTypes
<1>3. QED BY <1>1, <1>2 DEF PipelineNext, AudioStage

(* Every step keeps the artifact the only one. *)
LEMMA PipelineStepCanonical ==
    PipelineTypes /\ NarrationIsCanonical /\ [PipelineNext]_pvars
       => NarrationIsCanonical'
<1> SUFFICES ASSUME PipelineTypes, NarrationIsCanonical, [PipelineNext]_pvars
             PROVE  NarrationIsCanonical'
  OBVIOUS
<1>1. CASE PipelineTick \/ VideoStage \/ UNCHANGED pvars
  BY <1>1, VideoStageIsVideoGeneration
  DEF NarrationIsCanonical, RunIsCanonical, Working
<1>2. CASE AudioStage
  BY <1>2, NarrateCanonical DEF AudioStage
<1>3. QED BY <1>1, <1>2 DEF PipelineNext

(* There is nothing to be wrong about at first. *)
LEMMA PipelineInitCanonical == PipelineInit => NarrationIsCanonical
<1> SUFFICES ASSUME PipelineInit PROVE NarrationIsCanonical
  OBVIOUS
<1>1. /\ audio = PendingRow
      /\ \A w \in AudioWorkers : narrator[w].pc = "idle"
  BY SameTypes DEF PipelineInit, A!Init, A!Idle
<1>2. QED
  BY <1>1 DEF NarrationIsCanonical, RunIsCanonical, Working, Ending, PendingRow

(* Any number of audio workers that are as late as they like, with and     *)
(* without a video stage: the hash in the audio row is the hash of the one *)
(* artifact, for every number of workers and every timeout.                *)
THEOREM CanonicalNarration == PipelineSpec => []StoredHashIsOfArtifact
<1>1. PipelineTypes /\ NarrationIsCanonical => StoredHashIsOfArtifact
  BY DEF NarrationIsCanonical, StoredHashIsOfArtifact
<1>2. QED
  BY <1>1, PipelineInitTypes, PipelineInitCanonical, PipelineStepTypes,
     PipelineStepCanonical, PTL DEF PipelineSpec

-----------------------------------------------------------------------------
(* A run that does not move keeps its attempt, unless the row changes and  *)
(* leaves the attempt to the run.                                          *)
LEMMA RunKeepsAttempt ==
    ASSUME PipelineTypes, PipelineTypes', NEW u \in AudioWorkers,
           NarratorOwns(u), narrator'[u] = narrator[u], now <= now',
           audio.attempt <= audio'.attempt,
           Working(u) /\ A!Owner(u)' => audio' = audio
    PROVE  NarratorOwns(u)'
<1> SUFFICES ASSUME Working(u)' PROVE NarratorOwns(u)'
  BY DEF NarratorOwns
<1>1. /\ narrator[u] \in A!Runs /\ now \in Nat /\ now' \in Nat
      /\ audio.attempt \in Nat /\ audio'.attempt \in Nat
  BY DEF PipelineTypes, TypeOK, Rows
<1>2. Working(u)
  BY DEF Working
<1>3. /\ narrator[u].mine \in 1..audio'.attempt
      /\ narrator[u].began <= now'
      /\ narrator[u].pc \in Ending =>
            /\ narrator[u].intent # "none"
            /\ narrator[u].began <= narrator[u].ended
  BY <1>1, <1>2 DEF NarratorOwns, A!Runs
<1>4. ASSUME A!Owner(u)'
      PROVE  /\ audio'.started = narrator[u].began
             /\ narrator[u].pc \in {"update", "flush"} =>
                   narrator[u].next = A!Settled(u)'
             /\ narrator[u].pc = "flush" => narrator[u].seen = audio'
  <2>1. audio' = audio
    BY <1>2, <1>4
  <2>2. A!Owner(u)
    BY <1>4, <2>1 DEF A!Owner
  <2>3. A!Settled(u)' = A!Settled(u)
    BY <2>1 DEF A!Settled
  <2>4. QED BY <1>2, <2>1, <2>2, <2>3 DEF NarratorOwns
<1>5. QED BY <1>3, <1>4 DEF NarratorOwns

(* The claim takes the row from the runs that had it.                      *)
LEMMA ClaimOwns ==
    ASSUME PipelineTypes, PipelineTypes', NarratorsOwn,
           NEW w \in AudioWorkers, A!ClaimAudio(w)
    PROVE  NarratorsOwn' /\ WellFormed(audio')
<1>1. /\ audio \in Rows /\ audio.attempt \in Nat /\ now \in Nat
  BY DEF PipelineTypes, TypeOK, Rows
<1>2. Claimable(audio, now, StaleAfter) /\ audio' = Claimed(audio, now)
        /\ now' = now
  BY SameRowOperators DEF A!ClaimAudio
<1>3. /\ audio'.attempt = audio.attempt + 1
      /\ audio'.started = now
  BY <1>1, <1>2 DEF Claimed, Rows
<1>4. WellFormed(audio')
  BY <1>1, <1>2, ClaimedWellFormed
<1>5. \A u \in AudioWorkers : u # w => narrator'[u] = narrator[u]
  BY OthersKeepRunning DEF A!Narrate
<1>6. /\ narrator'[w].pc = "store" /\ narrator'[w].began = now
      /\ narrator'[w].mine = audio.attempt + 1
  BY ClaimRecords
<1>7. NarratorOwns(w)'
  BY <1>1, <1>2, <1>3, <1>6 DEF NarratorOwns, Ending
<1>8. ASSUME NEW u \in AudioWorkers, u # w PROVE NarratorOwns(u)'
  <2>1. NarratorOwns(u) /\ audio.attempt <= audio'.attempt /\ now <= now'
    BY <1>1, <1>2, <1>3 DEF NarratorsOwn
  <2>2. Working(u) => ~A!Owner(u)'
    <3>1. ASSUME Working(u) PROVE narrator[u].mine \in 1..audio.attempt
      BY <2>1, <3>1 DEF NarratorOwns
    <3>2. QED BY <1>1, <1>3, <1>5, <1>8, <3>1 DEF A!Owner
  <2>3. QED BY <1>5, <1>8, <2>1, <2>2, RunKeepsAttempt
<1>9. QED BY <1>4, <1>7, <1>8 DEF NarratorsOwn

(* A step that leaves the row alone. *)
LEMMA GoingOnOwns ==
    ASSUME PipelineTypes, PipelineTypes', NarratorsOwn,
           NEW w \in AudioWorkers, A!Narrate(w), UNCHANGED audio,
           narrator'[w].pc \in {"idle", "claim"} \/ NarratorOwns(w)'
    PROVE  NarratorsOwn'
<1>1. /\ now' = now /\ now \in Nat
      /\ \A u \in AudioWorkers : u # w => narrator'[u] = narrator[u]
  BY OthersKeepRunning DEF PipelineTypes, TypeOK
<1>2. NarratorOwns(w)'
  BY DEF NarratorOwns, Working
<1>3. ASSUME NEW u \in AudioWorkers, u # w PROVE NarratorOwns(u)'
  <2>1. NarratorOwns(u) /\ now <= now' /\ audio.attempt <= audio'.attempt
    BY <1>1 DEF NarratorsOwn, PipelineTypes, TypeOK, Rows
  <2>2. QED BY <1>1, <1>3, <2>1, RunKeepsAttempt
<1>4. QED BY <1>2, <1>3 DEF NarratorsOwn

(* A run that goes on keeps its attempt. *)
LEMMA GoingOnKeepsAttempt ==
    ASSUME PipelineTypes, PipelineTypes', NarratorsOwn,
           NEW w \in AudioWorkers,
           \/ A!ReuseArtifact(w) \/ A!Synthesize(w) \/ A!WriteArtifact(w)
           \/ A!RaiseInTry(w) \/ A!CheckOwner(w) \/ A!Settle(w)
           \/ A!ReadRecord(w)
    PROVE  NarratorOwns(w)'
<1>1. /\ Working(w) /\ UNCHANGED <<now, audio>>
      /\ narrator'[w].mine = narrator[w].mine
      /\ narrator'[w].began = narrator[w].began
  BY RunsThatGoOn
<1>2. /\ narrator[w].mine \in 1..audio.attempt /\ narrator[w].began <= now
      /\ narrator[w].pc \in Ending =>
            /\ narrator[w].intent # "none"
            /\ narrator[w].began <= narrator[w].ended
      /\ A!Owner(w) =>
            /\ audio.started = narrator[w].began
            /\ narrator[w].pc \in {"update", "flush"} =>
                  narrator[w].next = A!Settled(w)
  BY <1>1 DEF NarratorsOwn, NarratorOwns
<1>3. A!Owner(w)' => A!Owner(w)
  BY <1>1 DEF A!Owner
<1>4. SUFFICES
        /\ narrator'[w].pc \in Ending =>
              /\ narrator'[w].intent # "none"
              /\ narrator'[w].began <= narrator'[w].ended
        /\ A!Owner(w) /\ narrator'[w].pc \in {"update", "flush"} =>
              narrator'[w].next = A!Settled(w)'
        /\ narrator'[w].pc = "flush" => narrator'[w].seen = audio'
  BY <1>1, <1>2, <1>3 DEF NarratorOwns
<1>5. CASE A!ReuseArtifact(w) \/ A!WriteArtifact(w) \/ A!RaiseInTry(w)
  BY <1>1, <1>2, <1>5, WorkRecords
<1>6. CASE A!Synthesize(w)
  <2>1. narrator'[w].pc = "tts"
    BY <1>6 DEF A!Synthesize, PipelineTypes, A!Runs
  <2>2. QED BY <2>1 DEF Ending
<1>7. CASE A!CheckOwner(w) \/ A!Settle(w) \/ A!ReadRecord(w)
  <2>1. A!Settled(w)' = A!Settled(w)
    BY <1>1, <1>7, WriteBackRecords DEF A!Settled
  <2>2. QED BY <1>1, <1>2, <1>7, <2>1, WriteBackRecords
<1>8. QED BY <1>5, <1>6, <1>7

(* The flush of the owner stores the end of its attempt. *)
LEMMA FlushEnds ==
    ASSUME PipelineTypes, NarrationIsCanonical, NarratorsOwn,
           WellFormed(audio), NEW w \in AudioWorkers,
           A!FlushGenerated(w) \/ A!FlushFailed(w), ~overwritten'
    PROVE  /\ A!Owner(w) /\ Working(w)
           /\ audio'.attempt = audio.attempt
           /\ audio'.status \in {"GENERATED", "FAILED"}
           /\ WellFormed(audio')
<1> DEFINE run == narrator[w]
<1>1. /\ run \in A!Runs /\ audio \in Rows
      /\ run.out \in Nat /\ run.ended \in Nat /\ run.next \in Rows
  BY SameTypes DEF PipelineTypes, TypeOK, A!Runs
<1>2. /\ A!Owner(w) /\ Working(w) /\ run.pc = "flush"
      /\ run.intent \in {"generated", "failed"}
      /\ audio' = Flushed(audio, run.seen, run.next)
  BY SameFlush, NarrateHistory
  DEF A!FlushGenerated, A!FlushFailed, A!At, A!Narrate, Working
<1>3. /\ audio.status = "GENERATING" /\ audio.started <= run.ended
      /\ run.seen = audio /\ run.next = A!Settled(w)
  BY <1>2 DEF NarratorsOwn, NarratorOwns, Ending, A!Owner
<1>4. audio' = A!Settled(w)
  BY <1>1, <1>2, <1>3, UndisturbedFlush
<1>5. A!Settled(w) = IF run.intent = "generated"
        THEN Succeeded(audio, run.out, run.ended)
        ELSE FailedRow(audio, run.ended)
  BY SameRowOperators DEF A!Settled
<1>6. /\ Succeeded(audio, run.out, run.ended).attempt = audio.attempt
      /\ Succeeded(audio, run.out, run.ended).status = "GENERATED"
      /\ FailedRow(audio, run.ended).attempt = audio.attempt
      /\ FailedRow(audio, run.ended).status = "FAILED"
  BY <1>1 DEF Succeeded, FailedRow, Rows
<1>7. run.intent = "generated" => run.out # NoOutput
  BY <1>2 DEF NarrationIsCanonical, RunIsCanonical, Ending
<1>8. CASE run.intent = "generated"
  BY <1>1, <1>2, <1>3, <1>4, <1>5, <1>6, <1>7, <1>8, EndedWellFormed
<1>9. CASE run.intent = "failed"
  <2>1. 1 \in Nat \ {NoOutput}
    BY DEF NoOutput
  <2>2. QED
    BY <1>1, <1>2, <1>3, <1>4, <1>5, <1>6, <1>9, <2>1, EndedWellFormed
<1>10. QED BY <1>2, <1>8, <1>9

(* Every step of an audio worker, but the write of a run that has lost its *)
(* attempt, keeps the ownership and the row loadable.                      *)
LEMMA NarrateOwns ==
    ASSUME PipelineTypes, PipelineTypes', NarrationIsCanonical,
           NarratorsOwn, WellFormed(audio),
           NEW w \in AudioWorkers, A!Narrate(w), ~overwritten'
    PROVE  NarratorsOwn' /\ WellFormed(audio')
<1>1. CASE A!ClaimAudio(w)
  BY <1>1, ClaimOwns
<1>2. CASE \/ A!ReuseArtifact(w) \/ A!Synthesize(w) \/ A!WriteArtifact(w)
           \/ A!RaiseInTry(w) \/ A!CheckOwner(w) \/ A!Settle(w)
           \/ A!ReadRecord(w)
  BY <1>2, RunsThatGoOn, GoingOnKeepsAttempt, GoingOnOwns
<1>3. CASE \/ A!ReadParents(w) \/ A!ClaimRefused(w) \/ A!Superseded(w)
           \/ A!SettleRaises(w) \/ A!FlushRaises(w) \/ A!Crash(w)
  <2>1. UNCHANGED audio
    BY <1>3 DEF A!ReadParents, A!ClaimRefused, A!Superseded, A!SettleRaises,
                A!FlushRaises, A!Crash
  <2>2. QED BY <1>3, <2>1, RunsThatHoldNothing, GoingOnOwns
<1>4. CASE A!FlushGenerated(w) \/ A!FlushFailed(w)
  <2>1. /\ WellFormed(audio') /\ audio'.attempt = audio.attempt
        /\ audio'.status # "GENERATING"
    BY <1>4, FlushEnds
  <2>2. /\ now' = now /\ now \in Nat /\ audio.attempt \in Nat
        /\ \A u \in AudioWorkers : u # w => narrator'[u] = narrator[u]
    BY OthersKeepRunning DEF PipelineTypes, TypeOK, Rows
  <2>3. ~Working(w)'
    BY <1>4, RunsThatHoldNothing DEF Working
  <2>4. ASSUME NEW u \in AudioWorkers, u # w PROVE NarratorOwns(u)'
    <3>1. ~A!Owner(u)'
      BY <2>1 DEF A!Owner
    <3>2. NarratorOwns(u) /\ audio.attempt <= audio'.attempt /\ now <= now'
      BY <2>1, <2>2 DEF NarratorsOwn
    <3>3. QED BY <2>2, <2>4, <3>1, <3>2, RunKeepsAttempt
  <2>5. NarratorOwns(w)'
    BY <2>3 DEF NarratorOwns
  <2>6. QED BY <2>1, <2>4, <2>5 DEF NarratorsOwn
<1>5. QED BY <1>1, <1>2, <1>3, <1>4 DEF A!Narrate

-----------------------------------------------------------------------------
(***************************************************************************)
(* The inductive invariant of the pipeline, in two parts.  What the video  *)
(* protocol needs, no audio worker can disturb, however late: a media row  *)
(* becomes READY only with a GENERATED video, and what the video is made   *)
(* from is the one artifact.  Until a late run has written, moreover, a    *)
(* video has a row only for a GENERATED narration, which nobody owns any   *)
(* more.                                                                   *)
(***************************************************************************)
Undisturbed ==
    /\ PipelineTypes
    /\ Inv
    /\ NarrationIsCanonical
    /\ VideoAfterSource

InOrder ==
    /\ NarratorsOwn
    /\ WellFormed(audio)
    /\ SourceAfterNarration
    /\ GeneratedIsReady

PipelineInv == Undisturbed /\ (InOrder \/ overwritten)

(* The initial states satisfy it. *)
LEMMA PipelineInitInv == PipelineInit => PipelineInv
<1> SUFFICES ASSUME PipelineInit PROVE PipelineInv
  OBVIOUS
<1>1. PipelineTypes /\ NarrationIsCanonical
  BY PipelineInitTypes, PipelineInitCanonical
<1>2. /\ media = M!PendingMedia /\ audio = PendingRow /\ video = PendingRow
      /\ source = NoOutput /\ jobs = {}
      /\ \A w \in VideoWorkers : renderer[w].pc = "idle"
      /\ \A w \in AudioWorkers : narrator[w].pc = "idle"
  BY SameTypes DEF PipelineInit, A!Init, VideoInit, Idle, A!Idle
<1>3. NarratorsOwn
  BY <1>2 DEF NarratorsOwn, NarratorOwns, Working
<1>4. RunsHoldTheirAttempts
  BY <1>2 DEF RunsHoldTheirAttempts, RunHoldsItsAttempt, Claiming
<1>5. M!MediaWellFormed(media) /\ media.status # "READY"
  BY <1>2 DEF M!MediaWellFormed, M!PendingMedia, M!Never
<1>6. WellFormed(video) /\ WellFormed(audio) /\ video.status = "PENDING"
  BY <1>2, PendingType DEF PendingRow
<1>7. Inv /\ GeneratedIsReady
  BY <1>1, <1>4, <1>5, <1>6
  DEF Inv, PipelineTypes, RowsStayLoadable, ReadyHasVideo, GeneratedIsReady
<1>8. VideoAfterSource /\ SourceAfterNarration
  BY <1>2, <1>6 DEF VideoAfterSource, SourceAfterNarration
<1>9. QED BY <1>1, <1>3, <1>6, <1>7, <1>8 DEF PipelineInv, Undisturbed, InOrder

(* An audio worker writes a media row that can be loaded, and never makes  *)
(* it READY.                                                               *)
LEMMA NarrateMedia ==
    ASSUME PipelineTypes, M!MediaWellFormed(media),
           NEW w \in AudioWorkers, A!Narrate(w)
    PROVE  /\ M!MediaWellFormed(media')
           /\ media' = media \/ media'.status # "READY"
<1>1. /\ media \in M!MediaRows /\ now \in Nat
      /\ narrator[w].parent \in M!MediaRows /\ narrator[w].ended \in Nat
  BY SameTypes DEF PipelineTypes, TypeOK, A!Runs
<1>2. CASE A!ClaimAudio(w)
  <2>1. media' \in {media, M!Started(narrator[w].parent, now)}
    BY <1>2, SameMediaOperators DEF A!ClaimAudio
  <2>2. QED BY <1>1, <2>1, StartedWellFormed
<1>3. CASE A!FlushFailed(w)
  <2>1. \/ media' = media
        \/ /\ media.status = "PROCESSING"
           /\ media.started <= narrator[w].ended
           /\ media' = M!MarkedFailed(media, narrator[w].ended)
    BY <1>3, SameMediaOperators DEF A!FlushFailed
  <2>2. M!MarkedFailed(media, narrator[w].ended).status # "READY"
    BY <1>1 DEF M!MarkedFailed, M!MediaRows
  <2>3. QED BY <1>1, <2>1, <2>2, EndedMediaWellFormed
<1>4. CASE ~A!ClaimAudio(w) /\ ~A!FlushFailed(w)
  <2>1. media' = media
    BY <1>4
    DEF A!Narrate, A!ReadParents, A!ClaimRefused, A!ReuseArtifact,
        A!Synthesize, A!WriteArtifact, A!RaiseInTry, A!CheckOwner,
        A!Superseded, A!Settle, A!SettleRaises, A!ReadRecord,
        A!FlushGenerated, A!FlushRaises, A!Crash
  <2>2. QED BY <2>1
<1>5. QED BY <1>2, <1>3, <1>4

(* Once there is an artifact no audio worker changes it. *)
LEMMA ArtifactStays ==
    ASSUME store # NoOutput, NEW w \in AudioWorkers, A!Narrate(w)
    PROVE  store' = store
<1>1. CASE A!WriteArtifact(w)
  BY <1>1, SameTypes DEF A!WriteArtifact
<1>2. CASE ~A!WriteArtifact(w)
  BY <1>2
  DEF A!Narrate, A!ReadParents, A!ClaimAudio, A!ClaimRefused,
      A!ReuseArtifact, A!Synthesize, A!RaiseInTry, A!CheckOwner,
      A!Superseded, A!Settle, A!SettleRaises, A!ReadRecord,
      A!FlushGenerated, A!FlushFailed, A!FlushRaises, A!Crash
<1>3. QED BY <1>1, <1>2

(* No audio worker touches the row of a GENERATED narration or, with it,   *)
(* the media row, but by the write of a run that has lost its attempt.     *)
LEMMA GeneratedNarrationStays ==
    ASSUME audio.status = "GENERATED",
           NEW w \in AudioWorkers, A!Narrate(w), ~overwritten'
    PROVE  UNCHANGED <<media, audio>>
<1>1. ~A!ClaimAudio(w)
  BY SameRowOperators DEF A!ClaimAudio, Claimable, IsStale
<1>2. ~A!FlushGenerated(w) /\ ~A!FlushFailed(w)
  BY NarrateHistory DEF A!Owner
<1>3. QED
  BY <1>1, <1>2
  DEF A!Narrate, A!ReadParents, A!ClaimRefused, A!ReuseArtifact,
      A!Synthesize, A!WriteArtifact, A!RaiseInTry, A!CheckOwner,
      A!Superseded, A!Settle, A!SettleRaises, A!ReadRecord, A!FlushRaises,
      A!Crash

(* A step of the audio stage keeps the invariant of the video protocol. *)
LEMMA AudioStageKeepsVideo ==
    ASSUME Undisturbed, PipelineTypes',
           NEW w \in AudioWorkers, A!Narrate(w), UNCHANGED vvars
    PROVE  Inv' /\ VideoAfterSource'
<1>1. UNCHANGED <<now, video, source, jobs, files, renderer>>
  BY OthersKeepRunning DEF Undisturbed, vvars
<1>2. RunsHoldTheirAttempts'
  BY <1>1 DEF Undisturbed, Inv, RunsHoldTheirAttempts, RunHoldsItsAttempt,
              Claiming, Current
<1>3. RowsStayLoadable'
  BY <1>1, NarrateMedia DEF Undisturbed, Inv, RowsStayLoadable
<1>4. ReadyHasVideo'
  BY <1>1, NarrateMedia DEF Undisturbed, Inv, RowsStayLoadable, ReadyHasVideo
<1>5. VideoAfterSource'
  BY <1>1, ArtifactStays DEF Undisturbed, VideoAfterSource
<1>6. QED BY <1>2, <1>3, <1>4, <1>5 DEF Inv, PipelineTypes

(* A step of the video stage keeps its source the artifact. *)
LEMMA VideoStageKeepsSource ==
    ASSUME Undisturbed, [Next]_vars, UNCHANGED <<audio, store>>
    PROVE  /\ VideoAfterSource'
           /\ SourceAfterNarration => SourceAfterNarration'
<1>1. CASE PrepareVideo
  <2>1. /\ audio.status = "GENERATED" /\ audio.output # NoOutput
    BY <1>1 DEF PrepareVideo, VideoCandidate, WellFormed
  <2>2. audio.output = store
    BY <2>1 DEF Undisturbed, NarrationIsCanonical
  <2>3. source' = audio.output
    BY <1>1 DEF PrepareVideo
  <2>4. QED BY <2>1, <2>2, <2>3 DEF VideoAfterSource, SourceAfterNarration
<1>2. CASE Tick \/ UNCHANGED vars
  BY <1>2 DEF Tick, vars, vvars, Undisturbed, VideoAfterSource,
              SourceAfterNarration
<1>3. ASSUME NEW w \in VideoWorkers, RunVideo(w)
      PROVE  /\ VideoAfterSource'
             /\ SourceAfterNarration => SourceAfterNarration'
  <2>1. source' = source /\ jobs' = jobs
    BY <1>3 DEF RunVideo, ReadParents, ClaimVideo, NotClaimed, Render,
                RenderRaises, CheckCurrent, Superseded, RecordGenerated,
                RecordRaises, RecordFailed, Crash
  <2>2. source # NoOutput
    <3>1. CASE jobs # {} \/ renderer[w].pc # "idle"
      BY <3>1 DEF Undisturbed, VideoAfterSource
    <3>2. CASE jobs = {} /\ renderer[w].pc = "idle"
      BY <1>3, <3>2
      DEF RunVideo, ReadParents, ClaimVideo, NotClaimed, Render,
          RenderRaises, CheckCurrent, Superseded, RecordGenerated,
          RecordRaises, RecordFailed, Crash, At
    <3>3. QED BY <3>1, <3>2
  <2>3. QED
    BY <2>1, <2>2 DEF Undisturbed, VideoAfterSource, SourceAfterNarration
<1>4. QED BY <1>1, <1>2, <1>3 DEF Next

(* Every step, the write of a late run included, leaves the first part. *)
LEMMA StepUndisturbed == Undisturbed /\ [PipelineNext]_pvars => Undisturbed'
<1> SUFFICES ASSUME Undisturbed, [PipelineNext]_pvars PROVE Undisturbed'
  OBVIOUS
<1>1. PipelineTypes' /\ NarrationIsCanonical'
  BY PipelineStepTypes, PipelineStepCanonical DEF Undisturbed
<1>2. CASE PipelineTick \/ VideoStage \/ UNCHANGED pvars
  <2>1. [Next]_vars /\ UNCHANGED <<audio, store>>
    BY <1>2, VideoStageIsVideoGeneration
  <2>2. Inv'
    BY <2>1, StepInv DEF Undisturbed
  <2>3. QED BY <1>1, <2>1, <2>2, VideoStageKeepsSource DEF Undisturbed
<1>3. ASSUME NEW w \in AudioWorkers, A!Narrate(w), UNCHANGED vvars
      PROVE  Undisturbed'
  BY <1>1, <1>3, AudioStageKeepsVideo DEF Undisturbed
<1>4. QED BY <1>2, <1>3 DEF PipelineNext, AudioStage

(* Every other step leaves the second part, too. *)
LEMMA StepInOrder ==
    ASSUME Undisturbed, InOrder, [PipelineNext]_pvars, ~overwritten'
    PROVE  InOrder'
<1>1. PipelineTypes /\ PipelineTypes' /\ NarrationIsCanonical /\ Inv
  BY PipelineStepTypes DEF Undisturbed
<1>2. CASE PipelineTick \/ VideoStage \/ UNCHANGED pvars
  <2>1. [Next]_vars /\ UNCHANGED <<audio, store, narrator>>
    BY <1>2, VideoStageIsVideoGeneration
  <2>2. now <= now'
    <3>1. now \in Nat
      BY <1>1 DEF PipelineTypes, TypeOK
    <3>2. now' \in {now, now + 1}
      BY <2>1 DEF Next, Tick, PrepareVideo, RunVideo, ReadParents,
                  ClaimVideo, NotClaimed, Render, RenderRaises, CheckCurrent,
                  Superseded, RecordGenerated, RecordRaises, RecordFailed,
                  Crash, vars
    <3>3. QED BY <3>1, <3>2
  <2>3. ASSUME NEW u \in AudioWorkers PROVE NarratorOwns(u)'
    <3>1. NarratorOwns(u) /\ audio.attempt <= audio'.attempt
      BY <1>1, <2>1 DEF InOrder, NarratorsOwn, PipelineTypes, TypeOK, Rows
    <3>2. QED BY <1>1, <2>1, <2>2, <3>1, RunKeepsAttempt
  <2>4. NarratorsOwn' /\ WellFormed(audio)'
    BY <2>1, <2>3 DEF InOrder, NarratorsOwn, WellFormed
  <2>5. SourceAfterNarration'
    BY <2>1, VideoStageKeepsSource DEF InOrder
  <2>6. GeneratedIsReady'
    BY <1>1, <2>1, GeneratedStep DEF InOrder
  <2>7. QED BY <2>4, <2>5, <2>6 DEF InOrder
<1>3. ASSUME NEW w \in AudioWorkers, A!Narrate(w), UNCHANGED vvars
      PROVE  InOrder'
  <2>1. NarratorsOwn' /\ WellFormed(audio')
    BY <1>1, <1>3, NarrateOwns DEF InOrder
  <2>2. UNCHANGED <<video, source>>
    BY <1>3 DEF vvars
  <2>3. CASE source # NoOutput
    <3>1. UNCHANGED <<media, audio>>
      BY <1>3, <2>3, GeneratedNarrationStays DEF InOrder, SourceAfterNarration
    <3>2. QED
      BY <2>1, <2>2, <3>1
      DEF InOrder, SourceAfterNarration, GeneratedIsReady, WellFormed
  <2>4. CASE source = NoOutput
    <3>1. video.status # "GENERATED"
      BY <2>4 DEF Undisturbed, VideoAfterSource
    <3>2. SourceAfterNarration' /\ GeneratedIsReady'
      BY <2>2, <2>4, <3>1 DEF SourceAfterNarration, GeneratedIsReady
    <3>3. QED BY <2>1, <3>2 DEF InOrder, WellFormed
  <2>5. QED BY <2>3, <2>4
<1>4. QED BY <1>2, <1>3 DEF PipelineNext, AudioStage

(* What a late run has written stays written. *)
LEMMA HistoryStays == overwritten /\ [PipelineNext]_pvars => overwritten'
<1> SUFFICES ASSUME overwritten, [PipelineNext]_pvars PROVE overwritten'
  OBVIOUS
<1>1. CASE PipelineTick \/ VideoStage \/ UNCHANGED pvars
  BY <1>1, VideoStageIsVideoGeneration
<1>2. CASE AudioStage
  BY <1>2, NarrateHistory DEF AudioStage
<1>3. QED BY <1>1, <1>2 DEF PipelineNext

(* Every step keeps the invariant. *)
LEMMA PipelineStepInv == PipelineInv /\ [PipelineNext]_pvars => PipelineInv'
BY StepUndisturbed, StepInOrder, HistoryStays DEF PipelineInv

(* Narration and video of one production, any number of workers of both    *)
(* kinds, runs as late as they like: the invariant of the pipeline holds.  *)
THEOREM PipelineInvariance == PipelineSpec => []PipelineInv
BY PipelineInitInv, PipelineStepInv, PTL DEF PipelineSpec

(* A READY production has its artifact and its video whatever late runs    *)
(* do, and its narration until one of them has written after it had lost   *)
(* its attempt: mark_ready of the video worker ends the whole pipeline.    *)
THEOREM ReadyComplete == PipelineSpec => []ReadyIsComplete
<1>1. PipelineInv => ReadyIsComplete
  <2> SUFFICES ASSUME PipelineInv, media.status = "READY"
               PROVE  ReadyIsComplete
    BY DEF ReadyIsComplete
  <2>1. /\ video.status = "GENERATED" /\ video.output = video.attempt
        /\ video.output \in files
    BY DEF PipelineInv, Undisturbed, Inv, ReadyHasVideo
  <2>2. source # NoOutput /\ source = store
    BY <2>1 DEF PipelineInv, Undisturbed, VideoAfterSource
  <2>3. ASSUME ~overwritten
        PROVE  audio.status = "GENERATED" /\ audio.output = source
    <3>1. audio.status = "GENERATED" /\ WellFormed(audio)
      BY <2>2, <2>3 DEF PipelineInv, InOrder, SourceAfterNarration
    <3>2. audio.output # NoOutput
      BY <3>1 DEF WellFormed
    <3>3. QED
      BY <2>2, <3>1, <3>2 DEF PipelineInv, Undisturbed, NarrationIsCanonical
  <2>4. QED BY <2>1, <2>2, <2>3 DEF ReadyIsComplete
<1>2. QED BY <1>1, PipelineInvariance, PTL

(* The hash that a video row names stays the hash of the file and of every *)
(* narration attempt that has one, however late runs are.                  *)
THEOREM CanonicalSource == PipelineSpec => []VideoNamesCanonicalAudio
<1>1. PipelineInv => VideoNamesCanonicalAudio
  BY DEF PipelineInv, Undisturbed, VideoAfterSource, NarrationIsCanonical,
         VideoNamesCanonicalAudio
<1>2. QED BY <1>1, PipelineInvariance, PTL

(* No interleaving of audio workers, video workers, crashes and timeouts   *)
(* leaves a media or video row that to_domain rejects; an audio row it     *)
(* rejects is the work of a run that had lost its attempt.                 *)
THEOREM ProductionLoadable == PipelineSpec => []ProductionStaysLoadable
<1>1. PipelineInv => ProductionStaysLoadable
  BY DEF PipelineInv, Undisturbed, InOrder, Inv, ProductionStaysLoadable
<1>2. QED BY <1>1, PipelineInvariance, PTL

(* No step changes the video of a READY production again, and none its     *)
(* media row or its narration but the write of a run that had lost its     *)
(* attempt, or what comes after it.                                        *)
THEOREM PipelineReadyStays == PipelineSpec => ProductionIsFinal
<1>1. PipelineInv /\ [PipelineNext]_pvars =>
        [media.status = "READY" =>
            UNCHANGED video
              /\ (UNCHANGED <<media, audio>> \/ overwritten')]_pvars
  <2> SUFFICES ASSUME PipelineInv, PipelineNext, media.status = "READY"
               PROVE  UNCHANGED video
                        /\ (UNCHANGED <<media, audio>> \/ overwritten')
    OBVIOUS
  <2>1. CASE PipelineTick \/ VideoStage
    <3>1. [Next]_vars /\ UNCHANGED audio
      BY <2>1, VideoStageIsVideoGeneration
    <3>2. UNCHANGED <<media, video>>
      BY <3>1, ReadyStep DEF PipelineInv, Undisturbed, vars, vvars
    <3>3. QED BY <3>1, <3>2
  <2>2. ASSUME NEW w \in AudioWorkers, A!Narrate(w), UNCHANGED vvars
        PROVE  UNCHANGED video
                 /\ (UNCHANGED <<media, audio>> \/ overwritten')
    <3>1. UNCHANGED video
      BY <2>2 DEF vvars
    <3>2. ASSUME ~overwritten' PROVE UNCHANGED <<media, audio>>
      <4>1. ~overwritten
        BY <2>2, <3>2, NarrateHistory
      <4>2. source # NoOutput
        BY DEF PipelineInv, Undisturbed, Inv, ReadyHasVideo, VideoAfterSource
      <4>3. audio.status = "GENERATED"
        BY <4>1, <4>2 DEF PipelineInv, InOrder, SourceAfterNarration
      <4>4. QED BY <2>2, <3>2, <4>3, GeneratedNarrationStays
    <3>3. QED BY <3>1, <3>2
  <2>3. QED BY <2>1, <2>2 DEF PipelineNext, AudioStage
<1>2. QED BY <1>1, PipelineInvariance, PTL DEF PipelineSpec, ProductionIsFinal

(* With the audio stage in front of it, its late runs included, the video  *)
(* protocol still implements the ledger of attempts.                       *)
THEOREM PipelineRefinement == PipelineSpec => ImplementsLedger
<1>1. PipelineInit => Ledger!LedgerInit
  BY LedgerInitially DEF PipelineInit
<1>2. PipelineInv /\ [PipelineNext]_pvars
        => [Ledger!LedgerNext]_(Ledger!lvars)
  <2> SUFFICES ASSUME PipelineInv, [PipelineNext]_pvars
               PROVE  [Ledger!LedgerNext]_(Ledger!lvars)
    OBVIOUS
  <2>1. CASE PipelineTick \/ VideoStage \/ UNCHANGED pvars
    BY <2>1, VideoStageIsVideoGeneration, LedgerStep
    DEF PipelineInv, Undisturbed
  <2>2. CASE AudioStage
    BY <2>2, StutterStep DEF AudioStage, vvars, Claiming
  <2>3. QED BY <2>1, <2>2 DEF PipelineNext
<1>3. QED
  BY <1>1, <1>2, PipelineInvariance, PTL
  DEF PipelineSpec, ImplementsLedger, Ledger!LedgerSpec

-----------------------------------------------------------------------------
(***************************************************************************)
(* The narration keeps the ledger, too, up to the write of a run that has  *)
(* lost its attempt.                                                       *)
(***************************************************************************)
AudioVars == <<AudioPhase, audio.attempt, AudioLeases>>

(* The phase of a row by its status. *)
LEMMA AudioPhaseOfStatus ==
    ASSUME audio \in Rows
    PROVE  /\ AudioPhase = "open" <=> audio.status = "GENERATING"
           /\ AudioPhase = "done" <=> audio.status = "GENERATED"
           /\ AudioPhase = "waiting" <=> audio.status \in {"PENDING", "FAILED"}
BY DEF AudioPhase, Rows, Statuses

(* A claim opens the next attempt. *)
LEMMA NarrationOpens ==
    ASSUME PipelineTypes, PipelineTypes',
           NEW w \in AudioWorkers, A!ClaimAudio(w)
    PROVE  AudioLedger!Open(w)
<1>1. audio \in Rows /\ audio' \in Rows /\ audio.attempt \in Nat
  BY DEF PipelineTypes, TypeOK, Rows
<1>2. /\ Claimable(audio, now, StaleAfter) /\ audio' = Claimed(audio, now)
      /\ ~Working(w)
  BY SameRowOperators DEF A!ClaimAudio, Working
<1>3. /\ audio'.status = "GENERATING" /\ audio'.attempt = audio.attempt + 1
  BY <1>1, <1>2 DEF Claimed, Rows
<1>4. audio.status # "GENERATED"
  BY <1>2 DEF Claimable, IsStale
<1>5. /\ Working(w)' /\ narrator'[w].mine = audio.attempt + 1
      /\ \A u \in AudioWorkers : u # w => narrator'[u] = narrator[u]
  BY ClaimRecords, OthersKeepRunning DEF A!Narrate, Working
<1>6. AudioLeases' = [AudioLeases EXCEPT ![w] = audio.attempt + 1]
  <2>1. \A u \in AudioWorkers : u # w => (Working(u)' <=> Working(u))
    BY <1>5 DEF Working
  <2>2. QED BY <1>5, <2>1 DEF AudioLeases
<1>7. AudioLeases[w] = 0
  BY <1>2 DEF AudioLeases
<1>8. AudioPhase # "done"
  BY <1>1, <1>4, AudioPhaseOfStatus
<1>9. AudioPhase' = "open"
  BY <1>3 DEF AudioPhase
<1>10. QED BY <1>3, <1>4, <1>6, <1>7, <1>8, <1>9 DEF AudioLedger!Open

(* A run that ends gives its number back. *)
LEMMA NarratorReturns ==
    ASSUME PipelineTypes, NEW w \in AudioWorkers, A!Narrate(w), ~Working(w)'
    PROVE  /\ AudioLedger!GiveBack(w)
           /\ ~Working(w) => AudioLeases' = AudioLeases
<1>1. \A u \in AudioWorkers : u # w => narrator'[u] = narrator[u]
  BY OthersKeepRunning
<1>2. \A u \in AudioWorkers : u # w => (Working(u)' <=> Working(u))
  BY <1>1 DEF Working
<1>3. AudioLeases' = [AudioLeases EXCEPT ![w] = 0]
  BY <1>1, <1>2 DEF AudioLeases
<1>4. ~Working(w) => AudioLeases' = AudioLeases
  BY <1>1, <1>2 DEF AudioLeases
<1>5. QED BY <1>3, <1>4 DEF AudioLedger!GiveBack

(* The flush of the owner ends its attempt. *)
LEMMA NarrationEnds ==
    ASSUME Undisturbed, InOrder, NEW w \in AudioWorkers,
           A!FlushGenerated(w) \/ A!FlushFailed(w), ~overwritten'
    PROVE  AudioLedger!Succeed(w) \/ AudioLedger!Fail(w)
<1>1. /\ A!Owner(w) /\ Working(w) /\ audio'.attempt = audio.attempt
      /\ audio'.status \in {"GENERATED", "FAILED"}
  BY FlushEnds DEF Undisturbed, InOrder
<1>2. audio.status = "GENERATING" /\ audio.attempt = narrator[w].mine
  BY <1>1 DEF A!Owner
<1>3. ~Working(w)'
  BY RunsThatHoldNothing DEF Undisturbed, Working
<1>4. AudioLedger!GiveBack(w)
  BY <1>3, NarratorReturns DEF A!Narrate, Undisturbed
<1>5. AudioLedger!Latest(w)
  BY <1>1, <1>2 DEF AudioLedger!Latest, AudioPhase, AudioLeases
<1>6. CASE audio'.status = "GENERATED"
  BY <1>1, <1>4, <1>5, <1>6 DEF AudioLedger!Succeed, AudioPhase
<1>7. CASE audio'.status = "FAILED"
  BY <1>1, <1>2, <1>4, <1>5, <1>7 DEF AudioLedger!Fail, AudioPhase
<1>8. QED BY <1>1, <1>6, <1>7

(* A step that changes neither the row nor a claim is a stutter. *)
LEMMA NarrationStutters ==
    ASSUME UNCHANGED audio,
           \A u \in AudioWorkers :
              /\ Working(u)' <=> Working(u)
              /\ Working(u) => narrator'[u].mine = narrator[u].mine
    PROVE  UNCHANGED AudioVars
<1>1. AudioPhase' = AudioPhase /\ AudioLeases' = AudioLeases
  BY DEF AudioPhase, AudioLeases
<1>2. QED BY <1>1 DEF AudioVars

(* Every step of a narrator is a step of the ledger or a stutter, unless a *)
(* run has written that had lost its attempt.                              *)
LEMMA NarratorStep ==
    ASSUME Undisturbed, InOrder, PipelineTypes',
           NEW w \in AudioWorkers, A!Narrate(w), ~overwritten'
    PROVE  [AudioLedger!LedgerNext]_AudioVars
<1>0. PipelineTypes
  BY DEF Undisturbed
<1>1. CASE A!ClaimAudio(w)
  BY <1>0, <1>1, NarrationOpens DEF AudioLedger!LedgerNext
<1>2. CASE \/ A!ReuseArtifact(w) \/ A!Synthesize(w) \/ A!WriteArtifact(w)
           \/ A!RaiseInTry(w) \/ A!CheckOwner(w) \/ A!Settle(w)
           \/ A!ReadRecord(w)
  <2>1. /\ Working(w) /\ UNCHANGED audio
        /\ narrator'[w].mine = narrator[w].mine
    BY <1>0, <1>2, RunsThatGoOn
  <2>2. Working(w)'
    <3>1. narrator[w] \in A!Runs /\ narrator \in [AudioWorkers -> A!Runs]
      BY <1>0 DEF PipelineTypes
    <3>2. QED
      BY <1>2, <3>1
      DEF Working, A!Runs, A!ReuseArtifact, A!Synthesize, A!WriteArtifact,
          A!RaiseInTry, A!CheckOwner, A!Settle, A!ReadRecord
  <2>3. \A u \in AudioWorkers : u # w => narrator'[u] = narrator[u]
    BY <1>0, OthersKeepRunning
  <2>4. \A u \in AudioWorkers :
           /\ Working(u)' <=> Working(u)
           /\ Working(u) => narrator'[u].mine = narrator[u].mine
    BY <2>1, <2>2, <2>3 DEF Working
  <2>5. QED BY <2>1, <2>4, NarrationStutters
<1>3. CASE \/ A!ReadParents(w) \/ A!ClaimRefused(w) \/ A!Superseded(w)
           \/ A!SettleRaises(w) \/ A!FlushRaises(w) \/ A!Crash(w)
  <2>1. UNCHANGED audio
    BY <1>3 DEF A!ReadParents, A!ClaimRefused, A!Superseded, A!SettleRaises,
                A!FlushRaises, A!Crash
  <2>2. ~Working(w)'
    BY <1>0, <1>3, RunsThatHoldNothing DEF Working
  <2>3. AudioPhase' = AudioPhase
    BY <2>1 DEF AudioPhase
  <2>4. CASE Working(w)
    <3>1. AudioLeases[w] # 0
      BY <2>4 DEF AudioLeases, InOrder, NarratorsOwn, NarratorOwns
    <3>2. AudioLedger!Release(w)
      BY <1>0, <2>1, <2>2, <2>3, <3>1, NarratorReturns
      DEF AudioLedger!Release
    <3>3. QED BY <3>2 DEF AudioLedger!LedgerNext
  <2>5. CASE ~Working(w)
    BY <1>0, <2>1, <2>2, <2>3, <2>5, NarratorReturns DEF AudioVars
  <2>6. QED BY <2>4, <2>5
<1>4. CASE A!FlushGenerated(w) \/ A!FlushFailed(w)
  BY <1>4, NarrationEnds DEF AudioLedger!LedgerNext
<1>5. QED BY <1>1, <1>2, <1>3, <1>4 DEF A!Narrate

(* process_news_narration_audio takes no step that the ledger of attempts  *)
(* does not, but one: since its UPDATE does not repeat the ownership       *)
(* check, a run may end another's attempt.                                 *)
THEOREM NarrationRefinement == PipelineSpec => NarrationKeepsLedger
<1>1. PipelineInit => AudioLedger!LedgerInit
  <2> SUFFICES ASSUME PipelineInit PROVE AudioLedger!LedgerInit
    OBVIOUS
  <2>1. audio.status = "PENDING" /\ audio.attempt = 0
    BY SameTypes DEF PipelineInit, A!Init, PendingRow
  <2>2. \A w \in AudioWorkers : ~Working(w)
    BY DEF PipelineInit, A!Init, A!Idle, Working
  <2>3. AudioPhase = "waiting"
    BY <2>1 DEF AudioPhase
  <2>4. QED BY <2>1, <2>2, <2>3 DEF AudioLedger!LedgerInit, AudioLeases
<1>2. PipelineInv /\ [PipelineNext]_pvars
        => [AudioLedger!LedgerNext \/ overwritten']_AudioVars
  <2> SUFFICES ASSUME PipelineInv, [PipelineNext]_pvars, ~overwritten'
               PROVE  [AudioLedger!LedgerNext]_AudioVars
    OBVIOUS
  <2>1. Undisturbed /\ InOrder /\ PipelineTypes'
    BY HistoryStays, PipelineStepTypes DEF PipelineInv, Undisturbed
  <2>2. CASE PipelineTick \/ VideoStage \/ UNCHANGED pvars
    BY <2>2, VideoStageIsVideoGeneration, NarrationStutters DEF Working
  <2>3. CASE AudioStage
    BY <2>1, <2>3, NarratorStep DEF AudioStage
  <2>4. QED BY <2>2, <2>3 DEF PipelineNext
<1>3. QED
  BY <1>1, <1>2, PipelineInvariance, PTL
  DEF PipelineSpec, NarrationKeepsLedger, AudioVars

=============================================================================
