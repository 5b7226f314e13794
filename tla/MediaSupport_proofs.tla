------------------------ MODULE MediaSupport_proofs ------------------------
(***************************************************************************)
(* Proofs about what the runs of media production rely on: the store that  *)
(* keeps their artifacts (ArtifactStore, for any number of processes,      *)
(* contents and failures of the host), and the queue that starts the       *)
(* narration runs (NarrationQueue, for any productions, limits, retries    *)
(* and failures).                                                          *)
(***************************************************************************)
EXTENDS ArtifactStore, NarrationQueue, TLAPS

(* A file has been synced before it was linked and lies in its directory,  *)
(* a call that has linked has its own content under the key, what was      *)
(* returned by a creator is there with its directory entry, and without a  *)
(* failure of the host everything that was returned is there.              *)
Stored ==
    /\ file # Absent => file \in Contents /\ bytesSynced
    /\ dirSynced => directory
    /\ \A p \in Processes :
          /\ call[p].pc # "idle" => call[p].data \in Contents /\ directory
          /\ call[p].pc = "linked" => file = call[p].data
    /\ created # {} => created = {file} /\ directory /\ linkSynced
    /\ crashes = 0 => \A c \in reported : c = file

IInv == TypeOK /\ Stored

(* One case per action, the types first. *)
LEMMA Inductive == IInv /\ [Next]_vars => IInv'
<1> SUFFICES ASSUME IInv, [Next]_vars PROVE IInv'
  OBVIOUS
<1> USE StoreAssumption DEF IInv, TypeOK, Calls, Steps, Disk, Goto, Finish, Idle
<1>1. ASSUME NEW p \in Processes, NEW c \in Contents, MakeDirectory(p, c)
      PROVE  IInv'
  <2>1. TypeOK'
    BY <1>1 DEF MakeDirectory
  <2>2. Stored'
    BY <1>1 DEF MakeDirectory, Stored
  <2> QED BY <2>1, <2>2
<1>2. ASSUME NEW p \in Processes, NEW c \in Contents, Get(p, c)
      PROVE  IInv'
  BY <1>2 DEF Get, Stored
<1>3. ASSUME NEW p \in Processes,
             OpenTemporary(p) \/ WriteTemporary(p) \/ FsyncTemporary(p)
      PROVE  IInv'
  <2>1. TypeOK'
    BY <1>3 DEF OpenTemporary, WriteTemporary, FsyncTemporary
  <2>2. Stored'
    BY <1>3 DEF OpenTemporary, WriteTemporary, FsyncTemporary, Stored
  <2> QED BY <2>1, <2>2
<1>4. ASSUME NEW p \in Processes, Link(p) PROVE IInv'
  <2>1. call[p].data \in Contents /\ call[p].data # Absent
    BY <1>4 DEF Link, Stored
  <2>2. TypeOK'
    BY <1>4, <2>1 DEF Link
  <2>3. created = {} /\ (crashes = 0 => reported = {})
    BY <1>4 DEF Link, Stored
  <2>4. \A q \in Processes : q # p => call[q].pc # "linked"
    BY <1>4 DEF Link, Stored
  <2>5. Stored'
    BY <1>4, <2>1, <2>3, <2>4 DEF Link, Stored
  <2> QED BY <2>2, <2>5
<1>5. ASSUME NEW p \in Processes, LinkExists(p) PROVE IInv'
  <2>1. TypeOK'
    BY <1>5 DEF LinkExists
  <2>2. Stored'
    BY <1>5 DEF LinkExists, Stored
  <2> QED BY <2>1, <2>2
<1>6. ASSUME NEW p \in Processes, CompareExisting(p) PROVE IInv'
  <2>1. call[p].data \in Contents
    BY <1>6 DEF CompareExisting, Stored
  <2>2. TypeOK'
    BY <1>6, <2>1 DEF CompareExisting
  <2>3. Stored'
    BY <1>6 DEF CompareExisting, Stored
  <2> QED BY <2>2, <2>3
<1>7. ASSUME NEW p \in Processes, FsyncDirectory(p) PROVE IInv'
  <2>1. file = call[p].data /\ file \in Contents
    BY <1>7 DEF FsyncDirectory, Stored
  <2>2. TypeOK'
    BY <1>7, <2>1 DEF FsyncDirectory
  <2>3. Stored'
    BY <1>7, <2>1 DEF FsyncDirectory, Stored
  <2> QED BY <2>2, <2>3
<1>8. ASSUME NEW p \in Processes, Crash(p) PROVE IInv'
  <2>1. TypeOK'
    BY <1>8 DEF Crash
  <2>2. Stored'
    BY <1>8 DEF Crash, Stored
  <2> QED BY <2>1, <2>2
<1>9. ASSUME HostCrash PROVE IInv'
  <2>1. /\ file' \in {file, Absent}
        /\ linkSynced /\ directory' => file' = file
    BY <1>9 DEF HostCrash, Survivors, Stored
  <2>2. \A p \in Processes : call'[p] = Idle
    BY <1>9 DEF HostCrash
  <2>3. crashes' \in 1..MaxHostCrashes
    BY <1>9 DEF HostCrash
  <2>4. TypeOK'
    BY <1>9, <2>1, <2>3 DEF HostCrash
  <2>5. Stored'
    <3>1. file' # Absent => file' \in Contents /\ bytesSynced'
      BY <1>9, <2>1 DEF HostCrash, Stored
    <3>2. created' # {} => created' = {file'} /\ directory' /\ linkSynced'
      BY <1>9, <2>1 DEF HostCrash, Stored
    <3>3. dirSynced' => directory'
      BY <1>9 DEF HostCrash
    <3> QED BY <2>2, <2>3, <3>1, <3>2, <3>3 DEF Stored
  <2> QED BY <2>4, <2>5
<1>10. CASE UNCHANGED vars
  BY <1>10 DEF vars, Stored
<1> QED
  BY <1>1, <1>2, <1>3, <1>4, <1>5, <1>6, <1>7, <1>8, <1>9, <1>10 DEF Next

LEMMA Invariance == Spec => []IInv
<1>1. Init => IInv
  <2> SUFFICES ASSUME Init PROVE IInv
    OBVIOUS
  <2>1. crashes \in 0..MaxHostCrashes
    BY StoreAssumption DEF Init
  <2>2. TypeOK
    BY <2>1 DEF Init, TypeOK, Calls, Steps, Idle
  <2>3. Stored
    BY DEF Init, Stored, Idle
  <2> QED BY <2>2, <2>3 DEF IInv
<1> QED
  BY <1>1, Inductive, PTL DEF Spec

(* LocalFileAudioStorage.write and LocalFileVideoStorage.write: what is    *)
(* under the key is whole, whatever fails between two system calls.        *)
THEOREM Whole == Spec => []NeverPartial
<1>1. IInv => NeverPartial
  BY StoreAssumption DEF IInv, Stored, NeverPartial
<1> QED
  BY <1>1, Invariance, PTL

(* What the write that created the artifact has returned stays under the   *)
(* key as long as its directory is there, failures of the host included:   *)
(* the sync of the file and of the directory hold what is in the           *)
(* directory, and only the unsynced entry of the directory itself, which   *)
(* write made with mkdir, can take an artifact away.                       *)
THEOREM Durable == Spec => []CreatedIsDurable
<1>1. IInv => CreatedIsDurable
  BY DEF IInv, Stored, CreatedIsDurable
<1> QED
  BY <1>1, Invariance, PTL

(* Without a failure of the host all calls that return an artifact return  *)
(* the same one, for any number of racing callers.                         *)
THEOREM Agreement == Spec => []ReportsAgree
<1>1. IInv => ReportsAgree
  BY DEF IInv, Stored, ReportsAgree
<1> QED
  BY <1>1, Invariance, PTL

-----------------------------------------------------------------------------
(***************************************************************************)
(* The narration queue.  A production is narrated while a run speaks, and  *)
(* from then on if it succeeds; an attempt beyond that costs a failure, so *)
(* attempts stay within the jobs' numbers.                                 *)
(***************************************************************************)
Speaking(p) == \E j \in Jobs : Production(j) = p /\ run[j] = "speech"

Narrated(p) == audio[p].status = "GENERATED" \/ Speaking(p)

AttemptsCost ==
    \A p \in Productions :
        /\ audio[p].attempt <= failures + 1
        /\ ~ Narrated(p) => audio[p].attempt <= failures

NoBatchAhead ==
    \A j \in todo : j[2] <= audio[Production(j)].attempt + 1

RunsAreStarted ==
    \A j \in Jobs : run[j] # "none" => hash[j] = "started"

QInv ==
    /\ QueueTypeOK
    /\ RunsAreStarted
    /\ OneNarrator
    /\ AttemptsCost
    /\ NoBatchAhead
    /\ NoJobAhead

LEMMA JobParts ==
    ASSUME NEW j \in Jobs
    PROVE  Production(j) \in Productions /\ j[2] \in 1..(MaxFailures + 1)
BY DEF Jobs, Production

(* What may be claimed, or has no row, is being narrated by nobody. *)
LEMMA FreeIsSilent ==
    ASSUME QInv, NEW p \in Productions, NeedsNarration(p)
    PROVE  ~ Narrated(p) /\ audio[p].attempt + 1 \in 1..(MaxFailures + 1)
<1>1. ~ Narrated(p)
  BY DEF QInv, OneNarrator, NeedsNarration, Claimable, Narrated, Speaking
<1>2. /\ audio[p].attempt <= failures
      /\ audio[p].attempt \in 0..(MaxFailures + 1)
      /\ failures \in 0..MaxFailures /\ MaxFailures \in Nat
  BY <1>1, NarrationAssumption DEF QInv, AttemptsCost, QueueTypeOK, AudioRows
<1>3. QED BY <1>1, <1>2

(* A step that starts no speech, ends none and leaves the rows alone. *)
LEMMA RowsKept ==
    ASSUME QInv, QueueTypeOK', audio' = audio, failures <= failures',
           \A j \in Jobs : run'[j] = "speech" <=> run[j] = "speech",
           NoBatchAhead', NoJobAhead', RunsAreStarted'
    PROVE  QInv'
<1>1. OneNarrator'
  BY JobParts DEF QInv, OneNarrator
<1>2. AttemptsCost'
  <2>1. \A p \in Productions :
           /\ audio[p].attempt \in Int /\ failures \in Int /\ failures' \in Int
    BY DEF QInv, QueueTypeOK, AudioRows
  <2>2. QED
    BY <2>1 DEF QInv, AttemptsCost, Narrated, Speaking
<1>3. QED BY <1>1, <1>2 DEF QInv

(* A step that ends speeches, each by an end of its row or with a failure. *)
LEMMA SpeechEnds ==
    ASSUME QInv, QueueTypeOK', NEW j \in Jobs, run[j] # "none",
           \A i \in Jobs \ {j} : run'[i] = run[i], run'[j] = "none",
           \A p \in Productions : audio'[p].attempt = audio[p].attempt,
           \A p \in Productions \ {Production(j)} : audio'[p] = audio[p],
           audio' = audio \/ run[j] = "speech",
           \/ failures' = failures + 1
           \/ failures' = failures /\ run[j] # "speech"
           \/ failures' = failures /\ audio'[Production(j)].status = "GENERATED",
           todo' = todo,
           \A i \in Jobs : hash'[i] # "absent" => hash[i] # "absent",
           RunsAreStarted'
    PROVE  QInv'
<1> DEFINE p == Production(j)
<1>1. p \in Productions
  BY JobParts
<1>2. \A i \in Jobs \ {j} :
         run'[i] = "speech" =>
            /\ run[i] = "speech" /\ Production(i) \in Productions
            /\ (run[j] = "speech" => Production(i) # p)
  BY JobParts DEF QInv, OneNarrator
<1>3. OneNarrator'
  BY <1>2 DEF QInv, OneNarrator
<1>4. AttemptsCost'
  <2>1. \A q \in Productions : /\ audio[q].attempt \in Int /\ failures \in Int
    BY DEF QInv, QueueTypeOK, AudioRows
  <2>2. ASSUME NEW q \in Productions, ~ Narrated(q)', failures' = failures
        PROVE  ~ Narrated(q)
    <3>1. CASE run[j] # "speech"
      <4>1. audio' = audio /\ \A i \in Jobs : run[i] = "speech" => run'[i] = "speech"
        BY <3>1
      <4>2. QED BY <2>2, <4>1 DEF Narrated, Speaking
    <3>2. CASE run[j] = "speech"
      <4>1. failures' # failures + 1
        BY <2>1, <2>2
      <4>2. q # p
        BY <2>2, <3>2, <4>1 DEF Narrated
      <4>3. audio'[q] = audio[q]
        BY <4>2
      <4>4. \A i \in Jobs : Production(i) = q => run'[i] = run[i]
        BY <4>2
      <4>5. QED BY <2>2, <4>3, <4>4 DEF Narrated, Speaking
    <3>3. QED BY <3>1, <3>2
  <2>3. QED BY <2>1, <2>2 DEF QInv, AttemptsCost
<1>5. NoBatchAhead' /\ NoJobAhead'
  BY JobParts DEF QInv, QueueTypeOK, NoBatchAhead, NoJobAhead
<1>6. QED BY <1>3, <1>4, <1>5 DEF QInv

(* What RQ does after a run; it moves no other job. *)
LEMMA RunEnds ==
    ASSUME QInv, NEW j \in Jobs, run[j] # "none", Requeued(j) \/ Finished(j)
    PROVE  /\ run' = [run EXCEPT ![j] = "none"]
           /\ run' \in [Jobs -> {"none", "claim", "speech"}]
           /\ hash' \in [Jobs -> {"absent", "queued", "started", "finished", "failed"}]
           /\ retries' \in [Jobs -> 0..MaxRetries]
           /\ \A i \in Jobs : hash'[i] # "absent" => hash[i] # "absent"
           /\ RunsAreStarted'
<1>1. hash[j] = "started"
  BY DEF QInv, RunsAreStarted
<1>2. QED
  BY <1>1, NarrationAssumption
  DEF Requeued, Finished, QInv, QueueTypeOK, RunsAreStarted

(* The claim of an attempt: its number is the next, and the production was *)
(* narrated by nobody.                                                     *)
LEMMA ClaimKeeps ==
    ASSUME QInv, NEW j \in Jobs, Claim(j)
    PROVE  QInv'
<1> DEFINE p == Production(j)
           new == [status |-> "GENERATING", attempt |-> audio[p].attempt + 1,
                   stale |-> FALSE]
<1>1. p \in Productions
  BY JobParts
<1>2. /\ audio' = [audio EXCEPT ![p] = new] /\ run' = [run EXCEPT ![j] = "speech"]
      /\ run[j] = "claim" /\ NeedsNarration(p)
      /\ UNCHANGED <<script, media, hash, retries, todo, failures>>
  BY DEF Claim, NeedsNarration
<1>3. /\ ~ Narrated(p) /\ audio[p].attempt + 1 \in 1..(MaxFailures + 1)
  BY <1>1, <1>2, FreeIsSilent
<1>4. new \in AudioRows
  BY <1>3, NarrationAssumption DEF AudioRows
<1>5. /\ audio'[p] = new /\ \A q \in Productions \ {p} : audio'[q] = audio[q]
      /\ run'[j] = "speech" /\ \A i \in Jobs \ {j} : run'[i] = run[i]
  BY <1>1, <1>2 DEF QInv, QueueTypeOK
<1>6. new.status = "GENERATING" /\ ~ new.stale /\ new.attempt = audio[p].attempt + 1
  OBVIOUS
<1> HIDE DEF new
<1>7. QueueTypeOK'
  BY <1>1, <1>2, <1>4 DEF QInv, QueueTypeOK
<1>8. OneNarrator'
  <2>1. \A i \in Jobs : run[i] = "speech" => Production(i) # p
    BY <1>3 DEF Narrated, Speaking
  <2>2. QED BY <1>5, <1>6, <2>1, JobParts DEF QInv, OneNarrator
<1>9. AttemptsCost'
  <2>1. Speaking(p)'
    BY <1>5 DEF Speaking
  <2>2. audio[p].attempt + 1 <= failures + 1
    BY <1>1, <1>3 DEF QInv, AttemptsCost, QueueTypeOK, AudioRows
  <2>3. ASSUME NEW q \in Productions, q # p, Narrated(q) PROVE Narrated(q)'
    BY <1>5, <2>3 DEF Narrated, Speaking
  <2>4. QED BY <1>2, <1>5, <1>6, <2>1, <2>2, <2>3 DEF QInv, AttemptsCost, Narrated
<1>10. NoBatchAhead' /\ NoJobAhead' /\ RunsAreStarted'
  <2>1. \A q \in Productions : /\ audio[q].attempt \in Int /\ audio'[q].attempt \in Int
                               /\ audio'[q].attempt >= audio[q].attempt
    BY <1>5, <1>6 DEF QInv, QueueTypeOK, AudioRows
  <2>2. \A i \in Jobs : i[2] \in Int /\ Production(i) \in Productions
    BY JobParts, NarrationAssumption
  <2>3. todo \subseteq Jobs
    BY DEF QInv, QueueTypeOK
  <2>4. NoBatchAhead' /\ NoJobAhead'
    BY <1>2, <2>1, <2>2, <2>3 DEF QInv, NoBatchAhead, NoJobAhead
  <2>5. RunsAreStarted'
    BY <1>2, <1>5 DEF QInv, RunsAreStarted
  <2>6. QED BY <2>4, <2>5
<1>11. QED BY <1>7, <1>8, <1>9, <1>10 DEF QInv

(* The batch's transaction: what it enqueues are next attempts. *)
LEMMA PrepareKeeps == ASSUME QInv, Prepare PROVE QInv'
<1> DEFINE batch == FirstOf({p \in media : NeedsNarration(p)})
<1>1. batch \subseteq Productions /\ \A p \in batch : NeedsNarration(p)
  BY DEF FirstOf, QInv, QueueTypeOK
<1>2. /\ audio' = [p \in Productions |->
                     IF p \in batch /\ audio[p].status = "NONE"
                       THEN [audio[p] EXCEPT !.status = "PENDING"]
                       ELSE audio[p]]
      /\ todo' = {NextJob(p) : p \in batch}
      /\ UNCHANGED <<script, media, hash, retries, run, failures>>
  BY DEF Prepare, rq
<1> HIDE DEF batch
<1>3. ASSUME NEW p \in Productions
      PROVE  /\ audio[p] \in AudioRows /\ audio'[p] \in AudioRows
             /\ audio'[p].attempt = audio[p].attempt
             /\ \/ audio'[p] = audio[p]
                \/ audio[p].status = "NONE" /\ audio'[p].status = "PENDING"
  <2>1. audio[p] \in AudioRows
    BY DEF QInv, QueueTypeOK
  <2>2. CASE p \in batch /\ audio[p].status = "NONE"
    <3>1. audio'[p] = [audio[p] EXCEPT !.status = "PENDING"]
      BY <1>2, <2>2
    <3>2. QED BY <2>1, <2>2, <3>1 DEF AudioRows
  <2>3. CASE ~ (p \in batch /\ audio[p].status = "NONE")
    BY <1>2, <2>1, <2>3
  <2>4. QED BY <2>2, <2>3
<1>4. ASSUME NEW p \in batch
      PROVE  /\ NextJob(p) \in Jobs /\ Production(NextJob(p)) = p
             /\ NextJob(p)[2] = audio[p].attempt + 1
  BY <1>1, FreeIsSilent DEF NextJob, Jobs, Production
<1>5. audio' \in [Productions -> AudioRows]
  BY <1>2, <1>3
<1>6. todo' \subseteq Jobs
  BY <1>2, <1>4
<1>7. QueueTypeOK'
  BY <1>2, <1>5, <1>6 DEF QInv, QueueTypeOK
<1>8. OneNarrator'
  BY <1>2, <1>3, JobParts DEF QInv, OneNarrator
<1>9. AttemptsCost'
  <2>1. \A p \in Productions : Narrated(p) => Narrated(p)'
    BY <1>2, <1>3 DEF Narrated, Speaking
  <2>2. QED BY <1>2, <1>3, <2>1 DEF QInv, AttemptsCost
<1>10. NoBatchAhead'
  <2>1. ASSUME NEW p \in batch
        PROVE  NextJob(p)[2] <= audio'[Production(NextJob(p))].attempt + 1
    BY <1>1, <1>3, <1>4 DEF AudioRows
  <2>2. QED BY <1>2, <2>1 DEF NoBatchAhead
<1>11. NoJobAhead' /\ RunsAreStarted'
  BY <1>2, <1>3, JobParts DEF QInv, NoJobAhead, RunsAreStarted
<1>12. QED BY <1>7, <1>8, <1>9, <1>10, <1>11 DEF QInv

(* The end of a run that spoke, or that had nothing to claim. *)
LEMMA NotClaimedKeeps ==
    ASSUME QInv, NEW j \in Jobs, NotClaimed(j) PROVE QInv'
<1>1. /\ run[j] = "claim" /\ (Requeued(j) \/ Finished(j))
      /\ UNCHANGED <<script, media, audio, todo, failures>>
  BY DEF NotClaimed, rows
<1>2. /\ run' = [run EXCEPT ![j] = "none"]
      /\ run' \in [Jobs -> {"none", "claim", "speech"}]
      /\ hash' \in [Jobs -> {"absent", "queued", "started", "finished", "failed"}]
      /\ retries' \in [Jobs -> 0..MaxRetries]
      /\ \A i \in Jobs : hash'[i] # "absent" => hash[i] # "absent"
      /\ RunsAreStarted'
  BY <1>1, RunEnds
<1>3. QueueTypeOK'
  BY <1>1, <1>2 DEF QInv, QueueTypeOK
<1>4. /\ run'[j] = "none" /\ \A i \in Jobs \ {j} : run'[i] = run[i]
  BY <1>2 DEF QInv, QueueTypeOK
<1>5. QED BY <1>1, <1>2, <1>3, <1>4, SpeechEnds

LEMMA SpeakKeeps ==
    ASSUME QInv, NEW j \in Jobs, Speak(j) \/ SpeechFails(j) PROVE QInv'
<1> DEFINE p == Production(j)
<1>1. PICK status \in {"GENERATED", "FAILED"} :
         /\ run[j] = "speech" /\ Finished(j)
         /\ audio' = [audio EXCEPT ![p].status = status]
         /\ UNCHANGED <<script, media, todo>>
         /\ \/ status = "GENERATED" /\ failures' = failures
            \/ status = "FAILED" /\ failures' = failures + 1 /\ failures < MaxFailures
  BY DEF Speak, SpeechFails
<1>2. /\ run' = [run EXCEPT ![j] = "none"]
      /\ run' \in [Jobs -> {"none", "claim", "speech"}]
      /\ hash' \in [Jobs -> {"absent", "queued", "started", "finished", "failed"}]
      /\ retries' \in [Jobs -> 0..MaxRetries]
      /\ \A i \in Jobs : hash'[i] # "absent" => hash[i] # "absent"
      /\ RunsAreStarted'
  BY <1>1, RunEnds
<1>3. p \in Productions /\ audio \in [Productions -> AudioRows]
  BY JobParts DEF QInv, QueueTypeOK
<1>4. [audio[p] EXCEPT !.status = status] \in AudioRows
  BY <1>3 DEF AudioRows
<1>5. /\ audio' \in [Productions -> AudioRows]
      /\ audio'[p] = [audio[p] EXCEPT !.status = status]
      /\ \A q \in Productions \ {p} : audio'[q] = audio[q]
  BY <1>1, <1>3, <1>4
<1>6. audio'[p].attempt = audio[p].attempt /\ audio'[p].status = status
  BY <1>3, <1>5 DEF AudioRows
<1>7. failures' \in 0..MaxFailures
  BY <1>1, NarrationAssumption DEF QInv, QueueTypeOK
<1>8. QueueTypeOK'
  BY <1>1, <1>2, <1>5, <1>7 DEF QInv, QueueTypeOK
<1>9. /\ run'[j] = "none" /\ \A i \in Jobs \ {j} : run'[i] = run[i]
  BY <1>2 DEF QInv, QueueTypeOK
<1>10. QED BY <1>1, <1>2, <1>5, <1>6, <1>8, <1>9, SpeechEnds

LEMMA RunDiesKeeps ==
    ASSUME QInv, NEW j \in Jobs, RunDies(j) PROVE QInv'
<1>1. /\ run[j] # "none" /\ Requeued(j)
      /\ failures < MaxFailures /\ failures' = failures + 1
      /\ UNCHANGED <<script, media, audio, todo>>
  BY DEF RunDies, rows
<1>2. /\ run' = [run EXCEPT ![j] = "none"]
      /\ run' \in [Jobs -> {"none", "claim", "speech"}]
      /\ hash' \in [Jobs -> {"absent", "queued", "started", "finished", "failed"}]
      /\ retries' \in [Jobs -> 0..MaxRetries]
      /\ \A i \in Jobs : hash'[i] # "absent" => hash[i] # "absent"
      /\ RunsAreStarted'
  BY <1>1, RunEnds
<1>3. QueueTypeOK'
  BY <1>1, <1>2, NarrationAssumption DEF QInv, QueueTypeOK
<1>4. /\ run'[j] = "none" /\ \A i \in Jobs \ {j} : run'[i] = run[i]
  BY <1>2 DEF QInv, QueueTypeOK
<1>5. QED BY <1>1, <1>2, <1>3, <1>4, SpeechEnds

(* Time passes for an attempt whose run is gone.                           *)
LEMMA GoStaleKeeps ==
    ASSUME QInv, NEW p \in Productions, GoStale(p) PROVE QInv'
<1>1. /\ audio[p].status = "GENERATING"
      /\ \A j \in Jobs : Production(j) = p => run[j] # "speech"
      /\ audio' = [audio EXCEPT ![p].stale = TRUE]
      /\ UNCHANGED <<script, media, hash, retries, run, todo, failures>>
  BY DEF GoStale, rq
<1>2. audio[p] \in AudioRows /\ audio \in [Productions -> AudioRows]
  BY DEF QInv, QueueTypeOK
<1>3. [audio[p] EXCEPT !.stale = TRUE] \in AudioRows
  BY <1>2 DEF AudioRows
<1>4. /\ audio' \in [Productions -> AudioRows]
      /\ audio'[p] = [audio[p] EXCEPT !.stale = TRUE]
      /\ \A q \in Productions \ {p} : audio'[q] = audio[q]
  BY <1>1, <1>2, <1>3
<1>5. audio'[p].status = audio[p].status /\ audio'[p].attempt = audio[p].attempt
  BY <1>2, <1>4 DEF AudioRows
<1>6. \A q \in Productions : /\ audio'[q].status = audio[q].status
                             /\ audio'[q].attempt = audio[q].attempt
  BY <1>4, <1>5
<1>7. QueueTypeOK'
  BY <1>1, <1>4 DEF QInv, QueueTypeOK
<1>8. OneNarrator'
  BY <1>1, <1>4, JobParts DEF QInv, OneNarrator
<1>9. AttemptsCost'
  BY <1>1, <1>6 DEF QInv, AttemptsCost, Narrated, Speaking
<1>10. NoBatchAhead' /\ NoJobAhead' /\ RunsAreStarted'
  BY <1>1, <1>6, JobParts
  DEF QInv, QueueTypeOK, NoBatchAhead, NoJobAhead, RunsAreStarted
<1>11. QED BY <1>7, <1>8, <1>9, <1>10 DEF QInv

(* What RQ and the batches do to jobs that do not speak. *)
LEMMA EnqueueKeeps ==
    ASSUME QInv, NEW j \in todo, EnqueueNext(j) PROVE QInv'
<1>1. /\ j \in Jobs /\ j[2] <= audio[Production(j)].attempt + 1
      /\ todo' = todo \ {j}
      /\ UNCHANGED <<script, media, audio, run, failures>>
      /\ \/ /\ hash[j] = "absent" /\ hash' = [hash EXCEPT ![j] = "queued"]
            /\ retries' = [retries EXCEPT ![j] = MaxRetries]
         \/ UNCHANGED <<hash, retries>>
  BY DEF EnqueueNext, QInv, QueueTypeOK, NoBatchAhead, rows
<1>2. MaxRetries \in 0..MaxRetries
  BY NarrationAssumption
<1>3. QueueTypeOK'
  BY <1>1, <1>2 DEF QInv, QueueTypeOK
<1>4. NoBatchAhead' /\ NoJobAhead'
  BY <1>1 DEF QInv, QueueTypeOK, NoBatchAhead, NoJobAhead
<1>5. RunsAreStarted'
  BY <1>1 DEF QInv, QueueTypeOK, RunsAreStarted
<1>6. failures <= failures'
  BY <1>1 DEF QInv, QueueTypeOK
<1>7. QED BY <1>1, <1>3, <1>4, <1>5, <1>6, RowsKept

LEMMA StartKeeps ==
    ASSUME QInv, NEW j \in Jobs, Start(j) \/ Expire(j) PROVE QInv'
<1>1. /\ \/ hash[j] = "queued" /\ hash' = [hash EXCEPT ![j] = "started"]
            /\ run' = [run EXCEPT ![j] = "claim"]
         \/ hash[j] \in {"finished", "failed"} /\ run' = run
            /\ hash' = [hash EXCEPT ![j] = "absent"]
      /\ UNCHANGED <<script, media, audio, retries, todo, failures>>
  BY DEF Start, Expire, rows
<1>2. run[j] = "none"
  BY <1>1 DEF QInv, RunsAreStarted
<1>3. QueueTypeOK'
  BY <1>1 DEF QInv, QueueTypeOK
<1>4. NoBatchAhead' /\ NoJobAhead' /\ RunsAreStarted'
  BY <1>1, <1>2
  DEF QInv, QueueTypeOK, NoBatchAhead, NoJobAhead, RunsAreStarted
<1>5. \A i \in Jobs : run'[i] = "speech" <=> run[i] = "speech"
  BY <1>1, <1>2 DEF QInv, QueueTypeOK
<1>6. failures <= failures'
  BY <1>1 DEF QInv, QueueTypeOK
<1>7. QED BY <1>1, <1>3, <1>4, <1>5, <1>6, RowsKept

LEMMA OthersKeep ==
    ASSUME QInv,
           \/ BatchDies \/ CreateIntakes \/ UNCHANGED qvars
           \/ \E p \in Productions : FinishScript(p)
    PROVE  QInv'
<1>1. /\ UNCHANGED <<audio, hash, retries, run>>
      /\ todo' \subseteq todo /\ failures' \in {failures, failures + 1}
  BY DEF BatchDies, CreateIntakes, FinishScript, qvars, rows, rq
<1>2. script' \subseteq Productions /\ media' \subseteq Productions
  BY DEF BatchDies, CreateIntakes, FinishScript, FirstOf, qvars, rows,
         QInv, QueueTypeOK
<1>3. failures' \in 0..MaxFailures /\ failures <= failures'
  BY NarrationAssumption
  DEF BatchDies, CreateIntakes, FinishScript, qvars, QInv, QueueTypeOK
<1>4. QueueTypeOK'
  BY <1>1, <1>2, <1>3 DEF QInv, QueueTypeOK
<1>5. NoBatchAhead' /\ NoJobAhead' /\ RunsAreStarted'
  BY <1>1 DEF QInv, NoBatchAhead, NoJobAhead, RunsAreStarted
<1>6. QED BY <1>1, <1>3, <1>4, <1>5, RowsKept

LEMMA QueueStep == QInv /\ [QueueNext]_qvars => QInv'
<1> SUFFICES ASSUME QInv, [QueueNext]_qvars PROVE QInv'
  OBVIOUS
<1>1. CASE UNCHANGED qvars
  BY <1>1, OthersKeep
<1>2. CASE QueueNext
  BY <1>2, OthersKeep, GoStaleKeeps, PrepareKeeps, EnqueueKeeps, StartKeeps,
     ClaimKeeps, NotClaimedKeeps, SpeakKeeps, RunDiesKeeps
  DEF QueueNext
<1>3. QED BY <1>1, <1>2

LEMMA QueueInvariance == QueueSpec => []QInv
<1>1. QueueInit => QInv
  <2> SUFFICES ASSUME QueueInit PROVE QInv
    OBVIOUS
  <2> DEFINE none == [status |-> "NONE", attempt |-> 0, stale |-> FALSE]
  <2>1. none \in AudioRows /\ 0 \in 0..MaxFailures /\ 0 \in 0..MaxRetries
    BY NarrationAssumption DEF AudioRows
  <2>2. QueueTypeOK
    BY <2>1 DEF QueueInit, QueueTypeOK
  <2>3. OneNarrator /\ RunsAreStarted /\ NoBatchAhead /\ NoJobAhead
    BY DEF QueueInit, OneNarrator, RunsAreStarted, NoBatchAhead, NoJobAhead
  <2>4. AttemptsCost
    BY DEF QueueInit, AttemptsCost
  <2>5. QED BY <2>2, <2>3, <2>4 DEF QInv
<1>2. QED BY <1>1, QueueStep, PTL DEF QueueSpec

(* The queue's rows, jobs and runs keep to their types; in particular an   *)
(* attempt beyond the first costs a failure, so that attempts are bounded  *)
(* by the failures, whatever is enqueued, retried or dropped.              *)
THEOREM QueueTypeCorrect == QueueSpec => []QueueTypeOK
<1>1. QInv => QueueTypeOK
  BY DEF QInv
<1>2. QED BY <1>1, QueueInvariance, PTL

(* However many jobs of a production are queued, retried and started, one  *)
(* run at most narrates it.                                                *)
THEOREM NarratorIsAlone == QueueSpec => []OneNarrator
<1>1. QInv => OneNarrator
  BY DEF QInv
<1>2. QED BY <1>1, QueueInvariance, PTL

(* No job id is used up before its attempt is due.                         *)
THEOREM JobsAreDue == QueueSpec => []NoJobAhead
<1>1. QInv => NoJobAhead
  BY DEF QInv
<1>2. QED BY <1>1, QueueInvariance, PTL

=============================================================================
