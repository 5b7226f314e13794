--------------------------- MODULE ArtifactStore ---------------------------
(***************************************************************************)
(* LocalFileAudioStorage.write / LocalFileVideoStorage.write for one       *)
(* storage key: several processes store content under the key, or look it  *)
(* up (get), at the same time.  A file appears under its canonical name    *)
(* only by linking a temporary file that has been written and synced.      *)
(*                                                                         *)
(* The file lies in a directory of its production, which write makes.      *)
(*                                                                         *)
(* What the disk holds after the host fails is modelled by three flags:    *)
(* whether the bytes of the canonical file had been synced before it was   *)
(* linked, whether its directory has been synced since, and whether the    *)
(* directory above holds the entry of that directory.  No call syncs the   *)
(* last, so that a new directory can be lost with everything in it.        *)
(***************************************************************************)
EXTENDS Naturals, FiniteSets

CONSTANTS Processes, Contents, Absent, Empty, MaxHostCrashes

ASSUME StoreAssumption ==
    /\ Absent \notin Contents /\ Empty \notin Contents /\ Absent # Empty
    /\ MaxHostCrashes \in Nat

VARIABLES file,          \* content under the key, Absent if there is none
          bytesSynced,   \* its bytes would survive a failure of the host
          linkSynced,    \* its directory entry would survive in its directory
          directory,     \* its directory exists
          dirSynced,     \* and would survive
          call,          \* the call each process is in
          created,       \* contents whose creator's write has returned since
                         \* the directory was made
          reported,      \* contents that some call returned
          crashes        \* failures of the host so far

Disk == <<file, bytesSynced, linkSynced, directory, dirSynced>>

vars == <<Disk, call, created, reported, crashes>>

Steps == {"idle", "made", "open", "written", "flushed", "exists", "linked"}

Calls == [pc : Steps, data : Contents \cup {Absent}]

Idle == [pc |-> "idle", data |-> Absent]

TypeOK ==
    /\ file \in Contents \cup {Absent, Empty}
    /\ bytesSynced \in BOOLEAN
    /\ linkSynced \in BOOLEAN
    /\ directory \in BOOLEAN
    /\ dirSynced \in BOOLEAN
    /\ call \in [Processes -> Calls]
    /\ created \subseteq Contents
    /\ reported \subseteq Contents
    /\ crashes \in 0..MaxHostCrashes

Init ==
    /\ file = Absent
    /\ bytesSynced = FALSE
    /\ linkSynced = FALSE
    /\ directory = FALSE
    /\ dirSynced = FALSE
    /\ call = [p \in Processes |-> Idle]
    /\ created = {}
    /\ reported = {}
    /\ crashes = 0

-----------------------------------------------------------------------------
Goto(p, pc) == call' = [call EXCEPT ![p].pc = pc]
Finish(p)   == call' = [call EXCEPT ![p] = Idle]

(* write: the directory is made if it is not there; its own entry is not   *)
(* synced.                                                                 *)
MakeDirectory(p, c) ==
    /\ call[p].pc = "idle"
    /\ directory' = TRUE
    /\ call' = [call EXCEPT ![p] = [pc |-> "made", data |-> c]]
    /\ UNCHANGED <<file, bytesSynced, linkSynced, dirSynced, created,
                   reported, crashes>>

(* No artifact yet, so a temporary file of a fresh name is opened.         *)
OpenTemporary(p) ==
    /\ call[p].pc = "made"
    /\ file = Absent
    /\ Goto(p, "open")
    /\ UNCHANGED <<Disk, created, reported, crashes>>

(* get finds an artifact. *)
Get(p, c) ==
    /\ call[p].pc = "idle"
    /\ file = c
    /\ reported' = reported \cup {c}
    /\ UNCHANGED <<Disk, call, created, crashes>>

WriteTemporary(p) ==
    /\ call[p].pc = "open"
    /\ Goto(p, "written")
    /\ UNCHANGED <<Disk, created, reported, crashes>>

FsyncTemporary(p) ==
    /\ call[p].pc = "written"
    /\ Goto(p, "flushed")
    /\ UNCHANGED <<Disk, created, reported, crashes>>

(* (Mutated form of Link: the temporary file need not have been synced.) *)
LinkUnsynced(p) ==
    /\ call[p].pc \in {"written", "flushed"}
    /\ file = Absent
    /\ file' = call[p].data
    /\ bytesSynced' = (call[p].pc = "flushed")
    /\ linkSynced' = FALSE
    /\ Goto(p, "linked")
    /\ UNCHANGED <<directory, dirSynced, created, reported, crashes>>

(* os.link succeeds: the temporary's inode becomes the canonical file. *)
Link(p) ==
    /\ call[p].pc = "flushed"
    /\ file = Absent
    /\ file' = call[p].data
    /\ bytesSynced' = TRUE
    /\ linkSynced' = FALSE
    /\ Goto(p, "linked")
    /\ UNCHANGED <<directory, dirSynced, created, reported, crashes>>

(* os.link raises FileExistsError. *)
LinkExists(p) ==
    /\ call[p].pc = "flushed"
    /\ file # Absent
    /\ Goto(p, "exists")
    /\ UNCHANGED <<Disk, created, reported, crashes>>

(* (Mutated form of CompareExisting: the sizes and hashes are not compared.) *)
AcceptExisting(p) ==
    /\ call[p].pc \in {"made", "exists"} /\ file # Absent
    /\ reported' = reported \cup {call[p].data}
    /\ Finish(p)
    /\ UNCHANGED <<Disk, created, crashes>>

(* _existing_artifact, before the temporary file is written or after       *)
(* FileExistsError: the same bytes are returned, other bytes are an        *)
(* AudioStorageConflictError.                                              *)
CompareExisting(p) ==
    /\ call[p].pc \in {"made", "exists"} /\ file # Absent
    /\ reported' = reported \cup ({file} \cap {call[p].data})
    /\ Finish(p)
    /\ UNCHANGED <<Disk, created, crashes>>

(* (Mutated form of FsyncDirectory: the directory is not synced.) *)
ReturnAfterLink(p) ==
    /\ call[p].pc = "linked"
    /\ created' = created \cup {call[p].data}
    /\ reported' = reported \cup {call[p].data}
    /\ Finish(p)
    /\ UNCHANGED <<Disk, crashes>>

(* _fsync_directory of the directory of the file, which makes the entry of *)
(* the file durable in it; the return, and the unlink of the temporary.    *)
FsyncDirectory(p) ==
    /\ call[p].pc = "linked"
    /\ linkSynced' = TRUE
    /\ created' = created \cup {call[p].data}
    /\ reported' = reported \cup {call[p].data}
    /\ Finish(p)
    /\ UNCHANGED <<file, bytesSynced, directory, dirSynced, crashes>>

(* A process dies, or a system call raises. *)
Crash(p) ==
    /\ call[p].pc # "idle"
    /\ Finish(p)
    /\ UNCHANGED <<Disk, created, reported, crashes>>

(* What may be under the key after a failure of the host that has left the *)
(* directory.                                                              *)
Survivors ==
    (IF linkSynced THEN {} ELSE {Absent})
        \cup (IF bytesSynced \/ file = Absent THEN {file} ELSE {file, Empty})

(* The host fails.  A directory or an entry that is not synced may or may  *)
(* not be there afterwards; unsynced bytes may be missing.                 *)
HostCrash ==
    /\ crashes < MaxHostCrashes
    /\ crashes' = crashes + 1
    /\ call' = [p \in Processes |-> Idle]
    /\ directory' \in {directory, dirSynced}
    /\ file' \in (IF directory' THEN Survivors ELSE {Absent})
    /\ dirSynced' = directory'
    /\ linkSynced' = (file' # Absent)
    /\ bytesSynced' = (file' # Absent)
    /\ created' = (IF directory' THEN created ELSE {})
    /\ UNCHANGED reported

Next ==
    \/ HostCrash
    \/ \E p \in Processes :
         \/ \E c \in Contents : MakeDirectory(p, c) \/ Get(p, c)
         \/ OpenTemporary(p) \/ WriteTemporary(p) \/ FsyncTemporary(p)
         \/ Link(p) \/ LinkExists(p) \/ CompareExisting(p)
         \/ FsyncDirectory(p)
         \/ Crash(p)

Spec == Init /\ [][Next]_vars

-----------------------------------------------------------------------------
(* A file under its canonical name always holds all the bytes of one call, *)
(* also after a failure of the host.                                       *)
NeverPartial == file # Empty

(* "Durably store one audio artifact", as far as the code goes: what the   *)
(* call that created the artifact has returned stays under the key as long *)
(* as the directory does, failures of the host included.  A directory made *)
(* by write can be lost with the artifact, since nothing syncs its entry.  *)
CreatedIsDurable == created # {} => created = {file} /\ directory

(* "Hard-linking is atomic and never overwrites an existing canonical      *)
(* artifact": without a failure of the host every call that returns an     *)
(* artifact returns the same one, whatever calls race and wherever one     *)
(* dies, and it is there.                                                  *)
ReportsAgree == crashes = 0 => \A c \in reported : c = file

=============================================================================
