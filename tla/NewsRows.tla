------------------------------ MODULE NewsRows ------------------------------
(***************************************************************************)
(* The rows of one news intake under all their writers: the metadata and   *)
(* the processing job (MetadataEnrichment), and the two analyses           *)
(* (AnalysisRuns), whose runs begin only on metadata that is ready and     *)
(* loadable, but are not protected from its writers after that.            *)
(***************************************************************************)
EXTENDS AnalysisRuns

CONSTANTS AutoWriters, ManualWriters, Nobody

ASSUME WriterAssumption ==
    /\ AutoWriters \cap ManualWriters = {}
    /\ Nobody \notin AutoWriters \cup ManualWriters

VARIABLES metadata, job, writer

M == INSTANCE MetadataEnrichment

RowsInit == Init /\ M!Init

(* The metadata checks of both jobs and of the recovery. *)
MetadataReady ==
    /\ M!Loadable(metadata)
    /\ metadata.status \in {"EXTRACTED", "MANUAL"}

Begins ==
    \/ \E r \in RelevanceRuns : ReadRelevance(r)
    \/ \E p \in PriorityRuns : ReadPriority(p)
    \/ RecoverPriority

RowsNext ==
    \/ Next /\ (Begins => MetadataReady) /\ UNCHANGED <<metadata, job, writer>>
    \/ M!Next /\ UNCHANGED vars

RowsSpec == RowsInit /\ [][RowsNext]_<<vars, metadata, job, writer>>

-----------------------------------------------------------------------------
(* (See MetadataEnrichment.)  However the worker and one operator race,    *)
(* the job row tells the truth about the metadata row.                     *)
JobFollowsMetadata == M!JobFollowsMetadata

=============================================================================
