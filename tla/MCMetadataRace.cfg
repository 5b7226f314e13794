CONSTANTS
    a1 = a1
    m1 = m1
    AutoWriters <- OneWorker
    ManualWriters <- OneOperator
    Nobody = Nobody
SPECIFICATION Spec
INVARIANT MetadataStaysLoadable
CHECK_DEADLOCK FALSE
