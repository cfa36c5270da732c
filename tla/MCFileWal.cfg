SPECIFICATION Spec
CONSTANTS
    Appenders = {a1, a2, a3}
    FsyncMode = "BatchSync"
    SegmentSize = 2
    RotateSize = 2
    RotateByAge = TRUE
    MinSegments = 1
    BatchSize = 2
    IoErrors = TRUE
    MaxLsn = 3
    MaxSegment = 2
    MaxBoot = 1
SYMMETRY AppenderSymmetry
INVARIANTS TypeOK LostOnlyByRotationRace PromisedDurable IndexTruthful CleanMeansDurable
