\* Frames of two units in chunks of up to five; soft limit after 5 frames, hard
\* limit after 7.
CONSTANTS
    FrameMs = 10
    MinSilence = 3
    SoftPause = 2
    KeepTail = 1
    MinSpeech = 2
    PreRoll = 2
    SoftMaxMs = 45
    HardMaxMs = 65
    MaxFrames = 10
    FrameUnits = 2
    ChunkUnits = 5
SPECIFICATION FairReaderSpec
INVARIANTS
    UtterancesDisjoint
    SpeechCovered
    DroppedOnlyBlips
    EndIsComplete
PROPERTIES
    NoOrphan
    SourceEnds
CHECK_DEADLOCK FALSE
