\* A talk that resumes at number 1; three utterances of up to three chunks.
CONSTANTS
    StartSeq = 1
    PreRoll = 2
    MinPartial = 2
    HardMax = 3
    MaxUtts = 3
SPECIFICATION FairSpec
INVARIANTS
    FinalsConsecutive
    FinalReplacesPartial
    PageIsCurrent
    NothingLost
PROPERTIES
    FinalsFirst
    Drains
CHECK_DEADLOCK FALSE
