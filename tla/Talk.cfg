\* Two target languages, two captions, two runs, one fault; in the service or in the
\* terminal.  With Scan = 2 a partial and an event behind a caption hide it from the
\* next run.  Translator checks the retries.
CONSTANTS
    Langs = {es, pt}
    Retries = 0
    MaxSeq = 2
    MaxRuns = 2
    MaxFaults = 1
    Murmuring = 2
    Scan = 2
    Pauses = {1}
    Lengths = {1, 3}
SPECIFICATION ExportSpec
SYMMETRY Symmetry
INVARIANTS
    DrainedIsTold
    SubtitlesInOrder
PROPERTIES
    EndIsLast
    FollowsContract
CHECK_DEADLOCK FALSE
