\* Two target languages, three captions, one retry as in the code; servers that
\* take the field or reject it, and that make errors or not.
CONSTANTS
    Langs = {"es", "pt"}
    Retries = 1
    MaxSeq = 3
SPECIFICATION FairClientSpec
INVARIANTS
    NoneSkipped
    FieldIsNoError
PROPERTIES
    Drains
    Implements
CHECK_DEADLOCK FALSE
