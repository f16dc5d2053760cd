SPECIFICATION Spec
CONSTANTS
    Answers <- MCAnswers
    Codes <- MCCodes
    Refusals <- MCRefusals
    Debug = TRUE
INVARIANTS TypeOK OneAnswer EnvelopeOnly StatusKept LogTellsTruth TracedOnce
CHECK_DEADLOCK FALSE
