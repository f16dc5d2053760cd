SPECIFICATION FairSpec
CONSTANTS
    Secrets <- MCSecrets
    Absent = Absent
    Partial = Partial
    Invalid = Invalid
    MaxCrashes = 2
INVARIANTS TypeOK TokensSurvive NoBlankSecret
PROPERTIES ComesBack
