SPECIFICATION FairSpec
CONSTANTS
    WRITERS_AMOUNT = 2
    READERS_AMOUNT = 2
    ValueLimit = 2
    SigintLimit = 2
INVARIANTS
    WriterAlone
    NoLostUpdate
    WaitsForSomeoneInside
PROPERTIES
    SigintEnds
