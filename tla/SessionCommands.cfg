SPECIFICATION HistorySpec
CONSTANTS
    s1 = s1
    s2 = s2
    w1 = w1
    w2 = w2
    r1 = r1
    pid1 = pid1
    pid2 = pid2
    pid3 = pid3
    Starts <- TwoStarts
    Forced <- ForcedStart
    Writers <- TwoWriters
    Readers <- OneReader
    Pids <- ThreePids
    PidOf <- PidsUsed
    NoDocument = NoDocument
    Torn = Torn
INVARIANTS
    DocumentIsWhole
    TmpIsAccountedFor
    UnpublishedIsInvisible
    SequentialUseKeepsSaved
PROPERTIES
    SequentialUseIsAtomic
    CommandsEnd
