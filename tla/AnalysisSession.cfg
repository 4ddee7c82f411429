SPECIFICATION SessionSpec
CONSTANTS
    NoRevision = NoRevision
    Blank = Blank
    NoCue = NoCue
    NoStance = NoStance
    NoTime = NoTime
    NoBaseline = NoBaseline
    NoInterval = NoInterval
    NoScene = NoScene
    Nothing = Nothing
    rec = rec
    plain = plain
    seen = seen
    rhetoric = rhetoric
    gap = gap
    bare = bare
    stated = stated
    worded = worded
    context = context
    dated = dated
    asked = asked
    other = other
    words = words
    Reading <- MCReading
    Payloads <- MCPayloads
    Studies <- MCStudies
    Terms <- MCTerms
    MaxRuns = 2
    MaxContracts = 3
    MaxGraphs = 3
INVARIANTS
    LineageIsLinear
    AnswerFitsContract
    CompiledIsValid
    NothingIsLaundered
    DisputesAreKept
    LedgerFileIsLast
CHECK_DEADLOCK FALSE
