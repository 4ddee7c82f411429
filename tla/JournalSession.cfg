SPECIFICATION Spec
CONSTANTS
    NoState = NoState
    NoOp = NoOp
    NoRevision = NoRevision
    NoAction = NoAction
    NoEvaluation = NoEvaluation
    DefaultCost = DefaultCost
    Unlimited = Unlimited
    JournalOps <- MCOps
    Ops <- MCOps
    KernelStates <- JournalStates
    InitialState <- journal_initial_state
    Validates <- journal_validate
    Execute <- journal_execute
    DepthOf <- journal_depth
    Verdict <- journal_verdict
    EvaluationOps <- journal_evaluation_ops
    DepthOps <- journal_depth_ops
    ExpensiveOps = {}
    StartIsKnown = TRUE
    CallerCosts <- MCCosts
    MaxActions = 5
    MaxEvaluations = Unlimited
    MaxCompute = 6
    MaxDepth = 2
    Faults <- MCFaults
    MaxPairs = 5
    MaxRefusals = 1
    MaxRefusedPairs = 5
INVARIANTS
    TypeOK
    StateIsProjection
    ExportRehydrates
    RollbacksAreSound
    CountersMatchLog
    SpendingWithinCaps
    LifoReplays
PROPERTIES
    ImplementsSession
    DanglingIsOnlyRejected

