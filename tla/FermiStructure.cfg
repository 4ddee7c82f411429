SPECIFICATION Spec
CONSTANTS
    Failed = Failed
    None = None
    RootLabel = "target"
    RootUnit = "u"
    NoState = Failed
    NoOp = NoOp
    NoRevision = NoRevision
    NoAction = NoAction
    NoEvaluation = NoEvaluation
    DefaultCost = DefaultCost
    Unlimited = Unlimited
    FermiOps <- StructureOps
    Ops <- StructureOps
    KernelStates <- FermiStates
    InitialState <- fermi_initial_state
    Validates <- fermi_validate
    Execute <- fermi_execute
    DepthOf <- fermi_depth
    Verdict <- fermi_verdict
    EvaluationOps <- fermi_evaluation_ops
    DepthOps <- fermi_depth_ops
    ExpensiveOps <- fermi_expensive_ops
    StartIsKnown = FALSE
    CallerCosts = {}
    MaxActions = Unlimited
    MaxEvaluations = Unlimited
    MaxCompute = Unlimited
    MaxDepth = 3
    Faults <- NoFaults
    MaxPairs = 8
    MaxRefusals = 1
    MaxRefusedPairs = 5
INVARIANTS
    TreeIsRebuilt
    CurrentBranchIsATree
    DepthWithinCap
