SPECIFICATION FairSpec
CONSTANTS
    a = a
    b = b
    ra = ra
    aa = aa
    ma = ma
    mr = mr
    pa = pa
    pb = pb
    NoCandidate = NoCandidate
    Declared <- DeclaredCandidates
    Dynamic <- DynamicCandidates
    Formulas <- SomeFormulas
    Formula <- FormulaOf
    Parent <- ParentOf
    Kind <- KindOf
    Identity <- IdentityOf
    Size <- SizeOf
    Ablations <- AblationsOf
    Proposals <- ProposalsOf
    Grades <- GradesOf
    Budgets <- SomeBudgets
    Rounds <- SomeRounds
INVARIANTS CheckpointKeepsPending SelectedIsMinimal StopIsHonest WorkWithinBudget
PROPERTIES ReplayAccepts SearchEnds
