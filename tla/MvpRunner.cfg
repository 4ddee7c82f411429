SPECIFICATION Spec
CONSTANT MaxRounds = 2
INVARIANTS ProjectionReplays ReplayDivergesWithCause
