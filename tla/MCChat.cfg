SPECIFICATION Spec
CONSTANTS
    p1 = p1
    p2 = p2
    Photos = {p1, p2}
    Example = p2
    Questions <- SomeQuestions
    Deltas <- Pieces
    MaxRounds = 2
    MaxDeltas = 6
    MaxTurns = 1
    MaxChanges = 1
INVARIANTS
    FilterExact
    CitesFound
    OneMessageATurn
    WokenOnPurpose
PROPERTIES
    TurnEnds
CHECK_DEADLOCK FALSE
