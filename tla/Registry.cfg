CONSTANTS
    Name = {"a", "b"}
    Client = {c1, c2}
    Priority = {0, 3}
    MaxPriority = 3
    Distance = {0, 1, 2}
    Announced <- MCAnnounced
    Options <- MCOptions
    Routes <- MCRoutes
    MaxSub = 3
SYMMETRY MCSymmetry
SPECIFICATION Spec
INVARIANTS ReferencesExact RequestsReachBest WeightsRespected FindsBest
CHECK_DEADLOCK FALSE
