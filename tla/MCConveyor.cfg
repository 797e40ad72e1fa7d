SPECIFICATION Spec
CONSTANTS
    Ops = {o1, o2, o3, o4}
    NoOne = NoOne
    Concurrency = 2
    Cost <- SomeCosts
    Headroom = 1
    Budget = 6
    Pressure = TRUE
    Reaps = TRUE
    Supervised = {"image_embed", "text_embed", "llm", "llm_vision"}
SYMMETRY OpSymmetry
INVARIANTS TypeOK SlotsAccounted BudgetHeld RegistryHonest
PROPERTIES AdmissionOrder
