SPECIFICATION Spec
CONSTANTS
    Ops = {o1, o2, o3}
    NoOne = NoOne
    Concurrency = 1
    Cost <- SomeCosts
    Headroom = 1
    Budget = 6
    Pressure = FALSE
    Reaps = FALSE
    Supervised = {"image_embed", "text_embed", "llm", "llm_vision"}
PROPERTIES InteractiveServed
