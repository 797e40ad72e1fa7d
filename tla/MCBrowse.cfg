SPECIFICATION Spec
CONSTANTS
    Photos = {1, 2, 3}
    Seed = 1
    Tier <- TwoLabels
    Idf <- Logs
    Profiles <- SomePairs
    Collections <- LibraryAndAlbum
    NEAREST = 1
    SIMILAR_K = 1
    LOOSE_LIMIT = 1
    PageSize = 1
    MaxChanges = 2
INVARIANTS
    GatesHold
    NothingSkipped
PROPERTIES
    PanelExplains
    ShownStillOpens
    LostToCloser
