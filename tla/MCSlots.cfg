SPECIFICATION Spec
CONSTANTS
    Photos = {1}
    MaxAttempts = 2
    small = small
    large = large
    wide = wide
    legacy = legacy
    Models = {small, large, wide}
    Dim <- Widths
    Default = small
    Overrides = {legacy, wide}
    Unset = none
    NoVector = novec
    Users = {u}
    Poller = poll
    MaxSwitches = 1
    MaxRestarts = 1
    MaxLosses = 1
INVARIANTS
    TypeOK
    DoneIsSelected
    WidthFits
    
PROPERTIES
    SlotsConverge
