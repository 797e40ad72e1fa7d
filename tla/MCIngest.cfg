SPECIFICATION Spec
CONSTANTS
    Photos = {1}
    MaxAttempts = 2
    w = w
    red = red
    blue = blue
    blank = blank
    Drainers = {w}
    Workers = {w}
    Broken = {}
    Texts = {red, blue}
    Blank = blank
    NoText = NoText
    Ranges <- ReEmbed
    BatchLimit = 1
    MaxFaults = 1
    MaxCrashes = 1
    MaxFlips = 1
    MaxLockouts = 1
    MaxResets = 1
SYMMETRY TextSymmetry
INVARIANTS
    TypeOK
    RunningIsHeld
    CaptionVectorFresh
PROPERTIES
    ParkedStaysParked
    KeepsPromise
