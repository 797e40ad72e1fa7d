SPECIFICATION Spec
CONSTANTS
    Photos = {1, 2}
    MaxAttempts = 2
    w = w
    red = red
    blue = blue
    blank = blank
    Drainers = {w}
    Workers = {w}
    Broken = {2}
    Texts = {red}
    Blank = blank
    NoText = NoText
    Ranges = {}
    BatchLimit = 1
    MaxFaults = 0
    MaxCrashes = 1
    MaxFlips = 0
    MaxLockouts = 0
    MaxResets = 0
PROPERTIES
    ThumbnailsRegardless
    QueueDrains
    CaptionGetsVector
