SPECIFICATION Spec
CONSTANTS
    Ids = {1, 2, 3, 4, 5}
    town = town
    coast = coast
    nowhere = nowhere
    Shots <- ManyShots
    Arrivals <- Coast
    Libraries <- TwoDays
    Samples = {}
    Folders = {}
    NoCell = nowhere
    NoShot = noshot
    NoGroup = nogroup
    Builders = {b1}
    EventGap = 6
    TripGap = 36
    MinSize = 2
    MaxRounds = 1
    MaxUploads = 0
    MaxDeletions = 0
    MaxRestarts = 1
    MaxReads = 1
    MaxBuilds = 2
INVARIANT NeverHalfBuilt
CHECK_DEADLOCK FALSE
