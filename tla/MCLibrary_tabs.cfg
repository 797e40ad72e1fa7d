SPECIFICATION Spec
CONSTANTS
    Tabs = {t1, t2}
    Labels = {"A", "B"}
    Paths = {"A/1", "A/2", "B/1", "B/2"}
    Hashes = {"x", "y"}
    Picks <- TwoFoldersAndBoth
    MaxUploads = 2
    MaxRequests = 1
    MaxWorkerCrashes = 0
    MaxAppCrashes = 1
INVARIANTS HeldExactly
CHECK_DEADLOCK FALSE
