SPECIFICATION Spec
CONSTANTS
    Tabs = {t1}
    Labels = {"A", "B"}
    Paths = {"A/1", "A/2", "B/1", "B/2"}
    Hashes = {"x", "y"}
    Picks <- TwoFolders
    MaxUploads = 3
    MaxRequests = 2
    MaxWorkerCrashes = 1
    MaxAppCrashes = 0
INVARIANTS TypeOK SourcedHasOriginal HeldExactly
PROPERTIES OutboxSettles
CHECK_DEADLOCK FALSE
