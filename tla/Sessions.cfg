SPECIFICATION SessionsSpec
CONSTANTS
    P1 = "a"
    P2 = "b"
    Paths = {"a"}
    Untitled = ""
    Kinds = {"docx", "pptx"}
    KindOf <- AllDocx
    Inexpressible = {2}
    None = None
    Torn = Torn
    MaxEdits = 2
    MaxRoutes = 3
    MaxJobs = 1
INVARIANTS TypeOK CleanMeansOnDisk
PROPERTIES ReplacementLosesNothing QueuedSavesNeverGoBack QueuedEditsLand
CHECK_DEADLOCK FALSE
