SPECIFICATION Spec
CONSTANTS
    P1 = "a"
    P2 = "b"
    Paths = {"a"}
    Untitled = ""
    Kinds = {"xlsx"}
    KindOf <- AllXlsx
    Inexpressible = {}
    None = None
    Torn = Torn
    MaxEdits = 2
    MaxRoutes = 1
    MaxJobs = 3
INVARIANTS CleanMeansOnDisk
CHECK_DEADLOCK FALSE
