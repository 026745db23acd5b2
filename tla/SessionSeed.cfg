SPECIFICATION Spec
CONSTANTS
    P1 = "a"
    P2 = "b"
    Paths = {"a"}
    Untitled = ""
    Kinds = {"docx"}
    KindOf <- AllDocx
    Inexpressible = {}
    None = None
    Torn = Torn
    MaxEdits = 2
    MaxRoutes = 2
    MaxJobs = 2
PROPERTIES WritesNeverGoBack
CHECK_DEADLOCK FALSE
