SPECIFICATION Spec
CONSTANTS
    P1 = "a"
    P2 = "b"
    Paths = {"a"}
    Untitled = ""
    Kinds = {"pptx"}
    KindOf <- AllPptx
    Inexpressible = {}
    None = None
    Torn = Torn
    MaxEdits = 2
    MaxRoutes = 2
    MaxJobs = 2
PROPERTIES NoCrossDocumentWrite
CHECK_DEADLOCK FALSE
