SPECIFICATION AnswerSpec
CONSTANTS
    P1 = "a"
    P2 = "b"
    Paths = {"a"}
    Untitled = ""
    Kinds = {"pptx", "xlsx"}
    KindOf <- AllPptx
    Inexpressible = {2}
    None = None
    Torn = Torn
    MaxEdits = 2
    MaxRoutes = 3
    MaxJobs = 1
PROPERTIES AskIsAnswered CloseIsAnswered
CHECK_DEADLOCK FALSE
