SPECIFICATION Spec
CONSTANTS
    Paths = {"a"}
    Mac = TRUE
    MaxWindows = 2
PROPERTIES NotClosedFromUnder
CHECK_DEADLOCK FALSE
