SPECIFICATION ProcessSpec
CONSTANTS
    Paths <- TwoPaths
    Mac = TRUE
    MaxWindows = 3
    MaxToolRounds = 1
    MaxRuns = 2
    MaxCalls = 2
    MaxAgentWindows = 2
    MaxPanels = 2
    MaxUnhandled = 1
INVARIANTS TypeOK FlagsDescribeTheWindow AgentTypeOK CancelReachesTheRun VerdictsHold
PROPERTIES OnlyItsOwnAnswerClosesIt CloseWaitEnds RunsEnd BusyEnds
CHECK_DEADLOCK FALSE
