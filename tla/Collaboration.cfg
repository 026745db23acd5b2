\* Two clients, five edits and connections, and stores small enough to fill.
CONSTANTS
  Clients = {1, 2}
  Cells = {"p"}
  MaxHeld = 1
  MaxQueue = 1
  MaxLog = 2
  MaxInputs = 5
SPECIFICATION FairSpec
INVARIANTS
  HeldIsBlocked
  NewcomersCatchUp
PROPERTIES
  NewcomersSync
CHECK_DEADLOCK FALSE
