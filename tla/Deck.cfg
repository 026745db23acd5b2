\* Two people who do any three things to a deck of one slide, or one who does four.
CONSTANTS
  Clients = {1, 2}
  Person = 1
  SeedSlides = 1
  Ops = {"insert_slide", "delete_slide", "move_slide", "add_shape", "remove_shape", "undo", "redo"}
  MaxInputs = 4
  MaxTogether = 3
SPECIFICATION DeckSpec
INVARIANTS
  NoSlideVanishes
  ReadersAgree
  DecksStayWhole
PROPERTIES
  UndoTakesBackItsOwn
  UndoIsExact
  EveryoneConverges
CHECK_DEADLOCK FALSE
