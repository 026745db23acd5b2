---------------------------- MODULE DeckHistory ----------------------------
(* The presentation of one person while nobody else does anything, with the contents this person has gone   *)
(* through: the sets of items an UndoManager takes back and brings back are  *)
(* a history of what the slides showed.                                     *)
EXTENDS Deck

CONSTANT Person
ASSUME PersonAssumption == Person \in Clients

VARIABLES shown,   \* what the deck shows
          seen,    \* what the deck showed before each change of past
          undone   \* what it showed before each change of future was undone

hvars == <<vars, shown, seen, undone>>

\* A deck that is not whole is not shown at all.
Showing == [whole |-> IsWhole(doc[Person]), slides |-> Shown(doc[Person])]

HInit == Init /\ shown = Showing /\ seen = <<>> /\ undone = <<>>

Shows == shown' = Showing'
Kept(contents, changes) == SubSeq(contents, 1, Len(changes'[Person]))
Grown(contents, changes) ==
  IF Len(changes'[Person]) > Len(changes[Person]) THEN Append(contents, shown) ELSE contents

HEdit == Edit(Person) /\ Shows /\ seen' = Grown(seen, past) /\ undone' = <<>>
HUndo == Undo(Person) /\ Shows /\ seen' = Kept(seen, past) /\ undone' = Grown(undone, future)
HRedo == Redo(Person) /\ Shows /\ undone' = Kept(undone, future) /\ seen' = Grown(seen, past)

\* Nobody else: no frame is read that says something new.
HNext == HEdit \/ HUndo \/ HRedo
HSpec == HInit /\ [][HNext]_hvars

Ids == {0, Person} \X Nat
SlideShown == [slide : Ids, shapes : Seq(Ids)]
History == INSTANCE GroupedHistory
             WITH Contents <- [whole : {TRUE}, slides : Seq(SlideShown)],
                  Depth    <- MaxInputs,
                  past     <- seen,
                  present  <- shown,
                  future   <- undone

\* Undo and redo bring back exactly what the deck showed, slide by slide and shape
\* by shape in their order, though every item that comes back is a new one.
UndoIsExact == History!GroupedSpec
=============================================================================
