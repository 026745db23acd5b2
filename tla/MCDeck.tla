------------------------------- MODULE MCDeck -------------------------------
(* The instance TLC checks of shared decks: two people together, and next to *)
(* that one of them alone with the history of what the deck showed.          *)
EXTENDS DeckHistory

CONSTANT MaxTogether   \* bound: the edits, undos and redos of the two

VARIABLE alone

allVars == <<hvars, alone>>
history == <<shown, seen, undone>>

DeckInit == HInit /\ alone \in BOOLEAN

Acts(c) == inputs < MaxTogether /\ (Edit(c) \/ Undo(c) \/ Redo(c))

DeckNext ==
  \/ alone /\ HNext /\ UNCHANGED alone
  \/ /\ ~alone
     /\ \E c \in Clients : Acts(c) \/ Connect(c) \/ Answer(c) \/ Receive(c)
     /\ UNCHANGED <<history, alone>>

\* The one alone has no network to wait for.
DeckSpec == DeckInit /\ [][DeckNext]_allVars /\ Fairness
=============================================================================
