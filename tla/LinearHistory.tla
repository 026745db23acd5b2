--------------------------- MODULE LinearHistory ---------------------------
(* What an undo history promises its user, without the way it is kept: the  *)
(* document is one content out of a line of contents; an edit appends the   *)
(* content it leaves to the past and forgets the undone future, an undo and *)
(* a redo move one place along the line and bring back exactly what was     *)
(* there.  Only Depth contents of the past are kept.                        *)
EXTENDS Integers, Sequences

CONSTANTS Contents,  \* the contents a document can have
          Depth      \* how far back the history goes

VARIABLES past,      \* the contents undo goes back to, the oldest first
          present,   \* the content on the screen
          future     \* the contents redo goes forward to, the next one last

vars == <<past, present, future>>

Init == past = <<>> /\ present \in Contents /\ future = <<>>

\* The last Depth elements of s.
Newest(s) == IF Len(s) > Depth THEN SubSeq(s, Len(s) - Depth + 1, Len(s)) ELSE s

\* An edit: any content may follow, and what was undone is forgotten.
Edit == /\ past' = Newest(Append(past, present))
        /\ present' \in Contents
        /\ future' = <<>>

\* Back one place: the content that was there is there again.
Undo == /\ past # <<>>
        /\ present' = past[Len(past)]
        /\ past' = SubSeq(past, 1, Len(past) - 1)
        /\ future' = Append(future, present)

\* Forward one place.
Redo == /\ future # <<>>
        /\ present' = future[Len(future)]
        /\ future' = SubSeq(future, 1, Len(future) - 1)
        /\ past' = Newest(Append(past, present))

Next == Edit \/ Undo \/ Redo

Spec == Init /\ [][Next]_vars
=============================================================================
