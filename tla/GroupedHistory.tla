--------------------------- MODULE GroupedHistory ---------------------------
(* A linear history without a limit, where an edit made right after another *)
(* may belong to the same step, and a step that changed nothing in the end  *)
(* is skipped.                                                              *)
EXTENDS LinearHistory

\* An edit that continues the last one: the past stays, the undone is forgotten.
Amend == /\ past # <<>>
         /\ present' \in Contents
         /\ future' = <<>>
         /\ UNCHANGED past

\* An undo that finds nothing but steps without a difference.
SkipAll == /\ past # <<>> /\ \A n \in DOMAIN past : past[n] = present
           /\ past' = <<>>
           /\ UNCHANGED <<present, future>>

\* An undo that skips such steps first.
UndoFrom(n) ==
  /\ n \in DOMAIN past /\ \A m \in (n + 1)..Len(past) : past[m] = present
  /\ present' = past[n]
  /\ past' = SubSeq(past, 1, n - 1)
  /\ future' = Append(future, present)

GroupedNext == Next \/ Amend \/ SkipAll \/ \E n \in DOMAIN past : UndoFrom(n)
GroupedSpec == Init /\ [][GroupedNext]_vars
=============================================================================
