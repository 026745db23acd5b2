--------------------------- MODULE Workbook_proofs ---------------------------
(***************************************************************************)
(* Proofs about Workbook.                                                  *)
(*                                                                         *)
(* The package history, which is pushed, capped, popped and cleared by     *)
(* other functions than the operations it belongs to, keeps step with them,*)
(* for any file, any edits and any undo depth.  Whatever is edited, undone *)
(* and redone, the authority has the entry it needs for the next undo and  *)
(* redo, the package identity of a sheet stays with the key of the sheet,  *)
(* and a proposal stays with the sheet it was made for.                    *)
(*                                                                         *)
(* For that, operations are told apart only by what they do to the number  *)
(* and the places of sheets.  The argument: the inverse of an operation    *)
(* leads back to as many sheets as there were; so the operations that can  *)
(* be undone, the newest first, walk a chain of sheet orders, and so do    *)
(* the entries of the authority and of the package, the authority's        *)
(* standing still where an edit was about charts.                          *)
(*                                                                         *)
(* The last part is about what the operations do to a workbook without its *)
(* calculated values: each, on any workbook it suits, returns operations   *)
(* that lead back to it, and so does every list of operations; calculating *)
(* changes nothing else.  WorkbookHistory_proofs goes on from there.       *)
(***************************************************************************)
EXTENDS Workbook, SequenceTheorems, FiniteSetTheorems, WellFoundedInduction, TLAPS

\* A history is a sequence, of whatever its entries are.
IsHistory(s) == s \in Seq(Range(s))

Histories == /\ IsHistory(undoOps) /\ IsHistory(redoOps)
             /\ IsHistory(preservedUndo) /\ IsHistory(preservedRedo)

\* What is undone and what can be undone fit in one history together, which is
\* why a redo may push the package entry without dropping the oldest.
TogetherWithinDepth == Len(undoOps) + Len(redoOps) <= MaxUndoDepth

\* An entry that was undone starts where the one undone after it ended.
RedoneInOrder ==
  \A n \in 1..(Len(preservedRedo) - 1) : preservedRedo[n].before = preservedRedo[n + 1].after

HistoryInv == Histories /\ TogetherWithinDepth /\ RedoneInOrder /\ HistoriesKeepStep

-----------------------------------------------------------------------------
(* Histories.                                                              *)

\* The length of a sequence without its last element, as SubSeq gives it.
LEMMA OneLess ==
    ASSUME NEW l \in Nat, l > 0
    PROVE  (IF 1 <= l - 1 THEN l - 1 - 1 + 1 ELSE 0) = l - 1
  OBVIOUS

\* The n-th element of a sequence of length q came from place m of one of
\* length l, and the next one from the next place.
CameFrom(l, q, n, m) ==
  /\ m \in 1..l /\ l > 0
  /\ n = q - 1 => n + 1 = q /\ m = l
  /\ n # q - 1 => /\ n + 1 \in 1..(q - 1) /\ m \in 1..(l - 1)
                  /\ (n + 1) + l + 1 - q = m + 1

\* A push to a sequence of length l that keeps d elements moves them so.
LEMMA PlacesAfterPush ==
    ASSUME NEW l \in Nat, NEW d \in Nat, d > 0, l <= d,
           NEW q, q = IF l < d THEN l + 1 ELSE d,
           NEW n \in 1..(q - 1), NEW m, m = n + l + 1 - q
    PROVE  CameFrom(l, q, n, m)
  BY DEF CameFrom

\* Nothing is a history.
LEMMA EmptyHistory == IsHistory(<<>>) /\ Len(<<>>) = 0
  BY EmptySeq, SeqOfRange DEF IsHistory

\* A history has a length, and an entry when it is not empty.
LEMMA HistoryLength ==
    ASSUME NEW s, IsHistory(s)
    PROVE  Len(s) \in Nat /\ (s # <<>> <=> Len(s) > 0)
  BY EmptySeq, LenProperties DEF IsHistory

\* An entry is added at the end.
LEMMA AppendToHistory ==
    ASSUME NEW s, IsHistory(s), NEW e
    PROVE  /\ IsHistory(Append(s, e))
           /\ Append(s, e) # <<>>
           /\ Len(Append(s, e)) = Len(s) + 1
           /\ Append(s, e)[Len(s) + 1] = e
           /\ \A n \in 1..Len(s) : Append(s, e)[n] = s[n]
<1> DEFINE S == Range(s) \cup {e}
<1>1. s \in Seq(S) /\ e \in S
  BY SeqMonotonic DEF IsHistory
<1> HIDE DEF S
<1>2. Append(s, e) \in Seq(S)
  BY <1>1, AppendProperties
<1>3. IsHistory(Append(s, e))
  BY <1>2, SeqOfRange DEF IsHistory
<1> QED
  BY <1>1, <1>3, AppendProperties

\* The last entry is taken off.
LEMMA FrontOfHistory ==
    ASSUME NEW s, IsHistory(s), s # <<>>
    PROVE  /\ IsHistory(Front(s))
           /\ Len(Front(s)) = Len(s) - 1
           /\ \A n \in 1..(Len(s) - 1) : Front(s)[n] = s[n]
           /\ Last(s) = s[Len(s)]
<1> DEFINE S == Range(s)
<1>1. s \in Seq(S) /\ Len(s) \in Nat /\ Len(s) > 0
  BY HistoryLength DEF IsHistory
<1> HIDE DEF S
<1>2. \A i \in 1..(Len(s) - 1) : s[i] \in S
  BY <1>1, ElementOfSeq
<1>3. /\ SubSeq(s, 1, Len(s) - 1) \in Seq(S)
      /\ Len(SubSeq(s, 1, Len(s) - 1)) = IF 1 <= Len(s) - 1 THEN Len(s) - 1 - 1 + 1 ELSE 0
      /\ \A i \in 1..(Len(s) - 1 - 1 + 1) : SubSeq(s, 1, Len(s) - 1)[i] = s[1 + i - 1]
  <2>1. 1 \in Int /\ Len(s) - 1 \in Int
    BY <1>1
  <2> QED
    BY <1>2, <2>1, SubSeqProperties
<1>4. IsHistory(Front(s))
  BY <1>3, SeqOfRange DEF IsHistory, Front
<1>5. Len(Front(s)) = Len(s) - 1
  <2>1. Front(s) = SubSeq(s, 1, Len(s) - 1)
    BY DEF Front
  <2>2. (IF 1 <= Len(s) - 1 THEN Len(s) - 1 - 1 + 1 ELSE 0) = Len(s) - 1
    BY <1>1, OneLess
  <2> QED
    BY <1>3, <2>1, <2>2, Zenon
<1>6. ASSUME NEW n \in 1..(Len(s) - 1)
      PROVE  Front(s)[n] = s[n]
  <2>1. n \in 1..(Len(s) - 1 - 1 + 1) /\ 1 + n - 1 = n
    BY <1>1
  <2> QED
    BY <1>3, <2>1 DEF Front
<1> QED
  BY <1>4, <1>5, <1>6 DEF Last

\* A pushed entry is the last one; the others are the newest of those there
\* were, all of them while there is room.
LEMMA PushToHistory ==
    ASSUME NEW s, IsHistory(s), Len(s) <= MaxUndoDepth, NEW e
    PROVE  /\ IsHistory(Push(s, e))
           /\ Push(s, e) # <<>>
           /\ Len(Push(s, e)) = IF Len(s) < MaxUndoDepth THEN Len(s) + 1 ELSE MaxUndoDepth
           /\ Push(s, e)[Len(Push(s, e))] = e
           /\ \A n \in 1..(Len(Push(s, e)) - 1) :
                Push(s, e)[n] = s[n + Len(s) + 1 - Len(Push(s, e))]
<1> DEFINE t == Append(s, e)
<1>1. /\ IsHistory(t) /\ t # <<>> /\ Len(t) = Len(s) + 1 /\ t[Len(s) + 1] = e
      /\ \A n \in 1..Len(s) : t[n] = s[n]
  BY AppendToHistory
<1>2. Len(s) \in Nat /\ MaxUndoDepth \in Nat /\ MaxUndoDepth > 0
  BY HistoryLength, DepthAssumption
<1>3. Push(s, e) = IF Len(t) > MaxUndoDepth
                   THEN SubSeq(t, Len(t) - MaxUndoDepth + 1, Len(t)) ELSE t
  BY DEF Push, Capped
<1> HIDE DEF t
<1>4. CASE Len(s) < MaxUndoDepth
  <2>1. Push(s, e) = t
    BY <1>1, <1>2, <1>3, <1>4
  <2>2. \A n \in 1..(Len(t) - 1) : t[n] = s[n + Len(s) + 1 - Len(t)]
    <3> SUFFICES ASSUME NEW n \in 1..(Len(t) - 1)
                 PROVE  t[n] = s[n + Len(s) + 1 - Len(t)]
      OBVIOUS
    <3>1. n \in 1..Len(s) /\ n + Len(s) + 1 - Len(t) = n
      BY <1>1, <1>2
    <3> QED
      BY <1>1, <3>1
  <2> QED
    BY <1>1, <1>2, <1>4, <2>1, <2>2
<1>5. CASE Len(s) = MaxUndoDepth
  <2>1. Push(s, e) = SubSeq(t, 2, Len(s) + 1)
    BY <1>1, <1>2, <1>3, <1>5
  <2>2. \A i \in 2..(Len(s) + 1) : t[i] \in Range(t)
    BY <1>1, <1>2, ElementOfSeq DEF IsHistory
  <2>3. 2 \in Int /\ Len(s) + 1 \in Int
    BY <1>2
  <2>4. /\ SubSeq(t, 2, Len(s) + 1) \in Seq(Range(t))
        /\ Len(SubSeq(t, 2, Len(s) + 1)) = IF 2 <= Len(s) + 1 THEN Len(s) + 1 - 2 + 1 ELSE 0
        /\ \A i \in 1..(Len(s) + 1 - 2 + 1) : SubSeq(t, 2, Len(s) + 1)[i] = t[2 + i - 1]
    BY <2>2, <2>3, SubSeqProperties
  <2>5. Len(Push(s, e)) = Len(s) /\ \A n \in 1..Len(s) : Push(s, e)[n] = t[n + 1]
    BY <1>2, <1>5, <2>1, <2>4
  <2>6. IsHistory(Push(s, e)) /\ Push(s, e) # <<>>
    <3>1. IsHistory(Push(s, e))
      BY <2>1, <2>4, SeqOfRange DEF IsHistory
    <3> QED
      BY <1>2, <1>5, <2>5, <3>1, HistoryLength
  <2>7. Push(s, e)[Len(Push(s, e))] = e
    BY <1>1, <1>2, <1>5, <2>5
  <2>8. \A n \in 1..(Len(Push(s, e)) - 1) :
          Push(s, e)[n] = s[n + Len(s) + 1 - Len(Push(s, e))]
    <3> SUFFICES ASSUME NEW n \in 1..(Len(s) - 1)
                 PROVE  Push(s, e)[n] = s[n + 1]
      BY <1>2, <2>5
    <3>1. n \in 1..Len(s) /\ n + 1 \in 1..Len(s)
      BY <1>2
    <3> QED
      BY <1>1, <2>5, <3>1
  <2> QED
    BY <1>2, <1>5, <2>5, <2>6, <2>7, <2>8
<1> QED
  BY <1>2, <1>4, <1>5
-----------------------------------------------------------------------------
(* Steps.                                                                  *)

\* The variables of the invariant.
historyVars == <<undoOps, redoOps, origins, preservedUndo, preservedRedo>>

\* The file is opened with no history.
LEMMA HistoryInit == Init => HistoryInv
<1> SUFFICES ASSUME Init PROVE HistoryInv
  OBVIOUS
<1>1. Histories
  BY EmptyHistory DEF Init, Histories
<1>2. TogetherWithinDepth /\ RedoneInOrder /\ HistoriesKeepStep
  BY EmptyHistory, DepthAssumption DEF Init, TogetherWithinDepth, RedoneInOrder, HistoriesKeepStep
<1> QED
  BY <1>1, <1>2 DEF HistoryInv

\* The lengths of the histories, in every state of the invariant.
LEMMA HistoryLengths ==
    ASSUME HistoryInv
    PROVE  /\ Len(undoOps) \in Nat /\ Len(redoOps) \in Nat
           /\ Len(undoOps) <= MaxUndoDepth
           /\ Len(undoOps) + Len(redoOps) <= MaxUndoDepth
           /\ Len(preservedUndo) = Len(undoOps) /\ Len(preservedRedo) = Len(redoOps)
           /\ undoOps # <<>> <=> Len(undoOps) > 0
           /\ redoOps # <<>> <=> Len(redoOps) > 0
           /\ preservedUndo # <<>> <=> Len(undoOps) > 0
           /\ preservedRedo # <<>> <=> Len(redoOps) > 0
<1>1. /\ Len(undoOps) \in Nat /\ Len(redoOps) \in Nat
      /\ undoOps # <<>> <=> Len(undoOps) > 0
      /\ redoOps # <<>> <=> Len(redoOps) > 0
      /\ preservedUndo # <<>> <=> Len(preservedUndo) > 0
      /\ preservedRedo # <<>> <=> Len(preservedRedo) > 0
  BY HistoryLength DEF HistoryInv, Histories
<1> QED
  BY <1>1, DepthAssumption DEF HistoryInv, TogetherWithinDepth, HistoriesKeepStep

\* An entry pushed above a history whose entries follow each other, and that
\* starts where the newest of them ended.
LEMMA PushKeepsOrder ==
    ASSUME NEW s, IsHistory(s), Len(s) <= MaxUndoDepth, NEW e,
           \A n \in 1..(Len(s) - 1) : s[n].after = s[n + 1].before,
           s # <<>> => Last(s).after = e.before
    PROVE  \A n \in 1..(Len(Push(s, e)) - 1) : Push(s, e)[n].after = Push(s, e)[n + 1].before
<1>0. PICK p : p = Push(s, e)
  OBVIOUS
<1>1. /\ Len(p) = IF Len(s) < MaxUndoDepth THEN Len(s) + 1 ELSE MaxUndoDepth
      /\ p[Len(p)] = e
      /\ \A n \in 1..(Len(p) - 1) : p[n] = s[n + Len(s) + 1 - Len(p)]
  BY <1>0, PushToHistory
<1>2. /\ Len(s) \in Nat /\ MaxUndoDepth \in Nat /\ MaxUndoDepth > 0
      /\ s # <<>> <=> Len(s) > 0
  BY HistoryLength, DepthAssumption
<1> SUFFICES ASSUME NEW n \in 1..(Len(p) - 1)
             PROVE  p[n].after = p[n + 1].before
  BY <1>0
<1>3. PICK m : m = n + Len(s) + 1 - Len(p)
  OBVIOUS
<1>4. CameFrom(Len(s), Len(p), n, m)
  <2>1. Len(p) = IF Len(s) < MaxUndoDepth THEN Len(s) + 1 ELSE MaxUndoDepth
    BY <1>1
  <2>2. Len(s) \in Nat /\ MaxUndoDepth \in Nat /\ MaxUndoDepth > 0
    BY <1>2
  <2> QED
    BY <1>3, <2>1, <2>2, PlacesAfterPush, Zenon
<1>5. p[n] = s[m] /\ s # <<>>
  BY <1>1, <1>2, <1>3, <1>4 DEF CameFrom
<1>6. CASE n = Len(p) - 1
  <2>1. p[n + 1] = e /\ s[m].after = e.before
    BY <1>1, <1>4, <1>5, <1>6 DEF Last, CameFrom
  <2> QED
    BY <1>5, <2>1
<1>7. CASE n # Len(p) - 1
  <2>1. p[n + 1] = s[m + 1]
    BY <1>1, <1>4, <1>7 DEF CameFrom
  <2>2. s[m].after = s[m + 1].before
    BY <1>4, <1>7 DEF CameFrom
  <2> QED
    BY <1>5, <2>1, <2>2
<1> QED
  BY <1>6, <1>7

\* An edit enters both histories, which drop their oldest together.
LEMMA CommitKeepsStep ==
    ASSUME HistoryInv, NEW ops, NEW inverse, Commit(ops, inverse)
    PROVE  HistoryInv'
<1> DEFINE entry == [before |-> origins, after |-> origins']
<1>1. /\ undoOps' = Push(undoOps, inverse) /\ redoOps' = <<>>
      /\ preservedUndo' = Push(preservedUndo, entry) /\ preservedRedo' = <<>>
  BY DEF Commit, PushPreserved
<1>2. entry.before = origins /\ entry.after = origins'
  OBVIOUS
<1> HIDE DEF entry
<1>3. /\ IsHistory(undoOps) /\ IsHistory(preservedUndo)
      /\ Len(undoOps) <= MaxUndoDepth /\ Len(preservedUndo) <= MaxUndoDepth
  BY HistoryLengths DEF HistoryInv, Histories
<1>4. Histories'
  BY <1>1, <1>3, EmptyHistory, PushToHistory DEF Histories
<1>5. TogetherWithinDepth'
  BY <1>1, <1>3, HistoryLengths, DepthAssumption, EmptyHistory, PushToHistory
     DEF TogetherWithinDepth
<1>6. RedoneInOrder'
  BY <1>1, EmptyHistory DEF RedoneInOrder
<1>7. HistoriesKeepStep'
  <2>1. Len(preservedUndo') = Len(undoOps') /\ Len(preservedRedo') = Len(redoOps')
    BY <1>1, <1>3, HistoryLengths, PushToHistory
  <2>2. Last(preservedUndo').after = origins'
    BY <1>1, <1>2, <1>3, PushToHistory DEF Last
  <2>3. \A n \in 1..(Len(preservedUndo') - 1) :
          preservedUndo'[n].after = preservedUndo'[n + 1].before
    BY <1>1, <1>2, <1>3, PushKeepsOrder DEF HistoryInv, HistoriesKeepStep
  <2> QED
    BY <1>1, <2>1, <2>2, <2>3 DEF HistoriesKeepStep
<1> QED
  BY <1>4, <1>5, <1>6, <1>7 DEF HistoryInv

\* An undo moves the newest entry of both histories to what can be redone.
LEMMA UndoKeepsStep ==
    ASSUME HistoryInv, UndoEdit
    PROVE  HistoryInv'
<1>1. /\ undoOps # <<>> /\ preservedUndo # <<>>
      /\ undoOps' = Front(undoOps)
      /\ origins' = Last(preservedUndo).before
      /\ preservedUndo' = Front(preservedUndo)
      /\ preservedRedo' = Append(preservedRedo, Last(preservedUndo))
  BY HistoryLengths DEF UndoEdit
<1>2. PICK inverse : redoOps' = Append(redoOps, inverse)
  BY DEF UndoEdit
<1>3. /\ IsHistory(undoOps) /\ IsHistory(redoOps)
      /\ IsHistory(preservedUndo) /\ IsHistory(preservedRedo)
  BY DEF HistoryInv, Histories
<1>4. /\ Last(preservedUndo) = preservedUndo[Len(undoOps)]
      /\ Len(preservedUndo') = Len(undoOps) - 1 /\ Len(undoOps') = Len(undoOps) - 1
      /\ \A n \in 1..(Len(undoOps) - 1) : preservedUndo'[n] = preservedUndo[n]
  BY <1>1, <1>3, HistoryLengths, FrontOfHistory
<1>5. /\ Len(preservedRedo') = Len(redoOps) + 1 /\ Len(redoOps') = Len(redoOps) + 1
      /\ preservedRedo'[Len(redoOps) + 1] = Last(preservedUndo)
      /\ \A n \in 1..Len(redoOps) : preservedRedo'[n] = preservedRedo[n]
  BY <1>1, <1>2, <1>3, HistoryLengths, AppendToHistory
<1>6. Histories'
  BY <1>1, <1>2, <1>3, FrontOfHistory, AppendToHistory DEF Histories
<1>7. TogetherWithinDepth'
  BY <1>4, <1>5, HistoryLengths, DepthAssumption DEF TogetherWithinDepth
<1>8. RedoneInOrder'
  <2> SUFFICES ASSUME NEW n \in 1..Len(redoOps)
               PROVE  preservedRedo'[n].before = preservedRedo'[n + 1].after
    BY <1>5, HistoryLengths DEF RedoneInOrder
  <2>1. CASE n = Len(redoOps)
    <3>1. preservedRedo'[n] = Last(preservedRedo) /\ preservedRedo # <<>>
      BY <1>5, <2>1, HistoryLengths DEF Last
    <3> QED
      BY <1>1, <1>5, <2>1, <3>1 DEF HistoryInv, HistoriesKeepStep
  <2>2. CASE n < Len(redoOps)
    <3>1. n + 1 \in 1..Len(redoOps) /\ n \in 1..(Len(preservedRedo) - 1)
      BY <2>2, HistoryLengths
    <3> QED
      BY <1>5, <3>1 DEF HistoryInv, RedoneInOrder
  <2> QED
    BY <2>1, <2>2, HistoryLengths
<1>9. HistoriesKeepStep'
  <2>1. Len(preservedUndo') = Len(undoOps') /\ Len(preservedRedo') = Len(redoOps')
    BY <1>4, <1>5
  <2>2. preservedUndo' # <<>> => Last(preservedUndo').after = origins'
    <3> SUFFICES ASSUME preservedUndo' # <<>>
                 PROVE  Last(preservedUndo').after = origins'
      OBVIOUS
    <3>1. Len(preservedUndo') > 0
      BY <1>6, HistoryLength DEF Histories
    <3> DEFINE m == Len(undoOps) - 1
    <3>2. m \in 1..(Len(undoOps) - 1) /\ m + 1 = Len(undoOps)
      BY <1>4, <3>1, HistoryLengths
    <3>3. Last(preservedUndo') = preservedUndo[m]
      BY <1>4, <3>2 DEF Last
    <3> HIDE DEF m
    <3>4. preservedUndo[m].after = preservedUndo[m + 1].before
      BY <3>2, HistoryLengths DEF HistoryInv, HistoriesKeepStep
    <3> QED
      BY <1>1, <1>4, <3>2, <3>3, <3>4
  <2>3. Last(preservedRedo').before = origins'
    BY <1>1, <1>5 DEF Last
  <2>4. \A n \in 1..(Len(preservedUndo') - 1) :
          preservedUndo'[n].after = preservedUndo'[n + 1].before
    <3> SUFFICES ASSUME NEW n \in 1..(Len(undoOps) - 1 - 1)
                 PROVE  preservedUndo'[n].after = preservedUndo'[n + 1].before
      BY <1>4
    <3>1. /\ n \in 1..(Len(undoOps) - 1) /\ n + 1 \in 1..(Len(undoOps) - 1)
          /\ n \in 1..(Len(preservedUndo) - 1)
      BY HistoryLengths
    <3> QED
      BY <1>4, <3>1 DEF HistoryInv, HistoriesKeepStep
  <2> QED
    BY <2>1, <2>2, <2>3, <2>4 DEF HistoriesKeepStep
<1> QED
  BY <1>6, <1>7, <1>8, <1>9 DEF HistoryInv

\* A redo moves them back: what is undone leaves room for it, so the history
\* of operations, which is capped, and the package's, which is not, agree.
LEMMA RedoKeepsStep ==
    ASSUME HistoryInv, RedoEdit
    PROVE  HistoryInv'
<1>1. /\ redoOps # <<>> /\ preservedRedo # <<>>
      /\ redoOps' = Front(redoOps)
      /\ origins' = Last(preservedRedo).after
      /\ preservedRedo' = Front(preservedRedo)
      /\ preservedUndo' = Append(preservedUndo, Last(preservedRedo))
  BY HistoryLengths DEF RedoEdit
<1>2. PICK inverse : undoOps' = Push(undoOps, inverse)
  BY DEF RedoEdit
<1>3. /\ IsHistory(undoOps) /\ IsHistory(redoOps)
      /\ IsHistory(preservedUndo) /\ IsHistory(preservedRedo)
      /\ Len(undoOps) < MaxUndoDepth
  BY <1>1, HistoryLengths, DepthAssumption DEF HistoryInv, Histories
<1>4. /\ Last(preservedRedo) = preservedRedo[Len(redoOps)]
      /\ Len(preservedRedo') = Len(redoOps) - 1 /\ Len(redoOps') = Len(redoOps) - 1
      /\ \A n \in 1..(Len(redoOps) - 1) : preservedRedo'[n] = preservedRedo[n]
  BY <1>1, <1>3, HistoryLengths, FrontOfHistory
<1>5. /\ Len(preservedUndo') = Len(undoOps) + 1 /\ Len(undoOps') = Len(undoOps) + 1
      /\ preservedUndo'[Len(undoOps) + 1] = Last(preservedRedo)
      /\ \A n \in 1..Len(undoOps) : preservedUndo'[n] = preservedUndo[n]
  BY <1>1, <1>2, <1>3, HistoryLengths, AppendToHistory, PushToHistory, DepthAssumption
<1>6. Histories'
  BY <1>1, <1>2, <1>3, HistoryLengths, FrontOfHistory, AppendToHistory, PushToHistory
     DEF Histories
<1>7. TogetherWithinDepth'
  BY <1>4, <1>5, HistoryLengths, DepthAssumption DEF TogetherWithinDepth
<1>8. RedoneInOrder'
  <2> SUFFICES ASSUME NEW n \in 1..(Len(redoOps) - 1 - 1)
               PROVE  preservedRedo'[n].before = preservedRedo'[n + 1].after
    BY <1>4 DEF RedoneInOrder
  <2>1. /\ n \in 1..(Len(redoOps) - 1) /\ n + 1 \in 1..(Len(redoOps) - 1)
        /\ n \in 1..(Len(preservedRedo) - 1)
    BY HistoryLengths
  <2> QED
    BY <1>4, <2>1 DEF HistoryInv, RedoneInOrder
<1>9. HistoriesKeepStep'
  <2>1. Len(preservedUndo') = Len(undoOps') /\ Len(preservedRedo') = Len(redoOps')
    BY <1>4, <1>5
  <2>2. Last(preservedUndo').after = origins'
    BY <1>1, <1>5 DEF Last
  <2>3. preservedRedo' # <<>> => Last(preservedRedo').before = origins'
    <3> SUFFICES ASSUME preservedRedo' # <<>>
                 PROVE  Last(preservedRedo').before = origins'
      OBVIOUS
    <3>1. Len(preservedRedo') > 0
      BY <1>6, HistoryLength DEF Histories
    <3> DEFINE m == Len(redoOps) - 1
    <3>2. m \in 1..(Len(redoOps) - 1) /\ m + 1 = Len(redoOps)
      BY <1>4, <3>1, HistoryLengths
    <3>3. Last(preservedRedo') = preservedRedo[m]
      BY <1>4, <3>2 DEF Last
    <3> HIDE DEF m
    <3>4. preservedRedo[m].before = preservedRedo[m + 1].after
      BY <3>2, HistoryLengths DEF HistoryInv, RedoneInOrder
    <3> QED
      BY <1>1, <1>4, <3>2, <3>3, <3>4
  <2>4. \A n \in 1..(Len(preservedUndo') - 1) :
          preservedUndo'[n].after = preservedUndo'[n + 1].before
    <3> SUFFICES ASSUME NEW n \in 1..Len(undoOps)
                 PROVE  preservedUndo'[n].after = preservedUndo'[n + 1].before
      BY <1>5, HistoryLengths
    <3>1. CASE n = Len(undoOps)
      <4>1. preservedUndo'[n] = Last(preservedUndo) /\ preservedUndo # <<>>
        BY <1>5, <3>1, HistoryLengths DEF Last
      <4>2. Last(preservedUndo).after = origins /\ Last(preservedRedo).before = origins
        BY <1>1, <4>1 DEF HistoryInv, HistoriesKeepStep
      <4> QED
        BY <1>5, <3>1, <4>1, <4>2
    <3>2. CASE n < Len(undoOps)
      <4>1. n + 1 \in 1..Len(undoOps) /\ n \in 1..(Len(preservedUndo) - 1)
        BY <3>2, HistoryLengths
      <4> QED
        BY <1>5, <4>1 DEF HistoryInv, HistoriesKeepStep
    <3> QED
      BY <3>1, <3>2, HistoryLengths
  <2> QED
    BY <2>1, <2>2, <2>3, <2>4 DEF HistoriesKeepStep
<1> QED
  BY <1>6, <1>7, <1>8, <1>9 DEF HistoryInv

\* What leaves the histories alone leaves them in step.
LEMMA HistoryUnchanged ==
    ASSUME HistoryInv, UNCHANGED historyVars
    PROVE  HistoryInv'
<1>1. Histories' /\ TogetherWithinDepth' /\ RedoneInOrder'
  BY DEF historyVars, HistoryInv, Histories, TogetherWithinDepth, RedoneInOrder
<1>2. HistoriesKeepStep'
  BY DEF historyVars, HistoryInv, HistoriesKeepStep
<1> QED
  BY <1>1, <1>2 DEF HistoryInv

\* Every step keeps the histories in step.
LEMMA HistoryStep ==
    ASSUME HistoryInv, [Next]_vars
    PROVE  HistoryInv'
<1>1. CASE Typing
  BY <1>1, CommitKeepsStep DEF Typing, EditCell, SetAndRecalculate
<1>2. CASE Structure
  BY <1>2, CommitKeepsStep DEF Structure, ApplyTransaction
<1>3. CASE Charts
  BY <1>3, CommitKeepsStep DEF Charts, EditChart, CommitSidecar
<1>4. CASE Agents
  <2>1. CASE \E p \in Suggestions : p[1] \in Sheets /\ Propose(p[1], p[2], p[3])
    BY <2>1, HistoryUnchanged DEF Propose, historyVars, stack, preserved
  <2>2. ASSUME NEW i, NEW force, AcceptProposal(i, force)
        PROVE  HistoryInv'
    <3>1. \/ UNCHANGED <<stack, preserved>>
          \/ SetAndRecalculate(proposals[i].sheet, proposals[i].at, proposals[i].input)
      BY <2>2 DEF AcceptProposal
    <3>2. CASE UNCHANGED <<stack, preserved>>
      BY <3>2, HistoryUnchanged DEF historyVars, stack, preserved
    <3>3. CASE SetAndRecalculate(proposals[i].sheet, proposals[i].at, proposals[i].input)
      BY <3>3, CommitKeepsStep DEF SetAndRecalculate
    <3> QED
      BY <3>1, <3>2, <3>3
  <2>3. CASE \E i \in 1..Len(proposals) : RejectProposal(i)
    BY <2>3, HistoryUnchanged DEF RejectProposal, historyVars, stack, preserved
  <2> QED
    BY <1>4, <2>1, <2>2, <2>3 DEF Agents
<1>5. CASE UndoEdit
  BY <1>5, UndoKeepsStep
<1>6. CASE RedoEdit
  BY <1>6, RedoKeepsStep
<1>7. CASE RecalculateAll
  BY <1>7, HistoryUnchanged DEF RecalculateAll, historyVars, stack, preserved
<1>8. CASE \E s \in Sheets : SetActiveSheet(s)
  BY <1>8, HistoryUnchanged DEF SetActiveSheet, historyVars, stack, preserved
<1>9. CASE UNCHANGED vars
  BY <1>9, HistoryUnchanged DEF vars, historyVars, stack, preserved
<1> QED
  BY <1>1, <1>2, <1>3, <1>4, <1>5, <1>6, <1>7, <1>8, <1>9 DEF Next

\* In every state a workbook can be in, the package history has one entry for
\* each entry of the undo and the redo history, past the depth too, each
\* starts where the one under it ended, and the newest meets the package as it
\* is (UndoStack and push_preserved_history, Workbook::undo and redo).
THEOREM HistoriesAgree == Spec => []HistoriesKeepStep
<1>1. Init => HistoryInv
  BY HistoryInit
<1>2. HistoryInv /\ [Next]_vars => HistoryInv'
  BY HistoryStep
<1>3. HistoryInv => HistoriesKeepStep
  BY DEF HistoryInv
<1> QED
  BY <1>1, <1>2, <1>3, PTL DEF Spec

-----------------------------------------------------------------------------
(* Sequences.                                                             *)

\* A set of numbers that is not empty has one with none right below it.
LEMMA FirstOfThem ==
    ASSUME NEW T, T \subseteq Nat, T # {}
    PROVE  \E n \in T : n = 0 \/ (n - 1 \in Nat /\ n - 1 \notin T)
<1>1. PICK n \in T : \A m \in T : ~(<<m, n>> \in OpToRel(<, Nat))
  BY NatLessThanWellFounded, WFMin
<1>2. n \in Nat
  OBVIOUS
<1>3. CASE n # 0
  <2>1. n - 1 \in Nat /\ n - 1 < n
    BY <1>2, <1>3
  <2>2. n - 1 \notin T
    BY <1>1, <1>2, <2>1 DEF OpToRel
  <2> QED
    BY <2>1, <2>2
<1> QED
  BY <1>3

\* A function on 1..n is a history.
LEMMA FunctionIsHistory ==
    ASSUME NEW n \in Nat, NEW f, f = [i \in 1..n |-> f[i]]
    PROVE  IsHistory(f) /\ Len(f) = n
<1> DEFINE S == Range(f)
<1>1. \A i \in 1..n : f[i] \in S
  BY DEF Range
<1>2. f \in [1..n -> S]
  BY <1>1
<1> HIDE DEF S
<1>3. f \in Seq(S) /\ Len(f) = n
  BY <1>2
<1> QED
  BY <1>3, SeqOfRange DEF IsHistory

\* And a history is one.
LEMMA HistoryIsFunction ==
    ASSUME NEW s, IsHistory(s)
    PROVE  /\ DOMAIN s = 1..Len(s) /\ Len(s) \in Nat /\ s = [i \in 1..Len(s) |-> s[i]]
           /\ s # <<>> <=> Len(s) > 0
<1> DEFINE S == Range(s)
<1>1. s \in Seq(S)
  BY DEF IsHistory
<1> HIDE DEF S
<1>2. Len(s) \in Nat /\ s \in [1..Len(s) -> S] /\ DOMAIN s = 1..Len(s)
  BY <1>1, LenProperties
<1> QED
  BY <1>2, HistoryLength

\* Two histories of the same entries are the same.
LEMMA SameHistory ==
    ASSUME NEW s, IsHistory(s), NEW t, IsHistory(t), Len(s) = Len(t),
           \A i \in 1..Len(s) : s[i] = t[i]
    PROVE  s = t
<1>1. s = [i \in 1..Len(s) |-> s[i]] /\ t = [i \in 1..Len(s) |-> t[i]]
  BY HistoryIsFunction
<1>2. [i \in 1..Len(s) |-> s[i]] = [i \in 1..Len(s) |-> t[i]]
  OBVIOUS
<1> QED
  BY <1>1, <1>2

\* A part of a history.
LEMMA PartOfHistory ==
    ASSUME NEW s, NEW m \in Int, NEW n \in Int
    PROVE  /\ IsHistory(SubSeq(s, m, n))
           /\ Len(SubSeq(s, m, n)) = IF m <= n THEN n - m + 1 ELSE 0
           /\ \A i \in 1..(n - m + 1) : SubSeq(s, m, n)[i] = s[m + i - 1]
<1> DEFINE S == {s[i] : i \in m..n}
<1>1. \A i \in m..n : s[i] \in S
  OBVIOUS
<1> HIDE DEF S
<1>2. /\ SubSeq(s, m, n) \in Seq(S)
      /\ Len(SubSeq(s, m, n)) = IF m <= n THEN n - m + 1 ELSE 0
      /\ \A i \in 1..(n - m + 1) : SubSeq(s, m, n)[i] = s[m + i - 1]
  BY <1>1, SubSeqProperties
<1> QED
  BY <1>2, SeqOfRange DEF IsHistory

\* What is listed keeps its length.
LEMMA ListedIs ==
    ASSUME NEW n \in Nat, NEW f
    PROVE  /\ IsHistory(Listed(f, n)) /\ Len(Listed(f, n)) = n
           /\ \A i \in 1..n : Listed(f, n)[i] = f[i]
<1>1. /\ IsHistory(SubSeq(f, 1, n))
      /\ Len(SubSeq(f, 1, n)) = IF 1 <= n THEN n - 1 + 1 ELSE 0
      /\ \A i \in 1..(n - 1 + 1) : SubSeq(f, 1, n)[i] = f[1 + i - 1]
  BY PartOfHistory
<1>2. Len(SubSeq(f, 1, n)) = n
  BY <1>1
<1>3. ASSUME NEW i \in 1..n PROVE SubSeq(f, 1, n)[i] = f[i]
  <2>1. i \in 1..(n - 1 + 1) /\ 1 + i - 1 = i
    OBVIOUS
  <2> QED
    BY <1>1, <2>1
<1> QED
  BY <1>1, <1>2, <1>3 DEF Listed

\* One history after another.
LEMMA JoinHistories ==
    ASSUME NEW s, IsHistory(s), NEW t, IsHistory(t)
    PROVE  /\ IsHistory(s \o t) /\ Len(s \o t) = Len(s) + Len(t)
           /\ \A i \in 1..Len(s) : (s \o t)[i] = s[i]
           /\ \A i \in 1..Len(t) : (s \o t)[Len(s) + i] = t[i]
<1> DEFINE S == Range(s) \cup Range(t)
<1>1. s \in Seq(S) /\ t \in Seq(S)
  BY SeqMonotonic DEF IsHistory
<1> HIDE DEF S
<1>2. /\ s \o t \in Seq(S) /\ Len(s \o t) = Len(s) + Len(t)
      /\ \A i \in 1..Len(s) + Len(t) : (s \o t)[i] = IF i <= Len(s) THEN s[i] ELSE t[i - Len(s)]
  BY <1>1, ConcatProperties
<1>3. Len(s) \in Nat /\ Len(t) \in Nat
  BY <1>1, LenProperties
<1>4. ASSUME NEW i \in 1..Len(s) PROVE (s \o t)[i] = s[i]
  BY <1>2, <1>3
<1>5. ASSUME NEW i \in 1..Len(t) PROVE (s \o t)[Len(s) + i] = t[i]
  <2>1. Len(s) + i \in 1..Len(s) + Len(t) /\ ~(Len(s) + i <= Len(s)) /\ Len(s) + i - Len(s) = i
    BY <1>3
  <2> QED
    BY <1>2, <2>1
<1> QED
  BY <1>2, <1>4, <1>5, SeqOfRange DEF IsHistory

\* One entry alone.
LEMMA OneIsHistory ==
    ASSUME NEW e
    PROVE  IsHistory(<<e>>) /\ Len(<<e>>) = 1 /\ <<e>>[1] = e
<1>1. <<e>> \in Seq({e})
  OBVIOUS
<1> QED
  BY <1>1, SeqOfRange DEF IsHistory

\* An entry replaced, or nothing.
LEMMA ReplacedHistory ==
    ASSUME NEW s, IsHistory(s), NEW i, NEW e
    PROVE  IsHistory([s EXCEPT ![i] = e]) /\ Len([s EXCEPT ![i] = e]) = Len(s)
<1> DEFINE t == [s EXCEPT ![i] = e]
<1>1. DOMAIN s = 1..Len(s) /\ Len(s) \in Nat
  BY HistoryIsFunction
<1>2. t = [j \in 1..Len(s) |-> t[j]]
  BY <1>1
<1> HIDE DEF t
<1>3. IsHistory(t) /\ Len(t) = Len(s)
  BY <1>1, <1>2, FunctionIsHistory
<1> QED
  BY <1>3 DEF t

\* An entry put in.
LEMMA InsertedHistory ==
    ASSUME NEW s, IsHistory(s), NEW i \in 1..(Len(s) + 1), NEW e
    PROVE  /\ IsHistory(InsertAt(s, i, e)) /\ Len(InsertAt(s, i, e)) = Len(s) + 1
           /\ InsertAt(s, i, e)[i] = e
           /\ \A j \in 1..(i - 1) : InsertAt(s, i, e)[j] = s[j]
           /\ \A j \in (i + 1)..(Len(s) + 1) : InsertAt(s, i, e)[j] = s[j - 1]
<1> DEFINE l == SubSeq(s, 1, i - 1)
           r == SubSeq(s, i, Len(s))
           lo == l \o <<e>>
<1>1. Len(s) \in Nat /\ i \in Int /\ i - 1 \in Int
  BY HistoryIsFunction
<1>2. /\ IsHistory(l) /\ Len(l) = (IF 1 <= i - 1 THEN i - 1 - 1 + 1 ELSE 0)
      /\ \A j \in 1..(i - 1 - 1 + 1) : l[j] = s[1 + j - 1]
  BY <1>1, PartOfHistory
<1>3. /\ IsHistory(r) /\ Len(r) = (IF i <= Len(s) THEN Len(s) - i + 1 ELSE 0)
      /\ \A j \in 1..(Len(s) - i + 1) : r[j] = s[i + j - 1]
  BY <1>1, PartOfHistory
<1> HIDE DEF l, r
<1>4. Len(l) = i - 1 /\ Len(r) = Len(s) - i + 1
  BY <1>1, <1>2, <1>3
<1>5. /\ IsHistory(lo) /\ Len(lo) = i /\ \A j \in 1..(i - 1) : lo[j] = l[j]
      /\ lo[i] = e
  <2>1. IsHistory(<<e>>) /\ Len(<<e>>) = 1 /\ <<e>>[1] = e
    BY OneIsHistory
  <2>2. /\ IsHistory(lo) /\ Len(lo) = Len(l) + 1
        /\ \A j \in 1..Len(l) : lo[j] = l[j]
        /\ lo[Len(l) + 1] = e
    BY <1>2, <2>1, JoinHistories
  <2>3. Len(l) + 1 = i
    BY <1>1, <1>4
  <2> QED
    BY <1>4, <2>2, <2>3
<1> HIDE DEF lo
<1>6. /\ IsHistory(lo \o r) /\ Len(lo \o r) = Len(lo) + Len(r)
      /\ \A j \in 1..Len(lo) : (lo \o r)[j] = lo[j]
      /\ \A j \in 1..Len(r) : (lo \o r)[Len(lo) + j] = r[j]
  <2>1. IsHistory(lo) /\ IsHistory(r)
    BY <1>3, <1>5
  <2> QED
    BY <2>1, JoinHistories
<1>7. InsertAt(s, i, e) = lo \o r
  BY DEF InsertAt, lo, l, r
<1>8. ASSUME NEW j \in 1..(i - 1) PROVE (lo \o r)[j] = s[j]
  <2>1. j \in 1..i /\ j \in 1..(i - 1 - 1 + 1) /\ 1 + j - 1 = j
    BY <1>1
  <2> QED
    BY <1>2, <1>5, <1>6, <2>1
<1>9. ASSUME NEW j \in (i + 1)..(Len(s) + 1) PROVE (lo \o r)[j] = s[j - 1]
  <2> DEFINE k == j - i
  <2>1. k \in 1..(Len(s) - i + 1) /\ i + k = j /\ i + k - 1 = j - 1
    BY <1>1
  <2> HIDE DEF k
  <2>2. (lo \o r)[i + k] = r[k]
    BY <1>4, <1>5, <1>6, <2>1
  <2>3. r[k] = s[i + k - 1]
    BY <1>3, <2>1
  <2> QED
    BY <2>1, <2>2, <2>3
<1>10. (lo \o r)[i] = e
  <2>1. i \in 1..i
    BY <1>1
  <2> QED
    BY <1>5, <1>6, <2>1
<1>11. Len(lo \o r) = Len(s) + 1
  BY <1>1, <1>4, <1>5, <1>6
<1> QED
  BY <1>6, <1>7, <1>8, <1>9, <1>10, <1>11

\* An entry taken out.
LEMMA RemovedHistory ==
    ASSUME NEW s, IsHistory(s), NEW i \in 1..Len(s)
    PROVE  /\ IsHistory(RemoveAt(s, i)) /\ Len(RemoveAt(s, i)) = Len(s) - 1
           /\ \A j \in 1..(i - 1) : RemoveAt(s, i)[j] = s[j]
           /\ \A j \in i..(Len(s) - 1) : RemoveAt(s, i)[j] = s[j + 1]
<1> DEFINE l == SubSeq(s, 1, i - 1)
           r == SubSeq(s, i + 1, Len(s))
<1>1. Len(s) \in Nat /\ i \in Int /\ i - 1 \in Int /\ i + 1 \in Int
  BY HistoryIsFunction
<1>2. /\ IsHistory(l) /\ Len(l) = (IF 1 <= i - 1 THEN i - 1 - 1 + 1 ELSE 0)
      /\ \A j \in 1..(i - 1 - 1 + 1) : l[j] = s[1 + j - 1]
  BY <1>1, PartOfHistory
<1>3. /\ IsHistory(r) /\ Len(r) = (IF i + 1 <= Len(s) THEN Len(s) - (i + 1) + 1 ELSE 0)
      /\ \A j \in 1..(Len(s) - (i + 1) + 1) : r[j] = s[i + 1 + j - 1]
  BY <1>1, PartOfHistory
<1> HIDE DEF l, r
<1>4. Len(l) = i - 1 /\ Len(r) = Len(s) - i
  BY <1>1, <1>2, <1>3
<1>6. /\ IsHistory(l \o r) /\ Len(l \o r) = Len(l) + Len(r)
      /\ \A j \in 1..Len(l) : (l \o r)[j] = l[j]
      /\ \A j \in 1..Len(r) : (l \o r)[Len(l) + j] = r[j]
  <2>1. IsHistory(l) /\ IsHistory(r)
    BY <1>2, <1>3
  <2> QED
    BY <2>1, JoinHistories
<1>7. RemoveAt(s, i) = l \o r
  BY DEF RemoveAt, l, r
<1>8. ASSUME NEW j \in 1..(i - 1) PROVE (l \o r)[j] = s[j]
  <2>1. j \in 1..(i - 1 - 1 + 1) /\ 1 + j - 1 = j
    BY <1>1
  <2> QED
    BY <1>2, <1>4, <1>6, <2>1
<1>9. ASSUME NEW j \in i..(Len(s) - 1) PROVE (l \o r)[j] = s[j + 1]
  <2> DEFINE k == j - i + 1
  <2>1. k \in 1..(Len(s) - (i + 1) + 1) /\ k \in 1..(Len(s) - i) /\ i - 1 + k = j /\ i + 1 + k - 1 = j + 1
    BY <1>1
  <2> HIDE DEF k
  <2>2. (l \o r)[Len(l) + k] = r[k]
    BY <1>4, <1>6, <2>1
  <2>3. r[k] = s[i + 1 + k - 1]
    BY <1>3, <2>1
  <2> QED
    BY <1>4, <2>1, <2>2, <2>3
<1>11. Len(l \o r) = Len(s) - 1
  BY <1>1, <1>4, <1>6
<1> QED
  BY <1>6, <1>7, <1>8, <1>9, <1>11

-----------------------------------------------------------------------------
(* Choosing from a sequence.                                              *)

\* Choosing from a sequence: every start of it has a choice made.
SelectedOf(f, s, S, n) ==
  f = [m \in 0..n |->
         IF m = 0 THEN <<>>
         ELSE IF s[m] \in S THEN Append(f[m - 1], s[m]) ELSE f[m - 1]]

\* There is such a choice, for every start.
LEMMA SelectedExists ==
    ASSUME NEW s, NEW S, NEW n \in Nat
    PROVE  \E f : SelectedOf(f, s, S, n)
<1> DEFINE T == {m \in Nat : ~\E f : SelectedOf(f, s, S, m)}
<1>1. SUFFICES T = {}
  OBVIOUS
<1>2. SUFFICES ASSUME T # {} PROVE FALSE
  OBVIOUS
<1>3. PICK m \in T : m = 0 \/ (m - 1 \in Nat /\ m - 1 \notin T)
  BY <1>2, FirstOfThem
<1>4. m \in Nat
  OBVIOUS
<1>5. CASE m = 0
  <2> DEFINE f == [k \in 0..0 |-> <<>>]
  <2>1. SelectedOf(f, s, S, 0)
    <3>1. ASSUME NEW k \in 0..0 PROVE k = 0
      OBVIOUS
    <3> QED
      BY <3>1 DEF SelectedOf
  <2> QED
    BY <1>5, <2>1
<1>6. CASE m - 1 \in Nat /\ m - 1 \notin T
  <2>1. PICK g : SelectedOf(g, s, S, m - 1)
    BY <1>6
  <2> DEFINE v == IF s[m] \in S THEN Append(g[m - 1], s[m]) ELSE g[m - 1]
             f == [k \in 0..m |-> IF k = m THEN v ELSE g[k]]
             body(k) == IF k = 0 THEN <<>>
                        ELSE IF s[k] \in S THEN Append(f[k - 1], s[k]) ELSE f[k - 1]
  <2>2. ASSUME NEW k \in 0..m PROVE f[k] = body(k)
    <3>1. CASE k = m
      <4>1. m # 0 /\ m - 1 \in 0..m /\ m - 1 # m
        BY <1>4, <1>6
      <4>2. f[m - 1] = g[m - 1] /\ f[k] = v
        BY <3>1, <4>1
      <4> QED
        BY <3>1, <4>1, <4>2
    <3>2. CASE k = 0
      <4>1. m # 0 /\ 0 \in 0..(m - 1)
        BY <1>4, <1>6
      <4> QED
        BY <2>1, <3>2, <4>1 DEF SelectedOf
    <3>3. CASE k # m /\ k # 0
      <4>1. k \in 0..(m - 1) /\ k - 1 \in 0..m /\ k - 1 # m
        BY <1>4, <1>6, <3>3
      <4>2. f[k] = g[k] /\ f[k - 1] = g[k - 1]
        BY <3>3, <4>1
      <4>3. g[k] = IF s[k] \in S THEN Append(g[k - 1], s[k]) ELSE g[k - 1]
        BY <2>1, <3>3, <4>1 DEF SelectedOf
      <4> QED
        BY <3>3, <4>2, <4>3
    <3> QED
      BY <3>1, <3>2, <3>3
  <2>3. f = [k \in 0..m |-> f[k]]
    OBVIOUS
  <2> HIDE DEF f
  <2>4. f = [k \in 0..m |-> body(k)]
    BY <2>2, <2>3
  <2>5. SelectedOf(f, s, S, m)
    BY <2>4 DEF SelectedOf
  <2> QED
    BY <2>5
<1> QED
  BY <1>3, <1>5, <1>6

\* The choice made of a sequence.
LEMMA SelectedIs ==
    ASSUME NEW s, IsHistory(s), NEW S
    PROVE  \E f : SelectedOf(f, s, S, Len(s)) /\ Selected(s, S) = f[Len(s)]
<1> DEFINE f == CHOOSE f : SelectedOf(f, s, S, Len(s))
<1>1. SelectedOf(f, s, S, Len(s))
  BY SelectedExists, HistoryIsFunction
<1>2. Selected(s, S) = f[Len(s)]
  BY DEF Selected, SelectedOf
<1> QED
  BY <1>1, <1>2

\* What is chosen is a sequence, all of it when all is wanted and nothing when nothing is.
LEMMA WhatIsSelected ==
    ASSUME NEW s, IsHistory(s), NEW S
    PROVE  /\ IsHistory(Selected(s, S))
           /\ (\A i \in 1..Len(s) : s[i] \in S) => Selected(s, S) = s
           /\ (\A i \in 1..Len(s) : s[i] \notin S) => Selected(s, S) = <<>>
<1>1. PICK f : SelectedOf(f, s, S, Len(s)) /\ Selected(s, S) = f[Len(s)]
  BY SelectedIs
<1>2. Len(s) \in Nat
  BY HistoryIsFunction
<1>3. /\ f[0] = <<>>
      /\ \A m \in 1..Len(s) : f[m] = IF s[m] \in S THEN Append(f[m - 1], s[m]) ELSE f[m - 1]
  <2>1. 0 \in 0..Len(s)
    BY <1>2
  <2>2. ASSUME NEW m \in 1..Len(s) PROVE m \in 0..Len(s) /\ m # 0
    BY <1>2
  <2> QED
    BY <1>1, <2>1, <2>2 DEF SelectedOf
<1> DEFINE Good(m) ==
             /\ IsHistory(f[m])
             /\ (\A i \in 1..Len(s) : s[i] \in S) =>
                  Len(f[m]) = m /\ \A i \in 1..m : f[m][i] = s[i]
             /\ (\A i \in 1..Len(s) : s[i] \notin S) => f[m] = <<>>
           T == {m \in 0..Len(s) : ~Good(m)}
<1>4. Good(0)
  <2>1. \A i \in 1..0 : FALSE
    OBVIOUS
  <2> QED
    BY <1>3, <2>1, EmptyHistory
<1>5. ASSUME NEW m \in 1..Len(s), Good(m - 1) PROVE Good(m)
  <2> DEFINE t == f[m - 1]
  <2>1. f[m] = IF s[m] \in S THEN Append(t, s[m]) ELSE t
    BY <1>3
  <2>2. /\ IsHistory(Append(t, s[m])) /\ Len(Append(t, s[m])) = Len(t) + 1
        /\ Append(t, s[m])[Len(t) + 1] = s[m]
        /\ \A n \in 1..Len(t) : Append(t, s[m])[n] = t[n]
    BY <1>5, AppendToHistory
  <2>3. IsHistory(f[m])
    BY <1>5, <2>1, <2>2
  <2>4. ASSUME \A i \in 1..Len(s) : s[i] \in S
        PROVE  Len(f[m]) = m /\ \A i \in 1..m : f[m][i] = s[i]
    <3>1. Len(t) = m - 1 /\ \A i \in 1..(m - 1) : t[i] = s[i]
      BY <1>5, <2>4
    <3>2. f[m] = Append(t, s[m])
      BY <2>1, <2>4
    <3> HIDE DEF t
    <3>3. Len(f[m]) = m /\ f[m][m] = s[m]
      BY <1>2, <2>2, <3>1, <3>2
    <3>4. ASSUME NEW i \in 1..m PROVE f[m][i] = s[i]
      <4>1. i = m \/ i \in 1..(m - 1)
        BY <1>2
      <4> QED
        BY <2>2, <3>1, <3>2, <3>3, <4>1
    <3> QED
      BY <3>3, <3>4
  <2>5. ASSUME \A i \in 1..Len(s) : s[i] \notin S PROVE f[m] = <<>>
    BY <1>5, <2>1, <2>5
  <2> QED
    BY <2>3, <2>4, <2>5
<1>6. T = {}
  <2> SUFFICES ASSUME T # {} PROVE FALSE
    OBVIOUS
  <2>1. T \subseteq Nat
    BY <1>2
  <2>2. PICK m \in T : m = 0 \/ (m - 1 \in Nat /\ m - 1 \notin T)
    BY <2>1, FirstOfThem
  <2>3. m \in 0..Len(s) /\ ~Good(m)
    OBVIOUS
  <2> HIDE DEF Good
  <2>4. m # 0
    BY <1>4, <2>3
  <2>5. m \in 1..Len(s) /\ m - 1 \in 0..Len(s)
    BY <1>2, <2>3, <2>4
  <2>6. Good(m - 1)
    BY <2>2, <2>4, <2>5
  <2> QED
    BY <1>5, <2>3, <2>5, <2>6
<1>7. Good(Len(s))
  <2>1. Len(s) \in 0..Len(s)
    BY <1>2
  <2> HIDE DEF Good
  <2> QED
    BY <1>6, <2>1
<1>8. (\A i \in 1..Len(s) : s[i] \in S) => f[Len(s)] = s
  BY <1>7, SameHistory
<1> QED
  BY <1>1, <1>7, <1>8

\* The operations that put cells back set cells, whatever the cells.
LEMMA RestoresSet ==
    ASSUME NEW wb, IsHistory(wb), NEW places
    PROVE  /\ IsHistory(Restores(wb, places))
           /\ \A n \in 1..Len(Restores(wb, places)) : Restores(wb, places)[n].op = "SetCell"
<1> DEFINE at == Selected(InOrder(wb), places)
           f == [n \in 1..Len(at) |-> SetCell(at[n][1], at[n][2], CellAt(wb, at[n][1], at[n][2]))]
<1>1. Len(wb) * MaxRow \in Nat
  <2>1. Len(wb) \in Nat /\ MaxRow \in Nat
    BY HistoryIsFunction, MaxRowAssumption
  <2> QED
    BY <2>1
<1>2. IsHistory(InOrder(wb))
  BY <1>1, ListedIs DEF InOrder
<1>3. Len(at) \in Nat
  BY <1>2, WhatIsSelected, HistoryIsFunction
<1> HIDE DEF at
<1>4. ASSUME NEW n \in 1..Len(at) PROVE f[n].op = "SetCell"
  BY DEF SetCell
<1>5. Restores(wb, places) = Listed(f, Len(at))
  BY DEF Restores, at
<1> HIDE DEF f
<1>6. /\ IsHistory(Listed(f, Len(at))) /\ Len(Listed(f, Len(at))) = Len(at)
      /\ \A i \in 1..Len(at) : Listed(f, Len(at))[i] = f[i]
  BY <1>3, ListedIs
<1> QED
  BY <1>4, <1>5, <1>6

-----------------------------------------------------------------------------
(* Operations and the number of sheets they leave.                        *)

\* The operations there are, and those that shift sheets.
Kinds == {"SetCell", "InsertRow", "DeleteRow", "AddSheet", "RemoveSheet", "RenameSheet",
          "RestoreSheet", "AddChart", "RemoveChart", "SetAnchor"}
Shifts(op) == op.op \in {"AddSheet", "RemoveSheet"}

\* How many sheets an operation leaves of k, and when its index is one of them.
SheetsAfter(op, k) ==
  IF op.op = "AddSheet" THEN k + 1 ELSE IF op.op = "RemoveSheet" THEN k - 1 ELSE k
Fits(op, k) ==
  /\ op.op \in Kinds
  /\ op.op = "AddSheet" => op.index \in 1..(k + 1)
  /\ op.op = "RemoveSheet" => op.index \in 1..k

\* The operations of a list fit one after the other, and lead from a sheets to b.
Counts(ops, c) ==
  \A n \in 1..Len(ops) : Fits(ops[n], c[n - 1]) /\ c[n] = SheetsAfter(ops[n], c[n - 1])
Leads(ops, a, b) ==
  /\ IsHistory(ops)
  /\ \E c : /\ \A n \in 0..Len(ops) : c[n] \in Nat
            /\ c[0] = a /\ c[Len(ops)] = b /\ Counts(ops, c)

\* A list of operations is one of charts, or of what the authority takes.
Charting(ops)   == \A n \in 1..Len(ops) : IsSidecar(ops[n])
Structural(ops) == \A n \in 1..Len(ops) : ~IsSidecar(ops[n])
HasShift(ops)   == \E n \in 1..Len(ops) : Shifts(ops[n])

\* No operation changes nothing.
LEMMA NothingLeads ==
    ASSUME NEW a \in Nat
    PROVE  Leads(<<>>, a, a)
<1> DEFINE c == [n \in {0} |-> a]
<1>1. IsHistory(<<>>) /\ Len(<<>>) = 0
  BY EmptyHistory
<1>2. \A n \in 0..0 : c[n] \in Nat
  OBVIOUS
<1>3. c[0] = a /\ Counts(<<>>, c)
  BY <1>1 DEF Counts
<1> QED
  BY <1>1, <1>2, <1>3 DEF Leads

\* One operation, fit for the sheets there are.
LEMMA OneLeads ==
    ASSUME NEW a \in Nat, NEW op, Fits(op, a)
    PROVE  SheetsAfter(op, a) \in Nat /\ Leads(<<op>>, a, SheetsAfter(op, a))
<1> DEFINE b == SheetsAfter(op, a)
           c == [n \in {0, 1} |-> IF n = 0 THEN a ELSE b]
<1>1. IsHistory(<<op>>) /\ Len(<<op>>) = 1 /\ <<op>>[1] = op
  BY OneIsHistory
<1>2. b \in Nat
  BY DEF SheetsAfter, Fits
<1>3. c[0] = a /\ c[1] = b
  OBVIOUS
<1>4. \A n \in 0..1 : c[n] \in Nat
  BY <1>2, <1>3
<1> HIDE DEF c
<1>5. Counts(<<op>>, c)
  <2> SUFFICES ASSUME NEW n \in 1..1
               PROVE  Fits(<<op>>[n], c[n - 1]) /\ c[n] = SheetsAfter(<<op>>[n], c[n - 1])
    BY <1>1 DEF Counts
  <2>1. n = 1 /\ n - 1 = 0
    OBVIOUS
  <2> QED
    BY <1>1, <1>3, <2>1
<1>6. Leads(<<op>>, a, b)
  BY <1>1, <1>3, <1>4, <1>5 DEF Leads
<1> QED
  BY <1>2, <1>6

\* One list after the other.
LEMMA JoinedLead ==
    ASSUME NEW x, NEW y, NEW a, NEW b, NEW e, Leads(x, a, b), Leads(y, b, e)
    PROVE  Leads(x \o y, a, e)
<1>1. PICK c : /\ \A n \in 0..Len(x) : c[n] \in Nat
               /\ c[0] = a /\ c[Len(x)] = b /\ Counts(x, c)
  BY DEF Leads
<1>2. PICK d : /\ \A n \in 0..Len(y) : d[n] \in Nat
               /\ d[0] = b /\ d[Len(y)] = e /\ Counts(y, d)
  BY DEF Leads
<1>3. IsHistory(x) /\ IsHistory(y)
  BY DEF Leads
<1>4. Len(x) \in Nat /\ Len(y) \in Nat
  BY <1>3, HistoryIsFunction
<1>5. /\ IsHistory(x \o y) /\ Len(x \o y) = Len(x) + Len(y)
      /\ \A i \in 1..Len(x) : (x \o y)[i] = x[i]
      /\ \A i \in 1..Len(y) : (x \o y)[Len(x) + i] = y[i]
  BY <1>3, JoinHistories
<1> DEFINE l == Len(x)
           f == [n \in 0..(Len(x) + Len(y)) |-> IF n <= Len(x) THEN c[n] ELSE d[n - Len(x)]]
<1>6. \A n \in 0..l : n \in 0..(l + Len(y)) /\ f[n] = c[n]
  BY <1>4
<1>7. ASSUME NEW n \in 0..Len(y) PROVE f[l + n] = d[n]
  <2>1. l + n \in 0..(l + Len(y)) /\ l + n - l = n
    BY <1>4
  <2>2. CASE n = 0
    BY <1>1, <1>2, <1>4, <1>6, <2>2
  <2>3. CASE n # 0
    <3>1. ~(l + n <= l)
      BY <1>4, <2>3
    <3> QED
      BY <2>1, <3>1
  <2> QED
    BY <2>2, <2>3
<1> HIDE DEF f
<1>8. ASSUME NEW n \in 0..(l + Len(y)) PROVE f[n] \in Nat
  <2>1. n \in 0..l \/ (n - l \in 0..Len(y) /\ l + (n - l) = n)
    BY <1>4
  <2> QED
    BY <1>1, <1>2, <1>6, <1>7, <2>1
<1>9. f[0] = a /\ f[l + Len(y)] = e
  BY <1>1, <1>2, <1>4, <1>6, <1>7
<1>10. ASSUME NEW n \in 1..(l + Len(y))
       PROVE  Fits((x \o y)[n], f[n - 1]) /\ f[n] = SheetsAfter((x \o y)[n], f[n - 1])
  <2>1. CASE n <= l
    <3>1. n \in 1..l /\ n \in 0..l /\ n - 1 \in 0..l
      BY <1>4, <2>1
    <3>2. f[n] = c[n] /\ f[n - 1] = c[n - 1] /\ (x \o y)[n] = x[n]
      BY <1>5, <1>6, <3>1
    <3> QED
      BY <1>1, <3>1, <3>2 DEF Counts
  <2>2. CASE ~(n <= l)
    <3> DEFINE m == n - l
    <3>1. m \in 1..Len(y) /\ m \in 0..Len(y) /\ m - 1 \in 0..Len(y) /\ l + m = n /\ l + (m - 1) = n - 1
      BY <1>4, <2>2
    <3> HIDE DEF m
    <3>2. f[n] = d[m] /\ f[n - 1] = d[m - 1] /\ (x \o y)[n] = y[m]
      BY <1>5, <1>7, <3>1
    <3> QED
      BY <1>2, <3>1, <3>2 DEF Counts
  <2> QED
    BY <2>1, <2>2
<1>11. Counts(x \o y, f)
  BY <1>5, <1>10 DEF Counts
<1> QED
  BY <1>5, <1>8, <1>9, <1>11 DEF Leads

\* Setting cells shifts nothing.
LEMMA SettingsLead ==
    ASSUME NEW x, IsHistory(x), \A n \in 1..Len(x) : x[n].op = "SetCell", NEW a \in Nat
    PROVE  Leads(x, a, a) /\ Structural(x)
<1> DEFINE c == [n \in 0..Len(x) |-> a]
<1>1. Len(x) \in Nat
  BY HistoryIsFunction
<1>2. \A n \in 0..Len(x) : c[n] = a
  OBVIOUS
<1>3. \A n \in 1..Len(x) : n \in 0..Len(x) /\ n - 1 \in 0..Len(x)
  BY <1>1
<1>4. 0 \in 0..Len(x) /\ Len(x) \in 0..Len(x)
  BY <1>1
<1> HIDE DEF c
<1>5. Counts(x, c)
  BY <1>2, <1>3 DEF Counts, Fits, SheetsAfter, Kinds
<1>6. Leads(x, a, a)
  BY <1>2, <1>4, <1>5 DEF Leads
<1> QED
  BY <1>6 DEF Structural, IsSidecar

\* Of what two lists are, their join is too.
LEMMA JoinedKinds ==
    ASSUME NEW x, IsHistory(x), NEW y, IsHistory(y)
    PROVE  /\ Charting(x) /\ Charting(y) => Charting(x \o y)
           /\ Structural(x) /\ Structural(y) => Structural(x \o y)
           /\ HasShift(x) \/ HasShift(y) => HasShift(x \o y)
           /\ x # <<>> \/ y # <<>> => x \o y # <<>>
<1>1. /\ IsHistory(x \o y) /\ Len(x \o y) = Len(x) + Len(y)
      /\ \A i \in 1..Len(x) : (x \o y)[i] = x[i]
      /\ \A i \in 1..Len(y) : (x \o y)[Len(x) + i] = y[i]
  BY JoinHistories
<1>2. Len(x) \in Nat /\ Len(y) \in Nat /\ (x # <<>> <=> Len(x) > 0) /\ (y # <<>> <=> Len(y) > 0)
  BY HistoryIsFunction
<1>3. ASSUME NEW n \in 1..(Len(x) + Len(y))
      PROVE  \/ n \in 1..Len(x) /\ (x \o y)[n] = x[n]
             \/ \E m \in 1..Len(y) : (x \o y)[n] = y[m]
  <2>1. CASE ~(n <= Len(x))
    <3> DEFINE m == n - Len(x)
    <3>1. m \in 1..Len(y) /\ Len(x) + m = n
      BY <1>2, <2>1
    <3> HIDE DEF m
    <3> QED
      BY <1>1, <3>1
  <2> QED
    BY <1>1, <1>2, <2>1
<1>4. Charting(x) /\ Charting(y) => Charting(x \o y)
  BY <1>1, <1>3 DEF Charting
<1>5. Structural(x) /\ Structural(y) => Structural(x \o y)
  BY <1>1, <1>3 DEF Structural
<1>6. HasShift(x) => HasShift(x \o y)
  <2> SUFFICES ASSUME NEW n \in 1..Len(x), Shifts(x[n]) PROVE HasShift(x \o y)
    BY DEF HasShift
  <2>1. n \in 1..Len(x \o y)
    BY <1>1, <1>2
  <2> QED
    BY <1>1, <2>1 DEF HasShift
<1>7. HasShift(y) => HasShift(x \o y)
  <2> SUFFICES ASSUME NEW n \in 1..Len(y), Shifts(y[n]) PROVE HasShift(x \o y)
    BY DEF HasShift
  <2>1. Len(x) + n \in 1..Len(x \o y)
    BY <1>1, <1>2
  <2> QED
    BY <1>1, <2>1 DEF HasShift
<1>8. x # <<>> \/ y # <<>> => x \o y # <<>>
  <2>1. x \o y # <<>> <=> Len(x \o y) > 0
    BY <1>1, HistoryIsFunction
  <2> QED
    BY <1>1, <1>2, <2>1
<1> QED
  BY <1>4, <1>5, <1>6, <1>7, <1>8

-----------------------------------------------------------------------------
(* What one operation does, and its inverse.                              *)

\* What an operation does to the number of sheets, and what its inverse does.
Turns(wb, op, done) ==
  /\ IsHistory(done.wb) /\ Len(done.wb) = SheetsAfter(op, Len(wb))
  /\ done.inverse # <<>>
  /\ Leads(done.inverse, SheetsAfter(op, Len(wb)), Len(wb))
  /\ IsSidecar(op) => Charting(done.inverse)
  /\ ~IsSidecar(op) => Structural(done.inverse)
  /\ Shifts(op) => HasShift(done.inverse)

\* One operation back, and cells that are set.
LEMMA BackAndSet ==
    ASSUME NEW wb, IsHistory(wb), NEW op, Fits(op, Len(wb)), NEW after, NEW x, NEW back,
           IsHistory(after), Len(after) = SheetsAfter(op, Len(wb)),
           Fits(back, Len(after)), SheetsAfter(back, Len(after)) = Len(wb),
           ~IsSidecar(op), ~IsSidecar(back), Shifts(op) => Shifts(back),
           IsHistory(x), \A n \in 1..Len(x) : x[n].op = "SetCell"
    PROVE  Turns(wb, op, Done(after, <<back>> \o x))
<1> DEFINE all == <<back>> \o x
<1>1. Len(wb) \in Nat /\ Len(after) \in Nat
  BY HistoryIsFunction
<1>2. Leads(<<back>>, Len(after), Len(wb))
  BY <1>1, OneLeads
<1>3. Leads(x, Len(wb), Len(wb)) /\ Structural(x)
  BY <1>1, SettingsLead
<1>4. Leads(all, Len(after), Len(wb))
  BY <1>2, <1>3, JoinedLead
<1>5. IsHistory(<<back>>) /\ Len(<<back>>) = 1 /\ <<back>>[1] = back
  BY OneIsHistory
<1>6. Structural(<<back>>) /\ (Shifts(op) => HasShift(<<back>>)) /\ <<back>> # <<>>
  <2>1. \A n \in 1..1 : n = 1
    OBVIOUS
  <2>2. 1 \in 1..1
    OBVIOUS
  <2> QED
    BY <1>5, <2>1, <2>2 DEF Structural, HasShift
<1>7. Structural(all) /\ (Shifts(op) => HasShift(all)) /\ all # <<>>
  BY <1>3, <1>5, <1>6, JoinedKinds
<1> HIDE DEF all
<1>8. Turns(wb, op, Done(after, all))
  BY <1>4, <1>7 DEF Turns, Done
<1> QED
  BY <1>8 DEF all

\* One operation back.
LEMMA OneBack ==
    ASSUME NEW wb, IsHistory(wb), NEW op, Fits(op, Len(wb)), NEW after, NEW back,
           IsHistory(after), Len(after) = SheetsAfter(op, Len(wb)),
           Fits(back, Len(after)), SheetsAfter(back, Len(after)) = Len(wb),
           IsSidecar(op) <=> IsSidecar(back), Shifts(op) => Shifts(back)
    PROVE  Turns(wb, op, Done(after, <<back>>))
<1>1. Len(wb) \in Nat /\ Len(after) \in Nat
  BY HistoryIsFunction
<1>2. Leads(<<back>>, Len(after), Len(wb))
  BY <1>1, OneLeads
<1>5. IsHistory(<<back>>) /\ Len(<<back>>) = 1 /\ <<back>>[1] = back
  BY OneIsHistory
<1>6. /\ IsSidecar(op) => Charting(<<back>>)
      /\ ~IsSidecar(op) => Structural(<<back>>)
      /\ (Shifts(op) => HasShift(<<back>>)) /\ <<back>> # <<>>
  <2>1. \A n \in 1..1 : n = 1
    OBVIOUS
  <2>2. 1 \in 1..1
    OBVIOUS
  <2> QED
    BY <1>5, <2>1, <2>2 DEF Structural, Charting, HasShift
<1> QED
  BY <1>2, <1>6 DEF Turns, Done

\* Cells are mapped sheet by sheet.
LEMMA MappedIs ==
    ASSUME NEW wb, IsHistory(wb), NEW new
    PROVE  IsHistory(MapCells(wb, new)) /\ Len(MapCells(wb, new)) = Len(wb)
<1>1. Len(wb) \in Nat
  BY HistoryIsFunction
<1> QED
  BY <1>1, ListedIs DEF MapCells

\* A sheet changed in place.
LEMMA SheetChanged ==
    ASSUME NEW wb, IsHistory(wb), NEW t, DOMAIN t = DOMAIN wb, t = [i \in DOMAIN wb |-> t[i]]
    PROVE  IsHistory(t) /\ Len(t) = Len(wb)
<1>1. DOMAIN wb = 1..Len(wb) /\ Len(wb) \in Nat
  BY HistoryIsFunction
<1> QED
  BY <1>1, FunctionIsHistory

\* Rows inserted or deleted, formulas rewritten and cells shifted.
LEMMA RowsTurn ==
    ASSUME NEW wb, IsHistory(wb), NEW op, Fits(op, Len(wb)), NEW back,
           op.op \in {"InsertRow", "DeleteRow"}, back.op \in {"InsertRow", "DeleteRow"}
    PROVE  Turns(wb, op, ApplyRows(wb, op, back))
<1> DEFINE remapped == RemapFormulas(wb, op)
           fallen   == {<<op.sheet, r>> : r \in {q \in Occupied(wb, op.sheet) : RemapRow(q, op) = 0}}
           x == Restores(remapped, fallen)
           y == Restores(wb, Rewritten(wb, op))
           after == ShiftCells(remapped, op.sheet, op)
<1>1. IsHistory(remapped) /\ Len(remapped) = Len(wb)
  BY MappedIs DEF RemapFormulas
<1> HIDE DEF remapped
<1>2. IsHistory(after) /\ Len(after) = Len(wb)
  BY <1>1, MappedIs DEF ShiftCells
<1>3. /\ IsHistory(x) /\ \A n \in 1..Len(x) : x[n].op = "SetCell"
      /\ IsHistory(y) /\ \A n \in 1..Len(y) : y[n].op = "SetCell"
  BY <1>1, RestoresSet
<1>4. ApplyRows(wb, op, back) = Done(after, (<<back>> \o x) \o y)
  BY DEF ApplyRows, remapped
<1> HIDE DEF x, y, after, fallen
<1>5. Len(wb) \in Nat
  BY HistoryIsFunction
<1>6. /\ SheetsAfter(op, Len(wb)) = Len(wb) /\ SheetsAfter(back, Len(wb)) = Len(wb)
      /\ Fits(back, Len(wb)) /\ ~IsSidecar(op) /\ ~IsSidecar(back) /\ ~Shifts(op)
  BY DEF SheetsAfter, Fits, Kinds, IsSidecar, Shifts
<1>7. Turns(wb, op, Done(after, <<back>> \o x))
  BY <1>2, <1>3, <1>6, BackAndSet
<1> DEFINE z == <<back>> \o x
<1>8. z # <<>> /\ Leads(z, Len(wb), Len(wb)) /\ Structural(z)
  BY <1>6, <1>7 DEF Turns, Done
<1> HIDE DEF z
<1>9. Leads(y, Len(wb), Len(wb)) /\ Structural(y)
  BY <1>3, <1>5, SettingsLead
<1>10. Leads(z \o y, Len(wb), Len(wb))
  BY <1>8, <1>9, JoinedLead
<1>11. Structural(z \o y) /\ z \o y # <<>>
  <2>1. IsHistory(z)
    BY <1>8 DEF Leads
  <2> QED
    BY <1>3, <1>8, <1>9, <2>1, JoinedKinds
<1>12. Turns(wb, op, Done(after, z \o y))
  BY <1>2, <1>6, <1>10, <1>11 DEF Turns, Done
<1> QED
  BY <1>4, <1>12 DEF z

\* Every operation turns a workbook into one with as many sheets as it says,
\* and its inverse turns it back.
LEMMA EveryOperationTurns ==
    ASSUME NEW wb, IsHistory(wb), NEW op, Fits(op, Len(wb))
    PROVE  Turns(wb, op, Apply(wb, op))
<1>1. Len(wb) \in Nat /\ DOMAIN wb = 1..Len(wb)
  BY HistoryIsFunction
<1>2. CASE op.op = "SetCell"
  <2> DEFINE back == SetCell(op.sheet, op.at, CellAt(wb, op.sheet, op.at))
             after == WithCell(wb, op.sheet, op.at, op.cell)
  <2>1. IsHistory(after) /\ Len(after) = Len(wb)
    <3>1. DOMAIN after = DOMAIN wb /\ after = [i \in DOMAIN wb |-> after[i]]
      BY DEF WithCell
    <3> HIDE DEF after
    <3> QED
      BY <3>1, SheetChanged
  <2>2. back.op = "SetCell"
    BY DEF SetCell
  <2>3. Apply(wb, op) = Done(after, <<back>>)
    BY <1>2 DEF Apply, ApplySetCell
  <2> HIDE DEF after, back
  <2>4. /\ SheetsAfter(op, Len(wb)) = Len(wb) /\ SheetsAfter(back, Len(wb)) = Len(wb)
        /\ Fits(back, Len(wb)) /\ ~IsSidecar(op) /\ ~IsSidecar(back) /\ ~Shifts(op)
    BY <1>2, <2>2 DEF SheetsAfter, Fits, Kinds, IsSidecar, Shifts
  <2>5. Turns(wb, op, Done(after, <<back>>))
    BY <2>1, <2>4, OneBack
  <2> QED
    BY <2>3, <2>5
<1>3. CASE op.op = "InsertRow"
  <2>1. Apply(wb, op) = ApplyRows(wb, op, DeleteRow(op.sheet, op.at))
    BY <1>3 DEF Apply, ApplyInsertRow
  <2>2. DeleteRow(op.sheet, op.at).op \in {"InsertRow", "DeleteRow"}
    BY DEF DeleteRow
  <2> QED
    BY <1>3, <2>1, <2>2, RowsTurn
<1>4. CASE op.op = "DeleteRow"
  <2>1. Apply(wb, op) = ApplyRows(wb, op, InsertRow(op.sheet, op.at))
    BY <1>4 DEF Apply, ApplyDeleteRow
  <2>2. InsertRow(op.sheet, op.at).op \in {"InsertRow", "DeleteRow"}
    BY DEF InsertRow
  <2> QED
    BY <1>4, <2>1, <2>2, RowsTurn
<1>5. CASE op.op = "AddSheet"
  <2> DEFINE back == RemoveSheet(op.index)
             after == InsertAt(wb, op.index, NewSheet(op.name))
  <2>0. op.index \in 1..(Len(wb) + 1)
    BY <1>5 DEF Fits
  <2>1. IsHistory(after) /\ Len(after) = Len(wb) + 1
    BY <2>0, InsertedHistory
  <2>2. back.op = "RemoveSheet" /\ back.index = op.index
    BY DEF RemoveSheet
  <2>3. Apply(wb, op) = Done(after, <<back>>)
    BY <1>5 DEF Apply, ApplyAddSheet
  <2> HIDE DEF after, back
  <2>4. /\ SheetsAfter(op, Len(wb)) = Len(wb) + 1 /\ SheetsAfter(back, Len(wb) + 1) = Len(wb)
        /\ Fits(back, Len(wb) + 1) /\ ~IsSidecar(op) /\ ~IsSidecar(back) /\ Shifts(back)
    BY <1>1, <1>5, <2>0, <2>2 DEF SheetsAfter, Fits, Kinds, IsSidecar, Shifts
  <2>5. Turns(wb, op, Done(after, <<back>>))
    BY <2>1, <2>4, OneBack
  <2> QED
    BY <2>3, <2>5
<1>6. CASE op.op = "RemoveSheet"
  <2> DEFINE i == op.index
             back == AddSheet(i, wb[i].name)
             after == RemoveAt(wb, i)
             x == Restores(wb, {<<i, r>> : r \in Occupied(wb, i)})
  <2>0. i \in 1..Len(wb)
    BY <1>6 DEF Fits
  <2>1. IsHistory(after) /\ Len(after) = Len(wb) - 1
    BY <2>0, RemovedHistory
  <2>2. back.op = "AddSheet" /\ back.index = i
    BY DEF AddSheet
  <2>3. Apply(wb, op) = Done(after, <<back>> \o x)
    BY <1>6 DEF Apply, ApplyRemoveSheet
  <2>4. IsHistory(x) /\ \A n \in 1..Len(x) : x[n].op = "SetCell"
    BY RestoresSet
  <2> HIDE DEF after, back, x
  <2>5. /\ SheetsAfter(op, Len(wb)) = Len(wb) - 1 /\ SheetsAfter(back, Len(wb) - 1) = Len(wb)
        /\ Fits(back, Len(wb) - 1) /\ ~IsSidecar(op) /\ ~IsSidecar(back) /\ Shifts(back)
    BY <1>1, <1>6, <2>0, <2>2 DEF SheetsAfter, Fits, Kinds, IsSidecar, Shifts
  <2>6. Turns(wb, op, Done(after, <<back>> \o x))
    BY <2>1, <2>4, <2>5, BackAndSet
  <2> QED
    BY <2>3, <2>6
<1>7. CASE op.op = "RenameSheet"
  <2> DEFINE old    == wb[op.sheet].name
             naming == {at \in CellsOf(wb) : LET c == CellAt(wb, at[1], at[2])
                                             IN IsReading(c) /\ c.f[1] = old /\ old # op.name}
             new == [at \in CellsOf(wb) |->
                       LET c == CellAt(wb, at[1], at[2])
                       IN IF at \in naming THEN [c EXCEPT !.f = Reads(op.name, c.f[2])] ELSE c]
             back == RestoreSheet(op.sheet, old, Restores(wb, naming))
             renamed == MapCells(wb, new)
             after == WithName(renamed, op.sheet, op.name)
  <2>1. IsHistory(renamed) /\ Len(renamed) = Len(wb)
    <3> HIDE DEF new
    <3> QED
      BY MappedIs
  <2>2. back.op = "RestoreSheet"
    BY DEF RestoreSheet
  <2>3. Apply(wb, op) = Done(after, <<back>>)
    BY <1>7 DEF Apply, ApplyRenameSheet
  <2> HIDE DEF renamed, back
  <2>4. IsHistory(after) /\ Len(after) = Len(wb)
    <3>1. DOMAIN after = DOMAIN renamed /\ after = [i \in DOMAIN renamed |-> after[i]]
      BY DEF WithName
    <3> HIDE DEF after
    <3> QED
      BY <2>1, <3>1, SheetChanged
  <2> HIDE DEF after
  <2>5. /\ SheetsAfter(op, Len(wb)) = Len(wb) /\ SheetsAfter(back, Len(wb)) = Len(wb)
        /\ Fits(back, Len(wb)) /\ ~IsSidecar(op) /\ ~IsSidecar(back) /\ ~Shifts(op)
    BY <1>7, <2>2 DEF SheetsAfter, Fits, Kinds, IsSidecar, Shifts
  <2>6. Turns(wb, op, Done(after, <<back>>))
    BY <2>4, <2>5, OneBack
  <2> QED
    BY <2>3, <2>6
<1>8. CASE op.op = "RestoreSheet"
  <2>1. PICK new, back, after :
          /\ after = WithName(MapCells(wb, new), op.sheet, op.name)
          /\ back.op = "RestoreSheet"
          /\ Apply(wb, op) = Done(after, <<back>>)
    <3>1. PICK new : ApplyRestoreSheet(wb, op).wb = WithName(MapCells(wb, new), op.sheet, op.name)
      <4> DEFINE fs == op.formulas
                 For(at) == {n \in 1..Len(fs) : <<fs[n].sheet, fs[n].at>> = at}
                 new == [at \in CellsOf(wb) |->
                           IF For(at) # {} THEN fs[CHOOSE n \in For(at) : TRUE].cell
                           ELSE CellAt(wb, at[1], at[2])]
      <4>1. ApplyRestoreSheet(wb, op).wb = WithName(MapCells(wb, new), op.sheet, op.name)
        BY DEF ApplyRestoreSheet, Done
      <4> HIDE DEF new
      <4> QED
        BY <4>1
    <3> DEFINE fs == op.formulas
               back == RestoreSheet(op.sheet, wb[op.sheet].name,
                         Restores(wb, {<<fs[n].sheet, fs[n].at>> : n \in 1..Len(fs)}))
    <3>2. ApplyRestoreSheet(wb, op) = Done(ApplyRestoreSheet(wb, op).wb, <<back>>)
      BY DEF ApplyRestoreSheet, Done
    <3>3. back.op = "RestoreSheet"
      BY DEF RestoreSheet
    <3>4. Apply(wb, op) = ApplyRestoreSheet(wb, op)
      BY <1>8 DEF Apply
    <3> HIDE DEF back
    <3> QED
      BY <3>1, <3>2, <3>3, <3>4
  <2> DEFINE renamed == MapCells(wb, new)
  <2>2. IsHistory(renamed) /\ Len(renamed) = Len(wb)
    BY MappedIs
  <2> HIDE DEF renamed
  <2>3. IsHistory(after) /\ Len(after) = Len(wb)
    <3>1. DOMAIN after = DOMAIN renamed /\ after = [i \in DOMAIN renamed |-> after[i]]
      BY <2>1 DEF WithName, renamed
    <3> QED
      BY <2>2, <3>1, SheetChanged
  <2>5. /\ SheetsAfter(op, Len(wb)) = Len(wb) /\ SheetsAfter(back, Len(wb)) = Len(wb)
        /\ Fits(back, Len(wb)) /\ ~IsSidecar(op) /\ ~IsSidecar(back) /\ ~Shifts(op)
    BY <1>8, <2>1 DEF SheetsAfter, Fits, Kinds, IsSidecar, Shifts
  <2>6. Turns(wb, op, Done(after, <<back>>))
    BY <2>3, <2>5, OneBack
  <2> QED
    BY <2>1, <2>6
<1>9. CASE op.op \in {"AddChart", "RemoveChart", "SetAnchor"}
  <2>1. PICK after, back : /\ DOMAIN after = DOMAIN wb /\ after = [i \in DOMAIN wb |-> after[i]]
                           /\ back.op \in {"AddChart", "RemoveChart", "SetAnchor"}
                           /\ Apply(wb, op) = Done(after, <<back>>)
    <3>1. CASE op.op = "AddChart"
      <4> DEFINE after == [wb EXCEPT ![op.sheet].charts = InsertAt(@, op.index, op.drawing)]
                 back == RemoveChart(op.sheet, op.index, op.drawing)
      <4>1. DOMAIN after = DOMAIN wb /\ after = [i \in DOMAIN wb |-> after[i]]
        OBVIOUS
      <4>2. back.op = "RemoveChart"
        BY DEF RemoveChart
      <4>3. Apply(wb, op) = Done(after, <<back>>)
        BY <3>1 DEF Apply, ApplyAddChart
      <4> HIDE DEF after, back
      <4> QED
        BY <4>1, <4>2, <4>3
    <3>2. CASE op.op = "RemoveChart"
      <4> DEFINE after == [wb EXCEPT ![op.sheet].charts = RemoveAt(@, op.index)]
                 back == AddChart(op.sheet, op.index, wb[op.sheet].charts[op.index])
      <4>1. DOMAIN after = DOMAIN wb /\ after = [i \in DOMAIN wb |-> after[i]]
        OBVIOUS
      <4>2. back.op = "AddChart"
        BY DEF AddChart
      <4>3. Apply(wb, op) = Done(after, <<back>>)
        BY <3>2 DEF Apply, ApplyRemoveChart
      <4> HIDE DEF after, back
      <4> QED
        BY <4>1, <4>2, <4>3
    <3>3. CASE op.op = "SetAnchor"
      <4> DEFINE after == [wb EXCEPT ![op.sheet].charts[op.index].anchor = op.anchor]
                 back == SetAnchor(op.sheet, op.index, wb[op.sheet].charts[op.index].anchor)
      <4>1. DOMAIN after = DOMAIN wb /\ after = [i \in DOMAIN wb |-> after[i]]
        OBVIOUS
      <4>2. back.op = "SetAnchor"
        BY DEF SetAnchor
      <4>3. Apply(wb, op) = Done(after, <<back>>)
        BY <3>3 DEF Apply, ApplySetAnchor
      <4> HIDE DEF after, back
      <4> QED
        BY <4>1, <4>2, <4>3
    <3> QED
      BY <1>9, <3>1, <3>2, <3>3
  <2>2. IsHistory(after) /\ Len(after) = Len(wb)
    BY <2>1, SheetChanged
  <2>3. /\ SheetsAfter(op, Len(wb)) = Len(wb) /\ SheetsAfter(back, Len(wb)) = Len(wb)
        /\ Fits(back, Len(wb)) /\ IsSidecar(op) /\ IsSidecar(back) /\ ~Shifts(op)
    BY <1>9, <2>1 DEF SheetsAfter, Fits, Kinds, IsSidecar, Shifts
  <2>4. Turns(wb, op, Done(after, <<back>>))
    BY <2>2, <2>3, OneBack
  <2> QED
    BY <2>1, <2>4
<1> QED
  BY <1>2, <1>3, <1>4, <1>5, <1>6, <1>7, <1>8, <1>9 DEF Fits, Kinds

-----------------------------------------------------------------------------
(* What a list of operations does, and its inverse.                       *)

\* A list of operations in turn: every start of it has been applied.
AppliedOf(f, wb, ops, n) ==
  f = [m \in 0..n |->
         IF m = 0 THEN Done(wb, <<>>)
         ELSE LET before == f[m - 1]
                  step   == Apply(before.wb, ops[m])
              IN Done(step.wb, step.inverse \o before.inverse)]

\* Every start of the list can be applied.
LEMMA AppliedExists ==
    ASSUME NEW wb, NEW ops, NEW n \in Nat
    PROVE  \E f : AppliedOf(f, wb, ops, n)
<1> DEFINE T == {m \in Nat : ~\E f : AppliedOf(f, wb, ops, m)}
<1>1. SUFFICES T = {}
  OBVIOUS
<1>2. SUFFICES ASSUME T # {} PROVE FALSE
  OBVIOUS
<1>3. PICK m \in T : m = 0 \/ (m - 1 \in Nat /\ m - 1 \notin T)
  BY <1>2, FirstOfThem
<1>4. m \in Nat
  OBVIOUS
<1> DEFINE Next1(before, k) ==
      Done(Apply(before.wb, ops[k]).wb, Apply(before.wb, ops[k]).inverse \o before.inverse)
<1>5. CASE m = 0
  <2> DEFINE f == [k \in 0..0 |-> Done(wb, <<>>)]
  <2>1. AppliedOf(f, wb, ops, 0)
    <3>1. ASSUME NEW k \in 0..0 PROVE k = 0
      OBVIOUS
    <3> QED
      BY <3>1 DEF AppliedOf
  <2> QED
    BY <1>5, <2>1
<1>6. CASE m - 1 \in Nat /\ m - 1 \notin T
  <2>1. PICK g : AppliedOf(g, wb, ops, m - 1)
    BY <1>6
  <2>0. /\ m - 1 >= 0 => g[0] = Done(wb, <<>>)
        /\ \A k \in 1..(m - 1) : g[k] = Next1(g[k - 1], k)
    <3>1. 0 \in 0..(m - 1) /\ \A k \in 1..(m - 1) : k \in 0..(m - 1) /\ k # 0
      BY <1>4, <1>6
    <3> QED
      BY <2>1, <3>1 DEF AppliedOf
  <2> DEFINE v == Next1(g[m - 1], m)
             f == [k \in 0..m |-> IF k = m THEN v ELSE g[k]]
             body(k) == IF k = 0 THEN Done(wb, <<>>) ELSE Next1(f[k - 1], k)
  <2> HIDE DEF Next1
  <2>2. ASSUME NEW k \in 0..m PROVE f[k] = body(k)
    <3>1. CASE k = m
      <4>1. m # 0 /\ m - 1 \in 0..m /\ m - 1 # m
        BY <1>4, <1>6
      <4>2. f[m - 1] = g[m - 1] /\ f[k] = v
        BY <3>1, <4>1
      <4> QED
        BY <3>1, <4>1, <4>2
    <3>2. CASE k = 0
      <4>1. m # 0
        BY <1>4, <1>6
      <4> QED
        BY <1>4, <1>6, <2>0, <3>2, <4>1
    <3>3. CASE k # m /\ k # 0
      <4>1. k \in 1..(m - 1) /\ k - 1 \in 0..m /\ k - 1 # m
        BY <1>4, <1>6, <3>3
      <4>2. f[k] = g[k] /\ f[k - 1] = g[k - 1]
        BY <3>3, <4>1
      <4> QED
        BY <2>0, <3>3, <4>1, <4>2
    <3> QED
      BY <3>1, <3>2, <3>3
  <2>3. f = [k \in 0..m |-> f[k]]
    OBVIOUS
  <2> HIDE DEF f
  <2>4. f = [k \in 0..m |-> body(k)]
    BY <2>2, <2>3
  <2>5. AppliedOf(f, wb, ops, m)
    BY <2>4 DEF AppliedOf, Next1
  <2> QED
    BY <2>5
<1> QED
  BY <1>3, <1>5, <1>6

\* And that is how it is applied.
LEMMA AppliedIs ==
    ASSUME NEW wb, NEW ops, IsHistory(ops)
    PROVE  \E f : /\ ApplyOps(wb, ops) = f[Len(ops)]
                  /\ f[0] = Done(wb, <<>>)
                  /\ \A m \in 1..Len(ops) :
                       LET step == Apply(f[m - 1].wb, ops[m])
                       IN f[m] = Done(step.wb, step.inverse \o f[m - 1].inverse)
<1> DEFINE f == CHOOSE f : AppliedOf(f, wb, ops, Len(ops))
<1>0. Len(ops) \in Nat
  BY HistoryIsFunction
<1>1. AppliedOf(f, wb, ops, Len(ops))
  BY <1>0, AppliedExists
<1>2. ApplyOps(wb, ops) = f[Len(ops)]
  BY DEF ApplyOps, AppliedOf
<1> HIDE DEF f
<1>3. 0 \in 0..Len(ops) /\ \A m \in 1..Len(ops) : m \in 0..Len(ops) /\ m # 0
  BY <1>0
<1>4. /\ f[0] = Done(wb, <<>>)
      /\ \A m \in 1..Len(ops) :
                       LET step == Apply(f[m - 1].wb, ops[m])
                       IN f[m] = Done(step.wb, step.inverse \o f[m - 1].inverse)
  BY <1>1, <1>3 DEF AppliedOf
<1> QED
  BY <1>2, <1>4

\* A list that leads from as many sheets as there are leads there, and the
\* inverses lead back, being of the same kind.
Reverses(wb, ops, done, b) ==
  /\ IsHistory(done.wb) /\ Len(done.wb) = b
  /\ Leads(done.inverse, b, Len(wb))
  /\ ops # <<>> => done.inverse # <<>>
  /\ Charting(ops) => Charting(done.inverse)
  /\ Structural(ops) => Structural(done.inverse)
  /\ HasShift(ops) => HasShift(done.inverse)

\* By induction over the list.
LEMMA ApplyingReverses ==
    ASSUME NEW wb, IsHistory(wb), NEW ops, NEW b, Leads(ops, Len(wb), b)
    PROVE  Reverses(wb, ops, ApplyOps(wb, ops), b)
<1>1. PICK f : /\ ApplyOps(wb, ops) = f[Len(ops)]
               /\ f[0] = Done(wb, <<>>)
               /\ \A m \in 1..Len(ops) :
                    LET step == Apply(f[m - 1].wb, ops[m])
                    IN f[m] = Done(step.wb, step.inverse \o f[m - 1].inverse)
  BY AppliedIs DEF Leads
<1>2. PICK c : /\ \A n \in 0..Len(ops) : c[n] \in Nat
               /\ c[0] = Len(wb) /\ c[Len(ops)] = b /\ Counts(ops, c)
  BY DEF Leads
<1>3. IsHistory(ops) /\ Len(ops) \in Nat /\ Len(wb) \in Nat /\ (ops # <<>> <=> Len(ops) > 0)
  BY HistoryIsFunction DEF Leads
<1> DEFINE Good(m) ==
      /\ IsHistory(f[m].wb) /\ Len(f[m].wb) = c[m]
      /\ Leads(f[m].inverse, c[m], Len(wb))
      /\ m > 0 => f[m].inverse # <<>>
      /\ Charting(ops) => Charting(f[m].inverse)
      /\ Structural(ops) => Structural(f[m].inverse)
      /\ (\E n \in 1..m : Shifts(ops[n])) => HasShift(f[m].inverse)
<1>4. Good(0)
  <2>1. f[0].wb = wb /\ f[0].inverse = <<>>
    BY <1>1 DEF Done
  <2>2. Leads(<<>>, Len(wb), Len(wb)) /\ Len(<<>>) = 0
    BY <1>3, NothingLeads, EmptyHistory
  <2>3. Charting(<<>>) /\ Structural(<<>>)
    BY <2>2 DEF Charting, Structural
  <2> QED
    BY <1>2, <2>1, <2>2, <2>3
<1>5. ASSUME NEW m \in 1..Len(ops), Good(m - 1) PROVE Good(m)
  <2> DEFINE old == f[m - 1]
             op == ops[m]
             step == Apply(old.wb, op)
  <2>1. f[m].wb = step.wb /\ f[m].inverse = step.inverse \o old.inverse
    <3> DEFINE back == step.inverse \o old.inverse
    <3>1. f[m] = Done(step.wb, back)
      BY <1>1
    <3> HIDE DEF step, back
    <3>2. f[m].wb = step.wb /\ f[m].inverse = back
      BY <3>1 DEF Done
    <3> QED
      BY <3>2 DEF back
  <2>2. /\ IsHistory(old.wb) /\ Len(old.wb) = c[m - 1]
        /\ Leads(old.inverse, c[m - 1], Len(wb))
        /\ Charting(ops) => Charting(old.inverse)
        /\ Structural(ops) => Structural(old.inverse)
        /\ (\E n \in 1..(m - 1) : Shifts(ops[n])) => HasShift(old.inverse)
    BY <1>5
  <2> HIDE DEF Good
  <2>3. Fits(op, Len(old.wb)) /\ c[m] = SheetsAfter(op, Len(old.wb))
    BY <1>2, <2>2 DEF Counts
  <2> HIDE DEF old, op
  <2>4. Turns(old.wb, op, step)
    BY <2>2, <2>3, EveryOperationTurns
  <2> HIDE DEF step
  <2>5. /\ IsHistory(step.wb) /\ Len(step.wb) = c[m]
        /\ step.inverse # <<>>
        /\ Leads(step.inverse, c[m], c[m - 1])
        /\ IsSidecar(op) => Charting(step.inverse)
        /\ ~IsSidecar(op) => Structural(step.inverse)
        /\ Shifts(op) => HasShift(step.inverse)
    BY <2>2, <2>3, <2>4 DEF Turns
  <2>6. Leads(f[m].inverse, c[m], Len(wb))
    BY <2>1, <2>2, <2>5, JoinedLead
  <2>7. IsHistory(step.inverse) /\ IsHistory(old.inverse)
    BY <2>2, <2>5 DEF Leads
  <2>8. /\ Charting(step.inverse) /\ Charting(old.inverse) => Charting(f[m].inverse)
        /\ Structural(step.inverse) /\ Structural(old.inverse) => Structural(f[m].inverse)
        /\ HasShift(step.inverse) \/ HasShift(old.inverse) => HasShift(f[m].inverse)
        /\ f[m].inverse # <<>>
    BY <2>1, <2>5, <2>7, JoinedKinds
  <2>9. Charting(ops) => IsSidecar(op)
    BY DEF Charting, op
  <2>10. Structural(ops) => ~IsSidecar(op)
    BY DEF Structural, op
  <2>11. (\E n \in 1..m : Shifts(ops[n])) => Shifts(op) \/ \E n \in 1..(m - 1) : Shifts(ops[n])
    <3>1. \A n \in 1..m : n = m \/ n \in 1..(m - 1)
      BY <1>3
    <3> QED
      BY <3>1 DEF op
  <2> QED
    BY <2>1, <2>2, <2>5, <2>6, <2>8, <2>9, <2>10, <2>11 DEF Good
<1> DEFINE T == {m \in 0..Len(ops) : ~Good(m)}
<1>6. T = {}
  <2> SUFFICES ASSUME T # {} PROVE FALSE
    OBVIOUS
  <2>1. T \subseteq Nat
    BY <1>3
  <2>2. PICK m \in T : m = 0 \/ (m - 1 \in Nat /\ m - 1 \notin T)
    BY <2>1, FirstOfThem
  <2>3. m \in 0..Len(ops) /\ ~Good(m)
    OBVIOUS
  <2> HIDE DEF Good
  <2>4. m # 0
    BY <1>4, <2>3
  <2>5. m \in 1..Len(ops) /\ m - 1 \in 0..Len(ops)
    BY <1>3, <2>3, <2>4
  <2>6. Good(m - 1)
    BY <2>2, <2>4, <2>5
  <2> QED
    BY <1>5, <2>3, <2>5, <2>6
<1>7. Good(Len(ops))
  <2>1. Len(ops) \in 0..Len(ops)
    BY <1>3
  <2> HIDE DEF Good
  <2> QED
    BY <1>6, <2>1
<1> QED
  BY <1>1, <1>2, <1>3, <1>7 DEF Reverses, HasShift

-----------------------------------------------------------------------------
(* Origins and keys.                                                      *)

\* The origins and the keys of the sheets are in step: a sheet came from a sheet
\* of the file exactly when it has its key, no two have one key, the keys from
\* next on are not in use, and there are no others than the origins and keys
\* that can be given out.
InStep(from, keys, next) ==
  /\ IsHistory(from) /\ IsHistory(keys) /\ Len(from) = Len(keys)
  /\ \A i \in 1..Len(keys) : from[i] \in Origins /\ keys[i] \in Keys
  /\ \A i \in 1..Len(keys) : \A o \in 1..Len(Opened) : from[i] = o <=> keys[i] = Seeded(o)
  /\ \A i, j \in 1..Len(keys) : keys[i] = keys[j] => i = j
  /\ \A i \in 1..Len(keys) : \A n \in Nat : n >= next => keys[i] # Fresh(n)

\* Fewer keys are free later.
LEMMA StaysInStep ==
    ASSUME NEW from, NEW keys, NEW next \in Nat, InStep(from, keys, next),
           NEW later \in Nat, next <= later
    PROVE  InStep(from, keys, later)
  BY DEF InStep

\* A sheet is added: it has no origin, and a key of its own.
LEMMA AddedInStep ==
    ASSUME NEW from, NEW keys, NEW next \in Nat, InStep(from, keys, next),
           NEW i \in 1..(Len(keys) + 1)
    PROVE  InStep(InsertAt(from, i, NoOrigin), InsertAt(keys, i, Fresh(next)), next + 1)
<1> DEFINE from2 == InsertAt(from, i, NoOrigin)
           keys2 == InsertAt(keys, i, Fresh(next))
           l == Len(keys)
<1>1. IsHistory(from) /\ IsHistory(keys) /\ Len(from) = l /\ l \in Nat
  BY HistoryIsFunction DEF InStep
<1>2. /\ IsHistory(from2) /\ Len(from2) = l + 1
      /\ from2[i] = NoOrigin
      /\ \A j \in 1..(i - 1) : from2[j] = from[j]
      /\ \A j \in (i + 1)..(l + 1) : from2[j] = from[j - 1]
  BY <1>1, InsertedHistory
<1>3. /\ IsHistory(keys2) /\ Len(keys2) = l + 1
      /\ keys2[i] = Fresh(next)
      /\ \A j \in 1..(i - 1) : keys2[j] = keys[j]
      /\ \A j \in (i + 1)..(l + 1) : keys2[j] = keys[j - 1]
  BY <1>1, InsertedHistory
<1> HIDE DEF from2, keys2
<1> DEFINE Old(j) == IF j < i THEN j ELSE j - 1
<1>4. ASSUME NEW j \in 1..(l + 1), j # i
      PROVE  Old(j) \in 1..l /\ from2[j] = from[Old(j)] /\ keys2[j] = keys[Old(j)]
  <2>1. CASE j < i
    <3>1. j \in 1..(i - 1) /\ j \in 1..l
      BY <1>1, <2>1
    <3> QED
      BY <1>2, <1>3, <2>1, <3>1
  <2>2. CASE j > i
    <3>1. j \in (i + 1)..(l + 1) /\ j - 1 \in 1..l /\ ~(j < i)
      BY <1>1, <2>2
    <3> QED
      BY <1>2, <1>3, <3>1
  <2> QED
    BY <1>1, <1>4, <2>1, <2>2
<1>5. ASSUME NEW j \in 1..(l + 1), NEW k \in 1..(l + 1), j # i, k # i, Old(j) = Old(k)
      PROVE  j = k
  BY <1>1, <1>5
<1> HIDE DEF Old
<1>6. ASSUME NEW j \in 1..(l + 1), NEW o \in 1..Len(Opened)
      PROVE  from2[j] = o <=> keys2[j] = Seeded(o)
  <2>1. CASE j = i
    <3>1. o # NoOrigin
      BY DEF NoOrigin
    <3>2. Fresh(next) # Seeded(o)
      BY DEF Fresh, Seeded
    <3> QED
      BY <1>2, <1>3, <2>1, <3>1, <3>2
  <2>2. CASE j # i
    <3>1. from[Old(j)] = o <=> keys[Old(j)] = Seeded(o)
      BY <1>4, <2>2 DEF InStep
    <3> QED
      BY <1>4, <2>2, <3>1
  <2> QED
    BY <2>1, <2>2
<1>7. ASSUME NEW j \in 1..(l + 1), j # i, NEW n \in Nat, n >= next
      PROVE  keys2[j] # Fresh(n)
  BY <1>4, <1>7 DEF InStep
<1>8. ASSUME NEW j \in 1..(l + 1), NEW k \in 1..(l + 1), keys2[j] = keys2[k]
      PROVE  j = k
  <2>0. \A m \in 1..(l + 1) : m # i => keys2[m] # Fresh(next)
    <3>1. next >= next
      OBVIOUS
    <3> QED
      BY <1>7, <3>1
  <2>1. CASE j = i /\ k # i
    BY <1>3, <1>8, <2>0, <2>1
  <2>2. CASE j # i /\ k = i
    BY <1>3, <1>8, <2>0, <2>2
  <2>3. CASE j # i /\ k # i
    <3>1. Old(j) = Old(k)
      BY <1>4, <1>8, <2>3 DEF InStep
    <3> QED
      BY <1>5, <2>3, <3>1
  <2> QED
    BY <2>1, <2>2, <2>3
<1>9. ASSUME NEW j \in 1..(l + 1), NEW n \in Nat, n >= next + 1
      PROVE  keys2[j] # Fresh(n)
  <2>1. CASE j = i
    <3>1. n # next
      BY <1>9
    <3> QED
      BY <1>3, <2>1, <3>1 DEF Fresh
  <2>2. CASE j # i
    BY <1>7, <1>9, <2>2
  <2> QED
    BY <2>1, <2>2
<1>11. ASSUME NEW j \in 1..(l + 1) PROVE from2[j] \in Origins /\ keys2[j] \in Keys
  <2>1. CASE j = i
    <3>1. Len(Opened) \in Nat
      BY OpenedAssumption
    <3>2. NoOrigin \in Origins /\ Fresh(next) \in Keys
      BY <3>1 DEF NoOrigin, Origins, Fresh, Keys
    <3> QED
      BY <1>2, <1>3, <2>1, <3>2
  <2>2. CASE j # i
    BY <1>4, <2>2 DEF InStep
  <2> QED
    BY <2>1, <2>2
<1>10. InStep(from2, keys2, next + 1)
  BY <1>2, <1>3, <1>6, <1>8, <1>9, <1>11 DEF InStep
<1> QED
  BY <1>10 DEF from2, keys2

\* A sheet is removed.
LEMMA RemovedInStep ==
    ASSUME NEW from, NEW keys, NEW next \in Nat, InStep(from, keys, next),
           NEW i \in 1..Len(keys)
    PROVE  InStep(RemoveAt(from, i), RemoveAt(keys, i), next)
<1> DEFINE from2 == RemoveAt(from, i)
           keys2 == RemoveAt(keys, i)
           l == Len(keys)
<1>1. IsHistory(from) /\ IsHistory(keys) /\ Len(from) = l /\ l \in Nat
  BY HistoryIsFunction DEF InStep
<1>2. /\ IsHistory(from2) /\ Len(from2) = l - 1
      /\ \A j \in 1..(i - 1) : from2[j] = from[j]
      /\ \A j \in i..(l - 1) : from2[j] = from[j + 1]
  BY <1>1, RemovedHistory
<1>3. /\ IsHistory(keys2) /\ Len(keys2) = l - 1
      /\ \A j \in 1..(i - 1) : keys2[j] = keys[j]
      /\ \A j \in i..(l - 1) : keys2[j] = keys[j + 1]
  BY <1>1, RemovedHistory
<1> HIDE DEF from2, keys2
<1> DEFINE Old(j) == IF j < i THEN j ELSE j + 1
<1>4. ASSUME NEW j \in 1..(l - 1)
      PROVE  Old(j) \in 1..l /\ from2[j] = from[Old(j)] /\ keys2[j] = keys[Old(j)]
  <2>1. CASE j < i
    <3>1. j \in 1..(i - 1) /\ j \in 1..l
      BY <1>1, <2>1
    <3> QED
      BY <1>2, <1>3, <2>1, <3>1
  <2>2. CASE ~(j < i)
    <3>1. j \in i..(l - 1) /\ j + 1 \in 1..l
      BY <1>1, <2>2
    <3> QED
      BY <1>2, <1>3, <2>2, <3>1
  <2> QED
    BY <2>1, <2>2
<1>5. ASSUME NEW j \in 1..(l - 1), NEW k \in 1..(l - 1), Old(j) = Old(k)
      PROVE  j = k
  BY <1>1, <1>5
<1> HIDE DEF Old
<1>6. ASSUME NEW j \in 1..(l - 1), NEW o \in 1..Len(Opened)
      PROVE  from2[j] = o <=> keys2[j] = Seeded(o)
  <2>1. from[Old(j)] = o <=> keys[Old(j)] = Seeded(o)
    BY <1>4 DEF InStep
  <2> QED
    BY <1>4, <2>1
<1>7. ASSUME NEW j \in 1..(l - 1), NEW n \in Nat, n >= next
      PROVE  keys2[j] # Fresh(n)
  BY <1>4, <1>7 DEF InStep
<1>8. ASSUME NEW j \in 1..(l - 1), NEW k \in 1..(l - 1), keys2[j] = keys2[k]
      PROVE  j = k
  <2>1. Old(j) = Old(k)
    BY <1>4, <1>8 DEF InStep
  <2> QED
    BY <1>5, <2>1
<1>11. ASSUME NEW j \in 1..(l - 1) PROVE from2[j] \in Origins /\ keys2[j] \in Keys
  BY <1>4 DEF InStep
<1>10. InStep(from2, keys2, next)
  BY <1>2, <1>3, <1>6, <1>7, <1>8, <1>11 DEF InStep
<1> QED
  BY <1>10 DEF from2, keys2

-----------------------------------------------------------------------------
(* Recursive definitions, by what each round of them does.                *)

\* The keys after a list of operations, for every start of it.
KeyStep(now, op) ==
  CASE op.op = "AddSheet" -> [keys |-> InsertAt(now.keys, op.index, Fresh(now.next)),
                              next |-> now.next + 1]
    [] op.op = "RemoveSheet" -> [now EXCEPT !.keys = RemoveAt(@, op.index)]
    [] OTHER -> now
PlannedOf(f, start, ops, n) ==
  f = [m \in 0..n |-> IF m = 0 THEN start ELSE KeyStep(f[m - 1], ops[m])]

\* There are such keys for every start of the list.
LEMMA PlannedExists ==
    ASSUME NEW start, NEW ops, NEW n \in Nat
    PROVE  \E f : PlannedOf(f, start, ops, n)
<1> DEFINE T == {m \in Nat : ~\E f : PlannedOf(f, start, ops, m)}
<1>1. SUFFICES T = {}
  OBVIOUS
<1>2. SUFFICES ASSUME T # {} PROVE FALSE
  OBVIOUS
<1>3. PICK m \in T : m = 0 \/ (m - 1 \in Nat /\ m - 1 \notin T)
  BY <1>2, FirstOfThem
<1>4. m \in Nat
  OBVIOUS
<1>5. CASE m = 0
  <2> DEFINE f == [k \in 0..0 |-> start]
  <2>1. PlannedOf(f, start, ops, 0)
    <3>1. ASSUME NEW k \in 0..0 PROVE k = 0
      OBVIOUS
    <3> QED
      BY <3>1 DEF PlannedOf
  <2> QED
    BY <1>5, <2>1
<1>6. CASE m - 1 \in Nat /\ m - 1 \notin T
  <2>1. PICK g : PlannedOf(g, start, ops, m - 1)
    BY <1>6
  <2> DEFINE v == KeyStep(g[m - 1], ops[m])
             f == [k \in 0..m |-> IF k = m THEN v ELSE g[k]]
  <2>2. ASSUME NEW k \in 0..m
        PROVE  f[k] = IF k = 0 THEN start ELSE KeyStep(f[k - 1], ops[k])
    <3>1. CASE k = m
      <4>1. m # 0 /\ m - 1 \in 0..m /\ m - 1 # m
        BY <1>4, <1>6
      <4>2. f[m - 1] = g[m - 1] /\ f[k] = v
        BY <3>1, <4>1
      <4> QED
        BY <3>1, <4>1, <4>2
    <3>2. CASE k = 0
      <4>1. m # 0 /\ 0 \in 0..(m - 1)
        BY <1>4, <1>6
      <4> QED
        BY <2>1, <3>2, <4>1 DEF PlannedOf
    <3>3. CASE k # m /\ k # 0
      <4>1. k \in 0..(m - 1) /\ k - 1 \in 0..m /\ k - 1 # m
        BY <1>4, <1>6, <3>3
      <4>2. f[k] = g[k] /\ f[k - 1] = g[k - 1]
        BY <3>3, <4>1
      <4>3. g[k] = KeyStep(g[k - 1], ops[k])
        BY <2>1, <3>3, <4>1 DEF PlannedOf
      <4> QED
        BY <3>3, <4>2, <4>3
    <3> QED
      BY <3>1, <3>2, <3>3
  <2>3. f = [k \in 0..m |-> f[k]]
    OBVIOUS
  <2> HIDE DEF f
  <2>4. f = [k \in 0..m |-> IF k = 0 THEN start ELSE KeyStep(f[k - 1], ops[k])]
    BY <2>2, <2>3
  <2>5. PlannedOf(f, start, ops, m)
    BY <2>4 DEF PlannedOf
  <2> QED
    BY <2>5
<1> QED
  BY <1>3, <1>5, <1>6

\* The origins after it.
OriginStep(now, op) ==
  CASE op.op = "AddSheet"    -> InsertAt(now, op.index, NoOrigin)
    [] op.op = "RemoveSheet" -> RemoveAt(now, op.index)
    [] OTHER                 -> now
TracedOf(f, start, ops, n) ==
  f = [m \in 0..n |-> IF m = 0 THEN start ELSE OriginStep(f[m - 1], ops[m])]

\* There are such origins for every start of the list.
LEMMA TracedExists ==
    ASSUME NEW start, NEW ops, NEW n \in Nat
    PROVE  \E f : TracedOf(f, start, ops, n)
<1> DEFINE T == {m \in Nat : ~\E f : TracedOf(f, start, ops, m)}
<1>1. SUFFICES T = {}
  OBVIOUS
<1>2. SUFFICES ASSUME T # {} PROVE FALSE
  OBVIOUS
<1>3. PICK m \in T : m = 0 \/ (m - 1 \in Nat /\ m - 1 \notin T)
  BY <1>2, FirstOfThem
<1>4. m \in Nat
  OBVIOUS
<1>5. CASE m = 0
  <2> DEFINE f == [k \in 0..0 |-> start]
  <2>1. TracedOf(f, start, ops, 0)
    <3>1. ASSUME NEW k \in 0..0 PROVE k = 0
      OBVIOUS
    <3> QED
      BY <3>1 DEF TracedOf
  <2> QED
    BY <1>5, <2>1
<1>6. CASE m - 1 \in Nat /\ m - 1 \notin T
  <2>1. PICK g : TracedOf(g, start, ops, m - 1)
    BY <1>6
  <2> DEFINE v == OriginStep(g[m - 1], ops[m])
             f == [k \in 0..m |-> IF k = m THEN v ELSE g[k]]
  <2>2. ASSUME NEW k \in 0..m
        PROVE  f[k] = IF k = 0 THEN start ELSE OriginStep(f[k - 1], ops[k])
    <3>1. CASE k = m
      <4>1. m # 0 /\ m - 1 \in 0..m /\ m - 1 # m
        BY <1>4, <1>6
      <4>2. f[m - 1] = g[m - 1] /\ f[k] = v
        BY <3>1, <4>1
      <4> QED
        BY <3>1, <4>1, <4>2
    <3>2. CASE k = 0
      <4>1. m # 0 /\ 0 \in 0..(m - 1)
        BY <1>4, <1>6
      <4> QED
        BY <2>1, <3>2, <4>1 DEF TracedOf
    <3>3. CASE k # m /\ k # 0
      <4>1. k \in 0..(m - 1) /\ k - 1 \in 0..m /\ k - 1 # m
        BY <1>4, <1>6, <3>3
      <4>2. f[k] = g[k] /\ f[k - 1] = g[k - 1]
        BY <3>3, <4>1
      <4>3. g[k] = OriginStep(g[k - 1], ops[k])
        BY <2>1, <3>3, <4>1 DEF TracedOf
      <4> QED
        BY <3>3, <4>2, <4>3
    <3> QED
      BY <3>1, <3>2, <3>3
  <2>3. f = [k \in 0..m |-> f[k]]
    OBVIOUS
  <2> HIDE DEF f
  <2>4. f = [k \in 0..m |-> IF k = 0 THEN start ELSE OriginStep(f[k - 1], ops[k])]
    BY <2>2, <2>3
  <2>5. TracedOf(f, start, ops, m)
    BY <2>4 DEF TracedOf
  <2> QED
    BY <2>5
<1> QED
  BY <1>3, <1>5, <1>6

\* The passes of a calculation.
ReadyIn(g, recompute, done) ==
  {at \in recompute \ done :
     \A e \in g.reads : (e[1] = at /\ e[2] \in recompute) => e[2] \in done}
PassOver(before, g, recompute) ==
  [wb   |-> WithValues(before.wb, [at \in ReadyIn(g, recompute, before.done) |->
              Evaluate(before.wb, at[1], CellAt(before.wb, at[1], at[2]))]),
   done |-> before.done \cup ReadyIn(g, recompute, before.done)]
PassedOf(f, wb, graf, recompute, n) ==
  f = [m \in 0..n |-> IF m = 0 THEN [wb |-> wb, done |-> {}]
                      ELSE PassOver(f[m - 1], graf, recompute)]

\* There are such workbooks for every number of passes.
LEMMA PassedExists ==
    ASSUME NEW wb, NEW graf, NEW recompute, NEW n \in Nat
    PROVE  \E f : PassedOf(f, wb, graf, recompute, n)
<1> DEFINE T == {m \in Nat : ~\E f : PassedOf(f, wb, graf, recompute, m)}
<1>1. SUFFICES T = {}
  OBVIOUS
<1>2. SUFFICES ASSUME T # {} PROVE FALSE
  OBVIOUS
<1>3. PICK m \in T : m = 0 \/ (m - 1 \in Nat /\ m - 1 \notin T)
  BY <1>2, FirstOfThem
<1>4. m \in Nat
  OBVIOUS
<1>5. CASE m = 0
  <2> DEFINE f == [k \in 0..0 |-> [wb |-> wb, done |-> {}]]
  <2>1. PassedOf(f, wb, graf, recompute, 0)
    <3>1. ASSUME NEW k \in 0..0 PROVE k = 0
      OBVIOUS
    <3> QED
      BY <3>1 DEF PassedOf
  <2> QED
    BY <1>5, <2>1
<1>6. CASE m - 1 \in Nat /\ m - 1 \notin T
  <2>1. PICK g : PassedOf(g, wb, graf, recompute, m - 1)
    BY <1>6
  <2> DEFINE v == PassOver(g[m - 1], graf, recompute)
             f == [k \in 0..m |-> IF k = m THEN v ELSE g[k]]
  <2>2. ASSUME NEW k \in 0..m
        PROVE  f[k] = IF k = 0 THEN [wb |-> wb, done |-> {}] ELSE PassOver(f[k - 1], graf, recompute)
    <3>1. CASE k = m
      <4>1. m # 0 /\ m - 1 \in 0..m /\ m - 1 # m
        BY <1>4, <1>6
      <4>2. f[m - 1] = g[m - 1] /\ f[k] = v
        BY <3>1, <4>1
      <4> QED
        BY <3>1, <4>1, <4>2
    <3>2. CASE k = 0
      <4>1. m # 0 /\ 0 \in 0..(m - 1)
        BY <1>4, <1>6
      <4> QED
        BY <2>1, <3>2, <4>1 DEF PassedOf
    <3>3. CASE k # m /\ k # 0
      <4>1. k \in 0..(m - 1) /\ k - 1 \in 0..m /\ k - 1 # m
        BY <1>4, <1>6, <3>3
      <4>2. f[k] = g[k] /\ f[k - 1] = g[k - 1]
        BY <3>3, <4>1
      <4>3. g[k] = PassOver(g[k - 1], graf, recompute)
        BY <2>1, <3>3, <4>1 DEF PassedOf
      <4> QED
        BY <3>3, <4>2, <4>3
    <3> QED
      BY <3>1, <3>2, <3>3
  <2>3. f = [k \in 0..m |-> f[k]]
    OBVIOUS
  <2> HIDE DEF f
  <2>4. f = [k \in 0..m |-> IF k = 0 THEN [wb |-> wb, done |-> {}] ELSE PassOver(f[k - 1], graf, recompute)]
    BY <2>2, <2>3
  <2>5. PassedOf(f, wb, graf, recompute, m)
    BY <2>4 DEF PassedOf
  <2> QED
    BY <2>5
<1> QED
  BY <1>3, <1>5, <1>6

\* And those are the keys the authority plans.
LEMMA PlannedIs ==
    ASSUME NEW ops, IsHistory(ops)
    PROVE  \E f : /\ KeysAfter(ops) = f[Len(ops)]
                  /\ f[0] = [keys |-> order, next |-> nextKey]
                  /\ \A m \in 1..Len(ops) : f[m] = KeyStep(f[m - 1], ops[m])
<1> DEFINE start == [keys |-> order, next |-> nextKey]
           f == CHOOSE f : PlannedOf(f, start, ops, Len(ops))
<1>0. Len(ops) \in Nat
  BY HistoryIsFunction
<1>1. PlannedOf(f, start, ops, Len(ops))
  <2> HIDE DEF start
  <2> QED
    BY <1>0, PlannedExists
<1>2. KeysAfter(ops) = f[Len(ops)]
  BY DEF KeysAfter, PlannedOf, KeyStep
<1> HIDE DEF f, start
<1>3. 0 \in 0..Len(ops) /\ \A m \in 1..Len(ops) : m \in 0..Len(ops) /\ m # 0
  BY <1>0
<1>4. f[0] = start /\ \A m \in 1..Len(ops) : f[m] = KeyStep(f[m - 1], ops[m])
  BY <1>1, <1>3 DEF PlannedOf
<1> QED
  BY <1>2, <1>4 DEF start

\* And those are the origins.
LEMMA TracedIs ==
    ASSUME NEW ops, IsHistory(ops)
    PROVE  \E f : /\ OriginsAfter(ops) = f[Len(ops)]
                  /\ f[0] = origins
                  /\ \A m \in 1..Len(ops) : f[m] = OriginStep(f[m - 1], ops[m])
<1> DEFINE f == CHOOSE f : TracedOf(f, origins, ops, Len(ops))
<1>0. Len(ops) \in Nat
  BY HistoryIsFunction
<1>1. TracedOf(f, origins, ops, Len(ops))
  BY <1>0, TracedExists
<1>2. OriginsAfter(ops) = f[Len(ops)]
  BY DEF OriginsAfter, TracedOf, OriginStep
<1> HIDE DEF f
<1>3. 0 \in 0..Len(ops) /\ \A m \in 1..Len(ops) : m \in 0..Len(ops) /\ m # 0
  BY <1>0
<1>4. f[0] = origins /\ \A m \in 1..Len(ops) : f[m] = OriginStep(f[m - 1], ops[m])
  BY <1>1, <1>3 DEF TracedOf
<1> QED
  BY <1>2, <1>4

\* And that is the order of evaluation.
LEMMA PassedIs ==
    ASSUME NEW wb, NEW graf, NEW recompute, Cardinality(recompute) \in Nat
    PROVE  \E f : /\ InOrderOf(wb, graf, recompute) = f[Cardinality(recompute)]
                  /\ f[0] = [wb |-> wb, done |-> {}]
                  /\ \A m \in 1..Cardinality(recompute) : f[m] = PassOver(f[m - 1], graf, recompute)
<1> DEFINE k == Cardinality(recompute)
           f == CHOOSE f : PassedOf(f, wb, graf, recompute, k)
<1>1. PassedOf(f, wb, graf, recompute, k)
  BY PassedExists
<1>2. InOrderOf(wb, graf, recompute) = f[k]
  BY DEF InOrderOf, PassedOf, PassOver, ReadyIn
<1> HIDE DEF f
<1>3. 0 \in 0..k /\ \A m \in 1..k : m \in 0..k /\ m # 0
  OBVIOUS
<1>4. /\ f[0] = [wb |-> wb, done |-> {}]
      /\ \A m \in 1..k : f[m] = PassOver(f[m - 1], graf, recompute)
  BY <1>1, <1>3 DEF PassedOf
<1> QED
  BY <1>2, <1>4

-----------------------------------------------------------------------------
(* What a transaction does to origins and keys.                           *)

\* A step of the keys, as a record.
LEMMA KeyStepIs ==
    ASSUME NEW now, now = [keys |-> now.keys, next |-> now.next], NEW op
    PROVE  /\ KeyStep(now, op) = [keys |-> KeyStep(now, op).keys, next |-> KeyStep(now, op).next]
           /\ op.op = "AddSheet" => /\ KeyStep(now, op).keys = InsertAt(now.keys, op.index, Fresh(now.next))
                                    /\ KeyStep(now, op).next = now.next + 1
           /\ op.op = "RemoveSheet" => /\ KeyStep(now, op).keys = RemoveAt(now.keys, op.index)
                                       /\ KeyStep(now, op).next = now.next
           /\ ~Shifts(op) => KeyStep(now, op) = now
<1> DEFINE ks == now.keys
           nx == now.next
<1>1. now = [keys |-> ks, next |-> nx]
  OBVIOUS
<1>2. CASE op.op = "AddSheet"
  <2>1. KeyStep(now, op) = [keys |-> InsertAt(ks, op.index, Fresh(nx)), next |-> nx + 1]
    BY <1>2 DEF KeyStep
  <2> HIDE DEF ks, nx
  <2> DEFINE a == InsertAt(ks, op.index, Fresh(nx))
             b == nx + 1
  <2>2. KeyStep(now, op) = [keys |-> a, next |-> b]
    BY <2>1
  <2> HIDE DEF a, b
  <2>3. KeyStep(now, op).keys = a /\ KeyStep(now, op).next = b
    BY <2>2
  <2> QED
    BY <1>2, <2>2, <2>3 DEF a, b, ks, nx, Shifts
<1>3. CASE op.op = "RemoveSheet"
  <2> DEFINE a == RemoveAt(ks, op.index)
  <2>1. KeyStep(now, op) = [now EXCEPT !.keys = a]
    BY <1>3 DEF KeyStep
  <2> HIDE DEF ks, nx, a
  <2>2. KeyStep(now, op) = [keys |-> a, next |-> nx]
    BY <1>1, <2>1
  <2>3. KeyStep(now, op).keys = a /\ KeyStep(now, op).next = nx
    BY <2>2
  <2> QED
    BY <1>3, <2>2, <2>3 DEF a, ks, nx, Shifts
<1>4. CASE op.op # "AddSheet" /\ op.op # "RemoveSheet"
  BY <1>4 DEF KeyStep
<1> QED
  BY <1>2, <1>3, <1>4

\* A transaction that fits the order keeps origins and keys in step; one that
\* shifts no sheet leaves the order alone.
Planned(ops, b) ==
  /\ KeysAfter(ops).next \in Nat /\ nextKey <= KeysAfter(ops).next
  /\ InStep(OriginsAfter(ops), KeysAfter(ops).keys, KeysAfter(ops).next)
  /\ Len(KeysAfter(ops).keys) = b
  /\ ~HasShift(ops) => KeysAfter(ops).keys = order

\* By induction over the operations.
LEMMA PlansInStep ==
    ASSUME nextKey \in Nat, InStep(origins, order, nextKey), NEW ops, NEW b, Leads(ops, Len(order), b)
    PROVE  Planned(ops, b)
<1>0. PICK c : /\ \A n \in 0..Len(ops) : c[n] \in Nat
               /\ c[0] = Len(order) /\ c[Len(ops)] = b /\ Counts(ops, c)
  BY DEF Leads
<1>1. IsHistory(ops) /\ Len(ops) \in Nat
  BY HistoryIsFunction DEF Leads
<1>2. PICK g : /\ KeysAfter(ops) = g[Len(ops)]
               /\ g[0] = [keys |-> order, next |-> nextKey]
               /\ \A m \in 1..Len(ops) : g[m] = KeyStep(g[m - 1], ops[m])
  BY <1>1, PlannedIs
<1>3. PICK h : /\ OriginsAfter(ops) = h[Len(ops)]
               /\ h[0] = origins
               /\ \A m \in 1..Len(ops) : h[m] = OriginStep(h[m - 1], ops[m])
  BY <1>1, TracedIs
<1> DEFINE Good(m) ==
      /\ g[m] = [keys |-> g[m].keys, next |-> g[m].next]
      /\ g[m].next \in Nat /\ nextKey <= g[m].next
      /\ InStep(h[m], g[m].keys, g[m].next)
      /\ Len(g[m].keys) = c[m]
      /\ (\A n \in 1..m : ~Shifts(ops[n])) => g[m].keys = order
<1>4. Good(0)
  BY <1>0, <1>2, <1>3
<1>5. ASSUME NEW m \in 1..Len(ops), Good(m - 1) PROVE Good(m)
  <2> DEFINE now == g[m - 1]
             op == ops[m]
             from == h[m - 1]
  <2>1. /\ g[m] = KeyStep(now, op) /\ h[m] = OriginStep(from, op)
    BY <1>2, <1>3
  <2>2. /\ now = [keys |-> now.keys, next |-> now.next]
        /\ now.next \in Nat /\ nextKey <= now.next
        /\ InStep(from, now.keys, now.next)
        /\ Len(now.keys) = c[m - 1]
        /\ (\A n \in 1..(m - 1) : ~Shifts(ops[n])) => now.keys = order
    BY <1>5
  <2>3. Fits(op, c[m - 1]) /\ c[m] = SheetsAfter(op, c[m - 1])
    BY <1>0 DEF Counts
  <2>4. (\A n \in 1..m : ~Shifts(ops[n])) => ~Shifts(op) /\ \A n \in 1..(m - 1) : ~Shifts(ops[n])
    <3>1. m \in 1..m /\ \A n \in 1..(m - 1) : n \in 1..m
      BY <1>1
    <3> QED
      BY <3>1
  <2>9. IsHistory(now.keys) /\ IsHistory(from) /\ Len(from) = Len(now.keys) /\ Len(now.keys) \in Nat
    BY <2>2, HistoryIsFunction DEF InStep
  <2> HIDE DEF now, op, from, Good
  <2>5. CASE op.op = "AddSheet"
    <3> DEFINE keys2 == InsertAt(now.keys, op.index, Fresh(now.next))
               from2 == InsertAt(from, op.index, NoOrigin)
    <3>1. /\ g[m] = [keys |-> g[m].keys, next |-> g[m].next]
          /\ g[m].keys = keys2 /\ g[m].next = now.next + 1
      <4>1. now = [keys |-> now.keys, next |-> now.next]
        BY <2>2
      <4>2. /\ KeyStep(now, op) = [keys |-> KeyStep(now, op).keys, next |-> KeyStep(now, op).next]
            /\ KeyStep(now, op).keys = keys2 /\ KeyStep(now, op).next = now.next + 1
        BY <4>1, <2>5, KeyStepIs
      <4> QED
        BY <2>1, <4>2
    <3>2. h[m] = from2
      BY <2>1, <2>5 DEF OriginStep
    <3>3. op.index \in 1..(Len(now.keys) + 1) /\ c[m] = Len(now.keys) + 1
      BY <2>2, <2>3, <2>5 DEF Fits, SheetsAfter
    <3>4. InStep(from2, keys2, now.next + 1)
      BY <2>2, <3>3, AddedInStep
    <3>5. Len(keys2) = c[m]
      BY <2>9, <3>3, InsertedHistory
    <3> HIDE DEF keys2, from2
    <3> QED
      BY <2>2, <2>4, <2>5, <3>1, <3>2, <3>4, <3>5 DEF Good, Shifts
  <2>6. CASE op.op = "RemoveSheet"
    <3> DEFINE keys2 == RemoveAt(now.keys, op.index)
               from2 == RemoveAt(from, op.index)
    <3>1. /\ g[m] = [keys |-> g[m].keys, next |-> g[m].next]
          /\ g[m].keys = keys2 /\ g[m].next = now.next
      <4>1. now = [keys |-> now.keys, next |-> now.next]
        BY <2>2
      <4>2. /\ KeyStep(now, op) = [keys |-> KeyStep(now, op).keys, next |-> KeyStep(now, op).next]
            /\ KeyStep(now, op).keys = keys2 /\ KeyStep(now, op).next = now.next
        BY <4>1, <2>6, KeyStepIs
      <4> QED
        BY <2>1, <4>2
    <3>2. h[m] = from2
      BY <2>1, <2>6 DEF OriginStep
    <3>3. op.index \in 1..Len(now.keys) /\ c[m] = Len(now.keys) - 1
      BY <2>2, <2>3, <2>6 DEF Fits, SheetsAfter
    <3>4. InStep(from2, keys2, now.next)
      BY <2>2, <3>3, RemovedInStep
    <3>5. Len(keys2) = c[m]
      BY <2>9, <3>3, RemovedHistory
    <3> HIDE DEF keys2, from2
    <3> QED
      BY <2>2, <2>4, <2>6, <3>1, <3>2, <3>4, <3>5 DEF Good, Shifts
  <2>7. CASE ~Shifts(op)
    <3>1. g[m] = now
      BY <2>1, <2>2, <2>7, KeyStepIs
    <3>2. h[m] = from
      BY <2>1, <2>7 DEF OriginStep, Shifts
    <3>3. c[m] = c[m - 1]
      BY <2>3, <2>7 DEF SheetsAfter, Shifts
    <3> QED
      BY <2>2, <2>4, <3>1, <3>2, <3>3 DEF Good
  <2> QED
    BY <2>5, <2>6, <2>7 DEF Shifts
<1> DEFINE T == {m \in 0..Len(ops) : ~Good(m)}
<1>6. T = {}
  <2> SUFFICES ASSUME T # {} PROVE FALSE
    OBVIOUS
  <2>1. T \subseteq Nat
    BY <1>1
  <2>2. PICK m \in T : m = 0 \/ (m - 1 \in Nat /\ m - 1 \notin T)
    BY <2>1, FirstOfThem
  <2>3. m \in 0..Len(ops) /\ ~Good(m)
    OBVIOUS
  <2> HIDE DEF Good
  <2>4. m # 0
    BY <1>4, <2>3
  <2>5. m \in 1..Len(ops) /\ m - 1 \in 0..Len(ops)
    BY <1>1, <2>3, <2>4
  <2>6. Good(m - 1)
    BY <2>2, <2>4, <2>5
  <2> QED
    BY <1>5, <2>3, <2>5, <2>6
<1>7. Good(Len(ops))
  <2>1. Len(ops) \in 0..Len(ops)
    BY <1>1
  <2> HIDE DEF Good
  <2> QED
    BY <1>6, <2>1
<1>8. ~HasShift(ops) => KeysAfter(ops).keys = order
  BY <1>2, <1>7 DEF HasShift
<1> QED
  BY <1>0, <1>2, <1>3, <1>7, <1>8 DEF Planned

\* What shifts no sheet leaves the origins alone.
LEMMA OriginsStay ==
    ASSUME NEW ops, IsHistory(ops), ~HasShift(ops)
    PROVE  OriginsAfter(ops) = origins
<1>1. Len(ops) \in Nat
  BY HistoryIsFunction
<1>2. PICK h : /\ OriginsAfter(ops) = h[Len(ops)]
               /\ h[0] = origins
               /\ \A m \in 1..Len(ops) : h[m] = OriginStep(h[m - 1], ops[m])
  BY TracedIs
<1>3. \A m \in 1..Len(ops) : h[m] = h[m - 1]
  <2> TAKE m \in 1..Len(ops)
  <2>1. ~Shifts(ops[m])
    BY DEF HasShift
  <2> QED
    BY <1>2, <2>1 DEF OriginStep, Shifts
<1> DEFINE T == {m \in 0..Len(ops) : h[m] # origins}
<1>4. T = {}
  <2> SUFFICES ASSUME T # {} PROVE FALSE
    OBVIOUS
  <2>1. T \subseteq Nat
    BY <1>1
  <2>2. PICK m \in T : m = 0 \/ (m - 1 \in Nat /\ m - 1 \notin T)
    BY <2>1, FirstOfThem
  <2>3. m \in 0..Len(ops) /\ h[m] # origins
    OBVIOUS
  <2>5. m \in 1..Len(ops) /\ m - 1 \in 0..Len(ops)
    BY <1>1, <1>2, <2>3
  <2> QED
    BY <1>3, <2>2, <2>3, <2>5
<1> QED
  BY <1>1, <1>2, <1>4

\* The operations the authority takes: all of a structural list, none of one of charts.
LEMMA WhatIsShared ==
    ASSUME NEW ops, IsHistory(ops)
    PROVE  /\ Structural(ops) => Shared(ops) = ops
           /\ Charting(ops) => Shared(ops) = <<>> /\ ~HasShift(ops)
<1> DEFINE S == {op \in ToSet(ops) : ~IsSidecar(op)}
<1>1. \A n \in 1..Len(ops) : ops[n] \in ToSet(ops)
  BY HistoryIsFunction DEF ToSet
<1>2. Structural(ops) => \A n \in 1..Len(ops) : ops[n] \in S
  BY <1>1 DEF Structural
<1>3. Charting(ops) => \A n \in 1..Len(ops) : ops[n] \notin S
  BY DEF Charting
<1>4. Shared(ops) = Selected(ops, S)
  BY DEF Shared
<1> HIDE DEF S
<1>5. /\ Structural(ops) => Shared(ops) = ops
      /\ Charting(ops) => Shared(ops) = <<>>
  BY <1>2, <1>3, <1>4, WhatIsSelected
<1>6. Charting(ops) => ~HasShift(ops)
  BY DEF Charting, HasShift, IsSidecar, Shifts
<1> QED
  BY <1>5, <1>6

\* What the authority materializes has a sheet for each key.
LEMMA MaterializedIs ==
    ASSUME IsHistory(order)
    PROVE  IsHistory(Materialized) /\ Len(Materialized) = Len(order)
<1> DEFINE M == Materialized
<1>1. Len(order) \in Nat
  BY HistoryIsFunction
<1>2. M = [i \in 1..Len(order) |-> M[i]]
  BY DEF Materialized
<1> HIDE DEF M
<1>3. IsHistory(M) /\ Len(M) = Len(order)
  BY <1>1, <1>2, FunctionIsHistory
<1> QED
  BY <1>3 DEF M

-----------------------------------------------------------------------------
(* Calculation.                                                           *)

\* Values put in cells leave the sheets.
LEMMA ValuesKeepSheets ==
    ASSUME NEW wb, IsHistory(wb), NEW values
    PROVE  IsHistory(WithValues(wb, values)) /\ Len(WithValues(wb, values)) = Len(wb)
  BY MappedIs DEF WithValues

\* So does every pass of a calculation, and the calculation.
LEMMA PassesKeepSheets ==
    ASSUME NEW wb, IsHistory(wb), NEW graf, NEW recompute, IsFiniteSet(recompute)
    PROVE  /\ IsHistory(InOrderOf(wb, graf, recompute).wb)
           /\ Len(InOrderOf(wb, graf, recompute).wb) = Len(wb)
<1> DEFINE k == Cardinality(recompute)
<1>1. k \in Nat
  BY FS_CardinalityType
<1>2. PICK f : /\ InOrderOf(wb, graf, recompute) = f[k]
               /\ f[0] = [wb |-> wb, done |-> {}]
               /\ \A m \in 1..k : f[m] = PassOver(f[m - 1], graf, recompute)
  BY <1>1, PassedIs
<1> HIDE DEF k
<1> DEFINE Good(m) == IsHistory(f[m].wb) /\ Len(f[m].wb) = Len(wb)
           T == {m \in 0..k : ~Good(m)}
<1>3. Good(0)
  BY <1>2
<1>4. ASSUME NEW m \in 1..k, Good(m - 1) PROVE Good(m)
  <2> DEFINE before == f[m - 1]
             values == [at \in ReadyIn(graf, recompute, before.done) |->
                          Evaluate(before.wb, at[1], CellAt(before.wb, at[1], at[2]))]
             after == WithValues(before.wb, values)
             done == before.done \cup ReadyIn(graf, recompute, before.done)
  <2>1. f[m] = [wb |-> after, done |-> done]
    BY <1>2 DEF PassOver
  <2> HIDE DEF values, done
  <2>2. IsHistory(after) /\ Len(after) = Len(wb)
    BY <1>4, ValuesKeepSheets
  <2> HIDE DEF after
  <2> QED
    BY <2>1, <2>2
<1>5. T = {}
  <2> SUFFICES ASSUME T # {} PROVE FALSE
    OBVIOUS
  <2>1. T \subseteq Nat
    BY <1>1
  <2>2. PICK m \in T : m = 0 \/ (m - 1 \in Nat /\ m - 1 \notin T)
    BY <2>1, FirstOfThem
  <2>3. m \in 0..k /\ ~Good(m)
    OBVIOUS
  <2> HIDE DEF Good
  <2>4. m \in 1..k /\ m - 1 \in 0..k
    BY <1>1, <1>3, <2>3
  <2> QED
    BY <1>4, <2>2, <2>3, <2>4
<1> QED
  BY <1>1, <1>2, <1>5

\* Evaluating in order and zeroing the rest.
LEMMA RunKeepsSheets ==
    ASSUME NEW wb, IsHistory(wb), NEW graf, NEW recompute, IsFiniteSet(recompute)
    PROVE  /\ IsHistory(RunRecalc(wb, graf, recompute))
           /\ Len(RunRecalc(wb, graf, recompute)) = Len(wb)
<1> DEFINE ordered == InOrderOf(wb, graf, recompute)
           values == [at \in recompute \ ordered.done |-> 0]
<1>1. IsHistory(ordered.wb) /\ Len(ordered.wb) = Len(wb)
  BY PassesKeepSheets
<1>2. RunRecalc(wb, graf, recompute) = WithValues(ordered.wb, values)
  BY DEF RunRecalc
<1> HIDE DEF ordered, values
<1> QED
  BY <1>1, <1>2, ValuesKeepSheets

\* The graph of a workbook has finitely many cells, and so it stays.
LEMMA GraphIsFinite ==
    ASSUME NEW wb, IsHistory(wb)
    PROVE  IsFiniteSet(BuildGraph(wb).nodes)
<1> DEFINE nodes == {at \in CellsOf(wb) : IsFormula(CellAt(wb, at[1], at[2]))}
           reads == UNION {{at} \X Edges(wb, at[1], CellAt(wb, at[1], at[2])) : at \in nodes}
<1>1. Len(wb) \in Int /\ MaxRow \in Int /\ 1 \in Int
  BY HistoryIsFunction, MaxRowAssumption
<1>2. IsFiniteSet(1..Len(wb)) /\ IsFiniteSet(Row)
  BY <1>1, FS_Interval DEF Row
<1>3. IsFiniteSet(CellsOf(wb))
  BY <1>2, FS_Product DEF CellsOf
<1>4. nodes \in SUBSET CellsOf(wb)
  OBVIOUS
<1>5. BuildGraph(wb) = [nodes |-> nodes, reads |-> reads]
  BY DEF BuildGraph, Graph
<1> HIDE DEF nodes, reads
<1>6. IsFiniteSet(nodes)
  BY <1>3, <1>4, FS_Subset
<1> QED
  BY <1>5, <1>6

\* One formula installed in a graph.
LEMMA SetFormulaFinite ==
    ASSUME NEW g, IsFiniteSet(g.nodes), NEW wb, NEW at
    PROVE  IsFiniteSet(SetFormula(g, wb, at).nodes)
<1> DEFINE left == g.nodes \ {at}
           reads == {e \in g.reads : e[1] # at}
           more == reads \cup ({at} \X Edges(wb, at[1], CellAt(wb, at[1], at[2])))
<1>1. IsFiniteSet(left)
  BY FS_RemoveElement
<1>2. IsFiniteSet(left \cup {at})
  BY <1>1, FS_AddElement
<1>3. \/ SetFormula(g, wb, at) = [nodes |-> left \cup {at}, reads |-> more]
      \/ SetFormula(g, wb, at) = [nodes |-> left, reads |-> reads]
  BY DEF SetFormula, Graph
<1> HIDE DEF left, reads, more
<1> QED
  BY <1>1, <1>2, <1>3

\* A calculation of everything leaves the sheets.
LEMMA AllRecalculated ==
    ASSUME NEW wb, IsHistory(wb)
    PROVE  IsHistory(RecalcAll(wb)) /\ Len(RecalcAll(wb)) = Len(wb)
<1> DEFINE g == BuildGraph(wb)
<1>1. IsFiniteSet(g.nodes)
  BY GraphIsFinite
<1>2. RecalcAll(wb) = RunRecalc(wb, g, g.nodes)
  BY DEF RecalcAll
<1> HIDE DEF g
<1> QED
  BY <1>1, <1>2, RunKeepsSheets

\* So does a calculation of what an edit could have changed.
LEMMA SomeRecalculated ==
    ASSUME NEW wb, IsHistory(wb), NEW g, IsFiniteSet(g.nodes), NEW seeds
    PROVE  IsHistory(RecalcAfter(wb, g, seeds)) /\ Len(RecalcAfter(wb, g, seeds)) = Len(wb)
<1> DEFINE some == CollectRecompute(g, seeds)
<1>1. some \in SUBSET g.nodes
  BY DEF CollectRecompute
<1>2. RecalcAfter(wb, g, seeds) = RunRecalc(wb, g, some)
  BY DEF RecalcAfter
<1> HIDE DEF some
<1>3. IsFiniteSet(some)
  BY <1>1, FS_Subset
<1> QED
  BY <1>2, <1>3, RunKeepsSheets

-----------------------------------------------------------------------------
(* The newest entries of a history.                                       *)

\* The j-th entry of a history, counted from the newest.
FromTop(s, j) == s[Len(s) + 1 - j]

\* t is s with e put on top, the oldest perhaps dropped; or s without its top.
OnTop(t, s, e) ==
  /\ IsHistory(t) /\ t # <<>> /\ Len(t) <= Len(s) + 1
  /\ FromTop(t, 1) = e
  /\ \A j \in 1..(Len(t) - 1) : FromTop(t, j + 1) = FromTop(s, j)
OffTop(t, s) ==
  /\ IsHistory(t) /\ Len(t) = Len(s) - 1
  /\ \A j \in 1..(Len(s) - 1) : FromTop(t, j) = FromTop(s, j + 1)

\* What a push, which drops the oldest beyond the depth, puts on top.
LEMMA TopOfPush ==
    ASSUME NEW s, IsHistory(s), Len(s) <= MaxUndoDepth, NEW e
    PROVE  /\ OnTop(Push(s, e), s, e)
           /\ Len(Push(s, e)) = IF Len(s) < MaxUndoDepth THEN Len(s) + 1 ELSE MaxUndoDepth
<1>0. PICK t : t = Push(s, e)
  OBVIOUS
<1>1. /\ IsHistory(t) /\ t # <<>>
      /\ Len(t) = IF Len(s) < MaxUndoDepth THEN Len(s) + 1 ELSE MaxUndoDepth
      /\ t[Len(t)] = e
      /\ \A n \in 1..(Len(t) - 1) : t[n] = s[n + Len(s) + 1 - Len(t)]
  BY <1>0, PushToHistory
<1>2. Len(s) \in Nat /\ Len(t) \in Nat /\ MaxUndoDepth \in Nat
  BY <1>1, HistoryIsFunction, DepthAssumption
<1>3. Len(t) <= Len(s) + 1
  BY <1>1, <1>2
<1>4. FromTop(t, 1) = e
  <2>1. Len(t) + 1 - 1 = Len(t)
    BY <1>2
  <2> QED
    BY <1>1, <2>1 DEF FromTop
<1>5. ASSUME NEW j \in 1..(Len(t) - 1) PROVE FromTop(t, j + 1) = FromTop(s, j)
  <2> DEFINE n == Len(t) - j
  <2>1. /\ n \in 1..(Len(t) - 1) /\ n = Len(t) + 1 - (j + 1)
        /\ n + Len(s) + 1 - Len(t) = Len(s) + 1 - j
    BY <1>2
  <2> HIDE DEF n
  <2>2. t[n] = s[n + Len(s) + 1 - Len(t)]
    BY <1>1, <2>1
  <2> QED
    BY <2>1, <2>2 DEF FromTop
<1>6. OnTop(t, s, e)
  BY <1>1, <1>3, <1>4, <1>5 DEF OnTop
<1> QED
  BY <1>0, <1>1, <1>6

\* What an entry added without a cap puts on top.
LEMMA TopOfAppend ==
    ASSUME NEW s, IsHistory(s), NEW e
    PROVE  OnTop(Append(s, e), s, e) /\ Len(Append(s, e)) = Len(s) + 1
<1>0. PICK t : t = Append(s, e)
  OBVIOUS
<1>1. /\ IsHistory(t) /\ t # <<>> /\ Len(t) = Len(s) + 1
      /\ t[Len(s) + 1] = e
      /\ \A n \in 1..Len(s) : t[n] = s[n]
  BY <1>0, AppendToHistory
<1>2. Len(s) \in Nat
  BY HistoryIsFunction
<1>4. FromTop(t, 1) = e
  <2>1. Len(t) + 1 - 1 = Len(s) + 1
    BY <1>1, <1>2
  <2> QED
    BY <1>1, <2>1 DEF FromTop
<1>5. ASSUME NEW j \in 1..(Len(t) - 1) PROVE FromTop(t, j + 1) = FromTop(s, j)
  <2> DEFINE n == Len(s) + 1 - j
  <2>1. n \in 1..Len(s) /\ n = Len(t) + 1 - (j + 1)
    BY <1>1, <1>2
  <2>2. t[n] = s[n]
    BY <1>1, <2>1
  <2> HIDE DEF n
  <2>3. FromTop(t, j + 1) = t[n]
    BY <2>1 DEF FromTop
  <2>4. FromTop(s, j) = s[n]
    BY DEF FromTop, n
  <2> QED
    BY <2>2, <2>3, <2>4
<1>6. OnTop(t, s, e)
  BY <1>1, <1>2, <1>4, <1>5 DEF OnTop
<1> QED
  BY <1>0, <1>1, <1>6

\* What is left under the newest entry.
LEMMA TopTakenOff ==
    ASSUME NEW s, IsHistory(s), s # <<>>
    PROVE  OffTop(Front(s), s) /\ Last(s) = FromTop(s, 1)
<1>0. PICK t : t = Front(s)
  OBVIOUS
<1>1. /\ IsHistory(t) /\ Len(t) = Len(s) - 1
      /\ \A n \in 1..(Len(s) - 1) : t[n] = s[n]
      /\ Last(s) = s[Len(s)]
  BY <1>0, FrontOfHistory
<1>2. Len(s) \in Nat
  BY HistoryIsFunction
<1>3. Last(s) = FromTop(s, 1)
  <2>1. Len(s) + 1 - 1 = Len(s)
    BY <1>2
  <2> QED
    BY <1>1, <2>1 DEF FromTop
<1>4. ASSUME NEW j \in 1..(Len(s) - 1) PROVE FromTop(t, j) = FromTop(s, j + 1)
  <2> DEFINE n == Len(s) - j
  <2>1. n \in 1..(Len(s) - 1) /\ n = Len(s) + 1 - (j + 1) /\ n = Len(t) + 1 - j
    BY <1>1, <1>2
  <2> HIDE DEF n
  <2> QED
    BY <1>1, <2>1 DEF FromTop
<1>5. OffTop(t, s)
  BY <1>1, <1>4 DEF OffTop
<1> QED
  BY <1>0, <1>3, <1>5

-----------------------------------------------------------------------------
(* The operations, the package entries and the authority's entries that    *)
(* take an edit back.                                                      *)

\* The j-th newest of the operations leads from the sheets keyed keys[j - 1] to
\* those keyed keys[j], the package entry beside it holds their origins, and
\* unless it is about charts the authority's entry, d[j] from the top of its own
\* history, turns the one order into the other.
Level(stk, entries, pres, conts, from, to, next, keys, d, j) ==
  /\ FromTop(stk, j) # <<>>
  /\ d[j] <= Len(entries)
  /\ \/ /\ Structural(FromTop(stk, j)) /\ d[j] = d[j - 1] + 1
        /\ FromTop(entries, d[j])[from] = keys[j - 1]
        /\ FromTop(entries, d[j])[to] = keys[j]
     \/ Charting(FromTop(stk, j)) /\ d[j] = d[j - 1] /\ keys[j] = keys[j - 1]
  /\ Leads(FromTop(stk, j), Len(keys[j - 1]), Len(keys[j]))
  /\ ~HasShift(FromTop(stk, j)) => keys[j] = keys[j - 1]
  /\ InStep(FromTop(pres, j)[to], keys[j], next)
  /\ FromTop(conts, j).keys = keys[j]

\* The authority's history is walked no faster than the operations.
Paced(d, n) ==
  /\ \A i \in 0..n : d[i] \in Nat
  /\ d[0] = 0
  /\ \A i, j \in 0..n : i <= j => d[i] <= d[j] /\ d[j] - d[i] <= j - i

Linked(stk, entries, pres, conts, from, to, next, start) ==
  \E keys, d :
    /\ keys[0] = start /\ Paced(d, Len(stk))
    /\ \A j \in 1..Len(stk) : Level(stk, entries, pres, conts, from, to, next, keys, d, j)

\* Nothing to take back.
LEMMA NothingLinked ==
    ASSUME NEW entries, NEW pres, NEW conts, NEW from, NEW to, NEW next, NEW start
    PROVE  Linked(<<>>, entries, pres, conts, from, to, next, start)
<1> DEFINE keys == [j \in {0} |-> start]
           d == [j \in {0} |-> 0]
<1>1. Len(<<>>) = 0
  BY EmptyHistory
<1>2. \A i \in 0..0 : i = 0
  OBVIOUS
<1>3. d[0] = 0 /\ keys[0] = start
  OBVIOUS
<1> HIDE DEF d, keys
<1>4. Paced(d, Len(<<>>))
  BY <1>1, <1>2, <1>3 DEF Paced
<1>5. \A j \in 1..Len(<<>>) : Level(<<>>, entries, pres, conts, from, to, next, keys, d, j)
  BY <1>1
<1> QED
  BY <1>3, <1>4, <1>5 DEF Linked

\* Two numbers moved by the same amount are as far apart as before.
LEMMA MovedTogether ==
    ASSUME NEW a \in Nat, NEW b \in Nat, NEW i \in Nat, NEW j \in Nat, NEW s \in Nat,
           a <= b, b - a <= (j - 1) - (i - 1)
    PROVE  a + s <= b + s /\ (b + s) - (a + s) <= j - i
  OBVIOUS

\* The authority's entry for an edit is put on top of the others.
Entered(entries2, entries, entry, from, to, start2, start) ==
  /\ OnTop(entries2, entries, entry)
  /\ Len(entries2) = IF Len(entries) < MaxUndoDepth THEN Len(entries) + 1 ELSE MaxUndoDepth
  /\ entry[from] = start2 /\ entry[to] = start

\* An edit is put on top, at the cost of the oldest.
LEMMA LinkedPush ==
    ASSUME NEW stk, IsHistory(stk), NEW entries, IsHistory(entries), NEW pres, NEW conts, IsHistory(pres),
           NEW from, NEW to, NEW next \in Nat, NEW start,
           Linked(stk, entries, pres, conts, from, to, next, start),
           NEW stk2, NEW entries2, NEW pres2, NEW conts2, NEW next2 \in Nat, NEW start2,
           NEW back, NEW entry, NEW kept, NEW cont,
           OnTop(stk2, stk, back), OnTop(pres2, pres, kept), Len(pres2) = Len(stk2),
           OnTop(conts2, conts, cont), Len(conts2) = Len(stk2), cont.keys = start,
           next <= next2,
           Len(stk2) <= MaxUndoDepth, Len(entries) <= MaxUndoDepth,
           \/ Structural(back) /\ Entered(entries2, entries, entry, from, to, start2, start)
           \/ Charting(back) /\ entries2 = entries /\ start2 = start,
           back # <<>>, Leads(back, Len(start2), Len(start)),
           ~HasShift(back) => start = start2,
           InStep(kept[to], start, next2)
    PROVE  Linked(stk2, entries2, pres2, conts2, from, to, next2, start2)
<1>1. PICK keys, d : /\ keys[0] = start /\ Paced(d, Len(stk))
                     /\ \A j \in 1..Len(stk) : Level(stk, entries, pres, conts, from, to, next, keys, d, j)
  BY DEF Linked
<1> DEFINE l == Len(stk2)
           step == IF Structural(back) /\ Entered(entries2, entries, entry, from, to, start2, start)
                   THEN 1 ELSE 0
           keys2 == [j \in 0..l |-> IF j = 0 THEN start2 ELSE keys[j - 1]]
           d2 == [j \in 0..l |-> IF j = 0 THEN 0 ELSE d[j - 1] + step]
<1>2. /\ Len(stk) \in Nat /\ l \in Nat /\ l >= 1 /\ l <= Len(stk) + 1
      /\ Len(entries) \in Nat /\ MaxUndoDepth \in Nat
  <2>1. Len(stk2) \in Nat /\ Len(stk2) > 0 /\ Len(stk2) <= Len(stk) + 1
    BY HistoryIsFunction DEF OnTop
  <2> QED
    BY <2>1, HistoryIsFunction, DepthAssumption
<1>3. /\ step \in {0, 1}
      /\ step = 1 => /\ Structural(back) /\ OnTop(entries2, entries, entry)
                     /\ entry[from] = start2 /\ entry[to] = start
                     /\ Len(entries2) = IF Len(entries) < MaxUndoDepth THEN Len(entries) + 1
                                        ELSE MaxUndoDepth
      /\ step = 0 => Charting(back) /\ entries2 = entries /\ start2 = start
  BY DEF Entered
<1> HIDE DEF step
<1>4. /\ \A j \in 0..l : j = 0 => keys2[j] = start2 /\ d2[j] = 0
      /\ \A j \in 0..l : j # 0 => keys2[j] = keys[j - 1] /\ d2[j] = d[j - 1] + step
  OBVIOUS
<1> HIDE DEF keys2, d2
<1>5. keys2[0] = start2 /\ d2[0] = 0
  BY <1>2, <1>4
<1>6. \A i \in 0..Len(stk) : d[i] \in Nat
  BY <1>1 DEF Paced
<1>7. \A i \in 0..l : i # 0 => i - 1 \in 0..Len(stk)
  BY <1>2
<1>a. step \in Nat /\ (step = 0 \/ step = 1)
  BY <1>3
<1>8. ASSUME NEW i \in 0..l PROVE d2[i] \in Nat
  <2>1. CASE i = 0
    BY <1>4, <2>1
  <2>2. CASE i # 0
    <3>1. d[i - 1] \in Nat /\ d2[i] = d[i - 1] + step
      BY <1>4, <1>6, <1>7, <2>2
    <3> QED
      BY <1>a, <3>1
  <2> QED
    BY <2>1, <2>2
<1>9. ASSUME NEW i \in 0..l, NEW j \in 0..l, i <= j
      PROVE  d2[i] <= d2[j] /\ d2[j] - d2[i] <= j - i
  <2>1. CASE i = 0 /\ j = 0
    BY <1>4, <2>1
  <2>2. CASE i = 0 /\ j # 0
    <3>0. 0 \in 0..Len(stk) /\ j - 1 \in 0..Len(stk) /\ 0 <= j - 1
      BY <1>2, <2>2
    <3>1. d[0] = 0 /\ d[j - 1] - d[0] <= (j - 1) - 0 /\ d[j - 1] \in Nat
      BY <1>1, <3>0 DEF Paced
    <3>2. d2[i] = 0 /\ d2[j] = d[j - 1] + step
      BY <1>4, <2>2
    <3> QED
      BY <1>a, <2>2, <3>1, <3>2
  <2>3. CASE i # 0
    <3>0. j # 0 /\ i - 1 \in 0..Len(stk) /\ j - 1 \in 0..Len(stk) /\ i - 1 <= j - 1
      BY <1>2, <1>9, <2>3
    <3>1. /\ d[i - 1] <= d[j - 1] /\ d[j - 1] - d[i - 1] <= (j - 1) - (i - 1)
          /\ d[i - 1] \in Nat /\ d[j - 1] \in Nat
      BY <1>1, <3>0 DEF Paced
    <3>2. d2[i] = d[i - 1] + step /\ d2[j] = d[j - 1] + step
      BY <1>4, <2>3, <3>0
    <3>3. i \in Nat /\ j \in Nat
      BY <1>2
    <3> QED
      <4>1. /\ d[i - 1] + step <= d[j - 1] + step
            /\ (d[j - 1] + step) - (d[i - 1] + step) <= j - i
        BY <1>a, <3>1, <3>3, MovedTogether
      <4> QED
        BY <3>2, <4>1, Zenon
  <2> QED
    BY <2>1, <2>2, <2>3
<1>10. Paced(d2, l)
  BY <1>5, <1>8, <1>9 DEF Paced
<1>11. ASSUME NEW j \in 1..l
       PROVE  Level(stk2, entries2, pres2, conts2, from, to, next2, keys2, d2, j)
  <2>1. CASE j = 1
    <3>1. keys2[1] = start /\ keys2[1 - 1] = start2
      <4>1. 1 \in 0..l /\ 1 # 0 /\ 1 - 1 = 0
        BY <1>2
      <4> QED
        BY <1>1, <1>4, <1>5, <4>1
    <3>2. d2[1] = step /\ d2[1 - 1] = 0
      <4>1. 1 \in 0..l /\ 1 # 0 /\ 1 - 1 = 0 /\ d[0] = 0
        BY <1>1, <1>2 DEF Paced
      <4> QED
        BY <1>3, <1>4, <1>5, <4>1
    <3>3. FromTop(stk2, 1) = back /\ FromTop(pres2, 1) = kept /\ FromTop(conts2, 1).keys = start
      BY DEF OnTop
    <3>4. CASE step = 1
      <4>1. FromTop(entries2, 1) = entry /\ 1 <= Len(entries2)
        <5>1. Len(entries2) \in Nat /\ Len(entries2) > 0
          BY <1>3, <3>4, HistoryIsFunction DEF OnTop
        <5> QED
          BY <1>3, <3>4, <5>1 DEF OnTop
      <4> QED
        BY <1>3, <2>1, <3>1, <3>2, <3>3, <3>4, <4>1 DEF Level
    <3>5. CASE step = 0
      <4>1. 0 <= Len(entries2)
        BY <1>2, <1>3, <3>5
      <4> QED
        BY <1>3, <2>1, <3>1, <3>2, <3>3, <3>5, <4>1 DEF Level
    <3> QED
      BY <1>3, <3>4, <3>5
  <2>2. CASE j # 1
    <3> DEFINE m == j - 1
    <3>1. /\ m \in 1..Len(stk) /\ m \in 1..(l - 1) /\ m + 1 = j /\ j \in 0..l /\ j # 0 /\ m \in 0..l
          /\ m # 0 /\ m = j - 1 /\ m \in 0..Len(stk) /\ m - 1 \in 0..Len(stk) /\ m - 1 <= m
      BY <1>2, <2>2
    <3> HIDE DEF m
    <3>2. /\ FromTop(stk2, j) = FromTop(stk, m) /\ FromTop(pres2, j) = FromTop(pres, m)
          /\ FromTop(conts2, j) = FromTop(conts, m)
      BY <3>1 DEF OnTop
    <3>3. /\ keys2[j] = keys[m] /\ keys2[j - 1] = keys[m - 1]
          /\ d2[j] = d[m] + step /\ d2[j - 1] = d[m - 1] + step
      BY <1>4, <3>1
    <3>4. Level(stk, entries, pres, conts, from, to, next, keys, d, m)
      BY <1>1, <3>1
    <3>5. d[m] \in Nat /\ d[m - 1] \in Nat
      BY <1>6, <3>1
    <3>6. InStep(FromTop(pres, m)[to], keys[m], next2)
      BY <3>4, StaysInStep DEF Level
    <3>7. d[m] <= Len(entries)
      BY <3>4 DEF Level
    <3>8. d2[j] <= Len(entries2)
      <4>1. CASE step = 0
        BY <1>3, <3>3, <3>5, <3>7, <4>1
      <4>2. CASE step = 1
        <5>1. d2[j] <= j
          <6>1. 0 \in 0..l /\ 0 <= j
            BY <1>2, <3>1
          <6>2. d2[j] - d2[0] <= j - 0
            BY <1>9, <3>1, <6>1
          <6> QED
            BY <1>5, <1>8, <3>1, <6>2
        <5> QED
          <6>1. Len(entries2) = IF Len(entries) < MaxUndoDepth THEN Len(entries) + 1
                                ELSE MaxUndoDepth
            BY <1>3, <4>2
          <6>2. d2[j] = d[m] + 1 /\ j <= MaxUndoDepth /\ j \in Nat /\ MaxUndoDepth \in Nat
            BY <1>2, <3>1, <3>3, <4>2
          <6> QED
            BY <1>2, <3>5, <3>7, <5>1, <6>1, <6>2
      <4> QED
        BY <1>3, <4>1, <4>2
    <3>9. ASSUME d[m] = d[m - 1] + 1
          PROVE  FromTop(entries2, d2[j]) = FromTop(entries, d[m])
      <4>1. CASE step = 0
        <5>1. d2[j] = d[m] /\ entries2 = entries
          BY <1>3, <3>3, <3>5, <4>1
        <5> QED
          BY <5>1
      <4>2. CASE step = 1
        <5>1. Len(entries2) \in Nat
          BY <1>3, <4>2, HistoryIsFunction DEF OnTop
        <5>2. d[m] \in 1..(Len(entries2) - 1) /\ d2[j] = d[m] + 1
          BY <3>3, <3>5, <3>8, <3>9, <4>2, <5>1
        <5> QED
          BY <1>3, <4>2, <5>2 DEF OnTop
      <4> QED
        BY <1>3, <4>1, <4>2
    <3>10. /\ d[m] + step = d[m - 1] + step + 1 <=> d[m] = d[m - 1] + 1
           /\ d[m] + step = d[m - 1] + step <=> d[m] = d[m - 1]
      <4>1. PICK x \in Nat : x = d[m]
        BY <3>5
      <4>2. PICK y \in Nat : y = d[m - 1]
        BY <3>5
      <4>3. PICK z \in Nat : z = step
        BY <1>a
      <4>4. /\ x + z = y + z + 1 <=> x = y + 1
            /\ x + z = y + z <=> x = y
        OBVIOUS
      <4> QED
        BY <4>1, <4>2, <4>3, <4>4, Zenon
    <3>11. /\ d2[j] = d2[j - 1] + 1 <=> d[m] = d[m - 1] + 1
           /\ d2[j] = d2[j - 1] <=> d[m] = d[m - 1]
      BY <3>3, <3>10, Zenon
    <3> QED
      BY <3>2, <3>3, <3>4, <3>6, <3>8, <3>9, <3>11 DEF Level
  <2> QED
    BY <2>1, <2>2
<1> QED
  BY <1>5, <1>10, <1>11 DEF Linked

\* The newest of the operations leads from the order as it is, start, to under,
\* and so do the entries beside it.
TopLevel(stk, entries, pres, conts, from, to, next, start, under) ==
  /\ FromTop(stk, 1) # <<>>
  /\ \/ /\ Structural(FromTop(stk, 1)) /\ ~Charting(FromTop(stk, 1)) /\ entries # <<>>
        /\ FromTop(entries, 1)[from] = start
        /\ FromTop(entries, 1)[to] = under
     \/ Charting(FromTop(stk, 1)) /\ ~Structural(FromTop(stk, 1)) /\ start = under
  /\ Leads(FromTop(stk, 1), Len(start), Len(under))
  /\ ~HasShift(FromTop(stk, 1)) => start = under
  /\ InStep(FromTop(pres, 1)[to], under, next)
  /\ FromTop(conts, 1).keys = under

\* It is taken off, with the authority's entry unless it is about charts.
LEMMA LinkedPop ==
    ASSUME NEW stk, IsHistory(stk), stk # <<>>, NEW entries, IsHistory(entries),
           NEW pres, NEW conts, IsHistory(pres), Len(pres) = Len(stk), Len(conts) = Len(stk),
           NEW from, NEW to, NEW next, NEW start,
           Linked(stk, entries, pres, conts, from, to, next, start)
    PROVE  \E under :
             /\ TopLevel(stk, entries, pres, conts, from, to, next, start, under)
             /\ \A stk2, entries2, pres2, conts2 :
                  OffTop(stk2, stk) /\ OffTop(pres2, pres) /\ OffTop(conts2, conts)
                  /\ (IF Charting(FromTop(stk, 1)) THEN entries2 = entries
                      ELSE OffTop(entries2, entries))
                  => Linked(stk2, entries2, pres2, conts2, from, to, next, under)
<1>1. PICK keys, d : /\ keys[0] = start /\ Paced(d, Len(stk))
                     /\ \A j \in 1..Len(stk) : Level(stk, entries, pres, conts, from, to, next, keys, d, j)
  BY DEF Linked
<1>2. /\ Len(stk) \in Nat /\ Len(stk) > 0 /\ Len(entries) \in Nat /\ (entries # <<>> <=> Len(entries) > 0)
      /\ 1 \in 1..Len(stk) /\ 1 \in 0..Len(stk) /\ 0 \in 0..Len(stk) /\ 1 - 1 = 0
  BY HistoryIsFunction
<1>3. Level(stk, entries, pres, conts, from, to, next, keys, d, 1)
  BY <1>1, <1>2
<1>4. d[0] = 0 /\ d[1] \in Nat
  BY <1>1, <1>2 DEF Paced
<1>5. /\ Leads(FromTop(stk, 1), Len(start), Len(keys[1]))
      /\ FromTop(stk, 1) # <<>>
      /\ ~HasShift(FromTop(stk, 1)) => keys[1] = start
      /\ InStep(FromTop(pres, 1)[to], keys[1], next)
      /\ FromTop(conts, 1).keys = keys[1]
      /\ d[1] <= Len(entries)
  BY <1>1, <1>2, <1>3 DEF Level
<1>6. \/ /\ Structural(FromTop(stk, 1)) /\ d[1] = 1
         /\ FromTop(entries, 1)[from] = start
         /\ FromTop(entries, 1)[to] = keys[1]
      \/ Charting(FromTop(stk, 1)) /\ d[1] = 0 /\ keys[1] = start
  <2>1. d[1 - 1] = 0 /\ keys[1 - 1] = start
    BY <1>1, <1>2, <1>4
  <2>2. \/ /\ Structural(FromTop(stk, 1)) /\ d[1] = d[1 - 1] + 1
           /\ FromTop(entries, d[1])[from] = keys[1 - 1]
           /\ FromTop(entries, d[1])[to] = keys[1]
        \/ Charting(FromTop(stk, 1)) /\ d[1] = d[1 - 1] /\ keys[1] = keys[1 - 1]
    BY <1>3 DEF Level
  <2> QED
    BY <2>1, <2>2
<1>7. ~(Structural(FromTop(stk, 1)) /\ Charting(FromTop(stk, 1)))
  <2>1. IsHistory(FromTop(stk, 1))
    BY <1>5 DEF Leads
  <2>2. 1 \in 1..Len(FromTop(stk, 1))
    BY <1>5, <2>1, HistoryIsFunction
  <2> QED
    BY <2>2 DEF Structural, Charting
<1>8. TopLevel(stk, entries, pres, conts, from, to, next, start, keys[1])
  BY <1>2, <1>5, <1>6, <1>7 DEF TopLevel
<1>9. ASSUME NEW stk2, NEW entries2, NEW pres2, NEW conts2,
             OffTop(stk2, stk), OffTop(pres2, pres), OffTop(conts2, conts),
             IF Charting(FromTop(stk, 1)) THEN entries2 = entries ELSE OffTop(entries2, entries)
      PROVE  Linked(stk2, entries2, pres2, conts2, from, to, next, keys[1])
  <2> DEFINE l == Len(stk) - 1
             step == d[1]
             keys2 == [j \in 0..l |-> keys[j + 1]]
             d2 == [j \in 0..l |-> d[j + 1] - step]
  <2>1. l \in Nat /\ Len(stk2) = l
    BY <1>2, <1>9 DEF OffTop
  <2>2. \A j \in 0..l : j + 1 \in 1..Len(stk) /\ j + 1 \in 0..Len(stk) /\ j \in Nat
    BY <1>2
  <2>3. \A j \in 0..l : keys2[j] = keys[j + 1] /\ d2[j] = d[j + 1] - step
    OBVIOUS
  <2> HIDE DEF keys2, d2
  <2>4. \/ step = 1 /\ Len(entries2) = Len(entries) - 1 /\ OffTop(entries2, entries)
        \/ step = 0 /\ entries2 = entries
    BY <1>6, <1>7, <1>9 DEF OffTop
  <2>5. \A i \in 0..l : step <= d[i + 1] /\ d[i + 1] \in Nat
    <3> TAKE i \in 0..l
    <3>1. 1 \in 0..Len(stk) /\ i + 1 \in 0..Len(stk) /\ 1 <= i + 1
      BY <1>2, <2>2
    <3> QED
      BY <1>1, <3>1 DEF Paced
  <2>6. step \in Nat
    BY <1>4
  <2>7. \A i \in 0..l : d2[i] \in Nat
    <3> TAKE i \in 0..l
    <3>1. step <= d[i + 1] /\ d[i + 1] \in Nat /\ d2[i] = d[i + 1] - step
      BY <2>3, <2>5
    <3> HIDE DEF step
    <3> QED
      BY <2>6, <3>1
  <2>8. d2[0] = 0 /\ keys2[0] = keys[1]
    <3>1. 0 \in 0..l /\ 0 + 1 = 1
      BY <2>1
    <3>2. d2[0] = d[1] - d[1] /\ keys2[0] = keys[1]
      BY <2>3, <3>1
    <3> QED
      BY <1>4, <3>2
  <2>9. ASSUME NEW i \in 0..l, NEW j \in 0..l, i <= j
        PROVE  d2[i] <= d2[j] /\ d2[j] - d2[i] <= j - i
    <3>1. i + 1 \in 0..Len(stk) /\ j + 1 \in 0..Len(stk) /\ i + 1 <= j + 1
      BY <2>2, <2>9
    <3>2. d[i + 1] <= d[j + 1] /\ d[j + 1] - d[i + 1] <= (j + 1) - (i + 1)
      BY <1>1, <3>1 DEF Paced
    <3>3. d2[i] = d[i + 1] - step /\ d2[j] = d[j + 1] - step /\ i \in Nat /\ j \in Nat
      BY <2>2, <2>3
    <3>4. d[i + 1] \in Nat /\ d[j + 1] \in Nat
      BY <2>5
    <3> HIDE DEF step
    <3> QED
      BY <2>6, <3>2, <3>3, <3>4
  <2>10. Paced(d2, l)
    BY <2>7, <2>8, <2>9 DEF Paced
  <2> HIDE DEF step
  <2>11. ASSUME NEW j \in 1..l
         PROVE  Level(stk2, entries2, pres2, conts2, from, to, next, keys2, d2, j)
    <3> DEFINE m == j + 1
    <3>1. /\ j \in 1..(Len(stk) - 1) /\ j \in 1..(Len(pres) - 1) /\ j \in 1..(Len(conts) - 1) /\ j \in 0..l /\ j - 1 \in 0..l
          /\ m \in 1..Len(stk) /\ (j - 1) + 1 = m - 1 /\ m - 1 = j
      BY <1>2, <2>1
    <3>2. /\ FromTop(stk2, j) = FromTop(stk, m) /\ FromTop(pres2, j) = FromTop(pres, m)
          /\ FromTop(conts2, j) = FromTop(conts, m)
      BY <1>9, <3>1 DEF OffTop
    <3>3. /\ keys2[j] = keys[m] /\ keys2[j - 1] = keys[m - 1]
          /\ d2[j] = d[m] - step /\ d2[j - 1] = d[m - 1] - step
      <4>1. keys2[j - 1] = keys[(j - 1) + 1] /\ d2[j - 1] = d[(j - 1) + 1] - step
        BY <2>3, <3>1
      <4> QED
        BY <2>3, <3>1, <4>1
    <3>4. Level(stk, entries, pres, conts, from, to, next, keys, d, m)
      BY <1>1, <3>1
    <3>5. d[m] \in Nat /\ d[m - 1] \in Nat /\ step <= d[m] /\ step <= d[m - 1]
      <4>1. step <= d[(j - 1) + 1] /\ d[(j - 1) + 1] \in Nat
        BY <2>5, <3>1
      <4> QED
        BY <2>5, <3>1, <4>1
    <3> HIDE DEF m
    <3>6. d[m] <= Len(entries)
      BY <3>4 DEF Level
    <3>7. d2[j] <= Len(entries2)
      BY <1>2, <2>4, <3>3, <3>5, <3>6
    <3>8. ASSUME d[m] = d[m - 1] + 1
          PROVE  FromTop(entries2, d2[j]) = FromTop(entries, d[m])
      <4>1. CASE step = 0
        <5>1. d2[j] = d[m] /\ entries2 = entries
          BY <2>4, <3>3, <3>5, <4>1
        <5> QED
          BY <5>1
      <4>2. CASE step = 1
        <5>1. d2[j] \in 1..(Len(entries) - 1) /\ d2[j] + 1 = d[m]
          BY <1>2, <3>3, <3>5, <3>6, <3>8, <4>2
        <5>2. FromTop(entries2, d2[j]) = FromTop(entries, d2[j] + 1)
          BY <2>4, <4>2, <5>1 DEF OffTop
        <5> QED
          BY <5>1, <5>2
      <4> QED
        BY <2>4, <4>1, <4>2
    <3>9. /\ d2[j] = d2[j - 1] + 1 <=> d[m] = d[m - 1] + 1
          /\ d2[j] = d2[j - 1] <=> d[m] = d[m - 1]
      BY <2>6, <3>3, <3>5
    <3> QED
      BY <3>2, <3>3, <3>4, <3>7, <3>8, <3>9 DEF Level
  <2> QED
    BY <2>1, <2>8, <2>10, <2>11 DEF Linked
<1> QED
  BY <1>8, <1>9

-----------------------------------------------------------------------------
(* The invariant.                                                         *)

\* The authority can take back every edit that can be undone, and redo every
\* edit that was.
AuthorityKept ==
  /\ IsHistory(seen) /\ Len(seen) = Len(undoOps)
  /\ IsHistory(undone) /\ Len(undone) = Len(redoOps)
  /\ nextKey \in Nat /\ InStep(origins, order, nextKey)
  /\ IsHistory(keyUndo) /\ Len(keyUndo) <= MaxUndoDepth
  /\ IsHistory(keyRedo) /\ Len(keyRedo) <= MaxUndoDepth
  /\ Linked(undoOps, keyUndo, preservedUndo, seen, "after", "before", nextKey, order)
  /\ Linked(redoOps, keyRedo, preservedRedo, undone, "before", "after", nextKey, order)

ModelKept == IsHistory(model) /\ Len(model) = Len(order) /\ IsFiniteSet(graph.nodes)

ProposalsKept == IsHistory(proposals) /\ ProposalsPointAtTheirSheet

KeysInv == ModelKept /\ AuthorityKept /\ ProposalsKept

\* What a list of operations is: of one kind, and fit for the workbook.
Entry(ops, a, b) == ops # <<>> /\ Leads(ops, a, b) /\ (Structural(ops) \/ Charting(ops))

\* An edit enters the histories; its inverse leads back to the order it left.
LEMMA CommitKeepsAuthority ==
    ASSUME HistoryInv, ModelKept, AuthorityKept, NEW ops, NEW b, Entry(ops, Len(model), b),
           Commit(ops, ApplyOps(model, ops).inverse)
    PROVE  AuthorityKept' /\ Len(order') = b /\ (~HasShift(ops) => order' = order)
<1> DEFINE done == ApplyOps(model, ops)
           back == done.inverse
           kept == [before |-> origins, after |-> origins']
           entry == [before |-> order, after |-> order']
           cont == Content(model, origins, order)
<1>1. /\ undoOps' = Push(undoOps, back) /\ redoOps' = <<>>
      /\ preservedUndo' = Push(preservedUndo, kept) /\ preservedRedo' = <<>>
      /\ AuthorityCommits(ops) /\ origins' = OriginsAfter(ops)
      /\ seen' = Push(seen, cont) /\ undone' = <<>>
  BY DEF Commit, PushPreserved
<1>2. /\ IsHistory(model) /\ Len(model) = Len(order)
      /\ IsHistory(ops) /\ ops # <<>> /\ Leads(ops, Len(model), b) /\ Leads(ops, Len(order), b)
      /\ nextKey \in Nat /\ InStep(origins, order, nextKey)
      /\ IsHistory(keyUndo) /\ Len(keyUndo) <= MaxUndoDepth
      /\ IsHistory(keyRedo) /\ Len(keyRedo) <= MaxUndoDepth
      /\ Linked(undoOps, keyUndo, preservedUndo, seen, "after", "before", nextKey, order)
      /\ IsHistory(seen) /\ Len(seen) = Len(undoOps)
  BY DEF ModelKept, AuthorityKept, Entry, Leads
<1>3. Reverses(model, ops, done, b)
  BY <1>2, ApplyingReverses
<1>4. /\ Leads(back, b, Len(order)) /\ back # <<>>
      /\ Charting(ops) => Charting(back)
      /\ Structural(ops) => Structural(back)
      /\ HasShift(ops) => HasShift(back)
  BY <1>2, <1>3 DEF Reverses
<1>5. /\ kept["before"] = origins /\ entry["before"] = order /\ entry["after"] = order'
      /\ cont.keys = order
  BY DEF Content
<1> HIDE DEF done, back, kept, entry, cont
<1>6. /\ IsHistory(undoOps) /\ IsHistory(preservedUndo)
      /\ Len(undoOps) <= MaxUndoDepth /\ Len(preservedUndo) = Len(undoOps)
      /\ MaxUndoDepth \in Nat
  BY HistoryLengths, DepthAssumption DEF HistoryInv, Histories
<1>7. /\ OnTop(undoOps', undoOps, back) /\ OnTop(preservedUndo', preservedUndo, kept)
      /\ Len(preservedUndo') = Len(undoOps') /\ Len(undoOps') <= MaxUndoDepth
      /\ OnTop(seen', seen, cont) /\ Len(seen') = Len(undoOps')
      /\ IsHistory(seen') /\ IsHistory(undone') /\ Len(undone') = Len(redoOps')
  <2>1. /\ Len(undoOps) <= MaxUndoDepth /\ Len(preservedUndo) <= MaxUndoDepth
    BY <1>6
  <2>2. /\ OnTop(Push(undoOps, back), undoOps, back)
        /\ Len(Push(undoOps, back)) = IF Len(undoOps) < MaxUndoDepth THEN Len(undoOps) + 1 ELSE MaxUndoDepth
        /\ OnTop(Push(preservedUndo, kept), preservedUndo, kept)
        /\ Len(Push(preservedUndo, kept)) = IF Len(undoOps) < MaxUndoDepth THEN Len(undoOps) + 1 ELSE MaxUndoDepth
        /\ OnTop(Push(seen, cont), seen, cont)
        /\ Len(Push(seen, cont)) = IF Len(undoOps) < MaxUndoDepth THEN Len(undoOps) + 1 ELSE MaxUndoDepth
    BY <1>2, <1>6, <2>1, TopOfPush
  <2>3. Len(undoOps) \in Nat
    BY <1>6, HistoryIsFunction
  <2>4. IsHistory(seen') /\ IsHistory(undone')
    BY <1>1, <2>2, EmptyHistory DEF OnTop
  <2> QED
    BY <1>1, <1>6, <2>2, <2>3, <2>4
<1>8. CASE Structural(ops)
  <2>1. Shared(ops) = ops
    BY <1>2, <1>8, WhatIsShared
  <2>2. /\ order' = KeysAfter(ops).keys /\ nextKey' = KeysAfter(ops).next
        /\ keyUndo' = Push(keyUndo, [before |-> order, after |-> KeysAfter(ops).keys])
        /\ keyRedo' = <<>>
    BY <1>1, <1>2, <2>1 DEF AuthorityCommits
  <2>3. keyUndo' = Push(keyUndo, entry)
    BY <2>2 DEF entry
  <2>4. Planned(ops, b)
    BY <1>2, PlansInStep
  <2>5. /\ nextKey' \in Nat /\ nextKey <= nextKey'
        /\ InStep(origins', order', nextKey') /\ Len(order') = b
        /\ ~HasShift(ops) => order' = order
    BY <1>1, <2>2, <2>4 DEF Planned
  <2>6. /\ OnTop(keyUndo', keyUndo, entry)
        /\ Len(keyUndo') = IF Len(keyUndo) < MaxUndoDepth THEN Len(keyUndo) + 1 ELSE MaxUndoDepth
    BY <1>2, <2>3, TopOfPush
  <2>7. IsHistory(keyUndo') /\ Len(keyUndo') <= MaxUndoDepth
    BY <1>2, <1>6, <2>6, HistoryIsFunction DEF OnTop
  <2>8. InStep(kept["before"], order, nextKey')
    BY <1>2, <1>5, <2>5, StaysInStep
  <2>9. Leads(back, Len(order'), Len(order)) /\ (~HasShift(back) => order = order') /\ Structural(back)
    BY <1>4, <1>8, <2>5
  <2>13. Entered(keyUndo', keyUndo, entry, "after", "before", order', order)
    BY <1>5, <2>6 DEF Entered
  <2>10. Linked(undoOps', keyUndo', preservedUndo', seen', "after", "before", nextKey', order')
    BY <1>2, <1>4, <1>5, <1>6, <1>7, <2>5, <2>8, <2>9, <2>13, LinkedPush
  <2>11. Linked(redoOps', keyRedo', preservedRedo', undone', "before", "after", nextKey', order')
    BY <1>1, NothingLinked
  <2>12. IsHistory(keyRedo') /\ Len(keyRedo') <= MaxUndoDepth
    BY <1>6, <2>2, EmptyHistory
  <2> QED
    BY <1>7, <2>5, <2>7, <2>10, <2>11, <2>12 DEF AuthorityKept
<1>9. CASE Charting(ops)
  <2>1. Shared(ops) = <<>> /\ ~HasShift(ops)
    BY <1>2, <1>9, WhatIsShared
  <2>2. order' = order /\ nextKey' = nextKey /\ keyUndo' = keyUndo /\ keyRedo' = keyRedo
    BY <1>1, <2>1 DEF AuthorityCommits, authority
  <2>3. origins' = origins
    BY <1>1, <1>2, <2>1, OriginsStay
  <2>4. Len(order) = b
    <3>1. Planned(ops, b)
      BY <1>2, PlansInStep
    <3> QED
      BY <2>1, <3>1 DEF Planned
  <2>5. InStep(kept["before"], order, nextKey') /\ nextKey <= nextKey' /\ nextKey' \in Nat
    BY <1>2, <1>5, <2>2
  <2>6. Leads(back, Len(order'), Len(order)) /\ Charting(back) /\ order = order'
    BY <1>4, <1>9, <2>2, <2>4
  <2>7. Linked(undoOps', keyUndo', preservedUndo', seen', "after", "before", nextKey', order')
    BY <1>2, <1>4, <1>5, <1>6, <1>7, <2>2, <2>5, <2>6, LinkedPush
  <2>8. Linked(redoOps', keyRedo', preservedRedo', undone', "before", "after", nextKey', order')
    BY <1>1, NothingLinked
  <2> QED
    BY <1>2, <1>7, <2>2, <2>3, <2>4, <2>7, <2>8 DEF AuthorityKept
<1> QED
  BY <1>8, <1>9 DEF Entry

\* An entry is turned over from one history, stk, to the other, stk3.
LEMMA LinkedTurn ==
    ASSUME NEW stk, NEW entries, NEW pres, NEW conts, NEW from, NEW to, NEW next \in Nat, NEW start, NEW under,
           IsHistory(stk), stk # <<>>, IsHistory(pres), Len(pres) = Len(stk),
           TopLevel(stk, entries, pres, conts, from, to, next, start, under),
           InStep(FromTop(pres, 1)[from], start, next),
           NEW stk3, IsHistory(stk3), NEW entries3, IsHistory(entries3), NEW pres3, IsHistory(pres3), NEW conts3,
           Len(entries3) <= MaxUndoDepth,
           Linked(stk3, entries3, pres3, conts3, to, from, next, start),
           NEW back, NEW stk4, NEW entries4, NEW pres4, NEW conts4, NEW cont,
           OnTop(conts4, conts3, cont), Len(conts4) = Len(stk4), cont.keys = start,
           OnTop(stk4, stk3, back), OnTop(pres4, pres3, FromTop(pres, 1)), Len(pres4) = Len(stk4),
           Len(stk4) <= MaxUndoDepth,
           Charting(FromTop(stk, 1)) => entries4 = entries3,
           Structural(FromTop(stk, 1)) => entries4 = Push(entries3, FromTop(entries, 1)),
           NEW wb, IsHistory(wb), Len(wb) = Len(start), NEW done,
           Reverses(wb, FromTop(stk, 1), done, Len(under)), back = done.inverse
    PROVE  Linked(stk4, entries4, pres4, conts4, to, from, next, under)
<1> DEFINE top == FromTop(stk, 1)
           entry == FromTop(entries, 1)
           kept == FromTop(pres, 1)
<1>1. /\ Leads(back, Len(under), Len(start)) /\ back # <<>>
      /\ Charting(top) => Charting(back)
      /\ Structural(top) => Structural(back)
      /\ HasShift(top) => HasShift(back)
  BY DEF Reverses, TopLevel
<1>2. /\ ~HasShift(top) => start = under
      /\ InStep(kept[from], start, next)
  BY DEF TopLevel
<1>3. ~HasShift(back) => start = under
  BY <1>1, <1>2
<1>4. CASE Structural(top)
  <2>1. entry[from] = start /\ entry[to] = under
    BY <1>4 DEF TopLevel
  <2>2. entries4 = Push(entries3, entry)
    BY <1>4
  <2> HIDE DEF top, entry, kept
  <2>3. /\ OnTop(entries4, entries3, entry)
        /\ Len(entries4) = IF Len(entries3) < MaxUndoDepth THEN Len(entries3) + 1 ELSE MaxUndoDepth
    BY <2>2, TopOfPush
  <2>4. OnTop(pres4, pres3, kept) /\ Structural(back) /\ next <= next
    BY <1>1, <1>4 DEF kept
  <2>5. Entered(entries4, entries3, entry, to, from, under, start)
    BY <2>1, <2>3 DEF Entered
  <2> QED
    BY <1>1, <1>2, <1>3, <2>4, <2>5, LinkedPush
<1>5. CASE Charting(top)
  <2>1. entries4 = entries3 /\ start = under
    BY <1>5 DEF TopLevel
  <2> HIDE DEF top, entry, kept
  <2>4. OnTop(pres4, pres3, kept) /\ Charting(back) /\ next <= next
    BY <1>1, <1>5 DEF kept
  <2> QED
    BY <1>1, <1>2, <1>3, <2>1, <2>4, LinkedPush
<1> QED
  BY <1>4, <1>5 DEF TopLevel

\* The newest edit is taken back: the package goes where the order goes.
LEMMA UndoKeepsAuthority ==
    ASSUME HistoryInv, ModelKept, AuthorityKept, UndoEdit
    PROVE  /\ AuthorityKept'
           /\ Leads(Last(undoOps), Len(model), Len(order'))
           /\ ~HasShift(Last(undoOps)) => order' = order
           /\ order' = Last(seen).keys
<1> DEFINE top == Last(undoOps)
           done == ApplyOps(model, top)
           back == done.inverse
           entry == Last(keyUndo)
           kept == Last(preservedUndo)
           cont == Content(model, origins, order)
<1>1. /\ undoOps # <<>> /\ preservedUndo # <<>>
      /\ undoOps' = Front(undoOps) /\ redoOps' = Append(redoOps, back)
      /\ AuthorityUndoes(top)
      /\ origins' = kept.before
      /\ preservedUndo' = Front(preservedUndo)
      /\ preservedRedo' = Append(preservedRedo, kept)
      /\ seen' = Front(seen) /\ undone' = Append(undone, cont)
  BY HistoryLengths DEF UndoEdit
<1>2. /\ IsHistory(undoOps) /\ IsHistory(preservedUndo) /\ Len(preservedUndo) = Len(undoOps)
      /\ IsHistory(redoOps) /\ IsHistory(preservedRedo) /\ Len(preservedRedo) = Len(redoOps)
      /\ Len(undoOps) \in Nat /\ Len(undoOps) > 0 /\ Len(redoOps) \in Nat
      /\ Len(undoOps) + Len(redoOps) <= MaxUndoDepth /\ MaxUndoDepth \in Nat
      /\ kept.after = origins
  BY <1>1, HistoryLengths, DepthAssumption DEF HistoryInv, Histories, HistoriesKeepStep
<1>3. /\ IsHistory(model) /\ Len(model) = Len(order)
      /\ nextKey \in Nat /\ InStep(origins, order, nextKey)
      /\ IsHistory(keyUndo) /\ Len(keyUndo) <= MaxUndoDepth
      /\ IsHistory(keyRedo) /\ Len(keyRedo) <= MaxUndoDepth
      /\ Linked(undoOps, keyUndo, preservedUndo, seen, "after", "before", nextKey, order)
      /\ Linked(redoOps, keyRedo, preservedRedo, undone, "before", "after", nextKey, order)
      /\ IsHistory(seen) /\ Len(seen) = Len(undoOps)
      /\ IsHistory(undone) /\ Len(undone) = Len(redoOps)
  BY DEF ModelKept, AuthorityKept
<1>4. top = FromTop(undoOps, 1) /\ kept = FromTop(preservedUndo, 1)
  BY <1>1, <1>2, TopTakenOff
<1>5. PICK under :
        /\ TopLevel(undoOps, keyUndo, preservedUndo, seen, "after", "before", nextKey, order, under)
        /\ \A stk2, entries2, pres2, conts2 :
             OffTop(stk2, undoOps) /\ OffTop(pres2, preservedUndo) /\ OffTop(conts2, seen)
             /\ (IF Charting(FromTop(undoOps, 1)) THEN entries2 = keyUndo
                 ELSE OffTop(entries2, keyUndo))
             => Linked(stk2, entries2, pres2, conts2, "after", "before", nextKey, under)
  BY <1>1, <1>2, <1>3, LinkedPop
<1>6. /\ top # <<>> /\ Leads(top, Len(order), Len(under))
      /\ ~HasShift(top) => order = under
      /\ InStep(kept["before"], under, nextKey)
  BY <1>4, <1>5 DEF TopLevel
<1>7. Reverses(model, top, done, Len(under))
  BY <1>3, <1>6, ApplyingReverses
<1>8. /\ OffTop(undoOps', undoOps) /\ OffTop(preservedUndo', preservedUndo)
      /\ OnTop(redoOps', redoOps, back) /\ OnTop(preservedRedo', preservedRedo, kept)
      /\ Len(preservedRedo') = Len(redoOps') /\ Len(redoOps') <= MaxUndoDepth
      /\ OffTop(seen', seen) /\ OnTop(undone', undone, cont) /\ Len(undone') = Len(redoOps')
      /\ Len(seen') = Len(undoOps') /\ IsHistory(seen') /\ IsHistory(undone')
  <2>1. OnTop(redoOps', redoOps, back) /\ Len(redoOps') = Len(redoOps) + 1
    BY <1>1, <1>2, TopOfAppend
  <2>2. OnTop(preservedRedo', preservedRedo, kept) /\ Len(preservedRedo') = Len(preservedRedo) + 1
    BY <1>1, <1>2, TopOfAppend
  <2>3. Len(redoOps') <= MaxUndoDepth
    BY <1>2, <2>1
  <2>4. OnTop(undone', undone, cont) /\ Len(undone') = Len(undone) + 1
    BY <1>1, <1>3, TopOfAppend
  <2>5. seen # <<>>
    BY <1>2, <1>3, HistoryIsFunction
  <2>6. OffTop(seen', seen) /\ OffTop(undoOps', undoOps) /\ OffTop(preservedUndo', preservedUndo)
    BY <1>1, <1>2, <1>3, <2>5, TopTakenOff
  <2>7. Len(seen') = Len(undoOps') /\ IsHistory(seen') /\ IsHistory(undone')
    BY <1>3, <2>4, <2>6 DEF OffTop, OnTop
  <2> QED
    BY <1>2, <1>3, <2>1, <2>2, <2>3, <2>4, <2>6, <2>7
<1>9. kept["before"] = kept.before /\ kept["after"] = kept.after
  OBVIOUS
<1>17. cont.keys = order
  BY DEF Content
<1>18. Last(seen).keys = under
  <2>1. seen # <<>>
    BY <1>2, <1>3, HistoryIsFunction
  <2>2. Last(seen) = FromTop(seen, 1)
    BY <1>3, <2>1, TopTakenOff
  <2> QED
    BY <1>5, <2>2 DEF TopLevel
<1> HIDE DEF done, back, kept, cont
<1>10. InStep(FromTop(preservedUndo, 1)["after"], order, nextKey)
  BY <1>2, <1>3, <1>4, <1>9
<1>11. IsHistory(top)
  BY <1>6 DEF Leads
<1> HIDE DEF top
<1>12. /\ order' = under /\ nextKey' = nextKey
       /\ IsHistory(keyUndo') /\ Len(keyUndo') <= MaxUndoDepth
       /\ IsHistory(keyRedo') /\ Len(keyRedo') <= MaxUndoDepth
       /\ IF Charting(top) THEN keyUndo' = keyUndo ELSE OffTop(keyUndo', keyUndo)
       /\ Charting(top) => keyRedo' = keyRedo
       /\ Structural(top) => keyRedo' = Push(keyRedo, FromTop(keyUndo, 1))
  <2>1. CASE Structural(top)
    <3>1. /\ ~Charting(top) /\ keyUndo # <<>>
          /\ FromTop(keyUndo, 1)["before"] = under
      BY <1>4, <1>5, <2>1 DEF TopLevel
    <3>2. Shared(top) # <<>>
      BY <1>6, <1>11, <2>1, WhatIsShared
    <3>3. /\ order' = entry.before /\ keyUndo' = Front(keyUndo)
          /\ keyRedo' = Push(keyRedo, entry) /\ nextKey' = nextKey
      BY <1>1, <3>2 DEF AuthorityUndoes
    <3>4. entry = FromTop(keyUndo, 1) /\ OffTop(keyUndo', keyUndo)
      BY <1>3, <3>1, <3>3, TopTakenOff
    <3>5. entry.before = under
      BY <3>1, <3>4
    <3>6. IsHistory(keyUndo') /\ Len(keyUndo') <= MaxUndoDepth
      <4>1. IsHistory(keyUndo') /\ Len(keyUndo') = Len(keyUndo) - 1 /\ Len(keyUndo) \in Nat
        BY <1>3, <3>4, HistoryIsFunction DEF OffTop
      <4> QED
        BY <1>2, <1>3, <4>1
    <3> HIDE DEF entry
    <3>7. IsHistory(keyRedo') /\ Len(keyRedo') <= MaxUndoDepth
      <4>1. /\ IsHistory(keyRedo')
            /\ Len(keyRedo') = IF Len(keyRedo) < MaxUndoDepth THEN Len(keyRedo) + 1 ELSE MaxUndoDepth
        BY <1>3, <3>3, PushToHistory
      <4>2. Len(keyRedo) \in Nat
        BY <1>3, HistoryIsFunction
      <4> QED
        BY <1>2, <4>1, <4>2
    <3> QED
      BY <2>1, <3>1, <3>3, <3>4, <3>5, <3>6, <3>7
  <2>2. CASE Charting(top)
    <3>1. Shared(top) = <<>>
      BY <1>11, <2>2, WhatIsShared
    <3>2. order' = order /\ nextKey' = nextKey /\ keyUndo' = keyUndo /\ keyRedo' = keyRedo
      BY <1>1, <3>1 DEF AuthorityUndoes, authority
    <3>3. order = under /\ ~Structural(top)
      BY <1>4, <1>5, <2>2 DEF TopLevel
    <3> QED
      BY <1>3, <2>2, <3>2, <3>3
  <2> QED
    BY <1>4, <1>5, <2>1, <2>2 DEF TopLevel
<1>13. Linked(undoOps', keyUndo', preservedUndo', seen', "after", "before", nextKey', order')
  BY <1>4, <1>5, <1>8, <1>12
<1>14. Linked(redoOps', keyRedo', preservedRedo', undone', "before", "after", nextKey', order')
  <2>1. Reverses(model, FromTop(undoOps, 1), done, Len(under)) /\ back = done.inverse
    BY <1>4, <1>7 DEF back
  <2>2. OnTop(preservedRedo', preservedRedo, FromTop(preservedUndo, 1))
    BY <1>4, <1>8
  <2>3. /\ Charting(FromTop(undoOps, 1)) => keyRedo' = keyRedo
        /\ Structural(FromTop(undoOps, 1)) => keyRedo' = Push(keyRedo, FromTop(keyUndo, 1))
    BY <1>4, <1>12
  <2>4. TopLevel(undoOps, keyUndo, preservedUndo, seen, "after", "before", nextKey, order, under)
    BY <1>5
  <2>5. /\ OnTop(redoOps', redoOps, back) /\ Len(preservedRedo') = Len(redoOps') /\ Len(redoOps') <= MaxUndoDepth
        /\ OnTop(undone', undone, cont) /\ Len(undone') = Len(redoOps')
    BY <1>8
  <2>6. Linked(redoOps', keyRedo', preservedRedo', undone', "before", "after", nextKey, under)
    BY <1>1, <1>2, <1>3, <1>10, <1>17, <2>1, <2>2, <2>3, <2>4, <2>5, LinkedTurn
  <2> QED
    BY <1>12, <2>6
<1>15. InStep(origins', order', nextKey')
  BY <1>1, <1>6, <1>9, <1>12
<1>16. AuthorityKept'
  BY <1>3, <1>8, <1>12, <1>13, <1>14, <1>15 DEF AuthorityKept
<1> QED
  BY <1>3, <1>6, <1>12, <1>16, <1>18 DEF top

\* The newest edit that was taken back is redone: the package goes where the order goes.
LEMMA RedoKeepsAuthority ==
    ASSUME HistoryInv, ModelKept, AuthorityKept, RedoEdit
    PROVE  /\ AuthorityKept'
           /\ Leads(Last(redoOps), Len(model), Len(order'))
           /\ ~HasShift(Last(redoOps)) => order' = order
           /\ order' = Last(undone).keys
<1> DEFINE top == Last(redoOps)
           done == ApplyOps(model, top)
           back == done.inverse
           entry == Last(keyRedo)
           kept == Last(preservedRedo)
           cont == Content(model, origins, order)
<1>1. /\ redoOps # <<>> /\ preservedRedo # <<>>
      /\ redoOps' = Front(redoOps) /\ undoOps' = Push(undoOps, back)
      /\ AuthorityRedoes(top)
      /\ origins' = kept.after
      /\ preservedRedo' = Front(preservedRedo)
      /\ preservedUndo' = Append(preservedUndo, kept)
      /\ undone' = Front(undone) /\ seen' = Push(seen, cont)
  BY HistoryLengths DEF RedoEdit
<1>2. /\ IsHistory(redoOps) /\ IsHistory(preservedRedo) /\ Len(preservedRedo) = Len(redoOps)
      /\ IsHistory(undoOps) /\ IsHistory(preservedUndo) /\ Len(preservedUndo) = Len(undoOps)
      /\ Len(redoOps) \in Nat /\ Len(redoOps) > 0 /\ Len(undoOps) \in Nat
      /\ Len(undoOps) + Len(redoOps) <= MaxUndoDepth /\ MaxUndoDepth \in Nat
      /\ kept.before = origins
  BY <1>1, HistoryLengths, DepthAssumption DEF HistoryInv, Histories, HistoriesKeepStep
<1>3. /\ IsHistory(model) /\ Len(model) = Len(order)
      /\ nextKey \in Nat /\ InStep(origins, order, nextKey)
      /\ IsHistory(keyRedo) /\ Len(keyRedo) <= MaxUndoDepth
      /\ IsHistory(keyUndo) /\ Len(keyUndo) <= MaxUndoDepth
      /\ Linked(redoOps, keyRedo, preservedRedo, undone, "before", "after", nextKey, order)
      /\ Linked(undoOps, keyUndo, preservedUndo, seen, "after", "before", nextKey, order)
      /\ IsHistory(seen) /\ Len(seen) = Len(undoOps)
      /\ IsHistory(undone) /\ Len(undone) = Len(redoOps)
  BY DEF ModelKept, AuthorityKept
<1>4. top = FromTop(redoOps, 1) /\ kept = FromTop(preservedRedo, 1)
  BY <1>1, <1>2, TopTakenOff
<1>5. PICK under :
        /\ TopLevel(redoOps, keyRedo, preservedRedo, undone, "before", "after", nextKey, order, under)
        /\ \A stk2, entries2, pres2, conts2 :
             OffTop(stk2, redoOps) /\ OffTop(pres2, preservedRedo) /\ OffTop(conts2, undone)
             /\ (IF Charting(FromTop(redoOps, 1)) THEN entries2 = keyRedo
                 ELSE OffTop(entries2, keyRedo))
             => Linked(stk2, entries2, pres2, conts2, "before", "after", nextKey, under)
  BY <1>1, <1>2, <1>3, LinkedPop
<1>6. /\ top # <<>> /\ Leads(top, Len(order), Len(under))
      /\ ~HasShift(top) => order = under
      /\ InStep(kept["after"], under, nextKey)
  BY <1>4, <1>5 DEF TopLevel
<1>7. Reverses(model, top, done, Len(under))
  BY <1>3, <1>6, ApplyingReverses
<1>8. /\ OffTop(redoOps', redoOps) /\ OffTop(preservedRedo', preservedRedo)
      /\ OnTop(undoOps', undoOps, back) /\ OnTop(preservedUndo', preservedUndo, kept)
      /\ Len(preservedUndo') = Len(undoOps') /\ Len(undoOps') <= MaxUndoDepth
      /\ OffTop(undone', undone) /\ OnTop(seen', seen, cont) /\ Len(seen') = Len(undoOps')
      /\ Len(undone') = Len(redoOps') /\ IsHistory(seen') /\ IsHistory(undone')
  <2>1. OnTop(undoOps', undoOps, back) /\ Len(undoOps') = Len(undoOps) + 1
    <3>1. Len(undoOps) <= MaxUndoDepth /\ Len(undoOps) < MaxUndoDepth
      BY <1>2
    <3> QED
      BY <1>1, <1>2, <3>1, TopOfPush
  <2>2. OnTop(preservedUndo', preservedUndo, kept) /\ Len(preservedUndo') = Len(preservedUndo) + 1
    BY <1>1, <1>2, TopOfAppend
  <2>3. Len(undoOps') <= MaxUndoDepth
    BY <1>2, <2>1
  <2>4. OnTop(seen', seen, cont) /\ Len(seen') = Len(seen) + 1
    <3>1. Len(seen) <= MaxUndoDepth /\ Len(seen) < MaxUndoDepth
      BY <1>2, <1>3
    <3> QED
      BY <1>1, <1>3, <3>1, TopOfPush
  <2>5. undone # <<>>
    BY <1>2, <1>3, HistoryIsFunction
  <2>6. OffTop(undone', undone) /\ OffTop(redoOps', redoOps) /\ OffTop(preservedRedo', preservedRedo)
    BY <1>1, <1>2, <1>3, <2>5, TopTakenOff
  <2>7. Len(undone') = Len(redoOps') /\ IsHistory(undone') /\ IsHistory(seen')
    BY <1>3, <2>4, <2>6 DEF OffTop, OnTop
  <2> QED
    BY <1>2, <1>3, <2>1, <2>2, <2>3, <2>4, <2>6, <2>7
<1>9. kept["after"] = kept.after /\ kept["before"] = kept.before
  OBVIOUS
<1>17. cont.keys = order
  BY DEF Content
<1>18. Last(undone).keys = under
  <2>1. undone # <<>>
    BY <1>2, <1>3, HistoryIsFunction
  <2>2. Last(undone) = FromTop(undone, 1)
    BY <1>3, <2>1, TopTakenOff
  <2> QED
    BY <1>5, <2>2 DEF TopLevel
<1> HIDE DEF done, back, kept, cont
<1>10. InStep(FromTop(preservedRedo, 1)["before"], order, nextKey)
  BY <1>2, <1>3, <1>4, <1>9
<1>11. IsHistory(top)
  BY <1>6 DEF Leads
<1> HIDE DEF top
<1>12. /\ order' = under /\ nextKey' = nextKey
       /\ IsHistory(keyRedo') /\ Len(keyRedo') <= MaxUndoDepth
       /\ IsHistory(keyUndo') /\ Len(keyUndo') <= MaxUndoDepth
       /\ IF Charting(top) THEN keyRedo' = keyRedo ELSE OffTop(keyRedo', keyRedo)
       /\ Charting(top) => keyUndo' = keyUndo
       /\ Structural(top) => keyUndo' = Push(keyUndo, FromTop(keyRedo, 1))
  <2>1. CASE Structural(top)
    <3>1. /\ ~Charting(top) /\ keyRedo # <<>>
          /\ FromTop(keyRedo, 1)["after"] = under
      BY <1>4, <1>5, <2>1 DEF TopLevel
    <3>2. Shared(top) # <<>>
      BY <1>6, <1>11, <2>1, WhatIsShared
    <3>3. /\ order' = entry.after /\ keyRedo' = Front(keyRedo)
          /\ keyUndo' = Push(keyUndo, entry) /\ nextKey' = nextKey
      BY <1>1, <3>2 DEF AuthorityRedoes
    <3>4. entry = FromTop(keyRedo, 1) /\ OffTop(keyRedo', keyRedo)
      BY <1>3, <3>1, <3>3, TopTakenOff
    <3>5. entry.after = under
      BY <3>1, <3>4
    <3>6. IsHistory(keyRedo') /\ Len(keyRedo') <= MaxUndoDepth
      <4>1. IsHistory(keyRedo') /\ Len(keyRedo') = Len(keyRedo) - 1 /\ Len(keyRedo) \in Nat
        BY <1>3, <3>4, HistoryIsFunction DEF OffTop
      <4> QED
        BY <1>2, <1>3, <4>1
    <3> HIDE DEF entry
    <3>7. IsHistory(keyUndo') /\ Len(keyUndo') <= MaxUndoDepth
      <4>1. /\ IsHistory(keyUndo')
            /\ Len(keyUndo') = IF Len(keyUndo) < MaxUndoDepth THEN Len(keyUndo) + 1 ELSE MaxUndoDepth
        BY <1>3, <3>3, PushToHistory
      <4>2. Len(keyUndo) \in Nat
        BY <1>3, HistoryIsFunction
      <4> QED
        BY <1>2, <4>1, <4>2
    <3> QED
      BY <2>1, <3>1, <3>3, <3>4, <3>5, <3>6, <3>7
  <2>2. CASE Charting(top)
    <3>1. Shared(top) = <<>>
      BY <1>11, <2>2, WhatIsShared
    <3>2. order' = order /\ nextKey' = nextKey /\ keyRedo' = keyRedo /\ keyUndo' = keyUndo
      BY <1>1, <3>1 DEF AuthorityRedoes, authority
    <3>3. order = under /\ ~Structural(top)
      BY <1>4, <1>5, <2>2 DEF TopLevel
    <3> QED
      BY <1>3, <2>2, <3>2, <3>3
  <2> QED
    BY <1>4, <1>5, <2>1, <2>2 DEF TopLevel
<1>13. Linked(redoOps', keyRedo', preservedRedo', undone', "before", "after", nextKey', order')
  BY <1>4, <1>5, <1>8, <1>12
<1>14. Linked(undoOps', keyUndo', preservedUndo', seen', "after", "before", nextKey', order')
  <2>1. Reverses(model, FromTop(redoOps, 1), done, Len(under)) /\ back = done.inverse
    BY <1>4, <1>7 DEF back
  <2>2. OnTop(preservedUndo', preservedUndo, FromTop(preservedRedo, 1))
    BY <1>4, <1>8
  <2>3. /\ Charting(FromTop(redoOps, 1)) => keyUndo' = keyUndo
        /\ Structural(FromTop(redoOps, 1)) => keyUndo' = Push(keyUndo, FromTop(keyRedo, 1))
    BY <1>4, <1>12
  <2>4. TopLevel(redoOps, keyRedo, preservedRedo, undone, "before", "after", nextKey, order, under)
    BY <1>5
  <2>5. /\ OnTop(undoOps', undoOps, back) /\ Len(preservedUndo') = Len(undoOps') /\ Len(undoOps') <= MaxUndoDepth
        /\ OnTop(seen', seen, cont) /\ Len(seen') = Len(undoOps')
    BY <1>8
  <2>6. Linked(undoOps', keyUndo', preservedUndo', seen', "after", "before", nextKey, under)
    BY <1>1, <1>2, <1>3, <1>10, <1>17, <2>1, <2>2, <2>3, <2>4, <2>5, LinkedTurn
  <2> QED
    BY <1>12, <2>6
<1>15. InStep(origins', order', nextKey')
  BY <1>1, <1>6, <1>9, <1>12
<1>16. AuthorityKept'
  BY <1>3, <1>8, <1>12, <1>13, <1>14, <1>15 DEF AuthorityKept
<1> QED
  BY <1>3, <1>6, <1>12, <1>16, <1>18 DEF top

-----------------------------------------------------------------------------
(* Init and the steps.                                                    *)

\* The file is opened with every sheet under its own key, and no history.
LEMMA KeysInit == Init => KeysInv
<1> SUFFICES ASSUME Init PROVE KeysInv
  OBVIOUS
<1> DEFINE l == Len(Opened)
<1>1. IsHistory(Opened) /\ l \in Nat
  BY OpenedAssumption, SeqOfRange, HistoryIsFunction DEF IsHistory
<1>2. ModelKept
  <2>1. IsFiniteSet(BuildGraph(Opened).nodes)
    BY <1>1, GraphIsFinite
  <2>2. order = [i \in 1..l |-> order[i]]
    BY DEF Init
  <2>3. Len(order) = l
    BY <1>1, <2>2, FunctionIsHistory
  <2> QED
    BY <1>1, <2>1, <2>3 DEF ModelKept, Init
<1>3. InStep(origins, order, nextKey)
  <2>1. order = [i \in 1..l |-> order[i]] /\ origins = [i \in 1..l |-> origins[i]]
    BY DEF Init
  <2>2. IsHistory(order) /\ Len(order) = l /\ IsHistory(origins) /\ Len(origins) = l
    BY <1>1, <2>1, FunctionIsHistory
  <2>3. \A i \in 1..l : order[i] = Seeded(i) /\ origins[i] = i
    BY DEF Init
  <2>4. \A i \in 1..l : origins[i] \in Origins /\ order[i] \in Keys
    <3>1. \A i \in 1..l : i \in Origins /\ Seeded(i) \in Keys
      BY <1>1 DEF Origins, Keys, Seeded
    <3> QED
      BY <2>3, <3>1
  <2>5. \A i \in 1..l : \A o \in 1..l : origins[i] = o <=> order[i] = Seeded(o)
    BY <2>3 DEF Seeded
  <2>6. \A i, j \in 1..l : order[i] = order[j] => i = j
    BY <2>3 DEF Seeded
  <2>7. \A i \in 1..l : \A n \in Nat : n >= nextKey => order[i] # Fresh(n)
    BY <2>3 DEF Seeded, Fresh
  <2> QED
    BY <2>2, <2>4, <2>5, <2>6, <2>7 DEF InStep
<1>4. AuthorityKept
  <2>1. /\ nextKey \in Nat /\ keyUndo = <<>> /\ keyRedo = <<>> /\ undoOps = <<>> /\ redoOps = <<>>
        /\ seen = <<>> /\ undone = <<>>
    BY DEF Init
  <2> QED
    BY <1>3, <2>1, EmptyHistory, NothingLinked, DepthAssumption DEF AuthorityKept
<1>5. ProposalsKept
  BY EmptyHistory DEF ProposalsKept, ProposalsPointAtTheirSheet, Init
<1> QED
  BY <1>2, <1>4, <1>5 DEF KeysInv

\* A list of one operation that shifts no sheet.
LEMMA OneEntry ==
    ASSUME NEW op, NEW a \in Nat, op.op \in Kinds, ~Shifts(op)
    PROVE  Entry(<<op>>, a, a) /\ ~HasShift(<<op>>)
<1>1. IsHistory(<<op>>) /\ Len(<<op>>) = 1 /\ <<op>>[1] = op /\ <<op>> # <<>>
  BY OneIsHistory, EmptyHistory
<1>2. Fits(op, a) /\ SheetsAfter(op, a) = a
  BY DEF Fits, SheetsAfter, Shifts
<1>3. Leads(<<op>>, a, a)
  BY <1>2, OneLeads
<1>4. \A n \in 1..1 : n = 1
  OBVIOUS
<1>5. Structural(<<op>>) \/ Charting(<<op>>)
  BY <1>1, <1>4 DEF Structural, Charting
<1>6. ~HasShift(<<op>>)
  BY <1>1, <1>4 DEF HasShift
<1> QED
  BY <1>1, <1>3, <1>5, <1>6 DEF Entry

\* A cell that is set and what depends on it leave the sheets where they are.
LEMMA SettingKeepsKeys ==
    ASSUME HistoryInv, ModelKept, AuthorityKept, NEW s, NEW r, NEW input,
           SetAndRecalculate(s, r, input)
    PROVE  ModelKept' /\ AuthorityKept' /\ order' = order /\ Len(model') = Len(model)
<1> DEFINE op == SetCell(s, r, input)
           done == ApplyOps(model, <<op>>)
<1>1. /\ Commit(<<op>>, done.inverse)
      /\ graph' = SetFormula(graph, done.wb, <<s, r>>)
      /\ model' = RecalcAfter(done.wb, graph', {<<s, r>>})
  BY DEF SetAndRecalculate
<1>2. op.op \in Kinds /\ ~Shifts(op)
  BY DEF SetCell, Kinds, Shifts
<1>3. IsHistory(model) /\ Len(model) \in Nat /\ Len(model) = Len(order) /\ IsFiniteSet(graph.nodes)
  BY HistoryIsFunction DEF ModelKept
<1> HIDE DEF op
<1>4. Entry(<<op>>, Len(model), Len(model)) /\ ~HasShift(<<op>>)
  BY <1>2, <1>3, OneEntry
<1>5. AuthorityKept' /\ order' = order
  BY <1>1, <1>4, CommitKeepsAuthority
<1>6. IsHistory(done.wb) /\ Len(done.wb) = Len(model)
  <2>1. Leads(<<op>>, Len(model), Len(model))
    BY <1>4 DEF Entry
  <2>2. Reverses(model, <<op>>, done, Len(model))
    BY <1>3, <2>1, ApplyingReverses
  <2> QED
    BY <2>2 DEF Reverses
<1> HIDE DEF done
<1>7. IsFiniteSet(graph'.nodes)
  BY <1>1, <1>3, SetFormulaFinite
<1>8. IsHistory(model') /\ Len(model') = Len(model)
  BY <1>1, <1>6, <1>7, SomeRecalculated
<1> QED
  BY <1>3, <1>5, <1>7, <1>8 DEF ModelKept

\* Proposals are forgotten when the sheets shift under them.
LEMMA ForgettingKeepsProposals ==
    ASSUME ProposalsKept, ModelKept, ModelKept', NEW ops, ForgetProposals(ops),
           ~HasShift(ops) => order' = order
    PROVE  ProposalsKept'
<1>1. CASE InvalidatesProposals(ops)
  <2>1. proposals' = <<>>
    BY <1>1 DEF ForgetProposals
  <2> QED
    BY <2>1, EmptyHistory DEF ProposalsKept, ProposalsPointAtTheirSheet
<1>2. CASE ~InvalidatesProposals(ops)
  <2>1. ~HasShift(ops)
    BY <1>2 DEF InvalidatesProposals, HasShift, Shifts
  <2>2. order' = order /\ proposals' = proposals /\ Len(model') = Len(model)
    BY <1>2, <2>1 DEF ForgetProposals, ModelKept
  <2> QED
    BY <2>2 DEF ProposalsKept, ProposalsPointAtTheirSheet, Sheets
<1> QED
  BY <1>1, <1>2

\* One is taken out.
LEMMA RemovingKeepsProposals ==
    ASSUME ProposalsKept, NEW i \in 1..Len(proposals), proposals' = RemoveAt(proposals, i),
           order' = order, Len(model') = Len(model)
    PROVE  ProposalsKept'
<1>1. IsHistory(proposals) /\ Len(proposals) \in Nat
  BY HistoryIsFunction DEF ProposalsKept
<1> DEFINE left == RemoveAt(proposals, i)
<1>2. /\ IsHistory(left) /\ Len(left) = Len(proposals) - 1
      /\ \A j \in 1..(i - 1) : left[j] = proposals[j]
      /\ \A j \in i..(Len(proposals) - 1) : left[j] = proposals[j + 1]
  BY <1>1, RemovedHistory
<1> HIDE DEF left
<1>3. proposals' = left
  BY DEF left
<1>4. ASSUME NEW n \in 1..Len(left) PROVE \E m \in 1..Len(proposals) : left[n] = proposals[m]
  <2>1. CASE n < i
    <3>1. n \in 1..(i - 1) /\ n \in 1..Len(proposals)
      BY <1>1, <1>2, <2>1
    <3> QED
      BY <1>2, <3>1
  <2>2. CASE ~(n < i)
    <3>1. n \in i..(Len(proposals) - 1) /\ n + 1 \in 1..Len(proposals)
      BY <1>1, <1>2, <2>2
    <3> QED
      BY <1>2, <3>1
  <2> QED
    BY <2>1, <2>2
<1>5. \A n \in 1..Len(left) : left[n].sheet \in Sheets /\ order[left[n].sheet] = left[n].for
  BY <1>4 DEF ProposalsKept, ProposalsPointAtTheirSheet
<1>6. ProposalsPointAtTheirSheet'
  BY <1>3, <1>5 DEF ProposalsPointAtTheirSheet, Sheets
<1> QED
  BY <1>2, <1>3, <1>6 DEF ProposalsKept

\* One is made, for a sheet there is.
LEMMA ProposingKeepsProposals ==
    ASSUME ProposalsKept, NEW s \in Sheets, NEW r, NEW input, Propose(s, r, input)
    PROVE  ProposalsKept'
<1> DEFINE e == [id |-> nextProposal + 1, sheet |-> s, at |-> r,
                 input |-> input, old |-> CellAt(model, s, r), for |-> order[s]]
<1>1. IsHistory(proposals) /\ Len(proposals) \in Nat
  BY HistoryIsFunction DEF ProposalsKept
<1>2. proposals' = Append(proposals, e) /\ model' = model /\ order' = order
  BY DEF Propose, screen, authority
<1>3. e.sheet = s /\ e.for = order[s]
  OBVIOUS
<1> HIDE DEF e
<1>4. /\ IsHistory(proposals') /\ Len(proposals') = Len(proposals) + 1
      /\ proposals'[Len(proposals) + 1] = e
      /\ \A n \in 1..Len(proposals) : proposals'[n] = proposals[n]
  BY <1>1, <1>2, AppendToHistory
<1>5. ASSUME NEW n \in 1..Len(proposals')
      PROVE  proposals'[n].sheet \in Sheets /\ order[proposals'[n].sheet] = proposals'[n].for
  <2>1. CASE n = Len(proposals) + 1
    BY <1>3, <1>4, <2>1
  <2>2. CASE n # Len(proposals) + 1
    <3>1. n \in 1..Len(proposals)
      BY <1>1, <1>4, <2>2
    <3> QED
      BY <1>4, <3>1 DEF ProposalsKept, ProposalsPointAtTheirSheet
  <2> QED
    BY <2>1, <2>2
<1>6. ProposalsPointAtTheirSheet'
  BY <1>2, <1>5 DEF ProposalsPointAtTheirSheet, Sheets
<1> QED
  BY <1>4, <1>6 DEF ProposalsKept

\* A transaction over the structure fits the workbook it is for.
LEMMA TransactionsFit ==
    ASSUME IsHistory(model), NEW ops \in Transactions
    PROVE  \E b : Entry(ops, Len(model), b)
<1> DEFINE l == Len(model)
<1>1. l \in Nat
  BY HistoryIsFunction
<1>2. CASE \E op : ops = <<op>> /\ op.op \in Kinds /\ Fits(op, l)
  <2>1. PICK op : ops = <<op>> /\ Fits(op, l)
    BY <1>2
  <2>2. IsHistory(<<op>>) /\ Len(<<op>>) = 1 /\ <<op>>[1] = op /\ <<op>> # <<>>
    BY OneIsHistory, EmptyHistory
  <2>3. Leads(<<op>>, l, SheetsAfter(op, l))
    BY <1>1, <2>1, OneLeads
  <2>4. \A n \in 1..1 : n = 1
    OBVIOUS
  <2>5. Structural(<<op>>) \/ Charting(<<op>>)
    BY <2>2, <2>4 DEF Structural, Charting
  <2> QED
    BY <2>1, <2>2, <2>3, <2>5 DEF Entry
<1>3. CASE \E i \in Sheets : ops = <<RemoveSheet(i), AddSheet(i, model[i].name)>>
  <2>1. PICK i \in Sheets : ops = <<RemoveSheet(i), AddSheet(i, model[i].name)>>
    BY <1>3
  <2> DEFINE x == RemoveSheet(i)
             y == AddSheet(i, model[i].name)
  <2>2. i \in 1..l /\ l - 1 \in Nat /\ l - 1 + 1 = l
    BY <1>1 DEF Sheets
  <2>3. Fits(x, l) /\ SheetsAfter(x, l) = l - 1 /\ ~IsSidecar(x)
    BY <2>2 DEF RemoveSheet, Fits, Kinds, SheetsAfter, IsSidecar
  <2>4. Fits(y, l - 1) /\ SheetsAfter(y, l - 1) = l /\ ~IsSidecar(y)
    BY <2>2 DEF AddSheet, Fits, Kinds, SheetsAfter, IsSidecar
  <2> HIDE DEF x, y
  <2>5. Leads(<<x>>, l, l - 1) /\ Leads(<<y>>, l - 1, l)
    BY <1>1, <2>2, <2>3, <2>4, OneLeads
  <2>6. Leads(<<x>> \o <<y>>, l, l)
    BY <2>5, JoinedLead
  <2>7. ops = <<x>> \o <<y>>
    BY <2>1 DEF x, y
  <2>8. /\ IsHistory(<<x>>) /\ Len(<<x>>) = 1 /\ <<x>>[1] = x
        /\ IsHistory(<<y>>) /\ Len(<<y>>) = 1 /\ <<y>>[1] = y
        /\ <<x>> # <<>>
    BY OneIsHistory, EmptyHistory
  <2>9. \A n \in 1..1 : n = 1
    OBVIOUS
  <2>10. Structural(<<x>>) /\ Structural(<<y>>)
    BY <2>3, <2>4, <2>8, <2>9 DEF Structural
  <2>11. Structural(<<x>> \o <<y>>) /\ <<x>> \o <<y>> # <<>>
    BY <2>8, <2>10, JoinedKinds
  <2> QED
    BY <2>6, <2>7, <2>11 DEF Entry
<1>4. ASSUME NEW s \in Sheets, NEW r, ops = <<InsertRow(s, r)>> \/ ops = <<DeleteRow(s, r)>>
      PROVE  \E op : ops = <<op>> /\ op.op \in Kinds /\ Fits(op, l)
  BY <1>4 DEF InsertRow, DeleteRow, Kinds, Fits
<1>5. ASSUME NEW i \in 1..(l + 1), NEW nm, ops = <<AddSheet(i, nm)>>
      PROVE  \E op : ops = <<op>> /\ op.op \in Kinds /\ Fits(op, l)
  BY <1>5 DEF AddSheet, Kinds, Fits
<1>6. ASSUME NEW i \in Sheets, ops = <<RemoveSheet(i)>>
      PROVE  \E op : ops = <<op>> /\ op.op \in Kinds /\ Fits(op, l)
  BY <1>6 DEF RemoveSheet, Kinds, Fits, Sheets
<1>7. ASSUME NEW i \in Sheets, NEW nm, ops = <<RenameSheet(i, nm)>>
      PROVE  \E op : ops = <<op>> /\ op.op \in Kinds /\ Fits(op, l)
  BY <1>7 DEF RenameSheet, Kinds, Fits
<1>8. \/ \E s \in Sheets, r \in Row : ops = <<InsertRow(s, r)>>
      \/ \E s \in Sheets, r \in Row : ops = <<DeleteRow(s, r)>>
      \/ \E i \in 1..(l + 1), nm \in Names : ops = <<AddSheet(i, nm)>>
      \/ \E i \in Sheets : ops = <<RemoveSheet(i)>>
      \/ \E i \in Sheets, nm \in Names : ops = <<RenameSheet(i, nm)>>
      \/ \E i \in Sheets : ops = <<RemoveSheet(i), AddSheet(i, model[i].name)>>
  <2> DEFINE A == {<<InsertRow(s, r)>> : s \in Sheets, r \in Row}
             B == {<<DeleteRow(s, r)>> : s \in Sheets, r \in Row}
             C == {<<AddSheet(i, nm)>> : i \in 1..(Len(model) + 1), nm \in Names}
             D == {<<RemoveSheet(i)>> : i \in Sheets}
             E == {<<RenameSheet(i, nm)>> : i \in Sheets, nm \in Names}
             F == {<<RemoveSheet(i), AddSheet(i, model[i].name)>> : i \in Sheets}
  <2>1. ops \in A \cup B \cup C \cup D \cup E \cup F
    <3>1. Transactions = A \cup B \cup C \cup D \cup E \cup F
      BY DEF Transactions
    <3> HIDE DEF A, B, C, D, E, F
    <3> QED
      BY <3>1
  <2>2. /\ ops \in A => \E s \in Sheets, r \in Row : ops = <<InsertRow(s, r)>>
        /\ ops \in B => \E s \in Sheets, r \in Row : ops = <<DeleteRow(s, r)>>
    OBVIOUS
  <2>3. /\ ops \in C => \E i \in 1..(l + 1), nm \in Names : ops = <<AddSheet(i, nm)>>
        /\ ops \in D => \E i \in Sheets : ops = <<RemoveSheet(i)>>
    OBVIOUS
  <2>4. /\ ops \in E => \E i \in Sheets, nm \in Names : ops = <<RenameSheet(i, nm)>>
        /\ ops \in F => \E i \in Sheets : ops = <<RemoveSheet(i), AddSheet(i, model[i].name)>>
    OBVIOUS
  <2> HIDE DEF A, B, C, D, E, F
  <2>5. ops \in A \/ ops \in B \/ ops \in C \/ ops \in D \/ ops \in E \/ ops \in F
    BY <2>1
  <2> QED
    BY <2>2, <2>3, <2>4, <2>5, Zenon
<1> QED
  BY <1>2, <1>3, <1>4, <1>5, <1>6, <1>7, <1>8

\* A chart operation is about charts.
LEMMA ChartOpsAreOfCharts ==
    ASSUME NEW op \in ChartOps
    PROVE  op.op \in Kinds /\ ~Shifts(op)
<1> DEFINE A(s) == {AddChart(s, Len(model[s].charts) + 1, ChartOn(t, a)) : t \in Sheets, a \in Anchors}
           B(s) == {SetAnchor(s, i, a) : i \in ChartsOf(s), a \in Anchors}
           C(s) == {RemoveChart(s, i, model[s].charts[i]) : i \in ChartsOf(s)}
<1>1. ChartOps = UNION {A(s) \cup B(s) \cup C(s) : s \in Sheets}
  BY DEF ChartOps
<1>2. ASSUME NEW s PROVE \A x \in A(s) : x.op = "AddChart"
  BY DEF AddChart
<1>3. ASSUME NEW s PROVE \A x \in B(s) : x.op = "SetAnchor"
  BY DEF SetAnchor
<1>4. ASSUME NEW s PROVE \A x \in C(s) : x.op = "RemoveChart"
  BY DEF RemoveChart
<1> HIDE DEF A, B, C
<1>5. \E s \in Sheets : op \in A(s) \/ op \in B(s) \/ op \in C(s)
  BY <1>1
<1>6. op.op \in {"AddChart", "SetAnchor", "RemoveChart"}
  BY <1>2, <1>3, <1>4, <1>5
<1> QED
  BY <1>6 DEF Kinds, Shifts

\* A chart operation leaves the keys alone.
LEMMA ChartsKeepKeys ==
    ASSUME HistoryInv, KeysInv, NEW op \in ChartOps, EditChart(op)
    PROVE  KeysInv'
<1> DEFINE done == ApplyOps(model, <<op>>)
<1>1. /\ Commit(<<op>>, done.inverse) /\ model' = done.wb
      /\ graph' = graph /\ proposals' = proposals
  BY DEF EditChart, CommitSidecar, pending
<1>2. /\ IsHistory(model) /\ Len(model) \in Nat /\ Len(model) = Len(order)
      /\ IsFiniteSet(graph.nodes) /\ ModelKept /\ AuthorityKept /\ ProposalsKept
  BY HistoryIsFunction DEF KeysInv, ModelKept
<1>3. Entry(<<op>>, Len(model), Len(model)) /\ ~HasShift(<<op>>)
  BY <1>2, ChartOpsAreOfCharts, OneEntry
<1>4. AuthorityKept' /\ order' = order
  BY <1>1, <1>2, <1>3, CommitKeepsAuthority
<1>5. IsHistory(done.wb) /\ Len(done.wb) = Len(model)
  <2>1. Leads(<<op>>, Len(model), Len(model))
    BY <1>3 DEF Entry
  <2>2. Reverses(model, <<op>>, done, Len(model))
    BY <1>2, <2>1, ApplyingReverses
  <2> QED
    BY <2>2 DEF Reverses
<1> HIDE DEF done
<1>6. ModelKept'
  BY <1>1, <1>2, <1>4, <1>5 DEF ModelKept
<1>7. ProposalsKept'
  BY <1>1, <1>2, <1>4, <1>5 DEF ProposalsKept, ProposalsPointAtTheirSheet, Sheets
<1> QED
  BY <1>4, <1>6, <1>7 DEF KeysInv

\* A transaction over the structure gives each added sheet a key of its own.
LEMMA StructureKeepsKeys ==
    ASSUME HistoryInv, KeysInv, NEW ops \in Transactions, ApplyTransaction(ops)
    PROVE  KeysInv'
<1> DEFINE done == ApplyOps(model, ops)
<1>1. /\ Commit(ops, done.inverse) /\ ForgetProposals(ops)
      /\ graph' = BuildGraph(done.wb) /\ model' = RecalcAll(done.wb)
  BY DEF ApplyTransaction
<1>2. IsHistory(model) /\ ModelKept /\ AuthorityKept /\ ProposalsKept
  BY DEF KeysInv, ModelKept
<1>3. PICK b : Entry(ops, Len(model), b)
  BY <1>2, TransactionsFit
<1>4. AuthorityKept' /\ Len(order') = b /\ (~HasShift(ops) => order' = order)
  BY <1>1, <1>2, <1>3, CommitKeepsAuthority
<1>5. IsHistory(done.wb) /\ Len(done.wb) = b
  <2>1. Leads(ops, Len(model), b)
    BY <1>3 DEF Entry
  <2>2. Reverses(model, ops, done, b)
    BY <1>2, <2>1, ApplyingReverses
  <2> QED
    BY <2>2 DEF Reverses
<1> HIDE DEF done
<1>6. ModelKept'
  BY <1>1, <1>4, <1>5, AllRecalculated, GraphIsFinite DEF ModelKept
<1>7. ProposalsKept'
  BY <1>1, <1>2, <1>4, <1>6, ForgettingKeepsProposals
<1> QED
  BY <1>4, <1>6, <1>7 DEF KeysInv

\* What an undo or a redo leaves on the screen has a sheet for each key.
LEMMA ReplayKeepsKeys ==
    ASSUME KeysInv, AuthorityKept', NEW ops, Leads(ops, Len(model), Len(order')),
           ~HasShift(ops) => order' = order, ForgetProposals(ops),
           graph' = BuildGraph(ApplyOps(model, ops).wb), model' = RecalcAll(ApplyOps(model, ops).wb)
    PROVE  KeysInv'
<1> DEFINE done == ApplyOps(model, ops)
<1>1. IsHistory(model) /\ ModelKept /\ ProposalsKept
  BY DEF KeysInv, ModelKept
<1>2. Reverses(model, ops, done, Len(order'))
  BY <1>1, ApplyingReverses
<1>3. graph' = BuildGraph(done.wb) /\ model' = RecalcAll(done.wb)
  OBVIOUS
<1> HIDE DEF done
<1>4. IsHistory(done.wb) /\ Len(done.wb) = Len(order')
  BY <1>2 DEF Reverses
<1>5. ModelKept'
  BY <1>3, <1>4, AllRecalculated, GraphIsFinite DEF ModelKept
<1>6. ProposalsKept'
  BY <1>1, <1>5, ForgettingKeepsProposals
<1> QED
  BY <1>5, <1>6 DEF KeysInv

\* The variables of the invariant.
keyVars == <<model, graph, order, nextKey, keyUndo, keyRedo, undoOps, redoOps,
             origins, preservedUndo, preservedRedo, seen, undone>>

\* What leaves the sheets and the histories alone keeps the rest.
LEMMA KeysUnchanged ==
    ASSUME KeysInv, UNCHANGED keyVars
    PROVE  ModelKept' /\ AuthorityKept'
<1>1. ModelKept'
  BY DEF KeysInv, keyVars, ModelKept
<1>2. AuthorityKept'
  BY DEF KeysInv, keyVars, AuthorityKept
<1> QED
  BY <1>1, <1>2

\* An accepted proposal is an edit like another, or none.
LEMMA AcceptKeepsKeys ==
    ASSUME HistoryInv, KeysInv, NEW i \in 1..Len(proposals), NEW force, AcceptProposal(i, force)
    PROVE  KeysInv'
<1> DEFINE p == proposals[i]
<1>1. /\ proposals' = RemoveAt(proposals, i)
      /\ \/ UNCHANGED <<model, graph, stack, preserved, authority, witness>>
         \/ SetAndRecalculate(p.sheet, p.at, p.input)
  BY DEF AcceptProposal
<1>2. ModelKept /\ AuthorityKept /\ ProposalsKept
  BY DEF KeysInv
<1>3. CASE UNCHANGED <<model, graph, stack, preserved, authority, witness>>
  <2>1. UNCHANGED keyVars
    BY <1>3 DEF keyVars, stack, preserved, authority, witness
  <2>2. ModelKept' /\ AuthorityKept'
    BY <2>1, KeysUnchanged
  <2>3. ProposalsKept'
    BY <1>1, <1>2, <2>1, RemovingKeepsProposals DEF keyVars
  <2> QED
    BY <2>2, <2>3 DEF KeysInv
<1>4. CASE SetAndRecalculate(p.sheet, p.at, p.input)
  <2>1. ModelKept' /\ AuthorityKept' /\ order' = order /\ Len(model') = Len(model)
    BY <1>2, <1>4, SettingKeepsKeys
  <2>2. ProposalsKept'
    BY <1>1, <1>2, <2>1, RemovingKeepsProposals
  <2> QED
    BY <2>1, <2>2 DEF KeysInv
<1> QED
  BY <1>1, <1>3, <1>4

\* Every step keeps what the authority needs.
LEMMA KeysStep ==
    ASSUME HistoryInv, KeysInv, [Next]_vars
    PROVE  KeysInv'
<1>0. ModelKept /\ AuthorityKept /\ ProposalsKept
  BY DEF KeysInv
<1>1. CASE Typing
  <2>1. PICK s, r, input : EditCell(s, r, input)
    BY <1>1 DEF Typing
  <2>2. SetAndRecalculate(s, r, input) /\ proposals' = proposals
    BY <2>1 DEF EditCell, pending
  <2>3. ModelKept' /\ AuthorityKept' /\ order' = order /\ Len(model') = Len(model)
    BY <1>0, <2>2, SettingKeepsKeys
  <2>4. ProposalsKept'
    BY <1>0, <2>2, <2>3 DEF ProposalsKept, ProposalsPointAtTheirSheet, Sheets
  <2> QED
    BY <2>3, <2>4 DEF KeysInv
<1>2. CASE Structure
  BY <1>2, StructureKeepsKeys DEF Structure
<1>3. CASE Charts
  BY <1>3, ChartsKeepKeys DEF Charts
<1>4. CASE Agents
  <2>1. ASSUME NEW p \in Suggestions, p[1] \in Sheets, Propose(p[1], p[2], p[3])
        PROVE  KeysInv'
    <3>1. UNCHANGED keyVars
      BY <2>1 DEF Propose, keyVars, screen, stack, preserved, authority, witness
    <3>2. ProposalsKept'
      BY <1>0, <2>1, ProposingKeepsProposals
    <3> QED
      BY <3>1, <3>2, KeysUnchanged DEF KeysInv
  <2>2. ASSUME NEW i \in 1..Len(proposals), NEW force, AcceptProposal(i, force)
        PROVE  KeysInv'
    BY <2>2, AcceptKeepsKeys
  <2>3. ASSUME NEW i \in 1..Len(proposals), RejectProposal(i)
        PROVE  KeysInv'
    <3>1. UNCHANGED keyVars /\ proposals' = RemoveAt(proposals, i)
      BY <2>3 DEF RejectProposal, keyVars, screen, stack, preserved, authority, witness
    <3>2. ProposalsKept'
      BY <1>0, <3>1, RemovingKeepsProposals DEF keyVars
    <3> QED
      BY <3>1, <3>2, KeysUnchanged DEF KeysInv
  <2> QED
    BY <1>4, <2>1, <2>2, <2>3 DEF Agents
<1>5. CASE UndoEdit
  <2>1. /\ AuthorityKept'
        /\ Leads(Last(undoOps), Len(model), Len(order'))
        /\ ~HasShift(Last(undoOps)) => order' = order
    BY <1>0, <1>5, UndoKeepsAuthority
  <2>2. /\ ForgetProposals(Last(undoOps))
        /\ graph' = BuildGraph(ApplyOps(model, Last(undoOps)).wb)
        /\ model' = RecalcAll(ApplyOps(model, Last(undoOps)).wb)
    BY <1>5 DEF UndoEdit
  <2> QED
    BY <2>1, <2>2, ReplayKeepsKeys
<1>6. CASE RedoEdit
  <2>1. /\ AuthorityKept'
        /\ Leads(Last(redoOps), Len(model), Len(order'))
        /\ ~HasShift(Last(redoOps)) => order' = order
    BY <1>0, <1>6, RedoKeepsAuthority
  <2>2. /\ ForgetProposals(Last(redoOps))
        /\ graph' = BuildGraph(ApplyOps(model, Last(redoOps)).wb)
        /\ model' = RecalcAll(ApplyOps(model, Last(redoOps)).wb)
    BY <1>6 DEF RedoEdit
  <2> QED
    BY <2>1, <2>2, ReplayKeepsKeys
<1>7. CASE RecalculateAll
  <2>1. /\ model' = RecalcAll(model) /\ graph' = BuildGraph(model)
        /\ UNCHANGED <<order, nextKey, keyUndo, keyRedo, undoOps, redoOps,
                       origins, preservedUndo, preservedRedo, seen, undone, proposals>>
    BY <1>7 DEF RecalculateAll, stack, preserved, authority, pending, witness
  <2>2. IsHistory(model') /\ Len(model') = Len(model) /\ IsFiniteSet(graph'.nodes)
    BY <1>0, <2>1, AllRecalculated, GraphIsFinite DEF ModelKept
  <2>3. ModelKept'
    BY <1>0, <2>1, <2>2 DEF ModelKept
  <2>4. AuthorityKept'
    BY <1>0, <2>1 DEF AuthorityKept
  <2>5. ProposalsKept'
    BY <1>0, <2>1, <2>2 DEF ProposalsKept, ProposalsPointAtTheirSheet, Sheets
  <2> QED
    BY <2>3, <2>4, <2>5 DEF KeysInv
<1>8. ASSUME UNCHANGED <<keyVars, proposals>> PROVE KeysInv'
  <2>1. ModelKept' /\ AuthorityKept'
    BY <1>8, KeysUnchanged
  <2>2. ProposalsKept'
    BY <1>0, <1>8 DEF ProposalsKept, ProposalsPointAtTheirSheet, Sheets, keyVars
  <2> QED
    BY <2>1, <2>2 DEF KeysInv
<1>9. CASE \E s \in Sheets : SetActiveSheet(s)
  BY <1>8, <1>9 DEF SetActiveSheet, keyVars, stack, preserved, authority, pending, witness
<1>10. CASE UNCHANGED vars
  BY <1>8, <1>10 DEF vars, keyVars, screen, stack, preserved, authority, pending, witness
<1> QED
  BY <1>1, <1>2, <1>3, <1>4, <1>5, <1>6, <1>7, <1>9, <1>10 DEF Next

-----------------------------------------------------------------------------
(* What follows.                                                           *)

\* The authority has the entry that the newest operations need.
LEMMA TopReplays ==
    ASSUME IsHistory(order), NEW stk, IsHistory(stk), stk # <<>>, NEW entries, IsHistory(entries),
           NEW pres, NEW conts, IsHistory(pres), Len(pres) = Len(stk), Len(conts) = Len(stk), NEW from, NEW to, NEW next,
           Linked(stk, entries, pres, conts, from, to, next, order)
    PROVE  Replays(entries, from, to, Last(stk))
<1> DEFINE top == Last(stk)
<1>1. top = FromTop(stk, 1)
  BY TopTakenOff
<1>2. PICK under : TopLevel(stk, entries, pres, conts, from, to, next, order, under)
  BY LinkedPop
<1>3. Leads(top, Len(order), Len(under)) /\ IsHistory(top)
  BY <1>1, <1>2 DEF TopLevel, Leads
<1> HIDE DEF top
<1>4. CASE Structural(top)
  <2>1. /\ entries # <<>>
        /\ FromTop(entries, 1)[from] = order /\ FromTop(entries, 1)[to] = under
    BY <1>1, <1>2, <1>4 DEF TopLevel
  <2>2. Last(entries) = FromTop(entries, 1)
    BY <2>1, TopTakenOff
  <2>3. Shared(top) = top
    BY <1>3, <1>4, WhatIsShared
  <2>4. IsHistory(Materialized) /\ Len(Materialized) = Len(order)
    BY MaterializedIs
  <2>5. Reverses(Materialized, top, ApplyOps(Materialized, top), Len(under))
    BY <1>3, <2>4, ApplyingReverses
  <2>6. Len(ApplyOps(Materialized, top).wb) = Len(under)
    BY <2>5 DEF Reverses
  <2>7. Replays(entries, from, to, top)
    BY <2>1, <2>2, <2>3, <2>6 DEF Replays
  <2> QED
    BY <2>7 DEF top
<1>5. CASE Charting(top)
  <2>1. Shared(top) = <<>>
    BY <1>3, <1>5, WhatIsShared
  <2>2. Replays(entries, from, to, top)
    BY <2>1 DEF Replays
  <2> QED
    BY <2>2 DEF top
<1> QED
  BY <1>1, <1>2, <1>4, <1>5 DEF TopLevel

\* The check the authority makes is one the invariant answers.
LEMMA InvReplays == HistoryInv /\ KeysInv => AuthorityWillReplay
<1> SUFFICES ASSUME HistoryInv, KeysInv PROVE AuthorityWillReplay
  OBVIOUS
<1>1. /\ IsHistory(undoOps) /\ IsHistory(preservedUndo) /\ Len(preservedUndo) = Len(undoOps)
      /\ IsHistory(redoOps) /\ IsHistory(preservedRedo) /\ Len(preservedRedo) = Len(redoOps)
  BY DEF HistoryInv, Histories, HistoriesKeepStep
<1>2. /\ IsHistory(order) /\ IsHistory(keyUndo) /\ IsHistory(keyRedo)
      /\ Linked(undoOps, keyUndo, preservedUndo, seen, "after", "before", nextKey, order)
      /\ Linked(redoOps, keyRedo, preservedRedo, undone, "before", "after", nextKey, order)
      /\ IsHistory(seen) /\ Len(seen) = Len(undoOps)
      /\ IsHistory(undone) /\ Len(undone) = Len(redoOps)
  BY DEF KeysInv, AuthorityKept, InStep
<1>3. undoOps # <<>> => Replays(keyUndo, "after", "before", Last(undoOps))
  BY <1>1, <1>2, TopReplays
<1>4. redoOps # <<>> => Replays(keyRedo, "before", "after", Last(redoOps))
  BY <1>1, <1>2, TopReplays
<1> QED
  BY <1>3, <1>4 DEF AuthorityWillReplay

\* Origins and keys in step are origins that follow keys.
LEMMA InvFollows == KeysInv => OriginsFollowKeys
  BY DEF KeysInv, ModelKept, AuthorityKept, InStep, OriginsFollowKeys, Sheets

\* Both invariants hold in every state a workbook can be in.
LEMMA KeysAlways == Spec => [](HistoryInv /\ KeysInv)
<1>1. Init => HistoryInv /\ KeysInv
  BY HistoryInit, KeysInit
<1>2. HistoryInv /\ KeysInv /\ [Next]_vars => (HistoryInv /\ KeysInv)'
  BY HistoryStep, KeysStep
<1> QED
  BY <1>1, <1>2, PTL DEF Spec

\* In every state a workbook can be in, for any file, any edits and any undo
\* depth, the authority accepts the operations of the newest undo and of the
\* newest redo: its own entry, in a history that charts do not enter and that is
\* capped on its own, starts at the order it has and ends with as many sheets as
\* those operations leave (Workbook::undo and redo, plan_sheet_keys).
THEOREM UndoNeverFailsHalfWay == Spec => []AuthorityWillReplay
  BY KeysAlways, InvReplays, PTL

\* In every state, a sheet has the n-th sheet of the file as its source in the
\* package exactly when the authority has it under that sheet's key, and no two
\* sheets have one key (WorkbookModel's preserved origins against the keys of
\* SharedWorkbook).
THEOREM PartsFollowTheirSheets == Spec => []OriginsFollowKeys
  BY KeysAlways, InvFollows, PTL

\* In every state, a pending proposal names by its index the sheet it was made
\* for: what shifts sheets forgets the proposals, undone and redone too
\* (invalidate_proposals).
THEOREM ProposalsAreForTheirSheet == Spec => []ProposalsPointAtTheirSheet
<1>1. KeysInv => ProposalsPointAtTheirSheet
  BY DEF KeysInv, ProposalsKept
<1> QED
  BY <1>1, KeysAlways, PTL

-----------------------------------------------------------------------------
(* Workbooks.                                                             *)

\* The charts and sheets there can be.
Chart == [anchor : Anchors, source : Names, of : Keys]
Sheet == [name : Names, cells : [Row -> Cell], charts : Seq(Chart)]

\* A workbook: sheets with the names, cells and charts they can have.
IsBook(wb) == IsHistory(wb) /\ \A i \in 1..Len(wb) : wb[i] \in Sheet

\* The workbook without calculated values.
Plain(wb) == [i \in 1..Len(wb) |->
  [name   |-> wb[i].name,
   cells  |-> [r \in Row |-> Authored(wb[i].cells[r])],
   charts |-> wb[i].charts]]

\* Two workbooks that differ at most in calculated values.
Alike(a, b) ==
  /\ Len(a) = Len(b)
  /\ \A i \in 1..Len(a) :
       /\ a[i].name = b[i].name /\ a[i].charts = b[i].charts
       /\ \A r \in Row : Authored(a[i].cells[r]) = Authored(b[i].cells[r])

\* A cell without its calculated value is a cell, and has the formula.
LEMMA AuthoredIs ==
    ASSUME NEW c \in Cell
    PROVE  /\ Authored(c) \in Cell /\ Authored(c).f = c.f
           /\ Authored(Authored(c)) = Authored(c)
           /\ IsFormula(Authored(c)) <=> IsFormula(c)
           /\ ~IsFormula(c) => Authored(c) = c
<1>1. c = [v |-> c.v, f |-> c.f] /\ c.v \in Int /\ c.f \in Formulas
  BY DEF Cell
<1>2. [c EXCEPT !.v = Blank] = [v |-> Blank, f |-> c.f]
  BY <1>1
<1>3. Blank \in Int
  BY DEF Blank
<1>4. CASE IsFormula(c)
  <2>1. Authored(c) = [v |-> Blank, f |-> c.f]
    BY <1>2, <1>4 DEF Authored
  <2>2. Authored(c) \in Cell /\ Authored(c).f = c.f
    BY <1>1, <1>3, <2>1 DEF Cell
  <2>3. IsFormula(Authored(c))
    BY <1>4, <2>2 DEF IsFormula
  <2>4. Authored(Authored(c)) = [Authored(c) EXCEPT !.v = Blank]
    BY <2>3 DEF Authored
  <2>5. [Authored(c) EXCEPT !.v = Blank] = Authored(c)
    BY <2>1
  <2> QED
    BY <1>4, <2>2, <2>3, <2>4, <2>5
<1>5. CASE ~IsFormula(c)
  <2>1. Authored(c) = c
    BY <1>5 DEF Authored
  <2> QED
    BY <1>5, <2>1
<1> QED
  BY <1>4, <1>5

\* The sheets of a workbook are sheets.
LEMMA BookIs ==
    ASSUME NEW wb, IsBook(wb)
    PROVE  /\ IsHistory(wb) /\ Len(wb) \in Nat
           /\ wb = [i \in 1..Len(wb) |-> wb[i]]
           /\ \A i \in 1..Len(wb) :
                /\ wb[i] \in Sheet
                /\ wb[i].name \in Names /\ wb[i].cells \in [Row -> Cell] /\ wb[i].charts \in Seq(Chart)
                /\ \A r \in Row : wb[i].cells[r] \in Cell
  BY HistoryIsFunction DEF IsBook, Sheet

\* A function that gives sheets is a workbook.
LEMMA BookOf ==
    ASSUME NEW n \in Nat, NEW f, f = [i \in 1..n |-> f[i]], \A i \in 1..n : f[i] \in Sheet
    PROVE  IsBook(f) /\ Len(f) = n
  BY FunctionIsHistory DEF IsBook

\* Two sheets with the same parts are the same.
LEMMA SheetIs ==
    ASSUME NEW a \in Sheet, NEW b \in Sheet,
           a.name = b.name, a.charts = b.charts, \A r \in Row : a.cells[r] = b.cells[r]
    PROVE  a = b
<1>1. a.cells = b.cells
  BY DEF Sheet
<1> QED
  BY <1>1 DEF Sheet

\* The workbook without values is a workbook, alike and without values.
LEMMA PlainIs ==
    ASSUME NEW wb, IsBook(wb)
    PROVE  /\ IsBook(Plain(wb)) /\ Len(Plain(wb)) = Len(wb)
           /\ \A i \in 1..Len(wb) :
                /\ Plain(wb)[i].name = wb[i].name /\ Plain(wb)[i].charts = wb[i].charts
                /\ \A r \in Row : Plain(wb)[i].cells[r] = Authored(wb[i].cells[r])
<1> DEFINE P == Plain(wb)
<1>1. Len(wb) \in Nat
  BY BookIs
<1>2. P = [i \in 1..Len(wb) |-> P[i]]
  BY DEF Plain
<1>3. ASSUME NEW i \in 1..Len(wb)
      PROVE  /\ P[i] \in Sheet
             /\ P[i].name = wb[i].name /\ P[i].charts = wb[i].charts
             /\ \A r \in Row : P[i].cells[r] = Authored(wb[i].cells[r])
  <2> DEFINE cs == [r \in Row |-> Authored(wb[i].cells[r])]
  <2>1. P[i] = [name |-> wb[i].name, cells |-> cs, charts |-> wb[i].charts]
    BY DEF Plain
  <2>2. wb[i].name \in Names /\ wb[i].charts \in Seq(Chart) /\ \A r \in Row : wb[i].cells[r] \in Cell
    BY BookIs
  <2>3. cs \in [Row -> Cell]
    BY <2>2, AuthoredIs
  <2>4. \A r \in Row : cs[r] = Authored(wb[i].cells[r])
    OBVIOUS
  <2> HIDE DEF cs, P
  <2>5. P[i] \in Sheet
    BY <2>1, <2>2, <2>3 DEF Sheet
  <2> QED
    BY <2>1, <2>4, <2>5
<1> HIDE DEF P
<1>4. IsBook(P) /\ Len(P) = Len(wb)
  BY <1>1, <1>2, <1>3, BookOf
<1> QED
  BY <1>3, <1>4 DEF P

\* Alike are the workbooks that are the same without values.
LEMMA AlikeIs ==
    ASSUME NEW a, IsBook(a), NEW b, IsBook(b)
    PROVE  Alike(a, b) <=> Plain(a) = Plain(b)
<1> DEFINE P == Plain(a)
           Q == Plain(b)
<1>1. /\ IsBook(P) /\ Len(P) = Len(a)
      /\ \A i \in 1..Len(a) :
                /\ P[i].name = a[i].name /\ P[i].charts = a[i].charts
                /\ \A r \in Row : P[i].cells[r] = Authored(a[i].cells[r])
  BY PlainIs
<1>2. /\ IsBook(Q) /\ Len(Q) = Len(b)
      /\ \A i \in 1..Len(b) :
                /\ Q[i].name = b[i].name /\ Q[i].charts = b[i].charts
                /\ \A r \in Row : Q[i].cells[r] = Authored(b[i].cells[r])
  BY PlainIs
<1> HIDE DEF P, Q
<1>3. ASSUME Alike(a, b) PROVE P = Q
  <2>1. ASSUME NEW i \in 1..Len(P) PROVE P[i] = Q[i]
    <3>1. P[i] \in Sheet /\ Q[i] \in Sheet
      BY <1>1, <1>2, <1>3 DEF Alike, IsBook
    <3>2. P[i].name = Q[i].name /\ P[i].charts = Q[i].charts /\ \A r \in Row : P[i].cells[r] = Q[i].cells[r]
      BY <1>1, <1>2, <1>3 DEF Alike
    <3> QED
      BY <3>1, <3>2, SheetIs
  <2>2. IsHistory(P) /\ IsHistory(Q) /\ Len(P) = Len(Q)
    BY <1>1, <1>2, <1>3 DEF Alike, IsBook
  <2> QED
    BY <2>1, <2>2, SameHistory
<1>4. ASSUME P = Q PROVE Alike(a, b)
  BY <1>1, <1>2, <1>4 DEF Alike
<1> QED
  BY <1>3, <1>4 DEF P, Q

\* Taking the values away twice is taking them away.
LEMMA PlainTwice ==
    ASSUME NEW wb, IsBook(wb)
    PROVE  Plain(Plain(wb)) = Plain(wb) /\ Alike(Plain(wb), wb)
<1>1. /\ IsBook(Plain(wb)) /\ Len(Plain(wb)) = Len(wb)
      /\ \A i \in 1..Len(wb) :
                /\ Plain(wb)[i].name = wb[i].name /\ Plain(wb)[i].charts = wb[i].charts
                /\ \A r \in Row : Plain(wb)[i].cells[r] = Authored(wb[i].cells[r])
  BY PlainIs
<1>2. \A i \in 1..Len(wb) : \A r \in Row : Authored(Authored(wb[i].cells[r])) = Authored(wb[i].cells[r])
  BY BookIs, AuthoredIs
<1>3. Alike(Plain(wb), wb)
  BY <1>1, <1>2 DEF Alike
<1> QED
  BY <1>1, <1>3, AlikeIs

\* Cells mapped one by one.
LEMMA MapCellsIs ==
    ASSUME NEW wb, IsBook(wb), NEW new,
           \A i \in 1..Len(wb), r \in Row : new[<<i, r>>] \in Cell
    PROVE  /\ IsBook(MapCells(wb, new)) /\ Len(MapCells(wb, new)) = Len(wb)
           /\ \A i \in 1..Len(wb) :
                /\ MapCells(wb, new)[i].name = wb[i].name
                /\ MapCells(wb, new)[i].charts = wb[i].charts
                /\ \A r \in Row : MapCells(wb, new)[i].cells[r] = new[<<i, r>>]
<1> DEFINE row(i) == [r \in Row |-> new[<<i, r>>]]
           f == [s \in 1..Len(wb) |->
            [name   |-> wb[s].name,
             cells  |-> Listed([r \in Row |-> new[<<s, r>>]], MaxRow),
             charts |-> wb[s].charts]]
           M == Listed(f, Len(wb))
<1>1. Len(wb) \in Nat /\ MaxRow \in Nat
  BY BookIs, MaxRowAssumption
<1>2. IsHistory(M) /\ Len(M) = Len(wb) /\ \A i \in 1..Len(wb) : M[i] = f[i]
  <2> HIDE DEF f
  <2> QED
    BY <1>1, ListedIs
<1>3. M = MapCells(wb, new)
  BY DEF MapCells
<1>4. ASSUME NEW i \in 1..Len(wb)
      PROVE  /\ M[i] \in Sheet /\ M[i].name = wb[i].name /\ M[i].charts = wb[i].charts
             /\ \A r \in Row : M[i].cells[r] = new[<<i, r>>]
  <2> DEFINE c == Listed(row(i), MaxRow)
  <2>1. f[i] = [name |-> wb[i].name, cells |-> c, charts |-> wb[i].charts]
    OBVIOUS
  <2>2. \A r \in Row : row(i)[r] = new[<<i, r>>]
    OBVIOUS
  <2>3. IsHistory(c) /\ Len(c) = MaxRow /\ \A r \in 1..MaxRow : c[r] = row(i)[r]
    <3> HIDE DEF row
    <3> QED
      BY <1>1, ListedIs
  <2> HIDE DEF row, c, M, f
  <2>4. c = [r \in Row |-> c[r]] /\ \A r \in Row : c[r] = new[<<i, r>>]
    BY <2>2, <2>3, HistoryIsFunction DEF Row
  <2>5. c \in [Row -> Cell]
    BY <2>4
  <2>6. wb[i].name \in Names /\ wb[i].charts \in Seq(Chart)
    BY BookIs
  <2>7. M[i] = [name |-> wb[i].name, cells |-> c, charts |-> wb[i].charts]
    BY <1>2, <2>1
  <2>8. M[i] \in Sheet
    BY <2>5, <2>6, <2>7 DEF Sheet
  <2> QED
    BY <2>4, <2>7, <2>8
<1> HIDE DEF M
<1>5. IsBook(M)
  BY <1>2, <1>4 DEF IsBook
<1> QED
  BY <1>2, <1>3, <1>4, <1>5

\* What is selected of a sequence are its elements that are wanted.
LEMMA SelectedElements ==
    ASSUME NEW s, IsHistory(s), NEW S
    PROVE  /\ \A i \in 1..Len(Selected(s, S)) :
                \E j \in 1..Len(s) : s[j] \in S /\ Selected(s, S)[i] = s[j]
           /\ \A j \in 1..Len(s) : s[j] \in S =>
                \E i \in 1..Len(Selected(s, S)) : Selected(s, S)[i] = s[j]
<1>1. PICK f : SelectedOf(f, s, S, Len(s)) /\ Selected(s, S) = f[Len(s)]
  BY SelectedIs
<1>2. Len(s) \in Nat
  BY HistoryIsFunction
<1>3. /\ f[0] = <<>>
      /\ \A m \in 1..Len(s) : f[m] = IF s[m] \in S THEN Append(f[m - 1], s[m]) ELSE f[m - 1]
  <2>1. 0 \in 0..Len(s)
    BY <1>2
  <2>2. ASSUME NEW m \in 1..Len(s) PROVE m \in 0..Len(s) /\ m # 0
    BY <1>2
  <2> QED
    BY <1>1, <2>1, <2>2 DEF SelectedOf
<1> DEFINE Good(m) ==
             /\ IsHistory(f[m])
             /\ \A i \in 1..Len(f[m]) : \E j \in 1..Len(s) : s[j] \in S /\ f[m][i] = s[j]
             /\ \A j \in 1..m : s[j] \in S => \E i \in 1..Len(f[m]) : f[m][i] = s[j]
           T == {m \in 0..Len(s) : ~Good(m)}
<1>4. Good(0)
  <2>1. \A i \in 1..0 : FALSE
    OBVIOUS
  <2> QED
    BY <1>3, <2>1, EmptyHistory
<1>5. ASSUME NEW m \in 1..Len(s), Good(m - 1) PROVE Good(m)
  <2> DEFINE t == f[m - 1]
             u == Append(t, s[m])
  <2>1. f[m] = IF s[m] \in S THEN u ELSE t
    BY <1>3
  <2>2. /\ IsHistory(t)
        /\ \A i \in 1..Len(t) : \E j \in 1..Len(s) : s[j] \in S /\ t[i] = s[j]
        /\ \A j \in 1..(m - 1) : s[j] \in S => \E i \in 1..Len(t) : t[i] = s[j]
    BY <1>5
  <2> HIDE DEF t
  <2>3. /\ IsHistory(u) /\ Len(u) = Len(t) + 1 /\ u[Len(t) + 1] = s[m]
        /\ \A n \in 1..Len(t) : u[n] = t[n]
    BY <2>2, AppendToHistory
  <2>4. Len(t) \in Nat
    BY <2>2, HistoryIsFunction
  <2> HIDE DEF u
  <2>5. CASE s[m] \in S
    <3>1. f[m] = u
      BY <2>1, <2>5
    <3>2. ASSUME NEW i \in 1..Len(u) PROVE \E j \in 1..Len(s) : s[j] \in S /\ u[i] = s[j]
      <4>1. i = Len(t) + 1 \/ i \in 1..Len(t)
        BY <2>3, <2>4
      <4> QED
        BY <2>2, <2>3, <2>5, <4>1
    <3>3. ASSUME NEW j \in 1..m, s[j] \in S PROVE \E i \in 1..Len(u) : u[i] = s[j]
      <4>1. CASE j = m
        <5>1. Len(t) + 1 \in 1..Len(u)
          BY <2>3, <2>4
        <5> QED
          BY <2>3, <4>1, <5>1
      <4>2. CASE j # m
        <5>1. j \in 1..(m - 1)
          BY <4>2
        <5>2. PICK i \in 1..Len(t) : t[i] = s[j]
          BY <2>2, <3>3, <5>1
        <5>3. i \in 1..Len(u)
          BY <2>3, <2>4
        <5> QED
          BY <2>3, <5>2, <5>3
      <4> QED
        BY <4>1, <4>2
    <3> QED
      BY <2>3, <3>1, <3>2, <3>3
  <2>6. CASE s[m] \notin S
    <3>1. f[m] = t
      BY <2>1, <2>6
    <3>2. \A j \in 1..m : s[j] \in S => j \in 1..(m - 1)
      BY <2>6
    <3> QED
      BY <2>2, <3>1, <3>2
  <2> QED
    BY <2>5, <2>6
<1>6. T = {}
  <2> SUFFICES ASSUME T # {} PROVE FALSE
    OBVIOUS
  <2>1. T \subseteq Nat
    BY <1>2
  <2>2. PICK m \in T : m = 0 \/ (m - 1 \in Nat /\ m - 1 \notin T)
    BY <2>1, FirstOfThem
  <2>3. m \in 0..Len(s) /\ ~Good(m)
    OBVIOUS
  <2> HIDE DEF Good
  <2>4. m # 0
    BY <1>4, <2>3
  <2>5. m \in 1..Len(s) /\ m - 1 \in 0..Len(s)
    BY <1>2, <2>3, <2>4
  <2>6. Good(m - 1)
    BY <2>2, <2>4, <2>5
  <2> QED
    BY <1>5, <2>3, <2>5, <2>6
<1>7. Good(Len(s))
  <2>1. Len(s) \in 0..Len(s)
    BY <1>2
  <2> HIDE DEF Good
  <2> QED
    BY <1>6, <2>1
<1> QED
  BY <1>1, <1>7

\* Where a cell stands when all are listed sheet by sheet.
LEMMA PlaceOfCell ==
    ASSUME NEW m \in Nat, m > 0, NEW l \in Nat, NEW i \in 1..l, NEW r \in 1..m
    PROVE  /\ (i - 1) * m + r \in 1..(l * m)
           /\ (((i - 1) * m + r - 1) \div m) + 1 = i /\ (((i - 1) * m + r - 1) % m) + 1 = r
<1>1. PICK s, q : s = i - 1 /\ q = r - 1
  OBVIOUS
<1>2. s \in Nat /\ q \in Nat /\ q < m /\ s + 1 <= l
  BY <1>1
<1>3. (s * m + q) \div m = s /\ (s * m + q) % m = q
  BY <1>2
<1>4. (s + 1) * m <= l * m /\ s * m \in Nat /\ (s + 1) * m = s * m + m /\ l * m \in Nat
  BY <1>2
<1>5. (i - 1) * m + r - 1 = s * m + q /\ (i - 1) * m + r = s * m + q + 1
  BY <1>1, <1>4
<1>6. s * m + q + 1 \in 1..(l * m)
  BY <1>2, <1>4
<1> QED
  BY <1>1, <1>3, <1>5, <1>6

\* And which cell stands at a place.
LEMMA CellOfPlace ==
    ASSUME NEW m \in Nat, m > 0, NEW l \in Nat, NEW n \in 1..(l * m)
    PROVE  ((n - 1) \div m) + 1 \in 1..l /\ ((n - 1) % m) + 1 \in 1..m
<1>1. PICK k : k = n - 1
  OBVIOUS
<1>2. l * m \in Nat
  OBVIOUS
<1>3. k \in Nat /\ k < l * m
  BY <1>1, <1>2
<1>4. (k \div m) \in 0..(l - 1) /\ (k % m) \in 0..(m - 1)
  BY <1>3, SMTT(30)
<1>5. (k \div m) + 1 \in 1..l /\ (k % m) + 1 \in 1..m
  BY <1>4
<1> QED
  BY <1>1, <1>5

\* The operations that put cells back set every wanted cell to what it holds.
LEMMA RestoresIs ==
    ASSUME NEW wb, IsHistory(wb), NEW places
    PROVE  /\ IsHistory(Restores(wb, places))
           /\ \A n \in 1..Len(Restores(wb, places)) :
                \E i \in 1..Len(wb), r \in Row :
                  <<i, r>> \in places /\ Restores(wb, places)[n] = SetCell(i, r, CellAt(wb, i, r))
           /\ \A i \in 1..Len(wb), r \in Row : <<i, r>> \in places =>
                \E n \in 1..Len(Restores(wb, places)) :
                  Restores(wb, places)[n] = SetCell(i, r, CellAt(wb, i, r))
<1> DEFINE all == InOrder(wb)
           at == Selected(all, places)
           f == [n \in 1..Len(at) |-> SetCell(at[n][1], at[n][2], CellAt(wb, at[n][1], at[n][2]))]
           x == Restores(wb, places)
           cell(n) == <<((n - 1) \div MaxRow) + 1, ((n - 1) % MaxRow) + 1>>
           g == [n \in 1..(Len(wb) * MaxRow) |-> cell(n)]
<1>1. Len(wb) \in Nat /\ MaxRow \in Nat /\ MaxRow > 0 /\ Len(wb) * MaxRow \in Nat
  <2>1. Len(wb) \in Nat /\ MaxRow \in Nat /\ MaxRow > 0
    BY HistoryIsFunction, MaxRowAssumption
  <2> QED
    BY <2>1
<1>2. /\ IsHistory(all) /\ Len(all) = Len(wb) * MaxRow
      /\ \A n \in 1..(Len(wb) * MaxRow) : all[n] = cell(n)
  <2>1. \A n \in 1..(Len(wb) * MaxRow) : g[n] = cell(n)
    OBVIOUS
  <2>2. all = Listed(g, Len(wb) * MaxRow)
    BY DEF InOrder
  <2> HIDE DEF g, cell, all
  <2> QED
    BY <1>1, <2>1, <2>2, ListedIs
<1> HIDE DEF all
<1>3. /\ IsHistory(at) /\ Len(at) \in Nat
      /\ \A n \in 1..Len(at) : \E j \in 1..Len(all) : all[j] \in places /\ at[n] = all[j]
      /\ \A j \in 1..Len(all) : all[j] \in places => \E n \in 1..Len(at) : at[n] = all[j]
  BY <1>2, WhatIsSelected, SelectedElements, HistoryIsFunction
<1>4. x = Listed(f, Len(at))
  BY DEF Restores, all
<1> HIDE DEF at
<1>5. \A n \in 1..Len(at) : f[n] = SetCell(at[n][1], at[n][2], CellAt(wb, at[n][1], at[n][2]))
  OBVIOUS
<1> HIDE DEF f
<1>6. IsHistory(x) /\ Len(x) = Len(at) /\ \A n \in 1..Len(at) : x[n] = f[n]
  BY <1>3, <1>4, ListedIs
<1> HIDE DEF x
<1>7. ASSUME NEW n \in 1..Len(x)
      PROVE  \E i \in 1..Len(wb), r \in Row :
                <<i, r>> \in places /\ x[n] = SetCell(i, r, CellAt(wb, i, r))
  <2>1. PICK j \in 1..Len(all) : all[j] \in places /\ at[n] = all[j]
    BY <1>3, <1>6
  <2> DEFINE i == ((j - 1) \div MaxRow) + 1
             r == ((j - 1) % MaxRow) + 1
  <2>2. i \in 1..Len(wb) /\ r \in Row
    BY <1>1, <1>2, CellOfPlace DEF Row
  <2>3. all[j] = <<i, r>>
    BY <1>2
  <2> HIDE DEF i, r
  <2>4. x[n] = SetCell(i, r, CellAt(wb, i, r))
    BY <1>5, <1>6, <2>1, <2>3
  <2> QED
    BY <2>1, <2>2, <2>3, <2>4
<1>8. ASSUME NEW i \in 1..Len(wb), NEW r \in Row, <<i, r>> \in places
      PROVE  \E n \in 1..Len(x) : x[n] = SetCell(i, r, CellAt(wb, i, r))
  <2> DEFINE j == (i - 1) * MaxRow + r
  <2>1. /\ j \in 1..(Len(wb) * MaxRow)
        /\ ((j - 1) \div MaxRow) + 1 = i /\ ((j - 1) % MaxRow) + 1 = r
    BY <1>1, PlaceOfCell DEF Row
  <2> HIDE DEF j
  <2>2. all[j] = <<i, r>>
    BY <1>2, <2>1
  <2>3. PICK n \in 1..Len(at) : at[n] = <<i, r>>
    BY <1>2, <1>3, <1>8, <2>1, <2>2
  <2>4. x[n] = SetCell(i, r, CellAt(wb, i, r))
    BY <1>5, <1>6, <2>3
  <2> QED
    BY <1>6, <2>4
<1> QED
  BY <1>6, <1>7, <1>8 DEF x

-----------------------------------------------------------------------------
(* Operations on workbooks.                                               *)

\* The cells that a sheet keeps its formulas in, as a renaming puts them back.
FormulasFit(fs, k) ==
  /\ IsHistory(fs)
  /\ \A n \in 1..Len(fs) : fs[n].sheet \in 1..k /\ fs[n].at \in Row /\ fs[n].cell \in Cell

\* The operation can be carried out on the workbook; a sheet that is removed
\* has no charts.
Suits(wb, op) ==
  \/ op.op = "SetCell" /\ op.sheet \in 1..Len(wb) /\ op.at \in Row /\ op.cell \in Cell
  \/ op.op \in {"InsertRow", "DeleteRow"} /\ op.sheet \in 1..Len(wb) /\ op.at \in Row
  \/ op.op = "AddSheet" /\ op.index \in 1..(Len(wb) + 1) /\ op.name \in Names
  \/ op.op = "RemoveSheet" /\ op.index \in 1..Len(wb) /\ wb[op.index].charts = <<>>
  \/ op.op = "RenameSheet" /\ op.sheet \in 1..Len(wb) /\ op.name \in Names
  \/ /\ op.op = "RestoreSheet" /\ op.sheet \in 1..Len(wb) /\ op.name \in Names
     /\ FormulasFit(op.formulas, Len(wb))
  \/ /\ op.op = "AddChart" /\ op.sheet \in 1..Len(wb) /\ op.drawing \in Chart
     /\ op.index \in 1..(Len(wb[op.sheet].charts) + 1)
  \/ /\ op.op = "RemoveChart" /\ op.sheet \in 1..Len(wb)
     /\ op.index \in 1..Len(wb[op.sheet].charts)
  \/ /\ op.op = "SetAnchor" /\ op.sheet \in 1..Len(wb) /\ op.anchor \in Anchors
     /\ op.index \in 1..Len(wb[op.sheet].charts)

\* One cell set.
LEMMA WithCellIs ==
    ASSUME NEW wb, IsBook(wb), NEW s \in 1..Len(wb), NEW r \in Row, NEW c \in Cell
    PROVE  /\ IsBook(WithCell(wb, s, r, c)) /\ Len(WithCell(wb, s, r, c)) = Len(wb)
           /\ \A i \in 1..Len(wb) :
                /\ WithCell(wb, s, r, c)[i].name = wb[i].name
                /\ WithCell(wb, s, r, c)[i].charts = wb[i].charts
                /\ \A q \in Row : WithCell(wb, s, r, c)[i].cells[q] =
                     IF i = s /\ q = r THEN c ELSE wb[i].cells[q]
<1> DEFINE W == WithCell(wb, s, r, c)
<1>1. /\ Len(wb) \in Nat /\ wb = [i \in 1..Len(wb) |-> wb[i]]
      /\ \A i \in 1..Len(wb) : wb[i] \in Sheet
  BY BookIs
<1>2. W = [i \in 1..Len(wb) |-> IF i = s THEN [wb[s] EXCEPT !.cells[r] = c] ELSE wb[i]]
  <2>1. DOMAIN wb = 1..Len(wb)
    BY <1>1
  <2> QED
    BY <2>1 DEF WithCell
<1>3. /\ [wb[s] EXCEPT !.cells[r] = c] \in Sheet
      /\ [wb[s] EXCEPT !.cells[r] = c].name = wb[s].name
      /\ [wb[s] EXCEPT !.cells[r] = c].charts = wb[s].charts
      /\ \A q \in Row : [wb[s] EXCEPT !.cells[r] = c].cells[q] = IF q = r THEN c ELSE wb[s].cells[q]
  <2>1. wb[s] \in Sheet
    BY <1>1
  <2> QED
    BY <2>1 DEF Sheet
<1>4. ASSUME NEW i \in 1..Len(wb)
      PROVE  /\ W[i] \in Sheet
             /\ W[i].name = wb[i].name /\ W[i].charts = wb[i].charts
             /\ \A q \in Row : W[i].cells[q] = IF i = s /\ q = r THEN c ELSE wb[i].cells[q]
  <2>1. W[i] = IF i = s THEN [wb[s] EXCEPT !.cells[r] = c] ELSE wb[i]
    BY <1>2
  <2> HIDE DEF W
  <2>2. CASE i = s
    BY <1>3, <2>1, <2>2
  <2>3. CASE i # s
    BY <1>1, <2>1, <2>3
  <2> QED
    BY <2>2, <2>3
<1>5. W = [i \in 1..Len(wb) |-> W[i]]
  BY <1>2
<1> HIDE DEF W
<1>6. IsBook(W) /\ Len(W) = Len(wb)
  BY <1>1, <1>4, <1>5, BookOf
<1> QED
  BY <1>4, <1>6 DEF W

\* One name set.
LEMMA WithNameIs ==
    ASSUME NEW wb, IsBook(wb), NEW s \in 1..Len(wb), NEW nm \in Names
    PROVE  /\ IsBook(WithName(wb, s, nm)) /\ Len(WithName(wb, s, nm)) = Len(wb)
           /\ \A i \in 1..Len(wb) :
                /\ WithName(wb, s, nm)[i].name = IF i = s THEN nm ELSE wb[i].name
                /\ WithName(wb, s, nm)[i].charts = wb[i].charts
                /\ \A q \in Row : WithName(wb, s, nm)[i].cells[q] = wb[i].cells[q]
<1> DEFINE W == WithName(wb, s, nm)
<1>1. /\ Len(wb) \in Nat /\ wb = [i \in 1..Len(wb) |-> wb[i]]
      /\ \A i \in 1..Len(wb) : wb[i] \in Sheet
  BY BookIs
<1>2. W = [i \in 1..Len(wb) |-> IF i = s THEN [wb[s] EXCEPT !.name = nm] ELSE wb[i]]
  <2>1. DOMAIN wb = 1..Len(wb)
    BY <1>1
  <2> QED
    BY <2>1 DEF WithName
<1>3. /\ [wb[s] EXCEPT !.name = nm] \in Sheet
      /\ [wb[s] EXCEPT !.name = nm].name = nm
      /\ [wb[s] EXCEPT !.name = nm].charts = wb[s].charts
      /\ [wb[s] EXCEPT !.name = nm].cells = wb[s].cells
  <2>1. wb[s] \in Sheet
    BY <1>1
  <2> QED
    BY <2>1 DEF Sheet
<1>4. ASSUME NEW i \in 1..Len(wb)
      PROVE  /\ W[i] \in Sheet
             /\ W[i].name = (IF i = s THEN nm ELSE wb[i].name) /\ W[i].charts = wb[i].charts
             /\ \A q \in Row : W[i].cells[q] = wb[i].cells[q]
  <2>1. W[i] = IF i = s THEN [wb[s] EXCEPT !.name = nm] ELSE wb[i]
    BY <1>2
  <2> HIDE DEF W
  <2>2. CASE i = s
    BY <1>3, <2>1, <2>2
  <2>3. CASE i # s
    BY <1>1, <2>1, <2>3
  <2> QED
    BY <2>2, <2>3
<1>5. W = [i \in 1..Len(wb) |-> W[i]]
  BY <1>2
<1> HIDE DEF W
<1>6. IsBook(W) /\ Len(W) = Len(wb)
  BY <1>1, <1>4, <1>5, BookOf
<1> QED
  BY <1>4, <1>6 DEF W

\* The charts of one sheet changed.
LEMMA WithChartsIs ==
    ASSUME NEW wb, IsBook(wb), NEW s \in 1..Len(wb), NEW cs \in Seq(Chart)
    PROVE  /\ IsBook([wb EXCEPT ![s].charts = cs]) /\ Len([wb EXCEPT ![s].charts = cs]) = Len(wb)
           /\ \A i \in 1..Len(wb) :
                /\ [wb EXCEPT ![s].charts = cs][i].name = wb[i].name
                /\ [wb EXCEPT ![s].charts = cs][i].charts = IF i = s THEN cs ELSE wb[i].charts
                /\ \A q \in Row : [wb EXCEPT ![s].charts = cs][i].cells[q] = wb[i].cells[q]
<1> DEFINE W == [wb EXCEPT ![s].charts = cs]
<1>1. /\ Len(wb) \in Nat /\ wb = [i \in 1..Len(wb) |-> wb[i]]
      /\ \A i \in 1..Len(wb) : wb[i] \in Sheet
  BY BookIs
<1>2. W = [i \in 1..Len(wb) |-> IF i = s THEN [wb[s] EXCEPT !.charts = cs] ELSE wb[i]]
  <2>1. DOMAIN wb = 1..Len(wb)
    BY <1>1
  <2> QED
    BY <2>1
<1>3. /\ [wb[s] EXCEPT !.charts = cs] \in Sheet
      /\ [wb[s] EXCEPT !.charts = cs].charts = cs
      /\ [wb[s] EXCEPT !.charts = cs].name = wb[s].name
      /\ [wb[s] EXCEPT !.charts = cs].cells = wb[s].cells
  <2>1. wb[s] \in Sheet
    BY <1>1
  <2> QED
    BY <2>1 DEF Sheet
<1>4. ASSUME NEW i \in 1..Len(wb)
      PROVE  /\ W[i] \in Sheet
             /\ W[i].name = wb[i].name /\ W[i].charts = (IF i = s THEN cs ELSE wb[i].charts)
             /\ \A q \in Row : W[i].cells[q] = wb[i].cells[q]
  <2>1. W[i] = IF i = s THEN [wb[s] EXCEPT !.charts = cs] ELSE wb[i]
    BY <1>2
  <2> HIDE DEF W
  <2>2. CASE i = s
    BY <1>3, <2>1, <2>2
  <2>3. CASE i # s
    BY <1>1, <2>1, <2>3
  <2> QED
    BY <2>2, <2>3
<1>5. W = [i \in 1..Len(wb) |-> W[i]]
  BY <1>2
<1> HIDE DEF W
<1>6. IsBook(W) /\ Len(W) = Len(wb)
  BY <1>1, <1>4, <1>5, BookOf
<1> QED
  BY <1>4, <1>6 DEF W

-----------------------------------------------------------------------------
(* Formulas.                                                              *)

\* The sheets have the same names in the same places.
SameNames(a, b) == Len(a) = Len(b) /\ \A i \in 1..Len(a) : a[i].name = b[i].name

\* A name is then found at the same place.
LEMMA SameIndex ==
    ASSUME NEW a, NEW b, SameNames(a, b), NEW nm
    PROVE  NamesOf(a) = NamesOf(b) /\ IndexOf(a, nm) = IndexOf(b, nm)
<1>1. NamesOf(a) = NamesOf(b)
  BY DEF SameNames, NamesOf
<1>2. ASSUME NEW i PROVE (i \in 1..Len(a) /\ a[i].name = nm) <=> (i \in 1..Len(b) /\ b[i].name = nm)
  BY DEF SameNames
<1>4. IndexOf(a, nm) = IndexOf(b, nm)
  BY <1>2 DEF IndexOf
<1> QED
  BY <1>1, <1>4

\* And a formula reads the same sheet.
LEMMA SameReads ==
    ASSUME NEW a, NEW b, SameNames(a, b), NEW c, NEW d, c.f = d.f, NEW s, NEW t
    PROVE  ReadsSheet(a, s, c, t) <=> ReadsSheet(b, s, d, t)
<1>1. NamesOf(a) = NamesOf(b) /\ IndexOf(a, c.f[1]) = IndexOf(b, c.f[1])
  BY SameIndex
<1> QED
  BY <1>1 DEF ReadsSheet, IsReading

\* A formula that reads has a name and a row.
LEMMA ReadingIs ==
    ASSUME NEW c \in Cell, IsReading(c)
    PROVE  c.f[1] \in Names \cup {Own} /\ c.f[2] \in Row /\ IsFormula(c)
<1>1. c.f \in Formulas /\ Len(c.f) = 2
  BY DEF Cell, IsReading
<1>2. Len(NoFormula) = 0 /\ Len(RefFormula) = 1
  BY DEF NoFormula, RefFormula
<1>3. PICK nm \in Names \cup {Own}, r \in Row : c.f = Reads(nm, r)
  BY <1>1, <1>2 DEF Formulas
<1>4. c.f[1] = nm /\ c.f[2] = r
  BY <1>3 DEF Reads
<1>5. c.f # NoFormula
  BY <1>1, <1>2
<1> QED
  BY <1>4, <1>5 DEF IsFormula

\* What a row operation makes of a row.
LEMMA RemapRowIs ==
    ASSUME NEW op, op.op \in {"InsertRow", "DeleteRow"}, op.at \in Row, NEW r \in Row
    PROVE  /\ RemapRow(r, op) \in 0..MaxRow
           /\ RemapRow(r, op) # 0 => RemapRow(r, op) \in Row
           /\ op.op = "InsertRow" =>
                RemapRow(r, op) = IF r < op.at THEN r ELSE IF r = MaxRow THEN 0 ELSE r + 1
           /\ op.op = "DeleteRow" =>
                RemapRow(r, op) = IF r < op.at THEN r ELSE IF r = op.at THEN 0 ELSE r - 1
<1>1. MaxRow \in Nat /\ MaxRow > 0
  BY MaxRowAssumption
<1>2. op.op = "InsertRow" =>
                RemapRow(r, op) = IF r < op.at THEN r ELSE IF r = MaxRow THEN 0 ELSE r + 1
  BY DEF RemapRow
<1>3. op.op = "DeleteRow" =>
                RemapRow(r, op) = IF r < op.at THEN r ELSE IF r = op.at THEN 0 ELSE r - 1
  BY DEF RemapRow
<1> QED
  BY <1>1, <1>2, <1>3 DEF Row

\* A cell is its value and its formula.
LEMMA CellIs ==
    ASSUME NEW c \in Cell
    PROVE  c = [v |-> c.v, f |-> c.f] /\ c.v \in Int /\ c.f \in Formulas
  BY DEF Cell

\* A formula whose row has moved is a formula.
Remapped(c, op) == [c EXCEPT !.f = RemapFormula(c, op)]
\* A cell whose formula is rewritten is a cell.
LEMMA RemappedFormula ==
    ASSUME NEW op, op.op \in {"InsertRow", "DeleteRow"}, op.at \in Row, NEW c \in Cell, IsReading(c)
    PROVE  /\ Remapped(c, op) \in Cell /\ Remapped(c, op).f = RemapFormula(c, op)
           /\ Authored(Remapped(c, op)) = [v |-> Blank, f |-> RemapFormula(c, op)]
<1> DEFINE to == RemapRow(c.f[2], op)
           g == RemapFormula(c, op)
<1>1. c.f[1] \in Names \cup {Own} /\ c.f[2] \in Row
  BY ReadingIs
<1>2. to # 0 => to \in Row
  BY <1>1, RemapRowIs
<1>3. g = IF to = 0 THEN RefFormula ELSE Reads(c.f[1], to)
  BY DEF RemapFormula
<1> HIDE DEF to, g
<1>4. g \in Formulas
  BY <1>1, <1>2, <1>3 DEF Formulas
<1>5. Len(NoFormula) = 0 /\ Len(RefFormula) = 1 /\ Len(Reads(c.f[1], to)) = 2
  BY DEF NoFormula, RefFormula, Reads
<1>6. g # NoFormula
  <2>1. CASE to = 0
    <3>1. g = RefFormula
      BY <1>3, <2>1
    <3>2. RefFormula # NoFormula
      BY DEF RefFormula, NoFormula
    <3> QED
      BY <3>1, <3>2
  <2>2. CASE to # 0
    <3>1. g = Reads(c.f[1], to)
      BY <1>3, <2>2
    <3>2. ASSUME NEW x, NEW y PROVE Reads(x, y) # NoFormula
      BY DEF Reads, NoFormula
    <3> QED
      BY <3>1, <3>2
  <2> QED
    BY <2>1, <2>2
<1>7. c = [v |-> c.v, f |-> c.f] /\ c.v \in Int
  BY CellIs
<1>8. [c EXCEPT !.f = g] = [v |-> c.v, f |-> g]
  BY <1>7
<1> DEFINE d == [c EXCEPT !.f = g]
<1>9. d \in Cell /\ d.f = g /\ d = [v |-> c.v, f |-> g]
  BY <1>4, <1>7, <1>8 DEF Cell
<1> HIDE DEF d
<1>10. Authored(d) = [v |-> Blank, f |-> g]
  BY <1>6, <1>9 DEF Authored, IsFormula
<1> QED
  BY <1>9, <1>10 DEF d, g, Remapped

-----------------------------------------------------------------------------
(* Rows inserted and deleted.                                             *)

\* The cell after the formulas were rewritten, and after the rows moved.
RemappedCell(wb, op, i, r) ==
  IF <<i, r>> \in Rewritten(wb, op)
  THEN Remapped(CellAt(wb, i, r), op) ELSE CellAt(wb, i, r)
\* The row whose cell a row operation brings to row r.
ComesFrom(op, r) == CHOOSE q \in Row : RemapRow(q, op) = r
ShiftedCell(wb, op, i, r) ==
  IF i # op.sheet THEN RemappedCell(wb, op, i, r)
  ELSE IF \E q \in Row : RemapRow(q, op) = r THEN RemappedCell(wb, op, op.sheet, ComesFrom(op, r))
  ELSE EmptyCell

\* The operation is one on the rows of a sheet that is there.
RowsFit(wb, op) == op.op \in {"InsertRow", "DeleteRow"} /\ op.sheet \in 1..Len(wb) /\ op.at \in Row

\* Which formulas are rewritten.
LEMMA RewrittenIs ==
    ASSUME NEW wb, IsBook(wb), NEW op, RowsFit(wb, op), NEW i \in 1..Len(wb), NEW r \in Row
    PROVE  /\ <<i, r>> \in Rewritten(wb, op) <=>
                /\ ReadsSheet(wb, i, CellAt(wb, i, r), op.sheet)
                /\ RemapRow(CellAt(wb, i, r).f[2], op) # CellAt(wb, i, r).f[2]
           /\ <<i, r>> \in Rewritten(wb, op) => IsReading(CellAt(wb, i, r))
           /\ CellAt(wb, i, r) \in Cell
<1>1. <<i, r>> \in CellsOf(wb)
  BY DEF CellsOf
<1>2. CellAt(wb, i, r) \in Cell
  BY BookIs DEF CellAt
<1> QED
  BY <1>1, <1>2 DEF Rewritten, ReadsSheet

\* A rewritten cell is a cell.
LEMMA RemappedCellIs ==
    ASSUME NEW wb, IsBook(wb), NEW op, RowsFit(wb, op), NEW i \in 1..Len(wb), NEW r \in Row
    PROVE  RemappedCell(wb, op, i, r) \in Cell
<1>1. CellAt(wb, i, r) \in Cell /\ (<<i, r>> \in Rewritten(wb, op) => IsReading(CellAt(wb, i, r)))
  BY RewrittenIs
<1> DEFINE c == CellAt(wb, i, r)
<1>2. op.op \in {"InsertRow", "DeleteRow"} /\ op.at \in Row
  BY DEF RowsFit
<1>3. CASE <<i, r>> \in Rewritten(wb, op)
  <2> HIDE DEF c
  <2>1. c \in Cell /\ IsReading(c)
    BY <1>1, <1>3 DEF c
  <2>2. Remapped(c, op) \in Cell
    BY <1>2, <2>1, RemappedFormula
  <2> QED
    BY <1>3, <2>2 DEF RemappedCell, c
<1> QED
  BY <1>1, <1>3 DEF RemappedCell

\* The empty cell is one, and has no value to take away.
LEMMA EmptyCellIs == EmptyCell \in Cell /\ Authored(EmptyCell) = EmptyCell /\ ~IsFormula(EmptyCell)
<1>1. EmptyCell \in Cell
  BY DEF EmptyCell, Cell, Blank, Formulas
<1>2. ~IsFormula(EmptyCell)
  BY DEF IsFormula, EmptyCell
<1> QED
  BY <1>1, <1>2 DEF Authored

\* The formulas are rewritten in place.
LEMMA RemapFormulasIs ==
    ASSUME NEW wb, IsBook(wb), NEW op, RowsFit(wb, op)
    PROVE  /\ IsBook(RemapFormulas(wb, op)) /\ Len(RemapFormulas(wb, op)) = Len(wb)
           /\ \A i \in 1..Len(wb) :
                /\ RemapFormulas(wb, op)[i].name = wb[i].name
                /\ RemapFormulas(wb, op)[i].charts = wb[i].charts
                /\ \A r \in Row : RemapFormulas(wb, op)[i].cells[r] = RemappedCell(wb, op, i, r)
<1> DEFINE new == [at \in CellsOf(wb) |->
                    LET c == CellAt(wb, at[1], at[2])
                    IN IF at \in Rewritten(wb, op) THEN [c EXCEPT !.f = RemapFormula(c, op)] ELSE c]
<1>1. ASSUME NEW i \in 1..Len(wb), NEW r \in Row PROVE new[<<i, r>>] = RemappedCell(wb, op, i, r)
  <2>1. <<i, r>> \in CellsOf(wb) /\ <<i, r>>[1] = i /\ <<i, r>>[2] = r
    BY DEF CellsOf
  <2> QED
    BY <2>1 DEF RemappedCell, Remapped
<1>2. \A i \in 1..Len(wb), r \in Row : RemappedCell(wb, op, i, r) \in Cell
  BY RemappedCellIs
<1>3. RemapFormulas(wb, op) = MapCells(wb, new)
  BY DEF RemapFormulas
<1> HIDE DEF new
<1>4. \A i \in 1..Len(wb), r \in Row : new[<<i, r>>] \in Cell
  BY <1>1, <1>2
<1>5. /\ IsBook(MapCells(wb, new)) /\ Len(MapCells(wb, new)) = Len(wb)
      /\ \A i \in 1..Len(wb) :
                /\ MapCells(wb, new)[i].name = wb[i].name
                /\ MapCells(wb, new)[i].charts = wb[i].charts
                /\ \A r \in Row : MapCells(wb, new)[i].cells[r] = new[<<i, r>>]
  BY <1>4, MapCellsIs
<1> QED
  BY <1>1, <1>3, <1>5

\* Then the rows move.
RowsAfter(wb, op) == ShiftCells(RemapFormulas(wb, op), op.sheet, op)
\* The workbook after a row operation, cell by cell.
LEMMA RowsAfterIs ==
    ASSUME NEW wb, IsBook(wb), NEW op, RowsFit(wb, op)
    PROVE  /\ IsBook(RowsAfter(wb, op)) /\ Len(RowsAfter(wb, op)) = Len(wb)
           /\ \A i \in 1..Len(wb) :
                /\ RowsAfter(wb, op)[i].name = wb[i].name
                /\ RowsAfter(wb, op)[i].charts = wb[i].charts
                /\ \A r \in Row : RowsAfter(wb, op)[i].cells[r] = ShiftedCell(wb, op, i, r)
<1> DEFINE R == RemapFormulas(wb, op)
           t == op.sheet
           new == [at \in CellsOf(R) |->
                    IF at[1] # t THEN CellAt(R, at[1], at[2])
                    ELSE IF \E q \in Row : RemapRow(q, op) = at[2]
                         THEN CellAt(R, t, CHOOSE q \in Row : RemapRow(q, op) = at[2])
                         ELSE EmptyCell]
<1>1. /\ IsBook(R) /\ Len(R) = Len(wb)
      /\ \A i \in 1..Len(wb) :
                /\ R[i].name = wb[i].name /\ R[i].charts = wb[i].charts
                /\ \A r \in Row : R[i].cells[r] = RemappedCell(wb, op, i, r)
  BY RemapFormulasIs
<1>2. RowsAfter(wb, op) = MapCells(R, new)
  BY DEF RowsAfter, ShiftCells
<1> HIDE DEF R
<1>3. t \in 1..Len(wb)
  BY DEF RowsFit
<1>4. ASSUME NEW i \in 1..Len(wb), NEW r \in Row
      PROVE  new[<<i, r>>] = ShiftedCell(wb, op, i, r) /\ ShiftedCell(wb, op, i, r) \in Cell
  <2>1. <<i, r>> \in CellsOf(R) /\ <<i, r>>[1] = i /\ <<i, r>>[2] = r
    BY <1>1 DEF CellsOf
  <2>2. new[<<i, r>>] = IF i # t THEN CellAt(R, i, r)
                        ELSE IF \E q \in Row : RemapRow(q, op) = r THEN CellAt(R, t, ComesFrom(op, r))
                        ELSE EmptyCell
    BY <2>1 DEF ComesFrom
  <2> HIDE DEF new
  <2>3. CASE i # t
    BY <1>1, <2>2, <2>3, RemappedCellIs DEF ShiftedCell, CellAt
  <2>4. CASE i = t /\ \E q \in Row : RemapRow(q, op) = r
    <3>1. ComesFrom(op, r) \in Row
      BY <2>4 DEF ComesFrom
    <3>2. CellAt(R, t, ComesFrom(op, r)) = RemappedCell(wb, op, t, ComesFrom(op, r))
      BY <1>1, <1>3, <3>1 DEF CellAt
    <3>3. RemappedCell(wb, op, t, ComesFrom(op, r)) \in Cell
      BY <1>3, <3>1, RemappedCellIs
    <3> QED
      BY <2>2, <2>4, <3>2, <3>3 DEF ShiftedCell
  <2>5. CASE i = t /\ ~\E q \in Row : RemapRow(q, op) = r
    BY <2>2, <2>5, EmptyCellIs DEF ShiftedCell
  <2> QED
    BY <2>3, <2>4, <2>5
<1> HIDE DEF new
<1>5. \A i \in 1..Len(R), r \in Row : new[<<i, r>>] \in Cell
  BY <1>1, <1>4
<1>6. /\ IsBook(MapCells(R, new)) /\ Len(MapCells(R, new)) = Len(R)
      /\ \A i \in 1..Len(R) :
                /\ MapCells(R, new)[i].name = R[i].name
                /\ MapCells(R, new)[i].charts = R[i].charts
                /\ \A r \in Row : MapCells(R, new)[i].cells[r] = new[<<i, r>>]
  BY <1>1, <1>5, MapCellsIs
<1> QED
  BY <1>1, <1>2, <1>4, <1>6

\* Where a row comes from, and that no two rows go to the same.
LEMMA ComesFromIs ==
    ASSUME NEW op, op.op \in {"InsertRow", "DeleteRow"}, op.at \in Row,
           NEW r \in Row, NEW q \in Row, RemapRow(q, op) = r
    PROVE  ComesFrom(op, r) = q
<1>1. ComesFrom(op, r) \in Row /\ RemapRow(ComesFrom(op, r), op) = r
  BY DEF ComesFrom
<1> DEFINE p == ComesFrom(op, r)
<1>2. RemapRow(p, op) = RemapRow(q, op) /\ p \in Row /\ RemapRow(p, op) # 0
  BY <1>1 DEF Row
<1> HIDE DEF p
<1>3. /\ op.op = "InsertRow" => RemapRow(p, op) = IF p < op.at THEN p ELSE IF p = MaxRow THEN 0 ELSE p + 1
      /\ op.op = "DeleteRow" => RemapRow(p, op) = IF p < op.at THEN p ELSE IF p = op.at THEN 0 ELSE p - 1
      /\ op.op = "InsertRow" => RemapRow(q, op) = IF q < op.at THEN q ELSE IF q = MaxRow THEN 0 ELSE q + 1
      /\ op.op = "DeleteRow" => RemapRow(q, op) = IF q < op.at THEN q ELSE IF q = op.at THEN 0 ELSE q - 1
  BY <1>2, RemapRowIs
<1>4. MaxRow \in Nat
  BY MaxRowAssumption
<1>5. p = q
  BY <1>2, <1>3, <1>4 DEF Row
<1> QED
  BY <1>5 DEF p

\* The operation that takes a row operation back.
Opposite(op, op2) ==
  /\ \/ op.op = "InsertRow" /\ op2.op = "DeleteRow"
     \/ op.op = "DeleteRow" /\ op2.op = "InsertRow"
  /\ op2.sheet = op.sheet /\ op2.at = op.at

\* It takes every row back that is still there, and leaves where it was what
\* the operation left there.
LEMMA RowBack ==
    ASSUME NEW op, op.at \in Row, NEW op2, Opposite(op, op2), NEW r \in Row
    PROVE  /\ RemapRow(r, op) # 0 =>
                RemapRow(r, op) \in Row /\ RemapRow(RemapRow(r, op), op2) = r
           /\ RemapRow(r, op) = 0 => ~\E q \in Row : RemapRow(q, op2) = r
           /\ RemapRow(r, op) = r => RemapRow(r, op2) = r
<1>1. MaxRow \in Nat /\ MaxRow > 0 /\ op2.at = op.at /\ op2.at \in Row
  BY MaxRowAssumption DEF Opposite
<1>2. op.op \in {"InsertRow", "DeleteRow"} /\ op2.op \in {"InsertRow", "DeleteRow"}
  BY DEF Opposite
<1>3. ASSUME NEW q \in Row
      PROVE  /\ op.op = "InsertRow" => RemapRow(q, op) = IF q < op.at THEN q ELSE IF q = MaxRow THEN 0 ELSE q + 1
             /\ op.op = "DeleteRow" => RemapRow(q, op) = IF q < op.at THEN q ELSE IF q = op.at THEN 0 ELSE q - 1
             /\ RemapRow(q, op) # 0 => RemapRow(q, op) \in Row
  BY <1>2, RemapRowIs
<1>4. ASSUME NEW q \in Row
      PROVE  /\ op2.op = "InsertRow" => RemapRow(q, op2) = IF q < op.at THEN q ELSE IF q = MaxRow THEN 0 ELSE q + 1
             /\ op2.op = "DeleteRow" => RemapRow(q, op2) = IF q < op.at THEN q ELSE IF q = op.at THEN 0 ELSE q - 1
  BY <1>1, <1>2, RemapRowIs
<1>5. CASE op.op = "InsertRow"
  <2>1. /\ \A q \in Row : RemapRow(q, op) = IF q < op.at THEN q ELSE IF q = MaxRow THEN 0 ELSE q + 1
        /\ \A q \in Row : RemapRow(q, op2) = IF q < op.at THEN q ELSE IF q = op.at THEN 0 ELSE q - 1
    BY <1>3, <1>4, <1>5 DEF Opposite
  <2>2. RemapRow(r, op) # 0 => RemapRow(r, op) \in Row
    BY <1>3
  <2>3. RemapRow(r, op) # 0 => RemapRow(RemapRow(r, op), op2) = r
    <3>1. CASE r < op.at
      BY <2>1, <3>1
    <3>2. CASE ~(r < op.at) /\ r # MaxRow
      <4>1. PICK p : p = r + 1
        OBVIOUS
      <4>2. p \in Row /\ ~(p < op.at) /\ p # op.at /\ p - 1 = r
        BY <1>1, <3>2, <4>1 DEF Row
      <4>3. RemapRow(r, op) = p
        BY <2>1, <3>2, <4>1
      <4>4. RemapRow(p, op2) = p - 1
        BY <2>1, <4>2
      <4> QED
        BY <4>2, <4>3, <4>4
    <3>3. CASE ~(r < op.at) /\ r = MaxRow
      BY <2>1, <3>3
    <3> QED
      BY <3>1, <3>2, <3>3
  <2>4. RemapRow(r, op) = 0 => ~\E q \in Row : RemapRow(q, op2) = r
    <3> SUFFICES ASSUME RemapRow(r, op) = 0, NEW q \in Row, RemapRow(q, op2) = r PROVE FALSE
      OBVIOUS
    <3>1. r = MaxRow /\ ~(r < op.at)
      BY <2>1 DEF Row
    <3> QED
      BY <1>1, <2>1, <3>1 DEF Row
  <2>5. RemapRow(r, op) = r => RemapRow(r, op2) = r
    BY <1>1, <2>1 DEF Row
  <2> QED
    BY <2>2, <2>3, <2>4, <2>5
<1>6. CASE op.op = "DeleteRow"
  <2>1. /\ \A q \in Row : RemapRow(q, op2) = IF q < op.at THEN q ELSE IF q = MaxRow THEN 0 ELSE q + 1
        /\ \A q \in Row : RemapRow(q, op) = IF q < op.at THEN q ELSE IF q = op.at THEN 0 ELSE q - 1
    BY <1>3, <1>4, <1>6 DEF Opposite
  <2>2. RemapRow(r, op) # 0 => RemapRow(r, op) \in Row
    BY <1>3
  <2>3. RemapRow(r, op) # 0 => RemapRow(RemapRow(r, op), op2) = r
    <3>1. CASE r < op.at
      BY <2>1, <3>1
    <3>2. CASE ~(r < op.at) /\ r # op.at
      <4>1. PICK p : p = r - 1
        OBVIOUS
      <4>2. p \in Row /\ ~(p < op.at) /\ p # MaxRow /\ p + 1 = r
        BY <1>1, <3>2, <4>1 DEF Row
      <4>3. RemapRow(r, op) = p
        BY <2>1, <3>2, <4>1
      <4>4. RemapRow(p, op2) = p + 1
        BY <2>1, <4>2
      <4> QED
        BY <4>2, <4>3, <4>4
    <3>3. CASE r = op.at
      BY <1>1, <2>1, <3>3 DEF Row
    <3> QED
      BY <3>1, <3>2, <3>3
  <2>4. RemapRow(r, op) = 0 => ~\E q \in Row : RemapRow(q, op2) = r
    <3> SUFFICES ASSUME RemapRow(r, op) = 0, NEW q \in Row, RemapRow(q, op2) = r PROVE FALSE
      OBVIOUS
    <3>1. r = op.at
      BY <1>1, <2>1 DEF Row
    <3> QED
      BY <1>1, <2>1, <3>1 DEF Row
  <2>5. RemapRow(r, op) = r => RemapRow(r, op2) = r
    BY <1>1, <2>1 DEF Row
  <2> QED
    BY <2>2, <2>3, <2>4, <2>5
<1> QED
  BY <1>5, <1>6 DEF Opposite

\* A cell that was not rewritten is not rewritten on the way back.
LEMMA KeptBack ==
    ASSUME NEW wb, IsBook(wb), NEW op, RowsFit(wb, op), NEW op2, Opposite(op, op2),
           NEW q, IsBook(q), SameNames(wb, q),
           NEW i \in 1..Len(wb), NEW r \in Row, <<i, r>> \notin Rewritten(wb, op),
           NEW p \in Row, CellAt(q, i, p) = CellAt(wb, i, r)
    PROVE  RemappedCell(q, op2, i, p) = CellAt(wb, i, r)
<1> DEFINE c == CellAt(wb, i, r)
           d == CellAt(q, i, p)
<1>1. /\ Len(q) = Len(wb) /\ op2.sheet = op.sheet /\ op.at \in Row
      /\ RowsFit(q, op2) /\ i \in 1..Len(q)
  BY DEF SameNames, RowsFit, Opposite
<1>2. /\ <<i, p>> \in Rewritten(q, op2) <=>
            ReadsSheet(q, i, d, op2.sheet) /\ RemapRow(d.f[2], op2) # d.f[2]
      /\ <<i, r>> \in Rewritten(wb, op) <=>
            ReadsSheet(wb, i, c, op.sheet) /\ RemapRow(c.f[2], op) # c.f[2]
      /\ c \in Cell
  BY <1>1, RewrittenIs
<1> HIDE DEF c, d
<1>3. d = c
  BY DEF c, d
<1>4. ReadsSheet(q, i, d, op2.sheet) => ReadsSheet(wb, i, c, op.sheet)
  BY <1>1, <1>3, SameReads
<1>5. <<i, p>> \notin Rewritten(q, op2)
  <2> SUFFICES ASSUME <<i, p>> \in Rewritten(q, op2) PROVE FALSE
    OBVIOUS
  <2>1. ReadsSheet(wb, i, c, op.sheet) /\ RemapRow(c.f[2], op2) # c.f[2]
    BY <1>2, <1>3, <1>4
  <2>2. RemapRow(c.f[2], op) = c.f[2]
    BY <1>2, <2>1
  <2>3. IsReading(c)
    BY <2>1 DEF ReadsSheet
  <2>4. c.f[2] \in Row
    BY <1>2, <2>3, ReadingIs
  <2> QED
    BY <1>1, <2>1, <2>2, <2>4, RowBack
<1> QED
  BY <1>3, <1>5 DEF RemappedCell, c, d

\* The opposite operation brings every cell back but those that were
\* rewritten and those that fell out.
LEMMA CellsBack ==
    ASSUME NEW wb, IsBook(wb), NEW op, RowsFit(wb, op), NEW op2, Opposite(op, op2),
           NEW i \in 1..Len(wb), NEW r \in Row, <<i, r>> \notin Rewritten(wb, op),
           ~(i = op.sheet /\ RemapRow(r, op) = 0 /\ CellAt(wb, i, r) # EmptyCell)
    PROVE  RowsAfter(RowsAfter(wb, op), op2)[i].cells[r] = wb[i].cells[r]
<1> DEFINE q == RowsAfter(wb, op)
           c == CellAt(wb, i, r)
<1>1. /\ IsBook(q) /\ Len(q) = Len(wb)
      /\ \A j \in 1..Len(wb) :
                /\ q[j].name = wb[j].name /\ q[j].charts = wb[j].charts
                /\ \A p \in Row : q[j].cells[p] = ShiftedCell(wb, op, j, p)
  BY RowsAfterIs
<1> HIDE DEF q
<1>2. SameNames(wb, q) /\ i \in 1..Len(q)
  BY <1>1 DEF SameNames
<1>3. RowsFit(q, op2) /\ op2.sheet = op.sheet
  BY <1>1 DEF RowsFit, Opposite
<1>4. RowsAfter(q, op2)[i].cells[r] = ShiftedCell(q, op2, i, r)
  BY <1>1, <1>2, <1>3, RowsAfterIs
<1>5. RemappedCell(wb, op, i, r) = c
  BY DEF RemappedCell
<1>6. op.op \in {"InsertRow", "DeleteRow"} /\ op.at \in Row /\ op2.op \in {"InsertRow", "DeleteRow"} /\ op2.at \in Row
  BY <1>3 DEF RowsFit
<1>7. CASE i # op.sheet
  <2>1. CellAt(q, i, r) = c
    BY <1>1, <1>5, <1>7 DEF ShiftedCell, CellAt
  <2>2. RemappedCell(q, op2, i, r) = c
    BY <1>1, <1>2, <2>1, KeptBack
  <2> QED
    BY <1>3, <1>4, <1>7, <2>2 DEF ShiftedCell, CellAt, q
<1>8. CASE i = op.sheet /\ RemapRow(r, op) # 0
  <2> DEFINE p == RemapRow(r, op)
  <2>1. p \in Row /\ RemapRow(p, op2) = r
    BY <1>6, <1>8, RowBack
  <2>2. ComesFrom(op, p) = r /\ ComesFrom(op2, r) = p
    BY <1>6, <2>1, ComesFromIs
  <2>3. \E x \in Row : RemapRow(x, op) = p
    OBVIOUS
  <2> HIDE DEF p
  <2>4. ShiftedCell(wb, op, i, p) = c
    BY <1>5, <1>8, <2>2, <2>3 DEF ShiftedCell
  <2>5. CellAt(q, i, p) = c
    BY <1>1, <2>1, <2>4 DEF CellAt
  <2>6. RemappedCell(q, op2, i, p) = c
    BY <1>1, <1>2, <2>1, <2>5, KeptBack
  <2>7. ShiftedCell(q, op2, i, r) = c
    BY <1>3, <1>8, <2>1, <2>2, <2>6 DEF ShiftedCell
  <2> QED
    BY <1>4, <2>7 DEF CellAt, q
<1>9. CASE i = op.sheet /\ RemapRow(r, op) = 0
  <2>1. ~\E x \in Row : RemapRow(x, op2) = r
    BY <1>6, <1>9, RowBack
  <2>2. ShiftedCell(q, op2, i, r) = EmptyCell
    BY <1>3, <1>9, <2>1 DEF ShiftedCell
  <2>3. c = EmptyCell
    BY <1>9
  <2> QED
    BY <1>4, <2>2, <2>3 DEF CellAt, q
<1> QED
  BY <1>7, <1>8, <1>9

-----------------------------------------------------------------------------
(* Walks: lists of operations from one workbook without values to another. *)

\* The operation leads from p to q.
Steps(p, op, q) ==
  \E wb : IsBook(wb) /\ p = Plain(wb) /\ Suits(wb, op) /\ q = Plain(Apply(wb, op).wb)

Walks(p, ops, q) ==
  /\ IsHistory(ops)
  /\ \E w : w[0] = p /\ w[Len(ops)] = q /\ \A n \in 1..Len(ops) : Steps(w[n - 1], ops[n], w[n])

\* No operation leads nowhere.
LEMMA NothingWalks ==
    ASSUME NEW p
    PROVE  Walks(p, <<>>, p)
<1> DEFINE w == [n \in {0} |-> p]
<1>1. IsHistory(<<>>) /\ Len(<<>>) = 0
  BY EmptyHistory
<1>2. w[0] = p
  OBVIOUS
<1> HIDE DEF w
<1>3. \A n \in 1..Len(<<>>) : Steps(w[n - 1], <<>>[n], w[n])
  BY <1>1
<1> QED
  BY <1>1, <1>2, <1>3 DEF Walks

\* One operation.
LEMMA OneWalks ==
    ASSUME NEW p, NEW op, NEW q, Steps(p, op, q)
    PROVE  Walks(p, <<op>>, q)
<1> DEFINE w == [n \in {0, 1} |-> IF n = 0 THEN p ELSE q]
<1>1. IsHistory(<<op>>) /\ Len(<<op>>) = 1 /\ <<op>>[1] = op
  BY OneIsHistory
<1>2. w[0] = p /\ w[1] = q
  OBVIOUS
<1> HIDE DEF w
<1>3. \A n \in 1..Len(<<op>>) : Steps(w[n - 1], <<op>>[n], w[n])
  <2> SUFFICES ASSUME NEW n \in 1..1 PROVE Steps(w[n - 1], <<op>>[n], w[n])
    BY <1>1
  <2>1. n = 1 /\ n - 1 = 0
    OBVIOUS
  <2> QED
    BY <1>1, <1>2, <2>1
<1> QED
  BY <1>1, <1>2, <1>3 DEF Walks

\* One list after the other.
LEMMA JoinedWalk ==
    ASSUME NEW x, NEW y, NEW a, NEW b, NEW e, Walks(a, x, b), Walks(b, y, e)
    PROVE  Walks(a, x \o y, e)
<1>1. PICK c : c[0] = a /\ c[Len(x)] = b /\ \A n \in 1..Len(x) : Steps(c[n - 1], x[n], c[n])
  BY DEF Walks
<1>2. PICK d : d[0] = b /\ d[Len(y)] = e /\ \A n \in 1..Len(y) : Steps(d[n - 1], y[n], d[n])
  BY DEF Walks
<1>3. IsHistory(x) /\ IsHistory(y)
  BY DEF Walks
<1>4. Len(x) \in Nat /\ Len(y) \in Nat
  BY <1>3, HistoryIsFunction
<1>5. /\ IsHistory(x \o y) /\ Len(x \o y) = Len(x) + Len(y)
      /\ \A i \in 1..Len(x) : (x \o y)[i] = x[i]
      /\ \A i \in 1..Len(y) : (x \o y)[Len(x) + i] = y[i]
  BY <1>3, JoinHistories
<1> DEFINE l == Len(x)
           f == [n \in 0..(Len(x) + Len(y)) |-> IF n <= Len(x) THEN c[n] ELSE d[n - Len(x)]]
<1>6. \A n \in 0..l : n \in 0..(l + Len(y)) /\ f[n] = c[n]
  BY <1>4
<1>7. ASSUME NEW n \in 0..Len(y) PROVE f[l + n] = d[n]
  <2>1. l + n \in 0..(l + Len(y)) /\ l + n - l = n
    BY <1>4
  <2>2. CASE n = 0
    BY <1>1, <1>2, <1>4, <1>6, <2>2
  <2>3. CASE n # 0
    <3>1. ~(l + n <= l)
      BY <1>4, <2>3
    <3> QED
      BY <2>1, <3>1
  <2> QED
    BY <2>2, <2>3
<1> HIDE DEF f
<1>9. f[0] = a /\ f[l + Len(y)] = e
  BY <1>1, <1>2, <1>4, <1>6, <1>7
<1>10. ASSUME NEW n \in 1..(l + Len(y))
       PROVE  Steps(f[n - 1], (x \o y)[n], f[n])
  <2>1. CASE n <= l
    <3>1. n \in 1..l /\ n \in 0..l /\ n - 1 \in 0..l
      BY <1>4, <2>1
    <3>2. f[n] = c[n] /\ f[n - 1] = c[n - 1] /\ (x \o y)[n] = x[n]
      BY <1>5, <1>6, <3>1
    <3> QED
      BY <1>1, <3>1, <3>2
  <2>2. CASE ~(n <= l)
    <3> DEFINE m == n - l
    <3>1. m \in 1..Len(y) /\ m \in 0..Len(y) /\ m - 1 \in 0..Len(y) /\ l + m = n /\ l + (m - 1) = n - 1
      BY <1>4, <2>2
    <3> HIDE DEF m
    <3>2. f[n] = d[m] /\ f[n - 1] = d[m - 1] /\ (x \o y)[n] = y[m]
      BY <1>5, <1>7, <3>1
    <3> QED
      BY <1>2, <3>1, <3>2
  <2> QED
    BY <2>1, <2>2
<1> QED
  BY <1>5, <1>9, <1>10 DEF Walks

-----------------------------------------------------------------------------
(* Operations on workbooks that are alike.                                *)

\* A history of elements of a set is a sequence of them.
LEMMA SequenceOf ==
    ASSUME NEW s, IsHistory(s), NEW S, \A i \in 1..Len(s) : s[i] \in S
    PROVE  s \in Seq(S)
<1>1. PICK n \in Nat : n = Len(s)
  BY HistoryIsFunction
<1>2. s \in [1..n -> S]
  BY <1>1, HistoryIsFunction
<1> QED
  BY <1>2

\* And the other way round.
LEMMA HistoryOf ==
    ASSUME NEW S, NEW s \in Seq(S)
    PROVE  IsHistory(s) /\ \A i \in 1..Len(s) : s[i] \in S
  BY SeqOfRange, ElementOfSeq DEF IsHistory

\* A new sheet is one.
LEMMA NewSheetIs ==
    ASSUME NEW nm \in Names
    PROVE  /\ NewSheet(nm) \in Sheet /\ NewSheet(nm).name = nm /\ NewSheet(nm).charts = <<>>
           /\ \A r \in Row : NewSheet(nm).cells[r] = EmptyCell
<1> DEFINE f == [r \in Row |-> EmptyCell]
           c == Listed(f, MaxRow)
<1>1. MaxRow \in Nat /\ \A r \in Row : f[r] = EmptyCell
  BY MaxRowAssumption
<1>2. c = EmptyRows
  BY DEF Listed, EmptyRows
<1> HIDE DEF f
<1>3. IsHistory(c) /\ Len(c) = MaxRow /\ \A r \in 1..MaxRow : c[r] = f[r]
  BY <1>1, ListedIs
<1> HIDE DEF c
<1>4. c = [r \in Row |-> c[r]] /\ \A r \in Row : c[r] = EmptyCell
  BY <1>1, <1>3, HistoryIsFunction DEF Row
<1>5. c \in [Row -> Cell]
  BY <1>4, EmptyCellIs
<1>6. NewSheet(nm) = [name |-> nm, cells |-> c, charts |-> <<>>]
  BY <1>2 DEF NewSheet
<1>7. <<>> \in Seq(Chart)
  BY EmptySeq
<1> QED
  BY <1>4, <1>5, <1>6, <1>7 DEF Sheet

\* An anchor changed.
Anchored(cs, i, a) == [cs EXCEPT ![i].anchor = a]
\* It can be changed back.
LEMMA AnchoredIs ==
    ASSUME NEW cs \in Seq(Chart), NEW i \in 1..Len(cs), NEW a \in Anchors
    PROVE  /\ Anchored(cs, i, a) \in Seq(Chart)
           /\ IsHistory(Anchored(cs, i, a)) /\ Len(Anchored(cs, i, a)) = Len(cs)
           /\ Anchored(cs, i, a)[i].anchor = a
           /\ Anchored(Anchored(cs, i, a), i, cs[i].anchor) = cs
<1>1. IsHistory(cs) /\ \A n \in 1..Len(cs) : cs[n] \in Chart
  BY HistoryOf
<1>2. Len(cs) \in Nat /\ cs = [n \in 1..Len(cs) |-> cs[n]]
  BY <1>1, HistoryIsFunction
<1> DEFINE t == Anchored(cs, i, a)
           u == Anchored(t, i, cs[i].anchor)
<1>3. t = [n \in 1..Len(cs) |-> IF n = i THEN [cs[i] EXCEPT !.anchor = a] ELSE cs[n]]
  BY <1>2 DEF Anchored
<1>4. cs[i] = [anchor |-> cs[i].anchor, source |-> cs[i].source, of |-> cs[i].of]
  BY <1>1 DEF Chart
<1>5. [cs[i] EXCEPT !.anchor = a] = [anchor |-> a, source |-> cs[i].source, of |-> cs[i].of]
  BY <1>4
<1>6. [cs[i] EXCEPT !.anchor = a] \in Chart
  BY <1>1, <1>5 DEF Chart
<1>7. ASSUME NEW n \in 1..Len(cs)
      PROVE  t[n] \in Chart /\ t[n] = IF n = i THEN [anchor |-> a, source |-> cs[i].source, of |-> cs[i].of] ELSE cs[n]
  BY <1>1, <1>3, <1>5, <1>6
<1>8. t = [n \in 1..Len(cs) |-> t[n]]
  BY <1>3
<1>9. u = [n \in 1..Len(cs) |-> IF n = i THEN [t[i] EXCEPT !.anchor = cs[i].anchor] ELSE t[n]]
  <2>1. DOMAIN t = 1..Len(cs)
    BY <1>3
  <2> HIDE DEF t
  <2> QED
    BY <2>1 DEF Anchored
<1> HIDE DEF t
<1>10. IsHistory(t) /\ Len(t) = Len(cs)
  BY <1>2, <1>8, FunctionIsHistory
<1>11. t \in Seq(Chart)
  BY <1>7, <1>10, SequenceOf
<1>12. t[i].anchor = a /\ [t[i] EXCEPT !.anchor = cs[i].anchor] = cs[i]
  BY <1>4, <1>7
<1>13. \A n \in 1..Len(cs) : u[n] = cs[n]
  BY <1>7, <1>9, <1>12
<1>14. u = [n \in 1..Len(cs) |-> u[n]]
  BY <1>9
<1> HIDE DEF u
<1>15. u = cs
  BY <1>2, <1>13, <1>14
<1> QED
  BY <1>10, <1>11, <1>12, <1>15 DEF t, u

\* What the operations make of a workbook.
ChartsAfter(cs, op) ==
  CASE op.op = "AddChart"    -> InsertAt(cs, op.index, op.drawing)
    [] op.op = "RemoveChart" -> RemoveAt(cs, op.index)
    [] op.op = "SetAnchor"   -> Anchored(cs, op.index, op.anchor)

\* The operations on charts.
ChartOp(op) == op.op \in {"AddChart", "RemoveChart", "SetAnchor"}

\* A chart operation changes the charts of one sheet.
LEMMA ChartOpIs ==
    ASSUME NEW wb, IsBook(wb), NEW op, Suits(wb, op), ChartOp(op)
    PROVE  /\ op.sheet \in 1..Len(wb) /\ ChartsAfter(wb[op.sheet].charts, op) \in Seq(Chart)
           /\ Apply(wb, op).wb = [wb EXCEPT ![op.sheet].charts = ChartsAfter(wb[op.sheet].charts, op)]
<1> DEFINE s == op.sheet
           cs == wb[op.sheet].charts
<1>1. s \in 1..Len(wb)
  BY DEF Suits, ChartOp
<1>2. cs \in Seq(Chart)
  BY <1>1, BookIs
<1>3. IsHistory(cs) /\ \A n \in 1..Len(cs) : cs[n] \in Chart
  BY <1>2, HistoryOf
<1>4. Len(cs) \in Nat /\ wb = [i \in 1..Len(wb) |-> wb[i]] /\ wb[s] \in Sheet
  BY <1>1, <1>3, BookIs, HistoryIsFunction
<1>5. CASE op.op = "AddChart"
  <2> DEFINE t == InsertAt(cs, op.index, op.drawing)
  <2>1. op.index \in 1..(Len(cs) + 1) /\ op.drawing \in Chart
    BY <1>5 DEF Suits
  <2> HIDE DEF cs
  <2>2. /\ IsHistory(t) /\ Len(t) = Len(cs) + 1
        /\ t[op.index] = op.drawing
        /\ \A j \in 1..(op.index - 1) : t[j] = cs[j]
        /\ \A j \in (op.index + 1)..(Len(cs) + 1) : t[j] = cs[j - 1]
    BY <1>3, <2>1, InsertedHistory
  <2> HIDE DEF t, cs
  <2>3. ASSUME NEW j \in 1..Len(t) PROVE t[j] \in Chart
    <3>1. CASE j < op.index
      <4>1. j \in 1..(op.index - 1) /\ j \in 1..Len(cs)
        BY <1>4, <2>1, <2>2, <3>1
      <4> QED
        BY <1>3, <2>2, <4>1
    <3>2. CASE j = op.index
      BY <2>1, <2>2, <3>2
    <3>3. CASE j > op.index
      <4>1. j \in (op.index + 1)..(Len(cs) + 1) /\ j - 1 \in 1..Len(cs)
        BY <1>4, <2>1, <2>2, <3>3
      <4> QED
        BY <1>3, <2>2, <4>1
    <3> QED
      BY <1>4, <2>1, <2>2, <3>1, <3>2, <3>3
  <2>4. t \in Seq(Chart)
    BY <2>2, <2>3, SequenceOf
  <2>5. ChartsAfter(cs, op) = t
    BY <1>5 DEF ChartsAfter, t
  <2>6. Apply(wb, op).wb = [wb EXCEPT ![s].charts = t]
    BY <1>5 DEF Apply, ApplyAddChart, Done, t, cs
  <2> QED
    BY <1>1, <2>4, <2>5, <2>6 DEF cs
<1>6. CASE op.op = "RemoveChart"
  <2> DEFINE t == RemoveAt(cs, op.index)
  <2>1. op.index \in 1..Len(cs)
    BY <1>6 DEF Suits, cs
  <2>2. /\ IsHistory(t) /\ Len(t) = Len(cs) - 1
        /\ \A j \in 1..(op.index - 1) : t[j] = cs[j]
        /\ \A j \in op.index..(Len(cs) - 1) : t[j] = cs[j + 1]
    BY <1>3, <2>1, RemovedHistory
  <2> HIDE DEF t, cs
  <2>3. ASSUME NEW j \in 1..Len(t) PROVE t[j] \in Chart
    <3>1. CASE j < op.index
      <4>1. j \in 1..(op.index - 1) /\ j \in 1..Len(cs)
        BY <1>4, <2>1, <2>2, <3>1
      <4> QED
        BY <1>3, <2>2, <4>1
    <3>3. CASE j >= op.index
      <4>1. j \in op.index..(Len(cs) - 1) /\ j + 1 \in 1..Len(cs)
        BY <1>4, <2>1, <2>2, <3>3
      <4> QED
        BY <1>3, <2>2, <4>1
    <3> QED
      BY <1>4, <2>1, <2>2, <3>1, <3>3
  <2>4. t \in Seq(Chart)
    BY <2>2, <2>3, SequenceOf
  <2>5. ChartsAfter(cs, op) = t
    BY <1>6 DEF ChartsAfter, t
  <2>6. Apply(wb, op).wb = [wb EXCEPT ![s].charts = t]
    BY <1>6 DEF Apply, ApplyRemoveChart, Done, t, cs
  <2> QED
    BY <1>1, <2>4, <2>5, <2>6 DEF cs
<1>7. CASE op.op = "SetAnchor"
  <2> DEFINE t == Anchored(cs, op.index, op.anchor)
  <2>1. op.index \in 1..Len(cs) /\ op.anchor \in Anchors
    BY <1>7 DEF Suits, cs
  <2>4. t \in Seq(Chart)
    BY <1>2, <2>1, AnchoredIs
  <2>5. ChartsAfter(cs, op) = t
    BY <1>7 DEF ChartsAfter, t
  <2>6. Apply(wb, op).wb = [wb EXCEPT ![s].charts[op.index].anchor = op.anchor]
    BY <1>7 DEF Apply, ApplySetAnchor, Done
  <2>7. [wb EXCEPT ![s].charts[op.index].anchor = op.anchor] = [wb EXCEPT ![s].charts = t]
    BY <1>1, <1>4 DEF Anchored, Sheet
  <2> QED
    BY <1>1, <2>4, <2>5, <2>6, <2>7 DEF cs
<1> QED
  BY <1>5, <1>6, <1>7 DEF ChartOp

\* The cells whose formula names the sheet that is renamed, and what they hold
\* after it.
Naming(wb, op) ==
  {at \in CellsOf(wb) : LET c == CellAt(wb, at[1], at[2])
                        IN IsReading(c) /\ c.f[1] = wb[op.sheet].name /\ wb[op.sheet].name # op.name}
\* The cell, its formula following the new name.
Renamed(c, op) == [c EXCEPT !.f = Reads(op.name, c.f[2])]
RenamedCell(wb, op, i, r) ==
  IF <<i, r>> \in Naming(wb, op) THEN Renamed(CellAt(wb, i, r), op) ELSE CellAt(wb, i, r)

\* What is kept for a cell when the renaming is taken back.
KeptFor(fs, at) == {n \in 1..Len(fs) : <<fs[n].sheet, fs[n].at>> = at}
PlacesOf(fs) == {<<fs[n].sheet, fs[n].at>> : n \in 1..Len(fs)}
RestoredCell(wb, op, i, r) ==
  IF KeptFor(op.formulas, <<i, r>>) # {}
  THEN op.formulas[CHOOSE n \in KeptFor(op.formulas, <<i, r>>) : TRUE].cell
  ELSE CellAt(wb, i, r)

\* A formula that names the renamed sheet is one that reads.
LEMMA NamingIs ==
    ASSUME NEW wb, IsBook(wb), NEW op, NEW i \in 1..Len(wb), NEW r \in Row
    PROVE  /\ <<i, r>> \in Naming(wb, op) <=>
                /\ IsReading(CellAt(wb, i, r)) /\ CellAt(wb, i, r).f[1] = wb[op.sheet].name
                /\ wb[op.sheet].name # op.name
           /\ CellAt(wb, i, r) \in Cell
<1>1. <<i, r>> \in CellsOf(wb)
  BY DEF CellsOf
<1>2. CellAt(wb, i, r) \in Cell
  BY BookIs DEF CellAt
<1> QED
  BY <1>1, <1>2 DEF Naming

\* A formula that follows its sheet is a formula.
LEMMA RenamedIs ==
    ASSUME NEW op, op.name \in Names, NEW c \in Cell, IsReading(c)
    PROVE  /\ Renamed(c, op) \in Cell
           /\ Authored(Renamed(c, op)) = [v |-> Blank, f |-> Reads(op.name, c.f[2])]
<1> DEFINE g == Reads(op.name, c.f[2])
           d == [c EXCEPT !.f = g]
<1>1. c.f[2] \in Row
  BY ReadingIs
<1>2. g \in Formulas
  BY <1>1 DEF Formulas
<1>3. g # NoFormula
  BY DEF Reads, NoFormula
<1> HIDE DEF g
<1>4. c = [v |-> c.v, f |-> c.f] /\ c.v \in Int
  BY CellIs
<1>5. d = [v |-> c.v, f |-> g]
  BY <1>4
<1>6. d \in Cell /\ d.f = g
  BY <1>2, <1>4, <1>5 DEF Cell
<1> HIDE DEF d
<1>7. Authored(d) = [v |-> Blank, f |-> g]
  BY <1>3, <1>5, <1>6 DEF Authored, IsFormula
<1> QED
  BY <1>6, <1>7 DEF d, g, Renamed

\* A renaming changes one name and the formulas that have it.
LEMMA RenameIs ==
    ASSUME NEW wb, IsBook(wb), NEW op, op.op = "RenameSheet", op.sheet \in 1..Len(wb), op.name \in Names
    PROVE  /\ IsBook(Apply(wb, op).wb) /\ Len(Apply(wb, op).wb) = Len(wb)
           /\ \A i \in 1..Len(wb) :
                /\ Apply(wb, op).wb[i].name = IF i = op.sheet THEN op.name ELSE wb[i].name
                /\ Apply(wb, op).wb[i].charts = wb[i].charts
                /\ \A r \in Row : Apply(wb, op).wb[i].cells[r] = RenamedCell(wb, op, i, r)
           /\ Apply(wb, op).inverse =
                <<RestoreSheet(op.sheet, wb[op.sheet].name, Restores(wb, Naming(wb, op)))>>
<1> DEFINE new == [at \in CellsOf(wb) |->
                    LET c == CellAt(wb, at[1], at[2])
                    IN IF at \in Naming(wb, op) THEN [c EXCEPT !.f = Reads(op.name, c.f[2])] ELSE c]
           M == MapCells(wb, new)
           back == <<RestoreSheet(op.sheet, wb[op.sheet].name, Restores(wb, Naming(wb, op)))>>
<1>1. Apply(wb, op) = Done(WithName(M, op.sheet, op.name), back)
  BY DEF Apply, ApplyRenameSheet, Naming
<1> HIDE DEF back
<1>2. ASSUME NEW i \in 1..Len(wb), NEW r \in Row
      PROVE  new[<<i, r>>] = RenamedCell(wb, op, i, r) /\ RenamedCell(wb, op, i, r) \in Cell
  <2>1. <<i, r>> \in CellsOf(wb) /\ <<i, r>>[1] = i /\ <<i, r>>[2] = r
    BY DEF CellsOf
  <2>2. new[<<i, r>>] = RenamedCell(wb, op, i, r)
    BY <2>1 DEF RenamedCell, Renamed
  <2>3. CellAt(wb, i, r) \in Cell /\ (<<i, r>> \in Naming(wb, op) => IsReading(CellAt(wb, i, r)))
    BY NamingIs
  <2>4. CASE <<i, r>> \in Naming(wb, op)
    BY <2>2, <2>3, <2>4, RenamedIs DEF RenamedCell
  <2>5. CASE <<i, r>> \notin Naming(wb, op)
    BY <2>2, <2>3, <2>5 DEF RenamedCell
  <2> QED
    BY <2>4, <2>5
<1> HIDE DEF new
<1>3. \A i \in 1..Len(wb), r \in Row : new[<<i, r>>] \in Cell
  BY <1>2
<1>4. /\ IsBook(M) /\ Len(M) = Len(wb)
      /\ \A i \in 1..Len(wb) :
                /\ M[i].name = wb[i].name
                /\ M[i].charts = wb[i].charts
                /\ \A r \in Row : M[i].cells[r] = new[<<i, r>>]
  BY <1>3, MapCellsIs
<1> HIDE DEF M
<1>41. IsBook(M) /\ op.sheet \in 1..Len(M)
  BY <1>4
<1> DEFINE W == WithName(M, op.sheet, op.name)
<1>5. /\ IsBook(W) /\ Len(W) = Len(M)
      /\ \A i \in 1..Len(M) :
                /\ W[i].name = IF i = op.sheet THEN op.name ELSE M[i].name
                /\ W[i].charts = M[i].charts
                /\ \A q \in Row : W[i].cells[q] = M[i].cells[q]
  BY <1>41, WithNameIs
<1> HIDE DEF W
<1>6. Apply(wb, op).wb = W /\ Apply(wb, op).inverse = back
  BY <1>1 DEF Done, W
<1>7. ASSUME NEW i \in 1..Len(wb)
      PROVE  /\ W[i].name = IF i = op.sheet THEN op.name ELSE wb[i].name
             /\ W[i].charts = wb[i].charts
             /\ \A r \in Row : W[i].cells[r] = RenamedCell(wb, op, i, r)
  <2>1. i \in 1..Len(M)
    BY <1>4
  <2>5. W[i].charts = M[i].charts /\ \A r \in Row : W[i].cells[r] = M[i].cells[r]
    BY <1>5, <2>1
  <2>6. M[i].charts = wb[i].charts /\ \A r \in Row : M[i].cells[r] = new[<<i, r>>]
    BY <1>4
  <2>7. \A r \in Row : new[<<i, r>>] = RenamedCell(wb, op, i, r)
    BY <1>2
  <2>2. W[i].charts = wb[i].charts /\ \A r \in Row : W[i].cells[r] = RenamedCell(wb, op, i, r)
    BY <2>5, <2>6, <2>7
  <2>3. M[i].name = wb[i].name
    BY <1>4
  <2>4. W[i].name = IF i = op.sheet THEN op.name ELSE M[i].name
    BY <1>5, <2>1
  <2> QED
    BY <2>2, <2>3, <2>4
<1>9. IsBook(W) /\ Len(W) = Len(wb)
  BY <1>4, <1>5
<1>8. Apply(wb, op).inverse = <<RestoreSheet(op.sheet, wb[op.sheet].name, Restores(wb, Naming(wb, op)))>>
  BY <1>6 DEF back
<1> QED
  BY <1>6, <1>7, <1>8, <1>9

\* Taking a renaming back puts the kept cells back.
LEMMA RestoreIs ==
    ASSUME NEW wb, IsBook(wb), NEW op, op.op = "RestoreSheet", op.sheet \in 1..Len(wb), op.name \in Names,
           FormulasFit(op.formulas, Len(wb))
    PROVE  /\ IsBook(Apply(wb, op).wb) /\ Len(Apply(wb, op).wb) = Len(wb)
           /\ \A i \in 1..Len(wb) :
                /\ Apply(wb, op).wb[i].name = IF i = op.sheet THEN op.name ELSE wb[i].name
                /\ Apply(wb, op).wb[i].charts = wb[i].charts
                /\ \A r \in Row : Apply(wb, op).wb[i].cells[r] = RestoredCell(wb, op, i, r)
           /\ Apply(wb, op).inverse =
                <<RestoreSheet(op.sheet, wb[op.sheet].name,
                    Restores(wb, PlacesOf(op.formulas)))>>
<1> DEFINE fs == op.formulas
           new == [at \in CellsOf(wb) |->
                    IF KeptFor(fs, at) # {} THEN fs[CHOOSE n \in KeptFor(fs, at) : TRUE].cell
                    ELSE CellAt(wb, at[1], at[2])]
           M == MapCells(wb, new)
           back == <<RestoreSheet(op.sheet, wb[op.sheet].name,
                       Restores(wb, PlacesOf(op.formulas)))>>
<1>1. Apply(wb, op) = Done(WithName(M, op.sheet, op.name), back)
  BY DEF Apply, ApplyRestoreSheet, KeptFor, PlacesOf
<1> HIDE DEF back
<1>2. ASSUME NEW i \in 1..Len(wb), NEW r \in Row
      PROVE  new[<<i, r>>] = RestoredCell(wb, op, i, r) /\ RestoredCell(wb, op, i, r) \in Cell
  <2>1. <<i, r>> \in CellsOf(wb) /\ <<i, r>>[1] = i /\ <<i, r>>[2] = r
    BY DEF CellsOf
  <2>2. new[<<i, r>>] = RestoredCell(wb, op, i, r)
    BY <2>1 DEF RestoredCell
  <2>3. CellAt(wb, i, r) \in Cell
    BY BookIs DEF CellAt
  <2>4. CASE KeptFor(fs, <<i, r>>) # {}
    <3> DEFINE n == CHOOSE n \in KeptFor(fs, <<i, r>>) : TRUE
    <3>1. n \in KeptFor(fs, <<i, r>>)
      BY <2>4
    <3>2. n \in 1..Len(fs)
      BY <3>1 DEF KeptFor
    <3>3. fs[n].cell \in Cell
      BY <3>2 DEF FormulasFit
    <3>4. RestoredCell(wb, op, i, r) = fs[n].cell
      BY <2>4 DEF RestoredCell
    <3> QED
      BY <2>2, <3>3, <3>4
  <2>5. CASE KeptFor(fs, <<i, r>>) = {}
    BY <2>2, <2>3, <2>5 DEF RestoredCell
  <2> QED
    BY <2>4, <2>5
<1> HIDE DEF new
<1>3. \A i \in 1..Len(wb), r \in Row : new[<<i, r>>] \in Cell
  BY <1>2
<1>4. /\ IsBook(M) /\ Len(M) = Len(wb)
      /\ \A i \in 1..Len(wb) :
                /\ M[i].name = wb[i].name
                /\ M[i].charts = wb[i].charts
                /\ \A r \in Row : M[i].cells[r] = new[<<i, r>>]
  BY <1>3, MapCellsIs
<1> HIDE DEF M
<1>41. IsBook(M) /\ op.sheet \in 1..Len(M)
  BY <1>4
<1> DEFINE W == WithName(M, op.sheet, op.name)
<1>5. /\ IsBook(W) /\ Len(W) = Len(M)
      /\ \A i \in 1..Len(M) :
                /\ W[i].name = IF i = op.sheet THEN op.name ELSE M[i].name
                /\ W[i].charts = M[i].charts
                /\ \A q \in Row : W[i].cells[q] = M[i].cells[q]
  BY <1>41, WithNameIs
<1> HIDE DEF W
<1>6. Apply(wb, op).wb = W /\ Apply(wb, op).inverse = back
  BY <1>1 DEF Done, W
<1>7. ASSUME NEW i \in 1..Len(wb)
      PROVE  /\ W[i].name = IF i = op.sheet THEN op.name ELSE wb[i].name
             /\ W[i].charts = wb[i].charts
             /\ \A r \in Row : W[i].cells[r] = RestoredCell(wb, op, i, r)
  <2>1. i \in 1..Len(M)
    BY <1>4
  <2>5. W[i].charts = M[i].charts /\ \A r \in Row : W[i].cells[r] = M[i].cells[r]
    BY <1>5, <2>1
  <2>6. M[i].charts = wb[i].charts /\ \A r \in Row : M[i].cells[r] = new[<<i, r>>]
    BY <1>4
  <2>7. \A r \in Row : new[<<i, r>>] = RestoredCell(wb, op, i, r)
    BY <1>2
  <2>2. W[i].charts = wb[i].charts /\ \A r \in Row : W[i].cells[r] = RestoredCell(wb, op, i, r)
    BY <2>5, <2>6, <2>7
  <2>3. M[i].name = wb[i].name
    BY <1>4
  <2>4. W[i].name = IF i = op.sheet THEN op.name ELSE M[i].name
    BY <1>5, <2>1
  <2> QED
    BY <2>2, <2>3, <2>4
<1>9. IsBook(W) /\ Len(W) = Len(wb)
  BY <1>4, <1>5
<1>8. Apply(wb, op).inverse = <<RestoreSheet(op.sheet, wb[op.sheet].name, 
                Restores(wb, PlacesOf(op.formulas)))>>
  BY <1>6 DEF back
<1> QED
  BY <1>6, <1>7, <1>8, <1>9

\* Alike workbooks have the names and the formulas in common.
LEMMA AlikeCells ==
    ASSUME NEW a, IsBook(a), NEW b, IsBook(b), Alike(a, b)
    PROVE  /\ SameNames(a, b)
           /\ \A i \in 1..Len(a), r \in Row :
                /\ CellAt(a, i, r) \in Cell /\ CellAt(b, i, r) \in Cell
                /\ CellAt(a, i, r).f = CellAt(b, i, r).f
                /\ IsReading(CellAt(a, i, r)) <=> IsReading(CellAt(b, i, r))
                /\ Authored(CellAt(a, i, r)) = Authored(CellAt(b, i, r))
<1>1. SameNames(a, b)
  BY DEF Alike, SameNames
<1>2. ASSUME NEW i \in 1..Len(a), NEW r \in Row
      PROVE  /\ CellAt(a, i, r) \in Cell /\ CellAt(b, i, r) \in Cell
             /\ CellAt(a, i, r).f = CellAt(b, i, r).f
             /\ IsReading(CellAt(a, i, r)) <=> IsReading(CellAt(b, i, r))
             /\ Authored(CellAt(a, i, r)) = Authored(CellAt(b, i, r))
  <2>1. CellAt(a, i, r) \in Cell /\ CellAt(b, i, r) \in Cell /\ Authored(CellAt(a, i, r)) = Authored(CellAt(b, i, r))
    BY BookIs DEF Alike, CellAt
  <2>2. CellAt(a, i, r).f = CellAt(b, i, r).f
    BY <2>1, AuthoredIs
  <2> QED
    BY <2>1, <2>2 DEF IsReading
<1> QED
  BY <1>1, <1>2

\* Rows moved in alike workbooks.
LEMMA RowsAlike ==
    ASSUME NEW a, IsBook(a), NEW b, IsBook(b), Alike(a, b), NEW op, RowsFit(a, op)
    PROVE  RowsFit(b, op) /\ Alike(RowsAfter(a, op), RowsAfter(b, op))
<1>1. /\ SameNames(a, b)
      /\ \A i \in 1..Len(a), r \in Row :
                /\ CellAt(a, i, r) \in Cell /\ CellAt(b, i, r) \in Cell
                /\ CellAt(a, i, r).f = CellAt(b, i, r).f
                /\ IsReading(CellAt(a, i, r)) <=> IsReading(CellAt(b, i, r))
                /\ Authored(CellAt(a, i, r)) = Authored(CellAt(b, i, r))
  BY AlikeCells
<1>2. RowsFit(b, op) /\ Len(b) = Len(a) /\ op.sheet \in 1..Len(a)
  BY <1>1 DEF SameNames, RowsFit
<1>3. ASSUME NEW i \in 1..Len(a), NEW r \in Row
      PROVE  Authored(RemappedCell(a, op, i, r)) = Authored(RemappedCell(b, op, i, r))
  <2> DEFINE c == CellAt(a, i, r)
             d == CellAt(b, i, r)
  <2>1. /\ c \in Cell /\ d \in Cell /\ c.f = d.f /\ (IsReading(c) <=> IsReading(d)) /\ Authored(c) = Authored(d)
        /\ i \in 1..Len(b)
    BY <1>1, <1>2
  <2>2. /\ <<i, r>> \in Rewritten(a, op) <=> ReadsSheet(a, i, c, op.sheet) /\ RemapRow(c.f[2], op) # c.f[2]
        /\ <<i, r>> \in Rewritten(b, op) <=> ReadsSheet(b, i, d, op.sheet) /\ RemapRow(d.f[2], op) # d.f[2]
        /\ <<i, r>> \in Rewritten(a, op) => IsReading(c)
    BY <1>2, <2>1, RewrittenIs
  <2> HIDE DEF c, d
  <2>3. ReadsSheet(a, i, c, op.sheet) <=> ReadsSheet(b, i, d, op.sheet)
    BY <1>1, <2>1, SameReads
  <2>4. <<i, r>> \in Rewritten(a, op) <=> <<i, r>> \in Rewritten(b, op)
    BY <2>1, <2>2, <2>3
  <2>5. CASE <<i, r>> \in Rewritten(a, op)
    <3>1. IsReading(c) /\ IsReading(d)
      BY <2>1, <2>2, <2>5
    <3>2. op.op \in {"InsertRow", "DeleteRow"} /\ op.at \in Row
      BY DEF RowsFit
    <3>3. /\ Authored(Remapped(c, op)) = [v |-> Blank, f |-> RemapFormula(c, op)]
          /\ Authored(Remapped(d, op)) = [v |-> Blank, f |-> RemapFormula(d, op)]
      BY <2>1, <3>1, <3>2, RemappedFormula
    <3>4. RemapFormula(c, op) = RemapFormula(d, op)
      BY <2>1 DEF RemapFormula
    <3> QED
      BY <2>4, <2>5, <3>3, <3>4 DEF RemappedCell, c, d
  <2>6. CASE <<i, r>> \notin Rewritten(a, op)
    BY <2>1, <2>4, <2>6 DEF RemappedCell, c, d
  <2> QED
    BY <2>5, <2>6
<1>4. ASSUME NEW i \in 1..Len(a), NEW r \in Row
      PROVE  Authored(ShiftedCell(a, op, i, r)) = Authored(ShiftedCell(b, op, i, r))
  <2>1. CASE i # op.sheet
    BY <1>3, <2>1 DEF ShiftedCell
  <2>2. CASE i = op.sheet /\ \E q \in Row : RemapRow(q, op) = r
    <3>1. ComesFrom(op, r) \in Row
      BY <2>2 DEF ComesFrom
    <3>2. Authored(RemappedCell(a, op, op.sheet, ComesFrom(op, r))) =
            Authored(RemappedCell(b, op, op.sheet, ComesFrom(op, r)))
      BY <1>2, <1>3, <3>1
    <3> QED
      BY <2>2, <3>2 DEF ShiftedCell
  <2>3. CASE i = op.sheet /\ ~\E q \in Row : RemapRow(q, op) = r
    BY <2>3 DEF ShiftedCell
  <2> QED
    BY <2>1, <2>2, <2>3
<1> DEFINE A == RowsAfter(a, op)
           B == RowsAfter(b, op)
<1>5. /\ Len(A) = Len(a)
      /\ \A i \in 1..Len(a) :
                /\ A[i].name = a[i].name /\ A[i].charts = a[i].charts
                /\ \A r \in Row : A[i].cells[r] = ShiftedCell(a, op, i, r)
  BY RowsAfterIs
<1>6. /\ Len(B) = Len(b)
      /\ \A i \in 1..Len(b) :
                /\ B[i].name = b[i].name /\ B[i].charts = b[i].charts
                /\ \A r \in Row : B[i].cells[r] = ShiftedCell(b, op, i, r)
  BY <1>2, RowsAfterIs
<1> HIDE DEF A, B
<1>7. Alike(A, B)
  BY <1>4, <1>5, <1>6 DEF Alike
<1> QED
  BY <1>2, <1>7 DEF A, B

\* A workbook with one more sheet, and with one less.
LEMMA InsertedBook ==
    ASSUME NEW wb, IsBook(wb), NEW i \in 1..(Len(wb) + 1), NEW sh \in Sheet
    PROVE  /\ IsBook(InsertAt(wb, i, sh)) /\ Len(InsertAt(wb, i, sh)) = Len(wb) + 1
           /\ InsertAt(wb, i, sh)[i] = sh
           /\ \A j \in 1..(i - 1) : InsertAt(wb, i, sh)[j] = wb[j]
           /\ \A j \in (i + 1)..(Len(wb) + 1) : InsertAt(wb, i, sh)[j] = wb[j - 1]
<1> DEFINE W == InsertAt(wb, i, sh)
           l == Len(wb)
<1>1. IsHistory(wb) /\ l \in Nat /\ \A j \in 1..l : wb[j] \in Sheet
  BY BookIs
<1>2. /\ IsHistory(W) /\ Len(W) = l + 1 /\ W[i] = sh
      /\ \A j \in 1..(i - 1) : W[j] = wb[j]
      /\ \A j \in (i + 1)..(l + 1) : W[j] = wb[j - 1]
  BY <1>1, InsertedHistory
<1> HIDE DEF W
<1>3. ASSUME NEW j \in 1..(l + 1) PROVE W[j] \in Sheet
  <2>1. CASE j = i
    BY <1>2, <2>1
  <2>2. CASE j < i
    <3>1. j \in 1..(i - 1) /\ j \in 1..l
      BY <1>1, <2>2
    <3> QED
      BY <1>1, <1>2, <3>1
  <2>3. CASE j > i
    <3>1. j \in (i + 1)..(l + 1) /\ j - 1 \in 1..l
      BY <1>1, <2>3
    <3> QED
      BY <1>1, <1>2, <3>1
  <2> QED
    BY <1>1, <2>1, <2>2, <2>3
<1>4. IsBook(W)
  BY <1>2, <1>3 DEF IsBook
<1> QED
  BY <1>2, <1>4 DEF W

\* A workbook without one of its sheets.
LEMMA RemovedBook ==
    ASSUME NEW wb, IsBook(wb), NEW i \in 1..Len(wb)
    PROVE  /\ IsBook(RemoveAt(wb, i)) /\ Len(RemoveAt(wb, i)) = Len(wb) - 1
           /\ \A j \in 1..(i - 1) : RemoveAt(wb, i)[j] = wb[j]
           /\ \A j \in i..(Len(wb) - 1) : RemoveAt(wb, i)[j] = wb[j + 1]
<1> DEFINE W == RemoveAt(wb, i)
           l == Len(wb)
<1>1. IsHistory(wb) /\ l \in Nat /\ \A j \in 1..l : wb[j] \in Sheet
  BY BookIs
<1>2. /\ IsHistory(W) /\ Len(W) = l - 1
      /\ \A j \in 1..(i - 1) : W[j] = wb[j]
      /\ \A j \in i..(l - 1) : W[j] = wb[j + 1]
  BY <1>1, RemovedHistory
<1> HIDE DEF W
<1>3. ASSUME NEW j \in 1..(l - 1) PROVE W[j] \in Sheet
  <2>2. CASE j < i
    <3>1. j \in 1..(i - 1) /\ j \in 1..l
      BY <1>1, <2>2
    <3> QED
      BY <1>1, <1>2, <3>1
  <2>3. CASE ~(j < i)
    <3>1. j \in i..(l - 1) /\ j + 1 \in 1..l
      BY <1>1, <2>3
    <3> QED
      BY <1>1, <1>2, <3>1
  <2> QED
    BY <2>2, <2>3
<1>4. IsBook(W)
  BY <1>2, <1>3 DEF IsBook
<1> QED
  BY <1>2, <1>4 DEF W

\* What an operation does to two workbooks that differ in values only.
BothAlike(a, b, op) ==
  /\ IsBook(Apply(a, op).wb) /\ IsBook(Apply(b, op).wb)
  /\ Alike(Apply(a, op).wb, Apply(b, op).wb)

\* What setting a cell does.
LEMMA SetCellIs ==
    ASSUME NEW wb, IsBook(wb), NEW op, op.op = "SetCell",
           NEW s \in 1..Len(wb), NEW p \in Row, NEW c \in Cell, s = op.sheet, p = op.at, c = op.cell
    PROVE  /\ IsBook(Apply(wb, op).wb) /\ Len(Apply(wb, op).wb) = Len(wb)
           /\ \A i \in 1..Len(wb) :
                /\ Apply(wb, op).wb[i].name = wb[i].name
                /\ Apply(wb, op).wb[i].charts = wb[i].charts
                /\ \A q \in Row : Apply(wb, op).wb[i].cells[q] =
                     IF i = s /\ q = p THEN c ELSE wb[i].cells[q]
           /\ Apply(wb, op).inverse = <<SetCell(s, p, CellAt(wb, s, p))>>
<1> DEFINE W == WithCell(wb, s, p, c)
<1>1. /\ IsBook(W) /\ Len(W) = Len(wb)
      /\ \A i \in 1..Len(wb) : W[i].name = wb[i].name /\ W[i].charts = wb[i].charts
  BY WithCellIs
<1>3. ASSUME NEW i \in 1..Len(wb), NEW q \in Row
      PROVE  W[i].cells[q] = IF i = s /\ q = p THEN c ELSE wb[i].cells[q]
  BY WithCellIs
<1>2. Apply(wb, op).wb = W /\ Apply(wb, op).inverse = <<SetCell(s, p, CellAt(wb, s, p))>>
  BY DEF Apply, ApplySetCell, Done
<1> HIDE DEF W
<1> QED
  BY <1>1, <1>2, <1>3

\* Setting a cell.
LEMMA SettingAlike ==
    ASSUME NEW a, IsBook(a), NEW b, IsBook(b), Alike(a, b), NEW op,
           op.op = "SetCell", op.sheet \in 1..Len(a), op.at \in Row, op.cell \in Cell
    PROVE  BothAlike(a, b, op)
<1>0. PICK s, p, c : s = op.sheet /\ p = op.at /\ c = op.cell
  OBVIOUS
<1>1. Len(b) = Len(a) /\ s \in 1..Len(a) /\ s \in 1..Len(b) /\ p \in Row /\ c \in Cell
  BY <1>0 DEF Alike
<1> DEFINE A == Apply(a, op).wb
           B == Apply(b, op).wb
<1>2. /\ IsBook(A) /\ Len(A) = Len(a)
      /\ \A i \in 1..Len(a) :
                /\ A[i].name = a[i].name
                /\ A[i].charts = a[i].charts
                /\ \A q \in Row : A[i].cells[q] = IF i = s /\ q = p THEN c ELSE a[i].cells[q]
  BY <1>0, <1>1, SetCellIs
<1>3. /\ IsBook(B) /\ Len(B) = Len(b)
      /\ \A i \in 1..Len(b) :
                /\ B[i].name = b[i].name
                /\ B[i].charts = b[i].charts
                /\ \A q \in Row : B[i].cells[q] = IF i = s /\ q = p THEN c ELSE b[i].cells[q]
  BY <1>0, <1>1, SetCellIs
<1> HIDE DEF A, B
<1>4. ASSUME NEW i \in 1..Len(a)
      PROVE  /\ A[i].name = B[i].name /\ A[i].charts = B[i].charts
             /\ \A r \in Row : Authored(A[i].cells[r]) = Authored(B[i].cells[r])
  <2>1. /\ a[i].name = b[i].name /\ a[i].charts = b[i].charts /\ i \in 1..Len(b)
        /\ \A r \in Row : Authored(a[i].cells[r]) = Authored(b[i].cells[r])
    BY <1>1 DEF Alike
  <2>2. ASSUME NEW r \in Row PROVE Authored(A[i].cells[r]) = Authored(B[i].cells[r])
    <3>1. /\ A[i].cells[r] = IF i = s /\ r = p THEN c ELSE a[i].cells[r]
          /\ B[i].cells[r] = IF i = s /\ r = p THEN c ELSE b[i].cells[r]
      BY <1>2, <1>3, <2>1
    <3> QED
      BY <2>1, <3>1
  <2> QED
    BY <1>2, <1>3, <2>1, <2>2
<1>5. Alike(A, B)
  BY <1>1, <1>2, <1>3, <1>4 DEF Alike
<1> QED
  BY <1>2, <1>3, <1>5 DEF BothAlike, A, B

\* Inserting and deleting rows.
LEMMA MovingAlike ==
    ASSUME NEW a, IsBook(a), NEW b, IsBook(b), Alike(a, b), NEW op, RowsFit(a, op)
    PROVE  BothAlike(a, b, op)
<1>1. Apply(a, op).wb = RowsAfter(a, op) /\ Apply(b, op).wb = RowsAfter(b, op)
  BY DEF RowsFit, Apply, ApplyInsertRow, ApplyDeleteRow, ApplyRows, Done, RowsAfter
<1>2. RowsFit(b, op) /\ Alike(RowsAfter(a, op), RowsAfter(b, op))
  BY RowsAlike
<1>3. IsBook(RowsAfter(a, op)) /\ IsBook(RowsAfter(b, op))
  BY <1>2, RowsAfterIs
<1> QED
  BY <1>1, <1>2, <1>3 DEF BothAlike

\* Adding a sheet.
LEMMA AddingAlike ==
    ASSUME NEW a, IsBook(a), NEW b, IsBook(b), Alike(a, b), NEW op,
           op.op = "AddSheet", op.index \in 1..(Len(a) + 1), op.name \in Names
    PROVE  BothAlike(a, b, op)
<1> DEFINE n == op.index
           sh == NewSheet(op.name)
           A == InsertAt(a, n, sh)
           B == InsertAt(b, n, sh)
           l == Len(a)
<1>1. Apply(a, op).wb = A /\ Apply(b, op).wb = B
  BY DEF Apply, ApplyAddSheet, Done
<1>2. Len(b) = l /\ n \in 1..(Len(b) + 1) /\ sh \in Sheet /\ l \in Nat
  BY NewSheetIs, BookIs DEF Alike
<1> HIDE DEF sh
<1>3. /\ IsBook(A) /\ Len(A) = l + 1 /\ A[n] = sh
      /\ \A j \in 1..(n - 1) : A[j] = a[j]
      /\ \A j \in (n + 1)..(l + 1) : A[j] = a[j - 1]
  BY <1>2, InsertedBook
<1>4. /\ IsBook(B) /\ Len(B) = l + 1 /\ B[n] = sh
      /\ \A j \in 1..(n - 1) : B[j] = b[j]
      /\ \A j \in (n + 1)..(l + 1) : B[j] = b[j - 1]
  BY <1>2, InsertedBook
<1> HIDE DEF A, B
<1>5. ASSUME NEW j \in 1..(l + 1)
      PROVE  /\ A[j].name = B[j].name /\ A[j].charts = B[j].charts
             /\ \A r \in Row : Authored(A[j].cells[r]) = Authored(B[j].cells[r])
  <2>1. CASE j = n
    BY <1>3, <1>4, <2>1
  <2>2. CASE j < n
    <3>1. j \in 1..(n - 1) /\ j \in 1..l
      BY <1>2, <2>2
    <3>2. A[j] = a[j] /\ B[j] = b[j]
      BY <1>3, <1>4, <3>1
    <3> QED
      BY <3>1, <3>2 DEF Alike
  <2>3. CASE j > n
    <3>1. j \in (n + 1)..(l + 1) /\ j - 1 \in 1..l
      BY <1>2, <2>3
    <3>2. A[j] = a[j - 1] /\ B[j] = b[j - 1]
      BY <1>3, <1>4, <3>1
    <3> QED
      BY <3>1, <3>2 DEF Alike
  <2> QED
    BY <1>2, <2>1, <2>2, <2>3
<1>6. Alike(A, B)
  BY <1>3, <1>4, <1>5 DEF Alike
<1> QED
  BY <1>1, <1>3, <1>4, <1>6 DEF BothAlike

\* Removing one.
LEMMA RemovingAlike ==
    ASSUME NEW a, IsBook(a), NEW b, IsBook(b), Alike(a, b), NEW op,
           op.op = "RemoveSheet", op.index \in 1..Len(a)
    PROVE  BothAlike(a, b, op)
<1> DEFINE n == op.index
           A == RemoveAt(a, n)
           B == RemoveAt(b, n)
           l == Len(a)
<1>1. Apply(a, op).wb = A /\ Apply(b, op).wb = B
  BY DEF Apply, ApplyRemoveSheet, Done
<1>2. Len(b) = l /\ n \in 1..Len(b) /\ l \in Nat
  BY BookIs DEF Alike
<1>3. /\ IsBook(A) /\ Len(A) = l - 1
      /\ \A j \in 1..(n - 1) : A[j] = a[j]
      /\ \A j \in n..(l - 1) : A[j] = a[j + 1]
  BY <1>2, RemovedBook
<1>4. /\ IsBook(B) /\ Len(B) = l - 1
      /\ \A j \in 1..(n - 1) : B[j] = b[j]
      /\ \A j \in n..(l - 1) : B[j] = b[j + 1]
  BY <1>2, RemovedBook
<1> HIDE DEF A, B
<1>5. ASSUME NEW j \in 1..(l - 1)
      PROVE  /\ A[j].name = B[j].name /\ A[j].charts = B[j].charts
             /\ \A r \in Row : Authored(A[j].cells[r]) = Authored(B[j].cells[r])
  <2>2. CASE j < n
    <3>1. j \in 1..(n - 1) /\ j \in 1..l
      BY <1>2, <2>2
    <3>2. A[j] = a[j] /\ B[j] = b[j]
      BY <1>3, <1>4, <3>1
    <3> QED
      BY <3>1, <3>2 DEF Alike
  <2>3. CASE ~(j < n)
    <3>1. j \in n..(l - 1) /\ j + 1 \in 1..l
      BY <1>2, <2>3
    <3>2. A[j] = a[j + 1] /\ B[j] = b[j + 1]
      BY <1>3, <1>4, <3>1
    <3> QED
      BY <3>1, <3>2 DEF Alike
  <2> QED
    BY <2>2, <2>3
<1>6. Alike(A, B)
  BY <1>3, <1>4, <1>5 DEF Alike
<1> QED
  BY <1>1, <1>3, <1>4, <1>6 DEF BothAlike

\* An operation on charts.
LEMMA ChartingAlike ==
    ASSUME NEW a, IsBook(a), NEW b, IsBook(b), Alike(a, b), NEW op, Suits(a, op), Suits(b, op), ChartOp(op)
    PROVE  BothAlike(a, b, op)
<1> DEFINE s == op.sheet
           A == [a EXCEPT ![s].charts = ChartsAfter(a[s].charts, op)]
           B == [b EXCEPT ![s].charts = ChartsAfter(b[s].charts, op)]
<1>1. /\ s \in 1..Len(a) /\ ChartsAfter(a[s].charts, op) \in Seq(Chart)
      /\ Apply(a, op).wb = A
  BY ChartOpIs
<1>2. /\ s \in 1..Len(b) /\ ChartsAfter(b[s].charts, op) \in Seq(Chart)
      /\ Apply(b, op).wb = B
  BY ChartOpIs
<1>3. a[s].charts = b[s].charts /\ Len(b) = Len(a)
  BY <1>1 DEF Alike
<1> DEFINE cs == ChartsAfter(a[s].charts, op)
<1>4. ChartsAfter(b[s].charts, op) = cs /\ cs \in Seq(Chart)
  BY <1>1, <1>3
<1>5. A = [a EXCEPT ![s].charts = cs] /\ B = [b EXCEPT ![s].charts = cs]
  BY <1>4
<1>51. s \in 1..Len(a) /\ s \in 1..Len(b) /\ cs \in Seq(Chart)
  BY <1>1, <1>2, <1>4
<1>52. PICK t : t = s
  OBVIOUS
<1> DEFINE C == [a EXCEPT ![t].charts = cs]
           D == [b EXCEPT ![t].charts = cs]
<1>53. A = C /\ B = D
  BY <1>5, <1>52
<1> HIDE DEF A, B, cs
<1>54. /\ IsBook(C) /\ Len(C) = Len(a)
      /\ \A i \in 1..Len(a) :
                /\ C[i].name = a[i].name
                /\ C[i].charts = IF i = t THEN cs ELSE a[i].charts
                /\ \A q \in Row : C[i].cells[q] = a[i].cells[q]
  BY <1>51, <1>52, WithChartsIs
<1>55. /\ IsBook(D) /\ Len(D) = Len(b)
      /\ \A i \in 1..Len(b) :
                /\ D[i].name = b[i].name
                /\ D[i].charts = IF i = t THEN cs ELSE b[i].charts
                /\ \A q \in Row : D[i].cells[q] = b[i].cells[q]
  BY <1>51, <1>52, WithChartsIs
<1> HIDE DEF C, D, s
<1>6. /\ IsBook(A) /\ Len(A) = Len(a)
      /\ \A i \in 1..Len(a) :
                /\ A[i].name = a[i].name
                /\ A[i].charts = IF i = s THEN cs ELSE a[i].charts
                /\ \A q \in Row : A[i].cells[q] = a[i].cells[q]
  BY <1>52, <1>53, <1>54
<1>7. /\ IsBook(B) /\ Len(B) = Len(b)
      /\ \A i \in 1..Len(b) :
                /\ B[i].name = b[i].name
                /\ B[i].charts = IF i = s THEN cs ELSE b[i].charts
                /\ \A q \in Row : B[i].cells[q] = b[i].cells[q]
  BY <1>52, <1>53, <1>55
<1>8. ASSUME NEW i \in 1..Len(a)
      PROVE  /\ A[i].name = B[i].name /\ A[i].charts = B[i].charts
             /\ \A r \in Row : Authored(A[i].cells[r]) = Authored(B[i].cells[r])
  <2>1. /\ a[i].name = b[i].name /\ a[i].charts = b[i].charts
        /\ \A r \in Row : Authored(a[i].cells[r]) = Authored(b[i].cells[r])
    BY DEF Alike
  <2> QED
    BY <1>3, <1>6, <1>7, <2>1
<1>9. Alike(A, B)
  BY <1>3, <1>6, <1>7, <1>8 DEF Alike
<1> QED
  BY <1>1, <1>2, <1>6, <1>7, <1>9 DEF BothAlike, s

\* Two workbooks of as many sheets whose sheets agree.
LEMMA AlikeOf ==
    ASSUME NEW A, NEW B, NEW n \in Nat, Len(A) = n, Len(B) = n,
           \A i \in 1..n : A[i].name = B[i].name /\ A[i].charts = B[i].charts,
           \A i \in 1..n, r \in Row : Authored(A[i].cells[r]) = Authored(B[i].cells[r])
    PROVE  Alike(A, B)
  BY DEF Alike

\* Renaming a sheet.
LEMMA RenamingAlike ==
    ASSUME NEW a, IsBook(a), NEW b, IsBook(b), Alike(a, b), NEW op,
           op.op = "RenameSheet", op.sheet \in 1..Len(a), op.name \in Names
    PROVE  BothAlike(a, b, op)
<1>1. /\ SameNames(a, b)
      /\ \A i \in 1..Len(a), r \in Row :
                /\ CellAt(a, i, r) \in Cell /\ CellAt(b, i, r) \in Cell
                /\ CellAt(a, i, r).f = CellAt(b, i, r).f
                /\ IsReading(CellAt(a, i, r)) <=> IsReading(CellAt(b, i, r))
                /\ Authored(CellAt(a, i, r)) = Authored(CellAt(b, i, r))
  BY AlikeCells
<1>2. Len(b) = Len(a) /\ Len(a) \in Nat /\ op.sheet \in 1..Len(b) /\ a[op.sheet].name = b[op.sheet].name
  BY <1>1, BookIs DEF SameNames
<1>3. ASSUME NEW i \in 1..Len(a), NEW r \in Row
      PROVE  Authored(RenamedCell(a, op, i, r)) = Authored(RenamedCell(b, op, i, r))
  <2> DEFINE c == CellAt(a, i, r)
             d == CellAt(b, i, r)
  <2>1. /\ c \in Cell /\ d \in Cell /\ c.f = d.f /\ (IsReading(c) <=> IsReading(d)) /\ Authored(c) = Authored(d)
        /\ i \in 1..Len(b)
    BY <1>1, <1>2
  <2>2. <<i, r>> \in Naming(a, op) <=>
           IsReading(c) /\ c.f[1] = a[op.sheet].name /\ a[op.sheet].name # op.name
    BY NamingIs
  <2>3. <<i, r>> \in Naming(b, op) <=>
           IsReading(d) /\ d.f[1] = b[op.sheet].name /\ b[op.sheet].name # op.name
    BY <2>1, NamingIs
  <2> HIDE DEF c, d
  <2>4. <<i, r>> \in Naming(a, op) <=> <<i, r>> \in Naming(b, op)
    BY <1>2, <2>1, <2>2, <2>3
  <2>5. CASE <<i, r>> \in Naming(a, op)
    <3>1. IsReading(c) /\ IsReading(d)
      BY <2>1, <2>2, <2>5
    <3>2. Authored(Renamed(c, op)) = [v |-> Blank, f |-> Reads(op.name, c.f[2])]
      BY <2>1, <3>1, RenamedIs
    <3>3. Authored(Renamed(d, op)) = [v |-> Blank, f |-> Reads(op.name, d.f[2])]
      BY <2>1, <3>1, RenamedIs
    <3> QED
      BY <2>1, <2>4, <2>5, <3>2, <3>3 DEF RenamedCell, c, d
  <2>6. CASE <<i, r>> \notin Naming(a, op)
    BY <2>1, <2>4, <2>6 DEF RenamedCell, c, d
  <2> QED
    BY <2>5, <2>6
<1> DEFINE A == Apply(a, op).wb
           B == Apply(b, op).wb
<1>5. /\ IsBook(A) /\ Len(A) = Len(a)
      /\ \A i \in 1..Len(a) :
                /\ A[i].name = IF i = op.sheet THEN op.name ELSE a[i].name
                /\ A[i].charts = a[i].charts
                /\ \A r \in Row : A[i].cells[r] = RenamedCell(a, op, i, r)
  BY RenameIs
<1>6. /\ IsBook(B) /\ Len(B) = Len(b)
      /\ \A i \in 1..Len(b) :
                /\ B[i].name = IF i = op.sheet THEN op.name ELSE b[i].name
                /\ B[i].charts = b[i].charts
                /\ \A r \in Row : B[i].cells[r] = RenamedCell(b, op, i, r)
  BY <1>2, RenameIs
<1> HIDE DEF A, B
<1>7. ASSUME NEW i \in 1..Len(a) PROVE A[i].name = B[i].name /\ A[i].charts = B[i].charts
  <2>1. i \in 1..Len(b) /\ a[i].name = b[i].name /\ a[i].charts = b[i].charts
    BY <1>2 DEF Alike
  <2>2. A[i].name = IF i = op.sheet THEN op.name ELSE a[i].name
    BY <1>5
  <2>3. B[i].name = IF i = op.sheet THEN op.name ELSE b[i].name
    BY <1>6, <2>1
  <2>4. A[i].charts = a[i].charts
    BY <1>5
  <2>5. B[i].charts = b[i].charts
    BY <1>6, <2>1
  <2> QED
    BY <2>1, <2>2, <2>3, <2>4, <2>5
<1>8. ASSUME NEW i \in 1..Len(a), NEW r \in Row PROVE Authored(A[i].cells[r]) = Authored(B[i].cells[r])
  <2>1. i \in 1..Len(b)
    BY <1>2
  <2>2. A[i].cells[r] = RenamedCell(a, op, i, r)
    BY <1>5
  <2>3. B[i].cells[r] = RenamedCell(b, op, i, r)
    BY <1>6, <2>1
  <2> QED
    BY <1>3, <2>2, <2>3
<1>9. Alike(A, B)
  BY <1>2, <1>5, <1>6, <1>7, <1>8, AlikeOf
<1> QED
  BY <1>5, <1>6, <1>9 DEF BothAlike, A, B

\* Restoring a name.
LEMMA RestoringAlike ==
    ASSUME NEW a, IsBook(a), NEW b, IsBook(b), Alike(a, b), NEW op,
           op.op = "RestoreSheet", op.sheet \in 1..Len(a), op.name \in Names,
           FormulasFit(op.formulas, Len(a))
    PROVE  BothAlike(a, b, op)
<1>1. Len(b) = Len(a) /\ Len(a) \in Nat /\ op.sheet \in 1..Len(b) /\ FormulasFit(op.formulas, Len(b))
  BY BookIs DEF Alike
<1>3. ASSUME NEW i \in 1..Len(a), NEW r \in Row
      PROVE  Authored(RestoredCell(a, op, i, r)) = Authored(RestoredCell(b, op, i, r))
  <2>1. Authored(CellAt(a, i, r)) = Authored(CellAt(b, i, r))
    BY DEF Alike, CellAt
  <2> QED
    BY <2>1 DEF RestoredCell
<1> DEFINE A == Apply(a, op).wb
           B == Apply(b, op).wb
<1>5. /\ IsBook(A) /\ Len(A) = Len(a)
      /\ \A i \in 1..Len(a) :
                /\ A[i].name = IF i = op.sheet THEN op.name ELSE a[i].name
                /\ A[i].charts = a[i].charts
                /\ \A r \in Row : A[i].cells[r] = RestoredCell(a, op, i, r)
  BY RestoreIs
<1>6. /\ IsBook(B) /\ Len(B) = Len(b)
      /\ \A i \in 1..Len(b) :
                /\ B[i].name = IF i = op.sheet THEN op.name ELSE b[i].name
                /\ B[i].charts = b[i].charts
                /\ \A r \in Row : B[i].cells[r] = RestoredCell(b, op, i, r)
  BY <1>1, RestoreIs
<1> HIDE DEF A, B
<1>7. ASSUME NEW i \in 1..Len(a) PROVE A[i].name = B[i].name /\ A[i].charts = B[i].charts
  <2>1. i \in 1..Len(b) /\ a[i].name = b[i].name /\ a[i].charts = b[i].charts
    BY <1>1 DEF Alike
  <2>2. A[i].name = IF i = op.sheet THEN op.name ELSE a[i].name
    BY <1>5
  <2>3. B[i].name = IF i = op.sheet THEN op.name ELSE b[i].name
    BY <1>6, <2>1
  <2>4. A[i].charts = a[i].charts
    BY <1>5
  <2>5. B[i].charts = b[i].charts
    BY <1>6, <2>1
  <2> QED
    BY <2>1, <2>2, <2>3, <2>4, <2>5
<1>8. ASSUME NEW i \in 1..Len(a), NEW r \in Row PROVE Authored(A[i].cells[r]) = Authored(B[i].cells[r])
  <2>1. i \in 1..Len(b)
    BY <1>1
  <2>2. A[i].cells[r] = RestoredCell(a, op, i, r)
    BY <1>5
  <2>3. B[i].cells[r] = RestoredCell(b, op, i, r)
    BY <1>6, <2>1
  <2> QED
    BY <1>3, <2>2, <2>3
<1>9. Alike(A, B)
  BY <1>1, <1>5, <1>6, <1>7, <1>8, AlikeOf
<1> QED
  BY <1>5, <1>6, <1>9 DEF BothAlike, A, B

\* What suits a workbook suits every one that differs in values only.
LEMMA SuitsAlike ==
    ASSUME NEW a, IsBook(a), NEW b, IsBook(b), Alike(a, b), NEW op, Suits(a, op)
    PROVE  Suits(b, op)
<1>1. Len(b) = Len(a) /\ \A i \in 1..Len(a) : b[i].charts = a[i].charts
  BY DEF Alike
<1>2. CASE ~ChartOp(op) /\ op.op # "RemoveSheet"
  BY <1>1, <1>2 DEF Suits, ChartOp
<1>3. CASE op.op = "RemoveSheet"
  <2>1. op.index \in 1..Len(a) /\ a[op.index].charts = <<>>
    BY <1>3 DEF Suits
  <2> QED
    BY <1>1, <1>3, <2>1 DEF Suits
<1>4. CASE ChartOp(op)
  <2>1. op.sheet \in 1..Len(a) /\ op.sheet \in 1..Len(b) /\ b[op.sheet].charts = a[op.sheet].charts
    BY <1>1, <1>4 DEF Suits, ChartOp
  <2>2. CASE op.op = "AddChart"
    BY <2>1, <2>2 DEF Suits
  <2>3. CASE op.op = "RemoveChart"
    BY <2>1, <2>3 DEF Suits
  <2>4. CASE op.op = "SetAnchor"
    BY <2>1, <2>4 DEF Suits
  <2> QED
    BY <1>4, <2>2, <2>3, <2>4 DEF ChartOp
<1> QED
  BY <1>2, <1>3, <1>4

\* An operation leaves workbooks that differ in values only such workbooks.
LEMMA EveryAlike ==
    ASSUME NEW a, IsBook(a), NEW b, IsBook(b), Alike(a, b), NEW op, Suits(a, op)
    PROVE  Suits(b, op) /\ BothAlike(a, b, op)
<1>1. Suits(b, op)
  BY SuitsAlike
<1>2. CASE op.op = "SetCell"
  <2>1. op.sheet \in 1..Len(a) /\ op.at \in Row /\ op.cell \in Cell
    BY <1>2 DEF Suits
  <2> QED
    BY <1>1, <1>2, <2>1, SettingAlike
<1>3. CASE op.op \in {"InsertRow", "DeleteRow"}
  <2>1. RowsFit(a, op)
    BY <1>3 DEF Suits, RowsFit
  <2> QED
    BY <1>1, <2>1, MovingAlike
<1>4. CASE op.op = "AddSheet"
  BY <1>1, <1>4, AddingAlike DEF Suits
<1>5. CASE op.op = "RemoveSheet"
  BY <1>1, <1>5, RemovingAlike DEF Suits
<1>6. CASE op.op = "RenameSheet"
  BY <1>1, <1>6, RenamingAlike DEF Suits
<1>7. CASE op.op = "RestoreSheet"
  BY <1>1, <1>7, RestoringAlike DEF Suits
<1>8. CASE ChartOp(op)
  BY <1>1, <1>8, ChartingAlike
<1> QED
  BY <1>1, <1>2, <1>3, <1>4, <1>5, <1>6, <1>7, <1>8 DEF Suits, ChartOp

\* What suits a workbook suits one that is alike.
LEMMA SuitedStays ==
    ASSUME NEW wb, IsBook(wb), NEW op, Suits(wb, op)
    PROVE  IsBook(Apply(wb, op).wb)
<1>1. Alike(wb, wb)
  BY DEF Alike
<1> QED
  BY <1>1, EveryAlike DEF BothAlike

\* A step leads to one place, from any workbook alike.
LEMMA OneStep ==
    ASSUME NEW p, NEW op, NEW q, Steps(p, op, q), NEW wb, IsBook(wb), Plain(wb) = p
    PROVE  Suits(wb, op) /\ IsBook(Apply(wb, op).wb) /\ Plain(Apply(wb, op).wb) = q
<1>1. PICK a : IsBook(a) /\ p = Plain(a) /\ Suits(a, op) /\ q = Plain(Apply(a, op).wb)
  BY DEF Steps
<1>2. Alike(a, wb)
  BY <1>1, AlikeIs
<1>3. Suits(wb, op) /\ BothAlike(a, wb, op)
  BY <1>1, <1>2, EveryAlike
<1>4. IsBook(Apply(a, op).wb) /\ IsBook(Apply(wb, op).wb) /\ Alike(Apply(a, op).wb, Apply(wb, op).wb)
  BY <1>3 DEF BothAlike
<1>5. Plain(Apply(a, op).wb) = Plain(Apply(wb, op).wb)
  BY <1>4, AlikeIs
<1> QED
  BY <1>1, <1>3, <1>4, <1>5

\* Workbooks with the same names, charts and cells are the same.
LEMMA SameBook ==
    ASSUME NEW a, IsBook(a), NEW b, IsBook(b), Len(a) = Len(b),
           \A i \in 1..Len(a) : a[i].name = b[i].name /\ a[i].charts = b[i].charts,
           \A i \in 1..Len(a), r \in Row : a[i].cells[r] = b[i].cells[r]
    PROVE  a = b
<1>1. ASSUME NEW i \in 1..Len(a) PROVE a[i] = b[i]
  <2>1. a[i] \in Sheet /\ b[i] \in Sheet
    BY BookIs
  <2> QED
    BY <2>1, SheetIs
<1> QED
  BY <1>1, SameHistory, BookIs

\* Between q and t: the cells that the first m settings of x name are those of
\* t, the others those of q.
Set(x, m, i, r) == \E n \in 1..m : x[n].sheet = i /\ x[n].at = r
Mixed(q, t, x, m) ==
  [i \in 1..Len(t) |->
    [name   |-> t[i].name,
     cells  |-> [r \in Row |-> IF Set(x, m, i, r) THEN Authored(t[i].cells[r])
                               ELSE Authored(q[i].cells[r])],
     charts |-> t[i].charts]]

\* Such a workbook is one.
LEMMA MixedIs ==
    ASSUME NEW q, IsBook(q), NEW t, IsBook(t), Len(q) = Len(t), NEW x, NEW m
    PROVE  /\ IsBook(Mixed(q, t, x, m)) /\ Len(Mixed(q, t, x, m)) = Len(t)
           /\ Plain(Mixed(q, t, x, m)) = Mixed(q, t, x, m)
           /\ \A i \in 1..Len(t) :
                Mixed(q, t, x, m)[i].name = t[i].name /\ Mixed(q, t, x, m)[i].charts = t[i].charts
           /\ \A i \in 1..Len(t), r \in Row :
                /\ Set(x, m, i, r) => Mixed(q, t, x, m)[i].cells[r] = Authored(t[i].cells[r])
                /\ ~Set(x, m, i, r) => Mixed(q, t, x, m)[i].cells[r] = Authored(q[i].cells[r])
<1> DEFINE M == Mixed(q, t, x, m)
           cell(i, r) == IF Set(x, m, i, r) THEN Authored(t[i].cells[r]) ELSE Authored(q[i].cells[r])
<1>1. /\ Len(t) \in Nat
      /\ \A i \in 1..Len(t) : t[i].name \in Names /\ t[i].charts \in Seq(Chart)
      /\ \A i \in 1..Len(t), r \in Row : t[i].cells[r] \in Cell /\ q[i].cells[r] \in Cell
  BY BookIs
<1>2. ASSUME NEW i \in 1..Len(t), NEW r \in Row
      PROVE  cell(i, r) \in Cell /\ Authored(cell(i, r)) = cell(i, r)
  <2>1. t[i].cells[r] \in Cell /\ q[i].cells[r] \in Cell
    BY <1>1
  <2>2. Authored(t[i].cells[r]) \in Cell /\ Authored(Authored(t[i].cells[r])) = Authored(t[i].cells[r])
    BY <2>1, AuthoredIs
  <2>3. Authored(q[i].cells[r]) \in Cell /\ Authored(Authored(q[i].cells[r])) = Authored(q[i].cells[r])
    BY <2>1, AuthoredIs
  <2> QED
    BY <2>2, <2>3
<1>3. M = [i \in 1..Len(t) |-> [name |-> t[i].name, cells |-> [r \in Row |-> cell(i, r)], charts |-> t[i].charts]]
  BY DEF Mixed
<1>4. \A i \in 1..Len(t), r \in Row :
                /\ Set(x, m, i, r) => cell(i, r) = Authored(t[i].cells[r])
                /\ ~Set(x, m, i, r) => cell(i, r) = Authored(q[i].cells[r])
  OBVIOUS
<1> HIDE DEF M, cell
<1>5. ASSUME NEW i \in 1..Len(t)
      PROVE  /\ M[i] \in Sheet /\ M[i].name = t[i].name /\ M[i].charts = t[i].charts
             /\ \A r \in Row : M[i].cells[r] = cell(i, r)
  <2> DEFINE row == [r \in Row |-> cell(i, r)]
  <2>1. row \in [Row -> Cell] /\ \A r \in Row : row[r] = cell(i, r)
    BY <1>2
  <2>2. M[i] = [name |-> t[i].name, cells |-> row, charts |-> t[i].charts]
    BY <1>3
  <2> HIDE DEF row
  <2>3. M[i] \in Sheet
    BY <1>1, <2>1, <2>2 DEF Sheet
  <2> QED
    BY <2>1, <2>2, <2>3
<1>6. M = [i \in 1..Len(t) |-> M[i]]
  BY <1>3
<1>7. IsBook(M) /\ Len(M) = Len(t)
  BY <1>1, <1>5, <1>6, BookOf
<1>8. /\ IsBook(Plain(M)) /\ Len(Plain(M)) = Len(M)
      /\ \A i \in 1..Len(M) :
           /\ Plain(M)[i].name = M[i].name /\ Plain(M)[i].charts = M[i].charts
           /\ \A r \in Row : Plain(M)[i].cells[r] = Authored(M[i].cells[r])
  BY <1>7, PlainIs
<1>9. ASSUME NEW i \in 1..Len(M), NEW r \in Row PROVE Plain(M)[i].cells[r] = M[i].cells[r]
  <2>1. i \in 1..Len(t)
    BY <1>7
  <2>2. M[i].cells[r] = cell(i, r) /\ Authored(cell(i, r)) = cell(i, r)
    BY <1>2, <1>5, <2>1
  <2>3. Plain(M)[i].cells[r] = Authored(M[i].cells[r])
    BY <1>8
  <2> QED
    BY <2>2, <2>3
<1>10. Plain(M) = M
  BY <1>7, <1>8, <1>9, SameBook
<1> QED
  BY <1>4, <1>5, <1>7, <1>10 DEF M

\* The settings of x put the cells of t where they stand in t.
Towards(x, t) ==
  /\ IsHistory(x)
  /\ \A n \in 1..Len(x) : \E i \in 1..Len(t), r \in Row, c \in Cell :
       x[n] = SetCell(i, r, c) /\ Authored(c) = Authored(t[i].cells[r])

\* One cell set leads from one such workbook to the next.
LEMMA OneSetting ==
    ASSUME NEW q, IsBook(q), NEW t, IsBook(t), Len(q) = Len(t), NEW x, Towards(x, t),
           NEW n \in 1..Len(x)
    PROVE  Steps(Mixed(q, t, x, n - 1), x[n], Mixed(q, t, x, n))
<1>1. PICK s \in 1..Len(t), p \in Row, c \in Cell :
         x[n] = SetCell(s, p, c) /\ Authored(c) = Authored(t[s].cells[p])
  BY DEF Towards
<1> DEFINE op == x[n]
           a == Mixed(q, t, x, n - 1)
           b == Mixed(q, t, x, n)
           W == Apply(a, op).wb
<1>2. /\ op.op = "SetCell" /\ op.sheet = s /\ op.at = p /\ op.cell = c
  BY <1>1 DEF SetCell
<1>3. /\ IsBook(a) /\ Len(a) = Len(t) /\ Plain(a) = a
      /\ \A i \in 1..Len(t) : a[i].name = t[i].name /\ a[i].charts = t[i].charts
      /\ \A i \in 1..Len(t), r \in Row :
           /\ Set(x, n - 1, i, r) => a[i].cells[r] = Authored(t[i].cells[r])
           /\ ~Set(x, n - 1, i, r) => a[i].cells[r] = Authored(q[i].cells[r])
  BY MixedIs
<1>4. /\ IsBook(b) /\ Len(b) = Len(t) /\ Plain(b) = b
      /\ \A i \in 1..Len(t) : b[i].name = t[i].name /\ b[i].charts = t[i].charts
      /\ \A i \in 1..Len(t), r \in Row :
           /\ Set(x, n, i, r) => b[i].cells[r] = Authored(t[i].cells[r])
           /\ ~Set(x, n, i, r) => b[i].cells[r] = Authored(q[i].cells[r])
  BY MixedIs
<1> HIDE DEF a, b
<1>5. s \in 1..Len(a)
  BY <1>3
<1>6. /\ IsBook(W) /\ Len(W) = Len(a)
      /\ \A i \in 1..Len(a) : W[i].name = a[i].name /\ W[i].charts = a[i].charts
      /\ \A i \in 1..Len(a), r \in Row :
           W[i].cells[r] = IF i = s /\ r = p THEN c ELSE a[i].cells[r]
  <2> HIDE DEF op
  <2>1. op.op = "SetCell" /\ s = op.sheet /\ p = op.at /\ c = op.cell
    BY <1>2
  <2> HIDE DEF W
  <2>2. IsBook(W) /\ Len(W) = Len(a)
    BY <1>3, <1>5, <2>1, SetCellIs DEF W
  <2>3. \A i \in 1..Len(a) : W[i].name = a[i].name /\ W[i].charts = a[i].charts
    BY <1>3, <1>5, <2>1, SetCellIs DEF W
  <2>4. ASSUME NEW i \in 1..Len(a), NEW r \in Row
        PROVE  W[i].cells[r] = IF i = s /\ r = p THEN c ELSE a[i].cells[r]
    BY <1>3, <1>5, <2>1, SetCellIs DEF W
  <2> QED
    BY <2>2, <2>3, <2>4
<1>7. Suits(a, op)
  BY <1>2, <1>5 DEF Suits
<1> HIDE DEF W
<1>8. ASSUME NEW i \in 1..Len(t), NEW r \in Row PROVE Authored(W[i].cells[r]) = Authored(b[i].cells[r])
  <2>1. t[i].cells[r] \in Cell
    BY BookIs
  <2>2. Authored(Authored(t[i].cells[r])) = Authored(t[i].cells[r])
    BY <2>1, AuthoredIs
  <2>3. i \in 1..Len(a)
    BY <1>3
  <2>4. CASE i = s /\ r = p
    <3>1. W[i].cells[r] = c
      BY <1>6, <2>3, <2>4
    <3>2. Set(x, n, i, r)
      BY <1>2, <2>4 DEF Set
    <3>3. b[i].cells[r] = Authored(t[i].cells[r])
      BY <1>4, <3>2
    <3> QED
      BY <1>1, <2>2, <2>4, <3>1, <3>3
  <2>5. CASE ~(i = s /\ r = p)
    <3>1. W[i].cells[r] = a[i].cells[r]
      BY <1>6, <2>3, <2>5
    <3>2. Set(x, n, i, r) <=> Set(x, n - 1, i, r)
      <4>1. ASSUME NEW k \in 1..n, x[k].sheet = i /\ x[k].at = r PROVE k \in 1..(n - 1)
        <5>1. k # n
          BY <1>2, <2>5, <4>1
        <5> QED
          BY <5>1
      <4>2. \A k \in 1..(n - 1) : k \in 1..n
        OBVIOUS
      <4> QED
        BY <4>1, <4>2 DEF Set
    <3>3. a[i].cells[r] = b[i].cells[r]
      BY <1>3, <1>4, <3>2
    <3> QED
      BY <3>1, <3>3
  <2> QED
    BY <2>4, <2>5
<1>9. Alike(W, b)
  <2>1. Len(t) \in Nat /\ Len(W) = Len(t) /\ Len(b) = Len(t)
    BY <1>3, <1>4, <1>6, BookIs
  <2>2. \A i \in 1..Len(t) : W[i].name = b[i].name /\ W[i].charts = b[i].charts
    BY <1>3, <1>4, <1>6
  <2> QED
    BY <1>8, <2>1, <2>2, AlikeOf
<1>10. Plain(W) = b
  BY <1>4, <1>6, <1>9, AlikeIs
<1>11. Steps(a, op, b)
  BY <1>3, <1>7, <1>10 DEF Steps, W
<1> QED
  BY <1>11 DEF a, b

\* Settings towards t lead to it, when they set every cell that differs.
LEMMA SettingsWalk ==
    ASSUME NEW q, IsBook(q), NEW t, IsBook(t), Len(q) = Len(t), NEW x, Towards(x, t),
           \A i \in 1..Len(t) : q[i].name = t[i].name /\ q[i].charts = t[i].charts,
           \A i \in 1..Len(t), r \in Row :
             Authored(q[i].cells[r]) = Authored(t[i].cells[r]) \/ Set(x, Len(x), i, r)
    PROVE  Walks(Plain(q), x, Plain(t))
<1>1. IsHistory(x) /\ Len(x) \in Nat
  BY HistoryIsFunction DEF Towards
<1> DEFINE w == [m \in 0..Len(x) |-> Mixed(q, t, x, m)]
           a == Mixed(q, t, x, 0)
           b == Mixed(q, t, x, Len(x))
<1>2. w[0] = a /\ w[Len(x)] = b
  BY <1>1
<1>3. ASSUME NEW n \in 1..Len(x) PROVE Steps(w[n - 1], x[n], w[n])
  <2>1. n \in 0..Len(x) /\ n - 1 \in 0..Len(x)
    BY <1>1
  <2>2. w[n] = Mixed(q, t, x, n) /\ w[n - 1] = Mixed(q, t, x, n - 1)
    BY <2>1
  <2> QED
    BY <2>2, OneSetting
<1>4. /\ IsBook(a) /\ Len(a) = Len(t) /\ Plain(a) = a
      /\ \A i \in 1..Len(t) : a[i].name = t[i].name /\ a[i].charts = t[i].charts
      /\ \A i \in 1..Len(t), r \in Row :
           ~Set(x, 0, i, r) => a[i].cells[r] = Authored(q[i].cells[r])
  BY MixedIs
<1>5. /\ IsBook(b) /\ Len(b) = Len(t) /\ Plain(b) = b
      /\ \A i \in 1..Len(t) : b[i].name = t[i].name /\ b[i].charts = t[i].charts
      /\ \A i \in 1..Len(t), r \in Row :
           /\ Set(x, Len(x), i, r) => b[i].cells[r] = Authored(t[i].cells[r])
           /\ ~Set(x, Len(x), i, r) => b[i].cells[r] = Authored(q[i].cells[r])
  BY MixedIs
<1> HIDE DEF a, b, w
<1>6. Len(t) \in Nat
  BY BookIs
<1>7. Alike(a, q)
  <2>1. ASSUME NEW i \in 1..Len(t), NEW r \in Row PROVE Authored(a[i].cells[r]) = Authored(q[i].cells[r])
    <3>1. ~Set(x, 0, i, r)
      BY DEF Set
    <3>2. q[i].cells[r] \in Cell
      BY BookIs
    <3> QED
      BY <1>4, <3>1, <3>2, AuthoredIs
  <2>2. \A i \in 1..Len(t) : a[i].name = q[i].name /\ a[i].charts = q[i].charts
    BY <1>4
  <2> QED
    BY <1>4, <1>6, <2>1, <2>2, AlikeOf
<1>8. Alike(b, t)
  <2>1. ASSUME NEW i \in 1..Len(t), NEW r \in Row PROVE Authored(b[i].cells[r]) = Authored(t[i].cells[r])
    <3>1. q[i].cells[r] \in Cell /\ t[i].cells[r] \in Cell
      BY BookIs
    <3>2. Authored(Authored(q[i].cells[r])) = Authored(q[i].cells[r])
      BY <3>1, AuthoredIs
    <3>3. Authored(Authored(t[i].cells[r])) = Authored(t[i].cells[r])
      BY <3>1, AuthoredIs
    <3>4. Authored(q[i].cells[r]) = Authored(t[i].cells[r]) \/ Set(x, Len(x), i, r)
      OBVIOUS
    <3>5. b[i].cells[r] = Authored(t[i].cells[r])
      BY <1>5, <3>4
    <3> QED
      BY <3>3, <3>5
  <2> QED
    BY <1>5, <1>6, <2>1, AlikeOf
<1>9. a = Plain(q) /\ b = Plain(t)
  BY <1>4, <1>5, <1>7, <1>8, AlikeIs
<1> QED
  BY <1>1, <1>2, <1>3, <1>9 DEF Walks

\* Taking out what was put in, and putting back what was taken out.
LEMMA RemoveInserted ==
    ASSUME NEW s, IsHistory(s), NEW i \in 1..(Len(s) + 1), NEW e
    PROVE  RemoveAt(InsertAt(s, i, e), i) = s
<1> DEFINE l == Len(s)
           t == InsertAt(s, i, e)
           u == RemoveAt(t, i)
<1>1. l \in Nat
  BY HistoryIsFunction
<1>2. /\ IsHistory(t) /\ Len(t) = l + 1
      /\ \A j \in 1..(i - 1) : t[j] = s[j]
      /\ \A j \in (i + 1)..(l + 1) : t[j] = s[j - 1]
  BY InsertedHistory
<1> HIDE DEF t
<1>3. i \in 1..Len(t)
  BY <1>1, <1>2
<1>4. /\ IsHistory(u) /\ Len(u) = Len(t) - 1
      /\ \A j \in 1..(i - 1) : u[j] = t[j]
      /\ \A j \in i..(Len(t) - 1) : u[j] = t[j + 1]
  BY <1>2, <1>3, RemovedHistory
<1> HIDE DEF u
<1>5. Len(u) = l
  BY <1>1, <1>2, <1>4
<1>6. ASSUME NEW j \in 1..l PROVE u[j] = s[j]
  <2>1. CASE j < i
    <3>1. j \in 1..(i - 1)
      BY <2>1
    <3> QED
      BY <1>2, <1>4, <3>1
  <2>2. CASE ~(j < i)
    <3>1. j \in i..(Len(t) - 1) /\ j + 1 \in (i + 1)..(l + 1) /\ (j + 1) - 1 = j
      BY <1>1, <1>2, <2>2
    <3> QED
      BY <1>2, <1>4, <3>1
  <2> QED
    BY <2>1, <2>2
<1>7. u = s
  BY <1>4, <1>5, <1>6, SameHistory
<1> QED
  BY <1>7 DEF u, t

\* A sheet taken out and a new one put in its place.
LEMMA InsertRemoved ==
    ASSUME NEW s, IsHistory(s), NEW i \in 1..Len(s)
    PROVE  InsertAt(RemoveAt(s, i), i, s[i]) = s
<1> DEFINE l == Len(s)
           t == RemoveAt(s, i)
           u == InsertAt(t, i, s[i])
<1>1. l \in Nat
  BY HistoryIsFunction
<1>2. /\ IsHistory(t) /\ Len(t) = l - 1
      /\ \A j \in 1..(i - 1) : t[j] = s[j]
      /\ \A j \in i..(l - 1) : t[j] = s[j + 1]
  BY RemovedHistory
<1> HIDE DEF t
<1>3. i \in 1..(Len(t) + 1)
  BY <1>1, <1>2
<1>4. /\ IsHistory(u) /\ Len(u) = Len(t) + 1 /\ u[i] = s[i]
      /\ \A j \in 1..(i - 1) : u[j] = t[j]
      /\ \A j \in (i + 1)..(Len(t) + 1) : u[j] = t[j - 1]
  BY <1>2, <1>3, InsertedHistory
<1> HIDE DEF u
<1>5. Len(u) = l
  BY <1>1, <1>2, <1>4
<1>6. ASSUME NEW j \in 1..l PROVE u[j] = s[j]
  <2>1. CASE j < i
    <3>1. j \in 1..(i - 1)
      BY <2>1
    <3> QED
      BY <1>2, <1>4, <3>1
  <2>2. CASE j > i
    <3>1. j \in (i + 1)..(Len(t) + 1) /\ j - 1 \in i..(l - 1) /\ (j - 1) + 1 = j
      BY <1>1, <1>2, <2>2
    <3>2. u[j] = t[j - 1]
      BY <1>4, <3>1
    <3> QED
      BY <1>2, <3>1, <3>2
  <2>3. CASE j = i
    BY <1>4, <2>3
  <2> QED
    BY <2>1, <2>2, <2>3
<1>7. u = s
  BY <1>4, <1>5, <1>6, SameHistory
<1> QED
  BY <1>7 DEF u, t

\* What an operation has to give back.
TakenBack(wb, op) == Walks(Plain(Apply(wb, op).wb), Apply(wb, op).inverse, Plain(wb))

\* Restores of a workbook are settings towards every workbook that has the
\* same cells at the places.
LEMMA RestoresTowards ==
    ASSUME NEW wb, IsBook(wb), NEW places, NEW t, IsBook(t), Len(t) = Len(wb),
           \A i \in 1..Len(wb), r \in Row : <<i, r>> \in places =>
             Authored(wb[i].cells[r]) = Authored(t[i].cells[r])
    PROVE  /\ Towards(Restores(wb, places), t)
           /\ \A i \in 1..Len(wb), r \in Row : <<i, r>> \in places =>
                Set(Restores(wb, places), Len(Restores(wb, places)), i, r)
<1> DEFINE x == Restores(wb, places)
<1>1. IsHistory(wb)
  BY BookIs
<1>2. /\ IsHistory(x)
      /\ \A n \in 1..Len(x) : \E i \in 1..Len(wb), r \in Row :
           <<i, r>> \in places /\ x[n] = SetCell(i, r, CellAt(wb, i, r))
      /\ \A i \in 1..Len(wb), r \in Row : <<i, r>> \in places =>
           \E n \in 1..Len(x) : x[n] = SetCell(i, r, CellAt(wb, i, r))
  BY <1>1, RestoresIs
<1> HIDE DEF x
<1>3. ASSUME NEW n \in 1..Len(x)
      PROVE  \E i \in 1..Len(t), r \in Row, c \in Cell :
               x[n] = SetCell(i, r, c) /\ Authored(c) = Authored(t[i].cells[r])
  <2>1. PICK i \in 1..Len(wb), r \in Row : <<i, r>> \in places /\ x[n] = SetCell(i, r, CellAt(wb, i, r))
    BY <1>2
  <2>2. CellAt(wb, i, r) \in Cell /\ Authored(CellAt(wb, i, r)) = Authored(t[i].cells[r])
    BY <2>1, BookIs DEF CellAt
  <2> QED
    BY <2>1, <2>2
<1>4. ASSUME NEW i \in 1..Len(wb), NEW r \in Row, <<i, r>> \in places PROVE Set(x, Len(x), i, r)
  <2>1. PICK n \in 1..Len(x) : x[n] = SetCell(i, r, CellAt(wb, i, r))
    BY <1>2, <1>4
  <2>2. x[n].sheet = i /\ x[n].at = r
    BY <2>1 DEF SetCell
  <2> QED
    BY <2>2 DEF Set
<1>5. Towards(x, t)
  BY <1>2, <1>3 DEF Towards
<1> QED
  BY <1>4, <1>5 DEF x

\* Setting a cell is taken back by setting it to what it held.
LEMMA SettingTakenBack ==
    ASSUME NEW wb, IsBook(wb), NEW op,
           op.op = "SetCell", op.sheet \in 1..Len(wb), op.at \in Row, op.cell \in Cell
    PROVE  TakenBack(wb, op)
<1>0. PICK s, p, c : s = op.sheet /\ p = op.at /\ c = op.cell
  OBVIOUS
<1>1. s \in 1..Len(wb) /\ p \in Row /\ c \in Cell
  BY <1>0
<1> DEFINE W == Apply(wb, op).wb
           d == CellAt(wb, s, p)
           back == SetCell(s, p, d)
           x == <<back>>
<1>2. /\ IsBook(W) /\ Len(W) = Len(wb)
      /\ \A i \in 1..Len(wb) : W[i].name = wb[i].name /\ W[i].charts = wb[i].charts
  BY <1>0, <1>1, SetCellIs
<1>3. ASSUME NEW i \in 1..Len(wb), NEW q \in Row
      PROVE  W[i].cells[q] = IF i = s /\ q = p THEN c ELSE wb[i].cells[q]
  BY <1>0, <1>1, SetCellIs
<1>4. Apply(wb, op).inverse = x
  BY <1>0, <1>1, SetCellIs
<1>5. d \in Cell /\ d = wb[s].cells[p]
  BY <1>1, BookIs DEF CellAt
<1>6. back.sheet = s /\ back.at = p
  BY DEF SetCell
<1> HIDE DEF W, d
<1>7. IsHistory(x) /\ Len(x) = 1 /\ x[1] = back
  BY OneIsHistory
<1>8. Towards(x, wb)
  <2>1. ASSUME NEW n \in 1..Len(x)
        PROVE  \E i \in 1..Len(wb), r \in Row, e \in Cell :
                 x[n] = SetCell(i, r, e) /\ Authored(e) = Authored(wb[i].cells[r])
    <3>1. n = 1
      BY <1>7
    <3>2. x[n] = SetCell(s, p, d) /\ Authored(d) = Authored(wb[s].cells[p])
      BY <1>5, <1>7, <3>1
    <3> QED
      BY <1>1, <1>5, <3>2
  <2> QED
    BY <1>7, <2>1 DEF Towards
<1>9. Set(x, Len(x), s, p)
  BY <1>6, <1>7 DEF Set
<1> HIDE DEF x
<1>10. ASSUME NEW i \in 1..Len(wb), NEW r \in Row
       PROVE  Authored(W[i].cells[r]) = Authored(wb[i].cells[r]) \/ Set(x, Len(x), i, r)
  <2>1. CASE i = s /\ r = p
    BY <1>9, <2>1
  <2>2. CASE ~(i = s /\ r = p)
    BY <1>3, <2>2
  <2> QED
    BY <2>1, <2>2
<1>11. Walks(Plain(W), x, Plain(wb))
  BY <1>2, <1>8, <1>10, SettingsWalk
<1> QED
  BY <1>4, <1>11 DEF TakenBack, W

\* Rows moved are taken back by the opposite operation and the cells it cannot bring back.
LEMMA MovingTakenBack ==
    ASSUME NEW wb, IsBook(wb), NEW op, RowsFit(wb, op), NEW op2, Opposite(op, op2),
           RowsFit(wb, op2), Apply(wb, op) = ApplyRows(wb, op, op2)
    PROVE  TakenBack(wb, op)
<1> DEFINE R == RemapFormulas(wb, op)
           fallen == {<<op.sheet, r>> : r \in {q \in Occupied(wb, op.sheet) : RemapRow(q, op) = 0}}
           x == Restores(R, fallen)
           y == Restores(wb, Rewritten(wb, op))
           a == RowsAfter(wb, op)
           b == RowsAfter(a, op2)
           new == [at \in CellsOf(b) |-> IF at \in fallen THEN CellAt(R, at[1], at[2]) ELSE CellAt(b, at[1], at[2])]
           m == MapCells(b, new)
<1>1. Apply(wb, op).wb = a /\ Apply(wb, op).inverse = (<<op2>> \o x) \o y
  BY DEF ApplyRows, Done, RowsAfter
<1>2. /\ IsBook(R) /\ Len(R) = Len(wb)
      /\ \A i \in 1..Len(wb) :
                /\ R[i].name = wb[i].name
                /\ R[i].charts = wb[i].charts
                /\ \A r \in Row : R[i].cells[r] = RemappedCell(wb, op, i, r)
  BY RemapFormulasIs
<1>3. IsBook(a) /\ Len(a) = Len(wb) /\ \A i \in 1..Len(wb) : a[i].name = wb[i].name /\ a[i].charts = wb[i].charts
  BY RowsAfterIs
<1>4. ASSUME NEW i \in 1..Len(wb), NEW r \in Row
      PROVE  \/ <<i, r>> \in Rewritten(wb, op) \/ <<i, r>> \in fallen
             \/ b[i].cells[r] = wb[i].cells[r]
  <2> SUFFICES ASSUME <<i, r>> \notin Rewritten(wb, op), <<i, r>> \notin fallen
               PROVE  b[i].cells[r] = wb[i].cells[r]
    OBVIOUS
  <2>1. ~(i = op.sheet /\ RemapRow(r, op) = 0 /\ CellAt(wb, i, r) # EmptyCell)
    BY DEF Occupied
  <2> QED
    BY <2>1, CellsBack
<1> HIDE DEF a, R, fallen
<1>5. RowsFit(a, op2)
  BY <1>3 DEF RowsFit
<1>6. IsBook(b) /\ Len(b) = Len(a) /\ \A i \in 1..Len(a) : b[i].name = a[i].name /\ b[i].charts = a[i].charts
  BY <1>3, <1>5, RowsAfterIs
<1>7. Steps(Plain(a), op2, Plain(b))
  <2>1. Apply(a, op2).wb = b
    BY <1>5 DEF RowsFit, Apply, ApplyInsertRow, ApplyDeleteRow, ApplyRows, Done, RowsAfter
  <2>2. Suits(a, op2)
    BY <1>5 DEF RowsFit, Suits
  <2> QED
    BY <1>3, <2>1, <2>2 DEF Steps
<1> HIDE DEF b
<1>8. ASSUME NEW i \in 1..Len(b), NEW r \in Row
      PROVE  /\ new[<<i, r>>] = IF <<i, r>> \in fallen THEN R[i].cells[r] ELSE b[i].cells[r]
             /\ new[<<i, r>>] \in Cell
  <2>1. <<i, r>> \in CellsOf(b) /\ <<i, r>>[1] = i /\ <<i, r>>[2] = r
    BY DEF CellsOf
  <2>2. i \in 1..Len(R) /\ R[i].cells[r] \in Cell /\ b[i].cells[r] \in Cell
    BY <1>2, <1>3, <1>6, BookIs
  <2>3. new[<<i, r>>] = IF <<i, r>> \in fallen THEN R[i].cells[r] ELSE b[i].cells[r]
    BY <2>1 DEF CellAt
  <2> QED
    BY <2>2, <2>3
<1> HIDE DEF new
<1>9. /\ IsBook(m) /\ Len(m) = Len(b)
      /\ \A i \in 1..Len(b) :
                /\ m[i].name = b[i].name
                /\ m[i].charts = b[i].charts
                /\ \A r \in Row : m[i].cells[r] = new[<<i, r>>]
  BY <1>6, <1>8, MapCellsIs
<1> HIDE DEF m
<1>10. Walks(Plain(b), x, Plain(m))
  <2>1. Len(m) = Len(R) /\ Len(b) = Len(m)
    BY <1>2, <1>3, <1>6, <1>9
  <2>2. ASSUME NEW i \in 1..Len(R), NEW r \in Row, <<i, r>> \in fallen
        PROVE  Authored(R[i].cells[r]) = Authored(m[i].cells[r])
    <3>1. i \in 1..Len(b)
      BY <2>1
    <3> QED
      BY <1>8, <1>9, <2>2, <3>1
  <2>3. Towards(x, m) /\ \A i \in 1..Len(R), r \in Row : <<i, r>> \in fallen => Set(x, Len(x), i, r)
    BY <1>2, <1>9, <2>1, <2>2, RestoresTowards
  <2> HIDE DEF x
  <2>4. ASSUME NEW i \in 1..Len(m), NEW r \in Row
        PROVE  Authored(b[i].cells[r]) = Authored(m[i].cells[r]) \/ Set(x, Len(x), i, r)
    <3>1. i \in 1..Len(b) /\ i \in 1..Len(R)
      BY <2>1
    <3>2. CASE <<i, r>> \in fallen
      BY <2>3, <3>1, <3>2
    <3>3. CASE <<i, r>> \notin fallen
      BY <1>8, <1>9, <3>1, <3>3
    <3> QED
      BY <3>2, <3>3
  <2>5. \A i \in 1..Len(m) : b[i].name = m[i].name /\ b[i].charts = m[i].charts
    BY <1>9
  <2> QED
    BY <1>6, <1>9, <2>1, <2>3, <2>4, <2>5, SettingsWalk
<1>11. Walks(Plain(m), y, Plain(wb))
  <2>1. Len(m) = Len(wb)
    BY <1>3, <1>6, <1>9
  <2>2. \A i \in 1..Len(wb), r \in Row : <<i, r>> \in Rewritten(wb, op) =>
             Authored(wb[i].cells[r]) = Authored(wb[i].cells[r])
    OBVIOUS
  <2>3. Towards(y, wb) /\ \A i \in 1..Len(wb), r \in Row : <<i, r>> \in Rewritten(wb, op) => Set(y, Len(y), i, r)
    BY <2>2, RestoresTowards
  <2> HIDE DEF y
  <2>4. ASSUME NEW i \in 1..Len(wb), NEW r \in Row
        PROVE  Authored(m[i].cells[r]) = Authored(wb[i].cells[r]) \/ Set(y, Len(y), i, r)
    <3>1. i \in 1..Len(b)
      BY <2>1, <1>9
    <3>2. CASE <<i, r>> \in Rewritten(wb, op)
      BY <2>3, <3>2
    <3>3. CASE <<i, r>> \notin Rewritten(wb, op) /\ <<i, r>> \in fallen
      <4>1. m[i].cells[r] = R[i].cells[r]
        BY <1>8, <1>9, <3>1, <3>3
      <4>2. R[i].cells[r] = wb[i].cells[r]
        BY <1>2, <3>3 DEF RemappedCell, CellAt
      <4> QED
        BY <4>1, <4>2
    <3>4. CASE <<i, r>> \notin Rewritten(wb, op) /\ <<i, r>> \notin fallen
      <4>1. m[i].cells[r] = b[i].cells[r]
        BY <1>8, <1>9, <3>1, <3>4
      <4>2. b[i].cells[r] = wb[i].cells[r]
        BY <1>4, <3>4
      <4> QED
        BY <4>1, <4>2
    <3> QED
      BY <3>2, <3>3, <3>4
  <2>5. \A i \in 1..Len(wb) : m[i].name = wb[i].name /\ m[i].charts = wb[i].charts
    BY <1>3, <1>6, <1>9
  <2> QED
    BY <1>9, <2>1, <2>3, <2>4, <2>5, SettingsWalk
<1>12. Walks(Plain(a), <<op2>>, Plain(b))
  BY <1>7, OneWalks
<1> HIDE DEF x, y
<1>13. Walks(Plain(a), <<op2>> \o x, Plain(m))
  BY <1>10, <1>12, JoinedWalk
<1>14. Walks(Plain(a), (<<op2>> \o x) \o y, Plain(wb))
  BY <1>11, <1>13, JoinedWalk
<1> QED
  BY <1>1, <1>14 DEF TakenBack

\* An added sheet is removed.
LEMMA AddingTakenBack ==
    ASSUME NEW wb, IsBook(wb), NEW op,
           op.op = "AddSheet", op.index \in 1..(Len(wb) + 1), op.name \in Names
    PROVE  TakenBack(wb, op)
<1> DEFINE n == op.index
           sh == NewSheet(op.name)
           W == InsertAt(wb, n, sh)
           back == RemoveSheet(n)
<1>1. Apply(wb, op).wb = W /\ Apply(wb, op).inverse = <<back>>
  BY DEF Apply, ApplyAddSheet, Done
<1>2. sh \in Sheet /\ sh.charts = <<>> /\ IsHistory(wb) /\ Len(wb) \in Nat
  BY NewSheetIs, BookIs
<1> HIDE DEF sh
<1>3. IsBook(W) /\ Len(W) = Len(wb) + 1 /\ W[n] = sh
  BY <1>2, InsertedBook
<1>4. RemoveAt(W, n) = wb
  BY <1>2, RemoveInserted
<1> HIDE DEF W
<1>5. back.op = "RemoveSheet" /\ back.index = n
  BY DEF RemoveSheet
<1> HIDE DEF back
<1>6. Suits(W, back)
  <2>1. n \in 1..Len(W) /\ W[n].charts = <<>>
    BY <1>2, <1>3
  <2> QED
    BY <1>5, <2>1 DEF Suits
<1>7. Apply(W, back).wb = wb
  BY <1>4, <1>5 DEF Apply, ApplyRemoveSheet, Done
<1>8. Steps(Plain(W), back, Plain(wb))
  BY <1>3, <1>6, <1>7 DEF Steps
<1> QED
  BY <1>1, <1>8, OneWalks DEF TakenBack

\* A removed sheet is added empty and filled cell by cell.
LEMMA RemovingTakenBack ==
    ASSUME NEW wb, IsBook(wb), NEW op,
           op.op = "RemoveSheet", op.index \in 1..Len(wb), wb[op.index].charts = <<>>
    PROVE  TakenBack(wb, op)
<1> DEFINE n == op.index
           nm == wb[n].name
           W == RemoveAt(wb, n)
           back == AddSheet(n, nm)
           places == {<<n, r>> : r \in Occupied(wb, n)}
           x == Restores(wb, places)
           sh == NewSheet(nm)
           b == InsertAt(W, n, sh)
           l == Len(wb)
<1>1. Apply(wb, op).wb = W /\ Apply(wb, op).inverse = <<back>> \o x
  BY DEF Apply, ApplyRemoveSheet, Done
<1>2. n \in 1..l /\ l \in Nat /\ nm \in Names /\ IsHistory(wb)
  BY BookIs
<1>3. /\ IsBook(W) /\ Len(W) = l - 1
      /\ \A j \in 1..(n - 1) : W[j] = wb[j]
      /\ \A j \in n..(l - 1) : W[j] = wb[j + 1]
  BY <1>2, RemovedBook
<1> HIDE DEF W
<1>4. back.op = "AddSheet" /\ back.index = n /\ back.name = nm
  BY DEF AddSheet
<1> HIDE DEF back
<1>5. n \in 1..(Len(W) + 1)
  BY <1>2, <1>3
<1>6. Suits(W, back)
  BY <1>2, <1>4, <1>5 DEF Suits
<1>7. Apply(W, back).wb = b
  BY <1>4 DEF Apply, ApplyAddSheet, Done
<1>8. /\ sh \in Sheet /\ sh.name = nm /\ sh.charts = <<>>
      /\ \A r \in Row : sh.cells[r] = EmptyCell
  BY <1>2, NewSheetIs
<1> HIDE DEF sh
<1>9. /\ IsBook(b) /\ Len(b) = Len(W) + 1 /\ b[n] = sh
      /\ \A j \in 1..(n - 1) : b[j] = W[j]
      /\ \A j \in (n + 1)..(Len(W) + 1) : b[j] = W[j - 1]
  BY <1>3, <1>5, <1>8, InsertedBook
<1> HIDE DEF b
<1>10. Len(b) = l
  BY <1>2, <1>3, <1>9
<1>11. ASSUME NEW j \in 1..l, j # n PROVE b[j] = wb[j]
  <2>1. CASE j < n
    <3>1. j \in 1..(n - 1)
      BY <1>2, <2>1
    <3> QED
      BY <1>3, <1>9, <3>1
  <2>2. CASE j > n
    <3>1. j \in (n + 1)..(Len(W) + 1) /\ j - 1 \in n..(l - 1) /\ (j - 1) + 1 = j
      BY <1>2, <1>3, <2>2
    <3>2. b[j] = W[j - 1]
      BY <1>9, <3>1
    <3> QED
      BY <1>3, <3>1, <3>2
  <2> QED
    BY <1>2, <1>11, <2>1, <2>2
<1>12. Steps(Plain(W), back, Plain(b))
  BY <1>3, <1>6, <1>7 DEF Steps
<1>13. Walks(Plain(W), <<back>>, Plain(b))
  BY <1>12, OneWalks
<1>14. Towards(x, wb) /\ \A i \in 1..l, r \in Row : <<i, r>> \in places => Set(x, Len(x), i, r)
  <2>1. \A i \in 1..Len(wb), r \in Row : <<i, r>> \in places =>
             Authored(wb[i].cells[r]) = Authored(wb[i].cells[r])
    OBVIOUS
  <2> HIDE DEF places
  <2> QED
    BY <2>1, RestoresTowards
<1>15. \A r \in Row : <<n, r>> \in places <=> CellAt(wb, n, r) # EmptyCell
  BY DEF Occupied
<1> HIDE DEF places, x
<1>16. ASSUME NEW i \in 1..l, NEW r \in Row
       PROVE  Authored(b[i].cells[r]) = Authored(wb[i].cells[r]) \/ Set(x, Len(x), i, r)
  <2>1. CASE i # n
    BY <1>11, <2>1
  <2>2. CASE i = n /\ <<n, r>> \in places
    BY <1>14, <2>2
  <2>3. CASE i = n /\ <<n, r>> \notin places
    <3>1. wb[n].cells[r] = EmptyCell /\ b[n].cells[r] = EmptyCell
      BY <1>8, <1>9, <1>15, <2>3 DEF CellAt
    <3> QED
      BY <2>3, <3>1
  <2> QED
    BY <2>1, <2>2, <2>3
<1>17. ASSUME NEW i \in 1..l PROVE b[i].name = wb[i].name /\ b[i].charts = wb[i].charts
  <2>1. CASE i # n
    BY <1>11, <2>1
  <2>2. CASE i = n
    BY <1>8, <1>9, <2>2
  <2> QED
    BY <2>1, <2>2
<1>18. Walks(Plain(b), x, Plain(wb))
  BY <1>9, <1>10, <1>14, <1>16, <1>17, SettingsWalk
<1>19. Walks(Plain(W), <<back>> \o x, Plain(wb))
  BY <1>13, <1>18, JoinedWalk
<1> QED
  BY <1>1, <1>19 DEF TakenBack

\* A renaming, and the taking back of one, is taken back by the old name and
\* the cells that it changed.
LEMMA PutBack ==
    ASSUME NEW wb, IsBook(wb), NEW W, IsBook(W), Len(W) = Len(wb), NEW s \in 1..Len(wb), NEW places,
           \A i \in 1..Len(wb) : W[i].charts = wb[i].charts /\ (i # s => W[i].name = wb[i].name),
           \A i \in 1..Len(wb), r \in Row : <<i, r>> \notin places => W[i].cells[r] = wb[i].cells[r]
    PROVE  Steps(Plain(W), RestoreSheet(s, wb[s].name, Restores(wb, places)), Plain(wb))
<1> DEFINE fs == Restores(wb, places)
           back == RestoreSheet(s, wb[s].name, fs)
           B == Apply(W, back).wb
<1>1. IsHistory(wb) /\ wb[s].name \in Names /\ Len(wb) \in Nat
  BY BookIs
<1>2. /\ IsHistory(fs)
      /\ \A n \in 1..Len(fs) : \E i \in 1..Len(wb), r \in Row :
           <<i, r>> \in places /\ fs[n] = SetCell(i, r, CellAt(wb, i, r))
      /\ \A i \in 1..Len(wb), r \in Row : <<i, r>> \in places =>
           \E n \in 1..Len(fs) : fs[n] = SetCell(i, r, CellAt(wb, i, r))
  BY <1>1, RestoresIs
<1>3. back.op = "RestoreSheet" /\ back.sheet = s /\ back.name = wb[s].name /\ back.formulas = fs
  BY DEF RestoreSheet
<1> HIDE DEF fs, back
<1>4. ASSUME NEW n \in 1..Len(fs), NEW i \in 1..Len(wb), NEW r \in Row, fs[n].sheet = i, fs[n].at = r
      PROVE  fs[n].cell = CellAt(wb, i, r)
  <2>1. PICK j \in 1..Len(wb), q \in Row : fs[n] = SetCell(j, q, CellAt(wb, j, q))
    BY <1>2
  <2> QED
    BY <1>4, <2>1 DEF SetCell
<1>5. FormulasFit(fs, Len(W))
  <2>1. ASSUME NEW n \in 1..Len(fs)
        PROVE  fs[n].sheet \in 1..Len(W) /\ fs[n].at \in Row /\ fs[n].cell \in Cell
    <3>1. PICK j \in 1..Len(wb), q \in Row : fs[n] = SetCell(j, q, CellAt(wb, j, q))
      BY <1>2
    <3>2. CellAt(wb, j, q) \in Cell
      BY BookIs DEF CellAt
    <3> QED
      BY <3>1, <3>2 DEF SetCell
  <2> QED
    BY <1>2, <2>1 DEF FormulasFit
<1>6. Suits(W, back)
  BY <1>1, <1>3, <1>5 DEF Suits
<1>7. /\ IsBook(B) /\ Len(B) = Len(W)
      /\ \A i \in 1..Len(W) :
                /\ B[i].name = IF i = back.sheet THEN back.name ELSE W[i].name
                /\ B[i].charts = W[i].charts
                /\ \A r \in Row : B[i].cells[r] = RestoredCell(W, back, i, r)
  BY <1>1, <1>3, <1>5, RestoreIs
<1>71. Suits(W, back) /\ B = Apply(W, back).wb
  BY <1>6
<1> HIDE DEF B
<1>8. ASSUME NEW i \in 1..Len(wb), NEW r \in Row PROVE RestoredCell(W, back, i, r) = wb[i].cells[r]
  <2>1. CASE KeptFor(fs, <<i, r>>) # {}
    <3> DEFINE n == CHOOSE k \in KeptFor(fs, <<i, r>>) : TRUE
    <3>1. n \in KeptFor(fs, <<i, r>>)
      BY <2>1
    <3>2. n \in 1..Len(fs) /\ fs[n].sheet = i /\ fs[n].at = r
      BY <3>1 DEF KeptFor
    <3>3. fs[n].cell = CellAt(wb, i, r)
      BY <1>4, <3>2
    <3>4. RestoredCell(W, back, i, r) = fs[n].cell
      BY <1>3, <2>1 DEF RestoredCell
    <3> QED
      BY <3>3, <3>4 DEF CellAt
  <2>2. CASE KeptFor(fs, <<i, r>>) = {}
    <3>1. <<i, r>> \notin places
      <4> SUFFICES ASSUME <<i, r>> \in places PROVE FALSE
        OBVIOUS
      <4>1. PICK n \in 1..Len(fs) : fs[n] = SetCell(i, r, CellAt(wb, i, r))
        BY <1>2
      <4>2. fs[n].sheet = i /\ fs[n].at = r
        BY <4>1 DEF SetCell
      <4>3. n \in KeptFor(fs, <<i, r>>)
        BY <4>2 DEF KeptFor
      <4> QED
        BY <2>2, <4>3
    <3>2. RestoredCell(W, back, i, r) = W[i].cells[r]
      BY <1>3, <2>2 DEF RestoredCell, CellAt
    <3> QED
      BY <3>1, <3>2
  <2> QED
    BY <2>1, <2>2
<1>9. ASSUME NEW i \in 1..Len(wb) PROVE B[i].name = wb[i].name /\ B[i].charts = wb[i].charts
  <2>1. i \in 1..Len(W)
    OBVIOUS
  <2>2. B[i].name = IF i = back.sheet THEN back.name ELSE W[i].name
    BY <1>7, <2>1
  <2>3. B[i].charts = W[i].charts
    BY <1>7, <2>1
  <2> QED
    BY <1>3, <2>2, <2>3
<1>10. ASSUME NEW i \in 1..Len(wb), NEW r \in Row PROVE B[i].cells[r] = wb[i].cells[r]
  <2>1. i \in 1..Len(W)
    OBVIOUS
  <2>2. B[i].cells[r] = RestoredCell(W, back, i, r)
    BY <1>7, <2>1
  <2> QED
    BY <1>8, <2>2
<1>11. B = wb
  <2>1. Len(B) = Len(wb) /\ IsBook(B)
    BY <1>7
  <2> QED
    BY <1>9, <1>10, <2>1, SameBook
<1>12. Steps(Plain(W), back, Plain(wb))
  BY <1>11, <1>71 DEF Steps
<1> QED
  BY <1>12 DEF back, fs

\* A renaming is taken back by the old name and the formulas that named it.
LEMMA RenamingTakenBack ==
    ASSUME NEW wb, IsBook(wb), NEW op,
           op.op = "RenameSheet", op.sheet \in 1..Len(wb), op.name \in Names
    PROVE  TakenBack(wb, op)
<1> DEFINE W == Apply(wb, op).wb
           places == Naming(wb, op)
           s == op.sheet
           back == RestoreSheet(s, wb[s].name, Restores(wb, places))
<1>1. /\ IsBook(W) /\ Len(W) = Len(wb)
      /\ \A i \in 1..Len(wb) :
                /\ W[i].name = IF i = op.sheet THEN op.name ELSE wb[i].name
                /\ W[i].charts = wb[i].charts
                /\ \A r \in Row : W[i].cells[r] = RenamedCell(wb, op, i, r)
      /\ Apply(wb, op).inverse = <<back>>
  BY RenameIs
<1> HIDE DEF W, places
<1>2. \A i \in 1..Len(wb) : W[i].charts = wb[i].charts /\ (i # s => W[i].name = wb[i].name)
  BY <1>1
<1>3. \A i \in 1..Len(wb), r \in Row : <<i, r>> \notin places => W[i].cells[r] = wb[i].cells[r]
  BY <1>1 DEF RenamedCell, CellAt, places
<1>4. Steps(Plain(W), back, Plain(wb))
  BY <1>1, <1>2, <1>3, PutBack
<1> HIDE DEF back
<1>5. Walks(Plain(W), <<back>>, Plain(wb))
  BY <1>4, OneWalks
<1> QED
  BY <1>1, <1>5 DEF TakenBack, W

\* So is a restored name.
LEMMA RestoringTakenBack ==
    ASSUME NEW wb, IsBook(wb), NEW op,
           op.op = "RestoreSheet", op.sheet \in 1..Len(wb), op.name \in Names,
           FormulasFit(op.formulas, Len(wb))
    PROVE  TakenBack(wb, op)
<1> DEFINE W == Apply(wb, op).wb
           fs == op.formulas
           places == PlacesOf(fs)
           s == op.sheet
           back == RestoreSheet(s, wb[s].name, Restores(wb, places))
<1>1. /\ IsBook(W) /\ Len(W) = Len(wb)
      /\ \A i \in 1..Len(wb) :
                /\ W[i].name = IF i = op.sheet THEN op.name ELSE wb[i].name
                /\ W[i].charts = wb[i].charts
                /\ \A r \in Row : W[i].cells[r] = RestoredCell(wb, op, i, r)
      /\ Apply(wb, op).inverse = <<back>>
  BY RestoreIs
<1> HIDE DEF W
<1>2. \A i \in 1..Len(wb) : W[i].charts = wb[i].charts /\ (i # s => W[i].name = wb[i].name)
  BY <1>1
<1>3. ASSUME NEW i \in 1..Len(wb), NEW r \in Row, <<i, r>> \notin places
      PROVE  W[i].cells[r] = wb[i].cells[r]
  <2>1. KeptFor(fs, <<i, r>>) = {}
    BY <1>3 DEF KeptFor, PlacesOf
  <2>2. RestoredCell(wb, op, i, r) = wb[i].cells[r]
    BY <2>1 DEF RestoredCell, CellAt
  <2> QED
    BY <1>1, <2>2
<1> HIDE DEF places
<1>4. Steps(Plain(W), back, Plain(wb))
  BY <1>1, <1>2, <1>3, PutBack
<1> HIDE DEF back
<1>5. Walks(Plain(W), <<back>>, Plain(wb))
  BY <1>4, OneWalks
<1> QED
  BY <1>1, <1>5 DEF TakenBack, W

\* The charts of one sheet changed.
WithCharts(wb, s, cs) == [wb EXCEPT ![s].charts = cs]
\* The rest of the workbook stays.
LEMMA ChartsChanged ==
    ASSUME NEW wb, IsBook(wb), NEW s \in 1..Len(wb), NEW cs \in Seq(Chart)
    PROVE  /\ IsBook(WithCharts(wb, s, cs)) /\ Len(WithCharts(wb, s, cs)) = Len(wb)
           /\ WithCharts(wb, s, cs)[s].charts = cs
           /\ \A i \in 1..Len(wb) :
                /\ WithCharts(wb, s, cs)[i].name = wb[i].name
                /\ i # s => WithCharts(wb, s, cs)[i].charts = wb[i].charts
                /\ \A r \in Row : WithCharts(wb, s, cs)[i].cells[r] = wb[i].cells[r]
  BY WithChartsIs DEF WithCharts

\* A chart operation leaves a workbook of as many sheets.
LEMMA ChartOpLeaves ==
    ASSUME NEW wb, IsBook(wb), NEW op, Suits(wb, op), ChartOp(op)
    PROVE  /\ IsBook(Apply(wb, op).wb) /\ Len(Apply(wb, op).wb) = Len(wb)
           /\ Apply(wb, op).wb[op.sheet].charts = ChartsAfter(wb[op.sheet].charts, op)
<1>1. PICK s, ds : s = op.sheet /\ ds = ChartsAfter(wb[op.sheet].charts, op)
  OBVIOUS
<1>2. s \in 1..Len(wb) /\ ds \in Seq(Chart) /\ Apply(wb, op).wb = WithCharts(wb, s, ds)
  BY <1>1, ChartOpIs DEF WithCharts
<1>3. /\ IsBook(WithCharts(wb, s, ds)) /\ Len(WithCharts(wb, s, ds)) = Len(wb)
      /\ WithCharts(wb, s, ds)[s].charts = ds
  BY <1>2, ChartsChanged
<1> QED
  BY <1>1, <1>2, <1>3

\* A chart operation on the charts of the sheet.
LEMMA ChartsPutBack ==
    ASSUME NEW wb, IsBook(wb), NEW op, Suits(wb, op), ChartOp(op), NEW back, ChartOp(back),
           back.sheet = op.sheet,
           Suits(Apply(wb, op).wb, back),
           ChartsAfter(ChartsAfter(wb[op.sheet].charts, op), back) = wb[op.sheet].charts
    PROVE  Steps(Plain(Apply(wb, op).wb), back, Plain(wb))
<1>0. PICK s : s = op.sheet
  OBVIOUS
<1> DEFINE cs == wb[s].charts
           ds == ChartsAfter(cs, op)
           W == Apply(wb, op).wb
           B == Apply(W, back).wb
<1>1. s \in 1..Len(wb) /\ ds \in Seq(Chart) /\ W = WithCharts(wb, s, ds)
  BY <1>0, ChartOpIs DEF WithCharts
<1> HIDE DEF W, ds
<1>2. IsBook(W) /\ Len(W) = Len(wb) /\ W[s].charts = ds
  BY <1>1, ChartsChanged
<1>3. ASSUME NEW i \in 1..Len(wb)
      PROVE  /\ W[i].name = wb[i].name /\ (i # s => W[i].charts = wb[i].charts)
             /\ \A r \in Row : W[i].cells[r] = wb[i].cells[r]
  BY <1>1, ChartsChanged
<1>4. Suits(W, back)
  BY DEF W
<1>5. ChartsAfter(ds, back) = cs
  BY <1>0 DEF ds
<1>6. s \in 1..Len(W) /\ cs \in Seq(Chart) /\ B = WithCharts(W, s, cs)
  <2>1. ChartsAfter(W[s].charts, back) = cs
    BY <1>2, <1>5
  <2>2. back.sheet = s
    BY <1>0
  <2>3. /\ back.sheet \in 1..Len(W) /\ ChartsAfter(W[back.sheet].charts, back) \in Seq(Chart)
        /\ B = [W EXCEPT ![back.sheet].charts = ChartsAfter(W[back.sheet].charts, back)]
    BY <1>2, <1>4, ChartOpIs
  <2> HIDE DEF B
  <2> QED
    BY <2>1, <2>2, <2>3 DEF WithCharts
<1>7. B = Apply(W, back).wb
  OBVIOUS
<1> HIDE DEF B, cs
<1> DEFINE C == WithCharts(W, s, cs)
<1>82. IsBook(W) /\ s \in 1..Len(W) /\ cs \in Seq(Chart)
  BY <1>2, <1>6
<1>80. /\ IsBook(C) /\ Len(C) = Len(W) /\ C[s].charts = cs
       /\ \A i \in 1..Len(W) :
            /\ C[i].name = W[i].name
            /\ i # s => C[i].charts = W[i].charts
            /\ \A r \in Row : C[i].cells[r] = W[i].cells[r]
  BY <1>82, ChartsChanged
<1>81. B = C
  BY <1>6
<1> HIDE DEF C
<1>8. IsBook(B) /\ Len(B) = Len(W) /\ B[s].charts = cs
  BY <1>80, <1>81
<1>9. \A i \in 1..Len(W) :
        /\ B[i].name = W[i].name /\ (i # s => B[i].charts = W[i].charts)
        /\ \A r \in Row : B[i].cells[r] = W[i].cells[r]
  BY <1>80, <1>81
<1>10. B = wb
  <2>1. ASSUME NEW i \in 1..Len(B) PROVE B[i].name = wb[i].name /\ B[i].charts = wb[i].charts
    <3>1. i \in 1..Len(W) /\ i \in 1..Len(wb)
      BY <1>2, <1>8
    <3>2. CASE i = s
      BY <1>3, <1>8, <1>9, <3>1, <3>2 DEF cs
    <3>3. CASE i # s
      BY <1>3, <1>9, <3>1, <3>3
    <3> QED
      BY <3>2, <3>3
  <2>2. ASSUME NEW i \in 1..Len(B), NEW r \in Row PROVE B[i].cells[r] = wb[i].cells[r]
    <3>1. i \in 1..Len(W) /\ i \in 1..Len(wb)
      BY <1>2, <1>8
    <3> QED
      BY <1>3, <1>9, <3>1
  <2>3. Len(B) = Len(wb)
    BY <1>2, <1>8
  <2> QED
    BY <1>8, <2>1, <2>2, <2>3, SameBook
<1>11. Steps(Plain(W), back, Plain(wb))
  BY <1>2, <1>4, <1>7, <1>10 DEF Steps
<1> QED
  BY <1>11 DEF W

\* Every chart operation is taken back by its opposite.
LEMMA ChartingTakenBack ==
    ASSUME NEW wb, IsBook(wb), NEW op, Suits(wb, op), ChartOp(op)
    PROVE  TakenBack(wb, op)
<1>0. PICK s, n : s = op.sheet /\ n = op.index
  OBVIOUS
<1> DEFINE cs == wb[s].charts
           ds == ChartsAfter(cs, op)
<1>1. s \in 1..Len(wb)
  BY <1>0 DEF Suits, ChartOp
<1>2. cs \in Seq(Chart)
  BY <1>1, BookIs
<1>3. IsHistory(cs) /\ \A i \in 1..Len(cs) : cs[i] \in Chart
  BY <1>2, HistoryOf
<1>4. Len(cs) \in Nat
  BY <1>3, HistoryIsFunction
<1> DEFINE W == Apply(wb, op).wb
<1>8. Len(W) = Len(wb) /\ W[s].charts = ds
  BY <1>0, ChartOpLeaves
<1> HIDE DEF W
<1>5. CASE op.op = "AddChart"
  <2> DEFINE back == RemoveChart(s, n, op.drawing)
  <2>1. n \in 1..(Len(cs) + 1)
    BY <1>0, <1>5 DEF Suits
  <2>2. back.op = "RemoveChart" /\ back.sheet = s /\ back.index = n
    BY DEF RemoveChart
  <2>3. Apply(wb, op).inverse = <<back>>
    BY <1>0, <1>5 DEF Apply, ApplyAddChart, Done
  <2> HIDE DEF back
  <2>4. ds = InsertAt(cs, n, op.drawing)
    BY <1>0, <1>5 DEF ChartsAfter
  <2>5. Len(ds) = Len(cs) + 1
    BY <1>3, <2>1, <2>4, InsertedHistory
  <2>6. ChartsAfter(ds, back) = cs
    <3>1. ChartsAfter(ds, back) = RemoveAt(ds, n)
      BY <2>2 DEF ChartsAfter
    <3> QED
      BY <1>3, <2>1, <2>4, <3>1, RemoveInserted
  <2> HIDE DEF ds, cs
  <2>7. Suits(W, back)
    <3>1. n \in 1..Len(W[s].charts) /\ s \in 1..Len(W)
      BY <1>1, <1>4, <2>1, <1>8, <2>5
    <3> QED
      BY <2>2, <3>1 DEF Suits
  <2>8. ChartOp(back)
    BY <2>2 DEF ChartOp
  <2>9. Steps(Plain(Apply(wb, op).wb), back, Plain(wb))
    BY <1>0, <2>2, <2>6, <2>7, <2>8, ChartsPutBack DEF ds, cs, W
  <2> QED
    BY <2>3, <2>9, OneWalks DEF TakenBack
<1>6. CASE op.op = "RemoveChart"
  <2> DEFINE back == AddChart(s, n, cs[n])
  <2>1. n \in 1..Len(cs)
    BY <1>0, <1>6 DEF Suits
  <2>2. back.op = "AddChart" /\ back.sheet = s /\ back.index = n /\ back.drawing = cs[n]
    BY DEF AddChart
  <2>3. Apply(wb, op).inverse = <<back>>
    BY <1>0, <1>6 DEF Apply, ApplyRemoveChart, Done
  <2> HIDE DEF back
  <2>4. ds = RemoveAt(cs, n)
    BY <1>0, <1>6 DEF ChartsAfter
  <2>5. Len(ds) = Len(cs) - 1
    BY <1>3, <2>1, <2>4, RemovedHistory
  <2>6. ChartsAfter(ds, back) = cs
    <3>1. ChartsAfter(ds, back) = InsertAt(ds, n, cs[n])
      BY <2>2 DEF ChartsAfter
    <3> QED
      BY <1>3, <2>1, <2>4, <3>1, InsertRemoved
  <2>10. cs[n] \in Chart
    BY <1>3, <2>1
  <2> HIDE DEF ds, cs
  <2>7. Suits(W, back)
    <3>1. n \in 1..(Len(W[s].charts) + 1) /\ s \in 1..Len(W)
      BY <1>1, <1>4, <2>1, <1>8, <2>5
    <3> QED
      BY <2>2, <2>10, <3>1 DEF Suits
  <2>8. ChartOp(back)
    BY <2>2 DEF ChartOp
  <2>9. Steps(Plain(Apply(wb, op).wb), back, Plain(wb))
    BY <1>0, <2>2, <2>6, <2>7, <2>8, ChartsPutBack DEF ds, cs, W
  <2> QED
    BY <2>3, <2>9, OneWalks DEF TakenBack
<1>7. CASE op.op = "SetAnchor"
  <2> DEFINE back == SetAnchor(s, n, cs[n].anchor)
  <2>1. n \in 1..Len(cs) /\ op.anchor \in Anchors
    BY <1>0, <1>7 DEF Suits
  <2>2. back.op = "SetAnchor" /\ back.sheet = s /\ back.index = n /\ back.anchor = cs[n].anchor
    BY DEF SetAnchor
  <2>3. Apply(wb, op).inverse = <<back>>
    BY <1>0, <1>7 DEF Apply, ApplySetAnchor, Done
  <2> HIDE DEF back
  <2>4. ds = Anchored(cs, n, op.anchor)
    BY <1>0, <1>7 DEF ChartsAfter
  <2>5. Len(ds) = Len(cs)
    BY <1>2, <2>1, <2>4, AnchoredIs
  <2>6. ChartsAfter(ds, back) = cs
    <3>1. ChartsAfter(ds, back) = Anchored(ds, n, cs[n].anchor)
      BY <2>2 DEF ChartsAfter
    <3> QED
      BY <1>2, <2>1, <2>4, <3>1, AnchoredIs
  <2>10. cs[n].anchor \in Anchors
    BY <1>3, <2>1 DEF Chart
  <2> HIDE DEF ds, cs
  <2>7. Suits(W, back)
    <3>1. n \in 1..Len(W[s].charts) /\ s \in 1..Len(W)
      BY <1>1, <1>4, <2>1, <1>8, <2>5
    <3> QED
      BY <2>2, <2>10, <3>1 DEF Suits
  <2>8. ChartOp(back)
    BY <2>2 DEF ChartOp
  <2>9. Steps(Plain(Apply(wb, op).wb), back, Plain(wb))
    BY <1>0, <2>2, <2>6, <2>7, <2>8, ChartsPutBack DEF ds, cs, W
  <2> QED
    BY <2>3, <2>9, OneWalks DEF TakenBack
<1> QED
  BY <1>5, <1>6, <1>7 DEF ChartOp

\* Every operation is taken back by the inverse it returns.
LEMMA EveryTakenBack ==
    ASSUME NEW wb, IsBook(wb), NEW op, Suits(wb, op)
    PROVE  TakenBack(wb, op)
<1>2. CASE op.op = "SetCell"
  BY <1>2, SettingTakenBack DEF Suits
<1>3. CASE op.op = "InsertRow"
  <2> DEFINE back == DeleteRow(op.sheet, op.at)
  <2>1. op.sheet \in 1..Len(wb) /\ op.at \in Row
    BY <1>3 DEF Suits
  <2>2. back.op = "DeleteRow" /\ back.sheet = op.sheet /\ back.at = op.at
    BY DEF DeleteRow
  <2>3. Apply(wb, op) = ApplyRows(wb, op, back)
    BY <1>3 DEF Apply, ApplyInsertRow
  <2> HIDE DEF back
  <2>4. RowsFit(wb, op) /\ RowsFit(wb, back)
    BY <1>3, <2>1, <2>2 DEF RowsFit
  <2>5. Opposite(op, back)
    BY <1>3, <2>2 DEF Opposite
  <2> QED
    BY <2>3, <2>4, <2>5, MovingTakenBack
<1>4. CASE op.op = "DeleteRow"
  <2> DEFINE back == InsertRow(op.sheet, op.at)
  <2>1. op.sheet \in 1..Len(wb) /\ op.at \in Row
    BY <1>4 DEF Suits
  <2>2. back.op = "InsertRow" /\ back.sheet = op.sheet /\ back.at = op.at
    BY DEF InsertRow
  <2>3. Apply(wb, op) = ApplyRows(wb, op, back)
    BY <1>4 DEF Apply, ApplyDeleteRow
  <2> HIDE DEF back
  <2>4. RowsFit(wb, op) /\ RowsFit(wb, back)
    BY <1>4, <2>1, <2>2 DEF RowsFit
  <2>5. Opposite(op, back)
    BY <1>4, <2>2 DEF Opposite
  <2> QED
    BY <2>3, <2>4, <2>5, MovingTakenBack
<1>5. CASE op.op = "AddSheet"
  BY <1>5, AddingTakenBack DEF Suits
<1>6. CASE op.op = "RemoveSheet"
  BY <1>6, RemovingTakenBack DEF Suits
<1>7. CASE op.op = "RenameSheet"
  BY <1>7, RenamingTakenBack DEF Suits
<1>8. CASE op.op = "RestoreSheet"
  BY <1>8, RestoringTakenBack DEF Suits
<1>9. CASE ChartOp(op)
  BY <1>9, ChartingTakenBack
<1> QED
  BY <1>2, <1>3, <1>4, <1>5, <1>6, <1>7, <1>8, <1>9 DEF Suits, ChartOp

\* Applying a list of operations walks along it, and its inverse walks back.
LEMMA ApplyingWalks ==
    ASSUME NEW wb, IsBook(wb), NEW ops, NEW p, Walks(Plain(wb), ops, p)
    PROVE  /\ IsBook(ApplyOps(wb, ops).wb) /\ Plain(ApplyOps(wb, ops).wb) = p
           /\ Walks(p, ApplyOps(wb, ops).inverse, Plain(wb))
<1>1. PICK f : /\ ApplyOps(wb, ops) = f[Len(ops)]
               /\ f[0] = Done(wb, <<>>)
               /\ \A m \in 1..Len(ops) :
                    LET step == Apply(f[m - 1].wb, ops[m])
                    IN f[m] = Done(step.wb, step.inverse \o f[m - 1].inverse)
  BY AppliedIs DEF Walks
<1>2. PICK w : /\ w[0] = Plain(wb) /\ w[Len(ops)] = p
               /\ \A n \in 1..Len(ops) : Steps(w[n - 1], ops[n], w[n])
  BY DEF Walks
<1>3. IsHistory(ops) /\ Len(ops) \in Nat
  BY HistoryIsFunction DEF Walks
<1> DEFINE Good(m) ==
      /\ IsBook(f[m].wb) /\ Plain(f[m].wb) = w[m]
      /\ Walks(w[m], f[m].inverse, Plain(wb))
<1>4. Good(0)
  <2>1. f[0].wb = wb /\ f[0].inverse = <<>>
    BY <1>1 DEF Done
  <2> QED
    BY <1>2, <2>1, NothingWalks
<1>5. ASSUME NEW m \in 1..Len(ops), Good(m - 1) PROVE Good(m)
  <2> DEFINE old == f[m - 1]
             op == ops[m]
             step == Apply(old.wb, op)
  <2>1. f[m].wb = step.wb /\ f[m].inverse = step.inverse \o old.inverse
    <3> DEFINE back == step.inverse \o old.inverse
    <3>1. f[m] = Done(step.wb, back)
      BY <1>1
    <3> HIDE DEF step, back
    <3>2. f[m].wb = step.wb /\ f[m].inverse = back
      BY <3>1 DEF Done
    <3> QED
      BY <3>2 DEF back
  <2>2. /\ IsBook(old.wb) /\ Plain(old.wb) = w[m - 1]
        /\ Walks(w[m - 1], old.inverse, Plain(wb))
    BY <1>5
  <2> HIDE DEF Good
  <2>3. Steps(w[m - 1], op, w[m])
    BY <1>2
  <2> HIDE DEF old, op
  <2>4. Suits(old.wb, op) /\ IsBook(step.wb) /\ Plain(step.wb) = w[m]
    BY <2>2, <2>3, OneStep
  <2>5. TakenBack(old.wb, op)
    BY <2>2, <2>4, EveryTakenBack
  <2>6. Walks(w[m], step.inverse, w[m - 1])
    BY <2>2, <2>4, <2>5 DEF TakenBack
  <2> HIDE DEF step
  <2>7. Walks(w[m], step.inverse \o old.inverse, Plain(wb))
    BY <2>2, <2>6, JoinedWalk
  <2> QED
    BY <2>1, <2>4, <2>7 DEF Good
<1> DEFINE T == {m \in 0..Len(ops) : ~Good(m)}
<1>6. T = {}
  <2> SUFFICES ASSUME T # {} PROVE FALSE
    OBVIOUS
  <2>1. T \subseteq Nat
    BY <1>3
  <2>2. PICK m \in T : m = 0 \/ (m - 1 \in Nat /\ m - 1 \notin T)
    BY <2>1, FirstOfThem
  <2>3. m \in 0..Len(ops) /\ ~Good(m)
    OBVIOUS
  <2> HIDE DEF Good
  <2>4. m # 0
    BY <1>4, <2>3
  <2>5. m \in 1..Len(ops) /\ m - 1 \in 0..Len(ops)
    BY <1>3, <2>3, <2>4
  <2>6. Good(m - 1)
    BY <2>2, <2>4, <2>5
  <2> QED
    BY <1>5, <2>3, <2>5, <2>6
<1>7. Good(Len(ops))
  <2>1. Len(ops) \in 0..Len(ops)
    BY <1>3
  <2> HIDE DEF Good
  <2> QED
    BY <1>6, <2>1
<1> QED
  BY <1>1, <1>2, <1>7

\* One operation that suits the workbook, and one after another.
LEMMA SuitedWalks ==
    ASSUME NEW wb, IsBook(wb), NEW op, Suits(wb, op)
    PROVE  IsBook(Apply(wb, op).wb) /\ Walks(Plain(wb), <<op>>, Plain(Apply(wb, op).wb))
<1>1. Steps(Plain(wb), op, Plain(Apply(wb, op).wb))
  BY DEF Steps
<1> QED
  BY <1>1, OneWalks, SuitedStays

-----------------------------------------------------------------------------
(* Calculating changes values only.                                        *)

\* A new value leaves the formula.
LEMMA SameFormula ==
    ASSUME NEW c \in Cell, NEW v
    PROVE  [c EXCEPT !.v = v] = [v |-> v, f |-> c.f]
<1>1. c = [v |-> c.v, f |-> c.f]
  BY CellIs
<1> DEFINE x == c.v
           y == c.f
<1>2. c = [v |-> x, f |-> y]
  BY <1>1
<1> HIDE DEF x, y
<1>3. [c EXCEPT !.v = v] = [v |-> v, f |-> y]
  BY <1>2
<1> QED
  BY <1>3 DEF y

\* New values of cells that hold formulas.
LEMMA ValuesOnly ==
    ASSUME NEW wb, IsBook(wb), NEW values, \A at \in DOMAIN values : values[at] \in Int,
           \A i \in 1..Len(wb), r \in Row : <<i, r>> \in DOMAIN values => IsFormula(CellAt(wb, i, r))
    PROVE  IsBook(WithValues(wb, values)) /\ Alike(WithValues(wb, values), wb)
<1> DEFINE new == [at \in CellsOf(wb) |->
                    IF at \in DOMAIN values THEN [CellAt(wb, at[1], at[2]) EXCEPT !.v = values[at]]
                    ELSE CellAt(wb, at[1], at[2])]
           m == MapCells(wb, new)
<1>1. ASSUME NEW i \in 1..Len(wb), NEW r \in Row
      PROVE  new[<<i, r>>] \in Cell /\ Authored(new[<<i, r>>]) = Authored(wb[i].cells[r])
  <2> DEFINE c == CellAt(wb, i, r)
             v == values[<<i, r>>]
  <2>1. <<i, r>> \in CellsOf(wb) /\ <<i, r>>[1] = i /\ <<i, r>>[2] = r
    BY DEF CellsOf
  <2>2. new[<<i, r>>] = IF <<i, r>> \in DOMAIN values THEN [c EXCEPT !.v = v] ELSE c
    BY <2>1
  <2> HIDE DEF new
  <2>3. c \in Cell /\ c = wb[i].cells[r]
    BY BookIs DEF CellAt
  <2>4. CASE <<i, r>> \in DOMAIN values
    <3>1. v \in Int /\ IsFormula(c)
      BY <2>4
    <3> HIDE DEF c, v
    <3>2. c = [v |-> c.v, f |-> c.f] /\ c.v \in Int /\ c.f \in Formulas
      BY <2>3, CellIs
    <3> DEFINE d == [c EXCEPT !.v = v]
               e == [c EXCEPT !.v = Blank]
               g == [d EXCEPT !.v = Blank]
    <3>3. d = [v |-> v, f |-> c.f] /\ e = [v |-> Blank, f |-> c.f]
      BY <3>2, SameFormula
    <3> HIDE DEF d
    <3>4. d \in Cell /\ d.f = c.f
      BY <3>1, <3>2, <3>3 DEF Cell
    <3>41. g = [v |-> Blank, f |-> d.f]
      BY <3>4, SameFormula
    <3>5. g = [v |-> Blank, f |-> c.f] /\ e = [v |-> Blank, f |-> c.f]
      BY <3>3, <3>4, <3>41
    <3>51. (IsFormula(d) <=> IsFormula(c)) /\ IsFormula(c)
      BY <3>1, <3>4 DEF IsFormula
    <3>52. Authored(d) = g /\ Authored(c) = e
      BY <3>51 DEF Authored
    <3> HIDE DEF d
    <3>6. Authored(d) = Authored(c)
      BY <3>5, <3>52
    <3>7. new[<<i, r>>] = d
      BY <2>2, <2>4 DEF d
    <3> QED
      BY <2>3, <3>4, <3>6, <3>7
  <2>5. CASE <<i, r>> \notin DOMAIN values
    BY <2>2, <2>3, <2>5
  <2> QED
    BY <2>4, <2>5
<1>2. WithValues(wb, values) = m
  BY DEF WithValues
<1> HIDE DEF new
<1>3. /\ IsBook(m) /\ Len(m) = Len(wb)
      /\ \A i \in 1..Len(wb) :
           /\ m[i].name = wb[i].name
           /\ m[i].charts = wb[i].charts
           /\ \A r \in Row : m[i].cells[r] = new[<<i, r>>]
  BY <1>1, MapCellsIs
<1> HIDE DEF m
<1>4. ASSUME NEW i \in 1..Len(wb), NEW r \in Row PROVE Authored(m[i].cells[r]) = Authored(wb[i].cells[r])
  BY <1>1, <1>3
<1>5. Alike(m, wb)
  <2>1. Len(wb) \in Nat
    BY BookIs
  <2>2. \A i \in 1..Len(wb) : m[i].name = wb[i].name /\ m[i].charts = wb[i].charts
    BY <1>3
  <2> QED
    BY <1>3, <1>4, <2>1, <2>2, AlikeOf
<1> QED
  BY <1>2, <1>3, <1>5

\* The cells of a set hold formulas.
OfFormulas(wb, S) == \A i \in 1..Len(wb), r \in Row : <<i, r>> \in S => IsFormula(CellAt(wb, i, r))

\* Workbooks that are alike have formulas in the same cells.
LEMMA FormulasAlike ==
    ASSUME NEW a, IsBook(a), NEW b, IsBook(b), Alike(a, b), NEW S, OfFormulas(b, S)
    PROVE  OfFormulas(a, S)
<1>1. ASSUME NEW i \in 1..Len(a), NEW r \in Row
      PROVE  IsFormula(CellAt(a, i, r)) <=> IsFormula(CellAt(b, i, r))
  <2>1. CellAt(a, i, r).f = CellAt(b, i, r).f
    BY AlikeCells
  <2> QED
    BY <2>1 DEF IsFormula
<1>2. Len(a) = Len(b)
  BY DEF Alike
<1> QED
  BY <1>1, <1>2 DEF OfFormulas

\* What is alike to an alike is alike.
LEMMA AlikeTwice ==
    ASSUME NEW a, IsBook(a), NEW b, IsBook(b), NEW c, IsBook(c), Alike(a, b), Alike(b, c)
    PROVE  Alike(a, c)
  BY AlikeIs

\* The value of a formula is a number.
LEMMA EvaluateIs ==
    ASSUME NEW wb, IsBook(wb), NEW s, NEW c \in Cell
    PROVE  Evaluate(wb, s, c) \in Int
<1> DEFINE read == Edges(wb, s, c)
           at == CHOOSE x \in read : TRUE
           v == CellAt(wb, at[1], at[2]).v
<1>1. CASE read = {}
  BY <1>1 DEF Evaluate, RefValue
<1>2. CASE read # {}
  <2>1. at \in read
    BY <1>2
  <2>2. IsReading(c)
    BY <1>2 DEF Edges
  <2> DEFINE T == {t \in 1..Len(wb) : ReadsSheet(wb, s, c, t)}
  <2>31. read = {<<t, c.f[2]>> : t \in T}
    BY <2>2 DEF Edges
  <2> HIDE DEF at, read
  <2>32. PICK t \in T : at = <<t, c.f[2]>>
    BY <2>1, <2>31
  <2>3. t \in 1..Len(wb)
    OBVIOUS
  <2>4. c.f[2] \in Row
    BY <2>2, ReadingIs
  <2>5. at[1] = t /\ at[2] = c.f[2]
    BY <2>32
  <2>61. wb[t].cells[c.f[2]] \in Cell
    BY <2>3, <2>4, BookIs
  <2>6. CellAt(wb, at[1], at[2]) \in Cell
    BY <2>5, <2>61 DEF CellAt
  <2>7. v \in Int
    BY <2>6, CellIs
  <2>8. Evaluate(wb, s, c) = CASE v = RefValue -> RefValue
               [] v = Blank    -> 1
               [] OTHER        -> v + 1
    BY <1>2 DEF Evaluate, at, read
  <2> HIDE DEF v
  <2> QED
    BY <2>7, <2>8 DEF RefValue
<1> QED
  BY <1>1, <1>2

\* Cells of the workbook that hold formulas, finitely many.
Calculated(wb, S) == S \subseteq CellsOf(wb) /\ IsFiniteSet(S) /\ OfFormulas(wb, S)

\* Some of such cells are such cells.
LEMMA CalculatedPart ==
    ASSUME NEW wb, NEW S, Calculated(wb, S), NEW T, T \subseteq S
    PROVE  Calculated(wb, T)
<1>1. IsFiniteSet(T)
  BY FS_Subset DEF Calculated
<1> QED
  BY <1>1 DEF Calculated, OfFormulas

\* Values that are numbers, put in such cells.
LEMMA ValuesIn ==
    ASSUME NEW wb, IsBook(wb), NEW now, IsBook(now), Alike(now, wb),
           NEW S, Calculated(wb, S), NEW values, DOMAIN values \subseteq S,
           \A at \in DOMAIN values : values[at] \in Int
    PROVE  IsBook(WithValues(now, values)) /\ Alike(WithValues(now, values), wb)
<1>1. OfFormulas(now, S)
  BY FormulasAlike DEF Calculated
<1>2. \A i \in 1..Len(now), r \in Row : <<i, r>> \in DOMAIN values => IsFormula(CellAt(now, i, r))
  BY <1>1 DEF OfFormulas
<1>3. IsBook(WithValues(now, values)) /\ Alike(WithValues(now, values), now)
  BY <1>2, ValuesOnly
<1> QED
  BY <1>3, AlikeTwice

\* Every pass of a calculation.
LEMMA PassesOnlyValues ==
    ASSUME NEW wb, IsBook(wb), NEW graf, NEW recompute, Calculated(wb, recompute)
    PROVE  /\ IsBook(InOrderOf(wb, graf, recompute).wb)
           /\ Alike(InOrderOf(wb, graf, recompute).wb, wb)
<1> DEFINE k == Cardinality(recompute)
<1>1. k \in Nat
  BY FS_CardinalityType DEF Calculated
<1>2. PICK f : /\ InOrderOf(wb, graf, recompute) = f[k]
               /\ f[0] = [wb |-> wb, done |-> {}]
               /\ \A m \in 1..k : f[m] = PassOver(f[m - 1], graf, recompute)
  BY <1>1, PassedIs
<1> HIDE DEF k
<1> DEFINE Good(m) == IsBook(f[m].wb) /\ Alike(f[m].wb, wb)
           T == {m \in 0..k : ~Good(m)}
<1>3. Good(0)
  BY <1>2 DEF Alike
<1>4. ASSUME NEW m \in 1..k, Good(m - 1) PROVE Good(m)
  <2> DEFINE before == f[m - 1]
             ready == ReadyIn(graf, recompute, before.done)
             values == [at \in ready |->
                          Evaluate(before.wb, at[1], CellAt(before.wb, at[1], at[2]))]
             after == WithValues(before.wb, values)
             done == before.done \cup ready
  <2>1. f[m] = [wb |-> after, done |-> done]
    BY <1>2 DEF PassOver
  <2>2. ready \subseteq recompute
    BY DEF ReadyIn
  <2> HIDE DEF ready
  <2>3. ASSUME NEW at \in ready
        PROVE  values[at] \in Int
    <3>1. at \in CellsOf(wb)
      BY <2>2 DEF Calculated
    <3>2. PICK i \in 1..Len(wb), r \in Row : at = <<i, r>>
      BY <3>1 DEF CellsOf
    <3>3. Len(before.wb) = Len(wb)
      BY <1>4 DEF Alike
    <3> HIDE DEF before
    <3>4. IsBook(before.wb)
      BY <1>4 DEF before
    <3>5. before.wb[i].cells[r] \in Cell
      BY <3>3, <3>4, BookIs
    <3>6. at[1] = i /\ at[2] = r
      BY <3>2
    <3> DEFINE c == CellAt(before.wb, at[1], at[2])
    <3>7. c \in Cell
      BY <3>5, <3>6 DEF CellAt
    <3> HIDE DEF c
    <3>8. Evaluate(before.wb, at[1], c) \in Int
      BY <3>4, <3>7, EvaluateIs
    <3> QED
      BY <3>8 DEF c
  <2>4. DOMAIN values = ready
    OBVIOUS
  <2> HIDE DEF values, done
  <2>5. IsBook(after) /\ Alike(after, wb)
    <3>1. IsBook(before.wb) /\ Alike(before.wb, wb)
      BY <1>4
    <3> HIDE DEF before
    <3>2. DOMAIN values \subseteq recompute /\ \A at \in DOMAIN values : values[at] \in Int
      BY <2>2, <2>3, <2>4
    <3> QED
      BY <3>1, <3>2, ValuesIn
  <2> HIDE DEF after
  <2> QED
    BY <2>1, <2>5
<1>5. T = {}
  <2> SUFFICES ASSUME T # {} PROVE FALSE
    OBVIOUS
  <2>1. T \subseteq Nat
    BY <1>1
  <2>2. PICK m \in T : m = 0 \/ (m - 1 \in Nat /\ m - 1 \notin T)
    BY <2>1, FirstOfThem
  <2>3. m \in 0..k /\ ~Good(m)
    OBVIOUS
  <2> HIDE DEF Good
  <2>4. m \in 1..k /\ m - 1 \in 0..k
    BY <1>1, <1>3, <2>3
  <2> QED
    BY <1>4, <2>2, <2>3, <2>4
<1> QED
  BY <1>1, <1>2, <1>5

\* Evaluating in order and zeroing the rest.
LEMMA RunOnlyValues ==
    ASSUME NEW wb, IsBook(wb), NEW graf, NEW recompute, Calculated(wb, recompute)
    PROVE  /\ IsBook(RunRecalc(wb, graf, recompute))
           /\ Alike(RunRecalc(wb, graf, recompute), wb)
<1> DEFINE ordered == InOrderOf(wb, graf, recompute)
           values == [at \in recompute \ ordered.done |-> 0]
<1>1. IsBook(ordered.wb) /\ Alike(ordered.wb, wb)
  BY PassesOnlyValues
<1>2. RunRecalc(wb, graf, recompute) = WithValues(ordered.wb, values)
  BY DEF RunRecalc
<1> HIDE DEF ordered
<1>3. DOMAIN values \subseteq recompute /\ \A at \in DOMAIN values : values[at] \in Int
  OBVIOUS
<1> HIDE DEF values
<1>4. IsBook(WithValues(ordered.wb, values)) /\ Alike(WithValues(ordered.wb, values), wb)
  BY <1>1, <1>3, ValuesIn
<1> QED
  BY <1>2, <1>4

\* The graph of a workbook is over its formulas.
LEMMA BuiltIsCalculated ==
    ASSUME NEW wb, IsBook(wb)
    PROVE  Calculated(wb, BuildGraph(wb).nodes)
<1> DEFINE nodes == {at \in CellsOf(wb) : IsFormula(CellAt(wb, at[1], at[2]))}
           reads == UNION {{at} \X Edges(wb, at[1], CellAt(wb, at[1], at[2])) : at \in nodes}
<1>1. BuildGraph(wb) = [nodes |-> nodes, reads |-> reads]
  BY DEF BuildGraph, Graph
<1>2. IsFiniteSet(BuildGraph(wb).nodes)
  BY GraphIsFinite, BookIs
<1>3. nodes \subseteq CellsOf(wb)
  OBVIOUS
<1>4. OfFormulas(wb, nodes)
  <2> SUFFICES ASSUME NEW i \in 1..Len(wb), NEW r \in Row, <<i, r>> \in nodes
               PROVE  IsFormula(CellAt(wb, i, r))
    BY DEF OfFormulas
  <2> QED
    OBVIOUS
<1> HIDE DEF nodes, reads
<1>5. BuildGraph(wb).nodes = nodes
  BY <1>1
<1> QED
  BY <1>2, <1>3, <1>4, <1>5 DEF Calculated

\* A calculation of everything leaves what was typed.
LEMMA AllOnlyValues ==
    ASSUME NEW wb, IsBook(wb)
    PROVE  IsBook(RecalcAll(wb)) /\ Plain(RecalcAll(wb)) = Plain(wb)
           /\ Calculated(RecalcAll(wb), BuildGraph(wb).nodes)
<1> DEFINE g == BuildGraph(wb)
<1>1. Calculated(wb, g.nodes)
  BY BuiltIsCalculated
<1>2. RecalcAll(wb) = RunRecalc(wb, g, g.nodes)
  BY DEF RecalcAll
<1> HIDE DEF g
<1>3. IsBook(RecalcAll(wb)) /\ Alike(RecalcAll(wb), wb)
  BY <1>1, <1>2, RunOnlyValues
<1>4. Calculated(RecalcAll(wb), g.nodes)
  <2>1. OfFormulas(RecalcAll(wb), g.nodes)
    BY <1>1, <1>3, FormulasAlike DEF Calculated
  <2>2. CellsOf(RecalcAll(wb)) = CellsOf(wb)
    BY <1>3 DEF Alike, CellsOf
  <2> QED
    BY <1>1, <2>1, <2>2 DEF Calculated
<1> QED
  BY <1>3, <1>4, AlikeIs DEF g

\* So does a calculation of what an edit could have changed.
LEMMA SomeOnlyValues ==
    ASSUME NEW wb, IsBook(wb), NEW g, Calculated(wb, g.nodes), NEW seeds
    PROVE  /\ IsBook(RecalcAfter(wb, g, seeds)) /\ Plain(RecalcAfter(wb, g, seeds)) = Plain(wb)
           /\ Calculated(RecalcAfter(wb, g, seeds), g.nodes)
<1> DEFINE some == CollectRecompute(g, seeds)
           now == RecalcAfter(wb, g, seeds)
<1>1. some \subseteq g.nodes
  BY DEF CollectRecompute
<1>2. now = RunRecalc(wb, g, some)
  BY DEF RecalcAfter
<1> HIDE DEF some, now
<1>3. Calculated(wb, some)
  BY <1>1, CalculatedPart
<1>4. IsBook(now) /\ Alike(now, wb)
  BY <1>2, <1>3, RunOnlyValues
<1>5. Calculated(now, g.nodes)
  <2>1. OfFormulas(now, g.nodes)
    BY <1>4, FormulasAlike DEF Calculated
  <2>2. CellsOf(now) = CellsOf(wb)
    BY <1>4 DEF Alike, CellsOf
  <2> QED
    BY <2>1, <2>2 DEF Calculated
<1>6. Plain(now) = Plain(wb)
  BY <1>4, AlikeIs
<1> QED
  BY <1>4, <1>5, <1>6 DEF now

\* One formula set: the graph is over the formulas of the workbook after it.
LEMMA SetFormulaCalculated ==
    ASSUME NEW wb, IsBook(wb), NEW g, Calculated(wb, g.nodes),
           NEW s \in 1..Len(wb), NEW r \in Row, NEW c \in Cell
    PROVE  Calculated(WithCell(wb, s, r, c), SetFormula(g, WithCell(wb, s, r, c), <<s, r>>).nodes)
<1> DEFINE now == WithCell(wb, s, r, c)
           at == <<s, r>>
           left == g.nodes \ {at}
           reads == {e \in g.reads : e[1] # at}
           d == CellAt(now, at[1], at[2])
           more == reads \cup ({at} \X Edges(now, at[1], d))
           g2 == SetFormula(g, now, at)
<1>1. /\ IsBook(now) /\ Len(now) = Len(wb)
      /\ \A i \in 1..Len(wb), q \in Row :
           now[i].cells[q] = IF i = s /\ q = r THEN c ELSE wb[i].cells[q]
  BY WithCellIs
<1>2. \/ IsFormula(d) /\ g2 = [nodes |-> left \cup {at}, reads |-> more]
      \/ ~IsFormula(d) /\ g2 = [nodes |-> left, reads |-> reads]
  BY DEF SetFormula, Graph
<1>3. d = now[s].cells[r] /\ at \in CellsOf(wb)
  BY DEF CellAt, CellsOf
<1>4. IsFiniteSet(left) /\ IsFiniteSet(left \cup {at})
  BY FS_RemoveElement, FS_AddElement DEF Calculated
<1>5. left \subseteq CellsOf(wb) /\ at \notin left /\ left \subseteq g.nodes
  BY DEF Calculated
<1> HIDE DEF left, now, reads, more, d, g2
<1>6. \/ IsFormula(d) /\ g2.nodes = left \cup {at}
      \/ ~IsFormula(d) /\ g2.nodes = left
  BY <1>2
<1>7. ASSUME NEW i \in 1..Len(wb), NEW q \in Row, <<i, q>> \in left
      PROVE  IsFormula(CellAt(now, i, q))
  <2>1. ~(i = s /\ q = r)
    BY <1>5, <1>7
  <2>2. now[i].cells[q] = wb[i].cells[q]
    BY <1>1, <2>1
  <2>3. IsFormula(CellAt(wb, i, q))
    BY <1>5, <1>7 DEF Calculated, OfFormulas
  <2> QED
    BY <2>2, <2>3 DEF CellAt
<1>8. OfFormulas(now, g2.nodes)
  <2> SUFFICES ASSUME NEW i \in 1..Len(wb), NEW q \in Row, <<i, q>> \in g2.nodes
               PROVE  IsFormula(CellAt(now, i, q))
    BY <1>1 DEF OfFormulas
  <2>1. CASE <<i, q>> \in left
    BY <1>7, <2>1
  <2>2. CASE <<i, q>> \notin left
    <3>1. IsFormula(d) /\ i = s /\ q = r
      BY <1>6, <2>2
    <3> QED
      BY <1>3, <3>1 DEF CellAt
  <2> QED
    BY <2>1, <2>2
<1>9. CellsOf(now) = CellsOf(wb)
  BY <1>1 DEF CellsOf
<1> QED
  BY <1>3, <1>4, <1>5, <1>6, <1>8, <1>9 DEF Calculated, now, g2
=============================================================================
