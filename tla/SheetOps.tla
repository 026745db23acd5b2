----------------------------- MODULE SheetOps ------------------------------
(* The operations of the spreadsheet engine (crates/xlsx-ops): each one     *)
(* changes a workbook and returns the operations that take it back.         *)
(*                                                                          *)
(* A workbook is a sequence of sheets; a sheet has a name, one column of    *)
(* MaxRow cells and the charts made in this session.  A cell has a value    *)
(* and, when it is computed, a formula: the cell it reads plus one.  Rows   *)
(* stand for rows and columns (the code treats the two axes alike); styles, *)
(* comments, merges, filters, sorts, names and hyperlinks are left out, and *)
(* so are formulas that return arrays.                                      *)
EXTENDS Integers, Sequences, SequencesExt

CONSTANT MaxRow      \* the last row of a sheet (MAX_ROWS)

ASSUME MaxRowAssumption == MaxRow \in Nat \ {0}

Row == 1..MaxRow

Blank    == -1       \* the value of an empty cell
RefValue == -2       \* the error #REF!
Own      == ""       \* in a formula: the sheet the formula is on

NoFormula      == <<>>
RefFormula     == <<"#REF!">>
Reads(name, r) == <<name, r>>          \* =name!Ar+1, or =Ar+1 when name is Own

EmptyCell   == [v |-> Blank, f |-> NoFormula]
IsFormula(c) == c.f # NoFormula
IsReading(c) == Len(c.f) = 2

EmptyRows    == SubSeq([r \in Row |-> EmptyCell], 1, MaxRow)
NewSheet(nm) == [name |-> nm, cells |-> EmptyRows, charts |-> <<>>]

CellAt(wb, s, r)      == wb[s].cells[r]
WithCell(wb, s, r, c) == [wb EXCEPT ![s].cells[r] = c]
WithName(wb, s, nm)   == [wb EXCEPT ![s].name = nm]

\* The workbook with every cell replaced by what the function new gives for
\* it.  (SubSeq changes nothing: it makes TLC evaluate the sequence once.)
Listed(f, n) == SubSeq(f, 1, n)
MapCells(wb, new) ==
  Listed([s \in 1..Len(wb) |->
            [name   |-> wb[s].name,
             cells  |-> Listed([r \in Row |-> new[<<s, r>>]], MaxRow),
             charts |-> wb[s].charts]], Len(wb))

\* Every cell of the workbook, sheet by sheet and row by row.
CellsOf(wb)   == (1..Len(wb)) \X Row
InOrder(wb)   == Listed([n \in 1..(Len(wb) * MaxRow) |->
                           <<((n - 1) \div MaxRow) + 1, ((n - 1) % MaxRow) + 1>>],
                        Len(wb) * MaxRow)
NamesOf(wb)   == {wb[i].name : i \in 1..Len(wb)}
IndexOf(wb, nm) == CHOOSE i \in 1..Len(wb) : wb[i].name = nm

----------------------------------------------------------------------------
(* The operations, as the records that stand in transactions and in the     *)
(* undo history.                                                            *)

SetCell(s, r, c)        == [op |-> "SetCell", sheet |-> s, at |-> r, cell |-> c]
InsertRow(s, r)         == [op |-> "InsertRow", sheet |-> s, at |-> r]
DeleteRow(s, r)         == [op |-> "DeleteRow", sheet |-> s, at |-> r]
AddSheet(i, nm)         == [op |-> "AddSheet", index |-> i, name |-> nm]
RemoveSheet(i)          == [op |-> "RemoveSheet", index |-> i]
RenameSheet(s, nm)      == [op |-> "RenameSheet", sheet |-> s, name |-> nm]
RestoreSheet(s, nm, fs) == [op |-> "RestoreSheet", sheet |-> s, name |-> nm,
                            formulas |-> fs]
AddChart(s, i, d)       == [op |-> "AddChart", sheet |-> s, index |-> i, drawing |-> d]
RemoveChart(s, i, d)    == [op |-> "RemoveChart", sheet |-> s, index |-> i, drawing |-> d]
SetAnchor(s, i, a)      == [op |-> "SetAnchor", sheet |-> s, index |-> i, anchor |-> a]

\* Operations on what never enters the shared document: the charts.
IsSidecar(op) == op.op \in {"AddChart", "RemoveChart", "SetAnchor"}

----------------------------------------------------------------------------
(* Moving addresses and the formulas that name them.                        *)

\* Where a row goes under a row operation; 0 when it is deleted or pushed
\* over the edge of the sheet.
RemapRow(r, op) ==
  CASE op.op = "InsertRow" -> IF r < op.at THEN r ELSE IF r = MaxRow THEN 0 ELSE r + 1
    [] op.op = "DeleteRow" -> IF r < op.at THEN r ELSE IF r = op.at THEN 0 ELSE r - 1
    [] OTHER -> r

\* The formula of a cell on sheet s reads sheet t.  An unknown name reads nothing.
ReadsSheet(wb, s, c, t) ==
  /\ IsReading(c)
  /\ \/ c.f[1] = Own /\ s = t
     \/ c.f[1] \in NamesOf(wb) /\ IndexOf(wb, c.f[1]) = t

\* The formula of c, when what it reads has moved.
RemapFormula(c, op) ==
  LET to == RemapRow(c.f[2], op)
  IN IF to = 0 THEN RefFormula ELSE Reads(c.f[1], to)

\* The cells whose formula op rewrites.
Rewritten(wb, op) ==
  {at \in CellsOf(wb) : LET c == CellAt(wb, at[1], at[2])
                        IN ReadsSheet(wb, at[1], c, op.sheet) /\ RemapRow(c.f[2], op) # c.f[2]}

RemapFormulas(wb, op) ==
  LET moved == Rewritten(wb, op)
  IN MapCells(wb, [at \in CellsOf(wb) |->
                    LET c == CellAt(wb, at[1], at[2])
                    IN IF at \in moved THEN [c EXCEPT !.f = RemapFormula(c, op)] ELSE c])

\* The elements of s that are in S.
Selected(s, S) ==
  LET kept[n \in 0..Len(s)] ==
        IF n = 0 THEN <<>>
        ELSE IF s[n] \in S THEN Append(kept[n - 1], s[n]) ELSE kept[n - 1]
  IN kept[Len(s)]

\* The operations that put back the cells at the given places.
Restores(wb, places) ==
  LET at == Selected(InOrder(wb), places)
  IN Listed([n \in 1..Len(at) |-> SetCell(at[n][1], at[n][2], CellAt(wb, at[n][1], at[n][2]))],
            Len(at))

Occupied(wb, s) == {r \in Row : CellAt(wb, s, r) # EmptyCell}

\* The cells of sheet t carried to where op takes their rows.
ShiftCells(wb, t, op) ==
  MapCells(wb, [at \in CellsOf(wb) |->
    IF at[1] # t THEN CellAt(wb, at[1], at[2])
    ELSE IF \E q \in Row : RemapRow(q, op) = at[2]
         THEN CellAt(wb, t, CHOOSE q \in Row : RemapRow(q, op) = at[2])
         ELSE EmptyCell])

----------------------------------------------------------------------------
(* What each operation does: the workbook after it and its inverse.         *)

Done(wb, inverse) == [wb |-> wb, inverse |-> inverse]

ApplySetCell(wb, op) ==
  Done(WithCell(wb, op.sheet, op.at, op.cell),
       <<SetCell(op.sheet, op.at, CellAt(wb, op.sheet, op.at))>>)

\* A row inserted or deleted: formulas are rewritten first, then the cells
\* shift.  The way back: the opposite operation, the cells that fell out, and
\* the formulas as they were.
RowsWithoutFormulas(wb, op, opposite) ==
  LET remapped == RemapFormulas(wb, op)
      fallen   == {<<op.sheet, r>> : r \in {q \in Occupied(wb, op.sheet) : RemapRow(q, op) = 0}}
  IN Done(ShiftCells(remapped, op.sheet, op), <<opposite>> \o Restores(remapped, fallen))
ApplyRows(wb, op, opposite) ==
  LET remapped == RemapFormulas(wb, op)
      fallen   == {<<op.sheet, r>> : r \in {q \in Occupied(wb, op.sheet) : RemapRow(q, op) = 0}}
  IN Done(ShiftCells(remapped, op.sheet, op),
          <<opposite>> \o Restores(remapped, fallen) \o Restores(wb, Rewritten(wb, op)))

ApplyInsertRow(wb, op) == ApplyRows(wb, op, DeleteRow(op.sheet, op.at))
ApplyDeleteRow(wb, op) == ApplyRows(wb, op, InsertRow(op.sheet, op.at))

ApplyAddSheet(wb, op) ==
  Done(InsertAt(wb, op.index, NewSheet(op.name)), <<RemoveSheet(op.index)>>)

\* A removed sheet comes back empty under its name and is filled cell by cell.
ApplyRemoveSheet(wb, op) ==
  LET i == op.index
  IN Done(RemoveAt(wb, i),
          <<AddSheet(i, wb[i].name)>> \o Restores(wb, {<<i, r>> : r \in Occupied(wb, i)}))

\* The formulas that name the sheet follow it to its new name.
ApplyRenameSheet(wb, op) ==
  LET old    == wb[op.sheet].name
      naming == {at \in CellsOf(wb) : LET c == CellAt(wb, at[1], at[2])
                                      IN IsReading(c) /\ c.f[1] = old /\ old # op.name}
      kept   == Restores(wb, naming)
      renamed == MapCells(wb, [at \in CellsOf(wb) |->
                   LET c == CellAt(wb, at[1], at[2])
                   IN IF at \in naming THEN [c EXCEPT !.f = Reads(op.name, c.f[2])] ELSE c])
  IN Done(WithName(renamed, op.sheet, op.name),
          <<RestoreSheet(op.sheet, old, kept)>>)

\* The inverse of a renaming: the name and the cells it kept, as they were.
ApplyRestoreSheet(wb, op) ==
  LET fs == op.formulas
      For(at) == {n \in 1..Len(fs) : <<fs[n].sheet, fs[n].at>> = at}
      restored == MapCells(wb, [at \in CellsOf(wb) |->
                    IF For(at) # {} THEN fs[CHOOSE n \in For(at) : TRUE].cell
                    ELSE CellAt(wb, at[1], at[2])])
  IN Done(WithName(restored, op.sheet, op.name),
          <<RestoreSheet(op.sheet, wb[op.sheet].name,
              Restores(wb, {<<fs[n].sheet, fs[n].at>> : n \in 1..Len(fs)}))>>)

ApplyAddChart(wb, op) ==
  Done([wb EXCEPT ![op.sheet].charts = InsertAt(@, op.index, op.drawing)],
       <<RemoveChart(op.sheet, op.index, op.drawing)>>)

ApplyRemoveChart(wb, op) ==
  Done([wb EXCEPT ![op.sheet].charts = RemoveAt(@, op.index)],
       <<AddChart(op.sheet, op.index, wb[op.sheet].charts[op.index])>>)

ApplySetAnchor(wb, op) ==
  Done([wb EXCEPT ![op.sheet].charts[op.index].anchor = op.anchor],
       <<SetAnchor(op.sheet, op.index, wb[op.sheet].charts[op.index].anchor)>>)

Apply(wb, op) ==
  CASE op.op = "SetCell"      -> ApplySetCell(wb, op)
    [] op.op = "InsertRow"    -> ApplyInsertRow(wb, op)
    [] op.op = "DeleteRow"    -> ApplyDeleteRow(wb, op)
    [] op.op = "AddSheet"     -> ApplyAddSheet(wb, op)
    [] op.op = "RemoveSheet"  -> ApplyRemoveSheet(wb, op)
    [] op.op = "RenameSheet"  -> ApplyRenameSheet(wb, op)
    [] op.op = "RestoreSheet" -> ApplyRestoreSheet(wb, op)
    [] op.op = "AddChart"     -> ApplyAddChart(wb, op)
    [] op.op = "RemoveChart"  -> ApplyRemoveChart(wb, op)
    [] op.op = "SetAnchor"    -> ApplySetAnchor(wb, op)

\* A list of operations in turn; the inverses stand in the opposite order.
ApplyOps(wb, ops) ==
  LET done[n \in 0..Len(ops)] ==
        IF n = 0 THEN Done(wb, <<>>)
        ELSE LET before == done[n - 1]
                 step   == Apply(before.wb, ops[n])
             IN Done(step.wb, step.inverse \o before.inverse)
  IN done[Len(ops)]
=============================================================================
