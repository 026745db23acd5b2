---------------------------- MODULE MCWorkbook -----------------------------
(* Workbook with a file of two sheets of two rows, where the second sheet   *)
(* reads the first and itself.                                              *)
EXTENDS Workbook

Number(n)   == [v |-> n, f |-> NoFormula]
Typed(f)    == [v |-> Blank, f |-> f]
Sheet(nm, first, second) == [name |-> nm, cells |-> <<first, second>>, charts |-> <<>>]

MCOpened == <<Sheet("A", Number(5), EmptyCell),
              Sheet("B", [v |-> 6, f |-> Reads("A", 1)], [v |-> 7, f |-> Reads(Own, 1)])>>
MCNames  == {"A", "B", "C"}
MCInputs == {EmptyCell, Typed(Reads("A", 2))}
MCSuggestions == {<<2, 1, EmptyCell>>}
=============================================================================
