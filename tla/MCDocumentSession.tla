------------------------- MODULE MCDocumentSession -------------------------
(***************************************************************************)
(* DocumentSession on small sets.  A configuration chooses the kinds in    *)
(* use, which kind each path names, which edits the PresentationML writer  *)
(* refuses, and how much the user does.                                    *)
(***************************************************************************)
EXTENDS DocumentSession, TLC

CONSTANTS P1, P2

AllDocx == P1 :> "docx"
AllXlsx == P1 :> "xlsx"
AllPptx == P1 :> "pptx"
XlsxAndDocx == P1 :> "xlsx" @@ P2 :> "docx"

\* The third route is only taken from, and to, what is not a workbook: bound.  No
\* step that has to come is held back by it.
AnswerNext == Next /\ (routes' = 3 => documentRef'.kind # "xlsx")

AnswerSpec == Init /\ [][AnswerNext]_vars /\ Fairness
=============================================================================
