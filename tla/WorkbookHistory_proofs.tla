------------------------ MODULE WorkbookHistory_proofs ------------------------
(***************************************************************************)
(* Proofs about Workbook: undo and redo bring back what was there, for any *)
(* file, any edits and any undo depth.                                     *)
(*                                                                         *)
(* The argument.  A workbook without its calculated values is all that an  *)
(* edit, an undo or a redo is about, and the inverse of a list of          *)
(* operations leads back to the one there was (Workbook_proofs).  So the   *)
(* operations that can be undone, the newest first, walk from the workbook *)
(* as it is back through the contents that the user went through, and      *)
(* those that can be redone walk forward; this trail is the inductive      *)
(* invariant.  Together with the keys and origins of Workbook_proofs it    *)
(* shows that Workbook implements LinearHistory.                           *)
(*                                                                         *)
(* Along that line every content is whole - its sheets have different      *)
(* names and its charts the cells they were made over - and near the next: *)
(* a sheet that is in both keeps its name, or its place while the name it  *)
(* had is free.  An edit only goes from a whole content to a whole content *)
(* near it, and to be near is mutual, so undo and redo find charts and the *)
(* shown sheet where they belong although they ask for neither.            *)
(*                                                                         *)
(* The authority goes the same way without the charts.  The operations of  *)
(* the histories carry the keys along with the sheets, a new sheet under a *)
(* key that neither end of them has otherwise; so a sheet whose key was in *)
(* use is the one there was but for the cells that were set, and those are *)
(* written under its key.                                                  *)
(***************************************************************************)
EXTENDS Workbook_proofs

-----------------------------------------------------------------------------
(* Contents.                                                               *)

\* The contents a workbook can have, and the sheets of one.
Contents == [sheets : Seq(Charted), origins : Seq(Origins), keys : Seq(Keys)]
SheetsOf(wb) == [i \in 1..Len(wb) |-> [sheet |-> AuthoredSheet(wb[i]), charts |-> wb[i].charts]]

\* The content of a workbook is one.
LEMMA SheetsOfBook ==
    ASSUME NEW wb, IsBook(wb)
    PROVE  SheetsOf(wb) \in Seq(Charted)
<1>1. IsHistory(wb) /\ Len(wb) \in Nat
  BY BookIs
<1>2. ASSUME NEW i \in 1..Len(wb) PROVE SheetsOf(wb)[i] \in Charted
  <2> DEFINE name == wb[i].name
             cells == [r \in Row |-> Authored(wb[i].cells[r])]
             charts == wb[i].charts
             sh == [name |-> name, cells |-> cells]
  <2>1. SheetsOf(wb)[i] = [sheet |-> sh, charts |-> charts]
    BY DEF SheetsOf, AuthoredSheet
  <2>2. name \in Names /\ charts \in Seq(Chart)
    BY BookIs
  <2>3. ASSUME NEW r \in Row PROVE Authored(wb[i].cells[r]) \in Cell
    <3>1. wb[i].cells[r] \in Cell
      BY BookIs
    <3> QED
      BY <3>1, AuthoredIs
  <2>4. cells \in [Row -> Cell]
    BY <2>3
  <2> HIDE DEF name, cells, charts
  <2>5. sh \in [name : Names, cells : [Row -> Cell]]
    BY <2>2, <2>4
  <2> HIDE DEF sh
  <2> QED
    BY <2>1, <2>2, <2>5 DEF Charted, Chart
<1>3. SheetsOf(wb) = [i \in 1..Len(wb) |-> SheetsOf(wb)[i]]
  BY DEF SheetsOf
<1> DEFINE s == SheetsOf(wb)
           n == Len(wb)
<1> HIDE DEF s, n
<1>4. s \in [1..n -> Charted]
  BY <1>2, <1>3 DEF s, n
<1>5. n \in Nat
  BY <1>1 DEF n
<1> QED
  BY <1>4, <1>5 DEF s

\* A content by its parts.
LEMMA ContentIs ==
    ASSUME NEW wb, NEW from, NEW keys
    PROVE  /\ Content(wb, from, keys) = [sheets |-> SheetsOf(wb), origins |-> from, keys |-> keys]
           /\ Content(wb, from, keys).sheets = SheetsOf(wb)
           /\ Content(wb, from, keys).origins = from
           /\ Content(wb, from, keys).keys = keys
<1> DEFINE s == SheetsOf(wb)
<1>1. Content(wb, from, keys) = [sheets |-> s, origins |-> from, keys |-> keys]
  BY DEF Content, SheetsOf
<1> HIDE DEF s
<1>2. /\ Content(wb, from, keys).sheets = s
      /\ Content(wb, from, keys).origins = from
      /\ Content(wb, from, keys).keys = keys
  BY <1>1
<1> QED
  BY <1>1, <1>2 DEF s

\* Origins and keys in step are typed.
LEMMA InStepTyped ==
    ASSUME NEW from, NEW keys, NEW next, InStep(from, keys, next)
    PROVE  from \in Seq(Origins) /\ keys \in Seq(Keys)
<1>1. /\ IsHistory(from) /\ IsHistory(keys) /\ Len(from) = Len(keys)
      /\ \A i \in 1..Len(from) : from[i] \in Origins
      /\ \A i \in 1..Len(keys) : keys[i] \in Keys
  BY DEF InStep
<1> QED
  BY <1>1, SequenceOf

\* The content of a workbook, with origins and keys in step, is a content.
LEMMA ContentTyped ==
    ASSUME NEW wb, IsBook(wb), NEW from, NEW keys, NEW next, InStep(from, keys, next)
    PROVE  Content(wb, from, keys) \in Contents
<1>1. SheetsOf(wb) \in Seq(Charted) /\ from \in Seq(Origins) /\ keys \in Seq(Keys)
  BY SheetsOfBook, InStepTyped
<1>2. Content(wb, from, keys) = [sheets |-> SheetsOf(wb), origins |-> from, keys |-> keys]
  BY ContentIs
<1> DEFINE s == SheetsOf(wb)
<1> HIDE DEF s
<1>3. [sheets |-> s, origins |-> from, keys |-> keys] \in Contents
  BY <1>1 DEF Contents, s
<1> QED
  BY <1>2, <1>3 DEF s

\* A content is its parts.
LEMMA ContentParts ==
    ASSUME NEW c \in Contents
    PROVE  c = [sheets |-> c.sheets, origins |-> c.origins, keys |-> c.keys]
  BY DEF Contents

\* Workbooks that differ in calculated values only have the same sheets in
\* their contents.
LEMMA SameSheets ==
    ASSUME NEW a, IsBook(a), NEW b, IsBook(b), Plain(a) = Plain(b)
    PROVE  SheetsOf(a) = SheetsOf(b)
<1>1. Alike(a, b)
  BY AlikeIs
<1>2. Len(a) = Len(b)
  BY <1>1 DEF Alike
<1>3. ASSUME NEW i \in 1..Len(a)
      PROVE  AuthoredSheet(a[i]) = AuthoredSheet(b[i]) /\ a[i].charts = b[i].charts
  <2>1. /\ a[i].name = b[i].name /\ a[i].charts = b[i].charts
        /\ \A r \in Row : Authored(a[i].cells[r]) = Authored(b[i].cells[r])
    BY <1>1 DEF Alike
  <2>2. [r \in Row |-> Authored(a[i].cells[r])] = [r \in Row |-> Authored(b[i].cells[r])]
    BY <2>1
  <2> QED
    BY <2>1, <2>2 DEF AuthoredSheet
<1>4. \A i \in 1..Len(a) : [sheet |-> AuthoredSheet(a[i]), charts |-> a[i].charts]
                           = [sheet |-> AuthoredSheet(b[i]), charts |-> b[i].charts]
  BY <1>3
<1> QED
  BY <1>2, <1>4 DEF SheetsOf

\* So have those without any.
LEMMA PlainSheets ==
    ASSUME NEW wb, IsBook(wb)
    PROVE  SheetsOf(Plain(wb)) = SheetsOf(wb)
  BY PlainIs, PlainTwice, SameSheets

-----------------------------------------------------------------------------
(* The trail of the contents.                                              *)

\* The newest of the operations lead from the workbook as it is, start, through
\* those that the contents kept beside them have.
Mark(stk, pres, conts, to, p, j) ==
  /\ Walks(p[j - 1], FromTop(stk, j), p[j])
  /\ FromTop(conts, j).sheets = SheetsOf(p[j])
  /\ FromTop(conts, j).origins = FromTop(pres, j)[to]
Trail(stk, pres, conts, to, start) ==
  \E p : p[0] = start /\ \A j \in 1..Len(stk) : Mark(stk, pres, conts, to, p, j)

\* No operation leaves no trail.
LEMMA NothingTrails ==
    ASSUME NEW pres, NEW conts, NEW to, NEW start
    PROVE  Trail(<<>>, pres, conts, to, start)
<1> DEFINE p == [j \in {0} |-> start]
<1>1. Len(<<>>) = 0
  BY EmptyHistory
<1>2. p[0] = start
  OBVIOUS
<1> HIDE DEF p
<1>3. \A j \in 1..Len(<<>>) : Mark(<<>>, pres, conts, to, p, j)
  BY <1>1
<1> QED
  BY <1>2, <1>3 DEF Trail

\* An edit is put on top.
LEMMA TrailPush ==
    ASSUME NEW stk, IsHistory(stk), NEW pres, NEW conts, NEW to, NEW start,
           Trail(stk, pres, conts, to, start),
           NEW stk2, NEW pres2, NEW conts2, NEW start2, NEW back, NEW kept, NEW cont,
           OnTop(stk2, stk, back), OnTop(pres2, pres, kept), OnTop(conts2, conts, cont),
           Len(pres2) = Len(stk2), Len(conts2) = Len(stk2),
           Walks(start2, back, start), cont.sheets = SheetsOf(start), cont.origins = kept[to]
    PROVE  Trail(stk2, pres2, conts2, to, start2)
<1>1. PICK p : p[0] = start /\ \A j \in 1..Len(stk) : Mark(stk, pres, conts, to, p, j)
  BY DEF Trail
<1> DEFINE l == Len(stk2)
           p2 == [j \in 0..l |-> IF j = 0 THEN start2 ELSE p[j - 1]]
<1>2. Len(stk) \in Nat /\ l \in Nat /\ l >= 1 /\ l <= Len(stk) + 1
  BY HistoryIsFunction DEF OnTop
<1>3. /\ \A j \in 0..l : j = 0 => p2[j] = start2
      /\ \A j \in 0..l : j # 0 => p2[j] = p[j - 1]
  OBVIOUS
<1> HIDE DEF p2
<1>4. p2[0] = start2
  BY <1>2, <1>3
<1>5. ASSUME NEW j \in 1..l PROVE Mark(stk2, pres2, conts2, to, p2, j)
  <2>1. CASE j = 1
    <3>1. 1 \in 0..l /\ 1 # 0 /\ 1 - 1 = 0
      BY <1>2
    <3>2. p2[1] = start /\ p2[1 - 1] = start2
      BY <1>1, <1>3, <1>4, <3>1
    <3>3. FromTop(stk2, 1) = back /\ FromTop(pres2, 1) = kept /\ FromTop(conts2, 1) = cont
      BY DEF OnTop
    <3> QED
      BY <2>1, <3>2, <3>3 DEF Mark
  <2>2. CASE j # 1
    <3> DEFINE m == j - 1
    <3>1. /\ m \in 1..Len(stk) /\ m \in 1..(l - 1) /\ m + 1 = j /\ j \in 0..l /\ j # 0 /\ m \in 0..l
          /\ m # 0 /\ m = j - 1
      BY <1>2, <2>2
    <3> HIDE DEF m
    <3>2. /\ FromTop(stk2, j) = FromTop(stk, m) /\ FromTop(pres2, j) = FromTop(pres, m)
          /\ FromTop(conts2, j) = FromTop(conts, m)
      BY <3>1 DEF OnTop
    <3>3. p2[j] = p[m] /\ p2[j - 1] = p[m - 1]
      BY <1>3, <3>1
    <3>4. Mark(stk, pres, conts, to, p, m)
      BY <1>1, <3>1
    <3> QED
      BY <3>2, <3>3, <3>4 DEF Mark
  <2> QED
    BY <2>1, <2>2
<1> QED
  BY <1>4, <1>5 DEF Trail

\* It is taken off.
LEMMA TrailPop ==
    ASSUME NEW stk, IsHistory(stk), stk # <<>>, NEW pres, Len(pres) = Len(stk),
           NEW conts, Len(conts) = Len(stk), NEW to, NEW start,
           Trail(stk, pres, conts, to, start)
    PROVE  \E under :
             /\ Walks(start, FromTop(stk, 1), under)
             /\ FromTop(conts, 1).sheets = SheetsOf(under)
             /\ FromTop(conts, 1).origins = FromTop(pres, 1)[to]
             /\ \A stk2, pres2, conts2 :
                  OffTop(stk2, stk) /\ OffTop(pres2, pres) /\ OffTop(conts2, conts)
                  => Trail(stk2, pres2, conts2, to, under)
<1>1. PICK p : p[0] = start /\ \A j \in 1..Len(stk) : Mark(stk, pres, conts, to, p, j)
  BY DEF Trail
<1>2. Len(stk) \in Nat /\ Len(stk) > 0 /\ 1 \in 1..Len(stk) /\ 1 - 1 = 0
  BY HistoryIsFunction
<1>3. Mark(stk, pres, conts, to, p, 1)
  BY <1>1, <1>2
<1>4. /\ Walks(start, FromTop(stk, 1), p[1])
      /\ FromTop(conts, 1).sheets = SheetsOf(p[1])
      /\ FromTop(conts, 1).origins = FromTop(pres, 1)[to]
  BY <1>1, <1>2, <1>3 DEF Mark
<1>5. ASSUME NEW stk2, NEW pres2, NEW conts2,
             OffTop(stk2, stk), OffTop(pres2, pres), OffTop(conts2, conts)
      PROVE  Trail(stk2, pres2, conts2, to, p[1])
  <2> DEFINE l == Len(stk) - 1
             p2 == [j \in 0..l |-> p[j + 1]]
  <2>1. l \in Nat /\ Len(stk2) = l
    BY <1>2, <1>5 DEF OffTop
  <2>2. \A j \in 0..l : p2[j] = p[j + 1]
    OBVIOUS
  <2> HIDE DEF p2
  <2>3. p2[0] = p[1]
    <3>1. 0 \in 0..l /\ 0 + 1 = 1
      BY <2>1
    <3> QED
      BY <2>2, <3>1
  <2>4. ASSUME NEW j \in 1..l PROVE Mark(stk2, pres2, conts2, to, p2, j)
    <3> DEFINE m == j + 1
    <3>1. /\ j \in 1..(Len(stk) - 1) /\ j \in 1..(Len(pres) - 1) /\ j \in 1..(Len(conts) - 1)
          /\ j \in 0..l /\ j - 1 \in 0..l
          /\ m \in 1..Len(stk) /\ (j - 1) + 1 = m - 1
      BY <1>2, <2>1
    <3>2. /\ FromTop(stk2, j) = FromTop(stk, m) /\ FromTop(pres2, j) = FromTop(pres, m)
          /\ FromTop(conts2, j) = FromTop(conts, m)
      BY <1>5, <3>1 DEF OffTop
    <3>3. p2[j] = p[m] /\ p2[j - 1] = p[m - 1]
      <4>1. p2[j - 1] = p[(j - 1) + 1]
        BY <2>2, <3>1
      <4> QED
        BY <2>2, <3>1, <4>1
    <3>4. Mark(stk, pres, conts, to, p, m)
      BY <1>1, <3>1
    <3> HIDE DEF m
    <3> QED
      BY <3>2, <3>3, <3>4 DEF Mark
  <2> QED
    BY <2>1, <2>3, <2>4 DEF Trail
<1> QED
  BY <1>4, <1>5

-----------------------------------------------------------------------------
(* What edits do.                                                          *)

\* One operation applied, and two.
LEMMA OneApplied ==
    ASSUME NEW wb, NEW op
    PROVE  ApplyOps(wb, <<op>>).wb = Apply(wb, op).wb
<1>1. IsHistory(<<op>>) /\ Len(<<op>>) = 1 /\ <<op>>[1] = op
  BY OneIsHistory
<1>2. PICK f : /\ ApplyOps(wb, <<op>>) = f[1]
               /\ f[0] = Done(wb, <<>>)
               /\ \A m \in 1..1 :
                    LET step == Apply(f[m - 1].wb, <<op>>[m])
                    IN f[m] = Done(step.wb, step.inverse \o f[m - 1].inverse)
  BY <1>1, AppliedIs
<1>3. f[1] = Done(Apply(f[0].wb, op).wb, Apply(f[0].wb, op).inverse \o f[0].inverse)
  BY <1>1, <1>2
<1>4. f[0].wb = wb
  BY <1>2 DEF Done
<1> QED
  BY <1>2, <1>3, <1>4 DEF Done

\* Two operations applied.
LEMMA TwoApplied ==
    ASSUME NEW wb, NEW x, NEW y
    PROVE  ApplyOps(wb, <<x, y>>).wb = Apply(Apply(wb, x).wb, y).wb
<1> DEFINE ops == <<x, y>>
<1>1. IsHistory(ops) /\ Len(ops) = 2 /\ ops[1] = x /\ ops[2] = y
  <2>1. Len(ops) = 2 /\ ops = [i \in 1..2 |-> ops[i]] /\ ops[1] = x /\ ops[2] = y
    OBVIOUS
  <2> HIDE DEF ops
  <2> QED
    BY <2>1, FunctionIsHistory
<1> HIDE DEF ops
<1>2. PICK f : /\ ApplyOps(wb, ops) = f[2]
               /\ f[0] = Done(wb, <<>>)
               /\ \A m \in 1..2 :
                    LET step == Apply(f[m - 1].wb, ops[m])
                    IN f[m] = Done(step.wb, step.inverse \o f[m - 1].inverse)
  BY <1>1, AppliedIs
<1>3. /\ f[1] = Done(Apply(f[0].wb, x).wb, Apply(f[0].wb, x).inverse \o f[0].inverse)
      /\ f[2] = Done(Apply(f[1].wb, y).wb, Apply(f[1].wb, y).inverse \o f[1].inverse)
  <2>1. 1 \in 1..2 /\ 2 \in 1..2 /\ 1 - 1 = 0 /\ 2 - 1 = 1
    OBVIOUS
  <2> QED
    BY <1>1, <1>2, <2>1
<1>4. f[0].wb = wb
  BY <1>2 DEF Done
<1>5. f[1].wb = Apply(wb, x).wb
  BY <1>3, <1>4 DEF Done
<1>6. f[2].wb = Apply(Apply(wb, x).wb, y).wb
  BY <1>3, <1>5 DEF Done
<1> QED
  BY <1>2, <1>6 DEF ops

\* A transaction over the structure walks along, once it is allowed.
LEMMA TransactionsWalk ==
    ASSUME IsBook(model), NEW ops \in Transactions,
           \A n \in 1..Len(ops) : Allowed(ApplyOps(model, SubSeq(ops, 1, n - 1)).wb, ops[n])
    PROVE  \E p : Walks(Plain(model), ops, p)
<1>1. Len(model) \in Nat /\ IsHistory(model) /\ \A i \in Sheets : model[i].name \in Names
  BY BookIs DEF Sheets
<1>2. ASSUME NEW op, Suits(model, op) PROVE \E p : Walks(Plain(model), <<op>>, p)
  BY <1>2, SuitedWalks
<1>3. ASSUME NEW i \in Sheets, 1 <= Len(ops), ops[1] = RemoveSheet(i)
      PROVE  Suits(model, RemoveSheet(i))
  <2>1. ops[1].op = "RemoveSheet"
    BY <1>3 DEF RemoveSheet
  <2>2. Allowed(ApplyOps(model, SubSeq(ops, 1, 1 - 1)).wb, ops[1])
    BY <1>3
  <2>3. NoChartStands
    BY <2>1, <2>2 DEF Allowed
  <2>4. model[i].charts = <<>>
    BY <2>3 DEF NoChartStands
  <2> QED
    BY <2>4 DEF RemoveSheet, Suits, Sheets
<1>4. CASE \E i \in Sheets : ops = <<RemoveSheet(i), AddSheet(i, model[i].name)>>
  <2>1. PICK i \in Sheets : ops = <<RemoveSheet(i), AddSheet(i, model[i].name)>>
    BY <1>4
  <2> DEFINE x == RemoveSheet(i)
             y == AddSheet(i, model[i].name)
             wb == Apply(model, x).wb
  <2>2. Suits(model, x)
    <3>1. 1 <= Len(ops) /\ ops[1] = RemoveSheet(i)
      BY <2>1
    <3> QED
      BY <1>3, <3>1
  <2>3. i \in 1..Len(model) /\ Len(model) - 1 + 1 = Len(model)
    BY <1>1 DEF Sheets
  <2>4. Fits(x, Len(model)) /\ SheetsAfter(x, Len(model)) = Len(model) - 1
    BY <2>3 DEF RemoveSheet, Fits, Kinds, SheetsAfter
  <2>5. ops = <<x>> \o <<y>>
    BY <2>1
  <2> HIDE DEF x
  <2>6. IsBook(wb) /\ Walks(Plain(model), <<x>>, Plain(wb))
    BY <2>2, SuitedWalks
  <2>7. Len(wb) = Len(model) - 1
    <3>1. Turns(model, x, Apply(model, x))
      BY <1>1, <2>4, EveryOperationTurns
    <3> QED
      BY <2>4, <3>1 DEF Turns
  <2> HIDE DEF wb
  <2>8. Suits(wb, y)
    BY <1>1, <2>3, <2>7 DEF AddSheet, Suits
  <2> HIDE DEF y
  <2>9. Walks(Plain(wb), <<y>>, Plain(Apply(wb, y).wb))
    BY <2>6, <2>8, SuitedWalks
  <2>10. Walks(Plain(model), <<x>> \o <<y>>, Plain(Apply(wb, y).wb))
    BY <2>6, <2>9, JoinedWalk
  <2> QED
    BY <2>5, <2>10
<1>5. ASSUME NEW s \in Sheets, NEW r \in Row, ops = <<InsertRow(s, r)>> \/ ops = <<DeleteRow(s, r)>>
      PROVE  \E op : ops = <<op>> /\ Suits(model, op)
  BY <1>5 DEF InsertRow, DeleteRow, Suits, Sheets
<1>6. ASSUME NEW i \in 1..(Len(model) + 1), NEW nm \in Names, ops = <<AddSheet(i, nm)>>
      PROVE  \E op : ops = <<op>> /\ Suits(model, op)
  BY <1>6 DEF AddSheet, Suits
<1>7. ASSUME NEW i \in Sheets, ops = <<RemoveSheet(i)>>
      PROVE  \E op : ops = <<op>> /\ Suits(model, op)
  <2>1. 1 <= Len(ops) /\ ops[1] = RemoveSheet(i)
    BY <1>7
  <2> QED
    BY <1>3, <1>7, <2>1
<1>8. ASSUME NEW i \in Sheets, NEW nm \in Names, ops = <<RenameSheet(i, nm)>>
      PROVE  \E op : ops = <<op>> /\ Suits(model, op)
  BY <1>8 DEF RenameSheet, Suits, Sheets
<1> QED
  BY <1>2, <1>4, <1>5, <1>6, <1>7, <1>8 DEF Transactions

\* A chart operation suits the workbook it is for.
LEMMA ChartOpsSuit ==
    ASSUME IsBook(model), NEW next, InStep(origins, order, next), Len(order) = Len(model),
           NEW op \in ChartOps
    PROVE  Suits(model, op) /\ ChartOp(op)
<1> DEFINE A(s) == {AddChart(s, Len(model[s].charts) + 1, ChartOn(t, a)) : t \in Sheets, a \in Anchors}
           B(s) == {SetAnchor(s, i, a) : i \in ChartsOf(s), a \in Anchors}
           C(s) == {RemoveChart(s, i, model[s].charts[i]) : i \in ChartsOf(s)}
<1>1. ChartOps = UNION {A(s) \cup B(s) \cup C(s) : s \in Sheets}
  BY DEF ChartOps
<1>2. ASSUME NEW s \in Sheets
      PROVE  s \in 1..Len(model) /\ model[s].name \in Names /\ order[s] \in Keys
             /\ Len(model[s].charts) \in Nat
  <2>1. s \in 1..Len(model) /\ model[s].name \in Names /\ model[s].charts \in Seq(Chart)
    BY BookIs DEF Sheets
  <2>2. order[s] \in Keys
    BY <2>1 DEF InStep
  <2> QED
    BY <2>1, <2>2
<1>3. ASSUME NEW s \in Sheets, NEW t \in Sheets, NEW a \in Anchors, NEW x,
             x = AddChart(s, Len(model[s].charts) + 1, ChartOn(t, a))
      PROVE  Suits(model, x) /\ ChartOp(x)
  <2>1. ChartOn(t, a) \in Chart
    BY <1>2 DEF ChartOn, Chart
  <2> DEFINE d == ChartOn(t, a)
  <2> HIDE DEF d
  <2>2. x = AddChart(s, Len(model[s].charts) + 1, d) /\ d \in Chart
    BY <1>3, <2>1 DEF d
  <2>3. Len(model[s].charts) + 1 \in 1..(Len(model[s].charts) + 1) /\ s \in 1..Len(model)
    BY <1>2
  <2> QED
    BY <2>2, <2>3 DEF AddChart, Suits, ChartOp
<1>4. ASSUME NEW s \in Sheets, NEW i \in ChartsOf(s), NEW a \in Anchors, NEW x,
             x = SetAnchor(s, i, a)
      PROVE  Suits(model, x) /\ ChartOp(x)
  BY <1>2, <1>4 DEF SetAnchor, Suits, ChartOp, ChartsOf
<1>5. ASSUME NEW s \in Sheets, NEW i \in ChartsOf(s), NEW x,
             x = RemoveChart(s, i, model[s].charts[i])
      PROVE  Suits(model, x) /\ ChartOp(x)
  BY <1>2, <1>5 DEF RemoveChart, Suits, ChartOp, ChartsOf
<1>6. ASSUME NEW s \in Sheets PROVE \A x \in A(s) \cup B(s) \cup C(s) : Suits(model, x) /\ ChartOp(x)
  BY <1>3, <1>4, <1>5
<1> HIDE DEF A, B, C
<1> QED
  BY <1>1, <1>6

-----------------------------------------------------------------------------
(* The invariant.                                                          *)

\* The model is a workbook, and its graph is over cells with formulas.
BookKept == IsBook(model) /\ Calculated(model, graph.nodes)

\* The operations that can be undone lead back through the contents there
\* were, and those that can be redone forward.
PathsKept ==
  /\ seen \in Seq(Contents) /\ undone \in Seq(Contents)
  /\ Trail(undoOps, preservedUndo, seen, "before", Plain(model))
  /\ Trail(redoOps, preservedRedo, undone, "after", Plain(model))

\* What is proposed can be typed.
ProposalsTyped == \A n \in 1..Len(proposals) : proposals[n].at \in Row /\ proposals[n].input \in Cell

\* The invariant.
BookInv == BookKept /\ PathsKept /\ ProposalsTyped

\* Sequences of contents stay sequences of contents.
LEMMA ContentsKept ==
    ASSUME NEW s \in Seq(Contents), NEW c \in Contents
    PROVE  /\ Append(s, c) \in Seq(Contents)
           /\ Len(s) <= MaxUndoDepth => Push(s, c) \in Seq(Contents)
           /\ s # <<>> => Front(s) \in Seq(Contents) /\ Last(s) \in Contents
<1>1. IsHistory(s) /\ \A i \in 1..Len(s) : s[i] \in Contents
  BY HistoryOf
<1>2. Append(s, c) \in Seq(Contents)
  OBVIOUS
<1>3. ASSUME Len(s) <= MaxUndoDepth PROVE Push(s, c) \in Seq(Contents)
  <2> DEFINE t == Push(s, c)
  <2>1. /\ IsHistory(t) /\ Len(t) = (IF Len(s) < MaxUndoDepth THEN Len(s) + 1 ELSE MaxUndoDepth)
        /\ t[Len(t)] = c
        /\ \A n \in 1..(Len(t) - 1) : t[n] = s[n + Len(s) + 1 - Len(t)]
    BY <1>1, <1>3, PushToHistory
  <2>2. Len(s) \in Nat /\ MaxUndoDepth \in Nat
    BY <1>1, HistoryIsFunction, DepthAssumption
  <2> HIDE DEF t
  <2>3. ASSUME NEW n \in 1..Len(t) PROVE t[n] \in Contents
    <3>1. CASE n = Len(t)
      BY <2>1, <3>1
    <3>2. CASE n # Len(t)
      <4>1. n \in 1..(Len(t) - 1) /\ n + Len(s) + 1 - Len(t) \in 1..Len(s)
        BY <1>3, <2>1, <2>2, <3>2
      <4> QED
        BY <1>1, <2>1, <4>1
    <3> QED
      BY <3>1, <3>2
  <2> QED
    BY <2>1, <2>3, SequenceOf DEF t
<1>4. ASSUME s # <<>> PROVE Front(s) \in Seq(Contents) /\ Last(s) \in Contents
  <2>1. /\ IsHistory(Front(s)) /\ Len(Front(s)) = Len(s) - 1
        /\ \A n \in 1..(Len(s) - 1) : Front(s)[n] = s[n]
        /\ Last(s) = s[Len(s)]
    BY <1>1, <1>4, FrontOfHistory
  <2>2. Len(s) \in Nat /\ Len(s) > 0
    BY <1>1, <1>4, HistoryIsFunction
  <2>3. ASSUME NEW n \in 1..Len(Front(s)) PROVE Front(s)[n] \in Contents
    BY <1>1, <2>1, <2>2
  <2>4. Front(s) \in Seq(Contents)
    BY <2>1, <2>3, SequenceOf
  <2> QED
    BY <1>1, <2>1, <2>2, <2>4
<1> QED
  BY <1>2, <1>3, <1>4

\* An edit enters the histories; its inverse walks back to the content that was.
LEMMA CommitKeepsPaths ==
    ASSUME HistoryInv, AuthorityKept, IsBook(model), PathsKept, NEW ops, NEW p,
           Walks(Plain(model), ops, p), Commit(ops, ApplyOps(model, ops).inverse),
           IsBook(model'), Plain(model') = p, AuthorityKept'
    PROVE  PathsKept' /\ History!Edit
<1> DEFINE back == ApplyOps(model, ops).inverse
           kept == [before |-> origins, after |-> origins']
           cont == Content(model, origins, order)
<1>1. /\ undoOps' = Push(undoOps, back) /\ redoOps' = <<>>
      /\ preservedUndo' = Push(preservedUndo, kept)
      /\ seen' = Push(seen, cont) /\ undone' = <<>>
  BY DEF Commit, PushPreserved
<1>2. /\ IsHistory(undoOps) /\ IsHistory(preservedUndo)
      /\ Len(undoOps) <= MaxUndoDepth /\ Len(preservedUndo) = Len(undoOps)
      /\ MaxUndoDepth \in Nat /\ Len(undoOps) \in Nat
  BY HistoryLengths, DepthAssumption DEF HistoryInv, Histories
<1>3. /\ IsHistory(seen) /\ Len(seen) = Len(undoOps)
      /\ InStep(origins, order, nextKey) /\ InStep(origins', order', nextKey')
  BY DEF AuthorityKept
<1>4. /\ seen \in Seq(Contents)
      /\ Trail(undoOps, preservedUndo, seen, "before", Plain(model))
  BY DEF PathsKept
<1>5. Walks(p, back, Plain(model))
  BY ApplyingWalks
<1>6. cont.sheets = SheetsOf(Plain(model)) /\ cont.origins = kept["before"]
  <2>1. cont.sheets = SheetsOf(model) /\ cont.origins = origins
    BY ContentIs
  <2>2. SheetsOf(Plain(model)) = SheetsOf(model)
    BY PlainSheets
  <2> QED
    BY <2>1, <2>2
<1>7. cont \in Contents /\ Content(model', origins', order') \in Contents
  BY <1>3, ContentTyped
<1>8. History!Edit
  <2>1. seen' = Push(seen, Content(model, origins, order)) /\ undone' = <<>>
        /\ Content(model', origins', order') \in Contents
    BY <1>1, <1>7
  <2> QED
    BY <2>1 DEF History!Edit, History!Newest, Push, Capped, Contents
<1> HIDE DEF back, kept, cont
<1>9. /\ OnTop(undoOps', undoOps, back) /\ OnTop(preservedUndo', preservedUndo, kept)
      /\ OnTop(seen', seen, cont)
      /\ Len(preservedUndo') = Len(undoOps') /\ Len(seen') = Len(undoOps')
  <2>1. /\ Len(undoOps) <= MaxUndoDepth /\ Len(preservedUndo) <= MaxUndoDepth /\ Len(seen) <= MaxUndoDepth
    BY <1>2, <1>3
  <2>2. /\ OnTop(Push(undoOps, back), undoOps, back)
        /\ Len(Push(undoOps, back)) = IF Len(undoOps) < MaxUndoDepth THEN Len(undoOps) + 1 ELSE MaxUndoDepth
        /\ OnTop(Push(preservedUndo, kept), preservedUndo, kept)
        /\ Len(Push(preservedUndo, kept)) = IF Len(undoOps) < MaxUndoDepth THEN Len(undoOps) + 1 ELSE MaxUndoDepth
        /\ OnTop(Push(seen, cont), seen, cont)
        /\ Len(Push(seen, cont)) = IF Len(undoOps) < MaxUndoDepth THEN Len(undoOps) + 1 ELSE MaxUndoDepth
    BY <1>2, <1>3, <2>1, TopOfPush
  <2> QED
    BY <1>1, <2>2
<1>10. Trail(undoOps', preservedUndo', seen', "before", p)
  BY <1>2, <1>4, <1>5, <1>6, <1>9, TrailPush
<1>11. Trail(redoOps', preservedRedo', undone', "after", p)
  BY <1>1, NothingTrails
<1>12. seen' \in Seq(Contents) /\ undone' \in Seq(Contents)
  <2>1. seen' \in Seq(Contents)
    BY <1>1, <1>2, <1>3, <1>4, <1>7, ContentsKept
  <2> QED
    BY <1>1, <2>1
<1> QED
  BY <1>8, <1>10, <1>11, <1>12 DEF PathsKept

\* An entry is turned over from one history, stk, to the other, stk3: the
\* operations lead to the content that was put aside, and their inverses back.
LEMMA TrailTurn ==
    ASSUME IsBook(model), NEW from, NEW to,
           NEW stk, IsHistory(stk), stk # <<>>, NEW pres, Len(pres) = Len(stk),
           NEW conts, Len(conts) = Len(stk),
           Trail(stk, pres, conts, to, Plain(model)), FromTop(pres, 1)[from] = origins,
           NEW stk2, NEW pres2, NEW conts2, OffTop(stk2, stk), OffTop(pres2, pres), OffTop(conts2, conts),
           NEW stk3, IsHistory(stk3), NEW pres3, NEW conts3,
           Trail(stk3, pres3, conts3, from, Plain(model)),
           NEW stk4, NEW pres4, NEW conts4, NEW after, after = ApplyOps(model, FromTop(stk, 1)),
           OnTop(stk4, stk3, after.inverse), OnTop(pres4, pres3, FromTop(pres, 1)),
           OnTop(conts4, conts3, Content(model, origins, order)),
           Len(pres4) = Len(stk4), Len(conts4) = Len(stk4),
           NEW now, now = RecalcAll(after.wb)
    PROVE  /\ IsBook(now) /\ Calculated(now, BuildGraph(after.wb).nodes)
           /\ Trail(stk2, pres2, conts2, to, Plain(now))
           /\ Trail(stk4, pres4, conts4, from, Plain(now))
           /\ FromTop(conts, 1).sheets = SheetsOf(now)
           /\ FromTop(conts, 1).origins = FromTop(pres, 1)[to]
<1> DEFINE kept == FromTop(pres, 1)
           cont == Content(model, origins, order)
           back == after.inverse
           wb == after.wb
           top == FromTop(stk, 1)
<1>1. PICK under :
        /\ Walks(Plain(model), top, under)
        /\ FromTop(conts, 1).sheets = SheetsOf(under)
        /\ FromTop(conts, 1).origins = kept[to]
        /\ \A s2, p2, c2 :
             OffTop(s2, stk) /\ OffTop(p2, pres) /\ OffTop(c2, conts) => Trail(s2, p2, c2, to, under)
  BY TrailPop
<1>2. IsBook(wb) /\ Plain(wb) = under /\ Walks(under, back, Plain(model))
  BY <1>1, ApplyingWalks
<1>3. Trail(stk2, pres2, conts2, to, under)
  BY <1>1
<1>4. cont.sheets = SheetsOf(Plain(model)) /\ cont.origins = kept[from]
  <2>1. cont.sheets = SheetsOf(model) /\ cont.origins = origins
    BY ContentIs
  <2>2. SheetsOf(Plain(model)) = SheetsOf(model)
    BY PlainSheets
  <2> QED
    BY <2>1, <2>2
<1> HIDE DEF kept, cont, back, wb, top
<1>5. OnTop(stk4, stk3, back) /\ OnTop(pres4, pres3, kept) /\ OnTop(conts4, conts3, cont)
  BY DEF back, kept, cont
<1>6. Trail(stk4, pres4, conts4, from, under)
  BY <1>2, <1>4, <1>5, TrailPush
<1>7. IsBook(now) /\ Plain(now) = under /\ Calculated(now, BuildGraph(wb).nodes)
  <2>1. now = RecalcAll(wb)
    BY DEF wb
  <2> QED
    BY <1>2, <2>1, AllOnlyValues
<1>8. SheetsOf(under) = SheetsOf(now)
  BY <1>7, PlainSheets
<1> QED
  BY <1>1, <1>3, <1>6, <1>7, <1>8 DEF wb, kept

\* An undo brings back the content that was put aside.
LEMMA UndoKeepsPaths ==
    ASSUME HistoryInv, KeysInv, BookInv, UndoEdit
    PROVE  BookKept' /\ PathsKept' /\ History!Undo
<1> DEFINE top == Last(undoOps)
           done == ApplyOps(model, top)
           back == done.inverse
           kept == Last(preservedUndo)
           cont == Content(model, origins, order)
<1>1. /\ undoOps # <<>> /\ preservedUndo # <<>>
      /\ undoOps' = Front(undoOps) /\ redoOps' = Append(redoOps, back)
      /\ origins' = kept.before
      /\ preservedUndo' = Front(preservedUndo)
      /\ preservedRedo' = Append(preservedRedo, kept)
      /\ seen' = Front(seen) /\ undone' = Append(undone, cont)
      /\ graph' = BuildGraph(done.wb) /\ model' = RecalcAll(done.wb)
  BY HistoryLengths DEF UndoEdit
<1>2. /\ IsHistory(undoOps) /\ IsHistory(preservedUndo) /\ Len(preservedUndo) = Len(undoOps)
      /\ IsHistory(redoOps) /\ IsHistory(preservedRedo) /\ Len(preservedRedo) = Len(redoOps)
      /\ Len(undoOps) \in Nat /\ Len(undoOps) > 0 /\ Len(redoOps) \in Nat
      /\ Len(undoOps) + Len(redoOps) <= MaxUndoDepth /\ MaxUndoDepth \in Nat
      /\ kept.after = origins
  BY <1>1, HistoryLengths, DepthAssumption DEF HistoryInv, Histories, HistoriesKeepStep
<1>3. /\ IsHistory(seen) /\ Len(seen) = Len(undoOps)
      /\ IsHistory(undone) /\ Len(undone) = Len(redoOps)
      /\ InStep(origins, order, nextKey) /\ ModelKept /\ AuthorityKept
      /\ seen # <<>>
  <2>1. /\ IsHistory(seen) /\ Len(seen) = Len(undoOps)
        /\ IsHistory(undone) /\ Len(undone) = Len(redoOps)
        /\ InStep(origins, order, nextKey) /\ ModelKept /\ AuthorityKept
    BY DEF KeysInv, AuthorityKept
  <2> QED
    BY <1>2, <2>1, HistoryIsFunction
<1>4. /\ seen \in Seq(Contents) /\ undone \in Seq(Contents)
      /\ Trail(undoOps, preservedUndo, seen, "before", Plain(model))
      /\ Trail(redoOps, preservedRedo, undone, "after", Plain(model))
      /\ IsBook(model)
  BY DEF BookInv, PathsKept, BookKept
<1>5. AuthorityKept' /\ order' = Last(seen).keys
  BY <1>3, UndoKeepsAuthority
<1>6. cont \in Contents
  BY <1>3, <1>4, ContentTyped
<1>7. /\ top = FromTop(undoOps, 1) /\ kept = FromTop(preservedUndo, 1)
      /\ Last(seen) = FromTop(seen, 1)
      /\ OffTop(undoOps', undoOps) /\ OffTop(preservedUndo', preservedUndo) /\ OffTop(seen', seen)
  BY <1>1, <1>2, <1>3, TopTakenOff
<1>8. kept["before"] = kept.before /\ kept["after"] = kept.after
  OBVIOUS
<1>9. done = ApplyOps(model, FromTop(undoOps, 1)) /\ back = done.inverse /\ model' = RecalcAll(done.wb)
      /\ graph' = BuildGraph(done.wb)
  BY <1>1, <1>7
<1> HIDE DEF top, done, back, kept, cont
<1>10. /\ OnTop(redoOps', redoOps, back) /\ OnTop(preservedRedo', preservedRedo, kept)
       /\ OnTop(undone', undone, cont)
       /\ Len(preservedRedo') = Len(redoOps') /\ Len(undone') = Len(redoOps')
  <2>1. OnTop(redoOps', redoOps, back) /\ Len(redoOps') = Len(redoOps) + 1
    BY <1>1, <1>2, TopOfAppend
  <2>3. OnTop(undone', undone, cont) /\ Len(undone') = Len(undone) + 1
    BY <1>1, <1>3, TopOfAppend
  <2>2. OnTop(preservedRedo', preservedRedo, kept) /\ Len(preservedRedo') = Len(preservedRedo) + 1
    BY <1>1, <1>2, TopOfAppend
  <2> QED
    BY <1>2, <1>3, <2>1, <2>2, <2>3
<1>11. /\ IsBook(model') /\ Calculated(model', BuildGraph(done.wb).nodes)
       /\ Trail(undoOps', preservedUndo', seen', "before", Plain(model'))
       /\ Trail(redoOps', preservedRedo', undone', "after", Plain(model'))
       /\ FromTop(seen, 1).sheets = SheetsOf(model')
       /\ FromTop(seen, 1).origins = FromTop(preservedUndo, 1)["before"]
  <2>1. FromTop(preservedUndo, 1)["after"] = origins
    BY <1>2, <1>7, <1>8
  <2>2. OnTop(redoOps', redoOps, done.inverse)
    BY <1>9, <1>10
  <2>3. OnTop(preservedRedo', preservedRedo, FromTop(preservedUndo, 1))
    BY <1>7, <1>10
  <2>4. OnTop(undone', undone, Content(model, origins, order))
    BY <1>10 DEF cont
  <2>5. /\ IsHistory(undoOps) /\ undoOps # <<>> /\ IsHistory(redoOps)
        /\ Len(preservedUndo) = Len(undoOps) /\ Len(seen) = Len(undoOps)
    BY <1>1, <1>2, <1>3
  <2>6. /\ Len(preservedRedo') = Len(redoOps') /\ Len(undone') = Len(redoOps')
        /\ OffTop(undoOps', undoOps) /\ OffTop(preservedUndo', preservedUndo) /\ OffTop(seen', seen)
    BY <1>7, <1>10
  <2>7. done = ApplyOps(model, FromTop(undoOps, 1)) /\ model' = RecalcAll(done.wb)
    BY <1>9
  <2> QED
    BY <1>4, <2>1, <2>2, <2>3, <2>4, <2>5, <2>6, <2>7, TrailTurn
<1>12. BookKept'
  BY <1>9, <1>11 DEF BookKept
<1>13. seen' \in Seq(Contents) /\ undone' \in Seq(Contents) /\ Last(seen) \in Contents
  <2>1. seen' \in Seq(Contents) /\ Last(seen) \in Contents
    BY <1>1, <1>3, <1>4, <1>6, ContentsKept
  <2>2. undone' \in Seq(Contents)
    BY <1>1, <1>4, <1>6, ContentsKept
  <2> QED
    BY <2>1, <2>2
<1>14. PathsKept'
  BY <1>11, <1>13 DEF PathsKept
<1>15. Content(model', origins', order') = Last(seen)
  <2> DEFINE c == Last(seen)
  <2>1. c = [sheets |-> c.sheets, origins |-> c.origins, keys |-> c.keys]
    BY <1>13, ContentParts
  <2>2. c.sheets = SheetsOf(model')
    BY <1>7, <1>11
  <2>3. c.origins = origins'
    BY <1>1, <1>7, <1>8, <1>11
  <2>4. c.keys = order'
    BY <1>5
  <2> HIDE DEF c
  <2>5. c = [sheets |-> SheetsOf(model'), origins |-> origins', keys |-> order']
    BY <2>1, <2>2, <2>3, <2>4
  <2>6. Content(model', origins', order') = [sheets |-> SheetsOf(model'), origins |-> origins', keys |-> order']
    BY ContentIs
  <2> QED
    BY <2>5, <2>6 DEF c
<1>16. Last(seen) = seen[Len(seen)]
  BY <1>3, FrontOfHistory
<1>17. History!Undo
  <2>1. /\ seen # <<>> /\ seen' = SubSeq(seen, 1, Len(seen) - 1)
        /\ Content(model', origins', order') = seen[Len(seen)]
    BY <1>1, <1>3, <1>15, <1>16 DEF Front
  <2> QED
    BY <1>1, <2>1 DEF History!Undo, Front, cont
<1> QED
  BY <1>12, <1>14, <1>17

\* So does a redo.
LEMMA RedoKeepsPaths ==
    ASSUME HistoryInv, KeysInv, BookInv, RedoEdit
    PROVE  BookKept' /\ PathsKept' /\ History!Redo
<1> DEFINE top == Last(redoOps)
           done == ApplyOps(model, top)
           back == done.inverse
           kept == Last(preservedRedo)
           cont == Content(model, origins, order)
<1>1. /\ redoOps # <<>> /\ preservedRedo # <<>>
      /\ redoOps' = Front(redoOps) /\ undoOps' = Push(undoOps, back)
      /\ origins' = kept.after
      /\ preservedRedo' = Front(preservedRedo)
      /\ preservedUndo' = Append(preservedUndo, kept)
      /\ undone' = Front(undone) /\ seen' = Push(seen, cont)
      /\ graph' = BuildGraph(done.wb) /\ model' = RecalcAll(done.wb)
  BY HistoryLengths DEF RedoEdit
<1>2. /\ IsHistory(undoOps) /\ IsHistory(preservedUndo) /\ Len(preservedUndo) = Len(undoOps)
      /\ IsHistory(redoOps) /\ IsHistory(preservedRedo) /\ Len(preservedRedo) = Len(redoOps)
      /\ Len(undoOps) \in Nat /\ Len(redoOps) > 0 /\ Len(redoOps) \in Nat
      /\ Len(undoOps) + Len(redoOps) <= MaxUndoDepth /\ MaxUndoDepth \in Nat
      /\ kept.before = origins
  BY <1>1, HistoryLengths, DepthAssumption DEF HistoryInv, Histories, HistoriesKeepStep
<1>3. /\ IsHistory(seen) /\ Len(seen) = Len(undoOps)
      /\ IsHistory(undone) /\ Len(undone) = Len(redoOps)
      /\ InStep(origins, order, nextKey) /\ ModelKept /\ AuthorityKept
      /\ undone # <<>>
  <2>1. /\ IsHistory(seen) /\ Len(seen) = Len(undoOps)
        /\ IsHistory(undone) /\ Len(undone) = Len(redoOps)
        /\ InStep(origins, order, nextKey) /\ ModelKept /\ AuthorityKept
    BY DEF KeysInv, AuthorityKept
  <2> QED
    BY <1>2, <2>1, HistoryIsFunction
<1>4. /\ seen \in Seq(Contents) /\ undone \in Seq(Contents)
      /\ Trail(undoOps, preservedUndo, seen, "before", Plain(model))
      /\ Trail(redoOps, preservedRedo, undone, "after", Plain(model))
      /\ IsBook(model)
  BY DEF BookInv, PathsKept, BookKept
<1>5. AuthorityKept' /\ order' = Last(undone).keys
  BY <1>3, RedoKeepsAuthority
<1>6. cont \in Contents
  BY <1>3, <1>4, ContentTyped
<1>7. /\ top = FromTop(redoOps, 1) /\ kept = FromTop(preservedRedo, 1)
      /\ Last(undone) = FromTop(undone, 1)
      /\ OffTop(redoOps', redoOps) /\ OffTop(preservedRedo', preservedRedo) /\ OffTop(undone', undone)
  BY <1>1, <1>2, <1>3, TopTakenOff
<1>8. kept["after"] = kept.after /\ kept["before"] = kept.before
  OBVIOUS
<1>9. done = ApplyOps(model, FromTop(redoOps, 1)) /\ back = done.inverse /\ model' = RecalcAll(done.wb)
      /\ graph' = BuildGraph(done.wb)
  BY <1>1, <1>7
<1> HIDE DEF top, done, back, kept, cont
<1>10. /\ OnTop(undoOps', undoOps, back) /\ OnTop(preservedUndo', preservedUndo, kept)
       /\ OnTop(seen', seen, cont)
       /\ Len(preservedUndo') = Len(undoOps') /\ Len(seen') = Len(undoOps')
  <2>1. OnTop(undoOps', undoOps, back) /\ Len(undoOps') = Len(undoOps) + 1
    <3>1. Len(undoOps) <= MaxUndoDepth /\ Len(undoOps) < MaxUndoDepth
      BY <1>2
    <3> QED
      BY <1>1, <1>2, <3>1, TopOfPush
  <2>3. OnTop(seen', seen, cont) /\ Len(seen') = Len(seen) + 1
    <3>1. Len(seen) <= MaxUndoDepth /\ Len(seen) < MaxUndoDepth
      BY <1>2, <1>3
    <3> QED
      BY <1>1, <1>3, <3>1, TopOfPush
  <2>2. OnTop(preservedUndo', preservedUndo, kept) /\ Len(preservedUndo') = Len(preservedUndo) + 1
    BY <1>1, <1>2, TopOfAppend
  <2> QED
    BY <1>2, <1>3, <2>1, <2>2, <2>3
<1>11. /\ IsBook(model') /\ Calculated(model', BuildGraph(done.wb).nodes)
       /\ Trail(redoOps', preservedRedo', undone', "after", Plain(model'))
       /\ Trail(undoOps', preservedUndo', seen', "before", Plain(model'))
       /\ FromTop(undone, 1).sheets = SheetsOf(model')
       /\ FromTop(undone, 1).origins = FromTop(preservedRedo, 1)["after"]
  <2>1. FromTop(preservedRedo, 1)["before"] = origins
    BY <1>2, <1>7, <1>8
  <2>2. OnTop(undoOps', undoOps, done.inverse)
    BY <1>9, <1>10
  <2>3. OnTop(preservedUndo', preservedUndo, FromTop(preservedRedo, 1))
    BY <1>7, <1>10
  <2>4. OnTop(seen', seen, Content(model, origins, order))
    BY <1>10 DEF cont
  <2>5. /\ IsHistory(redoOps) /\ redoOps # <<>> /\ IsHistory(undoOps)
        /\ Len(preservedRedo) = Len(redoOps) /\ Len(undone) = Len(redoOps)
    BY <1>1, <1>2, <1>3
  <2>6. /\ Len(preservedUndo') = Len(undoOps') /\ Len(seen') = Len(undoOps')
        /\ OffTop(redoOps', redoOps) /\ OffTop(preservedRedo', preservedRedo) /\ OffTop(undone', undone)
    BY <1>7, <1>10
  <2>7. done = ApplyOps(model, FromTop(redoOps, 1)) /\ model' = RecalcAll(done.wb)
    BY <1>9
  <2> QED
    BY <1>4, <2>1, <2>2, <2>3, <2>4, <2>5, <2>6, <2>7, TrailTurn
<1>12. BookKept'
  BY <1>9, <1>11 DEF BookKept
<1>13. seen' \in Seq(Contents) /\ undone' \in Seq(Contents) /\ Last(undone) \in Contents
  <2>1. undone' \in Seq(Contents) /\ Last(undone) \in Contents
    BY <1>1, <1>3, <1>4, <1>6, ContentsKept
  <2>2. seen' \in Seq(Contents)
    <3>1. Len(seen) <= MaxUndoDepth
      BY <1>2, <1>3
    <3> QED
      BY <1>1, <1>4, <1>6, <3>1, ContentsKept
  <2> QED
    BY <2>1, <2>2
<1>14. PathsKept'
  BY <1>11, <1>13 DEF PathsKept
<1>15. Content(model', origins', order') = Last(undone)
  <2> DEFINE c == Last(undone)
  <2>1. c = [sheets |-> c.sheets, origins |-> c.origins, keys |-> c.keys]
    BY <1>13, ContentParts
  <2>2. c.sheets = SheetsOf(model')
    BY <1>7, <1>11
  <2>3. c.origins = origins'
    BY <1>1, <1>7, <1>8, <1>11
  <2>4. c.keys = order'
    BY <1>5
  <2> HIDE DEF c
  <2>5. c = [sheets |-> SheetsOf(model'), origins |-> origins', keys |-> order']
    BY <2>1, <2>2, <2>3, <2>4
  <2>6. Content(model', origins', order') = [sheets |-> SheetsOf(model'), origins |-> origins', keys |-> order']
    BY ContentIs
  <2> QED
    BY <2>5, <2>6 DEF c
<1>16. Last(undone) = undone[Len(undone)]
  BY <1>3, FrontOfHistory
<1>17. History!Redo
  <2>1. /\ undone # <<>> /\ undone' = SubSeq(undone, 1, Len(undone) - 1)
        /\ Content(model', origins', order') = undone[Len(undone)]
    BY <1>1, <1>3, <1>15, <1>16 DEF Front
  <2> QED
    BY <1>1, <2>1 DEF History!Redo, History!Newest, Push, Capped, Front, cont
<1> QED
  BY <1>12, <1>14, <1>17

\* The history moves as it should, or not at all.
HistoryMoves == History!Next \/ UNCHANGED History!vars

\* A cell is set and what depends on it calculated.
LEMMA SettingKeepsPaths ==
    ASSUME HistoryInv, KeysInv, BookInv, NEW s \in Sheets, NEW r \in Row, NEW input \in Cell,
           SetAndRecalculate(s, r, input)
    PROVE  BookKept' /\ PathsKept' /\ HistoryMoves
<1> DEFINE op == SetCell(s, r, input)
           done == ApplyOps(model, <<op>>)
           wb == Apply(model, op).wb
<1>1. /\ Commit(<<op>>, done.inverse)
      /\ graph' = SetFormula(graph, done.wb, <<s, r>>)
      /\ model' = RecalcAfter(done.wb, graph', {<<s, r>>})
  BY DEF SetAndRecalculate
<1>2. IsBook(model) /\ Calculated(model, graph.nodes) /\ PathsKept
  BY DEF BookInv, BookKept
<1>3. Suits(model, op)
  BY DEF Suits, SetCell, Sheets
<1>4. wb = WithCell(model, s, r, input)
  BY DEF SetCell, Apply, ApplySetCell, Done
<1>5. ModelKept /\ AuthorityKept /\ AuthorityKept'
  <2>1. ModelKept /\ AuthorityKept
    BY DEF KeysInv
  <2> QED
    BY <2>1, SettingKeepsKeys
<1> HIDE DEF op
<1>6. IsBook(wb) /\ Walks(Plain(model), <<op>>, Plain(wb))
  BY <1>2, <1>3, SuitedWalks
<1>7. done.wb = wb
  BY OneApplied
<1> HIDE DEF done
<1>8. s \in 1..Len(model)
  BY DEF Sheets
<1>9. Calculated(wb, graph'.nodes)
  <2>1. Calculated(WithCell(model, s, r, input),
                   SetFormula(graph, WithCell(model, s, r, input), <<s, r>>).nodes)
    BY <1>2, <1>8, SetFormulaCalculated
  <2> QED
    BY <1>1, <1>4, <1>7, <2>1
<1>10. model' = RecalcAfter(wb, graph', {<<s, r>>})
  BY <1>1, <1>7
<1> HIDE DEF wb
<1>11. IsBook(model') /\ Plain(model') = Plain(wb) /\ Calculated(model', graph'.nodes)
  BY <1>6, <1>9, <1>10, SomeOnlyValues
<1>12. Commit(<<op>>, ApplyOps(model, <<op>>).inverse)
  BY <1>1 DEF done
<1>13. PathsKept' /\ History!Edit
  BY <1>2, <1>5, <1>6, <1>11, <1>12, CommitKeepsPaths
<1> QED
  BY <1>11, <1>13 DEF BookKept, HistoryMoves, History!Next

\* A transaction over the structure.
LEMMA StructureKeepsPaths ==
    ASSUME HistoryInv, KeysInv, BookInv, NEW ops \in Transactions, ApplyTransaction(ops)
    PROVE  BookKept' /\ PathsKept' /\ HistoryMoves
<1> DEFINE done == ApplyOps(model, ops)
<1>1. /\ Commit(ops, done.inverse)
      /\ graph' = BuildGraph(done.wb) /\ model' = RecalcAll(done.wb)
  BY DEF ApplyTransaction
<1>2. IsBook(model) /\ PathsKept /\ AuthorityKept
  BY DEF BookInv, BookKept, KeysInv
<1>3. AuthorityKept'
  BY StructureKeepsKeys DEF KeysInv
<1>4. PICK p : Walks(Plain(model), ops, p)
  <2>1. \A n \in 1..Len(ops) : Allowed(ApplyOps(model, SubSeq(ops, 1, n - 1)).wb, ops[n])
    BY DEF ApplyTransaction
  <2> QED
    BY <1>2, <2>1, TransactionsWalk
<1>5. IsBook(done.wb) /\ Plain(done.wb) = p
  BY <1>2, <1>4, ApplyingWalks
<1> HIDE DEF done
<1>6. IsBook(model') /\ Plain(model') = p /\ Calculated(model', graph'.nodes)
  BY <1>1, <1>5, AllOnlyValues
<1>7. Commit(ops, ApplyOps(model, ops).inverse)
  BY <1>1 DEF done
<1>8. PathsKept' /\ History!Edit
  BY <1>2, <1>3, <1>4, <1>6, <1>7, CommitKeepsPaths
<1> QED
  BY <1>6, <1>8 DEF BookKept, HistoryMoves, History!Next

\* An edit of charts: no cell changes.
LEMMA ChartsKeepPaths ==
    ASSUME HistoryInv, KeysInv, BookInv, NEW op \in ChartOps, EditChart(op)
    PROVE  BookKept' /\ PathsKept' /\ HistoryMoves
<1> DEFINE done == ApplyOps(model, <<op>>)
           wb == Apply(model, op).wb
<1>1. Commit(<<op>>, done.inverse) /\ model' = done.wb /\ graph' = graph
  BY DEF EditChart, CommitSidecar
<1>2. /\ IsBook(model) /\ Calculated(model, graph.nodes) /\ PathsKept /\ AuthorityKept
      /\ Len(order) = Len(model) /\ InStep(origins, order, nextKey)
  BY DEF BookInv, BookKept, KeysInv, ModelKept, AuthorityKept
<1>3. AuthorityKept'
  BY ChartsKeepKeys DEF KeysInv
<1>4. Suits(model, op) /\ ChartOp(op)
  BY <1>2, ChartOpsSuit
<1>5. IsBook(wb) /\ Walks(Plain(model), <<op>>, Plain(wb))
  BY <1>2, <1>4, SuitedWalks
<1>6. done.wb = wb
  BY OneApplied
<1>7. Calculated(wb, graph.nodes)
  <2> DEFINE cs == ChartsAfter(model[op.sheet].charts, op)
  <2>1. op.sheet \in 1..Len(model) /\ cs \in Seq(Chart) /\ wb = [model EXCEPT ![op.sheet].charts = cs]
    BY <1>2, <1>4, ChartOpIs
  <2> HIDE DEF cs, wb
  <2>2. wb = WithCharts(model, op.sheet, cs)
    BY <2>1 DEF WithCharts
  <2>3. /\ Len(wb) = Len(model)
        /\ \A i \in 1..Len(model) : \A r \in Row : wb[i].cells[r] = model[i].cells[r]
    BY <1>2, <2>1, <2>2, ChartsChanged
  <2>4. CellsOf(wb) = CellsOf(model)
    BY <2>3 DEF CellsOf
  <2>5. OfFormulas(wb, graph.nodes)
    BY <1>2, <2>3 DEF Calculated, OfFormulas, CellAt
  <2> QED
    BY <1>2, <2>4, <2>5 DEF Calculated
<1>8. Commit(<<op>>, ApplyOps(model, <<op>>).inverse) /\ model' = wb
  BY <1>1, <1>6
<1> HIDE DEF done, wb
<1>9. PathsKept' /\ History!Edit
  <2>1. IsBook(model') /\ Plain(model') = Plain(wb) /\ Walks(Plain(model), <<op>>, Plain(wb))
    BY <1>5, <1>8
  <2>2. Commit(<<op>>, ApplyOps(model, <<op>>).inverse)
    BY <1>8
  <2> QED
    BY <1>2, <1>3, <2>1, <2>2, CommitKeepsPaths
<1> QED
  BY <1>1, <1>5, <1>7, <1>8, <1>9 DEF BookKept, HistoryMoves, History!Next

\* Calculating everything changes no content.
LEMMA RecalculatingKeepsPaths ==
    ASSUME KeysInv, BookInv, RecalculateAll
    PROVE  BookKept' /\ PathsKept' /\ HistoryMoves
<1>1. /\ model' = RecalcAll(model) /\ graph' = BuildGraph(model)
      /\ UNCHANGED <<undoOps, redoOps, origins, preservedUndo, preservedRedo, order, seen, undone>>
  BY DEF RecalculateAll, stack, preserved, authority, witness
<1>2. IsBook(model) /\ PathsKept
  BY DEF BookInv, BookKept
<1>3. IsBook(model') /\ Plain(model') = Plain(model) /\ Calculated(model', graph'.nodes)
  BY <1>1, <1>2, AllOnlyValues
<1>4. PathsKept'
  BY <1>1, <1>2, <1>3 DEF PathsKept
<1>5. Content(model', origins', order') = Content(model, origins, order)
  <2>1. SheetsOf(model') = SheetsOf(model)
    BY <1>2, <1>3, SameSheets
  <2>2. Content(model, origins, order) = [sheets |-> SheetsOf(model), origins |-> origins, keys |-> order]
    BY ContentIs
  <2>3. Content(model', origins', order') = [sheets |-> SheetsOf(model'), origins |-> origins', keys |-> order']
    BY ContentIs
  <2> QED
    BY <1>1, <2>1, <2>2, <2>3
<1> QED
  BY <1>1, <1>3, <1>4, <1>5 DEF BookKept, HistoryMoves, History!vars

\* The variables of the parts kept.
pathVars == <<model, graph, undoOps, redoOps, origins, preservedUndo, preservedRedo, order, seen, undone>>

\* What leaves those alone keeps the parts too.
LEMMA PathsUnchanged ==
    ASSUME BookInv, UNCHANGED pathVars
    PROVE  BookKept' /\ PathsKept' /\ HistoryMoves
<1>1. BookKept'
  BY DEF BookInv, BookKept, pathVars
<1>2. PathsKept'
  BY DEF BookInv, PathsKept, pathVars
<1>3. UNCHANGED History!vars
  BY DEF pathVars, History!vars
<1> QED
  BY <1>1, <1>2, <1>3 DEF HistoryMoves

\* The file is a workbook, opened with no history.
LEMMA BookInit == Init => BookInv
<1> SUFFICES ASSUME Init PROVE BookInv
  OBVIOUS
<1>1. /\ model = Opened /\ graph = BuildGraph(Opened)
      /\ undoOps = <<>> /\ redoOps = <<>> /\ proposals = <<>> /\ seen = <<>> /\ undone = <<>>
  BY DEF Init
<1>2. IsBook(Opened)
  <2> DEFINE S == [name : Names, cells : [Row -> Cell], charts : {<<>>}]
  <2>1. IsHistory(Opened) /\ \A i \in 1..Len(Opened) : Opened[i] \in S
    BY OpenedAssumption, HistoryOf
  <2>2. ASSUME NEW sh \in S PROVE sh \in Sheet
    <3>1. sh = [name |-> sh.name, cells |-> sh.cells, charts |-> <<>>]
      OBVIOUS
    <3>2. sh.name \in Names /\ sh.cells \in [Row -> Cell]
      OBVIOUS
    <3>3. <<>> \in Seq(Chart)
      OBVIOUS
    <3> QED
      BY <3>1, <3>2, <3>3 DEF Sheet
  <2> QED
    BY <2>1, <2>2 DEF IsBook
<1>3. Calculated(Opened, BuildGraph(Opened).nodes)
  BY <1>2, BuiltIsCalculated
<1>4. BookKept
  BY <1>1, <1>2, <1>3 DEF BookKept
<1>5. PathsKept
  BY <1>1, NothingTrails DEF PathsKept
<1>6. ProposalsTyped
  BY <1>1, EmptyHistory DEF ProposalsTyped
<1> QED
  BY <1>4, <1>5, <1>6 DEF BookInv

\* A proposal taken out.
LEMMA RemovingKeepsTyped ==
    ASSUME ProposalsKept, ProposalsTyped, NEW i \in 1..Len(proposals), proposals' = RemoveAt(proposals, i)
    PROVE  ProposalsTyped'
<1> DEFINE left == RemoveAt(proposals, i)
<1>1. /\ Len(left) = Len(proposals) - 1 /\ Len(proposals) \in Nat
      /\ \A j \in 1..(i - 1) : left[j] = proposals[j]
      /\ \A j \in i..(Len(proposals) - 1) : left[j] = proposals[j + 1]
  BY RemovedHistory, HistoryIsFunction DEF ProposalsKept
<1> HIDE DEF left
<1>2. ASSUME NEW n \in 1..Len(left) PROVE \E m \in 1..Len(proposals) : left[n] = proposals[m]
  <2>1. CASE n < i
    <3>1. n \in 1..(i - 1) /\ n \in 1..Len(proposals)
      BY <1>1, <2>1
    <3> QED
      BY <1>1, <3>1
  <2>2. CASE n >= i
    <3>1. n \in i..(Len(proposals) - 1) /\ n + 1 \in 1..Len(proposals)
      BY <1>1, <2>2
    <3> QED
      BY <1>1, <3>1
  <2> QED
    BY <2>1, <2>2
<1>3. ASSUME NEW n \in 1..Len(left) PROVE left[n].at \in Row /\ left[n].input \in Cell
  BY <1>2 DEF ProposalsTyped
<1> QED
  BY <1>3 DEF left, ProposalsTyped

\* A proposal made.
LEMMA ProposingKeepsTyped ==
    ASSUME ProposalsKept, ProposalsTyped, NEW p \in Suggestions, Propose(p[1], p[2], p[3])
    PROVE  ProposalsTyped'
<1> DEFINE e == [id |-> nextProposal + 1, sheet |-> p[1], at |-> p[2], input |-> p[3],
                 old |-> CellAt(model, p[1], p[2]), for |-> order[p[1]]]
<1>1. proposals' = Append(proposals, e)
  BY DEF Propose
<1>2. e.at \in Row /\ e.input \in Cell
  BY TypingAssumption
<1> HIDE DEF e
<1>3. /\ Len(proposals') = Len(proposals) + 1 /\ Len(proposals) \in Nat
      /\ proposals'[Len(proposals) + 1] = e
      /\ \A n \in 1..Len(proposals) : proposals'[n] = proposals[n]
  BY <1>1, AppendToHistory, HistoryIsFunction DEF ProposalsKept
<1>4. ASSUME NEW n \in 1..Len(proposals') PROVE proposals'[n].at \in Row /\ proposals'[n].input \in Cell
  <2>1. CASE n = Len(proposals) + 1
    BY <1>2, <1>3, <2>1
  <2>2. CASE n # Len(proposals) + 1
    <3>1. n \in 1..Len(proposals)
      BY <1>3, <2>2
    <3> QED
      BY <1>3, <3>1 DEF ProposalsTyped
  <2> QED
    BY <2>1, <2>2
<1> QED
  BY <1>4 DEF ProposalsTyped

\* Every step keeps the invariant and moves the history as it should.
LEMMA BookStep ==
    ASSUME HistoryInv, KeysInv, BookInv, [Next]_vars
    PROVE  BookInv' /\ HistoryMoves
<1>0. /\ BookKept /\ PathsKept /\ ProposalsTyped /\ ProposalsKept
      /\ \A n \in 1..Len(proposals) : /\ proposals[n].sheet \in Sheets
                                      /\ proposals[n].at \in Row /\ proposals[n].input \in Cell
  BY DEF BookInv, KeysInv, ProposalsTyped, ProposalsKept, ProposalsPointAtTheirSheet
<1>1. CASE Typing
  <2>1. PICK s \in Sheets, r \in Row, input \in Inputs : EditCell(s, r, input)
    BY <1>1 DEF Typing
  <2>2. SetAndRecalculate(s, r, input) /\ proposals' = proposals /\ input \in Cell
    BY <2>1, TypingAssumption DEF EditCell, pending
  <2>3. BookKept' /\ PathsKept' /\ HistoryMoves
    BY <2>2, SettingKeepsPaths
  <2> QED
    BY <1>0, <2>2, <2>3 DEF BookInv, ProposalsTyped
<1>2. ASSUME NEW ops, ForgetProposals(ops) PROVE ProposalsTyped'
  BY <1>0, <1>2, EmptyHistory DEF ForgetProposals, ProposalsTyped
<1>3. CASE Structure
  <2>1. PICK ops \in Transactions : ApplyTransaction(ops)
    BY <1>3 DEF Structure
  <2>2. BookKept' /\ PathsKept' /\ HistoryMoves
    BY <2>1, StructureKeepsPaths
  <2>3. ForgetProposals(ops)
    BY <2>1 DEF ApplyTransaction
  <2> QED
    BY <1>2, <2>2, <2>3 DEF BookInv
<1>4. CASE Charts
  <2>1. PICK op \in ChartOps : EditChart(op)
    BY <1>4 DEF Charts
  <2>2. BookKept' /\ PathsKept' /\ HistoryMoves
    BY <2>1, ChartsKeepPaths
  <2>3. proposals' = proposals
    BY <2>1 DEF EditChart, CommitSidecar, pending
  <2> QED
    BY <1>0, <2>2, <2>3 DEF BookInv, ProposalsTyped
<1>5. CASE Agents
  <2>1. ASSUME NEW p \in Suggestions, Propose(p[1], p[2], p[3]) PROVE BookInv' /\ HistoryMoves
    <3>1. UNCHANGED pathVars
      BY <2>1 DEF Propose, pathVars, screen, stack, preserved, authority, witness
    <3> QED
      BY <1>0, <2>1, <3>1, PathsUnchanged, ProposingKeepsTyped DEF BookInv
  <2>2. ASSUME NEW i \in 1..Len(proposals), RejectProposal(i) PROVE BookInv' /\ HistoryMoves
    <3>1. UNCHANGED pathVars /\ proposals' = RemoveAt(proposals, i)
      BY <2>2 DEF RejectProposal, pathVars, screen, stack, preserved, authority, witness
    <3> QED
      BY <1>0, <3>1, PathsUnchanged, RemovingKeepsTyped DEF BookInv
  <2>3. ASSUME NEW i \in 1..Len(proposals), NEW force, AcceptProposal(i, force) PROVE BookInv' /\ HistoryMoves
    <3> DEFINE p == proposals[i]
    <3>1. /\ proposals' = RemoveAt(proposals, i)
          /\ \/ UNCHANGED <<model, graph, stack, preserved, authority, witness>>
             \/ SetAndRecalculate(p.sheet, p.at, p.input)
      BY <2>3 DEF AcceptProposal
    <3>2. ProposalsTyped'
      BY <1>0, <3>1, RemovingKeepsTyped
    <3>3. p.sheet \in Sheets /\ p.at \in Row /\ p.input \in Cell
      BY <1>0
    <3> HIDE DEF p
    <3>4. CASE UNCHANGED <<model, graph, stack, preserved, authority, witness>>
      <4>1. UNCHANGED pathVars
        BY <3>4 DEF pathVars, stack, preserved, authority, witness
      <4> QED
        BY <3>2, <4>1, PathsUnchanged DEF BookInv
    <3>5. CASE SetAndRecalculate(p.sheet, p.at, p.input)
      BY <3>2, <3>3, <3>5, SettingKeepsPaths DEF BookInv
    <3> QED
      BY <3>1, <3>4, <3>5
  <2> QED
    BY <1>5, <2>1, <2>2, <2>3 DEF Agents
<1>6. CASE UndoEdit
  <2>1. BookKept' /\ PathsKept' /\ History!Undo
    BY <1>6, UndoKeepsPaths
  <2>2. ForgetProposals(Last(undoOps))
    BY <1>6 DEF UndoEdit
  <2> QED
    BY <1>2, <2>1, <2>2 DEF BookInv, HistoryMoves, History!Next
<1>7. CASE RedoEdit
  <2>1. BookKept' /\ PathsKept' /\ History!Redo
    BY <1>7, RedoKeepsPaths
  <2>2. ForgetProposals(Last(redoOps))
    BY <1>7 DEF RedoEdit
  <2> QED
    BY <1>2, <2>1, <2>2 DEF BookInv, HistoryMoves, History!Next
<1>8. CASE RecalculateAll
  <2>1. proposals' = proposals
    BY <1>8 DEF RecalculateAll, pending
  <2> QED
    BY <1>0, <1>8, <2>1, RecalculatingKeepsPaths DEF BookInv, ProposalsTyped
<1>9. ASSUME UNCHANGED <<pathVars, proposals>> PROVE BookInv' /\ HistoryMoves
  BY <1>0, <1>9, PathsUnchanged DEF BookInv, ProposalsTyped
<1>10. CASE \E s \in Sheets : SetActiveSheet(s)
  BY <1>9, <1>10 DEF SetActiveSheet, pathVars, stack, preserved, authority, pending, witness
<1>11. CASE UNCHANGED vars
  BY <1>9, <1>11 DEF vars, pathVars, screen, stack, preserved, authority, pending, witness
<1> QED
  BY <1>1, <1>3, <1>4, <1>5, <1>6, <1>7, <1>8, <1>10, <1>11 DEF Next

\* The invariants hold in every state a workbook can be in.
LEMMA BookAlways == Spec => [](HistoryInv /\ KeysInv /\ BookInv)
<1>1. Init => HistoryInv /\ KeysInv /\ BookInv
  BY HistoryInit, KeysInit, BookInit
<1>2. HistoryInv /\ KeysInv /\ BookInv /\ [Next]_vars => (HistoryInv /\ KeysInv /\ BookInv)'
  BY HistoryStep, KeysStep, BookStep
<1> QED
  BY <1>1, <1>2, PTL DEF Spec

\* For any file, any edits and any undo depth, the workbook is a document with a
\* linear history: an undo or a redo, which only applies the inverse operations
\* of the newest entry, brings back exactly the content that was there - the
\* sheets with what was typed in them and their charts, the package identity
\* and the key of each - and every other step is one edit or changes no content
\* (apply_ops, UndoStack, Workbook::undo and redo).
THEOREM UndoIsLinear == Spec => HistoryIsLinear
<1>1. Init => History!Init
  <2> SUFFICES ASSUME Init PROVE History!Init
    OBVIOUS
  <2>1. IsBook(model) /\ InStep(origins, order, nextKey)
    BY BookInit, KeysInit DEF BookInv, BookKept, KeysInv, AuthorityKept
  <2>2. Content(model, origins, order) \in Contents
    BY <2>1, ContentTyped
  <2>3. seen = <<>> /\ undone = <<>>
    BY DEF Init
  <2> QED
    BY <2>2, <2>3 DEF History!Init, Contents
<1>2. HistoryInv /\ KeysInv /\ BookInv /\ [Next]_vars => [History!Next]_(History!vars)
  BY BookStep DEF HistoryMoves
<1> QED
  BY <1>1, <1>2, BookAlways, PTL DEF Spec, HistoryIsLinear, History!Spec

-----------------------------------------------------------------------------
(* Contents that are whole, and contents that are near each other.         *)

\* No two sheets have one name, and the cells a chart was made over are on a
\* sheet that is there, under the key and the name the chart has.
NamedOnce(wb) == \A i, j \in 1..Len(wb) : wb[i].name = wb[j].name => i = j
Found(wb, keys, d) == \E t \in 1..Len(wb) : keys[t] = d.of /\ wb[t].name = d.source
Sourced(wb, keys) ==
  \A i \in 1..Len(wb) : \A n \in 1..Len(wb[i].charts) : Found(wb, keys, wb[i].charts[n])
Whole(wb, keys) == Len(wb) > 0 /\ Len(keys) = Len(wb) /\ NamedOnce(wb) /\ Sourced(wb, keys)

\* A sheet in both workbooks has the same name in both, or the same place, and
\* then the name it has in one is of no sheet in the other.
Unused(nm, wb) == \A i \in 1..Len(wb) : wb[i].name # nm
SameSheet(a, b, i, j) ==
  a[i].name = b[j].name \/ (i = j /\ Unused(a[i].name, b) /\ Unused(b[j].name, a))
Near(a, ka, b, kb) ==
  \A i \in 1..Len(a), j \in 1..Len(b) : ka[i] = kb[j] => SameSheet(a, b, i, j)

\* That depends on names and charts alone.
SameLook(a, b) ==
  /\ Len(a) = Len(b)
  /\ \A i \in 1..Len(a) : a[i].name = b[i].name /\ a[i].charts = b[i].charts
\* A workbook is whole by its names and charts.
LEMMA LookWhole ==
    ASSUME NEW a, NEW b, SameLook(a, b), NEW keys
    PROVE  Whole(a, keys) <=> Whole(b, keys)
<1>1. NamedOnce(a) <=> NamedOnce(b)
  BY DEF SameLook, NamedOnce
<1>2. ASSUME NEW d PROVE Found(a, keys, d) <=> Found(b, keys, d)
  BY DEF SameLook, Found
<1>3. Sourced(a, keys) <=> Sourced(b, keys)
  BY <1>2 DEF SameLook, Sourced
<1> QED
  BY <1>1, <1>3 DEF SameLook, Whole

\* And so are two workbooks near each other.
LEMMA LookNear ==
    ASSUME NEW a, NEW a2, SameLook(a, a2), NEW b, NEW b2, SameLook(b, b2), NEW ka, NEW kb
    PROVE  Near(a, ka, b, kb) <=> Near(a2, ka, b2, kb)
<1>1. ASSUME NEW nm PROVE (Unused(nm, a) <=> Unused(nm, a2)) /\ (Unused(nm, b) <=> Unused(nm, b2))
  BY DEF SameLook, Unused
<1>2. ASSUME NEW i \in 1..Len(a), NEW j \in 1..Len(b)
      PROVE  SameSheet(a, b, i, j) <=> SameSheet(a2, b2, i, j)
  BY <1>1 DEF SameLook, SameSheet
<1> QED
  BY <1>2 DEF SameLook, Near

\* To be near is mutual.
LEMMA NearBoth ==
    ASSUME NEW a, NEW ka, NEW b, NEW kb, Near(a, ka, b, kb)
    PROVE  Near(b, kb, a, ka)
  BY DEF Near, SameSheet

\* What there is to see of a content.
LookOf(c) == [i \in 1..Len(c.sheets) |-> [name |-> c.sheets[i].sheet.name, charts |-> c.sheets[i].charts]]
WholeContent(c) == Whole(LookOf(c), c.keys)
NearContents(c, d) == Near(LookOf(c), c.keys, LookOf(d), d.keys)

\* What there is to see of the content of a workbook is what there is to see of the workbook.
LEMMA LookIs ==
    ASSUME NEW wb, IsBook(wb), NEW from, NEW keys
    PROVE  /\ SameLook(LookOf(Content(wb, from, keys)), wb)
           /\ Content(wb, from, keys).keys = keys
<1> DEFINE c == Content(wb, from, keys)
           s == SheetsOf(wb)
           look == LookOf(c)
<1>1. c.sheets = s /\ c.keys = keys
  BY ContentIs
<1>2. IsHistory(s) /\ Len(s) = Len(wb) /\ Len(wb) \in Nat
  <2>1. Len(wb) \in Nat
    BY BookIs
  <2>2. s = [i \in 1..Len(wb) |-> s[i]]
    BY DEF SheetsOf
  <2> HIDE DEF s
  <2> QED
    BY <2>1, <2>2, FunctionIsHistory
<1>3. ASSUME NEW i \in 1..Len(wb)
      PROVE  s[i].sheet.name = wb[i].name /\ s[i].charts = wb[i].charts
  BY DEF SheetsOf, AuthoredSheet
<1> HIDE DEF c, s
<1>4. look = [i \in 1..Len(wb) |-> [name |-> s[i].sheet.name, charts |-> s[i].charts]]
  BY <1>1, <1>2 DEF LookOf
<1>5. Len(look) = Len(wb)
  <2>1. look = [i \in 1..Len(wb) |-> look[i]]
    BY <1>4
  <2> HIDE DEF look
  <2> QED
    BY <1>2, <2>1, FunctionIsHistory
<1>6. \A i \in 1..Len(wb) : look[i].name = wb[i].name /\ look[i].charts = wb[i].charts
  BY <1>3, <1>4
<1> QED
  BY <1>1, <1>5, <1>6 DEF SameLook, c

\* The content is whole when the workbook is.
LEMMA WholeIs ==
    ASSUME NEW wb, IsBook(wb), NEW from, NEW keys
    PROVE  WholeContent(Content(wb, from, keys)) <=> Whole(wb, keys)
  BY LookIs, LookWhole DEF WholeContent

\* Contents are near when the workbooks are.
LEMMA NearIs ==
    ASSUME NEW a, IsBook(a), NEW fa, NEW ka, NEW b, IsBook(b), NEW fb, NEW kb
    PROVE  NearContents(Content(a, fa, ka), Content(b, fb, kb)) <=> Near(a, ka, b, kb)
  BY LookIs, LookNear DEF NearContents

\* The contents of a history are whole, each near the one above it; the newest
\* is near c.
Above(s, c, j) == IF j = 1 THEN c ELSE FromTop(s, j - 1)
Line(s, c) ==
  \A j \in 1..Len(s) : WholeContent(FromTop(s, j)) /\ NearContents(FromTop(s, j), Above(s, c, j))

\* A content is put on top of a history.
LEMMA LinePush ==
    ASSUME NEW s, IsHistory(s), NEW c, Line(s, c), WholeContent(c), NEW t, OnTop(t, s, c),
           NEW d, NearContents(c, d)
    PROVE  Line(t, d)
<1>1. /\ IsHistory(t) /\ Len(t) <= Len(s) + 1 /\ FromTop(t, 1) = c
      /\ \A j \in 1..(Len(t) - 1) : FromTop(t, j + 1) = FromTop(s, j)
  BY DEF OnTop
<1>2. Len(s) \in Nat /\ Len(t) \in Nat
  BY <1>1, HistoryIsFunction
<1>3. ASSUME NEW j \in 1..Len(t), j # 1
      PROVE  WholeContent(FromTop(t, j)) /\ NearContents(FromTop(t, j), FromTop(t, j - 1))
  <2>1. PICK k : k = j - 1
    OBVIOUS
  <2>2. k \in 1..(Len(t) - 1) /\ k \in 1..Len(s) /\ j = k + 1 /\ j - 1 = k
    BY <1>1, <1>2, <1>3, <2>1
  <2>3. FromTop(t, j) = FromTop(s, k)
    BY <1>1, <2>2
  <2>4. WholeContent(FromTop(s, k)) /\ NearContents(FromTop(s, k), Above(s, c, k))
    BY <2>2 DEF Line
  <2>5. FromTop(t, j - 1) = Above(s, c, k)
    <3>1. CASE k = 1
      BY <1>1, <2>2, <3>1 DEF Above
    <3>2. CASE k # 1
      <4>1. PICK m : m = k - 1
        OBVIOUS
      <4>2. m \in 1..(Len(t) - 1) /\ m + 1 = k
        BY <1>2, <2>2, <3>2, <4>1
      <4>3. FromTop(t, k) = FromTop(s, m)
        BY <1>1, <4>2
      <4> QED
        BY <2>2, <3>2, <4>1, <4>3 DEF Above
    <3> QED
      BY <3>1, <3>2
  <2> QED
    BY <2>3, <2>4, <2>5
<1>4. ASSUME NEW j \in 1..Len(t)
      PROVE  WholeContent(FromTop(t, j)) /\ NearContents(FromTop(t, j), Above(t, d, j))
  <2>1. CASE j = 1
    BY <1>1, <2>1 DEF Above
  <2>2. CASE j # 1
    BY <1>3, <2>2 DEF Above
  <2> QED
    BY <2>1, <2>2
<1> QED
  BY <1>4 DEF Line

\* The newest is taken off.
LEMMA LinePop ==
    ASSUME NEW s, IsHistory(s), s # <<>>, NEW c, Line(s, c), NEW t, OffTop(t, s)
    PROVE  /\ WholeContent(FromTop(s, 1)) /\ NearContents(FromTop(s, 1), c)
           /\ Line(t, FromTop(s, 1))
<1>1. /\ IsHistory(t) /\ Len(t) = Len(s) - 1
      /\ \A j \in 1..(Len(s) - 1) : FromTop(t, j) = FromTop(s, j + 1)
  BY DEF OffTop
<1>2. Len(s) \in Nat /\ Len(s) > 0
  BY HistoryIsFunction
<1>3. WholeContent(FromTop(s, 1)) /\ NearContents(FromTop(s, 1), Above(s, c, 1))
  BY <1>2 DEF Line
<1>4. ASSUME NEW j \in 1..Len(t)
      PROVE  WholeContent(FromTop(t, j)) /\ NearContents(FromTop(t, j), Above(t, FromTop(s, 1), j))
  <2>1. PICK k : k = j + 1
    OBVIOUS
  <2>2. k \in 1..Len(s) /\ k # 1 /\ k - 1 = j /\ j \in 1..(Len(s) - 1)
    BY <1>1, <1>2, <2>1
  <2>3. FromTop(t, j) = FromTop(s, k)
    BY <1>1, <2>1, <2>2
  <2>4. WholeContent(FromTop(s, k)) /\ NearContents(FromTop(s, k), FromTop(s, j))
    BY <2>2 DEF Line, Above
  <2>5. FromTop(s, j) = Above(t, FromTop(s, 1), j)
    <3>1. CASE j = 1
      BY <3>1 DEF Above
    <3>2. CASE j # 1
      <4>1. PICK m : m = j - 1
        OBVIOUS
      <4>2. m \in 1..(Len(s) - 1) /\ m + 1 = j
        BY <1>2, <2>2, <3>2, <4>1
      <4>3. FromTop(t, m) = FromTop(s, j)
        BY <1>1, <4>2
      <4> QED
        BY <3>2, <4>1, <4>3 DEF Above
    <3> QED
      BY <3>1, <3>2
  <2> QED
    BY <2>3, <2>4, <2>5
<1> QED
  BY <1>3, <1>4 DEF Line, Above

-----------------------------------------------------------------------------
(* Edits go from one whole content to another that is near.                *)

\* No two sheets have one key; there are no charts; an edit goes from a to b.
KeysOnce(keys) == \A i, j \in 1..Len(keys) : keys[i] = keys[j] => i = j
Bare(wb) == \A i \in 1..Len(wb) : wb[i].charts = <<>>
Goes(a, ka, b, kb) == Whole(b, kb) /\ Near(a, ka, b, kb)

\* Without charts there is nothing to find.
LEMMA BareIsSourced ==
    ASSUME NEW wb, Bare(wb), NEW keys
    PROVE  Sourced(wb, keys)
  BY EmptyHistory DEF Bare, Sourced

\* An edit that leaves names and charts.
LEMMA LookStays ==
    ASSUME NEW a, NEW keys, Whole(a, keys), KeysOnce(keys), NEW b, SameLook(a, b)
    PROVE  Goes(a, keys, b, keys)
<1>1. Whole(b, keys)
  BY LookWhole
<1>2. ASSUME NEW i \in 1..Len(a), NEW j \in 1..Len(b), keys[i] = keys[j] PROVE SameSheet(a, b, i, j)
  <2>1. i = j
    BY <1>2 DEF KeysOnce, Whole, SameLook
  <2> QED
    BY <2>1 DEF SameLook, SameSheet
<1> QED
  BY <1>1, <1>2 DEF Goes, Near

\* One that changes the charts of one sheet.
LEMMA ChartsChange ==
    ASSUME NEW a, NEW keys, Whole(a, keys), KeysOnce(keys), NEW b, Len(b) = Len(a),
           \A i \in 1..Len(a) : b[i].name = a[i].name,
           NEW s, \A i \in 1..Len(a) : i # s => b[i].charts = a[i].charts,
           \A n \in 1..Len(b[s].charts) : Found(a, keys, b[s].charts[n])
    PROVE  Goes(a, keys, b, keys)
<1>1. NamedOnce(b)
  BY DEF Whole, NamedOnce
<1>2. ASSUME NEW d PROVE Found(a, keys, d) <=> Found(b, keys, d)
  BY DEF Found
<1>3. ASSUME NEW i \in 1..Len(b), NEW n \in 1..Len(b[i].charts) PROVE Found(b, keys, b[i].charts[n])
  <2>1. CASE i = s
    BY <1>2, <2>1
  <2>2. CASE i # s
    <3>1. b[i].charts = a[i].charts /\ Sourced(a, keys)
      BY <2>2 DEF Whole
    <3> QED
      BY <1>2, <3>1 DEF Sourced
  <2> QED
    BY <2>1, <2>2
<1>4. Whole(b, keys)
  BY <1>1, <1>3 DEF Whole, Sourced
<1>5. ASSUME NEW i \in 1..Len(a), NEW j \in 1..Len(b), keys[i] = keys[j] PROVE SameSheet(a, b, i, j)
  <2>1. i = j
    BY <1>5 DEF KeysOnce, Whole
  <2> QED
    BY <2>1 DEF SameSheet
<1> QED
  BY <1>4, <1>5 DEF Goes, Near

\* One that changes a name, while there are no charts.
LEMMA NameChanges ==
    ASSUME NEW a, NEW keys, Whole(a, keys), KeysOnce(keys), NEW b, Bare(b), Len(b) = Len(a),
           NEW s \in 1..Len(a), NEW nm, Unused(nm, a),
           \A i \in 1..Len(a) : b[i].name = IF i = s THEN nm ELSE a[i].name
    PROVE  Goes(a, keys, b, keys)
<1>1. NamedOnce(a) /\ Len(keys) = Len(a)
  BY DEF Whole
<1>2. NamedOnce(b)
  BY <1>1 DEF NamedOnce, Unused
<1>3. Whole(b, keys)
  BY <1>1, <1>2, BareIsSourced DEF Whole
<1>4. Unused(a[s].name, b)
  BY <1>1 DEF NamedOnce, Unused
<1>5. ASSUME NEW i \in 1..Len(a), NEW j \in 1..Len(b), keys[i] = keys[j] PROVE SameSheet(a, b, i, j)
  <2>1. i = j
    BY <1>1, <1>5 DEF KeysOnce
  <2>2. CASE i = s
    BY <1>4, <2>1, <2>2 DEF SameSheet
  <2>3. CASE i # s
    BY <2>1, <2>3 DEF SameSheet
  <2> QED
    BY <2>2, <2>3
<1> QED
  BY <1>3, <1>5 DEF Goes, Near

\* One after which every sheet has come from one before, with its key and its
\* name, or has a key that was not in use.
LEMMA ComingNear ==
    ASSUME NEW a, NEW ka, Len(ka) = Len(a), KeysOnce(ka), NEW b, NEW kb,
           \A j \in 1..Len(b) :
             \/ \E m \in 1..Len(a) : kb[j] = ka[m] /\ b[j].name = a[m].name
             \/ \A m \in 1..Len(a) : kb[j] # ka[m]
    PROVE  Near(a, ka, b, kb)
<1>1. ASSUME NEW i \in 1..Len(a), NEW j \in 1..Len(b), ka[i] = kb[j] PROVE SameSheet(a, b, i, j)
  <2>1. PICK m \in 1..Len(a) : kb[j] = ka[m] /\ b[j].name = a[m].name
    BY <1>1
  <2>2. m = i
    BY <1>1, <2>1 DEF KeysOnce
  <2> QED
    BY <2>1, <2>2 DEF SameSheet
<1> QED
  BY <1>1 DEF Near

\* Where the sheets come from when one is added at i, and when one is removed.
Before(i, j) == IF j < i THEN j ELSE j - 1
Behind(i, j) == IF j < i THEN j ELSE j + 1

\* One that adds a sheet under a name and a key of its own.
LEMMA SheetAdded ==
    ASSUME NEW a, IsHistory(a), NEW ka, IsHistory(ka), Whole(a, ka), KeysOnce(ka),
           NEW i \in 1..(Len(a) + 1), NEW nm, Unused(nm, a), NEW k, \A m \in 1..Len(a) : ka[m] # k
    PROVE  Goes(a, ka, InsertAt(a, i, NewSheet(nm)), InsertAt(ka, i, k))
<1> DEFINE sh == NewSheet(nm)
           b == InsertAt(a, i, sh)
           kb == InsertAt(ka, i, k)
<1>1. Len(ka) = Len(a) /\ NamedOnce(a) /\ Sourced(a, ka) /\ Len(a) \in Nat
  BY HistoryIsFunction DEF Whole
<1>2. sh.name = nm /\ sh.charts = <<>>
  BY DEF NewSheet
<1> HIDE DEF sh
<1>3. /\ Len(b) = Len(a) + 1 /\ b[i] = sh
      /\ \A j \in 1..(i - 1) : b[j] = a[j]
      /\ \A j \in (i + 1)..(Len(a) + 1) : b[j] = a[j - 1]
  BY InsertedHistory
<1>4. /\ Len(kb) = Len(a) + 1 /\ kb[i] = k
      /\ \A j \in 1..(i - 1) : kb[j] = ka[j]
      /\ \A j \in (i + 1)..(Len(a) + 1) : kb[j] = ka[j - 1]
  BY <1>1, InsertedHistory
<1> HIDE DEF b, kb
<1>5. ASSUME NEW j \in 1..Len(b), j # i
      PROVE  /\ Before(i, j) \in 1..Len(a)
             /\ b[j] = a[Before(i, j)] /\ kb[j] = ka[Before(i, j)]
  <2>1. CASE j < i
    <3>1. j \in 1..(i - 1) /\ j \in 1..Len(a) /\ Before(i, j) = j
      BY <1>1, <1>3, <2>1 DEF Before
    <3> QED
      BY <1>3, <1>4, <3>1
  <2>2. CASE ~(j < i)
    <3>1. j \in (i + 1)..(Len(a) + 1) /\ j - 1 \in 1..Len(a) /\ Before(i, j) = j - 1
      BY <1>1, <1>3, <1>5, <2>2 DEF Before
    <3> QED
      BY <1>3, <1>4, <3>1
  <2> QED
    BY <2>1, <2>2
<1>6. ASSUME NEW j \in 1..Len(b), j # i, NEW l \in 1..Len(b), l # i, Before(i, j) = Before(i, l)
      PROVE  j = l
  BY <1>1, <1>3, <1>6 DEF Before
<1>7. NamedOnce(b)
  <2>1. ASSUME NEW j \in 1..Len(b), NEW l \in 1..Len(b), b[j].name = b[l].name PROVE j = l
    <3>1. CASE j = i /\ l # i
      <4>1. b[l] = a[Before(i, l)] /\ Before(i, l) \in 1..Len(a) /\ b[j].name = nm
        BY <1>2, <1>3, <1>5, <3>1
      <4> QED
        BY <2>1, <4>1 DEF Unused
    <3>2. CASE j # i /\ l = i
      <4>1. b[j] = a[Before(i, j)] /\ Before(i, j) \in 1..Len(a) /\ b[l].name = nm
        BY <1>2, <1>3, <1>5, <3>2
      <4> QED
        BY <2>1, <4>1 DEF Unused
    <3>3. CASE j # i /\ l # i
      <4>1. /\ b[j] = a[Before(i, j)] /\ Before(i, j) \in 1..Len(a)
            /\ b[l] = a[Before(i, l)] /\ Before(i, l) \in 1..Len(a)
        BY <1>5, <3>3
      <4>2. Before(i, j) = Before(i, l)
        BY <1>1, <2>1, <4>1 DEF NamedOnce
      <4> QED
        BY <1>6, <3>3, <4>2
    <3> QED
      BY <3>1, <3>2, <3>3
  <2> QED
    BY <2>1 DEF NamedOnce
<1>8. ASSUME NEW d, Found(a, ka, d) PROVE Found(b, kb, d)
  <2>1. PICK t \in 1..Len(a) : ka[t] = d.of /\ a[t].name = d.source
    BY <1>8 DEF Found
  <2>2. PICK j : j = IF t < i THEN t ELSE t + 1
    OBVIOUS
  <2>3. j \in 1..Len(b) /\ j # i /\ Before(i, j) = t
    BY <1>1, <1>3, <2>2 DEF Before
  <2>4. b[j] = a[t] /\ kb[j] = ka[t]
    BY <1>5, <2>3
  <2> QED
    BY <2>1, <2>3, <2>4 DEF Found
<1>9. Sourced(b, kb)
  <2>1. ASSUME NEW j \in 1..Len(b), NEW n \in 1..Len(b[j].charts) PROVE Found(b, kb, b[j].charts[n])
    <3>1. CASE j = i
      <4>1. b[j].charts = <<>>
        BY <1>2, <1>3, <3>1
      <4>2. n \in 1..0
        BY <4>1, EmptyHistory
      <4> QED
        BY <4>2
    <3>2. CASE j # i
      <4>1. b[j] = a[Before(i, j)] /\ Before(i, j) \in 1..Len(a)
        BY <1>5, <3>2
      <4>2. Found(a, ka, b[j].charts[n])
        BY <1>1, <4>1 DEF Sourced
      <4> QED
        BY <1>8, <4>2
    <3> QED
      BY <3>1, <3>2
  <2> QED
    BY <2>1 DEF Sourced
<1>10. Near(a, ka, b, kb)
  <2>1. ASSUME NEW j \in 1..Len(b)
        PROVE  \/ \E m \in 1..Len(a) : kb[j] = ka[m] /\ b[j].name = a[m].name
               \/ \A m \in 1..Len(a) : kb[j] # ka[m]
    <3>1. CASE j = i
      BY <1>4, <3>1
    <3>2. CASE j # i
      BY <1>5, <3>2
    <3> QED
      BY <3>1, <3>2
  <2> QED
    BY <1>1, <2>1, ComingNear
<1> QED
  BY <1>3, <1>4, <1>7, <1>9, <1>10 DEF Goes, Whole, b, kb, sh

\* One that removes a sheet while there are no charts.
LEMMA SheetRemoved ==
    ASSUME NEW a, IsHistory(a), Len(a) > 1, Bare(a), NEW ka, IsHistory(ka), Whole(a, ka), KeysOnce(ka),
           NEW i \in 1..Len(a)
    PROVE  Goes(a, ka, RemoveAt(a, i), RemoveAt(ka, i))
<1> DEFINE b == RemoveAt(a, i)
           kb == RemoveAt(ka, i)
<1>1. Len(ka) = Len(a) /\ NamedOnce(a) /\ Len(a) \in Nat
  BY HistoryIsFunction DEF Whole
<1>2. /\ Len(b) = Len(a) - 1
      /\ \A j \in 1..(i - 1) : b[j] = a[j]
      /\ \A j \in i..(Len(a) - 1) : b[j] = a[j + 1]
  BY RemovedHistory
<1>3. /\ Len(kb) = Len(a) - 1
      /\ \A j \in 1..(i - 1) : kb[j] = ka[j]
      /\ \A j \in i..(Len(a) - 1) : kb[j] = ka[j + 1]
  BY <1>1, RemovedHistory
<1> HIDE DEF b, kb
<1>4. ASSUME NEW j \in 1..Len(b)
      PROVE  /\ Behind(i, j) \in 1..Len(a)
             /\ b[j] = a[Behind(i, j)] /\ kb[j] = ka[Behind(i, j)]
  <2>1. CASE j < i
    <3>1. j \in 1..(i - 1) /\ j \in 1..Len(a) /\ Behind(i, j) = j
      BY <1>1, <1>2, <2>1 DEF Behind
    <3> QED
      BY <1>2, <1>3, <3>1
  <2>2. CASE ~(j < i)
    <3>1. j \in i..(Len(a) - 1) /\ j + 1 \in 1..Len(a) /\ Behind(i, j) = j + 1
      BY <1>1, <1>2, <2>2 DEF Behind
    <3> QED
      BY <1>2, <1>3, <3>1
  <2> QED
    BY <2>1, <2>2
<1>5. ASSUME NEW j \in 1..Len(b), NEW l \in 1..Len(b), Behind(i, j) = Behind(i, l)
      PROVE  j = l
  BY <1>1, <1>2, <1>5 DEF Behind
<1>6. NamedOnce(b)
  <2>1. ASSUME NEW j \in 1..Len(b), NEW l \in 1..Len(b), b[j].name = b[l].name PROVE j = l
    <3>1. /\ b[j] = a[Behind(i, j)] /\ Behind(i, j) \in 1..Len(a)
          /\ b[l] = a[Behind(i, l)] /\ Behind(i, l) \in 1..Len(a)
      BY <1>4
    <3>2. Behind(i, j) = Behind(i, l)
      BY <1>1, <2>1, <3>1 DEF NamedOnce
    <3> QED
      BY <1>5, <3>2
  <2> QED
    BY <2>1 DEF NamedOnce
<1>7. Bare(b)
  BY <1>4 DEF Bare
<1>8. Near(a, ka, b, kb)
  BY <1>1, <1>4, ComingNear
<1> QED
  BY <1>1, <1>2, <1>3, <1>6, <1>7, <1>8, BareIsSourced DEF Goes, Whole, b, kb

\* One that puts another sheet of the same name in the place of one, while there
\* are no charts.
LEMMA SheetReplaced ==
    ASSUME NEW a, IsHistory(a), Bare(a), NEW ka, IsHistory(ka), Whole(a, ka), KeysOnce(ka),
           NEW i \in 1..Len(a), NEW k, \A m \in 1..Len(a) : ka[m] # k
    PROVE  Goes(a, ka, InsertAt(RemoveAt(a, i), i, NewSheet(a[i].name)), InsertAt(RemoveAt(ka, i), i, k))
<1> DEFINE sh == NewSheet(a[i].name)
           x == RemoveAt(a, i)
           kx == RemoveAt(ka, i)
           b == InsertAt(x, i, sh)
           kb == InsertAt(kx, i, k)
<1>1. Len(ka) = Len(a) /\ NamedOnce(a) /\ Len(a) \in Nat
  BY HistoryIsFunction DEF Whole
<1>2. sh.name = a[i].name /\ sh.charts = <<>>
  BY DEF NewSheet
<1> HIDE DEF sh
<1>3. /\ IsHistory(x) /\ Len(x) = Len(a) - 1
      /\ \A j \in 1..(i - 1) : x[j] = a[j]
      /\ \A j \in i..(Len(a) - 1) : x[j] = a[j + 1]
  BY RemovedHistory
<1>4. /\ IsHistory(kx) /\ Len(kx) = Len(a) - 1
      /\ \A j \in 1..(i - 1) : kx[j] = ka[j]
      /\ \A j \in i..(Len(a) - 1) : kx[j] = ka[j + 1]
  BY <1>1, RemovedHistory
<1> HIDE DEF x, kx
<1>5. i \in 1..(Len(x) + 1) /\ i \in 1..(Len(kx) + 1)
  BY <1>1, <1>3, <1>4
<1>6. /\ Len(b) = Len(x) + 1 /\ b[i] = sh
      /\ \A j \in 1..(i - 1) : b[j] = x[j]
      /\ \A j \in (i + 1)..(Len(x) + 1) : b[j] = x[j - 1]
  BY <1>3, <1>5, InsertedHistory
<1>7. /\ Len(kb) = Len(kx) + 1 /\ kb[i] = k
      /\ \A j \in 1..(i - 1) : kb[j] = kx[j]
      /\ \A j \in (i + 1)..(Len(kx) + 1) : kb[j] = kx[j - 1]
  BY <1>4, <1>5, InsertedHistory
<1> HIDE DEF b, kb
<1>8. Len(b) = Len(a) /\ Len(kb) = Len(a)
  BY <1>1, <1>3, <1>4, <1>6, <1>7
<1>9. ASSUME NEW j \in 1..Len(a), j # i PROVE b[j] = a[j] /\ kb[j] = ka[j]
  <2>1. CASE j < i
    <3>1. j \in 1..(i - 1)
      BY <1>1, <2>1
    <3> QED
      BY <1>3, <1>4, <1>6, <1>7, <3>1
  <2>2. CASE ~(j < i)
    <3>1. PICK l : l = j - 1
      OBVIOUS
    <3>2. j \in (i + 1)..(Len(x) + 1) /\ j \in (i + 1)..(Len(kx) + 1) /\ l \in i..(Len(a) - 1) /\ l + 1 = j
      BY <1>1, <1>3, <1>4, <1>9, <2>2, <3>1
    <3>3. b[j] = x[l] /\ kb[j] = kx[l]
      BY <1>6, <1>7, <3>1, <3>2
    <3> QED
      BY <1>3, <1>4, <3>2, <3>3
  <2> QED
    BY <2>1, <2>2
<1>10. ASSUME NEW j \in 1..Len(a) PROVE b[j].name = a[j].name /\ b[j].charts = <<>>
  BY <1>2, <1>6, <1>9 DEF Bare
<1>11. NamedOnce(b) /\ Bare(b)
  BY <1>1, <1>8, <1>10 DEF NamedOnce, Bare
<1>12. Near(a, ka, b, kb)
  <2>1. ASSUME NEW j \in 1..Len(b)
        PROVE  \/ \E m \in 1..Len(a) : kb[j] = ka[m] /\ b[j].name = a[m].name
               \/ \A m \in 1..Len(a) : kb[j] # ka[m]
    <3>1. CASE j = i
      BY <1>7, <3>1
    <3>2. CASE j # i
      BY <1>8, <1>9, <3>2
    <3> QED
      BY <3>1, <3>2
  <2> QED
    BY <1>1, <2>1, ComingNear
<1> QED
  BY <1>8, <1>11, <1>12, BareIsSourced DEF Goes, Whole, b, kb, sh, x, kx

-----------------------------------------------------------------------------
(* Every edit goes from one whole content to another that is near.         *)

\* Workbooks that differ in calculated values only look the same.
LEMMA PlainLook ==
    ASSUME NEW a, IsBook(a), NEW b, IsBook(b), Plain(a) = Plain(b)
    PROVE  SameLook(a, b)
  BY AlikeIs DEF Alike, SameLook

\* What looks like a workbook that an edit goes to is one that it goes to.
LEMMA GoesLook ==
    ASSUME NEW a, NEW ka, NEW b, NEW kb, Goes(a, ka, b, kb), NEW c, SameLook(b, c)
    PROVE  Goes(a, ka, c, kb)
<1>1. Whole(c, kb)
  BY LookWhole DEF Goes
<1>2. SameLook(a, a)
  BY DEF SameLook
<1>3. Near(a, ka, c, kb)
  BY <1>2, LookNear DEF Goes
<1> QED
  BY <1>1, <1>3 DEF Goes

\* The keys are in use once, and the next one is not in use.
LEMMA KeysAre ==
    ASSUME KeysInv
    PROVE  /\ IsHistory(order) /\ Len(order) = Len(model) /\ KeysOnce(order)
           /\ \A m \in 1..Len(model) : order[m] # Fresh(nextKey)
<1>1. IsHistory(order) /\ InStep(origins, order, nextKey) /\ Len(order) = Len(model) /\ nextKey \in Nat
  BY DEF KeysInv, AuthorityKept, ModelKept, InStep
<1>2. nextKey >= nextKey
  BY <1>1
<1> QED
  BY <1>1, <1>2 DEF InStep, KeysOnce

\* A cell is set and what depends on it calculated.
LEMMA SettingGoes ==
    ASSUME HistoryInv, KeysInv, BookInv, Whole(model, order),
           NEW s \in Sheets, NEW r \in Row, NEW input \in Cell, SetAndRecalculate(s, r, input)
    PROVE  Goes(model, order, model', order') /\ order' = order
<1> DEFINE op == SetCell(s, r, input)
           done == ApplyOps(model, <<op>>)
           wb == WithCell(model, s, r, input)
<1>1. graph' = SetFormula(graph, done.wb, <<s, r>>) /\ model' = RecalcAfter(done.wb, graph', {<<s, r>>})
  BY DEF SetAndRecalculate
<1>2. IsBook(model) /\ Calculated(model, graph.nodes) /\ s \in 1..Len(model)
  BY DEF BookInv, BookKept, Sheets
<1>3. done.wb = wb
  <2>1. Apply(model, op).wb = wb
    BY DEF SetCell, Apply, ApplySetCell, Done
  <2> HIDE DEF op, wb
  <2> QED
    BY <2>1, OneApplied
<1>4. order' = order
  <2>1. ModelKept /\ AuthorityKept
    BY DEF KeysInv
  <2> QED
    BY <2>1, SettingKeepsKeys
<1> HIDE DEF op, done
<1>5. IsBook(wb) /\ SameLook(model, wb)
  BY <1>2, WithCellIs DEF SameLook
<1>6. Calculated(wb, graph'.nodes)
  BY <1>1, <1>2, <1>3, SetFormulaCalculated
<1> HIDE DEF wb
<1>7. IsBook(model') /\ Plain(model') = Plain(wb)
  BY <1>1, <1>3, <1>5, <1>6, SomeOnlyValues
<1>8. SameLook(wb, model')
  BY <1>5, <1>7, PlainLook
<1>9. Goes(model, order, wb, order)
  BY <1>5, KeysAre, LookStays
<1> QED
  BY <1>4, <1>8, <1>9, GoesLook

\* Of the charts after a chart operation each is an old one, perhaps put at
\* another place, or the new one.
LEMMA ChartsCome ==
    ASSUME IsBook(model), InStep(origins, order, nextKey), Len(order) = Len(model), NEW op \in ChartOps,
           NEW cs, cs = ChartsAfter(model[op.sheet].charts, op), NEW n \in 1..Len(cs)
    PROVE  \/ \E t \in Sheets : cs[n].source = model[t].name /\ cs[n].of = order[t]
           \/ \E m \in 1..Len(model[op.sheet].charts) :
                /\ cs[n].source = model[op.sheet].charts[m].source
                /\ cs[n].of = model[op.sheet].charts[m].of
<1> DEFINE A(s) == {AddChart(s, Len(model[s].charts) + 1, ChartOn(t, a)) : t \in Sheets, a \in Anchors}
           B(s) == {SetAnchor(s, i, a) : i \in ChartsOf(s), a \in Anchors}
           C(s) == {RemoveChart(s, i, model[s].charts[i]) : i \in ChartsOf(s)}
<1>1. PICK s \in Sheets : op \in A(s) \/ op \in B(s) \/ op \in C(s)
  BY DEF ChartOps
<1>2. op.sheet = s
  BY <1>1 DEF AddChart, SetAnchor, RemoveChart
<1> DEFINE old == model[s].charts
<1>3. old \in Seq(Chart) /\ IsHistory(old) /\ Len(old) \in Nat
  <2>1. model[s].charts \in Seq(Chart)
    BY BookIs DEF Sheets
  <2> QED
    BY <2>1, HistoryOf, HistoryIsFunction
<1>4. CASE op \in A(s)
  <2>1. PICK t \in Sheets, a \in Anchors : op = AddChart(s, Len(old) + 1, ChartOn(t, a))
    BY <1>4
  <2> DEFINE d == ChartOn(t, a)
  <2>2. d.source = model[t].name /\ d.of = order[t]
    BY DEF ChartOn
  <2> HIDE DEF d
  <2>3. cs = InsertAt(old, Len(old) + 1, d)
    BY <1>2, <2>1 DEF AddChart, ChartsAfter, d
  <2> HIDE DEF old
  <2>4. Len(old) + 1 \in 1..(Len(old) + 1)
    BY <1>3
  <2>5. /\ Len(cs) = Len(old) + 1 /\ cs[Len(old) + 1] = d
        /\ \A j \in 1..(Len(old) + 1 - 1) : cs[j] = old[j]
    BY <1>3, <2>3, <2>4, InsertedHistory
  <2>6. CASE n = Len(old) + 1
    BY <2>2, <2>5, <2>6
  <2>7. CASE n # Len(old) + 1
    <3>1. n \in 1..Len(old) /\ n \in 1..(Len(old) + 1 - 1)
      BY <1>3, <2>5, <2>7
    <3> QED
      BY <1>2, <2>5, <3>1 DEF old
  <2> QED
    BY <2>6, <2>7
<1>5. CASE op \in B(s)
  <2>1. PICK i \in 1..Len(old), a \in Anchors : op = SetAnchor(s, i, a)
    BY <1>5 DEF ChartsOf
  <2>2. cs = [old EXCEPT ![i].anchor = a]
    BY <1>2, <2>1 DEF SetAnchor, ChartsAfter, Anchored
  <2> HIDE DEF old
  <2>3. DOMAIN old = 1..Len(old) /\ Len(cs) = Len(old)
    BY <1>3, <2>2, HistoryIsFunction
  <2>4. n \in DOMAIN old /\ old[n] \in Chart
    BY <1>3, <2>3, HistoryOf
  <2>5. cs[n].source = old[n].source /\ cs[n].of = old[n].of
    BY <2>2, <2>4 DEF Chart
  <2> QED
    BY <1>2, <2>3, <2>5 DEF old
<1>6. CASE op \in C(s)
  <2>1. PICK i \in 1..Len(old) : op = RemoveChart(s, i, old[i])
    BY <1>6 DEF ChartsOf
  <2>2. cs = RemoveAt(old, i)
    BY <1>2, <2>1 DEF RemoveChart, ChartsAfter
  <2> HIDE DEF old
  <2>3. /\ Len(cs) = Len(old) - 1
        /\ \A j \in 1..(i - 1) : cs[j] = old[j]
        /\ \A j \in i..(Len(old) - 1) : cs[j] = old[j + 1]
    BY <1>3, <2>2, RemovedHistory
  <2>4. CASE n < i
    <3>1. n \in 1..(i - 1) /\ n \in 1..Len(old)
      BY <1>3, <2>3, <2>4
    <3> QED
      BY <1>2, <2>3, <3>1 DEF old
  <2>5. CASE ~(n < i)
    <3>1. n \in i..(Len(old) - 1) /\ n + 1 \in 1..Len(old)
      BY <1>3, <2>3, <2>5
    <3> QED
      BY <1>2, <2>3, <3>1 DEF old
  <2> QED
    BY <2>4, <2>5
<1> QED
  BY <1>1, <1>4, <1>5, <1>6

\* An edit of charts.
LEMMA ChartsGo ==
    ASSUME HistoryInv, KeysInv, BookInv, Whole(model, order), NEW op \in ChartOps, EditChart(op)
    PROVE  Goes(model, order, model', order') /\ order' = order
<1> DEFINE done == ApplyOps(model, <<op>>)
           cs == ChartsAfter(model[op.sheet].charts, op)
           wb == WithCharts(model, op.sheet, cs)
<1>1. Commit(<<op>>, done.inverse) /\ model' = done.wb
  BY DEF EditChart, CommitSidecar
<1>2. /\ IsBook(model) /\ ModelKept /\ AuthorityKept
      /\ Len(order) = Len(model) /\ InStep(origins, order, nextKey)
  BY DEF BookInv, BookKept, KeysInv, ModelKept, AuthorityKept
<1>3. Suits(model, op) /\ ChartOp(op)
  BY <1>2, ChartOpsSuit
<1>4. op.sheet \in 1..Len(model) /\ cs \in Seq(Chart) /\ Apply(model, op).wb = wb
  BY <1>2, <1>3, ChartOpIs DEF WithCharts
<1>5. model' = wb
  BY <1>1, <1>4, OneApplied
<1>6. order' = order
  <2>1. Len(model) \in Nat
    BY <1>2, HistoryIsFunction DEF ModelKept
  <2>2. Entry(<<op>>, Len(model), Len(model)) /\ ~HasShift(<<op>>)
    BY <2>1, ChartOpsAreOfCharts, OneEntry
  <2>3. Commit(<<op>>, ApplyOps(model, <<op>>).inverse)
    BY <1>1
  <2> HIDE DEF done, cs, wb
  <2> QED
    BY <1>2, <2>2, <2>3, CommitKeepsAuthority
<1>7. ASSUME NEW n \in 1..Len(cs) PROVE Found(model, order, cs[n])
  <2> DEFINE old == model[op.sheet].charts
  <2>1. \/ \E t \in Sheets : cs[n].source = model[t].name /\ cs[n].of = order[t]
        \/ \E m \in 1..Len(old) : cs[n].source = old[m].source /\ cs[n].of = old[m].of
    BY <1>2, <1>7, ChartsCome
  <2> HIDE DEF cs
  <2>2. CASE \E t \in Sheets : cs[n].source = model[t].name /\ cs[n].of = order[t]
    BY <2>2 DEF Found, Sheets
  <2>3. CASE \E m \in 1..Len(old) : cs[n].source = old[m].source /\ cs[n].of = old[m].of
    <3>1. PICK m \in 1..Len(old) : cs[n].source = old[m].source /\ cs[n].of = old[m].of
      BY <2>3
    <3>2. Found(model, order, old[m])
      BY <1>4 DEF Whole, Sourced
    <3> QED
      BY <3>1, <3>2 DEF Found
  <2> QED
    BY <2>1, <2>2, <2>3
<1> HIDE DEF cs
<1>8. /\ Len(wb) = Len(model) /\ wb[op.sheet].charts = cs
      /\ \A i \in 1..Len(model) : wb[i].name = model[i].name
      /\ \A i \in 1..Len(model) : i # op.sheet => wb[i].charts = model[i].charts
  BY <1>2, <1>4, ChartsChanged
<1> HIDE DEF wb
<1>9. Goes(model, order, wb, order)
  BY <1>7, <1>8, KeysAre, ChartsChange
<1> QED
  BY <1>5, <1>6, <1>9

\* The keys as they are, and the next one.
KeysNow == [keys |-> order, next |-> nextKey]

\* The keys after one operation.
LEMMA OneKeyed ==
    ASSUME NEW op
    PROVE  KeysAfter(<<op>>) = KeyStep(KeysNow, op)
<1>1. IsHistory(<<op>>) /\ Len(<<op>>) = 1 /\ <<op>>[1] = op
  BY OneIsHistory
<1>2. PICK f : /\ KeysAfter(<<op>>) = f[1] /\ f[0] = KeysNow
               /\ \A m \in 1..1 : f[m] = KeyStep(f[m - 1], <<op>>[m])
  BY <1>1, PlannedIs DEF KeysNow
<1> QED
  BY <1>1, <1>2

\* The keys after two.
LEMMA TwoKeyed ==
    ASSUME NEW x, NEW y
    PROVE  KeysAfter(<<x, y>>) = KeyStep(KeyStep(KeysNow, x), y)
<1> DEFINE ops == <<x, y>>
<1>1. IsHistory(ops) /\ Len(ops) = 2 /\ ops[1] = x /\ ops[2] = y
  <2>1. Len(ops) = 2 /\ ops = [i \in 1..2 |-> ops[i]] /\ ops[1] = x /\ ops[2] = y
    OBVIOUS
  <2> HIDE DEF ops
  <2> QED
    BY <2>1, FunctionIsHistory
<1> HIDE DEF ops
<1>2. PICK f : /\ KeysAfter(ops) = f[2] /\ f[0] = KeysNow
               /\ \A m \in 1..2 : f[m] = KeyStep(f[m - 1], ops[m])
  BY <1>1, PlannedIs DEF KeysNow
<1>3. 1 \in 1..2 /\ 2 \in 1..2 /\ 1 - 1 = 0 /\ 2 - 1 = 1
  OBVIOUS
<1> QED
  BY <1>1, <1>2, <1>3 DEF ops

\* The order after a transaction over the structure is the one that is planned.
LEMMA OrderIsPlanned ==
    ASSUME HistoryInv, KeysInv, NEW ops \in Transactions, ApplyTransaction(ops)
    PROVE  order' = KeysAfter(ops).keys /\ (~HasShift(ops) => order' = order)
<1>1. Commit(ops, ApplyOps(model, ops).inverse)
  BY DEF ApplyTransaction
<1>2. PICK b : Entry(ops, Len(model), b)
  BY TransactionsFit DEF KeysInv, ModelKept
<1>3. ~HasShift(ops) => order' = order
  BY <1>1, <1>2, CommitKeepsAuthority DEF KeysInv
<1>4. IsHistory(ops) /\ ops # <<>>
  BY <1>2 DEF Entry, Leads
<1>5. ASSUME NEW op, op.op \in {"InsertRow", "DeleteRow", "AddSheet", "RemoveSheet", "RenameSheet"}
      PROVE  ~IsSidecar(op)
  BY <1>5 DEF IsSidecar
<1>6. Structural(ops)
  BY <1>5 DEF Transactions, Structural, InsertRow, DeleteRow, AddSheet, RemoveSheet, RenameSheet
<1>7. Shared(ops) = ops
  BY <1>4, <1>6, WhatIsShared
<1> QED
  BY <1>1, <1>3, <1>4, <1>7 DEF Commit, AuthorityCommits

\* What is allowed as the first operation of a transaction.
LEMMA FirstAllowed ==
    ASSUME NEW ops, Len(ops) >= 1,
           \A n \in 1..Len(ops) : Allowed(ApplyOps(model, SubSeq(ops, 1, n - 1)).wb, ops[n]),
           Len(ops) \in Nat
    PROVE  Allowed(model, ops[1])
<1>1. Allowed(ApplyOps(model, SubSeq(ops, 1, 1 - 1)).wb, ops[1])
  OBVIOUS
<1>2. SubSeq(ops, 1, 1 - 1) = <<>>
  <2> DEFINE none == SubSeq(ops, 1, 1 - 1)
  <2>1. 1 \in Int /\ 1 - 1 \in Int
    OBVIOUS
  <2>2. IsHistory(none) /\ Len(none) = IF 1 <= 1 - 1 THEN (1 - 1) - 1 + 1 ELSE 0
    BY <2>1, PartOfHistory
  <2> HIDE DEF none
  <2>3. Len(none) = 0
    BY <2>2
  <2>4. none = <<>> <=> ~(Len(none) > 0)
    BY <2>2, HistoryIsFunction
  <2> QED
    BY <2>3, <2>4 DEF none
<1>3. ApplyOps(model, <<>>).wb = model
  <2>1. IsHistory(<<>>) /\ Len(<<>>) = 0
    BY EmptyHistory
  <2>2. PICK f : ApplyOps(model, <<>>) = f[0] /\ f[0] = Done(model, <<>>)
    BY <2>1, AppliedIs
  <2> QED
    BY <2>2 DEF Done
<1> QED
  BY <1>1, <1>2, <1>3

\* Without charts the workbook is bare; a name it has not is not in use.
LEMMA NoneStand ==
    ASSUME NoChartStands
    PROVE  Bare(model)
  BY DEF NoChartStands, Bare, Sheets

\* A name that no sheet has is not in use.
LEMMA NotNamed ==
    ASSUME NEW nm, nm \notin NamesOf(model)
    PROVE  Unused(nm, model)
  BY DEF NamesOf, Unused

\* Each of the transactions goes where it should.
GoesBy(ops, keys) == Goes(model, order, ApplyOps(model, ops).wb, keys)

\* Rows.
LEMMA RowsGo ==
    ASSUME KeysInv, BookInv, Whole(model, order), NEW s \in Sheets, NEW r \in Row,
           NEW op, op = InsertRow(s, r) \/ op = DeleteRow(s, r)
    PROVE  GoesBy(<<op>>, order)
<1> DEFINE wb == Apply(model, op).wb
<1>1. IsBook(model)
  BY DEF BookInv, BookKept
<1>2. RowsFit(model, op)
  BY DEF InsertRow, DeleteRow, RowsFit, Sheets
<1>3. wb = RowsAfter(model, op)
  <2>1. ASSUME NEW back PROVE ApplyRows(model, op, back).wb = RowsAfter(model, op)
    BY DEF ApplyRows, Done, RowsAfter
  <2>2. Apply(model, op) = ApplyRows(model, op, DeleteRow(s, r)) \/ Apply(model, op) = ApplyRows(model, op, InsertRow(s, r))
    <3>1. CASE op = InsertRow(s, r)
      BY <3>1 DEF InsertRow, Apply, ApplyInsertRow
    <3>2. CASE op = DeleteRow(s, r)
      BY <3>2 DEF DeleteRow, Apply, ApplyDeleteRow
    <3> QED
      BY <3>1, <3>2
  <2> QED
    BY <2>1, <2>2
<1>4. SameLook(model, wb)
  BY <1>1, <1>2, <1>3, RowsAfterIs DEF SameLook
<1> HIDE DEF wb
<1>5. Goes(model, order, wb, order)
  BY <1>4, KeysAre, LookStays
<1> QED
  BY <1>5, OneApplied DEF GoesBy, wb

\* A name.
LEMMA RenamingGoes ==
    ASSUME KeysInv, BookInv, Whole(model, order), NEW s \in Sheets, NEW nm \in Names,
           Allowed(model, RenameSheet(s, nm))
    PROVE  GoesBy(<<RenameSheet(s, nm)>>, order)
<1> DEFINE op == RenameSheet(s, nm)
           wb == Apply(model, op).wb
<1>1. IsBook(model) /\ s \in 1..Len(model)
  BY DEF BookInv, BookKept, Sheets
<1>2. op.op = "RenameSheet" /\ op.sheet = s /\ op.name = nm
  BY DEF RenameSheet
<1>3. NoChartStands /\ op.name \notin NamesOf(model)
  BY <1>2 DEF Allowed
<1>4. Bare(model) /\ Unused(nm, model)
  BY <1>2, <1>3, NoneStand, NotNamed
<1> HIDE DEF op
<1>5. /\ Len(wb) = Len(model)
      /\ \A i \in 1..Len(model) :
           wb[i].name = (IF i = s THEN nm ELSE model[i].name) /\ wb[i].charts = model[i].charts
  BY <1>1, <1>2, RenameIs
<1> HIDE DEF wb
<1>6. Bare(wb)
  BY <1>4, <1>5 DEF Bare
<1>7. \A i \in 1..Len(model) : wb[i].name = IF i = s THEN nm ELSE model[i].name
  BY <1>5
<1>8. Goes(model, order, wb, order)
  BY <1>1, <1>4, <1>5, <1>6, <1>7, KeysAre, NameChanges
<1> QED
  BY <1>8, OneApplied DEF GoesBy, wb, op

\* A sheet added.
LEMMA AddingGoes ==
    ASSUME KeysInv, BookInv, Whole(model, order), NEW i \in 1..(Len(model) + 1), NEW nm \in Names,
           Allowed(model, AddSheet(i, nm))
    PROVE  GoesBy(<<AddSheet(i, nm)>>, KeysAfter(<<AddSheet(i, nm)>>).keys)
<1> DEFINE op == AddSheet(i, nm)
<1>1. op.op = "AddSheet" /\ op.index = i /\ op.name = nm
  BY DEF AddSheet
<1>2. Unused(nm, model)
  BY <1>1, NotNamed DEF Allowed
<1>3. IsHistory(model)
  BY DEF KeysInv, ModelKept
<1> HIDE DEF op
<1>4. Apply(model, op).wb = InsertAt(model, i, NewSheet(nm))
  BY <1>1 DEF Apply, ApplyAddSheet, Done
<1>5. KeysAfter(<<op>>).keys = InsertAt(order, i, Fresh(nextKey))
  <2>1. KeysNow = [keys |-> KeysNow.keys, next |-> KeysNow.next] /\ KeysNow.keys = order /\ KeysNow.next = nextKey
    BY DEF KeysNow
  <2> QED
    BY <1>1, <2>1, KeyStepIs, OneKeyed
<1>6. Goes(model, order, InsertAt(model, i, NewSheet(nm)), InsertAt(order, i, Fresh(nextKey)))
  BY <1>2, <1>3, KeysAre, SheetAdded
<1>7. GoesBy(<<op>>, KeysAfter(<<op>>).keys)
  BY <1>4, <1>5, <1>6, OneApplied DEF GoesBy
<1> QED
  BY <1>7 DEF op

\* One removed.
LEMMA RemovingGoes ==
    ASSUME KeysInv, BookInv, Whole(model, order), NEW i \in Sheets, Allowed(model, RemoveSheet(i))
    PROVE  GoesBy(<<RemoveSheet(i)>>, KeysAfter(<<RemoveSheet(i)>>).keys)
<1> DEFINE op == RemoveSheet(i)
<1>1. op.op = "RemoveSheet" /\ op.index = i
  BY DEF RemoveSheet
<1>2. Bare(model) /\ Len(model) > 1
  BY <1>1, NoneStand DEF Allowed
<1>3. IsHistory(model) /\ i \in 1..Len(model)
  BY DEF KeysInv, ModelKept, Sheets
<1> HIDE DEF op
<1>4. Apply(model, op).wb = RemoveAt(model, i)
  BY <1>1 DEF Apply, ApplyRemoveSheet, Done
<1>5. KeysAfter(<<op>>).keys = RemoveAt(order, i)
  <2>1. KeysNow = [keys |-> KeysNow.keys, next |-> KeysNow.next] /\ KeysNow.keys = order /\ KeysNow.next = nextKey
    BY DEF KeysNow
  <2> QED
    BY <1>1, <2>1, KeyStepIs, OneKeyed
<1>6. Goes(model, order, RemoveAt(model, i), RemoveAt(order, i))
  BY <1>2, <1>3, KeysAre, SheetRemoved
<1>7. GoesBy(<<op>>, KeysAfter(<<op>>).keys)
  BY <1>4, <1>5, <1>6, OneApplied DEF GoesBy
<1> QED
  BY <1>7 DEF op

\* One replaced by an empty one of its name.
LEMMA ReplacingGoes ==
    ASSUME KeysInv, BookInv, Whole(model, order), NEW i \in Sheets, Allowed(model, RemoveSheet(i)),
           NEW ops, ops = <<RemoveSheet(i), AddSheet(i, model[i].name)>>
    PROVE  GoesBy(ops, KeysAfter(ops).keys)
<1> DEFINE x == RemoveSheet(i)
           y == AddSheet(i, model[i].name)
<1>1. x.op = "RemoveSheet" /\ x.index = i /\ y.op = "AddSheet" /\ y.index = i /\ y.name = model[i].name
  BY DEF RemoveSheet, AddSheet
<1>2. Bare(model)
  BY <1>1, NoneStand DEF Allowed
<1>3. IsHistory(model) /\ i \in 1..Len(model)
  BY DEF KeysInv, ModelKept, Sheets
<1>4. ops = <<x, y>>
  OBVIOUS
<1> HIDE DEF x, y
<1>5. ApplyOps(model, ops).wb = InsertAt(RemoveAt(model, i), i, NewSheet(model[i].name))
  <2>1. Apply(model, x).wb = RemoveAt(model, i)
    BY <1>1 DEF Apply, ApplyRemoveSheet, Done
  <2>2. ASSUME NEW wb PROVE Apply(wb, y).wb = InsertAt(wb, i, NewSheet(model[i].name))
    BY <1>1 DEF Apply, ApplyAddSheet, Done
  <2> QED
    BY <1>4, <2>1, <2>2, TwoApplied
<1>6. KeysAfter(ops).keys = InsertAt(RemoveAt(order, i), i, Fresh(nextKey))
  <2> DEFINE now == KeyStep(KeysNow, x)
  <2>1. KeysNow = [keys |-> KeysNow.keys, next |-> KeysNow.next] /\ KeysNow.keys = order /\ KeysNow.next = nextKey
    BY DEF KeysNow
  <2>2. now = [keys |-> now.keys, next |-> now.next] /\ now.keys = RemoveAt(order, i) /\ now.next = nextKey
    <3>1. /\ now = [keys |-> now.keys, next |-> now.next]
          /\ x.op = "RemoveSheet" => /\ now.keys = RemoveAt(KeysNow.keys, x.index)
                                     /\ now.next = KeysNow.next
      BY <2>1, KeyStepIs
    <3> QED
      BY <1>1, <2>1, <3>1
  <2> HIDE DEF now
  <2>3. KeyStep(now, y).keys = InsertAt(now.keys, i, Fresh(nextKey))
    BY <1>1, <2>2, KeyStepIs
  <2> QED
    BY <1>4, <2>2, <2>3, TwoKeyed DEF now
<1>7. Goes(model, order, InsertAt(RemoveAt(model, i), i, NewSheet(model[i].name)),
                         InsertAt(RemoveAt(order, i), i, Fresh(nextKey)))
  BY <1>2, <1>3, KeysAre, SheetReplaced
<1> QED
  BY <1>5, <1>6, <1>7 DEF GoesBy

\* A transaction over the structure: to the workbook it leaves, before and after
\* that is calculated.
LEMMA StructureGoes ==
    ASSUME HistoryInv, KeysInv, BookInv, Whole(model, order), NEW ops \in Transactions, ApplyTransaction(ops)
    PROVE  /\ GoesBy(ops, order') /\ Goes(model, order, model', order')
           /\ active' = ActiveAfter(ApplyOps(model, ops).wb)
<1>1. order' = KeysAfter(ops).keys /\ (~HasShift(ops) => order' = order)
  BY OrderIsPlanned
<1>2. /\ \A n \in 1..Len(ops) : Allowed(ApplyOps(model, SubSeq(ops, 1, n - 1)).wb, ops[n])
      /\ active' = ActiveAfter(ApplyOps(model, ops).wb)
      /\ model' = RecalcAll(ApplyOps(model, ops).wb)
  BY DEF ApplyTransaction
<1>3. Len(ops) \in Nat /\ Len(ops) >= 1
  BY DEF Transactions
<1>4. Allowed(model, ops[1])
  BY <1>2, <1>3, FirstAllowed
<1>5. GoesBy(ops, order')
  <2>1. ASSUME NEW op, ~Shifts(op), ops = <<op>> PROVE order' = order
    BY <1>1, <2>1 DEF HasShift
  <2>2. CASE \E s \in Sheets, r \in Row : ops = <<InsertRow(s, r)>> \/ ops = <<DeleteRow(s, r)>>
    <3>1. PICK s \in Sheets, r \in Row : ops = <<InsertRow(s, r)>> \/ ops = <<DeleteRow(s, r)>>
      BY <2>2
    <3>2. PICK op : ops = <<op>> /\ (op = InsertRow(s, r) \/ op = DeleteRow(s, r))
      BY <3>1
    <3>3. ~Shifts(op)
      BY <3>2 DEF InsertRow, DeleteRow, Shifts
    <3>4. GoesBy(<<op>>, order)
      BY <3>2, RowsGo
    <3> QED
      BY <2>1, <3>2, <3>3, <3>4
  <2>3. CASE \E i \in 1..(Len(model) + 1), nm \in Names : ops = <<AddSheet(i, nm)>>
    <3>1. PICK i \in 1..(Len(model) + 1), nm \in Names : ops = <<AddSheet(i, nm)>>
      BY <2>3
    <3>2. Allowed(model, AddSheet(i, nm))
      BY <1>4, <3>1
    <3> QED
      BY <1>1, <3>1, <3>2, AddingGoes
  <2>4. CASE \E i \in Sheets : ops = <<RemoveSheet(i)>>
    <3>1. PICK i \in Sheets : ops = <<RemoveSheet(i)>>
      BY <2>4
    <3>2. Allowed(model, RemoveSheet(i))
      BY <1>4, <3>1
    <3> QED
      BY <1>1, <3>1, <3>2, RemovingGoes
  <2>5. CASE \E i \in Sheets, nm \in Names : ops = <<RenameSheet(i, nm)>>
    <3>1. PICK i \in Sheets, nm \in Names : ops = <<RenameSheet(i, nm)>>
      BY <2>5
    <3>2. Allowed(model, RenameSheet(i, nm)) /\ ~Shifts(RenameSheet(i, nm))
      BY <1>4, <3>1 DEF RenameSheet, Shifts
    <3> QED
      BY <2>1, <3>1, <3>2, RenamingGoes
  <2>6. CASE \E i \in Sheets : ops = <<RemoveSheet(i), AddSheet(i, model[i].name)>>
    <3>1. PICK i \in Sheets : ops = <<RemoveSheet(i), AddSheet(i, model[i].name)>>
      BY <2>6
    <3>2. Allowed(model, RemoveSheet(i))
      BY <1>4, <3>1
    <3> QED
      BY <1>1, <3>1, <3>2, ReplacingGoes
  <2> QED
    BY <2>2, <2>3, <2>4, <2>5, <2>6 DEF Transactions
<1>6. IsBook(ApplyOps(model, ops).wb)
  <2>1. IsBook(model)
    BY DEF BookInv, BookKept
  <2>2. \E p : Walks(Plain(model), ops, p)
    BY <1>2, <2>1, TransactionsWalk
  <2> QED
    BY <2>1, <2>2, ApplyingWalks
<1> DEFINE wb == ApplyOps(model, ops).wb
<1>7. IsBook(wb) /\ model' = RecalcAll(wb) /\ Goes(model, order, wb, order')
  BY <1>2, <1>5, <1>6 DEF GoesBy
<1> HIDE DEF wb
<1>8. SameLook(wb, model')
  BY <1>7, AllOnlyValues, PlainLook
<1>9. Goes(model, order, model', order')
  BY <1>7, <1>8, GoesLook
<1> QED
  BY <1>2, <1>5, <1>9

-----------------------------------------------------------------------------
(* The line of contents, and the sheet that is shown.                      *)

\* The content of the workbook as it is.
Here == Content(model, origins, order)

\* The contents of the line are whole, each near the next, and the sheet that is
\* shown is there.
LineKept == WholeContent(Here) /\ Line(seen, Here) /\ Line(undone, Here)
PageKept == active \in 1..Len(model)
LineInv == LineKept /\ PageKept

\* A line without contents.
LEMMA NoLine ==
    ASSUME NEW c
    PROVE  Line(<<>>, c)
  BY EmptyHistory DEF Line

\* What is here is whole when the model and the order are.
LEMMA HereIs ==
    ASSUME KeysInv, BookInv
    PROVE  WholeContent(Here) <=> Whole(model, order)
  BY WholeIs DEF Here, BookInv, BookKept

\* The content is near the next when the workbook is.
LEMMA HereNear ==
    ASSUME BookInv, BookInv'
    PROVE  NearContents(Here, Here') <=> Near(model, order, model', order')
<1>1. IsBook(model) /\ IsBook(model')
  BY DEF BookInv, BookKept
<1>2. NearContents(Content(model, origins, order), Content(model', origins', order'))
        <=> Near(model, order, model', order')
  BY <1>1, NearIs
<1> QED
  BY <1>2 DEF Here

\* An edit that goes to a whole content near this one.
LEMMA LineEdit ==
    ASSUME HistoryInv, KeysInv, BookInv, LineKept, KeysInv', BookInv', Goes(model, order, model', order'),
           seen' = Push(seen, Here), undone' = <<>>
    PROVE  LineKept'
<1>1. WholeContent(Here') /\ NearContents(Here, Here')
  <2>1. IsBook(model')
    BY DEF BookInv, BookKept
  <2>2. WholeContent(Content(model', origins', order')) <=> Whole(model', order')
    BY <2>1, WholeIs
  <2> QED
    BY <2>2, HereNear DEF Goes, Here
<1>2. IsHistory(seen) /\ Len(seen) <= MaxUndoDepth
  <2>1. IsHistory(seen) /\ Len(seen) = Len(undoOps)
    BY DEF KeysInv, AuthorityKept
  <2>2. Len(undoOps) + Len(redoOps) <= MaxUndoDepth /\ Len(undoOps) \in Nat /\ Len(redoOps) \in Nat /\ MaxUndoDepth \in Nat
    BY HistoryLengths, DepthAssumption DEF HistoryInv, Histories
  <2> QED
    BY <2>1, <2>2
<1>3. OnTop(seen', seen, Here)
  BY <1>2, TopOfPush
<1>4. Line(seen', Here')
  BY <1>1, <1>2, <1>3, LinePush DEF LineKept
<1>5. Line(undone', Here')
  BY NoLine
<1> QED
  BY <1>1, <1>4, <1>5 DEF LineKept

\* One place along the line, from the history s to the history u.
LEMMA LineTurn ==
    ASSUME NEW s, IsHistory(s), s # <<>>, NEW u, IsHistory(u), NEW c, WholeContent(c), Line(s, c), Line(u, c),
           NEW s2, OffTop(s2, s), NEW u2, OnTop(u2, u, c), NEW d, d = FromTop(s, 1)
    PROVE  WholeContent(d) /\ Line(s2, d) /\ Line(u2, d) /\ NearContents(c, d)
<1>1. WholeContent(d) /\ NearContents(d, c) /\ Line(s2, d)
  BY LinePop
<1>2. NearContents(c, d)
  BY <1>1, NearBoth DEF NearContents
<1>3. Line(u2, d)
  BY <1>2, LinePush
<1> QED
  BY <1>1, <1>2, <1>3

\* Undo.
LEMMA LineUndo ==
    ASSUME HistoryInv, KeysInv, BookInv, BookInv', LineKept, UndoEdit
    PROVE  LineKept' /\ Near(model, order, model', order')
<1>1. /\ IsHistory(seen) /\ Len(seen) = Len(undoOps) /\ IsHistory(undone)
      /\ undoOps # <<>> /\ seen' = Front(seen) /\ undone' = Append(undone, Here)
  BY DEF KeysInv, AuthorityKept, UndoEdit, Here
<1>2. History!Undo
  BY UndoKeepsPaths
<1>3. seen # <<>> /\ Here' = seen[Len(seen)]
  BY <1>2 DEF History!Undo, Here
<1>4. OffTop(seen', seen) /\ Last(seen) = FromTop(seen, 1) /\ OnTop(undone', undone, Here)
  BY <1>1, <1>3, TopTakenOff, TopOfAppend
<1>5. Here' = FromTop(seen, 1)
  BY <1>1, <1>3, <1>4, FrontOfHistory
<1>6. WholeContent(Here') /\ Line(seen', Here') /\ Line(undone', Here') /\ NearContents(Here, Here')
  BY <1>1, <1>3, <1>4, <1>5, LineTurn DEF LineKept
<1> QED
  BY <1>6, HereNear DEF LineKept

\* Redo.
LEMMA LineRedo ==
    ASSUME HistoryInv, KeysInv, BookInv, BookInv', LineKept, RedoEdit
    PROVE  LineKept' /\ Near(model, order, model', order')
<1>1. /\ IsHistory(seen) /\ Len(seen) = Len(undoOps) /\ IsHistory(undone)
      /\ seen' = Push(seen, Here) /\ undone' = Front(undone)
  BY DEF KeysInv, AuthorityKept, RedoEdit, Here
<1>2. History!Redo
  BY RedoKeepsPaths
<1>3. undone # <<>> /\ Here' = undone[Len(undone)]
  BY <1>2 DEF History!Redo, Here
<1>4. OffTop(undone', undone) /\ Last(undone) = FromTop(undone, 1)
  BY <1>1, <1>3, TopTakenOff
<1>5. OnTop(seen', seen, Here)
  <2>1. Len(undoOps) + Len(redoOps) <= MaxUndoDepth /\ Len(undoOps) \in Nat /\ Len(redoOps) \in Nat /\ MaxUndoDepth \in Nat
    BY HistoryLengths, DepthAssumption DEF HistoryInv, Histories
  <2>2. Len(seen) <= MaxUndoDepth
    BY <1>1, <2>1
  <2> QED
    BY <1>1, <2>2, TopOfPush
<1>6. Here' = FromTop(undone, 1)
  BY <1>1, <1>3, <1>4, FrontOfHistory
<1>7. WholeContent(Here') /\ Line(seen', Here') /\ Line(undone', Here') /\ NearContents(Here, Here')
  BY <1>1, <1>3, <1>4, <1>5, <1>6, LineTurn DEF LineKept
<1> QED
  BY <1>7, HereNear DEF LineKept

\* The shown sheet is found again, when it is there, in a whole workbook near
\* this one.
LEMMA PageFound ==
    ASSUME PageKept, NEW wb, NEW keys, Whole(wb, keys), Near(model, order, wb, keys),
           Len(wb) \in Nat, Len(model) \in Nat,
           IsHistory(keys)
    PROVE  /\ ActiveAfter(wb) \in 1..Len(wb)
           /\ order[active] \in ToSet(keys) => keys[ActiveAfter(wb)] = order[active]
<1> DEFINE nm == model[active].name
<1>1. active \in 1..Len(model) /\ Len(wb) > 0 /\ Len(keys) = Len(wb)
  BY DEF PageKept, Whole
<1>2. CASE nm \in NamesOf(wb)
  <2>1. PICK t \in 1..Len(wb) : wb[t].name = nm
    BY <1>2 DEF NamesOf
  <2>2. IndexOf(wb, nm) \in 1..Len(wb) /\ wb[IndexOf(wb, nm)].name = nm
    BY <2>1 DEF IndexOf
  <2>3. ActiveAfter(wb) = IndexOf(wb, nm)
    BY <1>2 DEF ActiveAfter
  <2>4. ASSUME NEW j \in 1..Len(wb), order[active] = keys[j] PROVE j = IndexOf(wb, nm)
    <3>1. SameSheet(model, wb, active, j)
      BY <1>1, <2>4 DEF Near
    <3>2. ~Unused(nm, wb)
      BY <2>1 DEF Unused
    <3>3. wb[j].name = nm
      BY <3>1, <3>2 DEF SameSheet
    <3> QED
      BY <2>2, <3>3 DEF Whole, NamedOnce
  <2>5. ASSUME order[active] \in ToSet(keys) PROVE \E j \in 1..Len(wb) : order[active] = keys[j]
    BY <1>1, <2>5, HistoryIsFunction DEF ToSet
  <2> QED
    BY <2>2, <2>3, <2>4, <2>5
<1>3. CASE nm \notin NamesOf(wb)
  <2>1. ActiveAfter(wb) = IF active > Len(wb) THEN Len(wb) ELSE active
    BY <1>3 DEF ActiveAfter
  <2>2. ActiveAfter(wb) \in 1..Len(wb)
    BY <1>1, <2>1
  <2>3. ASSUME NEW j \in 1..Len(wb), order[active] = keys[j] PROVE keys[ActiveAfter(wb)] = order[active]
    <3>1. SameSheet(model, wb, active, j)
      BY <1>1, <2>3 DEF Near
    <3>2. wb[j].name # nm
      BY <1>3 DEF NamesOf
    <3>3. active = j
      BY <3>1, <3>2 DEF SameSheet
    <3> QED
      BY <2>1, <2>3, <3>3
  <2>4. ASSUME order[active] \in ToSet(keys) PROVE \E j \in 1..Len(wb) : order[active] = keys[j]
    BY <1>1, <2>4, HistoryIsFunction DEF ToSet
  <2> QED
    BY <2>2, <2>3, <2>4
<1> QED
  BY <1>2, <1>3

\* The step does not turn the page.
PageStays == (order[active] \in ToSet(order') /\ (model' # model \/ order' # order))
               => order'[active'] = order[active]

\* The keys are a history, one for each sheet.
LEMMA KeysOfModel ==
    ASSUME KeysInv
    PROVE  IsHistory(order) /\ Len(order) = Len(model) /\ Len(model) \in Nat
  BY KeysAre, HistoryIsFunction

\* And after a step.
LEMMA KeysThen ==
    ASSUME KeysInv'
    PROVE  IsHistory(order') /\ Len(order') = Len(model') /\ Len(model') \in Nat
<1>1. IsHistory(order') /\ Len(order') = Len(model')
  BY DEF KeysInv, AuthorityKept, ModelKept, InStep
<1> QED
  BY <1>1, HistoryIsFunction

\* A step that leaves the sheets and the page where they are.
LEMMA PageLeft ==
    ASSUME PageKept, KeysInv, KeysInv', order' = order, active' = active
    PROVE  PageKept' /\ PageStays
<1>1. Len(order) = Len(model) /\ Len(order') = Len(model')
  BY KeysOfModel, KeysThen
<1> QED
  BY <1>1 DEF PageKept, PageStays

\* A step that finds the page again.
LEMMA PageTurned ==
    ASSUME PageKept, KeysInv, KeysInv', NEW wb, IsBook(wb), model' = RecalcAll(wb),
           active' = ActiveAfter(wb), Whole(model', order'), Near(model, order, model', order')
    PROVE  PageKept' /\ PageStays
<1>1. SameLook(wb, model')
  <2>1. IsBook(RecalcAll(wb)) /\ Plain(RecalcAll(wb)) = Plain(wb)
    BY AllOnlyValues
  <2> QED
    BY <2>1, PlainLook
<1>2. SameLook(model, model)
  BY DEF SameLook
<1>3. Whole(wb, order')
  BY <1>1, LookWhole
<1>4. Near(model, order, wb, order')
  BY <1>1, <1>2, LookNear
<1>5. /\ Len(model) \in Nat /\ IsHistory(order') /\ Len(wb) = Len(model') /\ Len(wb) \in Nat
  <2>1. Len(model) \in Nat
    BY KeysOfModel
  <2>2. IsHistory(order') /\ Len(model') \in Nat
    BY KeysThen
  <2> QED
    BY <1>1, <2>1, <2>2 DEF SameLook
<1>6. /\ ActiveAfter(wb) \in 1..Len(wb)
      /\ order[active] \in ToSet(order') => order'[ActiveAfter(wb)] = order[active]
  BY <1>3, <1>4, <1>5, PageFound
<1> QED
  BY <1>5, <1>6 DEF PageKept, PageStays

\* The workbook that the newest operations of a trail leave is one.
LEMMA ReplayedIs ==
    ASSUME IsBook(model), NEW stk, IsHistory(stk), stk # <<>>, NEW pres, Len(pres) = Len(stk),
           NEW conts, Len(conts) = Len(stk), NEW to, Trail(stk, pres, conts, to, Plain(model))
    PROVE  IsBook(ApplyOps(model, Last(stk)).wb)
<1>1. PICK under : Walks(Plain(model), FromTop(stk, 1), under)
  BY TrailPop
<1>2. Last(stk) = FromTop(stk, 1)
  BY TopTakenOff
<1> QED
  BY <1>1, <1>2, ApplyingWalks

\* Both hold when the file is opened.
LEMMA LineInit == Init => LineInv
<1> SUFFICES ASSUME Init PROVE LineInv
  OBVIOUS
<1>1. /\ model = Opened /\ active = 1 /\ order = [i \in 1..Len(Opened) |-> Seeded(i)]
      /\ seen = <<>> /\ undone = <<>>
  BY DEF Init
<1>2. KeysInv /\ BookInv
  BY KeysInit, BookInit
<1>3. Len(model) > 0 /\ Len(order) = Len(model)
  <2>1. IsHistory(Opened) /\ Opened # <<>>
    BY OpenedAssumption, HistoryOf
  <2>2. Len(Opened) > 0
    BY <2>1, HistoryIsFunction
  <2> QED
    BY <1>1, <1>2, <2>2, KeysOfModel
<1>4. NamedOnce(model)
  BY <1>1, OpenedAssumption DEF NamedOnce
<1>5. Bare(model)
  <2> DEFINE S == [name : Names, cells : [Row -> Cell], charts : {<<>>}]
  <2>1. \A i \in 1..Len(Opened) : Opened[i] \in S
    BY OpenedAssumption, HistoryOf
  <2>2. ASSUME NEW i \in 1..Len(Opened) PROVE Opened[i].charts = <<>>
    BY <2>1
  <2> QED
    BY <1>1, <2>2 DEF Bare
<1>6. Whole(model, order)
  BY <1>3, <1>4, <1>5, BareIsSourced DEF Whole
<1>7. WholeContent(Here)
  BY <1>2, <1>6, HereIs
<1>8. LineKept
  BY <1>1, <1>7, NoLine DEF LineKept
<1>9. PageKept
  <2>1. Len(model) \in Nat
    BY <1>2, KeysOfModel
  <2> QED
    BY <1>1, <1>3, <2>1 DEF PageKept
<1> QED
  BY <1>8, <1>9 DEF LineInv

\* A cell set.
LEMMA SettingKeepsLine ==
    ASSUME HistoryInv, KeysInv, BookInv, LineInv, KeysInv', BookInv',
           NEW s \in Sheets, NEW r \in Row, NEW input \in Cell, SetAndRecalculate(s, r, input), active' = active
    PROVE  LineInv' /\ PageStays
<1>1. Whole(model, order)
  BY HereIs DEF LineInv, LineKept
<1>2. Goes(model, order, model', order') /\ order' = order
  BY <1>1, SettingGoes
<1>3. seen' = Push(seen, Here) /\ undone' = <<>>
  BY DEF SetAndRecalculate, Commit, Here
<1>4. LineKept'
  BY <1>2, <1>3, LineEdit DEF LineInv
<1> QED
  BY <1>2, <1>4, PageLeft DEF LineInv

\* Nothing changed but calculated values.
LEMMA SameKeepsLine ==
    ASSUME LineInv, KeysInv, KeysInv', UNCHANGED <<seen, undone, order, active>>, Here' = Here
    PROVE  LineInv' /\ PageStays
<1>1. LineKept'
  BY DEF LineInv, LineKept
<1> QED
  BY <1>1, PageLeft DEF LineInv

\* No step but an edit, an undo or a redo moves the line.
LEMMA QuietKeepsLine ==
    ASSUME LineInv, KeysInv, KeysInv', UNCHANGED <<model, origins, order, seen, undone>>,
           active' = active \/ active' \in 1..Len(model)
    PROVE  LineInv' /\ PageStays
<1>1. LineKept'
  BY DEF LineInv, LineKept, Here
<1>2. PageKept'
  BY DEF LineInv, PageKept
<1> QED
  BY <1>1, <1>2 DEF LineInv, PageStays

\* Every step keeps the line and the page.
LEMMA LineStep ==
    ASSUME HistoryInv, KeysInv, BookInv, LineInv, [Next]_vars
    PROVE  LineInv' /\ PageStays
<1>0. /\ KeysInv' /\ BookInv' /\ HistoryMoves /\ Whole(model, order)
      /\ \A n \in 1..Len(proposals) : /\ proposals[n].sheet \in Sheets
                                      /\ proposals[n].at \in Row /\ proposals[n].input \in Cell
  <2>1. KeysInv' /\ BookInv' /\ HistoryMoves
    BY KeysStep, BookStep
  <2>2. Whole(model, order)
    BY HereIs DEF LineInv, LineKept
  <2> QED
    BY <2>1, <2>2 DEF BookInv, KeysInv, ProposalsTyped, ProposalsKept, ProposalsPointAtTheirSheet
<1>a. ASSUME Whole(model', order'), Near(model, order, model', order'), LineKept',
             NEW wb, IsBook(wb), model' = RecalcAll(wb), active' = ActiveAfter(wb)
      PROVE  LineInv' /\ PageStays
  BY <1>0, <1>a, PageTurned DEF LineInv
<1>1. CASE Typing
  <2>1. PICK s \in Sheets, r \in Row, input \in Inputs : EditCell(s, r, input)
    BY <1>1 DEF Typing
  <2>2. SetAndRecalculate(s, r, input) /\ active' = active /\ input \in Cell
    BY <2>1, TypingAssumption DEF EditCell
  <2> QED
    BY <1>0, <2>2, SettingKeepsLine
<1>2. CASE Structure
  <2>1. PICK ops \in Transactions : ApplyTransaction(ops)
    BY <1>2 DEF Structure
  <2> DEFINE wb == ApplyOps(model, ops).wb
  <2>2. Goes(model, order, model', order') /\ active' = ActiveAfter(wb)
    BY <1>0, <2>1, StructureGoes
  <2>3. seen' = Push(seen, Here) /\ undone' = <<>> /\ model' = RecalcAll(wb)
    BY <2>1 DEF ApplyTransaction, Commit, Here
  <2>4. IsBook(wb)
    <3>1. IsBook(model)
      BY DEF BookInv, BookKept
    <3>2. \A n \in 1..Len(ops) : Allowed(ApplyOps(model, SubSeq(ops, 1, n - 1)).wb, ops[n])
      BY <2>1 DEF ApplyTransaction
    <3>3. \E p : Walks(Plain(model), ops, p)
      BY <3>1, <3>2, TransactionsWalk
    <3> QED
      BY <3>1, <3>3, ApplyingWalks
  <2> HIDE DEF wb
  <2>5. LineKept'
    BY <1>0, <2>2, <2>3, LineEdit DEF LineInv
  <2> QED
    BY <1>a, <2>2, <2>3, <2>4, <2>5 DEF Goes
<1>3. CASE Charts
  <2>1. PICK op \in ChartOps : EditChart(op)
    BY <1>3 DEF Charts
  <2>2. Goes(model, order, model', order') /\ order' = order
    BY <1>0, <2>1, ChartsGo
  <2>3. seen' = Push(seen, Here) /\ undone' = <<>> /\ active' = active
    BY <2>1 DEF EditChart, CommitSidecar, Commit, Here
  <2>4. LineKept'
    BY <1>0, <2>2, <2>3, LineEdit DEF LineInv
  <2> QED
    BY <1>0, <2>2, <2>3, <2>4, PageLeft DEF LineInv
<1>4. CASE Agents
  <2>1. ASSUME NEW p, Propose(p[1], p[2], p[3]) PROVE LineInv' /\ PageStays
    <3>1. UNCHANGED <<model, origins, order, seen, undone, active>>
      BY <2>1 DEF Propose, screen, preserved, authority, witness
    <3> QED
      BY <1>0, <3>1, QuietKeepsLine
  <2>2. ASSUME NEW i \in 1..Len(proposals), RejectProposal(i) PROVE LineInv' /\ PageStays
    <3>1. UNCHANGED <<model, origins, order, seen, undone, active>>
      BY <2>2 DEF RejectProposal, screen, preserved, authority, witness
    <3> QED
      BY <1>0, <3>1, QuietKeepsLine
  <2>3. ASSUME NEW i \in 1..Len(proposals), NEW force, AcceptProposal(i, force) PROVE LineInv' /\ PageStays
    <3> DEFINE p == proposals[i]
    <3>1. /\ active' = active
          /\ \/ UNCHANGED <<model, preserved, authority, witness>>
             \/ SetAndRecalculate(p.sheet, p.at, p.input)
      BY <2>3 DEF AcceptProposal
    <3>2. p.sheet \in Sheets /\ p.at \in Row /\ p.input \in Cell
      BY <1>0
    <3> HIDE DEF p
    <3>3. CASE UNCHANGED <<model, preserved, authority, witness>>
      <4>1. UNCHANGED <<model, origins, order, seen, undone>>
        BY <3>3 DEF preserved, authority, witness
      <4> QED
        BY <1>0, <3>1, <4>1, QuietKeepsLine
    <3>4. CASE SetAndRecalculate(p.sheet, p.at, p.input)
      BY <1>0, <3>1, <3>2, <3>4, SettingKeepsLine
    <3> QED
      BY <3>1, <3>3, <3>4
  <2> QED
    BY <1>4, <2>1, <2>2, <2>3 DEF Agents
<1>5. ASSUME LineKept' PROVE Whole(model', order')
  <2>1. IsBook(model') /\ WholeContent(Here')
    BY <1>0, <1>5 DEF BookInv, BookKept, LineKept
  <2>2. WholeContent(Content(model', origins', order')) <=> Whole(model', order')
    BY <2>1, WholeIs
  <2> QED
    BY <2>1, <2>2 DEF Here
<1>6. /\ IsBook(model) /\ IsHistory(undoOps) /\ IsHistory(redoOps)
      /\ Len(preservedUndo) = Len(undoOps) /\ Len(preservedRedo) = Len(redoOps)
      /\ Len(seen) = Len(undoOps) /\ Len(undone) = Len(redoOps)
      /\ Trail(undoOps, preservedUndo, seen, "before", Plain(model))
      /\ Trail(redoOps, preservedRedo, undone, "after", Plain(model))
  <2>1. /\ IsHistory(undoOps) /\ IsHistory(redoOps)
        /\ Len(preservedUndo) = Len(undoOps) /\ Len(preservedRedo) = Len(redoOps)
    BY DEF HistoryInv, Histories, HistoriesKeepStep
  <2> QED
    BY <2>1 DEF BookInv, BookKept, PathsKept, KeysInv, AuthorityKept
<1>7. CASE UndoEdit
  <2> DEFINE wb == ApplyOps(model, Last(undoOps)).wb
  <2>1. undoOps # <<>> /\ active' = ActiveAfter(wb) /\ model' = RecalcAll(wb)
    BY <1>7 DEF UndoEdit
  <2>2. IsBook(wb)
    BY <1>6, <2>1, ReplayedIs
  <2> HIDE DEF wb
  <2>3. LineKept' /\ Near(model, order, model', order')
    BY <1>0, <1>7, LineUndo DEF LineInv
  <2> QED
    BY <1>5, <1>a, <2>1, <2>2, <2>3
<1>8. CASE RedoEdit
  <2> DEFINE wb == ApplyOps(model, Last(redoOps)).wb
  <2>1. redoOps # <<>> /\ active' = ActiveAfter(wb) /\ model' = RecalcAll(wb)
    BY <1>8 DEF RedoEdit
  <2>2. IsBook(wb)
    BY <1>6, <2>1, ReplayedIs
  <2> HIDE DEF wb
  <2>3. LineKept' /\ Near(model, order, model', order')
    BY <1>0, <1>8, LineRedo DEF LineInv
  <2> QED
    BY <1>5, <1>a, <2>1, <2>2, <2>3
<1>9. CASE RecalculateAll
  <2>1. /\ model' = RecalcAll(model)
        /\ UNCHANGED <<active, origins, order, seen, undone>>
    BY <1>9 DEF RecalculateAll, preserved, authority, witness
  <2>2. Here' = Here
    <3>1. SheetsOf(model') = SheetsOf(model)
      BY <1>6, <2>1, AllOnlyValues, SameSheets
    <3>2. Content(model, origins, order) = [sheets |-> SheetsOf(model), origins |-> origins, keys |-> order]
      BY ContentIs
    <3>3. Content(model', origins', order') = [sheets |-> SheetsOf(model'), origins |-> origins', keys |-> order']
      BY ContentIs
    <3> QED
      BY <2>1, <3>1, <3>2, <3>3 DEF Here
  <2> QED
    BY <1>0, <2>1, <2>2, SameKeepsLine
<1>10. CASE \E s \in Sheets : SetActiveSheet(s)
  <2>1. UNCHANGED <<model, origins, order, seen, undone>> /\ active' \in 1..Len(model)
    BY <1>10 DEF SetActiveSheet, preserved, authority, witness, Sheets
  <2> QED
    BY <1>0, <2>1, QuietKeepsLine
<1>11. CASE UNCHANGED vars
  <2>1. UNCHANGED <<model, origins, order, seen, undone>> /\ active' = active
    BY <1>11 DEF vars, screen, preserved, authority, witness
  <2> QED
    BY <1>0, <2>1, QuietKeepsLine
<1> QED
  BY <1>1, <1>2, <1>3, <1>4, <1>7, <1>8, <1>9, <1>10, <1>11 DEF Next

\* All the invariants hold in every state a workbook can be in.
LEMMA LineAlways == Spec => [](HistoryInv /\ KeysInv /\ BookInv /\ LineInv)
<1>1. Init => LineInv
  BY LineInit
<1>2. HistoryInv /\ KeysInv /\ BookInv /\ LineInv /\ [Next]_vars => LineInv'
  BY LineStep
<1> QED
  BY <1>1, <1>2, BookAlways, PTL DEF Spec

\* In every state a workbook can be in, for any file, any edits and any undo
\* depth, the cells a chart was made over are on a sheet that is there, under the
\* key and the name the chart has: what would move them is refused while a chart
\* stands, and no undo or redo, which nobody asks, brings a chart and such a
\* change together (ensure_references_stay_valid against UndoStack).
THEOREM ChartsStayOverTheirCells == Spec => []ChartsKeepTheirSource
<1>1. KeysInv /\ BookInv /\ LineInv => ChartsKeepTheirSource
  <2> SUFFICES ASSUME KeysInv, BookInv, LineInv PROVE ChartsKeepTheirSource
    OBVIOUS
  <2>1. Sourced(model, order)
    BY HereIs DEF LineInv, LineKept, Whole
  <2> QED
    BY <2>1 DEF Sourced, Found, ChartsKeepTheirSource, Sheets
<1> QED
  BY <1>1, LineAlways, PTL

\* No step turns the page while the sheet that is shown is still there: an edit,
\* an undo or a redo that shifts or renames sheets finds it again, by its name or
\* where it was (active_sheet_after in Workbook::apply_ops, undo and redo).
THEOREM ThePageIsNotTurned == Spec => ShownSheetStays
<1>1. HistoryInv /\ KeysInv /\ BookInv /\ LineInv /\ [Next]_vars
        => [(order[active] \in ToSet(order') /\ (model' # model \/ order' # order))
              => order'[active'] = order[active]]_vars
  BY LineStep DEF PageStays
<1> QED
  BY <1>1, LineAlways, PTL DEF Spec, ShownSheetStays

-----------------------------------------------------------------------------
(* Workbooks without charts, which is how the authority has them.          *)

\* The workbook without its charts.
Bald(wb) == [i \in 1..Len(wb) |->
  [name |-> wb[i].name, cells |-> wb[i].cells, charts |-> <<>>]]

\* It is a workbook, with the same names and cells.
LEMMA BaldIs ==
    ASSUME NEW wb, IsBook(wb)
    PROVE  /\ IsBook(Bald(wb)) /\ Len(Bald(wb)) = Len(wb)
           /\ \A i \in 1..Len(wb) :
                /\ Bald(wb)[i].name = wb[i].name /\ Bald(wb)[i].charts = <<>>
                /\ Bald(wb)[i].cells = wb[i].cells
                /\ \A r \in Row : Bald(wb)[i].cells[r] = wb[i].cells[r]
                                  /\ CellAt(Bald(wb), i, r) = CellAt(wb, i, r)
<1> DEFINE B == Bald(wb)
<1>1. Len(wb) \in Nat
  BY BookIs
<1>2. B = [i \in 1..Len(wb) |-> B[i]]
  BY DEF Bald
<1>3. ASSUME NEW i \in 1..Len(wb)
      PROVE  /\ B[i] \in Sheet /\ B[i].name = wb[i].name /\ B[i].charts = <<>>
             /\ B[i].cells = wb[i].cells
  <2>1. B[i] = [name |-> wb[i].name, cells |-> wb[i].cells, charts |-> <<>>]
    BY DEF Bald
  <2>2. wb[i].name \in Names /\ wb[i].cells \in [Row -> Cell] /\ <<>> \in Seq(Chart)
    BY BookIs
  <2> HIDE DEF B
  <2> QED
    BY <2>1, <2>2 DEF Sheet
<1> HIDE DEF B
<1>4. IsBook(B) /\ Len(B) = Len(wb)
  BY <1>1, <1>2, <1>3, BookOf
<1> QED
  BY <1>3, <1>4 DEF B, CellAt

\* B is wb but for the charts, of which it has none.
IsBald(B, wb) ==
  /\ IsBook(B) /\ Len(B) = Len(wb)
  /\ \A i \in 1..Len(wb) :
       /\ B[i].name = wb[i].name /\ B[i].charts = <<>>
       /\ \A r \in Row : B[i].cells[r] = wb[i].cells[r]

\* There is one such workbook.
LEMMA BaldOf ==
    ASSUME NEW wb, IsBook(wb), NEW B, IsBald(B, wb)
    PROVE  B = Bald(wb)
<1> DEFINE D == Bald(wb)
<1>1. /\ IsBook(D) /\ Len(D) = Len(wb)
      /\ \A i \in 1..Len(wb) :
           D[i].name = wb[i].name /\ D[i].charts = <<>> /\ \A r \in Row : D[i].cells[r] = wb[i].cells[r]
  BY BaldIs
<1> HIDE DEF D
<1>2. /\ Len(B) = Len(D) /\ \A i \in 1..Len(B) : B[i].name = D[i].name /\ B[i].charts = D[i].charts
      /\ \A i \in 1..Len(B), r \in Row : B[i].cells[r] = D[i].cells[r]
  BY <1>1 DEF IsBald
<1> QED
  BY <1>1, <1>2, SameBook DEF IsBald, D

\* Taking the values away first, or the charts.
LEMMA BaldPlain ==
    ASSUME NEW wb, IsBook(wb)
    PROVE  Plain(Bald(wb)) = Bald(Plain(wb))
<1> DEFINE B == Bald(wb)
           P == Plain(wb)
           Q == Plain(B)
<1>1. /\ IsBook(B) /\ Len(B) = Len(wb)
      /\ \A i \in 1..Len(wb) :
           B[i].name = wb[i].name /\ B[i].charts = <<>> /\ \A r \in Row : B[i].cells[r] = wb[i].cells[r]
  BY BaldIs
<1>2. /\ IsBook(P) /\ Len(P) = Len(wb)
      /\ \A i \in 1..Len(wb) : P[i].name = wb[i].name /\ \A r \in Row : P[i].cells[r] = Authored(wb[i].cells[r])
  BY PlainIs
<1> HIDE DEF B, P
<1>3. /\ IsBook(Q) /\ Len(Q) = Len(B)
      /\ \A i \in 1..Len(B) :
           /\ Q[i].name = B[i].name /\ Q[i].charts = B[i].charts
           /\ \A r \in Row : Q[i].cells[r] = Authored(B[i].cells[r])
  BY <1>1, PlainIs
<1> HIDE DEF Q
<1>4. ASSUME NEW i \in 1..Len(P)
      PROVE  /\ Q[i].name = P[i].name /\ Q[i].charts = <<>>
             /\ \A r \in Row : Q[i].cells[r] = P[i].cells[r]
  <2>1. i \in 1..Len(wb) /\ i \in 1..Len(B)
    BY <1>1, <1>2
  <2> QED
    BY <2>1, <1>1, <1>2, <1>3
<1>5. IsBald(Q, P)
  BY <1>1, <1>2, <1>3, <1>4 DEF IsBald
<1>6. Q = Bald(P)
  BY <1>2, <1>5, BaldOf
<1> QED
  BY <1>6 DEF Q, B, P

-----------------------------------------------------------------------------
(* What an operation makes of a workbook without its charts.               *)

\* It makes the workbook without its charts of what it makes of the workbook.
Commutes(wb, op) == Apply(Bald(wb), op).wb = Bald(Apply(wb, op).wb)

\* Enough is that the two have the same names and cells.
LEMMA CommutesBy ==
    ASSUME NEW wb, NEW op, NEW n \in Nat, IsBook(Apply(wb, op).wb), Len(Apply(wb, op).wb) = n,
           IsBook(Apply(Bald(wb), op).wb), Len(Apply(Bald(wb), op).wb) = n,
           \A i \in 1..n : /\ Apply(Bald(wb), op).wb[i].name = Apply(wb, op).wb[i].name
                           /\ Apply(Bald(wb), op).wb[i].charts = <<>>,
           \A i \in 1..n, r \in Row : Apply(Bald(wb), op).wb[i].cells[r] = Apply(wb, op).wb[i].cells[r]
    PROVE  Commutes(wb, op)
<1>1. IsBald(Apply(Bald(wb), op).wb, Apply(wb, op).wb)
  BY DEF IsBald
<1> QED
  BY <1>1, BaldOf DEF Commutes

\* A cell set.
LEMMA SettingCommutes ==
    ASSUME NEW wb, IsBook(wb), NEW op,
           op.op = "SetCell", op.sheet \in 1..Len(wb), op.at \in Row, op.cell \in Cell
    PROVE  Commutes(wb, op)
<1>0. PICK s, p, c : s = op.sheet /\ p = op.at /\ c = op.cell
  OBVIOUS
<1> DEFINE b == Bald(wb)
           A == Apply(wb, op).wb
           B == Apply(b, op).wb
           n == Len(wb)
<1>1. /\ IsBook(b) /\ Len(b) = n /\ n \in Nat
      /\ \A i \in 1..n : b[i].name = wb[i].name /\ b[i].charts = <<>>
      /\ \A i \in 1..n, r \in Row : b[i].cells[r] = wb[i].cells[r]
  BY BaldIs, BookIs
<1> HIDE DEF b
<1>2. s \in 1..n /\ p \in Row /\ c \in Cell /\ s \in 1..Len(b)
  BY <1>0, <1>1
<1>3. /\ IsBook(A) /\ Len(A) = n
      /\ \A i \in 1..n :
           /\ A[i].name = wb[i].name
           /\ \A q \in Row : A[i].cells[q] = IF i = s /\ q = p THEN c ELSE wb[i].cells[q]
  BY <1>0, <1>2, SetCellIs
<1>4. /\ IsBook(B) /\ Len(B) = Len(b)
      /\ \A i \in 1..Len(b) :
           /\ B[i].name = b[i].name /\ B[i].charts = b[i].charts
           /\ \A q \in Row : B[i].cells[q] = IF i = s /\ q = p THEN c ELSE b[i].cells[q]
  BY <1>0, <1>1, <1>2, SetCellIs
<1> HIDE DEF A, B
<1>5. \A i \in 1..n : B[i].name = A[i].name /\ B[i].charts = <<>>
  BY <1>1, <1>3, <1>4
<1>6. \A i \in 1..n, r \in Row : B[i].cells[r] = A[i].cells[r]
  BY <1>1, <1>3, <1>4
<1> QED
  BY <1>1, <1>3, <1>4, <1>5, <1>6, CommutesBy DEF A, B, b

\* Rows inserted or deleted: the same formulas are rewritten.
LEMMA MovingCommutes ==
    ASSUME NEW wb, IsBook(wb), NEW op, RowsFit(wb, op)
    PROVE  Commutes(wb, op)
<1> DEFINE b == Bald(wb)
           A == Apply(wb, op).wb
           B == Apply(b, op).wb
           n == Len(wb)
<1>1. /\ IsBook(b) /\ Len(b) = n /\ n \in Nat
      /\ \A i \in 1..n : b[i].name = wb[i].name /\ b[i].charts = <<>>
      /\ \A i \in 1..n, r \in Row : CellAt(b, i, r) = CellAt(wb, i, r)
  BY BaldIs, BookIs
<1>2. A = RowsAfter(wb, op) /\ B = RowsAfter(b, op)
  BY DEF RowsFit, Apply, ApplyInsertRow, ApplyDeleteRow, ApplyRows, Done, RowsAfter
<1> HIDE DEF b, A, B
<1>3. RowsFit(b, op) /\ SameNames(wb, b) /\ op.sheet \in 1..n
  BY <1>1 DEF RowsFit, SameNames
<1>4. ASSUME NEW i \in 1..n, NEW r \in Row
      PROVE  RemappedCell(b, op, i, r) = RemappedCell(wb, op, i, r)
  <2> DEFINE c == CellAt(wb, i, r)
  <2>1. CellAt(b, i, r) = c /\ i \in 1..Len(b)
    BY <1>1
  <2>2. <<i, r>> \in Rewritten(wb, op) <=> ReadsSheet(wb, i, c, op.sheet) /\ RemapRow(c.f[2], op) # c.f[2]
    BY RewrittenIs
  <2>3. <<i, r>> \in Rewritten(b, op) <=> ReadsSheet(b, i, c, op.sheet) /\ RemapRow(c.f[2], op) # c.f[2]
    BY <1>1, <1>3, <2>1, RewrittenIs
  <2> HIDE DEF c
  <2>4. ReadsSheet(wb, i, c, op.sheet) <=> ReadsSheet(b, i, c, op.sheet)
    BY <1>3, SameReads
  <2> QED
    BY <2>1, <2>2, <2>3, <2>4 DEF RemappedCell, c
<1>5. ASSUME NEW i \in 1..n, NEW r \in Row
      PROVE  ShiftedCell(b, op, i, r) = ShiftedCell(wb, op, i, r)
  <2>1. CASE i # op.sheet
    BY <1>4, <2>1 DEF ShiftedCell
  <2>2. CASE i = op.sheet /\ \E q \in Row : RemapRow(q, op) = r
    <3>1. ComesFrom(op, r) \in Row
      BY <2>2 DEF ComesFrom
    <3> QED
      BY <1>3, <1>4, <2>2, <3>1 DEF ShiftedCell
  <2>3. CASE i = op.sheet /\ ~\E q \in Row : RemapRow(q, op) = r
    BY <2>3 DEF ShiftedCell
  <2> QED
    BY <2>1, <2>2, <2>3
<1>6. /\ IsBook(A) /\ Len(A) = n
      /\ \A i \in 1..n : A[i].name = wb[i].name /\ \A r \in Row : A[i].cells[r] = ShiftedCell(wb, op, i, r)
  BY <1>2, RowsAfterIs
<1>7. /\ IsBook(B) /\ Len(B) = Len(b)
      /\ \A i \in 1..Len(b) :
           /\ B[i].name = b[i].name /\ B[i].charts = b[i].charts
           /\ \A r \in Row : B[i].cells[r] = ShiftedCell(b, op, i, r)
  BY <1>1, <1>2, <1>3, RowsAfterIs
<1>8. \A i \in 1..n : B[i].name = A[i].name /\ B[i].charts = <<>>
  BY <1>1, <1>6, <1>7
<1>9. \A i \in 1..n, r \in Row : B[i].cells[r] = A[i].cells[r]
  BY <1>1, <1>5, <1>6, <1>7
<1> QED
  BY <1>1, <1>6, <1>7, <1>8, <1>9, CommutesBy DEF A, B, b

\* What holds of 0, and of a number when it holds of the one before, holds of all.
LEMMA Upwards ==
    ASSUME NEW l \in Nat, NEW S, 0 \in S, \A m \in 1..l : m - 1 \in S => m \in S
    PROVE  l \in S
<1> DEFINE T == {m \in 0..l : m \notin S}
<1>1. T = {}
  <2> SUFFICES ASSUME T # {} PROVE FALSE
    OBVIOUS
  <2>1. T \subseteq Nat
    OBVIOUS
  <2>2. PICK m \in T : m = 0 \/ (m - 1 \in Nat /\ m - 1 \notin T)
    BY <2>1, FirstOfThem
  <2>3. m \in 1..l /\ m - 1 \in 0..l
    BY <2>2
  <2> QED
    BY <2>2, <2>3
<1> QED
  BY <1>1

\* A sheet added.
LEMMA AddingCommutes ==
    ASSUME NEW wb, IsBook(wb), NEW op,
           op.op = "AddSheet", op.index \in 1..(Len(wb) + 1), op.name \in Names
    PROVE  Commutes(wb, op)
<1> DEFINE b == Bald(wb)
           A == Apply(wb, op).wb
           B == Apply(b, op).wb
           l == Len(wb)
           n == op.index
           sh == NewSheet(op.name)
<1>1. /\ IsBook(b) /\ Len(b) = l /\ l \in Nat
      /\ \A i \in 1..l : b[i].name = wb[i].name /\ b[i].charts = <<>>
      /\ \A i \in 1..l, r \in Row : b[i].cells[r] = wb[i].cells[r]
  BY BaldIs, BookIs
<1>2. A = InsertAt(wb, n, sh) /\ B = InsertAt(b, n, sh)
  BY DEF Apply, ApplyAddSheet, Done
<1>3. sh \in Sheet /\ sh.charts = <<>>
  BY NewSheetIs
<1>31. n \in 1..(Len(wb) + 1) /\ n \in 1..(Len(b) + 1) /\ n \in Nat
  BY <1>1
<1> HIDE DEF b, A, B, sh, n
<1>4. /\ IsBook(A) /\ Len(A) = l + 1 /\ A[n] = sh
      /\ \A j \in 1..(n - 1) : A[j] = wb[j]
      /\ \A j \in (n + 1)..(l + 1) : A[j] = wb[j - 1]
  BY <1>2, <1>3, <1>31, InsertedBook
<1>5. /\ IsBook(B) /\ Len(B) = l + 1 /\ B[n] = sh
      /\ \A j \in 1..(n - 1) : B[j] = b[j]
      /\ \A j \in (n + 1)..(l + 1) : B[j] = b[j - 1]
  <2> DEFINE C == InsertAt(b, n, sh)
  <2>1. /\ IsBook(C) /\ Len(C) = Len(b) + 1 /\ C[n] = sh
        /\ \A j \in 1..(n - 1) : C[j] = b[j]
        /\ \A j \in (n + 1)..(Len(b) + 1) : C[j] = b[j - 1]
    BY <1>1, <1>3, <1>31, InsertedBook
  <2> HIDE DEF C
  <2> QED
    BY <1>1, <1>2, <2>1 DEF C
<1>6. ASSUME NEW j \in 1..(l + 1)
      PROVE  /\ B[j].name = A[j].name /\ B[j].charts = <<>>
             /\ \A r \in Row : B[j].cells[r] = A[j].cells[r]
  <2>1. CASE j = n
    BY <1>3, <1>4, <1>5, <2>1
  <2>2. CASE j < n
    <3>1. j \in 1..(n - 1) /\ j \in 1..l
      BY <1>1, <1>31, <2>2
    <3>2. A[j] = wb[j] /\ B[j] = b[j]
      BY <1>4, <1>5, <3>1
    <3> QED
      BY <1>1, <3>1, <3>2
  <2>3. CASE j > n
    <3>1. j \in (n + 1)..(l + 1) /\ j - 1 \in 1..l
      BY <1>1, <1>31, <2>3
    <3>2. A[j] = wb[j - 1] /\ B[j] = b[j - 1]
      BY <1>4, <1>5, <3>1
    <3> QED
      BY <1>1, <3>1, <3>2
  <2> QED
    BY <1>1, <1>31, <2>1, <2>2, <2>3
<1>7. l + 1 \in Nat
  BY <1>1
<1> QED
  BY <1>4, <1>5, <1>6, <1>7, CommutesBy DEF A, B, b

\* A sheet removed.
LEMMA RemovingCommutes ==
    ASSUME NEW wb, IsBook(wb), NEW op, op.op = "RemoveSheet", op.index \in 1..Len(wb)
    PROVE  Commutes(wb, op)
<1> DEFINE b == Bald(wb)
           A == Apply(wb, op).wb
           B == Apply(b, op).wb
           l == Len(wb)
           n == op.index
<1>1. /\ IsBook(b) /\ Len(b) = l /\ l \in Nat
      /\ \A i \in 1..l : b[i].name = wb[i].name /\ b[i].charts = <<>>
      /\ \A i \in 1..l, r \in Row : b[i].cells[r] = wb[i].cells[r]
  BY BaldIs, BookIs
<1>2. A = RemoveAt(wb, n) /\ B = RemoveAt(b, n)
  BY DEF Apply, ApplyRemoveSheet, Done
<1>31. n \in 1..Len(wb) /\ n \in 1..Len(b) /\ n \in Nat
  BY <1>1
<1> HIDE DEF b, A, B, n
<1>4. /\ IsBook(A) /\ Len(A) = l - 1
      /\ \A j \in 1..(n - 1) : A[j] = wb[j]
      /\ \A j \in n..(l - 1) : A[j] = wb[j + 1]
  BY <1>2, <1>31, RemovedBook
<1>5. /\ IsBook(B) /\ Len(B) = l - 1
      /\ \A j \in 1..(n - 1) : B[j] = b[j]
      /\ \A j \in n..(l - 1) : B[j] = b[j + 1]
  <2> DEFINE C == RemoveAt(b, n)
  <2>1. /\ IsBook(C) /\ Len(C) = Len(b) - 1
        /\ \A j \in 1..(n - 1) : C[j] = b[j]
        /\ \A j \in n..(Len(b) - 1) : C[j] = b[j + 1]
    BY <1>1, <1>31, RemovedBook
  <2> HIDE DEF C
  <2> QED
    BY <1>1, <1>2, <2>1 DEF C
<1>6. ASSUME NEW j \in 1..(l - 1)
      PROVE  /\ B[j].name = A[j].name /\ B[j].charts = <<>>
             /\ \A r \in Row : B[j].cells[r] = A[j].cells[r]
  <2>2. CASE j < n
    <3>1. j \in 1..(n - 1) /\ j \in 1..l
      BY <1>1, <1>31, <2>2
    <3>2. A[j] = wb[j] /\ B[j] = b[j]
      BY <1>4, <1>5, <3>1
    <3> QED
      BY <1>1, <3>1, <3>2
  <2>3. CASE ~(j < n)
    <3>1. j \in n..(l - 1) /\ j + 1 \in 1..l
      BY <1>1, <1>31, <2>3
    <3>2. A[j] = wb[j + 1] /\ B[j] = b[j + 1]
      BY <1>4, <1>5, <3>1
    <3> QED
      BY <1>1, <3>1, <3>2
  <2> QED
    BY <2>2, <2>3
<1>7. l - 1 \in Nat
  BY <1>1
<1> QED
  BY <1>4, <1>5, <1>6, <1>7, CommutesBy DEF A, B, b

\* A sheet renamed: the same formulas name it.
LEMMA RenamingCommutes ==
    ASSUME NEW wb, IsBook(wb), NEW op,
           op.op = "RenameSheet", op.sheet \in 1..Len(wb), op.name \in Names
    PROVE  Commutes(wb, op)
<1> DEFINE b == Bald(wb)
           A == Apply(wb, op).wb
           B == Apply(b, op).wb
           n == Len(wb)
<1>1. /\ IsBook(b) /\ Len(b) = n /\ n \in Nat /\ op.sheet \in 1..Len(b)
      /\ \A i \in 1..n : b[i].name = wb[i].name /\ b[i].charts = <<>>
      /\ \A i \in 1..n, r \in Row : CellAt(b, i, r) = CellAt(wb, i, r)
  BY BaldIs, BookIs
<1>2. /\ IsBook(A) /\ Len(A) = n
      /\ \A i \in 1..n :
           /\ A[i].name = IF i = op.sheet THEN op.name ELSE wb[i].name
           /\ \A r \in Row : A[i].cells[r] = RenamedCell(wb, op, i, r)
  BY RenameIs
<1> HIDE DEF b
<1>3. /\ IsBook(B) /\ Len(B) = Len(b)
      /\ \A i \in 1..Len(b) :
           /\ B[i].name = IF i = op.sheet THEN op.name ELSE b[i].name
           /\ B[i].charts = b[i].charts
           /\ \A r \in Row : B[i].cells[r] = RenamedCell(b, op, i, r)
  BY <1>1, RenameIs
<1> HIDE DEF A, B
<1>4. ASSUME NEW i \in 1..n, NEW r \in Row PROVE RenamedCell(b, op, i, r) = RenamedCell(wb, op, i, r)
  <2>1. <<i, r>> \in Naming(wb, op) <=> <<i, r>> \in Naming(b, op)
    BY <1>1, NamingIs
  <2> QED
    BY <1>1, <2>1 DEF RenamedCell
<1>5. \A i \in 1..n : B[i].name = A[i].name /\ B[i].charts = <<>>
  BY <1>1, <1>2, <1>3
<1>6. \A i \in 1..n, r \in Row : B[i].cells[r] = A[i].cells[r]
  BY <1>1, <1>2, <1>3, <1>4
<1> QED
  BY <1>1, <1>2, <1>3, <1>5, <1>6, CommutesBy DEF A, B, b

\* A name restored.
LEMMA RestoringCommutes ==
    ASSUME NEW wb, IsBook(wb), NEW op,
           op.op = "RestoreSheet", op.sheet \in 1..Len(wb), op.name \in Names,
           FormulasFit(op.formulas, Len(wb))
    PROVE  Commutes(wb, op)
<1> DEFINE b == Bald(wb)
           A == Apply(wb, op).wb
           B == Apply(b, op).wb
           n == Len(wb)
<1>1. /\ IsBook(b) /\ Len(b) = n /\ n \in Nat /\ op.sheet \in 1..Len(b) /\ FormulasFit(op.formulas, Len(b))
      /\ \A i \in 1..n : b[i].name = wb[i].name /\ b[i].charts = <<>>
      /\ \A i \in 1..n, r \in Row : CellAt(b, i, r) = CellAt(wb, i, r)
  BY BaldIs, BookIs
<1>2. /\ IsBook(A) /\ Len(A) = n
      /\ \A i \in 1..n :
           /\ A[i].name = IF i = op.sheet THEN op.name ELSE wb[i].name
           /\ \A r \in Row : A[i].cells[r] = RestoredCell(wb, op, i, r)
  BY RestoreIs
<1> HIDE DEF b
<1>3. /\ IsBook(B) /\ Len(B) = Len(b)
      /\ \A i \in 1..Len(b) :
           /\ B[i].name = IF i = op.sheet THEN op.name ELSE b[i].name
           /\ B[i].charts = b[i].charts
           /\ \A r \in Row : B[i].cells[r] = RestoredCell(b, op, i, r)
  BY <1>1, RestoreIs
<1> HIDE DEF A, B
<1>4. ASSUME NEW i \in 1..n, NEW r \in Row PROVE RestoredCell(b, op, i, r) = RestoredCell(wb, op, i, r)
  BY <1>1 DEF RestoredCell
<1>5. \A i \in 1..n : B[i].name = A[i].name /\ B[i].charts = <<>>
  BY <1>1, <1>2, <1>3
<1>6. \A i \in 1..n, r \in Row : B[i].cells[r] = A[i].cells[r]
  BY <1>1, <1>2, <1>3, <1>4
<1> QED
  BY <1>1, <1>2, <1>3, <1>5, <1>6, CommutesBy DEF A, B, b

\* An operation on charts makes nothing of it.
LEMMA ChartsAreBald ==
    ASSUME NEW wb, IsBook(wb), NEW op, Suits(wb, op), ChartOp(op)
    PROVE  Bald(Apply(wb, op).wb) = Bald(wb)
<1> DEFINE A == Apply(wb, op).wb
           B == Bald(wb)
           s == op.sheet
           cs == ChartsAfter(wb[s].charts, op)
<1>1. s \in 1..Len(wb) /\ cs \in Seq(Chart) /\ A = WithCharts(wb, s, cs)
  BY ChartOpIs DEF WithCharts
<1> HIDE DEF s, cs, A
<1>2. /\ IsBook(A) /\ Len(A) = Len(wb)
      /\ \A i \in 1..Len(wb) : A[i].name = wb[i].name /\ \A r \in Row : A[i].cells[r] = wb[i].cells[r]
  BY <1>1, ChartsChanged
<1>3. /\ IsBook(B) /\ Len(B) = Len(wb)
      /\ \A i \in 1..Len(wb) :
           B[i].name = wb[i].name /\ B[i].charts = <<>> /\ \A r \in Row : B[i].cells[r] = wb[i].cells[r]
  BY BaldIs
<1> HIDE DEF B
<1>4. IsBald(B, A)
  BY <1>2, <1>3 DEF IsBald
<1>5. B = Bald(A)
  BY <1>2, <1>4, BaldOf
<1> QED
  BY <1>5 DEF A, B

\* Every operation, on the workbook with and without charts.
LEMMA EveryIsBald ==
    ASSUME NEW wb, IsBook(wb), NEW op, Suits(wb, op)
    PROVE  /\ IsSidecar(op) => Bald(Apply(wb, op).wb) = Bald(wb)
           /\ ~IsSidecar(op) => Suits(Bald(wb), op) /\ Commutes(wb, op)
<1>1. IsSidecar(op) <=> ChartOp(op)
  BY DEF IsSidecar, ChartOp
<1>2. CASE ChartOp(op)
  BY <1>1, <1>2, ChartsAreBald
<1>3. ASSUME ~ChartOp(op) PROVE Suits(Bald(wb), op) /\ Commutes(wb, op)
  <2> DEFINE b == Bald(wb)
  <2>1. Len(b) = Len(wb) /\ \A i \in 1..Len(wb) : b[i].charts = <<>>
    BY BaldIs
  <2> HIDE DEF b
  <2>2. Suits(b, op)
    <3>1. CASE op.op = "RemoveSheet"
      <4>1. op.index \in 1..Len(wb)
        BY <3>1 DEF Suits
      <4> QED
        BY <2>1, <3>1, <4>1 DEF Suits
    <3>2. CASE op.op # "RemoveSheet"
      BY <1>3, <2>1, <3>2 DEF Suits, ChartOp
    <3> QED
      BY <3>1, <3>2
  <2>3. CASE op.op = "SetCell"
    <3>1. op.sheet \in 1..Len(wb) /\ op.at \in Row /\ op.cell \in Cell
      BY <2>3 DEF Suits
    <3> QED
      BY <2>2, <2>3, <3>1, SettingCommutes DEF b
  <2>4. CASE op.op \in {"InsertRow", "DeleteRow"}
    <3>1. RowsFit(wb, op)
      BY <2>4 DEF Suits, RowsFit
    <3> QED
      BY <2>2, <3>1, MovingCommutes DEF b
  <2>5. CASE op.op = "AddSheet"
    <3>1. op.index \in 1..(Len(wb) + 1) /\ op.name \in Names
      BY <2>5 DEF Suits
    <3> QED
      BY <2>2, <2>5, <3>1, AddingCommutes DEF b
  <2>6. CASE op.op = "RemoveSheet"
    <3>1. op.index \in 1..Len(wb)
      BY <2>6 DEF Suits
    <3> QED
      BY <2>2, <2>6, <3>1, RemovingCommutes DEF b
  <2>7. CASE op.op = "RenameSheet"
    <3>1. op.sheet \in 1..Len(wb) /\ op.name \in Names
      BY <2>7 DEF Suits
    <3> QED
      BY <2>2, <2>7, <3>1, RenamingCommutes DEF b
  <2>8. CASE op.op = "RestoreSheet"
    <3>1. op.sheet \in 1..Len(wb) /\ op.name \in Names /\ FormulasFit(op.formulas, Len(wb))
      BY <2>8 DEF Suits
    <3> QED
      BY <2>2, <2>8, <3>1, RestoringCommutes DEF b
  <2>9. op.op \in {"SetCell", "InsertRow", "DeleteRow", "AddSheet", "RemoveSheet", "RenameSheet", "RestoreSheet"}
    BY <1>3 DEF Suits, ChartOp
  <2> QED
    BY <2>3, <2>4, <2>5, <2>6, <2>7, <2>8, <2>9
<1> QED
  BY <1>1, <1>2, <1>3

\* A step, and a walk.
LEMMA BaldStep ==
    ASSUME NEW p, NEW op, NEW q, Steps(p, op, q)
    PROVE  /\ IsSidecar(op) => Bald(q) = Bald(p)
           /\ ~IsSidecar(op) => Steps(Bald(p), op, Bald(q))
<1>1. PICK wb : IsBook(wb) /\ p = Plain(wb) /\ Suits(wb, op) /\ q = Plain(Apply(wb, op).wb)
  BY DEF Steps
<1> DEFINE A == Apply(wb, op).wb
<1>2. IsBook(A)
  BY <1>1, SuitedStays
<1>3. Plain(Bald(wb)) = Bald(p) /\ Plain(Bald(A)) = Bald(q)
  BY <1>1, <1>2, BaldPlain
<1>4. CASE IsSidecar(op)
  <2>1. Bald(A) = Bald(wb)
    BY <1>1, <1>4, EveryIsBald
  <2> QED
    BY <1>3, <1>4, <2>1
<1>5. CASE ~IsSidecar(op)
  <2>1. Suits(Bald(wb), op) /\ Apply(Bald(wb), op).wb = Bald(A)
    BY <1>1, <1>5, EveryIsBald DEF Commutes
  <2>2. IsBook(Bald(wb))
    BY <1>1, BaldIs
  <2> HIDE DEF A
  <2> QED
    BY <1>3, <1>5, <2>1, <2>2 DEF Steps
<1> QED
  BY <1>4, <1>5

\* What the authority takes leads it where the workbook goes, but for the
\* charts; operations on charts lead nowhere else.
LEMMA BaldWalk ==
    ASSUME NEW p, NEW ops, NEW q, Walks(p, ops, q)
    PROVE  /\ Structural(ops) => Walks(Bald(p), ops, Bald(q))
           /\ Charting(ops) => Bald(q) = Bald(p)
<1>1. PICK w : w[0] = p /\ w[Len(ops)] = q /\ \A n \in 1..Len(ops) : Steps(w[n - 1], ops[n], w[n])
  BY DEF Walks
<1>2. IsHistory(ops) /\ Len(ops) \in Nat
  BY HistoryIsFunction DEF Walks
<1>3. ASSUME Structural(ops) PROVE Walks(Bald(p), ops, Bald(q))
  <2> DEFINE v == [n \in 0..Len(ops) |-> Bald(w[n])]
  <2>1. v[0] = Bald(p) /\ v[Len(ops)] = Bald(q)
    BY <1>1, <1>2
  <2>2. ASSUME NEW n \in 1..Len(ops) PROVE Steps(v[n - 1], ops[n], v[n])
    <3>1. n - 1 \in 0..Len(ops) /\ n \in 0..Len(ops)
      BY <1>2
    <3>2. Steps(Bald(w[n - 1]), ops[n], Bald(w[n]))
      BY <1>1, <1>3, BaldStep DEF Structural
    <3> QED
      BY <3>1, <3>2
  <2> HIDE DEF v
  <2> QED
    BY <1>2, <2>1, <2>2 DEF Walks
<1>4. ASSUME Charting(ops) PROVE Bald(q) = Bald(p)
  <2> DEFINE S == {n \in 0..Len(ops) : Bald(w[n]) = Bald(p)}
  <2>1. 0 \in S
    BY <1>1, <1>2
  <2>2. ASSUME NEW n \in 1..Len(ops), n - 1 \in S PROVE n \in S
    <3>1. Steps(w[n - 1], ops[n], w[n])
      BY <1>1
    <3>2. IsSidecar(ops[n])
      BY <1>4 DEF Charting
    <3>3. Bald(w[n]) = Bald(w[n - 1])
      BY <3>1, <3>2, BaldStep
    <3> QED
      BY <1>2, <2>2, <3>3
  <2> HIDE DEF S
  <2>3. Len(ops) \in S
    BY <1>2, <2>1, <2>2, Upwards
  <2> QED
    BY <1>1, <2>3 DEF S
<1> QED
  BY <1>3, <1>4

-----------------------------------------------------------------------------
(* How operations move the keys of the sheets.                             *)

\* The operation makes the keys m of the keys l.  A sheet that is added gets a key
\* that is not one of old, and one that is removed had a key that is not of new.
Moves(op, l, m, old, new) ==
  /\ IsHistory(l) /\ IsHistory(m)
  /\ op.op = "AddSheet" => /\ op.index \in 1..(Len(l) + 1)
                           /\ \E k : k \notin old /\ m = InsertAt(l, op.index, k)
  /\ op.op = "RemoveSheet" => /\ op.index \in 1..Len(l) /\ l[op.index] \notin new
                              /\ m = RemoveAt(l, op.index)
  /\ ~Shifts(op) => m = l
\* So do the operations of a list, one after the other.
Carries(ops, l, m, old, new) ==
  /\ IsHistory(ops) /\ IsHistory(l) /\ IsHistory(m)
  /\ \E w : w[0] = l /\ w[Len(ops)] = m /\ \A n \in 1..Len(ops) : Moves(ops[n], w[n - 1], w[n], old, new)

\* A list with nothing that shifts sheets.
Still(x) == IsHistory(x) /\ ~HasShift(x)

\* Two such lists.
LEMMA StillJoined ==
    ASSUME NEW x, Still(x), NEW y, Still(y)
    PROVE  Still(x \o y)
<1>1. /\ IsHistory(x \o y) /\ Len(x \o y) = Len(x) + Len(y)
      /\ \A i \in 1..Len(x) : (x \o y)[i] = x[i]
      /\ \A i \in 1..Len(y) : (x \o y)[Len(x) + i] = y[i]
  BY JoinHistories DEF Still
<1>2. Len(x) \in Nat /\ Len(y) \in Nat
  BY HistoryIsFunction DEF Still
<1>3. ASSUME NEW n \in 1..(Len(x) + Len(y)) PROVE ~Shifts((x \o y)[n])
  <2>1. CASE n <= Len(x)
    <3>1. n \in 1..Len(x)
      BY <1>2, <2>1
    <3> QED
      BY <1>1, <3>1 DEF Still, HasShift
  <2>2. CASE ~(n <= Len(x))
    <3> DEFINE m == n - Len(x)
    <3>1. m \in 1..Len(y) /\ Len(x) + m = n
      BY <1>2, <2>2
    <3> HIDE DEF m
    <3>2. (x \o y)[n] = y[m]
      BY <1>1, <3>1
    <3> QED
      BY <3>1, <3>2 DEF Still, HasShift
  <2> QED
    BY <2>1, <2>2
<1> QED
  BY <1>1, <1>3 DEF Still, HasShift

\* One operation, and settings of cells.
LEMMA StillOne ==
    ASSUME NEW op, ~Shifts(op)
    PROVE  Still(<<op>>)
  BY OneIsHistory DEF Still, HasShift

\* Cells put back.
LEMMA StillRestores ==
    ASSUME NEW wb, IsHistory(wb), NEW places
    PROVE  Still(Restores(wb, places))
  BY RestoresSet DEF Still, HasShift, Shifts

\* What shifts no sheet is taken back by what shifts none.
LEMMA StillBack ==
    ASSUME NEW wb, IsBook(wb), NEW op, Suits(wb, op), ~Shifts(op)
    PROVE  Still(Apply(wb, op).inverse)
<1>0. IsHistory(wb)
  BY BookIs
<1>1. CASE op.op = "SetCell"
  <2> DEFINE back == SetCell(op.sheet, op.at, CellAt(wb, op.sheet, op.at))
  <2>1. Apply(wb, op).inverse = <<back>>
    BY <1>1 DEF Apply, ApplySetCell, Done
  <2>2. ~Shifts(back)
    BY DEF SetCell, Shifts
  <2> HIDE DEF back
  <2> QED
    BY <2>1, <2>2, StillOne
<1>2. CASE op.op \in {"InsertRow", "DeleteRow"}
  <2> DEFINE remapped == RemapFormulas(wb, op)
             fallen   == {<<op.sheet, r>> : r \in {q \in Occupied(wb, op.sheet) : RemapRow(q, op) = 0}}
  <2>1. PICK back : ~Shifts(back) /\ Apply(wb, op) = ApplyRows(wb, op, back)
    <3>1. CASE op.op = "InsertRow"
      <4>1. Apply(wb, op) = ApplyRows(wb, op, DeleteRow(op.sheet, op.at))
        BY <3>1 DEF Apply, ApplyInsertRow
      <4>2. ~Shifts(DeleteRow(op.sheet, op.at))
        BY DEF DeleteRow, Shifts
      <4> QED
        BY <4>1, <4>2
    <3>2. CASE op.op = "DeleteRow"
      <4>1. Apply(wb, op) = ApplyRows(wb, op, InsertRow(op.sheet, op.at))
        BY <3>2 DEF Apply, ApplyDeleteRow
      <4>2. ~Shifts(InsertRow(op.sheet, op.at))
        BY DEF InsertRow, Shifts
      <4> QED
        BY <4>1, <4>2
    <3> QED
      BY <1>2, <3>1, <3>2
  <2>2. Apply(wb, op).inverse = (<<back>> \o Restores(remapped, fallen)) \o Restores(wb, Rewritten(wb, op))
    BY <2>1 DEF ApplyRows, Done
  <2>3. RowsFit(wb, op)
    BY <1>2 DEF Suits, RowsFit
  <2>4. IsHistory(remapped)
    BY <2>3, RemapFormulasIs, BookIs
  <2> HIDE DEF remapped, fallen
  <2> QED
    BY <1>0, <2>1, <2>2, <2>4, StillOne, StillRestores, StillJoined
<1>3. CASE op.op = "RenameSheet"
  <2> DEFINE back == RestoreSheet(op.sheet, wb[op.sheet].name, Restores(wb, Naming(wb, op)))
  <2>1. Apply(wb, op).inverse = <<back>>
    BY <1>3, RenameIs DEF Suits
  <2>2. ~Shifts(back)
    BY DEF RestoreSheet, Shifts
  <2> HIDE DEF back
  <2> QED
    BY <2>1, <2>2, StillOne
<1>4. CASE op.op = "RestoreSheet"
  <2> DEFINE back == RestoreSheet(op.sheet, wb[op.sheet].name, Restores(wb, PlacesOf(op.formulas)))
  <2>1. Apply(wb, op).inverse = <<back>>
    BY <1>4, RestoreIs DEF Suits
  <2>2. ~Shifts(back)
    BY DEF RestoreSheet, Shifts
  <2> HIDE DEF back
  <2> QED
    BY <2>1, <2>2, StillOne
<1>5. CASE ChartOp(op)
  <2>1. PICK back : ~Shifts(back) /\ Apply(wb, op).inverse = <<back>>
    <3>1. CASE op.op = "AddChart"
      BY <3>1 DEF Apply, ApplyAddChart, Done, RemoveChart, Shifts
    <3>2. CASE op.op = "RemoveChart"
      BY <3>2 DEF Apply, ApplyRemoveChart, Done, AddChart, Shifts
    <3>3. CASE op.op = "SetAnchor"
      BY <3>3 DEF Apply, ApplySetAnchor, Done, SetAnchor, Shifts
    <3> QED
      BY <1>5, <3>1, <3>2, <3>3 DEF ChartOp
  <2> QED
    BY <2>1, StillOne
<1> QED
  BY <1>1, <1>2, <1>3, <1>4, <1>5 DEF Suits, Shifts, ChartOp

\* What shifts nothing carries the keys nowhere.
LEMMA StillCarries ==
    ASSUME NEW x, Still(x), NEW l, IsHistory(l), NEW old, NEW new
    PROVE  Carries(x, l, l, old, new)
<1> DEFINE w == [n \in 0..Len(x) |-> l]
<1>1. Len(x) \in Nat
  BY HistoryIsFunction DEF Still
<1>2. w[0] = l /\ w[Len(x)] = l /\ \A n \in 1..Len(x) : w[n - 1] = l /\ w[n] = l
  BY <1>1
<1> HIDE DEF w
<1>3. ASSUME NEW n \in 1..Len(x) PROVE Moves(x[n], w[n - 1], w[n], old, new)
  <2>1. ~Shifts(x[n])
    BY DEF Still, HasShift
  <2> QED
    BY <1>2, <2>1 DEF Moves, Shifts
<1> QED
  BY <1>2, <1>3 DEF Carries, Still

\* One operation.
LEMMA OneCarries ==
    ASSUME NEW op, NEW l, NEW m, NEW old, NEW new, Moves(op, l, m, old, new)
    PROVE  Carries(<<op>>, l, m, old, new)
<1> DEFINE w == [n \in 0..1 |-> IF n = 0 THEN l ELSE m]
<1>1. IsHistory(<<op>>) /\ Len(<<op>>) = 1 /\ <<op>>[1] = op
  BY OneIsHistory
<1>2. w[0] = l /\ w[1] = m
  OBVIOUS
<1> HIDE DEF w
<1>3. \A n \in 1..1 : n = 1 /\ n - 1 = 0
  OBVIOUS
<1> QED
  BY <1>1, <1>2, <1>3 DEF Carries, Moves

\* One list after the other.
LEMMA JoinedCarry ==
    ASSUME NEW x, NEW y, NEW a, NEW b, NEW e, NEW old, NEW new,
           Carries(x, a, b, old, new), Carries(y, b, e, old, new)
    PROVE  Carries(x \o y, a, e, old, new)
<1>1. PICK c : c[0] = a /\ c[Len(x)] = b /\ \A n \in 1..Len(x) : Moves(x[n], c[n - 1], c[n], old, new)
  BY DEF Carries
<1>2. PICK d : d[0] = b /\ d[Len(y)] = e /\ \A n \in 1..Len(y) : Moves(y[n], d[n - 1], d[n], old, new)
  BY DEF Carries
<1>3. IsHistory(x) /\ IsHistory(y) /\ IsHistory(a) /\ IsHistory(e)
  BY DEF Carries
<1>4. Len(x) \in Nat /\ Len(y) \in Nat
  BY <1>3, HistoryIsFunction
<1>5. /\ IsHistory(x \o y) /\ Len(x \o y) = Len(x) + Len(y)
      /\ \A i \in 1..Len(x) : (x \o y)[i] = x[i]
      /\ \A i \in 1..Len(y) : (x \o y)[Len(x) + i] = y[i]
  BY <1>3, JoinHistories
<1> DEFINE l == Len(x)
           f == [n \in 0..(Len(x) + Len(y)) |-> IF n <= Len(x) THEN c[n] ELSE d[n - Len(x)]]
<1>6. \A n \in 0..l : n \in 0..(l + Len(y)) /\ f[n] = c[n]
  BY <1>4
<1>7. ASSUME NEW n \in 0..Len(y) PROVE f[l + n] = d[n]
  <2>1. l + n \in 0..(l + Len(y)) /\ l + n - l = n
    BY <1>4
  <2>2. CASE n = 0
    BY <1>1, <1>2, <1>4, <1>6, <2>2
  <2>3. CASE n # 0
    <3>1. ~(l + n <= l)
      BY <1>4, <2>3
    <3> QED
      BY <2>1, <3>1
  <2> QED
    BY <2>2, <2>3
<1> HIDE DEF f
<1>9. f[0] = a /\ f[l + Len(y)] = e
  BY <1>1, <1>2, <1>4, <1>6, <1>7
<1>10. ASSUME NEW n \in 1..(l + Len(y))
       PROVE  Moves((x \o y)[n], f[n - 1], f[n], old, new)
  <2>1. CASE n <= l
    <3>1. n \in 1..l /\ n \in 0..l /\ n - 1 \in 0..l
      BY <1>4, <2>1
    <3>2. f[n] = c[n] /\ f[n - 1] = c[n - 1] /\ (x \o y)[n] = x[n]
      BY <1>5, <1>6, <3>1
    <3> QED
      BY <1>1, <3>1, <3>2
  <2>2. CASE ~(n <= l)
    <3> DEFINE m == n - l
    <3>1. m \in 1..Len(y) /\ m \in 0..Len(y) /\ m - 1 \in 0..Len(y) /\ l + m = n /\ l + (m - 1) = n - 1
      BY <1>4, <2>2
    <3> HIDE DEF m
    <3>2. f[n] = d[m] /\ f[n - 1] = d[m - 1] /\ (x \o y)[n] = y[m]
      BY <1>5, <1>7, <3>1
    <3> QED
      BY <1>2, <3>1, <3>2
  <2> QED
    BY <2>1, <2>2
<1> QED
  BY <1>3, <1>5, <1>9, <1>10 DEF Carries

\* An inverse carries the keys back, with old and new exchanged.
LEMMA CarriedBack ==
    ASSUME NEW wb, IsBook(wb), NEW op, Suits(wb, op), NEW l, NEW m, NEW old, NEW new,
           Moves(op, l, m, old, new)
    PROVE  Carries(Apply(wb, op).inverse, m, l, new, old)
<1>1. IsHistory(l) /\ IsHistory(m)
  BY DEF Moves
<1>2. CASE op.op = "AddSheet"
  <2> DEFINE back == RemoveSheet(op.index)
             i == op.index
  <2>1. Apply(wb, op).inverse = <<back>>
    BY <1>2 DEF Apply, ApplyAddSheet, Done
  <2>2. PICK k : i \in 1..(Len(l) + 1) /\ k \notin old /\ m = InsertAt(l, i, k)
    BY <1>2 DEF Moves
  <2>3. Len(m) = Len(l) + 1 /\ m[i] = k /\ RemoveAt(m, i) = l
    BY <1>1, <2>2, InsertedHistory, RemoveInserted
  <2>4. i \in 1..Len(m)
    BY <2>2, <2>3
  <2>5. back.op = "RemoveSheet" /\ back.index = i /\ Shifts(back)
    BY DEF RemoveSheet, Shifts
  <2> HIDE DEF back, i
  <2>6. Moves(back, m, l, new, old)
    BY <1>1, <2>2, <2>3, <2>4, <2>5 DEF Moves
  <2> QED
    BY <2>1, <2>6, OneCarries
<1>3. CASE op.op = "RemoveSheet"
  <2> DEFINE i == op.index
             back == AddSheet(i, wb[i].name)
             x == Restores(wb, {<<i, r>> : r \in Occupied(wb, i)})
  <2>1. Apply(wb, op).inverse = <<back>> \o x
    BY <1>3 DEF Apply, ApplyRemoveSheet, Done
  <2>2. i \in 1..Len(l) /\ l[i] \notin new /\ m = RemoveAt(l, i)
    BY <1>3 DEF Moves
  <2>3. Len(m) = Len(l) - 1 /\ InsertAt(m, i, l[i]) = l /\ Len(l) \in Nat
    BY <1>1, <2>2, RemovedHistory, InsertRemoved, HistoryIsFunction
  <2>4. i \in 1..(Len(m) + 1)
    BY <2>2, <2>3
  <2>5. back.op = "AddSheet" /\ back.index = i /\ Shifts(back)
    BY DEF AddSheet, Shifts
  <2>6. Still(x)
    BY BookIs, StillRestores
  <2> HIDE DEF back, i, x
  <2>7. Moves(back, m, l, new, old)
    BY <1>1, <2>2, <2>3, <2>4, <2>5 DEF Moves
  <2>8. Carries(<<back>>, m, l, new, old) /\ Carries(x, l, l, new, old)
    BY <1>1, <2>6, <2>7, OneCarries, StillCarries
  <2> QED
    BY <2>1, <2>8, JoinedCarry
<1>4. CASE ~Shifts(op)
  <2>1. m = l
    BY <1>4 DEF Moves
  <2>2. Still(Apply(wb, op).inverse)
    BY <1>4, StillBack
  <2> QED
    BY <1>1, <2>1, <2>2, StillCarries
<1> QED
  BY <1>2, <1>3, <1>4 DEF Shifts

\* The inverse of a list carries the keys back, with old and new exchanged.
LEMMA AllCarriedBack ==
    ASSUME NEW wb, IsBook(wb), NEW ops, NEW p, Walks(Plain(wb), ops, p),
           NEW l, NEW m, NEW old, NEW new, Carries(ops, l, m, old, new)
    PROVE  Carries(ApplyOps(wb, ops).inverse, m, l, new, old)
<1>1. PICK f : /\ ApplyOps(wb, ops) = f[Len(ops)]
               /\ f[0] = Done(wb, <<>>)
               /\ \A n \in 1..Len(ops) :
                    LET step == Apply(f[n - 1].wb, ops[n])
                    IN f[n] = Done(step.wb, step.inverse \o f[n - 1].inverse)
  BY AppliedIs DEF Walks
<1>2. PICK w : /\ w[0] = Plain(wb) /\ w[Len(ops)] = p
               /\ \A n \in 1..Len(ops) : Steps(w[n - 1], ops[n], w[n])
  BY DEF Walks
<1>3. PICK k : /\ k[0] = l /\ k[Len(ops)] = m
               /\ \A n \in 1..Len(ops) : Moves(ops[n], k[n - 1], k[n], old, new)
  BY DEF Carries
<1>4. IsHistory(ops) /\ Len(ops) \in Nat /\ IsHistory(l)
  BY HistoryIsFunction DEF Carries
<1> DEFINE Good(n) == /\ IsBook(f[n].wb) /\ Plain(f[n].wb) = w[n]
                      /\ Carries(f[n].inverse, k[n], l, new, old)
<1>5. Good(0)
  <2>1. f[0].wb = wb /\ f[0].inverse = <<>>
    BY <1>1 DEF Done
  <2>2. Still(<<>>)
    BY EmptyHistory DEF Still, HasShift
  <2>3. Carries(<<>>, l, l, new, old)
    BY <1>4, <2>2, StillCarries
  <2> QED
    BY <1>2, <1>3, <2>1, <2>3
<1>6. ASSUME NEW n \in 1..Len(ops), Good(n - 1) PROVE Good(n)
  <2> DEFINE before == f[n - 1]
             op == ops[n]
             step == Apply(before.wb, op)
             back == step.inverse \o before.inverse
  <2>1. f[n].wb = step.wb /\ f[n].inverse = back
    <3>1. f[n] = Done(step.wb, back)
      BY <1>1
    <3> HIDE DEF step, back
    <3> QED
      BY <3>1 DEF Done
  <2>2. /\ IsBook(before.wb) /\ Plain(before.wb) = w[n - 1]
        /\ Carries(before.inverse, k[n - 1], l, new, old)
    BY <1>6
  <2>3. Steps(w[n - 1], op, w[n]) /\ Moves(op, k[n - 1], k[n], old, new)
    BY <1>2, <1>3
  <2> HIDE DEF before, op
  <2>4. Suits(before.wb, op) /\ IsBook(step.wb) /\ Plain(step.wb) = w[n]
    BY <2>2, <2>3, OneStep
  <2>5. Carries(step.inverse, k[n], k[n - 1], new, old)
    BY <2>2, <2>3, <2>4, CarriedBack
  <2> HIDE DEF step
  <2>6. Carries(back, k[n], l, new, old)
    BY <2>2, <2>5, JoinedCarry
  <2> QED
    BY <2>1, <2>4, <2>6
<1> DEFINE S == {n \in 0..Len(ops) : Good(n)}
<1>7. 0 \in S /\ \A n \in 1..Len(ops) : n - 1 \in S => n \in S
  <2> HIDE DEF Good
  <2>1. 0 \in 0..Len(ops) /\ \A n \in 1..Len(ops) : n \in 0..Len(ops)
    BY <1>4
  <2> QED
    BY <1>5, <1>6, <2>1
<1> HIDE DEF S
<1>8. Len(ops) \in S
  BY <1>4, <1>7, Upwards
<1>9. Good(Len(ops))
  BY <1>8 DEF S
<1> QED
  BY <1>1, <1>3, <1>9

\* A sheet is added under a key that is not of old.
LEMMA AddingMoves ==
    ASSUME NEW op, op.op = "AddSheet", NEW l, IsHistory(l), NEW i \in 1..(Len(l) + 1), op.index = i,
           NEW k, NEW old, k \notin old, NEW new
    PROVE  Carries(<<op>>, l, InsertAt(l, i, k), old, new)
<1>1. IsHistory(InsertAt(l, i, k))
  BY InsertedHistory
<1>2. Moves(op, l, InsertAt(l, i, k), old, new)
  BY <1>1 DEF Moves, Shifts
<1> QED
  BY <1>2, OneCarries

\* A sheet is removed that had a key that is not of new.
LEMMA RemovingMoves ==
    ASSUME NEW op, op.op = "RemoveSheet", NEW l, IsHistory(l), NEW i \in 1..Len(l), op.index = i,
           NEW old, NEW new, l[i] \notin new
    PROVE  Carries(<<op>>, l, RemoveAt(l, i), old, new)
<1>1. IsHistory(RemoveAt(l, i))
  BY RemovedHistory
<1>2. Moves(op, l, RemoveAt(l, i), old, new)
  BY <1>1 DEF Moves, Shifts
<1> QED
  BY <1>2, OneCarries

\* The keys of a history, as a set.
LEMMA InKeys ==
    ASSUME NEW s, IsHistory(s), NEW k
    PROVE  k \in ToSet(s) <=> \E i \in 1..Len(s) : s[i] = k
  BY HistoryIsFunction DEF ToSet

\* Without one of them, which stands in it once.
LEMMA TakenOut ==
    ASSUME NEW s, IsHistory(s), KeysOnce(s), NEW i \in 1..Len(s)
    PROVE  s[i] \notin ToSet(RemoveAt(s, i))
<1>1. Len(s) \in Nat
  BY HistoryIsFunction
<1> DEFINE t == RemoveAt(s, i)
<1>2. /\ IsHistory(t) /\ Len(t) = Len(s) - 1
      /\ \A j \in 1..(i - 1) : t[j] = s[j]
      /\ \A j \in i..(Len(s) - 1) : t[j] = s[j + 1]
  BY RemovedHistory
<1> HIDE DEF t
<1>3. ASSUME NEW j \in 1..Len(t) PROVE t[j] # s[i]
  <2>1. CASE j < i
    <3>1. j \in 1..(i - 1) /\ j \in 1..Len(s) /\ j # i
      BY <1>1, <1>2, <2>1
    <3> QED
      BY <1>2, <3>1 DEF KeysOnce
  <2>2. CASE ~(j < i)
    <3>1. j \in i..(Len(s) - 1) /\ j + 1 \in 1..Len(s) /\ j + 1 # i
      BY <1>1, <1>2, <2>2
    <3> QED
      BY <1>2, <3>1 DEF KeysOnce
  <2> QED
    BY <2>1, <2>2
<1> QED
  BY <1>2, <1>3, InKeys DEF t

\* And with another in its place.
LEMMA PutInstead ==
    ASSUME NEW t, IsHistory(t), NEW i \in 1..(Len(t) + 1), NEW k, NEW e, e \notin ToSet(t), k # e
    PROVE  e \notin ToSet(InsertAt(t, i, k))
<1>1. Len(t) \in Nat
  BY HistoryIsFunction
<1> DEFINE u == InsertAt(t, i, k)
<1>2. /\ IsHistory(u) /\ Len(u) = Len(t) + 1 /\ u[i] = k
      /\ \A j \in 1..(i - 1) : u[j] = t[j]
      /\ \A j \in (i + 1)..(Len(t) + 1) : u[j] = t[j - 1]
  BY InsertedHistory
<1> HIDE DEF u
<1>3. ASSUME NEW j \in 1..Len(u) PROVE u[j] # e
  <2>1. CASE j < i
    <3>1. j \in 1..(i - 1) /\ j \in 1..Len(t)
      BY <1>1, <2>1
    <3> QED
      BY <1>2, <3>1, InKeys
  <2>2. CASE j = i
    BY <1>2, <2>2
  <2>3. CASE j > i
    <3>1. PICK m : m = j - 1
      OBVIOUS
    <3>2. j \in (i + 1)..(Len(t) + 1) /\ m \in 1..Len(t)
      BY <1>1, <1>2, <2>3, <3>1
    <3>3. u[j] = t[m]
      BY <1>2, <3>1, <3>2
    <3> QED
      BY <3>2, <3>3, InKeys
  <2> QED
    BY <1>1, <2>1, <2>2, <2>3
<1> QED
  BY <1>2, <1>3, InKeys DEF u

\* The edits of a user carry the keys from the order to the one that is planned.
CarriesTo(ops, keys) == Carries(ops, order, keys, ToSet(order), ToSet(keys))

\* One operation after another.
LEMMA PairOf ==
    ASSUME NEW x, NEW y
    PROVE  <<x>> \o <<y>> = <<x, y>>
<1> DEFINE a == <<x>> \o <<y>>
           b == <<x, y>>
<1>1. IsHistory(b) /\ Len(b) = 2 /\ b[1] = x /\ b[2] = y
  <2>1. Len(b) = 2 /\ b = [i \in 1..2 |-> b[i]] /\ b[1] = x /\ b[2] = y
    OBVIOUS
  <2> HIDE DEF b
  <2> QED
    BY <2>1, FunctionIsHistory
<1>2. /\ IsHistory(<<x>>) /\ Len(<<x>>) = 1 /\ <<x>>[1] = x
      /\ IsHistory(<<y>>) /\ Len(<<y>>) = 1 /\ <<y>>[1] = y
  BY OneIsHistory
<1>3. IsHistory(a) /\ Len(a) = 2 /\ a[1] = x /\ a[1 + 1] = y
  BY <1>2, JoinHistories
<1>4. \A i \in 1..2 : i = 1 \/ i = 1 + 1
  OBVIOUS
<1> HIDE DEF a, b
<1>5. \A i \in 1..2 : a[i] = b[i]
  BY <1>1, <1>3, <1>4
<1>6. a = b
  BY <1>1, <1>3, <1>5, SameHistory
<1> QED
  BY <1>6 DEF a, b

\* Each transaction does.
LEMMA TransactionsCarry ==
    ASSUME KeysInv, NEW ops \in Transactions
    PROVE  CarriesTo(ops, KeysAfter(ops).keys)
<1>1. /\ IsHistory(order) /\ Len(order) = Len(model) /\ KeysOnce(order)
      /\ \A m \in 1..Len(model) : order[m] # Fresh(nextKey)
  BY KeysAre
<1>2. Len(order) \in Nat /\ Fresh(nextKey) \notin ToSet(order)
  BY <1>1, HistoryIsFunction, InKeys
<1>3. KeysNow = [keys |-> KeysNow.keys, next |-> KeysNow.next] /\ KeysNow.keys = order /\ KeysNow.next = nextKey
  BY DEF KeysNow
<1>4. ASSUME NEW op, ~Shifts(op), ops = <<op>> PROVE CarriesTo(ops, KeysAfter(ops).keys)
  <2>1. KeysAfter(ops).keys = order
    BY <1>3, <1>4, OneKeyed, KeyStepIs
  <2> QED
    BY <1>1, <1>4, <2>1, StillOne, StillCarries DEF CarriesTo
<1>5. ASSUME NEW i \in 1..(Len(model) + 1), NEW nm, ops = <<AddSheet(i, nm)>>
      PROVE  CarriesTo(ops, KeysAfter(ops).keys)
  <2> DEFINE op == AddSheet(i, nm)
  <2>1. op.op = "AddSheet" /\ op.index = i
    BY DEF AddSheet
  <2>2. ops = <<op>>
    BY <1>5
  <2> HIDE DEF op
  <2>3. KeysAfter(ops).keys = InsertAt(order, i, Fresh(nextKey))
    BY <1>3, <2>1, <2>2, OneKeyed, KeyStepIs
  <2> QED
    BY <1>1, <1>2, <2>1, <2>2, <2>3, AddingMoves DEF CarriesTo
<1>6. ASSUME NEW i \in Sheets, ops = <<RemoveSheet(i)>>
      PROVE  CarriesTo(ops, KeysAfter(ops).keys)
  <2> DEFINE op == RemoveSheet(i)
  <2>1. op.op = "RemoveSheet" /\ op.index = i
    BY DEF RemoveSheet
  <2>2. ops = <<op>> /\ i \in 1..Len(order)
    BY <1>1, <1>6 DEF Sheets
  <2> HIDE DEF op
  <2>3. KeysAfter(ops).keys = RemoveAt(order, i)
    BY <1>3, <2>1, <2>2, OneKeyed, KeyStepIs
  <2>4. order[i] \notin ToSet(RemoveAt(order, i))
    BY <1>1, <2>2, TakenOut
  <2> QED
    BY <1>1, <2>1, <2>2, <2>3, <2>4, RemovingMoves DEF CarriesTo
<1>7. ASSUME NEW i \in Sheets, ops = <<RemoveSheet(i), AddSheet(i, model[i].name)>>
      PROVE  CarriesTo(ops, KeysAfter(ops).keys)
  <2> DEFINE x == RemoveSheet(i)
             y == AddSheet(i, model[i].name)
             k == RemoveAt(order, i)
             z == InsertAt(k, i, Fresh(nextKey))
  <2>1. x.op = "RemoveSheet" /\ x.index = i /\ y.op = "AddSheet" /\ y.index = i
    BY DEF RemoveSheet, AddSheet
  <2>2. ops = <<x, y>> /\ i \in 1..Len(order)
    BY <1>1, <1>7 DEF Sheets
  <2> HIDE DEF x, y
  <2>3. KeysAfter(ops).keys = z
    <3> DEFINE now == KeyStep(KeysNow, x)
    <3>1. now = [keys |-> now.keys, next |-> now.next] /\ now.keys = k /\ now.next = nextKey
      <4>1. /\ now = [keys |-> now.keys, next |-> now.next]
            /\ x.op = "RemoveSheet" => /\ now.keys = RemoveAt(KeysNow.keys, x.index)
                                       /\ now.next = KeysNow.next
        BY <1>3, KeyStepIs
      <4> QED
        BY <1>3, <2>1, <4>1
    <3> HIDE DEF now
    <3>2. y.op = "AddSheet" => KeyStep(now, y).keys = InsertAt(now.keys, y.index, Fresh(now.next))
      BY <3>1, KeyStepIs
    <3>3. KeyStep(now, y).keys = InsertAt(k, i, Fresh(nextKey))
      BY <2>1, <3>1, <3>2
    <3> QED
      BY <2>2, <3>3, TwoKeyed DEF now
  <2>4. IsHistory(k) /\ Len(k) = Len(order) - 1 /\ order[i] \notin ToSet(k)
    BY <1>1, <2>2, RemovedHistory, TakenOut
  <2>5. order[i] # Fresh(nextKey)
    BY <1>1, <2>2
  <2> HIDE DEF k
  <2>6. i \in 1..(Len(k) + 1)
    BY <1>2, <2>2, <2>4
  <2>7. order[i] \notin ToSet(z)
    BY <2>4, <2>5, <2>6, PutInstead
  <2>8. Carries(<<x>>, order, k, ToSet(order), ToSet(z))
    BY <1>1, <2>1, <2>2, <2>7, RemovingMoves DEF k
  <2>9. Carries(<<y>>, k, z, ToSet(order), ToSet(z))
    <3> DEFINE new == ToSet(z)
    <3> HIDE DEF new
    <3>1. Carries(<<y>>, k, z, ToSet(order), new)
      BY <1>2, <2>1, <2>4, <2>6, AddingMoves
    <3> QED
      BY <3>1 DEF new
  <2> HIDE DEF z
  <2>10. Carries(<<x>> \o <<y>>, order, z, ToSet(order), ToSet(z))
    BY <2>8, <2>9, JoinedCarry
  <2>11. <<x>> \o <<y>> = <<x, y>>
    BY PairOf
  <2> QED
    BY <2>2, <2>3, <2>10, <2>11 DEF CarriesTo
<1>8. ASSUME NEW s, NEW r, NEW nm
      PROVE ~Shifts(InsertRow(s, r)) /\ ~Shifts(DeleteRow(s, r)) /\ ~Shifts(RenameSheet(s, nm))
  BY DEF Shifts, InsertRow, DeleteRow, RenameSheet
<1>10. \/ \E s \in Sheets, r \in Row : ops = <<InsertRow(s, r)>> \/ ops = <<DeleteRow(s, r)>>
       \/ \E i \in 1..(Len(model) + 1), nm \in Names : ops = <<AddSheet(i, nm)>>
       \/ \E i \in Sheets : ops = <<RemoveSheet(i)>> \/ ops = <<RemoveSheet(i), AddSheet(i, model[i].name)>>
       \/ \E s \in Sheets, nm \in Names : ops = <<RenameSheet(s, nm)>>
  BY DEF Transactions
<1>11. CASE \E s \in Sheets, r \in Row : ops = <<InsertRow(s, r)>> \/ ops = <<DeleteRow(s, r)>>
  BY <1>4, <1>8, <1>11
<1>12. CASE \E s \in Sheets, nm \in Names : ops = <<RenameSheet(s, nm)>>
  BY <1>4, <1>8, <1>12
<1>13. CASE \E i \in 1..(Len(model) + 1), nm \in Names : ops = <<AddSheet(i, nm)>>
  BY <1>5, <1>13
<1>14. CASE \E i \in Sheets : ops = <<RemoveSheet(i)>> \/ ops = <<RemoveSheet(i), AddSheet(i, model[i].name)>>
  BY <1>6, <1>7, <1>14
<1> QED
  BY <1>10, <1>11, <1>12, <1>13, <1>14

-----------------------------------------------------------------------------
(* The keys along the histories.                                           *)

\* The operations of a history carry the keys from each content to the next older
\* one; the newest start at c.
KeysAbove(conts, c, j) == IF j = 1 THEN c ELSE FromTop(conts, j - 1).keys
CarriesFrom(ops, a, b) == Carries(ops, a, b, ToSet(a), ToSet(b))
KeyLine(stk, conts, c) ==
  \A j \in 1..Len(stk) : CarriesFrom(FromTop(stk, j), KeysAbove(conts, c, j), FromTop(conts, j).keys)

\* Operations are put on top that lead back to c.
LEMMA KeyLinePush ==
    ASSUME NEW stk, IsHistory(stk), NEW conts, Len(conts) = Len(stk), NEW c, KeyLine(stk, conts, c),
           NEW back, NEW stk2, OnTop(stk2, stk, back), NEW cont, cont.keys = c,
           NEW conts2, OnTop(conts2, conts, cont), Len(conts2) = Len(stk2),
           NEW d, CarriesFrom(back, d, c)
    PROVE  KeyLine(stk2, conts2, d)
<1>1. /\ IsHistory(stk2) /\ Len(stk2) <= Len(stk) + 1 /\ FromTop(stk2, 1) = back
      /\ \A j \in 1..(Len(stk2) - 1) : FromTop(stk2, j + 1) = FromTop(stk, j)
  BY DEF OnTop
<1>2. /\ FromTop(conts2, 1) = cont
      /\ \A j \in 1..(Len(stk2) - 1) : FromTop(conts2, j + 1) = FromTop(conts, j)
  BY DEF OnTop
<1>3. Len(stk) \in Nat /\ Len(stk2) \in Nat
  BY <1>1, HistoryIsFunction
<1>4. ASSUME NEW j \in 1..Len(stk2), j # 1
      PROVE  CarriesFrom(FromTop(stk2, j), FromTop(conts2, j - 1).keys, FromTop(conts2, j).keys)
  <2>1. PICK k : k = j - 1
    OBVIOUS
  <2>2. k \in 1..(Len(stk2) - 1) /\ k \in 1..Len(stk) /\ j = k + 1 /\ j - 1 = k
    BY <1>1, <1>3, <1>4, <2>1
  <2>3. FromTop(stk2, j) = FromTop(stk, k) /\ FromTop(conts2, j) = FromTop(conts, k)
    BY <1>1, <1>2, <2>2
  <2>4. CarriesFrom(FromTop(stk, k), KeysAbove(conts, c, k), FromTop(conts, k).keys)
    BY <2>2 DEF KeyLine
  <2>5. FromTop(conts2, j - 1).keys = KeysAbove(conts, c, k)
    <3>1. CASE k = 1
      BY <1>2, <2>2, <3>1 DEF KeysAbove
    <3>2. CASE k # 1
      <4>1. PICK m : m = k - 1
        OBVIOUS
      <4>2. m \in 1..(Len(stk2) - 1) /\ m + 1 = k
        BY <1>3, <2>2, <3>2, <4>1
      <4>3. FromTop(conts2, k) = FromTop(conts, m)
        BY <1>2, <4>2
      <4> QED
        BY <2>2, <3>2, <4>1, <4>3 DEF KeysAbove
    <3> QED
      BY <3>1, <3>2
  <2> QED
    BY <2>3, <2>4, <2>5
<1>5. ASSUME NEW j \in 1..Len(stk2)
      PROVE  CarriesFrom(FromTop(stk2, j), KeysAbove(conts2, d, j), FromTop(conts2, j).keys)
  <2>1. CASE j = 1
    BY <1>1, <1>2, <2>1 DEF KeysAbove
  <2>2. CASE j # 1
    BY <1>4, <2>2 DEF KeysAbove
  <2> QED
    BY <2>1, <2>2
<1> QED
  BY <1>5 DEF KeyLine

\* The newest are taken off.
LEMMA KeyLinePop ==
    ASSUME NEW stk, IsHistory(stk), stk # <<>>, NEW conts, Len(conts) = Len(stk), NEW c, KeyLine(stk, conts, c)
    PROVE  /\ CarriesFrom(FromTop(stk, 1), c, FromTop(conts, 1).keys)
           /\ \A stk2, conts2 : OffTop(stk2, stk) /\ OffTop(conts2, conts)
                => KeyLine(stk2, conts2, FromTop(conts, 1).keys)
<1>1. Len(stk) \in Nat /\ Len(stk) > 0
  BY HistoryIsFunction
<1>2. CarriesFrom(FromTop(stk, 1), c, FromTop(conts, 1).keys)
  <2>1. 1 \in 1..Len(stk)
    BY <1>1
  <2> QED
    BY <2>1 DEF KeyLine, KeysAbove
<1>3. ASSUME NEW stk2, NEW conts2, OffTop(stk2, stk), OffTop(conts2, conts)
      PROVE  KeyLine(stk2, conts2, FromTop(conts, 1).keys)
  <2> DEFINE d == FromTop(conts, 1).keys
  <2>1. /\ Len(stk2) = Len(stk) - 1
        /\ \A j \in 1..(Len(stk) - 1) : FromTop(stk2, j) = FromTop(stk, j + 1)
        /\ \A j \in 1..(Len(stk) - 1) : FromTop(conts2, j) = FromTop(conts, j + 1)
    BY <1>3 DEF OffTop
  <2>2. ASSUME NEW j \in 1..Len(stk2)
        PROVE  CarriesFrom(FromTop(stk2, j), KeysAbove(conts2, d, j), FromTop(conts2, j).keys)
    <3>1. PICK k : k = j + 1
      OBVIOUS
    <3>2. k \in 1..Len(stk) /\ k # 1 /\ k - 1 = j /\ j \in 1..(Len(stk) - 1)
      BY <1>1, <2>1, <3>1
    <3>3. FromTop(stk2, j) = FromTop(stk, k) /\ FromTop(conts2, j) = FromTop(conts, k)
      BY <2>1, <3>1, <3>2
    <3>4. CarriesFrom(FromTop(stk, k), FromTop(conts, j).keys, FromTop(conts, k).keys)
      BY <3>2 DEF KeyLine, KeysAbove
    <3>5. FromTop(conts, j).keys = KeysAbove(conts2, d, j)
      <4>1. CASE j = 1
        BY <4>1 DEF KeysAbove
      <4>2. CASE j # 1
        <5>1. PICK m : m = j - 1
          OBVIOUS
        <5>2. m \in 1..(Len(stk) - 1) /\ m + 1 = j
          BY <1>1, <3>2, <4>2, <5>1
        <5>3. FromTop(conts2, m) = FromTop(conts, j)
          BY <2>1, <5>2
        <5> QED
          BY <4>2, <5>1, <5>3 DEF KeysAbove
      <4> QED
        BY <4>1, <4>2
    <3> QED
      BY <3>3, <3>4, <3>5
  <2> QED
    BY <2>2 DEF KeyLine
<1> QED
  BY <1>2, <1>3

\* No operations.
LEMMA NoKeyLine ==
    ASSUME NEW conts, NEW c
    PROVE  KeyLine(<<>>, conts, c)
  BY EmptyHistory DEF KeyLine

\* Both histories of the workbook do.
KeysCarried == KeyLine(undoOps, seen, order) /\ KeyLine(redoOps, undone, order)

\* An edit is put on top.
LEMMA KeyLineEdit ==
    ASSUME HistoryInv, KeysInv, BookInv, KeysCarried, NEW ops, NEW p, Walks(Plain(model), ops, p),
           Commit(ops, ApplyOps(model, ops).inverse), CarriesFrom(ops, order, order')
    PROVE  KeysCarried'
<1> DEFINE back == ApplyOps(model, ops).inverse
<1>1. IsHistory(undoOps) /\ IsHistory(seen) /\ Len(seen) = Len(undoOps) /\ IsBook(model)
  BY DEF HistoryInv, Histories, KeysInv, AuthorityKept, BookInv, BookKept
<1>2. Len(undoOps) <= MaxUndoDepth /\ Len(seen) <= MaxUndoDepth
  <2>1. Len(undoOps) + Len(redoOps) <= MaxUndoDepth /\ Len(undoOps) \in Nat /\ Len(redoOps) \in Nat /\ MaxUndoDepth \in Nat
    BY HistoryLengths, DepthAssumption DEF HistoryInv, Histories
  <2> QED
    BY <1>1, <2>1
<1>3. /\ undoOps' = Push(undoOps, back) /\ redoOps' = <<>> /\ seen' = Push(seen, Here)
  BY DEF Commit, Here
<1>4. CarriesFrom(back, order', order)
  BY <1>1, AllCarriedBack DEF CarriesFrom
<1>5. Here.keys = order
  BY ContentIs DEF Here
<1> HIDE DEF back
<1>6. /\ OnTop(undoOps', undoOps, back) /\ OnTop(seen', seen, Here) /\ Len(seen') = Len(undoOps')
  BY <1>1, <1>2, <1>3, TopOfPush
<1>7. KeyLine(undoOps', seen', order')
  BY <1>1, <1>4, <1>5, <1>6, KeyLinePush DEF KeysCarried
<1> QED
  BY <1>3, <1>7, NoKeyLine DEF KeysCarried

\* An entry is turned over from the history stk to stk3.
LEMMA KeyLineTurn ==
    ASSUME IsBook(model), NEW to, NEW pres, NEW stk, IsHistory(stk), stk # <<>>, Len(pres) = Len(stk),
           NEW conts, Len(conts) = Len(stk), KeyLine(stk, conts, order),
           Trail(stk, pres, conts, to, Plain(model)),
           NEW stk2, OffTop(stk2, stk), NEW conts2, OffTop(conts2, conts),
           NEW stk3, IsHistory(stk3), NEW conts3, Len(conts3) = Len(stk3), KeyLine(stk3, conts3, order),
           NEW stk4, OnTop(stk4, stk3, ApplyOps(model, FromTop(stk, 1)).inverse),
           NEW conts4, OnTop(conts4, conts3, Here), Len(conts4) = Len(stk4),
           NEW d, d = FromTop(conts, 1).keys
    PROVE  /\ CarriesFrom(FromTop(stk, 1), order, d)
           /\ KeyLine(stk2, conts2, d) /\ KeyLine(stk4, conts4, d)
<1> DEFINE top == FromTop(stk, 1)
           back == ApplyOps(model, top).inverse
<1>1. CarriesFrom(top, order, d) /\ KeyLine(stk2, conts2, d)
  BY KeyLinePop
<1>2. PICK under : Walks(Plain(model), top, under)
  BY TrailPop
<1> HIDE DEF top
<1>3. CarriesFrom(back, d, order)
  BY <1>1, <1>2, AllCarriedBack DEF CarriesFrom
<1>4. Here.keys = order
  BY ContentIs DEF Here
<1>5. OnTop(stk4, stk3, back)
  BY DEF top
<1> HIDE DEF back
<1>6. KeyLine(stk4, conts4, d)
  BY <1>3, <1>4, <1>5, KeyLinePush
<1> QED
  BY <1>1, <1>6 DEF top

\* Undo: the operations carry the keys to the order there was.
LEMMA KeyLineUndo ==
    ASSUME HistoryInv, KeysInv, BookInv, KeysCarried, UndoEdit
    PROVE  KeysCarried' /\ CarriesFrom(Last(undoOps), order, order')
<1> DEFINE back == ApplyOps(model, Last(undoOps)).inverse
<1>1. /\ undoOps # <<>> /\ undoOps' = Front(undoOps) /\ seen' = Front(seen)
      /\ redoOps' = Append(redoOps, back) /\ undone' = Append(undone, Here)
  BY DEF UndoEdit, Here
<1>2. /\ IsBook(model) /\ IsHistory(undoOps) /\ IsHistory(redoOps)
      /\ Len(preservedUndo) = Len(undoOps) /\ Len(preservedRedo) = Len(redoOps)
  BY DEF HistoryInv, Histories, HistoriesKeepStep, BookInv, BookKept
<1>3. /\ ModelKept /\ AuthorityKept /\ IsHistory(seen) /\ IsHistory(undone)
      /\ Len(seen) = Len(undoOps) /\ Len(undone) = Len(redoOps)
      /\ Trail(undoOps, preservedUndo, seen, "before", Plain(model))
  BY DEF BookInv, PathsKept, KeysInv, AuthorityKept
<1>4. order' = Last(seen).keys
  BY <1>3, UndoKeepsAuthority
<1>5. seen # <<>>
  BY <1>1, <1>2, <1>3, HistoryIsFunction
<1>6. /\ OffTop(undoOps', undoOps) /\ OffTop(seen', seen)
      /\ Last(undoOps) = FromTop(undoOps, 1) /\ Last(seen) = FromTop(seen, 1)
  BY <1>1, <1>2, <1>3, <1>5, TopTakenOff
<1>7. back = ApplyOps(model, FromTop(undoOps, 1)).inverse
  BY <1>6
<1> HIDE DEF back
<1>8. /\ OnTop(redoOps', redoOps, back) /\ OnTop(undone', undone, Here)
      /\ Len(undone') = Len(redoOps')
  <2>1. OnTop(redoOps', redoOps, back) /\ Len(redoOps') = Len(redoOps) + 1
    BY <1>1, <1>2, TopOfAppend
  <2>2. OnTop(undone', undone, Here) /\ Len(undone') = Len(undone) + 1
    BY <1>1, <1>3, TopOfAppend
  <2> QED
    BY <1>3, <2>1, <2>2
<1>9. OnTop(redoOps', redoOps, ApplyOps(model, FromTop(undoOps, 1)).inverse)
  BY <1>7, <1>8
<1>10. order' = FromTop(seen, 1).keys
  BY <1>4, <1>6
<1>11. KeyLine(undoOps, seen, order) /\ KeyLine(redoOps, undone, order)
  BY DEF KeysCarried
<1>12. /\ CarriesFrom(FromTop(undoOps, 1), order, order')
       /\ KeyLine(undoOps', seen', order') /\ KeyLine(redoOps', undone', order')
  BY <1>1, <1>2, <1>3, <1>6, <1>8, <1>9, <1>10, <1>11, KeyLineTurn
<1> QED
  BY <1>6, <1>12 DEF KeysCarried

\* Redo.
LEMMA KeyLineRedo ==
    ASSUME HistoryInv, KeysInv, BookInv, KeysCarried, RedoEdit
    PROVE  KeysCarried' /\ CarriesFrom(Last(redoOps), order, order')
<1> DEFINE back == ApplyOps(model, Last(redoOps)).inverse
<1>1. /\ redoOps # <<>> /\ redoOps' = Front(redoOps) /\ undone' = Front(undone)
      /\ undoOps' = Push(undoOps, back) /\ seen' = Push(seen, Here)
  BY DEF RedoEdit, Here
<1>2. /\ IsBook(model) /\ IsHistory(undoOps) /\ IsHistory(redoOps)
      /\ Len(preservedUndo) = Len(undoOps) /\ Len(preservedRedo) = Len(redoOps)
  BY DEF HistoryInv, Histories, HistoriesKeepStep, BookInv, BookKept
<1>3. /\ ModelKept /\ AuthorityKept /\ IsHistory(seen) /\ IsHistory(undone)
      /\ Len(seen) = Len(undoOps) /\ Len(undone) = Len(redoOps)
      /\ Trail(redoOps, preservedRedo, undone, "after", Plain(model))
  BY DEF BookInv, PathsKept, KeysInv, AuthorityKept
<1>4. order' = Last(undone).keys
  BY <1>3, RedoKeepsAuthority
<1>5. undone # <<>>
  BY <1>1, <1>2, <1>3, HistoryIsFunction
<1>6. /\ OffTop(redoOps', redoOps) /\ OffTop(undone', undone)
      /\ Last(redoOps) = FromTop(redoOps, 1) /\ Last(undone) = FromTop(undone, 1)
  BY <1>1, <1>2, <1>3, <1>5, TopTakenOff
<1>7. back = ApplyOps(model, FromTop(redoOps, 1)).inverse
  BY <1>6
<1> HIDE DEF back
<1>8. /\ OnTop(undoOps', undoOps, back) /\ OnTop(seen', seen, Here)
      /\ Len(seen') = Len(undoOps')
  <2>1. Len(undoOps) + Len(redoOps) <= MaxUndoDepth /\ Len(undoOps) \in Nat /\ Len(redoOps) \in Nat /\ MaxUndoDepth \in Nat
    BY HistoryLengths, DepthAssumption DEF HistoryInv, Histories
  <2>2. Len(undoOps) <= MaxUndoDepth /\ Len(seen) <= MaxUndoDepth
    BY <1>3, <2>1
  <2> QED
    BY <1>1, <1>2, <1>3, <2>2, TopOfPush
<1>9. OnTop(undoOps', undoOps, ApplyOps(model, FromTop(redoOps, 1)).inverse)
  BY <1>7, <1>8
<1>10. order' = FromTop(undone, 1).keys
  BY <1>4, <1>6
<1>11. KeyLine(undoOps, seen, order) /\ KeyLine(redoOps, undone, order)
  BY DEF KeysCarried
<1>12. /\ CarriesFrom(FromTop(redoOps, 1), order, order')
       /\ KeyLine(redoOps', undone', order') /\ KeyLine(undoOps', seen', order')
  BY <1>1, <1>2, <1>3, <1>6, <1>8, <1>9, <1>10, <1>11, KeyLineTurn
<1> QED
  BY <1>6, <1>12 DEF KeysCarried

-----------------------------------------------------------------------------
(* The cells a transaction sets, by the keys of their sheets.              *)

\* The keys as they are known in the course of a transaction.
TokenStep(now, op) ==
  CASE op.op = "AddSheet"    -> InsertAt(now, op.index, Added)
    [] op.op = "RemoveSheet" -> RemoveAt(now, op.index)
    [] OTHER                 -> now
TokensOf(f, start, ops, n) ==
  f = [m \in 0..n |-> IF m = 0 THEN start ELSE TokenStep(f[m - 1], ops[m])]

\* There are such keys for every start of the list.
LEMMA TokensExist ==
    ASSUME NEW start, NEW ops, NEW n \in Nat
    PROVE  \E f : TokensOf(f, start, ops, n)
<1> DEFINE T == {m \in Nat : ~\E f : TokensOf(f, start, ops, m)}
<1>1. SUFFICES T = {}
  OBVIOUS
<1>2. SUFFICES ASSUME T # {} PROVE FALSE
  OBVIOUS
<1>3. PICK m \in T : m = 0 \/ (m - 1 \in Nat /\ m - 1 \notin T)
  BY <1>2, FirstOfThem
<1>4. m \in Nat
  OBVIOUS
<1>5. CASE m = 0
  <2> DEFINE f == [k \in 0..0 |-> start]
  <2>1. TokensOf(f, start, ops, 0)
    <3>1. ASSUME NEW k \in 0..0 PROVE k = 0
      OBVIOUS
    <3> QED
      BY <3>1 DEF TokensOf
  <2> QED
    BY <1>5, <2>1
<1>6. CASE m - 1 \in Nat /\ m - 1 \notin T
  <2>1. PICK g : TokensOf(g, start, ops, m - 1)
    BY <1>6
  <2> DEFINE v == TokenStep(g[m - 1], ops[m])
             f == [k \in 0..m |-> IF k = m THEN v ELSE g[k]]
  <2>2. ASSUME NEW k \in 0..m
        PROVE  f[k] = IF k = 0 THEN start ELSE TokenStep(f[k - 1], ops[k])
    <3>1. CASE k = m
      <4>1. m # 0 /\ m - 1 \in 0..m /\ m - 1 # m
        BY <1>4, <1>6
      <4>2. f[m - 1] = g[m - 1] /\ f[k] = v
        BY <3>1, <4>1
      <4> QED
        BY <3>1, <4>1, <4>2
    <3>2. CASE k = 0
      <4>1. m # 0 /\ 0 \in 0..(m - 1)
        BY <1>4, <1>6
      <4> QED
        BY <2>1, <3>2, <4>1 DEF TokensOf
    <3>3. CASE k # m /\ k # 0
      <4>1. k \in 0..(m - 1) /\ k - 1 \in 0..m /\ k - 1 # m
        BY <1>4, <1>6, <3>3
      <4>2. f[k] = g[k] /\ f[k - 1] = g[k - 1]
        BY <3>3, <4>1
      <4>3. g[k] = TokenStep(g[k - 1], ops[k])
        BY <2>1, <3>3, <4>1 DEF TokensOf
      <4> QED
        BY <3>3, <4>2, <4>3
    <3> QED
      BY <3>1, <3>2, <3>3
  <2>3. f = [k \in 0..m |-> f[k]]
    OBVIOUS
  <2> HIDE DEF f
  <2>4. f = [k \in 0..m |-> IF k = 0 THEN start ELSE TokenStep(f[k - 1], ops[k])]
    BY <2>2, <2>3
  <2>5. TokensOf(f, start, ops, m)
    BY <2>4 DEF TokensOf
  <2> QED
    BY <2>5
<1> QED
  BY <1>3, <1>5, <1>6

\* And those are the keys of the cells that are set.
LEMMA TokensAre ==
    ASSUME NEW ops, IsHistory(ops)
    PROVE  \E f : /\ f[0] = order
                  /\ \A m \in 1..Len(ops) : f[m] = TokenStep(f[m - 1], ops[m])
                  /\ \A n \in 1..Len(ops) : ops[n].op = "SetCell"
                       => <<f[n - 1][ops[n].sheet], ops[n].at>> \in AuthoredCells(ops)
<1> DEFINE f == CHOOSE f : TokensOf(f, order, ops, Len(ops))
<1>0. Len(ops) \in Nat
  BY HistoryIsFunction
<1>1. TokensOf(f, order, ops, Len(ops))
  BY <1>0, TokensExist
<1>2. AuthoredCells(ops) =
        {<<f[n - 1][ops[n].sheet], ops[n].at>> : n \in {n \in 1..Len(ops) : ops[n].op = "SetCell"}}
  BY DEF AuthoredCells, TokensOf, TokenStep
<1> HIDE DEF f
<1>3. 0 \in 0..Len(ops) /\ \A m \in 1..Len(ops) : m \in 0..Len(ops) /\ m # 0
  BY <1>0
<1>4. f[0] = order /\ \A m \in 1..Len(ops) : f[m] = TokenStep(f[m - 1], ops[m])
  BY <1>1, <1>3 DEF TokensOf
<1> QED
  BY <1>2, <1>4

-----------------------------------------------------------------------------
(* What stays of the sheets that were there.                               *)

\* The sheets of w, with the keys g, as far as they are known t, are those of
\* the workbook M whose keys are old: a sheet whose key is not known has one that
\* is not of old, and one that has a key of old has the name and the cells it has
\* in M, but for the cells in set.
Kept(M, old, w, g, t, set) ==
  /\ IsBook(w) /\ IsHistory(g) /\ IsHistory(t) /\ Len(g) = Len(w) /\ Len(t) = Len(w)
  /\ \A i \in 1..Len(w) : t[i] = g[i] \/ g[i] \notin ToSet(old)
  /\ \A i \in 1..Len(w), j \in 1..Len(old) : g[i] = old[j] =>
       /\ w[i].name = M[j].name
       /\ \A r \in Row : w[i].cells[r] = M[j].cells[r] \/ <<old[j], r>> \in set

\* The sheet i is new, or the sheet m that was there, but for a cell that is set.
NewSheetAt(old, g2, i) == g2[i] \notin ToSet(old)
SameAs(w, g, t, w2, g2, t2, set, i, m) ==
  /\ g2[i] = g[m] /\ t2[i] = t[m] /\ w2[i].name = w[m].name
  /\ \A r \in Row : w2[i].cells[r] = w[m].cells[r] \/ <<t[m], r>> \in set

\* What is kept stays kept.
LEMMA KeptStep ==
    ASSUME NEW M, NEW old, IsHistory(old), NEW w, NEW g, NEW t, NEW set, Kept(M, old, w, g, t, set),
           NEW w2, IsBook(w2), NEW g2, IsHistory(g2), NEW t2, IsHistory(t2),
           Len(g2) = Len(w2), Len(t2) = Len(w2),
           \A i \in 1..Len(w2) :
             NewSheetAt(old, g2, i) \/ \E m \in 1..Len(w) : SameAs(w, g, t, w2, g2, t2, set, i, m)
    PROVE  Kept(M, old, w2, g2, t2, set)
<1>1. ASSUME NEW i \in 1..Len(w2) PROVE t2[i] = g2[i] \/ g2[i] \notin ToSet(old)
  BY DEF Kept, NewSheetAt, SameAs
<1>2. ASSUME NEW i \in 1..Len(w2), NEW j \in 1..Len(old), g2[i] = old[j]
      PROVE  /\ w2[i].name = M[j].name
             /\ \A r \in Row : w2[i].cells[r] = M[j].cells[r] \/ <<old[j], r>> \in set
  <2>1. g2[i] \in ToSet(old)
    BY <1>2, InKeys
  <2>2. PICK m \in 1..Len(w) : SameAs(w, g, t, w2, g2, t2, set, i, m)
    BY <2>1 DEF NewSheetAt
  <2>3. /\ g[m] = old[j] /\ t[m] = old[j] /\ w2[i].name = w[m].name
        /\ \A r \in Row : w2[i].cells[r] = w[m].cells[r] \/ <<old[j], r>> \in set
    <3>1. /\ g2[i] = g[m] /\ w2[i].name = w[m].name
          /\ \A r \in Row : w2[i].cells[r] = w[m].cells[r] \/ <<t[m], r>> \in set
      BY <2>2 DEF SameAs
    <3>2. t[m] = g[m]
      BY <1>2, <2>1, <3>1 DEF Kept
    <3> QED
      BY <1>2, <3>1, <3>2
  <2>4. /\ w[m].name = M[j].name
        /\ \A r \in Row : w[m].cells[r] = M[j].cells[r] \/ <<old[j], r>> \in set
    BY <2>3 DEF Kept
  <2> QED
    BY <2>3, <2>4
<1> QED
  BY <1>1, <1>2 DEF Kept

\* What a step is, from a workbook without values.
LEMMA StepIs ==
    ASSUME NEW w, NEW op, NEW w2, Steps(w, op, w2)
    PROVE  /\ IsBook(w) /\ Suits(w, op) /\ IsBook(Apply(w, op).wb) /\ IsBook(w2)
           /\ Len(w2) = Len(Apply(w, op).wb)
           /\ \A i \in 1..Len(w), r \in Row : Authored(w[i].cells[r]) = w[i].cells[r]
           /\ \A i \in 1..Len(w2) :
                /\ w2[i].name = Apply(w, op).wb[i].name
                /\ \A r \in Row : w2[i].cells[r] = Authored(Apply(w, op).wb[i].cells[r])
<1>1. PICK wb : IsBook(wb) /\ w = Plain(wb)
  BY DEF Steps
<1>2. IsBook(w) /\ Plain(w) = w
  BY <1>1, PlainIs, PlainTwice
<1>3. Suits(w, op) /\ IsBook(Apply(w, op).wb) /\ Plain(Apply(w, op).wb) = w2
  BY <1>2, OneStep
<1> DEFINE A == Apply(w, op).wb
<1>4. /\ IsBook(w2) /\ Len(w2) = Len(A)
      /\ \A i \in 1..Len(A) : w2[i].name = A[i].name /\ \A r \in Row : w2[i].cells[r] = Authored(A[i].cells[r])
  <2> HIDE DEF A
  <2>1. IsBook(A) /\ Plain(A) = w2
    BY <1>3 DEF A
  <2> QED
    BY <2>1, PlainIs
<1>5. \A i \in 1..Len(w), r \in Row : Authored(w[i].cells[r]) = w[i].cells[r]
  BY <1>2, PlainIs
<1> QED
  BY <1>2, <1>3, <1>4, <1>5

\* Every sheet of the next workbook is one or the other.
Stays(old, w, g, t, w2, g2, t2, set) ==
  /\ IsHistory(g2) /\ Len(g2) = Len(w2) /\ IsHistory(t2) /\ Len(t2) = Len(w2)
  /\ \A i \in 1..Len(w2) :
       NewSheetAt(old, g2, i) \/ \E m \in 1..Len(w) : SameAs(w, g, t, w2, g2, t2, set, i, m)

\* A cell set, under the key of its sheet.
LEMMA SettingStays ==
    ASSUME NEW w, NEW op, op.op = "SetCell", NEW w2, Steps(w, op, w2), NEW g, NEW t, NEW set,
           <<t[op.sheet], op.at>> \in set, NEW i \in 1..Len(w2)
    PROVE  Len(w2) = Len(w) /\ i \in 1..Len(w) /\ SameAs(w, g, t, w2, g, t, set, i, i)
<1> DEFINE A == Apply(w, op).wb
           s == op.sheet
           p == op.at
           c == op.cell
<1>1. /\ IsBook(w) /\ Suits(w, op) /\ Len(w2) = Len(A)
      /\ \A j \in 1..Len(w), r \in Row : Authored(w[j].cells[r]) = w[j].cells[r]
      /\ \A j \in 1..Len(w2) :
           w2[j].name = A[j].name /\ \A r \in Row : w2[j].cells[r] = Authored(A[j].cells[r])
  BY StepIs
<1>2. s \in 1..Len(w) /\ p \in Row /\ c \in Cell
  BY <1>1 DEF Suits
<1>3. /\ Len(A) = Len(w)
      /\ \A j \in 1..Len(w) :
           /\ A[j].name = w[j].name
           /\ \A q \in Row : A[j].cells[q] = IF j = s /\ q = p THEN c ELSE w[j].cells[q]
  <2>1. s = op.sheet /\ p = op.at /\ c = op.cell
    OBVIOUS
  <2> HIDE DEF s, p, c
  <2> QED
    BY <1>1, <1>2, <2>1, SetCellIs
<1>4. <<t[s], p>> \in set
  OBVIOUS
<1> HIDE DEF A, s, p, c
<1>5. i \in 1..Len(w) /\ w2[i].name = w[i].name
  BY <1>1, <1>3
<1>6. ASSUME NEW r \in Row PROVE w2[i].cells[r] = w[i].cells[r] \/ <<t[i], r>> \in set
  <2>1. CASE i = s /\ r = p
    BY <1>4, <2>1
  <2>2. CASE ~(i = s /\ r = p)
    <3>1. A[i].cells[r] = w[i].cells[r]
      BY <1>3, <1>5, <2>2
    <3>2. w2[i].cells[r] = Authored(A[i].cells[r]) /\ Authored(w[i].cells[r]) = w[i].cells[r]
      BY <1>1, <1>5
    <3> QED
      BY <3>1, <3>2
  <2> QED
    BY <2>1, <2>2
<1> QED
  BY <1>1, <1>3, <1>5, <1>6 DEF SameAs

\* A sheet added, under a key that is not of old.
LEMMA AddingStays ==
    ASSUME NEW w, NEW op, op.op = "AddSheet", NEW w2, Steps(w, op, w2),
           NEW g, IsHistory(g), Len(g) = Len(w), NEW t, IsHistory(t), Len(t) = Len(w),
           NEW old, NEW k, k \notin ToSet(old), NEW g2, g2 = InsertAt(g, op.index, k),
           NEW t2, t2 = InsertAt(t, op.index, Added), NEW set
    PROVE  Stays(old, w, g, t, w2, g2, t2, set)
<1> DEFINE A == Apply(w, op).wb
           x == op.index
           sh == NewSheet(op.name)
<1>1. /\ IsBook(w) /\ Suits(w, op) /\ Len(w2) = Len(A)
      /\ \A j \in 1..Len(w), r \in Row : Authored(w[j].cells[r]) = w[j].cells[r]
      /\ \A j \in 1..Len(w2) :
           w2[j].name = A[j].name /\ \A r \in Row : w2[j].cells[r] = Authored(A[j].cells[r])
  BY StepIs
<1>2. x \in 1..(Len(w) + 1) /\ op.name \in Names /\ A = InsertAt(w, x, sh) /\ Len(w) \in Nat
  <2>1. x \in 1..(Len(w) + 1) /\ op.name \in Names
    BY <1>1 DEF Suits
  <2>2. A = InsertAt(w, x, sh)
    BY DEF Apply, ApplyAddSheet, Done
  <2> QED
    BY <1>1, <2>1, <2>2, BookIs
<1>3. sh \in Sheet
  BY <1>2, NewSheetIs
<1>4. g2 = InsertAt(g, x, k) /\ t2 = InsertAt(t, x, Added)
  OBVIOUS
<1> HIDE DEF sh, x, A
<1>5. /\ Len(A) = Len(w) + 1
      /\ \A j \in 1..(x - 1) : A[j] = w[j]
      /\ \A j \in (x + 1)..(Len(w) + 1) : A[j] = w[j - 1]
  BY <1>1, <1>2, <1>3, InsertedBook
<1>6. /\ IsHistory(g2) /\ Len(g2) = Len(w) + 1 /\ g2[x] = k
      /\ \A j \in 1..(x - 1) : g2[j] = g[j]
      /\ \A j \in (x + 1)..(Len(w) + 1) : g2[j] = g[j - 1]
  <2>1. x \in 1..(Len(g) + 1)
    BY <1>2
  <2> QED
    BY <1>4, <2>1, InsertedHistory
<1>7. /\ IsHistory(t2) /\ Len(t2) = Len(w) + 1
      /\ \A j \in 1..(x - 1) : t2[j] = t[j]
      /\ \A j \in (x + 1)..(Len(w) + 1) : t2[j] = t[j - 1]
  <2>1. x \in 1..(Len(t) + 1)
    BY <1>2
  <2> QED
    BY <1>4, <2>1, InsertedHistory
<1>8. ASSUME NEW i \in 1..Len(w2), NEW m \in 1..Len(w), A[i] = w[m], g2[i] = g[m], t2[i] = t[m]
      PROVE  SameAs(w, g, t, w2, g2, t2, set, i, m)
  BY <1>1, <1>8 DEF SameAs
<1>9. ASSUME NEW i \in 1..Len(w2)
      PROVE  NewSheetAt(old, g2, i) \/ \E m \in 1..Len(w) : SameAs(w, g, t, w2, g2, t2, set, i, m)
  <2>1. CASE i = x
    BY <1>6, <2>1 DEF NewSheetAt
  <2>2. CASE i < x
    <3>1. i \in 1..(x - 1) /\ i \in 1..Len(w)
      BY <1>1, <1>2, <1>5, <2>2
    <3>2. A[i] = w[i] /\ g2[i] = g[i] /\ t2[i] = t[i]
      BY <1>5, <1>6, <1>7, <3>1
    <3> QED
      BY <1>8, <3>1, <3>2
  <2>3. CASE i > x
    <3>1. PICK m : m = i - 1
      OBVIOUS
    <3>2. i \in (x + 1)..(Len(w) + 1) /\ m \in 1..Len(w)
      BY <1>1, <1>2, <1>5, <2>3, <3>1
    <3>3. A[i] = w[m] /\ g2[i] = g[m] /\ t2[i] = t[m]
      BY <1>5, <1>6, <1>7, <3>1, <3>2
    <3> QED
      BY <1>8, <3>2, <3>3
  <2> QED
    BY <1>2, <2>1, <2>2, <2>3
<1> QED
  BY <1>1, <1>5, <1>6, <1>7, <1>9 DEF Stays

\* A sheet removed.
LEMMA RemovingStays ==
    ASSUME NEW w, NEW op, op.op = "RemoveSheet", NEW w2, Steps(w, op, w2),
           NEW g, IsHistory(g), Len(g) = Len(w), NEW t, IsHistory(t), Len(t) = Len(w),
           NEW old, NEW g2, g2 = RemoveAt(g, op.index), NEW t2, t2 = RemoveAt(t, op.index), NEW set
    PROVE  Stays(old, w, g, t, w2, g2, t2, set)
<1> DEFINE A == Apply(w, op).wb
           x == op.index
<1>1. /\ IsBook(w) /\ Suits(w, op) /\ Len(w2) = Len(A)
      /\ \A j \in 1..Len(w), r \in Row : Authored(w[j].cells[r]) = w[j].cells[r]
      /\ \A j \in 1..Len(w2) :
           w2[j].name = A[j].name /\ \A r \in Row : w2[j].cells[r] = Authored(A[j].cells[r])
  BY StepIs
<1>2. x \in 1..Len(w) /\ A = RemoveAt(w, x) /\ Len(w) \in Nat
  <2>1. x \in 1..Len(w)
    BY <1>1 DEF Suits
  <2>2. A = RemoveAt(w, x)
    BY DEF Apply, ApplyRemoveSheet, Done
  <2> QED
    BY <1>1, <2>1, <2>2, BookIs
<1>4. g2 = RemoveAt(g, x) /\ t2 = RemoveAt(t, x)
  OBVIOUS
<1> HIDE DEF x, A
<1>5. /\ Len(A) = Len(w) - 1
      /\ \A j \in 1..(x - 1) : A[j] = w[j]
      /\ \A j \in x..(Len(w) - 1) : A[j] = w[j + 1]
  BY <1>1, <1>2, RemovedBook
<1>6. /\ IsHistory(g2) /\ Len(g2) = Len(w) - 1
      /\ \A j \in 1..(x - 1) : g2[j] = g[j]
      /\ \A j \in x..(Len(w) - 1) : g2[j] = g[j + 1]
  <2> DEFINE h == RemoveAt(g, x)
  <2>1. x \in 1..Len(g)
    BY <1>2
  <2>2. h = RemoveAt(g, x)
    OBVIOUS
  <2> HIDE DEF h
  <2>3. /\ IsHistory(h) /\ Len(h) = Len(g) - 1
        /\ \A j \in 1..(x - 1) : h[j] = g[j]
        /\ \A j \in x..(Len(g) - 1) : h[j] = g[j + 1]
    BY <2>1, <2>2, RemovedHistory
  <2>4. g2 = h /\ Len(g) = Len(w)
    BY <1>4, <2>2
  <2> QED
    BY <2>3, <2>4
<1>7. /\ IsHistory(t2) /\ Len(t2) = Len(w) - 1
      /\ \A j \in 1..(x - 1) : t2[j] = t[j]
      /\ \A j \in x..(Len(w) - 1) : t2[j] = t[j + 1]
  <2> DEFINE h == RemoveAt(t, x)
  <2>1. x \in 1..Len(t)
    BY <1>2
  <2>2. h = RemoveAt(t, x)
    OBVIOUS
  <2> HIDE DEF h
  <2>3. /\ IsHistory(h) /\ Len(h) = Len(t) - 1
        /\ \A j \in 1..(x - 1) : h[j] = t[j]
        /\ \A j \in x..(Len(t) - 1) : h[j] = t[j + 1]
    BY <2>1, <2>2, RemovedHistory
  <2>4. t2 = h /\ Len(t) = Len(w)
    BY <1>4, <2>2
  <2> QED
    BY <2>3, <2>4
<1>8. ASSUME NEW i \in 1..Len(w2), NEW m \in 1..Len(w), A[i] = w[m], g2[i] = g[m], t2[i] = t[m]
      PROVE  SameAs(w, g, t, w2, g2, t2, set, i, m)
  BY <1>1, <1>8 DEF SameAs
<1>9. ASSUME NEW i \in 1..Len(w2)
      PROVE  \E m \in 1..Len(w) : SameAs(w, g, t, w2, g2, t2, set, i, m)
  <2>2. CASE i < x
    <3>1. i \in 1..(x - 1) /\ i \in 1..Len(w)
      BY <1>1, <1>2, <1>5, <2>2
    <3>2. A[i] = w[i] /\ g2[i] = g[i] /\ t2[i] = t[i]
      BY <1>5, <1>6, <1>7, <3>1
    <3> QED
      BY <1>8, <3>1, <3>2
  <2>3. CASE ~(i < x)
    <3>1. PICK m : m = i + 1
      OBVIOUS
    <3>2. i \in x..(Len(w) - 1) /\ m \in 1..Len(w)
      BY <1>1, <1>2, <1>5, <2>3, <3>1
    <3>3. A[i] = w[m] /\ g2[i] = g[m] /\ t2[i] = t[m]
      BY <1>5, <1>6, <1>7, <3>1, <3>2
    <3> QED
      BY <1>8, <3>2, <3>3
  <2> QED
    BY <2>2, <2>3
<1> QED
  BY <1>1, <1>5, <1>6, <1>7, <1>9 DEF Stays

\* One operation of a transaction after which not every sheet is written whole.
LEMMA OneKept ==
    ASSUME NEW M, NEW old, IsHistory(old), NEW w, NEW g, NEW t, NEW set, Kept(M, old, w, g, t, set),
           NEW op, ~IsSidecar(op), ~NeedsFullSync(op), NEW w2, Steps(w, op, w2),
           NEW g2, NEW new, Moves(op, g, g2, ToSet(old), new), NEW t2, t2 = TokenStep(t, op),
           op.op = "SetCell" => <<t[op.sheet], op.at>> \in set
    PROVE  Kept(M, old, w2, g2, t2, set)
<1>1. IsHistory(g) /\ Len(g) = Len(w) /\ IsHistory(t) /\ Len(t) = Len(w)
  BY DEF Kept
<1>2. Suits(w, op) /\ IsBook(w2)
  BY StepIs
<1>3. op.op \in {"SetCell", "AddSheet", "RemoveSheet"}
  BY <1>2 DEF Suits, IsSidecar, NeedsFullSync
<1>4. CASE op.op = "SetCell"
  <2>1. g2 = g /\ t2 = t
    BY <1>4 DEF Moves, Shifts, TokenStep
  <2>2. \A i \in 1..Len(w2) : Len(w2) = Len(w) /\ i \in 1..Len(w) /\ SameAs(w, g, t, w2, g, t, set, i, i)
    BY <1>4, SettingStays
  <2>3. Len(w2) = Len(w)
    <3>1. op.sheet \in 1..Len(w) /\ op.at \in Row /\ op.cell \in Cell /\ IsBook(w)
      BY <1>2, <1>4, StepIs DEF Suits
    <3> DEFINE s == op.sheet
               p == op.at
               c == op.cell
    <3>2. s \in 1..Len(w) /\ p \in Row /\ c \in Cell /\ s = op.sheet /\ p = op.at /\ c = op.cell
      BY <3>1
    <3> HIDE DEF s, p, c
    <3>3. Len(Apply(w, op).wb) = Len(w)
      BY <1>4, <3>1, <3>2, SetCellIs
    <3> QED
      BY <3>3, StepIs
  <2> QED
    BY <1>1, <1>2, <2>1, <2>2, <2>3, KeptStep
<1>5. CASE op.op = "AddSheet"
  <2>1. PICK k : k \notin ToSet(old) /\ g2 = InsertAt(g, op.index, k)
    BY <1>5 DEF Moves
  <2>2. t2 = InsertAt(t, op.index, Added)
    BY <1>5 DEF TokenStep
  <2>3. Stays(old, w, g, t, w2, g2, t2, set)
    <3>1. IsHistory(g) /\ IsHistory(t) /\ Len(g) = Len(w) /\ Len(t) = Len(w) /\ k \notin ToSet(old)
      BY <1>1, <2>1
    <3>2. g2 = InsertAt(g, op.index, k) /\ t2 = InsertAt(t, op.index, Added)
      BY <2>1, <2>2
    <3> QED
      BY <1>5, <3>1, <3>2, AddingStays
  <2> QED
    BY <1>2, <2>3, KeptStep DEF Stays
<1>6. CASE op.op = "RemoveSheet"
  <2>1. g2 = RemoveAt(g, op.index)
    BY <1>6 DEF Moves
  <2>2. t2 = RemoveAt(t, op.index)
    BY <1>6 DEF TokenStep
  <2>3. Stays(old, w, g, t, w2, g2, t2, set)
    <3>1. IsHistory(g) /\ IsHistory(t) /\ Len(g) = Len(w) /\ Len(t) = Len(w)
      BY <1>1
    <3>2. g2 = RemoveAt(g, op.index) /\ t2 = RemoveAt(t, op.index)
      BY <2>1, <2>2
    <3> QED
      BY <1>6, <3>1, <3>2, RemovingStays
  <2> QED
    BY <1>2, <2>3, KeptStep DEF Stays
<1> QED
  BY <1>3, <1>4, <1>5, <1>6

\* After a transaction that has not every sheet written whole, the sheets whose
\* keys were in use are those there were, but for the cells that were set.
LEMMA AllKept ==
    ASSUME NEW M, IsBook(M), \A i \in 1..Len(M), r \in Row : Authored(M[i].cells[r]) = M[i].cells[r],
           IsHistory(order), Len(order) = Len(M), KeysOnce(order),
           NEW ops, NEW p, Walks(M, ops, p), NEW keys, CarriesFrom(ops, order, keys),
           Structural(ops), \A n \in 1..Len(ops) : ~NeedsFullSync(ops[n])
    PROVE  \E t : Kept(M, order, p, keys, t, AuthoredCells(ops))
<1> DEFINE set == AuthoredCells(ops)
           new == ToSet(keys)
<1>1. IsHistory(ops) /\ Len(ops) \in Nat
  BY HistoryIsFunction DEF Walks
<1>2. PICK w : w[0] = M /\ w[Len(ops)] = p /\ \A n \in 1..Len(ops) : Steps(w[n - 1], ops[n], w[n])
  BY DEF Walks
<1>3. PICK g : /\ g[0] = order /\ g[Len(ops)] = keys
               /\ \A n \in 1..Len(ops) : Moves(ops[n], g[n - 1], g[n], ToSet(order), new)
  BY DEF CarriesFrom, Carries
<1>4. PICK t : /\ t[0] = order
               /\ \A m \in 1..Len(ops) : t[m] = TokenStep(t[m - 1], ops[m])
               /\ \A n \in 1..Len(ops) : ops[n].op = "SetCell" => <<t[n - 1][ops[n].sheet], ops[n].at>> \in set
  BY <1>1, TokensAre
<1> HIDE DEF set, new
<1> DEFINE S == {n \in 0..Len(ops) : Kept(M, order, w[n], g[n], t[n], set)}
<1>5. 0 \in S
  <2>1. Kept(M, order, M, order, order, set)
    BY DEF Kept, KeysOnce
  <2> QED
    BY <1>1, <1>2, <1>3, <1>4, <2>1
<1>6. ASSUME NEW m \in 1..Len(ops), m - 1 \in S PROVE m \in S
  <2>1. Kept(M, order, w[m - 1], g[m - 1], t[m - 1], set)
    BY <1>6
  <2>2. Steps(w[m - 1], ops[m], w[m]) /\ Moves(ops[m], g[m - 1], g[m], ToSet(order), new)
    BY <1>2, <1>3
  <2>3. /\ t[m] = TokenStep(t[m - 1], ops[m])
        /\ ops[m].op = "SetCell" => <<t[m - 1][ops[m].sheet], ops[m].at>> \in set
    BY <1>4
  <2>4. ~IsSidecar(ops[m]) /\ ~NeedsFullSync(ops[m])
    BY DEF Structural
  <2>5. Kept(M, order, w[m], g[m], t[m], set)
    <3>1. PICK w1, w2, g1, g2, t1, t2, op :
            /\ w1 = w[m - 1] /\ w2 = w[m] /\ g1 = g[m - 1] /\ g2 = g[m] /\ t1 = t[m - 1] /\ t2 = t[m]
            /\ op = ops[m]
      OBVIOUS
    <3>2. Kept(M, order, w1, g1, t1, set) /\ ~IsSidecar(op) /\ ~NeedsFullSync(op)
      BY <2>1, <2>4, <3>1
    <3>3. Steps(w1, op, w2) /\ Moves(op, g1, g2, ToSet(order), new)
      BY <2>2, <3>1
    <3>4. t2 = TokenStep(t1, op) /\ (op.op = "SetCell" => <<t1[op.sheet], op.at>> \in set)
      BY <2>3, <3>1
    <3>5. Kept(M, order, w2, g2, t2, set)
      BY <3>2, <3>3, <3>4, OneKept
    <3> QED
      BY <3>1, <3>5
  <2>6. m \in 0..Len(ops)
    BY <1>1
  <2> QED
    BY <2>5, <2>6
<1>7. Len(ops) \in S
  <2> HIDE DEF S
  <2> QED
    BY <1>1, <1>5, <1>6, Upwards
<1> QED
  BY <1>2, <1>3, <1>7 DEF set

-----------------------------------------------------------------------------
(* What the authority holds, and what it is written.                       *)

\* The sheet i of a workbook without values, as the authority holds it.
AuthoredIn(p, i) == [name |-> p[i].name, cells |-> [r \in Row |-> p[i].cells[r]]]

\* It is the sheet as it was typed.
LEMMA AuthoredOf ==
    ASSUME NEW wb, IsBook(wb), NEW i \in 1..Len(wb)
    PROVE  AuthoredSheet(wb[i]) = AuthoredIn(Plain(wb), i)
<1>1. Plain(wb)[i].name = wb[i].name /\ \A r \in Row : Plain(wb)[i].cells[r] = Authored(wb[i].cells[r])
  BY PlainIs
<1> QED
  BY <1>1 DEF AuthoredSheet, AuthoredIn

\* With or without charts.
LEMMA AuthoredBald ==
    ASSUME NEW p, IsBook(p), NEW i \in 1..Len(p)
    PROVE  AuthoredIn(Bald(p), i) = AuthoredIn(p, i)
<1>1. Bald(p)[i].name = p[i].name /\ Bald(p)[i].cells = p[i].cells
  BY BaldIs
<1> QED
  BY <1>1 DEF AuthoredIn

\* The authority holds the workbook, but for values and charts.
LEMMA HeldIsBald ==
    ASSUME IsBook(model), IsHistory(order), AuthorityFollowsModel,
           NEW P, P = Plain(model), NEW B, B = Materialized
    PROVE  B = Bald(P)
<1>1. IsBook(P) /\ Len(P) = Len(model) /\ Len(order) = Len(model) /\ Len(order) \in Nat
  BY PlainIs, BookIs DEF AuthorityFollowsModel
<1>2. \A i \in 1..Len(order) : docs[order[i]] = AuthoredIn(P, i)
  BY <1>1, AuthoredOf DEF AuthorityFollowsModel, Sheets
<1>3. B = [i \in 1..Len(order) |-> B[i]]
  BY DEF Materialized
<1>4. ASSUME NEW i \in 1..Len(order)
      PROVE  /\ B[i] \in Sheet /\ B[i].name = P[i].name /\ B[i].charts = <<>>
             /\ \A r \in Row : B[i].cells[r] = P[i].cells[r]
  <2>1. B[i] = [name |-> docs[order[i]].name, cells |-> docs[order[i]].cells, charts |-> <<>>]
    BY DEF Materialized
  <2>2. docs[order[i]].name = P[i].name /\ docs[order[i]].cells = [r \in Row |-> P[i].cells[r]]
    <3>1. docs[order[i]] = AuthoredIn(P, i)
      BY <1>2
    <3>2. /\ AuthoredIn(P, i).name = P[i].name
          /\ AuthoredIn(P, i).cells = [r \in Row |-> P[i].cells[r]]
      BY DEF AuthoredIn
    <3> QED
      BY <3>1, <3>2
  <2>3. P[i].name \in Names /\ \A r \in Row : P[i].cells[r] \in Cell
    BY <1>1, BookIs
  <2>4. [r \in Row |-> P[i].cells[r]] \in [Row -> Cell] /\ <<>> \in Seq(Chart)
    BY <2>3
  <2> QED
    BY <2>1, <2>2, <2>3, <2>4 DEF Sheet
<1>5. IsBook(B) /\ Len(B) = Len(order)
  BY <1>1, <1>3, <1>4, BookOf
<1>6. IsBald(B, P)
  BY <1>1, <1>4, <1>5 DEF IsBald
<1> QED
  BY <1>1, <1>6, BaldOf

\* And goes where the workbook goes.
LEMMA AuthorityGoes ==
    ASSUME IsBook(model), IsHistory(order), AuthorityFollowsModel,
           NEW ops, Structural(ops), NEW p, IsBook(p), Walks(Plain(model), ops, p),
           NEW after, after = ApplyOps(Materialized, ops).wb
    PROVE  /\ Len(after) = Len(p)
           /\ \A i \in 1..Len(p) : AuthoredSheet(after[i]) = AuthoredIn(p, i)
<1>0. PICK P, B : P = Plain(model) /\ B = Materialized
  OBVIOUS
<1>1. IsBook(P) /\ Plain(P) = P
  BY <1>0, PlainIs, PlainTwice
<1>2. B = Bald(P)
  BY <1>0, HeldIsBald
<1>3. IsBook(B) /\ Plain(B) = B
  BY <1>1, <1>2, BaldIs, BaldPlain
<1>4. Walks(Plain(B), ops, Bald(p))
  BY <1>0, <1>2, <1>3, BaldWalk
<1>5. IsBook(after) /\ Plain(after) = Bald(p)
  BY <1>0, <1>3, <1>4, ApplyingWalks
<1>6. Len(Plain(after)) = Len(after) /\ Len(Bald(p)) = Len(p)
  BY <1>5, PlainIs, BaldIs
<1>7. ASSUME NEW i \in 1..Len(p) PROVE AuthoredSheet(after[i]) = AuthoredIn(p, i)
  <2>1. i \in 1..Len(after)
    BY <1>5, <1>6
  <2>2. AuthoredSheet(after[i]) = AuthoredIn(Bald(p), i)
    BY <1>5, <2>1, AuthoredOf
  <2> QED
    BY <2>2, AuthoredBald
<1> QED
  BY <1>5, <1>6, <1>7

\* The keys of the sheets that are written whole.
WholeKeys(keys, ops) == IF \E n \in 1..Len(ops) : NeedsFullSync(ops[n]) THEN ToSet(keys)
                        ELSE ToSet(keys) \ ToSet(order)

\* The document a sheet has after it was written: sh, when its key is one of
\* those, and what it was but for the cells in set otherwise.
WrittenAs(doc, k, sh, whole, set) ==
  /\ k \in whole => doc = sh
  /\ k \notin whole => doc =
       [name  |-> docs[k].name,
        cells |-> [r \in Row |-> IF <<k, r>> \in set THEN sh.cells[r] ELSE docs[k].cells[r]]]

\* So it is, when it is sh in the workbook.
LEMMA WrittenIs ==
    ASSUME NEW wb, NEW keys, IsHistory(keys), KeysOnce(keys), NEW ops, NEW i \in 1..Len(keys),
           NEW k, k = keys[i], NEW sh, sh = AuthoredSheet(wb[i])
    PROVE  WrittenAs(Synced(wb, keys, ops)[k], k, sh, WholeKeys(keys, ops), AuthoredCells(ops))
<1> DEFINE j == CHOOSE j \in 1..Len(keys) : keys[j] = k
           set == AuthoredCells(ops)
           whole == WholeKeys(keys, ops)
           At(e) == AuthoredSheet(wb[CHOOSE m \in 1..Len(keys) : keys[m] = e])
           Touched(e) == [name  |-> docs[e].name,
                          cells |-> [r \in Row |-> IF <<e, r>> \in set THEN At(e).cells[r]
                                                   ELSE docs[e].cells[r]]]
<1>1. j = i
  <2>1. j \in 1..Len(keys) /\ keys[j] = k
    OBVIOUS
  <2> HIDE DEF j
  <2> QED
    BY <2>1 DEF KeysOnce
<1>2. At(k) = sh
  BY <1>1
<1>3. k \in ToSet(keys)
  BY InKeys
<1>4. Synced(wb, keys, ops) = [e \in DOMAIN docs \cup ToSet(keys) |->
        IF e \in whole THEN At(e) ELSE IF e \in ToSet(keys) THEN Touched(e) ELSE docs[e]]
  BY DEF Synced, WholeKeys
<1> HIDE DEF At, whole, set
<1>5. Touched(k) = [name  |-> docs[k].name,
                    cells |-> [r \in Row |-> IF <<k, r>> \in set THEN sh.cells[r] ELSE docs[k].cells[r]]]
  BY <1>2
<1> HIDE DEF Touched
<1>6. Synced(wb, keys, ops)[k] = IF k \in whole THEN At(k) ELSE Touched(k)
  BY <1>3, <1>4
<1> QED
  BY <1>2, <1>5, <1>6 DEF whole, set, WrittenAs

\* Every sheet is written as the workbook has it: whole, when it is new or an
\* operation reached the cells of others, and otherwise by the cells that were set,
\* beside which it is as it was.
LEMMA WrittenAsShown ==
    ASSUME IsBook(model), IsHistory(order), KeysOnce(order), AuthorityFollowsModel,
           NEW ops, Structural(ops), NEW p, IsBook(p), Walks(Plain(model), ops, p),
           NEW keys, KeysOnce(keys), Len(keys) = Len(p), CarriesFrom(ops, order, keys),
           NEW after, after = ApplyOps(Materialized, ops).wb, NEW i \in 1..Len(keys)
    PROVE  Synced(after, keys, ops)[keys[i]] = AuthoredIn(p, i)
<1> DEFINE k == keys[i]
           set == AuthoredCells(ops)
<1>1. IsHistory(keys) /\ i \in 1..Len(p) /\ k = keys[i]
  BY DEF CarriesFrom, Carries
<1>2. AuthoredSheet(after[i]) = AuthoredIn(p, i)
  BY <1>1, AuthorityGoes
<1>3. PICK sh : sh = AuthoredIn(p, i)
  OBVIOUS
<1>4. sh.name = p[i].name /\ sh.cells = [r \in Row |-> p[i].cells[r]]
  BY <1>3 DEF AuthoredIn
<1> HIDE DEF k, set
<1>5. /\ k \in WholeKeys(keys, ops) => Synced(after, keys, ops)[k] = sh
      /\ k \notin WholeKeys(keys, ops) => Synced(after, keys, ops)[k] =
           [name  |-> docs[k].name,
            cells |-> [r \in Row |-> IF <<k, r>> \in set THEN sh.cells[r] ELSE docs[k].cells[r]]]
  <2>1. sh = AuthoredSheet(after[i]) /\ IsHistory(keys) /\ KeysOnce(keys) /\ k = keys[i]
    BY <1>1, <1>2, <1>3
  <2>2. WrittenAs(Synced(after, keys, ops)[k], k, sh, WholeKeys(keys, ops), AuthoredCells(ops))
    BY <2>1, WrittenIs
  <2> QED
    BY <2>2 DEF set, WrittenAs
<1>6. CASE k \in WholeKeys(keys, ops)
  BY <1>3, <1>5, <1>6 DEF k
<1>7. CASE k \notin WholeKeys(keys, ops)
  <2>1. k \in ToSet(keys)
    BY <1>1, InKeys
  <2>2. k \in ToSet(order) /\ \A n \in 1..Len(ops) : ~NeedsFullSync(ops[n])
    BY <1>7, <2>1 DEF WholeKeys
  <2>3. PICK j \in 1..Len(order) : order[j] = k
    BY <2>2, InKeys
  <2>4. PICK M : M = Plain(model)
    OBVIOUS
  <2>5. /\ IsBook(M) /\ Len(order) = Len(M) /\ Walks(M, ops, p)
        /\ \A m \in 1..Len(M), r \in Row : Authored(M[m].cells[r]) = M[m].cells[r]
    <3>1. IsBook(M) /\ Plain(M) = M /\ Len(M) = Len(model)
      BY <2>4, PlainIs, PlainTwice
    <3>2. \A m \in 1..Len(M), r \in Row : Authored(M[m].cells[r]) = M[m].cells[r]
      BY <3>1, PlainIs
    <3> QED
      BY <2>4, <3>1, <3>2 DEF AuthorityFollowsModel
  <2>6. PICK t : Kept(M, order, p, keys, t, set)
    BY <2>2, <2>5, AllKept DEF set
  <2>7. /\ p[i].name = M[j].name
        /\ \A r \in Row : p[i].cells[r] = M[j].cells[r] \/ <<k, r>> \in set
    BY <1>1, <2>3, <2>6 DEF Kept
  <2>8. docs[k].name = M[j].name /\ docs[k].cells = [r \in Row |-> M[j].cells[r]]
    <3>1. j \in 1..Len(model)
      BY DEF AuthorityFollowsModel
    <3>2. docs[k] = AuthoredIn(M, j)
      BY <2>3, <2>4, <3>1, AuthoredOf DEF AuthorityFollowsModel, Sheets
    <3>3. AuthoredIn(M, j).name = M[j].name /\ AuthoredIn(M, j).cells = [r \in Row |-> M[j].cells[r]]
      BY DEF AuthoredIn
    <3> QED
      BY <3>2, <3>3
  <2>9. [r \in Row |-> IF <<k, r>> \in set THEN sh.cells[r] ELSE docs[k].cells[r]]
          = [r \in Row |-> p[i].cells[r]]
    BY <1>4, <2>7, <2>8
  <2>10. Synced(after, keys, ops)[k] = [name |-> p[i].name, cells |-> [r \in Row |-> p[i].cells[r]]]
    BY <1>5, <1>7, <2>7, <2>8, <2>9
  <2> QED
    BY <2>10 DEF AuthoredIn, k
<1> QED
  BY <1>6, <1>7

\* So the authority holds what the workbook shows after the operations.
LEMMA AuthorityWritten ==
    ASSUME IsBook(model), IsHistory(order), KeysOnce(order), AuthorityFollowsModel,
           NEW ops, Structural(ops), NEW p, IsBook(p), Walks(Plain(model), ops, p),
           IsBook(model'), Plain(model') = p,
           KeysOnce(order'), Len(order') = Len(model'), CarriesFrom(ops, order, order'),
           docs' = Synced(ApplyOps(Materialized, ops).wb, order', ops)
    PROVE  AuthorityFollowsModel'
<1>1. PICK keys, after : keys = order' /\ after = ApplyOps(Materialized, ops).wb
  OBVIOUS
<1>2. Len(p) = Len(model') /\ Len(keys) = Len(p) /\ KeysOnce(keys) /\ CarriesFrom(ops, order, keys)
  <2>1. Len(Plain(model')) = Len(model')
    BY PlainIs
  <2> QED
    BY <1>1, <2>1
<1>3. ASSUME NEW i \in 1..Len(model') PROVE docs'[order'[i]] = AuthoredSheet(model'[i])
  <2>1. i \in 1..Len(keys)
    BY <1>2
  <2>2. Synced(after, keys, ops)[keys[i]] = AuthoredIn(p, i)
    BY <1>1, <1>2, <2>1, WrittenAsShown
  <2>3. AuthoredSheet(model'[i]) = AuthoredIn(Plain(model'), i)
    BY AuthoredOf
  <2> QED
    BY <1>1, <2>2, <2>3
<1> QED
  BY <1>3 DEF AuthorityFollowsModel, Sheets

\* And still when nothing was written and no name or cell changed.
LEMMA AuthorityUnwritten ==
    ASSUME IsBook(model), AuthorityFollowsModel, UNCHANGED <<order, docs>>,
           IsBook(model'), Bald(Plain(model')) = Bald(Plain(model))
    PROVE  AuthorityFollowsModel'
<1>1. PICK P, Q : P = Plain(model) /\ Q = Plain(model')
  OBVIOUS
<1>2. IsBook(P) /\ Len(P) = Len(model) /\ IsBook(Q) /\ Len(Q) = Len(model') /\ Bald(P) = Bald(Q)
  BY <1>1, PlainIs
<1>3. Len(P) = Len(Q)
  BY <1>2, BaldIs
<1>4. ASSUME NEW i \in 1..Len(model) PROVE AuthoredSheet(model'[i]) = AuthoredSheet(model[i])
  <2>1. AuthoredSheet(model[i]) = AuthoredIn(P, i) /\ AuthoredIn(P, i) = AuthoredIn(Bald(P), i)
    BY <1>1, <1>2, AuthoredOf, AuthoredBald
  <2>2. AuthoredSheet(model'[i]) = AuthoredIn(Q, i) /\ AuthoredIn(Q, i) = AuthoredIn(Bald(Q), i)
    BY <1>1, <1>2, <1>3, AuthoredOf, AuthoredBald
  <2> QED
    BY <1>2, <2>1, <2>2
<1> QED
  BY <1>2, <1>3, <1>4 DEF AuthorityFollowsModel, Sheets

-----------------------------------------------------------------------------
(* The authority in step with the workbook.                                *)

\* The authority holds what the workbook shows, and the histories carry the keys.
FollowInv == AuthorityFollowsModel /\ KeysCarried

\* The keys after a step.
LEMMA KeysAreThen ==
    ASSUME KeysInv', BookInv'
    PROVE  IsBook(model') /\ KeysOnce(order') /\ Len(order') = Len(model')
<1>1. IsBook(model') /\ Len(model') = Len(order') /\ InStep(origins', order', nextKey')
  BY DEF KeysInv, BookInv, BookKept, ModelKept, AuthorityKept
<1>2. KeysOnce(order')
  <2>1. PICK from, keys, next : from = origins' /\ keys = order' /\ next = nextKey'
    OBVIOUS
  <2>2. InStep(from, keys, next)
    BY <1>1, <2>1
  <2>3. KeysOnce(keys)
    BY <2>2 DEF InStep, KeysOnce
  <2> QED
    BY <2>1, <2>3
<1> QED
  BY <1>1, <1>2

\* What an edit has the authority do.
LEMMA CommittedWhole ==
    ASSUME NEW ops, IsHistory(ops), ops # <<>>, Structural(ops), AuthorityCommits(ops)
    PROVE  order' = KeysAfter(ops).keys /\ docs' = Synced(ApplyOps(Materialized, ops).wb, order', ops)
<1>1. Shared(ops) = ops
  BY WhatIsShared
<1> QED
  BY <1>1 DEF AuthorityCommits

\* An edit of what the authority takes.
LEMMA EditFollows ==
    ASSUME HistoryInv, KeysInv, BookInv, FollowInv, KeysInv', BookInv',
           NEW ops, ops # <<>>, Structural(ops), NEW p, IsBook(p), Walks(Plain(model), ops, p),
           Commit(ops, ApplyOps(model, ops).inverse), CarriesFrom(ops, order, KeysAfter(ops).keys),
           Plain(model') = p
    PROVE  FollowInv'
<1>1. IsHistory(ops) /\ AuthorityCommits(ops)
  BY DEF Walks, Commit
<1>2. order' = KeysAfter(ops).keys /\ docs' = Synced(ApplyOps(Materialized, ops).wb, order', ops)
  BY <1>1, CommittedWhole
<1>3. CarriesFrom(ops, order, order')
  BY <1>2
<1>4. KeysCarried'
  BY <1>3, KeyLineEdit DEF FollowInv
<1>5. IsBook(model') /\ KeysOnce(order') /\ Len(order') = Len(model')
  BY KeysAreThen
<1>6. IsBook(model) /\ IsHistory(order) /\ KeysOnce(order)
  BY KeysAre DEF BookInv, BookKept
<1>7. AuthorityFollowsModel'
  BY <1>2, <1>3, <1>5, <1>6, AuthorityWritten DEF FollowInv
<1> QED
  BY <1>4, <1>7 DEF FollowInv

\* A cell is set and what depends on it calculated.
LEMMA SettingFollows ==
    ASSUME HistoryInv, KeysInv, BookInv, FollowInv, KeysInv', BookInv',
           NEW s \in Sheets, NEW r \in Row, NEW input \in Cell, SetAndRecalculate(s, r, input)
    PROVE  FollowInv'
<1> DEFINE op == SetCell(s, r, input)
           ops == <<op>>
           done == ApplyOps(model, ops)
           wb == Apply(model, op).wb
<1>1. /\ Commit(ops, done.inverse)
      /\ graph' = SetFormula(graph, done.wb, <<s, r>>)
      /\ model' = RecalcAfter(done.wb, graph', {<<s, r>>})
  BY DEF SetAndRecalculate
<1>2. IsBook(model) /\ Calculated(model, graph.nodes)
  BY DEF BookInv, BookKept
<1>3. Suits(model, op) /\ ~IsSidecar(op) /\ ~Shifts(op)
  BY DEF Suits, SetCell, Sheets, IsSidecar, Shifts
<1>4. wb = WithCell(model, s, r, input)
  BY DEF SetCell, Apply, ApplySetCell, Done
<1>5. KeysAfter(ops).keys = order
  <2>1. KeyStep(KeysNow, op) = KeysNow
    BY DEF KeyStep, SetCell
  <2>2. KeysAfter(<<op>>) = KeyStep(KeysNow, op)
    BY OneKeyed
  <2> QED
    BY <2>1, <2>2 DEF KeysNow
<1> HIDE DEF op
<1>6. IsBook(wb) /\ Walks(Plain(model), ops, Plain(wb)) /\ done.wb = wb
  BY <1>2, <1>3, SuitedWalks, OneApplied
<1>7. ops # <<>> /\ Structural(ops) /\ Still(ops)
  <2>1. Len(ops) = 1 /\ \A n \in 1..Len(ops) : ops[n] = op
    OBVIOUS
  <2>2. Structural(ops)
    BY <1>3, <2>1 DEF Structural
  <2> QED
    BY <1>3, <2>1, <2>2, StillOne
<1>8. Calculated(wb, graph'.nodes)
  <2>1. s \in 1..Len(model)
    BY DEF Sheets
  <2>2. Calculated(WithCell(model, s, r, input),
                   SetFormula(graph, WithCell(model, s, r, input), <<s, r>>).nodes)
    BY <1>2, <2>1, SetFormulaCalculated
  <2> QED
    BY <1>1, <1>4, <1>6, <2>2
<1>9. model' = RecalcAfter(wb, graph', {<<s, r>>}) /\ Commit(ops, ApplyOps(model, ops).inverse)
  BY <1>1, <1>6
<1> HIDE DEF done, ops, wb
<1>10. Plain(model') = Plain(wb) /\ IsBook(Plain(wb))
  BY <1>6, <1>8, <1>9, SomeOnlyValues, PlainIs
<1>11. CarriesFrom(ops, order, KeysAfter(ops).keys)
  BY <1>5, <1>7, KeysAre, StillCarries DEF CarriesFrom
<1> QED
  BY <1>6, <1>7, <1>9, <1>10, <1>11, EditFollows

\* A transaction over the structure.
LEMMA StructureFollows ==
    ASSUME HistoryInv, KeysInv, BookInv, FollowInv, KeysInv', BookInv',
           NEW ops \in Transactions, ApplyTransaction(ops)
    PROVE  FollowInv'
<1> DEFINE done == ApplyOps(model, ops)
<1>1. /\ Commit(ops, done.inverse) /\ model' = RecalcAll(done.wb)
  BY DEF ApplyTransaction
<1>2. IsBook(model)
  BY DEF BookInv, BookKept
<1>3. PICK b : Entry(ops, Len(model), b)
  BY TransactionsFit DEF KeysInv, ModelKept
<1>4. ops # <<>> /\ Structural(ops)
  <2>1. ASSUME NEW op, op.op \in {"InsertRow", "DeleteRow", "AddSheet", "RemoveSheet", "RenameSheet"}
        PROVE  ~IsSidecar(op)
    BY <2>1 DEF IsSidecar
  <2>2. Structural(ops)
    BY <2>1 DEF Transactions, Structural, InsertRow, DeleteRow, AddSheet, RemoveSheet, RenameSheet
  <2> QED
    BY <1>3, <2>2 DEF Entry
<1>5. PICK p : Walks(Plain(model), ops, p)
  <2>1. \A n \in 1..Len(ops) : Allowed(ApplyOps(model, SubSeq(ops, 1, n - 1)).wb, ops[n])
    BY DEF ApplyTransaction
  <2> QED
    BY <1>2, <2>1, TransactionsWalk
<1>6. IsBook(done.wb) /\ Plain(done.wb) = p
  BY <1>2, <1>5, ApplyingWalks
<1>7. Commit(ops, ApplyOps(model, ops).inverse)
  BY <1>1
<1> HIDE DEF done
<1>8. Plain(model') = p /\ IsBook(p)
  BY <1>1, <1>6, AllOnlyValues, PlainIs
<1>9. CarriesFrom(ops, order, KeysAfter(ops).keys)
  BY TransactionsCarry DEF CarriesTo, CarriesFrom
<1> QED
  BY <1>4, <1>5, <1>7, <1>8, <1>9, EditFollows

\* An edit of charts, of which the authority hears nothing.
LEMMA ChartsFollow ==
    ASSUME HistoryInv, KeysInv, BookInv, FollowInv, KeysInv', BookInv',
           NEW op \in ChartOps, EditChart(op)
    PROVE  FollowInv'
<1> DEFINE ops == <<op>>
           done == ApplyOps(model, ops)
           wb == Apply(model, op).wb
<1>1. Commit(ops, done.inverse) /\ model' = done.wb
  BY DEF EditChart, CommitSidecar
<1>2. IsBook(model) /\ Len(order) = Len(model) /\ InStep(origins, order, nextKey)
  BY DEF BookInv, BookKept, KeysInv, ModelKept, AuthorityKept
<1>3. Suits(model, op) /\ ChartOp(op)
  BY <1>2, ChartOpsSuit
<1>4. IsSidecar(op) /\ ~Shifts(op)
  BY <1>3 DEF ChartOp, IsSidecar, Shifts
<1>5. IsBook(wb) /\ Walks(Plain(model), ops, Plain(wb)) /\ done.wb = wb
  BY <1>2, <1>3, SuitedWalks, OneApplied
<1>6. IsHistory(ops) /\ Charting(ops) /\ Still(ops)
  <2>1. Len(ops) = 1 /\ \A n \in 1..Len(ops) : ops[n] = op
    OBVIOUS
  <2>2. Charting(ops)
    BY <1>4, <2>1 DEF Charting
  <2> QED
    BY <1>4, <2>2, StillOne DEF Still
<1>7. model' = wb /\ Commit(ops, ApplyOps(model, ops).inverse)
  BY <1>1, <1>5
<1> HIDE DEF done, ops, wb
<1>8. UNCHANGED <<order, docs>>
  <2>1. Shared(ops) = <<>>
    BY <1>6, WhatIsShared
  <2>2. AuthorityCommits(ops)
    BY <1>7 DEF Commit
  <2> QED
    BY <2>1, <2>2 DEF AuthorityCommits, authority
<1>9. CarriesFrom(ops, order, order')
  BY <1>6, <1>8, KeysAre, StillCarries DEF CarriesFrom
<1>10. KeysCarried'
  BY <1>5, <1>7, <1>9, KeyLineEdit DEF FollowInv
<1>11. Bald(Plain(model')) = Bald(Plain(model))
  BY <1>5, <1>6, <1>7, BaldWalk
<1>12. AuthorityFollowsModel'
  BY <1>2, <1>5, <1>7, <1>8, <1>11, AuthorityUnwritten DEF FollowInv
<1> QED
  BY <1>10, <1>12 DEF FollowInv

\* Undo.
LEMMA UndoFollows ==
    ASSUME HistoryInv, KeysInv, BookInv, FollowInv, KeysInv', BookInv', UndoEdit
    PROVE  FollowInv'
<1> DEFINE ops == Last(undoOps)
           wb == ApplyOps(model, ops).wb
<1>1. undoOps # <<>> /\ model' = RecalcAll(wb) /\ AuthorityUndoes(ops)
  BY DEF UndoEdit
<1>2. /\ IsBook(model) /\ IsHistory(undoOps) /\ IsHistory(preservedUndo) /\ Len(preservedUndo) = Len(undoOps)
      /\ IsHistory(keyUndo) /\ Len(seen) = Len(undoOps)
      /\ Trail(undoOps, preservedUndo, seen, "before", Plain(model))
      /\ Linked(undoOps, keyUndo, preservedUndo, seen, "after", "before", nextKey, order)
  <2>1. IsHistory(undoOps) /\ IsHistory(preservedUndo) /\ Len(preservedUndo) = Len(undoOps)
    BY DEF HistoryInv, Histories, HistoriesKeepStep
  <2> QED
    BY <2>1 DEF BookInv, BookKept, PathsKept, KeysInv, AuthorityKept
<1>3. ops = FromTop(undoOps, 1)
  BY <1>1, <1>2, TopTakenOff
<1> HIDE DEF ops
<1>4. PICK p : Walks(Plain(model), ops, p)
  BY <1>1, <1>2, <1>3, TrailPop
<1>5. IsHistory(ops) /\ IsBook(wb) /\ Plain(wb) = p
  <2>1. IsBook(wb) /\ Plain(wb) = p
    BY <1>2, <1>4, ApplyingWalks
  <2> QED
    BY <1>4, <2>1 DEF Walks
<1> HIDE DEF wb
<1>6. IsBook(p) /\ IsBook(model') /\ Plain(model') = p
  BY <1>1, <1>5, AllOnlyValues, PlainIs
<1>7. ops # <<>> /\ (Structural(ops) \/ Charting(ops))
  <2>1. PICK under : TopLevel(undoOps, keyUndo, preservedUndo, seen, "after", "before", nextKey, order, under)
    BY <1>1, <1>2, LinkedPop
  <2> QED
    BY <1>3, <2>1 DEF TopLevel
<1>8. KeysCarried' /\ CarriesFrom(ops, order, order')
  BY KeyLineUndo DEF FollowInv, ops
<1>9. CASE Structural(ops)
  <2>1. Shared(ops) = ops
    BY <1>5, <1>9, WhatIsShared
  <2>2. docs' = Synced(ApplyOps(Materialized, ops).wb, order', ops)
    BY <1>1, <1>7, <2>1 DEF AuthorityUndoes
  <2>3. IsHistory(order) /\ KeysOnce(order) /\ KeysOnce(order') /\ Len(order') = Len(model')
    BY KeysAre, KeysAreThen
  <2>4. AuthorityFollowsModel'
    BY <1>2, <1>4, <1>6, <1>8, <1>9, <2>2, <2>3, AuthorityWritten DEF FollowInv
  <2> QED
    BY <1>8, <2>4 DEF FollowInv
<1>10. CASE Charting(ops)
  <2>1. Shared(ops) = <<>>
    BY <1>5, <1>10, WhatIsShared
  <2>2. UNCHANGED <<order, docs>>
    BY <1>1, <2>1 DEF AuthorityUndoes, authority
  <2>3. Bald(Plain(model')) = Bald(Plain(model))
    BY <1>4, <1>6, <1>10, BaldWalk
  <2>4. AuthorityFollowsModel'
    BY <1>2, <1>6, <2>2, <2>3, AuthorityUnwritten DEF FollowInv
  <2> QED
    BY <1>8, <2>4 DEF FollowInv
<1> QED
  BY <1>7, <1>9, <1>10

\* Redo.
LEMMA RedoFollows ==
    ASSUME HistoryInv, KeysInv, BookInv, FollowInv, KeysInv', BookInv', RedoEdit
    PROVE  FollowInv'
<1> DEFINE ops == Last(redoOps)
           wb == ApplyOps(model, ops).wb
<1>1. redoOps # <<>> /\ model' = RecalcAll(wb) /\ AuthorityRedoes(ops)
  BY DEF RedoEdit
<1>2. /\ IsBook(model) /\ IsHistory(redoOps) /\ IsHistory(preservedRedo) /\ Len(preservedRedo) = Len(redoOps)
      /\ IsHistory(keyRedo) /\ Len(undone) = Len(redoOps)
      /\ Trail(redoOps, preservedRedo, undone, "after", Plain(model))
      /\ Linked(redoOps, keyRedo, preservedRedo, undone, "before", "after", nextKey, order)
  <2>1. IsHistory(redoOps) /\ IsHistory(preservedRedo) /\ Len(preservedRedo) = Len(redoOps)
    BY DEF HistoryInv, Histories, HistoriesKeepStep
  <2> QED
    BY <2>1 DEF BookInv, BookKept, PathsKept, KeysInv, AuthorityKept
<1>3. ops = FromTop(redoOps, 1)
  BY <1>1, <1>2, TopTakenOff
<1> HIDE DEF ops
<1>4. PICK p : Walks(Plain(model), ops, p)
  BY <1>1, <1>2, <1>3, TrailPop
<1>5. IsHistory(ops) /\ IsBook(wb) /\ Plain(wb) = p
  <2>1. IsBook(wb) /\ Plain(wb) = p
    BY <1>2, <1>4, ApplyingWalks
  <2> QED
    BY <1>4, <2>1 DEF Walks
<1> HIDE DEF wb
<1>6. IsBook(p) /\ IsBook(model') /\ Plain(model') = p
  BY <1>1, <1>5, AllOnlyValues, PlainIs
<1>7. ops # <<>> /\ (Structural(ops) \/ Charting(ops))
  <2>1. PICK under : TopLevel(redoOps, keyRedo, preservedRedo, undone, "before", "after", nextKey, order, under)
    BY <1>1, <1>2, LinkedPop
  <2> QED
    BY <1>3, <2>1 DEF TopLevel
<1>8. KeysCarried' /\ CarriesFrom(ops, order, order')
  BY KeyLineRedo DEF FollowInv, ops
<1>9. CASE Structural(ops)
  <2>1. Shared(ops) = ops
    BY <1>5, <1>9, WhatIsShared
  <2>2. docs' = Synced(ApplyOps(Materialized, ops).wb, order', ops)
    BY <1>1, <1>7, <2>1 DEF AuthorityRedoes
  <2>3. IsHistory(order) /\ KeysOnce(order) /\ KeysOnce(order') /\ Len(order') = Len(model')
    BY KeysAre, KeysAreThen
  <2>4. AuthorityFollowsModel'
    BY <1>2, <1>4, <1>6, <1>8, <1>9, <2>2, <2>3, AuthorityWritten DEF FollowInv
  <2> QED
    BY <1>8, <2>4 DEF FollowInv
<1>10. CASE Charting(ops)
  <2>1. Shared(ops) = <<>>
    BY <1>5, <1>10, WhatIsShared
  <2>2. UNCHANGED <<order, docs>>
    BY <1>1, <2>1 DEF AuthorityRedoes, authority
  <2>3. Bald(Plain(model')) = Bald(Plain(model))
    BY <1>4, <1>6, <1>10, BaldWalk
  <2>4. AuthorityFollowsModel'
    BY <1>2, <1>6, <2>2, <2>3, AuthorityUnwritten DEF FollowInv
  <2> QED
    BY <1>8, <2>4 DEF FollowInv
<1> QED
  BY <1>7, <1>9, <1>10

\* Values that are calculated are not the authority's.
LEMMA ValuesFollow ==
    ASSUME BookInv, FollowInv, UNCHANGED <<order, docs, undoOps, redoOps, seen, undone>>,
           model' = model \/ model' = RecalcAll(model)
    PROVE  FollowInv'
<1>1. IsBook(model)
  BY DEF BookInv, BookKept
<1>2. IsBook(model') /\ Plain(model') = Plain(model)
  BY <1>1, AllOnlyValues
<1>3. AuthorityFollowsModel'
  BY <1>1, <1>2, AuthorityUnwritten DEF FollowInv
<1>4. KeysCarried'
  BY DEF FollowInv, KeysCarried
<1> QED
  BY <1>3, <1>4 DEF FollowInv

\* The file that is opened.
LEMMA FollowInit == Init => FollowInv
<1> SUFFICES ASSUME Init PROVE FollowInv
  OBVIOUS
<1>1. undoOps = <<>> /\ redoOps = <<>>
  BY DEF Init
<1>2. KeysCarried
  BY <1>1, NoKeyLine DEF KeysCarried
<1>3. AuthorityFollowsModel
  <2>1. KeysInv
    BY KeysInit
  <2>2. Len(order) = Len(model) /\ Len(model) \in Nat
    BY <2>1, KeysOfModel
  <2> DEFINE S == {Seeded(i) : i \in 1..Len(Opened)}
  <2>3. model = Opened /\ order = [i \in 1..Len(Opened) |-> Seeded(i)]
        /\ docs = [k \in S |-> AuthoredSheet(Opened[k[2]])]
    BY DEF Init
  <2>4. ASSUME NEW i \in 1..Len(model)
        PROVE  order[i] = Seeded(i) /\ docs[Seeded(i)] = AuthoredSheet(model[i])
    <3>1. Seeded(i) \in S /\ order[i] = Seeded(i)
      BY <2>3
    <3> HIDE DEF S
    <3>2. docs[Seeded(i)] = AuthoredSheet(Opened[Seeded(i)[2]])
      BY <2>3, <3>1
    <3>3. Seeded(i)[2] = i
      BY DEF Seeded
    <3> QED
      BY <2>3, <3>1, <3>2, <3>3
  <2> QED
    BY <2>2, <2>4 DEF AuthorityFollowsModel, Sheets
<1> QED
  BY <1>2, <1>3 DEF FollowInv

\* Every step keeps the authority in step.
LEMMA FollowStep ==
    ASSUME HistoryInv, KeysInv, BookInv, FollowInv, [Next]_vars
    PROVE  FollowInv'
<1>0. /\ KeysInv' /\ BookInv'
      /\ \A n \in 1..Len(proposals) : /\ proposals[n].sheet \in Sheets
                                      /\ proposals[n].at \in Row /\ proposals[n].input \in Cell
  <2>1. KeysInv' /\ BookInv'
    BY KeysStep, BookStep
  <2> QED
    BY <2>1 DEF BookInv, KeysInv, ProposalsTyped, ProposalsKept, ProposalsPointAtTheirSheet
<1>1. CASE Typing
  <2>1. PICK s \in Sheets, r \in Row, input \in Inputs : EditCell(s, r, input)
    BY <1>1 DEF Typing
  <2>2. SetAndRecalculate(s, r, input) /\ input \in Cell
    BY <2>1, TypingAssumption DEF EditCell
  <2> QED
    BY <1>0, <2>2, SettingFollows
<1>2. CASE Structure
  BY <1>0, <1>2, StructureFollows DEF Structure
<1>3. CASE Charts
  BY <1>0, <1>3, ChartsFollow DEF Charts
<1>4. CASE Agents
  <2>1. ASSUME NEW p, Propose(p[1], p[2], p[3]) PROVE FollowInv'
    <3>1. UNCHANGED <<model, order, docs, undoOps, redoOps, seen, undone>>
      BY <2>1 DEF Propose, screen, stack, preserved, authority, witness
    <3> QED
      BY <3>1, ValuesFollow
  <2>2. ASSUME NEW i \in 1..Len(proposals), RejectProposal(i) PROVE FollowInv'
    <3>1. UNCHANGED <<model, order, docs, undoOps, redoOps, seen, undone>>
      BY <2>2 DEF RejectProposal, screen, stack, preserved, authority, witness
    <3> QED
      BY <3>1, ValuesFollow
  <2>3. ASSUME NEW i \in 1..Len(proposals), NEW force, AcceptProposal(i, force) PROVE FollowInv'
    <3> DEFINE p == proposals[i]
    <3>1. \/ UNCHANGED <<model, stack, authority, witness>>
          \/ SetAndRecalculate(p.sheet, p.at, p.input)
      BY <2>3 DEF AcceptProposal
    <3>2. p.sheet \in Sheets /\ p.at \in Row /\ p.input \in Cell
      BY <1>0
    <3> HIDE DEF p
    <3>3. CASE UNCHANGED <<model, stack, authority, witness>>
      <4>1. UNCHANGED <<model, order, docs, undoOps, redoOps, seen, undone>>
        BY <3>3 DEF stack, authority, witness
      <4> QED
        BY <4>1, ValuesFollow
    <3>4. CASE SetAndRecalculate(p.sheet, p.at, p.input)
      BY <1>0, <3>2, <3>4, SettingFollows
    <3> QED
      BY <3>1, <3>3, <3>4
  <2> QED
    BY <1>4, <2>1, <2>2, <2>3 DEF Agents
<1>5. CASE UndoEdit
  BY <1>0, <1>5, UndoFollows
<1>6. CASE RedoEdit
  BY <1>0, <1>6, RedoFollows
<1>7. CASE RecalculateAll
  <2>1. model' = RecalcAll(model) /\ UNCHANGED <<order, docs, undoOps, redoOps, seen, undone>>
    BY <1>7 DEF RecalculateAll, stack, authority, witness
  <2> QED
    BY <2>1, ValuesFollow
<1>8. CASE \E s \in Sheets : SetActiveSheet(s)
  <2>1. UNCHANGED <<model, order, docs, undoOps, redoOps, seen, undone>>
    BY <1>8 DEF SetActiveSheet, stack, authority, witness
  <2> QED
    BY <2>1, ValuesFollow
<1>9. CASE UNCHANGED vars
  <2>1. UNCHANGED <<model, order, docs, undoOps, redoOps, seen, undone>>
    BY <1>9 DEF vars, screen, stack, authority, witness
  <2> QED
    BY <2>1, ValuesFollow
<1> QED
  BY <1>1, <1>2, <1>3, <1>4, <1>5, <1>6, <1>7, <1>8, <1>9 DEF Next

\* The authority, which hears operations and not the workbook, writes whole only
\* the sheets an operation may have reached beyond the cells it sets, and keeps a
\* history of orders of its own, holds in every state what the screen shows: for
\* any file, any edits and any undo depth, each sheet under its key, by the name
\* and with the cells that were typed (WorkbookAuthority::sync_model, apply_ops).
THEOREM AuthorityHoldsWhatIsShown == Spec => []AuthorityFollowsModel
<1>1. Init => FollowInv
  BY FollowInit
<1>2. HistoryInv /\ KeysInv /\ BookInv /\ FollowInv /\ [Next]_vars => FollowInv'
  BY FollowStep
<1>3. FollowInv => AuthorityFollowsModel
  BY DEF FollowInv
<1> QED
  BY <1>1, <1>2, <1>3, BookAlways, PTL DEF Spec
=============================================================================
