------------------------------ MODULE Workbook ------------------------------
(* A workbook opened on its own (crates/betteroffice-xlsx, standalone mode).*)
(*                                                                          *)
(* Every edit goes through four records that are kept apart and have to     *)
(* agree: the model on the screen with its dependency graph, the undo       *)
(* history of inverse operations, the package identity of the sheets with a *)
(* history of its own, and the authority - the shared document, where a     *)
(* sheet is known by a key, with its own history of the sheet order.  Undo  *)
(* and redo pop all of them.  An agent's proposals wait beside the model    *)
(* until a person accepts or rejects them.                                  *)
EXTENDS Calculation

CONSTANTS Opened,        \* the workbook in the file, its values calculated
          Names,         \* the names a sheet can be given
          Inputs,        \* what can be typed into a cell, as cells
          Suggestions,   \* what agents can propose: <<sheet, row, cell>>
          Anchors,       \* the places a chart can be put
          MaxUndoDepth,  \* the entries a history keeps (MAX_UNDO_DEPTH)
          MaxEdits,      \* bound: the edits committed
          MaxSheets,     \* bound: the sheets of a workbook
          MaxCharts,     \* bound: the charts of a sheet
          MaxProposals,  \* bound: the proposals ever made
          MaxEntry       \* bound: the operations of an entry undone or redone (an
                         \* entry grows each time it is replayed)

ASSUME DepthAssumption == MaxUndoDepth \in Nat \ {0}
\* What a cell can hold.
Formulas == {NoFormula, RefFormula} \cup {Reads(nm, r) : nm \in Names \cup {Own}, r \in Row}
Cell     == [v : Int, f : Formulas]

ASSUME OpenedAssumption ==
  /\ Opened \in Seq([name : Names, cells : [Row -> Cell], charts : {<<>>}]) /\ Opened # <<>>
  /\ \A i, j \in 1..Len(Opened) : Opened[i].name = Opened[j].name => i = j
ASSUME TypingAssumption ==
  Inputs \subseteq Cell /\ \A p \in Suggestions : p[2] \in Row /\ p[3] \in Cell

VARIABLES model,         \* the workbook on the screen
          graph,         \* its dependency graph
          active,        \* the index of the sheet that is shown
          undoOps,       \* UndoStack.undo: for each edit, the operations that take it back
          redoOps,       \* UndoStack.redo
          origins,       \* per sheet, the sheet of the file it came from, or NoOrigin
          preservedUndo, \* the origins before and after each edit that can be undone
          preservedRedo, \* and redone
          order,         \* authority: the keys of the sheets, in order
          docs,          \* authority: the content kept under each key ever used
          keyUndo,       \* authority: the order before and after each edit
          keyRedo,
          nextKey,       \* authority: the next key to give out
          proposals,     \* the pending proposals, the oldest first
          nextProposal,  \* the last proposal id given out
          edits,         \* the number of edits committed (bounded)
          seen, undone   \* history, read by no action: the contents that undo and
                         \* redo have to bring back

screen    == <<model, graph, active>>
stack     == <<undoOps, redoOps>>
preserved == <<origins, preservedUndo, preservedRedo>>
authority == <<order, docs, keyUndo, keyRedo, nextKey>>
pending   == <<proposals, nextProposal>>
witness   == <<seen, undone>>
vars == <<screen, stack, preserved, authority, pending, edits, witness>>

NoOrigin == 0
Sheets   == 1..Len(model)
Seeded(i) == <<"sheet", i>>       \* the key of the i-th sheet of the file
Fresh(n)  == <<"replica", n>>     \* the key of the n-th sheet added since
Added     == <<"added", 0>>       \* a sheet added in a transaction, its key not known yet

\* A cell as the authority and the file keep it: without a calculated value.
Authored(c) == IF IsFormula(c) THEN [c EXCEPT !.v = Blank] ELSE c
AuthoredSheet(sh) == [name |-> sh.name, cells |-> [r \in Row |-> Authored(sh.cells[r])]]

\* Two cells that no edit has to tell apart.
SemanticallyEqual(c, d) == IF IsFormula(c) /\ IsFormula(d) THEN c.f = d.f ELSE c = d

\* What an undo or a redo has to bring back: the sheets with what was typed in
\* them and their charts, the package identity of each and its key.
Content(wb, from, keys) ==
  [sheets  |-> [i \in 1..Len(wb) |-> [sheet  |-> AuthoredSheet(wb[i]), charts |-> wb[i].charts]],
   origins |-> from,
   keys    |-> keys]

\* The newest entries of a history, the oldest dropped beyond the depth.
Capped(s) == IF Len(s) > MaxUndoDepth
             THEN SubSeq(s, Len(s) - MaxUndoDepth + 1, Len(s)) ELSE s
Push(s, e) == Capped(Append(s, e))

Init ==
  /\ model = Opened
  /\ graph = BuildGraph(Opened)
  /\ active = 1
  /\ undoOps = <<>> /\ redoOps = <<>>
  /\ origins = [i \in 1..Len(Opened) |-> i]
  /\ preservedUndo = <<>> /\ preservedRedo = <<>>
  /\ order = [i \in 1..Len(Opened) |-> Seeded(i)]
  /\ docs = [k \in {Seeded(i) : i \in 1..Len(Opened)} |-> AuthoredSheet(Opened[k[2]])]
  /\ keyUndo = <<>> /\ keyRedo = <<>> /\ nextKey = 0
  /\ proposals = <<>> /\ nextProposal = 0
  /\ edits = 0
  /\ seen = <<>> /\ undone = <<>>

----------------------------------------------------------------------------
(* Package identity: WorkbookModel does not carry it, so it is kept beside  *)
(* the model and shifted with the sheets.                                   *)

\* The origins after a list of operations: an added sheet has none.
OriginsAppended(ops) ==
  LET after[n \in 0..Len(ops)] ==
        IF n = 0 THEN origins
        ELSE CASE ops[n].op = "AddSheet"    -> Append(after[n - 1], NoOrigin)
               [] ops[n].op = "RemoveSheet" -> RemoveAt(after[n - 1], ops[n].index)
               [] OTHER                     -> after[n - 1]
  IN after[Len(ops)]
OriginsAfter(ops) ==
  LET after[n \in 0..Len(ops)] ==
        IF n = 0 THEN origins
        ELSE LET now == after[n - 1]
             IN CASE ops[n].op = "AddSheet"    -> InsertAt(now, ops[n].index, NoOrigin)
                  [] ops[n].op = "RemoveSheet" -> RemoveAt(now, ops[n].index)
                  [] OTHER                     -> now
  IN after[Len(ops)]

\* One entry for one edit; what was undone can no longer be redone.
PushUncapped ==
  /\ preservedUndo' = Append(preservedUndo, [before |-> origins, after |-> origins'])
  /\ preservedRedo' = <<>>
PushPreserved ==
  /\ preservedUndo' = Push(preservedUndo, [before |-> origins, after |-> origins'])
  /\ preservedRedo' = <<>>

----------------------------------------------------------------------------
(* The authority.  It applies the operations to what it holds itself and    *)
(* writes the difference into the document, sheet by sheet under their keys.*)

Materialized == [i \in 1..Len(order) |->
  [name |-> docs[order[i]].name, cells |-> docs[order[i]].cells, charts |-> <<>>]]

\* The keys after a user's operations: an added sheet gets a key of its own.
KeysAfter(ops) ==
  LET after[n \in 0..Len(ops)] ==
        IF n = 0 THEN [keys |-> order, next |-> nextKey]
        ELSE LET now == after[n - 1]
             IN CASE ops[n].op = "AddSheet" ->
                       [keys |-> InsertAt(now.keys, ops[n].index, Fresh(now.next)),
                        next |-> now.next + 1]
                  [] ops[n].op = "RemoveSheet" -> [now EXCEPT !.keys = RemoveAt(@, ops[n].index)]
                  [] OTHER -> now
  IN after[Len(ops)]

\* The cells a transaction sets, each under the key its sheet has at that
\* point of the transaction.  An added sheet is written whole.
AuthoredCells(ops) ==
  LET tokens[n \in 0..Len(ops)] ==
        IF n = 0 THEN order
        ELSE LET now == tokens[n - 1]
             IN CASE ops[n].op = "AddSheet"    -> InsertAt(now, ops[n].index, Added)
                  [] ops[n].op = "RemoveSheet" -> RemoveAt(now, ops[n].index)
                  [] OTHER                     -> now
  IN {<<tokens[n - 1][ops[n].sheet], ops[n].at>> : n \in {n \in 1..Len(ops) : ops[n].op = "SetCell"}}

\* The operations after which every sheet is written whole.
OnlyRowsNeedIt(op) == op.op \in {"InsertRow", "DeleteRow"}
NeedsFullSync(op) == op.op \in {"InsertRow", "DeleteRow", "RenameSheet", "RestoreSheet"}

\* The documents after the sheets became wb, under keys: every sheet after an
\* operation that needs it, otherwise the sheets that were not active before
\* and the cells that were set.
Synced(wb, keys, ops) ==
  LET whole == IF \E n \in 1..Len(ops) : NeedsFullSync(ops[n]) THEN ToSet(keys)
               ELSE ToSet(keys) \ ToSet(order)
      cells == AuthoredCells(ops)
      At(k) == AuthoredSheet(wb[CHOOSE i \in 1..Len(keys) : keys[i] = k])
      Touched(k) == [name  |-> docs[k].name,
                     cells |-> [r \in Row |-> IF <<k, r>> \in cells THEN At(k).cells[r]
                                              ELSE docs[k].cells[r]]]
  IN [k \in DOMAIN docs \cup ToSet(keys) |->
        IF k \in whole THEN At(k) ELSE IF k \in ToSet(keys) THEN Touched(k) ELSE docs[k]]

Shared(ops) == Selected(ops, {op \in ToSet(ops) : ~IsSidecar(op)})

\* A user's or an agent's transaction.  Charts never reach the authority.
CommitsEveryEdit(ops) ==
  LET shared == Shared(ops)
      plan   == KeysAfter(shared)
  IN /\ order' = plan.keys
     /\ nextKey' = plan.next
     /\ docs' = Synced(ApplyOps(Materialized, shared).wb, plan.keys, shared)
     /\ keyUndo' = Push(keyUndo, [before |-> order, after |-> plan.keys])
     /\ keyRedo' = <<>>
AuthorityCommits(ops) ==
  LET shared == Shared(ops)
      after  == ApplyOps(Materialized, shared).wb
      plan   == KeysAfter(shared)
  IN IF shared = <<>> THEN UNCHANGED authority
     ELSE /\ order' = plan.keys
          /\ nextKey' = plan.next
          /\ docs' = Synced(after, plan.keys, shared)
          /\ keyUndo' = Push(keyUndo, [before |-> order, after |-> plan.keys])
          /\ keyRedo' = <<>>

\* An undo takes the order from the entry of the edit it takes back.
AuthorityUndoes(ops) ==
  LET shared == Shared(ops)
      entry  == Last(keyUndo)
  IN IF shared = <<>> THEN UNCHANGED authority
     ELSE /\ order' = entry.before
          /\ docs' = Synced(ApplyOps(Materialized, shared).wb, entry.before, shared)
          /\ keyUndo' = Front(keyUndo)
          /\ keyRedo' = Push(keyRedo, entry)
          /\ UNCHANGED nextKey

AuthorityRedoes(ops) ==
  LET shared == Shared(ops)
      entry  == Last(keyRedo)
  IN IF shared = <<>> THEN UNCHANGED authority
     ELSE /\ order' = entry.after
          /\ docs' = Synced(ApplyOps(Materialized, shared).wb, entry.after, shared)
          /\ keyUndo' = Push(keyUndo, entry)
          /\ keyRedo' = Front(keyRedo)
          /\ UNCHANGED nextKey

\* The authority accepts the operations of an undo or a redo only when its own
\* entry starts at the order it has and ends with as many sheets as they leave.
Replays(entries, from, to, ops) ==
  Shared(ops) # <<>> =>
    /\ entries # <<>>
    /\ Last(entries)[from] = order
    /\ Len(Last(entries)[to]) = Len(ApplyOps(Materialized, Shared(ops)).wb)

----------------------------------------------------------------------------
(* Edits.                                                                   *)

\* Charts made in this session name sheets and cells; nothing can rewrite
\* them, so what would move those is refused while one stands.
NeverRefused  == TRUE
NoChartStands == \A i \in Sheets : model[i].charts = <<>>

\* The shown sheet is found again by its name, else its index is kept.
ActiveByIndex(wb)   == IF active > Len(wb) THEN Len(wb) ELSE active
ActiveAfter(wb) ==
  IF model[active].name \in NamesOf(wb) THEN IndexOf(wb, model[active].name)
  ELSE IF active > Len(wb) THEN Len(wb) ELSE active

OnlyRowsInvalidate(ops) ==
  \E n \in 1..Len(ops) : ops[n].op \in {"InsertRow", "DeleteRow"}
InvalidatesProposals(ops) ==
  \E n \in 1..Len(ops) : ops[n].op \in
    {"InsertRow", "DeleteRow", "AddSheet", "RemoveSheet", "RenameSheet", "RestoreSheet"}

ForgetProposals(ops) ==
  /\ proposals' = IF InvalidatesProposals(ops) THEN <<>> ELSE proposals
  /\ UNCHANGED nextProposal

\* One edit enters every record but the model itself.
Commit(ops, inverse) ==
  /\ edits < MaxEdits /\ edits' = edits + 1
  /\ undoOps' = Push(undoOps, inverse) /\ redoOps' = <<>>
  /\ AuthorityCommits(ops)
  /\ origins' = OriginsAfter(ops)
  /\ PushPreserved
  /\ seen' = Push(seen, Content(model, origins, order)) /\ undone' = <<>>

\* A cell is set and what depends on it is calculated again.
SetAndRecalculate(s, r, input) ==
  LET done == ApplyOps(model, <<SetCell(s, r, input)>>)
  IN /\ Commit(<<SetCell(s, r, input)>>, done.inverse)
     /\ graph' = SetFormula(graph, done.wb, <<s, r>>)
     /\ model' = RecalcAfter(done.wb, graph', {<<s, r>>})

\* edit_cell: what is typed replaces the cell, unless it says the same.
EditCell(s, r, input) ==
  /\ ~SemanticallyEqual(CellAt(model, s, r), input)
  /\ SetAndRecalculate(s, r, input)
  /\ UNCHANGED <<active, pending>>

\* What validate_op, validate_model and validate_insert_capacity let through,
\* for the workbook wb that the earlier operations left.
Allowed(wb, op) ==
  CASE op.op = "InsertRow"   -> NoChartStands /\ CellAt(wb, op.sheet, MaxRow) = EmptyCell
    [] op.op = "DeleteRow"   -> NoChartStands
    [] op.op = "AddSheet"    -> op.name \notin NamesOf(wb) /\ Len(wb) < MaxSheets
    [] op.op = "RemoveSheet" -> NoChartStands /\ Len(wb) > 1
    [] op.op = "RenameSheet" -> NoChartStands /\ op.name \notin NamesOf(wb)
    [] OTHER                 -> TRUE

\* apply_ops: a transaction over the structure of the workbook, all of it
\* checked on a copy first, then committed and everything calculated again.
ApplyTransaction(ops) ==
  LET done == ApplyOps(model, ops)
  IN /\ \A n \in 1..Len(ops) : Allowed(ApplyOps(model, SubSeq(ops, 1, n - 1)).wb, ops[n])
     /\ done.wb # model
     /\ Commit(ops, done.inverse)
     /\ active' = ActiveAfter(done.wb)
     /\ ForgetProposals(ops)
     /\ graph' = BuildGraph(done.wb)
     /\ model' = RecalcAll(done.wb)

\* A chart operation: the undo history takes it, the authority does not.
CommitSidecar(op) ==
  LET done == ApplyOps(model, <<op>>)
  IN /\ Commit(<<op>>, done.inverse)
     /\ model' = done.wb
     /\ UNCHANGED <<graph, active, pending>>

\* The charts of the session; the source of a new one are cells of sheet t.  "of"
\* is history, read by no action: the key of the sheet the cells were on.
ChartsOf(s) == 1..Len(model[s].charts)
ChartOn(t, a) == [anchor |-> a, source |-> model[t].name, of |-> order[t]]
ChartOps == UNION {
  {AddChart(s, Len(model[s].charts) + 1, ChartOn(t, a)) : t \in Sheets, a \in Anchors}
    \cup {SetAnchor(s, i, a) : i \in ChartsOf(s), a \in Anchors}
    \cup {RemoveChart(s, i, model[s].charts[i]) : i \in ChartsOf(s)} : s \in Sheets}

EditChart(op) ==
  /\ op.op = "AddChart" => op.index <= MaxCharts
  /\ CommitSidecar(op)

RecalculateAll ==
  /\ model' = RecalcAll(model)
  /\ graph' = BuildGraph(model)
  /\ UNCHANGED <<active, stack, preserved, authority, pending, edits, witness>>

SetActiveSheet(s) ==
  /\ active' = s
  /\ UNCHANGED <<model, graph, stack, preserved, authority, pending, edits, witness>>

----------------------------------------------------------------------------
(* Undo and redo.                                                           *)

UndoEdit ==
  /\ undoOps # <<>> /\ Len(Last(undoOps)) <= MaxEntry
  /\ LET ops  == Last(undoOps)
         done == ApplyOps(model, ops)
     IN /\ undoOps' = Front(undoOps)
        /\ redoOps' = Append(redoOps, done.inverse)
        /\ AuthorityUndoes(ops)
        /\ seen' = Front(seen) /\ undone' = Append(undone, Content(model, origins, order))
        /\ IF preservedUndo # <<>>
           THEN /\ origins' = Last(preservedUndo).before
                /\ preservedUndo' = Front(preservedUndo)
                /\ preservedRedo' = Append(preservedRedo, Last(preservedUndo))
           ELSE origins' = OriginsAfter(ops) /\ UNCHANGED <<preservedUndo, preservedRedo>>
        /\ active' = ActiveAfter(done.wb)
        /\ ForgetProposals(ops)
        /\ graph' = BuildGraph(done.wb)
        /\ model' = RecalcAll(done.wb)
  /\ UNCHANGED edits

RedoEdit ==
  /\ redoOps # <<>> /\ Len(Last(redoOps)) <= MaxEntry
  /\ LET ops  == Last(redoOps)
         done == ApplyOps(model, ops)
     IN /\ redoOps' = Front(redoOps)
        /\ undoOps' = Push(undoOps, done.inverse)
        /\ AuthorityRedoes(ops)
        /\ seen' = Push(seen, Content(model, origins, order)) /\ undone' = Front(undone)
        /\ IF preservedRedo # <<>>
           THEN /\ origins' = Last(preservedRedo).after
                /\ preservedRedo' = Front(preservedRedo)
                /\ preservedUndo' = Append(preservedUndo, Last(preservedRedo))
           ELSE origins' = OriginsAfter(ops) /\ UNCHANGED <<preservedUndo, preservedRedo>>
        /\ active' = ActiveAfter(done.wb)
        /\ ForgetProposals(ops)
        /\ graph' = BuildGraph(done.wb)
        /\ model' = RecalcAll(done.wb)
  /\ UNCHANGED edits

----------------------------------------------------------------------------
(* Proposals: an edit an agent would make, with the cell as it saw it.      *)

\* "for" is history, read by no action: the key of the sheet it was made for.
Propose(s, r, input) ==
  /\ nextProposal < MaxProposals
  /\ nextProposal' = nextProposal + 1
  /\ proposals' = Append(proposals, [id |-> nextProposal + 1, sheet |-> s, at |-> r,
                                     input |-> input, old |-> CellAt(model, s, r),
                                     for |-> order[s]])
  /\ UNCHANGED <<screen, stack, preserved, authority, edits, witness>>

\* The proposal still finds the cell as the agent saw it.
StillAsSeen(p) == CellAt(model, p.sheet, p.at) = p.old

\* accept_proposal: refused when stale unless forced; dropped without an edit
\* when the cell already says it; else committed like a typed edit.
AcceptProposal(i, force) ==
  LET p == proposals[i]
  IN /\ force \/ StillAsSeen(p)
     /\ IF SemanticallyEqual(CellAt(model, p.sheet, p.at), p.input)
        THEN UNCHANGED <<model, graph, stack, preserved, authority, edits, witness>>
        ELSE SetAndRecalculate(p.sheet, p.at, p.input)
     /\ proposals' = RemoveAt(proposals, i)
     /\ UNCHANGED <<active, nextProposal>>

RejectProposal(i) ==
  /\ proposals' = RemoveAt(proposals, i)
  /\ UNCHANGED <<screen, stack, preserved, authority, nextProposal, edits, witness>>

----------------------------------------------------------------------------

Typing == \E s \in Sheets, r \in Row, input \in Inputs : EditCell(s, r, input)

\* The last: a sheet replaced by an empty one of the same name, in one go.
Transactions ==
  {<<InsertRow(s, r)>> : s \in Sheets, r \in Row}
    \cup {<<DeleteRow(s, r)>> : s \in Sheets, r \in Row}
    \cup {<<AddSheet(i, nm)>> : i \in 1..(Len(model) + 1), nm \in Names}
    \cup {<<RemoveSheet(i)>> : i \in Sheets}
    \cup {<<RenameSheet(i, nm)>> : i \in Sheets, nm \in Names}
    \cup {<<RemoveSheet(i), AddSheet(i, model[i].name)>> : i \in Sheets}
Structure == \E ops \in Transactions : ApplyTransaction(ops)

Charts == \E op \in ChartOps : EditChart(op)

Agents ==
  \/ \E p \in Suggestions : p[1] \in Sheets /\ Propose(p[1], p[2], p[3])
  \/ \E i \in 1..Len(proposals), force \in BOOLEAN : AcceptProposal(i, force)
  \/ \E i \in 1..Len(proposals) : RejectProposal(i)

Next == \/ Typing \/ Structure \/ Charts \/ Agents
        \/ UndoEdit \/ RedoEdit
        \/ RecalculateAll
        \/ \E s \in Sheets : SetActiveSheet(s)

Spec == Init /\ [][Next]_vars

----------------------------------------------------------------------------
(* What must hold.                                                          *)

Origins == 0..Len(Opened)

\* The package history keeps step with the operations it belongs to: entry for
\* entry, also past the depth where both drop their oldest, and every entry
\* starts where the one under it ended (push_preserved_history against
\* UndoStack::push_undo, undo and redo).
HistoriesKeepStep ==
  /\ Len(preservedUndo) = Len(undoOps)
  /\ Len(preservedRedo) = Len(redoOps)
  /\ preservedUndo # <<>> => Last(preservedUndo).after = origins
  /\ preservedRedo # <<>> => Last(preservedRedo).before = origins
  /\ \A n \in 1..(Len(preservedUndo) - 1) : preservedUndo[n].after = preservedUndo[n + 1].before

\* Undo never fails half way.  The model and the undo stack have moved by the
\* time the authority checks its own entry against the order it has; in every
\* state that check would pass, although charts enter one history and not the
\* other (Workbook::undo and redo, plan_sheet_keys).
AuthorityWillReplay ==
  /\ undoOps # <<>> => Replays(keyUndo, "after", "before", Last(undoOps))
  /\ redoOps # <<>> => Replays(keyRedo, "before", "after", Last(redoOps))

\* A sheet has a source sheet in the package exactly while the authority knows
\* it by that sheet's key, through removals, fresh sheets of the same name and
\* their undoing: what is saved over a part of the package is the sheet that
\* was read from it.
OriginsFollowKeys ==
  /\ Len(origins) = Len(model) /\ Len(order) = Len(model)
  /\ \A i \in Sheets, o \in 1..Len(Opened) : origins[i] = o <=> order[i] = Seeded(o)
  /\ \A i, j \in Sheets : order[i] = order[j] => i = j

\* The authority, which is written cell by cell or sheet by sheet depending on
\* the operations, holds what the screen shows (WorkbookAuthority::sync_model).
AuthorityFollowsModel ==
  /\ Len(order) = Len(model)
  /\ \A i \in Sheets : docs[order[i]] = AuthoredSheet(model[i])

\* After any operation the values are those a calculation of everything gives,
\* though an edit only recalculates what its graph says depends on it.  A cell
\* on a cycle is zero.  Nothing is said of a formula that is not on a cycle and
\* can only be reached through one.
ValuesAreCurrent ==
  LET g    == BuildGraph(model)
      done == InOrderOf(model, g, g.nodes).done
      full == RecalcAll(model)
  IN /\ \A at \in done : CellAt(model, at[1], at[2]).v = CellAt(full, at[1], at[2]).v
     /\ \A at \in OnCycle(g) : CellAt(model, at[1], at[2]).v = 0

\* The cells a chart was made over stay where the chart says they are: its
\* sheet is there, under the name the chart has, whatever was undone or redone
\* (ensure_references_stay_valid is only asked for new edits).
ChartsKeepTheirSource ==
  \A i \in Sheets : \A n \in 1..Len(model[i].charts) :
    LET d == model[i].charts[n]
    IN \E t \in Sheets : order[t] = d.of /\ model[t].name = d.source

\* A pending proposal still points at the sheet it was made for; an index that
\* a structural edit or an undo shifted under it would edit another sheet.
ProposalsPointAtTheirSheet ==
  \A n \in 1..Len(proposals) :
    proposals[n].sheet \in Sheets /\ order[proposals[n].sheet] = proposals[n].for

\* The shown sheet stays shown while it exists: no edit, undo or redo turns the
\* reader's page unless the page is gone.
ShownSheetStays ==
  [][(order[active] \in ToSet(order') /\ (model' # model \/ order' # order))
       => order'[active'] = order[active]]_vars

Keys    == {"sheet", "replica"} \X Nat
Charted == [sheet  : [name : Names, cells : [Row -> Cell]],
            charts : Seq([anchor : Anchors, source : Names, of : Keys])]

History == INSTANCE LinearHistory
             WITH Contents <- [sheets : Seq(Charted), origins : Seq(Origins), keys : Seq(Keys)],
                  Depth    <- MaxUndoDepth,
                  past     <- seen,
                  present  <- Content(model, origins, order),
                  future   <- undone

\* The workbook is a document with a linear history: applying the inverse
\* operations of the stacks, with the package identity kept beside them, brings
\* back exactly the contents the user went through (UndoStack and apply_ops:
\* "replayed in order, restores the prior workbook state").
HistoryIsLinear == History!Spec
=============================================================================
