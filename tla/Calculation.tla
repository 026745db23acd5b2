---------------------------- MODULE Calculation ----------------------------
(* The calculation engine (crates/xlsx-calc): the dependency graph kept     *)
(* from one edit to the next, and the recalculation of what an edit could   *)
(* have changed, or of everything.  Volatile functions, the evaluation      *)
(* budget and array formulas are left out.                                  *)
EXTENDS SheetOps

\* A graph: the formula cells, and for each of them the cells it reads.
Graph(nodes, reads) == [nodes |-> nodes, reads |-> reads]

\* The cell that the formula of cell c on sheet s reads, as a set: none when
\* the formula is an error or names no sheet of the workbook.
Edges(wb, s, c) ==
  IF ~IsReading(c) THEN {}
  ELSE {<<t, c.f[2]>> : t \in {t \in 1..Len(wb) : ReadsSheet(wb, s, c, t)}}

\* The graph of every formula the workbook holds.
BuildGraph(wb) ==
  LET nodes == {at \in CellsOf(wb) : IsFormula(CellAt(wb, at[1], at[2]))}
  IN Graph(nodes, UNION {{at} \X Edges(wb, at[1], CellAt(wb, at[1], at[2])) : at \in nodes})

\* One cell has a new content: its old edges go, the new ones are installed.
SetFormula(g, wb, at) ==
  LET c    == CellAt(wb, at[1], at[2])
      rest == Graph(g.nodes \ {at}, {e \in g.reads : e[1] # at})
  IN IF IsFormula(c)
     THEN Graph(rest.nodes \cup {at}, rest.reads \cup ({at} \X Edges(wb, at[1], c)))
     ELSE rest

DependentsOf(g, at) == {e[1] : e \in {e \in g.reads : e[2] = at}}

\* The seeds and what depends on them, through any number of formulas.
Downstream(g, seeds) ==
  LET reached[n \in 0..Cardinality(g.nodes)] ==
        IF n = 0 THEN seeds
        ELSE LET before == reached[n - 1]
             IN before \cup UNION {DependentsOf(g, at) : at \in before}
  IN reached[Cardinality(g.nodes)]

DirectlyDependent(g, seeds) == (seeds \cup UNION {DependentsOf(g, at) : at \in seeds}) \cap g.nodes
CollectRecompute(g, seeds) == Downstream(g, seeds) \cap g.nodes

\* The value of the formula of a cell of sheet s: an error stays an error, an
\* unknown sheet is one, and an empty cell counts as zero.
Evaluate(wb, s, c) ==
  LET read == Edges(wb, s, c)
  IN IF read = {} THEN RefValue
     ELSE LET at == CHOOSE at \in read : TRUE
              v  == CellAt(wb, at[1], at[2]).v
          IN CASE v = RefValue -> RefValue
               [] v = Blank    -> 1
               [] OTHER        -> v + 1

\* The cells in the domain of values have those values.
WithValues(wb, values) ==
  MapCells(wb, [at \in CellsOf(wb) |->
    IF at \in DOMAIN values THEN [CellAt(wb, at[1], at[2]) EXCEPT !.v = values[at]]
    ELSE CellAt(wb, at[1], at[2])])

\* Kahn's order over the cells to recompute, a layer at a time: a cell is
\* evaluated when the cells it reads are not to be recomputed or already are.
\* What no layer reaches is on a cycle or only reachable through one.
InOrderOf(wb, g, recompute) ==
  LET Ready(done) == {at \in recompute \ done :
                        \A e \in g.reads : (e[1] = at /\ e[2] \in recompute) => e[2] \in done}
      pass[n \in 0..Cardinality(recompute)] ==
        IF n = 0 THEN [wb |-> wb, done |-> {}]
        ELSE LET before == pass[n - 1]
                 ready  == Ready(before.done)
             IN [wb   |-> WithValues(before.wb, [at \in ready |->
                            Evaluate(before.wb, at[1], CellAt(before.wb, at[1], at[2]))]),
                 done |-> before.done \cup ready]
  IN pass[Cardinality(recompute)]

\* Evaluate the cells to recompute in that order, then zero the others.
RunRecalc(wb, g, recompute) ==
  LET ordered == InOrderOf(wb, g, recompute)
  IN WithValues(ordered.wb, [at \in recompute \ ordered.done |-> 0])

\* After an edit of the cells in seeds: what depends on them.
RecalcAfter(wb, g, seeds) == RunRecalc(wb, g, CollectRecompute(g, seeds))

\* Everything, in the order of a graph built for the purpose.
RecalcAll(wb) == LET g == BuildGraph(wb) IN RunRecalc(wb, g, g.nodes)

\* The formulas that read themselves, through any number of others.
OnCycle(g) == {at \in g.nodes : at \in Downstream(g, DependentsOf(g, at))}
=============================================================================
