\* Edits, structure, charts, proposals, undo and redo in any order.
CONSTANTS
  MaxRow = 2
  Opened <- MCOpened
  Names <- MCNames
  Inputs <- MCInputs
  Suggestions <- MCSuggestions
  Anchors = {1}
  MaxUndoDepth = 2
  MaxEdits = 3
  MaxSheets = 2
  MaxCharts = 1
  MaxProposals = 1
  MaxEntry = 3
SPECIFICATION Spec
INVARIANTS
  HistoriesKeepStep
  AuthorityWillReplay
  OriginsFollowKeys
  AuthorityFollowsModel
  ValuesAreCurrent
  ChartsKeepTheirSource
  ProposalsPointAtTheirSheet
PROPERTIES
  
  HistoryIsLinear
