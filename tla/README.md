# NexOffice, specified

TLA+ specifications of the parts of NexOffice where order, failure and
interleaving decide whether work is lost: the desktop application's document
session, the main process's window handshake and its assistant, the
collaboration relay and its providers, the workbook's operations, histories and
calculation, and presentations that several people edit. Every definition is translated from the source; `PROJECT.json`
maps each one to the lines it stands for.

Check a model with `tlc -config Sessions.cfg MCSessions.tla`, a
proof with `tlapm DocumentSession_proofs.tla`.

## The system

| Component | Source | State it keeps | Operations | What is hard |
|---|---|---|---|---|
| Document session | `desktop/src/renderer/App.tsx`, `services/`, `editors/` | open document, edit/saved generations, save queue, ask in flight, close flag | edit, save, Save As, export, open, open from the Dock, new, close, restart | edits during awaits, queued operations, one ask shared by several routes, an editor that is not the document's |
| Window lifecycle | `desktop/src/main/index.ts`, `closePolicy.ts` | the window, three handshake flags, the quit in progress, documents waiting for a window | close, quit, close response, crash, hang, update restart, open path | process-wide flags against windows that come and go, late answers |
| File IPC | `desktop/src/main/index.ts` | granted paths, files | open, save, Save As, new, prompts | a write that fails half way, dialogs that overlap with the rest |
| Agent runtime | `desktop/src/main/agent`, `renderer/components/AgentPanel.tsx` | controller, waiting tool calls; in the panel a busy flag and a card | run, cancel, tool request, result, approve, reject | runs that overlap, cancellation against a waiting tool, a user slower than a timer |
| Relay room | `apps/relay/src` | retained log, write chain, alarm, sockets, storage | join, frame, leave, alarm, restart | restart between any two writes, trims, expiry against activity |
| Collaboration providers | `packages/*/src/collaboration` | connection, sync state, outgoing queue | connect, sync, send, disconnect | reconnects, full queues, updates that cannot be integrated yet |
| Workbook operations | `crates/xlsx-ops`, `crates/betteroffice-xlsx` | workbook, undo history, package identity, shared document, proposals | edit, transaction, chart, undo, redo, propose, accept | four records of an edit, inverse operations, indices that shift |
| Workbook calculation | `crates/xlsx-calc` | dependency graph | recalculate a part, recalculate all | stale edges, cycles |
| Word engine | `crates/docx-*`, `packages/docx*` | CRDT document, layout | edit, project, lay out | size |
| Presentation engine | `crates/pptx-*`, `packages/pptx*`, the undo of `vendor/yrs` | CRDT document with slide order and contents apart, undo stacks | insert, delete, move, undo, redo, merge, refuse; write | merges that are no deck, undo between the edits of others, what the writer cannot express |
| Workbook parser, renderer, bindings | `crates/xlsx-{model,parse,render,raster,wasm}` | none across calls | read, write, draw | conversions |
| Packages, redaction, text | `crates/ooxml-*`, `apps/redact-worker` | none across calls | read, write, redact | conversions |
| Updater, settings, menus, reports | `desktop/src/main` | small files | read, write | little |
| Web apps, docs, vendored CRDT, scripts | `apps/{web,demo,docs}`, `vendor`, `scripts` | - | - | not the system's logic |

How they interact: the renderer asks the main process for files, prompts and
writes (request/reply IPC) and tells it that it is listening, how a close was
answered and that an update should be installed (one-way messages); the main
process asks the renderer to close and sends documents the system opened. The
assistant's panel asks the main process for a run; the run sends events and
tool requests back, and the panel answers the tools from the open workbook. The
session reaches its editors through imperative handles that React attaches when
it mounts them. The workbook editor applies operations, recalculates and writes
them to a CRDT document; a provider carries that document's updates over a
WebSocket to a relay room, and the room talks to its Durable Object storage.

What makes each correct:

- *Session.* A document the session takes for clean is on disk. Nothing that
  replaces or closes the document loses edits the user did not give up. Saves
  land in the order of what they contain. Every ask, and every close, is
  answered.
- *Window.* The flags describe the window that is there; an answer only closes
  its own window; a live renderer is not closed without its answer; waiting for
  a dead one ends.
- *Assistant.* A cancel reaches the run that is going. What the model hears of a
  proposal is what became of it, and nothing is applied twice. Runs end, and the
  panel hears that they did.
- *Relay.* Storage mirrors memory; a restart replays a log without holes;
  everyone connected has what a joiner would get; a room expires when idle, and
  only then.
- *Collaboration.* Nothing that could be shown is held back; who joins catches
  up with, and is synced by, who is there.
- *Presentations.* Every merge can be shown; who has read everything sees the same;
  undo takes back one's own edits, and exactly those.
- *Workbook.* Undo and redo walk a line of contents and bring back exactly what
  was there; the records of an edit agree; recalculating a part gives what
  recalculating everything gives; a proposal edits the sheet it was made for.

## The modules

| Module | Models | Extends or uses |
|---|---|---|
| `DocumentSession` | the session and the file IPC it awaits | |
| `WindowLifecycle` | the close handshake and the documents of the system | |
| `AgentRun` | the assistant's runs and its panel | |
| `MCMainProcess` | the two protocols of the main process, for one run of TLC | `WindowLifecycle`, `AgentRun` |
| `RelayRoom` | one room of the relay with its storage | |
| `Collaboration` | two replicas, their providers and sockets, and the room's log between them | |
| `SheetOps` | the operations of a workbook and their inverses | |
| `Calculation` | dependency graph and recalculation | `SheetOps` |
| `Workbook` | an open workbook: edits, histories, shared document, charts, proposals | `Calculation` |
| `LinearHistory` | abstract: what an undo history promises | instantiated by `Workbook` |
| `Deck` | a presentation edited by several people: sessions, undo managers, providers, the retained frames | |
| `GroupedHistory` | abstract: a history whose edits may join and whose empty steps are skipped | `LinearHistory` |
| `DeckHistory` | the presentation of one person with the contents gone through | `Deck`, instantiates `GroupedHistory` |
| `MCDocumentSession` | values for one session; routes bounded for its liveness | `DocumentSession` |
| `MCSessions` | two sessions of different bounds, for one run of TLC | `MCDocumentSession`, instantiates `DocumentSession` again |
| `MCDeck` | a deck of two people, or of one with its history, for one run of TLC | `DeckHistory` |
| `*_proofs` | theorems about the module they are named after; `WorkbookHistory_proofs` continues `Workbook_proofs` | |

The other `MC` modules only give constants their values.

### `DocumentSession`

| Variables | Code |
|---|---|
| `documentRef`, `documentId`, `editGeneration`, `savedGeneration`, `closing` | the refs of App.tsx:143-147 |
| `editor` | the mounted editor view: whose document it holds and which edits it shows |
| `jobs`, `work` | `saveQueueRef`: the chained operations, and how far the oldest has got through `performSave` |
| `ask`, `drain` | `unsavedAskRef`, and the continuations of an ask that has settled |
| `openings` | `openDocument` and `newFromTemplate` past the ask, waiting for a file |
| `disk` | the files |
| `routes`, `consented` | a bound, and a history variable: edits the user chose not to save |

An edit is the generation number `markEdited` gives it, and content is a set of
edits, so "these bytes miss that edit" is set membership. The JavaScript event
loop is kept: between two awaits nothing else runs, and promise continuations
run before the next event. `Quiet` says that no continuation is due; only
then may an event (an edit, a command, a reply, an answer, a React commit) be
handled. Each `await` of `performSave` is a boundary between two actions: serialize
(`SerializeNow`, or `SerializeLater` and `Repacked` for the document editor),
the Save As dialog (`PickSavePath`), the write (`WriteLands`, `WriteFails`), the
reply (`Saved`). A write may land after the window is gone; a write that fails
may leave the file as it was or torn. React's commit is a step of its own
(`Remount`), because `documentRef` changes before it.

### `WindowLifecycle`

The flags of `main/index.ts:77-84` as variables, next to what they are meant to
describe (`renderer`, `hung`, `asked`) and the messages in flight (`answers`,
each labelled with the window that sent it, which is what `event.sender` tells).
`UserCloses`, `UserQuits` and `CloseResponse` are the handlers as a whole,
including the `closed` event that follows within the same step. On macOS
(`Mac`) the application outlives its window and `Activate` makes another. A
`render-process-gone` with reason `clean-exit` is not modelled.

The renderer's part of a close, `RendererAnswers`, is the promise that
`DocumentSession` keeps as `CloseIsAnswered`.

### `AgentRun`

| Variables | Code |
|---|---|
| `run` | one invocation of the `agentRun` handler: where `runAgentLoop` has got, its round, the calls of the turn without a result, whether its signal is aborted, the window it captured |
| `abort` | the variable of `registerAgent` |
| `panel` | `AgentPanel`'s `busy` and `pending`, and whether it is mounted |
| `toPanel`, `toMain` | IPC, in order each way; a call carries its sender, which is what `fromMainWindow` tests |
| `here`, `windows`, `panels` | the window in `mainWindow`, and bounds |
| `told`, `applied` | history: what the model heard of a call, and how often the panel applied it |

`pendingTools` is not a variable of its own: a run waits for the first call of
its turn and for nothing else (`Waits`), because `runAgentLoop` awaits them one
by one. `After` is the loop between two awaits: the next call, the next request
to the model, or the end; without a window to ask, or past the budget, the rest
of the turn is answered on the spot. Only the request to the model hears the signal
(`RunAborted`): a run that waits for a tool goes on until the tool is answered
or times out. Whether a request is a read or a proposal, and whether a proposal
validates, is open in `PanelReceives`. A key that is missing is the first
alternative of `StartRun`.

`MCMainProcess` explores this and `WindowLifecycle` next to each other, not
interleaved: neither reads a variable of the other (a window that closes is an
action of both).

### `RelayRoom`

One room: `updates`, `nextSeq`, `expiresAt` and the promise chain `persist` are
the fields of the object; `stored` and `alarm` are its storage. `StoreNext` does
the oldest storage operation of the chain; `Drop` loses the object between any
two of them. `Boot` is the constructor with `restore`, including what older
versions left behind (frames with awareness in them, frames that do not decode,
keys that are not read any more). `accepted`, `lost` and an entry's `at` are
history. External assumptions on the Durable Object runtime: no event is
delivered while a storage operation is in progress (the input gate, `Awake`),
hibernation keeps the sockets and only happens with nothing left to write.
Frame decoding is reduced to its verdict (document, transient, refused), the
peer-count messages and close codes are left out.

### `Collaboration`

| Variables | Code |
|---|---|
| `doc` | the authority's CRDT document: the items it has and the ones it knows deleted |
| `screen` | the workbook model, which may differ from the document |
| `held`, `spins` | `pending_remote_updates`, and whether resolving them has stopped making progress for good |
| `link`, `synced`, `queue` | the provider's connection state, `isSynced`, `pendingFrames` |
| `toRelay`, `toClient`, `log` | the sockets and the room's retained frames |
| `made`, `seniors`, `connects` | every item there is; who was open before whom (history, read by no action); a bound |

An item is one cell set by one client. As in the library, an item needs the one
it was typed over, a client's later item may be integrated before an earlier one
and leaves a hole, the state vector counts up to the first hole, and of two
items in conflict the one of the greater client id wins. `Staged`, `IsEffective`
and `Commit` are `stage_updates_v1`; `Resolved` is the loop that retries what is
held back, from the front, after every update: as many `Turn`s as it takes, which
are never more than `Turns` (proved: each takes an update out or adds to the document,
or is the last one that ever moves). `Answers`, `Sends`, `Waits` and `Drain` are the
provider's handlers with the socket that may refuse a frame; a connection
lost or closed drops what is on its way. The relay is reduced to what the
clients see of `RelayRoom`: the log, trimmed, replayed to who joins, and the
broadcast. Two clients, because a third would need the library's own store of
pending items.

### `SheetOps`, `Calculation`, `Workbook`

A sheet is a name, a column of cells and the charts of this session; a formula
reads one cell and adds one, which is enough to build chains, cycles and
references across sheets. Rows stand for both axes. `SheetOps` is
`xlsx-ops::apply`: every operation gives the workbook it makes and the
operations that undo it, including the formulas that are rewritten and those
that lose their reference. `Calculation` is the kept graph, the cells an edit
recalculates (`CollectRecompute`), their order and the cells on cycles.

`Workbook` is `betteroffice-xlsx` in standalone mode. Its variables are grouped
the way the code keeps them:

| Group | Code |
|---|---|
| `screen` (`model`, `graph`, `active`) | the model, its `DepGraph`, the active sheet |
| `stack` (`undoOps`, `redoOps`) | `UndoStack`: for each edit the operations that take it back |
| `preserved` (`origins`, `preservedUndo`, `preservedRedo`) | `PreservedSheetState`: which sheet of the file each sheet came from, and its own history |
| `authority` (`order`, `docs`, `keyUndo`, `keyRedo`, `nextKey`) | `WorkbookAuthority`: the shared document, where sheets are known by keys, and its history of their order |
| `pending` (`proposals`, `nextProposal`) | `ProposalSet` |
| `seen`, `undone` | history: the contents the user went through |

`Commit` is `commit_user`/`commit_agent`: apply, push the inverse, shift and push
the origins, write the authority cell by cell or sheet by sheet
(`NeedsFullSync`), recalculate, drop proposals whose indices moved. `UndoEdit`
and `RedoEdit` move all four records, in the code's order.

`HistoryIsLinear` is the refinement: `Workbook` implements `LinearHistory` with
`past <- seen`, `present <- Content(model, origins, order)`, `future <- undone`: the sheets with what was
typed in them and their charts, the package identity and the key of each. `seen`
and `undone` are pushed and popped like contents, and never read by an
action; the detailed module gets its content only from replaying operations, so
that the refinement says that inverses restore what was there.

### `Deck`, `DeckHistory`

| Variables | Code |
|---|---|
| `made`, `list`, `chain` | what the CRDT library makes the same on all replicas: every item, the order of the places in a list, the order of the entries under a key |
| `doc` | a replica: the items it knows and those it knows deleted |
| `past`, `future`, `fresh` | `UndoManager`'s stacks, and whether the last edit can still be joined |
| `link`, `read`, `asked`, `log` | the provider's connection, how far it was sent the room's retained frames, and who owes a `SyncStep2` |

A slide or shape is two kinds of items, a *place* in an array and an *entry* in a
map, deleted and merged one by one; `IsWhole` is `validate_doc`, the question whether
what is placed has an entry. The edits are `deck.rs`, each with the items it makes
and deletes; `Settled` is what the library deletes along (hidden entries, places in
a list that went with its slide). `Captured` is the grouping of edits within
`CAPTURE_TIMEOUT_MS` (any edit may come in time or too late), `Pop` and `TakesBack`
are `pop_blocking` and `try_process` of the vendored `yrs`, and `Returning`,
`NewList`, `Anchor`, `Restored` are `ItemPtr::redo`: an item comes back as a new one,
in the list that replaced its list, next to what replaced its neighbours, unless its list is
gone for good or another person has set the key since. `Receive` is
`apply_update_v1` on a staged copy with the provider around it: a copy that is not
whole is dropped and the connection fails. A frame is the author's whole document:
the relay replays all of them from the start to whoever reopens, and nobody edits while
disconnected, so nothing arrives without what it needs (`Collaboration` has that case).
Which of two places put at the same position at once goes first, and where an entry goes
among those of more than two people, is simplified and said so at `PositionAfter` and `Appended`.

`DeckHistory` adds what the deck showed before each step, pushed and popped with
the stacks and never read by an action; `UndoIsExact` says that it implements
`GroupedHistory`, `LinearHistory` with steps that join and steps that are skipped because
they changed nothing in the end.

## The runs

| Run | Bounds | Shows |
|---|---|---|
| `sessions` | two sessions, one explored after the other: docx and pptx, 1 path, 2 edits (the second cannot be expressed), 3 routes, queue 1 + the ask's save; and xlsx and docx, 2 paths, 2 edits, 1 route, queue 3 (2 719 657 states together) | of the first `TypeOK`, `CleanMeansOnDisk`, `ReplacementLosesNothing`; of the second `QueuedSavesNeverGoBack`, `QueuedEditsLand` (its `LiveSavesNeverGoBack` and `RequestedEditsLand`) |
| `session_answer` | pptx and xlsx, 1 path, 2 edits, 3 routes (the third neither from nor to a workbook), queue 1 (528 269 states) | `AskIsAnswered`, `CloseIsAnswered` |
| `session_seed`, `session_sheet`, `session_cross` | one kind, 1 path, 2 edits | violations, below |
| `window_handshake` | window: macOS, 3 windows, 2 documents; assistant: 2 runs, 2 calls, 1 tool round, 2 windows, 2 panels, 1 call on its way at a button | `FlagsDescribeTheWindow`, `OnlyItsOwnAnswerClosesIt`, `CloseWaitEnds`; `CancelReachesTheRun`, `VerdictsHold`, `RunsEnd`, `BusyEnds` |
| `window_stale` | macOS, 2 windows | violation, below |
| `relay_room` | 2 clients (symmetric), log of 2 entries or 3 units, entries of 1 or 2, term 3, slack 1, 4 updates, time 0..5 | the five room invariants and `OnlyIdleRoomsAreWiped` |
| `relay_refused` | the same, with storage that refuses size 2 | violation, below |
| `workbook` | 2 sheets of 2 rows, 3 edits of any kind, undo depth 2, 1 chart, 1 proposal, entries of up to 3 operations (142 442 states) | the record, calculation, chart and proposal invariants, `ShownSheetStays`, `HistoryIsLinear` |
| `collaboration` | 2 clients, 1 cell, 5 edits and connections, 1 held update, 1 queued frame, 2 retained (229 377 states) | `HeldIsBlocked`, `NewcomersCatchUp`, `NewcomersSync` |
| `deck` | 1 slide with a shape; 2 people and 3 edits, undos or redos of any kind, or 1 person and 4 (181 576 states together) | `NoSlideVanishes`, `ReadersAgree`, `DecksStayWhole`, `UndoTakesBackItsOwn`, `EveryoneConverges`; alone `UndoIsExact` |

Why the bounds are enough. Session: two edits separate "before the bytes were
taken" from "after"; three routes are needed for an ask shared by two routes after
a first document was opened (the writer that refuses and the workbook that brings its
bytes along are in `session_answer` without the third); a queue of three holds an operation under way, one
waiting and one that renames. Window: three windows allow a stale answer from a
window whose successor has already been replaced. Assistant: two runs overlap
when the first is cancelled while it waits and the panel comes back, two calls
let a turn have one behind another and a card be replaced, one round reaches the budget and
the round past it. Relay: four updates against a log of two entries trim twice, and
the size limit trims in a different place than the count; time up to 5 with a term
of 3 covers refreshing a deadline, an alarm in use and an alarm on an idle room.
Workbook: three edits against a depth of two drop an entry, and leave an edit
between an undo and its redo; the second sheet reads the first and itself, so
that removing, renaming and shifting rewrite, lose and restore references. Collaboration:
a log of two and a queue of one fill, and five inputs are two connections that
both go away and come back around an edit, or three edits under two connections, the
least that leaves a hole. Presentations: three inputs of two people are an edit, what the
other does to it at the same time, and an undo of either; four of one person
are an edit, its undo, its redo, and an undo of what that brought back. Made once, by
hand: two slides, two people, four moves, deletions, undos or redos (1.2 million states),
and one person with seven inputs without insertions, with the same results.

The counters are bounded in the guards (`MaxEdits`, `MaxRoutes`, `MaxJobs`,
`MaxWindows`, `MaxUpdates`, `MaxTime`, `MaxRuns`, `MaxCalls`, `MaxAgentWindows`,
`MaxPanels`, `MaxUnhandled`, `MaxInputs`, `MaxSheets`, `MaxCharts`,
`MaxProposals`, `MaxEntry`; `MaxInputs` in `Deck` too); `MaxJobs` bounds what the user requests, not the
ask's own save; `MaxEntry` is needed because an entry that undoes a structural
edit grows each time it is replayed (apply.rs:989-1091 lists the cells it
overwrites next to the shift that restores them). `CHECK_DEADLOCK FALSE`: a session
whose window is gone, an application that has exited and a room, a workbook, a deck or a
pair of clients at its bound may stop.

### Fairness

- Session: weak fairness of the queue and of a settled ask's continuations (the
  event loop runs what can run, writes return); strong fairness of the
  answers to a prompt, because other events may be handled in between. The user is
  never required to edit, save or open, and React is never required to commit.
  A Save As dialog and an ask are assumed to be answered.
- Window: strong fairness of the renderer's answer (a renderer that recovers again
  and again gets there), weak fairness of taking the answer, of Electron reporting
  a renderer that stays stuck, and of a user who presses close again while nothing
  happens.
- Assistant: weak fairness, for each run, of its timers and of the model (which
  answers, or whose connection fails: `fetch` has timeouts of its own), and of the
  arrival of messages. The user is not required to decide, to cancel or to stay.
- Collaboration: weak fairness of carrying and handling what is on its way. Sockets
  may fail at any time and nobody is required to reconnect.
- Presentations: weak fairness, for each person, of handling the next frame, of answering
  a `SyncStep1`, and of opening a failed connection again. Nobody is required to
  edit. `EveryoneConverges` speaks of behaviours in which nothing is ever replaced, where no
  frame is refused; the one who is alone has no network to be fair about.

`AnswerNext` and the bounds of `MCDeck` limit what a user begins; no step that
fairness requires is held back by them.

### Disagreements the runs show

- `session_seed`: `seedStandsIn` compares the two generations, which are equal
  again after a save. A second queued save that finds a failed editor writes the
  opening bytes over the first.
- `session_sheet`: the workbook editor's own save carries bytes from the moment
  of the request; behind a save that serializes later it writes older bytes, and
  the document stays clean.
- `session_cross`: between the change of `documentRef` and React's commit the editor
  is still the previous deck's; a save writes it to the new path.
- `window_stale`: `closeResponse` leaves `rendererUnresponsive` set, and the
  next window inherits it.
- `relay_refused`: one rejected write ends all later writes of the object.

The first session of `sessions` has no workbook in it, and `LiveSavesNeverGoBack`
excludes failed editors and handed-over bytes, exactly because of these.

### What the models show besides

Found while the models were made, and reproduced by TLC on them; no run is kept
for these, and the properties that do hold are stated so that they do not depend
on them.

- *An edit made while away is not asked for* (`EveryoneConverges`). A provider that
  opens asks for what it lacks and answers what it is asked; nobody asks it for what
  it typed while its socket was down, and `handleOpen` does not send it
  (provider.ts:476-515; content.ts:121 promises that edits converge). It reaches
  the others when one of them reconnects. `NewcomersCatchUp` is the other direction.
- *The document and the model part* (`ScreenIsTheDocument`). `commit_update` writes the
  part of an update up to the first hole of each client, the model is taken from
  the staged document, which has what lies beyond (authority.rs:432-446).
- *Resolving that does not end* (`ResolvingEnds`). Such an update stays "effective"
  after it was committed, and `resolve_pending_remote_updates` starts over each time
  (workbook.rs:364-396). `HeldIsBlocked` and `NewcomersSync` except a replica in that state.
- *A local edit can make a held update effective without anybody trying it again.*
  What is held is retried after a remote update (workbook.rs:345-349), never after a local edit. A client
  types p, again over p, q and r in three cells; another comes late and gets only the last two
  from the trimmed log: q is committed beyond the hole, r is held and brings nothing. It then types over q
  itself: staged again, r would now have an effect (its deletions show through). An earlier
  form of `HeldIsBlocked`, "no held update has an effect", is false for this reason, beyond the bounds of the run; the
  attempt to prove it showed it. What holds, and is proved, is that none of them brings
  anyone's items further.
- An item beyond a hole whose value the cell already shows, or that is hidden
  by a later one, is not effective and is dropped without being committed. A browser's `error` event
  ends the connection for good (`failConnection`), where the documentation
  describes reconnecting (collaboration.mdx:37). The first client in a room is never synced,
  because nobody answers it; a replayed `Step2` of an earlier session syncs one early.
- *A proposal approved after its timeout is applied.* The timer answers the model
  and leaves the card (index.ts:156-162, AgentPanel.tsx:155-173), although the
  tool's description says that the result tells whether the user approved (tools.ts:42).
  `VerdictsHold` leaves a call that timed out free.
- *Events carry no run.* The end of a replaced run clears the busy flag of its
  successor (AgentPanel.tsx:81-84), a cancelled run that has calls left in its turn still shows
  their cards, and a card takes the place of one another run waits for, which
  then times out. AgentPanel.tsx:176-177 means to keep the round trip from
  dangling; `RunsEnd` shows that the timer ends it in all these cases.
- Not in the model: the panel is kept when one workbook replaces another
  (App.tsx:934-954), so that a proposal validated against the first is applied to the second.
- *Decks that are not whole.* `move_slide` takes the place of a slide away and makes a new
  one, which a deletion at the same time does not know: the merge has a place without
  an entry; both refuse the other's frame, now and after every reconnection, and stay
  different. Two people who move the same slide give it two
  places; a deletion takes the first (deck.rs:296-305) and the deleting session cannot take a snapshot
  any more. Undoing the insertion of a slide a peer has moved leaves the peer's place.
  `DecksStayWhole` and `EveryoneConverges` therefore end with the first place or entry
  that replaces another (`NothingReplaced`).
  *A slide can come back without a place.* c inserts a slide, d moves it, c undoes the insertion, which
  deletes the content and no longer the place; d deletes the slide, content and new place;
  c redoes: the content comes back alone, and no place shows it (deck.rs:313-339, yrs
  undo.rs:657-733). `NoSlideVanishes` is about slides whose content was never deleted.
  Undoing the insertion of a slide takes along the shapes others put on it, and a shape added to a slide
  that a peer deletes stays in `pptx:shapes` without being shown.
- Excluded from the workbook's properties: what a partial recalculation gives a
  formula downstream of a cycle depends on the edit (engine.rs:220-270), so
  `ValuesAreCurrent` says nothing of it; removing a sheet under a spilled array leaves
  its cells behind (apply.rs:1485-1559), which is one reason why arrays are left out.

## The proofs

`DocumentSession_proofs` (every set of paths, kinds, edits; every bound):

- `TypeCorrect`: `Spec => []TypeOK`.
- `CleanDocumentsAreOnDisk`: `Spec => []CleanMeansOnDisk`, assuming
  `"xlsx" \notin Kinds` (with workbooks it is false: `session_sheet`).
  `CleanMeansOnDisk` speaks only of moments when the two generations agree and is
  not inductive. The invariant `CleanInv` says what a save under way owes:
  what has been *reported* of the live edits is on disk
  (`ReportedOnDisk`); the bytes under way hold everything they will report and
  everything reported before (`WorkCoversReports`), so writing them over the file
  takes nothing back; operations for an earlier document come first in the queue
  (`TargetsInOrder`, `OlderTargetsFirst`), so their writes happen while nothing of the open
  document is reported yet; and generations and ids only grow (`GenerationsInOrder`,
  `IdsInOrder`). The proof has one step per action, most of them by `CleanFrame`
  (what no step of a save touches stays), with the work in `CleanDeliver`,
  `CleanWriteLands` and `CleanSaved`.
- `RoutesLoseNothing`: `Spec => ReplacementLosesNothing`, same assumption. On top of
  `CleanInv`, `AnswersHold` says that a yes stays true from the moment the ask
  settles until the last route that waited for it has used it: every live edit up
  to then is reported or consented to.
- `WhatIsRequestedLands`: `Spec => RequestedEditsLand`, with no assumption about the kinds of
  documents. `RequestInv` says that an operation's bytes hold the live edits it was asked
  for from the moment there are bytes (`BytesCoverTheirRequest` for those that came with
  the request, `WorkCoversItsRequest` for those under way), and that none of these edits is
  live as long as the bytes come from the editor of an earlier document: when the new editor
  is ready, everything typed in it is newer than the request.
- `SavesLandInOrder`: `Spec => LiveSavesNeverGoBack`, likewise. The property says nothing
  about the queue; `ForwardInv` bounds everything by the editor: while the first document is
  open, no file, no bytes in the queue and none under way hold more than the
  editor shows (`NothingBeyondTheEditor`), and a save that was serialized in its turn holds all
  that any file holds (`SaveCoversTheDisk`). Before the first document there is nothing
  (`NothingYet`), which is why its seed can stand in for an editor that is still loading.

`WindowLifecycle_proofs` (any number of windows, both platforms):

- `WindowTypeCorrect`, `FlagsAreTrue` (`[]FlagsDescribeTheWindow`) and
  `AnswersStayWithTheirWindow` (`OnlyItsOwnAnswerClosesIt`). The invariant adds
  `ReadyIsListening`: the converse of the ready flag, no renderer without a window, and no
  window that was not created (so a new one is never mistaken for an earlier one).

`AgentRun_proofs` (any number of runs, calls, windows and panels, any budget):

- `AgentTypeCorrect`: `[]AgentTypeOK`, with `RunInv` and `MessagesTyped`; the latter adds
  that a run which waits has a call to wait for, that a panel has a window and a card a panel.
- `CancelAlwaysReachesTheRun`: `[]CancelReachesTheRun` is inductive with the types of
  the handlers' state: a new run aborts the one in `abort` before it takes its place.
- `VerdictsAlwaysHold`: `[]VerdictsHold`. Not inductive: whether a verdict is true
  depends on what is still on its way. `VerdictInv` says that a call is in one place
  (`OnePlace`: asked of the panel, on its card, or answered, and at most once in
  each queue), what may be known of it there (`KnownOf`), that a result under way says
  what was applied (`ResultsTrue`), and that a call which is still queued behind
  another in a turn, or not made yet, is nowhere (`Unasked`), with turns that share no
  call (`TurnsApart`). A run that moves asks for a call that was unasked (`MovesAsk`).

`RelayRoom_proofs` (any clients, sizes, limits and terms):

- `RelayTypeCorrect`: `[]TypeOK`.
- `RoomsExpire` (`[]StoredRoomsExpire`) and `WipedRoomsWereIdle` (`OnlyIdleRoomsAreWiped`),
  whatever the storage refuses: `ExpiryInv` says that the write chain sets a deadline
  before the updates it protects (`DeadlineComesFirst`) and that what is stored is covered by
  the alarm (`StoredIsCovered`).
- `StorageMirrorsMemory` (`[]StorageFollowsMemory`) and `PeersAreComplete`
  (`[]PeersHaveTheLog`), assuming `NothingRefused`: the storage takes every frame the room retains.
  Without it they are false, as `relay_refused` shows. `LogInv` applies what the
  chain still has to write to what is stored and says that the result is the
  log in memory (`Pending`, `Written`), also between the put and the deletes of one mutation.
- `RestartsReplayEverything`: `[]RestartLeavesNoHole`, under the same assumption. What is stored
  in the middle of a mutation is neither the old log nor the new one; `OrderInv` says that
  this does no harm. In storage and memory together the higher key is the newer update
  (`Numbered`); what came after a retained update is retained or lost, and after a
  stored one it is stored, retained or lost (`NothingIsSkipped`); what is not stored
  yet is newer than all that is (`NewestComesLast`); and every put on its way is of
  entries the log still retains (`PutsAreRetained`). A trim keeps the newest update because one
  frame fits the limits alone (`LittleFits`, the sum of the sizes of at most one entry), and
  what a trim leaves is an end of the log (`TrimmedIsTheEnd`).

`Workbook_proofs` (any file, edits and undo depth; `OpenedAssumption` says that the file is a
workbook whose sheets have different names, as a file's have, and `TypingAssumption` that
what is typed is a cell):

- `HistoriesAgree`: `[]HistoriesKeepStep`. `HistoryInv` adds that what is undone and what
  can be undone fit in one depth together (`TogetherWithinDepth`, the reason why a
  redo, which pushes without clearing, never drops an entry on one side only) and
  that undone entries meet too (`RedoneInOrder`).

The rest of `Workbook_proofs` is about keys. An undo replays operations on the model, takes the sheets'
package identity from a second history and their keys from a third, which is capped on
its own and which charts never enter; what the three have in common is only how many
sheets there were. The argument starts from the operations (`Leads`): the inverse of a
list that leads from *a* sheets to *b* leads from *b* to *a*, is again about charts or again
not, and shifts sheets if the list did (`ApplyingReverses`). `KeysInv` then says of both stacks
that they walk one chain of sheet orders (`Linked`): each entry to take back leads from
the order it finds to one with as many sheets as its operations leave, identity and keys
move together along it, and a walk `Paced` through the authority's history, which stands
still at charts, finds its entry at each step. Pushing, popping and turning an entry over keep
the chain (`LinkedPush`, `LinkedPop`, `LinkedTurn`), dropping the oldest included.

- `UndoNeverFailsHalfWay`: `[]AuthorityWillReplay`. The check the authority makes after the
  operations were already applied (`plan_sheet_keys`) always finds what it needs.
- `PartsFollowTheirSheets`: `[]OriginsFollowKeys`. `InStep` adds that keys not handed out
  yet are nobody's, in the current order and in every order the histories can bring back.
- `ProposalsAreForTheirSheet`: `[]ProposalsPointAtTheirSheet`. What does not shift leaves
  the order of keys as it was; what shifts, also when it is undone, forgets the proposals.

The last part of `Workbook_proofs`, on which `WorkbookHistory_proofs` (likewise) rests, is about what operations do. A workbook without its calculated values (`Plain`) is all that edits,
undos and redos are about: two workbooks that are `Alike` stay alike under every operation (`EveryAlike`), and
calculating never changes what was typed (`AllOnlyValues`, `SomeOnlyValues`). Every operation on a
workbook it `Suits` returns operations that lead back to the workbook there was (`EveryTakenBack`): of a row operation the
opposite one and two lists of cells, which are shown to set every cell that the opposite one does not bring back
(`CellsBack`, `RestoresTowards`). So does every list (`ApplyingWalks`).

- `UndoIsLinear`: `HistoryIsLinear`, the refinement of `LinearHistory`. `BookInv` says that the operations to
  undo walk from the workbook as it is through the contents in `seen`, and those to redo through `undone` (`Trail`), while the
  package entries beside them hold the origins; the keys come from `KeysInv`. Every step of the workbook
  then is an edit, an undo, a redo or a stutter of the abstract history (`BookStep`).
- `ChartsStayOverTheirCells`: `[]ChartsKeepTheirSource`, and `ThePageIsNotTurned`: `ShownSheetStays`. An undo is not
  asked what an edit is asked, whether a chart would lose its cells or two sheets have one name. `LineInv` says
  why it need not be: every content of the line is `Whole` (different names, each chart over a sheet that is there) and
  `Near` the next one (a sheet in both has its name in both, or its place, and then each of its two names is free in the other). To be near is
  mutual, so what an edit establishes in one direction (`StructureGoes`, `ChartsGo`, `SettingGoes`) an undo finds in the other.
- `AuthorityHoldsWhatIsShown`: `[]AuthorityFollowsModel`. The authority applies the same operations to a workbook
  without charts and values, which goes where the workbook goes (`BaldWalk`). It then writes only some of it, and has to know
  which sheets are the ones there were: `KeysCarried` says that the operations in the histories carry the keys
  from each order to the next (`CarriesFrom`), putting a sheet they add under a key the first order has not and taking
  away only sheets whose key the next order has not. Then what has the key of an old sheet *is* that sheet, but for the cells that
  were set in the meantime (`AllKept`), and those are written under its key (`WrittenAsShown`). That inverses carry the keys
  back is `AllCarriedBack`.

`Deck_proofs` (two people, any file, any number of edits, all operations):

- `ThoseWhoHaveReadAgree`: `[]ReadersAgree`. What can be said of a document only grows, and what
  one deletion entails (hidden entries, places that go with a list) depends on the items known alone; so it is
  enough that everybody has what they have read and wrote (`AgreeInv`). What makes it work
  is about the library: numbering makes every new item new, the order of the entries there
  are stays when others are put in, a list is never a place
  (`LibraryInv`), and undo stacks name items there are (`HistoryInv`). Following what brings an
  item back comes to an end (`Follows`), although the links are not bounded by anything but
  the order in which items were made.
- `SharedDecksStayWhole`: `[]DecksStayWhole`. Being whole is not inductive: whole
  documents merge into documents that are not. `WholeInv` says why they do not as long as
  nothing is replaced: an object has one entry and one place, made in one transaction; every
  document and frame knows both or neither; and who knows the entry to be gone knows the
  place to be gone, or the list it was in.
- `SlidesKeepTheirPlace`: `[]NoSlideVanishes`. A slide shows because one of its places is live,
  and a move takes a place away. `PlacesInv` finds some places of the slides that are handed on: whoever
  knows the slide knows one of them, and whoever knows one of them to be gone knows the slide to be gone or
  another one of them that came later, by a move or by what an undo brought back (`Kept`). Of the places a
  reader knows there is a last one, and that one is not gone (`LiveSlideHasPlace`). What an undo adds is in
  `UndoInv`: a step of a history has put in only what its owner made; what it deleted is gone, its owner has
  not brought it back since, and no other step has deleted it (`InOrder`), so an undone move gives back the very place
  it took.

`Collaboration_proofs` (two people, any cells, edits, connections and limits):

- `NewcomersAreComplete`: `[]NewcomersCatchUp`. The property speaks of quiet moments only. In between,
  `SeniorsAnswer` says of a client and one that was there when it opened: the question is still on its way to
  the other, or the frames on their way from the other (in the inbox, on the wire, in the queue, in this order) bring,
  each from where the one before ended, the items of the other up to the last it has made (`Promise`). A lost connection
  ends both sides' claims, a refused frame goes to the queue behind what waits, a full queue ends the connection, and
  what a reader takes of a frame it takes whole, because a client lacks nothing but items of the other (`TakesTheNext`).
  `AsksAreOld` says that a question never asks for less than its author lacks, however long it
  was under way. The log may forget everything: nothing of the argument rests on it.
- `HeldUpdatesAreBlocked`: `[]HeldIsBlocked`. The work is the loop of `resolve_pending_remote_updates`: every turn leaves fewer held updates
  or more items (`TurnsGoOn`), so it ends within `Turns`, either settled, when nothing that is held
  moves, or for ever (`SettledIsBlocked`); new items of the client itself change nothing for what is held, since they are beyond everything
  an older update speaks of (`TakenStays`).

Both use `ClientsAssumption` (at most two), which is the model's. Each inductive invariant was model-checked before it was proved. Only
model-checked:

- liveness (`AskIsAnswered`, `CloseIsAnswered`, `CloseWaitEnds`, `RunsEnd`, `BusyEnds`,
  `NewcomersSync`, `EveryoneConverges`), which is out of the prover's reach;
- `ValuesAreCurrent`, which needs the order of an incremental calculation;
- `UndoTakesBackItsOwn` and `UndoIsExact`, which rest on the order of
  lists and on chains of replaced items.

## What is not modelled

The components with status `not_modelled` in `PROJECT.json`, each with its reason.
Most of the repository is there: about nine tenths of its lines are parsers,
writers, layout, drawing and CRDT projections of three document formats, which are
sequential functions of one input without state that outlives a call. They have
no interleavings or failures for a model checker to find; what could be
said of them is that an output is right for every input, which would need the
formats themselves as the specification. The map therefore covers a small share
of the implementation and a large one of what is concurrent or stateful in it.

Inside the modelled components:

- session and window: status texts, panels, statistics, window bounds, path
  grants, PDF and print jobs after their bytes are ready;
- assistant: settings and key storage, the parsing of the event stream, tool
  schemas, what an approved write does to the workbook;
- relay: frame decoding byte by byte, peer counts, the worker in front of the room;
- providers: awareness, decoding errors, `destroy`; the docx provider, which repeats this one;
- presentations: text, geometry, style, groups, edits of agents, edits while disconnected,
  more than two people, the writer;
- workbook: columns as a second axis, styles, comments, merges, filters, sorts,
  defined names, hyperlinks, arrays, volatile functions, the evaluation budget.

The hazards in `PROJECT.json` without a property carry a note saying why.

## Plan

Done, in order: the session, the window and the relay with the first proofs; the
workbook with its abstract history; collaboration; the assistant; shared decks; the proofs of
the relay, the workbook's four records, the assistant, shared decks, the session's
queue, collaboration, and of the workbook's history, its charts and what its authority holds. What would come next:

1. Columns, names and sorts in `SheetOps`, then spilled arrays, with
   `HistoryIsLinear` as the measure.
2. Weaken the assumption of `CleanDocumentsAreOnDisk` to "no operation carries
   bytes".
3. The Word engine's undo (`docx-edit`) as another implementation of `GroupedHistory`.
4. Text of slides, and edits made while disconnected, in `Deck`.
