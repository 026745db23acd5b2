-------------------------- MODULE DocumentSession --------------------------
(***************************************************************************)
(* The document session of the desktop renderer (desktop/src/renderer/     *)
(* App.tsx): the open document, the two generation counters that decide    *)
(* whether it is dirty, the queue every save and export runs through, the  *)
(* single-flight "unsaved changes" ask, and the routes that replace or     *)
(* close the document.  The save IPC of the main process and the file      *)
(* system behind it are part of the model: `disk` is what a reader of the  *)
(* path would get.                                                         *)
(*                                                                         *)
(* An edit is a number: the value markEdited gives editGenerationRef.  The *)
(* content of an editor, of a seed and of a file is the set of edits it    *)
(* contains, so "these bytes miss that edit" is set membership.            *)
(*                                                                         *)
(* `consented` is a history variable: the edits the user agreed to lose.   *)
(***************************************************************************)
EXTENDS Naturals, Sequences

CONSTANTS
    Paths,          \* files the session may open or save to
    Untitled,       \* the empty path of a document made from a template
    Kinds,          \* the document kinds in use: "docx", "xlsx", "pptx"
    KindOf,         \* kindFromPath: the kind each path's extension names
    Inexpressible,  \* edits the PresentationML writer refuses to express
    None,           \* no bytes handed over with the request
    Torn,           \* a file a failed write truncated
    MaxEdits,       \* bound: edits made
    MaxRoutes,      \* bound: open/new/close/restart requests
    MaxJobs         \* bound: length of the queue when a request joins it

Edits == 1..MaxEdits
Content == SUBSET Edits

ASSUME DocumentSessionAssumption ==
    /\ Kinds \subseteq {"docx", "xlsx", "pptx"}
    /\ KindOf \in [Paths -> Kinds]
    /\ Untitled \notin Paths
    /\ Inexpressible \subseteq Edits
    /\ None # Torn /\ \A content \in Content : content # None /\ content # Torn
    /\ {MaxEdits, MaxRoutes, MaxJobs} \subseteq Nat

\* DocumentState; the dirty flag it carries is HasUnsavedEdits below.
Document == [id : Nat \ {0}, kind : Kinds, path : Paths \cup {Untitled},
             seed : {Torn} \cup Content]

\* The start screen.
NoDocument == [id |-> 0, kind |-> "none", path |-> Untitled, seed |-> {}]

VARIABLES
    documentRef,      \* the open document, or NoDocument on the start screen
    documentId,       \* documentIdRef
    editGeneration,   \* editGenerationRef
    savedGeneration,  \* savedGenerationRef
    editor,           \* the mounted editor: whose document it holds, and what
    disk,             \* what each path holds
    jobs,             \* saveQueueRef: operations not yet settled, oldest first
    work,             \* how far the oldest operation has got
    ask,              \* unsavedAskRef: the ask in flight and who waits on it
    drain,            \* callers of the last ask whose continuation has not run
    openings,         \* routes past the ask that still await a file or template
    closing,          \* closingRef
    routes,           \* bound: routes requested so far
    alive,            \* the window has not been destroyed
    consented         \* history: edits the user agreed to lose

vars == <<documentRef, documentId, editGeneration, savedGeneration, editor,
          disk, jobs, work, ask, drain, openings, closing, routes, alive,
          consented>>

docVars  == <<documentRef, documentId, savedGeneration>>
jobVars  == <<jobs, work>>
askVars  == <<ask, drain, consented>>
lifeVars == <<closing, routes, alive>>

NoEditor == [id |-> 0, kind |-> "none", content |-> {}, state |-> "loading"]
IdleWork == [phase |-> "idle", bytes |-> None, source |-> 0,
             generation |-> 0, path |-> Untitled]
IdleAsk  == [phase |-> "idle", waiting |-> <<>>]
NoDrain  == [waiters |-> <<>>, proceed |-> FALSE]

Routes == {"open", "template", "opened", "new", "close", "restart"}
Waiter == {w \in [route : Routes, path : Paths \cup {Untitled},
                   content : {Torn} \cup Content] :
              w.route = "opened" => w.path \in Paths}
Job == [op : {"save", "saveAs", "export"}, target : Document,
        bytes : {None} \cup Content, generation : 0..MaxEdits, asked : BOOLEAN]

Editor == [id : Nat, kind : Kinds \cup {"none"}, content : Content,
           state : {"loading", "ready", "failed"}]
Work == [phase : {"idle", "serializing", "prompt", "writing", "written"},
         bytes : {None, Torn} \cup Content, source : Nat,
         generation : 0..MaxEdits, path : Paths \cup {Untitled}]
Ask == [phase : {"idle", "confirm", "saving", "refused"}, waiting : Seq(Waiter)]
Drain == [waiters : Seq(Waiter), proceed : BOOLEAN]
Opening == [route : {"open", "template"}, since : 0..MaxEdits]

TypeOK ==
    /\ documentRef \in {NoDocument} \cup Document
    /\ documentId \in Nat
    /\ editGeneration \in 0..MaxEdits
    /\ savedGeneration \in 0..MaxEdits
    /\ editor \in Editor
    /\ disk \in [Paths -> {Torn} \cup Content]
    /\ jobs \in Seq(Job)
    /\ work \in Work
    /\ work.phase # "idle" => jobs # <<>> /\ work.bytes # None
    /\ ask \in Ask
    /\ drain \in Drain
    /\ openings \subseteq Opening
    /\ closing \in BOOLEAN
    /\ routes \in Nat
    /\ alive \in BOOLEAN
    /\ consented \in Content

Init ==
    /\ documentRef = NoDocument
    /\ documentId = 0
    /\ editGeneration = 0
    /\ savedGeneration = 0
    /\ editor = NoEditor
    /\ disk = [p \in Paths |-> {}]
    /\ jobs = <<>>
    /\ work = IdleWork
    /\ ask = IdleAsk
    /\ drain = NoDrain
    /\ openings = {}
    /\ closing = FALSE
    /\ routes = 0
    /\ alive = TRUE
    /\ consented = {}

\* Promise continuations are microtasks: the callers of a settled ask go on,
\* and the next operation of the queue starts, before the window handles its
\* next event (an edit, a command, a reply, an answer, a React commit).
Quiet == /\ alive
         /\ drain.waiters = <<>>
         /\ jobs = <<>> \/ work.phase # "idle"

HasUnsavedEdits(doc, saved) == doc # NoDocument /\ editGeneration # saved

-----------------------------------------------------------------------------
(* The editor views. *)

\* React commits the document applyOpenedDocument put in documentRef: the view
\* is handed the new seed and drops the editor of the previous one.
Remount ==
    /\ Quiet
    /\ editor.id # documentRef.id
    /\ editor' = IF documentRef = NoDocument THEN NoEditor
                 ELSE [id |-> documentRef.id, kind |-> documentRef.kind,
                       content |-> {}, state |-> "loading"]
    /\ UNCHANGED <<docVars, editGeneration, disk, jobVars, askVars, openings,
                   lifeVars>>

\* The engine has opened the seed and its handle is published (onReady, or the
\* docx session); a torn file never opens.
EditorReady ==
    /\ Quiet
    /\ documentRef # NoDocument /\ editor.id = documentRef.id
    /\ editor.state = "loading"
    /\ documentRef.seed # Torn
    /\ editor' = [editor EXCEPT !.content = documentRef.seed, !.state = "ready"]
    /\ UNCHANGED <<docVars, editGeneration, disk, jobVars, askVars, openings,
                   lifeVars>>

FailEditor == editor' = [editor EXCEPT !.content = {}, !.state = "failed"]

\* DocxEditorView renders its error message instead of the editor whenever the
\* editor reports an error: a font or an image that failed to load is enough.
\* The live session goes with it, and the view is not remounted.
EditorFails ==
    /\ Quiet
    /\ editor.state = "ready" /\ editor.kind = "docx"
    /\ FailEditor
    /\ UNCHANGED <<docVars, editGeneration, disk, jobVars, askVars, openings,
                   lifeVars>>

\* markEdited
Edit ==
    /\ Quiet
    /\ editor.state = "ready"
    /\ editGeneration < MaxEdits
    /\ editGeneration' = editGeneration + 1
    /\ editor' = [editor EXCEPT !.content = @ \cup {editGeneration + 1}]
    /\ UNCHANGED <<docVars, disk, jobVars, askVars, openings, lifeVars>>

-----------------------------------------------------------------------------
(* The queue.  Each request joins it behind whatever has not settled. *)

Enqueue(op, bytes, asked) ==
    jobs' = Append(jobs, [op |-> op, target |-> documentRef, bytes |-> bytes,
                          generation |-> editGeneration, asked |-> asked])

AlwaysOpen == TRUE
SomethingOpen == documentRef # NoDocument

\* saveDocument from the File menu, and the two exports (PDF, print).
Request(op) ==
    /\ Quiet
    /\ SomethingOpen
    /\ Len(jobs) < MaxJobs
    /\ Enqueue(op, None, FALSE)
    /\ UNCHANGED <<docVars, editGeneration, editor, disk, work, askVars,
                   openings, lifeVars>>

\* onSaveRequest: the workbook editor's own Save hands over bytes it has
\* already serialized, to be written when the queue gets to them.
RequestWithBytes ==
    /\ Quiet
    /\ SomethingOpen
    /\ editor.state = "ready" /\ editor.kind = "xlsx"
    /\ Len(jobs) < MaxJobs
    /\ Enqueue("save", editor.content, FALSE)
    /\ UNCHANGED <<docVars, editGeneration, editor, disk, work, askVars,
                   openings, lifeVars>>

\* The ask in flight settles: everyone waiting on it gets the same answer.
AnswerFirst(proceed) ==
    /\ ask' = IdleAsk
    /\ drain' = [waiters |-> <<Head(ask.waiting)>>, proceed |-> proceed]
Answer(proceed) ==
    /\ ask' = IdleAsk
    /\ drain' = [waiters |-> ask.waiting, proceed |-> proceed]

\* askAboutUnsaved goes round its loop after a save while edits are unsaved.
AskOnce(doc, saved) == FALSE
AskAgain(doc, saved) == HasUnsavedEdits(doc, saved)

\* The oldest operation settles with `outcome`, and the ask that waited for it
\* takes its next step: `doc` and `saved` are documentRef and
\* savedGenerationRef as the operation leaves them.
Settle(outcome, doc, saved) ==
    /\ jobs' = Tail(jobs)
    /\ work' = IdleWork
    /\ \/ ~Head(jobs).asked /\ UNCHANGED <<ask, drain>>
       \/ /\ Head(jobs).asked
          /\ \/ /\ outcome = "saved" /\ AskAgain(doc, saved)
                /\ ask' = [ask EXCEPT !.phase = "confirm"] /\ UNCHANGED drain
             \/ outcome = "saved" /\ ~AskAgain(doc, saved) /\ Answer(TRUE)
             \/ /\ outcome = "refused"
                /\ ask' = [ask EXCEPT !.phase = "refused"] /\ UNCHANGED drain
             \/ outcome \in {"canceled", "failed"} /\ Answer(FALSE)

SettleInSilence(outcome) ==
    jobs' = Tail(jobs) /\ work' = IdleWork /\ UNCHANGED <<docVars, askVars>>
SettleUnwritten(outcome) ==
    /\ Settle(outcome, documentRef, savedGeneration)
    /\ UNCHANGED <<docVars, consented>>

TargetIsCurrent == documentRef # NoDocument /\ documentRef.id = Head(jobs).target.id

\* `current` of performSave; an export always serializes for its own target.
Current == IF TargetIsCurrent /\ Head(jobs).op # "export"
           THEN documentRef ELSE Head(jobs).target

\* The operation has its bytes: an export is done with the queue, a save goes
\* on to the main process, through the Save As dialog when it has no path.
Deliver(bytes, source, generation, path) ==
    IF Head(jobs).op = "export" THEN SettleUnwritten("saved")
    ELSE /\ work' = [phase |-> IF Head(jobs).op = "saveAs" \/ path = Untitled
                               THEN "prompt" ELSE "writing",
                     bytes |-> bytes, source |-> source,
                     generation |-> generation, path |-> path]
         /\ UNCHANGED <<jobs, ask, drain, docVars, consented>>

\* seedStandsIn
SeedStandsIn == editGeneration = savedGeneration

\* serializeDocument found no bytes.
NoBytes(generation, path) ==
    \/ /\ SeedStandsIn
       /\ Deliver(Head(jobs).target.seed, Head(jobs).target.id, generation, path)
    \/ ~SeedStandsIn /\ SettleUnwritten("failed")

EditorAnswersIfDirty ==
    /\ editor.state = "ready" /\ editor.kind = Current.kind
    /\ editGeneration # savedGeneration
EditorAnswers == editor.state = "ready" /\ editor.kind = Current.kind

Refuses == editor.kind = "pptx" /\ editor.content \cap Inexpressible # {}

\* bytesOverride: the request came with its own bytes.
HandedOver == Head(jobs).bytes # None

AtHead == alive /\ jobs # <<>> /\ work.phase = "idle"
NeedsBytes == /\ AtHead /\ ~HandedOver
              /\ TargetIsCurrent \/ Head(jobs).op = "export"

\* A queued save whose document was replaced has nothing to serialize.
CancelStaleSave ==
    /\ AtHead
    /\ Head(jobs).op # "export" /\ ~HandedOver /\ ~TargetIsCurrent
    /\ SettleUnwritten("canceled")
    /\ UNCHANGED <<editGeneration, editor, disk, openings, lifeVars>>

\* Bytes handed over with the request only cover the edits up to it.
UseRequestBytes ==
    /\ AtHead /\ HandedOver
    /\ Deliver(Head(jobs).bytes, Head(jobs).target.id, Head(jobs).generation,
               Current.path)
    /\ UNCHANGED <<editGeneration, editor, disk, openings, lifeVars>>

\* The workbook and the deck serialize synchronously.
SerializeNow ==
    /\ NeedsBytes /\ EditorAnswers /\ editor.kind # "docx" /\ ~Refuses
    /\ Deliver(editor.content, editor.id, editGeneration, Current.path)
    /\ UNCHANGED <<editGeneration, editor, disk, openings, lifeVars>>

\* The document editor projects now and repacks the package asynchronously.
SerializeLater ==
    /\ NeedsBytes /\ EditorAnswers /\ editor.kind = "docx"
    /\ work' = [phase |-> "serializing", bytes |-> editor.content,
                source |-> editor.id, generation |-> editGeneration,
                path |-> Current.path]
    /\ UNCHANGED <<docVars, editGeneration, editor, disk, jobs, askVars,
                   openings, lifeVars>>

Repacked ==
    /\ Quiet /\ work.phase = "serializing"
    /\ Deliver(work.bytes, work.source, work.generation, work.path)
    /\ UNCHANGED <<editGeneration, editor, disk, openings, lifeVars>>

\* handleSave catches what repacking threw, reports it to the view, which
\* drops the editor, and answers null.
RepackFails ==
    /\ Quiet /\ work.phase = "serializing"
    /\ IF editor.id = work.source THEN FailEditor ELSE UNCHANGED editor
    /\ NoBytes(work.generation, work.path)
    /\ UNCHANGED <<editGeneration, disk, openings, lifeVars>>

SerializeNothing ==
    /\ NeedsBytes /\ ~EditorAnswers
    /\ NoBytes(editGeneration, Current.path)
    /\ UNCHANGED <<editGeneration, editor, disk, openings, lifeVars>>

\* saveRefusal: the one throw that is the writer declining an edit.
SerializeRefused ==
    /\ NeedsBytes /\ EditorAnswers /\ Refuses
    /\ SettleUnwritten("refused")
    /\ UNCHANGED <<editGeneration, editor, disk, openings, lifeVars>>

\* A disposed handle or a wasm panic.
SerializeThrows ==
    /\ NeedsBytes /\ EditorAnswers /\ editor.kind # "docx"
    /\ SettleUnwritten("failed")
    /\ UNCHANGED <<editGeneration, editor, disk, openings, lifeVars>>

-----------------------------------------------------------------------------
(* The save IPC of the main process. *)

PickSavePath(p) ==
    /\ Quiet /\ work.phase = "prompt"
    /\ work' = [work EXCEPT !.phase = "writing", !.path = p]
    /\ UNCHANGED <<docVars, editGeneration, editor, disk, jobs, askVars,
                   openings, lifeVars>>

CancelSavePath ==
    /\ Quiet /\ work.phase = "prompt"
    /\ SettleUnwritten("canceled")
    /\ UNCHANGED <<editGeneration, editor, disk, openings, lifeVars>>

\* The main process finishes the write even when the window is gone.
WriteLands ==
    /\ work.phase = "writing"
    /\ disk' = [disk EXCEPT ![work.path] = work.bytes]
    /\ work' = [work EXCEPT !.phase = "written"]
    /\ UNCHANGED <<docVars, editGeneration, editor, jobs, askVars, openings,
                   lifeVars>>

\* writeFile rejects: before it touched the file, or after it truncated it.
WriteFails ==
    /\ work.phase = "writing"
    /\ disk' \in {disk, [disk EXCEPT ![work.path] = Torn]}
    /\ \/ Quiet /\ SettleUnwritten("failed")
       \/ ~alive /\ work' = IdleWork /\ UNCHANGED <<docVars, jobs, askVars>>
    /\ UNCHANGED <<editGeneration, editor, openings, lifeVars>>

\* `generation` of performSave: the edits the written bytes cover.
CoversUpToNow == editGeneration
Covered == work.generation

\* The reply reaches performSave.  Only the document that was saved takes the
\* new path and the generation its bytes cover.
Saved ==
    /\ Quiet /\ work.phase = "written"
    /\ IF TargetIsCurrent
       THEN /\ savedGeneration' = IF Covered > savedGeneration
                                  THEN Covered ELSE savedGeneration
            /\ documentRef' = [documentRef EXCEPT !.path = work.path]
       ELSE UNCHANGED <<savedGeneration, documentRef>>
    /\ Settle("saved", documentRef', savedGeneration')
    /\ UNCHANGED <<documentId, editGeneration, editor, disk, consented,
                   openings, lifeVars>>

-----------------------------------------------------------------------------
(* The unsaved-changes ask. *)

\* ensureSaved: a caller joins the ask in flight, or starts one.
EnsureSaved(waiter) ==
    \/ /\ ask.phase # "idle"
       /\ ask' = [ask EXCEPT !.waiting = Append(@, waiter)]
       /\ UNCHANGED drain
    \/ /\ ask.phase = "idle" /\ HasUnsavedEdits(documentRef, savedGeneration)
       /\ ask' = [phase |-> "confirm", waiting |-> <<waiter>>]
       /\ UNCHANGED drain
    \/ /\ ask.phase = "idle" /\ ~HasUnsavedEdits(documentRef, savedGeneration)
       /\ drain' = [waiters |-> <<waiter>>, proceed |-> TRUE]
       /\ UNCHANGED ask

ConfirmCancel ==
    /\ Quiet /\ ask.phase = "confirm"
    /\ Answer(FALSE)
    /\ UNCHANGED <<docVars, editGeneration, editor, disk, jobVars, openings,
                   lifeVars, consented>>

\* Don't Save, in the ask and in the prompt that follows a refused save.
Discard ==
    /\ Quiet /\ ask.phase \in {"confirm", "refused"}
    /\ Answer(TRUE)
    /\ consented' = consented \cup editor.content
    /\ UNCHANGED <<docVars, editGeneration, editor, disk, jobVars, openings,
                   lifeVars>>

ConfirmSave ==
    /\ Quiet /\ ask.phase = "confirm"
    /\ SomethingOpen
    /\ ask' = [ask EXCEPT !.phase = "saving"]
    /\ Enqueue("save", None, TRUE)
    /\ UNCHANGED <<docVars, editGeneration, editor, disk, work, drain, openings,
                   lifeVars, consented>>

KeepEditing ==
    /\ Quiet /\ ask.phase = "refused"
    /\ Answer(FALSE)
    /\ UNCHANGED <<docVars, editGeneration, editor, disk, jobVars, openings,
                   lifeVars, consented>>

-----------------------------------------------------------------------------
(* The routes that replace, close or restart. *)

\* A document the main process opened on its own (the Dock, a second instance,
\* a recent file) was read before the ask; the others carry nothing yet.
WaiterFor(route, p) ==
    [route |-> route, path |-> IF route = "opened" THEN p ELSE Untitled,
     content |-> IF route = "opened" THEN disk[p] ELSE {}]

\* openDocument, newFromTemplate, onFileOpened, 'file:new', the update chip,
\* and onCloseRequest, which ignores a second request while one is answered.
TakeRoute(route, p) ==
    /\ Quiet
    /\ routes < MaxRoutes /\ routes' = routes + 1
    /\ route = "close" => ~closing
    /\ closing' = (closing \/ route = "close")
    /\ EnsureSaved(WaiterFor(route, p))
    /\ UNCHANGED <<docVars, editGeneration, editor, disk, jobVars, openings,
                   alive, consented>>

\* applyOpenedDocument
ApplyOpenedDocument(kind, path, content) ==
    /\ documentId' = documentId + 1
    /\ documentRef' = [id |-> documentId + 1, kind |-> kind, path |-> path,
                       seed |-> content]
    /\ savedGeneration' = editGeneration

\* One caller of the settled ask runs its continuation.
Continue ==
    /\ alive /\ drain.waiters # <<>>
    /\ drain' = [drain EXCEPT !.waiters = Tail(@)]
    /\ LET waiter == Head(drain.waiters) IN
       \/ /\ ~drain.proceed /\ waiter.route # "close"
          /\ UNCHANGED <<docVars, openings, closing, alive>>
       \/ /\ waiter.route = "close"      \* resolveClose(proceed)
          /\ closing' = FALSE
          /\ alive' = ~drain.proceed
          /\ UNCHANGED <<docVars, openings>>
       \/ /\ drain.proceed /\ waiter.route = "restart"
          /\ alive' \in BOOLEAN           \* installUpdate may have nothing to install
          /\ UNCHANGED <<docVars, openings, closing>>
       \/ /\ drain.proceed /\ waiter.route \in {"open", "template"}
          /\ openings' = openings \cup
                           {[route |-> waiter.route, since |-> editGeneration]}
          /\ UNCHANGED <<docVars, closing, alive>>
       \/ /\ drain.proceed /\ waiter.route = "opened"
          /\ ApplyOpenedDocument(KindOf[waiter.path], waiter.path, waiter.content)
          /\ UNCHANGED <<openings, closing, alive>>
       \/ /\ drain.proceed /\ waiter.route = "new"
          /\ documentRef' = NoDocument
          /\ savedGeneration' = editGeneration
          /\ UNCHANGED <<documentId, openings, closing, alive>>
    /\ UNCHANGED <<editGeneration, editor, disk, jobVars, ask, consented, routes>>

\* openFile answers with the file the user picked, read as it is now.
PickFile(opening, p) ==
    /\ Quiet /\ opening \in openings /\ opening.route = "open"
    /\ openings' = openings \ {opening}
    /\ ApplyOpenedDocument(KindOf[p], p, disk[p])
    /\ UNCHANGED <<editGeneration, editor, disk, jobVars, askVars, lifeVars>>

\* The open dialog is canceled, or the file or the template cannot be read.
OpeningFails(opening) ==
    /\ Quiet /\ opening \in openings
    /\ openings' = openings \ {opening}
    /\ UNCHANGED <<docVars, editGeneration, editor, disk, jobVars, askVars,
                   lifeVars>>

TemplateReady(opening, kind) ==
    /\ Quiet /\ opening \in openings /\ opening.route = "template"
    /\ openings' = openings \ {opening}
    /\ ApplyOpenedDocument(kind, Untitled, {})
    /\ UNCHANGED <<editGeneration, editor, disk, jobVars, askVars, lifeVars>>

-----------------------------------------------------------------------------
EditorStep == Remount \/ EditorReady \/ EditorFails \/ Edit

RequestStep == RequestWithBytes \/ \E op \in {"save", "saveAs", "export"} : Request(op)

JobStep ==
    \/ CancelStaleSave \/ UseRequestBytes
    \/ SerializeNow \/ SerializeLater \/ Repacked \/ RepackFails
    \/ SerializeNothing \/ SerializeRefused \/ SerializeThrows
    \/ CancelSavePath \/ \E p \in Paths : PickSavePath(p)
    \/ WriteLands \/ WriteFails \/ Saved

AskStep == ConfirmCancel \/ Discard \/ ConfirmSave \/ KeepEditing

RouteStep ==
    \/ Continue
    \/ \E route \in Routes, p \in Paths : TakeRoute(route, p)
    \/ \E opening \in openings :
          \/ OpeningFails(opening)
          \/ \E p \in Paths : PickFile(opening, p)
          \/ \E kind \in Kinds : TemplateReady(opening, kind)

Next == EditorStep \/ RequestStep \/ JobStep \/ AskStep \/ RouteStep

Spec == Init /\ [][Next]_vars

\* The event loop runs every operation that can run, writes return, and the
\* user answers the prompt that is on screen.  The user is never required to
\* edit, to save or to open anything, and React is never required to commit.
Fairness == WF_vars(JobStep) /\ WF_vars(Continue) /\ SF_vars(AskStep)

FairSpec == Spec /\ Fairness

-----------------------------------------------------------------------------
(* Properties. *)

\* The open document's own editor, with something the user can still see in it.
EditorIsLive == /\ documentRef # NoDocument
                /\ editor.id = documentRef.id
                /\ editor.state = "ready"

\* What the user did to the open document since it was opened.
LiveEdits == editor.content \ documentRef.seed

\* `edits` are in the file the open document was last saved to.  A file that a
\* failed write truncated is the file system's loss, not the session's.
OnDisk(edits) ==
    \/ edits = {}
    \/ documentRef.path \in Paths /\ disk[documentRef.path] = Torn
    \/ documentRef.path \in Paths /\ edits \subseteq disk[documentRef.path]

\* The dirty flag tells the truth: whenever the session would let the document
\* go without asking (editGenerationRef = savedGenerationRef), every edit the
\* live editor shows has reached the document's file, whatever was requested,
\* queued, renamed, refused or reopened before.
CleanMeansOnDisk ==
    EditorIsLive /\ ~HasUnsavedEdits(documentRef, savedGeneration)
        => OnDisk(LiveEdits)

-----------------------------------------------------------------------------
(* Why CleanMeansOnDisk holds: what is true between the steps of a save.     *)

\* The live edits a save has already reported.
Reported == {e \in LiveEdits : e <= savedGeneration}

TargetsInOrder ==
    /\ \A i \in 1..Len(jobs) : jobs[i].target.id <= documentId
    /\ \A i, j \in 1..Len(jobs) : i < j => jobs[i].target.id <= jobs[j].target.id

IdsInOrder ==
    /\ documentRef # NoDocument => documentRef.id = documentId
    /\ editor.id <= documentId
    /\ documentRef # NoDocument /\ editor.id = documentRef.id
           => editor.kind = documentRef.kind

GenerationsInOrder ==
    /\ savedGeneration <= editGeneration
    /\ work.phase # "idle" => work.generation <= editGeneration
    /\ EditorIsLive => \A e \in LiveEdits : e <= editGeneration

ReportedOnDisk == EditorIsLive => OnDisk(Reported)

\* The bytes under way for the open document hold what they will report and
\* what was reported before them; until its own editor serializes, nothing was.
WorkCoversReports ==
    EditorIsLive /\ work.phase # "idle" /\ TargetIsCurrent
        => /\ \A e \in LiveEdits :
                 e <= work.generation \/ e <= savedGeneration => e \in work.bytes
           /\ work.phase = "serializing" /\ work.source # documentRef.id
                 => Reported = {}

\* A write for an earlier document comes before any save of the open one.
OlderTargetsFirst ==
    EditorIsLive /\ jobs # <<>> /\ ~TargetIsCurrent => Reported = {}

WorkReachesAPath ==
    /\ work.phase \in {"writing", "written"} => work.path \in Paths
    /\ work.phase = "written" => disk[work.path] = work.bytes
    /\ work.phase \in {"prompt", "writing", "written"} => Head(jobs).op # "export"

\* Only the workbook editor hands bytes over with the request.
SerializedInTurn == \A i \in 1..Len(jobs) : jobs[i].bytes = None

CleanInv ==
    /\ TypeOK
    /\ TargetsInOrder /\ IdsInOrder /\ GenerationsInOrder
    /\ ReportedOnDisk /\ WorkCoversReports /\ OlderTargetsFirst
    /\ WorkReachesAPath /\ SerializedInTurn

\* Every live edit up to `generation` has been reported or given up.
Accounted(generation) ==
    EditorIsLive => \A e \in LiveEdits : e <= generation => e <= savedGeneration \/ e \in consented

\* A yes stays true until the route that waited for it has used it up.
AnswersHold ==
    /\ drain.waiters # <<>> /\ drain.proceed => Accounted(editGeneration)
    /\ \A o \in openings : o.since <= editGeneration /\ Accounted(o.since)

-----------------------------------------------------------------------------
\* The document goes away: another one, or the start screen, takes its place,
\* or the window is destroyed.
Replaced == documentRef # NoDocument /\ (documentId' # documentId \/ documentRef' = NoDocument)

\* The edits that followed the yes of an ask whose file or template was still
\* on its way: nothing asks about them again.
MadeAfterTheAnswer ==
    {e \in editor.content : \E o \in openings \ openings' : e > o.since}

\* No route loses work in silence.  When the open document is replaced or the
\* window goes, an edit it showed is on disk, or the user chose Don't Save
\* while it was there, or it came after the ask was answered -- also when
\* several routes shared one answer, and when saves were still queued.
ReplacementLosesNothing ==
    [][(Replaced \/ alive' # alive) /\ EditorIsLive
          => OnDisk(LiveEdits \ (consented \cup MadeAfterTheAnswer))]_vars

\* A write takes an edit back out of a file that had it.
GoesBack(p) == /\ Torn \notin {disk[p], disk'[p]}
               /\ ~(disk[p] \subseteq disk'[p])

\* Saves land in the order of what they contain: while one document is open
\* and its editor lives, the write of a save that was serialized in its turn
\* removes no edit an earlier write put on disk, at any path.
LiveSavesNeverGoBack ==
    [][WriteLands /\ documentId = 1 /\ editor.state = "ready" /\ ~HandedOver
          => \A p \in Paths : ~GoesBack(p)]_vars

\* The same without regard to the editor: what one document has saved stays
\* saved.  seedStandsIn says an edit that lives nowhere but in the editor is
\* never written over by the seed.
WritesNeverGoBack ==
    [][documentId = 1 => \A p \in Paths : ~GoesBack(p)]_vars

\* A save that reports success has put on disk at least the edits made before
\* it was requested, however long it waited in the queue, whichever bytes it
\* wrote and whatever became of the document's path meanwhile.
RequestedEditsLand ==
    [][Saved /\ TargetIsCurrent /\ EditorIsLive
          => LET path == documentRef'.path
                 asked == {e \in LiveEdits : e <= Head(jobs).generation}
             IN  disk[path] = Torn \/ asked \subseteq disk[path]]_vars

\* A save writes the document it was asked for: the bytes that land come from
\* the document the operation was queued for, never from another one that was
\* open before or after it.
NoCrossDocumentWrite ==
    [][WriteLands => work.source = Head(jobs).target.id]_vars

\* Every ask ends: whatever a save, an export or a write does, whoever waits
\* for the unsaved-changes question is answered (or the window is gone).
AskIsAnswered == (ask.phase # "idle") ~> (ask.phase = "idle" \/ ~alive)

\* The main process is always told what to do with a close it asked about;
\* otherwise the window could never be closed again.
CloseIsAnswered == closing ~> (~closing \/ ~alive)
=============================================================================
