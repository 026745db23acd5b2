----------------------- MODULE DocumentSession_proofs -----------------------
(***************************************************************************)
(* Proofs about DocumentSession: type correctness; for documents whose     *)
(* editor hands no bytes over of its own, that a clean document is on disk *)
(* and that no route loses work in silence; and for all documents that a   *)
(* save writes what it was asked to, and never less than was there.        *)
(***************************************************************************)
EXTENDS DocumentSession, SequenceTheorems, TLAPS

USE DEF Edits, Content

-----------------------------------------------------------------------------
(* Lemmas about the helpers. *)

\* What the assumption says of the constants, one fact a conjunct.
LEMMA ConstantsType ==
    /\ MaxEdits \in Nat /\ MaxRoutes \in Nat /\ MaxJobs \in Nat
    /\ Untitled \notin Paths
    /\ \A content \in Content : content # None /\ content # Torn
    /\ None # Torn
    /\ \A p \in Paths : KindOf[p] \in Kinds
    /\ NoDocument \notin Document
BY DocumentSessionAssumption DEF DocumentSessionAssumption, NoDocument, Document

\* Answering an ask keeps the two records that hold its callers well formed.
LEMMA AnswerType ==
    ASSUME TypeOK, NEW proceed \in BOOLEAN, Answer(proceed)
    PROVE  /\ ask' \in Ask
           /\ drain' \in Drain
BY DEF TypeOK, Answer, IdleAsk, Ask, Drain

\* The oldest operation leaves the queue, and the queue stays well formed.
LEMMA SettleType ==
    ASSUME TypeOK, jobs # <<>>, NEW doc, NEW saved,
           NEW outcome \in {"saved", "canceled", "refused", "failed"},
           Settle(outcome, doc, saved)
    PROVE  /\ jobs' \in Seq(Job)
           /\ work' = IdleWork
           /\ ask' \in Ask
           /\ drain' \in Drain
<1>1. jobs' \in Seq(Job) /\ work' = IdleWork
  BY DEF TypeOK, Settle
<1>2. CASE UNCHANGED <<ask, drain>>
  BY <1>1, <1>2 DEF TypeOK
<1>3. CASE \E proceed \in BOOLEAN : Answer(proceed)
  BY <1>1, <1>3, AnswerType
<1>4. CASE /\ UNCHANGED drain
           /\ \E phase \in {"confirm", "refused"} : ask' = [ask EXCEPT !.phase = phase]
  BY <1>1, <1>4 DEF TypeOK, Ask
<1> QED
  BY <1>2, <1>3, <1>4 DEF Settle

\* The initial work record is well formed.
LEMMA IdleWorkType ==
    IdleWork \in Work
BY ConstantsType DEF IdleWork, Work

-----------------------------------------------------------------------------
(* Type correctness. *)

\* The start screen has well formed variables.
LEMMA TypeInit == Init => TypeOK
<1> SUFFICES ASSUME Init PROVE TypeOK
  OBVIOUS
<1>1. editor \in Editor
  BY DEF Init, NoEditor, Editor
<1>2. ask \in Ask /\ drain \in Drain
  BY DEF Init, IdleAsk, NoDrain, Ask, Drain
<1>3. work \in Work /\ work.phase = "idle"
  BY IdleWorkType DEF Init, IdleWork
<1>4. editGeneration \in 0..MaxEdits /\ savedGeneration \in 0..MaxEdits
  BY ConstantsType DEF Init
<1>5. disk \in [Paths -> {Torn} \cup Content]
  BY DEF Init
<1>6. jobs \in Seq(Job) /\ openings \subseteq Opening /\ consented \in Content
  BY DEF Init
<1>7. documentRef \in {NoDocument} \cup Document
  BY DEF Init
<1>8. documentId \in Nat /\ routes \in Nat /\ closing \in BOOLEAN /\ alive \in BOOLEAN
  BY DEF Init
<1> QED
  BY <1>1, <1>2, <1>3, <1>4, <1>5, <1>6, <1>7, <1>8 DEF TypeOK

\* The editor views keep every type: their content is a set of edits made.
LEMMA TypeEditorStep == TypeOK /\ EditorStep => TypeOK'
<1> SUFFICES ASSUME TypeOK, EditorStep PROVE TypeOK'
  OBVIOUS
<1> USE ConstantsType DEF TypeOK, docVars, jobVars, askVars, lifeVars
<1>1. CASE Remount
  <2>1. editor' \in Editor
    BY <1>1 DEF Remount, NoEditor, Document, Editor
  <2> QED
    BY <1>1, <2>1 DEF Remount
<1>2. CASE EditorReady
  <2>1. documentRef.seed \in Content
    BY <1>2 DEF EditorReady, Document
  <2>2. editor' \in Editor
    BY <1>2, <2>1 DEF EditorReady, Editor
  <2> QED
    BY <1>2, <2>2 DEF EditorReady
<1>3. CASE EditorFails
  <2>1. editor' \in Editor
    BY <1>3 DEF EditorFails, FailEditor, Editor
  <2> QED
    BY <1>3, <2>1 DEF EditorFails
<1>4. CASE Edit
  <2>1. editGeneration + 1 \in 1..MaxEdits
    BY <1>4 DEF Edit
  <2>2. editor.content \cup {editGeneration + 1} \in Content
    BY <2>1 DEF Editor
  <2>3. editor' \in Editor
    BY <1>4, <2>2 DEF Edit, Editor
  <2>4. editGeneration' \in 0..MaxEdits
    BY <1>4, <2>1 DEF Edit
  <2> QED
    BY <1>4, <2>3, <2>4 DEF Edit
<1> QED
  BY <1>1, <1>2, <1>3, <1>4 DEF EditorStep

\* A request adds a well formed operation to the queue.
LEMMA EnqueueType ==
    ASSUME TypeOK, SomethingOpen, NEW op \in {"save", "saveAs", "export"},
           NEW bytes \in {None} \cup Content, NEW asked \in BOOLEAN,
           Enqueue(op, bytes, asked)
    PROVE  jobs' \in Seq(Job) /\ jobs' # <<>>
BY DEF TypeOK, SomethingOpen, Enqueue, Job

\* A save or export request keeps every type.
LEMMA TypeRequestStep == TypeOK /\ RequestStep => TypeOK'
<1> SUFFICES ASSUME TypeOK, RequestStep PROVE TypeOK'
  OBVIOUS
<1>1. CASE RequestWithBytes
  <2>1. jobs' \in Seq(Job) /\ jobs' # <<>>
    BY <1>1, EnqueueType DEF RequestWithBytes, TypeOK, Editor
  <2> QED
    BY <1>1, <2>1 DEF RequestWithBytes, TypeOK, docVars, askVars, lifeVars
<1>2. ASSUME NEW op \in {"save", "saveAs", "export"}, Request(op) PROVE TypeOK'
  <2>1. jobs' \in Seq(Job) /\ jobs' # <<>>
    BY <1>2, EnqueueType DEF Request
  <2> QED
    BY <1>2, <2>1 DEF Request, TypeOK, docVars, askVars, lifeVars
<1> QED
  BY <1>1, <1>2 DEF RequestStep

\* The answers to the prompts keep every type.
LEMMA TypeAskStep == TypeOK /\ AskStep => TypeOK'
<1> SUFFICES ASSUME TypeOK, AskStep PROVE TypeOK'
  OBVIOUS
<1>1. CASE ConfirmCancel
  BY <1>1, AnswerType DEF ConfirmCancel, TypeOK, docVars, jobVars, lifeVars
<1>2. CASE Discard
  BY <1>2, AnswerType DEF Discard, TypeOK, Editor, docVars, jobVars, lifeVars
<1>3. CASE KeepEditing
  BY <1>3, AnswerType DEF KeepEditing, TypeOK, docVars, jobVars, lifeVars
<1>4. CASE ConfirmSave
  <2>1. jobs' \in Seq(Job) /\ jobs' # <<>>
    BY <1>4, EnqueueType DEF ConfirmSave
  <2>2. ask' \in Ask
    BY <1>4 DEF ConfirmSave, TypeOK, Ask
  <2> QED
    BY <1>4, <2>1, <2>2 DEF ConfirmSave, TypeOK, docVars, lifeVars
<1> QED
  BY <1>1, <1>2, <1>3, <1>4 DEF AskStep

\* Opening a document keeps the document variables well formed.
LEMMA ApplyType ==
    ASSUME TypeOK, NEW kind \in Kinds, NEW path \in Paths \cup {Untitled},
           NEW content \in {Torn} \cup Content, ApplyOpenedDocument(kind, path, content)
    PROVE  /\ documentRef' \in {NoDocument} \cup Document
           /\ documentId' \in Nat
           /\ savedGeneration' \in 0..MaxEdits
BY DEF TypeOK, ApplyOpenedDocument, Document

\* The continuation of a settled ask keeps every type.
LEMMA TypeContinue == TypeOK /\ Continue => TypeOK'
<1> SUFFICES ASSUME TypeOK, Continue PROVE TypeOK'
  OBVIOUS
<1> DEFINE waiter == Head(drain.waiters)
<1>1. waiter \in Waiter /\ Tail(drain.waiters) \in Seq(Waiter)
  BY DEF Continue, TypeOK, Drain
<1>2. drain' \in Drain
  BY <1>1 DEF Continue, TypeOK, Drain
<1>3. /\ documentRef' \in {NoDocument} \cup Document
      /\ documentId' \in Nat /\ savedGeneration' \in 0..MaxEdits
  <2>1. CASE UNCHANGED docVars
    BY <2>1 DEF docVars, TypeOK
  <2>2. CASE waiter.route = "opened" /\ ApplyOpenedDocument(KindOf[waiter.path], waiter.path, waiter.content)
    BY <1>1, <2>2, ApplyType, ConstantsType DEF Waiter
  <2>3. CASE documentRef' = NoDocument /\ savedGeneration' = editGeneration /\ UNCHANGED documentId
    BY <2>3 DEF TypeOK
  <2> QED
    BY <2>1, <2>2, <2>3 DEF Continue
<1>4. openings' \subseteq Opening
  <2>1. CASE UNCHANGED openings
    BY <2>1 DEF TypeOK
  <2>2. CASE /\ waiter.route \in {"open", "template"}
             /\ openings' = openings \cup
                   {[route |-> waiter.route, since |-> editGeneration]}
    <3>1. [route |-> waiter.route, since |-> editGeneration] \in Opening
      BY <2>2 DEF TypeOK, Opening
    <3> QED
      BY <2>2, <3>1 DEF TypeOK
  <2> QED
    BY <2>1, <2>2 DEF Continue
<1>5. closing' \in BOOLEAN /\ alive' \in BOOLEAN
  BY ZenonT(30) DEF Continue, TypeOK
<1> QED
  BY <1>2, <1>3, <1>4, <1>5 DEF Continue, TypeOK, jobVars

\* The routes that replace or close the document keep every type.
LEMMA TypeRouteStep == TypeOK /\ RouteStep => TypeOK'
<1> SUFFICES ASSUME TypeOK, RouteStep PROVE TypeOK'
  OBVIOUS
<1>1. CASE Continue
  BY <1>1, TypeContinue
<1>2. ASSUME NEW route \in Routes, NEW p \in Paths, TakeRoute(route, p) PROVE TypeOK'
  <2>1. WaiterFor(route, p) \in Waiter
    BY DEF WaiterFor, Waiter, TypeOK
  <2>2. ask' \in Ask /\ drain' \in Drain
    <3> DEFINE w == WaiterFor(route, p)
    <3> HIDE DEF w
    <3>1. Append(ask.waiting, w) \in Seq(Waiter) /\ <<w>> \in Seq(Waiter)
      BY <2>1 DEF TypeOK, Ask, w
    <3>2. /\ [ask EXCEPT !.waiting = Append(@, w)] \in Ask
          /\ [phase |-> "confirm", waiting |-> <<w>>] \in Ask
          /\ [waiters |-> <<w>>, proceed |-> TRUE] \in Drain
      BY <3>1 DEF TypeOK, Ask, Drain
    <3> QED
      BY <1>2, <3>2 DEF TakeRoute, EnsureSaved, TypeOK, w
  <2>3. closing' \in BOOLEAN
    BY <1>2 DEF TakeRoute, TypeOK
  <2>4. routes' \in Nat
    BY <1>2 DEF TakeRoute, TypeOK
  <2> QED
    BY <1>2, <2>2, <2>3, <2>4 DEF TakeRoute, TypeOK, docVars, jobVars
<1>3. ASSUME NEW opening \in openings, OpeningFails(opening) PROVE TypeOK'
  BY <1>3 DEF OpeningFails, TypeOK, docVars, jobVars, askVars, lifeVars
<1>4. ASSUME NEW opening \in openings, NEW p \in Paths, PickFile(opening, p) PROVE TypeOK'
  <2>1. KindOf[p] \in Kinds /\ disk[p] \in {Torn} \cup Content
    BY ConstantsType DEF TypeOK
  <2>2. /\ documentRef' \in {NoDocument} \cup Document
        /\ documentId' \in Nat /\ savedGeneration' \in 0..MaxEdits
    BY <1>4, <2>1, ApplyType DEF PickFile
  <2> QED
    BY <1>4, <2>2 DEF PickFile, TypeOK, jobVars, askVars, lifeVars
<1>5. ASSUME NEW opening \in openings, NEW kind \in Kinds, TemplateReady(opening, kind)
      PROVE TypeOK'
  <2>1. /\ documentRef' \in {NoDocument} \cup Document
        /\ documentId' \in Nat /\ savedGeneration' \in 0..MaxEdits
    BY <1>5, ApplyType DEF TemplateReady
  <2> QED
    BY <1>5, <2>1 DEF TemplateReady, TypeOK, jobVars, askVars, lifeVars
<1> QED
  BY <1>1, <1>2, <1>3, <1>4, <1>5 DEF RouteStep

\* The part of TypeOK that an operation of the queue can disturb, beside the
\* editor and the disk.
QueueType ==
    /\ jobs \in Seq(Job)
    /\ work \in Work
    /\ work.phase # "idle" => jobs # <<>> /\ work.bytes # None
    /\ ask \in Ask
    /\ drain \in Drain

\* An operation that settles without a write leaves the queue well formed.
LEMMA SettleUnwrittenType ==
    ASSUME TypeOK, jobs # <<>>, NEW outcome \in {"saved", "canceled", "refused", "failed"},
           SettleUnwritten(outcome)
    PROVE  QueueType' /\ UNCHANGED <<docVars, consented>>
BY SettleType, IdleWorkType DEF SettleUnwritten, QueueType, IdleWork

\* The oldest operation, and the document it serializes, are well formed.
LEMMA HeadType ==
    ASSUME TypeOK, jobs # <<>>
    PROVE  /\ Head(jobs) \in Job
           /\ Head(jobs).target \in Document
           /\ Head(jobs).target.seed \in {Torn} \cup Content
           /\ Current \in Document
<1>1. Head(jobs) \in Job
  BY DEF TypeOK
<1>2. Head(jobs).target \in Document
  BY <1>1 DEF Job
<1>3. Head(jobs).target.seed \in {Torn} \cup Content
  BY <1>2 DEF Document
<1>4. Current \in Document
  BY <1>2 DEF Current, TargetIsCurrent, TypeOK
<1> QED
  BY <1>1, <1>2, <1>3, <1>4

\* Bytes on their way to a file are never the missing ones.
LEMMA DeliverType ==
    ASSUME TypeOK, jobs # <<>>, NEW bytes \in {Torn} \cup Content,
           NEW source \in Nat, NEW generation \in 0..MaxEdits,
           NEW path \in Paths \cup {Untitled},
           Deliver(bytes, source, generation, path)
    PROVE  QueueType' /\ UNCHANGED <<docVars, consented>>
<1>1. CASE SettleUnwritten("saved")
  BY <1>1, SettleUnwrittenType
<1>2. CASE ~SettleUnwritten("saved")
  <2>1. bytes # None
    BY ConstantsType
  <2>2. work' \in Work /\ work'.bytes = bytes
    BY <1>2 DEF Deliver, Work
  <2> QED
    BY <1>2, <2>1, <2>2 DEF Deliver, QueueType, TypeOK
<1> QED
  BY <1>1, <1>2

\* The seed written for a missing editor is a content like any other.
LEMMA NoBytesType ==
    ASSUME TypeOK, jobs # <<>>, NEW generation \in 0..MaxEdits,
           NEW path \in Paths \cup {Untitled}, NoBytes(generation, path)
    PROVE  QueueType' /\ UNCHANGED <<docVars, consented>>
<1>1. Head(jobs).target.id \in Nat /\ Head(jobs).target.seed \in {Torn} \cup Content
  BY HeadType DEF Document
<1> QED
  BY <1>1, DeliverType, SettleUnwrittenType DEF NoBytes

\* Every step of a save or an export keeps every type.
LEMMA TypeJobStep == TypeOK /\ JobStep => TypeOK'
<1> SUFFICES ASSUME TypeOK, JobStep PROVE TypeOK'
  OBVIOUS
<1>0. jobs # <<>>
  BY DEF JobStep, CancelStaleSave, UseRequestBytes, SerializeNow, SerializeLater,
         Repacked, RepackFails, SerializeNothing, SerializeRefused, SerializeThrows,
         CancelSavePath, PickSavePath, WriteLands, WriteFails, Saved, NeedsBytes,
         AtHead, TypeOK
<1>a. /\ Current.path \in Paths \cup {Untitled}
      /\ Head(jobs).generation \in 0..MaxEdits
      /\ Head(jobs).bytes \in {None} \cup Content
      /\ Head(jobs).target.id \in Nat
      /\ work.bytes \in {None, Torn} \cup Content /\ work.source \in Nat
      /\ work.generation \in 0..MaxEdits /\ work.path \in Paths \cup {Untitled}
      /\ editor.content \in Content /\ editor.id \in Nat
  BY <1>0, HeadType DEF Document, Job, TypeOK, Work, Editor
<1>b. ASSUME QueueType', UNCHANGED <<docVars, consented, editGeneration, openings, lifeVars>>,
             editor' \in Editor, disk' \in [Paths -> {Torn} \cup Content]
      PROVE  TypeOK'
  BY <1>b DEF QueueType, TypeOK, docVars, lifeVars
<1> USE DEF TypeOK
<1>1. CASE CancelStaleSave
  BY <1>0, <1>1, <1>b, SettleUnwrittenType DEF CancelStaleSave
<1>2. CASE UseRequestBytes
  BY <1>0, <1>2, <1>a, <1>b, DeliverType DEF UseRequestBytes, HandedOver
<1>3. CASE SerializeNow
  BY <1>0, <1>3, <1>a, <1>b, DeliverType DEF SerializeNow
<1>4. CASE SerializeLater
  <2>1. editor.content # None
    BY <1>a, ConstantsType
  <2>2. work' \in Work /\ work'.bytes = editor.content
    BY <1>4, <1>a DEF SerializeLater, Work
  <2>3. QueueType'
    BY <1>0, <1>4, <2>1, <2>2 DEF SerializeLater, QueueType, askVars
  <2> QED
    BY <1>4, <1>b, <2>3 DEF SerializeLater, askVars
<1>5. CASE Repacked
  <2>1. work.bytes \in {Torn} \cup Content
    BY <1>5, <1>a DEF Repacked
  <2> QED
    BY <1>0, <1>5, <1>a, <1>b, <2>1, DeliverType DEF Repacked
<1>6. CASE RepackFails
  <2>1. editor' \in Editor
    BY <1>6 DEF RepackFails, FailEditor, Editor
  <2> QED
    BY <1>0, <1>6, <1>a, <1>b, <2>1, NoBytesType DEF RepackFails
<1>7. CASE SerializeNothing
  BY <1>0, <1>7, <1>a, <1>b, NoBytesType DEF SerializeNothing
<1>8. CASE SerializeRefused
  BY <1>0, <1>8, <1>b, SettleUnwrittenType DEF SerializeRefused
<1>9. CASE SerializeThrows
  BY <1>0, <1>9, <1>b, SettleUnwrittenType DEF SerializeThrows
<1>10. CASE CancelSavePath
  BY <1>0, <1>10, <1>b, SettleUnwrittenType DEF CancelSavePath
<1>11. ASSUME NEW p \in Paths, PickSavePath(p) PROVE TypeOK'
  <2>1. work' \in Work /\ work'.bytes = work.bytes /\ work.bytes # None
    BY <1>11 DEF PickSavePath, Work
  <2>2. QueueType'
    BY <1>0, <1>11, <2>1 DEF PickSavePath, QueueType, askVars
  <2> QED
    BY <1>11, <1>b, <2>2 DEF PickSavePath, askVars
<1>12. CASE WriteLands
  <2>1. work.bytes \in {Torn} \cup Content
    BY <1>12, <1>a DEF WriteLands
  <2>2. work' \in Work /\ work'.bytes = work.bytes
    BY <1>12 DEF WriteLands, Work
  <2>3. QueueType'
    BY <1>0, <1>12, <2>1, <2>2, ConstantsType DEF WriteLands, QueueType, askVars
  <2>4. disk' \in [Paths -> {Torn} \cup Content]
    BY <1>12, <2>1 DEF WriteLands
  <2> QED
    BY <1>12, <1>b, <2>3, <2>4 DEF WriteLands, askVars
<1>13. CASE WriteFails
  <2>1. disk' \in [Paths -> {Torn} \cup Content]
    BY <1>13 DEF WriteFails
  <2>2. QueueType' /\ UNCHANGED <<docVars, consented>>
    <3>1. CASE SettleUnwritten("failed")
      BY <1>0, <3>1, SettleUnwrittenType
    <3>2. CASE work' = IdleWork /\ UNCHANGED <<docVars, jobs, askVars>>
      BY <3>2, IdleWorkType DEF QueueType, askVars, IdleWork
    <3> QED
      BY <1>13, <3>1, <3>2 DEF WriteFails
  <2> QED
    BY <1>13, <1>b, <2>1, <2>2 DEF WriteFails
<1>14. CASE Saved
  <2>1. QueueType'
    BY <1>0, <1>14, SettleType, IdleWorkType DEF Saved, QueueType, IdleWork
  <2>2. /\ documentRef' \in {NoDocument} \cup Document
        /\ savedGeneration' \in 0..MaxEdits
    <3>1. CASE TargetIsCurrent
      <4>1. documentRef \in Document
        BY <3>1 DEF TargetIsCurrent
      <4>2. [documentRef EXCEPT !.path = work.path] \in Document
        BY <1>a, <4>1 DEF Document
      <4>3. documentRef' = [documentRef EXCEPT !.path = work.path]
        BY <1>14, <3>1 DEF Saved
      <4>4. savedGeneration' \in 0..MaxEdits
        BY <1>14, <1>a, <3>1 DEF Saved, Covered
      <4> QED
        BY <4>2, <4>3, <4>4
    <3>2. CASE ~TargetIsCurrent
      BY <1>14, <3>2 DEF Saved
    <3> QED
      BY <3>1, <3>2
  <2> QED
    BY <1>14, <2>1, <2>2 DEF Saved, QueueType, lifeVars
<1> QED
  BY <1>1, <1>2, <1>3, <1>4, <1>5, <1>6, <1>7, <1>8, <1>9, <1>10, <1>11, <1>12,
     <1>13, <1>14 DEF JobStep

\* Every variable keeps its type, for any paths, kinds and bounds.
THEOREM TypeCorrect == Spec => []TypeOK
<1>1. TypeOK /\ [Next]_vars => TypeOK'
  <2>1. TypeOK /\ UNCHANGED vars => TypeOK'
    BY DEF TypeOK, vars
  <2> QED
    BY <2>1, TypeEditorStep, TypeRequestStep, TypeJobStep, TypeAskStep, TypeRouteStep
    DEF Next
<1> QED
  BY <1>1, TypeInit, PTL DEF Spec

-----------------------------------------------------------------------------
(* CleanMeansOnDisk.  CleanInv is the inductive invariant: each lemma below   *)
(* shows that one way of moving the queue, the editor or the document keeps   *)
(* it, and CleanStep gathers them action by action.                           *)

\* What CleanInv reads.
cleanVars == <<documentRef, documentId, editGeneration, savedGeneration, editor,
               disk, jobs, work>>

\* A step that leaves alone what CleanInv reads keeps it.
LEMMA CleanFrame ==
    ASSUME CleanInv, TypeOK', UNCHANGED cleanVars
    PROVE  CleanInv'
BY DEF cleanVars, CleanInv, TargetsInOrder, IdsInOrder, GenerationsInOrder,
       ReportedOnDisk, WorkCoversReports, OlderTargetsFirst, WorkReachesAPath,
       SerializedInTurn, EditorIsLive, OnDisk, Reported, LiveEdits, TargetIsCurrent

\* The document a queued operation was requested for has a number.
LEMMA TargetIds ==
    ASSUME TypeOK
    PROVE  \A i \in 1..Len(jobs) : jobs[i].target.id \in Nat
<1> SUFFICES ASSUME NEW i \in 1..Len(jobs) PROVE jobs[i].target.id \in Nat
  OBVIOUS
<1>1. jobs[i] \in Job
  BY DEF TypeOK
<1>2. jobs[i].target \in Document
  BY <1>1 DEF Job
<1> QED
  BY <1>2 DEF Document

\* While no live editor shows the open document, only the queue matters.
LEMMA NotLive ==
    ASSUME CleanInv, TypeOK', ~EditorIsLive', UNCHANGED <<disk, jobs, work>>,
           savedGeneration' <= editGeneration', editGeneration <= editGeneration',
           documentId <= documentId', IdsInOrder'
    PROVE  CleanInv'
<1>1. TargetsInOrder'
  <2> SUFFICES ASSUME NEW i \in 1..Len(jobs) PROVE jobs[i].target.id <= documentId'
    BY DEF CleanInv, TargetsInOrder
  <2>1. jobs[i].target.id \in Nat
    BY TargetIds DEF CleanInv
  <2> QED
    BY <2>1 DEF CleanInv, TargetsInOrder, TypeOK
<1>2. GenerationsInOrder'
  BY DEF CleanInv, GenerationsInOrder, TypeOK, Work
<1>3. ReportedOnDisk' /\ WorkCoversReports' /\ OlderTargetsFirst'
  BY DEF ReportedOnDisk, WorkCoversReports, OlderTargetsFirst
<1>4. WorkReachesAPath' /\ SerializedInTurn'
  BY DEF CleanInv, WorkReachesAPath, SerializedInTurn
<1> QED
  BY <1>1, <1>2, <1>3, <1>4 DEF CleanInv

\* A request joins the queue behind the rest, for the document that is open.
LEMMA CleanEnqueue ==
    ASSUME CleanInv, TypeOK', SomethingOpen, NEW op, NEW asked, Enqueue(op, None, asked),
           UNCHANGED <<documentRef, documentId, editGeneration, savedGeneration,
                       editor, disk, work>>
    PROVE  CleanInv'
<1> DEFINE job == [op |-> op, target |-> documentRef, bytes |-> None,
                   generation |-> editGeneration, asked |-> asked]
<1>1. /\ jobs' = Append(jobs, job) /\ jobs \in Seq(Job)
      /\ Len(jobs') = Len(jobs) + 1
      /\ jobs'[Len(jobs) + 1] = job
      /\ \A i \in 1..Len(jobs) : jobs'[i] = jobs[i]
  BY DEF Enqueue, CleanInv, TypeOK
<1>2. job.target.id = documentId
  BY DEF CleanInv, IdsInOrder, SomethingOpen
<1>3. TargetsInOrder'
  BY <1>1, <1>2 DEF CleanInv, TargetsInOrder, TypeOK
<1>4. SerializedInTurn'
  BY <1>1 DEF CleanInv, SerializedInTurn
<1>5. CASE jobs = <<>>
  <2>1. work.phase = "idle" /\ TargetIsCurrent'
    BY <1>1, <1>5 DEF CleanInv, TypeOK, TargetIsCurrent, SomethingOpen
  <2> QED
    BY <1>3, <1>4, <2>1 DEF CleanInv, IdsInOrder, GenerationsInOrder, ReportedOnDisk,
       WorkCoversReports, OlderTargetsFirst, WorkReachesAPath, EditorIsLive, OnDisk,
       Reported, LiveEdits
<1>6. CASE jobs # <<>>
  <2>1. Head(jobs') = Head(jobs) /\ (TargetIsCurrent' <=> TargetIsCurrent)
    BY <1>1, <1>6 DEF TargetIsCurrent
  <2> QED
    BY <1>3, <1>4, <1>6, <2>1 DEF CleanInv, IdsInOrder, GenerationsInOrder, ReportedOnDisk,
       WorkCoversReports, OlderTargetsFirst, WorkReachesAPath, EditorIsLive, OnDisk,
       Reported, LiveEdits
<1> QED
  BY <1>5, <1>6

\* When the oldest operation is for the open document, so are all the others.
LEMMA TailTargets ==
    ASSUME CleanInv, jobs # <<>>, jobs' = Tail(jobs), UNCHANGED documentId
    PROVE  /\ TargetsInOrder' /\ SerializedInTurn'
           /\ TargetIsCurrent /\ jobs' # <<>> => Head(jobs').target.id = documentRef.id
<1>1. /\ jobs \in Seq(Job) /\ Len(jobs') = Len(jobs) - 1 /\ Len(jobs) \in Nat \ {0}
      /\ \A i \in 1..Len(jobs') : jobs'[i] = jobs[i + 1] /\ i + 1 \in 1..Len(jobs)
      /\ Head(jobs) = jobs[1]
  BY DEF CleanInv, TypeOK
<1>2. TargetsInOrder' /\ SerializedInTurn'
  BY <1>1 DEF CleanInv, TargetsInOrder, SerializedInTurn
<1>3. ASSUME TargetIsCurrent, jobs' # <<>> PROVE Head(jobs').target.id = documentRef.id
  <2>1. Head(jobs') = jobs[2] /\ 1 \in 1..Len(jobs) /\ 2 \in 1..Len(jobs)
    BY <1>1, <1>3
  <2>2. jobs[1].target.id = documentId /\ documentRef.id = documentId
    BY <1>1, <1>3 DEF TargetIsCurrent, CleanInv, IdsInOrder
  <2>3. jobs[1].target.id <= jobs[2].target.id /\ jobs[2].target.id <= documentId
    BY <2>1 DEF CleanInv, TargetsInOrder
  <2>4. jobs[2].target.id \in Nat /\ documentId \in Nat
    BY <2>1, TargetIds DEF CleanInv, TypeOK
  <2> QED
    BY <2>1, <2>2, <2>3, <2>4
<1> QED
  BY <1>2, <1>3

\* The oldest operation settles and nothing was saved: it was canceled,
\* refused or failed, it was an export, or its document is not open any more.
LEMMA CleanSettle ==
    ASSUME CleanInv, TypeOK', jobs # <<>>, jobs' = Tail(jobs), work' = IdleWork,
           UNCHANGED <<documentRef, documentId, editGeneration, savedGeneration>>,
           UNCHANGED editor \/ FailEditor,
           disk' = disk \/ \E p : disk' = [disk EXCEPT ![p] = Torn]
    PROVE  CleanInv'
<1>1. TargetsInOrder' /\ SerializedInTurn'
  BY TailTargets
<1>2. work'.phase = "idle"
  BY DEF IdleWork
<1>3. editor'.id = editor.id /\ editor'.kind = editor.kind
  BY DEF FailEditor, CleanInv, TypeOK, Editor
<1>4. IdsInOrder'
  BY <1>3 DEF CleanInv, IdsInOrder
<1>5. WorkCoversReports' /\ WorkReachesAPath'
  BY <1>2 DEF WorkCoversReports, WorkReachesAPath
<1>6. CASE ~EditorIsLive'
  BY <1>1, <1>2, <1>4, <1>5, <1>6
  DEF CleanInv, GenerationsInOrder, ReportedOnDisk, OlderTargetsFirst
<1>7. CASE EditorIsLive'
  <2>1. UNCHANGED editor /\ EditorIsLive
    BY <1>7 DEF FailEditor, EditorIsLive, CleanInv, TypeOK, Editor
  <2>2. Reported' = Reported /\ LiveEdits' = LiveEdits
    BY <2>1 DEF Reported, LiveEdits
  <2>3. OnDisk(Reported)
    BY <2>1 DEF CleanInv, ReportedOnDisk
  <2>4. ReportedOnDisk'
    <3>1. \A p \in Paths : disk'[p] = disk[p] \/ disk'[p] = Torn
      BY DEF CleanInv, TypeOK
    <3> QED
      BY <2>2, <2>3, <3>1 DEF ReportedOnDisk, OnDisk
  <2>5. GenerationsInOrder'
    BY <1>2, <2>1, <2>2 DEF CleanInv, GenerationsInOrder
  <2>6. OlderTargetsFirst'
    <3>1. ASSUME jobs' # <<>>, ~TargetIsCurrent' PROVE ~TargetIsCurrent
      BY <3>1, TailTargets DEF TargetIsCurrent
    <3> QED
      BY <2>1, <2>2, <3>1 DEF CleanInv, OlderTargetsFirst
  <2> QED
    BY <1>1, <1>4, <1>5, <2>4, <2>5, <2>6 DEF CleanInv
<1> QED
  BY <1>6, <1>7

\* Bytes that hold what they will report go on towards the file.
LEMMA CleanDeliver ==
    ASSUME CleanInv, TypeOK', jobs # <<>>, NEW bytes, NEW source,
           NEW generation \in Nat, NEW path \in Paths \cup {Untitled},
           Deliver(bytes, source, generation, path),
           UNCHANGED <<editGeneration, disk>>,
           UNCHANGED editor \/ FailEditor,
           generation <= editGeneration,
           EditorIsLive' /\ TargetIsCurrent /\ Head(jobs).op # "export"
               => \A e \in LiveEdits :
                     e <= generation \/ e <= savedGeneration => e \in bytes
    PROVE  CleanInv'
<1>1. CASE Head(jobs).op = "export"
  BY <1>1, CleanSettle DEF Deliver, SettleUnwritten, Settle, docVars
<1>2. CASE Head(jobs).op # "export"
  <2>1. /\ work'.phase \in {"prompt", "writing"} /\ work'.bytes = bytes
        /\ work'.generation = generation /\ work'.path = path
        /\ work'.phase = "writing" => path # Untitled
        /\ UNCHANGED <<jobs, documentRef, documentId, savedGeneration>>
    BY <1>2 DEF Deliver, docVars
  <2>2. editor'.id = editor.id /\ editor'.kind = editor.kind
    BY DEF FailEditor, CleanInv, TypeOK, Editor
  <2>3. TargetsInOrder' /\ SerializedInTurn' /\ IdsInOrder'
    BY <2>1, <2>2 DEF CleanInv, TargetsInOrder, SerializedInTurn, IdsInOrder
  <2>4. WorkReachesAPath'
    BY <1>2, <2>1 DEF WorkReachesAPath
  <2>5. CASE ~EditorIsLive'
    BY <2>1, <2>3, <2>4, <2>5 DEF CleanInv, GenerationsInOrder, ReportedOnDisk,
       WorkCoversReports, OlderTargetsFirst
  <2>6. CASE EditorIsLive'
    <3>1. UNCHANGED editor /\ EditorIsLive
      BY <2>1, <2>6 DEF FailEditor, EditorIsLive, CleanInv, TypeOK, Editor
    <3>2. /\ Reported' = Reported /\ LiveEdits' = LiveEdits
          /\ TargetIsCurrent' <=> TargetIsCurrent
      BY <2>1, <3>1 DEF Reported, LiveEdits, TargetIsCurrent
    <3>3. WorkCoversReports'
      BY <1>2, <2>1, <2>6, <3>2 DEF WorkCoversReports
    <3>4. GenerationsInOrder' /\ OlderTargetsFirst'
      BY <2>1, <3>1, <3>2 DEF CleanInv, GenerationsInOrder, OlderTargetsFirst
    <3>5. ReportedOnDisk'
      BY <2>1, <3>1, <3>2 DEF CleanInv, ReportedOnDisk, OnDisk
    <3> QED
      BY <2>3, <2>4, <3>3, <3>4, <3>5 DEF CleanInv
  <2> QED
    BY <2>5, <2>6
<1> QED
  BY <1>1, <1>2

\* The oldest operation found no bytes: the seed only stands in for a document
\* none of whose edits a save has reported.
LEMMA CleanNoBytes ==
    ASSUME CleanInv, TypeOK', jobs # <<>>, NEW generation \in Nat,
           NEW path \in Paths \cup {Untitled}, NoBytes(generation, path),
           UNCHANGED <<editGeneration, disk>>,
           UNCHANGED editor \/ FailEditor,
           generation <= editGeneration,
           EditorIsLive' /\ TargetIsCurrent /\ Head(jobs).op # "export" => Reported = {}
    PROVE  CleanInv'
<1>1. CASE SettleUnwritten("failed")
  BY <1>1, CleanSettle DEF SettleUnwritten, Settle, docVars
<1>2. CASE /\ SeedStandsIn
           /\ Deliver(Head(jobs).target.seed, Head(jobs).target.id, generation, path)
  <2>1. EditorIsLive' /\ TargetIsCurrent /\ Head(jobs).op # "export"
            => \A e \in LiveEdits : ~(e <= generation \/ e <= savedGeneration)
    <3> SUFFICES ASSUME Reported = {}, NEW e \in LiveEdits,
                        e <= generation \/ e <= savedGeneration
                 PROVE FALSE
      OBVIOUS
    <3>1. e \in Nat
      BY DEF LiveEdits, CleanInv, TypeOK, Editor
    <3>2. e <= savedGeneration
      BY <1>2, <3>1 DEF SeedStandsIn, CleanInv, TypeOK
    <3> QED
      BY <3>2 DEF Reported
  <2> QED
    BY <1>2, <2>1, CleanDeliver
<1> QED
  BY <1>1, <1>2 DEF NoBytes

\* Mounting, opening, losing and editing a document keep CleanInv.
LEMMA CleanEditorStep ==
    ASSUME CleanInv, TypeOK', EditorStep
    PROVE  CleanInv'
<1> USE DEF docVars, jobVars
<1>1. CASE Remount
  <2>1. ~EditorIsLive'
    BY <1>1 DEF Remount, EditorIsLive, NoEditor
  <2>2. IdsInOrder'
    BY <1>1 DEF Remount, CleanInv, IdsInOrder, NoEditor, TypeOK
  <2> QED
    BY <1>1, <2>1, <2>2, NotLive DEF Remount, CleanInv, GenerationsInOrder, TypeOK
<1>2. CASE EditorReady
  <2>1. /\ editor'.id = editor.id /\ editor'.kind = editor.kind
        /\ LiveEdits' = {}
    BY <1>2 DEF EditorReady, LiveEdits, CleanInv, TypeOK, Editor
  <2>2. IdsInOrder'
    BY <1>2, <2>1 DEF EditorReady, CleanInv, IdsInOrder
  <2>3. Reported' = {}
    BY <2>1 DEF Reported
  <2> QED
    BY <1>2, <2>1, <2>2, <2>3 DEF EditorReady, CleanInv, TargetsInOrder, GenerationsInOrder,
       ReportedOnDisk, WorkCoversReports, OlderTargetsFirst, WorkReachesAPath,
       SerializedInTurn, OnDisk
<1>3. CASE EditorFails
  <2>1. /\ editor'.id = editor.id /\ editor'.kind = editor.kind
        /\ ~EditorIsLive'
    BY <1>3 DEF EditorFails, FailEditor, EditorIsLive, CleanInv, TypeOK, Editor
  <2>2. IdsInOrder'
    BY <1>3, <2>1 DEF EditorFails, CleanInv, IdsInOrder
  <2> QED
    BY <1>3, <2>1, <2>2, NotLive DEF EditorFails, CleanInv, GenerationsInOrder, TypeOK
<1>4. CASE Edit
  <2> DEFINE e0 == editGeneration + 1
  <2>1. /\ editor'.id = editor.id /\ editor'.kind = editor.kind
        /\ EditorIsLive' <=> EditorIsLive
        /\ LiveEdits' \subseteq LiveEdits \cup {e0}
    BY <1>4 DEF Edit, EditorIsLive, LiveEdits, CleanInv, TypeOK, Editor
  <2>2. /\ editGeneration \in Nat /\ savedGeneration \in Nat /\ work.generation \in Nat
        /\ savedGeneration < e0
        /\ work.phase # "idle" => work.generation < e0
    BY DEF CleanInv, TypeOK, Work, GenerationsInOrder
  <2>3. Reported' \subseteq Reported
    BY <1>4, <2>1, <2>2 DEF Edit, Reported
  <2>4. IdsInOrder' /\ TargetsInOrder' /\ WorkReachesAPath' /\ SerializedInTurn'
    BY <1>4, <2>1 DEF Edit, CleanInv, IdsInOrder, TargetsInOrder, WorkReachesAPath,
       SerializedInTurn
  <2>5. GenerationsInOrder'
    <3>1. LiveEdits \subseteq Nat
      BY DEF LiveEdits, CleanInv, TypeOK, Editor
    <3> QED
      BY <1>4, <2>1, <2>2, <3>1 DEF Edit, CleanInv, GenerationsInOrder
  <2>6. ReportedOnDisk' /\ OlderTargetsFirst'
    BY <1>4, <2>1, <2>3 DEF Edit, CleanInv, ReportedOnDisk, OlderTargetsFirst, OnDisk,
       TargetIsCurrent
  <2>7. WorkCoversReports'
    BY <1>4, <2>1, <2>2, <2>3 DEF Edit, CleanInv, WorkCoversReports, TargetIsCurrent
  <2> QED
    BY <2>4, <2>5, <2>6, <2>7 DEF CleanInv
<1> QED
  BY <1>1, <1>2, <1>3, <1>4 DEF EditorStep

\* A request keeps CleanInv, the workbook's own bytes left aside.
LEMMA CleanRequestStep ==
    ASSUME "xlsx" \notin Kinds, CleanInv, TypeOK', RequestStep
    PROVE  CleanInv'
<1>1. ASSUME NEW op, Request(op) PROVE CleanInv'
  BY <1>1, CleanEnqueue DEF Request, docVars
<1>2. ~RequestWithBytes
  BY DEF RequestWithBytes, CleanInv, TypeOK, Editor
<1> QED
  BY <1>1, <1>2 DEF RequestStep

\* The prompts keep CleanInv: Save is one more request.
LEMMA CleanAskStep ==
    ASSUME CleanInv, TypeOK', AskStep
    PROVE  CleanInv'
<1>1. CASE ConfirmSave
  BY <1>1, CleanEnqueue DEF ConfirmSave, docVars
<1>2. CASE ConfirmCancel \/ Discard \/ KeepEditing
  BY <1>2, CleanFrame DEF ConfirmCancel, Discard, KeepEditing, cleanVars, docVars, jobVars
<1> QED
  BY <1>1, <1>2 DEF AskStep

\* The next document's editor is still to be mounted.
LEMMA CleanApply ==
    ASSUME CleanInv, TypeOK', NEW kind, NEW path, NEW content,
           ApplyOpenedDocument(kind, path, content),
           UNCHANGED <<editGeneration, editor, disk, jobs, work>>
    PROVE  CleanInv'
<1>1. /\ documentRef'.id = documentId + 1 /\ documentId' = documentId + 1
      /\ savedGeneration' = editGeneration
      /\ editor.id <= documentId /\ editor.id \in Nat /\ documentId \in Nat
  BY DEF ApplyOpenedDocument, CleanInv, IdsInOrder, TypeOK, Editor
<1>2. ~EditorIsLive'
  BY <1>1 DEF EditorIsLive
<1>3. IdsInOrder'
  BY <1>1 DEF IdsInOrder
<1> QED
  BY <1>1, <1>2, <1>3, NotLive DEF CleanInv, TypeOK

\* Replacing the document keeps CleanInv: the new one has nothing reported.
LEMMA CleanRouteStep ==
    ASSUME CleanInv, TypeOK', RouteStep
    PROVE  CleanInv'
<1> USE DEF docVars, jobVars, cleanVars
<1>1. CASE Continue
  <2>1. CASE UNCHANGED docVars
    BY <1>1, <2>1, CleanFrame DEF Continue
  <2>2. CASE \E kind, path, content : ApplyOpenedDocument(kind, path, content)
    BY <1>1, <2>2, CleanApply DEF Continue
  <2>3. CASE /\ documentRef' = NoDocument /\ savedGeneration' = editGeneration
             /\ UNCHANGED documentId
    <3>1. ~EditorIsLive' /\ IdsInOrder'
      BY <1>1, <2>3 DEF Continue, EditorIsLive, CleanInv, IdsInOrder
    <3> QED
      BY <1>1, <2>3, <3>1, NotLive DEF Continue, CleanInv, TypeOK
  <2> QED
    BY <1>1, <2>1, <2>2, <2>3 DEF Continue
<1>2. ASSUME NEW route, NEW p, TakeRoute(route, p) PROVE CleanInv'
  BY <1>2, CleanFrame DEF TakeRoute
<1>3. ASSUME NEW opening, OpeningFails(opening) PROVE CleanInv'
  BY <1>3, CleanFrame DEF OpeningFails
<1>4. ASSUME NEW opening, NEW p, PickFile(opening, p) PROVE CleanInv'
  BY <1>4, CleanApply DEF PickFile
<1>5. ASSUME NEW opening, NEW kind, TemplateReady(opening, kind) PROVE CleanInv'
  BY <1>5, CleanApply DEF TemplateReady
<1> QED
  BY <1>1, <1>2, <1>3, <1>4, <1>5 DEF RouteStep

\* The write of the oldest operation reaches its file.
LEMMA CleanWriteLands ==
    ASSUME CleanInv, TypeOK', WriteLands
    PROVE  CleanInv'
<1> USE DEF WriteLands, docVars, askVars, lifeVars
<1>1. /\ work'.phase = "written" /\ work'.bytes = work.bytes /\ work'.path = work.path
      /\ work'.generation = work.generation /\ work.path \in Paths
      /\ disk'[work.path] = work.bytes
      /\ \A p \in Paths : p # work.path => disk'[p] = disk[p]
      /\ Head(jobs).op # "export" /\ jobs # <<>>
  BY DEF CleanInv, WorkReachesAPath, TypeOK, Work
<1>2. /\ EditorIsLive' <=> EditorIsLive
      /\ LiveEdits' = LiveEdits /\ Reported' = Reported
      /\ TargetIsCurrent' <=> TargetIsCurrent
  BY DEF EditorIsLive, LiveEdits, Reported, TargetIsCurrent
<1>3. ReportedOnDisk'
  <2> SUFFICES ASSUME EditorIsLive PROVE OnDisk(Reported)'
    BY <1>2 DEF ReportedOnDisk
  <2>1. CASE ~TargetIsCurrent
    BY <1>1, <1>2, <2>1 DEF CleanInv, OlderTargetsFirst, OnDisk
  <2>2. CASE TargetIsCurrent /\ documentRef.path = work.path
    <3>1. Reported \subseteq work.bytes
      BY <2>2 DEF CleanInv, WorkCoversReports, Reported
    <3> QED
      BY <1>1, <1>2, <2>2, <3>1 DEF OnDisk
  <2>3. CASE documentRef.path # work.path
    BY <1>1, <1>2, <2>3 DEF CleanInv, ReportedOnDisk, OnDisk
  <2> QED
    BY <2>1, <2>2, <2>3
<1>4. WorkReachesAPath'
  BY <1>1 DEF WorkReachesAPath
<1>5. WorkCoversReports' /\ OlderTargetsFirst' /\ GenerationsInOrder'
  BY <1>1, <1>2 DEF CleanInv, WorkCoversReports, OlderTargetsFirst, GenerationsInOrder
<1>6. TargetsInOrder' /\ IdsInOrder' /\ SerializedInTurn'
  BY DEF CleanInv, TargetsInOrder, IdsInOrder, SerializedInTurn
<1> QED
  BY <1>3, <1>4, <1>5, <1>6 DEF CleanInv

\* performSave reports: only for the document it was asked to save.
LEMMA CleanSaved ==
    ASSUME CleanInv, TypeOK', Saved
    PROVE  CleanInv'
<1>1. /\ jobs' = Tail(jobs) /\ work' = IdleWork /\ jobs # <<>>
      /\ UNCHANGED <<documentId, editGeneration, editor, disk>>
      /\ work.path \in Paths /\ disk[work.path] = work.bytes
      /\ work.generation \in Nat /\ savedGeneration \in Nat
  BY DEF Saved, Settle, CleanInv, WorkReachesAPath, TypeOK, Work
<1>2. CASE ~TargetIsCurrent
  BY <1>1, <1>2, CleanSettle DEF Saved
<1>3. CASE TargetIsCurrent
  <2>1. /\ documentRef'.id = documentRef.id /\ documentRef'.kind = documentRef.kind
        /\ documentRef'.seed = documentRef.seed /\ documentRef'.path = work.path
        /\ documentRef # NoDocument /\ documentRef' # NoDocument
    BY <1>1, <1>3 DEF Saved, TargetIsCurrent, CleanInv, TypeOK, Document, NoDocument
  <2>2. /\ savedGeneration' \in Nat
        /\ savedGeneration' = work.generation \/ savedGeneration' = savedGeneration
        /\ savedGeneration' <= editGeneration
    BY <1>1, <1>3 DEF Saved, Covered, CleanInv, GenerationsInOrder
  <2>3. /\ EditorIsLive' <=> EditorIsLive
        /\ LiveEdits' = LiveEdits
    BY <1>1, <2>1 DEF EditorIsLive, LiveEdits
  <2>4. work'.phase = "idle"
    BY <1>1 DEF IdleWork
  <2>5. TargetsInOrder' /\ SerializedInTurn' /\ (jobs' # <<>> => TargetIsCurrent')
    BY <1>1, <1>3, <2>1, TailTargets DEF TargetIsCurrent
  <2>6. IdsInOrder' /\ GenerationsInOrder'
    BY <1>1, <2>1, <2>2, <2>3, <2>4 DEF CleanInv, IdsInOrder, GenerationsInOrder
  <2>7. ReportedOnDisk'
    <3> SUFFICES ASSUME EditorIsLive PROVE Reported' \subseteq disk'[work.path]
      BY <1>1, <2>1, <2>3 DEF ReportedOnDisk, OnDisk
    <3>1. \A e \in LiveEdits : e <= work.generation \/ e <= savedGeneration => e \in work.bytes
      BY <1>3 DEF Saved, CleanInv, WorkCoversReports
    <3> QED
      BY <1>1, <2>2, <2>3, <3>1 DEF Reported
  <2>8. WorkCoversReports' /\ OlderTargetsFirst' /\ WorkReachesAPath'
    BY <2>4, <2>5 DEF WorkCoversReports, OlderTargetsFirst, WorkReachesAPath
  <2> QED
    BY <2>5, <2>6, <2>7, <2>8 DEF CleanInv
<1> QED
  BY <1>2, <1>3

\* Every step of a save or an export keeps CleanInv.
LEMMA CleanJobStep ==
    ASSUME CleanInv, TypeOK', JobStep
    PROVE  CleanInv'
<1>0. /\ jobs # <<>> /\ Head(jobs) = jobs[1] /\ 1 \in 1..Len(jobs)
      /\ ~HandedOver
  <2>1. jobs # <<>>
    BY DEF JobStep, CancelStaleSave, UseRequestBytes, SerializeNow, SerializeLater,
           Repacked, RepackFails, SerializeNothing, SerializeRefused, SerializeThrows,
           CancelSavePath, PickSavePath, WriteLands, WriteFails, Saved, NeedsBytes,
           AtHead, CleanInv, TypeOK
  <2>2. Head(jobs) = jobs[1] /\ 1 \in 1..Len(jobs)
    BY <2>1 DEF CleanInv, TypeOK
  <2> QED
    BY <2>1, <2>2 DEF CleanInv, SerializedInTurn, HandedOver
<1>a. /\ Current.path \in Paths \cup {Untitled} /\ editGeneration \in Nat
      /\ work.generation \in Nat /\ work.path \in Paths \cup {Untitled}
      /\ work.phase # "idle" => work.generation <= editGeneration
  BY <1>0, HeadType DEF CleanInv, Document, TypeOK, Work, GenerationsInOrder
<1>b. ASSUME NEW outcome, SettleUnwritten(outcome), UNCHANGED editGeneration,
             UNCHANGED editor \/ FailEditor,
             disk' = disk \/ \E p : disk' = [disk EXCEPT ![p] = Torn]
      PROVE  CleanInv'
  BY <1>0, <1>b, CleanSettle DEF SettleUnwritten, Settle, docVars
<1>1. CASE CancelStaleSave
  BY <1>1, <1>b DEF CancelStaleSave
<1>2. CASE UseRequestBytes
  BY <1>0, <1>2 DEF UseRequestBytes
<1>3. CASE SerializeNow
  BY <1>0, <1>3, <1>a, CleanDeliver DEF SerializeNow, LiveEdits
<1>4. CASE SerializeLater
  <2>1. /\ work'.phase = "serializing" /\ work'.bytes = editor.content
        /\ work'.source = editor.id /\ work'.generation = editGeneration
        /\ UNCHANGED <<documentRef, documentId, savedGeneration, editGeneration,
                       editor, disk, jobs>>
    BY <1>4 DEF SerializeLater, docVars
  <2>2. WorkCoversReports'
    BY <2>1 DEF WorkCoversReports, EditorIsLive, LiveEdits
  <2> QED
    BY <1>a, <2>1, <2>2 DEF CleanInv, TargetsInOrder, IdsInOrder, GenerationsInOrder,
       ReportedOnDisk, OlderTargetsFirst, WorkReachesAPath, SerializedInTurn,
       EditorIsLive, OnDisk, Reported, LiveEdits, TargetIsCurrent
<1>5. CASE Repacked
  <2>1. EditorIsLive /\ TargetIsCurrent
            => \A e \in LiveEdits :
                  e <= work.generation \/ e <= savedGeneration => e \in work.bytes
    BY <1>5 DEF Repacked, CleanInv, WorkCoversReports
  <2>2. EditorIsLive' => EditorIsLive
    BY <1>5 DEF Repacked, Deliver, SettleUnwritten, docVars, EditorIsLive
  <2> QED
    BY <1>0, <1>5, <1>a, <2>1, <2>2, CleanDeliver DEF Repacked
<1>6. CASE RepackFails
  <2>1. UNCHANGED docVars
    BY <1>6 DEF RepackFails, NoBytes, Deliver, SettleUnwritten
  <2>2. EditorIsLive' /\ TargetIsCurrent => Reported = {}
    <3> SUFFICES ASSUME EditorIsLive', TargetIsCurrent PROVE Reported = {}
      OBVIOUS
    <3>1. UNCHANGED editor /\ editor.id # work.source
      BY <1>6 DEF RepackFails, FailEditor, EditorIsLive, CleanInv, TypeOK, Editor
    <3>2. EditorIsLive /\ editor.id = documentRef.id
      BY <2>1, <3>1 DEF EditorIsLive, docVars
    <3> QED
      BY <1>6, <3>1, <3>2 DEF RepackFails, CleanInv, WorkCoversReports
  <2>3. UNCHANGED editor \/ FailEditor
    BY <1>6 DEF RepackFails
  <2> QED
    BY <1>0, <1>6, <1>a, <2>2, <2>3, CleanNoBytes DEF RepackFails
<1>7. CASE SerializeNothing
  <2>1. UNCHANGED docVars
    BY <1>7 DEF SerializeNothing, NoBytes, Deliver, SettleUnwritten
  <2>2. ~(EditorIsLive' /\ TargetIsCurrent /\ Head(jobs).op # "export")
    BY <1>7, <2>1 DEF SerializeNothing, EditorAnswers, EditorIsLive, Current, CleanInv,
       IdsInOrder, docVars
  <2> QED
    BY <1>0, <1>7, <1>a, <2>2, CleanNoBytes DEF SerializeNothing
<1>8. CASE SerializeRefused
  BY <1>8, <1>b DEF SerializeRefused
<1>9. CASE SerializeThrows
  BY <1>9, <1>b DEF SerializeThrows
<1>10. CASE CancelSavePath
  BY <1>10, <1>b DEF CancelSavePath
<1>11. ASSUME NEW p \in Paths, PickSavePath(p) PROVE CleanInv'
  <2>1. /\ work'.phase = "writing" /\ work'.bytes = work.bytes /\ work'.path = p
        /\ work'.generation = work.generation /\ work.phase = "prompt"
        /\ UNCHANGED <<documentRef, documentId, savedGeneration, editGeneration,
                       editor, disk, jobs>>
    BY <1>11 DEF PickSavePath, docVars, CleanInv, TypeOK, Work
  <2> QED
    BY <2>1 DEF CleanInv, TargetsInOrder, IdsInOrder, GenerationsInOrder, WorkCoversReports,
       ReportedOnDisk, OlderTargetsFirst, WorkReachesAPath, SerializedInTurn,
       EditorIsLive, OnDisk, Reported, LiveEdits, TargetIsCurrent
<1>12. CASE WriteLands
  BY <1>12, CleanWriteLands
<1>13. CASE WriteFails
  <2>1. disk' = disk \/ \E p : disk' = [disk EXCEPT ![p] = Torn]
    BY <1>13 DEF WriteFails
  <2>2. CASE SettleUnwritten("failed")
    BY <1>13, <1>b, <2>1, <2>2 DEF WriteFails
  <2>3. CASE work' = IdleWork /\ UNCHANGED <<docVars, jobs, askVars>>
    <3>1. /\ work'.phase = "idle"
          /\ UNCHANGED <<documentRef, documentId, savedGeneration, editGeneration,
                         editor, jobs>>
          /\ \A p \in Paths : disk'[p] = disk[p] \/ disk'[p] = Torn
      BY <1>13, <2>1, <2>3 DEF WriteFails, IdleWork, docVars, CleanInv, TypeOK
    <3> QED
      BY <3>1 DEF CleanInv, TargetsInOrder, IdsInOrder, GenerationsInOrder, WorkCoversReports,
         ReportedOnDisk, OlderTargetsFirst, WorkReachesAPath, SerializedInTurn,
         EditorIsLive, OnDisk, Reported, LiveEdits, TargetIsCurrent
  <2> QED
    BY <1>13, <2>2, <2>3 DEF WriteFails
<1>14. CASE Saved
  BY <1>14, CleanSaved
<1> QED
  BY <1>1, <1>2, <1>3, <1>4, <1>5, <1>6, <1>7, <1>8, <1>9, <1>10, <1>11, <1>12,
     <1>13, <1>14 DEF JobStep

\* CleanInv holds on the start screen.
LEMMA CleanInit == Init => CleanInv
BY TypeInit DEF Init, CleanInv, TargetsInOrder, IdsInOrder, GenerationsInOrder,
   WorkCoversReports, ReportedOnDisk, OlderTargetsFirst, WorkReachesAPath,
   SerializedInTurn, EditorIsLive, NoEditor, IdleWork, NoDocument

\* The inductive invariant, for documents that are serialized in their turn.
LEMMA CleanInvariant == ASSUME "xlsx" \notin Kinds PROVE Spec => []CleanInv
<1>1. CleanInv /\ TypeOK' /\ [Next]_vars => CleanInv'
  <2>1. CleanInv /\ TypeOK' /\ UNCHANGED vars => CleanInv'
    BY CleanFrame DEF vars, cleanVars
  <2> QED
    BY <2>1, CleanEditorStep, CleanRequestStep, CleanJobStep, CleanAskStep, CleanRouteStep
    DEF Next
<1> QED
  BY <1>1, CleanInit, TypeCorrect, PTL DEF Spec

\* A document or a deck the session calls clean is on disk, for any number of
\* paths, edits, routes and queued operations.
THEOREM CleanDocumentsAreOnDisk ==
    ASSUME "xlsx" \notin Kinds PROVE Spec => []CleanMeansOnDisk
<1>1. CleanInv => CleanMeansOnDisk
  BY DEF CleanInv, CleanMeansOnDisk, EditorIsLive, HasUnsavedEdits, GenerationsInOrder,
     ReportedOnDisk, Reported, OnDisk
<1> QED
  BY <1>1, CleanInvariant, PTL

-----------------------------------------------------------------------------
(* ReplacementLosesNothing: on top of CleanInv, what a yes of the ask stands  *)
(* for until the routes that waited for it have used it.                      *)

\* Steps that open nothing keep what the answers stand for, as long as a new
\* edit is newer than all of them and a new answer is a true one.
LEMMA AnswersFrame ==
    ASSUME CleanInv, TypeOK', AnswersHold,
           EditorIsLive' => \A e \in LiveEdits' :
                               (EditorIsLive /\ e \in LiveEdits) \/ e > editGeneration,
           savedGeneration <= savedGeneration', consented \subseteq consented',
           editGeneration <= editGeneration', openings' \subseteq openings,
           drain'.waiters # <<>> /\ drain'.proceed =>
               \/ /\ drain.waiters # <<>> /\ drain.proceed
                  /\ UNCHANGED editGeneration
               \/ Accounted(editGeneration)'
    PROVE  AnswersHold'
<1>1. /\ savedGeneration \in Nat /\ savedGeneration' \in Nat
      /\ editGeneration \in Nat /\ editGeneration' \in Nat
      /\ \A e \in LiveEdits' : e \in Nat
      /\ \A o \in openings : o.since \in Nat
  BY DEF CleanInv, TypeOK, LiveEdits, Editor, Opening
<1>2. ASSUME NEW g \in Nat, g <= editGeneration, EditorIsLive', NEW e \in LiveEdits', e <= g,
             EditorIsLive => \A x \in LiveEdits :
                 x <= g => x <= savedGeneration \/ x \in consented
      PROVE  e <= savedGeneration' \/ e \in consented'
  <2>1. EditorIsLive /\ e \in LiveEdits
    BY <1>1, <1>2
  <2> QED
    BY <1>1, <1>2, <2>1
<1>3. drain'.waiters # <<>> /\ drain'.proceed => Accounted(editGeneration)'
  BY <1>1, <1>2 DEF AnswersHold, Accounted
<1>4. \A o \in openings' : o.since <= editGeneration' /\ Accounted(o.since)'
  <2> SUFFICES ASSUME NEW o \in openings'
               PROVE  o.since <= editGeneration' /\ Accounted(o.since)'
    OBVIOUS
  <2>1. o \in openings /\ o.since \in Nat /\ o.since <= editGeneration
    BY <1>1 DEF AnswersHold
  <2>2. Accounted(o.since)'
    BY <1>2, <2>1 DEF AnswersHold, Accounted
  <2> QED
    BY <1>1, <2>1, <2>2
<1> QED
  BY <1>3, <1>4 DEF AnswersHold

\* The session lets a clean document go without asking, and it may.
LEMMA CleanIsAccounted ==
    ASSUME CleanInv, ~HasUnsavedEdits(documentRef, savedGeneration)
    PROVE  Accounted(editGeneration)
BY DEF CleanInv, GenerationsInOrder, HasUnsavedEdits, EditorIsLive, Accounted

\* Editing keeps AnswersHold: a yes is used up before the next edit.
LEMMA AnswersEditorStep ==
    ASSUME CleanInv, TypeOK', AnswersHold, EditorStep
    PROVE  AnswersHold'
<1> USE DEF docVars, askVars
<1>1. EditorIsLive' => \A e \in LiveEdits' :
                           (EditorIsLive /\ e \in LiveEdits) \/ e > editGeneration
  <2>1. CASE Remount
    BY <2>1 DEF Remount, EditorIsLive, NoEditor
  <2>2. CASE EditorReady
    BY <2>2 DEF EditorReady, LiveEdits, CleanInv, TypeOK, Editor
  <2>3. CASE EditorFails
    BY <2>3 DEF EditorFails, FailEditor, EditorIsLive, CleanInv, TypeOK, Editor
  <2>4. CASE Edit
    BY <2>4 DEF Edit, EditorIsLive, LiveEdits, CleanInv, TypeOK, Editor
  <2> QED
    BY <2>1, <2>2, <2>3, <2>4 DEF EditorStep
<1>2. CASE Edit
  <2>1. editGeneration' = editGeneration + 1 /\ editGeneration \in Nat /\ savedGeneration \in Nat
        /\ drain'.waiters = <<>> /\ UNCHANGED <<savedGeneration, consented, openings>>
    BY <1>2 DEF Edit, Quiet, CleanInv, TypeOK
  <2> QED
    BY <1>1, <2>1, AnswersFrame
<1>3. CASE Remount \/ EditorReady \/ EditorFails
  <2>1. /\ editGeneration \in Nat /\ savedGeneration \in Nat
        /\ UNCHANGED <<editGeneration, savedGeneration, consented, openings, drain>>
    BY <1>3 DEF Remount, EditorReady, EditorFails, CleanInv, TypeOK
  <2> QED
    BY <1>1, <2>1, AnswersFrame
<1> QED
  BY <1>2, <1>3 DEF EditorStep

\* Steps that neither edit, open nor report anything new.
LEMMA AnswersQuiet ==
    ASSUME CleanInv, TypeOK', AnswersHold,
           UNCHANGED <<documentRef, editGeneration, savedGeneration, openings>>,
           UNCHANGED editor \/ FailEditor, consented \subseteq consented',
           \/ UNCHANGED drain
           \/ ~drain'.proceed
           \/ Accounted(editGeneration)'
    PROVE  AnswersHold'
<1>1. EditorIsLive' => EditorIsLive /\ LiveEdits' = LiveEdits
  BY DEF FailEditor, EditorIsLive, LiveEdits, CleanInv, TypeOK, Editor
<1>2. editGeneration \in Nat /\ savedGeneration \in Nat
  BY DEF CleanInv, TypeOK
<1> QED
  BY <1>1, <1>2, AnswersFrame

\* Requests do not touch what an answer relies on.
LEMMA AnswersRequestStep ==
    ASSUME CleanInv, TypeOK', AnswersHold, RequestStep
    PROVE  AnswersHold'
BY AnswersQuiet DEF RequestStep, RequestWithBytes, Request, docVars, askVars

\* The prompts keep AnswersHold: Don't Save gives up every live edit.
LEMMA AnswersAskStep ==
    ASSUME CleanInv, TypeOK', AnswersHold, AskStep
    PROVE  AnswersHold'
<1> USE DEF docVars, Answer
<1>1. CASE ConfirmCancel \/ KeepEditing
  BY <1>1, AnswersQuiet DEF ConfirmCancel, KeepEditing
<1>2. CASE ConfirmSave
  BY <1>2, AnswersQuiet DEF ConfirmSave
<1>3. CASE Discard
  <2>1. Accounted(editGeneration)'
    BY <1>3 DEF Discard, Accounted, LiveEdits
  <2> QED
    BY <1>3, <2>1, AnswersQuiet DEF Discard
<1> QED
  BY <1>1, <1>2, <1>3 DEF AskStep

\* A save that settles an ask has reported every edit, so the yes holds.
LEMMA AnswersJobStep ==
    ASSUME CleanInv, CleanInv', TypeOK', AnswersHold, JobStep
    PROVE  AnswersHold'
<1>1. CASE Saved
  <2>1. /\ editGeneration \in Nat /\ savedGeneration \in Nat /\ savedGeneration' \in Nat
        /\ savedGeneration <= savedGeneration'
        /\ UNCHANGED <<editGeneration, openings, consented>>
    BY <1>1 DEF Saved, Covered, CleanInv, TypeOK, Work
  <2>2. EditorIsLive' => EditorIsLive /\ LiveEdits' = LiveEdits
    BY <1>1 DEF Saved, EditorIsLive, LiveEdits, TargetIsCurrent, CleanInv, TypeOK, Document
  <2>3. \/ UNCHANGED drain \/ ~drain'.proceed
        \/ ~HasUnsavedEdits(documentRef, savedGeneration)'
    BY <1>1 DEF Saved, Settle, Answer, AskAgain, HasUnsavedEdits
  <2>4. UNCHANGED drain \/ ~drain'.proceed \/ Accounted(editGeneration)'
    <3>1. ASSUME ~HasUnsavedEdits(documentRef, savedGeneration)'
          PROVE  Accounted(editGeneration)'
      BY <3>1 DEF CleanInv, GenerationsInOrder, HasUnsavedEdits, EditorIsLive, Accounted
    <3> QED
      BY <2>3, <3>1
  <2> QED
    BY <2>1, <2>2, <2>4, AnswersFrame
<1>2. ASSUME NEW outcome, SettleUnwritten(outcome)
      PROVE  /\ UNCHANGED <<docVars, consented>>
             /\ \/ UNCHANGED drain \/ ~drain'.proceed
                \/ ~HasUnsavedEdits(documentRef, savedGeneration)
  BY <1>2 DEF SettleUnwritten, Settle, Answer, AskAgain
<1>3. ASSUME NEW bytes, NEW source, NEW generation, NEW path,
             Deliver(bytes, source, generation, path)
      PROVE  /\ UNCHANGED <<docVars, consented>>
             /\ \/ UNCHANGED drain \/ ~drain'.proceed
                \/ ~HasUnsavedEdits(documentRef, savedGeneration)
  BY <1>2, <1>3 DEF Deliver
<1>4. CASE ~Saved
  <2>1. /\ UNCHANGED <<editGeneration, openings, docVars, consented>>
        /\ UNCHANGED editor \/ FailEditor
        /\ \/ UNCHANGED drain \/ ~drain'.proceed
           \/ ~HasUnsavedEdits(documentRef, savedGeneration)
    BY <1>2, <1>3, <1>4
    DEF JobStep, CancelStaleSave, UseRequestBytes, SerializeNow, SerializeLater, Repacked,
        RepackFails, NoBytes, SerializeNothing, SerializeRefused, SerializeThrows,
        CancelSavePath, PickSavePath, WriteLands, WriteFails, askVars
  <2>2. ASSUME ~HasUnsavedEdits(documentRef, savedGeneration)
        PROVE  Accounted(editGeneration)'
    <3>1. Accounted(editGeneration)
      BY <2>2, CleanIsAccounted
    <3>2. EditorIsLive' => EditorIsLive /\ LiveEdits' = LiveEdits
      BY <2>1 DEF FailEditor, EditorIsLive, LiveEdits, CleanInv, TypeOK, Editor, docVars
    <3> QED
      BY <2>1, <3>1, <3>2 DEF Accounted, docVars
  <2> QED
    BY <2>1, <2>2, AnswersQuiet DEF docVars
<1> QED
  BY <1>1, <1>4

\* A document that has just been opened has no edits to account for.
LEMMA NotLiveAfterApply ==
    ASSUME CleanInv, NEW kind, NEW path, NEW content,
           ApplyOpenedDocument(kind, path, content), UNCHANGED editor
    PROVE  ~EditorIsLive'
<1>1. /\ documentRef'.id = documentId + 1 /\ editor.id <= documentId
      /\ editor.id \in Nat /\ documentId \in Nat
  BY DEF ApplyOpenedDocument, CleanInv, IdsInOrder, TypeOK, Editor
<1> QED
  BY <1>1 DEF EditorIsLive

\* A document just opened has no live edit to account for.
LEMMA AnswersApply ==
    ASSUME CleanInv, TypeOK', AnswersHold, ~EditorIsLive',
           UNCHANGED editGeneration, openings' \subseteq openings
    PROVE  AnswersHold'
BY DEF AnswersHold, Accounted

\* The callers that share an answer each find it still true.
LEMMA AnswersContinue ==
    ASSUME CleanInv, TypeOK', AnswersHold, Continue
    PROVE  AnswersHold'
<1> DEFINE waiter == Head(drain.waiters)
<1>1. /\ drain'.proceed = drain.proceed /\ drain.waiters # <<>>
      /\ UNCHANGED <<editGeneration, editor, consented>>
  BY DEF Continue, CleanInv, TypeOK, Drain
<1>2. CASE UNCHANGED <<docVars, openings>>
  <2>1. /\ EditorIsLive' <=> EditorIsLive
        /\ \A g : Accounted(g) /\ EditorIsLive' => \A e \in LiveEdits' :
                 e <= g => e <= savedGeneration' \/ e \in consented'
    BY <1>1, <1>2 DEF docVars, EditorIsLive, LiveEdits, Accounted
  <2> QED
    BY <1>1, <1>2, <2>1 DEF AnswersHold, Accounted
<1>3. CASE /\ drain.proceed /\ UNCHANGED docVars
           /\ openings' = openings \cup {[route |-> waiter.route, since |-> editGeneration]}
  <2>1. Accounted(editGeneration) /\ editGeneration <= editGeneration
    BY <1>1, <1>3 DEF AnswersHold, CleanInv, TypeOK
  <2>2. \A o \in openings' : o.since <= editGeneration /\ Accounted(o.since)
    BY <1>3, <2>1 DEF AnswersHold
  <2>3. /\ EditorIsLive' <=> EditorIsLive
        /\ LiveEdits' = LiveEdits /\ UNCHANGED <<savedGeneration, consented>>
    BY <1>1, <1>3 DEF docVars, EditorIsLive, LiveEdits
  <2> QED
    BY <1>1, <2>1, <2>2, <2>3 DEF AnswersHold, Accounted
<1>4. CASE UNCHANGED openings /\ ~EditorIsLive'
  BY <1>1, <1>4, AnswersApply
<1>5. CASE UNCHANGED openings /\ ApplyOpenedDocument(KindOf[waiter.path], waiter.path, waiter.content)
  BY <1>1, <1>4, <1>5, NotLiveAfterApply
<1>6. CASE UNCHANGED openings /\ documentRef' = NoDocument
  BY <1>4, <1>6 DEF EditorIsLive
<1> QED
  BY <1>2, <1>3, <1>5, <1>6 DEF Continue

\* The routes keep AnswersHold.
LEMMA AnswersRouteStep ==
    ASSUME CleanInv, TypeOK', AnswersHold, RouteStep
    PROVE  AnswersHold'
<1> USE DEF docVars, askVars, lifeVars
<1>1. CASE Continue
  BY <1>1, AnswersContinue
<1>2. ASSUME NEW route, NEW p, TakeRoute(route, p) PROVE AnswersHold'
  <2>1. UNCHANGED drain \/ Accounted(editGeneration)'
    <3>1. UNCHANGED drain \/ Accounted(editGeneration)
      BY <1>2, CleanIsAccounted DEF TakeRoute, EnsureSaved
    <3> QED
      BY <1>2, <3>1 DEF TakeRoute, Accounted, EditorIsLive, LiveEdits
  <2> QED
    BY <1>2, <2>1, AnswersQuiet DEF TakeRoute
<1>3. ASSUME NEW opening, OpeningFails(opening) PROVE AnswersHold'
  <2>1. /\ EditorIsLive' <=> EditorIsLive
        /\ LiveEdits' = LiveEdits /\ openings' \subseteq openings
        /\ UNCHANGED <<savedGeneration, consented, editGeneration, drain>>
    BY <1>3 DEF OpeningFails, EditorIsLive, LiveEdits
  <2> QED
    BY <2>1 DEF AnswersHold, Accounted
<1>4. ASSUME NEW opening, NEW p, PickFile(opening, p) PROVE AnswersHold'
  BY <1>4, NotLiveAfterApply, AnswersApply DEF PickFile
<1>5. ASSUME NEW opening, NEW kind, TemplateReady(opening, kind) PROVE AnswersHold'
  BY <1>5, NotLiveAfterApply, AnswersApply DEF TemplateReady
<1> QED
  BY <1>1, <1>2, <1>3, <1>4, <1>5 DEF RouteStep

\* AnswersHold in every reachable state, with CleanInv beside it.
LEMMA AnswersInvariant ==
    ASSUME "xlsx" \notin Kinds PROVE Spec => [](CleanInv /\ AnswersHold)
<1>1. Init => AnswersHold
  BY DEF Init, AnswersHold, NoDrain
<1>2. CleanInv /\ CleanInv' /\ AnswersHold /\ [Next]_vars => AnswersHold'
  <2>1. CleanInv /\ CleanInv' /\ AnswersHold /\ UNCHANGED vars => AnswersHold'
    BY DEF vars, AnswersHold, Accounted, EditorIsLive, LiveEdits
  <2>2. CleanInv' => TypeOK'
    BY DEF CleanInv
  <2> QED
    BY <2>1, <2>2, AnswersEditorStep, AnswersRequestStep, AnswersJobStep, AnswersAskStep,
       AnswersRouteStep DEF Next
<1> QED
  BY <1>1, <1>2, CleanInvariant, PTL DEF Spec

\* What is accounted for and not given up is on disk.
LEMMA AccountedIsOnDisk ==
    ASSUME CleanInv, EditorIsLive, NEW g \in Nat, Accounted(g)
    PROVE  OnDisk({e \in LiveEdits \ consented : e <= g})
<1>1. {e \in LiveEdits \ consented : e <= g} \subseteq Reported
  BY DEF Accounted, Reported
<1> QED
  BY <1>1 DEF CleanInv, ReportedOnDisk, OnDisk

\* The document is only ever replaced, and the window only ever destroyed, by
\* a route that has its answer.
LEMMA ReplacedByARoute ==
    ASSUME CleanInv, Next, Replaced \/ alive' # alive
    PROVE  \/ Continue
           \/ \E opening \in openings :
                 \/ \E p \in Paths : PickFile(opening, p)
                 \/ \E kind \in Kinds : TemplateReady(opening, kind)
<1> USE DEF Replaced, docVars, lifeVars
<1>1. ~EditorStep
  BY DEF EditorStep, Remount, EditorReady, EditorFails, Edit
<1>2. ~RequestStep
  BY DEF RequestStep, RequestWithBytes, Request
<1>3. ~AskStep
  BY DEF AskStep, ConfirmCancel, Discard, ConfirmSave, KeepEditing
<1>4. ~Saved
  <2>1. CASE TargetIsCurrent
    <3>1. documentRef \in Document /\ documentRef.id # 0
      BY <2>1 DEF TargetIsCurrent, CleanInv, TypeOK, Document
    <3>2. Saved => documentRef'.id = documentRef.id
      BY <2>1, <3>1 DEF Saved, Document
    <3> QED
      BY <3>1, <3>2 DEF Saved, NoDocument
  <2>2. CASE ~TargetIsCurrent
    BY <2>2 DEF Saved
  <2> QED
    BY <2>1, <2>2
<1>5. ~JobStep
  BY <1>4 DEF JobStep, CancelStaleSave, UseRequestBytes, SerializeNow, SerializeLater, Repacked,
     RepackFails, NoBytes, SerializeNothing, SerializeRefused, SerializeThrows,
     CancelSavePath, PickSavePath, WriteLands, WriteFails, Deliver, SettleUnwritten
<1> QED
  BY <1>1, <1>2, <1>3, <1>5 DEF Next, RouteStep, TakeRoute, OpeningFails

\* No route loses work in silence, whatever else is going on and however many
\* routes share one answer: every edit the replaced document showed is on disk,
\* was given up with Don't Save, or followed the answer.
THEOREM RoutesLoseNothing ==
    ASSUME "xlsx" \notin Kinds PROVE Spec => ReplacementLosesNothing
<1>1. CleanInv /\ AnswersHold /\ [Next]_vars
         => [(Replaced \/ alive' # alive) /\ EditorIsLive
                => OnDisk(LiveEdits \ (consented \cup MadeAfterTheAnswer))]_vars
  <2> SUFFICES ASSUME CleanInv, AnswersHold, Next, Replaced \/ alive' # alive, EditorIsLive
               PROVE  OnDisk(LiveEdits \ (consented \cup MadeAfterTheAnswer))
    OBVIOUS
  <2>1. ASSUME NEW g \in Nat, Accounted(g), \A e \in LiveEdits : e > g => e \in MadeAfterTheAnswer
        PROVE  OnDisk(LiveEdits \ (consented \cup MadeAfterTheAnswer))
    <3>1. LiveEdits \subseteq Nat
      BY DEF LiveEdits, CleanInv, TypeOK, Editor
    <3>2. LiveEdits \ (consented \cup MadeAfterTheAnswer)
              \subseteq {e \in LiveEdits \ consented : e <= g}
      <4> SUFFICES ASSUME NEW e \in LiveEdits, e \notin MadeAfterTheAnswer PROVE e <= g
        OBVIOUS
      <4> QED
        BY <2>1, <3>1
    <3> QED
      BY <2>1, <3>2, AccountedIsOnDisk DEF OnDisk
  <2>2. CASE Continue
    <3>1. drain.waiters # <<>> /\ drain.proceed
      BY <2>2 DEF Continue, Replaced, docVars, CleanInv, TypeOK, Drain
    <3>2. Accounted(editGeneration) /\ editGeneration \in Nat
      BY <3>1 DEF AnswersHold, CleanInv, TypeOK
    <3>3. \A e \in LiveEdits : ~(e > editGeneration)
      <4>1. LiveEdits \subseteq Nat
        BY DEF LiveEdits, CleanInv, TypeOK, Editor
      <4> QED
        BY <3>2, <4>1 DEF CleanInv, GenerationsInOrder
    <3> QED
      BY <2>1, <3>2, <3>3
  <2>3. ASSUME NEW opening \in openings, openings' = openings \ {opening}
        PROVE  OnDisk(LiveEdits \ (consented \cup MadeAfterTheAnswer))
    <3>1. opening.since \in Nat /\ Accounted(opening.since)
      BY DEF AnswersHold, CleanInv, TypeOK, Opening
    <3>2. \A e \in LiveEdits : e > opening.since => e \in MadeAfterTheAnswer
      BY <2>3 DEF MadeAfterTheAnswer, LiveEdits
    <3> QED
      BY <2>1, <3>1, <3>2
  <2> QED
    BY <2>2, <2>3, ReplacedByARoute DEF PickFile, TemplateReady
<1> QED
  BY <1>1, AnswersInvariant, PTL DEF Spec, ReplacementLosesNothing
-----------------------------------------------------------------------------
(* RequestedEditsLand and LiveSavesNeverGoBack: here the workbook's own       *)
(* bytes are in the queue too, so that CleanInv is not at hand.  First the    *)
(* two of its parts that do not depend on where bytes come from.              *)

\* The documents and editors are numbered in the order of their coming.
LEMMA IdsStep ==
    ASSUME TypeOK, IdsInOrder, [Next]_vars
    PROVE  IdsInOrder'
<1> USE DEF docVars, jobVars, askVars, lifeVars
<1>1. ASSUME UNCHANGED <<documentRef, documentId>>,
             editor'.id = editor.id /\ editor'.kind = editor.kind
      PROVE  IdsInOrder'
  BY <1>1 DEF IdsInOrder
<1>2. ASSUME UNCHANGED <<documentRef, documentId, editor>> PROVE IdsInOrder'
  BY <1>1, <1>2
<1>3. ASSUME UNCHANGED <<documentRef, documentId>>, FailEditor PROVE IdsInOrder'
  BY <1>1, <1>3 DEF FailEditor, TypeOK, Editor
<1>4. ASSUME NEW kind, NEW path, NEW content, ApplyOpenedDocument(kind, path, content),
             UNCHANGED editor
      PROVE  IdsInOrder'
  BY <1>4 DEF ApplyOpenedDocument, IdsInOrder, TypeOK, Editor
<1>5. CASE EditorStep
  <2>1. CASE Remount
    BY <2>1 DEF Remount, IdsInOrder, NoEditor, TypeOK
  <2>2. CASE EditorReady
    BY <1>1, <2>2 DEF EditorReady, TypeOK, Editor
  <2>3. CASE EditorFails
    BY <1>3, <2>3 DEF EditorFails
  <2>4. CASE Edit
    BY <1>1, <2>4 DEF Edit, TypeOK, Editor
  <2> QED
    BY <1>5, <2>1, <2>2, <2>3, <2>4 DEF EditorStep
<1>6. CASE RequestStep
  BY <1>2, <1>6 DEF RequestStep, Request, RequestWithBytes
<1>7. CASE JobStep
  <2>1. CASE Saved
    <3>1. CASE TargetIsCurrent
      <4>1. /\ documentRef'.id = documentRef.id /\ documentRef'.kind = documentRef.kind
            /\ documentRef # NoDocument /\ UNCHANGED <<documentId, editor>>
        BY <2>1, <3>1 DEF Saved, TargetIsCurrent, TypeOK, Document, NoDocument
      <4> QED
        BY <4>1 DEF IdsInOrder
    <3>2. CASE ~TargetIsCurrent
      BY <1>2, <2>1, <3>2 DEF Saved
    <3> QED
      BY <3>1, <3>2
  <2>2. CASE ~Saved
    <3>1. UNCHANGED <<documentRef, documentId>> /\ (UNCHANGED editor \/ FailEditor)
      BY <1>7, <2>2 DEF JobStep, CancelStaleSave, UseRequestBytes, SerializeNow, SerializeLater,
         Repacked, RepackFails, SerializeNothing, SerializeRefused, SerializeThrows,
         CancelSavePath, PickSavePath, WriteLands, WriteFails, NoBytes, Deliver, SettleUnwritten
    <3> QED
      BY <1>2, <1>3, <3>1
  <2> QED
    BY <2>1, <2>2
<1>8. CASE AskStep
  BY <1>2, <1>8 DEF AskStep, ConfirmCancel, Discard, ConfirmSave, KeepEditing
<1>9. CASE RouteStep
  <2>1. CASE Continue
    <3>1. CASE UNCHANGED docVars
      BY <1>2, <2>1, <3>1 DEF Continue
    <3>2. CASE \E kind, path, content : ApplyOpenedDocument(kind, path, content)
      BY <1>4, <2>1, <3>2 DEF Continue
    <3>3. CASE documentRef' = NoDocument /\ UNCHANGED documentId
      BY <2>1, <3>3 DEF Continue, IdsInOrder
    <3> QED
      BY <2>1, <3>1, <3>2, <3>3 DEF Continue
  <2>2. ASSUME NEW route, NEW p, TakeRoute(route, p) PROVE IdsInOrder'
    BY <1>2, <2>2 DEF TakeRoute
  <2>3. ASSUME NEW opening, OpeningFails(opening) PROVE IdsInOrder'
    BY <1>2, <2>3 DEF OpeningFails
  <2>4. ASSUME NEW opening, NEW p, PickFile(opening, p) PROVE IdsInOrder'
    BY <1>4, <2>4 DEF PickFile
  <2>5. ASSUME NEW opening, NEW kind, TemplateReady(opening, kind) PROVE IdsInOrder'
    BY <1>4, <2>5 DEF TemplateReady
  <2> QED
    BY <1>9, <2>1, <2>2, <2>3, <2>4, <2>5 DEF RouteStep
<1> QED
  BY <1>2, <1>5, <1>6, <1>7, <1>8, <1>9 DEF Next, vars

\* What the steps of the queue do, whoever asks and whatever the bytes are: a
\* queue that stays or loses its oldest operation to an idle one, a save that
\* begins or goes on, a write.
Settles == jobs' = Tail(jobs) /\ work' = IdleWork
Begins(bytes, source, generation) ==
    /\ jobs' = jobs /\ Head(jobs).op # "export"
    /\ work'.phase \in {"prompt", "writing"}
    /\ work'.phase = "writing" => work'.path \in Paths
    /\ work'.bytes = bytes /\ work'.source = source /\ work'.generation = generation

\* Delivering settles an export and takes a save on.
LEMMA DeliverSplits ==
    ASSUME NEW bytes, NEW source, NEW generation, NEW path \in Paths \cup {Untitled},
           Deliver(bytes, source, generation, path)
    PROVE  /\ Settles \/ Begins(bytes, source, generation)
           /\ UNCHANGED docVars
           /\ Head(jobs).op = "export" => Settles
<1>1. CASE Head(jobs).op = "export"
  BY <1>1 DEF Deliver, SettleUnwritten, Settle, Settles, docVars
<1>2. CASE Head(jobs).op # "export"
  <2>1. /\ jobs' = jobs
        /\ work' = [phase |-> IF Head(jobs).op = "saveAs" \/ path = Untitled
                              THEN "prompt" ELSE "writing",
                    bytes |-> bytes, source |-> source,
                    generation |-> generation, path |-> path]
        /\ UNCHANGED docVars
    BY <1>2 DEF Deliver, docVars
  <2>2. Begins(bytes, source, generation)
    BY <1>2, <2>1 DEF Begins
  <2> QED
    BY <1>2, <2>1, <2>2
<1> QED
  BY <1>1, <1>2

\* Without bytes the operation settles, or the seed is taken on.
LEMMA NoBytesSplits ==
    ASSUME NEW generation, NEW path \in Paths \cup {Untitled}, NoBytes(generation, path)
    PROVE  /\ Settles \/ Begins(Head(jobs).target.seed, Head(jobs).target.id, generation)
           /\ UNCHANGED docVars
           /\ Head(jobs).op = "export" => Settles
<1>1. CASE SettleUnwritten("failed")
  BY <1>1 DEF SettleUnwritten, Settle, Settles, docVars
<1>2. CASE Deliver(Head(jobs).target.seed, Head(jobs).target.id, generation, path)
  BY <1>2, DeliverSplits
<1> QED
  BY <1>1, <1>2 DEF NoBytes

-----------------------------------------------------------------------------
(* RequestedEditsLand.  What an operation was asked to save is fixed when it  *)
(* joins the queue; RequestInv says that its bytes hold it from the moment    *)
(* there are bytes, and that nothing of it is live as long as they come from  *)
(* the editor of another document.                                           *)

\* What the live editor shows of the edits made before the operation was requested.
Asked(job) == {e \in LiveEdits : e <= job.generation}

RequestsAreBefore == \A i \in 1..Len(jobs) : jobs[i].generation <= editGeneration

BytesCoverTheirRequest ==
    EditorIsLive => \A i \in 1..Len(jobs) :
        jobs[i].target.id = documentRef.id /\ jobs[i].bytes # None
            => Asked(jobs[i]) \subseteq jobs[i].bytes

WorkCoversItsRequest ==
    EditorIsLive /\ work.phase # "idle" /\ TargetIsCurrent
        => /\ work.bytes = Torn \/ Asked(Head(jobs)) \subseteq work.bytes
           /\ work.phase = "serializing" /\ work.source # documentRef.id
                 => Asked(Head(jobs)) = {}

WrittenIsOnDisk ==
    /\ work.phase \in {"writing", "written"} => work.path \in Paths
    /\ work.phase = "written" => disk[work.path] = work.bytes

RequestInv ==
    /\ TypeOK /\ IdsInOrder
    /\ RequestsAreBefore /\ BytesCoverTheirRequest /\ WorkCoversItsRequest
    /\ WrittenIsOnDisk

\* The operations of a queue carry numbers.
LEMMA JobGenerations ==
    ASSUME TypeOK
    PROVE  \A i \in 1..Len(jobs) : jobs[i].generation \in Nat
<1> SUFFICES ASSUME NEW i \in 1..Len(jobs) PROVE jobs[i].generation \in Nat
  OBVIOUS
<1>1. jobs[i] \in Job
  BY DEF TypeOK
<1> QED
  BY <1>1 DEF Job

\* What is left when the oldest operation is gone.
LEMMA RequestTail ==
    ASSUME RequestInv, jobs # <<>>, jobs' = Tail(jobs)
    PROVE  \A i \in 1..Len(jobs') : i + 1 \in 1..Len(jobs) /\ jobs'[i] = jobs[i + 1]
  BY DEF RequestInv, TypeOK

\* Steps that leave the queue, its work and the disk alone, and show no more
\* than what was shown or is newer than every request.
LEMMA RequestFrame ==
    ASSUME RequestInv, TypeOK', IdsInOrder', UNCHANGED <<disk, jobs, work>>,
           editGeneration <= editGeneration',
           EditorIsLive' => /\ \A e \in LiveEdits' : e > editGeneration
                                                   \/ (EditorIsLive /\ e \in LiveEdits)
                            /\ EditorIsLive => documentRef'.id = documentRef.id
    PROVE  RequestInv'
<1>1. /\ \A i \in 1..Len(jobs) : jobs[i].generation \in Nat /\ jobs[i].generation <= editGeneration
      /\ editGeneration \in Nat /\ editGeneration' \in Nat
  BY JobGenerations DEF RequestInv, RequestsAreBefore, TypeOK
<1>2. RequestsAreBefore'
  BY <1>1 DEF RequestsAreBefore
<1>3. WrittenIsOnDisk'
  BY DEF RequestInv, WrittenIsOnDisk
<1>4. ASSUME NEW i \in 1..Len(jobs), EditorIsLive', NEW e \in LiveEdits',
             e <= jobs[i].generation
      PROVE  EditorIsLive /\ e \in Asked(jobs[i]) /\ documentRef'.id = documentRef.id
  <2>1. e \in Nat
    <3>1. editor'.content \subseteq Nat
      <4>1. editor' \in Editor
        BY DEF TypeOK
      <4> QED
        BY <4>1, ConstantsType DEF Editor
    <3> QED
      BY <3>1 DEF LiveEdits
  <2>2. ~(e > editGeneration)
    BY <1>1, <1>4, <2>1
  <2> QED
    BY <1>4, <2>2 DEF Asked
<1>5. BytesCoverTheirRequest'
  <2> SUFFICES ASSUME EditorIsLive', NEW i \in 1..Len(jobs),
                      jobs[i].target.id = documentRef'.id, jobs[i].bytes # None,
                      NEW e \in LiveEdits', e <= jobs[i].generation
               PROVE  e \in jobs[i].bytes
    BY DEF BytesCoverTheirRequest, Asked
  <2> QED
    BY <1>4 DEF RequestInv, BytesCoverTheirRequest
<1>6. WorkCoversItsRequest'
  <2> SUFFICES ASSUME EditorIsLive', work.phase # "idle", TargetIsCurrent'
               PROVE  /\ work.bytes = Torn \/ Asked(Head(jobs))' \subseteq work.bytes
                      /\ work.phase = "serializing" /\ work.source # documentRef'.id
                            => Asked(Head(jobs))' = {}
    BY DEF WorkCoversItsRequest
  <2>1. 1 \in 1..Len(jobs) /\ Head(jobs) = jobs[1]
    BY DEF RequestInv, TypeOK
  <2>2. ASSUME NEW e \in Asked(Head(jobs))'
        PROVE  /\ EditorIsLive /\ e \in Asked(Head(jobs)) /\ TargetIsCurrent
               /\ documentRef'.id = documentRef.id
    <3>1. e \in LiveEdits' /\ e <= jobs[1].generation
      BY <2>1, <2>2 DEF Asked
    <3>2. EditorIsLive /\ e \in Asked(jobs[1]) /\ documentRef'.id = documentRef.id
      BY <1>4, <2>1, <3>1
    <3> QED
      BY <2>1, <3>2 DEF TargetIsCurrent, EditorIsLive
  <2> QED
    BY <2>2 DEF RequestInv, WorkCoversItsRequest
<1> QED
  BY <1>2, <1>3, <1>5, <1>6 DEF RequestInv

\* An editor that is not live has nothing to cover.
LEMMA RequestNotLive ==
    ASSUME RequestInv, TypeOK', IdsInOrder', UNCHANGED <<disk, jobs, work>>,
           editGeneration <= editGeneration', ~EditorIsLive'
    PROVE  RequestInv'
  BY RequestFrame

\* Nothing of what RequestInv reads has changed.
LEMMA RequestStays ==
    ASSUME RequestInv, TypeOK', IdsInOrder',
           UNCHANGED <<documentRef, editGeneration, editor, disk, jobs, work>>
    PROVE  RequestInv'
<1>1. editGeneration <= editGeneration'
  BY DEF RequestInv, TypeOK
<1> QED
  BY <1>1, RequestFrame DEF EditorIsLive, LiveEdits

\* A request is for edits made until now, and its own bytes hold them all.
LEMMA RequestEnqueue ==
    ASSUME RequestInv, TypeOK', IdsInOrder', NEW op, NEW asked, NEW bytes,
           Enqueue(op, bytes, asked), bytes \in {None, editor.content},
           UNCHANGED <<documentRef, editGeneration, editor, disk, work>>
    PROVE  RequestInv'
<1> DEFINE job == [op |-> op, target |-> documentRef, bytes |-> bytes,
                   generation |-> editGeneration, asked |-> asked]
<1>1. /\ jobs' = Append(jobs, job) /\ jobs \in Seq(Job)
      /\ Len(jobs') = Len(jobs) + 1 /\ Len(jobs) \in Nat
      /\ jobs'[Len(jobs) + 1] = job
      /\ \A i \in 1..Len(jobs) : jobs'[i] = jobs[i]
  BY DEF Enqueue, RequestInv, TypeOK
<1>2. \A i \in 1..Len(jobs') : i \in 1..Len(jobs) \/ jobs'[i] = job
  BY <1>1
<1>3. /\ job.generation = editGeneration /\ job.bytes = bytes
      /\ editGeneration \in Nat /\ editGeneration <= editGeneration
  BY DEF RequestInv, TypeOK
<1>4. (EditorIsLive' <=> EditorIsLive) /\ LiveEdits' = LiveEdits /\ LiveEdits \subseteq editor.content
  BY DEF EditorIsLive, LiveEdits
<1> HIDE DEF job
<1>5. RequestsAreBefore'
  BY <1>1, <1>2, <1>3 DEF RequestInv, RequestsAreBefore
<1>6. BytesCoverTheirRequest'
  <2> SUFFICES ASSUME EditorIsLive, NEW i \in 1..Len(jobs'),
                      jobs'[i].target.id = documentRef.id, jobs'[i].bytes # None,
                      NEW e \in LiveEdits, e <= jobs'[i].generation
               PROVE  e \in jobs'[i].bytes
    BY <1>4 DEF BytesCoverTheirRequest, Asked
  <2>1. CASE i \in 1..Len(jobs)
    BY <1>1, <2>1 DEF RequestInv, BytesCoverTheirRequest, Asked
  <2>2. CASE jobs'[i] = job
    BY <1>3, <1>4, <2>2
  <2> QED
    BY <1>2, <2>1, <2>2
<1>7. WrittenIsOnDisk'
  BY DEF RequestInv, WrittenIsOnDisk
<1>8. WorkCoversItsRequest'
  <2>1. CASE jobs = <<>>
    BY <2>1 DEF RequestInv, TypeOK, WorkCoversItsRequest
  <2>2. CASE jobs # <<>>
    <3>1. Head(jobs') = Head(jobs)
      BY <1>1, <2>2
    <3> QED
      BY <1>4, <3>1 DEF RequestInv, WorkCoversItsRequest, TargetIsCurrent, Asked
  <2> QED
    BY <2>1, <2>2
<1> QED
  BY <1>5, <1>6, <1>7, <1>8 DEF RequestInv

\* A queue whose work is idle, with an operation less or with none less.
LEMMA RequestIdle ==
    ASSUME RequestInv, TypeOK', IdsInOrder', work' = IdleWork,
           jobs' = jobs \/ (jobs # <<>> /\ jobs' = Tail(jobs)),
           documentRef'.id = documentRef.id, documentRef'.seed = documentRef.seed,
           documentRef' = NoDocument <=> documentRef = NoDocument,
           UNCHANGED editGeneration, UNCHANGED editor \/ FailEditor
    PROVE  RequestInv'
<1>1. work'.phase = "idle"
  BY DEF IdleWork
<1>2. \A i \in 1..Len(jobs') : \E j \in 1..Len(jobs) : jobs'[i] = jobs[j]
  BY RequestTail
<1>3. WrittenIsOnDisk' /\ WorkCoversItsRequest'
  BY <1>1 DEF WrittenIsOnDisk, WorkCoversItsRequest
<1>4. RequestsAreBefore'
  BY <1>2 DEF RequestInv, RequestsAreBefore
<1>5. EditorIsLive' => EditorIsLive /\ LiveEdits' = LiveEdits
  BY DEF FailEditor, EditorIsLive, LiveEdits, RequestInv, TypeOK, Editor
<1>6. BytesCoverTheirRequest'
  <2> SUFFICES ASSUME EditorIsLive', NEW i \in 1..Len(jobs'),
                      jobs'[i].target.id = documentRef'.id, jobs'[i].bytes # None
               PROVE  Asked(jobs[i])' \subseteq jobs'[i].bytes
    BY DEF BytesCoverTheirRequest
  <2>1. PICK j \in 1..Len(jobs) : jobs'[i] = jobs[j]
    BY <1>2
  <2> QED
    BY <1>5, <2>1 DEF RequestInv, BytesCoverTheirRequest, Asked
<1> QED
  BY <1>3, <1>4, <1>6 DEF RequestInv

\* Work that goes on with bytes that cover what was asked.
LEMMA RequestWork ==
    ASSUME RequestInv, TypeOK', IdsInOrder', WrittenIsOnDisk',
           UNCHANGED <<jobs, documentRef, editGeneration>>,
           UNCHANGED editor \/ FailEditor,
           work'.phase = "serializing" /\ EditorIsLive' => work'.source = documentRef.id,
           EditorIsLive' /\ EditorIsLive /\ TargetIsCurrent
              => work'.bytes = Torn \/ Asked(Head(jobs)) \subseteq work'.bytes
    PROVE  RequestInv'
<1>1. EditorIsLive' => EditorIsLive /\ LiveEdits' = LiveEdits
  BY DEF FailEditor, EditorIsLive, LiveEdits, RequestInv, TypeOK, Editor
<1>2. RequestsAreBefore'
  BY DEF RequestInv, RequestsAreBefore
<1>3. BytesCoverTheirRequest'
  BY <1>1 DEF RequestInv, BytesCoverTheirRequest, Asked
<1>4. WorkCoversItsRequest'
  BY <1>1 DEF WorkCoversItsRequest, TargetIsCurrent, Asked
<1> QED
  BY <1>2, <1>3, <1>4 DEF RequestInv

\* Mounting, opening, losing and editing a document keep RequestInv.
LEMMA RequestEditorStep ==
    ASSUME RequestInv, TypeOK', IdsInOrder', EditorStep
    PROVE  RequestInv'
<1> USE DEF docVars, jobVars
<1>0. editGeneration \in Nat /\ editGeneration <= editGeneration
  BY DEF RequestInv, TypeOK
<1>1. CASE Remount
  <2>1. ~EditorIsLive'
    BY <1>1 DEF Remount, EditorIsLive, NoEditor
  <2> QED
    BY <1>0, <1>1, <2>1, RequestNotLive DEF Remount
<1>2. CASE EditorReady
  <2>1. LiveEdits' = {}
    BY <1>2 DEF EditorReady, LiveEdits, RequestInv, TypeOK, Editor
  <2> QED
    BY <1>0, <1>2, <2>1, RequestFrame DEF EditorReady
<1>3. CASE EditorFails
  <2>1. ~EditorIsLive'
    BY <1>3 DEF EditorFails, FailEditor, EditorIsLive, RequestInv, TypeOK, Editor
  <2> QED
    BY <1>0, <1>3, <2>1, RequestNotLive DEF EditorFails
<1>4. CASE Edit
  <2>1. /\ EditorIsLive' <=> EditorIsLive
        /\ LiveEdits' \subseteq LiveEdits \cup {editGeneration + 1}
    BY <1>4 DEF Edit, EditorIsLive, LiveEdits, RequestInv, TypeOK, Editor
  <2>2. editGeneration + 1 > editGeneration /\ editGeneration <= editGeneration'
    BY <1>0, <1>4 DEF Edit
  <2> QED
    BY <1>4, <2>1, <2>2, RequestFrame DEF Edit
<1> QED
  BY <1>1, <1>2, <1>3, <1>4 DEF EditorStep

\* Requests, with their own bytes or without, keep RequestInv.
LEMMA RequestRequestStep ==
    ASSUME RequestInv, TypeOK', IdsInOrder', RequestStep
    PROVE  RequestInv'
<1>1. ASSUME NEW op, Request(op) PROVE RequestInv'
  BY <1>1, RequestEnqueue DEF Request, docVars
<1>2. CASE RequestWithBytes
  BY <1>2, RequestEnqueue DEF RequestWithBytes, docVars
<1> QED
  BY <1>1, <1>2 DEF RequestStep

\* The prompts keep RequestInv: Save is one more request.
LEMMA RequestAskStep ==
    ASSUME RequestInv, TypeOK', IdsInOrder', AskStep
    PROVE  RequestInv'
<1>1. CASE ConfirmSave
  BY <1>1, RequestEnqueue DEF ConfirmSave, docVars
<1>2. CASE ConfirmCancel \/ Discard \/ KeepEditing
  BY <1>2, RequestStays DEF ConfirmCancel, Discard, KeepEditing, docVars, jobVars
<1> QED
  BY <1>1, <1>2 DEF AskStep

\* The document that takes the place of another has no live editor yet.
LEMMA RequestRouteStep ==
    ASSUME RequestInv, TypeOK', IdsInOrder', RouteStep
    PROVE  RequestInv'
<1> USE DEF docVars, jobVars
<1>0. editGeneration \in Nat /\ editGeneration <= editGeneration
  BY DEF RequestInv, TypeOK
<1>1. ASSUME NEW kind, NEW path, NEW content, ApplyOpenedDocument(kind, path, content),
             UNCHANGED <<editGeneration, editor, disk, jobs, work>>
      PROVE  RequestInv'
  <2>1. ~EditorIsLive'
    BY <1>1 DEF ApplyOpenedDocument, EditorIsLive, RequestInv, IdsInOrder, TypeOK, Editor
  <2> QED
    BY <1>0, <1>1, <2>1, RequestNotLive
<1>2. CASE Continue
  <2>1. CASE UNCHANGED docVars
    BY <1>2, <2>1, RequestStays DEF Continue
  <2>2. CASE \E kind, path, content : ApplyOpenedDocument(kind, path, content)
    BY <1>1, <1>2, <2>2 DEF Continue
  <2>3. CASE documentRef' = NoDocument
    <3>1. ~EditorIsLive'
      BY <2>3 DEF EditorIsLive
    <3> QED
      BY <1>0, <1>2, <3>1, RequestNotLive DEF Continue
  <2> QED
    BY <1>2, <2>1, <2>2, <2>3 DEF Continue
<1>3. ASSUME NEW route, NEW p, TakeRoute(route, p) PROVE RequestInv'
  BY <1>3, RequestStays DEF TakeRoute
<1>4. ASSUME NEW opening, OpeningFails(opening) PROVE RequestInv'
  BY <1>4, RequestStays DEF OpeningFails
<1>5. ASSUME NEW opening, NEW p, PickFile(opening, p) PROVE RequestInv'
  BY <1>1, <1>5 DEF PickFile
<1>6. ASSUME NEW opening, NEW kind, TemplateReady(opening, kind) PROVE RequestInv'
  BY <1>1, <1>6 DEF TemplateReady
<1> QED
  BY <1>2, <1>3, <1>4, <1>5, <1>6 DEF RouteStep

\* Every step of a save or an export keeps RequestInv.
LEMMA RequestJobStep ==
    ASSUME RequestInv, TypeOK', IdsInOrder', JobStep
    PROVE  RequestInv'
<1>0. jobs # <<>> /\ Head(jobs) = jobs[1] /\ 1 \in 1..Len(jobs)
  <2>1. jobs # <<>>
    BY DEF JobStep, CancelStaleSave, UseRequestBytes, SerializeNow, SerializeLater,
           Repacked, RepackFails, SerializeNothing, SerializeRefused, SerializeThrows,
           CancelSavePath, PickSavePath, WriteLands, WriteFails, Saved, NeedsBytes,
           AtHead, RequestInv, TypeOK
  <2> QED
    BY <2>1 DEF RequestInv, TypeOK
<1>a. /\ Current.path \in Paths \cup {Untitled}
      /\ work.path \in Paths \cup {Untitled}
  BY <1>0, HeadType DEF RequestInv, Document, TypeOK, Work
<1>b. ASSUME Settles, UNCHANGED docVars, UNCHANGED editGeneration,
             UNCHANGED editor \/ FailEditor
      PROVE  RequestInv'
  BY <1>0, <1>b, RequestIdle DEF Settles, docVars
<1>c. ASSUME NEW bytes, NEW source, NEW generation, Begins(bytes, source, generation),
             UNCHANGED docVars, UNCHANGED editGeneration, UNCHANGED editor \/ FailEditor,
             EditorIsLive' /\ EditorIsLive /\ TargetIsCurrent
                => bytes = Torn \/ Asked(Head(jobs)) \subseteq bytes
      PROVE  RequestInv'
  <2>1. WrittenIsOnDisk'
    BY <1>c DEF Begins, WrittenIsOnDisk
  <2> QED
    BY <1>c, <2>1, RequestWork DEF Begins, docVars
<1>d. ASSUME NEW outcome, SettleUnwritten(outcome)
      PROVE  Settles /\ UNCHANGED docVars
  BY <1>d DEF SettleUnwritten, Settle, Settles, docVars
<1>e. EditorIsLive => Asked(Head(jobs)) \subseteq editor.content
  BY DEF Asked, LiveEdits
<1>1. CASE CancelStaleSave
  BY <1>1, <1>b, <1>d DEF CancelStaleSave
<1>2. CASE UseRequestBytes
  <2>1. EditorIsLive /\ TargetIsCurrent => Asked(Head(jobs)) \subseteq Head(jobs).bytes
    BY <1>0, <1>2 DEF UseRequestBytes, HandedOver, TargetIsCurrent, RequestInv,
       BytesCoverTheirRequest
  <2> QED
    BY <1>2, <1>a, <1>b, <1>c, <2>1, DeliverSplits DEF UseRequestBytes
<1>3. CASE SerializeNow
  BY <1>3, <1>a, <1>b, <1>c, <1>e, DeliverSplits DEF SerializeNow
<1>4. CASE SerializeLater
  <2>1. /\ work'.phase = "serializing" /\ work'.bytes = editor.content
        /\ work'.source = editor.id
        /\ UNCHANGED <<documentRef, editGeneration, editor, jobs>>
    BY <1>4 DEF SerializeLater, docVars
  <2>2. WrittenIsOnDisk' /\ (EditorIsLive' => work'.source = documentRef.id)
    BY <2>1 DEF WrittenIsOnDisk, EditorIsLive
  <2> QED
    BY <1>e, <2>1, <2>2, RequestWork
<1>5. CASE Repacked
  <2>1. EditorIsLive /\ TargetIsCurrent
            => work.bytes = Torn \/ Asked(Head(jobs)) \subseteq work.bytes
    BY <1>5 DEF Repacked, RequestInv, WorkCoversItsRequest
  <2> QED
    BY <1>5, <1>a, <1>b, <1>c, <2>1, DeliverSplits DEF Repacked
<1>6. CASE RepackFails
  <2>1. UNCHANGED editor \/ FailEditor
    BY <1>6 DEF RepackFails
  <2>2. EditorIsLive' => UNCHANGED editor /\ editor.id # work.source
    BY <1>6 DEF RepackFails, FailEditor, EditorIsLive, RequestInv, TypeOK, Editor
  <2>3. EditorIsLive' /\ EditorIsLive /\ TargetIsCurrent => Asked(Head(jobs)) = {}
    BY <1>6, <2>2 DEF RepackFails, RequestInv, WorkCoversItsRequest, EditorIsLive
  <2>4. NoBytes(work.generation, work.path) /\ UNCHANGED editGeneration
    BY <1>6 DEF RepackFails
  <2> QED
    BY <1>a, <1>b, <1>c, <2>1, <2>3, <2>4, NoBytesSplits
<1>7. CASE SerializeNothing
  <2>1. EditorIsLive /\ TargetIsCurrent => Head(jobs).op = "export"
    BY <1>7 DEF SerializeNothing, EditorAnswers, EditorIsLive, Current, RequestInv, IdsInOrder
  <2>2. NoBytes(editGeneration, Current.path) /\ UNCHANGED editGeneration /\ UNCHANGED editor
    BY <1>7 DEF SerializeNothing
  <2> QED
    BY <1>a, <1>b, <1>c, <2>1, <2>2, NoBytesSplits
<1>8. CASE SerializeRefused
  BY <1>8, <1>b, <1>d DEF SerializeRefused
<1>9. CASE SerializeThrows
  BY <1>9, <1>b, <1>d DEF SerializeThrows
<1>10. CASE CancelSavePath
  BY <1>10, <1>b, <1>d DEF CancelSavePath
<1>11. ASSUME NEW p \in Paths, PickSavePath(p) PROVE RequestInv'
  <2>1. /\ work'.phase = "writing" /\ work'.bytes = work.bytes /\ work'.path = p
        /\ work.phase = "prompt"
        /\ UNCHANGED <<documentRef, editGeneration, editor, jobs>>
    BY <1>11 DEF PickSavePath, docVars, RequestInv, TypeOK, Work
  <2>2. WrittenIsOnDisk'
    BY <2>1 DEF WrittenIsOnDisk
  <2> QED
    BY <2>1, <2>2, RequestWork DEF RequestInv, WorkCoversItsRequest
<1>12. CASE WriteLands
  <2>1. /\ work'.phase = "written" /\ work'.bytes = work.bytes /\ work'.path = work.path
        /\ work.phase = "writing" /\ work.path \in Paths /\ disk'[work.path] = work.bytes
        /\ UNCHANGED <<documentRef, editGeneration, editor, jobs>>
    BY <1>12 DEF WriteLands, docVars, RequestInv, WrittenIsOnDisk, TypeOK, Work
  <2>2. WrittenIsOnDisk'
    BY <2>1 DEF WrittenIsOnDisk
  <2> QED
    BY <2>1, <2>2, RequestWork DEF RequestInv, WorkCoversItsRequest
<1>13. CASE WriteFails
  <2>1. CASE SettleUnwritten("failed")
    BY <1>13, <1>b, <1>d, <2>1 DEF WriteFails
  <2>2. CASE work' = IdleWork /\ UNCHANGED <<docVars, jobs, askVars>>
    BY <1>13, <2>2, RequestIdle DEF WriteFails, docVars
  <2> QED
    BY <1>13, <2>1, <2>2 DEF WriteFails
<1>14. CASE Saved
  <2>1. /\ documentRef'.id = documentRef.id /\ documentRef'.seed = documentRef.seed
        /\ documentRef' = NoDocument <=> documentRef = NoDocument
    BY <1>14 DEF Saved, TargetIsCurrent, RequestInv, TypeOK, Document, NoDocument
  <2>2. work' = IdleWork /\ jobs' = Tail(jobs) /\ UNCHANGED <<editGeneration, editor>>
    BY <1>14 DEF Saved, Settle
  <2> QED
    BY <1>0, <2>1, <2>2, RequestIdle
<1> QED
  BY <1>1, <1>2, <1>3, <1>4, <1>5, <1>6, <1>7, <1>8, <1>9, <1>10, <1>11, <1>12,
     <1>13, <1>14 DEF JobStep

\* RequestInv holds in every state of a session, workbooks included.
LEMMA RequestInvariant == Spec => []RequestInv
<1>1. Init => RequestInv
  BY TypeInit DEF Init, RequestInv, IdsInOrder, RequestsAreBefore, BytesCoverTheirRequest,
     WorkCoversItsRequest, WrittenIsOnDisk, EditorIsLive, NoEditor, NoDocument, IdleWork
<1>2. RequestInv /\ TypeOK' /\ [Next]_vars => RequestInv'
  <2> SUFFICES ASSUME RequestInv, TypeOK', [Next]_vars PROVE RequestInv'
    OBVIOUS
  <2>1. IdsInOrder'
    BY IdsStep DEF RequestInv
  <2>2. CASE UNCHANGED vars
    BY <2>1, <2>2, RequestStays DEF vars
  <2> QED
    BY <2>1, <2>2, RequestEditorStep, RequestRequestStep, RequestJobStep, RequestAskStep,
       RequestRouteStep DEF Next
<1> QED
  BY <1>1, <1>2, TypeCorrect, PTL DEF Spec

\* Every save that reports success has put on disk the live edits it was asked
\* for: for any queue, any kind of document and any failures before it
\* (performSave behind saveQueueRef).
THEOREM WhatIsRequestedLands == Spec => RequestedEditsLand
<1> DEFINE Lands == Saved /\ TargetIsCurrent /\ EditorIsLive
          => LET path == documentRef'.path
                 asked == {e \in LiveEdits : e <= Head(jobs).generation}
             IN  disk[path] = Torn \/ asked \subseteq disk[path]
<1>1. RequestInv => Lands
  <2> SUFFICES ASSUME RequestInv, Saved, TargetIsCurrent, EditorIsLive
               PROVE  \/ disk[documentRef'.path] = Torn
                      \/ Asked(Head(jobs)) \subseteq disk[documentRef'.path]
    BY DEF Asked
  <2>1. work.phase = "written" /\ documentRef'.path = work.path
    BY DEF Saved, RequestInv, TypeOK, Document, NoDocument, EditorIsLive
  <2>2. disk[work.path] = work.bytes
    BY <2>1 DEF RequestInv, WrittenIsOnDisk
  <2> QED
    BY <2>1, <2>2 DEF RequestInv, WorkCoversItsRequest
<1>2. RequestInv => [Lands]_vars
  BY <1>1
<1> QED
  BY <1>2, RequestInvariant, PTL DEF RequestedEditsLand

-----------------------------------------------------------------------------
(* LiveSavesNeverGoBack.  As long as the first document is open nothing in    *)
(* the queue, under way or on disk is beyond what its editor shows, and a     *)
(* save that was serialized in its turn holds all that the files hold.        *)

\* Before the first document there is nothing.
NothingYet ==
    documentId = 0 =>
        /\ documentRef = NoDocument /\ editor = NoEditor /\ jobs = <<>> /\ ask.phase = "idle"
        /\ \A p \in Paths : disk[p] = {}
        /\ \A i \in 1..Len(drain.waiters) : drain.waiters[i].content = {}

EditorsOfDocuments ==
    /\ editor.id = 0 => editor.state = "loading"
    /\ editor.state = "loading" => editor.content = {}
    /\ work.phase = "serializing" => work.source # 0 /\ work.source <= documentId

OpenedEmpty ==
    documentId = 1 => /\ documentRef.seed = {}
                      /\ \A i \in 1..Len(jobs) : jobs[i].target.seed = {}

\* The editor of the first document, or the one that is going to be it.
MayShow == editor.state = "ready" \/ (editor.state = "loading" /\ documentRef # NoDocument)

Within(content) == content = Torn \/ content \subseteq editor.content

NothingBeyondTheEditor ==
    documentId = 1 /\ MayShow =>
        /\ \A p \in Paths : Within(disk[p])
        /\ \A i \in 1..Len(jobs) : jobs[i].bytes = None \/ Within(jobs[i].bytes)
        /\ work.phase # "idle" => Within(work.bytes)

\* All that the files hold is in `bytes`.
CoversTheDisk(bytes) ==
    \A p \in Paths : disk[p] = Torn \/ bytes = Torn \/ disk[p] \subseteq bytes

SaveCoversTheDisk ==
    /\ documentId = 1 /\ editor.state = "ready"
    /\ work.phase \in {"serializing", "prompt", "writing"} /\ ~HandedOver
    => CoversTheDisk(work.bytes)

ForwardInv ==
    /\ TypeOK /\ IdsInOrder /\ NothingYet /\ EditorsOfDocuments
    /\ OpenedEmpty /\ NothingBeyondTheEditor /\ SaveCoversTheDisk

\* What of the editor ForwardInv asks for when the queue moves on.
SameEditor ==
    /\ documentRef'.id = documentRef.id /\ documentRef'.seed = documentRef.seed
    /\ documentRef' = NoDocument <=> documentRef = NoDocument
    /\ UNCHANGED documentId
    /\ UNCHANGED editor \/ (FailEditor /\ editor.id # 0)

\* A document is open: the part about the start screen says nothing.
LEMMA ForwardOpen ==
    ASSUME ForwardInv, jobs # <<>>, UNCHANGED documentId
    PROVE  NothingYet' /\ documentId # 0
  BY DEF ForwardInv, NothingYet

\* With the same editor, or a failed one, only the files and the work count.
LEMMA ForwardKept ==
    ASSUME ForwardInv, TypeOK', IdsInOrder', jobs # <<>>, SameEditor,
           \A i \in 1..Len(jobs') : \E j \in 1..Len(jobs) : jobs'[i] = jobs[j],
           work'.phase = "serializing" => work'.source # 0 /\ work'.source <= documentId,
           documentId = 1 /\ MayShow /\ MayShow' =>
               /\ \A p \in Paths : Within(disk'[p])
               /\ work'.phase # "idle" => Within(work'.bytes),
           SaveCoversTheDisk'
    PROVE  ForwardInv'
<1>1. NothingYet' /\ documentId # 0 /\ UNCHANGED documentId
  BY ForwardOpen DEF SameEditor
<1>2. editor'.id = editor.id /\ (UNCHANGED editor \/ editor'.state = "failed")
  BY DEF SameEditor, FailEditor, ForwardInv, TypeOK, Editor
<1>3. EditorsOfDocuments'
  BY <1>1, <1>2 DEF SameEditor, FailEditor, ForwardInv, EditorsOfDocuments, TypeOK, Editor
<1>4. OpenedEmpty'
  BY <1>1 DEF SameEditor, ForwardInv, OpenedEmpty
<1>5. MayShow' => MayShow /\ UNCHANGED editor
  BY <1>2 DEF SameEditor, MayShow
<1>6. NothingBeyondTheEditor'
  <2> SUFFICES ASSUME documentId = 1, MayShow'
               PROVE  /\ \A p \in Paths : Within(disk[p])'
                      /\ \A i \in 1..Len(jobs') : jobs'[i].bytes = None \/ Within(jobs[i].bytes)'
                      /\ work'.phase # "idle" => Within(work.bytes)'
    BY <1>1 DEF NothingBeyondTheEditor
  <2>1. \A i \in 1..Len(jobs) : jobs[i].bytes = None \/ Within(jobs[i].bytes)
    BY <1>5 DEF ForwardInv, NothingBeyondTheEditor
  <2>2. MayShow /\ UNCHANGED editor
    BY <1>5
  <2>3. ASSUME NEW i \in 1..Len(jobs') PROVE jobs'[i].bytes = None \/ Within(jobs[i].bytes)'
    <3>1. PICK j \in 1..Len(jobs) : jobs'[i] = jobs[j]
      OBVIOUS
    <3> QED
      BY <2>1, <2>2, <3>1 DEF Within
  <2> QED
    BY <2>2, <2>3 DEF Within
<1> QED
  BY <1>1, <1>3, <1>4, <1>6 DEF ForwardInv

\* The oldest operation is done with, or its window is gone.
LEMMA ForwardIdle ==
    ASSUME ForwardInv, TypeOK', IdsInOrder', jobs # <<>>, SameEditor, work' = IdleWork,
           jobs' = jobs \/ jobs' = Tail(jobs),
           \A p \in Paths : disk'[p] = disk[p] \/ disk'[p] = Torn
    PROVE  ForwardInv'
<1>1. work'.phase = "idle"
  BY DEF IdleWork
<1>2. \A i \in 1..Len(jobs') : \E j \in 1..Len(jobs) : jobs'[i] = jobs[j]
  <2>1. CASE jobs' = jobs
    BY <2>1
  <2>2. CASE jobs' = Tail(jobs)
    <3>1. \A i \in 1..Len(jobs') : i + 1 \in 1..Len(jobs) /\ jobs'[i] = jobs[i + 1]
      BY <2>2 DEF ForwardInv, TypeOK
    <3> QED
      BY <3>1
  <2> QED
    BY <2>1, <2>2
<1>3. SaveCoversTheDisk'
  BY <1>1 DEF SaveCoversTheDisk
<1>4. documentId = 1 /\ MayShow => \A p \in Paths : Within(disk'[p])
  BY DEF ForwardInv, NothingBeyondTheEditor, Within
<1> QED
  BY <1>1, <1>2, <1>3, <1>4, ForwardKept

\* The oldest operation goes on with bytes that show no more than the editor
\* and, serialized in its turn, no less than the files.
LEMMA ForwardWork ==
    ASSUME ForwardInv, TypeOK', IdsInOrder', jobs # <<>>, SameEditor,
           UNCHANGED <<jobs, disk>>,
           work'.phase = "serializing" => work'.source # 0 /\ work'.source <= documentId,
           documentId = 1 /\ MayShow /\ MayShow' => Within(work'.bytes),
           documentId = 1 /\ editor.state = "ready" /\ UNCHANGED editor /\ ~HandedOver
              => CoversTheDisk(work'.bytes)
    PROVE  ForwardInv'
<1>1. UNCHANGED editor \/ editor'.state = "failed"
  BY DEF SameEditor, FailEditor, ForwardInv, TypeOK, Editor
<1>2. SaveCoversTheDisk'
  BY <1>1 DEF SaveCoversTheDisk, SameEditor, HandedOver, CoversTheDisk
<1>3. documentId = 1 /\ MayShow => \A p \in Paths : Within(disk'[p])
  BY DEF ForwardInv, NothingBeyondTheEditor
<1>4. \A i \in 1..Len(jobs') : \E j \in 1..Len(jobs) : jobs'[i] = jobs[j]
  OBVIOUS
<1> QED
  BY <1>2, <1>3, <1>4, ForwardKept

\* Nothing of what ForwardInv reads has changed, or it is about the start screen.
LEMMA ForwardStays ==
    ASSUME ForwardInv, TypeOK', IdsInOrder', NothingYet',
           UNCHANGED <<documentRef, documentId, editor, disk, jobs, work>>
    PROVE  ForwardInv'
  BY DEF ForwardInv, EditorsOfDocuments, OpenedEmpty, NothingBeyondTheEditor, MayShow, Within,
     SaveCoversTheDisk, CoversTheDisk, HandedOver

\* Mounting, opening, losing and editing a document keep ForwardInv.
LEMMA ForwardEditorStep ==
    ASSUME ForwardInv, TypeOK', IdsInOrder', EditorStep
    PROVE  ForwardInv'
<1> USE DEF docVars, jobVars
<1>0. documentId \in Nat /\ editor.id \in Nat
  BY DEF ForwardInv, TypeOK, Editor
<1>1. CASE Remount
  <2>1. documentId # 0
    BY <1>1 DEF Remount, ForwardInv, NothingYet, NoDocument, NoEditor
  <2>2. /\ UNCHANGED <<documentRef, documentId, disk, jobs, work>>
        /\ editor'.state = "loading" /\ editor'.content = {} /\ editor'.id = documentRef.id
    BY <1>1 DEF Remount, NoEditor, NoDocument
  <2>3. NothingYet' /\ EditorsOfDocuments' /\ OpenedEmpty'
    BY <2>1, <2>2 DEF NothingYet, ForwardInv, EditorsOfDocuments, OpenedEmpty
  <2>4. ASSUME documentId = 1, MayShow' PROVE MayShow /\ editor.content = {}
    <3>1. documentRef # NoDocument /\ documentRef.id = 1
      BY <2>2, <2>4 DEF MayShow, ForwardInv, IdsInOrder
    <3>2. editor.id <= 1 /\ editor.id # 1
      BY <1>1, <2>4, <3>1 DEF Remount, ForwardInv, IdsInOrder
    <3>3. editor.id = 0
      BY <1>0, <3>2
    <3> QED
      BY <3>1, <3>3 DEF ForwardInv, EditorsOfDocuments, MayShow
  <2>5. NothingBeyondTheEditor'
    BY <2>2, <2>4 DEF ForwardInv, NothingBeyondTheEditor, Within
  <2>6. SaveCoversTheDisk'
    BY <2>2 DEF SaveCoversTheDisk
  <2> QED
    BY <2>3, <2>5, <2>6 DEF ForwardInv
<1>2. CASE EditorReady
  <2>1. /\ editor'.state = "ready" /\ editor'.content = documentRef.seed
        /\ editor'.id = editor.id /\ editor.id # 0 /\ documentRef # NoDocument
        /\ editor.state = "loading"
        /\ UNCHANGED <<documentRef, documentId, disk, jobs, work>>
    BY <1>2 DEF EditorReady, ForwardInv, TypeOK, Editor, Document
  <2>2. documentId # 0
    BY <2>1 DEF ForwardInv, NothingYet
  <2>3. NothingYet' /\ EditorsOfDocuments' /\ OpenedEmpty'
    BY <2>1, <2>2 DEF NothingYet, ForwardInv, EditorsOfDocuments, OpenedEmpty
  <2>4. documentId = 1 => MayShow /\ editor.content = {} /\ editor'.content = {}
    BY <2>1 DEF ForwardInv, MayShow, EditorsOfDocuments, OpenedEmpty
  <2>5. NothingBeyondTheEditor'
    BY <2>1, <2>4 DEF ForwardInv, NothingBeyondTheEditor, Within
  <2>6. SaveCoversTheDisk'
    BY <2>1, <2>4 DEF ForwardInv, NothingBeyondTheEditor, Within, SaveCoversTheDisk,
       CoversTheDisk
  <2> QED
    BY <2>3, <2>5, <2>6 DEF ForwardInv
<1>3. CASE EditorFails
  <2>1. /\ editor'.state = "failed" /\ editor'.id = editor.id /\ editor.state = "ready"
        /\ UNCHANGED <<documentRef, documentId, disk, jobs, work>>
    BY <1>3 DEF EditorFails, FailEditor, ForwardInv, TypeOK, Editor
  <2>2. documentId # 0 /\ editor.id # 0 /\ ~MayShow'
    BY <2>1 DEF ForwardInv, NothingYet, NoEditor, EditorsOfDocuments, MayShow
  <2> QED
    BY <2>1, <2>2 DEF ForwardInv, NothingYet, EditorsOfDocuments, OpenedEmpty,
       NothingBeyondTheEditor, SaveCoversTheDisk
<1>4. CASE Edit
  <2>1. /\ editor'.state = "ready" /\ editor'.id = editor.id /\ editor.state = "ready"
        /\ editor.content \subseteq editor'.content
        /\ UNCHANGED <<documentRef, documentId, disk, jobs, work>>
    BY <1>4 DEF Edit, ForwardInv, TypeOK, Editor
  <2>2. documentId # 0 /\ editor.id # 0 /\ MayShow
    BY <2>1 DEF ForwardInv, NothingYet, NoEditor, EditorsOfDocuments, MayShow
  <2>3. NothingYet' /\ EditorsOfDocuments' /\ OpenedEmpty'
    BY <2>1, <2>2 DEF NothingYet, ForwardInv, EditorsOfDocuments, OpenedEmpty
  <2>4. NothingBeyondTheEditor'
    BY <2>1, <2>2 DEF ForwardInv, NothingBeyondTheEditor, Within
  <2>5. SaveCoversTheDisk'
    BY <2>1 DEF ForwardInv, SaveCoversTheDisk, CoversTheDisk, HandedOver
  <2> QED
    BY <2>3, <2>4, <2>5 DEF ForwardInv
<1> QED
  BY <1>1, <1>2, <1>3, <1>4 DEF EditorStep

\* A request brings no bytes, or those the editor shows.
LEMMA ForwardEnqueue ==
    ASSUME ForwardInv, TypeOK', IdsInOrder', NEW op, NEW asked, NEW bytes, SomethingOpen,
           Enqueue(op, bytes, asked), bytes \in {None, editor.content},
           UNCHANGED <<documentRef, documentId, editor, disk, work>>
    PROVE  ForwardInv'
<1> DEFINE job == [op |-> op, target |-> documentRef, bytes |-> bytes,
                   generation |-> editGeneration, asked |-> asked]
<1>1. /\ jobs' = Append(jobs, job) /\ jobs \in Seq(Job)
      /\ Len(jobs') = Len(jobs) + 1 /\ Len(jobs) \in Nat
      /\ jobs'[Len(jobs) + 1] = job
      /\ \A i \in 1..Len(jobs) : jobs'[i] = jobs[i]
  BY DEF Enqueue, ForwardInv, TypeOK
<1>2. \A i \in 1..Len(jobs') : (i \in 1..Len(jobs) /\ jobs'[i] = jobs[i]) \/ jobs'[i] = job
  BY <1>1
<1>3. job.bytes \in {None, editor.content} /\ job.target = documentRef
  OBVIOUS
<1>4. jobs # <<>> => Head(jobs') = Head(jobs)
  BY <1>1
<1> HIDE DEF job
<1>5. documentId # 0
  BY DEF ForwardInv, NothingYet, SomethingOpen
<1>6. NothingYet' /\ EditorsOfDocuments'
  BY <1>5 DEF NothingYet, ForwardInv, EditorsOfDocuments
<1>7. OpenedEmpty'
  BY <1>2, <1>3 DEF ForwardInv, OpenedEmpty
<1>8. NothingBeyondTheEditor'
  BY <1>2, <1>3 DEF ForwardInv, NothingBeyondTheEditor, MayShow, Within
<1>9. SaveCoversTheDisk'
  <2>1. CASE jobs = <<>>
    BY <2>1 DEF ForwardInv, TypeOK, SaveCoversTheDisk
  <2>2. CASE jobs # <<>>
    BY <1>4, <2>2 DEF ForwardInv, SaveCoversTheDisk, HandedOver, CoversTheDisk
  <2> QED
    BY <2>1, <2>2
<1> QED
  BY <1>6, <1>7, <1>8, <1>9 DEF ForwardInv

\* Requests, with their own bytes or without, keep ForwardInv.
LEMMA ForwardRequestStep ==
    ASSUME ForwardInv, TypeOK', IdsInOrder', RequestStep
    PROVE  ForwardInv'
<1>1. ASSUME NEW op, Request(op) PROVE ForwardInv'
  BY <1>1, ForwardEnqueue DEF Request, docVars
<1>2. CASE RequestWithBytes
  BY <1>2, ForwardEnqueue DEF RequestWithBytes, docVars
<1> QED
  BY <1>1, <1>2 DEF RequestStep

\* There is a document to be asked about.
LEMMA ForwardAskStep ==
    ASSUME ForwardInv, TypeOK', IdsInOrder', AskStep
    PROVE  ForwardInv'
<1>1. CASE ConfirmSave
  BY <1>1, ForwardEnqueue DEF ConfirmSave, docVars
<1>2. CASE ConfirmCancel \/ Discard \/ KeepEditing
  <2>1. documentId # 0
    BY <1>2 DEF ConfirmCancel, Discard, KeepEditing, ForwardInv, NothingYet
  <2>2. UNCHANGED <<documentRef, documentId, editor, disk, jobs, work>>
    BY <1>2 DEF ConfirmCancel, Discard, KeepEditing, docVars, jobVars
  <2> QED
    BY <2>1, <2>2, ForwardStays DEF NothingYet
<1> QED
  BY <1>1, <1>2 DEF AskStep

\* The first document opens with what was on disk before it, which is nothing.
LEMMA ForwardApply ==
    ASSUME ForwardInv, TypeOK', IdsInOrder', NEW kind, NEW path, NEW content,
           ApplyOpenedDocument(kind, path, content), documentId = 0 => content = {},
           UNCHANGED <<editor, disk, jobs, work>>
    PROVE  ForwardInv'
<1>1. /\ documentId' = documentId + 1 /\ documentId \in Nat
      /\ documentRef'.seed = content /\ documentRef'.id = documentId + 1
  BY DEF ApplyOpenedDocument, ForwardInv, TypeOK
<1>2. NothingYet'
  BY <1>1 DEF NothingYet
<1>3. EditorsOfDocuments'
  <2>1. work.source \in Nat
    BY DEF ForwardInv, TypeOK, Work
  <2> QED
    BY <1>1, <2>1 DEF ForwardInv, EditorsOfDocuments
<1>4. CASE documentId = 0
  <2>1. jobs = <<>> /\ editor = NoEditor /\ (\A p \in Paths : disk[p] = {}) /\ content = {}
    BY <1>4 DEF ForwardInv, NothingYet
  <2>2. work.phase = "idle"
    BY <2>1 DEF ForwardInv, TypeOK
  <2>3. OpenedEmpty' /\ NothingBeyondTheEditor'
    BY <1>1, <2>1, <2>2 DEF OpenedEmpty, NothingBeyondTheEditor, Within, NoEditor
  <2>4. SaveCoversTheDisk'
    BY <2>2 DEF SaveCoversTheDisk
  <2> QED
    BY <1>2, <1>3, <2>3, <2>4 DEF ForwardInv
<1>5. CASE documentId # 0
  <2>1. documentId' # 1
    BY <1>1, <1>5
  <2> QED
    BY <1>2, <1>3, <2>1 DEF ForwardInv, OpenedEmpty, NothingBeyondTheEditor, SaveCoversTheDisk
<1> QED
  BY <1>4, <1>5

\* The continuation of a settled ask keeps ForwardInv.
LEMMA ForwardContinue ==
    ASSUME ForwardInv, TypeOK', IdsInOrder', Continue
    PROVE  ForwardInv'
<1> USE DEF docVars, jobVars
<1>1. /\ UNCHANGED <<editor, disk, jobs, work, ask>> /\ drain.waiters # <<>>
      /\ drain'.waiters = Tail(drain.waiters) /\ drain.waiters \in Seq(Waiter)
  BY DEF Continue, ForwardInv, TypeOK, Drain
<1>2. /\ Head(drain.waiters) = drain.waiters[1] /\ 1 \in 1..Len(drain.waiters)
      /\ \A i \in 1..Len(drain'.waiters) : /\ i + 1 \in 1..Len(drain.waiters)
                                           /\ drain'.waiters[i] = drain.waiters[i + 1]
  BY <1>1
<1>3. documentId = 0 => /\ Head(drain.waiters).content = {} /\ documentRef = NoDocument
                        /\ \A i \in 1..Len(drain'.waiters) : drain'.waiters[i].content = {}
  BY <1>2 DEF ForwardInv, NothingYet
<1>4. CASE UNCHANGED docVars
  <2>1. NothingYet'
    BY <1>1, <1>3, <1>4 DEF ForwardInv, NothingYet
  <2> QED
    BY <1>1, <1>4, <2>1, ForwardStays
<1>5. CASE \E kind, path : ApplyOpenedDocument(kind, path, Head(drain.waiters).content)
  BY <1>1, <1>3, <1>5, ForwardApply
<1>6. CASE documentRef' = NoDocument /\ UNCHANGED documentId
  <2>1. NothingYet'
    BY <1>1, <1>3, <1>6 DEF ForwardInv, NothingYet
  <2>2. OpenedEmpty' /\ EditorsOfDocuments'
    BY <1>1, <1>6 DEF ForwardInv, OpenedEmpty, EditorsOfDocuments, NoDocument
  <2>3. MayShow' => MayShow
    BY <1>1, <1>6 DEF MayShow
  <2>4. NothingBeyondTheEditor' /\ SaveCoversTheDisk'
    BY <1>1, <1>6, <2>3 DEF ForwardInv, NothingBeyondTheEditor, SaveCoversTheDisk, Within,
       CoversTheDisk, HandedOver
  <2> QED
    BY <2>1, <2>2, <2>4 DEF ForwardInv
<1> QED
  BY <1>4, <1>5, <1>6 DEF Continue

\* Replacing the document keeps ForwardInv.
LEMMA ForwardRouteStep ==
    ASSUME ForwardInv, TypeOK', IdsInOrder', RouteStep
    PROVE  ForwardInv'
<1> USE DEF docVars, jobVars, askVars
<1>1. CASE Continue
  BY <1>1, ForwardContinue
<1>2. ASSUME NEW route \in Routes, NEW p \in Paths, TakeRoute(route, p) PROVE ForwardInv'
  <2>1. /\ UNCHANGED <<documentRef, documentId, editor, disk, jobs, work>>
        /\ EnsureSaved(WaiterFor(route, p))
    BY <1>2 DEF TakeRoute
  <2>2. ASSUME documentId = 0 PROVE NothingYet'
    <3>1. ask.phase = "idle" /\ documentRef = NoDocument /\ disk[p] = {}
      BY <2>2 DEF ForwardInv, NothingYet
    <3>2. UNCHANGED ask /\ drain'.waiters = <<WaiterFor(route, p)>>
      BY <2>1, <3>1 DEF EnsureSaved, HasUnsavedEdits
    <3>3. WaiterFor(route, p).content = {}
      BY <3>1 DEF WaiterFor
    <3>4. \A i \in 1..Len(drain'.waiters) : drain'.waiters[i].content = {}
      BY <3>2, <3>3
    <3> QED
      BY <2>1, <2>2, <3>2, <3>4 DEF ForwardInv, NothingYet
  <2>3. NothingYet'
    BY <2>1, <2>2 DEF NothingYet
  <2> QED
    BY <2>1, <2>3, ForwardStays
<1>3. ASSUME NEW opening, OpeningFails(opening) PROVE ForwardInv'
  <2>1. NothingYet'
    BY <1>3 DEF OpeningFails, ForwardInv, NothingYet
  <2> QED
    BY <1>3, <2>1, ForwardStays DEF OpeningFails
<1>4. ASSUME NEW opening, NEW p \in Paths, PickFile(opening, p) PROVE ForwardInv'
  <2>1. documentId = 0 => disk[p] = {}
    BY DEF ForwardInv, NothingYet
  <2> QED
    BY <1>4, <2>1, ForwardApply DEF PickFile
<1>5. ASSUME NEW opening, NEW kind, TemplateReady(opening, kind) PROVE ForwardInv'
  BY <1>5, ForwardApply DEF TemplateReady
<1> QED
  BY <1>1, <1>2, <1>3, <1>4, <1>5 DEF RouteStep

\* Every step of a save or an export keeps ForwardInv.
LEMMA ForwardJobStep ==
    ASSUME ForwardInv, TypeOK', IdsInOrder', JobStep
    PROVE  ForwardInv'
<1> USE DEF docVars
<1>0. jobs # <<>> /\ Head(jobs) = jobs[1] /\ 1 \in 1..Len(jobs)
  <2>1. jobs # <<>>
    BY DEF JobStep, CancelStaleSave, UseRequestBytes, SerializeNow, SerializeLater,
           Repacked, RepackFails, SerializeNothing, SerializeRefused, SerializeThrows,
           CancelSavePath, PickSavePath, WriteLands, WriteFails, Saved, NeedsBytes,
           AtHead, ForwardInv, TypeOK
  <2> QED
    BY <2>1 DEF ForwardInv, TypeOK
<1>a. /\ Current.path \in Paths \cup {Untitled} /\ work.path \in Paths \cup {Untitled}
      /\ documentId \in Nat /\ editor.id \in Nat
  BY <1>0, HeadType DEF ForwardInv, Document, TypeOK, Work, Editor
<1>b. ASSUME Settles, SameEditor, UNCHANGED disk PROVE ForwardInv'
  BY <1>0, <1>b, ForwardIdle DEF Settles
<1>c. ASSUME NEW bytes, NEW source, NEW generation, Begins(bytes, source, generation),
             SameEditor, UNCHANGED disk,
             documentId = 1 /\ MayShow /\ MayShow' => Within(bytes),
             documentId = 1 /\ editor.state = "ready" /\ UNCHANGED editor /\ ~HandedOver
                => CoversTheDisk(bytes)
      PROVE  ForwardInv'
  BY <1>0, <1>c, ForwardWork DEF Begins
<1>d. ASSUME NEW outcome, SettleUnwritten(outcome)
      PROVE  Settles /\ UNCHANGED docVars
  BY <1>d DEF SettleUnwritten, Settle, Settles
<1>e. ASSUME UNCHANGED docVars, UNCHANGED editor PROVE SameEditor
  BY <1>e DEF SameEditor
<1>f. documentId = 1 /\ MayShow => Within(editor.content) /\ CoversTheDisk(editor.content)
  BY DEF ForwardInv, NothingBeyondTheEditor, Within, CoversTheDisk
\* What stands in for a missing editor is nothing.
<1>g. documentId = 1 => Head(jobs).target.seed = {} /\ Within({})
  BY <1>0 DEF ForwardInv, OpenedEmpty, Within
<1>1. CASE CancelStaleSave
  BY <1>1, <1>b, <1>d, <1>e DEF CancelStaleSave
<1>2. CASE UseRequestBytes
  <2>1. documentId = 1 /\ MayShow => Within(Head(jobs).bytes)
    BY <1>0, <1>2 DEF UseRequestBytes, HandedOver, ForwardInv, NothingBeyondTheEditor
  <2> QED
    BY <1>2, <1>a, <1>b, <1>c, <1>e, <2>1, DeliverSplits DEF UseRequestBytes
<1>3. CASE SerializeNow
  <2>1. Deliver(editor.content, editor.id, editGeneration, Current.path)
        /\ UNCHANGED <<editor, disk>>
    BY <1>3 DEF SerializeNow
  <2>2. documentId = 1 /\ editor.state = "ready" => CoversTheDisk(editor.content)
    BY <1>f DEF MayShow
  <2> QED
    BY <1>a, <1>b, <1>c, <1>e, <1>f, <2>1, <2>2, DeliverSplits
<1>4. CASE SerializeLater
  <2>1. /\ work'.phase = "serializing" /\ work'.bytes = editor.content
        /\ work'.source = editor.id /\ editor.state = "ready"
        /\ UNCHANGED <<docVars, editor, disk, jobs>>
    BY <1>4 DEF SerializeLater, EditorAnswers
  <2>2. work'.source # 0 /\ work'.source <= documentId
    BY <2>1 DEF ForwardInv, EditorsOfDocuments, IdsInOrder
  <2> QED
    BY <1>0, <1>e, <1>f, <2>1, <2>2, ForwardWork DEF MayShow
<1>5. CASE Repacked
  <2>1. documentId = 1 /\ MayShow => Within(work.bytes)
    BY <1>5 DEF Repacked, ForwardInv, NothingBeyondTheEditor
  <2>2. documentId = 1 /\ editor.state = "ready" /\ ~HandedOver => CoversTheDisk(work.bytes)
    BY <1>5 DEF Repacked, ForwardInv, SaveCoversTheDisk
  <2> QED
    BY <1>5, <1>a, <1>b, <1>c, <1>e, <2>1, <2>2, DeliverSplits DEF Repacked
<1>6. CASE RepackFails
  <2>1. /\ work.phase = "serializing" /\ NoBytes(work.generation, work.path)
        /\ UNCHANGED disk
        /\ IF editor.id = work.source THEN FailEditor ELSE UNCHANGED editor
    BY <1>6 DEF RepackFails
  <2>2. work.source # 0 /\ work.source <= documentId /\ work.source \in Nat
    BY <2>1 DEF ForwardInv, EditorsOfDocuments, TypeOK, Work
  <2>3. UNCHANGED docVars
    BY <1>a, <2>1, NoBytesSplits
  <2>4. SameEditor
    BY <2>1, <2>2, <2>3 DEF SameEditor
  <2>5. ~(documentId = 1 /\ editor.state = "ready" /\ UNCHANGED editor)
    <3> SUFFICES ASSUME documentId = 1, editor.state = "ready" PROVE ~UNCHANGED editor
      OBVIOUS
    <3>1. editor.id # 0 /\ editor.id <= 1
      BY DEF ForwardInv, EditorsOfDocuments, IdsInOrder
    <3>2. editor.id = work.source
      BY <1>a, <2>2, <3>1
    <3> QED
      BY <2>1, <3>2 DEF FailEditor, ForwardInv, TypeOK, Editor
  <2> QED
    BY <1>a, <1>b, <1>c, <1>g, <2>1, <2>4, <2>5, NoBytesSplits
<1>7. CASE SerializeNothing
  <2>1. /\ NoBytes(editGeneration, Current.path) /\ UNCHANGED <<editor, disk>>
        /\ NeedsBytes /\ ~EditorAnswers
    BY <1>7 DEF SerializeNothing
  <2>2. SameEditor
    BY <1>a, <1>e, <2>1, NoBytesSplits
  <2>3. documentId = 1 /\ editor.state = "ready" => Head(jobs).op = "export"
    <3> SUFFICES ASSUME documentId = 1, editor.state = "ready", Head(jobs).op # "export"
                 PROVE  FALSE
      OBVIOUS
    <3>1. TargetIsCurrent /\ documentRef # NoDocument /\ Current = documentRef
      BY <2>1 DEF NeedsBytes, TargetIsCurrent, Current
    <3>2. documentRef.id = 1 /\ editor.id # 0 /\ editor.id <= 1
      BY <3>1 DEF ForwardInv, EditorsOfDocuments, IdsInOrder
    <3>3. editor.id = documentRef.id
      BY <1>a, <3>2
    <3> QED
      BY <2>1, <3>1, <3>3 DEF EditorAnswers, ForwardInv, IdsInOrder
  <2>4. Begins(Head(jobs).target.seed, Head(jobs).target.id, editGeneration)
            => Head(jobs).op # "export"
    BY DEF Begins
  <2> QED
    BY <1>a, <1>b, <1>c, <1>g, <2>1, <2>2, <2>3, <2>4, NoBytesSplits
<1>8. CASE SerializeRefused
  BY <1>8, <1>b, <1>d, <1>e DEF SerializeRefused
<1>9. CASE SerializeThrows
  BY <1>9, <1>b, <1>d, <1>e DEF SerializeThrows
<1>10. CASE CancelSavePath
  BY <1>10, <1>b, <1>d, <1>e DEF CancelSavePath
<1>11. ASSUME NEW p \in Paths, PickSavePath(p) PROVE ForwardInv'
  <2>1. /\ work'.phase = "writing" /\ work'.bytes = work.bytes /\ work.phase = "prompt"
        /\ UNCHANGED <<docVars, editor, disk, jobs>>
    BY <1>11 DEF PickSavePath, ForwardInv, TypeOK, Work
  <2>2. documentId = 1 /\ MayShow => Within(work.bytes)
    BY <2>1 DEF ForwardInv, NothingBeyondTheEditor
  <2>3. documentId = 1 /\ editor.state = "ready" /\ ~HandedOver => CoversTheDisk(work.bytes)
    BY <2>1 DEF ForwardInv, SaveCoversTheDisk
  <2> QED
    BY <1>0, <1>e, <2>1, <2>2, <2>3, ForwardWork
<1>12. CASE WriteLands
  <2>1. /\ work'.phase = "written" /\ work'.bytes = work.bytes /\ work.phase = "writing"
        /\ UNCHANGED <<docVars, editor, jobs>>
        /\ \A p \in Paths : disk'[p] = disk[p] \/ disk'[p] = work.bytes
    BY <1>12 DEF WriteLands, ForwardInv, TypeOK, Work
  <2>2. documentId = 1 /\ MayShow => /\ \A p \in Paths : Within(disk'[p])
                                     /\ Within(work'.bytes)
    BY <2>1 DEF ForwardInv, NothingBeyondTheEditor, Within
  <2>3. SaveCoversTheDisk'
    BY <2>1 DEF SaveCoversTheDisk
  <2>4. \A i \in 1..Len(jobs') : \E j \in 1..Len(jobs) : jobs'[i] = jobs[j]
    BY <2>1
  <2> QED
    BY <1>0, <1>e, <2>1, <2>2, <2>3, <2>4, ForwardKept
<1>13. CASE WriteFails
  <2>1. \A p \in Paths : disk'[p] = disk[p] \/ disk'[p] = Torn
    BY <1>13 DEF WriteFails, ForwardInv, TypeOK
  <2>2. work' = IdleWork /\ (jobs' = jobs \/ jobs' = Tail(jobs)) /\ UNCHANGED <<docVars, editor>>
    BY <1>13, <1>d DEF WriteFails, Settles
  <2> QED
    BY <1>0, <1>e, <2>1, <2>2, ForwardIdle
<1>14. CASE Saved
  <2>1. /\ documentRef'.id = documentRef.id /\ documentRef'.seed = documentRef.seed
        /\ documentRef' = NoDocument <=> documentRef = NoDocument
    BY <1>14 DEF Saved, TargetIsCurrent, ForwardInv, TypeOK, Document, NoDocument
  <2>2. Settles /\ UNCHANGED <<documentId, editor, disk>>
    BY <1>14 DEF Saved, Settle, Settles
  <2> QED
    BY <1>b, <2>1, <2>2 DEF SameEditor
<1> QED
  BY <1>1, <1>2, <1>3, <1>4, <1>5, <1>6, <1>7, <1>8, <1>9, <1>10, <1>11, <1>12,
     <1>13, <1>14 DEF JobStep

\* ForwardInv holds in every state of a session, workbooks included.
LEMMA ForwardInvariant == Spec => []ForwardInv
<1>1. Init => ForwardInv
  BY TypeInit DEF Init, ForwardInv, IdsInOrder, NothingYet, EditorsOfDocuments, OpenedEmpty,
     NothingBeyondTheEditor, SaveCoversTheDisk, NoEditor, NoDocument, IdleWork, IdleAsk, NoDrain
<1>2. ForwardInv /\ TypeOK' /\ [Next]_vars => ForwardInv'
  <2> SUFFICES ASSUME ForwardInv, TypeOK', [Next]_vars PROVE ForwardInv'
    OBVIOUS
  <2>1. IdsInOrder'
    BY IdsStep DEF ForwardInv
  <2>2. CASE UNCHANGED vars
    <3>1. NothingYet'
      BY <2>2 DEF vars, ForwardInv, NothingYet
    <3> QED
      BY <2>1, <2>2, <3>1, ForwardStays DEF vars
  <2> QED
    BY <2>1, <2>2, ForwardEditorStep, ForwardRequestStep, ForwardJobStep, ForwardAskStep,
       ForwardRouteStep DEF Next
<1> QED
  BY <1>1, <1>2, TypeCorrect, PTL DEF Spec

\* While the first document is open and its editor lives, no write of a save
\* that was serialized in its turn removes an edit from a file: for any queue,
\* any paths and renames, and workbooks that put bytes of their own between
\* (performSave behind saveQueueRef).
THEOREM SavesLandInOrder == Spec => LiveSavesNeverGoBack
<1> DEFINE Lands == WriteLands /\ documentId = 1 /\ editor.state = "ready" /\ ~HandedOver
                      => \A p \in Paths : ~GoesBack(p)
<1>1. ForwardInv => Lands
  <2> SUFFICES ASSUME ForwardInv, WriteLands, documentId = 1, editor.state = "ready",
                      ~HandedOver, NEW p \in Paths, disk[p] # Torn, disk'[p] # Torn
               PROVE  disk[p] \subseteq disk'[p]
    BY DEF GoesBack
  <2>1. /\ work.phase = "writing"
        /\ disk'[p] = disk[p] \/ disk'[p] = work.bytes
    BY DEF WriteLands, ForwardInv, TypeOK
  <2>2. CoversTheDisk(work.bytes)
    BY <2>1 DEF ForwardInv, SaveCoversTheDisk
  <2> QED
    BY <2>1, <2>2 DEF CoversTheDisk
<1>2. ForwardInv => [Lands]_vars
  BY <1>1
<1> QED
  BY <1>2, ForwardInvariant, PTL DEF LiveSavesNeverGoBack
=============================================================================
