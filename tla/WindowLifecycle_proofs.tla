----------------------- MODULE WindowLifecycle_proofs -----------------------
(***************************************************************************)
(* Proofs about WindowLifecycle: the flags of the process describe the     *)
(* window that is there, and an answer only closes the window that gave    *)
(* it, for any documents, any number of windows and either platform.       *)
(***************************************************************************)
EXTENDS WindowLifecycle, TLAPS

\* TypeOK without the types of the flags.
TheRest ==
    /\ mainWindow \in 0..MaxWindows
    /\ created \in 0..MaxWindows
    /\ renderer \in {"loading", "listening", "gone"}
    /\ answers \subseteq Answers
    /\ pendingOpenPaths \subseteq Paths
    /\ reading \subseteq Paths
    /\ shown \subseteq Paths
    /\ reportedBy \in 0..MaxWindows

FlagsOfAWindow == rendererReady \/ closeRequested => mainWindow # 0

WindowInv == /\ FlagsType /\ TheRest /\ FlagsOfAWindow
             /\ FlagsDescribeTheWindow /\ ReadyIsListening

USE WindowAssumption DEF WindowAssumption

-----------------------------------------------------------------------------
\* The first window is loading and nothing has been asked of it.
LEMMA WindowInit == Init => WindowInv
<1>1. Init => FlagsType
  BY DEF Init, FlagsType
<1>2. Init => TheRest
  BY DEF Init, TheRest
<1>3. Init => FlagsOfAWindow
  BY DEF Init, FlagsOfAWindow
<1>4. Init => FlagsDescribeTheWindow
  BY DEF Init, FlagsDescribeTheWindow
<1>5. Init => ReadyIsListening
  BY DEF Init, ReadyIsListening
<1> QED
  BY <1>1, <1>2, <1>3, <1>4, <1>5 DEF WindowInv

\* What Electron reports of the render process keeps the flags true.
LEMMA RendererSteps ==
    ASSUME WindowInv,
           \/ Activate \/ RendererReady \/ Hang \/ Recover
           \/ Unresponsive \/ Responsive \/ RenderProcessGone
    PROVE  WindowInv'
<1> USE DEF flagVars, pageVars, openVars, Open, ForgetFlags, WindowGone
<1>1. CASE Activate
  <2>1. FlagsType'
    BY <1>1 DEF WindowInv, Activate, FlagsType
  <2>2. TheRest'
    BY <1>1 DEF WindowInv, Activate, TheRest, Answers, ReadyIsListening
  <2>3. FlagsOfAWindow'
    BY <1>1 DEF WindowInv, Activate, FlagsOfAWindow, ReadyIsListening, FlagsType
  <2>4. FlagsDescribeTheWindow'
    BY <1>1 DEF WindowInv, Activate, FlagsDescribeTheWindow, ReadyIsListening, FlagsOfAWindow
  <2>5. ReadyIsListening'
    BY <1>1 DEF WindowInv, Activate, ReadyIsListening, FlagsDescribeTheWindow, TheRest, FlagsOfAWindow
  <2> QED
    BY <2>1, <2>2, <2>3, <2>4, <2>5 DEF WindowInv
<1>2. CASE RendererReady
  <2>1. FlagsType'
    BY <1>2 DEF WindowInv, RendererReady, FlagsType
  <2>2. TheRest'
    BY <1>2 DEF WindowInv, RendererReady, TheRest, Answers, ReadyIsListening
  <2>3. FlagsOfAWindow'
    BY <1>2 DEF WindowInv, RendererReady, FlagsOfAWindow, ReadyIsListening, FlagsType
  <2>4. FlagsDescribeTheWindow'
    BY <1>2 DEF WindowInv, RendererReady, FlagsDescribeTheWindow, ReadyIsListening, FlagsOfAWindow
  <2>5. ReadyIsListening'
    BY <1>2 DEF WindowInv, RendererReady, ReadyIsListening, FlagsDescribeTheWindow, TheRest, FlagsOfAWindow
  <2> QED
    BY <2>1, <2>2, <2>3, <2>4, <2>5 DEF WindowInv
<1>3. CASE Hang
  <2>1. FlagsType'
    BY <1>3 DEF WindowInv, Hang, FlagsType
  <2>2. TheRest'
    BY <1>3 DEF WindowInv, Hang, TheRest, Answers, ReadyIsListening
  <2>3. FlagsOfAWindow'
    BY <1>3 DEF WindowInv, Hang, FlagsOfAWindow, ReadyIsListening, FlagsType
  <2>4. FlagsDescribeTheWindow'
    BY <1>3 DEF WindowInv, Hang, FlagsDescribeTheWindow, ReadyIsListening, FlagsOfAWindow
  <2>5. ReadyIsListening'
    BY <1>3 DEF WindowInv, Hang, ReadyIsListening, FlagsDescribeTheWindow, TheRest, FlagsOfAWindow
  <2> QED
    BY <2>1, <2>2, <2>3, <2>4, <2>5 DEF WindowInv
<1>4. CASE Recover
  <2>1. FlagsType'
    BY <1>4 DEF WindowInv, Recover, FlagsType
  <2>2. TheRest'
    BY <1>4 DEF WindowInv, Recover, TheRest, Answers, ReadyIsListening
  <2>3. FlagsOfAWindow'
    BY <1>4 DEF WindowInv, Recover, FlagsOfAWindow, ReadyIsListening, FlagsType
  <2>4. FlagsDescribeTheWindow'
    BY <1>4 DEF WindowInv, Recover, FlagsDescribeTheWindow, ReadyIsListening, FlagsOfAWindow
  <2>5. ReadyIsListening'
    BY <1>4 DEF WindowInv, Recover, ReadyIsListening, FlagsDescribeTheWindow, TheRest, FlagsOfAWindow
  <2> QED
    BY <2>1, <2>2, <2>3, <2>4, <2>5 DEF WindowInv
<1>5. CASE Unresponsive
  <2>1. FlagsType'
    BY <1>5 DEF WindowInv, Unresponsive, FlagsType
  <2>2. TheRest'
    BY <1>5 DEF WindowInv, Unresponsive, TheRest, Answers, ReadyIsListening
  <2>3. FlagsOfAWindow'
    BY <1>5 DEF WindowInv, Unresponsive, FlagsOfAWindow, ReadyIsListening, FlagsType
  <2>4. FlagsDescribeTheWindow'
    BY <1>5 DEF WindowInv, Unresponsive, FlagsDescribeTheWindow, ReadyIsListening, FlagsOfAWindow
  <2>5. ReadyIsListening'
    BY <1>5 DEF WindowInv, Unresponsive, ReadyIsListening, FlagsDescribeTheWindow, TheRest, FlagsOfAWindow
  <2> QED
    BY <2>1, <2>2, <2>3, <2>4, <2>5 DEF WindowInv
<1>6. CASE Responsive
  <2>1. FlagsType'
    BY <1>6 DEF WindowInv, Responsive, FlagsType
  <2>2. TheRest'
    BY <1>6 DEF WindowInv, Responsive, TheRest, Answers, ReadyIsListening
  <2>3. FlagsOfAWindow'
    BY <1>6 DEF WindowInv, Responsive, FlagsOfAWindow, ReadyIsListening, FlagsType
  <2>4. FlagsDescribeTheWindow'
    BY <1>6 DEF WindowInv, Responsive, FlagsDescribeTheWindow, ReadyIsListening, FlagsOfAWindow
  <2>5. ReadyIsListening'
    BY <1>6 DEF WindowInv, Responsive, ReadyIsListening, FlagsDescribeTheWindow, TheRest, FlagsOfAWindow
  <2> QED
    BY <2>1, <2>2, <2>3, <2>4, <2>5 DEF WindowInv
<1>7. CASE RenderProcessGone
  <2>1. FlagsType'
    BY <1>7 DEF WindowInv, RenderProcessGone, FlagsType
  <2>2. TheRest'
    BY <1>7 DEF WindowInv, RenderProcessGone, TheRest, Answers, ReadyIsListening
  <2>3. FlagsOfAWindow'
    BY <1>7 DEF WindowInv, RenderProcessGone, FlagsOfAWindow, ReadyIsListening, FlagsType
  <2>4. FlagsDescribeTheWindow'
    BY <1>7 DEF WindowInv, RenderProcessGone, FlagsDescribeTheWindow, ReadyIsListening, FlagsOfAWindow
  <2>5. ReadyIsListening'
    BY <1>7 DEF WindowInv, RenderProcessGone, ReadyIsListening, FlagsDescribeTheWindow, TheRest, FlagsOfAWindow
  <2> QED
    BY <2>1, <2>2, <2>3, <2>4, <2>5 DEF WindowInv
<1> QED
  BY <1>1, <1>2, <1>3, <1>4, <1>5, <1>6, <1>7

\* The close event keeps them true: it forgets the flags with the window, or it
\* asks, or it waits for what was asked.
LEMMA CloseEventKeeps ==
    ASSUME WindowInv, mainWindow # 0, running, NEW quits \in BOOLEAN,
           CloseEvent(quits), quitting' \in BOOLEAN,
           UNCHANGED <<created, answers, pendingOpenPaths, reading>>
    PROVE  WindowInv'
<1> USE DEF flagVars, pageVars
<1>1. CASE ForgetFlags /\ WindowGone(quits)
  <2>1. FlagsType'
    BY <1>1 DEF WindowInv, ForgetFlags, WindowGone, FlagsType
  <2>2. TheRest'
    BY <1>1 DEF WindowInv, ForgetFlags, WindowGone, TheRest, Answers, ReadyIsListening
  <2>3. FlagsOfAWindow'
    BY <1>1 DEF WindowInv, ForgetFlags, WindowGone, FlagsOfAWindow, ReadyIsListening, FlagsType
  <2>4. FlagsDescribeTheWindow'
    BY <1>1 DEF WindowInv, ForgetFlags, WindowGone, FlagsDescribeTheWindow, ReadyIsListening, FlagsOfAWindow
  <2>5. ReadyIsListening'
    BY <1>1 DEF WindowInv, ForgetFlags, WindowGone, ReadyIsListening, FlagsDescribeTheWindow, TheRest, FlagsOfAWindow
  <2> QED
    BY <2>1, <2>2, <2>3, <2>4, <2>5 DEF WindowInv
<1>2. CASE UNCHANGED <<mainWindow, flagVars, pageVars, shown, running>>
  <2>1. FlagsType'
    BY <1>2 DEF WindowInv, FlagsType
  <2>2. TheRest'
    BY <1>2 DEF WindowInv, TheRest, Answers, ReadyIsListening
  <2>3. FlagsOfAWindow'
    BY <1>2 DEF WindowInv, FlagsOfAWindow, ReadyIsListening, FlagsType
  <2>4. FlagsDescribeTheWindow'
    BY <1>2 DEF WindowInv, FlagsDescribeTheWindow, ReadyIsListening, FlagsOfAWindow
  <2>5. ReadyIsListening'
    BY <1>2 DEF WindowInv, ReadyIsListening, FlagsDescribeTheWindow, TheRest, FlagsOfAWindow
  <2> QED
    BY <2>1, <2>2, <2>3, <2>4, <2>5 DEF WindowInv
<1>3. CASE /\ closeRequested' = TRUE /\ asked' = TRUE /\ rendererReady
           /\ UNCHANGED <<mainWindow, rendererReady, rendererUnresponsive,
                          reportedBy, renderer, hung, shown, running>>
  <2>1. FlagsType'
    BY <1>3 DEF WindowInv, FlagsType
  <2>2. TheRest'
    BY <1>3 DEF WindowInv, TheRest, Answers, ReadyIsListening
  <2>3. FlagsOfAWindow'
    BY <1>3 DEF WindowInv, FlagsOfAWindow, ReadyIsListening, FlagsType
  <2>4. FlagsDescribeTheWindow'
    BY <1>3 DEF WindowInv, FlagsDescribeTheWindow, ReadyIsListening, FlagsOfAWindow
  <2>5. ReadyIsListening'
    BY <1>3 DEF WindowInv, ReadyIsListening, FlagsDescribeTheWindow, TheRest, FlagsOfAWindow
  <2> QED
    BY <2>1, <2>2, <2>3, <2>4, <2>5 DEF WindowInv
<1> QED
  BY <1>1, <1>2, <1>3 DEF CloseEvent, MayClose

\* The user, a quit and the updater keep them true.
LEMMA ClosingSteps ==
    ASSUME WindowInv, UserCloses \/ UserQuits \/ UpdateInstall
    PROVE  WindowInv'
<1> USE DEF flagVars, pageVars, openVars, Open
<1>1. CASE UserCloses
  <2>1. quitting' \in BOOLEAN
    BY <1>1 DEF UserCloses, WindowInv, FlagsType
  <2> QED
    BY <1>1, <2>1, CloseEventKeeps DEF UserCloses
<1>2. CASE UserQuits /\ mainWindow # 0 /\ CloseEvent(TRUE)
  BY <1>2, CloseEventKeeps DEF UserQuits
<1>3. CASE UserQuits /\ running' = FALSE
             /\ UNCHANGED <<mainWindow, flagVars, pageVars, shown>>
  <2>1. FlagsType'
    BY <1>3 DEF WindowInv, UserQuits, FlagsType
  <2>2. TheRest'
    BY <1>3 DEF WindowInv, UserQuits, TheRest, Answers, ReadyIsListening
  <2>3. FlagsOfAWindow'
    BY <1>3 DEF WindowInv, UserQuits, FlagsOfAWindow, ReadyIsListening, FlagsType
  <2>4. FlagsDescribeTheWindow'
    BY <1>3 DEF WindowInv, UserQuits, FlagsDescribeTheWindow, ReadyIsListening, FlagsOfAWindow
  <2>5. ReadyIsListening'
    BY <1>3 DEF WindowInv, UserQuits, ReadyIsListening, FlagsDescribeTheWindow, TheRest, FlagsOfAWindow
  <2> QED
    BY <2>1, <2>2, <2>3, <2>4, <2>5 DEF WindowInv
<1>4. CASE UpdateInstall /\ quitting' = TRUE /\ WindowGone(TRUE) /\ ForgetFlags
  <2>1. FlagsType'
    BY <1>4 DEF WindowInv, UpdateInstall, WindowGone, ForgetFlags, FlagsType
  <2>2. TheRest'
    BY <1>4 DEF WindowInv, UpdateInstall, WindowGone, ForgetFlags, TheRest, Answers, ReadyIsListening
  <2>3. FlagsOfAWindow'
    BY <1>4 DEF WindowInv, UpdateInstall, WindowGone, ForgetFlags, FlagsOfAWindow, ReadyIsListening, FlagsType
  <2>4. FlagsDescribeTheWindow'
    BY <1>4 DEF WindowInv, UpdateInstall, WindowGone, ForgetFlags, FlagsDescribeTheWindow, ReadyIsListening, FlagsOfAWindow
  <2>5. ReadyIsListening'
    BY <1>4 DEF WindowInv, UpdateInstall, WindowGone, ForgetFlags, ReadyIsListening, FlagsDescribeTheWindow, TheRest, FlagsOfAWindow
  <2> QED
    BY <2>1, <2>2, <2>3, <2>4, <2>5 DEF WindowInv
<1>5. CASE UpdateInstall /\ quitting' = FALSE /\ rendererReady' = TRUE
             /\ UNCHANGED <<mainWindow, closeRequested, rendererUnresponsive,
                            reportedBy, running, pageVars, shown>>
  <2>1. FlagsType'
    BY <1>5 DEF WindowInv, UpdateInstall, FlagsType
  <2>2. TheRest'
    BY <1>5 DEF WindowInv, UpdateInstall, TheRest, Answers, ReadyIsListening
  <2>3. FlagsOfAWindow'
    BY <1>5 DEF WindowInv, UpdateInstall, FlagsOfAWindow, ReadyIsListening, FlagsType
  <2>4. FlagsDescribeTheWindow'
    BY <1>5 DEF WindowInv, UpdateInstall, FlagsDescribeTheWindow, ReadyIsListening, FlagsOfAWindow
  <2>5. ReadyIsListening'
    BY <1>5 DEF WindowInv, UpdateInstall, ReadyIsListening, FlagsDescribeTheWindow, TheRest, FlagsOfAWindow
  <2> QED
    BY <2>1, <2>2, <2>3, <2>4, <2>5 DEF WindowInv
<1> QED
  BY <1>1, <1>2, <1>3, <1>4, <1>5 DEF UserQuits, UpdateInstall

\* An answer that arrives ends the wait it belongs to, and no other.
LEMMA AnswerSteps ==
    ASSUME WindowInv, NEW answer, NEW proceed \in BOOLEAN,
           RendererAnswers(proceed) \/ CloseResponse(answer)
    PROVE  WindowInv'
<1> USE DEF flagVars, pageVars, openVars, Open
<1>1. CASE RendererAnswers(proceed)
  <2>1. FlagsType'
    BY <1>1 DEF WindowInv, RendererAnswers, FlagsType
  <2>2. TheRest'
    BY <1>1 DEF WindowInv, RendererAnswers, TheRest, Answers, ReadyIsListening
  <2>3. FlagsOfAWindow'
    BY <1>1 DEF WindowInv, RendererAnswers, FlagsOfAWindow, ReadyIsListening, FlagsType
  <2>4. FlagsDescribeTheWindow'
    BY <1>1 DEF WindowInv, RendererAnswers, FlagsDescribeTheWindow, ReadyIsListening, FlagsOfAWindow
  <2>5. ReadyIsListening'
    BY <1>1 DEF WindowInv, RendererAnswers, ReadyIsListening, FlagsDescribeTheWindow, TheRest, FlagsOfAWindow
  <2> QED
    BY <2>1, <2>2, <2>3, <2>4, <2>5 DEF WindowInv
<1> DEFINE Answered == /\ answers' = answers \ {answer}
                       /\ UNCHANGED <<created, pendingOpenPaths, reading>>
<1>2. CASE /\ Answered /\ (mainWindow = 0 \/ answer.window # mainWindow)
           /\ UNCHANGED <<mainWindow, flagVars, quitting, running, pageVars, shown>>
  <2>1. FlagsType'
    BY <1>2 DEF WindowInv, FlagsType
  <2>2. TheRest'
    BY <1>2 DEF WindowInv, TheRest, Answers, ReadyIsListening
  <2>3. FlagsOfAWindow'
    BY <1>2 DEF WindowInv, FlagsOfAWindow, ReadyIsListening, FlagsType
  <2>4. FlagsDescribeTheWindow'
    BY <1>2 DEF WindowInv, FlagsDescribeTheWindow, ReadyIsListening, FlagsOfAWindow
  <2>5. ReadyIsListening'
    BY <1>2 DEF WindowInv, ReadyIsListening, FlagsDescribeTheWindow, TheRest, FlagsOfAWindow
  <2> QED
    BY <2>1, <2>2, <2>3, <2>4, <2>5 DEF WindowInv
<1>3. CASE /\ Answered /\ closeRequested' = FALSE /\ quitting' = FALSE
           /\ UNCHANGED <<mainWindow, rendererReady, rendererUnresponsive,
                          reportedBy, running, pageVars, shown>>
  <2>1. FlagsType'
    BY <1>3 DEF WindowInv, FlagsType
  <2>2. TheRest'
    BY <1>3 DEF WindowInv, TheRest, Answers, ReadyIsListening
  <2>3. FlagsOfAWindow'
    BY <1>3 DEF WindowInv, FlagsOfAWindow, ReadyIsListening, FlagsType
  <2>4. FlagsDescribeTheWindow'
    BY <1>3 DEF WindowInv, FlagsDescribeTheWindow, ReadyIsListening, FlagsOfAWindow
  <2>5. ReadyIsListening'
    BY <1>3 DEF WindowInv, ReadyIsListening, FlagsDescribeTheWindow, TheRest, FlagsOfAWindow
  <2> QED
    BY <2>1, <2>2, <2>3, <2>4, <2>5 DEF WindowInv
<1>4. CASE /\ Answered /\ closeRequested' = FALSE /\ rendererReady' = FALSE
           /\ WindowGone(quitting)
           /\ UNCHANGED <<rendererUnresponsive, reportedBy, quitting>>
  <2>1. FlagsType'
    BY <1>4 DEF WindowInv, WindowGone, FlagsType
  <2>2. TheRest'
    BY <1>4 DEF WindowInv, WindowGone, TheRest, Answers, ReadyIsListening
  <2>3. FlagsOfAWindow'
    BY <1>4 DEF WindowInv, WindowGone, FlagsOfAWindow, ReadyIsListening, FlagsType
  <2>4. FlagsDescribeTheWindow'
    BY <1>4 DEF WindowInv, WindowGone, FlagsDescribeTheWindow, ReadyIsListening, FlagsOfAWindow
  <2>5. ReadyIsListening'
    BY <1>4 DEF WindowInv, WindowGone, ReadyIsListening, FlagsDescribeTheWindow, TheRest, FlagsOfAWindow
  <2> QED
    BY <2>1, <2>2, <2>3, <2>4, <2>5 DEF WindowInv
<1> QED
  BY <1>1, <1>2, <1>3, <1>4 DEF CloseResponse, FromMainWindow

\* Documents wait for a ready window and are read only for one.
LEMMA OpenSteps ==
    ASSUME WindowInv, NEW p \in Paths, OpenPath(p) \/ ReadDocument(p)
    PROVE  WindowInv'
<1> USE DEF flagVars, pageVars, openVars, Open, ForgetFlags, WindowGone
<1>1. CASE OpenPath(p)
  <2>1. FlagsType'
    BY <1>1 DEF WindowInv, OpenPath, FlagsType
  <2>2. TheRest'
    BY <1>1 DEF WindowInv, OpenPath, TheRest, Answers, ReadyIsListening
  <2>3. FlagsOfAWindow'
    BY <1>1 DEF WindowInv, OpenPath, FlagsOfAWindow, ReadyIsListening, FlagsType
  <2>4. FlagsDescribeTheWindow'
    BY <1>1 DEF WindowInv, OpenPath, FlagsDescribeTheWindow, ReadyIsListening, FlagsOfAWindow
  <2>5. ReadyIsListening'
    BY <1>1 DEF WindowInv, OpenPath, ReadyIsListening, FlagsDescribeTheWindow, TheRest, FlagsOfAWindow
  <2> QED
    BY <2>1, <2>2, <2>3, <2>4, <2>5 DEF WindowInv
<1>2. CASE ReadDocument(p)
  <2>1. FlagsType'
    BY <1>2 DEF WindowInv, ReadDocument, FlagsType
  <2>2. TheRest'
    BY <1>2 DEF WindowInv, ReadDocument, TheRest, Answers, ReadyIsListening
  <2>3. FlagsOfAWindow'
    BY <1>2 DEF WindowInv, ReadDocument, FlagsOfAWindow, ReadyIsListening, FlagsType
  <2>4. FlagsDescribeTheWindow'
    BY <1>2 DEF WindowInv, ReadDocument, FlagsDescribeTheWindow, ReadyIsListening, FlagsOfAWindow
  <2>5. ReadyIsListening'
    BY <1>2 DEF WindowInv, ReadDocument, ReadyIsListening, FlagsDescribeTheWindow, TheRest, FlagsOfAWindow
  <2> QED
    BY <2>1, <2>2, <2>3, <2>4, <2>5 DEF WindowInv
<1> QED
  BY <1>1, <1>2

\* The strengthened invariant, in every reachable state.
LEMMA WindowInvariant == Spec => []WindowInv
<1>1. WindowInv /\ [Next]_vars => WindowInv'
  <2>1. WindowInv /\ UNCHANGED vars => WindowInv'
    BY DEF vars, WindowInv, FlagsType, TheRest, FlagsOfAWindow, FlagsDescribeTheWindow, ReadyIsListening
  <2> QED
    BY <2>1, RendererSteps, ClosingSteps, AnswerSteps, OpenSteps DEF Next
<1> QED
  BY <1>1, WindowInit, PTL DEF Spec

-----------------------------------------------------------------------------
\* Every variable keeps its type, on either platform.
THEOREM WindowTypeCorrect == Spec => []TypeOK
<1>1. WindowInv => TypeOK
  BY DEF WindowInv, TypeOK, TheRest, FlagsOfAWindow
<1> QED
  BY <1>1, WindowInvariant, PTL

\* The flags of the close handshake describe the window that is there, through
\* crashes, vetoed quits and any number of replaced windows.
THEOREM FlagsAreTrue == Spec => []FlagsDescribeTheWindow
BY WindowInvariant, PTL DEF WindowInv

\* An answer acts on the window that gave it and on no other, however late it
\* arrives and whatever happened to that window meanwhile.
THEOREM AnswersStayWithTheirWindow == Spec => OnlyItsOwnAnswerClosesIt
<1>1. ASSUME [Next]_vars, NEW answer \in answers \ answers', mainWindow' # mainWindow
      PROVE  answer.window = mainWindow
  <2>1. PICK a \in answers : CloseResponse(a)
    BY <1>1 DEF Next, vars, Activate, RendererReady, Hang, Recover, Unresponsive,
       Responsive, RenderProcessGone, UserCloses, UserQuits, UpdateInstall,
       RendererAnswers, OpenPath, ReadDocument
  <2>2. answer = a
    BY <1>1, <2>1 DEF CloseResponse
  <2> QED
    BY <1>1, <2>1, <2>2 DEF CloseResponse, FromMainWindow
<1>2. [Next]_vars
        => [\A answer \in answers \ answers' :
               mainWindow' # mainWindow => answer.window = mainWindow]_vars
  BY <1>1
<1> QED
  BY <1>2, PTL DEF Spec, OnlyItsOwnAnswerClosesIt
=============================================================================
