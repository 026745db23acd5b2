-------------------------- MODULE WindowLifecycle --------------------------
(***************************************************************************)
(* The window of the desktop main process (desktop/src/main/index.ts and   *)
(* closePolicy.ts): the close handshake with the renderer, the quit it may *)
(* belong to, and the documents the operating system asks to open.         *)
(*                                                                         *)
(* There is one window at a time, but on macOS the application outlives it *)
(* and the Dock makes another.  The flags of the handshake are variables   *)
(* of the process, so each of them has to be made to describe the window   *)
(* that is there now.                                                      *)
(*                                                                         *)
(* `reportedBy` is a history variable: the window whose web contents said  *)
(* "unresponsive" and have not said "responsive" since.                    *)
(***************************************************************************)
EXTENDS Naturals

CONSTANTS
    Paths,       \* documents the operating system may ask to open
    Mac,         \* process.platform = 'darwin': closing a window is not quitting
    MaxWindows   \* bound: windows created in the life of the application

ASSUME WindowAssumption == Mac \in BOOLEAN /\ MaxWindows \in Nat \ {0}

VARIABLES
    mainWindow,            \* the window in mainWindow, 0 when there is none
    created,               \* windows created so far
    rendererReady,         \* the renderer said it is listening
    closeRequested,        \* a close waits on the renderer's answer
    rendererUnresponsive,  \* Electron's last word on the renderer
    quitting,              \* a quit is under way
    running,               \* the application has not exited
    renderer,              \* the window's render process
    hung,                  \* it is not handling anything at the moment
    asked,                 \* it holds a close question it has not answered
    answers,               \* close responses on their way to the main process
    pendingOpenPaths,      \* documents waiting for a window
    reading,               \* documents being read for the window
    shown,                 \* documents the window's renderer was sent
    reportedBy             \* history: see above

vars == <<mainWindow, created, rendererReady, closeRequested, rendererUnresponsive,
          quitting, running, renderer, hung, asked, answers, pendingOpenPaths,
          reading, shown, reportedBy>>

flagVars == <<rendererReady, closeRequested, rendererUnresponsive, reportedBy>>
pageVars == <<renderer, hung, asked>>
openVars == <<pendingOpenPaths, reading, shown>>

Answers == [window : 1..MaxWindows, proceed : BOOLEAN]

FlagsType ==
    /\ rendererReady \in BOOLEAN /\ closeRequested \in BOOLEAN
    /\ rendererUnresponsive \in BOOLEAN /\ quitting \in BOOLEAN
    /\ running \in BOOLEAN /\ hung \in BOOLEAN /\ asked \in BOOLEAN

TypeOK ==
    /\ mainWindow \in 0..MaxWindows
    /\ created \in 0..MaxWindows
    /\ FlagsType
    /\ renderer \in {"loading", "listening", "gone"}
    /\ answers \subseteq Answers
    /\ pendingOpenPaths \subseteq Paths
    /\ reading \subseteq Paths
    /\ shown \subseteq Paths
    /\ reportedBy \in 0..MaxWindows
    /\ rendererReady \/ closeRequested => mainWindow # 0

\* whenReady has created the first window.
Init ==
    /\ mainWindow = 1
    /\ created = 1
    /\ rendererReady = FALSE
    /\ closeRequested = FALSE
    /\ rendererUnresponsive = FALSE
    /\ quitting = FALSE
    /\ running = TRUE
    /\ renderer = "loading"
    /\ hung = FALSE
    /\ asked = FALSE
    /\ answers = {}
    /\ pendingOpenPaths = {}
    /\ reading = {}
    /\ shown = {}
    /\ reportedBy = 0

Open == running /\ mainWindow # 0

\* IPC handlers ignore every sender but the window that is open now.
AnySender(window) == TRUE
FromMainWindow(window) == window = mainWindow

\* The three flags, forgotten: a closed window and a dead renderer leave nothing.
ForgetNothing == UNCHANGED flagVars
ForgetReadyOnly == /\ rendererReady' = FALSE
                   /\ UNCHANGED <<closeRequested, rendererUnresponsive, reportedBy>>
ForgetFlags == /\ rendererReady' = FALSE /\ closeRequested' = FALSE
               /\ rendererUnresponsive' = FALSE /\ reportedBy' = 0

-----------------------------------------------------------------------------
(* The render process, and what Electron reports of it. *)

\* createWindow, from the Dock.
Activate ==
    /\ running /\ mainWindow = 0 /\ Mac
    /\ created < MaxWindows
    /\ created' = created + 1
    /\ mainWindow' = created + 1
    /\ rendererReady' = FALSE
    /\ renderer' = "loading" /\ hung' = FALSE /\ asked' = FALSE
    /\ UNCHANGED <<closeRequested, rendererUnresponsive, reportedBy, quitting,
                   running, answers, openVars>>

\* The renderer is listening: what waited for a window is opened in it.
RendererReady ==
    /\ Open /\ renderer = "loading"
    /\ renderer' = "listening"
    /\ rendererReady' = TRUE
    /\ reading' = reading \cup pendingOpenPaths
    /\ pendingOpenPaths' = {}
    /\ UNCHANGED <<mainWindow, created, closeRequested, rendererUnresponsive,
                   reportedBy, quitting, running, hung, asked, answers, shown>>

Hang ==
    /\ Open /\ renderer # "gone" /\ ~hung
    /\ hung' = TRUE
    /\ UNCHANGED <<mainWindow, created, flagVars, quitting, running, renderer,
                   asked, answers, openVars>>

Recover ==
    /\ Open /\ hung
    /\ hung' = FALSE
    /\ UNCHANGED <<mainWindow, created, flagVars, quitting, running, renderer,
                   asked, answers, openVars>>

Unresponsive ==
    /\ Open /\ hung /\ reportedBy # mainWindow
    /\ rendererUnresponsive' = TRUE /\ reportedBy' = mainWindow
    /\ UNCHANGED <<mainWindow, created, rendererReady, closeRequested, quitting,
                   running, pageVars, answers, openVars>>

\* Electron reports it some time after the renderer answers input again.
Responsive ==
    /\ Open /\ renderer # "gone" /\ ~hung /\ reportedBy = mainWindow
    /\ rendererUnresponsive' = FALSE /\ reportedBy' = 0
    /\ UNCHANGED <<mainWindow, created, rendererReady, closeRequested, quitting,
                   running, pageVars, answers, openVars>>

RenderProcessGone ==
    /\ Open /\ renderer # "gone"
    /\ renderer' = "gone" /\ hung' = FALSE /\ asked' = FALSE
    /\ ForgetFlags
    /\ UNCHANGED <<mainWindow, created, quitting, running, answers, openVars>>

-----------------------------------------------------------------------------
(* Closing and quitting. *)

\* closeDecision = 'close': only a renderer that stopped answering ends the wait.
NeverGivesUp == ~rendererReady
MayClose ==
    \/ ~rendererReady
    \/ closeRequested /\ rendererUnresponsive

\* The window goes, and with the last one, off macOS, the application.
\* `quits` says the application was going to exit as soon as it could.
WindowGone(quits) ==
    /\ mainWindow' = 0
    /\ renderer' = "gone" /\ hung' = FALSE /\ asked' = FALSE
    /\ shown' = {}
    /\ running' = (Mac /\ ~quits)

\* The close event, and the closed event that follows when it is let through.
CloseEvent(quits) ==
    \/ /\ MayClose
       /\ WindowGone(quits)
       /\ ForgetFlags
    \/ /\ ~MayClose /\ closeRequested
       /\ UNCHANGED <<mainWindow, flagVars, pageVars, shown, running>>
    \/ /\ ~MayClose /\ ~closeRequested
       /\ closeRequested' = TRUE
       /\ asked' = TRUE
       /\ UNCHANGED <<mainWindow, rendererReady, rendererUnresponsive, reportedBy,
                      renderer, hung, shown, running>>

UserCloses ==
    /\ Open
    /\ CloseEvent(FALSE)
    /\ UNCHANGED <<created, quitting, answers, pendingOpenPaths, reading>>

\* before-quit, then every window is asked to close.
UserQuits ==
    /\ running
    /\ quitting' = TRUE
    /\ \/ mainWindow # 0 /\ CloseEvent(TRUE)
       \/ /\ mainWindow = 0 /\ running' = FALSE
          /\ UNCHANGED <<mainWindow, flagVars, pageVars, shown>>
    /\ UNCHANGED <<created, answers, pendingOpenPaths, reading>>

\* onCloseRequest in the renderer: DocumentSession models how it gets there.
RendererAnswers(proceed) ==
    /\ Open /\ renderer = "listening" /\ ~hung /\ asked
    /\ asked' = FALSE
    /\ answers' = answers \cup {[window |-> mainWindow, proceed |-> proceed]}
    /\ UNCHANGED <<mainWindow, created, flagVars, quitting, running, renderer,
                   hung, openVars>>

\* closeResponse.  destroy() skips the close event, and by the time `closed` is
\* emitted mainWindow is null, so the handler of `closed` resets nothing.
CloseResponse(answer) ==
    /\ running /\ answer \in answers
    /\ answers' = answers \ {answer}
    /\ \/ /\ mainWindow = 0 \/ ~FromMainWindow(answer.window)
          /\ UNCHANGED <<mainWindow, flagVars, quitting, running, pageVars, shown>>
       \/ /\ mainWindow # 0 /\ FromMainWindow(answer.window) /\ ~answer.proceed
          /\ closeRequested' = FALSE /\ quitting' = FALSE
          /\ UNCHANGED <<mainWindow, rendererReady, rendererUnresponsive,
                         reportedBy, running, pageVars, shown>>
       \/ /\ mainWindow # 0 /\ FromMainWindow(answer.window) /\ answer.proceed
          /\ closeRequested' = FALSE /\ rendererReady' = FALSE
          /\ WindowGone(quitting)
          /\ UNCHANGED <<rendererUnresponsive, reportedBy, quitting>>
    /\ UNCHANGED <<created, pendingOpenPaths, reading>>

\* updateInstall: the installer takes the application down, or there is nothing
\* to install and the window goes on as before.
UpdateInstall ==
    /\ Open /\ renderer = "listening" /\ ~hung
    /\ \/ /\ quitting' = TRUE
          /\ WindowGone(TRUE)
          /\ ForgetFlags
       \/ /\ quitting' = FALSE /\ rendererReady' = TRUE
          /\ UNCHANGED <<mainWindow, closeRequested, rendererUnresponsive,
                         reportedBy, running, pageVars, shown>>
    /\ UNCHANGED <<created, answers, pendingOpenPaths, reading>>

-----------------------------------------------------------------------------
(* Documents the operating system asks to open. *)

\* openPathInWindow, from open-file or a second instance.
OpenPath(p) ==
    /\ running
    /\ IF mainWindow # 0 /\ rendererReady
       THEN reading' = reading \cup {p} /\ UNCHANGED pendingOpenPaths
       ELSE pendingOpenPaths' = pendingOpenPaths \cup {p} /\ UNCHANGED reading
    /\ UNCHANGED <<mainWindow, created, flagVars, quitting, running, pageVars,
                   answers, shown>>

\* The file is read, or it is not: by then the window may be gone, or be
\* another one that is not listening yet, and the document is dropped.
ReadDocument(p) ==
    /\ running /\ p \in reading
    /\ reading' = reading \ {p}
    /\ shown' \in {shown, IF renderer = "listening" THEN shown \cup {p} ELSE shown}
    /\ UNCHANGED <<mainWindow, created, flagVars, quitting, running, pageVars,
                   answers, pendingOpenPaths>>

-----------------------------------------------------------------------------
Next ==
    \/ Activate \/ RendererReady \/ Hang \/ Recover
    \/ Unresponsive \/ Responsive \/ RenderProcessGone
    \/ UserCloses \/ UserQuits \/ UpdateInstall
    \/ \E proceed \in BOOLEAN : RendererAnswers(proceed)
    \/ \E answer \in answers : CloseResponse(answer)
    \/ \E p \in Paths : OpenPath(p) \/ ReadDocument(p)

Spec == Init /\ [][Next]_vars

\* A renderer that handles events again and again gets to its answer, the main
\* process takes it, Electron reports a renderer that stays stuck, and the user
\* who wanted the window closed presses close again when nothing happens.
Fairness ==
    /\ SF_vars(\E proceed \in BOOLEAN : RendererAnswers(proceed))
    /\ WF_vars(\E answer \in answers : CloseResponse(answer))
    /\ WF_vars(Unresponsive)
    /\ WF_vars(closeRequested /\ UserCloses)

FairSpec == Spec /\ Fairness

-----------------------------------------------------------------------------
(* Properties. *)

\* The flags of the process describe the window that is there: a ready renderer
\* is listening, nothing waits for it to be, and a close that waits on an answer
\* waits for one that is coming -- after crashes, cancels and replaced windows.
FlagsDescribeTheWindow ==
    /\ rendererReady => renderer = "listening" /\ pendingOpenPaths = {}
    /\ closeRequested => \/ asked
                         \/ [window |-> mainWindow, proceed |-> TRUE] \in answers
                         \/ [window |-> mainWindow, proceed |-> FALSE] \in answers

\* Why FlagsDescribeTheWindow holds: a renderer that is listening is marked
\* ready, and an answer on its way came from a window made before it.
ReadyIsListening ==
    /\ renderer = "listening" => mainWindow # 0 /\ rendererReady
    /\ mainWindow = 0 => renderer = "gone"
    /\ mainWindow <= created

\* A question asked of one window is never answered by another: an answer that
\* arrives after its window was closed and replaced does not take the new one.
OnlyItsOwnAnswerClosesIt ==
    [][\A answer \in answers \ answers' :
          mainWindow' # mainWindow => answer.window = mainWindow]_vars

\* A live, answering renderer is never closed out from under: its window goes
\* when it said so, when Electron reported that very window unresponsive, or
\* when it asked for the update itself.
NotClosedFromUnder ==
    [][mainWindow # 0 /\ mainWindow' # mainWindow /\ rendererReady
          => \/ reportedBy = mainWindow
             \/ [window |-> mainWindow, proceed |-> TRUE] \in answers \ answers'
             \/ UpdateInstall]_vars

\* The wait for an answer ends: with the answer, or with the window.
CloseWaitEnds == closeRequested ~> ~closeRequested
=============================================================================
