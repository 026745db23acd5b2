------------------------------ MODULE AgentRun ------------------------------
(***************************************************************************)
(* The assistant of the desktop application: runs of the model in the main *)
(* process (desktop/src/main/agent/index.ts and loop.ts) against the panel *)
(* that asks for them, executes their tools and holds their proposals for  *)
(* the user (desktop/src/renderer/components/AgentPanel.tsx).              *)
(*                                                                         *)
(* The two talk over IPC, in order each way.  Runs overlap: one that was   *)
(* cancelled, or replaced by another, goes on until the tool it waits for  *)
(* is answered or times out.  The panel forgets everything when another    *)
(* kind of document takes the workbook's place or its renderer dies.       *)
(*                                                                         *)
(* `told` and `applied` are history: what the model heard of each call and *)
(* how often the panel applied it.  The text of the answer, the notices    *)
(* and the arguments of the tools are left out.                            *)
(***************************************************************************)
EXTENDS Naturals, Sequences, FiniteSetsExt

CONSTANTS
    MaxToolRounds,    \* MAX_TOOL_ROUNDS
    MaxRuns,          \* bound: runs the user asks for
    MaxCalls,         \* bound: tool calls the model asks for
    MaxAgentWindows,  \* bound: windows created
    MaxPanels,        \* bound: panels mounted
    MaxUnhandled      \* bound: calls on their way when the user presses a button

ASSUME AgentAssumption ==
    /\ {MaxRuns, MaxAgentWindows, MaxPanels, MaxUnhandled} \subseteq Nat \ {0}
    /\ {MaxToolRounds, MaxCalls} \subseteq Nat

VARIABLES
    run,      \* the agentRun handlers, by the order they started in
    abort,    \* the run whose controller `abort` holds, NoRun for null
    here,     \* the window in mainWindow, NoWindow for null
    windows,  \* windows created so far
    panel,    \* the mounted AgentPanel: mounted, busy, and the card it shows
    panels,   \* panels mounted so far
    sent,     \* runs asked for so far
    calls,    \* tool calls the model asked for so far
    toPanel,  \* events and tool requests on their way to the renderer
    toMain,   \* calls on their way to the main process, with their sender
    told,     \* history: see above
    applied   \* history: see above

agentVars == <<run, abort, calls, here, windows, panel, panels, sent, toPanel,
               toMain, told, applied>>

history == <<told, applied>>
windowVars == <<here, windows>>
panelVars == <<panel, panels, sent>>

NoRun == 0
NoWindow == 0
Runs == 1..MaxRuns

\* Tool calls are numbered in the order the model asks for them.
Call == 1..MaxCalls
NoCard == 0

\* `round` is the loop's, `turn` the calls of the model's turn that are not
\* answered; a run that waits for a tool waits for the first of them.
Run == [stage : {"new", "model", "tool", "ended"}, round : 0..(MaxToolRounds + 1),
        turn : SUBSET Call, aborted : BOOLEAN, window : 0..MaxAgentWindows]

\* "answered" is a read, or the error of a proposal that does not validate or apply.
Verdict == {"answered", "rejected", "applied"}

ToPanel == [type : {"end"}] \cup [type : {"ask"}, call : Call]
ToMain == [type : {"run", "cancel"}, window : 1..MaxAgentWindows]
          \cup [type : {"result"}, window : 1..MaxAgentWindows, call : Call,
                verdict : Verdict]

AgentTypeOK ==
    /\ run \in [Runs -> Run]
    /\ abort \in Runs \cup {NoRun}
    /\ calls \in 0..MaxCalls
    /\ here \in 0..MaxAgentWindows /\ windows \in 1..MaxAgentWindows
    /\ panel \in [mounted : BOOLEAN, busy : BOOLEAN, card : Call \cup {NoCard}]
    /\ panels \in 0..MaxPanels /\ sent \in 0..MaxRuns
    /\ toPanel \in Seq(ToPanel) /\ toMain \in Seq(ToMain)
    /\ told \in [Call -> Verdict \cup {"nothing", "timed out"}]
    /\ applied \in [Call -> Nat]

Fresh == [stage |-> "new", round |-> 0, turn |-> {}, aborted |-> FALSE,
          window |-> NoWindow]
Unmounted == [mounted |-> FALSE, busy |-> FALSE, card |-> NoCard]

AgentInit ==
    /\ run = [r \in Runs |-> Fresh]
    /\ abort = NoRun /\ calls = 0
    /\ here = 1 /\ windows = 1
    /\ panel = Unmounted /\ panels = 0 /\ sent = 0
    /\ toPanel = <<>> /\ toMain = <<>>
    /\ told = [call \in Call |-> "nothing"]
    /\ applied = [call \in Call |-> 0]

-----------------------------------------------------------------------------
(* The loop of a run. *)

Going(r) == run[r].stage \in {"model", "tool"}

Waits(r, call) == run[r].stage = "tool" /\ call = Min(run[r].turn)

\* runAgentLoop, with the calls `turn` to execute.  Past the budget, and without
\* the window to ask, they are all answered on the spot.
AfterUnbounded(one, turn) ==
    IF turn # {} /\ one.round < MaxToolRounds /\ one.window = here
    THEN [one EXCEPT !.stage = "tool", !.turn = turn]
    ELSE [one EXCEPT !.stage = "model", !.turn = {}, !.round = @ + 1]
After(one, turn) ==
    IF turn # {} /\ one.round < MaxToolRounds /\ one.window = here
    THEN [one EXCEPT !.stage = "tool", !.turn = turn]
    ELSE IF one.round <= MaxToolRounds
    THEN [one EXCEPT !.stage = "model", !.turn = {}, !.round = @ + 1]
    ELSE [one EXCEPT !.stage = "ended", !.turn = {}]

Ended(one) == [one EXCEPT !.stage = "ended", !.turn = {}]

\* finally: a run only lets go of its own controller.
LetGo(r) == NoRun
Released(r) == IF abort = r THEN NoRun ELSE abort

\* emit reaches the window the run was asked from while it is there; an aborted
\* run ends with "done", like one that succeeded.
EndsUnlessAborted(one) == one.stage = "ended" /\ ~one.aborted
EndIsEmitted(one) == one.stage = "ended"
Emitted(one) ==
    IF one.window = here /\ one.stage = "tool"
    THEN <<[type |-> "ask", call |-> Min(one.turn)]>>
    ELSE IF one.window = here /\ EndIsEmitted(one) THEN <<[type |-> "end"]>>
    ELSE <<>>

\* Nothing is kept of a run that is over.
Moves(r, one) ==
    /\ run' = [run EXCEPT ![r] =
                  IF one.stage = "ended" THEN [Fresh EXCEPT !.stage = "ended"] ELSE one]
    /\ abort' = IF one.stage = "ended" THEN Released(r) ELSE abort
    /\ toPanel' = toPanel \o Emitted(one)

\* The model has answered without calls or failed, or it asks for more tools.
ModelAnswers(r) ==
    /\ run[r].stage = "model" /\ ~run[r].aborted
    /\ \/ Moves(r, Ended(run[r])) /\ UNCHANGED calls
       \/ \E last \in (calls + 1)..MaxCalls :
             /\ run[r].round < MaxToolRounds
             /\ Moves(r, After(run[r], (calls + 1)..last))
             /\ calls' = last
       \/ /\ run[r].round >= MaxToolRounds
          /\ Moves(r, After(run[r], {})) /\ UNCHANGED calls
    /\ UNCHANGED <<windowVars, panelVars, toMain, history>>

\* Only a request to the model hears its signal.
RunAborted(r) ==
    /\ run[r].stage = "model" /\ run[r].aborted
    /\ Moves(r, Ended(run[r]))
    /\ UNCHANGED <<calls, windowVars, panelVars, toMain, history>>

\* Five minutes for what the user decides, fifteen seconds for the rest.
TimerUnlessAborted(one) == one.stage = "tool" /\ ~one.aborted
TimerRuns(one) == one.stage = "tool"
ToolTimesOut(r) ==
    /\ TimerRuns(run[r])
    /\ LET call == Min(run[r].turn) IN
          /\ told' = [told EXCEPT ![call] = "timed out"]
          /\ Moves(r, After(run[r], run[r].turn \ {call}))
    /\ UNCHANGED <<calls, windowVars, panelVars, toMain, applied>>

-----------------------------------------------------------------------------
(* The handlers of the main process; only the window's own calls count. *)

Aborted(r) == IF r = NoRun THEN run ELSE [run EXCEPT ![r].aborted = TRUE]

\* agentRun, without a key and with one.
StartRun ==
    \/ /\ toPanel' = Append(toPanel, [type |-> "end"])
       /\ UNCHANGED <<run, abort, told>>
    \/ \E r \in Runs :
          /\ run[r].stage = "new" /\ \A earlier \in 1..(r - 1) : run[earlier].stage # "new"
          /\ run' = [Aborted(abort) EXCEPT ![r] = [Fresh EXCEPT !.stage = "model",
                                                               !.window = here]]
          /\ abort' = r
          /\ UNCHANGED <<toPanel, told>>

CancelRun == run' = Aborted(abort) /\ UNCHANGED <<abort, toPanel, told>>

\* agentToolResult: what timed out is not waited for any more.
ToolResult(call, verdict) ==
    \/ \E r \in Runs :
          /\ Waits(r, call)
          /\ told' = [told EXCEPT ![call] = verdict]
          /\ Moves(r, After(run[r], run[r].turn \ {call}))
    \/ /\ \A r \in Runs : ~Waits(r, call)
       /\ UNCHANGED <<run, abort, toPanel, told>>

MainReceives ==
    /\ toMain # <<>>
    /\ toMain' = Tail(toMain)
    /\ LET message == Head(toMain) IN
       \/ /\ message.window # here
          /\ UNCHANGED <<run, abort, toPanel, told>>
       \/ /\ message.window = here
          /\ \/ message.type = "run" /\ StartRun
             \/ message.type = "cancel" /\ CancelRun
             \/ message.type = "result" /\ ToolResult(message.call, message.verdict)
    /\ UNCHANGED <<calls, windowVars, panelVars, applied>>

-----------------------------------------------------------------------------
(* The panel. *)

Message(type) == [type |-> type, window |-> here]
Result(call, verdict) ==
    [type |-> "result", window |-> here, call |-> call, verdict |-> verdict]

\* An event ends the work; a read is answered at once, and a proposal that does
\* not validate; one that does takes the place of the card.
PanelReceives ==
    /\ toPanel # <<>>
    /\ toPanel' = Tail(toPanel)
    /\ LET message == Head(toPanel) IN
       \/ ~panel.mounted /\ UNCHANGED <<panel, toMain>>
       \/ /\ panel.mounted /\ message.type = "end"
          /\ panel' = [panel EXCEPT !.busy = FALSE]
          /\ UNCHANGED toMain
       \/ /\ panel.mounted /\ message.type = "ask"
          /\ \/ /\ panel' = [panel EXCEPT !.card = message.call]
                /\ UNCHANGED toMain
             \/ /\ toMain' = Append(toMain, Result(message.call, "answered"))
                /\ UNCHANGED panel
    /\ UNCHANGED <<run, abort, calls, windowVars, panels, sent, history>>

\* send
Send ==
    /\ panel.mounted /\ ~panel.busy /\ sent < MaxRuns /\ Len(toMain) < MaxUnhandled
    /\ panel' = [panel EXCEPT !.busy = TRUE]
    /\ sent' = sent + 1
    /\ toMain' = Append(toMain, Message("run"))
    /\ UNCHANGED <<run, abort, calls, windowVars, panels, toPanel, history>>

\* resolveProposal: the card goes before its proposal is applied.
CardKept == panel
CardGone == [panel EXCEPT !.card = NoCard]
Resolve(approve) ==
    /\ panel.card # NoCard
    /\ panel' = CardGone
    /\ \/ /\ approve
          /\ applied' = [applied EXCEPT ![panel.card] = @ + 1]
          /\ toMain' = Append(toMain, Result(panel.card, "applied"))
       \/ /\ approve /\ UNCHANGED applied
          /\ toMain' = Append(toMain, Result(panel.card, "answered"))
       \/ /\ ~approve /\ UNCHANGED applied
          /\ toMain' = Append(toMain, Result(panel.card, "rejected"))
    /\ UNCHANGED <<run, abort, calls, windowVars, panels, sent, toPanel, told>>

\* cancelRun: the card is rejected first.
CancelPressed ==
    /\ panel.mounted /\ panel.busy /\ Len(toMain) < MaxUnhandled
    /\ panel' = CardGone
    /\ toMain' = toMain
         \o (IF panel.card = NoCard THEN <<>> ELSE <<Result(panel.card, "rejected")>>)
         \o <<Message("cancel")>>
    /\ UNCHANGED <<run, abort, calls, windowVars, panels, sent, toPanel, history>>

-----------------------------------------------------------------------------
(* Documents and windows come and go. *)

\* A workbook is opened where there was none: the panel starts from nothing.
Mount ==
    /\ here # NoWindow /\ ~panel.mounted /\ panels < MaxPanels
    /\ panel' = [Unmounted EXCEPT !.mounted = TRUE]
    /\ panels' = panels + 1
    /\ UNCHANGED <<run, abort, calls, windowVars, sent, toPanel, toMain, history>>

\* Another kind of document takes its place, or the renderer dies.
Unmount ==
    /\ panel.mounted
    /\ panel' = Unmounted
    /\ UNCHANGED <<run, abort, calls, windowVars, panels, sent, toPanel, toMain, history>>

WindowCloses ==
    /\ here # NoWindow
    /\ here' = NoWindow
    /\ panel' = Unmounted /\ toPanel' = <<>>
    /\ UNCHANGED <<run, abort, calls, windows, panels, sent, toMain, history>>

WindowOpens ==
    /\ here = NoWindow /\ windows < MaxAgentWindows
    /\ windows' = windows + 1 /\ here' = windows + 1
    /\ UNCHANGED <<run, abort, calls, panelVars, toPanel, toMain, history>>

-----------------------------------------------------------------------------
AgentNext ==
    \/ \E r \in Runs : ModelAnswers(r) \/ RunAborted(r) \/ ToolTimesOut(r)
    \/ MainReceives \/ PanelReceives
    \/ Send \/ CancelPressed \/ \E approve \in BOOLEAN : Resolve(approve)
    \/ Mount \/ Unmount \/ WindowCloses \/ WindowOpens

AgentSpec == AgentInit /\ [][AgentNext]_agentVars

\* Messages arrive, timers fire and the model answers or its connection fails.
\* The user is not required to answer, to cancel or to stay.
AgentFairness ==
    /\ \A r \in Runs : WF_agentVars(ModelAnswers(r) \/ RunAborted(r))
    /\ \A r \in Runs : WF_agentVars(ToolTimesOut(r))
    /\ WF_agentVars(MainReceives) /\ WF_agentVars(PanelReceives)

AgentFairSpec == AgentSpec /\ AgentFairness

-----------------------------------------------------------------------------
(* Properties. *)

\* A cancel reaches the run that is going: whatever runs ended, were replaced or
\* were cancelled before it, every run that nobody gave up is the one whose
\* controller the process holds, and it never holds one of a run that is over.
CancelReachesTheRun ==
    /\ \A r \in Runs : Going(r) /\ ~run[r].aborted => abort = r
    /\ abort # NoRun => Going(abort)

\* What the model was told of a proposal is what became of it, for good: applied
\* once when it heard so, and never when it heard that it was rejected -- after
\* cancels, late answers, replaced cards and panels that came back.
VerdictsHold ==
    \A call \in Call :
        /\ applied[call] <= 1
        /\ told[call] = "applied" => applied[call] = 1
        /\ told[call] \in {"rejected", "answered"} => applied[call] = 0

\* A run ends although nobody answers its proposal, its panel is gone, its window
\* is closed, or it was cancelled while it waited for a tool.
RunsEnd == \A r \in Runs : Going(r) ~> ~Going(r)

\* The panel does not stay busy: an end reaches it for every run it asked for,
\* cancelled and replaced ones included.
BusyEnds == panel.busy ~> ~panel.busy
=============================================================================
