-------------------------- MODULE AgentRun_proofs --------------------------
(***************************************************************************)
(* Proofs about the assistant's runs, for any number of runs, calls,       *)
(* windows and panels and any budget of tool rounds.                       *)
(***************************************************************************)
EXTENDS AgentRun, SequenceTheorems, WellFoundedInduction, TLAPS

\* The handlers' own state.
RunsTyped ==
    /\ run \in [Runs -> Run]
    /\ abort \in Runs \cup {NoRun}
    /\ calls \in 0..MaxCalls
    /\ here \in 0..MaxAgentWindows /\ windows \in 1..MaxAgentWindows

RunInv == RunsTyped /\ CancelReachesTheRun

LEMMA AgentBounds ==
    /\ MaxRuns \in Nat /\ MaxAgentWindows \in Nat /\ MaxAgentWindows > 0
    /\ MaxToolRounds \in Nat /\ MaxCalls \in Nat
<1>1. /\ MaxRuns \in Nat \ {0} /\ MaxAgentWindows \in Nat \ {0}
      /\ MaxToolRounds \in Nat /\ MaxCalls \in Nat
  BY AgentAssumption
<1> QED
  BY <1>1

LEMMA FreshTyped == Fresh \in Run
  BY AgentBounds DEF Fresh, Run, NoWindow

\* What the loop makes of a run: it waits for a tool, asks the model or is over.
LEMMA AfterTyped ==
    ASSUME NEW one \in Run, NEW turn, turn \subseteq Call
    PROVE  /\ After(one, turn) \in Run
           /\ After(one, turn).stage \in {"model", "tool", "ended"}
           /\ After(one, turn).aborted = one.aborted
           /\ After(one, turn).window = one.window
           /\ After(one, turn).stage = "tool" => turn # {} /\ After(one, turn).turn = turn
           /\ After(one, turn).stage = "tool" => one.window = here
<1>1. /\ one.round \in Nat /\ one.round <= MaxToolRounds + 1
      /\ one = [stage |-> one.stage, round |-> one.round, turn |-> one.turn,
                aborted |-> one.aborted, window |-> one.window]
  BY AgentBounds DEF Run
<1>2. CASE turn # {} /\ one.round < MaxToolRounds /\ one.window = here
  <2>1. After(one, turn) = [one EXCEPT !.stage = "tool", !.turn = turn]
    BY <1>2 DEF After
  <2> QED
    BY <1>2, <2>1 DEF Run
<1>3. CASE ~(turn # {} /\ one.round < MaxToolRounds /\ one.window = here)
           /\ one.round <= MaxToolRounds
  <2>1. After(one, turn) = [one EXCEPT !.stage = "model", !.turn = {}, !.round = one.round + 1]
    BY <1>3 DEF After
  <2>2. one.round + 1 \in 0..(MaxToolRounds + 1)
    BY <1>1, <1>3, AgentBounds
  <2> QED
    BY <2>1, <2>2 DEF Run
<1>4. CASE ~(turn # {} /\ one.round < MaxToolRounds /\ one.window = here)
           /\ ~(one.round <= MaxToolRounds)
  <2>1. After(one, turn) = [one EXCEPT !.stage = "ended", !.turn = {}]
    BY <1>4 DEF After
  <2> QED
    BY <2>1 DEF Run
<1> QED
  BY <1>2, <1>3, <1>4

LEMMA EndedTyped ==
    ASSUME NEW one \in Run
    PROVE  Ended(one) \in Run /\ Ended(one).stage = "ended" /\ Ended(one).window = one.window
  BY DEF Ended, Run

\* A run that moves keeps its signal, or lets go of its own controller.
LEMMA MovesKeepRuns ==
    ASSUME RunInv, NEW r \in Runs, Going(r), NEW one \in Run,
           one.stage \in {"model", "tool", "ended"},
           one.stage # "ended" => one.aborted = run[r].aborted,
           Moves(r, one), calls' \in 0..MaxCalls, UNCHANGED windowVars
    PROVE  RunInv'
<1> DEFINE kept == IF one.stage = "ended" THEN [Fresh EXCEPT !.stage = "ended"] ELSE one
<1>1. run' = [run EXCEPT ![r] = kept]
  BY DEF Moves
<1>2. kept \in Run /\ kept.stage = one.stage
      /\ (one.stage # "ended" => kept.aborted = run[r].aborted)
  BY FreshTyped DEF Run
<1>3. run \in [Runs -> Run]
  BY DEF RunInv, RunsTyped
<1> HIDE DEF kept
<1>4. run' \in [Runs -> Run] /\ run'[r] = kept /\ \A other \in Runs \ {r} : run'[other] = run[other]
  BY <1>1, <1>2, <1>3
<1>5. abort' = IF one.stage = "ended" THEN Released(r) ELSE abort
  BY DEF Moves
<1>6. abort \in Runs \cup {NoRun} /\ r # NoRun
  BY AgentBounds DEF RunInv, RunsTyped, Runs, NoRun
<1>7. abort' \in Runs \cup {NoRun}
  BY <1>5, <1>6 DEF Released
<1>8. RunsTyped'
  BY <1>4, <1>7 DEF RunInv, RunsTyped, windowVars
<1>9. CancelReachesTheRun'
  <2>1. \A other \in Runs : Going(other)' /\ ~run'[other].aborted => abort' = other
    BY <1>2, <1>4, <1>5 DEF RunInv, CancelReachesTheRun, Going, Released
  <2>2. abort' # NoRun => Going(abort)'
    BY <1>2, <1>4, <1>5, <1>6 DEF RunInv, CancelReachesTheRun, Going, Released
  <2> QED
    BY <2>1, <2>2 DEF CancelReachesTheRun
<1> QED
  BY <1>8, <1>9 DEF RunInv

LEMMA ModelAnswersKeepsRuns ==
    ASSUME RunInv, NEW r \in Runs, ModelAnswers(r)
    PROVE  RunInv'
<1>1. run[r] \in Run /\ Going(r) /\ calls \in 0..MaxCalls /\ UNCHANGED windowVars
  BY DEF RunInv, RunsTyped, ModelAnswers, Going
<1>2. CASE Moves(r, Ended(run[r])) /\ UNCHANGED calls
  BY <1>1, <1>2, EndedTyped, MovesKeepRuns
<1>3. ASSUME NEW last \in (calls + 1)..MaxCalls, Moves(r, After(run[r], (calls + 1)..last)),
             calls' = last
      PROVE  RunInv'
  <2>1. (calls + 1)..last \subseteq Call /\ calls' \in 0..MaxCalls
    BY <1>1, <1>3, AgentBounds DEF Call
  <2> QED
    BY <1>1, <1>3, <2>1, AfterTyped, MovesKeepRuns
<1>4. CASE Moves(r, After(run[r], {})) /\ UNCHANGED calls
  BY <1>1, <1>4, AfterTyped, MovesKeepRuns
<1> QED
  BY <1>2, <1>3, <1>4 DEF ModelAnswers

LEMMA RunAbortedKeepsRuns ==
    ASSUME RunInv, NEW r \in Runs, RunAborted(r)
    PROVE  RunInv'
<1>1. /\ run[r] \in Run /\ Going(r) /\ calls' \in 0..MaxCalls /\ UNCHANGED windowVars
      /\ Moves(r, Ended(run[r]))
  BY DEF RunInv, RunsTyped, RunAborted, Going
<1> QED
  BY <1>1, EndedTyped, MovesKeepRuns

\* A call is answered, or times out.
LEMMA AnswerKeepsRuns ==
    ASSUME RunInv, NEW r \in Runs, run[r].stage = "tool", NEW call,
           Moves(r, After(run[r], run[r].turn \ {call})), UNCHANGED <<calls, windowVars>>
    PROVE  RunInv'
<1>1. run[r] \in Run /\ Going(r) /\ calls' \in 0..MaxCalls
  BY DEF RunInv, RunsTyped, Going
<1>2. run[r].turn \ {call} \subseteq Call
  BY <1>1 DEF Run
<1> QED
  BY <1>1, <1>2, AfterTyped, MovesKeepRuns

\* A run is started or cancelled.
LEMMA StartRunKeepsRuns ==
    ASSUME RunInv, StartRun, UNCHANGED <<calls, windowVars>>
    PROVE  RunInv'
<1>1. CASE UNCHANGED <<run, abort>>
  BY <1>1 DEF RunInv, RunsTyped, CancelReachesTheRun, Going, windowVars
<1>2. ASSUME NEW r \in Runs, run[r].stage = "new", abort' = r,
             run' = [Aborted(abort) EXCEPT ![r] = [Fresh EXCEPT !.stage = "model",
                                                              !.window = here]]
      PROVE  RunInv'
  <2> DEFINE fresh == [Fresh EXCEPT !.stage = "model", !.window = here]
  <2>1. fresh \in Run /\ fresh.stage = "model"
    BY FreshTyped DEF RunInv, RunsTyped, Run
  <2>2. run \in [Runs -> Run] /\ abort \in Runs \cup {NoRun}
    BY DEF RunInv, RunsTyped
  <2>3. Aborted(abort) \in [Runs -> Run]
        /\ \A other \in Runs : /\ Aborted(abort)[other].stage = run[other].stage
                               /\ other = abort => Aborted(abort)[other].aborted
                               /\ other # abort => Aborted(abort)[other] = run[other]
    <3>1. CASE abort = NoRun
      BY <2>2, <3>1, AgentBounds DEF Aborted, Runs, NoRun
    <3>2. CASE abort # NoRun
      <4>1. abort \in Runs /\ run[abort] \in Run
        BY <2>2, <3>2
      <4>2. Aborted(abort) = [run EXCEPT ![abort] = [run[abort] EXCEPT !.aborted = TRUE]]
        BY <2>2, <3>2, <4>1 DEF Aborted
      <4>3. /\ [run[abort] EXCEPT !.aborted = TRUE] \in Run
            /\ [run[abort] EXCEPT !.aborted = TRUE].stage = run[abort].stage
            /\ [run[abort] EXCEPT !.aborted = TRUE].aborted
        BY <4>1 DEF Run
      <4> QED
        BY <2>2, <4>1, <4>2, <4>3
    <3> QED
      BY <3>1, <3>2
  <2> HIDE DEF fresh
  <2>4. run' = [Aborted(abort) EXCEPT ![r] = fresh]
    BY <1>2 DEF fresh
  <2>5. /\ run' \in [Runs -> Run] /\ run'[r] = fresh
        /\ \A other \in Runs \ {r} : run'[other] = Aborted(abort)[other]
    BY <2>1, <2>3, <2>4
  <2>6. RunsTyped'
    BY <1>2, <2>5 DEF RunInv, RunsTyped, windowVars
  <2>7. CancelReachesTheRun'
    BY <1>2, <2>1, <2>3, <2>5 DEF RunInv, CancelReachesTheRun, Going
  <2> QED
    BY <2>6, <2>7 DEF RunInv
<1> QED
  BY <1>1, <1>2 DEF StartRun

LEMMA CancelRunKeepsRuns ==
    ASSUME RunInv, CancelRun, UNCHANGED <<calls, windowVars>>
    PROVE  RunInv'
<1>1. run \in [Runs -> Run] /\ abort \in Runs \cup {NoRun} /\ abort' = abort
      /\ run' = Aborted(abort)
  BY DEF RunInv, RunsTyped, CancelRun
<1>2. CASE abort = NoRun
  BY <1>1, <1>2 DEF Aborted, RunInv, RunsTyped, CancelReachesTheRun, Going, windowVars
<1>3. CASE abort # NoRun
  <2>1. abort \in Runs /\ run[abort] \in Run
    BY <1>1, <1>3
  <2>2. run' = [run EXCEPT ![abort] = [run[abort] EXCEPT !.aborted = TRUE]]
    BY <1>1, <1>3, <2>1 DEF Aborted
  <2>3. /\ [run[abort] EXCEPT !.aborted = TRUE] \in Run
        /\ [run[abort] EXCEPT !.aborted = TRUE].stage = run[abort].stage
    BY <2>1 DEF Run
  <2>4. run' \in [Runs -> Run]
        /\ \A other \in Runs : /\ run'[other].stage = run[other].stage
                               /\ other # abort => run'[other] = run[other]
    BY <1>1, <2>1, <2>2, <2>3
  <2> QED
    BY <1>1, <2>1, <2>4 DEF RunInv, RunsTyped, CancelReachesTheRun, Going, windowVars
<1> QED
  BY <1>2, <1>3

LEMMA RunStep == RunInv /\ [AgentNext]_agentVars => RunInv'
<1> SUFFICES ASSUME RunInv, [AgentNext]_agentVars PROVE RunInv'
  OBVIOUS
<1>1. ASSUME NEW r \in Runs, ModelAnswers(r) PROVE RunInv'
  BY <1>1, ModelAnswersKeepsRuns
<1>2. ASSUME NEW r \in Runs, RunAborted(r) PROVE RunInv'
  BY <1>2, RunAbortedKeepsRuns
<1>3. ASSUME NEW r \in Runs, ToolTimesOut(r) PROVE RunInv'
  BY <1>3, AnswerKeepsRuns DEF ToolTimesOut, TimerRuns
<1>4. CASE MainReceives
  <2>1. UNCHANGED <<calls, windowVars>>
    BY <1>4 DEF MainReceives
  <2>2. CASE UNCHANGED <<run, abort>>
    BY <2>1, <2>2 DEF RunInv, RunsTyped, CancelReachesTheRun, Going, windowVars
  <2>3. CASE StartRun
    BY <2>1, <2>3, StartRunKeepsRuns
  <2>4. CASE CancelRun
    BY <2>1, <2>4, CancelRunKeepsRuns
  <2>5. ASSUME NEW call, NEW verdict, ToolResult(call, verdict) PROVE RunInv'
    <3>1. CASE UNCHANGED <<run, abort>>
      BY <2>2, <3>1
    <3>2. ASSUME NEW r \in Runs, Waits(r, call),
                 Moves(r, After(run[r], run[r].turn \ {call}))
          PROVE  RunInv'
      BY <2>1, <3>2, AnswerKeepsRuns DEF Waits
    <3> QED
      BY <2>5, <3>1, <3>2 DEF ToolResult
  <2> QED
    BY <1>4, <2>2, <2>3, <2>4, <2>5 DEF MainReceives
<1>5. CASE \/ PanelReceives \/ Send \/ CancelPressed \/ \E approve \in BOOLEAN : Resolve(approve)
           \/ Mount \/ Unmount \/ UNCHANGED agentVars
  <2>1. UNCHANGED <<run, abort, calls, here, windows>>
    BY <1>5 DEF PanelReceives, Send, CancelPressed, Resolve, Mount, Unmount, agentVars, windowVars
  <2> QED
    BY <2>1 DEF RunInv, RunsTyped, CancelReachesTheRun, Going
<1>6. CASE WindowCloses \/ WindowOpens
  <2>1. UNCHANGED <<run, abort, calls>> /\ here' \in 0..MaxAgentWindows
        /\ windows' \in 1..MaxAgentWindows
    BY <1>6, AgentBounds DEF RunInv, RunsTyped, WindowCloses, WindowOpens, NoWindow
  <2> QED
    BY <2>1 DEF RunInv, RunsTyped, CancelReachesTheRun, Going
<1> QED
  BY <1>1, <1>2, <1>3, <1>4, <1>5, <1>6 DEF AgentNext

LEMMA RunInit == AgentInit => RunInv
<1> SUFFICES ASSUME AgentInit PROVE RunInv
  OBVIOUS
<1>1. run = [r \in Runs |-> Fresh] /\ abort = NoRun /\ calls = 0 /\ here = 1 /\ windows = 1
  BY DEF AgentInit
<1>2. run \in [Runs -> Run] /\ \A r \in Runs : run[r].stage = "new"
  BY <1>1, FreshTyped DEF Fresh
<1>3. RunsTyped
  BY <1>1, <1>2, AgentBounds DEF RunsTyped
<1> QED
  BY <1>1, <1>2, <1>3 DEF RunInv, CancelReachesTheRun, Going

\* A cancel reaches the run that is going (desktop/src/main/agent/index.ts:129-150,
\* 208-210): the controller in `abort` is that of the one run nobody gave up.
THEOREM CancelAlwaysReachesTheRun == AgentSpec => []CancelReachesTheRun
<1>1. RunInv => CancelReachesTheRun
  BY DEF RunInv
<1> QED
  BY RunInit, RunStep, <1>1, PTL DEF AgentSpec

-----------------------------------------------------------------------------
(* Messages. *)

Elements(s) == {s[i] : i \in 1..Len(s)}

LEMMA AppendedElements ==
    ASSUME NEW S, NEW s \in Seq(S), NEW e \in S
    PROVE  /\ Append(s, e) \in Seq(S) /\ s \o <<e>> = Append(s, e)
           /\ Elements(Append(s, e)) = Elements(s) \cup {e}
<1>1. /\ Append(s, e) \in Seq(S) /\ Len(Append(s, e)) = Len(s) + 1
      /\ \A i \in 1..Len(s) : Append(s, e)[i] = s[i]
      /\ Append(s, e)[Len(s) + 1] = e
  BY AppendProperties
<1>2. s \o <<e>> = Append(s, e)
  BY AppendIsConcat
<1>3. Len(s) \in Nat
  BY LenProperties
<1>4. \A x \in Elements(Append(s, e)) : x \in Elements(s) \cup {e}
  BY <1>1, <1>3 DEF Elements
<1>5. \A x \in Elements(s) \cup {e} : x \in Elements(Append(s, e))
  <2>1. Elements(s) \subseteq Elements(Append(s, e))
    BY <1>1, <1>3 DEF Elements
  <2>2. Len(s) + 1 \in 1..Len(Append(s, e))
    BY <1>1, <1>3
  <2>3. e \in Elements(Append(s, e))
    BY <1>1, <2>2, Zenon DEF Elements
  <2> QED
    BY <2>1, <2>3
<1> QED
  BY <1>1, <1>2, <1>4, <1>5

LEMMA TailElements ==
    ASSUME NEW S, NEW s \in Seq(S), s # <<>>
    PROVE  /\ Tail(s) \in Seq(S) /\ Head(s) \in S /\ Head(s) \in Elements(s)
           /\ Elements(Tail(s)) \subseteq Elements(s)
<1>1. /\ Tail(s) \in Seq(S) /\ Len(Tail(s)) = Len(s) - 1 /\ Head(s) \in S
      /\ \A i \in 1..Len(Tail(s)) : Tail(s)[i] = s[i + 1]
  BY HeadTailProperties
<1>2. Len(s) \in Nat \ {0}
  BY EmptySeq
<1>3. Head(s) = s[1] /\ 1 \in 1..Len(s)
  BY <1>2
<1>4. \A i \in 1..Len(Tail(s)) : i + 1 \in 1..Len(s)
  BY <1>1, <1>2
<1>5. Head(s) \in Elements(s)
  BY <1>3, Zenon DEF Elements
<1>6. Elements(Tail(s)) \subseteq Elements(s)
  BY <1>1, <1>4, Zenon DEF Elements
<1> QED
  BY <1>1, <1>5, <1>6

LEMMA NoElements == Elements(<<>>) = {}
  BY DEF Elements

LEMMA ElementsTyped ==
    ASSUME NEW S, NEW s \in Seq(S)
    PROVE  Elements(s) \subseteq S
  BY DEF Elements

\* The first of some calls.
LEMMA LeastNumber ==
    ASSUME NEW T, T \subseteq Nat, T # {}
    PROVE  Min(T) \in T /\ \A t \in T : Min(T) <= t
<1> DEFINE R == {p \in Nat \X Nat : p[1] < p[2]}
<1>1. IsWellFoundedOn(R, Nat)
  <2>1. OpToRel(<, Nat) = R
    BY DEF OpToRel
  <2> QED
    BY <2>1, NatLessThanWellFounded
<1>2. PICK u \in T : \A y \in T : ~(<<y, u>> \in R)
  BY <1>1, WFMin
<1>3. ASSUME NEW t \in T PROVE u <= t
  <2>1. t \in Nat /\ u \in Nat
    OBVIOUS
  <2>2. <<t, u>> \in Nat \X Nat /\ <<t, u>>[1] = t /\ <<t, u>>[2] = u
    BY <2>1
  <2>3. ~(<<t, u>> \in R)
    BY <1>2
  <2>4. ~(t < u)
    BY <2>2, <2>3
  <2> QED
    BY <2>1, <2>4
<1>4. \E x \in T : \A t \in T : x <= t
  BY <1>3
<1> QED
  BY <1>4 DEF Min

-----------------------------------------------------------------------------
(* Types. *)

MessagesTyped ==
    /\ panel \in [mounted : BOOLEAN, busy : BOOLEAN, card : Call \cup {NoCard}]
    /\ panels \in 0..MaxPanels /\ sent \in 0..MaxRuns
    /\ toPanel \in Seq(ToPanel) /\ toMain \in Seq(ToMain)
    /\ told \in [Call -> Verdict \cup {"nothing", "timed out"}]
    /\ applied \in [Call -> Nat]
    /\ \A r \in Runs : run[r].stage = "tool" => run[r].turn # {}
    /\ panel.mounted => here # NoWindow
    /\ panel.card # NoCard => panel.mounted

LEMMA CallsAreNumbers == Call \subseteq Nat /\ NoCard \notin Call
  BY AgentBounds DEF Call, NoCard

\* What a run that moves sends.
LEMMA EmittedTyped ==
    ASSUME NEW one \in Run, one.stage = "tool" => one.turn # {}
    PROVE  \/ Emitted(one) = <<>>
           \/ Emitted(one) = <<[type |-> "end"]>>
           \/ /\ one.stage = "tool" /\ Min(one.turn) \in Call
              /\ Emitted(one) = <<[type |-> "ask", call |-> Min(one.turn)]>>
<1>1. CASE one.window = here /\ one.stage = "tool"
  <2>1. one.turn \subseteq Call
    BY DEF Run
  <2>2. Min(one.turn) \in Call
    BY <1>1, <2>1, CallsAreNumbers, LeastNumber
  <2> QED
    BY <1>1, <2>2 DEF Emitted
<1>2. CASE ~(one.window = here /\ one.stage = "tool")
  BY <1>2 DEF Emitted
<1> QED
  BY <1>1, <1>2

\* The panel hears more, and the runs still wait for something.
LEMMA MovesAreTyped ==
    ASSUME RunInv, MessagesTyped, NEW r \in Runs, NEW one \in Run,
           one.stage = "tool" => one.turn # {}, Moves(r, one)
    PROVE  /\ toPanel' \in Seq(ToPanel)
           /\ \A q \in Runs : run'[q].stage = "tool" => run'[q].turn # {}
<1>1. toPanel' = toPanel \o Emitted(one) /\ toPanel \in Seq(ToPanel)
  BY DEF Moves, MessagesTyped
<1>2. Emitted(one) \in Seq(ToPanel)
  <2>1. [type |-> "end"] \in ToPanel
    BY DEF ToPanel
  <2>2. CASE Emitted(one) = <<>>
    BY <2>2
  <2>3. CASE Emitted(one) = <<[type |-> "end"]>>
    BY <2>1, <2>3
  <2>4. CASE /\ one.stage = "tool" /\ Min(one.turn) \in Call
             /\ Emitted(one) = <<[type |-> "ask", call |-> Min(one.turn)]>>
    <3>1. [type |-> "ask", call |-> Min(one.turn)] \in ToPanel
      BY <2>4 DEF ToPanel
    <3> QED
      BY <2>4, <3>1
  <2> QED
    BY <2>2, <2>3, <2>4, EmittedTyped
<1>3. toPanel' \in Seq(ToPanel)
  BY <1>1, <1>2, ConcatProperties
<1>4. ASSUME NEW q \in Runs, run'[q].stage = "tool" PROVE run'[q].turn # {}
  <2>1. run \in [Runs -> Run]
    BY DEF RunInv, RunsTyped
  <2>2. CASE q # r
    BY <1>4, <2>1, <2>2 DEF Moves, MessagesTyped
  <2>3. CASE q = r /\ one.stage # "ended"
    BY <1>4, <2>1, <2>3 DEF Moves
  <2>4. CASE q = r /\ one.stage = "ended"
    BY <1>4, <2>1, <2>4 DEF Moves, Fresh
  <2> QED
    BY <2>2, <2>3, <2>4
<1> QED
  BY <1>3, <1>4

LEMMA RunsKeepMessages ==
    ASSUME RunInv, MessagesTyped, NEW r \in Runs,
           ModelAnswers(r) \/ RunAborted(r) \/ ToolTimesOut(r)
    PROVE  MessagesTyped'
<1>1. run[r] \in Run /\ calls \in 0..MaxCalls /\ UNCHANGED <<here, panel, panels, sent, toMain, applied>>
  BY DEF RunInv, RunsTyped, ModelAnswers, RunAborted, ToolTimesOut, windowVars, panelVars, history
<1>2. told' \in [Call -> Verdict \cup {"nothing", "timed out"}]
  BY DEF ModelAnswers, RunAborted, ToolTimesOut, MessagesTyped, history
<1>3. \E one \in Run : (one.stage = "tool" => one.turn # {}) /\ Moves(r, one)
  <2>1. CASE Moves(r, Ended(run[r]))
    BY <1>1, <2>1, EndedTyped
  <2>2. ASSUME NEW turn, turn \subseteq Call, Moves(r, After(run[r], turn))
        PROVE  \E one \in Run : (one.stage = "tool" => one.turn # {}) /\ Moves(r, one)
    BY <1>1, <2>2, AfterTyped
  <2>3. CASE ModelAnswers(r)
    <3>1. ASSUME NEW last \in (calls + 1)..MaxCalls PROVE (calls + 1)..last \subseteq Call
      BY <1>1, AgentBounds DEF Call
    <3>2. CASE \E last \in (calls + 1)..MaxCalls :
                  /\ run[r].round < MaxToolRounds
                  /\ Moves(r, After(run[r], (calls + 1)..last))
                  /\ calls' = last
      BY <2>2, <3>1, <3>2
    <3>3. CASE Moves(r, After(run[r], {}))
      BY <2>2, <3>3
    <3> QED
      BY <2>1, <2>3, <3>2, <3>3 DEF ModelAnswers
  <2>4. CASE RunAborted(r)
    BY <2>1, <2>4 DEF RunAborted
  <2>5. CASE ToolTimesOut(r)
    <3>1. run[r].turn \ {Min(run[r].turn)} \subseteq Call
      BY <1>1 DEF Run
    <3> QED
      BY <2>2, <2>5, <3>1 DEF ToolTimesOut
  <2> QED
    BY <2>3, <2>4, <2>5
<1>4. /\ toPanel' \in Seq(ToPanel)
      /\ \A q \in Runs : run'[q].stage = "tool" => run'[q].turn # {}
  BY <1>3, MovesAreTyped
<1> QED
  BY <1>1, <1>2, <1>4 DEF MessagesTyped

LEMMA MainKeepsMessages ==
    ASSUME RunInv, MessagesTyped, MainReceives
    PROVE  MessagesTyped'
<1> DEFINE message == Head(toMain)
<1>1. /\ toMain # <<>> /\ toMain' = Tail(toMain)
      /\ UNCHANGED <<calls, here, panel, panels, sent, applied>>
  BY DEF MainReceives, windowVars, panelVars
<1>2. toMain' \in Seq(ToMain) /\ message \in ToMain
  BY <1>1, TailElements DEF MessagesTyped
<1>3. message.type = "result" => message.verdict \in Verdict
  BY <1>2 DEF ToMain
<1> DEFINE Kept == /\ told' \in [Call -> Verdict \cup {"nothing", "timed out"}]
                   /\ toPanel' \in Seq(ToPanel)
                   /\ \A q \in Runs : run'[q].stage = "tool" => run'[q].turn # {}
<1>4. Kept
  <2>1. run \in [Runs -> Run] /\ abort \in Runs \cup {NoRun} /\ toPanel \in Seq(ToPanel)
    BY DEF RunInv, RunsTyped, MessagesTyped
  <2>2. CASE UNCHANGED <<run, abort, toPanel, told>>
    BY <2>2 DEF MessagesTyped
  <2>3. Aborted(abort) \in [Runs -> Run]
        /\ \A q \in Runs : /\ Aborted(abort)[q].stage = run[q].stage
                           /\ Aborted(abort)[q].turn = run[q].turn
    BY <2>1 DEF Aborted, Run
  <2>4. CASE StartRun
    <3>1. CASE toPanel' = Append(toPanel, [type |-> "end"]) /\ UNCHANGED <<run, abort, told>>
      <4>1. [type |-> "end"] \in ToPanel
        BY DEF ToPanel
      <4>2. toPanel' \in Seq(ToPanel)
        BY <2>1, <3>1, <4>1, AppendProperties
      <4> QED
        BY <3>1, <4>2 DEF MessagesTyped
    <3>2. ASSUME NEW r \in Runs, UNCHANGED <<toPanel, told>>,
                 run' = [Aborted(abort) EXCEPT ![r] = [Fresh EXCEPT !.stage = "model",
                                                                  !.window = here]]
          PROVE  Kept
      <4>1. [Fresh EXCEPT !.stage = "model", !.window = here].stage = "model"
        BY DEF Fresh
      <4>2. \A q \in Runs : run'[q].stage = "tool" => run'[q].turn # {}
        BY <2>3, <3>2, <4>1 DEF MessagesTyped
      <4> QED
        BY <3>2, <4>2 DEF MessagesTyped
    <3> QED
      BY <2>4, <3>1, <3>2 DEF StartRun
  <2>5. CASE CancelRun
    BY <2>3, <2>5 DEF CancelRun, MessagesTyped
  <2>6. CASE message.type = "result" /\ ToolResult(message.call, message.verdict)
    <3>1. CASE UNCHANGED <<run, abort, toPanel, told>>
      BY <2>2, <3>1
    <3>2. ASSUME NEW r \in Runs, told' = [told EXCEPT ![message.call] = message.verdict],
                 Moves(r, After(run[r], run[r].turn \ {message.call}))
          PROVE  Kept
      <4>1. run[r] \in Run /\ run[r].turn \ {message.call} \subseteq Call
        BY <2>1 DEF Run
      <4>2. /\ toPanel' \in Seq(ToPanel)
            /\ \A q \in Runs : run'[q].stage = "tool" => run'[q].turn # {}
        BY <3>2, <4>1, AfterTyped, MovesAreTyped
      <4>3. told' \in [Call -> Verdict \cup {"nothing", "timed out"}]
        BY <1>3, <2>6, <3>2 DEF MessagesTyped
      <4> QED
        BY <4>2, <4>3
    <3> QED
      BY <2>6, <3>1, <3>2 DEF ToolResult
  <2> QED
    BY <2>2, <2>4, <2>5, <2>6 DEF MainReceives
<1> QED
  BY <1>1, <1>2, <1>4 DEF MessagesTyped

\* The calls of the panel arrive from a window.
LEMMA PanelSends ==
    ASSUME RunInv, MessagesTyped, panel.mounted
    PROVE  /\ \A type \in {"run", "cancel"} : Message(type) \in ToMain
           /\ \A call \in Call, verdict \in Verdict : Result(call, verdict) \in ToMain
<1>1. here \in 1..MaxAgentWindows
  <2>1. here \in 0..MaxAgentWindows /\ here # 0
    BY Zenon DEF RunInv, RunsTyped, MessagesTyped, NoWindow
  <2> QED
    BY <2>1, AgentBounds
<1>2. ASSUME NEW type \in {"run", "cancel"} PROVE Message(type) \in ToMain
  BY <1>1, <1>2 DEF Message, ToMain
<1>3. ASSUME NEW call \in Call, NEW verdict \in Verdict PROVE Result(call, verdict) \in ToMain
  BY <1>1, <1>3 DEF Result, ToMain
<1> QED
  BY <1>2, <1>3

LEMMA PanelKeepsMessages ==
    ASSUME RunInv, MessagesTyped, PanelReceives
    PROVE  MessagesTyped'
<1> DEFINE message == Head(toPanel)
<1>1. /\ toPanel # <<>> /\ toPanel' = Tail(toPanel)
      /\ UNCHANGED <<run, here, panels, sent, told, applied>>
  BY DEF PanelReceives, windowVars, history
<1>2. toPanel' \in Seq(ToPanel) /\ message \in ToPanel
  BY <1>1, TailElements DEF MessagesTyped
<1> DEFINE Kept == /\ panel' \in [mounted : BOOLEAN, busy : BOOLEAN, card : Call \cup {NoCard}]
                   /\ toMain' \in Seq(ToMain)
                   /\ panel'.mounted => here # NoWindow
                   /\ panel'.card # NoCard => panel'.mounted
<1>3. Kept
  <2>1. CASE UNCHANGED <<panel, toMain>>
    BY <2>1 DEF MessagesTyped
  <2>2. CASE panel' = [panel EXCEPT !.busy = FALSE] /\ UNCHANGED toMain
    BY <2>2 DEF MessagesTyped
  <2>3. ASSUME panel.mounted, message.type = "ask" PROVE message.call \in Call
    BY <1>2, <2>3 DEF ToPanel
  <2>4. CASE panel.mounted /\ message.type = "ask"
             /\ panel' = [panel EXCEPT !.card = message.call] /\ UNCHANGED toMain
    BY <2>3, <2>4 DEF MessagesTyped
  <2>5. CASE panel.mounted /\ message.type = "ask" /\ UNCHANGED panel
             /\ toMain' = Append(toMain, Result(message.call, "answered"))
    <3>1. Result(message.call, "answered") \in ToMain
      BY <2>3, <2>5, PanelSends DEF Verdict
    <3>2. toMain' \in Seq(ToMain)
      BY <2>5, <3>1, AppendProperties DEF MessagesTyped
    <3> QED
      BY <2>5, <3>2 DEF MessagesTyped
  <2> QED
    BY <2>1, <2>2, <2>4, <2>5 DEF PanelReceives
<1> QED
  BY <1>1, <1>2, <1>3 DEF MessagesTyped

LEMMA UserKeepsMessages ==
    ASSUME RunInv, MessagesTyped,
           Send \/ CancelPressed \/ \E approve \in BOOLEAN : Resolve(approve)
    PROVE  MessagesTyped'
<1>1. UNCHANGED <<run, here, panels, toPanel, told>>
  BY DEF Send, CancelPressed, Resolve, windowVars, history
<1> DEFINE Kept == /\ panel' \in [mounted : BOOLEAN, busy : BOOLEAN, card : Call \cup {NoCard}]
                   /\ sent' \in 0..MaxRuns
                   /\ toMain' \in Seq(ToMain)
                   /\ applied' \in [Call -> Nat]
                   /\ panel'.mounted => here # NoWindow
                   /\ panel'.card # NoCard => panel'.mounted
<1>2. CASE Send
  <2>1. Message("run") \in ToMain
    BY <1>2, PanelSends DEF Send
  <2>2. toMain' \in Seq(ToMain)
    BY <1>2, <2>1, AppendProperties DEF Send, MessagesTyped
  <2>3. sent' \in 0..MaxRuns
    <3>1. sent' = sent + 1 /\ sent < MaxRuns
      BY <1>2, Zenon DEF Send
    <3>2. sent \in 0..MaxRuns
      BY DEF MessagesTyped
    <3> QED
      BY <3>1, <3>2, AgentBounds
  <2> QED
    BY <1>1, <1>2, <2>2, <2>3 DEF Send, MessagesTyped, history
<1>3. CASE CancelPressed
  <2>1. Message("cancel") \in ToMain
    BY <1>3, PanelSends DEF CancelPressed
  <2>2. panel.card # NoCard => Result(panel.card, "rejected") \in ToMain
    BY <1>3, PanelSends DEF CancelPressed, MessagesTyped, Verdict
  <2>3. toMain' \in Seq(ToMain)
    <3> DEFINE rejection == IF panel.card = NoCard THEN <<>>
                            ELSE <<Result(panel.card, "rejected")>>
    <3>1. rejection \in Seq(ToMain) /\ <<Message("cancel")>> \in Seq(ToMain)
      BY <2>1, <2>2
    <3>2. toMain' = toMain \o rejection \o <<Message("cancel")>>
      BY <1>3, Zenon DEF CancelPressed
    <3>3. toMain \in Seq(ToMain)
      BY DEF MessagesTyped
    <3> HIDE DEF rejection
    <3>4. toMain \o rejection \in Seq(ToMain)
      BY <3>1, <3>3, ConcatProperties, Zenon
    <3> QED
      BY <3>1, <3>2, <3>4, ConcatProperties, Zenon
  <2> QED
    BY <1>1, <1>3, <2>3 DEF CancelPressed, CardGone, MessagesTyped, history
<1>4. ASSUME NEW approve \in BOOLEAN, Resolve(approve) PROVE MessagesTyped'
  <2>1. panel.card \in Call /\ panel.mounted
    BY <1>4 DEF Resolve, MessagesTyped
  <2>2. \A verdict \in Verdict : Result(panel.card, verdict) \in ToMain
    BY <2>1, PanelSends
  <2>3. PICK verdict \in Verdict : toMain' = Append(toMain, Result(panel.card, verdict))
    <3>1. {"answered", "rejected", "applied"} = Verdict
      BY DEF Verdict
    <3> QED
      BY <1>4, <3>1, Zenon DEF Resolve
  <2>4. toMain' \in Seq(ToMain)
    BY <2>2, <2>3, AppendProperties DEF MessagesTyped
  <2>5. applied' \in [Call -> Nat]
    <3>1. \/ UNCHANGED applied
          \/ applied' = [applied EXCEPT ![panel.card] = applied[panel.card] + 1]
      BY <1>4, Zenon DEF Resolve
    <3>2. applied \in [Call -> Nat]
      BY DEF MessagesTyped
    <3>3. applied[panel.card] + 1 \in Nat
      BY <2>1, <3>2
    <3> QED
      BY <3>1, <3>2, <3>3
  <2>6. UNCHANGED sent /\ panel' = CardGone
    BY <1>4 DEF Resolve
  <2> QED
    BY <1>1, <2>4, <2>5, <2>6 DEF CardGone, MessagesTyped
<1> QED
  BY <1>2, <1>3, <1>4

LEMMA WindowsKeepMessages ==
    ASSUME RunInv, MessagesTyped,
           Mount \/ Unmount \/ WindowCloses \/ WindowOpens \/ UNCHANGED agentVars
    PROVE  MessagesTyped'
<1>1. Unmounted \in [mounted : BOOLEAN, busy : BOOLEAN, card : Call \cup {NoCard}]
  BY DEF Unmounted
<1>2. CASE Mount
  <2>1. panels' \in 0..MaxPanels
    <3>1. panels' = panels + 1 /\ panels < MaxPanels /\ MaxPanels \in Nat \ {0}
      BY <1>2, AgentAssumption DEF Mount
    <3>2. panels \in 0..MaxPanels
      BY DEF MessagesTyped
    <3> QED
      BY <3>1, <3>2
  <2> QED
    BY <1>1, <1>2, <2>1 DEF Mount, MessagesTyped, Unmounted, windowVars, history
<1>3. CASE Unmount
  BY <1>1, <1>3 DEF Unmount, MessagesTyped, Unmounted, windowVars, history
<1>4. CASE WindowCloses
  <2>1. <<>> \in Seq(ToPanel)
    OBVIOUS
  <2> QED
    BY <1>1, <1>4, <2>1 DEF WindowCloses, MessagesTyped, Unmounted, history
<1>5. CASE WindowOpens
  <2>1. here' # NoWindow
    BY <1>5, AgentBounds DEF WindowOpens, RunInv, RunsTyped, NoWindow
  <2> QED
    BY <1>5, <2>1 DEF WindowOpens, MessagesTyped, panelVars, history
<1>6. CASE UNCHANGED agentVars
  BY <1>6 DEF agentVars, MessagesTyped
<1> QED
  BY <1>2, <1>3, <1>4, <1>5, <1>6

LEMMA MessagesStep ==
    ASSUME RunInv, MessagesTyped, [AgentNext]_agentVars
    PROVE  MessagesTyped'
BY RunsKeepMessages, MainKeepsMessages, PanelKeepsMessages, UserKeepsMessages,
   WindowsKeepMessages DEF AgentNext

LEMMA MessagesInit == AgentInit => MessagesTyped
<1> SUFFICES ASSUME AgentInit PROVE MessagesTyped
  OBVIOUS
<1>1. \A r \in Runs : run[r].stage # "tool"
  BY DEF AgentInit, Fresh
<1>2. told \in [Call -> Verdict \cup {"nothing", "timed out"}] /\ applied \in [Call -> Nat]
  BY DEF AgentInit
<1>3. panels \in 0..MaxPanels /\ sent \in 0..MaxRuns
  <2>1. panels = 0 /\ sent = 0 /\ MaxPanels \in Nat /\ MaxRuns \in Nat
    BY AgentAssumption DEF AgentInit
  <2> QED
    BY <2>1
<1>4. toPanel \in Seq(ToPanel) /\ toMain \in Seq(ToMain)
  BY DEF AgentInit
<1> QED
  BY <1>1, <1>2, <1>3, <1>4 DEF AgentInit, MessagesTyped, Unmounted

\* Type correctness of the runs, the panel, the messages between them and the
\* history (desktop/src/main/agent/index.ts:89-212, loop.ts:24-74).
THEOREM AgentTypeCorrect == AgentSpec => []AgentTypeOK
<1>1. RunInv /\ MessagesTyped => AgentTypeOK
  BY DEF RunInv, RunsTyped, MessagesTyped, AgentTypeOK
<1> QED
  BY RunInit, RunStep, MessagesInit, MessagesStep, <1>1, PTL DEF AgentSpec

-----------------------------------------------------------------------------
(* Verdicts.  A call is in one place at a time: asked of the panel, on its *)
(* card, or answered and on its way back; and nothing is known of a call   *)
(* that nobody was asked yet.                                              *)

About(message, call) == message.type \in {"ask", "result"} /\ message.call = call
In(s, call) == \E message \in Elements(s) : About(message, call)
Once(s, call) == \A i, j \in 1..Len(s) : About(s[i], call) /\ About(s[j], call) => i = j

Busy(r) == run[r].stage = "tool"
Queued(call) == \E r \in Runs : Busy(r) /\ call \in run[r].turn \ {Min(run[r].turn)}
Unasked(call) == call > calls \/ Queued(call)

TurnsApart ==
    /\ \A r \in Runs : Busy(r) => run[r].turn \subseteq 1..calls
    /\ \A r, q \in Runs : Busy(r) /\ Busy(q) /\ r # q => run[r].turn \cap run[q].turn = {}

OnePlace(call) ==
    /\ Once(toPanel, call) /\ Once(toMain, call)
    /\ ~(In(toPanel, call) /\ In(toMain, call))
    /\ panel.card = call => ~In(toPanel, call) /\ ~In(toMain, call)

Pending(call) == In(toPanel, call) \/ panel.card = call

KnownOf(call) ==
    /\ Pending(call) => applied[call] = 0
    /\ Pending(call) \/ In(toMain, call) => told[call] \in {"nothing", "timed out"}
    /\ Unasked(call) => /\ ~Pending(call) /\ ~In(toMain, call)
                        /\ applied[call] = 0 /\ told[call] = "nothing"
    /\ applied[call] <= 1
    /\ told[call] = "applied" => applied[call] = 1
    /\ told[call] \in {"rejected", "answered"} => applied[call] = 0

ResultsTrue ==
    \A message \in Elements(toMain) : message.type = "result" =>
        applied[message.call] = IF message.verdict = "applied" THEN 1 ELSE 0

VerdictInv == TurnsApart /\ ResultsTrue /\ \A call \in Call : OnePlace(call) /\ KnownOf(call)

LEMMA OneMore ==
    ASSUME NEW S, NEW s \in Seq(S), NEW e \in S, NEW call
    PROVE  /\ In(Append(s, e), call) <=> In(s, call) \/ About(e, call)
           /\ Once(s, call) /\ ~(In(s, call) /\ About(e, call)) => Once(Append(s, e), call)
<1>1. In(Append(s, e), call) <=> In(s, call) \/ About(e, call)
  BY AppendedElements DEF In
<1>2. /\ Len(Append(s, e)) = Len(s) + 1 /\ Len(s) \in Nat
      /\ \A i \in 1..Len(s) : Append(s, e)[i] = s[i]
      /\ Append(s, e)[Len(s) + 1] = e
  BY AppendProperties, LenProperties
<1>3. ASSUME Once(s, call), ~(In(s, call) /\ About(e, call)) PROVE Once(Append(s, e), call)
  <2> SUFFICES ASSUME NEW i \in 1..(Len(s) + 1), NEW j \in 1..(Len(s) + 1),
                      About(Append(s, e)[i], call), About(Append(s, e)[j], call)
               PROVE  i = j
    BY <1>2 DEF Once
  <2>1. \A k \in 1..Len(s) : About(s[k], call) => In(s, call)
    BY DEF In, Elements
  <2>2. \A k \in 1..(Len(s) + 1) : k \in 1..Len(s) \/ k = Len(s) + 1
    BY <1>2
  <2>3. CASE i \in 1..Len(s) /\ j \in 1..Len(s)
    BY <1>2, <1>3, <2>3 DEF Once
  <2>4. CASE i \in 1..Len(s) /\ j = Len(s) + 1
    BY <1>2, <1>3, <2>1, <2>4
  <2>5. CASE i = Len(s) + 1 /\ j \in 1..Len(s)
    BY <1>2, <1>3, <2>1, <2>5
  <2>6. CASE i = Len(s) + 1 /\ j = Len(s) + 1
    BY <2>6
  <2> QED
    BY <2>2, <2>3, <2>4, <2>5, <2>6
<1> QED
  BY <1>1, <1>3

LEMMA OneLess ==
    ASSUME NEW S, NEW s \in Seq(S), s # <<>>, NEW call
    PROVE  /\ In(Tail(s), call) => In(s, call)
           /\ About(Head(s), call) => In(s, call)
           /\ Once(s, call) => Once(Tail(s), call)
           /\ Once(s, call) /\ About(Head(s), call) => ~In(Tail(s), call)
<1>1. (In(Tail(s), call) => In(s, call)) /\ (About(Head(s), call) => In(s, call))
  BY TailElements DEF In
<1>2. /\ Len(Tail(s)) = Len(s) - 1
      /\ \A i \in 1..Len(Tail(s)) : Tail(s)[i] = s[i + 1]
  BY HeadTailProperties
<1>3. Len(s) \in Nat \ {0}
  BY EmptySeq
<1>4. \A i \in 1..Len(Tail(s)) : i + 1 \in 1..Len(s) /\ i + 1 # 1
  BY <1>2, <1>3
<1>5. ASSUME Once(s, call) PROVE Once(Tail(s), call)
  <2> SUFFICES ASSUME NEW i \in 1..Len(Tail(s)), NEW j \in 1..Len(Tail(s)),
                      About(Tail(s)[i], call), About(Tail(s)[j], call)
               PROVE  i = j
    BY DEF Once
  <2>1. About(s[i + 1], call) /\ About(s[j + 1], call)
    BY <1>2
  <2>2. i + 1 = j + 1
    BY <1>4, <1>5, <2>1, Zenon DEF Once
  <2> QED
    BY <2>2
<1>6. ASSUME Once(s, call), About(Head(s), call), In(Tail(s), call) PROVE FALSE
  <2>1. PICK i \in 1..Len(Tail(s)) : About(Tail(s)[i], call)
    BY <1>6 DEF In, Elements
  <2>2. About(s[i + 1], call) /\ About(s[1], call) /\ 1 \in 1..Len(s)
    BY <1>2, <1>3, <1>6, <2>1
  <2> QED
    BY <1>4, <1>6, <2>2, Zenon DEF Once
<1> QED
  BY <1>1, <1>5, <1>6

\* What the panel hears when a run moves: nothing of a call, or the first time.
Hears ==
    \/ toPanel' = toPanel
    \/ toPanel' = Append(toPanel, [type |-> "end"])
    \/ \E call \in Call : /\ Unasked(call) /\ ~Unasked(call)'
                          /\ toPanel' = Append(toPanel, [type |-> "ask", call |-> call])

\* A run that moves on to calls nobody was asked yet asks for the first of them.
LEMMA MovesAsk ==
    ASSUME RunInv, MessagesTyped, TurnsApart, NEW r \in Runs, NEW one \in Run,
           one.stage = "tool" =>
               /\ one.turn # {} /\ one.turn \subseteq 1..calls'
               /\ \A call \in one.turn : Unasked(call)
               /\ \A q \in Runs \ {r} : Busy(q) => run[q].turn \cap one.turn = {},
           calls' \in calls..MaxCalls, Moves(r, one)
    PROVE  /\ TurnsApart' /\ Hears
           /\ \A call \in Call : Unasked(call)' => Unasked(call)
<1>1. run \in [Runs -> Run] /\ calls \in Nat /\ calls' \in Nat /\ calls <= calls'
  BY AgentBounds DEF RunInv, RunsTyped
<1>2. \A q \in Runs \ {r} : run'[q] = run[q]
  BY <1>1 DEF Moves
<1>3. (run'[r].stage = "tool" <=> one.stage = "tool")
      /\ (one.stage = "tool" => run'[r] = one)
  BY <1>1 DEF Moves, Fresh
<1>4. TurnsApart'
  <2>1. \A q \in Runs : Busy(q)' => run'[q].turn \subseteq 1..calls'
    BY <1>1, <1>2, <1>3 DEF TurnsApart, Busy
  <2>2. \A p, q \in Runs : Busy(p)' /\ Busy(q)' /\ p # q => run'[p].turn \cap run'[q].turn = {}
    BY <1>2, <1>3 DEF TurnsApart, Busy
  <2> QED
    BY <2>1, <2>2 DEF TurnsApart
<1>5. ASSUME NEW call \in Call, Unasked(call)' PROVE Unasked(call)
  <2>1. CASE call > calls'
    BY <1>1, <2>1, CallsAreNumbers DEF Unasked
  <2>2. ASSUME NEW q \in Runs, Busy(q)', call \in run'[q].turn \ {Min(run'[q].turn)}
        PROVE  Unasked(call)
    BY <1>2, <1>3, <2>2 DEF Busy, Unasked, Queued
  <2> QED
    BY <1>5, <2>1, <2>2 DEF Unasked, Queued
<1>6. Hears
  <2>1. toPanel' = toPanel \o Emitted(one) /\ toPanel \in Seq(ToPanel)
    BY DEF Moves, MessagesTyped
  <2>2. CASE Emitted(one) = <<>>
    BY <2>1, <2>2, ConcatEmptySeq DEF Hears
  <2>3. CASE Emitted(one) = <<[type |-> "end"]>>
    <3>1. [type |-> "end"] \in ToPanel
      BY DEF ToPanel
    <3> QED
      BY <2>1, <2>3, <3>1, AppendedElements DEF Hears
  <2>4. CASE /\ one.stage = "tool" /\ Min(one.turn) \in Call
             /\ Emitted(one) = <<[type |-> "ask", call |-> Min(one.turn)]>>
    <3> DEFINE first == Min(one.turn)
    <3>1. [type |-> "ask", call |-> first] \in ToPanel
      BY <2>4 DEF ToPanel
    <3>2. toPanel' = Append(toPanel, [type |-> "ask", call |-> first])
      BY <2>1, <2>4, <3>1, AppendedElements
    <3>3. first \in one.turn
      <4>1. one.turn \subseteq Nat
        BY CallsAreNumbers DEF Run
      <4> QED
        BY <2>4, <4>1, LeastNumber
    <3>4. Unasked(first)
      BY <2>4, <3>3
    <3>5. ~Unasked(first)'
      <4>1. ~(first > calls')
        BY <1>1, <2>4, <3>3
      <4>2. ~Queued(first)'
        BY <1>2, <1>3, <2>4, <3>3 DEF Queued, Busy
      <4> QED
        BY <4>1, <4>2 DEF Unasked
    <3> QED
      BY <2>4, <3>2, <3>4, <3>5 DEF Hears
  <2> QED
    BY <2>2, <2>3, <2>4, EmittedTyped
<1> QED
  BY <1>4, <1>5, <1>6

\* What the panel hears leaves the calls in their places.  `told` may change for a
\* call whose place is lost by the step, or one that timed out.
LEMMA HeardInOnePlace ==
    ASSUME MessagesTyped, NEW call \in Call, OnePlace(call), KnownOf(call),
           Hears, UNCHANGED <<panel, applied>>, Unasked(call)' => Unasked(call),
           In(toMain, call)' => In(toMain, call), Once(toMain, call)',
           \/ told'[call] = told[call]
           \/ told'[call] = "timed out" /\ ~Unasked(call)'
           \/ /\ In(toMain, call) /\ ~In(toMain, call)' /\ ~Unasked(call)'
              /\ told'[call] = "applied" => applied[call] = 1
              /\ told'[call] \in {"rejected", "answered"} => applied[call] = 0
    PROVE  OnePlace(call)' /\ KnownOf(call)'
<1> DEFINE Asked == In(toPanel, call)' /\ ~In(toPanel, call)
<1> DEFINE Places == /\ In(toPanel, call) => In(toPanel, call)'
                     /\ Asked => Unasked(call) /\ ~Unasked(call)'
                     /\ Once(toPanel, call)'
<1>1. Places
  <2>1. toPanel \in Seq(ToPanel) /\ Once(toPanel, call)
    BY DEF MessagesTyped, OnePlace
  <2>2. CASE toPanel' = toPanel
    BY <2>1, <2>2 DEF Once, In
  <2>3. CASE toPanel' = Append(toPanel, [type |-> "end"])
    <3>1. [type |-> "end"] \in ToPanel /\ ~About([type |-> "end"], call)
      BY DEF ToPanel, About
    <3>2. /\ In(Append(toPanel, [type |-> "end"]), call) <=> In(toPanel, call)
          /\ Once(Append(toPanel, [type |-> "end"]), call)
      BY <2>1, <3>1, OneMore
    <3> QED
      BY <2>3, <3>2 DEF In, Once
  <2>4. ASSUME NEW other \in Call, Unasked(other), ~Unasked(other)',
               toPanel' = Append(toPanel, [type |-> "ask", call |-> other])
        PROVE  Places
    <3> DEFINE ask == [type |-> "ask", call |-> other]
    <3>1. ask \in ToPanel /\ (About(ask, call) <=> other = call)
      BY DEF ToPanel, About
    <3>2. other = call => ~In(toPanel, call)
      BY <2>4 DEF KnownOf, Pending
    <3> HIDE DEF ask
    <3>3. /\ In(Append(toPanel, ask), call) <=> In(toPanel, call) \/ other = call
          /\ Once(Append(toPanel, ask), call)
      BY <2>1, <3>1, <3>2, OneMore
    <3> QED
      BY <2>4, <3>3 DEF In, Once, ask
  <2> QED
    BY <2>2, <2>3, <2>4 DEF Hears
<1>2. OnePlace(call)'
  BY <1>1 DEF OnePlace, KnownOf, Pending
<1>3. KnownOf(call)'
  <2>1. (Pending(call)' => Pending(call) \/ Asked) /\ (Pending(call) => Pending(call)')
    BY <1>1 DEF Pending
  <2>2. Pending(call)' => applied'[call] = 0
    BY <1>1, <2>1 DEF KnownOf
  <2>3. Pending(call)' \/ In(toMain, call)' => told'[call] \in {"nothing", "timed out"}
    BY <1>1, <2>1 DEF KnownOf, OnePlace, Pending
  <2>4. Unasked(call)' => /\ ~Pending(call)' /\ ~In(toMain, call)'
                          /\ applied'[call] = 0 /\ told'[call] = "nothing"
    BY <1>1, <2>1 DEF KnownOf
  <2>5. /\ applied'[call] <= 1
        /\ told'[call] = "applied" => applied'[call] = 1
        /\ told'[call] \in {"rejected", "answered"} => applied'[call] = 0
    BY DEF KnownOf
  <2> QED
    BY <2>2, <2>3, <2>4, <2>5 DEF KnownOf
<1> QED
  BY <1>2, <1>3

\* The call a run waited for has been asked, and is not queued behind another.
LEMMA AnsweredIsAsked ==
    ASSUME RunInv, TurnsApart, NEW r \in Runs, Busy(r), NEW call \in run[r].turn,
           Moves(r, After(run[r], run[r].turn \ {call})), calls' = calls
    PROVE  ~Unasked(call)'
<1>1. run \in [Runs -> Run] /\ calls \in Nat
  BY DEF RunInv, RunsTyped
<1>2. ~(call > calls')
  BY <1>1 DEF TurnsApart
<1>3. ASSUME NEW q \in Runs, Busy(q)', call \in run'[q].turn PROVE FALSE
  <2>1. q = r
    BY <1>1, <1>3 DEF Moves, TurnsApart, Busy
  <2>2. After(run[r], run[r].turn \ {call}).stage = "tool"
        /\ run'[r] = After(run[r], run[r].turn \ {call})
    BY <1>1, <1>3, <2>1 DEF Moves, Fresh, Busy
  <2>3. run[r] \in Run /\ run[r].turn \ {call} \subseteq Call
    BY <1>1 DEF Run
  <2> QED
    BY <1>3, <2>1, <2>2, <2>3, AfterTyped
<1> QED
  BY <1>2, <1>3 DEF Unasked, Queued

\* A run moves on by itself.
LEMMA RunsKeepVerdicts ==
    ASSUME RunInv, MessagesTyped, VerdictInv, NEW r \in Runs,
           ModelAnswers(r) \/ RunAborted(r) \/ ToolTimesOut(r)
    PROVE  VerdictInv'
<1>1. /\ UNCHANGED <<panel, applied, toMain>>
      /\ run[r] \in Run /\ TurnsApart
  BY DEF ModelAnswers, RunAborted, ToolTimesOut, panelVars, history, RunInv, RunsTyped, VerdictInv
<1> DEFINE Fits(one) ==
             /\ one \in Run
             /\ one.stage = "tool" =>
                  /\ one.turn # {} /\ one.turn \subseteq 1..calls'
                  /\ \A call \in one.turn : Unasked(call)
                  /\ \A q \in Runs \ {r} : Busy(q) => run[q].turn \cap one.turn = {}
<1>2. calls' \in calls..MaxCalls
  <2>1. calls \in 0..MaxCalls
    BY DEF RunInv, RunsTyped
  <2>2. calls' = calls \/ calls' \in (calls + 1)..MaxCalls
    BY DEF ModelAnswers, RunAborted, ToolTimesOut
  <2> QED
    BY <2>1, <2>2, AgentBounds
<1>3. \E one : Fits(one) /\ Moves(r, one)
  <2>1. CASE Moves(r, Ended(run[r]))
    BY <1>1, <2>1, EndedTyped
  <2>2. ASSUME NEW turn, turn \subseteq Call, Moves(r, After(run[r], turn)),
               turn \subseteq 1..calls', \A call \in turn : Unasked(call),
               \A q \in Runs \ {r} : Busy(q) => run[q].turn \cap turn = {}
        PROVE  \E one : Fits(one) /\ Moves(r, one)
    <3>1. Fits(After(run[r], turn))
      BY <1>1, <2>2, AfterTyped
    <3> QED
      BY <2>2, <3>1
  <2>3. ASSUME NEW last \in (calls + 1)..MaxCalls, Moves(r, After(run[r], (calls + 1)..last)),
               calls' = last
        PROVE  \E one : Fits(one) /\ Moves(r, one)
    <3>1. calls \in Nat
      BY DEF RunInv, RunsTyped
    <3>2. (calls + 1)..last \subseteq Call /\ (calls + 1)..last \subseteq 1..calls'
      BY <2>3, <3>1, AgentBounds DEF Call
    <3>3. \A call \in (calls + 1)..last : Unasked(call)
      BY <3>1 DEF Unasked
    <3>4. \A q \in Runs \ {r} : Busy(q) => run[q].turn \cap ((calls + 1)..last) = {}
      BY <1>1, <3>1 DEF TurnsApart
    <3> QED
      BY <2>2, <2>3, <3>2, <3>3, <3>4
  <2>4. CASE Moves(r, After(run[r], {}))
    BY <2>2, <2>4
  <2>5. CASE ToolTimesOut(r)
    <3> DEFINE turn == run[r].turn \ {Min(run[r].turn)}
    <3>1. Moves(r, After(run[r], turn)) /\ Busy(r) /\ calls' = calls
      BY <2>5 DEF ToolTimesOut, TimerRuns, Busy
    <3>2. turn \subseteq Call /\ turn \subseteq 1..calls'
      BY <1>1, <3>1 DEF Run, TurnsApart
    <3>3. \A call \in turn : Unasked(call)
      BY <3>1 DEF Unasked, Queued
    <3>4. \A q \in Runs \ {r} : Busy(q) => run[q].turn \cap turn = {}
      BY <1>1, <3>1 DEF TurnsApart
    <3> QED
      BY <2>2, <3>1, <3>2, <3>3, <3>4
  <2> QED
    BY <2>1, <2>3, <2>4, <2>5 DEF ModelAnswers, RunAborted
<1>4. TurnsApart' /\ Hears /\ \A call \in Call : Unasked(call)' => Unasked(call)
  BY <1>1, <1>2, <1>3, MovesAsk
<1>5. ASSUME NEW call \in Call
      PROVE  told'[call] = told[call] \/ (told'[call] = "timed out" /\ ~Unasked(call)')
  <2>1. CASE UNCHANGED told
    BY <2>1
  <2>2. CASE ToolTimesOut(r)
    <3>0. PICK first : first = Min(run[r].turn)
      OBVIOUS
    <3>1. /\ told' = [told EXCEPT ![first] = "timed out"]
          /\ Moves(r, After(run[r], run[r].turn \ {first}))
          /\ run[r].stage = "tool" /\ calls' = calls
      BY <2>2, <3>0 DEF ToolTimesOut, TimerRuns
    <3>2. told'[call] = told[call] \/ (told'[call] = "timed out" /\ call = first)
      BY <3>1 DEF MessagesTyped
    <3>3. first \in run[r].turn
      <4>1. run[r].turn # {} /\ run[r].turn \subseteq Nat
        BY <1>1, <3>1, CallsAreNumbers DEF MessagesTyped, Run
      <4> QED
        BY <3>0, <4>1, LeastNumber
    <3>4. ~Unasked(first)'
      <4>1. Busy(r)
        BY <3>1 DEF Busy
      <4> QED
        BY <1>1, <3>1, <3>3, <4>1, AnsweredIsAsked
    <3> QED
      BY <3>2, <3>4
  <2> QED
    BY <2>1, <2>2 DEF ModelAnswers, RunAborted, history
<1>6. ASSUME NEW call \in Call PROVE OnePlace(call)' /\ KnownOf(call)'
  <2>1. OnePlace(call) /\ KnownOf(call) /\ Once(toMain, call)' /\ In(toMain, call)' = In(toMain, call)
    BY <1>1 DEF VerdictInv, OnePlace, Once, In
  <2> QED
    BY <1>1, <1>4, <1>5, <2>1, HeardInOnePlace
<1>7. ResultsTrue'
  BY <1>1 DEF ResultsTrue, VerdictInv
<1> QED
  BY <1>4, <1>6, <1>7 DEF VerdictInv

LEMMA TurnsStay ==
    ASSUME TurnsApart, calls' = calls,
           \A q \in Runs : /\ Busy(q)' <=> Busy(q)
                           /\ Busy(q) => run'[q].turn = run[q].turn
    PROVE  TurnsApart' /\ \A call : Unasked(call)' <=> Unasked(call)
BY DEF TurnsApart, Unasked, Queued

LEMMA RunsStay ==
    ASSUME UNCHANGED <<run, calls>>
    PROVE  /\ TurnsApart' <=> TurnsApart
           /\ \A call : Unasked(call)' <=> Unasked(call)
BY DEF TurnsApart, Unasked, Queued, Busy

\* A handler of the main process runs.
LEMMA MainKeepsVerdicts ==
    ASSUME RunInv, MessagesTyped, VerdictInv, MainReceives
    PROVE  VerdictInv'
<1>0. PICK message : message = Head(toMain)
  OBVIOUS
<1>1. /\ toMain # <<>> /\ toMain' = Tail(toMain) /\ toMain \in Seq(ToMain)
      /\ UNCHANGED <<calls, panel, applied>> /\ TurnsApart
  BY DEF MainReceives, panelVars, MessagesTyped, VerdictInv
<1>2. message \in ToMain /\ message \in Elements(toMain)
      /\ Elements(toMain)' \subseteq Elements(toMain)
  BY <1>0, <1>1, TailElements DEF Elements
<1>3. ResultsTrue'
  BY <1>1, <1>2 DEF ResultsTrue, VerdictInv
<1>4. ASSUME NEW call \in Call
      PROVE  /\ OnePlace(call) /\ KnownOf(call)
             /\ In(toMain, call)' => In(toMain, call)
             /\ Once(toMain, call)'
             /\ About(message, call) => In(toMain, call) /\ ~In(toMain, call)'
  <2>1. OnePlace(call) /\ KnownOf(call) /\ Once(toMain, call)
    BY DEF VerdictInv, OnePlace
  <2>2. /\ In(Tail(toMain), call) => In(toMain, call)
        /\ About(message, call) => In(toMain, call)
        /\ Once(Tail(toMain), call)
        /\ About(message, call) => ~In(Tail(toMain), call)
    BY <1>0, <1>1, <2>1, OneLess
  <2> QED
    BY <1>1, <2>1, <2>2 DEF In, Once
<1>5. ASSUME Hears, UNCHANGED told, TurnsApart',
             \A call \in Call : Unasked(call)' => Unasked(call)
      PROVE  VerdictInv'
  <2>1. ASSUME NEW call \in Call PROVE OnePlace(call)' /\ KnownOf(call)'
    BY <1>1, <1>4, <1>5, HeardInOnePlace
  <2> QED
    BY <1>3, <1>5, <2>1 DEF VerdictInv
<1>6. CASE UNCHANGED <<run, abort, toPanel, told>>
  BY <1>1, <1>5, <1>6, RunsStay DEF Hears
<1>7. run \in [Runs -> Run] /\ abort \in Runs \cup {NoRun}
  BY DEF RunInv, RunsTyped
<1>8. \A q \in Runs : /\ Aborted(abort)[q].stage = run[q].stage
                      /\ Aborted(abort)[q].turn = run[q].turn
  BY <1>7 DEF Aborted, Run
<1>9. CASE StartRun
  <2>1. CASE toPanel' = Append(toPanel, [type |-> "end"]) /\ UNCHANGED <<run, abort, told>>
    BY <1>1, <1>5, <2>1, RunsStay DEF Hears
  <2>2. ASSUME NEW r \in Runs, run[r].stage = "new", UNCHANGED <<toPanel, told>>,
               run' = [Aborted(abort) EXCEPT ![r] = [Fresh EXCEPT !.stage = "model",
                                                                !.window = here]]
        PROVE  VerdictInv'
    <3>1. [Fresh EXCEPT !.stage = "model", !.window = here].stage = "model"
      BY DEF Fresh
    <3>2. DOMAIN Aborted(abort) = Runs
      BY <1>7 DEF Aborted
    <3>3. run'[r].stage = "model" /\ \A q \in Runs \ {r} : run'[q] = Aborted(abort)[q]
      BY <2>2, <3>1, <3>2
    <3>4. \A q \in Runs : /\ Busy(q)' <=> Busy(q)
                          /\ Busy(q) => run'[q].turn = run[q].turn
      BY <1>8, <2>2, <3>3 DEF Busy
    <3> QED
      BY <1>1, <1>5, <2>2, <3>4, TurnsStay DEF Hears
  <2> QED
    BY <1>9, <2>1, <2>2 DEF StartRun
<1>10. CASE CancelRun
  <2>1. \A q \in Runs : /\ Busy(q)' <=> Busy(q)
                        /\ Busy(q) => run'[q].turn = run[q].turn
    BY <1>8, <1>10 DEF CancelRun, Busy
  <2> QED
    BY <1>1, <1>5, <1>10, <2>1, TurnsStay DEF CancelRun, Hears
<1>11. ASSUME message.type = "result", NEW r \in Runs, Waits(r, message.call),
              told' = [told EXCEPT ![message.call] = message.verdict],
              Moves(r, After(run[r], run[r].turn \ {message.call}))
       PROVE  VerdictInv'
  <2>1. /\ run[r] \in Run /\ Busy(r) /\ message.call = Min(run[r].turn)
        /\ message.call \in run[r].turn /\ message.call \in Call
    <3>1. run[r] \in Run /\ Busy(r) /\ message.call = Min(run[r].turn)
      BY <1>7, <1>11 DEF Waits, Busy
    <3>2. run[r].turn # {} /\ run[r].turn \subseteq Call
      BY <3>1 DEF MessagesTyped, Busy, Run
    <3> QED
      BY <3>1, <3>2, CallsAreNumbers, LeastNumber
  <2> DEFINE turn == run[r].turn \ {message.call}
  <2>2. /\ turn \subseteq Call /\ turn \subseteq 1..calls'
        /\ \A call \in turn : Unasked(call)
        /\ \A q \in Runs \ {r} : Busy(q) => run[q].turn \cap turn = {}
    <3>1. turn \subseteq Call /\ turn \subseteq 1..calls'
      BY <1>1, <2>1 DEF Run, TurnsApart
    <3>2. \A call \in turn : Unasked(call)
      BY <2>1 DEF Unasked, Queued
    <3>3. \A q \in Runs \ {r} : Busy(q) => run[q].turn \cap turn = {}
      BY <1>1, <2>1 DEF TurnsApart
    <3> QED
      BY <3>1, <3>2, <3>3
  <2>3. calls' \in calls..MaxCalls
    BY <1>1, AgentBounds DEF RunInv, RunsTyped
  <2>4. TurnsApart' /\ Hears /\ \A call \in Call : Unasked(call)' => Unasked(call)
    <3>1. After(run[r], turn) \in Run
          /\ (After(run[r], turn).stage = "tool" => turn # {} /\ After(run[r], turn).turn = turn)
      BY <2>1, <2>2, AfterTyped
    <3> QED
      BY <1>1, <1>11, <2>2, <2>3, <3>1, MovesAsk
  <2>5. ~Unasked(message.call)'
    BY <1>1, <1>11, <2>1, AnsweredIsAsked
  <2>6. About(message, message.call)
    BY <1>11 DEF About
  <2>7. applied[message.call] = IF message.verdict = "applied" THEN 1 ELSE 0
    BY <1>2, <1>11 DEF VerdictInv, ResultsTrue
  <2>8. ASSUME NEW call \in Call PROVE OnePlace(call)' /\ KnownOf(call)'
    <3>1. CASE call # message.call
      <4>1. told'[call] = told[call]
        BY <1>11, <3>1 DEF MessagesTyped
      <4> QED
        BY <1>1, <1>4, <2>4, <4>1, HeardInOnePlace
    <3>2. CASE call = message.call
      <4>1. told'[call] = message.verdict
        BY <1>11, <2>1, <3>2 DEF MessagesTyped
      <4>2. /\ told'[call] = "applied" => applied[call] = 1
            /\ told'[call] \in {"rejected", "answered"} => applied[call] = 0
        BY <2>7, <3>2, <4>1
      <4>3. In(toMain, call) /\ ~In(toMain, call)' /\ ~Unasked(call)'
        BY <1>4, <2>5, <2>6, <3>2
      <4> QED
        BY <1>1, <1>4, <2>4, <4>2, <4>3, HeardInOnePlace
    <3> QED
      BY <3>1, <3>2
  <2> QED
    BY <1>3, <2>4, <2>8 DEF VerdictInv
<1>12. CASE message.type = "result" /\ ToolResult(message.call, message.verdict)
  BY <1>6, <1>11, <1>12 DEF ToolResult
<1> QED
  BY <1>0, <1>6, <1>9, <1>10, <1>12 DEF MainReceives

\* The panel hears an event or is asked.
LEMMA PanelKeepsVerdicts ==
    ASSUME RunInv, MessagesTyped, VerdictInv, PanelReceives
    PROVE  VerdictInv'
<1>0. PICK message : message = Head(toPanel)
  OBVIOUS
<1>1. /\ toPanel # <<>> /\ toPanel' = Tail(toPanel) /\ toPanel \in Seq(ToPanel)
      /\ UNCHANGED <<run, calls, told, applied>>
  BY DEF PanelReceives, history, MessagesTyped
<1>2. message \in ToPanel /\ toMain \in Seq(ToMain)
  BY <1>0, <1>1, TailElements DEF MessagesTyped
<1>3. TurnsApart' /\ \A call : Unasked(call)' <=> Unasked(call)
  BY <1>1, RunsStay DEF VerdictInv
<1>4. ASSUME NEW call \in Call
      PROVE  /\ OnePlace(call) /\ KnownOf(call)
             /\ In(toPanel, call)' => In(toPanel, call)
             /\ Once(toPanel, call)'
             /\ About(message, call) => In(toPanel, call) /\ ~In(toPanel, call)'
  <2>1. OnePlace(call) /\ KnownOf(call) /\ Once(toPanel, call)
    BY DEF VerdictInv, OnePlace
  <2>2. /\ In(Tail(toPanel), call) => In(toPanel, call)
        /\ About(message, call) => In(toPanel, call)
        /\ Once(Tail(toPanel), call)
        /\ About(message, call) => ~In(Tail(toPanel), call)
    BY <1>0, <1>1, <2>1, OneLess
  <2> QED
    BY <1>1, <2>1, <2>2 DEF In, Once
<1>5. CASE UNCHANGED toMain /\ panel'.card = panel.card
  <2>1. ASSUME NEW call \in Call PROVE OnePlace(call)' /\ KnownOf(call)'
    <3>1. Once(toMain, call)' = Once(toMain, call) /\ In(toMain, call)' = In(toMain, call)
      BY <1>5 DEF Once, In
    <3> QED
      BY <1>1, <1>3, <1>4, <1>5, <3>1 DEF OnePlace, KnownOf, Pending
  <2>2. ResultsTrue'
    BY <1>1, <1>5 DEF VerdictInv, ResultsTrue
  <2> QED
    BY <1>3, <2>1, <2>2 DEF VerdictInv
<1>6. ASSUME message.type = "ask" PROVE message.call \in Call /\ About(message, message.call)
  BY <1>2, <1>6 DEF ToPanel, About
<1>7. CASE message.type = "ask" /\ UNCHANGED toMain /\ panel'.card = message.call
  <2>1. ASSUME NEW call \in Call PROVE OnePlace(call)' /\ KnownOf(call)'
    <3>1. Once(toMain, call)' = Once(toMain, call) /\ In(toMain, call)' = In(toMain, call)
      BY <1>7 DEF Once, In
    <3>2. panel'.card = call => About(message, call)
      BY <1>6, <1>7
    <3> QED
      BY <1>1, <1>3, <1>4, <3>1, <3>2 DEF OnePlace, KnownOf, Pending
  <2>2. ResultsTrue'
    BY <1>1, <1>7 DEF VerdictInv, ResultsTrue
  <2> QED
    BY <1>3, <2>1, <2>2 DEF VerdictInv
<1>8. CASE message.type = "ask" /\ UNCHANGED panel /\ panel.mounted
           /\ toMain' = Append(toMain, Result(message.call, "answered"))
  <2>0. PICK result : result = Result(message.call, "answered")
    OBVIOUS
  <2>1. /\ result \in ToMain /\ result.call = message.call /\ toMain' = Append(toMain, result)
        /\ result.type = "result" /\ result.verdict = "answered"
    BY <1>6, <1>8, <2>0, PanelSends DEF Verdict, Result
  <2>2. ASSUME NEW call \in Call PROVE OnePlace(call)' /\ KnownOf(call)'
    <3>1. About(result, call) <=> About(message, call)
      BY <1>8, <2>1 DEF About
    <3>2. About(result, call) => ~In(toMain, call)
      BY <1>4, <3>1 DEF OnePlace
    <3>3. /\ In(toMain, call)' <=> In(toMain, call) \/ About(message, call)
          /\ Once(toMain, call)'
      <4>1. /\ In(Append(toMain, result), call) <=> In(toMain, call) \/ About(result, call)
            /\ Once(Append(toMain, result), call)
        BY <1>2, <1>4, <2>1, <3>2, OneMore DEF OnePlace
      <4> QED
        BY <2>1, <3>1, <4>1 DEF In, Once
    <3> QED
      BY <1>1, <1>3, <1>4, <1>8, <3>3 DEF OnePlace, KnownOf, Pending
  <2>3. applied[message.call] = 0
    BY <1>4, <1>6, <1>8 DEF KnownOf, Pending
  <2>4. Elements(toMain)' = Elements(toMain) \cup {result}
    BY <1>2, <2>1, AppendedElements DEF Elements
  <2>5. ResultsTrue'
    <3> SUFFICES ASSUME NEW other \in Elements(toMain)', other.type = "result"
                 PROVE  applied'[other.call] = IF other.verdict = "applied" THEN 1 ELSE 0
      BY Zenon DEF ResultsTrue
    <3>1. CASE other \in Elements(toMain)
      BY <1>1, <3>1, Zenon DEF VerdictInv, ResultsTrue
    <3>2. CASE other = result
      BY <1>1, <2>1, <2>3, <3>2
    <3> QED
      BY <2>4, <3>1, <3>2
  <2> QED
    BY <1>3, <2>2, <2>5 DEF VerdictInv
<1>9. CASE UNCHANGED <<panel, toMain>>
  BY <1>5, <1>9
<1>10. CASE panel' = [panel EXCEPT !.busy = FALSE] /\ UNCHANGED toMain
  BY <1>5, <1>10 DEF MessagesTyped
<1>11. CASE message.type = "ask" /\ UNCHANGED toMain
            /\ panel' = [panel EXCEPT !.card = message.call]
  <2>1. panel'.card = message.call
    BY <1>11 DEF MessagesTyped
  <2> QED
    BY <1>7, <1>11, <2>1
<1> QED
  BY <1>0, <1>8, <1>9, <1>10, <1>11 DEF PanelReceives

\* The card is answered, and goes.
LEMMA CardAnswered ==
    ASSUME RunInv, MessagesTyped, VerdictInv, panel.card # NoCard, NEW verdict \in Verdict,
           UNCHANGED <<run, calls, toPanel, told>>, panel'.card = NoCard,
           applied' = IF verdict = "applied"
                      THEN [applied EXCEPT ![panel.card] = applied[panel.card] + 1]
                      ELSE applied,
           \A call \in Call : /\ In(toMain, call)' <=> In(toMain, call) \/ call = panel.card
                              /\ OnePlace(call) => Once(toMain, call)',
           \A message \in Elements(toMain)' : message.type = "result" =>
               \/ message \in Elements(toMain)
               \/ message.call = panel.card /\ message.verdict = verdict
    PROVE  VerdictInv'
<1>0. PICK card : card = panel.card
  OBVIOUS
<1>1. card \in Call /\ panel'.card \notin Call
  BY <1>0, CallsAreNumbers DEF MessagesTyped
<1>2. TurnsApart' /\ \A call : Unasked(call)' <=> Unasked(call)
  BY RunsStay DEF VerdictInv
<1>3. /\ applied[card] = 0 /\ ~In(toMain, card) /\ ~In(toPanel, card)
      /\ ~Unasked(card) /\ told[card] \in {"nothing", "timed out"}
  BY <1>0, <1>1 DEF VerdictInv, KnownOf, OnePlace, Pending
<1>4. /\ applied'[card] = IF verdict = "applied" THEN 1 ELSE 0
      /\ \A call \in Call \ {card} : applied'[call] = applied[call]
  <2>1. applied \in [Call -> Nat]
    BY DEF MessagesTyped
  <2>2. applied' = IF verdict = "applied" THEN [applied EXCEPT ![card] = applied[card] + 1]
                   ELSE applied
    BY <1>0
  <2>3. CASE verdict = "applied"
    <3>1. applied[card] = 0
      BY <1>3
    <3>2. applied' = [applied EXCEPT ![card] = 1]
      <4>1. applied' = [applied EXCEPT ![card] = applied[card] + 1]
        BY <2>2, <2>3, Zenon
      <4>2. applied[card] + 1 = 1
        BY <3>1
      <4> QED
        BY <4>1, <4>2, Zenon
    <3> QED
      BY <1>1, <2>1, <2>3, <3>2
  <2>4. CASE verdict # "applied"
    BY <1>3, <2>2, <2>4
  <2> QED
    BY <2>3, <2>4
<1>5. ASSUME NEW call \in Call PROVE OnePlace(call)' /\ KnownOf(call)'
  <2>1. OnePlace(call) /\ KnownOf(call)
    BY DEF VerdictInv
  <2>2. /\ Once(toPanel, call)' = Once(toPanel, call) /\ In(toPanel, call)' = In(toPanel, call)
        /\ In(toMain, call)' <=> In(toMain, call) \/ call = card
        /\ Once(toMain, call)'
    <3>1. /\ Once(toPanel, call)' = Once(toPanel, call)
          /\ In(toPanel, call)' = In(toPanel, call)
      BY DEF Once, In
    <3>2. /\ In(toMain, call)' <=> In(toMain, call) \/ call = card
          /\ Once(toMain, call)'
      BY <1>0, <2>1
    <3> QED
      BY <3>1, <3>2
  <2>3. CASE call # card
    BY <1>0, <1>1, <1>2, <1>4, <2>1, <2>2, <2>3 DEF OnePlace, KnownOf, Pending
  <2>4. CASE call = card
    <3>1. ~In(toPanel, call)' /\ panel'.card # call /\ told'[call] = told[call]
      BY <1>1, <1>3, <2>2, <2>4
    <3>2. OnePlace(call)'
      BY <2>1, <2>2, <3>1 DEF OnePlace
    <3>3. /\ ~Unasked(call)' /\ told'[call] \in {"nothing", "timed out"}
          /\ applied'[call] <= 1 /\ ~Pending(call)'
      <4>1. applied'[call] <= 1
        BY <1>4, <2>4
      <4>2. ~Unasked(call)' /\ ~Pending(call)'
        BY <1>2, <1>3, <2>4, <3>1 DEF Pending
      <4> QED
        BY <1>3, <2>4, <3>1, <4>1, <4>2
    <3> QED
      BY <3>2, <3>3 DEF KnownOf
  <2> QED
    BY <2>3, <2>4
<1>6. ResultsTrue'
  <2> SUFFICES ASSUME NEW message \in Elements(toMain)', message.type = "result"
               PROVE  applied'[message.call] = IF message.verdict = "applied" THEN 1 ELSE 0
    BY DEF ResultsTrue
  <2>1. CASE message \in Elements(toMain)
    <3>1. message \in ToMain
      BY <2>1, ElementsTyped DEF MessagesTyped
    <3>2. message.call \in Call /\ In(toMain, message.call)
      BY <2>1, <3>1 DEF ToMain, In, About
    <3>3. message.call # card
      BY <1>3, <3>2
    <3> QED
      BY <1>4, <2>1, <3>2, <3>3 DEF VerdictInv, ResultsTrue
  <2>2. CASE message.call = card /\ message.verdict = verdict
    BY <1>4, <2>2
  <2> QED
    BY <1>0, <2>1, <2>2
<1> QED
  BY <1>2, <1>5, <1>6 DEF VerdictInv

\* A run or a cancel is asked for: that is about no call.
LEMMA RequestSent ==
    ASSUME NEW s \in Seq(ToMain), NEW message \in ToMain, message.type \in {"run", "cancel"},
           NEW call
    PROVE  /\ Append(s, message) \in Seq(ToMain)
           /\ In(Append(s, message), call) <=> In(s, call)
           /\ Once(s, call) => Once(Append(s, message), call)
           /\ \A other \in Elements(Append(s, message)) :
                  other.type = "result" => other \in Elements(s)
<1>1. ~About(message, call)
  BY DEF About
<1> QED
  BY <1>1, OneMore, AppendedElements

LEMMA ResultSent ==
    ASSUME MessagesTyped, NEW result \in ToMain, result.type = "result", NEW call
    PROVE  /\ In(Append(toMain, result), call) <=> In(toMain, call) \/ call = result.call
           /\ Once(toMain, call) /\ ~(In(toMain, call) /\ call = result.call)
                => Once(Append(toMain, result), call)
           /\ Elements(Append(toMain, result)) = Elements(toMain) \cup {result}
<1>1. toMain \in Seq(ToMain) /\ (About(result, call) <=> call = result.call)
  BY DEF MessagesTyped, About
<1> QED
  BY <1>1, OneMore, AppendedElements

\* The panel asks for a run, or gives one up without a card to answer.
LEMMA RequestKeepsVerdicts ==
    ASSUME RunInv, MessagesTyped, VerdictInv, NEW message \in ToMain,
           message.type \in {"run", "cancel"}, toMain' = Append(toMain, message),
           UNCHANGED <<run, calls, toPanel, told, applied>>,
           panel'.card = panel.card \/ panel'.card = NoCard
    PROVE  VerdictInv'
<1>1. toMain \in Seq(ToMain) /\ panel'.card \in {panel.card, NoCard} /\ NoCard \notin Call
  BY CallsAreNumbers DEF MessagesTyped
<1>2. TurnsApart' /\ \A call : Unasked(call)' <=> Unasked(call)
  BY RunsStay DEF VerdictInv
<1>3. ASSUME NEW call \in Call PROVE OnePlace(call)' /\ KnownOf(call)'
  <2>1. OnePlace(call) /\ KnownOf(call)
    BY DEF VerdictInv
  <2>2. /\ In(Append(toMain, message), call) <=> In(toMain, call)
        /\ Once(Append(toMain, message), call)
    BY <1>1, <2>1, RequestSent DEF OnePlace
  <2>3. (In(toMain, call)' <=> In(toMain, call)) /\ Once(toMain, call)'
    BY <2>2 DEF In, Once
  <2>4. (In(toPanel, call)' <=> In(toPanel, call)) /\ (Once(toPanel, call)' <=> Once(toPanel, call))
    BY DEF In, Once
  <2>5. panel'.card = call => panel.card = call
    BY <1>1
  <2> QED
    BY <1>2, <2>1, <2>3, <2>4, <2>5 DEF OnePlace, KnownOf, Pending
<1>4. ResultsTrue'
  <2> SUFFICES ASSUME NEW other \in Elements(toMain)', other.type = "result"
               PROVE  applied[other.call] = IF other.verdict = "applied" THEN 1 ELSE 0
    BY Zenon DEF ResultsTrue
  <2>1. other \in Elements(toMain)
    <3>1. other \in Elements(Append(toMain, message))
      BY DEF Elements
    <3> QED
      BY <1>1, <3>1, RequestSent
  <2> QED
    BY <2>1, Zenon DEF VerdictInv, ResultsTrue
<1> QED
  BY <1>2, <1>3, <1>4 DEF VerdictInv

LEMMA UserKeepsVerdicts ==
    ASSUME RunInv, MessagesTyped, VerdictInv,
           Send \/ CancelPressed \/ \E approve \in BOOLEAN : Resolve(approve)
    PROVE  VerdictInv'
<1>0. toMain \in Seq(ToMain) /\ panel.card \in Call \cup {NoCard}
  BY DEF MessagesTyped
<1>1. UNCHANGED <<run, calls, toPanel, told>>
  BY DEF Send, CancelPressed, Resolve, history
<1>2. CASE Send
  <2>1. Message("run") \in ToMain /\ Message("run").type = "run"
    BY <1>2, PanelSends DEF Send, Message
  <2>2. toMain' = Append(toMain, Message("run")) /\ UNCHANGED applied
    BY <1>2 DEF Send, history
  <2>3. panel'.card = panel.card
    BY <1>2 DEF Send, MessagesTyped
  <2> QED
    BY <1>1, <2>1, <2>2, <2>3, RequestKeepsVerdicts
<1>3. \A verdict \in Verdict : panel.card # NoCard =>
          /\ Result(panel.card, verdict) \in ToMain
          /\ Result(panel.card, verdict).type = "result"
          /\ Result(panel.card, verdict).call = panel.card
          /\ Result(panel.card, verdict).verdict = verdict
  BY <1>0, PanelSends DEF MessagesTyped, Result
<1>4. CardGone.card = NoCard
  BY DEF CardGone, MessagesTyped
<1>5. ASSUME panel.card # NoCard, NEW call \in Call, OnePlace(call)
      PROVE  Once(toMain, call) /\ ~(In(toMain, call) /\ call = panel.card)
  BY <1>5 DEF OnePlace
<1>6. ASSUME NEW approve \in BOOLEAN, Resolve(approve) PROVE VerdictInv'
  <2>1. PICK verdict \in Verdict :
            /\ toMain' = Append(toMain, Result(panel.card, verdict))
            /\ applied' = IF verdict = "applied"
                          THEN [applied EXCEPT ![panel.card] = applied[panel.card] + 1]
                          ELSE applied
    <3>1. /\ {"answered", "rejected", "applied"} = Verdict
          /\ "answered" # "applied" /\ "rejected" # "applied"
      BY DEF Verdict
    <3> QED
      BY <1>6, <3>1, Zenon DEF Resolve
  <2>2. panel.card # NoCard /\ panel'.card = NoCard
    BY <1>4, <1>6 DEF Resolve
  <2>3. PICK result : result = Result(panel.card, verdict)
    OBVIOUS
  <2>4. /\ result \in ToMain /\ result.type = "result" /\ result.call = panel.card
        /\ result.verdict = verdict /\ toMain' = Append(toMain, result)
    BY <1>3, <2>1, <2>2, <2>3
  <2>5. ASSUME NEW call \in Call
        PROVE  /\ In(toMain, call)' <=> In(toMain, call) \/ call = panel.card
               /\ OnePlace(call) => Once(toMain, call)'
    <3>1. /\ In(Append(toMain, result), call) <=> In(toMain, call) \/ call = panel.card
          /\ OnePlace(call) => Once(Append(toMain, result), call)
      BY <1>5, <2>2, <2>4, ResultSent
    <3> QED
      BY <2>4, <3>1 DEF In, Once
  <2>6. \A message \in Elements(toMain)' : message.type = "result" =>
            message \in Elements(toMain) \/ (message.call = panel.card /\ message.verdict = verdict)
    <3>1. Elements(toMain)' = Elements(toMain) \cup {result}
      BY <1>0, <2>4, AppendedElements DEF Elements
    <3> QED
      BY <2>4, <3>1
  <2> QED
    BY <1>1, <2>1, <2>2, <2>5, <2>6, CardAnswered
<1>7. CASE CancelPressed
  <2>0. PICK cancel : cancel = Message("cancel")
    OBVIOUS
  <2>1. cancel \in ToMain /\ cancel.type = "cancel"
    BY <1>7, <2>0, PanelSends DEF CancelPressed, Message
  <2>2. panel'.card = NoCard /\ UNCHANGED applied
    BY <1>4, <1>7 DEF CancelPressed, history
  <2>3. toMain' = toMain \o (IF panel.card = NoCard THEN <<>>
                             ELSE <<Result(panel.card, "rejected")>>) \o <<cancel>>
    BY <1>7, <2>0 DEF CancelPressed
  <2>4. CASE panel.card = NoCard
    <3>1. toMain' = Append(toMain, cancel)
      <4>1. toMain \o <<>> = toMain
        BY <1>0, ConcatEmptySeq
      <4>2. toMain' = toMain \o <<cancel>>
        BY <2>3, <2>4, <4>1
      <4> QED
        BY <1>0, <2>1, <4>2, AppendedElements
    <3> QED
      BY <1>1, <2>1, <2>2, <3>1, RequestKeepsVerdicts
  <2>5. CASE panel.card # NoCard
    <3>0. PICK result : result = Result(panel.card, "rejected")
      OBVIOUS
    <3>1. /\ result \in ToMain /\ result.type = "result" /\ result.call = panel.card
          /\ result.verdict = "rejected"
      BY <1>3, <2>5, <3>0 DEF Verdict
    <3>2. PICK answered : answered = Append(toMain, result)
      OBVIOUS
    <3>3. toMain' = Append(answered, cancel) /\ answered \in Seq(ToMain)
      <4>1. toMain \o <<result>> = answered /\ answered \in Seq(ToMain)
        BY <1>0, <3>1, <3>2, AppendedElements
      <4>2. toMain' = answered \o <<cancel>>
        BY <2>3, <2>5, <3>0, <4>1
      <4> QED
        BY <2>1, <4>1, <4>2, AppendedElements
    <3>4. ASSUME NEW call \in Call
          PROVE  /\ In(toMain, call)' <=> In(toMain, call) \/ call = panel.card
                 /\ OnePlace(call) => Once(toMain, call)'
      <4>1. /\ In(answered, call) <=> In(toMain, call) \/ call = panel.card
            /\ OnePlace(call) => Once(answered, call)
        BY <1>5, <2>5, <3>1, <3>2, ResultSent
      <4>2. /\ In(Append(answered, cancel), call) <=> In(answered, call)
            /\ Once(answered, call) => Once(Append(answered, cancel), call)
        BY <2>1, <3>3, RequestSent
      <4> QED
        BY <3>3, <4>1, <4>2 DEF In, Once
    <3>5. \A message \in Elements(toMain)' : message.type = "result" =>
              message \in Elements(toMain)
              \/ (message.call = panel.card /\ message.verdict = "rejected")
      <4>1. \A message \in Elements(Append(answered, cancel)) :
                message.type = "result" => message \in Elements(answered)
        BY <2>1, <3>3, RequestSent
      <4>2. Elements(answered) = Elements(toMain) \cup {result}
        BY <1>0, <3>1, <3>2, AppendedElements
      <4>3. Elements(toMain)' = Elements(Append(answered, cancel))
        BY <3>3 DEF Elements
      <4> QED
        BY <3>1, <4>1, <4>2, <4>3
    <3>6. "rejected" \in Verdict /\ "rejected" # "applied"
      BY DEF Verdict
    <3> QED
      BY <1>1, <2>2, <2>5, <3>4, <3>5, <3>6, CardAnswered
  <2> QED
    BY <2>4, <2>5
<1> QED
  BY <1>2, <1>6, <1>7

\* What was on its way, or on the card, may be lost.
LEMMA WindowsKeepVerdicts ==
    ASSUME RunInv, MessagesTyped, VerdictInv,
           Mount \/ Unmount \/ WindowCloses \/ WindowOpens \/ UNCHANGED agentVars
    PROVE  VerdictInv'
<1>1. UNCHANGED <<run, calls, toMain, told, applied>>
  BY DEF Mount, Unmount, WindowCloses, WindowOpens, agentVars, windowVars, panelVars, history
<1>2. toPanel' = toPanel \/ toPanel' = <<>>
  BY DEF Mount, Unmount, WindowCloses, WindowOpens, agentVars
<1>3. panel'.card = panel.card \/ panel'.card = NoCard
  <2>1. panel' = panel \/ panel' = Unmounted \/ panel' = [Unmounted EXCEPT !.mounted = TRUE]
    BY DEF Mount, Unmount, WindowCloses, WindowOpens, agentVars, panelVars
  <2> QED
    BY <2>1 DEF Unmounted
<1>4. TurnsApart' /\ \A call : Unasked(call)' <=> Unasked(call)
  BY <1>1, RunsStay DEF VerdictInv
<1>5. ASSUME NEW call \in Call PROVE OnePlace(call)' /\ KnownOf(call)'
  <2>1. OnePlace(call) /\ KnownOf(call)
    BY DEF VerdictInv
  <2>2. (In(toPanel, call)' => In(toPanel, call)) /\ Once(toPanel, call)'
    <3>1. CASE toPanel' = toPanel
      BY <2>1, <3>1 DEF In, Once, OnePlace
    <3>2. CASE toPanel' = <<>>
      <4>1. Len(toPanel') = 0
        BY <3>2
      <4> QED
        BY <4>1 DEF In, Once, Elements
    <3> QED
      BY <1>2, <3>1, <3>2
  <2>3. (In(toMain, call)' <=> In(toMain, call)) /\ (Once(toMain, call)' <=> Once(toMain, call))
    BY <1>1 DEF In, Once
  <2>4. panel'.card = call => panel.card = call
    BY <1>3, CallsAreNumbers
  <2> QED
    BY <1>1, <1>4, <2>1, <2>2, <2>3, <2>4 DEF OnePlace, KnownOf, Pending
<1>6. ResultsTrue'
  BY <1>1 DEF ResultsTrue, VerdictInv
<1> QED
  BY <1>4, <1>5, <1>6 DEF VerdictInv

LEMMA VerdictStep ==
    ASSUME RunInv, MessagesTyped, VerdictInv, [AgentNext]_agentVars
    PROVE  VerdictInv'
BY RunsKeepVerdicts, MainKeepsVerdicts, PanelKeepsVerdicts, UserKeepsVerdicts,
   WindowsKeepVerdicts DEF AgentNext

LEMMA VerdictInit == AgentInit => VerdictInv
<1> SUFFICES ASSUME AgentInit PROVE VerdictInv
  OBVIOUS
<1>1. Elements(toPanel) = {} /\ Elements(toMain) = {} /\ Len(toPanel) = 0 /\ Len(toMain) = 0
  BY NoElements DEF AgentInit
<1>2. TurnsApart
  BY DEF AgentInit, TurnsApart, Busy, Fresh
<1>3. ASSUME NEW call \in Call PROVE OnePlace(call) /\ KnownOf(call)
  <2>1. ~In(toPanel, call) /\ ~In(toMain, call) /\ Once(toPanel, call) /\ Once(toMain, call)
    BY <1>1 DEF In, Once
  <2>2. panel.card # call /\ told[call] = "nothing" /\ applied[call] = 0
    BY CallsAreNumbers DEF AgentInit, Unmounted
  <2> QED
    BY <2>1, <2>2 DEF OnePlace, KnownOf, Pending
<1> QED
  BY <1>1, <1>2, <1>3 DEF VerdictInv, ResultsTrue

\* What the model heard of a proposal is what became of it (AgentPanel.tsx:119-180,
\* desktop/src/main/agent/index.ts:120-127, 153-172): no cancel, late answer, replaced
\* card or lost panel makes the verdict false, and no proposal is applied twice.
THEOREM VerdictsAlwaysHold == AgentSpec => []VerdictsHold
<1>1. VerdictInv => VerdictsHold
  BY DEF VerdictInv, KnownOf, VerdictsHold
<1> QED
  BY RunInit, RunStep, MessagesInit, MessagesStep, VerdictInit, VerdictStep, <1>1, PTL
     DEF AgentSpec
=============================================================================
