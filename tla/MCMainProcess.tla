--------------------------- MODULE MCMainProcess ---------------------------
(* The instance TLC checks of the two protocols between the desktop main     *)
(* process and its renderer.  Neither reads a variable of the other, so they *)
(* are explored next to each other and not in every interleaving.            *)
EXTENDS WindowLifecycle, AgentRun

VARIABLE part

TwoPaths == {"a.docx", "b.pptx"}

ProcessInit == Init /\ AgentInit /\ part \in {"window", "agent"}

ProcessNext ==
    \/ part = "window" /\ Next /\ UNCHANGED <<agentVars, part>>
    \/ part = "agent" /\ AgentNext /\ UNCHANGED <<vars, part>>

\* Each part is fair as it is alone; the other is where it started, and owes
\* nothing there.
ProcessSpec ==
    /\ ProcessInit /\ [][ProcessNext]_<<vars, agentVars, part>>
    /\ Fairness /\ AgentFairness
=============================================================================
