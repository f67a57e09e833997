---------------------------- MODULE MCTelegram ----------------------------
(***************************************************************************)
(* The owner's chat for TLC: who may act, and what the guided flows let    *)
(* the owner act on.  CommandAccess keeps of a flow only that it is open,  *)
(* GuidedFlows takes every tap as admitted, so a behaviour is one of the   *)
(* two: `part' says which, and the other rests.                            *)
(***************************************************************************)
EXTENDS CommandAccess, GuidedFlows

VARIABLE part
allVars == <<accessVars, flowVars, part>>

AccessPart(A) == part = "access" /\ A /\ UNCHANGED <<flowVars, part>>
FlowPart(A) == part = "flows" /\ A /\ UNCHANGED <<accessVars, part>>

AllInit == part \in {"access", "flows"} /\ AccessInit /\ FlowsInit
AllNext == AccessPart(AccessNext) \/ FlowPart(FlowsNext)

\* A stop update is handled to its end, and the process is restarted.
AllSpec == /\ AllInit /\ [][AllNext]_allVars
           /\ WF_allVars(AccessPart(HandleStop)) /\ WF_allVars(AccessPart(Restart))

\* Safety of both parts: codes, updates and waiting taps, and how often a summary's button acts.
AllSafety == AccessSafety /\ FlowsSafety
=============================================================================
