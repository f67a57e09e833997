----------------------------- MODULE Delivery -----------------------------
(***************************************************************************)
(* What the notification outbox promises: an alert that was recorded       *)
(* reaches the owner, unless it grew too old first.  One message may tell  *)
(* several alerts at once (a digest).                                      *)
(***************************************************************************)
CONSTANT Alerts
VARIABLES recorded, told, dropped
dvars == <<recorded, told, dropped>>

Init == recorded = {} /\ told = {} /\ dropped = {}
Record(a) == a \notin recorded /\ recorded' = recorded \cup {a} /\ UNCHANGED <<told, dropped>>
Tell(S) == /\ S # {} /\ S \subseteq recorded \ told
           /\ told' = told \cup S /\ UNCHANGED <<recorded, dropped>>
Drop(S) == /\ S # {} /\ S \subseteq recorded \ dropped
           /\ dropped' = dropped \cup S /\ UNCHANGED <<recorded, told>>
Next == (\E a \in Alerts : Record(a)) \/ (\E S \in SUBSET Alerts : Tell(S) \/ Drop(S))
Spec == Init /\ [][Next]_dvars
             /\ \A a \in Alerts : WF_dvars(\E S \in SUBSET Alerts :
                   a \in S /\ a \notin told \cup dropped /\ (Tell(S) \/ Drop(S)))
===========================================================================
