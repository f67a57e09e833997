----------------------------- MODULE MCService -----------------------------
(***************************************************************************)
(* The service process for TLC: its own record of whether it is Ready, and *)
(* the schedules and requests it fires.  A request sees of that record one *)
(* refusal, which FireRequests allows at any time, so a behaviour is one   *)
(* of the two: `part' says which, and the other rests.                     *)
(***************************************************************************)
EXTENDS ServiceState, FireRequests

VARIABLE part
allVars == <<serviceVars, fireVars, part>>

RecordPart(A) == part = "record" /\ A /\ UNCHANGED <<fireVars, part>>
RequestPart(A) == part = "requests" /\ A /\ UNCHANGED <<serviceVars, part>>

AllInit == part \in {"record", "requests"} /\ ServiceInit /\ FireInit
AllNext == RecordPart(ServiceNext) \/ RequestPart(FireNext)

\* The fairness of both parts: the supervisor restarts the process, its timers go on, reads end.
AllSpec ==
  /\ AllInit /\ [][AllNext]_allVars
  /\ WF_allVars(RecordPart(Start)) /\ WF_allVars(RecordPart(SchedulerTick)) /\ WF_allVars(RecordPart(Flags))
  /\ WF_allVars(RecordPart(ReleaseGoesOn)) /\ WF_allVars(RecordPart(Backup))
  /\ WF_allVars(RequestPart(Scheduler)) /\ WF_allVars(RequestPart(Processor))
  /\ WF_allVars(RequestPart(Tick)) /\ WF_allVars(RequestPart(Restart))
  /\ \A o \in Askers : WF_allVars(RequestPart(Pipeline(o)))

\* Safety of both parts: the mark of an interrupted run and the backup's status, and that whatever
\* fires was claimed by one caller alone.
AllSafety == ServiceSafety /\ FireSafety
=============================================================================
