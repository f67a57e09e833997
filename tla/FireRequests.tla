---------------------------- MODULE FireRequests ----------------------------
(***************************************************************************)
(* From the owner's wish to a run: /fire and /schedule share one pipeline  *)
(* (test mints, approval, a stored live request); the request processor    *)
(* claims each request once, arms it and runs it.  Schedules and requests  *)
(* are rows that are claimed once; a kill, a cancel, the passing of time   *)
(* and a crash race with every await in between.                           *)
(*                                                                         *)
(* A request is named by what asked for it.  Times are kept as the time    *)
(* that is left until they are reached, and count down to 0: the code only *)
(* compares them with the clock.  A time that nothing reads any more is 0. *)
(***************************************************************************)
EXTENDS Integers, Sequences, SequencesExt, FiniteSets

CONSTANTS
  Targets,                   \* the campaigns
  Commands, Schedules,       \* what may ask: the owner's /fire and /request commands, and schedules
  Life, Hold,                \* a request lasts Life; a claimed one without a result holds for Hold
  Lead,                      \* bound: how far ahead a window may begin and how long it may be
  Asks,                      \* bound: how many of the commands and schedules are used
  Faults                     \* bound: crashes, kills, results that cannot be stored

ASSUME TimesAssumption == {Life, Hold, Lead, Asks} \subseteq Nat \ {0} /\ Faults \in Nat
ASSUME AskersAssumption == Commands \cap Schedules = {}

VARIABLES
  alive, killed,
  schedule,  \* stored rows with their outcome
  request,   \* stored rows with their outcome, result event and run
  booked, rows, \* the schedules and the requests in the order they were stored
  pipe,      \* memory: how far each pipeline or direct request is
  inFlight,  \* memory: campaigns that a pipeline holds
  tick,      \* memory: the scheduler's pass, with where in their windows it saw the schedules when it began
  pass,      \* memory: the request processor's pass
  killing,   \* a chat kill that has engaged the switch and not yet cancelled the schedules
  late,      \* observer: requests armed after their hold
  faults

stored == <<schedule, request, booked, rows>>
memory == <<pipe, inFlight, tick, pass, killing>>
fireVars == <<alive, killed, stored, memory, late, faults>>

Askers == Commands \cup Schedules
NoTarget == "none"

NoSchedule == [state |-> "absent", campaign |-> NoTarget, from |-> 0, until |-> 0]
NoRequest == [state |-> "absent", campaign |-> NoTarget, fired |-> TRUE, left |-> 0, hold |-> 0, run |-> "absent", recent |-> 0, result |-> FALSE]
NoPipe == [pc |-> "idle", campaign |-> NoTarget, left |-> 0]
NoTick == [todo |-> {}, seen |-> <<>>, pc |-> "idle"]
NoPass == [todo |-> {}, pc |-> "idle"]

FireTypeOK ==
  /\ {alive, killed, killing} \subseteq BOOLEAN /\ faults \in 0 .. Faults
  /\ schedule \in [Schedules -> [state : {"absent", "open", "started", "expired", "cancelled"}, campaign : Targets \cup {NoTarget}, from : 0 .. Lead, until : 0 .. 2 * Lead]]
  /\ request \in [Askers -> [state : {"absent", "waiting", "started", "expired", "cancelled"}, campaign : Targets \cup {NoTarget},
                             fired : BOOLEAN, left : 0 .. Life, hold : 0 .. Hold, run : {"absent", "Armed", "Active", "Completed", "Failed"}, recent : 0 .. Hold, result : BOOLEAN]]
  /\ rows \in Seq(Askers) /\ IsInjective(rows) /\ booked \in Seq(Schedules) /\ IsInjective(booked)
  /\ pipe \in [Askers -> [pc : {"idle", "checking", "simulating", "approving", "asking", "consenting"}, campaign : Targets \cup {NoTarget}, left : 0 .. Life]]
  /\ inFlight \subseteq Targets
  /\ tick \in [todo : SUBSET Schedules, seen : [Schedules -> {"before", "inside", "past"}] \cup {<<>>}, pc : {"idle", "next", "reading", "firing"}]
  /\ pass \in [todo : SUBSET Askers, pc : {"idle", "next", "arming", "running", "recording"}]
  /\ late \subseteq Askers

FireInit ==
  /\ alive = TRUE /\ killed = FALSE
  /\ schedule = [s \in Schedules |-> NoSchedule] /\ request = [o \in Askers |-> NoRequest] /\ rows = <<>> /\ booked = <<>>
  /\ pipe = [o \in Askers |-> NoPipe] /\ inFlight = {} /\ tick = NoTick /\ pass = NoPass /\ killing = FALSE
  /\ late = {} /\ faults = Faults

---------------------------------------------------------------------------
(* The stored rows                                                         *)

\* unclaimed and open of the schedule repository.
Open(s) == schedule[s].state = "open" /\ schedule[s].until > 0

\* A pass works on what it has read oldest first.
Oldest(order, S) == order[CHOOSE i \in DOMAIN order : order[i] \in S /\ \A j \in 1 .. i - 1 : order[j] \notin S]

RunOpen(o) == request[o].run \in {"Armed", "Active"}

\* Mutant: a claimed request no longer counts once it left the list of waiting ones.
ConflictUnlessArming(c, ignored) ==
  \/ \E o \in Askers : request[o].campaign = c /\ RunOpen(o)
  \/ \E o \in Askers : request[o].campaign = c /\ request[o].run = "Completed" /\ request[o].recent > 0
  \/ \E s \in Schedules \ {ignored} : schedule[s].campaign = c /\ Open(s)
  \/ \E o \in Askers : request[o].campaign = c /\ request[o].state = "waiting" /\ request[o].left > 0
\* persistentConflict: a run that is open or has just finished, another open schedule, a request
\* that waits, or one that was claimed and has no result yet.
Conflict(c, ignored) ==
  \/ \E o \in Askers : request[o].campaign = c /\ RunOpen(o)
  \/ \E o \in Askers : request[o].campaign = c /\ request[o].run = "Completed" /\ request[o].recent > 0
  \/ \E s \in Schedules \ {ignored} : schedule[s].campaign = c /\ Open(s)
  \/ \E o \in Askers : request[o].campaign = c /\ request[o].state = "waiting" /\ request[o].left > 0
  \/ \E o \in Askers : /\ request[o].campaign = c /\ request[o].state = "started" /\ ~request[o].result
                       /\ request[o].hold > 0

---------------------------------------------------------------------------
(* The pipeline                                                            *)

\* runFire, up to its first await: the campaign is held, then the kill switch and the conflicts are checked.
Enter(o, c, ignored) == c \notin inFlight /\ ~killed /\ ~Conflict(c, ignored)
Hang(o, c) == pipe' = [pipe EXCEPT ![o] = [pc |-> "simulating", campaign |-> c, left |-> 0]] /\ inFlight' = inFlight \cup {c}
Drop(o) == pipe' = [pipe EXCEPT ![o] = NoPipe] /\ inFlight' = inFlight \ {pipe[o].campaign}

\* A tap on /fire.
FireNow(f, c) ==
  /\ alive /\ request[f].state = "absent" /\ pipe[f].pc = "idle"
  /\ Enter(f, c, NoTarget) /\ Hang(f, c)
  /\ UNCHANGED <<alive, killed, stored, tick, pass, killing, faults, late>>

\* A scheduled fire, after the host evidence was checked: it enters the pipeline or fails.
FireScheduled(s) ==
  /\ pipe[s].pc = "checking"
  /\ \/ Enter(s, schedule[s].campaign, s) /\ Hang(s, schedule[s].campaign)
     \/ pipe' = [pipe EXCEPT ![s] = NoPipe] /\ UNCHANGED inFlight
  /\ UNCHANGED <<alive, killed, stored, tick, pass, killing, faults, late>>

\* The test mints were recorded; runLiveRequest takes the time and waits for the approval.  A test mint
\* that fails, or a startup state other than Ready, ends the pipeline.
Simulated(o) ==
  /\ pipe[o].pc = "simulating"
  /\ \/ pipe' = [pipe EXCEPT ![o].pc = "approving", ![o].left = Life] /\ UNCHANGED inFlight
     \/ Drop(o)
  /\ UNCHANGED <<alive, killed, stored, tick, pass, killing, faults, late>>

Store(o, c, fired, left) ==
  /\ request' = [request EXCEPT ![o] = [NoRequest EXCEPT !.state = "waiting", !.campaign = c, !.fired = fired, !.left = left]]
  /\ rows' = Append(rows, o) /\ UNCHANGED booked

\* The approval is recorded and with it the request, or the approval failed.
Approved(o) ==
  /\ pipe[o].pc = "approving" /\ Drop(o)
  /\ Store(o, pipe[o].campaign, TRUE, pipe[o].left) \/ UNCHANGED <<request, booked, rows>>
  /\ UNCHANGED <<alive, killed, schedule, tick, pass, killing, faults, late>>

Begin(d, c, pc, left) == pipe' = [pipe EXCEPT ![d] = [pc |-> pc, campaign |-> c, left |-> left]]

\* /request finds no open schedule in its way and reads its wallets.  live-request create looks for none
\* and is a process of its own.
Direct(d, c) ==
  /\ request[d].state = "absent" /\ pipe[d].pc = "idle"
  /\ \/ alive /\ (~\E s \in Schedules : schedule[s].campaign = c /\ Open(s)) /\ Begin(d, c, "asking", 0)
     \/ Begin(d, c, "consenting", Life)
  /\ UNCHANGED <<alive, killed, stored, inFlight, tick, pass, killing, faults, late>>

\* The wallets were read or not; runLiveRequest takes the time, checks and waits for the approval.
Asked(d) ==
  /\ pipe[d].pc = "asking"
  /\ Begin(d, pipe[d].campaign, "consenting", Life) \/ pipe' = [pipe EXCEPT ![d] = NoPipe]
  /\ UNCHANGED <<alive, killed, stored, inFlight, tick, pass, killing, faults, late>>

\* The approval is recorded and with it the request, whatever was scheduled meanwhile, or it failed.
Consented(d) ==
  /\ pipe[d].pc = "consenting" /\ pipe' = [pipe EXCEPT ![d] = NoPipe]
  /\ Store(d, pipe[d].campaign, FALSE, pipe[d].left) \/ UNCHANGED <<request, booked, rows>>
  /\ UNCHANGED <<alive, killed, schedule, inFlight, tick, pass, killing, faults, late>>

---------------------------------------------------------------------------
(* Schedules                                                               *)

\* assertScheduleWindow; how long and how far ahead a window may be, Lead stands for.
WindowOk(from, until) == until > 0 /\ from < until

\* scheduleCreate: nothing is awaited between the conflict check and the insert.
ScheduleCreate(s, c, from, until) ==
  /\ alive /\ schedule[s].state = "absent" /\ WindowOk(from, until)
  /\ c \notin inFlight /\ ~Conflict(c, NoTarget)
  /\ schedule' = [schedule EXCEPT ![s] = [state |-> "open", campaign |-> c, from |-> from, until |-> until]]
  /\ booked' = Append(booked, s)
  /\ UNCHANGED <<alive, killed, request, rows, memory, faults, late>>

\* Mutant: that a window has ended is reported and not stored.
ClaimUnlessExpired(s, outcome) == schedule' = [schedule EXCEPT ![s].state = IF @ = "open" /\ outcome # "expired" THEN outcome ELSE @]
\* claim: INSERT OR IGNORE, so the first outcome stays.
Claim(s, outcome) == schedule' = [schedule EXCEPT ![s].state = IF @ = "open" THEN outcome ELSE @]
\* The schedule the pass is at, and on to the next.
Due == Oldest(booked, tick.todo)
Onward == tick' = IF tick.todo = {Due} THEN NoTick ELSE [tick EXCEPT !.todo = @ \ {Due}, !.pc = "next"]

\* A pass reads the clock and the unclaimed schedules once.
TickBegin ==
  /\ alive /\ tick.pc = "idle"
  /\ LET unclaimed == {s \in Schedules : schedule[s].state = "open"} IN
       /\ unclaimed # {}
       /\ tick' = [todo |-> unclaimed, pc |-> "next",
                   seen |-> [s \in Schedules |-> IF schedule[s].from > 0 THEN "before" ELSE IF schedule[s].until = 0 THEN "past" ELSE "inside"]]
  /\ UNCHANGED <<alive, killed, stored, pipe, inFlight, pass, killing, faults, late>>

\* Up to the read of the mint's state.  A campaign that has changed ends its schedule.
TickNext ==
  /\ tick.pc = "next"
  /\ LET s == Due IN
       \/ tick.seen[s] = "before" /\ Onward /\ UNCHANGED schedule
       \/ tick.seen[s] = "past" /\ Claim(s, "expired") /\ Onward
       \/ /\ tick.seen[s] = "inside"
          /\ \/ Claim(s, "expired") /\ Onward
             \/ killed /\ Onward /\ UNCHANGED schedule
             \/ ~killed /\ tick' = [tick EXCEPT !.pc = "reading"] /\ UNCHANGED schedule
  /\ UNCHANGED <<alive, killed, request, booked, rows, pipe, inFlight, pass, killing, faults, late>>

\* Mutant: the pass fires what it read, whoever has claimed it meanwhile.
WonRegardless(s) == TRUE
\* claim: only the first of the service, the owner and a kill gets the row.
Won(s) == schedule[s].state = "open"

\* The mint has ended, is not open or cannot be read, or is open.
TickState ==
  /\ tick.pc = "reading"
  /\ LET s == Due IN
       \/ Claim(s, "expired") /\ Onward /\ UNCHANGED pipe
       \/ Onward /\ UNCHANGED <<schedule, pipe>>
       \/ Won(s) /\ Claim(s, "started") /\ tick' = [tick EXCEPT !.pc = "firing"] /\ pipe' = [pipe EXCEPT ![s].pc = "checking"]
  /\ UNCHANGED <<alive, killed, request, booked, rows, inFlight, pass, killing, faults, late>>

\* The fire ended, well or not.
TickFired ==
  /\ tick.pc = "firing" /\ pipe[Due].pc = "idle" /\ Onward
  /\ UNCHANGED <<alive, killed, stored, pipe, inFlight, pass, killing, faults, late>>

---------------------------------------------------------------------------
(* The request processor                                                   *)

PassBegin ==
  /\ alive /\ pass.pc = "idle"
  /\ LET waiting == {o \in Askers : request[o].state = "waiting"} IN
       waiting # {} /\ pass' = [todo |-> waiting, pc |-> "next"]
  /\ UNCHANGED <<alive, killed, stored, pipe, inFlight, tick, killing, faults, late>>

\* The request the pass is at, and on to the next.
AtHand == Oldest(rows, pass.todo)
Forward == pass' = IF pass.todo = {AtHand} THEN NoPass ELSE [pass EXCEPT !.todo = @ \ {AtHand}, !.pc = "next"]
At(pc) == pass' = [pass EXCEPT !.pc = pc]

InTime(o) == request[o].left > 0

\* Expired, claimed, or no longer there to be claimed.
PassClaim ==
  /\ pass.pc = "next"
  /\ LET o == AtHand IN
       \/ request[o].state # "waiting" /\ Forward /\ UNCHANGED request
       \/ /\ request[o].state = "waiting" /\ ~InTime(o)
          /\ request' = [request EXCEPT ![o].state = "expired", ![o].result = TRUE] /\ Forward
       \/ /\ request[o].state = "waiting" /\ InTime(o)
          /\ request' = [request EXCEPT ![o].state = "started", ![o].left = 0, ![o].hold = Hold] /\ At("arming")
  /\ UNCHANGED <<alive, killed, schedule, booked, rows, pipe, inFlight, tick, killing, late, faults>>

\* The checks and the arm, which wants no kill; any of them may refuse (the startup state among them).
PassArm ==
  /\ pass.pc = "arming"
  /\ LET o == AtHand IN
       \/ ~killed /\ request' = [request EXCEPT ![o].run = "Armed"] /\ At("running") /\ late' = IF request[o].hold = 0 THEN late \cup {o} ELSE late
       \/ At("recording") /\ UNCHANGED <<request, late>>
  /\ UNCHANGED <<alive, killed, schedule, booked, rows, pipe, inFlight, tick, killing, faults>>

\* The run completes, is sent and settles later, or stops; a stopped run is closed if nothing was sent.
PassRun ==
  /\ pass.pc = "running" /\ At("recording")
  /\ LET o == AtHand IN \E state \in {"Completed", "Active", "Failed"} :
       /\ state # "Failed" => ~killed
       /\ request' = [request EXCEPT ![o].run = state, ![o].recent = IF state = "Completed" THEN Hold ELSE @]
  /\ UNCHANGED <<alive, killed, schedule, booked, rows, pipe, inFlight, tick, killing, faults, late>>

\* The result is stored, or storing it fails and the pass is over.
PassRecord ==
  /\ pass.pc = "recording"
  /\ \/ request' = [request EXCEPT ![AtHand].result = TRUE, ![AtHand].hold = 0] /\ Forward /\ UNCHANGED faults
     \/ faults > 0 /\ faults' = faults - 1 /\ pass' = NoPass /\ UNCHANGED request
  /\ UNCHANGED <<alive, killed, schedule, booked, rows, pipe, inFlight, tick, killing, late>>

\* Reconciliation ends a run that was sent.
Reconciled(o) ==
  /\ alive /\ request[o].run = "Active"
  /\ \E state \in {"Completed", "Failed"} : request' = [request EXCEPT ![o].run = state, ![o].recent = IF state = "Completed" THEN Hold ELSE @]
  /\ UNCHANGED <<alive, killed, schedule, booked, rows, memory, faults, late>>

---------------------------------------------------------------------------
(* The owner's cancel and kill, time and crashes                           *)

CancelSchedule(s) ==
  /\ alive /\ Open(s) /\ Claim(s, "cancelled")
  /\ UNCHANGED <<alive, killed, request, booked, rows, memory, faults, late>>

CancelRequest(o) ==
  /\ request[o].state = "waiting"
  /\ request' = [request EXCEPT ![o].state = "cancelled", ![o].left = 0]
  /\ UNCHANGED <<alive, killed, schedule, booked, rows, memory, faults, late>>

\* The switch goes on; a kill from the chat goes on to cancel the schedules, one from elsewhere does not.
Kill ==
  /\ faults > 0 /\ faults' = faults - 1 /\ ~killed /\ killed' = TRUE /\ killing' \in {FALSE, alive}
  /\ UNCHANGED <<alive, stored, pipe, inFlight, tick, pass, late>>

\* cancelAllOpen.
KillCancels ==
  /\ killing /\ killing' = FALSE
  /\ schedule' = [s \in Schedules |-> IF Open(s) THEN [schedule[s] EXCEPT !.state = "cancelled"] ELSE schedule[s]]
  /\ UNCHANGED <<alive, killed, request, booked, rows, pipe, inFlight, tick, pass, faults, late>>

\* The owner releases the switch.
Release == killed /\ killed' = FALSE /\ UNCHANGED <<alive, stored, memory, faults, late>>

Down(n) == IF n = 0 THEN 0 ELSE n - 1
Tick ==
  /\ schedule' = [s \in Schedules |-> [schedule[s] EXCEPT !.from = Down(@), !.until = Down(@)]]
  /\ request' = [o \in Askers |-> [request[o] EXCEPT !.left = Down(@), !.hold = Down(@), !.recent = Down(@)]]
  /\ pipe' = [o \in Askers |-> [pipe[o] EXCEPT !.left = Down(@)]]
  /\ UNCHANGED <<alive, killed, booked, rows, inFlight, tick, pass, killing, late, faults>>

\* The service's memory is lost.  What is past its checks may be a live-request create of its own process.
Crash ==
  /\ alive /\ faults > 0 /\ faults' = faults - 1 /\ alive' = FALSE
  /\ pipe' = [o \in Askers |-> IF pipe[o].pc = "consenting" THEN pipe[o] ELSE NoPipe] /\ inFlight' = {} /\ tick' = NoTick /\ pass' = NoPass /\ killing' = FALSE
  /\ UNCHANGED <<killed, stored, late>>

\* coordinator.start closes the runs of which nothing was sent.
Restart ==
  /\ ~alive /\ alive' = TRUE
  /\ request' \in {[o \in Askers |-> IF request[o].run = "Armed" \/ o \in unsent THEN [request[o] EXCEPT !.run = "Failed"] ELSE request[o]]
                     : unsent \in SUBSET {o \in Askers : request[o].run = "Active"}}
  /\ UNCHANGED <<killed, schedule, booked, rows, memory, faults, late>>

Scheduler == TickBegin \/ TickNext \/ TickState \/ TickFired
Processor == PassBegin \/ PassClaim \/ PassArm \/ PassRun \/ PassRecord
Pipeline(o) == Simulated(o) \/ Approved(o) \/ Asked(o) \/ Consented(o) \/ (o \in Schedules /\ FireScheduled(o))
Used == {o \in Askers : request[o].state # "absent" \/ pipe[o].pc # "idle" \/ (o \in Schedules /\ schedule[o].state # "absent")}
Ask(o) == \E c \in Targets :
  \/ o \in Commands /\ (FireNow(o, c) \/ Direct(o, c))
  \/ o \in Schedules /\ \E from \in 0 .. Lead, until \in 1 .. 2 * Lead : ScheduleCreate(o, c, from, until)
Owner ==
  \/ \E o \in Askers : Cardinality(Used \cup {o}) <= Asks /\ Ask(o)
  \/ \E s \in Schedules : CancelSchedule(s)
  \/ \E o \in Askers : CancelRequest(o)

FireNext == Scheduler \/ Processor \/ (\E o \in Askers : Pipeline(o) \/ Reconciled(o)) \/ Owner
        \/ Kill \/ KillCancels \/ Release \/ Tick \/ Crash \/ Restart

\* The timers go on, reads end (they have timeouts), time passes, and the process is restarted.
FireSpec == FireInit /\ [][FireNext]_fireVars /\ WF_fireVars(Scheduler) /\ WF_fireVars(Processor) /\ WF_fireVars(Tick) /\ WF_fireVars(Restart)
             /\ \A o \in Askers : WF_fireVars(Pipeline(o))

---------------------------------------------------------------------------

\* A schedule that the owner or a kill cancelled, or that ended, never has a request, and a
\* started one has at most one, however its claim raced with the scheduler's pass.
OnlyStartedFire == \A s \in Schedules : request[s].state # "absent" \/ pipe[s].pc # "idle" => schedule[s].state = "started"

\* A request that waits and is in time, that the processor works on, or whose run is open.  A request
\* whose arm took longer than the hold is left out: the code gives it up on purpose.
Live(o) ==
  \/ request[o].state = "waiting" /\ InTime(o)
  \/ request[o].state = "started" /\ ~request[o].result /\ pass.todo # {} /\ AtHand = o /\ request[o].hold > 0
  \/ RunOpen(o) /\ o \notin late

\* When the pipeline stores a request, no other request it stored for the campaign is live: not for two
\* taps, a tap and a schedule, a tap after a crash, or a request between its claim and its arm.
FiredAlone ==
  [][\A o \in Askers :
       request[o].state = "absent" /\ request'[o].state = "waiting" /\ request'[o].fired =>
         \A p \in Askers \ {o} : request[p].campaign = request'[o].campaign /\ request[p].fired => ~Live(p)]_fireVars

\* Every request and every schedule has an outcome in the end, also when the switch stays on, the mint
\* cannot be read, a result cannot be stored or the process dies.
AllEnd == []<>(\A o \in Askers : request[o].state # "waiting" /\ (o \in Schedules => schedule[o].state # "open"))

\* A schedule is started inside the window that the owner confirmed.
StartedInWindow == [][\A s \in Schedules : schedule[s].state = "open" /\ schedule'[s].state = "started" => schedule[s].until > 0]_fireVars

\* What holds in every state of the requests: whatever fires was claimed by one caller alone.
FireSafety == FireTypeOK /\ OnlyStartedFire
===========================================================================
