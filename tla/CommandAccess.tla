--------------------------- MODULE CommandAccess ---------------------------
(***************************************************************************)
(* The owner's chat commands: long polling with a stored offset, a queue   *)
(* for a few workers, the session that an authenticator code opens, the    *)
(* guided flow whose last tap starts something, and the kill button.       *)
(*                                                                         *)
(* Clock times are kept only where two of them are compared: `step' is the *)
(* authenticator's 30 second step, and a session remembers whether it was  *)
(* opened before this process, before a kill, or has expired.              *)
(***************************************************************************)
EXTENDS Integers, Sequences, SequencesExt, FiniteSets

CONSTANTS
  Workers, FailureLimit,
  MaxUpdates, MaxStep, \* bounds: updates the owner sends, authenticator steps
  AccessFaults         \* bound: crashes, expiries, kills from elsewhere, kills that fail

ASSUME AccessAssumption == {Workers, FailureLimit, MaxUpdates, MaxStep} \subseteq Nat \ {0} /\ AccessFaults \in Nat

VARIABLES
  offset,   \* stored: the next update to ask for
  session,  \* stored: the open session, at most one
  used,     \* stored: the highest authenticator step a session was opened with
  failures, \* stored: the wrong codes of the last hour
  step,
  alive,
  stopping, \* the stop update the loop is handling, how far it is, and the taps whose turn comes before it
  queue,    \* updates that the workers handle or that wait for a worker, oldest first
  killButtons, \* kill buttons shown in the last two minutes and not tapped
  openFlow, \* the open guided flow, by the id of the update that began it
  chain,    \* taps that passed the session check and wait their turn
  acting,   \* the tap whose action runs
  handled,  \* observer: the updates some handler took up
  twice,    \* observer: the updates taken up more than once
  fresh,    \* observer: a code was accepted since the last kill, lock, expiry or restart
  newest,   \* observer: the newest authenticator step that opened a session
  replayed, \* observer: a session was opened with a step that is not newer
  doomed,   \* observer: the waiting taps that were there when the chat's kill button was pressed
  tookEffect, \* observer: those of them whose action ran
  accessFaults

stored == <<offset, session, used, failures>>
memory == <<stopping, queue, killButtons, openFlow, chain, acting>>
accessObservers == <<handled, twice, fresh, newest, replayed, doomed, tookEffect>>
accessVars == <<stored, step, alive, memory, accessObservers, accessFaults>>

NoSession == [expired |-> FALSE, killed |-> FALSE, restarted |-> TRUE, open |-> FALSE]
NewSession == [expired |-> FALSE, killed |-> FALSE, restarted |-> FALSE, open |-> TRUE]
NoUpdate == [id |-> 0, kind |-> "none", arg |-> 0]
Wrong == -1
Ids == 1 .. MaxUpdates
Update == [id : 0 .. MaxUpdates, kind : {"none", "unlock", "lock", "kill", "tap", "revoke", "start", "go"}, arg : -1 .. MaxUpdates + MaxStep]
StopState == [update : Update, pc : {"idle", "begin", "engage", "close", "turn"}, ahead : SUBSET Ids]

AccessTypeOK ==
  /\ offset \in 1 .. MaxUpdates + 1 /\ used \in -1 .. MaxStep + 1 /\ failures \in 0 .. FailureLimit
  /\ session \in [expired : BOOLEAN, killed : BOOLEAN, restarted : BOOLEAN, open : BOOLEAN]
  /\ step \in 0 .. MaxStep /\ alive \in BOOLEAN /\ killButtons \in 0 .. MaxUpdates /\ openFlow \in 0 .. MaxUpdates
  /\ {queue, chain} \subseteq Seq(Update)
  /\ stopping \in StopState
  /\ acting \in Update /\ handled \cup twice \cup doomed \cup tookEffect \subseteq Ids
  /\ fresh \in BOOLEAN /\ newest \in -1 .. MaxStep + 1 /\ replayed \in BOOLEAN /\ accessFaults \in 0 .. AccessFaults

NotStopping == [update |-> NoUpdate, pc |-> "idle", ahead |-> {}]

AccessInit ==
  /\ offset = 1 /\ session = NoSession /\ used = -1 /\ failures = 0 /\ step = 0 /\ alive = TRUE
  /\ stopping = NotStopping /\ queue = <<>> /\ killButtons = 0 /\ openFlow = 0 /\ chain = <<>> /\ acting = NoUpdate
  /\ handled = {} /\ twice = {} /\ fresh = FALSE /\ newest = -1 /\ replayed = FALSE /\ doomed = {} /\ tookEffect = {} /\ accessFaults = AccessFaults

\* Something that need not happen: a crash, a kill from elsewhere, an expiry, a kill that fails.
Fault == accessFaults > 0 /\ accessFaults' = accessFaults - 1

---------------------------------------------------------------------------
(* The session                                                             *)

\* Mutant: a kill that came from somewhere else leaves the session open.
LiveDespiteKill == session.open /\ ~session.restarted /\ ~session.expired
\* currentSession: a session from before this start, past its time, or older than a kill, has ended.
SessionLive == session.open /\ ~session.restarted /\ ~session.expired /\ ~session.killed
Checked == IF SessionLive THEN session ELSE NoSession

\* matchTotp and startSession: the code of this step or a neighbour, newer than every code used before.
Acceptable(code) == code \in step - 1 .. step + 1 /\ code > used

---------------------------------------------------------------------------
(* Polling                                                                 *)

\* What the owner may send next; the button of a flow carries the flow's id.
Message(i) ==
  {[id |-> i, kind |-> k, arg |-> 0] : k \in {"lock", "kill", "tap", "revoke", "start"}}
    \cup {[id |-> i, kind |-> "go", arg |-> openFlow] : f \in {openFlow} \ {0}}
    \cup {[id |-> i, kind |-> "unlock", arg |-> c] : c \in {Wrong} \cup ((step - 1 .. step + 1) \cap Nat)}

\* The offset is stored before the update is handled.  A stop update is handled in the loop, at once;
\* the others wait for a worker.
Stops(m) == m.kind \in {"lock", "kill", "tap", "revoke"}
\* Mutant: every update waits for a worker.
StopsNever(m) == FALSE
AtOnce(m) == Stops(m)

\* Mutant: an update is handled and its offset stored afterwards, by the next one.
TakenLate(m) == offset' = m.id
\* savePollOffset never goes back.
Taken(m) == offset' = m.id + 1

\* An update that was taken before is skipped.
TakeUpdate(m) ==
  IF m.id < offset THEN UNCHANGED <<offset, stopping, queue>>
  ELSE /\ Taken(m)
       /\ stopping' = IF AtOnce(m) THEN [update |-> m, pc |-> "begin", ahead |-> {}] ELSE stopping
       /\ queue' = IF AtOnce(m) THEN queue ELSE Append(queue, m)

\* One pass of the loop: the session check, then the updates from the stored offset on; Telegram
\* may hand an update out again.  (One update a pass: a longer answer is the same steps in a row.)
Poll ==
  /\ alive /\ stopping = NotStopping
  /\ session' = Checked
  /\ \/ offset \in Ids /\ \E m \in Message(offset) : TakeUpdate(m)
     \/ offset > 1 /\ TakeUpdate([id |-> offset - 1, kind |-> "lock", arg |-> 0])
  /\ UNCHANGED <<used, failures, step, alive, killButtons, openFlow, chain, acting, accessObservers, accessFaults>>

\* drain: the workers have the oldest updates that are not finished.
Working == ToSet(SubSeq(queue, 1, IF Len(queue) < Workers THEN Len(queue) ELSE Workers))

\* A handler takes an update up.
TakeUp(m) == handled' = handled \cup {m.id} /\ twice' = twice \cup ({m.id} \cap handled)

---------------------------------------------------------------------------
(* Stop updates                                                            *)

Lock ==
  /\ stopping.pc = "begin" /\ stopping.update.kind = "lock"
  /\ TakeUp(stopping.update)
  /\ session' = NoSession /\ fresh' = FALSE /\ stopping' = NotStopping
  /\ UNCHANGED <<offset, used, failures, step, alive, queue, killButtons, openFlow, chain, acting, newest, replayed, doomed, tookEffect, accessFaults>>

\* /kill shows a button.
AskKill ==
  /\ stopping.pc = "begin" /\ stopping.update.kind = "kill"
  /\ TakeUp(stopping.update)
  /\ killButtons' = killButtons + 1 /\ stopping' = NotStopping
  /\ UNCHANGED <<stored, step, alive, queue, openFlow, chain, acting, fresh, newest, replayed, doomed, tookEffect, accessFaults>>

\* A kill ends any open guided flow.
EndFlow == openFlow' = 0

\* confirmKill: one tap per button; the flow ends before anything is awaited.
ConfirmKill ==
  /\ stopping.pc = "begin" /\ stopping.update.kind = "tap"
  /\ TakeUp(stopping.update)
  /\ IF killButtons = 0 THEN stopping' = NotStopping /\ UNCHANGED <<killButtons, openFlow, doomed>>
     ELSE /\ killButtons' = killButtons - 1 /\ stopping' = [stopping EXCEPT !.pc = "engage"]
          /\ EndFlow
          /\ doomed' = doomed \cup {m.id : m \in ToSet(chain)}
  /\ UNCHANGED <<stored, step, alive, queue, chain, acting, fresh, newest, replayed, tookEffect, accessFaults>>

\* The kill file and the coordinator's kill are both attempted; both may fail.
EngageKill ==
  /\ stopping.pc = "engage"
  /\ \/ session' = [session EXCEPT !.killed = session.open] /\ fresh' = FALSE /\ UNCHANGED accessFaults
     \/ Fault /\ UNCHANGED <<session, fresh>>
  /\ stopping' = [stopping EXCEPT !.pc = "close"]
  /\ UNCHANGED <<offset, used, failures, step, alive, queue, killButtons, openFlow, chain, acting, handled, twice, newest, replayed, doomed, tookEffect>>

\* The session ends even when the kill could not be engaged: the owner meant to stop.
CloseAfterKill ==
  /\ stopping.pc = "close"
  /\ session' = NoSession /\ fresh' = FALSE /\ stopping' = NotStopping
  /\ UNCHANGED <<offset, used, failures, step, alive, queue, killButtons, openFlow, chain, acting, handled, twice, newest, replayed, doomed, tookEffect, accessFaults>>

\* /revoke with its phrase switches the chain off; without one it opens a guided flow, and that
\* takes its turn behind the taps of other flows while the loop waits.
AskRevoke ==
  /\ stopping.pc = "begin" /\ stopping.update.kind = "revoke"
  /\ TakeUp(stopping.update)
  /\ stopping' \in {NotStopping, [stopping EXCEPT !.pc = "turn", !.ahead = {m.id : m \in ToSet(chain)}]}
  /\ UNCHANGED <<stored, step, alive, queue, killButtons, openFlow, chain, acting, fresh, newest, replayed, doomed, tookEffect, accessFaults>>

TurnComes == acting = NoUpdate /\ \A m \in ToSet(chain) : m.id \notin stopping.ahead

\* The flow of a revoke replaces the open one.  (Its own taps need no session and start nothing.)
BeginRevoke ==
  /\ stopping.pc = "turn" /\ TurnComes
  /\ openFlow' = 0 /\ stopping' = NotStopping
  /\ UNCHANGED <<stored, step, alive, queue, killButtons, chain, acting, accessObservers, accessFaults>>

---------------------------------------------------------------------------
(* Updates that wait for a worker                                          *)

Leave(m) == \E i \in DOMAIN queue : queue[i] = m /\ queue' = RemoveAt(queue, i)

\* More than five minutes old, so not run.
TooOld(m) ==
  /\ m \in Working /\ m \notin ToSet(chain) \cup {acting}
  /\ TakeUp(m) /\ Leave(m)
  /\ UNCHANGED <<stored, step, alive, stopping, killButtons, openFlow, chain, acting, fresh, newest, replayed, doomed, tookEffect, accessFaults>>

\* unlock: nothing is awaited between counting the failures and storing the outcome.
Unlock(m) ==
  /\ m \in Working /\ m.kind = "unlock" /\ TakeUp(m) /\ Leave(m)
  /\ \/ failures >= FailureLimit /\ UNCHANGED <<session, used, failures, fresh, newest, replayed>>
     \/ /\ failures < FailureLimit /\ Acceptable(m.arg)
        /\ session' = NewSession /\ used' = m.arg /\ fresh' = TRUE /\ newest' = m.arg /\ replayed' = (replayed \/ m.arg <= newest)
        /\ UNCHANGED failures
     \/ /\ failures < FailureLimit /\ ~Acceptable(m.arg)
        /\ failures' = failures + 1 /\ UNCHANGED <<session, used, fresh, newest, replayed>>
  /\ UNCHANGED <<offset, step, alive, stopping, killButtons, openFlow, chain, acting, doomed, tookEffect, accessFaults>>

\* A start command opens its guided flow, which replaces the one before.
Start(m) ==
  /\ m \in Working /\ m.kind = "start" /\ TakeUp(m) /\ Leave(m)
  /\ session' = Checked
  /\ openFlow' = IF SessionLive THEN m.id ELSE openFlow
  /\ UNCHANGED <<offset, used, failures, step, alive, stopping, killButtons, chain, acting, fresh, newest, replayed, doomed, tookEffect, accessFaults>>

\* A tap on the last button: the session is checked, then the tap waits for its turn.
LastTap(m) ==
  /\ m \in Working /\ m.kind = "go" /\ m \notin ToSet(chain) \cup {acting} /\ TakeUp(m)
  /\ session' = Checked
  /\ IF SessionLive THEN chain' = Append(chain, m) /\ UNCHANGED queue ELSE Leave(m) /\ UNCHANGED chain
  /\ UNCHANGED <<offset, used, failures, step, alive, stopping, killButtons, openFlow, acting, fresh, newest, replayed, doomed, tookEffect, accessFaults>>

\* handleButton and finish: the flow ends with this tap; a tap of another flow, or on a
\* confirmation older than two minutes, does nothing.
Act ==
  /\ chain # <<>> /\ acting = NoUpdate
  /\ stopping.pc = "turn" => ~TurnComes
  /\ LET m == Head(chain) IN
       /\ chain' = Tail(chain)
       /\ doomed' = doomed \ {m.id}
       /\ \/ m.arg = openFlow /\ openFlow' = 0 /\ acting' = m /\ tookEffect' = tookEffect \cup ({m.id} \cap doomed) /\ UNCHANGED queue
          \/ m.arg = openFlow /\ openFlow' = 0 /\ Leave(m) /\ UNCHANGED <<acting, tookEffect>>
          \/ m.arg # openFlow /\ Leave(m) /\ UNCHANGED <<openFlow, acting, tookEffect>>
  /\ UNCHANGED <<stored, step, alive, stopping, killButtons, handled, twice, fresh, newest, replayed, accessFaults>>

\* An action that records something runs to its end, however long that takes.
ActDone ==
  /\ acting # NoUpdate /\ acting' = NoUpdate /\ Leave(acting)
  /\ UNCHANGED <<stored, step, alive, stopping, killButtons, openFlow, chain, accessObservers, accessFaults>>

---------------------------------------------------------------------------
(* Time, crashes, kills from elsewhere                                     *)

\* Buttons older than two minutes and failures older than an hour are dropped.
NextStep ==
  /\ step < MaxStep /\ step' = step + 1
  /\ killButtons' \in 0 .. killButtons /\ failures' \in 0 .. failures
  /\ UNCHANGED <<offset, session, used, alive, stopping, queue, openFlow, chain, acting, accessObservers, accessFaults>>

Expire ==
  /\ Fault /\ session.open /\ session' = [session EXCEPT !.expired = TRUE] /\ fresh' = FALSE
  /\ UNCHANGED <<offset, used, failures, step, alive, memory, handled, twice, newest, replayed, doomed, tookEffect>>

\* The watcher, a provider check or the owner on the host: killEngagedSince is true from now on.
KillElsewhere ==
  /\ Fault /\ session.open /\ session' = [session EXCEPT !.killed = TRUE] /\ fresh' = FALSE
  /\ UNCHANGED <<offset, used, failures, step, alive, memory, handled, twice, newest, replayed, doomed, tookEffect>>

AccessCrash ==
  /\ alive /\ Fault /\ alive' = FALSE
  /\ stopping' = NotStopping /\ queue' = <<>> /\ killButtons' = 0 /\ openFlow' = 0 /\ chain' = <<>> /\ acting' = NoUpdate
  /\ UNCHANGED <<stored, step, accessObservers>>

\* onStart closes the session; if that fails, the session is still older than the process.
Restart ==
  /\ ~alive /\ alive' = TRUE /\ fresh' = FALSE
  /\ session' \in {NoSession, [session EXCEPT !.restarted = TRUE]}
  /\ UNCHANGED <<offset, used, failures, step, memory, handled, twice, newest, replayed, doomed, tookEffect, accessFaults>>

HandleStop == Lock \/ AskKill \/ ConfirmKill \/ EngageKill \/ CloseAfterKill \/ AskRevoke \/ BeginRevoke
Handle(m) == TooOld(m) \/ Unlock(m) \/ Start(m) \/ LastTap(m)

AccessNext == \/ Poll \/ HandleStop \/ (\E m \in Working : Handle(m)) \/ Act \/ ActDone
        \/ NextStep \/ Expire \/ KillElsewhere \/ AccessCrash \/ Restart

\* A stop update is handled to its end and the process is restarted; nothing is assumed of the workers.
AccessSpec == AccessInit /\ [][AccessNext]_accessVars /\ WF_accessVars(HandleStop) /\ WF_accessVars(Restart)

---------------------------------------------------------------------------

\* No command runs twice: not when Telegram hands an update out again, not when the
\* process dies between storing the offset and handling the update.
NeverTwice == twice = {}

\* A start command or a last tap passes the session check only if a code was accepted
\* since the last kill of any origin, lock, expiry or restart.
GateNeedsFreshCode == [][(openFlow' \notin {0, openFlow} \/ Len(chain') > Len(chain)) => fresh]_accessVars

\* Every accepted code is newer than the ones before it, so none opens two sessions, whatever
\* was replayed, delayed in the queue or sent before a restart.
CodesOnlyOnce == ~replayed

\* A tap that had passed the session check when the kill button was pressed never acts,
\* also not in a flow that is begun afterwards.
KillEndsWaitingTaps == tookEffect = {}

\* A stop update that was fetched is not left waiting, even when every worker is stuck in a
\* slow command.  Only the guided form of /revoke may be: its flow waits for the action of another
\* flow, as long as that takes, and the loop, with the stop updates still to fetch, waits with it.
RevokeHeld == stopping.pc = "turn" /\ ~TurnComes
StopWaits == \E m \in ToSet(queue) \cup {stopping.update} : Stops(m)
StopHeard == []<>(~StopWaits \/ RevokeHeld)

\* What holds in every state of the chat: no update is handled twice, no code accepted twice, and
\* no tap of a flow from before a kill is waiting to act.
AccessSafety == AccessTypeOK /\ NeverTwice /\ CodesOnlyOnce /\ KillEndsWaitingTaps
===========================================================================
