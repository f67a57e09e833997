# MintBot: TLA+ models, checks and proofs

MintBot is a TypeScript monorepo that finds NFT mints and executes approved ones
with a small fleet of wallets, under spend caps and kill switches.  This
directory models how the owner asks for a mint, how the request is admitted,
signed, sent, replaced, recorded, stopped and settled, and what watches over it.
Every property is checked by TLC on a small instance; the most important ones are
also proved by TLAPS for every value of the constants.

## 1. Inventory

Paths are relative to `packages/`.

| Component | State | Operations | Interacts with | What is hard |
|---|---|---|---|---|
| Live requests `cli/src/live-request.ts` | request rows, claims | poll, claim, arm, run, close | coordinator | a request may fail at any stage; one at a time |
| Coordinator `backend/src/coordinator.ts` | runtime and run rows in the store, one reconcile promise | start, arm, execute, kill, closeUnsentRun, reconcile | store, engine adapter | awaits between reading and writing; kill against execute against reconcile |
| Canonical store `backend/src/canonical-store.ts` | SQLite: runs, executions, attempts, receipts, reservations, kill flag, admission clock | admitExecution, abortRemaining, abortRunIfUnsent, persist, settle, releaseKillSwitch | database package, triggers | each operation is a transaction of its own; several processes open the file |
| Engine `engine/src/mint-engine.ts` and around it | per-wallet locals, admission gate, kill-switch file | execute, executeFleet | reservation handle, lifecycle store, provider | wallets in parallel, crash between send and store, lost answers |
| Engine adapter `cli/src/engine-adapter.ts` | none | execute, reconcile, mapResult, pre-sign gate | store, engine | fresh reads before signing |
| Kill switches `engine/src/safety.ts`, `backend/src/kill-switch-release.ts`, `cli/src/owner-actions.ts` | file, stored flag | engage, abort, release | everything | two writes that are not atomic |
| Spend window `database/src/spend-window.ts`, caps in the store | reservations, clock watermark | admit, settle, release | host clock | clock changes, late settlement, several runs per campaign |
| Service loop `backend/src/service-orchestrator.ts`, `cli/src/dependency-flags.ts` | readiness record | start, tick, dependency pass | coordinator, kill, backup | five writers of one record |
| Notification outbox `backend/src/notifications.ts`, `alerts.ts` | records with leases | enqueue, digest, dispatch, retry | Telegram | duplicates, pauses, crashes |
| Fire schedules and request claims `database/src/fire-schedule.ts`, `cli/src/fire*.ts` | schedules, outcomes, requests | create, claim, cancel, expire | live requests, kill | claim against cancel against kill |
| Telegram access `database/src/telegram-access.ts`, `cli/src/telegram-command-service.ts` | offset, session, used steps | poll, unlock, lock, kill, tap | commands | replays, waiting commands |
| Guided flows `cli/src/guided-flows.ts` | flow, buttons | begin, answer, confirm | commands | the world moves after the summary |
| Fleet watcher `backend/src/fleet-watcher.ts` | baseline, reminders | tick, accept, return | provider, kill | a finding is confirmed, then kills |
| Replacement ladder, receipts `engine/src/replacement-*.ts`, `receipt-watcher.ts`, `finality-observer.ts` | attempts per nonce | ladder, watch, recover | provider | replacement against inclusion, reorganisation |
| Broadcasters `engine/src/broadcasters` | none | broadcast | provider | several endpoints |
| L2 settlement `cli/src/robinhood-reconcile.ts`, `engine-adapter.ts`, `coordinator.ts` | receipts, reconciliations, report events | read, apply, report | providers, triggers | providers lag or lie, blocks are reorganised, one refused row undoes a pass |
| L2 enablement `backend/src/*-enablement.ts` | records, evidence | enable, revoke, rehearse | coordinator, adapter | revocation during a run |
| Signing and policy `engine/src/turnkey-*.ts` | policy files, loaded signer | load, sign | provider | files replaced while they are read |
| Intelligence `backend/src/intelligence` | cursor, events, scores | scan, notice, sweep | provider, outbox | crash between store and cursor |
| Health monitor `backend/src/health-monitor.ts`, heartbeat `pause-watch.ts`, `cli/src/heartbeat.ts` | scan history, open troubles, last beat | check, tell, beat | host, outbox | a restart forgets the troubles; the clock goes back; a write fails |
| Replication automation `cli/src/replication-*.ts` | claims, prepared campaigns, requests | qualify, claim, prepare, fire | intelligence, fire pipeline, live requests | what allows a mint changes at every await |
| Job scheduler, non-canonical stores, read models, front ends, web | - | - | - | not run live, projections, I/O, wording |

The behaviours that are hard here: five processes or timers write the same rows;
every `await` may be overtaken by a kill, a cancel, a reconcile pass or a crash;
answers of the network get lost; the host clock may be set; files are replaced
while they are read.  The hazards, each at its line, are in `PROJECT.json`.

## 2. Modules

| Module | Models | Used by |
|---|---|---|
| `ExecutionControl` | requests, coordinator, store, engine, kill switches, reconcile, crash | `MCExecutionControl`, `ExecutionControlProofs` |
| `SpendLedger` | caps, rolling window, admission clock | `MCSpendLedger`, `MoneyProofs` |
| `StoreWriter` | the canonical store between its processes: transactions, snapshots, the event cache | `MCSpendLedger`, `MoneyProofs` |
| `LiveGates` | enablement, evidence, test mints, the four gates of a run | `MCLiveGates`, `LiveProofs` |
| `NonceLadder` | one wallet's nonce: replacements, broadcasts, watchers, finality | `MCNonceLadder`, `NonceLadderProofs` |
| `MintRun`, `PolicySigning` | the engine's run from policy to signature; signer and policy files | `MCMintRun`, `MintRunProofs` |
| `Outbox`, `Delivery` | alerts on their way; what the outbox promises | `TelegramProofs` |
| `ServiceState` | the readiness record and the backup job | `MCService`, `LiveProofs` |
| `CommandAccess`, `GuidedFlows` | polling, sessions, codes, workers; flows and their last button | `MCTelegram`, `TelegramProofs` |
| `FireRequests` | schedules, the shared pipeline, request claims | `MCService`, `LiveProofs` |
| `L2Settlement` | the reconcile passes over a run on Base or Robinhood | `MCL2Settlement`, `ChainProofs` |
| `FleetWatch` | the independent watcher of one wallet | `MoneyProofs` |
| `Discovery`, `Readiness` | the block scan and its notices; score, quantity, sweep | `MCIntelligence`, `ChainProofs` |
| `HealthMonitor`, `PauseWatch` | troubles and what the owner hears of them; the heartbeat and the pauses | `MCIntelligence`, `ChainProofs` |
| `Replication` | a watched mint prepared and fired without the owner | `MCIntelligence`, `ChainProofs` |
| `NumberLemmas` | least elements, sums over finite sets (lemmas only) | the proofs |

Wrong variants (`CandidatesNotAborted`, `FitsBefore`, ...) stand beside the
definitions they vary, marked "Mutant" or "Wrong variant".  No specification uses them; with one of
them in the place of its neighbour, TLC finds the property about it violated.

### ExecutionControl

One action is one SQLite transaction or one stretch of code between two awaits.

| Variables | In the code |
|---|---|
| `killed`, `killFile` | stored kill switch; the kill-switch file |
| `startup` | `runtime.startupState` |
| `run`, `exec`, `resv` | states of `execution_run`, `execution`, `spend_reservation`, in the backend's names for runs |
| `hashed` | an attempt of the execution with `tx_hash` exists |
| `facts`, `closed`, `recon` | `execution_facts_recorded`; `run_closed_unsent`; the last reconciliation as it is read back |
| `chain` | the network: absent, pool, mined, reverted (external) |
| `pc`, `cur`, `sawKill` | position of the request being processed, its run, `killedAfterExecution` |
| `eng` | position of each wallet in `executeFleet` |
| `killPc` | a `coordinator.kill` between its two transactions, or a release between flag and file |
| `boot`, `toClose`, `rec` | `coordinator.start`; the reconcile pass with what it has read |
| `late` | history: executions the current request sent after the flag was set |
| `overtaken` | history: runs an abort took from under their running request |
| `crashes`, `kills` | counters for the bounds |

| Actions | In the code |
|---|---|
| `ArmCheck`, `ArmCommit` | `arm`: checks, await, insert |
| `ExecuteCheck`, `ExecuteRefused`, `ExecuteAdmit`, `ExecuteKilledAfterAdmission`, `EngineThrow`, `EngineReturn`, `RecordFacts`, `ExecuteAbort` | `execute`, cut at its awaits |
| `EngineStart` | the engine's first write, which the store refuses unless the run is open |
| `WalletUnsent` .. `WalletSettle` | one wallet of `executeFleet`: stopped early, gate, sign, kill check, send, answer, receipt, settle, catch block |
| `RequestEnd` | end of the poller's pass: `closeRun` |
| `KillFile`, `KillFlag`, `KillAbort`, `ReleaseFlag`, `ReleaseFile` | the kill switches and their release |
| `ReconcileTimer`, `ReconcileOwner`, `ReconcileRead`, `ReconcileApply`, `ReconcileThrow` | a reconcile pass; a throw ends it |
| `StartBegin`, `StartClose`, `StartReconcile`, `StartFinish` | `start` |
| `Mine`, `Crash` | external |

`Races` says what the environment may overlap.  `"concurrent-kill"`: file and flag
are written side by side, as Telegram's `/kill` and the fleet watcher do; without
it the file comes first, as in the CLI.  `"operator-start"`: a CLI command runs
`coordinator.start` in a second process.  `"quick-release"`: the kill switch is
released while a request is running.  The safety of money and runs is stated with all
three present.  Where an abort or a second process takes a run from under its request,
the run joins `overtaken`: an abort met a wallet between gate and stored hash (`Robbed`) and the
kill file was not there, or did not stay, to stop it; or a start closed as unsent a run
whose request was past its check (`UsedMeanwhile`).  `SentIsHeld` says that nothing else releases the money of what is
sent, and `ClosedStaysClosed` that nothing else reopens a closed run; section 5 says what the code
does to the runs in `overtaken`.  `KillStopsFleet` needs that nobody releases the switch under a running request, and
`TerminalStays` that no second process starts or releases beside it.

### SpendLedger

The money side of admission on one chain: rows per run and wallet, the caps, the
rolling window, the admission clock.  The host clock may be off by `MaxDrift` and
may be set at any moment; `minedAt` records the true time at which money left.

The caps are checked against settlement times stamped by a clock that the
watermark does not guard, so the daily properties are stated for windows of true
time shortened by `2 * MaxDrift`.  That is what the code can promise, and with
`MaxDrift = 0` it is the full window.

`Admit` inserts all rows of a run at once, while the code checks the caps wallet
by wallet inside one transaction.  The checks are sums that only grow along the
loop, so the last one decides and the rest follow.

### StoreWriter

Several processes hold one connection each to one SQLite file.  `Begin` is `BEGIN IMMEDIATE`
and the snapshot that follows it, `Mutate` the closure on its copy, `PersistTable`,
`PersistEvents` and `PersistKill` the parts of `persistDelta` in their order, `Commit` and
`Rollback` the two ends; `persistIntent` and `persistReconciliation` take a snapshot of their
own on the way.  A process may stop anywhere (`ProcessEnds`), and SQLite then rolls back.
`ReadTable` is one query of a snapshot outside a transaction: another process may commit
between two of them, which a test in one process never sees.  `Refreshed` is `readEvents`: rows
already read are kept, only later row numbers are asked for, and `Trusted` is its check that
the last row it read is still the same one, since a rolled-back row's number is given out again.

`EventsAsStored`: the next read of the events is the table, row by row, whatever was rolled
back in between.  `CopyIsCurrent`: what a transaction replaces is what it has read.
`RecordsBelong`: no record without its parent, and one accounting row for each receipt.
`SnapshotsClose`: a snapshot in pieces shows no attempt or receipt of a run it does not show,
and the event of every run it shows.  It may well show a run without its newest attempt; the
order of the queries is what makes it close, and reading events before runs would break it.

Rows written without a transaction (a pending receipt's audit row, the release of the kill
switch) and the tables that belong to no run are left out.

### LiveGates

One chain per behaviour.  `records` are the owner's enablement records (on
Ethereum the accepted chain evidence), `profile` and `policy` what follows from
the newest one, `campaign`, `sims`, `probe` what a run is prepared with, `run`,
`hold`, `tx` the run itself.  The owner's commands (`Enable`, `Revoke` in two steps, ...)
are processes of their own and interleave with a run between any two of its four
gates: arm, execute, admission, and the gate before a signature.

### NonceLadder

One wallet's nonce from its first accepted send to the engine's answer.  The loop
of `replacement-ladder.ts` is `Look`, `ReadNonce`, `PreCheck`, `EnterGate`,
`AskSigner`, `Signed`, `Send`, `Sent`; then the receipt watchers (`WatchSees`,
`WatchReorged`, `WatchFails`, `WatchDone`) and `Recover`.  `attempts` holds the two
fees of every attempt, `pool` what some node accepted, `stage` how settled the block
is under the finality rule of the chain.  The clock is left out: an unmined attempt
is stuck as soon as a look finds no receipt, and a watcher may time out at any step.

### MintRun and PolicySigning

`MintRun` is `MintEngine.execute`: the drop is read, the signer loaded, wallets
simulated and admitted under the run's caps, then each goes through the re-check
of the drop, the admission gate, reservation, signature and broadcast, while the
drop's owner edits the drop.  It extends `PolicySigning`: how the signer is put
together from wallet map, active record and catalog (or one bundle) while the owner
replaces those files, and what a loaded signer lets through.  `drops` is the history of the
drop's states, so that a property can speak of what the drop has been; a node shows one of the
last two (`Views`).  Any phase of the preparation may throw (`StopPrepared`), the store may
fail between signature and send (`Broadcast`), and a wallet the caps turn away is told from one
that is skipped (`capped`).

### Outbox and Delivery

`Outbox`: events, their records with lease and backoff, the dispatcher's step per
message, digests.  Each of its transactions may fail while the process goes on (`StoreFails`,
`FlushFails`).  `sent`, `excused`, `pause` are history.  `Delivery` is the
promise: what was recorded is told or grows too old, and nothing else is told.
`Outbox` instantiates it (`Delivers`) with `told` and `dropped` computed from `sent`
and `stale`.

### ServiceState, CommandAccess, GuidedFlows, FireRequests, FleetWatch

- `ServiceState`: `startup`, `reasons` and `deps` are the stored record; `Start`,
  `SchedulerTick`, `Flags`, `CoordinatorKill` and the release each read it, await, and write
  it again.
  `job` and `backup` are the backup job and its status file.
- `CommandAccess`: the long poll with its stored `offset`, the `queue` of the workers,
  the `session` that an authenticator code opens, the guided flow's last tap
  waiting in `chain`, the kill button.  What the loop handles at once (`Stops`) are lock, kill, tap
  and revoke; a `/revoke` without its phrase opens a guided flow and takes its turn behind the
  taps that wait (`AskRevoke`, `BeginRevoke`).  `handled`, `twice`, `fresh`, `newest`,
  `replayed`, `doomed`, `tookEffect` observe.
- `GuidedFlows`: one flow, the handler that runs (`job`), every button the chat still
  shows, and versions of what summaries name.  Who may tap is `CommandAccess`'s.
- `FireRequests`: schedules and requests as rows claimed once, the shared pipeline
  (`pipe`, `inFlight`), the scheduler's pass and the processor's pass.  A direct request looks for
  open schedules (`Direct`), reads its wallets (`Asked`) and waits for its approval (`Consented`),
  or comes from a CLI process, which looks for none.  Requests are kept in
  the order in which they were stored (`rows`), and a pass works on them oldest first.
  Times are counted down.
- `FleetWatch`: one watched wallet: the chain, the books (`res`, `attempt`), the `log` of the
  accepts and the newest baseline in the order a reader is given them (by their times, which is
  not the order of storing), the watcher's `base` and its `check` in progress.  A released
  reservation bears the time it was made, a settled one its own.

The chat's two modules run as `MCTelegram`, the service's two as `MCService`.  A
behaviour is one of the two (`part`), the other rests: `CommandAccess` keeps of a flow
only that it is open and `GuidedFlows` takes each tap as admitted; a request sees of the
readiness record one refusal, which `FireRequests` allows at any time.

### L2Settlement

A run on Base or Robinhood after its request ended: every wallet has a transaction
out, some also its replacement.  `fate` is what blocks may do to a wallet (the
inclusions one after the other), `at`, `included` and `stage` the chain now (external);
`run`, `exec`, `resv`, `receipts`, `recon` the stored rows; `pass` the reconcile pass
with what it has read.

| Actions | In the code |
|---|---|
| `StartPass` | `reconcileOnce` picks the run |
| `ReadBase`, `ReadRobinhood` | one attempt's receipt and finality, from two providers that must agree or from one |
| `Apply`, `ApplyThrows` | the transaction that stores receipts, verdict, run state and settlement; a refusal undoes all of it |
| `Report` | the owner is told of a finality on Robinhood, and the report is marked |
| `Revoke`, `Enable`, `Kill`, `Crash` | enablement, kill switch, a stop of the service |
| `Mine`, `Advance`, `Orphan` | the chain |

Abstractions.  The reads of one attempt are one step, in which a provider may show any
state the chain has had since the attempt was sent.  An inclusion stands for its block
hash, gas and amount, so `Agree` compares the inclusion shown.  The settlement trigger's
third way, a stored verdict that is final, is never needed, since the receipt comes with
its settlement.  A `reorged` reservation is an audit record only.  Reports of one receipt
are one.

### Discovery and Readiness

`Discovery`: one scan tick (`disc`), the cursor, skipped ranges and the three writes
of their notice (`plans`, `alerts`, `notices`).  Every transaction of a tick may fail by itself: a
watched wallet's mint, the opportunities, the calendar, the cursor.  Time (`Tick`) goes no further than
the timer of the announcing pass lets it.  `Readiness`: the score, the planned
quantity and the sweep (`sweep`, `lastEmit`, `saved`).  The binary search of `planFreeQuantity` is a recursive function of the interval
(`Searched`); that it finds the largest quantity supposes that gas grows with quantity,
as the comment at `quantity-plan.ts:79` does (`Estimated`).

### HealthMonitor, PauseWatch, Replication

`HealthMonitor`: `tracker` is `ScanTracker`, `host` the facts outside the process, `episodes`
the map of open troubles, `messages` the stored alerts.  A check is three kinds of step: the time and the
tracker are taken (`CheckBegin`), the facts read and judged (`CheckSample`, `Active`), and one
message after another stored (`Tell`); scans end and facts change in between.  `After`
is the episode as it is changed before its message is awaited, so a message that fails is not
sent again; `cut` records those, and the episodes a restart forgets.

`PauseWatch`: `watch` is what the process remembers, `file` the heartbeat file; a beat is taken
(`BeatBegin`, with `BeatRead` before the first one of a process), written (`BeatWrite`) and, after a long
gap, told (`BeatNote`).  A beat may read an earlier time than the one before.

`Replication`: `home` and `signs` are what allows a mint, for the host (evidence accepted, kill switch
clear, caps left) and for each contract (score, verified source mint, free of charge), and any of them
may change at any step (`SignsChange`).  `job` is the automation's pass: `Qualify`, `ClaimMint`,
`Prepare`, `Record`, then `TellPaid`, or `Walk` along the checks of `JobPath` and `Ask`.  `poll` is the
request processor's pass over the same campaigns (`PollPath`).  `GiveUp` is the handler of
every error after the claim.  `since` and `lately` collect what was true while it mattered.

Each of these and the two above runs on a timer of its own.  What one reads of another may be
anything there, and none waits for another, so `MCIntelligence` makes a behaviour of one
of the five (`part`) while the others rest.

## 3. Runs

| Run | Instance | Shows |
|---|---|---|
| `fleet_execution` | 1 run, 2 wallets, 1 crash, 1 kill side by side with its file, fair | unless the kill overtakes the run, what was sent keeps hash and money (`SentIsHeld`); it stays known (`NoOrphan`), only mined money settles, a kill lets at most one more wallet out (`KillStopsFleet`) and leaves no run open (`RunsClose`), release waits, ended runs stay ended, and every wallet of a fleet that was answered settles (`AnsweredSettles`) |
| `spend_window` | 4 runs, 3 wallets, 2 paid campaigns, window 3, skew 1, drift 1, time to 2, caps 1 and 2; store: 2 processes, 1 run, 3 transactions, symmetry | daily caps and the paid wallet limit (`CapsHold`), `PendingIsYoung`, one row per mint; two processes on one store lose no update and read the events as stored (`AllSafety`) |
| `service` | record: 3 events, backup off after 3 failures; requests: 1 campaign, 2 commands, 1 schedule, life 2, lead 1, 1 fault | the marks of interruption and kill hold, a backup called restorable is one, a request fires once and within its life (`AllSafety`); a fault that stays ends Ready (`FaultBlocks`); a request fires alone (`FiredAlone`) and everything ends (`AllEnd`) |
| `outbox` | 1 immediate alert, 2 reminders, lease 1, retry 1, pause 2, 2 faults | no message twice without a lost answer, no reminder in two digests; the outbox implements `Delivery` (`EveryAlertArrives`) |
| `telegram` | access: 5 updates, 2 workers, 1 fault, failure limit 1; flows: 9 kinds, 2 wallets, 3 flows, 2 begun at once, 1 change | no code opens two sessions, no update acts twice, a summary's button acts once (`AllSafety`) and only on what the summary showed (`ActsAsReviewed`); a gated command acts on a fresh code only; a stop is heard although commands run, unless a `/revoke` holds the loop (`StopHeard`) |
| `nonce_ladder` | 3 chains, 3 first fees, 2 replacements, 2 endpoints, 1 fault | attempts are stored before they are sent, watched and fit the reservation; the gate comes back; the ladder ends |
| `live_gates` | 3 chains, 2 campaigns, 2 wallets, 2 records, symmetry | the first rehearsal goes alone; a chain switched off lets no later signature through; lapsed evidence never returns |
| `intelligence` | scan: 5 blocks, range 2, 1 fault; sweep: 2 wallets, 2 prospects; health: 4 hours, 1 upset; beat: time to 6, 2 trips; copy: 1 contract, 2 wallets, 1 change or restart | gaps are recorded and announced once; the planned quantity is the largest that fits; a trouble that was told is open or its end was told; a pause is told if and only if there was one; a contract is prepared once, and what runs without the owner is free and allowed (`AllSafety`); the stored sweep comes to be true (`SweepCatchesUp`) |
| `fleet_watch` | 1 run, nonces to 2, balance to 2, 1 accept, 1 fault | no kill without a cause, nothing foreign in the baseline; an unexplained change is reported until explained |
| `mint_run` | 5 setups, 2 wallets, time 2, 1 write, 1 edit | what is signed is what was approved, what is reserved stays within the caps and a cap turns away only what does not fit (`SpendWithinCaps`), a change once seen stops later wallets, the run ends with its keys dropped |
| `l2_settlement` | both chains, 2 wallets, 4 fates, a primary that may lie, 2 faults | money settles, the run completes and the owner is told on final inclusions only (`Safety`); once all is final and the chain enabled, every wallet is settled and reported (`FinalSettles`) |
| `l2_revoked` | the same, 1 fault; a counterexample is expected | after a revocation nothing in flight is settled (`RevokedSettles`, section 5) |

Bounds.  Two wallets are the smallest fleet in which one can be inside the gate
while the other waits, and in which outcomes can differ.  The one kill may write flag, abort and
file in any order, and be released; a second one doubles the states and the proofs cover
any number.  (With all three `RaceKinds` and one kill TLC finds the safety invariants of the run true in
8.7 million states; that takes too long to be a run.)  One crash stands for a stop anywhere, and the runs it leaves behind
are then recovered without another.  A window of 3 lets a row age out after a
later one was admitted; a drift of 1 with a tolerance of 1 lets the clock be refused
and be accepted while it runs back.  The first fees are a tip of zero, a tip equal
to the fee, and a fee whose ten per cent is a fraction.  Two records are enable and
revoke, or a record and its successor.  Five blocks in ranges of two give a full range, a
part of one and a gap.  Four hours let a trouble begin, get worse, be told again and end; one
upset changes a fact, loses an alert or restarts the bot, and scans may fail without it.  A time of 6 with a
gap of 1 has two pauses, of which a restart may lie in either; two trips are a restart and a failed
write.  One contract with two wallets gives one campaign or two, paid or free; a
change anywhere between the claim and the run is one turn.  Where a fault budget is 1 the question is always how one
fault is survived; the outbox has 2 because a lost answer and a pause must meet, and the
L2 passes because a lie or a stale answer and a reorganisation must.  There one wallet has the
interesting fates (reverted or mined again after a reorganisation, or mined by the
replacement) and the other the plain one, as a receipt missing or not yet final is
enough to hold the run back.  Three transactions of two processes are one that is rolled back
after its rows were read, one that takes their numbers, and the read that must notice; a
second receipt for one attempt would take a fourth, which `StoreSafe` covers.

Deadlock is not checked: with the work done and the budgets of crashes, kills,
faults and moves used up, these systems have nothing left to do.

Fairness, per specification:

- `ExecutionControl!FairSpec`: weak for the reconcile passes (the service's timer fires and a pass that
  began goes on) and for start-up (a stopped service is started again,
  `ops/systemd/mint-bot.service`, `Restart=on-failure`).  The request may hang for ever; the
  network, the owner and crashes owe nothing.
- `ServiceState`: weak for `Start`, `Tick`, `Flags` and `Backup` (timers, and the restart), and for
  `ReleaseGoesOn` (a release that began).
- `Outbox`: weak for `Flush` and `Tick`, and per message for `Dispatch`, `Retry` and
  `Accepted`.  The dispatcher runs on an interval; that Telegram accepts in the end
  is what the promise is conditional on, except for alerts that grow too old.
- `CommandAccess`: weak for `HandleStop` (the poller handles a stop itself) and
  `Restart`.  A flow's action may last for ever, and `RevokeHeld` excepts a loop that waits for one.
- `FireRequests`: weak for the scheduler, the processor, the clock, the restart and
  the shared pipeline (`AllEnd` needs a mint that returns, which `mint_run` and
  `nonce_ladder` check).
- `NonceLadder`: weak for the ladder's own steps (`Pipeline`), for other wallets that
  leave the gate and for watchers whose receipt timeout ends, strong for `EnterGate`: the
  gate hands turns out in the order of asking (`mint-engine.ts:103`), so a wallet that
  waits gets it although others come.
- `MintRun`: weak for the clock, the preparation, the re-reads and each wallet's steps.
- `FleetWatch`: weak for the watcher's tick and the steps it leads to; it has no crash.
- `L2Settlement`: weak for `Reconcile`.  The service's timer makes the passes while the kill
  switch is off; over a run that a kill aborted the owner makes them, whom the release
  tells to "run reconcile and wait until they settle" (`kill-switch-release.ts:33`), so for such
  a run `FinalSettles` is conditional on the owner.  Nothing is asked of the chain
  or of the providers: the premise of `FinalSettles` says that everything is final, and
  stale or false answers, like all faults, are bounded.
- `MCIntelligence!AllSpec`: weak for the scan's tick, the announcements and the sweep, each while its part
  runs; nothing for the other three, which state safety alone.
- `SpendLedger`, `StoreWriter`, `LiveGates`, `GuidedFlows`: none; they state safety alone.

`Delivery` is checked as a PROPERTY of `Outbox` with its own fairness, so the run
`outbox` covers its liveness too.

## 4. Proofs

TLAPS checks these theorems for every value of the constants that the assumptions
allow: any number of runs, wallets, crashes, replacements, records.  Each invariant
was checked by TLC on the instance of its run before it was proved.  The proofs have
one shape: the initial states satisfy the invariant, every action preserves it (one
step per action, under it one per conjunct the action can disturb), and the
invariant implies the property.

| Theorem | States | Inductive invariant | Needs |
|---|---|---|---|
| `TypeCorrect` | types of `ExecutionControl` | `TypeOK` | - |
| `SettledMined` | `SettledIsMined` | `BaseInv` | - |
| `SentHeld` | `SentIsHeld` | `HeldInv` | - |
| `FleetStopped` | `KillStopsFleet` | `FleetInv` | no `"quick-release"` |
| `RunsStayEnded` | `TerminalStays` | `FreshInv` | at most `"concurrent-kill"` |
| `RunsAreClosed` | `RunsClose` | `ShutInv` | - |
| `NothingIsOrphaned` | `NoOrphan` | `EndedInv` | - |
| `ReleaseWaitsForAll` | `ReleaseWaits` | `EndedInv` | - |
| `LedgerTypeCorrect`, `PendingYoung`, `MintedOnce` | types, `PendingIsYoung`, `OneRowPerMint` | `YoungInv` | - |
| `CapsAlwaysHold` | `CapsHold` | `CapsInv` | - |
| `StoreSafe` | `StoreWriter!StoreSafety` | `StoreInv` | - |
| `SpendingSafe` | `MCSpendLedger!AllSafety` | `TypeOK`, `StoreInv` | - |
| `WatchSafe` | `FleetWatch!WatchSafety` | `WatchInv` | - |
| `GatesTypeCorrect`, `GatesSafe` | `LiveGates!Safety` | `GatesInv` | - |
| `OffStaysOff`, `EvidenceStaysOff` | `OffMeansOff`, `EvidenceNeverReturns` | `TypeOK` | - |
| `OutboxSafe` | `Outbox!Safety` | `OutboxInv` | - |
| `OutboxDelivers` | safety part of `Delivers!Spec` | `OutboxInv` | - |
| `ChatIsSafe`, `GateIsFresh` | `AccessSafety`, `GateNeedsFreshCode` | `AccessInv` | - |
| `ScheduleFiresOnce`, `FiresAlone` | `FireSafety`, `FiredAlone` | `FireInv` | - |
| `ServiceSafe` | `ServiceSafety` | `ServiceInv` | - |
| `ServiceProcessSafe` | `MCService!AllSafety` | `ServiceInv`, `FireInv` | - |
| `LadderSafe` | `NonceLadder!Safety` | `LadderInv` | - |
| `SettlesOnlyFinal` | `L2Settlement!Safety` | `L2Inv` | - |
| `ScanSafe` | `Discovery!ScanSafety` | `ScanInv` | - |
| `SweepSafe` | `Readiness!ReadinessSafety` | `SweepInv` | - |
| `MonitorSafe` | `HealthMonitor!HealthSafety` | `HealthInv` | - |
| `HeartbeatSafe` | `PauseWatch!PauseSafety` | `PauseInv` | - |
| `AutomationSafe` | `Replication!ReplicationSafety` | `ReplicationInv` | - |
| `IntelligenceSafe` | `MCIntelligence!AllSafety` | the five before | - |
| `TypesHold`, `SafetyHolds`, `CapsStayWhole`, `ChangesStayChanges` | `MintRun`'s `TypeOK`, `Safety`, `SpendWithinCaps`, `StaysStopped` | `IInv` | - |

`ExecutionControlProofs`.

- `SettledIsMined` is not inductive: a settlement relies on what an earlier step saw.
  `BaseInv` adds that a wallet's step tells whether it was sent and whether its
  receipt exists (`StepTellsSent`), that what a pass has seen is mined
  (`SeenIsMined`), that the wallets in the engine belong to the request's run
  (`EngineBelongs`), that nothing of a run that is not there yet, or not yet with
  the engine, has been sent (`SentIsLate`), and that a running request has its run
  (`RequestHasRun`).
- `SentIsHeld`: between gate and stored hash only the kill file keeps
  `abortRemaining` off a wallet that will be sent.  `HeldInv` carries: the money of a wallet
  inside the gate is held, or the kill file is there to stop the send, or its run was
  overtaken; and past the last look at the file it is held or the run was overtaken (`GateKeepsMoney`).
  A request that has left the engine has no wallet under way (`ReturnedIsDone`).
- `KillStopsFleet`: at most one wallet is inside the gate (`OneInside`), and after a
  late send the flag stays set and nobody is on the way to another (`LateIsLast`).
- `TerminalStays`: the copy of the run that admission relies on is still true or the
  kill flag is on (`CopyIsFresh`), the executions a pass has seen belong to its
  run (`SeenOfRun`), and no request runs during start-up (`StartIsAlone`).
- `RunsClose`: `ShutInv` adds that a run only armed has nothing of its own yet
  (`ArmedIsClean`), that what the engine serves was admitted and no request is about to admit, or
  has a wallet in the gate for, a closed run that was not overtaken (`ServedIsAdmitted`), and that once a kill is through the only run it
  can have left open is one armed behind its back, whose request is about to close it
  (`KilledIsShut`).  The part about kills is for behaviours without a crash
  (`KillClosesRuns` says so): a stop in the middle of a kill leaves runs open until the
  start that follows has closed them.
- `NoOrphan` and `ReleaseWaits`: `EndedInv` adds what a wallet's outcome tells of its
  transaction (`OutcomeTells`), that a run ends under its request, or has a confirmed result, only if a wallet of it
  was mined, and fails only if one reverted (`EndedIsMined`), and that what is pending in a run that has
  ended has a mined sibling, in a failed one a reverted sibling (`EndedIsResolved`).

`MoneyProofs` (with `NumberLemmas`), the window.  `CapsInv` says that a row settles at most a drift
before its money left by the host clock, and money leaves under a reservation only
(`SettledLate`), that each daily sum holds in every window (`DaysHold`), and that a
paid campaign has at most its wallets (`PaidWalletsBounded`).  The sums are over finite
sets of rows; `NumberLemmas` proves what a step needs of them (that the sum is a
number, that it takes one more row, that a larger set sums to no less) by a least
counterexample of the cardinality, since induction over an operator is not available.

`MoneyProofs`, the store.  `StoreInv`: a row's id names the transaction that wrote it
(`IdsOk`), so a row number given out twice never carries the same id; what a process keeps is
the beginning of the table it sees, or it ends in a row that is gone for good (`CacheOk`), and
the check of that one row then starts the cache over.  An open transaction has read the
committed state and has written exactly the tables before its position (`TxnOk`); at rest the
tables are closed under their parents (`Closed`), every run has its event (`Told`) and every
receipt its one accounting row (`Accounted`).  `GoodView` compares a snapshot with the table as
it is now, and holds because runs are only added.

`LiveProofs`, the gates.  `GatesInv`: a revoked chain is off (`RevokedIsOff`), a run holds
nothing before its admission (`NothingHeldEarly`), an armed run has its campaign
(`RunHasCampaign`), on an L2 money is settled only against a final receipt
(`SettledIsFinal`), and two open mints before the first rehearsal is done are one and
the same (`OneOpen`).  The property counts with `Cardinality`; `OneOpen` says the same
without counting and is what the actions preserve.

`TelegramProofs`, the outbox.  `OutboxInv`: nothing is under way for a message that is not an event
(`EventsFirst`), a digest is made of events (`DigestOfEvents`), what a flush has read is
in no digest yet (`FlushingIsNew`), a message with the dispatcher is not marked as
delivered (`LeaseIsOpen`), and until a message is about to be marked every acceptance of
it was lost (`OnlyLostSoFar`).  `OutboxDelivers` maps every step of the outbox to a step
of `Delivery` or to none, action by action.

`TelegramProofs`, the chat.  `AccessSafety` speaks of what was handled twice, of codes and of
taps that waited when the owner killed, none of which a step can judge by itself.  `AccessInv`
adds that the updates that wait are different ones, taken before and not handled
(`QueueOnce`, `HandledBefore`), except a tap that was let through and waits its turn
(`TapsAreQueued`, `TapsAreHandled`); that the stop in the loop is the last update taken
(`StopIsNew`) and each kill button has an update of its own (`ButtonsAsked`); that a flow
stands for the command that began it (`FlowsBegan`), so the flow of a doomed tap is never
the open one again (`DoomedAreClosed`); and that a live session had its code after the last
thing that ended one (`LiveIsFresh`), from which `GateNeedsFreshCode` follows.

`TelegramProofs`, the flows.  A tap is judged by what it did and what the summary showed, and both
are known only when the handler that read them ends.  `FlowsInv` carries them there: each
handler is at a step of the flow it belongs to (`RightJob`), the last button stands at the last
step of its flow's plan (`ButtonsKnown`), the flow ends with the tap on it, so a flow that acted
is not open (`ActsOnce`); the kill ends the open flow (`KillHeeded`), and nothing begins
to act after the two minutes (`SoonEnough`).  What a flow keeps of its summary fits its kind
(`ShownFits`): a plan names as many wallets as were selected, and since the ready ones
are some of those selected, a plan of the same number is of the same wallets; this is what the
comparison of two numbers in `guidedPrepare` rests on.  A release is compared again after the
await, and engagements are numbered upwards (`Engagements`).  `ChatProcessSafe` puts
both parts together for `AllSpec`, the specification of the run.

`LiveProofs`, requests and schedules.  `FireInv`: who is in a pipeline has no request yet
(`OneRequestEach`), two pipelines never hold one campaign (`CampaignsHeld`), the rows
stored are those in the order (`RowsInOrder`) and a pass works on stored rows
(`PassesRead`), who waits has neither run nor result (`NoResultYet`), the request in hand
is the only one of its pass that is started (`ClaimedByThisPass`), and while a
pipeline holds a campaign no other request it fired for it is live (`NobodyElseLive`): the
check and the storing are two steps, and the entry in `inFlight` between them is what
keeps a second pipeline out.

`LiveProofs`, the readiness record.  That an interrupted run keeps the service from Ready is
not inductive: a lift may remove the last reason there is.  `KeptBack` says which reasons
no lift takes away while a run is unresolved, and that under the stored flag the record
needs none, since the flag is read with it; a release waits for the run, so it takes
away only what was stored before.

`NonceLadderProofs`.  `LadderInv`: each attempt is its entry of the fee table
(`OnTheLadder`), a ladder past its plan has room for one more replacement (`RoomAhead`),
what is on chain is an attempt some node took, or foreign (`MinedWasSent`), every
attempt is stored as it joins the set (`StoredAll`), the ladder never ends for want of
money (`NeverShort`), and without a winner every attempt has its watcher
(`WatchedAll`).  The table is a recursive function `step[bumps]`; the code allows at
most five replacements, so its six entries are written out (`StepsDefined`) and
compared (`StepsRise`).

`ChainProofs`, the settlement.  `L2Inv`: what a pass keeps as final is final on chain and is the
last inclusion (`SeenIsTrue`), since an honest provider shows no other inclusion as final
and of Base's two at most one lies (`AgreedView`); what waits to be reported and what the
owner was told is a stored final receipt (`ReportIsStored`, `ToldIsStored`).  A final verdict
needs a final receipt for every wallet (`FinalCoversAll`), and a wallet whose receipt
authorizes settlement is settled by the same step, for that inclusion's amount
(`PaysFinal`, `SettledAfter`).

`MintRunProofs`.  `IInv` has a part for each of the four things that must not come apart.
The signer: whatever the owner replaces between two reads of a file, a record that is
constructed has the wallets of its map, and local keys have no record (`Custody`,
`SignerIsBound`).  The preparation: until the fleet starts no wallet moves and no re-read
begins, and afterwards the drop that was read and the signer stay what they are
(`Prepared`); without it the amounts below would change under a wallet.  The re-check: what
begins after the mark reports the change (`Stopped`), so `StaysStopped` follows for a wallet
that shares a read as for one that begins its own.  The gate: whoever has a reservation and
has not sent yet is the wallet the gate was given to (`OneInGate`), and its reservation is its
price and its reserve at the ceiling fee exactly (`Reservations`); `Authorized` and `Kept` say
what was true when the signature was asked for and that the signed bytes are the request's.
The caps: the largest wallet admitted was compared with all the others (`AdmittedFits`), which bounds the
sum of the amounts at the first fee; each reservation is such an amount brought to the fee it
reserves at, with Base's bound on top (`ReserveScales`), and sums keep both (`ReservedTogether`, by `NumberLemmas`).
`TurnedAway` follows the choice of the admission: who is turned away did not fit with
those admitted before.

`MoneyProofs`, the fleet watch.  `WatchInv` has two halves.  `KeptIsKnown`: whatever the
watcher or the log keeps of the wallet (baseline, accepts, a proved reading) is a
transaction count the chain has reached, and up to it every stranger's transaction is
vouched for, by the owner or by MintBot's own higher count; a reading judged `ok` inherits
this from the baseline it was judged by, a proved return from the run of returns after it.
`Blameless`: while nobody else has used the wallet, every state that is kept explains the
wallet as it is now (`Explained`): each transaction since by a run of its own whose reservation is open
or ended after that state was read; so the fall is at most what the reservations allow
(an injection from the transactions into the runs, `FallAllowed`) and no judgement finds
anything (`NothingFound`).  It rests on the chain being read before the records, and on the
attempt being stored before the transaction is sent (`ChainKept`).

`ChainProofs`, the scan.  Whether the cursor may pass a block is decided when the range is
read and carried out two transactions later, so `ScanInv` follows the blocks in between
(`ReadHalf`): a tick works from the cursor on up to the head it began with, and a jump has
its gap in the journal (`TickFollows`); what was seen is tracked (`SeenIsTracked`), also for
the blocks in hand (`InHandIsTracked`), and what counts as written was written or was in the
transaction that failed (`EmittedIsStored`).  `NoticeHalf` does the same for the notices: a plan
names stored gaps, none younger than the plan (`PlansAreOfSkips`), every alert was planned
(`AlertsArePlanned`), and once the journal was read, what was announced counts as covered or
is too old to be announced again (`AnnouncedIsKnown`), so what is about to be announced was
not (`PlannedIsNew`).  The last part rests on the ages: a gap is at least as old as a plan that
names it, so while the gap is in the journal's view, so is the plan.

`ChainProofs`, the sweep.  `SweepInv` follows the rows from the checks to the transaction: fresh
rows name no limit and call a wallet unfunded only if it holds less than the plan asks for
(`Untouched`), judged rows satisfy `Best`, and what is stored was judged.  The
limit is counted: `Before` is a strict order (`WalletOrder`), a later wallet has more wallets
ahead (`AheadGrows`), so those with fewer than the limit ahead are at most the limit, and
exactly the limit once someone is turned away (`PlacesTaken`, by the last one kept and the
first one turned away).  Two parts of the safety speak of every drop and every evidence rather
than of a state, and are proved as such.  `LargestPlanned`: the search is shown to be the
table of its answers (`SearchExists`), and no interval can be the smallest one it answers
wrongly (`SearchAnswers`), since each half keeps the answer (`SearchStep`).  `BackedProposals`:
without watched wallets, price or code less than 60 points of the model are known
(`MostIsKnown`), and the score drops a band.

`ChainProofs`, the health monitor.  What the owner hears depends on what the check in progress
has found and not yet told, so `HealthInv` relates the two: an open trouble was last told by this check
or before it (`EpisodesFit`), what is still to be told has a message due and nothing told of
it at this check (`CheckFits`), and the messages of a kind are those of the open episode
or were told before it began (`MessagesFit`); with these `EpisodesInTurn` and
`RemindersApart` are inductive, over restarts too, since a process begins its episodes at a later
time than it was started.  `RecoveryIsEarned` needs that a stall that was told was one: the
scan stood still at that time, or has worked since (`StallFits`).

`ChainProofs`, the heartbeat.  As long as every beat was written and the clock did not go
back, the file holds the newest beat, a beat in progress is not older and, between
beats, the process remembers what the file holds (`BeatsInOrder`); so the gap a beat ends
lies between two written beats with none in between (`GapInOrder`), and a beat that ends no
gap follows closely (`NoGapMissed`).

`ChainProofs`, the automation.  `ReplicationInv`: a contract's groups are its own, their wallets
differ, and it was prepared after its claim (`PlansFit`); what the pass has in hand is what is left
of the plan, the rest having been told or asked for (`JobFits`), from which `ClaimsAreAnswered`
follows; and the position on a path tells what was seen on it: on the way to a request since the campaign was
prepared (`WalkSaw`), on the way to a run since it was armed (`PollSaw`).  The checks are awaits
apart, so no state need have had all of them true at once; that each was true at some time in
between is what the code ensures, and what `AllowedWhenItMatters` says.

Every invariant a run checks is thus stated by a theorem.  Only model-checked: every
liveness property and the fairness of `Delivery` (fairness and ENABLED are out of the
prover's reach).

## 5. Where the code and the repository's texts disagree

One of these is a run, `l2_revoked`.  Of the others, the properties that fail are defined in
the modules and left unchecked, or the instance leaves the race out.

- `L2Settlement!RevokedSettles`: revoking an enablement, or its expiry, sets
  `execution_enabled = 0` (`repositories.ts:644`, `:671`, `:719`), and the trigger
  `receipt_confirmed_finality_guard` (`018_canonical_store_safety.sql:162`) refuses every
  confirmed receipt from then on.  The transaction of the pass throws, so a run in flight is
  not settled until its chain is enabled again, and runs after it in the pass are
  not read.  The owner was told "Runs already in flight are not undone; new ones are
  refused." (`base-enable.ts:54`, `robinhood-enable.ts:138`).  Ethereum's trigger is the same,
  where `ops/host/chain-acceptance-and-readiness.md:67` says "Submitted transactions still
  require reconciliation after revocation."

In `ExecutionControl` (`MCExecutionControl` keeps `OneWallet`, `TwoRuns`, `NoRaces` and
`OperatorStart` for instances other than the run's):

- `engageKillSwitchFile` and `coordinator.kill` are started side by side
  (`telegram-actions.ts:591`), so flag and abort may be done before the file exists.  A
  wallet past the gate with no stored hash then has its money released, stores its
  hash, finds no kill file and is sent.  `mint-engine.ts:1273` says "release only
  work that never crossed the broadcast boundary".  (`SentIsHeld` leaves these runs out as
  `overtaken`; without that TLC finds it violated in the instance of the run.)
- Admission checks the copy of the run that `execute` read before its await
  (`canonical-store.ts:689`).  A CLI command that runs `coordinator.start` in a second
  process may close the armed run in between; admission reopens it.
  The same start may close the run of a wallet that is in the gate with nothing stored yet.
  (`ClosedStaysClosed` leaves them out as `overtaken`; without that it is violated with `"operator-start"`.)
- One revert makes the run Failed, which `reconcileOnce` never reads again, although
  another wallet has no receipt yet; `coordinator.ts:257` says "The aggregate must
  remain Pending so reconciliation continues".  The other wallet's money stays
  reserved.  (`Stranded`, which `NoOrphan` and `AnsweredSettles` leave out.)
- After a stop between send and stored answer the pass asks for signed to confirmed,
  which the trigger refuses; every pass throws.  A sibling that was signed and never
  mined makes every pass throw `INCOMPLETE_TERMINAL_RECEIPTS` (`coordinator.ts:439`).
  With two runs the first such run keeps the second from settling.
- A wallet stopped before its handle exists makes the run Failed; `closeRun` answers
  `absent`, and its money stays reserved until it is a window old.
- `failed` reads back as `unknown` (`canonical-store.ts:373`), so an aborted run whose
  transaction reverted blocks start-up and release for ever.
- One mined wallet makes an aborted run count as settled for the release
  (`kill-switch-release.ts:16`), while another may be waiting in the network.
  (`SiblingMined`, which `ReleaseWaits` leaves out.)

Elsewhere:

- `FireRequests!StartedInWindow`: the window is compared with a clock read before the
  long checks (`fire.ts:101`); `telegram-actions.ts:576` promises the window.  A scheduled
  fire in flight survives a kill and its release (`telegram-actions.ts:593`).
  `/request` sees open schedules only; a hold is at most ten minutes.
- `Discovery!CursorWaitsForEvents`: `emitOpportunities` sets `lastEmit` before its
  transaction (`discovery.ts:179`); `restore` reads scored opportunities only.
  `readiness.ts` does the same with its sweep, whose signature leaves the quantity
  out.  The alert quota is spent before duplicates are removed.
- `FleetWatch!AcceptIsAdopted`: the search for accepts ends at the first record no newer
  than the last one seen (`fleet-watcher.ts:255`), so an accept stored late is never
  read; `owner-actions.ts:63` says "adopts it on its next check".  A foreign transaction below
  the wallet's own recorded nonce passes unseen inside the slack; a deposit, an accept and
  a failed second read can give a false alarm.
- `NonceLadder!ReplacedIsForeign`: the pending count at `mint-engine.ts:1294` includes the
  wallet's own transaction, so one that was never replaced may be called replaced;
  `lifecycle.ts:226` asks for proof of a different transaction.
- `L2Settlement`: a reorganisation that Robinhood's pass stored leaves the execution
  `reorged`, from which the trigger refuses `confirmed`; on Base one wallet's
  revert ends the run as failed while another's transaction is pending, whose money then stays reserved;
  a transaction of a Base run that is never mined makes every final pass throw
  (`coordinator.ts:439`).  `Settleable` leaves the first two out of `FinalSettles`, and
  a transaction that is never mined is never final.
- `ServiceState`: Blocked without any reason is possible (`dependency-flags.ts:75`: the
  last reason goes while a run is unresolved); `live-request.ts:119` tells the owner to
  release the kill switch, which has nothing to lift.  A CLI start that dies leaves Reconciling
  until the next restart.
- `CommandAccess`: a flow's tap checks the session before the serial chain, so a `/lock` in
  between does not stop it.  `/revoke` is handled by the loop, "never behind a slower command"
  (`telegram-commands.ts:701`), yet without its phrase it waits in the serial chain of the guided
  flows (`guided-flows.ts:131`, `:153`), and the loop waits with it, though "a slow chain read can
  never hold up a /kill" (`telegram-command-service.ts:30`).  (`RevokeHeld`, which `StopHeard` leaves out.)
- `LiveGates`: the gate before a signature asks whether some record is current, not the
  campaign's own; Ethereum's revocation is not read again before a signature;
  arming asks Robinhood's record only for paid mints.
- `MintRun`: the period cap is called a bound on "the run's total free-mint reserve" (`fee-guard.ts:99`), but
  admission compares amounts at the first fee, and each wallet then reserves at the ceiling of the
  replacements and with Base's bound (`mint-engine.ts:806`), so the reserves may sum above it:
  a cap of 4 and two wallets that reserve 2 and 4.  (`SpendWithinCaps` states the bound that holds.)
- `MintRun`: a re-read that began before the latch may answer "no change" after it, and a
  wallet past the re-check that waits at the gate still signs (`drop-recheck.ts:4`).
- `GuidedFlows`: the phrase `file-only` is shared by all engagements by file
  (`telegram-actions.ts:691`), a kill while on keeps `changedAt`, a release with nothing to
  release reports success (`guided-flows.ts:626`), previews may be ten seconds old.
- `PauseWatch`: `beatOnce` writes the file whatever the clock says (`intelligence-service.ts:275`), so
  a clock that went back moves the stored beat into the past, which the comment at
  `pause-watch.ts:27` says must not happen; after a restart a pause may then be told that was none
  (`PausesAreReal` and `PausesAreTold` ask that `slipped` is false).
- `HealthMonitor`: a disk or a backup that cannot be read is not judged, so an open trouble is
  told as recovered (`health-monitor.ts:109`); so is delivery trouble once the failed
  message is six hours old.  `RecoveryIsEarned` is stated for the scan alone.
- `Replication`: `claimed` is set inside the transaction (`replication-automation.ts:63`), so a claim whose save fails is
  told as stopped, "Check /runs and /requests before retrying", and is prepared by a later pass after all.

## 6. Not modelled

- The latch inside an engine instance's `KillSwitch`; `run` in a second process; dry runs;
  two operators at once.
- A pass reads the attempts of a run and their receipts at one instant.  At a
  receipt timeout the engine counts the sender's pending nonces, its own pooled
  transaction among them; the record it then writes is refused by the database, so
  `KeepForRecovery` allows a stored and a refused record.
- Settled rows count at their reserved amount in `SpendLedger`, as the caps do.
- Amounts and fee components of L2 receipts; the private relay; the eviction of
  tracked contracts (`MAX_TRACKED`); stale provider answers in `FleetWatch`.
- `MintRun`: a wallet that asks after the latch but shares a read that began before it; policy files are set
  back after a load; the run edits the drop at most once, the proofs any number of times.
- `HealthMonitor`: the monitor ping and the daily check-in.  `Replication`: the proofs of an allowlist, amounts, and the
  wallets dropped by their test mints.
- Logging, wording, read models, the job scheduler, web, and what `PROJECT.json` lists as `not_modelled`.

Left for later: an abstract "money" specification (reserved, then settled or released, once) implemented by `ExecutionControl`.
