----------------------------- MODULE FleetWatch -----------------------------
(***************************************************************************)
(* The independent watcher of one fleet wallet (FleetWatcher): it compares *)
(* the wallet's transaction count and balance on the chain with MintBot's  *)
(* own attempts and reservations, engages the kill switch on what those do *)
(* not explain, and keeps its baseline where it was until the owner        *)
(* accepts the new state or a proof shows the transactions were returns to *)
(* the treasury.                                                           *)
(*                                                                         *)
(* The wallet's run, the owner's commands (processes of their own) and the *)
(* chain move between any two steps of a check.  Every transaction spends  *)
(* one unit; a reservation is one unit.  Times are clock steps; two events *)
(* may carry the same one.                                                 *)
(***************************************************************************)
EXTENDS Integers, Sequences, FiniteSets

CONSTANTS
  WalletRuns, \* the wallet's runs, each one mint
  MaxNonce,   \* bound: transactions of the wallet
  Balance,    \* balance at the start
  LastTime,   \* bound: clock steps
  MaxAccepts, \* bound: accept commands
  Faults      \* bound: restarts, and stops that could not be engaged

ASSUME WatchAssumption ==
  /\ Balance \in Nat /\ MaxNonce \in 1 .. Balance
  /\ {LastTime, MaxAccepts, Faults} \subseteq Nat
ASSUME WalletRunsAssumption ==
  /\ IsFiniteSet(WalletRuns) /\ WalletRuns \cap {"none", "thief", "treasury"} = {}

VARIABLES
  watchTime,
  chain,     \* the wallet on the chain: transaction count and balance
  spender,   \* who used each transaction count: a run, "thief" or "treasury"
  res,       \* the reservation of each run: status and updatedAt
  attempt,   \* the transaction count recorded for each run's attempt; -1: none
  log,       \* stored accepts and the newest baseline, in the order a reader is given
  latestAt,  \* time of the newest stored event of any kind; -1: none
  base,      \* the running watcher's baseline; None before it is loaded
  synced,    \* lastAcceptSyncAt of the running watcher; -1: never
  check,     \* the check in progress
  command,   \* the accept command in progress
  killed,
  trusted,   \* history: transaction count the owner or the first baseline vouched for
  faults

walletVars == <<chain, spender>>
bookVars   == <<res, attempt>>
watchVars  == <<base, synced, check>>
logVars    == <<log, latestAt>>
fleetVars  == <<watchTime, walletVars, bookVars, logVars, watchVars, command, killed, trusted, faults>>

Nonces == 0 .. MaxNonce - 1
Reading == [nonce : 0 .. MaxNonce, bal : 0 .. Balance + 1]
None == [nonce |-> -1, bal |-> 0, at |-> -1]
NoCheck == [pc |-> "idle", reading |-> [nonce |-> 0, bal |-> 0], at |-> -1]
NoCommand == [at |-> -1, nonce |-> 0, bal |-> 0]
Event(kind, r, at, seen) == [kind |-> kind, nonce |-> r.nonce, bal |-> r.bal, at |-> at, seen |-> seen]

SetMax(S) == CHOOSE x \in S : \A y \in S : y <= x

\* readEvents gives the events in the order of their times; two of the same time come
\* in either order, their ids being random.  Of several baselines, and of one with an
\* accept after it, only the last is ever read again: load and the commit of a return
\* take the newest record.
EndsInBaseline == log # <<>> /\ log[Len(log)].kind = "baseline"
Older == IF EndsInBaseline THEN SubSeq(log, 1, Len(log) - 1) ELSE log
Places(e) == {n \in DOMAIN log : log[n].at >= e.at /\ \A i \in 1 .. n - 1 : log[i].at <= e.at}
Added(e) ==
  (IF \A i \in DOMAIN log : log[i].at <= e.at THEN {Append(Older, e)} ELSE {})
    \union {IF e.kind = "baseline" THEN log
            ELSE SubSeq(log, 1, n - 1) \o <<e>> \o SubSeq(log, n, Len(log)) : n \in Places(e)}

\* persist: an event of these, or one of another kind, is stored.
Persist(e) == log' \in Added(e) /\ latestAt' = SetMax({latestAt, e.at})
PersistOther == latestAt' = SetMax({latestAt, watchTime}) /\ UNCHANGED log

WatchTypeOK ==
  /\ watchTime \in 0 .. LastTime
  /\ chain \in Reading
  /\ spender \in [Nonces -> WalletRuns \union {"none", "thief", "treasury"}]
  /\ res \in [WalletRuns -> [status : {"none", "reserved", "settled", "released"}, at : -1 .. LastTime]]
  /\ attempt \in [WalletRuns -> -1 .. MaxNonce - 1]
  /\ \A i \in DOMAIN log :
       log[i] \in [kind : {"baseline", "accept"}, nonce : 0 .. MaxNonce,
                   bal : 0 .. Balance + 1, at : 0 .. LastTime, seen : 0 .. LastTime]
  /\ base = None \/ base \in [nonce : 0 .. MaxNonce, bal : 0 .. Balance + 1, at : 0 .. LastTime]
  /\ {synced, latestAt} \subseteq -1 .. LastTime
  /\ check \in [pc : {"idle", "read", "confirm", "proven", "alarm"}, reading : Reading, at : -1 .. LastTime]
  /\ command \in [at : -1 .. LastTime, nonce : 0 .. MaxNonce, bal : 0 .. Balance + 1]
  /\ killed \in BOOLEAN /\ trusted \in 0 .. MaxNonce /\ faults \in 0 .. Faults

WatchInit ==
  /\ watchTime = 0
  /\ chain = [nonce |-> 0, bal |-> Balance]
  /\ spender = [n \in Nonces |-> "none"]
  /\ res = [r \in WalletRuns |-> [status |-> "none", at |-> -1]]
  /\ attempt = [r \in WalletRuns |-> -1]
  /\ log = <<>> /\ latestAt = -1 /\ base = None /\ synced = -1
  /\ check = NoCheck /\ command = NoCommand
  /\ killed = FALSE /\ trusted = 0 /\ faults = 0

-----------------------------------------------------------------------------
(* MintBot's own records of the wallet                                     *)

\* runActive, and a reservation that is still open.
Open(r) == res[r].status = "reserved"

Reserve(r) ==
  /\ ~killed /\ res[r].status = "none" /\ \A s \in WalletRuns : ~Open(s)
  /\ res' = [res EXCEPT ![r] = [status |-> "reserved", at |-> watchTime]]
  /\ UNCHANGED <<watchTime, walletVars, attempt, logVars, watchVars, command, killed, trusted, faults>>

\* The attempt and its transaction count are stored before anything is sent.
RecordAttempt(r) ==
  /\ ~killed /\ Open(r) /\ attempt[r] = -1 /\ chain.nonce < MaxNonce
  /\ attempt' = [attempt EXCEPT ![r] = chain.nonce]
  /\ UNCHANGED <<watchTime, walletVars, res, logVars, watchVars, command, killed, trusted, faults>>

\* The transaction is mined, if its count is still free.
OwnMined(r) ==
  /\ Open(r) /\ attempt[r] = chain.nonce
  /\ spender' = [spender EXCEPT ![chain.nonce] = r]
  /\ chain' = [nonce |-> chain.nonce + 1, bal |-> chain.bal - 1]
  /\ UNCHANGED <<watchTime, bookVars, logVars, watchVars, command, killed, trusted, faults>>

\* The reservation ends once the chain shows what became of the transaction.  A
\* settlement has a time; of a release a reader gets the time the reservation was made.
Close(r) ==
  /\ Open(r)
  /\ \/ /\ attempt[r] # -1 /\ attempt[r] < chain.nonce /\ spender[attempt[r]] = r
        /\ res' = [res EXCEPT ![r] = [status |-> "settled", at |-> watchTime]]
     \/ /\ IF attempt[r] = -1 THEN killed ELSE attempt[r] < chain.nonce /\ spender[attempt[r]] # r
        /\ res' = [res EXCEPT ![r].status = "released"]
  /\ UNCHANGED <<watchTime, walletVars, attempt, logVars, watchVars, command, killed, trusted, faults>>

\* Somebody else, or the owner returning money, uses the wallet's key.
Spend(who) ==
  /\ chain.nonce < MaxNonce
  /\ spender' = [spender EXCEPT ![chain.nonce] = who]
  /\ chain' = [nonce |-> chain.nonce + 1, bal |-> chain.bal - 1]
  /\ UNCHANGED <<watchTime, bookVars, logVars, watchVars, command, killed, trusted, faults>>

\* Money arrives once, in the first clock step after the first check (a bound).
Deposit ==
  /\ log # <<>> /\ watchTime = 0 /\ chain.bal + chain.nonce = Balance
  /\ chain' = [chain EXCEPT !.bal = @ + 1]
  /\ UNCHANGED <<watchTime, spender, bookVars, logVars, watchVars, command, killed, trusted, faults>>

-----------------------------------------------------------------------------
(* The judgement: ledgerFor and judgeWallet                                *)

KnownNext == IF \E r \in WalletRuns : attempt[r] # -1 THEN SetMax({attempt[r] : r \in WalletRuns}) + 1 ELSE 0

\* Mutant: only open reservations explain a fall.
AllowedFallOpen(b) == Cardinality({r \in WalletRuns : Open(r)})

\* allowedFallWei: what is open, and what was updated since the baseline.
AllowedFall(b) ==
  Cardinality({r \in WalletRuns : Open(r) \/ (res[r].status \in {"settled", "released"} /\ res[r].at >= b.at)})

Expected(b) == IF KnownNext > b.nonce THEN KnownNext ELSE b.nonce

Verdict(r, b) ==
  IF b = None THEN "baseline"
  ELSE IF r.nonce < b.nonce THEN "rpc_inconsistent"
  ELSE IF r.nonce > Expected(b) THEN "unknown_activity"
  ELSE IF b.bal - r.bal > AllowedFall(b) THEN "unexplained_fall"
  ELSE "ok"

KillClass(v) == v \in {"unknown_activity", "unexplained_fall"}

\* load: the newest stored baseline or accept of the wallet.
Loaded == IF base # None \/ log = <<>> THEN base
          ELSE LET e == log[Len(log)] IN [nonce |-> e.nonce, bal |-> e.bal, at |-> e.seen]

\* syncAccepts walks back from the newest event and stops at the first one that is
\* not newer than the newest it has seen.  In that order each accept it found
\* replaces the baseline, unless it is not newer than the one then held or claims
\* more than the chain shows: the newest one remains.
Walked == {i \in DOMAIN log : log[i].at > synced}
Adoptable(b, r) == {i \in Walked : log[i].kind = "accept" /\ log[i].at > b.at /\ log[i].nonce <= r.nonce}
Synced(b, r) ==
  IF Adoptable(b, r) = {} THEN b
  ELSE LET newest == CHOOSE i \in Adoptable(b, r) : \A j \in Adoptable(b, r) \ {i} :
                       log[j].at < log[i].at \/ (log[j].at = log[i].at /\ i < j)
       IN [nonce |-> log[newest].nonce, bal |-> log[newest].bal, at |-> log[newest].at]

-----------------------------------------------------------------------------
(* A check: FleetWatcher.tick                                              *)

\* The chain is read first, the records afterwards.
TickRead ==
  /\ check.pc = "idle"
  /\ base' = Loaded
  /\ check' = [pc |-> "read", reading |-> chain, at |-> watchTime]
  /\ UNCHANGED <<watchTime, walletVars, bookVars, logVars, synced, command, killed, trusted, faults>>

\* remember: the new baseline carries the time the check began.
Remembered(r, at) ==
  /\ base' = [nonce |-> r.nonce, bal |-> r.bal, at |-> at]
  /\ Persist(Event("baseline", r, watchTime, at))

\* Accepts are adopted, then the reading is judged; a reading without a finding
\* becomes the baseline, one with a finding is confirmed first.
Judge ==
  /\ check.pc = "read"
  /\ LET b == Synced(base, check.reading)
         v == Verdict(check.reading, b)
         same == b # None /\ b.nonce = check.reading.nonce /\ b.bal = check.reading.bal IN
     /\ synced' = SetMax({synced, latestAt})
     /\ trusted' = IF v = "baseline" THEN SetMax({trusted, check.reading.nonce}) ELSE trusted
     /\ IF KillClass(v)
        THEN /\ base' = b /\ check' = [check EXCEPT !.pc = "confirm"]
             /\ UNCHANGED logVars
        ELSE /\ check' = NoCheck
             /\ IF v = "rpc_inconsistent" \/ same THEN base' = b /\ UNCHANGED logVars
                ELSE Remembered(check.reading, check.at)
  /\ UNCHANGED <<watchTime, walletVars, bookVars, command, killed, faults>>

Returns(n) == \A k \in n .. chain.nonce - 1 : spender[k] = "treasury"
NoneOpen == \A r \in WalletRuns : ~Open(r)

\* The second read: a finding it does not repeat is dropped.  A complete run of
\* returns to the treasury, with nothing of ours open, may be proved instead.
Confirm ==
  /\ check.pc = "confirm"
  /\ LET v == Verdict(chain, base) IN
     IF ~KillClass(v) THEN check' = NoCheck
     ELSE \/ check' = [NoCheck EXCEPT !.pc = "alarm"]
          \/ /\ v = "unknown_activity" /\ NoneOpen /\ Returns(Expected(base))
             /\ check' = [check EXCEPT !.pc = "proven", !.reading = chain, !.at = -1]
  /\ UNCHANGED <<watchTime, walletVars, bookVars, logVars, base, synced, command, killed, trusted, faults>>

\* The second read fails: the first one counts.
ConfirmFails ==
  /\ check.pc = "confirm" /\ faults < Faults
  /\ faults' = faults + 1
  /\ check' = [NoCheck EXCEPT !.pc = "alarm"]
  /\ UNCHANGED <<watchTime, walletVars, bookVars, logVars, base, synced, command, killed, trusted>>

\* The baseline moves only if, inside the transaction, nothing of ours is open and
\* the records and the stored baseline are the ones the proof was made for.
CommitReturn ==
  /\ check.pc = "proven"
  /\ LET latest == log[Len(log)]
         fits == /\ NoneOpen /\ Expected(base) < check.reading.nonce
                 /\ latest.nonce = base.nonce /\ latest.bal = base.bal /\ latest.seen = base.at IN
     IF fits THEN Remembered(check.reading, watchTime) /\ check' = NoCheck
     ELSE check' = [NoCheck EXCEPT !.pc = "alarm"] /\ UNCHANGED <<base, logVars>>
  /\ UNCHANGED <<watchTime, walletVars, bookVars, synced, command, killed, trusted, faults>>

\* Mutant: a finding counts as told when an event of this time is stored.
AlarmOnce ==
  /\ check.pc = "alarm"
  /\ check' = NoCheck /\ PersistOther
  /\ killed' = (killed \/ latestAt # watchTime)
  /\ UNCHANGED <<watchTime, walletVars, bookVars, base, synced, command, trusted, faults>>

\* The kill switch; the baseline stays.  When it cannot be engaged the owner is
\* told so and the next check finds the same again.  A repeated finding is not
\* stored again; the kill and the finding are events too.
Alarm ==
  /\ check.pc = "alarm"
  /\ check' = NoCheck
  /\ \/ ~killed /\ killed' = TRUE /\ PersistOther /\ UNCHANGED faults
     \/ ~killed /\ faults < Faults /\ faults' = faults + 1 /\ (PersistOther \/ UNCHANGED logVars) /\ UNCHANGED killed
     \/ killed /\ (PersistOther \/ UNCHANGED logVars) /\ UNCHANGED <<killed, faults>>
  /\ UNCHANGED <<watchTime, walletVars, bookVars, base, synced, command, trusted>>

-----------------------------------------------------------------------------
(* The owner and the other components                                      *)

\* fleet-watch-accept: the clock is read, then the chain, and the confirmed state
\* is stored in a transaction later.  The owner runs it after a finding stopped
\* the bot.
AcceptBegin ==
  /\ killed /\ command = NoCommand
  /\ Cardinality({i \in DOMAIN log : log[i].kind = "accept"}) < MaxAccepts
  /\ command' = [at |-> watchTime, nonce |-> chain.nonce, bal |-> chain.bal]
  /\ UNCHANGED <<watchTime, walletVars, bookVars, logVars, watchVars, killed, trusted, faults>>

AcceptStore ==
  /\ command # NoCommand
  /\ Persist(Event("accept", command, command.at, command.at))
  /\ trusted' = SetMax({trusted, command.nonce})
  /\ command' = NoCommand
  /\ UNCHANGED <<watchTime, walletVars, bookVars, watchVars, killed, faults>>

KillRelease ==
  /\ killed
  /\ killed' = FALSE
  /\ UNCHANGED <<watchTime, walletVars, bookVars, logVars, watchVars, command, trusted, faults>>

ClockTick ==
  /\ watchTime < LastTime
  /\ watchTime' = watchTime + 1
  /\ UNCHANGED <<walletVars, bookVars, logVars, watchVars, command, killed, trusted, faults>>

Crash ==
  /\ faults < Faults
  /\ faults' = faults + 1
  /\ base' = None /\ synced' = -1 /\ check' = NoCheck
  /\ UNCHANGED <<watchTime, walletVars, bookVars, logVars, command, killed, trusted>>

WatchNext ==
  \/ \E r \in WalletRuns : Reserve(r) \/ RecordAttempt(r) \/ OwnMined(r) \/ Close(r)
  \/ \E who \in {"thief", "treasury"} : Spend(who)
  \/ Deposit
  \/ TickRead \/ Judge \/ Confirm \/ ConfirmFails \/ CommitReturn
  \/ Alarm
  \/ AcceptBegin \/ AcceptStore \/ KillRelease \/ ClockTick \/ Crash

\* The service's timer runs checks, and their reads and writes return.
Fairness ==
  /\ WF_fleetVars(TickRead) /\ WF_fleetVars(Judge) /\ WF_fleetVars(Confirm) /\ WF_fleetVars(CommitReturn)
  /\ WF_fleetVars(Alarm)

WatchSpec == WatchInit /\ [][WatchNext]_fleetVars /\ Fairness

-----------------------------------------------------------------------------
(* Properties                                                              *)

Foreign == {n \in Nonces : spender[n] \in {"thief", "treasury"}}

\* The watcher never stops the bot for what the bot did itself, however its run
\* and a check interleave (fleet-watcher.ts tick, "Read the chain first, then take
\* the records").
NoFalseKill == (killed \/ check.pc = "alarm") => Foreign # {}

\* A transaction nobody explains is never taken into the baseline: the baseline
\* passes it only after the owner vouched for it, or where MintBot's own count is
\* already higher.
NothingHidden ==
  base # None => \A n \in Nonces :
    spender[n] = "thief" /\ n < base.nonce => n < trusted \/ n < KnownNext

\* As long as the chain shows more transactions than MintBot and the baseline know
\* of, the bot is stopped again and again, whatever the owner releases, until the
\* owner accepts the wallet's state or the returns are proved.
Unexplained == base # None /\ chain.nonce > Expected(base)
AlarmKeepsComing == []<>(~Unexplained \/ killed)

\* "The running watcher adopts it on its next check" (owner-actions.ts:63): an
\* accept that fits the chain is in the baseline from some check on.
AcceptIsAdopted ==
  (\E i \in DOMAIN log : log[i].kind = "accept" /\ log[i].nonce = chain.nonce)
    ~> (base # None /\ \E i \in DOMAIN log : log[i].kind = "accept" /\ base.nonce >= log[i].nonce)

\* What holds in every state of the watch: the bot is never stopped for its own mints, and the
\* baseline passes nobody else's transaction unseen.
WatchSafety == WatchTypeOK /\ NoFalseKill /\ NothingHidden
=============================================================================
