---------------------------- MODULE NonceLadder ----------------------------
(***************************************************************************)
(* One wallet's nonce from its first accepted send to the engine's answer: *)
(* the bounded same-nonce replacements (engine/src/replacement-ladder.ts,  *)
(* replacement-policy.ts and the wiring in mint-engine.ts), the broadcasts *)
(* behind them, the receipt watchers with the finality rules of the three  *)
(* chains, and the recovery verdict when no receipt settled.               *)
(*                                                                         *)
(* Attempt i is the i-th transaction signed for the nonce; its hash is its *)
(* index.  Calldata, value and gas limit never differ, so an attempt is    *)
(* its two fees.  The clock is left out: an unmined attempt is stuck as    *)
(* soon as a look finds no receipt, and a watcher may time out at any      *)
(* step.                                                                   *)
(***************************************************************************)
EXTENDS Integers, Sequences, FiniteSets

CONSTANTS
    Chains,        \* the chains the runs are on, of ethereum, base, robinhood
    FirstFees,     \* the first fees a run may be configured with
    MaxBumps,      \* safety.maxReplacementBumps
    Endpoints,     \* the endpoints one broadcast is sent to
    Faults         \* bound: reorganisations and foreign transactions

ASSUME ConstantsAssumption ==
    /\ Chains \subseteq {"ethereum", "base", "robinhood"}
    /\ MaxBumps \in 1..5 /\ Faults \in Nat
    /\ FirstFees \subseteq [fee : Nat \ {0}, tip : Nat]
    /\ \A f \in FirstFees : f.tip <= f.fee

VARIABLES
    chain,      \* the chain of the run
    ceiling,    \* replacement.ceiling, reserved at admission
    attempts,   \* LadderResult.attempts: the fees of each attempt, original first
    stored,     \* the attempts whose row is in the lifecycle store
    pool,       \* the attempts some node has accepted: each of them may be mined
    mined,      \* the attempt that used the nonce on chain, Foreign or None
    stage,      \* how settled the block of `mined` is
    pc,         \* where the wallet's pipeline stands
    stop,       \* LadderStop, "" while the ladder runs
    hint,       \* winnerHint
    watch,      \* the receipt watchers: attempt -> what that watcher has seen
    verdict,    \* the reconciliation state of the result
    settled,    \* the attempt the reservation was settled for
    gate,       \* who is inside the fleet's admission gate
    killed,     \* the kill file
    enabled,    \* provider.reconfirm accepts: enablement current, money held
    faults

vars == <<chain, ceiling, attempts, stored, pool, mined, stage, pc, stop, hint,
          watch, verdict, settled, gate, killed, enabled, faults>>
network == <<pool, mined, stage>>
ladder  == <<chain, ceiling, attempts, stored>>
control == <<killed, enabled, faults>>
ending  == <<watch, verdict, settled>>

None    == 0
Foreign == -1
Stages  == <<"none", "soft", "posted", "final">>
Newest  == Len(attempts)

----------------------------------------------------------------------------
(* The fee steps *)

\* A fee raised by ten per cent, rounded up.
Raise(v) == (v * 11000 + 9999) \div 10000

Higher(a, b) == IF a > b THEN a ELSE b

\* The next fees: both rise; a zero tip rises by one unit; the fee covers the tip.
NextStep(f) ==
    LET tip == Higher(Raise(f.tip), f.tip + 1)
    IN  [fee |-> Higher(Raise(f.fee), tip), tip |-> tip]

\* The fees after each number of replacements from f.
StepsFrom(f) ==
    LET step[bumps \in 0..5] == IF bumps = 0 THEN f ELSE NextStep(step[bumps - 1])
    IN  step

\* The ceiling that leaves room for every configured replacement.
RequiredCeiling(f) == StepsFrom(f)[MaxBumps]

Within(f, c) == f.fee <= c.fee /\ f.tip <= c.tip

\* Why the next replacement is refused; "" when it is planned.
PlanRefusal(nonceFree) ==
    IF Newest - 1 >= MaxBumps THEN "REPLACEMENT_LIMIT_REACHED"
    ELSE IF ~nonceFree THEN "MINED_STATUS_UNKNOWN"
    ELSE IF ~Within(NextStep(attempts[Newest]), ceiling) THEN "REPLACEMENT_CEILING_REACHED"
    ELSE ""

\* Whether a run on c is given a ladder: never on Ethereum.
HasLadder(c) == c \in {"base", "robinhood"}

----------------------------------------------------------------------------
(* The first send has been accepted and stored; the run has the lowest      *)
(* ceiling that replacementPlan accepts.                                    *)

\* Mutant: only the newest attempt is watched.
WatchedNewest(h) == {IF h # None THEN h ELSE Newest}

\* The attempts whose receipts are awaited.
Watched(h) == IF h # None THEN {h} ELSE 1..Newest

Watchers(set) == [h \in set |-> "polling"]

Init ==
    /\ chain \in Chains
    /\ \E f \in FirstFees : attempts = <<f>> /\ ceiling = RequiredCeiling(f)
    /\ stored = {1} /\ pool = {1}
    /\ mined = None /\ stage = "none"
    /\ pc = IF HasLadder(chain) THEN "look" ELSE "watch"
    /\ watch = IF HasLadder(chain) THEN <<>> ELSE Watchers({1})
    /\ stop = "" /\ hint = None
    /\ verdict = "" /\ settled = None
    /\ gate = "free" /\ killed = FALSE /\ enabled = TRUE
    /\ faults = 0

\* The ladder ends with reason r; h is the winner it saw, or None.
EndLadder(r, h) ==
    /\ stop' = r /\ hint' = h
    /\ watch' = Watchers(Watched(h))
    /\ pc' = "watch"

\* findMinedHash: a receipt ends the ladder; no receipt (or a node that lags)
\* makes the newest attempt stuck; a failed read ends the ladder.
Look ==
    /\ pc = "look"
    /\ \/ mined \in 1..Newest /\ EndLadder("MINED", mined)
       \/ EndLadder("MINED_STATUS_UNKNOWN", None)
       \/ pc' = "nonce" /\ UNCHANGED <<stop, hint, watch>>
    /\ UNCHANGED <<ladder, network, verdict, settled, gate, control>>

\* nonceState at the latest block, then planReplacement.  A node that lags
\* answers free although the nonce is used; a failed read is not a "free".
ReadNonce ==
    /\ pc = "nonce"
    /\ \/ mined # None /\ EndLadder("NONCE_CONSUMED", None)
       \/ \E free \in BOOLEAN :
             LET why == PlanRefusal(free)
             IN  IF why = "" THEN pc' = "precheck" /\ UNCHANGED <<stop, hint, watch>>
                             ELSE EndLadder(why, None)
    /\ UNCHANGED <<ladder, network, verdict, settled, gate, control>>

\* preChecks: the kill file, the stored gate, the drop and a fresh simulation.
PreCheck ==
    /\ pc = "precheck"
    /\ \/ ~killed /\ enabled /\ pc' = "enter" /\ UNCHANGED <<stop, hint, watch>>
       \/ EndLadder("PRE_CHECK_REFUSED", None)
    /\ UNCHANGED <<ladder, network, verdict, settled, gate, control>>

\* prepare waits for the admission gate the first sends also pass.
EnterGate ==
    /\ pc = "enter" /\ gate = "free"
    /\ gate' = "ladder" /\ pc' = "sign"
    /\ UNCHANGED <<ladder, network, stop, hint, ending, control>>

\* Mutant: a refusal leaves the gate held.
RefusedHoldingGate ==
    /\ EndLadder("SIGNER_REFUSED", None)
    /\ UNCHANGED gate

\* prepare threw: the gate is released and the ladder ends.
Refused ==
    /\ EndLadder("SIGNER_REFUSED", None)
    /\ gate' = "free"

\* Inside the gate: the kill file and the stored gate once more, then the signer
\* is asked; it may refuse.
AskSigner ==
    /\ pc = "sign"
    /\ \/ ~killed /\ enabled /\ pc' = "signing" /\ UNCHANGED <<stop, hint, watch, gate>>
       \/ Refused
    /\ UNCHANGED <<ladder, network, verdict, settled, control>>

\* persistAttempt of the signed replacement.
StoreSigned == stored' = stored \cup {Newest + 1}

\* The signature came back: the kill file again, the attempt is stored and joins
\* the set, all before anything is sent.  A store that fails ends the ladder.
Signed ==
    /\ pc = "signing"
    /\ \/ /\ ~killed
          /\ attempts' = Append(attempts, NextStep(attempts[Newest]))
          /\ StoreSigned
          /\ pc' = "send" /\ UNCHANGED <<stop, hint, watch, gate>>
       \/ Refused /\ UNCHANGED <<attempts, stored>>
    /\ UNCHANGED <<chain, ceiling, network, verdict, settled, control>>

\* send: a kill throws, which the ladder takes as an ambiguous send and goes on;
\* otherwise the broadcast starts and some node may accept the replacement at once.
Send ==
    /\ pc = "send"
    /\ IF killed THEN /\ pc' = "look" /\ gate' = "free"
                      /\ UNCHANGED pool
       ELSE /\ pc' = "sending" /\ UNCHANGED gate
            /\ pool' \in {pool, pool \cup {Newest}}
    /\ UNCHANGED <<ladder, mined, stage, stop, hint, ending, control>>

\* What the endpoints may answer for an attempt: an endpoint that took it says so
\* or its answer is lost; one that did not, rejects it or its answer is lost.
Answers ==
    {a \in [Endpoints -> {"accepted", "already_known", "rejected", "ambiguous"}] :
        IF Newest \in pool THEN \E e \in Endpoints : a[e] # "rejected"
        ELSE \A e \in Endpoints : a[e] \in {"rejected", "ambiguous"}}

\* The outcome of a broadcast: accepted if one endpoint took it, ambiguous if one
\* answer is lost, rejected when all of them rejected it.
Outcome(a) ==
    LET said == {a[e] : e \in Endpoints}
    IN  IF said \cap {"accepted", "already_known"} # {} THEN "accepted"
        ELSE IF "ambiguous" \in said THEN "ambiguous" ELSE "rejected"

\* The answers are in and stored, the gate is released, the ladder looks again;
\* a rejected replacement ends it.
Sent ==
    /\ pc = "sending"
    /\ gate' = "free"
    /\ \E a \in Answers :
          IF Outcome(a) = "rejected" THEN EndLadder("REPLACEMENT_REJECTED", None)
          ELSE pc' = "look" /\ UNCHANGED <<stop, hint, watch>>
    /\ UNCHANGED <<ladder, network, verdict, settled, control>>

----------------------------------------------------------------------------
(* The receipt watchers *)

\* A watcher's poll finds a receipt of its hash.
WatchSees(h) ==
    /\ pc = "watch" /\ h \in DOMAIN watch
    /\ watch[h] = "polling" /\ mined = h
    /\ watch' = [watch EXCEPT ![h] = "seen"]
    /\ UNCHANGED <<ladder, network, pc, stop, hint, verdict, settled, gate, control>>

\* The receipt it saw is not on the canonical chain any more: the observer says
\* so, or cannot tell and the watcher polls on.
WatchReorged(h) ==
    /\ pc = "watch" /\ h \in DOMAIN watch
    /\ watch[h] = "seen" /\ mined # h
    /\ watch' \in {[watch EXCEPT ![h] = "reorged"], [watch EXCEPT ![h] = "polling"]}
    /\ UNCHANGED <<ladder, network, pc, stop, hint, verdict, settled, gate, control>>

\* A watcher gives up: its time is over, or (on Base) the two providers disagree.
WatchFails(h) ==
    /\ pc = "watch" /\ h \in DOMAIN watch
    /\ watch[h] \in {"polling", "seen"}
    /\ watch' = [watch EXCEPT ![h] = "failed"]
    /\ UNCHANGED <<ladder, network, pc, stop, hint, verdict, settled, gate, control>>

\* The observers' `ready`: on Ethereum the confirmation depth is reached, on Base
\* the finalized head, on Robinhood Ethereum's finality, covers the block.
Ready == stage = "final"

\* The first watcher whose receipt is ready answers for the wallet; the receipt is
\* stored as matched and its actual cost settles the reservation.
WatchDone(h) ==
    /\ pc = "watch" /\ h \in DOMAIN watch
    /\ watch[h] = "seen" /\ mined = h /\ Ready
    /\ settled' = h /\ verdict' = "matched"
    /\ pc' = "done"
    /\ UNCHANGED <<ladder, network, stop, hint, watch, gate, control>>

\* reconcileByHashAndNonce for a submission without a receipt.  The hashes of the
\* ladder are passed as our own only when there are several.
Unresolved(nonceUsed) ==
    IF nonceUsed /\ Newest = 1 THEN "replaced" ELSE "ambiguous"

\* Mutant: a watcher that saw a reorganisation is taken to be still polling.
RecoverUnlessReorged ==
    /\ pc = "watch" /\ \A h \in DOMAIN watch : watch[h] = "failed"
    /\ \E used \in BOOLEAN : verdict' = Unresolved(used)
    /\ pc' = "done"
    /\ UNCHANGED <<ladder, network, stop, hint, watch, settled, gate, control>>

\* Every watcher failed: the first one's error decides.  Otherwise the pending
\* nonce is read, which counts mined and pooled transactions alike; a failed read
\* counts as unused.
Recover ==
    /\ pc = "watch" /\ \A h \in DOMAIN watch : watch[h] \in {"failed", "reorged"}
    /\ LET first == CHOOSE h \in DOMAIN watch : \A g \in DOMAIN watch : h <= g
       IN  \/ watch[first] = "reorged" /\ verdict' = "reorged"
           \/ /\ watch[first] = "failed"
              /\ \E used \in BOOLEAN :
                    /\ used => pool # {} \/ mined # None
                    /\ verdict' = Unresolved(used)
    /\ pc' = "done"
    /\ UNCHANGED <<ladder, network, stop, hint, watch, settled, gate, control>>

----------------------------------------------------------------------------
(* The network, the other wallets of the run, and the owner *)

\* A node's block takes one of our pooled attempts.
Mine ==
    /\ mined = None
    /\ \E h \in pool : mined' = h
    /\ stage' = "soft"
    /\ UNCHANGED <<ladder, pool, pc, stop, hint, ending, gate, control>>

\* The block gets deeper: on Ethereum to the confirmation depth, on the others
\* over the posted stage to Ethereum's finality.
Deepen ==
    /\ stage \in {"soft", "posted"}
    /\ stage' = IF stage = "posted" \/ chain = "ethereum" THEN "final" ELSE "posted"
    /\ UNCHANGED <<ladder, pool, mined, pc, stop, hint, ending, gate, control>>

\* A block that is not final leaves the canonical chain.
Reorg ==
    /\ stage \in {"soft", "posted"} /\ faults < Faults
    /\ mined' = None /\ stage' = "none" /\ faults' = faults + 1
    /\ UNCHANGED <<ladder, pool, pc, stop, hint, ending, gate, killed, enabled>>

\* The owner's other software uses the nonce.
UseNonceElsewhere ==
    /\ mined = None /\ faults < Faults
    /\ mined' = Foreign /\ stage' = "soft" /\ faults' = faults + 1
    /\ UNCHANGED <<ladder, pool, pc, stop, hint, ending, gate, killed, enabled>>

\* Another wallet of the run passes the gate.
OtherEnters ==
    /\ gate = "free" /\ gate' = "other"
    /\ UNCHANGED <<ladder, network, pc, stop, hint, ending, control>>

OtherLeaves ==
    /\ gate = "other" /\ gate' = "free"
    /\ UNCHANGED <<ladder, network, pc, stop, hint, ending, control>>

\* The kill file appears.
Kill ==
    /\ ~killed /\ killed' = TRUE
    /\ UNCHANGED <<ladder, network, pc, stop, hint, ending, gate, enabled, faults>>

\* The owner's enablement is revoked or expires.
Revoke ==
    /\ enabled /\ enabled' = FALSE
    /\ UNCHANGED <<ladder, network, pc, stop, hint, ending, gate, killed, faults>>

\* The process stops; what it knew in memory is gone.
Crash ==
    /\ pc \notin {"done", "dead"} /\ faults < Faults
    /\ pc' = "dead" /\ gate' = "free" /\ faults' = faults + 1
    /\ UNCHANGED <<ladder, network, stop, hint, ending, killed, enabled>>

\* One step of the wallet's own pipeline.
Pipeline ==
    \/ Look \/ ReadNonce \/ PreCheck \/ EnterGate \/ AskSigner \/ Signed
    \/ Send \/ Sent \/ Recover
    \/ \E h \in DOMAIN watch : WatchSees(h) \/ WatchReorged(h) \/ WatchFails(h) \/ WatchDone(h)

World ==
    \/ Mine \/ Deepen \/ Reorg \/ UseNonceElsewhere \/ OtherEnters \/ OtherLeaves
    \/ Kill \/ Revoke \/ Crash

Next == Pipeline \/ World

\* Timers and answers of the pipeline arrive, and the other wallets leave the gate;
\* strong fairness for a gate that the waiting ladder is queued for; a watcher's time
\* ends.
Fairness ==
    /\ WF_vars(Pipeline) /\ WF_vars(OtherLeaves) /\ SF_vars(EnterGate)
    /\ \A h \in 1..(MaxBumps + 1) : WF_vars(WatchFails(h))

Spec == Init /\ [][Next]_vars /\ Fairness

----------------------------------------------------------------------------
(* Properties *)

\* The variables hold values of their types; the number of attempts is bounded.
TypeOK ==
    /\ chain \in Chains
    /\ attempts \in Seq([fee : Nat \ {0}, tip : Nat]) /\ Newest \in 1..(MaxBumps + 1)
    /\ stored \subseteq 1..Newest /\ pool \subseteq 1..Newest
    /\ mined \in 1..Newest \cup {None, Foreign}
    /\ stage \in {Stages[i] : i \in 1..4} /\ (stage = "none" <=> mined = None)
    /\ hint \in 0..Newest /\ settled \in 0..Newest
    /\ DOMAIN watch \subseteq 1..Newest
    /\ gate \in {"free", "ladder", "other"}
    /\ killed \in BOOLEAN /\ enabled \in BOOLEAN /\ faults \in 0..Faults
    /\ verdict \in {"", "matched", "replaced", "ambiguous", "reorged"}

\* Every attempt a node may mine has its row in the store (replacement-ladder.ts:
\* "a crash or an ambiguous send never leaves a transaction the system does not
\* know about"), also when the process stops in the middle of a send.
KnownBeforeSent == pool \subseteq stored

\* Each replacement pays at least ten per cent more in both fees than the one
\* before, none pays more than the reserved ceiling, and a ladder whose ceiling
\* replacementPlan accepted is never cut short by that ceiling.
LadderFitsReserve ==
    /\ \A i \in 1..Newest : Within(attempts[i], ceiling)
    /\ \A i \in 2..Newest :
          /\ 10 * attempts[i].fee >= 11 * attempts[i - 1].fee
          /\ 10 * attempts[i].tip >= 11 * attempts[i - 1].tip
          /\ attempts[i].tip > attempts[i - 1].tip /\ attempts[i].tip <= attempts[i].fee
    /\ stop # "REPLACEMENT_CEILING_REACHED"

\* Without a winner in hand the receipt of every attempt that may still be mined
\* is awaited, the ones whose send was ambiguous, rejected or cut off by a kill
\* included.
AllCandidatesWatched == pc = "watch" /\ hint = None => pool \subseteq DOMAIN watch

\* The reservation is settled for the attempt that used the nonce for good: no
\* reorganisation can bring another one of the ladder to the chain afterwards.
SettledIsFinal == settled # None => mined = settled /\ stage = "final"

\* A ladder that holds the fleet's admission gate gives it back, whatever the
\* signer, the store, the endpoints or a kill do; and every ladder ends with an
\* answer unless the process stops.
GateComesBack == gate = "ladder" ~> gate # "ladder"
LadderEnds == <>(pc \in {"done", "dead"})

\* lifecycle.ts: a submission without a receipt is called replaced only when the
\* chain proves that a different transaction used the nonce.
ReplacedIsForeign == verdict = "replaced" => mined = Foreign

\* What holds in every state of a ladder: each attempt the chain may mine is stored, paid for by
\* the reservation and watched, and a settlement is final.
Safety == TypeOK /\ KnownBeforeSent /\ LadderFitsReserve /\ AllCandidatesWatched /\ SettledIsFinal
=============================================================================
