---------------------------- MODULE GuidedFlows ----------------------------
(***************************************************************************)
(* The guided flows of the owner's chat: a flow takes the owner through a  *)
(* few steps to a summary with one button, and that button acts on what    *)
(* the summary showed.  Taps and answers are handled one at a time, but a  *)
(* handler waits for reads, and meanwhile the world changes, a kill ends   *)
(* the flow, the clock runs on, and buttons of older messages stay in the  *)
(* chat.  Who may tap is CommandAccess; what a release or a fire sets off  *)
(* is ExecutionControl and FireRequests.                                   *)
(*                                                                         *)
(* What a summary names (an engagement of the kill switch, an enablement   *)
(* record, a wallet's state, a campaign) is a version number; the phrases  *)
(* of the code spell that number out, and None stands for "no phrase".     *)
(***************************************************************************)
EXTENDS Integers, Sequences, FiniteSets

CONSTANTS
  Kinds,                    \* the flows the owner uses in this instance
  NWallets, Sized,          \* wallets in list order; how many the campaign was sized for
  ConfirmLife, FlowLife,    \* CONFIRM_LIFETIME_MS, FLOW_LIFETIME_MS, in ticks
  MaxWrong,                 \* MAX_WRONG
  MaxBegun, MaxFlows, MaxClock, MaxChanges  \* bounds: flows begun by a command, and in all; ticks; changes

ASSUME BoundsAssumption ==
  /\ {NWallets, Sized, MaxWrong, MaxBegun, MaxFlows} \subseteq Nat \ {0}
  /\ {ConfirmLife, FlowLife, MaxClock, MaxChanges} \subseteq Nat /\ ConfirmLife < FlowLife

VARIABLES
  flow,     \* the flow object made last
  open,     \* whether it is still the current flow
  job,      \* the handler that runs, and the flow step or action it is in
  buttons,  \* every button that the chat shows: its flow, its step, its key
  clock,
  kill,     \* the stored engagement (0: off) and the kill file
  fact,     \* what the other summaries name
  able,     \* the wallets that are funded and whose test mint passes now
  tested,   \* the wallets with a fresh recorded test mint
  act,      \* observer: what the last tap of the newest flow did
  acted,    \* observer: the flows that acted
  dead,     \* observer: flows up to this id were open when the owner's kill was confirmed
  engaged,  \* observer: how often the stored kill switch was engaged
  changes

flowVars == <<flow, open, job, buttons, clock, kill, fact, able, tested, act, acted, dead, engaged, changes>>

None == -1
FileOnly == 0
Wallets == 1 .. NWallets
FirstOf(S, n) == {w \in S : Cardinality({v \in S : v < w}) < n}

\* PLAN
Plan == [
  prepare     |-> <<"chain", "contract", "quantity", "count", "review">>,
  simulate    |-> <<"campaign", "review">>,
  release     |-> <<"review">>,
  request     |-> <<"campaign", "wallets", "fee", "review">>,
  fire        |-> <<"campaign", "wallets", "fee", "review">>,
  schedule    |-> <<"campaign", "wallets", "fee", "window", "review">>,
  cancel      |-> <<"pick">>,
  revoke      |-> <<"chain", "review">>,
  watchaccept |-> <<"chain", "wallet", "review">>]

AllKinds == DOMAIN Plan
ASSUME FlowKindsAssumption == Kinds \subseteq AllKinds
Steps == 1 .. 5
Keys == {"o", "cu", "bk", "go"}
Shown == [what : Nat \cup {None}, wallets : SUBSET Wallets]
Nothing == [what |-> None, wallets |-> {}]
NoAct == [what |-> None, wallets |-> {}, shown |-> Nothing, age |-> 0, late |-> FALSE, again |-> FALSE]

FlowRecords ==
  [id : 0 .. MaxFlows, kind : AllKinds, step : Steps, wrong : 0 .. MaxWrong, awaiting : BOOLEAN, custom : BOOLEAN,
   options : BOOLEAN, confirmAt : None .. MaxClock, touchedAt : 0 .. MaxClock, onward : BOOLEAN, robinhood : BOOLEAN, shown : Shown]
Jobs == [at : {"idle", "render", "take", "preview", "first", "second", "third"}, chained : BOOLEAN, late : BOOLEAN, age : Int]

FlowsTypeOK ==
  /\ flow \in FlowRecords
  /\ open \in BOOLEAN /\ (open => flow.id > 0)
  /\ job \in Jobs
  /\ buttons \subseteq [id : 1 .. MaxFlows, step : Steps, key : Keys]
  /\ clock \in 0 .. MaxClock
  /\ kill \in [flag : 0 .. MaxChanges + 1, file : BOOLEAN]
  /\ fact \in [record : Nat, wallet : Nat, campaign : Nat, inflight : BOOLEAN, conflict : BOOLEAN, minting : BOOLEAN]
  /\ {able, tested} \subseteq SUBSET Wallets
  /\ acted \subseteq 1 .. MaxFlows /\ engaged \in 0 .. MaxChanges + 1 /\ changes \in 0 .. MaxChanges /\ dead \in 0 .. MaxFlows

Idle == [at |-> "idle", chained |-> FALSE, late |-> FALSE, age |-> 0]
At(j) == [job EXCEPT !.at = j]

FlowsInit ==
  /\ flow = [id |-> 0, kind |-> "release", step |-> 1, wrong |-> 0, awaiting |-> FALSE, custom |-> FALSE, options |-> FALSE,
             confirmAt |-> None, touchedAt |-> 0, onward |-> FALSE, robinhood |-> FALSE, shown |-> Nothing]
  /\ open = FALSE /\ job = Idle /\ buttons = {} /\ clock = 0
  /\ kill = [flag |-> 1, file |-> TRUE]
  /\ fact = [record |-> 1, wallet |-> 1, campaign |-> 1, inflight |-> FALSE, conflict |-> FALSE, minting |-> TRUE]
  /\ able = Wallets /\ tested = Wallets /\ act = NoAct /\ acted = {} /\ dead = 0 /\ engaged = 1 /\ changes = MaxChanges

world == <<kill, fact, able, tested>>
observers == <<act, acted, dead, engaged>>

Name == Plan[flow.kind][flow.step]
Review(k) == Len(Plan[k])

---------------------------------------------------------------------------
(* What the summaries and the final checks read                            *)

\* killReleasePhrase: the time of the engagement, or the same words for every engagement by file only.
KillReleasePhrase == IF kill.flag = 0 THEN FileOnly ELSE kill.flag
\* killReleaseAction without a phrase: off, held back by unresolved runs, or the phrase.
ReleasePhrase == IF (kill.flag = 0 /\ ~kill.file) \/ fact.inflight THEN None ELSE KillReleasePhrase
\* revokeRun without a phrase: the phrase names the enablement record, if there is one.
RevokePhrase == IF fact.record = 0 THEN None ELSE fact.record
\* watchAcceptAction without the phrase: the wallet's transactions and its balance, as they are now.
AcceptPhrase == fact.wallet
\* checkDrop and dryRunDrop: the wallets that are funded and pass the test mint, which only an open mint can.
CheckDrop(S) == IF fact.minting THEN S \cap able ELSE {}
DryRunDrop(S) == IF fact.minting THEN S \cap able ELSE {}
\* buildLivePlan: one wallet that is not ready blocks the plan, and so does a mint that is not open.
EvmReady(S) == IF CheckDrop(S) = S THEN S ELSE {}
\* buildRobinhoodPlan: the ready wallets are named; before the mint opens every candidate counts.
RobinhoodReady(S) == IF fact.minting THEN DryRunDrop(S) ELSE S
ReadyOf(S) == IF flow.robinhood THEN RobinhoodReady(S) ELSE EvmReady(S)
\* planFor: the phrase names how many wallets are ready (the EVM one as the most they can spend).
PlanPhrase(S) == IF ReadyOf(S) = {} THEN None ELSE Cardinality(ReadyOf(S))
\* guidedPlan: planned for all wallets, and once more for the first n ready ones.
GuidedPlan(n) == IF n < Cardinality(ReadyOf(Wallets)) THEN FirstOf(ReadyOf(Wallets), n) ELSE Wallets
\* requestWallets: a fresh passing simulation, and the funds that a run needs.
TestedWallets == tested \cap able
\* previewLiveRequest: every wallet has a fresh passing simulation, and the total fits the campaign.
LiveRequestPhrase(S) == IF S # {} /\ S \subseteq tested /\ Cardinality(S) <= Sized THEN fact.campaign ELSE None
\* requestPreview: and every wallet holds what a run needs.
RequestPhrase(S) == IF S \subseteq able THEN LiveRequestPhrase(S) ELSE None
\* fireCampaign and conflict: the campaign's digest, unless something else is open for the campaign.
CampaignDigest == IF fact.conflict THEN None ELSE fact.campaign

Phrase ==
  CASE flow.kind = "release" -> ReleasePhrase
    [] flow.kind = "revoke" -> RevokePhrase
    [] flow.kind = "watchaccept" -> AcceptPhrase
    [] flow.kind = "prepare" -> PlanPhrase(flow.shown.wallets)
    [] flow.kind = "request" -> RequestPhrase(flow.shown.wallets)
    [] OTHER -> CampaignDigest

---------------------------------------------------------------------------
(* Steps of a flow                                                         *)

\* live: a flow nobody touched for FLOW_LIFETIME is dropped.
Live == open /\ clock - flow.touchedAt <= FlowLife

Button(s, k) == [id |-> flow.id, step |-> s, key |-> k]

\* make: the new flow becomes the current one.
Made(k, s, onward) ==
  [id |-> flow.id + 1, kind |-> k, step |-> s, wrong |-> 0, awaiting |-> FALSE, custom |-> FALSE, options |-> FALSE,
   confirmAt |-> None, touchedAt |-> clock, onward |-> onward, robinhood |-> FALSE, shown |-> Nothing]
\* The last buttons of older flows stay in sight (their other buttons can do no more than these).
Make(k, s, onward) ==
  /\ flow.id < MaxFlows /\ flow' = Made(k, s, onward) /\ open' = TRUE
  /\ buttons' = {b \in buttons : b.key = "go"}

\* revokeChoices, requestCandidates and cancellables, when they have nothing to list.
NothingToRevoke == fact.record = 0
NoCandidates == tested = {}
NothingToCancel == ~fact.conflict
\* The steps whose list may be empty, which ends the flow.
EmptyList ==
  CASE Name = "chain" -> flow.kind = "revoke" /\ NothingToRevoke
    [] Name = "campaign" -> flow.kind = "request" /\ NoCandidates
    [] Name = "wallets" -> flow.kind = "request" /\ TestedWallets = {}
    [] Name = "pick" -> NothingToCancel
    [] OTHER -> FALSE

Typed == {"quantity", "count", "wallet", "wallets", "fee", "window"}

\* render: the choices of a step, or its question; the summary is read after its two minutes began.
Cleared == [flow EXCEPT !.awaiting = (Name = "contract"), !.custom = (Name \in Typed), !.options = (Name \notin {"contract", "review"}),
                        !.confirmAt = IF Name = "review" THEN clock ELSE None]

ShowStep ==
  /\ Name # "review" /\ ~EmptyList
  /\ flow' = Cleared
  /\ buttons' = buttons \cup {Button(flow.step, k) : k \in (IF Name = "contract" THEN {"bk"} ELSE {"o"})
                                                          \cup (IF Name \in Typed THEN {"cu"} ELSE {})}
  /\ open' = open

ShowNothing == Name # "review" /\ EmptyList /\ open' = FALSE /\ UNCHANGED <<flow, buttons>>

\* release, revoke and watchaccept read their subject now; the others show what their last step read.
ReadsAtReview == {"release", "revoke", "watchaccept"}
Reviewed == IF flow.kind \in ReadsAtReview THEN [flow.shown EXCEPT !.what = Phrase] ELSE flow.shown
ShowReview ==
  /\ Name = "review"
  /\ flow' = [Cleared EXCEPT !.shown = Reviewed]
  /\ buttons' = buttons \cup (IF flow.kind \in {"release", "revoke"} /\ Phrase = None THEN {} ELSE {Button(flow.step, "go")})
  /\ open' = open

Render ==
  /\ job.at = "render"
  /\ ShowStep \/ ShowNothing \/ ShowReview
  /\ job' = Idle
  /\ UNCHANGED <<clock, world, observers, changes>>

\* A read fails: the flow keeps its place.  When the flow was the next one of a chain, it ends.
RenderFails ==
  /\ job.at = "render"
  /\ Name \in {"chain", "campaign", "wallet", "wallets", "fee", "pick"} \/ (Name = "review" /\ flow.kind \in ReadsAtReview)
  /\ flow' = [Cleared EXCEPT !.custom = FALSE, !.options = @ /\ flow.options]
  /\ open' = (open /\ ~job.chained)
  /\ job' = Idle
  /\ UNCHANGED <<buttons, clock, world, observers, changes>>

\* A command: it begins a flow, at its first step or, with all its arguments typed, further on.
Begin(k) ==
  /\ job.at = "idle" /\ flow.id < MaxBegun
  /\ \E s \in {1, Review(k)} :
       /\ Make(k, s, FALSE)
       /\ s = Review(k) => k \in {"release", "revoke", "watchaccept", "simulate", "cancel"}
  /\ job' = At("render") /\ act' = NoAct
  /\ UNCHANGED <<clock, world, acted, dead, engaged, changes>>

\* runSimulate: /simulate with its campaign records the test mints at once.
RunSimulate ==
  /\ job.at = "idle" /\ flow.id < MaxBegun /\ "simulate" \in Kinds
  /\ Make("simulate", Review("simulate"), FALSE)
  /\ job' = At("first") /\ act' = NoAct
  /\ UNCHANGED <<clock, world, acted, dead, engaged, changes>>

\* interrupt: any other command; the flow no longer waits for text.
Interrupt ==
  /\ Live /\ flow.awaiting
  /\ flow' = [flow EXCEPT !.awaiting = FALSE]
  /\ UNCHANGED <<open, job, buttons, clock, world, observers, changes>>

\* advance
Next1 == [flow EXCEPT !.step = @ + 1, !.wrong = 0, !.touchedAt = clock]

\* An accepted answer of this step: kept, or first looked at again (the plan, the preview).
AnswerTaken ==
  \/ Name = "chain" /\ (\E l2 \in {FALSE, flow.kind = "prepare"} : flow' = [Next1 EXCEPT !.robinhood = l2]) /\ job' = At("render")
  \/ (Name \in {"campaign", "wallet"} \/ (Name = "fee" /\ flow.kind = "schedule")) /\ flow' = Next1 /\ job' = At("render")
  \/ /\ Name = "wallets"
     /\ \E S \in {Wallets, FirstOf(TestedWallets, Sized)} \cup {{w} : w \in Wallets} :
          /\ flow.kind = "request" => S \subseteq tested /\ Cardinality(S) <= Sized
          /\ flow' = [Next1 EXCEPT !.shown.wallets = S]
     /\ job' = At("render")
  \/ (Name = "window" \/ (Name = "fee" /\ flow.kind # "schedule")) /\ flow' = [flow EXCEPT !.touchedAt = clock] /\ job' = At("preview")
  \/ Name \in {"contract", "quantity", "count"} /\ flow' = [flow EXCEPT !.touchedAt = clock] /\ job' = At("take")

\* typed and takeQuantity, takeCount: the plan is read again.  A plan that is not ready leaves the step as it is.
Take ==
  /\ job.at = "take"
  /\ \E n \in 1 .. NWallets :
       LET S == IF Name = "count" THEN GuidedPlan(n) ELSE Wallets
           selected == FirstOf(ReadyOf(S), n)
       IN  IF PlanPhrase(S) # None /\ (Name = "count" => Cardinality(selected) = n)
           THEN flow' = [Next1 EXCEPT !.shown = [what |-> PlanPhrase(S), wallets |-> selected]] /\ job' = At("render")
           ELSE flow' = [flow EXCEPT !.awaiting = (Name = "contract")] /\ job' = IF Name = "quantity" THEN At("render") ELSE Idle
  /\ UNCHANGED <<open, buttons, clock, world, observers, changes>>

\* firePreview: the mint is open, and the wallets that hold what a run needs are the ones that go.
FirePreview(S) == [what |-> IF fact.minting /\ S \cap able # {} THEN CampaignDigest ELSE None, wallets |-> S \cap able]
\* schedulePreview: the wallets as chosen; requestPreview: and what it says of them.
SchedulePreview(S) == [what |-> CampaignDigest, wallets |-> S]
RequestPreview(S) == [what |-> RequestPhrase(S), wallets |-> S]

\* takeFee and takeWindow: the preview is what the summary shows, and its wallets are the ones that go.
Preview ==
  /\ job.at = "preview"
  /\ LET p == CASE flow.kind = "fire" -> FirePreview(flow.shown.wallets)
               [] flow.kind = "schedule" -> SchedulePreview(flow.shown.wallets)
               [] OTHER -> RequestPreview(flow.shown.wallets)
     IN  IF p.what = None THEN flow' = flow /\ job' = Idle
         ELSE flow' = [Next1 EXCEPT !.shown = p, !.step = Review(flow.kind)] /\ job' = At("render")
  /\ UNCHANGED <<open, buttons, clock, world, observers, changes>>

---------------------------------------------------------------------------
(* Buttons and typed text                                                  *)

Ignored == open' = Live /\ UNCHANGED <<flow, job, buttons>>

\* pick: the flow ends with the tap; cancelling is one stored claim.
Pick == open' = FALSE /\ job' = Idle /\ UNCHANGED <<flow, buttons>>

\* finish: a confirmation older than CONFIRM_LIFETIME is not acted on.
InTime == flow.confirmAt # None /\ clock - flow.confirmAt <= ConfirmLife

\* Mutant: the flow stays open under its last tap.
SpentNot == open' = open
\* finish: the flow ends with its last tap.
Spent == open' = FALSE

Finish ==
  /\ Spent
  /\ flow' = [flow EXCEPT !.touchedAt = clock]
  /\ job' = IF InTime THEN [at |-> "first", chained |-> FALSE, late |-> flow.id <= dead, age |-> clock - flow.confirmAt] ELSE Idle
  /\ UNCHANGED buttons

Back == job' = At("render") /\ flow' = [flow EXCEPT !.touchedAt = clock] /\ UNCHANGED <<open, buttons>>
Custom ==
  /\ flow' = [flow EXCEPT !.awaiting = @ \/ flow.custom, !.touchedAt = clock]
  /\ buttons' = IF flow.custom THEN buttons \cup {Button(flow.step, "bk")} ELSE buttons
  /\ UNCHANGED <<open, job>>
\* A choice that is no longer offered only counts as a touch.
Choose ==
  \/ flow.options /\ Name = "pick" /\ Pick
  \/ flow.options /\ Name # "pick" /\ AnswerTaken /\ UNCHANGED <<open, buttons>>
  \/ ~flow.options /\ flow' = [flow EXCEPT !.touchedAt = clock] /\ UNCHANGED <<open, job, buttons>>

Press(b) ==
  \/ b.key = "bk" /\ Back
  \/ b.key = "cu" /\ Custom
  \/ b.key = "go" /\ Finish
  \/ b.key = "o" /\ Choose

\* handleButton: a button of this flow's current step.
Current(b) == Live /\ b.id = flow.id /\ b.step = flow.step

\* A tap on any button the chat still shows.
Tap ==
  /\ job.at = "idle"
  /\ \E b \in buttons :
       \/ Current(b) /\ Press(b)
       \/ ~Current(b) /\ Ignored
  /\ UNCHANGED <<clock, world, observers, changes>>

\* cancel: every message has the button, and it works from any step.
Cancel ==
  /\ job.at = "idle" /\ Live
  /\ open' = FALSE
  /\ UNCHANGED <<flow, job, buttons, clock, world, observers, changes>>

\* onText and reject: an answer, or a wrong entry; the third one in a row shows the choices again.
Text ==
  /\ job.at = "idle" /\ Live /\ flow.awaiting
  /\ \/ AnswerTaken
     \/ LET third == flow.wrong + 1 >= MaxWrong
        IN  /\ flow' = [flow EXCEPT !.wrong = IF third THEN 0 ELSE @ + 1, !.touchedAt = clock]
            /\ job' = IF third THEN At("render") ELSE job
  /\ UNCHANGED <<open, buttons, clock, world, observers, changes>>

---------------------------------------------------------------------------
(* The last tap                                                            *)

Same == UNCHANGED <<flow, open, buttons, clock, observers, changes>>
NotDone == job' = Idle /\ UNCHANGED world /\ Same
Further(j) == job' = At(j) /\ UNCHANGED world /\ Same

\* What was done, and what the summary showed.
Did(what, wallets) ==
  /\ act' = [what |-> what, wallets |-> wallets, shown |-> flow.shown, age |-> job.age, late |-> job.late, again |-> flow.id \in acted]
  /\ acted' = acted \cup {flow.id}

\* The next flow of a chain is made and rendered.
Onward(k, s, onward) == Make(k, s, onward) /\ job' = [Idle EXCEPT !.at = "render", !.chained = (k # "simulate")]
OnwardOrEnd(k, s, onward) == IF flow.id < MaxFlows THEN Onward(k, s, onward) ELSE job' = Idle /\ UNCHANGED <<flow, open, buttons>>

\* Mutant: the summary is not compared with the present state.
MatchesAny(p) == p # None
\* releaseNow, revokeNow, watchAcceptNow, guidedPrepare, requestSend, fireNow, scheduleCreate: what
\* the summary showed must be what is there now.
Matches(p) == p # None /\ p = flow.shown.what

\* releaseNow, after the first look: nothing to release (or not yet) answers and goes on; a different engagement refuses.
ReleaseFirst ==
  IF ReleasePhrase = None THEN /\ IF flow.onward THEN OnwardOrEnd("request", 2, FALSE) ELSE job' = Idle /\ UNCHANGED <<flow, open, buttons>>
                               /\ UNCHANGED <<clock, world, observers, changes>>
  ELSE IF Matches(ReleasePhrase) THEN Further("second") ELSE NotDone

\* simulateCampaign: a record for every wallet that passes and is funded; none passing is an error.
SimulateCampaign == CheckDrop(Wallets)
\* recordTestMints: the records, then the release before a request can be built.
RecordTestMints ==
  IF SimulateCampaign # {}
  THEN /\ tested' = tested \cup SimulateCampaign /\ OnwardOrEnd("release", 1, TRUE)
       /\ UNCHANGED <<clock, kill, fact, able, observers, changes>>
  ELSE NotDone

\* fireNow: the digest is compared, and the request is made of that campaign.
Started == Did(CampaignDigest, flow.shown.wallets) /\ job' = Idle /\ UNCHANGED <<flow, open, buttons, clock, world, dead, engaged, changes>>
FireNow == IF Matches(CampaignDigest) THEN Started ELSE NotDone
\* scheduleCreate: the digest and the phrase of the window and the wallets; the schedule is stored.
ScheduleCreate == IF Matches(CampaignDigest) THEN Started ELSE NotDone

\* revokeNow, watchAcceptNow and requestSend: a first look, then the action of the same phrase.
RevokeNow == IF Matches(RevokePhrase) THEN Further("second") ELSE NotDone
WatchAcceptNow == IF Matches(AcceptPhrase) THEN Further("second") ELSE NotDone
RequestSend == IF Matches(RequestPhrase(flow.shown.wallets)) THEN Further("second") ELSE NotDone

\* guidedPrepare: planned for the selected wallets only, and each of them is still ready.
PlanUnchanged == Matches(PlanPhrase(flow.shown.wallets)) /\ ReadyOf(flow.shown.wallets) = flow.shown.wallets

First ==
  /\ job.at = "first"
  /\ CASE flow.kind = "release" -> ReleaseFirst
       [] flow.kind = "simulate" -> RecordTestMints
       [] flow.kind = "fire" -> FireNow
       [] flow.kind = "schedule" -> ScheduleCreate
       [] flow.kind = "prepare" -> IF PlanUnchanged THEN Further("second") ELSE NotDone
       [] flow.kind = "revoke" -> RevokeNow
       [] flow.kind = "request" -> RequestSend
       [] OTHER -> WatchAcceptNow

\* killReleaseAction: looked at again and the stored switch lifted in one go.
Release ==
  IF Matches(ReleasePhrase)
  THEN /\ kill' = [kill EXCEPT !.flag = 0] /\ Did(kill.flag, {}) /\ job' = At("third")
       /\ UNCHANGED <<flow, open, buttons, clock, fact, able, tested, dead, engaged, changes>>
  ELSE NotDone
\* revokeRun with the phrase: the record that is current now.
Revoke ==
  IF Matches(RevokePhrase)
  THEN /\ fact' = [fact EXCEPT !.record = 0] /\ Did(fact.record, {}) /\ job' = Idle
       /\ UNCHANGED <<flow, open, buttons, clock, kill, able, tested, dead, engaged, changes>>
  ELSE NotDone
\* assertLivePrepareAllowed: the kill file, the phrase, and the wallets are exactly the ready ones.
EvmPrepareAllowed(S) == kill.file /\ Matches(PlanPhrase(S)) /\ ReadyOf(S) = S
\* robinhoodPrepareAction: the kill file and the phrase.
RobinhoodPrepareAllowed(S) == kill.file /\ Matches(PlanPhrase(S))
\* livePrepareAction: the plan is made once more, and the campaign's wallets are the ready ones.
Prepare ==
  IF IF flow.robinhood THEN RobinhoodPrepareAllowed(flow.shown.wallets) ELSE EvmPrepareAllowed(flow.shown.wallets)
  THEN /\ Did(PlanPhrase(flow.shown.wallets), ReadyOf(flow.shown.wallets)) /\ OnwardOrEnd("simulate", 2, FALSE)
       /\ UNCHANGED <<clock, world, dead, engaged, changes>>
  ELSE NotDone
\* requestCreate: no schedule is open, the preview is the same, and the service is ready.
RequestCreate == IF Matches(LiveRequestPhrase(flow.shown.wallets)) /\ ~fact.conflict /\ kill.flag = 0 THEN Further("third") ELSE NotDone
\* watchAcceptAction with the phrase: read and compared again.
Accept == IF Matches(AcceptPhrase) THEN Further("third") ELSE NotDone

\* The second look, in the action itself.
Second ==
  /\ job.at = "second"
  /\ CASE flow.kind = "release" -> Release
       [] flow.kind = "revoke" -> Revoke
       [] flow.kind = "prepare" -> Prepare
       [] flow.kind = "request" -> RequestCreate
       [] OTHER -> Accept

\* What follows the last await: the file of the kill switch goes, the accepted state or the request is stored.
Third ==
  /\ job.at = "third"
  /\ IF flow.kind = "release"
     THEN /\ kill' = [kill EXCEPT !.file = FALSE]
          /\ IF flow.onward THEN OnwardOrEnd("request", 2, FALSE) ELSE job' = Idle /\ UNCHANGED <<flow, open, buttons>>
          /\ UNCHANGED <<clock, fact, able, tested, observers, changes>>
     ELSE /\ Did(flow.shown.what, flow.shown.wallets) /\ job' = Idle
          /\ UNCHANGED <<flow, open, buttons, clock, world, dead, engaged, changes>>

\* An action of the last tap, or a read on the way, fails: nothing more is done.
Throws ==
  /\ job.at \in {"take", "preview", "first", "second"}
  /\ NotDone

---------------------------------------------------------------------------
(* The rest of the world                                                   *)

Change == changes > 0 /\ changes' = changes - 1

\* The facts a flow of a kind reads; a change of the others makes no difference while it runs.
Reads ==
  [k \in AllKinds |->
     CASE k = "release" -> {"kill", "inflight"} [] k = "revoke" -> {"record"} [] k = "watchaccept" -> {"wallet"}
       [] k = "prepare" -> {"kill", "able", "minting"} [] k = "simulate" -> {"able", "minting"} [] k = "cancel" -> {"conflict"}
       [] k = "request" -> {"kill", "campaign", "conflict", "able", "tested"} [] OTHER -> {"campaign", "conflict", "able", "minting"}]

\* The chain, the wallets, the records and the campaign move on.
WorldMoves ==
  /\ Change
  /\ \E f \in Reads[flow.kind] :
       \/ f = "record" /\ (\E r \in {0, fact.record + 1} : fact' = [fact EXCEPT !.record = r]) /\ UNCHANGED <<able, tested>>
       \/ f = "wallet" /\ fact' = [fact EXCEPT !.wallet = @ + 1] /\ UNCHANGED <<able, tested>>
       \/ f = "campaign" /\ fact' = [fact EXCEPT !.campaign = @ + 1] /\ UNCHANGED <<able, tested>>
       \/ f = "inflight" /\ fact' = [fact EXCEPT !.inflight = ~@] /\ UNCHANGED <<able, tested>>
       \/ f = "conflict" /\ fact' = [fact EXCEPT !.conflict = ~@] /\ UNCHANGED <<able, tested>>
       \/ f = "minting" /\ fact' = [fact EXCEPT !.minting = ~@] /\ UNCHANGED <<able, tested>>
       \/ f = "able" /\ able' \in SUBSET Wallets /\ UNCHANGED <<fact, tested>>
       \/ f = "tested" /\ tested' \in SUBSET tested /\ UNCHANGED <<fact, able>>
  /\ UNCHANGED <<flow, open, job, buttons, clock, kill, observers>>

\* A kill from the chat or from elsewhere; a switch that is on keeps its engagement.  The chat's kill ends the flow.
FlowKilled(chat) == open' = (open /\ ~chat)

Killed ==
  /\ Change
  /\ kill' = [flag |-> IF kill.flag = 0 THEN engaged + 1 ELSE kill.flag, file |-> TRUE]
  /\ engaged' = IF kill.flag = 0 THEN engaged + 1 ELSE engaged
  /\ \E chat \in BOOLEAN : (chat \/ "kill" \in Reads[flow.kind]) /\ FlowKilled(chat) /\ dead' = IF chat THEN flow.id ELSE dead
  /\ UNCHANGED <<flow, job, buttons, clock, fact, able, tested, act, acted>>

\* Somebody puts or removes the file on the host, the command line releases the switch, or it
\* releases it and the switch is engaged again.
KillMoves ==
  /\ Change /\ "kill" \in Reads[flow.kind]
  /\ \/ kill' = [kill EXCEPT !.file = ~@] /\ engaged' = engaged
     \/ kill' = [flag |-> 0, file |-> FALSE] /\ engaged' = engaged
     \/ kill.flag > 0 /\ kill' = [flag |-> engaged + 1, file |-> TRUE] /\ engaged' = engaged + 1
  /\ UNCHANGED <<flow, open, job, buttons, clock, fact, able, tested, act, acted, dead>>

TimePasses == clock < MaxClock /\ clock' = clock + 1 /\ UNCHANGED <<flow, open, job, buttons, world, observers, changes>>

FlowsNext ==
  \/ \E k \in Kinds : Begin(k)
  \/ RunSimulate
  \/ Interrupt \/ Tap \/ Cancel \/ Text
  \/ Render \/ RenderFails \/ Take \/ Preview
  \/ First \/ Second \/ Third \/ Throws
  \/ WorldMoves \/ Killed \/ KillMoves \/ TimePasses

FlowsSpec == FlowsInit /\ [][FlowsNext]_flowVars

---------------------------------------------------------------------------
(* Properties                                                              *)

\* What the last tap did is what its summary showed: the engagement of the kill switch that was
\* lifted, the record that was revoked, the wallet state that was accepted, and the campaign and the
\* wallets that were prepared, requested, fired or scheduled (releaseNow, revokeNow, watchAcceptNow,
\* guidedPrepare, requestSend, fireNow, scheduleCreate), whatever changed after the summary.
ActsAsReviewed == act.what = act.shown.what /\ act.wallets = act.shown.wallets

\* A flow acts at most once, within two minutes of its summary, and never on a tap made after the
\* owner's kill by a button from before it (finish; telegram-commands confirmKill).
FlowsSafety == FlowsTypeOK /\ ~act.again /\ ~act.late /\ act.age <= ConfirmLife

=============================================================================
