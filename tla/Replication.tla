----------------------------- MODULE Replication -----------------------------
(***************************************************************************)
(* The replication automation: a watched wallet has minted from a contract *)
(* with a good score, and the bot prepares the same mint for its own       *)
(* wallets.  A paid mint is only prepared and told; a free one is fired    *)
(* unattended.  A contract is claimed in the store before anything is      *)
(* prepared, so neither a later pass nor a restart prepares it again.      *)
(*                                                                         *)
(* What allows a mint changes while it is being prepared: every check is a *)
(* step of its own, and the request processor checks all of it again       *)
(* before it arms and before it runs.                                      *)
(***************************************************************************)
EXTENDS Naturals, FiniteSets

CONSTANTS
  Mints,        \* the contracts, with their chains
  FleetWallets, \* the bot's wallets: their places in the list
  FleetLimit,   \* wallets of one free preparation
  PaidLimit,    \* paidMaxWalletsPerMint
  MaxTurns      \* bound: changes of what allows a mint, restarts

ASSUME ReplicationAssumption ==
  {FleetLimit, PaidLimit} \subseteq Nat \ {0} /\ FleetWallets \subseteq Nat /\ MaxTurns \in Nat

VARIABLES
  home,       \* what is true of the host: evidence accepted, kill switch clear, caps left
  signs,      \* what is true of each contract: score, source mint verified, free of charge
  claims,     \* stored: contracts that were claimed
  prepared,   \* stored: prepared campaigns
  request,    \* stored: the request of each campaign, if there is one
  asked,      \* stored: campaigns with a request of the automation
  announced,  \* stored notices: paid campaigns
  stopped,    \* stored notices: contracts that were given up
  job,        \* memory: the automation's pass
  poll,       \* memory: the request processor's pass
  planned,    \* history: the groups of each contract that were to be prepared
  tries,      \* history: how often each contract was prepared
  untold,     \* history: contracts whose end could not be told
  since,      \* history: what was true at some time since the campaign was prepared
  lately,     \* history: what was true at some time since it was last armed
  turns

repVars == <<home, signs, claims, prepared, request, asked, announced, stopped, job, poll, planned, tries, untold, since, lately, turns>>
stores == <<claims, prepared, request, asked, announced, stopped>>
histories == <<planned, tries, untold, since, lately>>

Campaigns == [mint : Mints, wallets : (SUBSET FleetWallets) \ {{}}, paid : BOOLEAN]
HomeSigns == {"ready", "clear", "caps"}
MintSigns == {"score", "mint", "free"}
Holding(x) == home \union signs[x.mint]

\* What must hold before a free mint is asked for and before it runs, unattended.
ToRun == {"ready", "clear", "score", "mint", "free"}
ToAsk == ToRun \union {"caps"}

NoRequest == [kind |-> "none", state |-> "ended"]
NoJob == [pc |-> "idle", todo |-> {}, mints |-> {}, free |-> FALSE, groups |-> {}, walk |-> {}, step |-> 1]
NoPoll == [on |-> {}, step |-> 1]

ReplicationTypeOK ==
  /\ home \subseteq HomeSigns /\ signs \in [Mints -> SUBSET MintSigns]
  /\ claims \subseteq Mints /\ prepared \subseteq Campaigns /\ asked \subseteq Campaigns
  /\ request \in [Campaigns -> [kind : {"none", "attended", "schedule", "automation"},
                                state : {"waiting", "started", "armed", "running", "ended"}]]
  /\ announced \subseteq Campaigns /\ stopped \subseteq Mints
  /\ job \in [pc : {"idle", "qualify", "claim", "prepare", "record", "paid", "walk", "note"}, todo : SUBSET Mints,
              mints : SUBSET Mints, free : BOOLEAN, groups : SUBSET Campaigns, walk : SUBSET Campaigns, step : 1 .. 7]
  /\ poll \in [on : SUBSET Campaigns, step : 1 .. 10]
  /\ planned \in [Mints -> SUBSET Campaigns] /\ tries \in [Mints -> Nat] /\ untold \subseteq Mints
  /\ since \in [Campaigns -> SUBSET ToAsk] /\ lately \in [Campaigns -> SUBSET ToAsk]
  /\ turns \in 0 .. MaxTurns

ReplicationInit ==
  /\ home = HomeSigns /\ signs = [c \in Mints |-> MintSigns]
  /\ claims = {} /\ prepared = {} /\ asked = {} /\ announced = {} /\ stopped = {}
  /\ request = [x \in Campaigns |-> NoRequest]
  /\ job = NoJob /\ poll = NoPoll
  /\ planned = [c \in Mints |-> {}] /\ tries = [c \in Mints |-> 0] /\ untold = {}
  /\ since = [x \in Campaigns |-> {}] /\ lately = [x \in Campaigns |-> {}]
  /\ turns = 0

-----------------------------------------------------------------------------
(* What allows a mint                                                      *)

Turn == turns < MaxTurns /\ turns' = turns + 1

\* Evidence ends, the kill switch is engaged or released, caps are used up, a score
\* falls or goes stale, the source is reorganised or too old, the price changes.
SignsChange ==
  /\ Turn
  /\ \/ \E s \in HomeSigns :
          /\ home' = IF s \in home THEN home \ {s} ELSE home \union {s}
          /\ UNCHANGED signs
     \/ \E c \in Mints, s \in MintSigns :
          /\ signs' = [signs EXCEPT ![c] = IF s \in @ THEN @ \ {s} ELSE @ \union {s}]
          /\ UNCHANGED home
  /\ since' = [x \in Campaigns |-> IF x \in prepared THEN since[x] \union Holding(x)' ELSE {}]
  /\ lately' = [x \in Campaigns |-> IF request[x].state = "armed" THEN lately[x] \union Holding(x)' ELSE lately[x]]
  /\ UNCHANGED <<stores, job, poll, planned, tries, untold>>

\* assertUnattendedReady, and the three parts of assertReady and of the gate that an
\* await separates.  The gate has the score of the pass and the plan of `qualify'.
Allows(step, x) ==
  CASE step = "ready" -> "ready" \in home
    [] step = "authority" -> x \in prepared /\ ~x.paid /\ "clear" \in home /\ "score" \in signs[x.mint]
    [] step = "source" -> {"mint", "free"} \subseteq signs[x.mint]
    [] step = "gate" -> {"caps", "clear"} \subseteq home
    [] OTHER -> TRUE

-----------------------------------------------------------------------------
(* The automation's pass                                                   *)

\* The selected wallets are the first of the list that the plan has a target for.
Selected(targets, paid) ==
  {w \in targets : Cardinality({v \in targets : v < w}) < (IF paid THEN PaidLimit ELSE FleetLimit)}

\* A public mint, or an allowlist with one signed policy for the family, is one
\* campaign; otherwise each wallet has its own.
Groups(c, targets, paid, together) ==
  LET chosen == Selected(targets, paid) IN
  {[mint |-> c, wallets |-> ws, paid |-> paid] :
     ws \in IF together THEN {chosen} ELSE {{w} : w \in chosen}}

JobStays == UNCHANGED <<home, signs, request, asked, poll, since, lately>>

\* The newest score of each contract and the claims, read once.
PassBegin ==
  /\ job.pc = "idle"
  /\ \E todo \in SUBSET {c \in Mints \ claims : "score" \in signs[c]} :
       todo # {} /\ job' = [NoJob EXCEPT !.pc = "qualify", !.todo = todo]
  /\ JobStays /\ UNCHANGED <<claims, prepared, announced, stopped, planned, tries, untold, turns>>

NextMint(todo) == IF todo = {} THEN NoJob ELSE [NoJob EXCEPT !.pc = "qualify", !.todo = todo]

\* The source is read and planned; without a plan the contract waits for a later pass.
Qualify ==
  /\ job.pc = "qualify"
  /\ \E c \in job.todo :
       job' \in (IF "mint" \in signs[c]
                 THEN {[job EXCEPT !.pc = "claim", !.todo = @ \ {c}, !.mints = {c}, !.free = "free" \in signs[c]]} ELSE {})
                \union {NextMint(job.todo \ {c})}
  /\ JobStays /\ UNCHANGED <<claims, prepared, announced, stopped, planned, tries, untold, turns>>

\* What follows an error after the claim: one notice for a contract, if it is stored.
GiveUp ==
  /\ job' = NextMint(job.todo)
  /\ \/ stopped' = stopped \union job.mints /\ UNCHANGED <<untold, turns>>
     \/ Turn /\ untold' = untold \union job.mints /\ UNCHANGED stopped

\* A claim that fails as it is saved is told as if it had been made.
ClaimMint ==
  /\ job.pc = "claim"
  /\ \/ /\ claims' = claims \union job.mints
        /\ job' = IF job.mints \subseteq claims THEN NextMint(job.todo) ELSE [job EXCEPT !.pc = "prepare"]
        /\ UNCHANGED <<stopped, untold, turns>>
     \/ job' = NextMint(job.todo) /\ UNCHANGED <<claims, stopped, untold, turns>>
     \/ GiveUp /\ UNCHANGED claims
  /\ JobStays /\ UNCHANGED <<prepared, announced, planned, tries>>

Prepare ==
  /\ job.pc = "prepare"
  /\ \E c \in job.mints :
       /\ tries' = [tries EXCEPT ![c] = @ + 1]
       /\ \/ \E targets \in (SUBSET FleetWallets) \ {{}}, together \in BOOLEAN :
               LET groups == Groups(c, targets, ~job.free, together) IN
               /\ planned' = [planned EXCEPT ![c] = groups]
               /\ job' = [job EXCEPT !.pc = "record", !.groups = groups]
               /\ UNCHANGED <<stopped, untold, turns>>
          \/ GiveUp /\ UNCHANGED planned
  /\ JobStays /\ UNCHANGED <<claims, prepared, announced>>

\* The next group passes its test mints and becomes a prepared campaign.
Record ==
  /\ job.pc = "record"
  /\ \/ \E x \in job.groups :
          /\ prepared' = prepared \union {x}
          /\ since' = [since EXCEPT ![x] = Holding(x)]
          /\ job' = [job EXCEPT !.pc = IF x.paid THEN "paid" ELSE "walk", !.groups = @ \ {x}, !.walk = {x}, !.step = 1]
          /\ UNCHANGED <<stopped, untold, turns>>
     \/ GiveUp /\ UNCHANGED <<prepared, since>>
  /\ UNCHANGED <<home, signs, request, asked, poll, lately, claims, announced, planned, tries>>

NextGroup == IF job.groups = {} THEN NextMint(job.todo) ELSE [job EXCEPT !.pc = "record", !.walk = {}, !.step = 1]

TellPaid ==
  /\ job.pc = "paid"
  /\ \/ announced' = announced \union job.walk /\ job' = NextGroup /\ UNCHANGED <<stopped, untold, turns>>
     \/ GiveUp /\ UNCHANGED announced
  /\ JobStays /\ UNCHANGED <<claims, prepared, planned, tries>>

\* assertReady, the gate, fireAutonomous and the pipeline up to the stored request.
JobPath == <<"ready", "authority", "source", "gate", "ready", "fire", "approve">>
Firing(x) == job.pc = "walk" /\ x \in job.walk /\ JobPath[job.step] = "approve"
Busy(x) == request[x].state # "ended" \/ Firing(x)

Walk ==
  /\ job.pc = "walk" /\ JobPath[job.step] # "approve"
  /\ \/ /\ \A x \in job.walk : /\ Allows(JobPath[job.step], x)
                               /\ JobPath[job.step] = "fire" => "clear" \in home /\ ~Busy(x)
        /\ job' = [job EXCEPT !.step = @ + 1]
        /\ UNCHANGED <<stopped, untold, turns>>
     \/ GiveUp
  /\ JobStays /\ UNCHANGED <<claims, prepared, announced, planned, tries>>

\* The request is stored once for each prepared campaign, and only for a free one.
Ask ==
  /\ job.pc = "walk" /\ JobPath[job.step] = "approve"
  /\ \/ \E x \in job.walk :
          /\ x \in prepared \ asked /\ ~x.paid
          /\ request' = [request EXCEPT ![x] = [kind |-> "automation", state |-> "waiting"]]
          /\ asked' = asked \union {x}
          /\ job' = [job EXCEPT !.pc = "note"]
          /\ UNCHANGED <<stopped, untold, turns>>
     \/ GiveUp /\ UNCHANGED <<request, asked>>
  /\ UNCHANGED <<home, signs, poll, since, lately, claims, prepared, announced, planned, tries>>

NoteAsked ==
  /\ job.pc = "note"
  /\ \/ job' = NextGroup /\ UNCHANGED <<stopped, untold, turns>>
     \/ GiveUp
  /\ JobStays /\ UNCHANGED <<claims, prepared, announced, planned, tries>>

-----------------------------------------------------------------------------
(* Requests for prepared campaigns                                         *)

\* The owner fires a prepared campaign, or a schedule of the owner does.
OwnerAsks ==
  /\ \E x \in prepared, kind \in {"attended", "schedule"} :
       /\ ~Busy(x) /\ "clear" \in home
       /\ kind = "schedule" => ~x.paid /\ "ready" \in home
       /\ request' = [request EXCEPT ![x] = [kind |-> kind, state |-> "waiting"]]
  /\ UNCHANGED <<home, signs, claims, prepared, asked, announced, stopped, job, poll, histories, turns>>

\* What the processor asks before it arms an unattended request, and again before it runs it.
PollPath == <<"ready", "ready", "authority", "source", "arm", "ready", "ready", "authority", "source", "run">>

PollStays == UNCHANGED <<home, signs, claims, prepared, asked, announced, stopped, job, planned, tries, untold, turns>>

PollClaim ==
  /\ poll.on = {}
  /\ \E x \in Campaigns :
       /\ request[x].state = "waiting"
       /\ request' = [request EXCEPT ![x].state = "started"]
       /\ poll' = [on |-> {x}, step |-> IF request[x].kind = "attended" THEN 5 ELSE 1]
  /\ PollStays /\ UNCHANGED <<since, lately>>

\* One check: the owner's own request has none between arming and running.
PollCheck ==
  /\ PollPath[poll.step] \notin {"arm", "run"}
  /\ \A x \in poll.on : request[x].kind = "attended" \/ Allows(PollPath[poll.step], x)
  /\ poll.on # {} /\ poll' = [poll EXCEPT !.step = @ + 1]
  /\ PollStays /\ UNCHANGED <<request, since, lately>>

PollArm ==
  /\ PollPath[poll.step] = "arm"
  /\ \E x \in poll.on :
       /\ request' = [request EXCEPT ![x].state = "armed"]
       /\ lately' = [lately EXCEPT ![x] = Holding(x)]
  /\ poll' = [poll EXCEPT !.step = @ + 1]
  /\ PollStays /\ UNCHANGED since

PollRun ==
  /\ PollPath[poll.step] = "run"
  /\ \E x \in poll.on : request[x].state = "armed" /\ request' = [request EXCEPT ![x].state = "running"]
  /\ PollStays /\ UNCHANGED <<poll, since, lately>>

Ends(x) == request' = [request EXCEPT ![x] = NoRequest] /\ lately' = [lately EXCEPT ![x] = {}]

\* A request ends: refused, failed, or run; a run that was armed for it is closed.
PollEnds ==
  /\ \E x \in poll.on : Ends(x)
  /\ poll' = NoPoll
  /\ PollStays /\ UNCHANGED since

\* A request expires unclaimed; one that a restart left behind holds for a while.
RequestLapses ==
  /\ \E x \in Campaigns \ poll.on : request[x] # NoRequest /\ Ends(x)
  /\ PollStays /\ UNCHANGED <<poll, since>>

\* Nothing of a pass survives: what it had claimed is not told.
ReplicationCrash ==
  /\ Turn
  /\ job' = NoJob /\ poll' = NoPoll
  /\ untold' = untold \union job.mints
  /\ UNCHANGED <<home, signs, stores, planned, tries, since, lately>>

ReplicationNext ==
  \/ SignsChange \/ PassBegin \/ Qualify \/ ClaimMint \/ Prepare \/ Record \/ TellPaid \/ Walk \/ Ask \/ NoteAsked
  \/ OwnerAsks \/ PollClaim \/ PollCheck \/ PollArm \/ PollRun \/ PollEnds \/ RequestLapses \/ ReplicationCrash

-----------------------------------------------------------------------------
(* Properties                                                              *)

\* However often a contract is seen again, and whatever crashes, it is prepared once.
PreparedOnce ==
  /\ \A c \in Mints : tries[c] <= 1 /\ (tries[c] = 1 => c \in claims)
  /\ \A x, y \in prepared : x.mint = y.mint /\ x # y => x.wallets \intersect y.wallets = {}

\* Of a claimed contract the owner hears: each campaign that was to be prepared was
\* told or asked for, or that it was given up, unless that could not be stored or a
\* restart ended the pass.
ClaimsAreAnswered ==
  \A c \in claims : \/ c \in untold \union stopped
                    \/ c \in job.mints
                    \/ planned[c] # {} /\ planned[c] \subseteq announced \union asked

\* Nothing that costs a price is fired without the owner.
UnattendedIsFree ==
  /\ \A x \in asked : ~x.paid
  /\ \A x \in Campaigns : request[x].kind \in {"schedule", "automation"} => x \in prepared /\ ~x.paid

\* Each thing that allows an unattended request was true after the campaign was
\* prepared, and each that allows its run was true again after it was armed.
AllowedWhenItMatters ==
  /\ \A x \in asked : ToAsk \subseteq since[x]
  /\ \A x \in Campaigns : request[x].state = "running" /\ request[x].kind # "attended" => ToRun \subseteq lately[x]

ReplicationSafety ==
  ReplicationTypeOK /\ PreparedOnce /\ ClaimsAreAnswered /\ UnattendedIsFree /\ AllowedWhenItMatters
=============================================================================
