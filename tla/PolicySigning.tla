--------------------------- MODULE PolicySigning ---------------------------
(***************************************************************************)
(* The provider-held keys of the fleet (TurnkeySigner) and the owner-signed *)
(* policy records that say what they may sign: how a run's signer is loaded *)
(* from files the owner may be replacing meanwhile, and which transactions  *)
(* a loaded signer lets through.                                            *)
(*                                                                          *)
(* Key material, signatures and digests are abstract: a record is named by  *)
(* its digest, a wallet's address and its key at the provider by one value. *)
(***************************************************************************)
EXTENDS Integers, Sequences, FiniteSets, Functions

CONSTANTS
  PolicyRecord,  \* the owner-signed records, by digest
  Collector,     \* the fee recipient used when no other is required
  PolicyCap,     \* most gas money an allowlist policy may allow one wallet
  MaxTime,       \* bound: clock steps
  MaxWrites      \* bound: policy files the owner replaces while a run loads

Digests == DOMAIN PolicyRecord
NoRecord == 0

ASSUME PolicyAssumption ==
  /\ NoRecord \notin Digests /\ {MaxTime, MaxWrites, PolicyCap} \subseteq Nat
  /\ \A r \in Digests : PolicyRecord[r].kind \in {"exact", "public", "robinhood", "allowlist"}

VARIABLES
  time,
  setup,    \* the run's configuration: chain, custody, strategy, ...
  files,    \* the policy files: wallet map, active record, catalog; how many were replaced
  signer    \* the run's signer, loaded one file at a time

NoMap == [digest |-> NoRecord, wallets |-> <<>>]
NoFiles == [map |-> NoMap, active |-> NoRecord, catalog |-> {}, writes |-> 0]
NoSigner == [pc |-> "none", map |-> NoMap, active |-> NoRecord, record |-> NoRecord, wallets |-> <<>>]

-----------------------------------------------------------------------------
(* Records, catalogs and bundles                                           *)

\* validateTurnkeyPolicyAst: what the policies of each family may allow at most.
PolicyTermsValid(p) ==
  LET limit == CASE p.kind = "public" -> IF p.chain = "base" THEN 4 ELSE 10
                 [] p.kind = "allowlist" -> IF p.chain = "base" THEN 4 ELSE 15
                 [] OTHER -> 15
  IN /\ p.kind # "exact" => p.quantity \in 1 .. limit
     /\ p.kind \in {"public", "allowlist"} => p.gasMax >= 1 /\ p.feeMax >= 1
     /\ p.kind = "allowlist" => p.gasMax * p.feeMax <= PolicyCap
     /\ p.kind = "robinhood" => p.chain = "robinhood"

\* validateTurnkeyCanonicalPolicyRecord: nobody is named twice, and it ends after it begins.
RecordValid(r) ==
  /\ PolicyTermsValid(PolicyRecord[r])
  /\ PolicyRecord[r].issuedAt < PolicyRecord[r].expiresAt
  /\ PolicyRecord[r].wallets # <<>> /\ IsInjective(PolicyRecord[r].wallets)

\* assertPolicyCurrent, and the same test when a record is verified.
Current(r) == PolicyRecord[r].issuedAt <= time /\ time < PolicyRecord[r].expiresAt
Verified(r) == r # NoRecord /\ RecordValid(r) /\ Current(r)

\* A catalog with an invalid record, or whose records do not name the same wallets,
\* is refused as a whole.
CatalogBound(C) ==
  /\ C # {} /\ \A r \in C : RecordValid(r)
  /\ \A r, q \in C : PolicyRecord[r].wallets = PolicyRecord[q].wallets
Approved(C) == {r \in C : Current(r)}

\* Map, active record and catalog of one bundle belong together.
BundleValid(b) ==
  /\ Verified(b.active) /\ CatalogBound(b.catalog)
  /\ b.active \in Approved(b.catalog)
  /\ b.map.digest = b.active /\ b.map.wallets = PolicyRecord[b.active].wallets

\* A wallet map names a record and lists wallets.
WalletMaps == [digest : Digests, wallets : {PolicyRecord[r].wallets : r \in Digests}]
Bundles == [map : WalletMaps, active : Digests, catalog : (SUBSET Digests) \ {{}}, writes : {0}]

-----------------------------------------------------------------------------
(* The owner replaces policy files                                         *)

MayWrite == files.writes < MaxWrites /\ signer.pc \in {"none", "map", "active"}

\* Without a bundle the three files are replaced one at a time.
ReplaceFile ==
  /\ MayWrite /\ setup.custody \in {"files", "catalog"}
  /\ \/ \E m \in WalletMaps : files' = [files EXCEPT !.map = m, !.writes = @ + 1]
     \/ \E r \in Digests : files' = [files EXCEPT !.active = r, !.writes = @ + 1]
     \/ \E C \in (SUBSET Digests) \ {{}} : files' = [files EXCEPT !.catalog = C, !.writes = @ + 1]
  /\ UNCHANGED <<time, setup, signer>>

\* installTurnkeyPolicyBundleAtomic: validated, then renamed over the old one.
InstallBundle ==
  /\ MayWrite /\ setup.custody = "bundle"
  /\ \E b \in Bundles :
       BundleValid(b) /\ files' = [b EXCEPT !.writes = files.writes + 1]
  /\ UNCHANGED <<time, setup, signer>>

-----------------------------------------------------------------------------
(* fromSecrets: the run loads its signer                                   *)

Refuse == signer' = [NoSigner EXCEPT !.pc = "refused"]

\* The record the run's campaign was approved with, if it names one.
Selected(active, C) ==
  IF setup.wanted = NoRecord THEN active
  ELSE IF setup.wanted \in Approved(C) THEN setup.wanted ELSE NoRecord

\* Mutant: the map's wallets are not compared with the record's.
BoundByDigest(r, m, C) == r # NoRecord /\ m.digest \in C
\* mapRecordAllowed, then the constructor's comparison of record and map.
Bound(r, m, C) ==
  /\ r # NoRecord /\ m.digest \in C
  /\ PolicyRecord[r].wallets = m.wallets

Loaded(r, m) == [NoSigner EXCEPT !.pc = "ready", !.record = r, !.wallets = m.wallets]

\* Nobody reads the policy files again for this run.
Construct(r, m, C) ==
  IF Bound(r, m, C) THEN signer' = Loaded(r, m) /\ files' = NoFiles
                    ELSE Refuse /\ UNCHANGED files

ReadMap ==
  /\ signer.pc = "none" /\ setup.custody \in {"files", "catalog"}
  /\ signer' = [signer EXCEPT !.pc = "map", !.map = files.map]
  /\ UNCHANGED <<time, setup, files>>

ReadActive ==
  /\ signer.pc = "map"
  /\ IF Verified(files.active)
     THEN signer' = [signer EXCEPT !.pc = "active", !.active = files.active]
     ELSE Refuse
  /\ UNCHANGED <<time, setup, files>>

\* With a catalog configured the active record must be in it and the campaign's
\* record is picked from it; without one the active record must be the campaign's.
ReadCatalog ==
  /\ signer.pc = "active"
  /\ LET C == IF setup.custody = "catalog" THEN Approved(files.catalog) ELSE {signer.active}
     IN IF /\ setup.custody = "catalog" => CatalogBound(files.catalog)
           /\ signer.active \in C
           /\ setup.custody = "files" => setup.wanted \in {NoRecord, signer.active}
        THEN Construct(IF setup.custody = "catalog" THEN Selected(signer.active, C) ELSE signer.active,
                       signer.map, C)
        ELSE Refuse /\ UNCHANGED files
  /\ UNCHANGED <<time, setup>>

ReadBundle ==
  /\ signer.pc = "none" /\ setup.custody = "bundle"
  /\ IF BundleValid(files)
     THEN Construct(Selected(files.active, files.catalog), files.map, Approved(files.catalog))
     ELSE Refuse /\ UNCHANGED files
  /\ UNCHANGED <<time, setup>>

\* Keys in a local encrypted file: no policy record is involved.
ReadLocalFile ==
  /\ signer.pc = "none" /\ setup.custody = "local"
  /\ signer' = [NoSigner EXCEPT !.pc = "ready", !.wallets = setup.expected]
  /\ UNCHANGED <<time, setup, files>>

LoadSigner == ReadMap \/ ReadActive \/ ReadCatalog \/ ReadBundle \/ ReadLocalFile

-----------------------------------------------------------------------------
(* What a loaded signer lets through                                       *)

\* The fields every policy pins: chain, sender, no value, gas and fee limits.
WithinLimits(tx, p) ==
  /\ tx.chain = p.chain /\ tx.from \in Range(p.wallets)
  /\ tx.price = 0 /\ tx.gas <= p.gasMax /\ tx.fee <= p.feeMax

\* turnkeyProviderPolicyExpressions: what the provider itself lets the key sign.  Of a
\* family's calldata it reads the call and the quantity, not the recipient.
ProviderAllows(tx) ==
  LET p == PolicyRecord[signer.record]
  IN /\ WithinLimits(tx, p)
     /\ CASE p.kind = "exact" -> tx.call = "public" /\ tx.recipient = p.recipient /\ tx.quantity = p.quantity
          [] p.kind \in {"public", "robinhood"} -> tx.call = "public" /\ tx.quantity <= p.quantity
          [] p.kind = "allowlist" -> tx.call = "allowlist" /\ tx.quantity <= p.quantity

\* validateTransactionIntent: an exact policy pins the whole calldata, a family policy
\* its call, its quantity and the recipient the engine supplies.
IntentAllowed(tx, recipient) ==
  LET p == PolicyRecord[signer.record]
  IN /\ WithinLimits(tx, p)
     /\ CASE p.kind = "exact" -> tx.call = "public" /\ tx.recipient = p.recipient /\ tx.quantity = p.quantity
          [] p.kind \in {"public", "robinhood"} ->
               tx.call = "public" /\ tx.recipient = recipient /\ tx.quantity \in 1 .. p.quantity
          [] p.kind = "allowlist" ->
               tx.call = "allowlist" /\ tx.recipient = recipient /\ tx.quantity \in 1 .. p.quantity

\* The two free families are checked against the chain once more before a signature.
Family == setup.custody # "local" /\ PolicyRecord[signer.record].kind \in {"public", "allowlist"}

\* The first checks of signWithEvidence.
MaySign(tx, recipient) ==
  setup.custody # "local" => Current(signer.record) /\ IntentAllowed(tx, recipient)

RecipientAllowed(view, tx) == tx.recipient \in view.fees \/ (~view.restricted /\ tx.recipient = Collector)

\* readAuthority of each family, on the one view of the drop both providers gave.
PublicAuthority(view, tx) ==
  /\ view.price = 0 /\ view.start <= time /\ time <= view.end
  /\ tx.quantity <= view.limit /\ ~view.soldOut
  /\ RecipientAllowed(view, tx)
AllowlistAuthority(view, tx) == view.root = tx.root /\ RecipientAllowed(view, tx)

AuthorityHolds(view, tx) ==
  IF PolicyRecord[signer.record].kind = "public" THEN PublicAuthority(view, tx) ELSE AllowlistAuthority(view, tx)

\* The provider's answer counts only when activity and bytes are the request's.
AnswerMatches(answer, tx) == answer.key = tx.from /\ answer.tx = tx

\* zeroize: the client and the wallet list are dropped.
Zeroized == [NoSigner EXCEPT !.pc = "zeroized"]

=============================================================================
