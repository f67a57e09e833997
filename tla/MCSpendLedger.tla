---------------------------- MODULE MCSpendLedger ----------------------------
(***************************************************************************)
(* The spend window and the store it is kept in, for TLC.  An admission is *)
(* one transaction, which StoreWriter takes apart, so a behaviour is one   *)
(* of the two: `part' says which, and the other rests.                     *)
(***************************************************************************)
EXTENDS SpendLedger, StoreWriter, TLC

CONSTANTS w1, w2, w3, mint, other

MCAmount == mint :> 1 @@ other :> 1

(* A paid campaign on two wallets, then on a third, then tried again on the  *)
(* first, and another campaign on the third: every cap refuses some run.     *)
DayCampaigns == <<mint, mint, other, mint>>
DayFleets    == <<{w1, w2}, {w3}, {w3}, {w1}>>

VARIABLE part
allVars == <<vars, storeVars, part>>

LedgerPart(A) == part = "ledger" /\ A /\ UNCHANGED <<storeVars, part>>
StorePart(A) == part = "store" /\ A /\ UNCHANGED <<vars, part>>

AllInit == part \in {"ledger", "store"} /\ Init /\ StoreInit
AllNext == LedgerPart(Next) \/ StorePart(StoreNext)
AllSpec == AllInit /\ [][AllNext]_allVars

\* The processes differ only in their names.
AnyProcess == Permutations(Connections)

\* The ledger's rows keep their shape, and the store its promises: a read of the audit events
\* shows the stored rows, a transaction changes the state it has read, a record has the record
\* it belongs to, and a snapshot shows no part of a run without the rest.
AllSafety == TypeOK /\ StoreSafety
=============================================================================
