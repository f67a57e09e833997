--------------------------- MODULE MCL2Settlement ---------------------------
(* Two wallets and the fates that tell the cases apart: mined or reverted at *)
(* once, mined again after a reorganisation, or by the replacement.          *)
EXTENDS L2Settlement

Mined(h) == [hash |-> h, ok |-> TRUE]
Failing(h) == [hash |-> h, ok |-> FALSE]
MCFates == {<<Mined(1)>>, <<Failing(1)>>, <<Mined(1), Mined(2)>>, <<Mined(1), Failing(1)>>}

\* The second wallet's transaction was not replaced and is mined once.  A
\* provider that may lie covers one that does not, and the two are alike.
CONSTANTS w1, w2
MCInit ==
  /\ Init /\ run = "Active"
  /\ liar = IF chainId = "base" THEN "primary" ELSE "none"
  /\ sent[w2] = {1} /\ fate[w2] = <<Mined(1)>> /\ exec[w2] = "submitted"
  /\ fate[w1] # <<Failing(1)>>
  /\ sent[w1] = {1, 2} <=> fate[w1] = <<Mined(1), Mined(2)>>
  /\ exec[w1] = "signed" => fate[w1] = <<Mined(1)>>
MCSpec == MCInit /\ [][Next]_vars /\ WF_vars(Reconcile)
=============================================================================
