------------------------------ MODULE MCMintRun ------------------------------
EXTENDS MintRun

\* Record 5 allows more tokens than a public policy on Base may.
MCRecord ==
  << [kind |-> "exact", chain |-> "ethereum", wallets |-> <<"a", "b">>, gasMax |-> 2, feeMax |-> 1,
      recipient |-> "r", quantity |-> 2, issuedAt |-> 0, expiresAt |-> 2],
     [kind |-> "public", chain |-> "ethereum", wallets |-> <<"a", "b">>, gasMax |-> 2, feeMax |-> 1,
      quantity |-> 2, issuedAt |-> 0, expiresAt |-> 3],
     [kind |-> "allowlist", chain |-> "base", wallets |-> <<"a", "b">>, gasMax |-> 2, feeMax |-> 1,
      quantity |-> 2, issuedAt |-> 0, expiresAt |-> 3],
     [kind |-> "robinhood", chain |-> "robinhood", wallets |-> <<"b", "a">>, gasMax |-> 1, feeMax |-> 1,
      quantity |-> 2, issuedAt |-> 1, expiresAt |-> 4],
     [kind |-> "public", chain |-> "base", wallets |-> <<"a", "b">>, gasMax |-> 2, feeMax |-> 1,
      quantity |-> 5, issuedAt |-> 0, expiresAt |-> 3] >>

MCDrop == [price |-> 0, limit |-> 2, start |-> 0, end |-> 3, root |-> 1, soldOut |-> FALSE,
           supply |-> 9, feeBps |-> 1, fees |-> {"r"}, restricted |-> TRUE]
MCDropStates ==
  {[MCDrop EXCEPT !.price = p] : p \in 0 .. 1} \union
  {[MCDrop EXCEPT !.soldOut = TRUE], [MCDrop EXCEPT !.fees = {Collector}],
   [MCDrop EXCEPT !.restricted = FALSE, !.feeBps = 2, !.root = 2, !.supply = 8]}

MCRun(chain, custody, strategy, wanted, price, select, replace, paid) ==
  LET active == IF chain = "robinhood" THEN 4 ELSE 1
      wallets == MCRecord[active].wallets
  IN [chain |-> chain, custody |-> custody, strategy |-> strategy, wanted |-> wanted,
      drop |-> [MCDrop EXCEPT !.price = price], select |-> select, replace |-> replace, paidGrant |-> paid,
      expected |-> wallets,
      files |-> IF custody = "local" THEN NoFiles
                ELSE [map |-> [digest |-> active, wallets |-> wallets], active |-> active,
                      catalog |-> IF active = 4 THEN {4} ELSE {1, 2, 3}, writes |-> 0]]
MCSetups ==
  { MCRun("ethereum", "files", "public", 0, 0, FALSE, FALSE, FALSE),
    MCRun("ethereum", "catalog", "public", 2, 0, FALSE, TRUE, FALSE),
    MCRun("base", "bundle", "allowlist", 3, 0, TRUE, FALSE, FALSE),
    MCRun("robinhood", "catalog", "public", 4, 0, TRUE, FALSE, FALSE),
    MCRun("base", "local", "public", 0, 1, TRUE, FALSE, TRUE) }
MCGas == <<1, 2>>
MCOffset == <<0, 1>>
=============================================================================
