--------------------------- MODULE MCNonceLadder ---------------------------
(* Instances of NonceLadder: a zero tip, a tip at the fee, and fees whose   *)
(* ten per cent is not a whole number.                                      *)
EXTENDS NonceLadder
Fees == {[fee |-> 1, tip |-> 0], [fee |-> 3, tip |-> 3], [fee |-> 25, tip |-> 11]}
=============================================================================
