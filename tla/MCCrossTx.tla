------------------------------ MODULE MCCrossTx ------------------------------
(* c1 has no output of its own at first: a transaction of c1 asks both other  *)
(* committees, one of c2 spends an output of its own and one of c3.           *)
EXTENDS CrossTx

CONSTANTS c1, c2, c3, t1, t2

MCHome == (t1 :> c1) @@ (t2 :> c2)

MCNumOuts == (t1 :> 1) @@ (t2 :> 2)

MCGenesisOuts == (c1 :> 0) @@ (c2 :> 1) @@ (c3 :> 1)
=============================================================================
