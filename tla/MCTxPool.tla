------------------------------ MODULE MCTxPool ------------------------------
(* The pool of TxPool for TLC: three levels, blocks that span two of them.   *)
EXTENDS TxPool
=============================================================================
