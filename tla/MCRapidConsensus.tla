-------------------------- MODULE MCRapidConsensus --------------------------
(* A committee for TLC: m1 leads the odd iterations and m2 the even ones.    *)
EXTENDS RapidConsensus

CONSTANTS m1, m2

MCLeader == <<m1, m2>>
=============================================================================
