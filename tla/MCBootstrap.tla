---------------------------- MODULE MCBootstrap ----------------------------
(* Small networks for TLC.  The name of a node is its ID.                    *)
EXTENDS Bootstrap

CONSTANTS n11, n12, n21, n31

MCShardOf == [n \in Nodes |-> CASE n \in {n11, n12} -> 1 [] n = n21 -> 2 [] OTHER -> 3]
MCNumberOf == [n \in Nodes |-> IF n = n12 THEN 2 ELSE 1]

\* What nodes handle of the earlier phases when the seed node is about to exit, and all
\* that they handle afterwards, they may as well handle before: only an orderly network
\* is followed there.
Bound ==
  \/ orderly
  \/ seed # "exited" /\ (seed = "exiting" => \A m \in posted : m.kind = "ShutDown")
=============================================================================
