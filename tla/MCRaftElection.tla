--------------------------- MODULE MCRaftElection ---------------------------
(* Instances of RaftElection for TLC: a shard of three and a shard of four.  *)
EXTENDS RaftElection, TLC

CONSTANTS ShardA, ShardB, a1, a2, a3, b1, b2, b3, b4

MCNodes == ShardA \cup ShardB
MCShardOf == [n \in MCNodes |-> IF n \in ShardA THEN "A" ELSE "B"]

\* The members of B are permuted in every way, and those of A with them: each stands
\* for one of the three ways to pair the members of B.
Pairing(a) ==
  LET pair == CASE a = a1 -> {b1, b2} [] a = a2 -> {b1, b3} [] a = a3 -> {b1, b4}
  IN  {pair, {b1, b2, b3, b4} \ pair}
Members ==
  {q @@ [a \in {a1, a2, a3} |->
           CHOOSE c \in {a1, a2, a3} :
             Pairing(c) = {{q[b] : b \in pair} : pair \in Pairing(a)}] :
     q \in Permutations({b1, b2, b3, b4})}

\* One candidate at most has begun to count votes; none is registered yet.
OneCounts ==
  /\ registered = {}
  /\ Cardinality({n \in Nodes : checker[n] \notin {"none", "triggered"}}) <= 1

Undecided == \A n \in Nodes : checker[n] \notin {"elected", "ended"}

\* The shards do not share anything before they register, so one of them stands at a
\* time: two candidates of A in full, three until the first count of one of them is
\* full, and two of B of which one counts.
Bound ==
  \/ /\ Candidates \subseteq ShardA
     /\ Cardinality(Candidates) <= 2 \/ (OneCounts /\ Undecided)
  \/ Candidates \subseteq ShardB /\ Cardinality(Candidates) <= 2 /\ OneCounts
=============================================================================
