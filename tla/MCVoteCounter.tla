--------------------------- MODULE MCVoteCounter ---------------------------
(* Instances of VoteCounter for TLC: the voters are interchangeable. *)
EXTENDS VoteCounter, TLC

VoterSymmetry == Permutations(Voters)
=============================================================================
