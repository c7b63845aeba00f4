----------------------------- MODULE MCFrustum -----------------------------
(* Instances of Frustum for TLC.  L is the global leader; f1 and f2 are      *)
(* followers in its shard; b1 to b3 lead shards of their own, whose other    *)
(* members take no part in the protocol and are left out.                    *)
EXTENDS Frustum, TLC

CONSTANTS L, Followers, OtherLeaders

MCNodes == {L} \cup Followers \cup OtherLeaders
MCIntraLeaders == {L} \cup OtherLeaders
MCShardOf == [n \in MCNodes |-> IF n \in OtherLeaders THEN n ELSE L]

Backups == Permutations(Followers) \cup Permutations(OtherLeaders)
=============================================================================
