--------------------------- MODULE MCRapidOverlay ---------------------------
(* Every division of up to 30 nodes into up to 8 committees; for five         *)
(* committees of four, all sets of identifiers of three bits and one of four  *)
(* bits; gossip in two committees of four.                                    *)
EXTENDS RapidOverlay, Bitwise

CONSTANTS MaxNodes, MaxCommittees

MCXor(a, b) == a ^^ b

SomeIds == <<0, 1, 2, 4, 8, 3, 5, 6>>

Divisions == {[n |-> n, m |-> m, ids |-> SubSeq(SomeIds, 1, m)] :
                n \in 1..MaxNodes, m \in 1..MaxCommittees}

Identifiers ==
  {[n |-> 20, m |-> 5, ids |-> <<0>> \o q] :
     q \in {p \in [1..4 -> 1..7] : \A i \in 1..3 : p[i] < p[i + 1]}}

MCConfigurations == Divisions \cup Identifiers

MCGossips == {F \in Divisions : F.n = 8 /\ F.m = 2}
=============================================================================
