---------------------------- MODULE MCBlockStore ----------------------------
(* Three blocks in a chain for TLC, and a rival of the second.               *)
EXTENDS BlockStore

CONSTANTS b1, b2, b3, r2

MCBlocks == {b1, b2, b3, r2}
MCPrevious == [b \in MCBlocks |-> CASE b = b1 -> {}
                                    [] b \in {b2, r2} -> {b1}
                                    [] b = b3 -> {b2}]
MCHeightOf == [b \in MCBlocks |-> CASE b = b1 -> 1
                                    [] b \in {b2, r2} -> 2
                                    [] b = b3 -> 3]
=============================================================================
