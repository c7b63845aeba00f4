------------------------------- MODULE TxPool -------------------------------
(***************************************************************************)
(* The transaction pool of BlockChain/TxPool/TxPool.go: one buffered       *)
(* channel per priority level, filled by the sending workers and the HTTP  *)
(* handler at any moment, and emptied by the one goroutine that makes      *)
(* blocks.  CommitTrs reads the length of each channel in the random order *)
(* of a map, decides from those lengths how much to take from each level,  *)
(* and then takes it with receives that block on an empty channel.         *)
(* Transactions of a level are not told apart: a channel is how many it    *)
(* holds.                                                                  *)
(***************************************************************************)
EXTENDS Integers

CONSTANTS
  LevelNum,     \* how many channels: priorityNum, or 1 without priorities
  Capacity,     \* TcPoolChLength of a channel
  TrNumInBlock  \* how many transactions a block holds

ASSUME TxPoolAssumption ==
  /\ LevelNum \in Nat \ {0}
  /\ Capacity \in Nat \ {0}
  /\ TrNumInBlock \in Nat \ {0}

Levels == 0..(LevelNum - 1)

VARIABLES
  pool,      \* the transactions in each channel
  pc,        \* where CommitTrs is: "idle", "measure", "drain"
  unread,    \* levels whose length ChLength has still to read
  seen,      \* LevelLength: the lengths it has read
  plan,      \* what is left to take from each level
  batch      \* what newBatch holds of each level

vars == <<pool, pc, unread, seen, plan, batch>>

None == [l \in Levels |-> 0]

\* SumBelow(f)[l] transactions are below level l by the lengths in f.
SumBelow(f) ==
  LET sum[l \in 0..LevelNum] == IF l = 0 THEN 0 ELSE sum[l - 1] + f[l - 1]
  IN  sum

Total(f) == SumBelow(f)[LevelNum]

Init ==
  /\ pool = None
  /\ pc = "idle"
  /\ unread = {}
  /\ seen = None
  /\ plan = None
  /\ batch = None

\* Faulty: one more than the channel holds.
AddTxOverfull(l) ==
  /\ pool' = [pool EXCEPT ![l] = IF @ <= Capacity THEN @ + 1 ELSE @]
  /\ UNCHANGED <<pc, unread, seen, plan, batch>>

\* AddTx: a transaction that finds its channel full is dropped.
AddTx(l) ==
  /\ pool' = [pool EXCEPT ![l] = IF @ < Capacity THEN @ + 1 ELSE @]
  /\ UNCHANGED <<pc, unread, seen, plan, batch>>

CommitTrs ==
  /\ pc = "idle"
  /\ pc' = "measure"
  /\ unread' = Levels
  /\ seen' = None
  /\ plan' = None
  /\ batch' = None
  /\ UNCHANGED pool

\* ChLength reads one level.
ChLength(l) ==
  /\ pc = "measure"
  /\ l \in unread
  /\ unread' = unread \ {l}
  /\ seen' = [seen EXCEPT ![l] = pool[l]]
  /\ UNCHANGED <<pool, pc, plan, batch>>

\* The first level that completes a block, LevelNum when none does.
LengthCompare(length, needed) ==
  CHOOSE l \in 0..LevelNum :
    /\ l < LevelNum => SumBelow(length)[l + 1] >= needed
    /\ \A k \in 0..(l - 1) : SumBelow(length)[k + 1] < needed

\* Faulty: the last level, instead of the first, is taken from last.
SharesReversed(length) ==
  LET above(l) == Total(length) - SumBelow(length)[l + 1]
  IN  [l \in Levels |-> IF above(l) >= TrNumInBlock THEN 0
                        ELSE IF above(l) + length[l] >= TrNumInBlock
                        THEN TrNumInBlock - above(l)
                        ELSE length[l]]

\* What CommitTrs takes from each level: all of those below the last one, the
\* rest of the block from the last, nothing from those above it.
Shares(length) ==
  LET last == LengthCompare(length, TrNumInBlock)
  IN  [l \in Levels |-> IF l < last THEN length[l]
                        ELSE IF l = last
                        THEN TrNumInBlock - SumBelow(length)[l]
                        ELSE 0]

\* Faulty: an empty pool is not measured again.
DecideOnce ==
  /\ pc = "measure"
  /\ unread = {}
  /\ Total(seen) > 0
  /\ plan' = Shares(seen)
  /\ pc' = "drain"
  /\ UNCHANGED <<pool, unread, seen, batch>>

\* An empty pool is measured again, for ever if nothing arrives (a recursive
\* call in the code).
Decide ==
  /\ pc = "measure"
  /\ unread = {}
  /\ IF Total(seen) = 0
     THEN unread' = Levels /\ UNCHANGED <<pc, plan>>
     ELSE plan' = Shares(seen) /\ pc' = "drain" /\ UNCHANGED unread
  /\ UNCHANGED <<pool, seen, batch>>

\* One receive, from the lowest level that is not done; it blocks on an empty
\* channel.
Take(l) ==
  /\ pc = "drain"
  /\ plan[l] > 0
  /\ \A k \in 0..(l - 1) : plan[k] = 0
  /\ pool[l] > 0
  /\ pool' = [pool EXCEPT ![l] = @ - 1]
  /\ plan' = [plan EXCEPT ![l] = @ - 1]
  /\ batch' = [batch EXCEPT ![l] = @ + 1]
  /\ UNCHANGED <<pc, unread, seen>>

Complete == pc = "drain" /\ plan = None

\* The block is made.
Return ==
  /\ Complete
  /\ pc' = "idle"
  /\ UNCHANGED <<pool, unread, seen, plan, batch>>

Commit == CommitTrs \/ (\E l \in Levels : ChLength(l) \/ Take(l)) \/ Decide \/ Return

Next == (\E l \in Levels : AddTx(l)) \/ Commit

Spec == Init /\ [][Next]_vars

\* The goroutine runs, and the workers' tickers go on ticking.
FairSpec == Spec /\ WF_vars(Commit) /\ WF_vars(\E l \in Levels : AddTx(l))

-----------------------------------------------------------------------------
TypeOK ==
  /\ pool \in [Levels -> 0..Capacity]
  /\ pc \in {"idle", "measure", "drain"}
  /\ unread \subseteq Levels
  /\ seen \in [Levels -> 0..Capacity]
  /\ plan \in [Levels -> 0..Capacity]
  /\ batch \in [Levels -> 0..Capacity]

\* The lengths are stale when they are used, but every receive they lead to finds
\* a transaction.
DrainNeverBlocks == pc = "drain" => \A l \in Levels : plan[l] <= pool[l]

\* A block holds TrNumInBlock transactions, or all that were measured where
\* there were fewer, and it is never empty (HandleBlock divides by its size,
\* Server.go:310).
HoldsEnough ==
  Complete =>
    /\ Total(batch) > 0
    /\ Total(batch) = IF Total(seen) < TrNumInBlock THEN Total(seen) ELSE TrNumInBlock

\* A transaction of one level is in a block only when those of the lower levels
\* that were there when it was measured are in it too.
LowerLevelsFirst ==
  Complete => \A l \in Levels, k \in Levels :
                (k < l /\ batch[l] > 0) => batch[k] = seen[k]

\* CommitTrs runs in the main loop of the node, where a receive that found its
\* channel empty would stop consensus (TxPool.go).  However transactions arrive
\* between its steps, it does not, and the block it makes is full and has the
\* lower levels first.
BlockIsFilled == DrainNeverBlocks /\ HoldsEnough /\ LowerLevelsFirst

\* While transactions go on arriving a block is made at last, although arrivals
\* and the draining of the pool race and an empty pool is only polled.
BlockIsMade == (pc = "measure") ~> (pc = "idle")
=============================================================================
