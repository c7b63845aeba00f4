---------------------------- MODULE StoresProofs ----------------------------
(***************************************************************************)
(* The two stores of a node: the transaction pool for every number of      *)
(* levels, capacity and size of a block, and the block database for every  *)
(* set of blocks and every order of transactions, restarts and walks.      *)
(*                                                                         *)
(* Sums over the levels are recursive functions: that one exists and what  *)
(* it amounts to is shown by least counterexamples.  The invariant of the  *)
(* pool is that what CommitTrs has measured, and has yet to take, stays in *)
(* the channels, since it alone takes transactions out.                    *)
(***************************************************************************)
EXTENDS TxPool, BlockStore, WellFoundedInduction, TLAPS

-----------------------------------------------------------------------------
(* TxPool.                                                                   *)

\* Each nonempty set of naturals has a least element.
LEMMA Least ==
  ASSUME NEW T \in SUBSET Nat, T # {}
  PROVE \E x \in T : \A y \in T : x <= y
<1> DEFINE R == OpToRel(<, Nat)
<1>1. IsWellFoundedOn(R, Nat)
  BY NatLessThanWellFounded
<1>2. \A x, y \in Nat : <<x, y>> \in R <=> x < y
  BY DEF OpToRel
<1> HIDE DEF R
<1>3. PICK x \in T : \A y \in T : ~ (<<y, x>> \in R)
  BY <1>1, WFMin
<1>4. \A x1, y1 \in T : x1 \in Nat /\ y1 \in Nat
  OBVIOUS
<1>5. \A y \in T : ~ (y < x)
  BY <1>2, <1>3, <1>4, Zenon
<1> QED BY <1>4, <1>5

-----------------------------------------------------------------------------
\* The lengths of the levels.
Lengths == [Levels -> Nat]

\* One level more.
More(f, w, l) == IF l = 0 THEN 0 ELSE w[l - 1] + f[l - 1]

\* The sums up to any level exist.
LEMMA SumsExist ==
  ASSUME NEW f \in Lengths
  PROVE \E w : w = [l \in 0..LevelNum |-> More(f, w, l)]
<1> DEFINE Good(n) == \E w : w = [l \in 0..n |-> More(f, w, l)]
           Bad == {n \in Nat : ~ Good(n)}
<1>1. SUFFICES ASSUME Bad # {} PROVE FALSE
  <2>1. Good(LevelNum)
    BY <1>1, TxPoolAssumption
  <2> QED BY <2>1
<1>2. PICK n \in Bad : \A i \in Bad : n <= i
  <2> HIDE DEF Bad
  <2>1. Bad \in SUBSET Nat
    BY DEF Bad
  <2> QED BY <1>1, <2>1, Least
<1>3. n \in Nat /\ ~ Good(n)
  OBVIOUS
<1>4. \A i \in 0..(n - 1) : Good(i)
  BY <1>2, <1>3
<1> HIDE DEF Bad
<1>5. PICK w : \A l \in 0..(n - 1) : w[l] = More(f, w, l)
  <2>1. CASE n = 0
    BY <2>1
  <2>2. CASE n # 0
    <3>1. n - 1 \in 0..(n - 1)
      BY <1>3, <2>2
    <3> QED BY <1>4, <3>1
  <2> QED BY <2>1, <2>2
<1> DEFINE v == [l \in 0..n |-> IF l = n THEN More(f, w, l) ELSE w[l]]
<1>6. ASSUME NEW l \in 0..n PROVE v[l] = More(f, v, l)
  <2>1. v[l] = More(f, w, l)
    BY <1>3, <1>5
  <2>2. CASE l # 0
    <3>1. l - 1 \in 0..n /\ l - 1 # n
      BY <1>3, <2>2
    <3>2. v[l - 1] = w[l - 1]
      BY <3>1
    <3> QED BY <2>1, <3>2 DEF More
  <2> QED BY <2>1, <2>2 DEF More
<1>7. v = [l \in 0..n |-> More(f, v, l)]
  BY <1>6
<1> QED BY <1>3, <1>7

\* What SumBelow is, level by level.
LEMMA SumFacts ==
  ASSUME NEW f \in Lengths
  PROVE /\ SumBelow(f)[0] = 0
        /\ \A l \in Levels : SumBelow(f)[l + 1] = SumBelow(f)[l] + f[l]
<1> DEFINE s == CHOOSE w : w = [l \in 0..LevelNum |-> IF l = 0 THEN 0 ELSE w[l - 1] + f[l - 1]]
<1>1. SumBelow(f) = s
  BY DEF SumBelow
<1>2. s = [l \in 0..LevelNum |-> IF l = 0 THEN 0 ELSE s[l - 1] + f[l - 1]]
  BY SumsExist DEF More
<1>3. LevelNum \in Nat \ {0}
  BY TxPoolAssumption
<1> HIDE DEF s
<1>4. s[0] = 0
  BY <1>2, <1>3
<1>5. ASSUME NEW l \in Levels PROVE s[l + 1] = s[l] + f[l]
  <2>1. l + 1 \in 0..LevelNum /\ l + 1 # 0 /\ (l + 1) - 1 = l
    BY <1>3 DEF Levels
  <2> QED BY <1>2, <2>1
<1> QED BY <1>1, <1>4, <1>5

\* A level at which a claim about the levels fails first.
LEMMA FirstLevel ==
  ASSUME NEW T \in SUBSET (0..LevelNum), T # {}, 0 \notin T
  PROVE \E l \in Levels : l \notin T /\ l + 1 \in T
<1>1. LevelNum \in Nat
  BY TxPoolAssumption
<1>2. PICK x \in T : \A y \in T : x <= y
  BY <1>1, Least
<1>3. x - 1 \in Levels /\ x - 1 \notin T /\ (x - 1) + 1 = x
  BY <1>1, <1>2 DEF Levels
<1> QED BY <1>2, <1>3

\* Sums of lengths are numbers.
LEMMA SumsAreNat ==
  ASSUME NEW f \in Lengths
  PROVE \A l \in 0..LevelNum : SumBelow(f)[l] \in Nat
<1> DEFINE T == {l \in 0..LevelNum : SumBelow(f)[l] \notin Nat}
<1>1. SUFFICES ASSUME T # {} PROVE FALSE
  OBVIOUS
<1>2. 0 \notin T
  BY SumFacts
<1>3. PICK l \in Levels : l \notin T /\ l + 1 \in T
  <2>1. T \in SUBSET (0..LevelNum)
    OBVIOUS
  <2> HIDE DEF T
  <2> QED BY <1>1, <1>2, <2>1, FirstLevel
<1>4. l \in 0..LevelNum /\ SumBelow(f)[l] \in Nat
  BY <1>3, TxPoolAssumption DEF Levels
<1>5. f[l] \in Nat
  BY DEF Lengths
<1> QED BY <1>3, <1>4, <1>5, SumFacts

\* The sums grow from level to level.
LEMMA SumsGrow ==
  ASSUME NEW f \in Lengths, NEW k \in 0..LevelNum
  PROVE \A l \in 0..LevelNum : k <= l => SumBelow(f)[k] <= SumBelow(f)[l]
<1> DEFINE T == {l \in 0..LevelNum : k <= l /\ ~ (SumBelow(f)[k] <= SumBelow(f)[l])}
<1>1. SUFFICES ASSUME T # {} PROVE FALSE
  OBVIOUS
<1>2. \A l \in 0..LevelNum : SumBelow(f)[l] \in Nat
  BY SumsAreNat
<1>3. 0 \notin T
  BY <1>2
<1>4. PICK l \in Levels : l \notin T /\ l + 1 \in T
  <2>1. T \in SUBSET (0..LevelNum)
    OBVIOUS
  <2> HIDE DEF T
  <2> QED BY <1>1, <1>3, <2>1, FirstLevel
<1>5. l \in 0..LevelNum /\ l \in Nat /\ l + 1 \in 0..LevelNum
  BY TxPoolAssumption DEF Levels
<1>6. SumBelow(f)[l + 1] = SumBelow(f)[l] + f[l] /\ f[l] \in Nat
  BY SumFacts DEF Lengths
<1>7. k = l + 1 \/ k <= l
  BY <1>4, <1>5
<1>8. CASE k = l + 1
  BY <1>2, <1>4, <1>5, <1>8
<1>9. CASE k <= l
  BY <1>2, <1>4, <1>5, <1>6, <1>9
<1> QED BY <1>7, <1>8, <1>9

-----------------------------------------------------------------------------
\* Which level is taken from last.
LEMMA LastLevel ==
  ASSUME NEW f \in Lengths
  PROVE LET last == LengthCompare(f, TrNumInBlock)
        IN  /\ last \in 0..LevelNum
            /\ last < LevelNum => SumBelow(f)[last + 1] >= TrNumInBlock
            /\ \A k \in 0..(last - 1) : SumBelow(f)[k + 1] < TrNumInBlock
<1> DEFINE T == {l \in 0..LevelNum : l < LevelNum => SumBelow(f)[l + 1] >= TrNumInBlock}
<1>1. LevelNum \in Nat \ {0} /\ TrNumInBlock \in Nat
  BY TxPoolAssumption
<1>2. PICK x \in T : \A y \in T : x <= y
  <2>1. T \in SUBSET Nat /\ LevelNum \in T
    BY <1>1
  <2> HIDE DEF T
  <2> QED BY <2>1, Least
<1>3. x \in 0..LevelNum /\ (x < LevelNum => SumBelow(f)[x + 1] >= TrNumInBlock)
  OBVIOUS
<1>4. ASSUME NEW k \in 0..(x - 1) PROVE SumBelow(f)[k + 1] < TrNumInBlock
  <2>1. k \in 0..LevelNum /\ k < LevelNum /\ k + 1 \in 0..LevelNum /\ ~ (x <= k)
    BY <1>1, <1>3
  <2>2. ~ (SumBelow(f)[k + 1] >= TrNumInBlock)
    BY <1>2, <2>1
  <2>3. SumBelow(f)[k + 1] \in Nat
    BY <2>1, SumsAreNat
  <2> QED BY <1>1, <2>2, <2>3
<1> HIDE DEF T
<1> QED BY <1>3, <1>4 DEF LengthCompare

\* What is taken from a level is there; from a level below the last, all of it.
LEMMA SharesFacts ==
  ASSUME NEW f \in Lengths
  PROVE /\ Shares(f) \in Lengths
        /\ \A l \in Levels : Shares(f)[l] <= f[l]
        /\ \A l, k \in Levels : k < l /\ Shares(f)[l] > 0 => Shares(f)[k] = f[k]
<1> DEFINE last == LengthCompare(f, TrNumInBlock)
<1>1. /\ last \in 0..LevelNum
      /\ last < LevelNum => SumBelow(f)[last + 1] >= TrNumInBlock
      /\ \A k \in 0..(last - 1) : SumBelow(f)[k + 1] < TrNumInBlock
  BY LastLevel
<1>2. Shares(f) = [l \in Levels |-> IF l < last THEN f[l]
                                    ELSE IF l = last THEN TrNumInBlock - SumBelow(f)[l] ELSE 0]
  BY DEF Shares
<1> HIDE DEF last
<1>3. LevelNum \in Nat \ {0} /\ TrNumInBlock \in Nat \ {0} /\ last \in Nat
  BY <1>1, TxPoolAssumption
<1>4. last \in Levels => SumBelow(f)[last] \in Nat /\ SumBelow(f)[last] < TrNumInBlock
  <2>1. CASE last = 0
    BY <1>3, <2>1, SumFacts
  <2>2. CASE last # 0
    <3>1. last - 1 \in 0..(last - 1) /\ (last - 1) + 1 = last
      BY <1>3, <2>2
    <3> QED BY <1>1, <3>1, SumsAreNat
  <2> QED BY <2>1, <2>2
<1>5. \A l \in Levels : f[l] \in Nat /\ l \in Nat
  BY <1>3 DEF Lengths, Levels
<1>6. last \in Levels => TrNumInBlock - SumBelow(f)[last] \in Nat /\ TrNumInBlock - SumBelow(f)[last] <= f[last]
  <2>1. SUFFICES ASSUME last \in Levels
                 PROVE TrNumInBlock - SumBelow(f)[last] \in Nat /\ TrNumInBlock - SumBelow(f)[last] <= f[last]
    OBVIOUS
  <2>2. SumBelow(f)[last] + f[last] >= TrNumInBlock
    BY <1>1, <1>3, <2>1, SumFacts DEF Levels
  <2> QED BY <1>3, <1>4, <1>5, <2>1, <2>2
<1>7. ASSUME NEW l \in Levels PROVE Shares(f)[l] \in Nat /\ Shares(f)[l] <= f[l]
  BY <1>2, <1>5, <1>6
<1>8. ASSUME NEW l \in Levels, NEW k \in Levels, k < l, Shares(f)[l] > 0 PROVE Shares(f)[k] = f[k]
  <2>1. ~ (last < l)
    BY <1>2, <1>3, <1>5, <1>8
  <2> QED BY <1>2, <1>3, <1>5, <1>8, <2>1
<1> QED BY <1>2, <1>7, <1>8 DEF Lengths

\* The shares make a full block, or take everything if that is less.
LEMMA SharesFillBlock ==
  ASSUME NEW f \in Lengths
  PROVE Total(Shares(f)) = IF Total(f) < TrNumInBlock THEN Total(f) ELSE TrNumInBlock
<1> DEFINE last == LengthCompare(f, TrNumInBlock)
           g == Shares(f)
           Due(l) == IF l <= last THEN SumBelow(f)[l] ELSE TrNumInBlock
           T == {l \in 0..LevelNum : SumBelow(g)[l] # Due(l)}
<1>1. /\ last \in 0..LevelNum
      /\ last < LevelNum => SumBelow(f)[last + 1] >= TrNumInBlock
      /\ \A k \in 0..(last - 1) : SumBelow(f)[k + 1] < TrNumInBlock
  BY LastLevel
<1>2. g = [l \in Levels |-> IF l < last THEN f[l]
                            ELSE IF l = last THEN TrNumInBlock - SumBelow(f)[l] ELSE 0]
  BY DEF Shares
<1>3. LevelNum \in Nat \ {0} /\ TrNumInBlock \in Nat \ {0} /\ last \in Nat /\ g \in Lengths
  BY <1>1, TxPoolAssumption, SharesFacts
<1> HIDE DEF last, g
<1>4. T = {}
  <2>1. SUFFICES ASSUME T # {} PROVE FALSE
    OBVIOUS
  <2>2. 0 \notin T
    BY <1>3, SumFacts
  <2>3. PICK l \in Levels : l \notin T /\ l + 1 \in T
    <3>1. T \in SUBSET (0..LevelNum)
      OBVIOUS
    <3> HIDE DEF T
    <3> QED BY <2>1, <2>2, <3>1, FirstLevel
  <2>4. l \in 0..LevelNum /\ l \in Nat /\ l + 1 \in 0..LevelNum
    BY <1>3 DEF Levels
  <2>5. SumBelow(g)[l] = Due(l) /\ SumBelow(g)[l + 1] # Due(l + 1)
    BY <2>3, <2>4
  <2>6. SumBelow(g)[l + 1] = SumBelow(g)[l] + g[l] /\ SumBelow(f)[l + 1] = SumBelow(f)[l] + f[l]
    BY <1>3, SumFacts
  <2>7. SumBelow(f)[l] \in Nat
    BY <2>4, SumsAreNat
  <2>8. CASE l < last
    BY <1>2, <1>3, <2>4, <2>5, <2>6, <2>8
  <2>9. CASE l = last
    BY <1>2, <1>3, <2>4, <2>5, <2>6, <2>7, <2>9
  <2>10. CASE l > last
    BY <1>2, <1>3, <2>4, <2>5, <2>6, <2>10
  <2> QED BY <1>3, <2>4, <2>8, <2>9, <2>10
<1>5. Total(g) = Due(LevelNum)
  BY <1>3, <1>4 DEF Total
<1>6. Total(f) \in Nat
  BY <1>3, SumsAreNat DEF Total
<1>7. CASE last = LevelNum
  <2>1. LevelNum - 1 \in 0..(last - 1) /\ (LevelNum - 1) + 1 = LevelNum
    BY <1>3, <1>7
  <2>2. Total(f) < TrNumInBlock
    BY <1>1, <2>1 DEF Total
  <2> QED BY <1>3, <1>5, <1>7, <2>2 DEF Total, g
<1>8. CASE last < LevelNum
  <2>1. last + 1 \in 0..LevelNum /\ last + 1 <= LevelNum /\ LevelNum \in 0..LevelNum
    BY <1>3, <1>8
  <2>2. SumBelow(f)[last + 1] <= Total(f) /\ SumBelow(f)[last + 1] \in Nat
    BY <2>1, SumsGrow, SumsAreNat DEF Total
  <2>3. ~ (Total(f) < TrNumInBlock)
    BY <1>1, <1>3, <1>6, <1>8, <2>2
  <2> QED BY <1>3, <1>5, <1>8, <2>3 DEF g
<1> QED BY <1>1, <1>3, <1>7, <1>8

-----------------------------------------------------------------------------
\* What has been measured is still there while the rest is measured; what is to be
\* taken is there until it is taken.
IInv ==
  /\ TypeOK
  /\ pc = "measure" =>
       /\ batch = None
       /\ \A l \in Levels \ unread : seen[l] <= pool[l]
  /\ pc = "drain" =>
       /\ DrainNeverBlocks
       /\ \A l \in Levels : batch[l] + plan[l] = Shares(seen)[l]
       /\ Total(seen) > 0

\* What the channels can hold has a length at each level, and a total.
LEMMA LevelTypes ==
  ASSUME NEW f, f \in [Levels -> 0..Capacity]
  PROVE f \in Lengths /\ (\A l \in Levels : f[l] \in Nat) /\ Total(f) \in Nat
<1>1. f \in Lengths
  BY TxPoolAssumption DEF Lengths
<1>2. LevelNum \in 0..LevelNum
  BY TxPoolAssumption
<1> QED BY <1>1, <1>2, SumsAreNat DEF Lengths, Total

\* No transaction at any level is such a content.
LEMMA NoneType == None \in [Levels -> 0..Capacity] /\ \A l \in Levels : None[l] = 0
BY TxPoolAssumption DEF None

\* The channels are empty at the start.
LEMMA InitIInv == ASSUME Init PROVE IInv
BY NoneType DEF Init, IInv, TypeOK

\* A transaction that arrives takes none out.
LEMMA AddTxKeeps == ASSUME IInv, NEW l \in Levels, AddTx(l) PROVE IInv'
<1>1. UNCHANGED <<pc, unread, seen, plan, batch>>
  BY DEF AddTx
<1>2. /\ pool \in [Levels -> 0..Capacity] /\ pool' \in [Levels -> 0..Capacity]
      /\ \A k \in Levels : pool[k] \in Nat /\ pool'[k] \in Nat /\ pool[k] <= pool'[k]
  BY TxPoolAssumption DEF AddTx, IInv, TypeOK
<1>3. TypeOK'
  BY <1>1, <1>2 DEF IInv, TypeOK
<1>4. pc' = "measure" => batch' = None /\ \A k \in Levels \ unread' : seen'[k] <= pool'[k]
  <2>1. \A k \in Levels : seen[k] \in Nat
    BY LevelTypes DEF IInv, TypeOK
  <2> QED BY <1>1, <1>2, <2>1 DEF IInv
<1>5. pc' = "drain" =>
        /\ DrainNeverBlocks'
        /\ \A k \in Levels : batch'[k] + plan'[k] = Shares(seen')[k]
        /\ Total(seen') > 0
  <2>1. \A k \in Levels : plan[k] \in Nat
    BY LevelTypes DEF IInv, TypeOK
  <2> QED BY <1>1, <1>2, <2>1 DEF IInv, DrainNeverBlocks
<1> QED BY <1>3, <1>4, <1>5 DEF IInv

\* Nor does the start of a commit.
LEMMA CommitTrsKeeps == ASSUME IInv, CommitTrs PROVE IInv'
BY NoneType DEF CommitTrs, IInv, TypeOK

\* The length that is measured is in the channel.
LEMMA ChLengthKeeps == ASSUME IInv, NEW l \in Levels, ChLength(l) PROVE IInv'
<1>1. /\ pc = "measure" /\ UNCHANGED <<pool, pc, plan, batch>> /\ unread' = unread \ {l}
      /\ seen' = [seen EXCEPT ![l] = pool[l]]
  BY DEF ChLength
<1>2. TypeOK'
  BY <1>1 DEF IInv, TypeOK
<1>3. \A k \in Levels \ unread' : seen'[k] <= pool'[k]
  <2>1. \A k \in Levels : pool[k] \in Nat
    BY LevelTypes DEF IInv, TypeOK
  <2> QED BY <1>1, <2>1 DEF IInv, TypeOK
<1> QED BY <1>1, <1>2, <1>3 DEF IInv

\* No level is to give more than was measured at it.
LEMMA DecideKeeps == ASSUME IInv, Decide PROVE IInv'
<1>1. /\ pc = "measure" /\ unread = {} /\ UNCHANGED <<pool, seen, batch>>
      /\ batch = None /\ \A l \in Levels : seen[l] <= pool[l]
  BY DEF Decide, IInv
<1>2. CASE Total(seen) = 0
  <2>1. unread' = Levels /\ UNCHANGED <<pc, plan>>
    BY <1>2 DEF Decide
  <2> QED BY <1>1, <2>1 DEF IInv, TypeOK
<1>3. CASE Total(seen) # 0
  <2>1. plan' = Shares(seen) /\ pc' = "drain" /\ UNCHANGED unread
    BY <1>3 DEF Decide
  <2>2. seen \in Lengths /\ Total(seen) \in Nat /\ \A l \in Levels : seen[l] \in 0..Capacity
    BY LevelTypes DEF IInv, TypeOK
  <2>3. /\ Shares(seen) \in [Levels -> Nat]
        /\ \A l \in Levels : Shares(seen)[l] <= seen[l]
    BY <2>2, SharesFacts DEF Lengths
  <2>4. plan' \in [Levels -> 0..Capacity]
    <3>1. \A l \in Levels : Shares(seen)[l] \in 0..Capacity
      BY <2>2, <2>3, TxPoolAssumption
    <3> QED BY <2>1, <2>3, <3>1
  <2>5. TypeOK'
    BY <1>1, <2>1, <2>4 DEF IInv, TypeOK
  <2>6. DrainNeverBlocks'
    <3>1. \A l \in Levels : pool[l] \in Nat
      BY LevelTypes DEF IInv, TypeOK
    <3> QED BY <1>1, <2>1, <2>2, <2>3, <3>1 DEF DrainNeverBlocks
  <2>7. \A l \in Levels : batch'[l] + plan'[l] = Shares(seen')[l]
    BY <1>1, <2>1, <2>3, NoneType
  <2>8. Total(seen') > 0
    BY <1>1, <1>3, <2>2
  <2> QED BY <2>1, <2>5, <2>6, <2>7, <2>8 DEF IInv
<1> QED BY <1>2, <1>3

\* What is taken at a level is no longer due from it.
LEMMA TakeKeeps == ASSUME IInv, NEW l \in Levels, Take(l) PROVE IInv'
<1>1. /\ pc = "drain" /\ UNCHANGED <<pc, unread, seen>> /\ plan[l] > 0 /\ pool[l] > 0
      /\ pool' = [pool EXCEPT ![l] = @ - 1]
      /\ plan' = [plan EXCEPT ![l] = @ - 1]
      /\ batch' = [batch EXCEPT ![l] = @ + 1]
  BY DEF Take
<1>2. /\ pool \in [Levels -> 0..Capacity] /\ plan \in [Levels -> 0..Capacity]
      /\ batch \in [Levels -> 0..Capacity] /\ seen \in [Levels -> 0..Capacity] /\ Capacity \in Nat
  BY TxPoolAssumption DEF IInv, TypeOK
<1>3. Shares(seen)[l] <= Capacity /\ Shares(seen)[l] \in Nat
  <2>1. Shares(seen)[l] <= seen[l] /\ Shares(seen)[l] \in Nat
    BY <1>2, LevelTypes, SharesFacts DEF Lengths
  <2> QED BY <1>2, <2>1
<1>4. \A k \in Levels : batch[k] + plan[k] = Shares(seen)[k] /\ plan[k] <= pool[k]
  BY <1>1 DEF IInv, DrainNeverBlocks
<1>5. TypeOK'
  <2>1. batch[l] + 1 \in 0..Capacity
    BY <1>1, <1>2, <1>3, <1>4
  <2> QED BY <1>1, <1>2, <2>1 DEF IInv, TypeOK
<1>6. ASSUME NEW k \in Levels
      PROVE batch'[k] + plan'[k] = Shares(seen)[k] /\ plan'[k] <= pool'[k]
  <2>1. batch[k] \in Nat /\ plan[k] \in Nat /\ pool[k] \in Nat
    BY <1>2
  <2>2. CASE k = l
    <3>1. batch'[k] = batch[k] + 1 /\ plan'[k] = plan[k] - 1 /\ pool'[k] = pool[k] - 1
      BY <1>1, <1>2, <2>2
    <3> QED BY <1>4, <2>1, <3>1
  <2>3. CASE k # l
    <3>1. batch'[k] = batch[k] /\ plan'[k] = plan[k] /\ pool'[k] = pool[k]
      BY <1>1, <1>2, <2>3
    <3> QED BY <1>4, <3>1
  <2> QED BY <2>2, <2>3
<1>7. Total(seen') > 0
  BY <1>1 DEF IInv
<1> QED BY <1>1, <1>5, <1>6, <1>7 DEF IInv, DrainNeverBlocks

\* So every step keeps the invariant.
LEMMA StepIInv == ASSUME IInv, [Next]_vars PROVE IInv'
<1>1. ASSUME Return PROVE IInv'
  BY <1>1 DEF Return, IInv, TypeOK
<1>2. ASSUME UNCHANGED vars PROVE IInv'
  BY <1>2 DEF vars, IInv, TypeOK, DrainNeverBlocks
<1> QED BY <1>1, <1>2, AddTxKeeps, CommitTrsKeeps, ChLengthKeeps, DecideKeeps, TakeKeeps
        DEF Next, Commit

\* It always holds.
LEMMA AlwaysIInv == Spec => []IInv
<1>1. Init => IInv
  BY InitIInv
<1>2. IInv /\ [Next]_vars => IInv'
  BY StepIInv
<1> QED BY <1>1, <1>2, PTL DEF Spec

-----------------------------------------------------------------------------
\* No channel is overfull, and neither plan nor block takes more of a level than a
\* channel holds.
THEOREM TypeCorrect == Spec => []TypeOK
<1>1. IInv => TypeOK
  BY DEF IInv
<1> QED BY <1>1, AlwaysIInv, PTL

\* Whatever arrives between the steps of CommitTrs, and with any number of levels:
\* no receive blocks, a block is full or takes all there was, and it takes lower
\* levels first.
THEOREM BlocksAreFilled == Spec => []BlockIsFilled
<1>1. ASSUME IInv PROVE BlockIsFilled
  <2>1. DrainNeverBlocks
    BY <1>1 DEF IInv, DrainNeverBlocks
  <2>2. ASSUME Complete
        PROVE batch = Shares(seen) /\ Total(seen) > 0 /\ seen \in Lengths /\ Total(seen) \in Nat
    <3>1. seen \in Lengths /\ Total(seen) \in Nat /\ batch \in [Levels -> 0..Capacity]
      BY <1>1, LevelTypes DEF IInv, TypeOK
    <3>2. \A l \in Levels : batch[l] + plan[l] = Shares(seen)[l] /\ plan[l] = 0 /\ batch[l] \in Nat
      BY <1>1, <2>2, LevelTypes, NoneType DEF IInv, Complete, TypeOK
    <3>3. batch \in [Levels -> Nat] /\ Shares(seen) \in [Levels -> Nat]
      BY <3>1, <3>2, SharesFacts DEF Lengths
    <3>4. \A l \in Levels : batch[l] = Shares(seen)[l]
      BY <3>2, <3>3
    <3>5. batch = Shares(seen)
      BY <3>3, <3>4
    <3> QED BY <1>1, <2>2, <3>1, <3>5 DEF IInv, Complete
  <2>3. HoldsEnough
    <3>1. TrNumInBlock \in Nat \ {0}
      BY TxPoolAssumption
    <3> QED BY <2>2, <3>1, SharesFillBlock DEF HoldsEnough
  <2>4. LowerLevelsFirst
    BY <2>2, SharesFacts DEF LowerLevelsFirst
  <2> QED BY <2>1, <2>3, <2>4 DEF BlockIsFilled
<1> QED BY <1>1, AlwaysIInv, PTL

-----------------------------------------------------------------------------
(* BlockStore.                                                               *)

\* TipSurvivesRestart says nothing of the time a transaction is open: then a tip
\* that can be read is what the transaction will make the latest entry.
TipForeseesCommit ==
  \A o \in writing : writing = {o} /\ (TipIsReadable => tip = LatestAfter(o))

\* The inductive invariant.
StoreInv == StoreTypeOK /\ TipSurvivesRestart /\ TipForeseesCommit

\* Nothing is stored, and nothing points into the store.
LEMMA StoreInitInv == StoreInit => StoreInv
BY DEF StoreInit, StoreInv, StoreTypeOK, TipSurvivesRestart, IndexIsOfABlock, TipForeseesCommit,
   NoWalk, WalkAt

-----------------------------------------------------------------------------
\* A transaction begins: the tip moves ahead of the bucket.
LEMMA BeginInv ==
  ASSUME StoreInv, NEW o \in Operations, Begin(o)
  PROVE  StoreInv'
<1>1. o.hash \in Blocks
  BY DEF Operations
<1>2. StoreTypeOK'
  BY <1>1 DEF StoreInv, StoreTypeOK, Hashes, Begin
<1>3. TipSurvivesRestart'
  BY DEF StoreInv, TipSurvivesRestart, IndexIsOfABlock, Begin
<1>4. TipForeseesCommit'
  <2>1. CASE stored[o.hash] = "absent"
    BY <2>1 DEF TipForeseesCommit, LatestAfter, Begin
  <2>2. CASE stored[o.hash] # "absent"
    BY <2>2 DEF StoreInv, TipSurvivesRestart, TipForeseesCommit, TipIsReadable, LatestAfter, Begin
  <2>3. QED
    BY <2>1, <2>2
<1>5. QED
  BY <1>2, <1>3, <1>4 DEF StoreInv

\* What a commit leaves in memory has the right type; a tip that can still be read
\* could be read before and has not moved.
LEMMA PageReused ==
  ASSUME StoreTypeOK, NEW o \in Operations, CommitWrite(o)
  PROVE  /\ tip' \in SUBSET Hashes
         /\ page' \in {"none", "current", "freed"}
         /\ walk' \in [at : SUBSET Hashes, ofPage : BOOLEAN,
                       state : {"none", "walking", "missing", "panic", "first"}]
         /\ TipIsReadable' => TipIsReadable /\ tip' = tip
<1>1. PageContents(o) \in SUBSET Hashes
  BY DEF PageContents, Hashes
<1>2. tipFrom' = tipFrom
  BY DEF CommitWrite
<1>3. page' = IF page = "current" /\ Puts(o) THEN "freed" ELSE page
  BY DEF CommitWrite, ReusePage
<1>4. CASE UNCHANGED <<tip, walk>>
  BY <1>2, <1>3, <1>4 DEF StoreTypeOK, TipIsReadable
<1>5. ASSUME NEW h \in PageContents(o),
             tip' = IF tipFrom = "page" THEN {h} ELSE tip,
             walk' = IF walk.ofPage THEN [walk EXCEPT !.at = {h}] ELSE walk
      PROVE  /\ tip' \in SUBSET Hashes
             /\ page' \in {"none", "current", "freed"}
             /\ walk' \in [at : SUBSET Hashes, ofPage : BOOLEAN,
                           state : {"none", "walking", "missing", "panic", "first"}]
             /\ TipIsReadable' => TipIsReadable /\ tip' = tip
  <2>1. page = "freed" \/ (page = "current" /\ Puts(o))
    BY <1>5 DEF PageContents
  <2>2. page' = "freed"
    BY <1>3, <2>1
  <2>3. TipIsReadable' => tipFrom = "store"
    BY <1>2, <2>2 DEF TipIsReadable
  <2>4. {h} \in SUBSET Hashes
    BY <1>1
  <2>5. walk' \in [at : SUBSET Hashes, ofPage : BOOLEAN,
                   state : {"none", "walking", "missing", "panic", "first"}]
    BY <1>5, <2>4 DEF StoreTypeOK
  <2>6. QED
    BY <1>5, <2>2, <2>3, <2>4, <2>5 DEF StoreTypeOK, TipIsReadable
<1>6. QED
  BY <1>4, <1>5 DEF CommitWrite, ReusePage

\* It commits: the bucket catches up with a tip that can be read.
LEMMA CommitWriteInv ==
  ASSUME StoreInv, NEW o \in Operations, CommitWrite(o)
  PROVE  StoreInv'
<1>1. o.hash \in Blocks /\ Written(o) \in {"preCommit", "block"}
  BY DEF Operations, Written
<1>2. /\ stored' = [stored EXCEPT ![o.hash] = Written(o)]
      /\ stored \in [Blocks -> {"absent", "preCommit", "block"}]
  BY DEF CommitWrite, StoreInv, StoreTypeOK
<1>3. /\ stored'[o.hash] = Written(o)
      /\ \A b \in Blocks : b # o.hash => stored'[b] = stored[b]
      /\ \A b \in Blocks : stored[b] # "absent" => stored'[b] # "absent"
      /\ \A b \in Blocks : stored[b] = "block" => stored'[b] = "block"
  BY <1>1, <1>2 DEF Written
<1>4. /\ latest' = LatestAfter(o)
      /\ TipIsReadable => tip = LatestAfter(o)
  BY DEF CommitWrite, StoreInv, TipForeseesCommit
<1>5. StoreTypeOK'
  BY <1>1, <1>2, <1>4, PageReused DEF StoreInv, StoreTypeOK, CommitWrite, LatestAfter
<1>6. TipSurvivesRestart'
  <2>1. \A h \in latest' : stored'[h] # "absent"
    BY <1>1, <1>3, <1>4 DEF StoreInv, StoreTypeOK, TipSurvivesRestart, LatestAfter
  <2>2. latest' # {}
    BY <1>1, <1>4 DEF StoreInv, TipSurvivesRestart, LatestAfter
  <2>3. TipIsReadable' => tip' = latest'
    BY <1>4, PageReused DEF StoreInv
  <2>4. IndexIsOfABlock'
    BY <1>3 DEF StoreInv, TipSurvivesRestart, IndexIsOfABlock, CommitWrite
  <2>5. QED
    BY <2>1, <2>2, <2>3, <2>4 DEF TipSurvivesRestart
<1>7. TipForeseesCommit'
  BY DEF TipForeseesCommit, CommitWrite
<1>8. QED
  BY <1>5, <1>6, <1>7 DEF StoreInv

\* A restart reads the bucket alone.
LEMMA RestartInv ==
  ASSUME StoreInv, Restart
  PROVE  StoreInv'
<1>1. \A b \in Blocks : HeightOf[b] \in Nat \ {0}
  BY BlockAssumption
<1>2. StoreTypeOK'
  BY <1>1 DEF StoreInv, StoreTypeOK, Hashes, Restart, RestartedTip, RestartedIndex, NoWalk, WalkAt
<1>3. IndexIsOfABlock'
  BY DEF StoreInv, StoreTypeOK, Restart, RestartedIndex, IndexIsOfABlock
<1>4. TipSurvivesRestart'
  BY <1>3 DEF StoreInv, TipSurvivesRestart, Restart, RestartedTip
<1>5. TipForeseesCommit'
  BY DEF TipForeseesCommit, Restart
<1>6. QED
  BY <1>2, <1>4, <1>5 DEF StoreInv

\* A tip from a peer is never taken for the store's.
LEMMA StartCommitInv ==
  ASSUME StoreInv, NEW h \in Blocks, StartCommit(h)
  PROVE  StoreInv'
<1>1. ~TipIsReadable'
  BY DEF StartCommit, TipIsReadable
<1>2. StoreTypeOK'
  BY DEF StoreInv, StoreTypeOK, Hashes, StartCommit
<1>3. TipSurvivesRestart' /\ TipForeseesCommit'
  BY <1>1 DEF StoreInv, TipSurvivesRestart, IndexIsOfABlock, TipForeseesCommit, StartCommit
<1>4. QED
  BY <1>2, <1>3 DEF StoreInv

\* A walk over the chain only reads.
LEMMA WalkInv ==
  ASSUME StoreInv, Iterator \/ WalkNext
  PROVE  StoreInv'
<1>1. UNCHANGED <<stored, latest, tip, tipFrom, page, index, writing>>
  BY DEF Iterator, WalkNext
<1>2. StoreTypeOK'
  <2>1. \A h \in Blocks : Previous[h] \in SUBSET Blocks
    BY BlockAssumption
  <2>2. walk' \in [at : SUBSET Hashes, ofPage : BOOLEAN,
                   state : {"none", "walking", "missing", "panic", "first"}]
    <3>1. CASE Iterator
      BY <3>1 DEF StoreInv, StoreTypeOK, Iterator
    <3>2. CASE WalkNext
      <4>1. PICK h \in walk.at :
              \/ walk' = WalkAt({}, "missing") \/ walk' = WalkAt({}, "panic")
              \/ walk' = WalkAt({h}, "panic") \/ walk' = WalkAt({h}, "first")
              \/ h \in Blocks /\ walk' = WalkAt(Previous[h], "walking")
        BY <3>2 DEF WalkNext
      <4>2. {h} \in SUBSET Hashes
        BY <4>1 DEF StoreInv, StoreTypeOK
      <4>3. h \in Blocks => Previous[h] \in SUBSET Hashes
        BY <2>1 DEF Hashes
      <4>4. ASSUME NEW at \in SUBSET Hashes,
                   NEW state \in {"missing", "panic", "first", "walking"}
            PROVE  WalkAt(at, state) \in
                     [at : SUBSET Hashes, ofPage : BOOLEAN,
                      state : {"none", "walking", "missing", "panic", "first"}]
        BY DEF WalkAt
      <4>5. QED
        BY <4>1, <4>2, <4>3, <4>4
    <3>3. QED
      BY <3>1, <3>2
  <2>3. QED
    BY <1>1, <2>2 DEF StoreInv, StoreTypeOK
<1>3. TipSurvivesRestart' /\ TipForeseesCommit'
  BY <1>1 DEF StoreInv, TipSurvivesRestart, IndexIsOfABlock, TipForeseesCommit, TipIsReadable,
              LatestAfter
<1>4. QED
  BY <1>2, <1>3 DEF StoreInv

\* Every step keeps the invariant.
LEMMA StoreNextInv == StoreInv /\ [StoreNext]_storeVars => StoreInv'
<1>1. SUFFICES ASSUME StoreInv, [StoreNext]_storeVars PROVE StoreInv'
  OBVIOUS
<1>2. CASE UNCHANGED storeVars
  BY <1>1, <1>2 DEF storeVars, StoreInv, StoreTypeOK, TipSurvivesRestart, IndexIsOfABlock,
                    TipForeseesCommit, TipIsReadable, LatestAfter
<1>3. CASE StoreNext
  BY <1>1, <1>3, BeginInv, CommitWriteInv, RestartInv, StartCommitInv, WalkInv DEF StoreNext
<1>4. QED
  BY <1>1, <1>2, <1>3

\* The inductive invariant holds in every reachable state.
THEOREM StoreInvariance == StoreSpec => []StoreInv
BY StoreInitInv, StoreNextInv, PTL DEF StoreSpec

\* Entries, tip and index keep their types (BlockStore!StoreTypeOK).
THEOREM StoreTypeCorrect == StoreSpec => []StoreTypeOK
<1>1. StoreInv => StoreTypeOK
  BY DEF StoreInv
<1>2. QED
  BY <1>1, StoreInvariance, PTL

\* Whatever crashes: a restart finds an entry that is there, the height of a stored
\* block, and the tip the memory had, if that was the store's own or, after an
\* earlier restart, its page not yet rewritten (NewBlockChain).
THEOREM TipSurvives == StoreSpec => []TipSurvivesRestart
<1>1. StoreInv => TipSurvivesRestart
  BY DEF StoreInv
<1>2. QED
  BY <1>1, StoreInvariance, PTL

\* No hash replaces a block, in whatever order they arrive (AddNewBlockHash).
THEOREM BlocksAreKept == StoreSpec => BlocksStay
<1> DEFINE Kept == \A b \in Blocks : /\ stored[b] = "block" => stored'[b] = "block"
                                     /\ stored[b] # "absent" => stored'[b] # "absent"
<1>1. ASSUME StoreTypeOK, [StoreNext]_storeVars PROVE [Kept]_storeVars
  <2>1. SUFFICES ASSUME StoreNext PROVE Kept
    BY <1>1
  <2>2. ASSUME NEW o \in Operations, CommitWrite(o) PROVE Kept
    <3>1. o.hash \in Blocks /\ stored' = [stored EXCEPT ![o.hash] = Written(o)]
      BY <2>2 DEF Operations, CommitWrite
    <3>2. QED
      BY <1>1, <3>1 DEF StoreTypeOK, Written
  <2>3. CASE UNCHANGED stored
    BY <2>3
  <2>4. QED
    BY <2>1, <2>2, <2>3 DEF StoreNext, Begin, Restart, StartCommit, Iterator, WalkNext
<1>2. QED
  BY <1>1, StoreTypeCorrect, PTL DEF StoreSpec, BlocksStay
=============================================================================
