-------------------------- MODULE RapidOverlayProofs --------------------------
(***************************************************************************)
(* A RapidChain network of any number of nodes and committees: how the     *)
(* coordinator divides them, why a lookup is always led on, from which     *)
(* flags all come up, and that the gossip pools a transaction once.        *)
(***************************************************************************)
EXTENDS RapidOverlay, FiniteSetTheorems, SequenceTheorems, WellFoundedInduction, TLAPS

-----------------------------------------------------------------------------
\* What \div and % are.
LEMMA Divided ==
  ASSUME NEW a \in Nat, NEW k \in Nat \ {0}
  PROVE  /\ a \div k \in Nat /\ a % k \in 0..(k - 1)
         /\ a = (k * (a \div k)) + (a % k)
  OBVIOUS

\* The quotient is known by the multiples on both sides.
LEMMA QuotientIs ==
  ASSUME NEW a \in Nat, NEW k \in Nat \ {0}, NEW q \in Nat
  PROVE  a \div k = q <=> k * q <= a /\ a < (k * q) + k
  OBVIOUS

\* Multiples are at least k apart.
LEMMA Multiples ==
  ASSUME NEW k \in Nat, NEW q \in Nat, NEW p \in Nat
  PROVE  /\ q < p => (k * q) + k <= k * p
         /\ q <= p => k * q <= k * p
         /\ k * q \in Nat /\ k * (q + 1) = (k * q) + k /\ k * q = q * k
<1>1. k * q \in Nat /\ k * (q + 1) = (k * q) + k /\ k * q = q * k
  OBVIOUS
<1>2. ASSUME q <= p PROVE k * q <= k * p
  <2>1. PICK d \in Nat : p = q + d
    BY <1>2
  <2>2. k * p = (k * q) + (k * d) /\ k * d \in Nat
    BY <2>1
  <2> QED BY <2>2, <1>1
<1>3. ASSUME q < p PROVE (k * q) + k <= k * p
  <2>1. PICK d \in Nat : p = (q + 1) + d
    <3>1. p - (q + 1) \in Nat /\ p = (q + 1) + (p - (q + 1))
      BY <1>3
    <3> QED BY <3>1
  <2>2. k * p = (k * (q + 1)) + (k * d) /\ k * d \in Nat
    BY <2>1
  <2> QED BY <2>2, <1>1
<1> QED BY <1>1, <1>2, <1>3

\* The multiples of k, and what is left over them.
LEMMA Remainders ==
  ASSUME NEW k \in Nat \ {0}, NEW q \in Nat, NEW s \in 0..(k - 1)
  PROVE  ((k * q) + s) \div k = q /\ ((k * q) + s) % k = s
<1>1. k * q \in Nat /\ (k * q) + s \in Nat
  BY Multiples
<1>2. ((k * q) + s) \div k = q
  BY <1>1, QuotientIs
<1>3. (k * q) + s = (k * (((k * q) + s) \div k)) + (((k * q) + s) % k)
  BY <1>1, Divided
<1>4. ((k * q) + s) % k \in 0..(k - 1)
  BY <1>1, Divided
<1> QED BY <1>1, <1>2, <1>3, <1>4

\* Every multiple is one by its quotient.
LEMMA Multiple ==
  ASSUME NEW a \in Nat, NEW k \in Nat \ {0}
  PROVE  a % k = 0 <=> \E q \in Nat : a = k * q
<1>1. a % k = 0 => a = k * (a \div k) /\ a \div k \in Nat
  BY Divided, Multiples
<1>2. ASSUME NEW q \in Nat, a = k * q PROVE a % k = 0
  <2>1. ((k * q) + 0) % k = 0 /\ k * q \in Nat
    BY Remainders, Multiples
  <2>2. (k * q) + 0 = a
    BY <1>2, <2>1
  <2> QED BY <2>1, <2>2
<1> QED BY <1>1, <1>2

\* There are as many multiples up to i as i holds of k.
LEMMA CountMultiples ==
  ASSUME NEW k \in Nat \ {0}, NEW i \in Nat
  PROVE  /\ IsFiniteSet({j \in 1..i : j % k = 0})
         /\ Cardinality({j \in 1..i : j % k = 0}) = i \div k
<1> DEFINE S == {j \in 1..i : j % k = 0}
           d == i \div k
           f == [q \in 1..d |-> k * q]
<1>1. d \in Nat /\ k * d <= i /\ i < (k * d) + k
  BY QuotientIs, Divided
<1> HIDE DEF d
<1>2. \A q \in 1..d : k * q \in S
  <2> SUFFICES ASSUME NEW q \in 1..d PROVE k * q \in S
    OBVIOUS
  <2>1. k * q <= k * d /\ k * q \in Nat
    BY <1>1, Multiples
  <2>2. k * 0 = 0 /\ k <= k * q
    <3>1. (k * 0) + k <= k * q
      BY Multiples
    <3> QED BY <3>1
  <2>3. (k * q) % k = 0
    <3>1. \E p \in Nat : k * q = k * p
      BY <1>1
    <3> QED BY <2>1, <3>1, Multiple
  <2> QED BY <1>1, <2>1, <2>2, <2>3
<1>3. \A j \in S : \E q \in 1..d : j = k * q
  <2> SUFFICES ASSUME NEW j \in S PROVE \E q \in 1..d : j = k * q
    OBVIOUS
  <2>1. PICK q \in Nat : j = k * q
    BY Multiple
  <2>2. q # 0
    BY <2>1
  <2>3. ~(d < q)
    <3>1. d < q => (k * d) + k <= k * q
      BY <1>1, Multiples
    <3> QED BY <3>1, <1>1, <2>1
  <2> QED BY <1>1, <2>1, <2>2, <2>3
<1>4. \A q, p \in 1..d : k * q = k * p => q = p
  <2> SUFFICES ASSUME NEW q \in 1..d, NEW p \in 1..d, k * q = k * p PROVE q = p
    OBVIOUS
  <2>1. q < p => (k * q) + k <= k * p
    BY Multiples
  <2>2. p < q => (k * p) + k <= k * q
    BY Multiples
  <2>3. k * q \in Nat
    BY Multiples
  <2> QED BY <2>1, <2>2, <2>3
<1>5. f \in Bijection(1..d, S)
  <2> HIDE DEF S
  <2>1. f \in [1..d -> S] /\ \A q, p \in 1..d : f[q] = f[p] => q = p
    BY <1>2, <1>4
  <2>2. \A j \in S : \E q \in 1..d : f[q] = j
    BY <1>3
  <2> QED BY <2>1, <2>2 DEF Bijection, Injection, Surjection, IsInjective
<1>6. ExistsBijection(1..d, S)
  BY <1>5 DEF ExistsBijection
<1>7. IsFiniteSet(1..d) /\ Cardinality(1..d) = d
  BY <1>1, FS_Interval
<1> HIDE DEF S
<1>8. IsFiniteSet(S) /\ Cardinality(S) = d
  BY <1>6, <1>7, FS_Bijection
<1> QED BY <1>8 DEF S, d

-----------------------------------------------------------------------------
\* The nodes that fill whole batches.
Whole(F) == npm(F) * F.m

\* How the coordinator's division comes out.
LEMMA Division ==
  ASSUME NEW F \in Configurations
  PROVE  /\ F.n \in Nat \ {0} /\ F.m \in Nat \ {0}
         /\ npm(F) \in Nat /\ rest(F) \in 0..(F.m - 1) /\ Whole(F) \in Nat
         /\ F.n = Whole(F) + rest(F)
<1>1. F.n \in Nat \ {0} /\ F.m \in Nat \ {0}
  BY OverlayAssumption
<1>2. F.n \div F.m \in Nat /\ F.n % F.m \in 0..(F.m - 1) /\ F.n = (F.m * (F.n \div F.m)) + (F.n % F.m)
  BY <1>1, Divided
<1>3. npm(F) \in Nat /\ rest(F) \in 0..(F.m - 1) /\ F.n = (F.m * npm(F)) + rest(F)
  BY <1>2 DEF npm, rest
<1>4. Whole(F) = F.m * npm(F) /\ Whole(F) \in Nat
  BY <1>1, <1>3, Multiples DEF Whole
<1> QED BY <1>1, <1>3, <1>4

\* A node's committee is its batch, where the rest does not begin one.
LEMMA BatchOf ==
  ASSUME NEW F \in Configurations, npm(F) > 0, NEW i \in NodesOf(F)
  PROVE  CommitteeOf(F, i) = (i \div npm(F)) - (IF Whole(F) <= i THEN 1 ELSE 0)
<1> DEFINE k == npm(F)
           S == {j \in 1..i : j % k = 0}
           T == {j \in 1..i : j % k = 0 /\ j # F.n - rest(F)}
<1>1. k \in Nat \ {0} /\ i \in Nat /\ F.n - rest(F) = Whole(F) /\ Whole(F) \in Nat /\ F.m \in Nat \ {0}
  BY Division DEF NodesOf
<1>2. Whole(F) % k = 0 /\ Whole(F) >= 1
  <2>1. Whole(F) = k * F.m
    BY DEF Whole
  <2>2. (k * 0) + k <= k * F.m
    BY <1>1, Multiples
  <2>3. k * 0 = 0
    BY <1>1
  <2>4. \E q \in Nat : Whole(F) = k * q
    BY <1>1, <2>1
  <2>5. Whole(F) % k = 0
    BY <1>1, <2>4, Multiple
  <2> QED BY <1>1, <2>1, <2>2, <2>3, <2>5
<1>3. CommitteeOf(F, i) = Cardinality(T)
  BY DEF CommitteeOf
<1> HIDE DEF k
<1>4. T = S \ {Whole(F)} /\ (Whole(F) \in S <=> Whole(F) <= i)
  BY <1>1, <1>2
<1>5. IsFiniteSet(S) /\ Cardinality(S) = i \div k /\ i \div k \in Nat
  BY <1>1, CountMultiples, Divided
<1> HIDE DEF S, T
<1>6. Cardinality(S \ {Whole(F)}) = IF Whole(F) \in S THEN Cardinality(S) - 1 ELSE Cardinality(S)
  BY <1>5, FS_RemoveElement
<1> QED BY <1>3, <1>4, <1>5, <1>6 DEF k

\* With a rest no larger than a committee it goes to the last committee.
LEMMA CommitteeIs ==
  ASSUME NEW F \in Configurations, npm(F) > 0, rest(F) <= npm(F), NEW i \in NodesOf(F)
  PROVE  /\ CommitteeOf(F, i) = IF i \div npm(F) < F.m THEN i \div npm(F) ELSE F.m - 1
         /\ CommitteeOf(F, i) \in CommitteesOf(F)
         /\ i \div npm(F) \in Nat
<1> DEFINE k == npm(F)
           q == i \div k
<1>1. k \in Nat \ {0} /\ i \in Nat /\ F.m \in Nat \ {0} /\ i < Whole(F) + rest(F) /\ Whole(F) \in Nat /\ rest(F) \in Nat
  BY Division DEF NodesOf
<1>2. q \in Nat /\ k * q <= i /\ i < (k * q) + k
  BY <1>1, QuotientIs, Divided
<1>3. Whole(F) = k * F.m
  BY DEF Whole
<1>4. CommitteeOf(F, i) = q - (IF Whole(F) <= i THEN 1 ELSE 0)
  BY BatchOf
<1>5. rest(F) <= k
  OBVIOUS
<1> HIDE DEF q, k
<1>6. q < F.m => ~(Whole(F) <= i)
  <2>1. q < F.m => (k * q) + k <= k * F.m
    BY <1>1, <1>2, Multiples
  <2>2. k * q \in Nat
    BY <1>1, <1>2, Multiples
  <2> QED BY <1>1, <1>2, <1>3, <2>1, <2>2
<1>7. ~(q < F.m) => q = F.m /\ Whole(F) <= i
  <2>1. F.m < q => (k * F.m) + k <= k * q
    BY <1>1, <1>2, Multiples
  <2>2. F.m <= q => k * F.m <= k * q
    BY <1>1, <1>2, Multiples
  <2>3. k * q \in Nat
    BY <1>1, <1>2, Multiples
  <2> QED BY <1>1, <1>2, <1>3, <1>5, <2>1, <2>2, <2>3
<1>8. CommitteeOf(F, i) = IF q < F.m THEN q ELSE F.m - 1
  BY <1>1, <1>2, <1>4, <1>6, <1>7
<1>9. CommitteeOf(F, i) \in CommitteesOf(F)
  BY <1>1, <1>2, <1>8 DEF CommitteesOf
<1> QED BY <1>2, <1>8, <1>9 DEF q, k

\* With a larger one it begins a committee that there is not.
LEMMA TooMuchRest ==
  ASSUME NEW F \in Configurations, npm(F) > 0, rest(F) > npm(F)
  PROVE  CommitteeOf(F, F.n - 1) >= F.m
<1> DEFINE k == npm(F)
           i == F.n - 1
           q == i \div k
<1>1. k \in Nat \ {0} /\ i \in Nat /\ F.m \in Nat \ {0} /\ Whole(F) \in Nat /\ rest(F) \in Nat
      /\ i = (Whole(F) + rest(F)) - 1
  BY Division
<1> HIDE DEF i, k
<1>2. q \in Nat /\ k * q <= i /\ i < (k * q) + k
  BY <1>1, QuotientIs, Divided
<1>3. Whole(F) = k * F.m
  BY DEF Whole, k
<1>4. rest(F) > k
  BY DEF k
<1>5. CommitteeOf(F, i) = q - (IF Whole(F) <= i THEN 1 ELSE 0)
  <2>1. i \in NodesOf(F)
    BY <1>1, Division DEF NodesOf
  <2> QED BY <2>1, BatchOf DEF k
<1> HIDE DEF q
<1>6. F.m < q
  <2>1. q <= F.m => k * q <= k * F.m
    BY <1>1, <1>2, Multiples
  <2>2. k * q \in Nat
    BY <1>1, <1>2, Multiples
  <2> QED BY <1>1, <1>2, <1>3, <1>4, <2>1, <2>2
<1>7. CommitteeOf(F, i) >= F.m
  BY <1>1, <1>2, <1>5, <1>6
<1> QED BY <1>7 DEF i

-----------------------------------------------------------------------------
\* The members of a committee are a run of nodes.
LEMMA MembersAre ==
  ASSUME NEW F \in Configurations, npm(F) > 0, rest(F) <= npm(F), NEW c \in CommitteesOf(F)
  PROVE  /\ Members(F, c) = (npm(F) * c)..(IF c = F.m - 1 THEN F.n - 1 ELSE ((npm(F) * c) + npm(F)) - 1)
         /\ IsFiniteSet(Members(F, c))
         /\ Cardinality(Members(F, c)) = IF c = F.m - 1 THEN npm(F) + rest(F) ELSE npm(F)
         /\ npm(F) * c \in Nat
         /\ c # F.m - 1 => (npm(F) * c) + npm(F) <= npm(F) * (F.m - 1)
         /\ (npm(F) * (F.m - 1)) + npm(F) = Whole(F)
<1> DEFINE k == npm(F)
           lo == k * c
           last == k * (F.m - 1)
           hi == IF c = F.m - 1 THEN F.n - 1 ELSE (lo + k) - 1
<1>1. k \in Nat \ {0} /\ F.m \in Nat \ {0} /\ F.n = Whole(F) + rest(F) /\ Whole(F) \in Nat /\ rest(F) \in Nat
      /\ c \in Nat /\ c <= F.m - 1 /\ F.m - 1 \in Nat
  BY Division DEF CommitteesOf
<1>2. lo \in Nat /\ last \in Nat
  BY <1>1, Multiples
<1>3. last + k = Whole(F)
  <2>1. k * ((F.m - 1) + 1) = last + k /\ (F.m - 1) + 1 = F.m
    BY <1>1, Multiples
  <2> QED BY <2>1 DEF Whole
<1>4. c # F.m - 1 => lo + k <= last
  <2>1. c # F.m - 1 => c < F.m - 1
    BY <1>1
  <2> HIDE DEF k
  <2> QED BY <1>1, <2>1, Multiples
<1>5. ASSUME NEW i \in NodesOf(F)
      PROVE  CommitteeOf(F, i) = c <=> i \in lo..hi
  <2> DEFINE q == i \div k
  <2>1. CommitteeOf(F, i) = (IF q < F.m THEN q ELSE F.m - 1) /\ q \in Nat
    BY <1>5, CommitteeIs
  <2>2. i \in Nat /\ i < F.n
    BY <1>1, <1>5 DEF NodesOf
  <2> HIDE DEF k
  <2>3. q = c <=> lo <= i /\ i < lo + k
    BY <1>1, <2>2, QuotientIs
  <2>4. k * q <= i /\ i < (k * q) + k /\ k * q \in Nat
    BY <1>1, <2>1, <2>2, QuotientIs, Multiples
  <2> HIDE DEF q
  <2>5. F.m - 1 <= q <=> last <= i
    <3>1. F.m - 1 <= q => last <= k * q
      BY <1>1, <2>1, Multiples
    <3>2. q < F.m - 1 => (k * q) + k <= last
      BY <1>1, <2>1, Multiples
    <3> QED BY <1>1, <1>2, <2>1, <2>2, <2>4, <3>1, <3>2
  <2> HIDE DEF lo, last
  <2>6. CASE c = F.m - 1
    <3>1. lo = last
      BY <2>6 DEF lo, last
    <3> QED BY <1>1, <1>2, <2>1, <2>2, <2>5, <2>6, <3>1
  <2>7. CASE c # F.m - 1
    BY <1>1, <1>2, <2>1, <2>2, <2>3, <2>7
  <2> QED BY <2>6, <2>7
<1>6. hi + 1 = lo + (IF c = F.m - 1 THEN k + rest(F) ELSE k) /\ hi < F.n /\ hi \in Int /\ lo <= hi
  <2> HIDE DEF k
  <2>1. CASE c = F.m - 1
    BY <1>1, <1>2, <1>3, <2>1
  <2>2. CASE c # F.m - 1
    <3> HIDE DEF lo, last
    <3> QED BY <1>1, <1>2, <1>3, <1>4, <2>2
  <2> QED BY <2>1, <2>2
<1>7. Members(F, c) = lo..hi
  <2>1. lo..hi \subseteq NodesOf(F)
    BY <1>1, <1>2, <1>6 DEF NodesOf
  <2> HIDE DEF lo, hi
  <2> QED BY <1>5, <2>1 DEF Members
<1>8. IsFiniteSet(lo..hi) /\ Cardinality(lo..hi) = (hi - lo) + 1
  <2>1. lo \in Int /\ hi \in Int /\ lo <= hi
    BY <1>2, <1>6
  <2> HIDE DEF lo, hi
  <2> QED BY <2>1, FS_Interval
<1> HIDE DEF lo, k
<1>9. (hi - lo) + 1 = IF c = F.m - 1 THEN k + rest(F) ELSE k
  BY <1>1, <1>2, <1>6
<1>10. /\ Members(F, c) = lo..hi /\ IsFiniteSet(lo..hi)
       /\ Cardinality(lo..hi) = IF c = F.m - 1 THEN k + rest(F) ELSE k
  BY <1>7, <1>8, <1>9
<1> QED BY <1>2, <1>3, <1>4, <1>10 DEF lo, k

\* How many of a batch of committee c are adversaries.
Part(F, c) ==
  IF c % 2 = 0 THEN (npm(F) \div 2) - (IF npm(F) % 2 = 0 THEN 1 ELSE 0)
  ELSE (npm(F) \div 6) - (IF npm(F) % 6 = 0 THEN 1 ELSE 0)

\* Less than half of every other batch, less than a sixth of the others.
LEMMA PartFacts ==
  ASSUME NEW F \in Configurations, npm(F) > 0, NEW c \in Nat
  PROVE  /\ Part(F, c) \in Nat /\ Part(F, c) < npm(F)
         /\ c % 2 = 0 => 2 * Part(F, c) <= npm(F) - 1
         /\ c % 2 # 0 => 6 * Part(F, c) <= npm(F) - 1
<1>1. npm(F) \in Nat \ {0}
  BY Division
<1> DEFINE k == npm(F)
<1> HIDE DEF k
<1>2. k \in Nat \ {0}
  BY <1>1 DEF k
<1>3. Part(F, c) = IF c % 2 = 0 THEN (k \div 2) - (IF k % 2 = 0 THEN 1 ELSE 0)
                   ELSE (k \div 6) - (IF k % 6 = 0 THEN 1 ELSE 0)
  BY DEF Part, k
<1>4. CASE c % 2 = 0
  BY <1>2, <1>3, <1>4 DEF k
<1>5. CASE c % 2 # 0
  BY <1>2, <1>3, <1>5 DEF k
<1> QED BY <1>4, <1>5

\* Which nodes are adversaries; only the first of the rest is counted otherwise.
LEMMA AdversaryIs ==
  ASSUME NEW F \in Configurations, npm(F) > 0, NEW i \in NodesOf(F), i # Whole(F)
  PROVE  IsAdversary(F, i) <=> i % npm(F) < Part(F, CommitteeOf(F, i))
<1>1. F.n - rest(F) = Whole(F)
  BY Division
<1>2. npm(F) # 0
  BY Division
<1> QED BY <1>1, <1>2 DEF IsAdversary, Part

\* A run of n numbers has as many.
LEMMA Run ==
  ASSUME NEW a \in Nat, NEW n \in Nat
  PROVE  IsFiniteSet(a..((a + n) - 1)) /\ Cardinality(a..((a + n) - 1)) = n
<1> DEFINE b == (a + n) - 1
<1>1. a \in Int /\ b \in Int /\ (IF a > b THEN 0 ELSE (b - a) + 1) = n
  OBVIOUS
<1> HIDE DEF b
<1>2. IsFiniteSet(a..b) /\ Cardinality(a..b) = IF a > b THEN 0 ELSE (b - a) + 1
  BY <1>1, FS_Interval
<1> QED BY <1>1, <1>2 DEF b

\* The first nodes of its batch are a committee's adversaries, and as many of the
\* rest, one more at most.
LEMMA AdversariesAre ==
  ASSUME NEW F \in Configurations, npm(F) > 0, rest(F) <= npm(F), NEW c \in CommitteesOf(F)
  PROVE  /\ IsFiniteSet(Adversaries(F, c))
         /\ Cardinality(Adversaries(F, c)) <= (2 * Part(F, c)) + 1
         /\ (c # F.m - 1 \/ rest(F) = 0) => Cardinality(Adversaries(F, c)) <= Part(F, c)
<1> DEFINE k == npm(F)
           f == Part(F, c)
           lo == k * c
           A == lo..((lo + f) - 1)
           B == Whole(F)..(Whole(F) + f)
<1>1. k \in Nat \ {0} /\ F.m \in Nat \ {0} /\ F.n = Whole(F) + rest(F) /\ Whole(F) \in Nat /\ rest(F) \in Nat
      /\ c \in Nat /\ c <= F.m - 1
  BY Division DEF CommitteesOf
<1>2. /\ Members(F, c) = lo..(IF c = F.m - 1 THEN F.n - 1 ELSE (lo + k) - 1)
      /\ IsFiniteSet(Members(F, c)) /\ lo \in Nat
      /\ (k * (F.m - 1)) + k = Whole(F)
      /\ c # F.m - 1 => lo + k <= k * (F.m - 1)
      /\ k * (F.m - 1) \in Nat
  <2>1. k * (F.m - 1) \in Nat
    BY <1>1, Multiples
  <2> QED BY <2>1, MembersAre
<1>3. f \in Nat /\ f < k
  BY <1>1, PartFacts
<1>4. ASSUME NEW i \in Members(F, c), i < Whole(F)
      PROVE  i \in Nat /\ lo <= i /\ i < lo + k /\ i % k = i - lo
  <2>1. i \in Nat /\ lo <= i /\ i < lo + k
    <3> HIDE DEF k
    <3>1. CASE c = F.m - 1
      <4>1. lo = k * (F.m - 1)
        BY <3>1
      <4> HIDE DEF lo
      <4> QED BY <1>1, <1>2, <1>4, <3>1, <4>1
    <3>2. CASE c # F.m - 1
      <4> HIDE DEF lo
      <4> QED BY <1>1, <1>2, <3>2
    <3> QED BY <3>1, <3>2
  <2>2. i - lo \in 0..(k - 1) /\ i = lo + (i - lo)
    <3> HIDE DEF lo
    <3> QED BY <1>1, <1>2, <2>1
  <2> HIDE DEF k
  <2>3. ((k * c) + (i - lo)) % k = i - lo
    <3> DEFINE s == i - lo
    <3>1. s \in 0..(k - 1)
      BY <2>2
    <3> HIDE DEF s
    <3>2. ((k * c) + s) % k = s
      BY <1>1, <3>1, Remainders
    <3> QED BY <3>2 DEF s
  <2> QED BY <2>1, <2>2, <2>3
<1>5. ASSUME NEW i \in Members(F, c), Whole(F) < i
      PROVE  i \in Nat /\ i % k = i - Whole(F)
  <2>1. i \in Nat /\ i < F.n
    <3>1. i \in NodesOf(F)
      BY DEF Members
    <3> QED BY <3>1, Division DEF NodesOf
  <2> DEFINE s == i - Whole(F)
  <2>2. s \in 0..(k - 1) /\ i = Whole(F) + s
    BY <1>1, <1>5, <2>1
  <2>3. Whole(F) = k * F.m
    BY DEF Whole
  <2> HIDE DEF s, k
  <2>4. ((k * F.m) + s) % k = s
    BY <1>1, <2>2, Remainders
  <2> QED BY <2>1, <2>2, <2>3, <2>4 DEF s
<1>6. ASSUME NEW i \in Adversaries(F, c)
      PROVE  IF i < Whole(F) THEN i \in A ELSE i \in B
  <2>1. i \in Members(F, c) /\ i \in NodesOf(F) /\ CommitteeOf(F, i) = c /\ IsAdversary(F, i)
    BY <1>6 DEF Adversaries, Members
  <2>2. i # Whole(F) => i % k < f
    BY <2>1, AdversaryIs
  <2>3. i \in Nat
    BY <1>1, <2>1 DEF NodesOf
  <2>4. CASE i < Whole(F)
    <3> HIDE DEF lo, k, f
    <3> QED BY <1>1, <1>2, <1>3, <1>4, <2>1, <2>2, <2>3, <2>4
  <2>5. CASE Whole(F) < i
    <3> HIDE DEF lo, k, f
    <3>1. i % k = i - Whole(F)
      BY <1>5, <2>1, <2>5
    <3>2. i - Whole(F) < f
      BY <1>1, <2>2, <2>3, <2>5, <3>1
    <3> QED BY <1>1, <1>3, <2>3, <2>5, <3>2
  <2>6. CASE Whole(F) = i
    <3> HIDE DEF lo, k, f
    <3> QED BY <1>1, <1>3, <2>3, <2>6
  <2> QED BY <1>1, <2>3, <2>4, <2>5, <2>6
<1>7. IsFiniteSet(A) /\ Cardinality(A) = f /\ IsFiniteSet(B) /\ Cardinality(B) = f + 1
  <2> HIDE DEF lo, f, k
  <2>1. IsFiniteSet(A) /\ Cardinality(A) = f
    BY <1>2, <1>3, Run
  <2>2. f + 1 \in Nat /\ (Whole(F) + (f + 1)) - 1 = Whole(F) + f
    BY <1>1, <1>3
  <2>3. IsFiniteSet(B) /\ Cardinality(B) = f + 1
    BY <1>1, <2>2, Run
  <2> QED BY <2>1, <2>3
<1>8. IsFiniteSet(Adversaries(F, c))
  <2>1. Adversaries(F, c) \subseteq Members(F, c)
    BY DEF Adversaries
  <2> QED BY <1>2, <2>1, FS_Subset
<1> HIDE DEF A, B
<1>9. Cardinality(Adversaries(F, c)) <= (2 * f) + 1
  <2>1. Adversaries(F, c) \subseteq A \cup B
    BY <1>6
  <2>2. /\ IsFiniteSet(A \cup B)
        /\ Cardinality(A \cup B) = Cardinality(A) + (Cardinality(B) - Cardinality(A \cap B))
    BY <1>7, FS_Union
  <2>3. IsFiniteSet(A \cap B) /\ Cardinality(A \cap B) \in Nat
    BY <1>7, FS_Intersection, FS_CardinalityType
  <2>4. Cardinality(Adversaries(F, c)) <= Cardinality(A \cup B)
    BY <2>1, <2>2, FS_Subset
  <2>5. Cardinality(Adversaries(F, c)) \in Nat
    BY <1>8, FS_CardinalityType
  <2> HIDE DEF f
  <2> QED BY <1>3, <1>7, <2>2, <2>3, <2>4, <2>5
<1>10. ASSUME c # F.m - 1 \/ rest(F) = 0 PROVE Cardinality(Adversaries(F, c)) <= f
  <2>1. \A i \in Members(F, c) : i < Whole(F)
    <3> HIDE DEF lo, k
    <3> QED BY <1>1, <1>2, <1>10
  <2>2. Adversaries(F, c) \subseteq A
    BY <1>6, <2>1 DEF Adversaries
  <2> QED BY <1>7, <2>2, FS_Subset
<1> QED BY <1>8, <1>9, <1>10

-----------------------------------------------------------------------------
\* The node the coordinator begins with is of committee 0.
LEMMA FirstNode ==
  ASSUME NEW F \in Configurations
  PROVE  0 \in NodesOf(F) /\ CommitteeOf(F, 0) = 0 /\ 0 \in CommitteesOf(F)
<1>1. {j \in 1..0 : j % npm(F) = 0 /\ j # F.n - rest(F)} = {}
  OBVIOUS
<1>2. CommitteeOf(F, 0) = 0
  BY <1>1, FS_EmptySet DEF CommitteeOf
<1> QED BY <1>2, Division DEF NodesOf, CommitteesOf

\* With committees of four and more, a rest no larger and, if there is one, an even
\* number of committees, all its checks pass (coordinator.go:377-394).
LEMMA CoordinatorPasses ==
  ASSUME NEW F \in Configurations, CommitteeF \in 1..2,
         npm(F) >= 4, rest(F) <= npm(F), rest(F) = 0 \/ F.m % 2 = 0
  PROVE  CoordinatorDeath(F) = "none"
<1>1. npm(F) \in Nat /\ npm(F) > 0 /\ F.m \in Nat \ {0} /\ F.n \in Nat \ {0} /\ rest(F) \in Nat
  BY Division
<1>2. ~(CommitteeOf(F, F.n - 1) >= F.m)
  <2>1. F.n - 1 \in NodesOf(F)
    BY <1>1 DEF NodesOf
  <2>2. CommitteeOf(F, F.n - 1) \in CommitteesOf(F)
    BY <1>1, <2>1, CommitteeIs
  <2> QED BY <1>1, <2>2 DEF CommitteesOf
<1>3. \A c \in CommitteesOf(F) : Cardinality(Members(F, c)) \in {npm(F), npm(F) + rest(F)}
  BY <1>1, MembersAre
<1>4. ASSUME NEW c \in CommitteesOf(F)
      PROVE  ~(Cardinality(Adversaries(F, c)) >= Ceiling(Cardinality(Members(F, c)), CommitteeF))
  <2> DEFINE size == Cardinality(Members(F, c))
             bad == Cardinality(Adversaries(F, c))
             f == Part(F, c)
             k == npm(F)
  <2>1. c \in Nat /\ c <= F.m - 1
    BY <1>1 DEF CommitteesOf
  <2>2. size = IF c = F.m - 1 THEN k + rest(F) ELSE k
    BY <1>1, MembersAre
  <2>3. bad \in Nat /\ bad <= (2 * f) + 1 /\ (c # F.m - 1 \/ rest(F) = 0 => bad <= f)
    BY <1>1, AdversariesAre, FS_CardinalityType
  <2>4. f \in Nat /\ (c % 2 = 0 => 2 * f <= k - 1) /\ (c % 2 # 0 => 6 * f <= k - 1)
    BY <1>1, <2>1, PartFacts
  <2>5. c = F.m - 1 /\ F.m % 2 = 0 => c % 2 # 0
    BY <1>1, <2>1
  <2>6. k \in Nat /\ k >= 4 /\ rest(F) \in Nat
    BY <1>1
  <2> HIDE DEF size, bad, f, k
  <2>7. 2 * bad < size /\ size \in Nat
    <3>1. CASE c = F.m - 1 /\ rest(F) # 0
      BY <2>2, <2>3, <2>4, <2>5, <2>6, <3>1
    <3>2. CASE ~(c = F.m - 1 /\ rest(F) # 0)
      <4>1. bad <= f /\ 2 * f <= k - 1 /\ size >= k /\ size \in Nat
        BY <2>2, <2>3, <2>4, <2>6, <3>2
      <4> QED BY <2>3, <2>4, <2>6, <4>1
    <3> QED BY <3>1, <3>2
  <2>8. size <= 2 * Ceiling(size, CommitteeF) /\ Ceiling(size, CommitteeF) \in Nat
    <3>1. CASE CommitteeF = 1
      BY <2>7, <3>1 DEF Ceiling
    <3>2. CASE CommitteeF = 2
      BY <2>7, <3>2 DEF Ceiling
    <3> QED BY <3>1, <3>2
  <2>9. ~(bad >= Ceiling(size, CommitteeF))
    BY <2>3, <2>7, <2>8
  <2> QED BY <2>9 DEF bad, size
<1>5. AllAdversaries(F) # {}
  <2>1. Part(F, 0) = (npm(F) \div 2) - (IF npm(F) % 2 = 0 THEN 1 ELSE 0)
    BY DEF Part
  <2>2. 0 < Part(F, 0)
    BY <1>1, <2>1
  <2>3. 0 # Whole(F)
    <3>1. (npm(F) * 0) + npm(F) <= npm(F) * F.m /\ npm(F) * 0 = 0
      BY <1>1, Multiples
    <3> QED BY <1>1, <3>1 DEF Whole
  <2>4. 0 % npm(F) = 0
    BY <1>1
  <2>5. IsAdversary(F, 0)
    BY <1>1, <2>2, <2>3, <2>4, AdversaryIs, FirstNode
  <2> QED BY <2>5, FirstNode DEF AllAdversaries
<1> QED BY <1>1, <1>2, <1>3, <1>4, <1>5 DEF CoordinatorDeath

\* Where they pass there is a node for each committee, and the rest is no larger.
LEMMA CoordinatorPassed ==
  ASSUME NEW F \in Configurations, CoordinatorDeath(F) = "none"
  PROVE  npm(F) > 0 /\ rest(F) <= npm(F)
<1>1. npm(F) \in Nat /\ F.m \in Nat \ {0} /\ F.n \in Nat \ {0} /\ rest(F) \in Nat
  BY Division
<1>2. ASSUME npm(F) = 0 PROVE FALSE
  <2>1. F.n = 1
    BY <1>1, <1>2 DEF CoordinatorDeath
  <2>2. NodesOf(F) = {0}
    BY <2>1 DEF NodesOf
  <2>3. Members(F, 0) = {0}
    BY <2>2, FirstNode DEF Members
  <2>4. IsAdversary(F, 0)
    BY <1>2 DEF IsAdversary
  <2>5. Adversaries(F, 0) = {0}
    BY <2>3, <2>4 DEF Adversaries
  <2>6. Cardinality({0}) = 1
    BY FS_Singleton
  <2>7. Ceiling(1, CommitteeF) = 1
    <3>1. (1 + CommitteeF) - 1 = CommitteeF /\ CommitteeF \in Nat \ {0}
      BY SetupAssumption
    <3>2. CommitteeF \div CommitteeF = 1
      BY <3>1
    <3> QED BY <3>1, <3>2 DEF Ceiling
  <2>8. Cardinality(Adversaries(F, 0)) >= Ceiling(Cardinality(Members(F, 0)), CommitteeF)
    BY <2>3, <2>5, <2>6, <2>7
  <2> QED BY <2>8, FirstNode DEF CoordinatorDeath
<1>3. ASSUME npm(F) > 0, rest(F) > npm(F) PROVE FALSE
  <2>1. CommitteeOf(F, F.n - 1) >= F.m
    BY <1>3, TooMuchRest
  <2> QED BY <1>1, <1>3, <2>1 DEF CoordinatorDeath
<1> QED BY <1>1, <1>2, <1>3

\* With a tolerance of a third or less and five nodes or more in a committee, the checks
\* never pass: the placing of the adversaries, close to half of the first committee, does
\* not depend on the tolerance (coordinator.go:340).
LEMMA CoordinatorFails ==
  ASSUME NEW F \in Configurations, CommitteeF >= 3, npm(F) >= 5
  PROVE  CoordinatorDeath(F) # "none"
<1> SUFFICES ASSUME CoordinatorDeath(F) = "none" PROVE FALSE
  OBVIOUS
<1> DEFINE k == npm(F)
           f == Part(F, 0)
           size == Cardinality(Members(F, 0))
           bad == Cardinality(Adversaries(F, 0))
<1>1. k \in Nat /\ k > 0 /\ rest(F) <= k /\ F.m \in Nat \ {0} /\ rest(F) \in 0..(F.m - 1)
      /\ Whole(F) \in Nat /\ F.n = Whole(F) + rest(F)
  BY CoordinatorPassed, Division
<1>2. 0 \in CommitteesOf(F) /\ k * 0 = 0
  BY <1>1 DEF CommitteesOf
<1>3. size = k
  <2>1. size = IF 0 = F.m - 1 THEN k + rest(F) ELSE k
    BY <1>1, <1>2, MembersAre
  <2> HIDE DEF size, k
  <2> QED BY <1>1, <2>1
<1>4. Whole(F) >= k
  <2>1. (k * 0) + k <= k * F.m
    BY <1>1, Multiples
  <2> QED BY <1>1, <1>2, <2>1 DEF Whole
<1>5. f = (k \div 2) - (IF k % 2 = 0 THEN 1 ELSE 0)
  BY DEF Part
<1>6. f \in Nat /\ f < k /\ k <= (2 * f) + 2
  <2> HIDE DEF k, f
  <2> QED BY <1>1, <1>5
<1>7. 0..(f - 1) \subseteq Adversaries(F, 0)
  <2> SUFFICES ASSUME NEW i \in 0..(f - 1) PROVE i \in Adversaries(F, 0)
    OBVIOUS
  <2>1. i \in Nat /\ i < f /\ i < k /\ i < Whole(F) /\ i \in NodesOf(F)
    <3> HIDE DEF k, f
    <3> QED BY <1>1, <1>4, <1>6 DEF NodesOf
  <2>2. i \div k = 0 /\ i % k = i
    <3> HIDE DEF k, f
    <3> QED BY <1>1, <2>1
  <2>3. CommitteeOf(F, i) = 0
    BY <1>1, <2>1, <2>2, CommitteeIs
  <2>4. IsAdversary(F, i)
    BY <1>1, <2>1, <2>2, <2>3, AdversaryIs
  <2> QED BY <2>1, <2>3, <2>4 DEF Adversaries, Members
<1>8. bad \in Nat /\ f <= bad
  <2>1. IsFiniteSet(Adversaries(F, 0))
    BY <1>1, <1>2, AdversariesAre
  <2>2. Cardinality(0..((0 + f) - 1)) = f
    BY <1>6, Run
  <2>3. (0 + f) - 1 = f - 1
    BY <1>6
  <2>4. Cardinality(0..(f - 1)) <= Cardinality(Adversaries(F, 0))
    BY <1>7, <2>1, FS_Subset
  <2> QED BY <2>1, <2>2, <2>3, <2>4, FS_CardinalityType
<1>9. bad < Ceiling(size, CommitteeF)
  <2>1. ~(bad >= Ceiling(size, CommitteeF))
    BY <1>1, <1>2 DEF CoordinatorDeath
  <2>2. Ceiling(size, CommitteeF) \in Nat
    <3> HIDE DEF size, k
    <3>1. (size + CommitteeF) - 1 \in Nat /\ CommitteeF \in Nat \ {0}
      BY <1>1, <1>3, SetupAssumption
    <3>2. ((size + CommitteeF) - 1) \div CommitteeF \in Nat
      BY <3>1, Divided
    <3>3. (size + CommitteeF) - 1 = size + CommitteeF - 1
      BY <1>1, <1>3, <3>1
    <3> QED BY <3>2, <3>3 DEF Ceiling
  <2> HIDE DEF bad, size
  <2> QED BY <1>8, <2>1, <2>2
<1> HIDE DEF bad, size, f, k
<1> DEFINE q == Ceiling(size, CommitteeF)
<1>10. q \in Nat /\ CommitteeF * q <= k + CommitteeF - 1
  <2>1. CommitteeF \in Nat \ {0} /\ (k + CommitteeF) - 1 \in Nat
    BY <1>1, SetupAssumption
  <2>2. q = ((k + CommitteeF) - 1) \div CommitteeF
    BY <1>1, <1>3, SetupAssumption DEF Ceiling
  <2> HIDE DEF q
  <2>3. q \in Nat
    BY <2>1, <2>2, Divided
  <2>4. CommitteeF * q <= (k + CommitteeF) - 1
    BY <2>1, <2>2, <2>3, QuotientIs
  <2> QED BY <1>1, <2>1, <2>3, <2>4
<1> HIDE DEF q
<1>11. CommitteeF * (f + 1) <= CommitteeF * q
  BY <1>6, <1>8, <1>9, <1>10, SetupAssumption, Multiples DEF q
<1>12. CommitteeF * (f + 1) = (CommitteeF * f) + CommitteeF /\ 3 * f <= CommitteeF * f
       /\ CommitteeF * f \in Nat /\ CommitteeF * q \in Nat
  <2>1. f * 3 <= f * CommitteeF
    BY <1>6, SetupAssumption, Multiples
  <2> QED BY <1>6, <1>10, <2>1, SetupAssumption, Multiples
<1>13. 3 * f <= k - 1
  BY <1>1, <1>6, <1>10, <1>11, <1>12, SetupAssumption
<1> QED BY <1>1, <1>6, <1>13 DEF k

-----------------------------------------------------------------------------
\* Each nonempty set of naturals has a least element, so that a set with 0 that goes
\* on to each next number has them all.
LEMMA LeastOf ==
  ASSUME NEW S \in SUBSET Nat, S # {}
  PROVE  \E x \in S : \A y \in S : x <= y
<1> DEFINE Less == OpToRel(<, Nat)
<1>1. IsWellFoundedOn(Less, Nat)
  BY NatLessThanWellFounded
<1>2. \A x, y \in Nat : <<x, y>> \in Less <=> x < y
  BY DEF OpToRel
<1> HIDE DEF Less
<1>3. PICK x \in S : \A y \in S : ~ (<<y, x>> \in Less)
  BY <1>1, WFMin
<1>4. \A k, l \in S : k \in Nat /\ l \in Nat
  OBVIOUS
<1>5. \A y \in S : ~ (y < x)
  BY <1>2, <1>3, <1>4, Zenon
<1> QED BY <1>4, <1>5

\* Two sets have no more elements together than one by one.
LEMMA BothAtMost ==
  ASSUME NEW S, NEW T, IsFiniteSet(S), IsFiniteSet(T)
  PROVE  /\ IsFiniteSet(S \cup T) /\ Cardinality(S \cup T) <= Cardinality(S) + Cardinality(T)
         /\ Cardinality(S \cup T) \in Nat /\ Cardinality(S) \in Nat /\ Cardinality(T) \in Nat
<1>1. /\ IsFiniteSet(S \cup T)
      /\ Cardinality(S \cup T) = Cardinality(S) + (Cardinality(T) - Cardinality(S \cap T))
  BY FS_Union
<1>2. IsFiniteSet(S \cap T)
  BY FS_Intersection
<1>3. /\ Cardinality(S \cap T) \in Nat /\ Cardinality(S \cup T) \in Nat
      /\ Cardinality(S) \in Nat /\ Cardinality(T) \in Nat
  BY <1>1, <1>2, FS_CardinalityType
<1> QED BY <1>1, <1>3

\* Where a number is in the pair of batches after 2p others.
LEMMA InPair ==
  ASSUME NEW k \in Nat \ {0}, NEW p \in Nat, NEW i \in Nat,
         2 * (k * p) <= i, i < ((2 * (k * p)) + k) + k
  PROVE  \/ i \div k = 2 * p /\ i % k = i - (2 * (k * p)) /\ i < (2 * (k * p)) + k
         \/ i \div k = (2 * p) + 1 /\ i % k = i - ((2 * (k * p)) + k) /\ (2 * (k * p)) + k <= i
<1> DEFINE lo == 2 * (k * p)
<1>1. k * p \in Nat /\ lo \in Nat
  BY Multiples
<1>2. k * (2 * p) = lo
  <2>1. k * (p + p) = (k * p) + (k * p) /\ p + p = 2 * p
    OBVIOUS
  <2> QED BY <1>1, <2>1
<1>3. 2 * p \in Nat /\ (2 * p) + 1 \in Nat
  OBVIOUS
<1>4. k * ((2 * p) + 1) = lo + k
  BY <1>2, <1>3, Multiples
<1> HIDE DEF lo
<1>5. CASE i < lo + k
  <2> DEFINE s == i - lo
  <2>1. s \in 0..(k - 1) /\ i = (k * (2 * p)) + s
    BY <1>1, <1>2, <1>5 DEF lo
  <2> HIDE DEF s
  <2>2. i \div k = 2 * p /\ i % k = s
    BY <1>3, <2>1, Remainders
  <2> QED BY <1>5, <2>2 DEF s, lo
<1>6. CASE ~(i < lo + k)
  <2> DEFINE s == i - (lo + k)
  <2>1. s \in 0..(k - 1) /\ i = (k * ((2 * p) + 1)) + s /\ lo + k <= i
    BY <1>1, <1>4, <1>6 DEF lo
  <2> HIDE DEF s
  <2>2. i \div k = (2 * p) + 1 /\ i % k = s
    BY <1>3, <2>1, Remainders
  <2> QED BY <2>1, <2>2 DEF s, lo
<1> QED BY <1>5, <1>6

\* In pairs of committees less than a third are adversaries.
LEMMA PairsAreResilient ==
  ASSUME NEW F \in Configurations, npm(F) > 0, rest(F) = 0, NEW h \in Nat \ {0}, F.m = 2 * h
  PROVE  3 * Cardinality(AllAdversaries(F)) < F.n
<1> DEFINE k == npm(F)
           f == Part(F, 0)
           g == Part(F, 1)
           Upto(p) == {i \in AllAdversaries(F) : i < 2 * (k * p)}
           Within(p) == IsFiniteSet(Upto(p)) /\ Cardinality(Upto(p)) <= (f + g) * p
           Bad == {p \in 0..h : ~Within(p)}
<1>1. k \in Nat \ {0} /\ F.m \in Nat \ {0} /\ Whole(F) \in Nat /\ F.n = Whole(F) /\ F.n \in Nat \ {0}
  BY Division
<1>2. /\ f \in Nat /\ g \in Nat /\ f < k /\ g < k
      /\ 2 * f <= k - 1 /\ 6 * g <= k - 1
  <2>1. 0 % 2 = 0 /\ 1 % 2 # 0
    OBVIOUS
  <2> QED BY <1>1, <2>1, PartFacts
<1>3. ASSUME NEW p \in Nat, p < h, NEW i \in AllAdversaries(F), ~(i < 2 * (k * p)), i < 2 * (k * (p + 1))
      PROVE  \/ i \in (2 * (k * p))..(((2 * (k * p)) + f) - 1)
             \/ i \in ((2 * (k * p)) + k)..((((2 * (k * p)) + k) + g) - 1)
  <2>1. i \in NodesOf(F) /\ IsAdversary(F, i) /\ i \in Nat /\ i # Whole(F)
    BY <1>1 DEF AllAdversaries, NodesOf
  <2>2. k * p \in Nat /\ k * (p + 1) = (k * p) + k
    BY <1>1, Multiples
  <2> DEFINE q == i \div k
             c == CommitteeOf(F, i)
             lo == 2 * (k * p)
  <2>3. rest(F) <= k
    BY <1>1
  <2>4. c = IF q < F.m THEN q ELSE F.m - 1
    BY <1>1, <2>1, <2>3, CommitteeIs
  <2>5. i % k < Part(F, c)
    BY <1>1, <2>1, AdversaryIs
  <2>6. lo \in Nat /\ lo <= i /\ i < (lo + k) + k
    <3> HIDE DEF k
    <3> QED BY <1>1, <1>3, <2>1, <2>2
  <2>7. \/ q = 2 * p /\ i % k = i - lo /\ i < lo + k
        \/ q = (2 * p) + 1 /\ i % k = i - (lo + k) /\ lo + k <= i
    <3> HIDE DEF k
    <3> QED BY <1>1, <2>1, <2>6, InPair
  <2>8. CASE q = 2 * p /\ i % k = i - lo /\ i < lo + k
    <3> HIDE DEF q
    <3>1. c = 2 * p /\ (2 * p) % 2 = 0 /\ 0 % 2 = 0
      BY <1>3, <2>4, <2>8
    <3>2. Part(F, c) = f
      BY <3>1 DEF Part
    <3> HIDE DEF f, k, lo, c
    <3>3. i - lo < f
      BY <2>5, <2>8, <3>2
    <3>4. i \in lo..((lo + f) - 1)
      BY <1>2, <2>1, <2>6, <3>3
    <3> QED BY <3>4 DEF lo
  <2>9. CASE q = (2 * p) + 1 /\ i % k = i - (lo + k) /\ lo + k <= i
    <3> HIDE DEF q
    <3>1. c = (2 * p) + 1 /\ ((2 * p) + 1) % 2 # 0 /\ 1 % 2 # 0
      BY <1>3, <2>4, <2>9
    <3>2. Part(F, c) = g
      BY <3>1 DEF Part
    <3> HIDE DEF g, k, lo, c
    <3>3. i - (lo + k) < g
      BY <2>5, <2>9, <3>2
    <3>4. i \in (lo + k)..(((lo + k) + g) - 1)
      BY <1>1, <1>2, <2>1, <2>6, <2>9, <3>3
    <3> QED BY <3>4 DEF lo
  <2> QED BY <2>7, <2>8, <2>9
<1>4. ASSUME NEW p \in Nat, p < h, Within(p) PROVE Within(p + 1)
  <2> DEFINE lo == 2 * (k * p)
             A == lo..((lo + f) - 1)
             B == (lo + k)..(((lo + k) + g) - 1)
  <2>1. lo \in Nat /\ lo + k \in Nat
    BY <1>1, Multiples
  <2>2. IsFiniteSet(A) /\ Cardinality(A) = f /\ IsFiniteSet(B) /\ Cardinality(B) = g
    <3> HIDE DEF lo, f, g, k
    <3> QED BY <1>2, <2>1, Run
  <2>3. Upto(p + 1) \subseteq (Upto(p) \cup A) \cup B
    BY <1>3, <1>4
  <2> HIDE DEF A, B, Upto, f, g
  <2>4. IsFiniteSet(Upto(p) \cup A) /\ Cardinality(Upto(p) \cup A) <= Cardinality(Upto(p)) + f
        /\ Cardinality(Upto(p) \cup A) \in Nat /\ Cardinality(Upto(p)) \in Nat
    BY <1>4, <1>2, <2>2, BothAtMost
  <2>5. /\ IsFiniteSet((Upto(p) \cup A) \cup B)
        /\ Cardinality((Upto(p) \cup A) \cup B) <= Cardinality(Upto(p) \cup A) + g
        /\ Cardinality((Upto(p) \cup A) \cup B) \in Nat
    BY <1>2, <2>2, <2>4, BothAtMost
  <2>6. /\ IsFiniteSet(Upto(p + 1)) /\ Cardinality(Upto(p + 1)) \in Nat
        /\ Cardinality(Upto(p + 1)) <= Cardinality((Upto(p) \cup A) \cup B)
    BY <2>3, <2>5, FS_Subset, FS_CardinalityType
  <2>7. f + g \in Nat /\ (f + g) * (p + 1) = ((f + g) * p) + (f + g) /\ (f + g) * p \in Nat
    BY <1>2, Multiples
  <2> QED BY <1>2, <1>4, <2>4, <2>5, <2>6, <2>7
<1>5. Within(0)
  <2>1. k * 0 = 0
    BY <1>1
  <2>2. Upto(0) = {}
    BY <2>1 DEF AllAdversaries, NodesOf
  <2>3. (f + g) * 0 = 0
    BY <1>2
  <2> HIDE DEF Upto
  <2> QED BY <2>2, <2>3, FS_EmptySet
<1>6. Within(h)
  <2> SUFFICES ASSUME ~Within(h) PROVE FALSE
    OBVIOUS
  <2> HIDE DEF Within
  <2>1. h \in Bad /\ Bad \in SUBSET Nat
    OBVIOUS
  <2> HIDE DEF Bad
  <2>2. PICK p \in Bad : \A q \in Bad : p <= q
    BY <2>1, LeastOf
  <2>3. p \in 0..h /\ ~Within(p)
    BY <2>2 DEF Bad
  <2>4. p # 0
    BY <1>5, <2>3
  <2>5. p - 1 \in Nat /\ p - 1 < h /\ p - 1 \in 0..h /\ (p - 1) + 1 = p /\ ~(p <= p - 1)
    BY <2>3, <2>4
  <2>6. Within(p - 1)
    BY <2>2, <2>5 DEF Bad
  <2> QED BY <1>4, <2>3, <2>5, <2>6
<1>7. Whole(F) = 2 * (k * h)
  <2>1. k * (2 * h) = 2 * (k * h)
    <3>1. k * (h + h) = (k * h) + (k * h) /\ h + h = 2 * h /\ k * h \in Nat
      BY <1>1
    <3> QED BY <3>1
  <2> QED BY <2>1 DEF Whole
<1>8. Upto(h) = AllAdversaries(F)
  <2>1. \A i \in AllAdversaries(F) : i < 2 * (k * h)
    <3> HIDE DEF k
    <3> QED BY <1>1, <1>7 DEF AllAdversaries, NodesOf
  <2> QED BY <2>1
<1>9. 3 * ((f + g) * h) < 2 * (k * h)
  <2> HIDE DEF f, g, k
  <2>1. 3 * (f + g) <= 2 * (k - 1)
    BY <1>1, <1>2
  <2> DEFINE d == (2 * (k - 1)) - (3 * (f + g))
  <2>2. d \in Nat /\ 2 * k = ((3 * (f + g)) + d) + 2
    BY <1>1, <1>2, <2>1
  <2> HIDE DEF d
  <2> DEFINE s == f + g
  <2>3. s \in Nat /\ 2 * k = ((3 * s) + d) + 2
    BY <1>2, <2>2
  <2> HIDE DEF s
  <2>4. (2 * k) * h = ((3 * (s * h)) + (d * h)) + (2 * h) /\ (2 * k) * h = 2 * (k * h)
    <3>1. (((3 * s) + d) + 2) * h = ((3 * (s * h)) + (d * h)) + (2 * h)
      BY <2>2, <2>3
    <3>2. (2 * k) * h = 2 * (k * h)
      BY <1>1
    <3> QED BY <2>3, <3>1, <3>2
  <2>5. d * h \in Nat /\ s * h \in Nat
    BY <2>2, <2>3
  <2>6. 3 * (s * h) < 2 * (k * h)
    BY <2>4, <2>5
  <2> QED BY <2>6 DEF s
<1> HIDE DEF Upto
<1>10. Cardinality(AllAdversaries(F)) \in Nat /\ Cardinality(AllAdversaries(F)) <= (f + g) * h
  BY <1>6, <1>8, FS_CardinalityType
<1>11. (f + g) * h \in Nat /\ k * h \in Nat
  BY <1>1, <1>2
<1> HIDE DEF f, g, k
<1> QED BY <1>1, <1>7, <1>9, <1>10, <1>11

-----------------------------------------------------------------------------
\* A table of powers up to the n-th.
Powers(n, w) == w = [e \in 0..n |-> IF e = 0 THEN 1 ELSE 2 * w[e - 1]]

\* What a table says of one of its powers.
LEMMA PowerIs ==
  ASSUME NEW n \in Nat, NEW w, Powers(n, w), NEW e \in 0..n
  PROVE  w[e] = IF e = 0 THEN 1 ELSE 2 * w[e - 1]
<1> DEFINE g == [x \in 0..n |-> IF x = 0 THEN 1 ELSE 2 * w[x - 1]]
<1>1. g[e] = IF e = 0 THEN 1 ELSE 2 * w[e - 1]
  OBVIOUS
<1>2. w = g
  BY DEF Powers
<1> HIDE DEF g
<1> QED BY <1>1, <1>2

\* There is a table up to every power.
LEMMA PowersExist == \A n \in Nat : \E w : Powers(n, w)
<1> DEFINE Bad == {n \in Nat : ~ \E w : Powers(n, w)}
<1>1. SUFFICES ASSUME Bad # {} PROVE FALSE
  OBVIOUS
<1>2. PICK n \in Bad : \A i \in Bad : n <= i
  <2>1. Bad \in SUBSET Nat
    OBVIOUS
  <2> HIDE DEF Bad
  <2> QED BY <1>1, <2>1, LeastOf
<1>3. n \in Nat /\ ~ \E w : Powers(n, w)
  OBVIOUS
<1>4. n # 0
  <2>1. Powers(0, [e \in 0..0 |-> 1])
    BY DEF Powers
  <2> QED BY <1>3, <2>1
<1>5. PICK w : Powers(n - 1, w)
  BY <1>2, <1>3, <1>4
<1> DEFINE v == [e \in 0..n |-> IF e = 0 THEN 1 ELSE 2 * w[e - 1]]
<1>6. \A e \in 0..(n - 1) : v[e] = w[e]
  <2>1. \A e \in 0..(n - 1) : w[e] = IF e = 0 THEN 1 ELSE 2 * w[e - 1]
    BY <1>3, <1>4, <1>5, PowerIs
  <2> QED BY <1>3, <2>1
<1>7. Powers(n, v)
  <2>1. \A e \in 0..n : e # 0 => e - 1 \in 0..(n - 1) /\ v[e - 1] = w[e - 1]
    <3> HIDE DEF v
    <3> QED BY <1>3, <1>6
  <2>2. v = [e \in 0..n |-> IF e = 0 THEN 1 ELSE 2 * v[e - 1]]
    BY <2>1
  <2> HIDE DEF v
  <2> QED BY <2>2 DEF Powers
<1> QED BY <1>3, <1>7

\* Tables agree as far as they go.
LEMMA PowersAgree ==
  ASSUME NEW n \in Nat, NEW m \in Nat, NEW w, NEW v, Powers(n, w), Powers(m, v)
  PROVE  \A e \in Nat : e <= n /\ e <= m => w[e] = v[e]
<1> DEFINE Bad == {e \in Nat : e <= n /\ e <= m /\ w[e] # v[e]}
<1>1. SUFFICES ASSUME Bad # {} PROVE FALSE
  OBVIOUS
<1>2. PICK e \in Bad : \A i \in Bad : e <= i
  <2>1. Bad \in SUBSET Nat
    OBVIOUS
  <2> HIDE DEF Bad
  <2> QED BY <1>1, <2>1, LeastOf
<1>3. w[e] = IF e = 0 THEN 1 ELSE 2 * w[e - 1]
  BY PowerIs
<1>4. v[e] = IF e = 0 THEN 1 ELSE 2 * v[e - 1]
  BY PowerIs
<1>5. e # 0
  BY <1>3, <1>4
<1>6. e - 1 \in Nat /\ e - 1 <= n /\ e - 1 <= m /\ ~(e <= e - 1)
  BY <1>5
<1>7. w[e - 1] = v[e - 1]
  BY <1>2, <1>6
<1> QED BY <1>3, <1>4, <1>5, <1>7

\* The powers of two: each is twice the one before it.
LEMMA PowerFacts ==
  /\ Power[0] = 1
  /\ \A e \in Nat : Power[e + 1] = 2 * Power[e]
<1> DEFINE f == [n \in Nat |-> (CHOOSE w : Powers(n, w))[n]]
<1>1. \A n \in Nat : Powers(n, CHOOSE w : Powers(n, w))
  BY PowersExist
<1>2. ASSUME NEW n \in Nat PROVE f[n] = IF n = 0 THEN 1 ELSE 2 * f[n - 1]
  <2> DEFINE w == CHOOSE x : Powers(n, x)
  <2>1. Powers(n, w) /\ f[n] = w[n]
    BY <1>1
  <2>2. w[n] = IF n = 0 THEN 1 ELSE 2 * w[n - 1]
    <3> HIDE DEF w
    <3> QED BY <2>1, PowerIs
  <2>3. CASE n # 0
    <3> DEFINE v == CHOOSE x : Powers(n - 1, x)
    <3>1. n - 1 \in Nat /\ n - 1 <= n /\ n - 1 <= n - 1
      BY <2>3
    <3>2. Powers(n - 1, v) /\ f[n - 1] = v[n - 1]
      BY <1>1, <3>1
    <3> HIDE DEF w, v
    <3>3. w[n - 1] = v[n - 1]
      BY <2>1, <3>1, <3>2, PowersAgree
    <3> HIDE DEF f
    <3> QED BY <2>1, <2>2, <2>3, <3>2, <3>3
  <2> QED BY <2>1, <2>2, <2>3
<1>3. f = [e \in Nat |-> IF e = 0 THEN 1 ELSE 2 * f[e - 1]]
  <2>1. f = [n \in Nat |-> f[n]]
    OBVIOUS
  <2> HIDE DEF f
  <2> QED BY <1>2, <2>1
<1>4. Power = [e \in Nat |-> IF e = 0 THEN 1 ELSE 2 * Power[e - 1]]
  <2>1. \E g : g = [e \in Nat |-> IF e = 0 THEN 1 ELSE 2 * g[e - 1]]
    BY <1>3
  <2> HIDE DEF f
  <2> QED BY <2>1 DEF Power
<1>5. \A e \in Nat : Power[e] = IF e = 0 THEN 1 ELSE 2 * Power[e - 1]
  <2> DEFINE g == [e \in Nat |-> IF e = 0 THEN 1 ELSE 2 * Power[e - 1]]
  <2>1. \A e \in Nat : g[e] = IF e = 0 THEN 1 ELSE 2 * Power[e - 1]
    OBVIOUS
  <2>2. Power = g
    BY <1>4
  <2> HIDE DEF g
  <2> QED BY <2>1, <2>2
<1>6. ASSUME NEW e \in Nat PROVE Power[e + 1] = 2 * Power[e]
  <2>1. e + 1 \in Nat /\ e + 1 # 0 /\ (e + 1) - 1 = e
    OBVIOUS
  <2> QED BY <1>5, <2>1
<1> QED BY <1>5, <1>6

\* They outgrow their exponents.
LEMMA PowerGrows == \A e \in Nat : Power[e] \in Nat /\ e < Power[e]
<1> DEFINE Bad == {e \in Nat : ~(Power[e] \in Nat /\ e < Power[e])}
<1>1. SUFFICES ASSUME Bad # {} PROVE FALSE
  OBVIOUS
<1>2. PICK e \in Bad : \A i \in Bad : e <= i
  <2>1. Bad \in SUBSET Nat
    OBVIOUS
  <2> HIDE DEF Bad
  <2> QED BY <1>1, <2>1, LeastOf
<1>3. e # 0
  BY PowerFacts
<1>4. e - 1 \in Nat /\ (e - 1) + 1 = e /\ ~(e <= e - 1)
  BY <1>3
<1>5. Power[e - 1] \in Nat /\ e - 1 < Power[e - 1]
  BY <1>2, <1>4
<1>6. Power[e] = 2 * Power[e - 1]
  BY <1>4, PowerFacts
<1>7. Power[e] \in Nat /\ e < Power[e]
  BY <1>4, <1>5, <1>6
<1> QED BY <1>7

\* Every number is between a power of two and the next.
LEMMA LogFacts ==
  ASSUME NEW k \in Nat \ {0}
  PROVE  LogTwo(k) \in Nat /\ Power[LogTwo(k)] <= k /\ k < Power[LogTwo(k) + 1]
<1> DEFINE S == {e \in Nat : k < Power[e + 1]}
<1>1. k \in S
  <2>1. Power[k] \in Nat /\ k < Power[k] /\ Power[k + 1] = 2 * Power[k]
    BY PowerFacts, PowerGrows
  <2> QED BY <2>1
<1>2. PICK e \in S : \A i \in S : e <= i
  <2>1. S \in SUBSET Nat /\ S # {}
    BY <1>1
  <2> HIDE DEF S
  <2> QED BY <2>1, LeastOf
<1>3. e \in 0..k /\ k < Power[e + 1]
  BY <1>1, <1>2
<1>4. Power[e] <= k
  <2>1. CASE e = 0
    BY <2>1, PowerFacts
  <2>2. CASE e # 0
    <3>1. e - 1 \in Nat /\ (e - 1) + 1 = e /\ ~(e <= e - 1)
      BY <2>2
    <3>2. ~(k < Power[e])
      BY <1>2, <3>1
    <3>3. Power[e] \in Nat
      BY <1>2, PowerGrows
    <3> QED BY <3>2, <3>3
  <2> QED BY <2>1, <2>2
<1> HIDE DEF S
<1>5. \E x \in 0..k : Power[x] <= k /\ k < Power[x + 1]
  BY <1>3, <1>4
<1> QED BY <1>5 DEF LogTwo

\* Committees of four and more have neighbours.
LEMMA DegreeFacts ==
  ASSUME NEW size \in Nat \ {0}
  PROVE  Degree(size) \in Nat /\ (size >= 4 => Degree(size) # 0)
<1> DEFINE e == LogTwo(size)
<1>1. e \in Nat /\ size < Power[e + 1]
  BY LogFacts
<1>2. Degree(size) = 2 * (e \div 2)
  BY DEF Degree
<1> HIDE DEF e
<1>3. size >= 4 => e # 0 /\ e # 1
  <2>1. Power[1] = 2 /\ Power[2] = 4
    <3>1. Power[0] = 1 /\ Power[0 + 1] = 2 * Power[0] /\ Power[1 + 1] = 2 * Power[1]
      BY PowerFacts
    <3> QED BY <3>1
  <2>2. e = 0 => e + 1 = 1
    OBVIOUS
  <2>3. e = 1 => e + 1 = 2
    OBVIOUS
  <2> QED BY <1>1, <2>1, <2>2, <2>3
<1> QED BY <1>1, <1>2, <1>3

-----------------------------------------------------------------------------
\* The other committees, and those closer to c than d.
Others(F, c) == CommitteesOf(F) \ {c}

Closer(F, c, d) == {e \in Others(F, c) : Distance(F, c, e) < Distance(F, c, d)}

\* Of two of them the closer one has fewer before it.
LEMMA OthersFacts ==
  ASSUME NEW F \in Configurations, NEW c \in CommitteesOf(F)
  PROVE  /\ IsFiniteSet(Others(F, c)) /\ Cardinality(Others(F, c)) = F.m - 1
         /\ \A d \in Others(F, c) : /\ IsFiniteSet(Closer(F, c, d))
                                    /\ Cardinality(Closer(F, c, d)) \in 0..(F.m - 2)
         /\ \A d, e \in Others(F, c) :
              Distance(F, c, d) < Distance(F, c, e)
                => Cardinality(Closer(F, c, d)) < Cardinality(Closer(F, c, e))
<1>1. F.m \in Nat \ {0}
  BY Division
<1>2. IsFiniteSet(CommitteesOf(F)) /\ Cardinality(CommitteesOf(F)) = F.m
  <2>1. 0 \in Nat /\ F.m \in Nat /\ (0 + F.m) - 1 = F.m - 1
    BY <1>1
  <2>2. IsFiniteSet(0..((0 + F.m) - 1)) /\ Cardinality(0..((0 + F.m) - 1)) = F.m
    BY <2>1, Run
  <2> QED BY <2>1, <2>2 DEF CommitteesOf
<1>3. IsFiniteSet(Others(F, c)) /\ Cardinality(Others(F, c)) = F.m - 1
  BY <1>2, FS_RemoveElement DEF Others
<1>4. \A d \in Others(F, c) : Distance(F, c, d) \in Nat
  BY OverlayAssumption DEF Others
<1>5. ASSUME NEW d \in Others(F, c)
      PROVE  IsFiniteSet(Closer(F, c, d)) /\ Cardinality(Closer(F, c, d)) \in 0..(F.m - 2)
  <2>1. Closer(F, c, d) \subseteq Others(F, c) \ {d}
    BY <1>4 DEF Closer
  <2>2. IsFiniteSet(Others(F, c) \ {d}) /\ Cardinality(Others(F, c) \ {d}) = (F.m - 1) - 1
    BY <1>3, FS_RemoveElement
  <2>3. IsFiniteSet(Closer(F, c, d)) /\ Cardinality(Closer(F, c, d)) <= (F.m - 1) - 1
    BY <2>1, <2>2, FS_Subset
  <2>4. Cardinality(Closer(F, c, d)) \in Nat
    BY <2>3, FS_CardinalityType
  <2> QED BY <1>1, <2>3, <2>4
<1>6. ASSUME NEW d \in Others(F, c), NEW e \in Others(F, c), Distance(F, c, d) < Distance(F, c, e)
      PROVE  Cardinality(Closer(F, c, d)) < Cardinality(Closer(F, c, e))
  <2>1. Closer(F, c, d) \cup {d} \subseteq Closer(F, c, e) /\ d \notin Closer(F, c, d)
    BY <1>4, <1>6 DEF Closer
  <2>2. Cardinality(Closer(F, c, d) \cup {d}) = Cardinality(Closer(F, c, d)) + 1
    BY <1>5, <2>1, FS_AddElement
  <2>3. Cardinality(Closer(F, c, d) \cup {d}) <= Cardinality(Closer(F, c, e))
    BY <1>5, <2>1, FS_Subset
  <2>4. Cardinality(Closer(F, c, d)) \in Nat /\ Cardinality(Closer(F, c, e)) \in Nat
    BY <1>5
  <2> QED BY <2>2, <2>3, <2>4
<1> QED BY <1>3, <1>5, <1>6

\* Every place among the others is some committee's.
LEMMA PlacesAreTaken ==
  ASSUME NEW F \in Configurations, NEW c \in CommitteesOf(F), NEW k \in 1..(F.m - 1)
  PROVE  \E d \in Others(F, c) : Cardinality(Closer(F, c, d)) = k - 1
<1> DEFINE S == Others(F, c)
           T == 0..(F.m - 2)
           f == [d \in S |-> Cardinality(Closer(F, c, d))]
<1>1. F.m \in Nat \ {0} /\ F.m - 1 \in Nat \ {0}
  BY Division
<1>2. IsFiniteSet(S) /\ Cardinality(S) = F.m - 1
  BY OthersFacts
<1>3. IsFiniteSet(T) /\ Cardinality(T) = F.m - 1
  <2>1. 0 \in Nat /\ F.m - 1 \in Nat /\ (0 + (F.m - 1)) - 1 = F.m - 2
    BY <1>1
  <2>2. IsFiniteSet(0..((0 + (F.m - 1)) - 1)) /\ Cardinality(0..((0 + (F.m - 1)) - 1)) = F.m - 1
    BY <2>1, Run
  <2> QED BY <2>1, <2>2
<1>4. f \in [S -> T]
  BY OthersFacts
<1>5. \A d, e \in S : f[d] = f[e] => d = e
  <2> SUFFICES ASSUME NEW d \in S, NEW e \in S, f[d] = f[e] PROVE d = e
    OBVIOUS
  <2>1. Cardinality(Closer(F, c, d)) = Cardinality(Closer(F, c, e)) /\ Cardinality(Closer(F, c, d)) \in Nat
    BY OthersFacts
  <2>2. ~(Distance(F, c, d) < Distance(F, c, e)) /\ ~(Distance(F, c, e) < Distance(F, c, d))
    BY <2>1, OthersFacts
  <2>3. d \in CommitteesOf(F) /\ e \in CommitteesOf(F)
    BY DEF Others
  <2>4. Distance(F, c, d) \in Nat /\ Distance(F, c, e) \in Nat
    BY <2>3, OverlayAssumption
  <2>5. Distance(F, c, d) = Distance(F, c, e)
    BY <2>2, <2>4
  <2> QED BY <2>3, <2>5, OverlayAssumption
<1>6. f \in Injection(S, T)
  <2> HIDE DEF S, T, f
  <2> QED BY <1>4, <1>5 DEF Injection, IsInjective
<1> HIDE DEF f, T, S
<1>7. f \in Surjection(S, T)
  BY <1>2, <1>3, <1>6, FS_Injection
<1>8. k - 1 \in T
  BY <1>1 DEF T
<1>9. PICK d \in S : f[d] = k - 1
  BY <1>7, <1>8 DEF Surjection
<1> QED BY <1>9 DEF f, S

\* A function on a run from 1 is a sequence.
LEMMA RunIsSequence ==
  ASSUME NEW n \in Nat, NEW S, NEW b \in [1..n -> S]
  PROVE  b \in Seq(S) /\ Len(b) = n
<1>1. b \in Seq(S)
  BY SeqDef
<1>2. Len(b) \in Nat /\ DOMAIN b = 1..Len(b)
  BY <1>1, LenProperties
<1>3. 1..n = 1..Len(b)
  BY <1>2
<1>4. Len(b) <= n
  <2>1. Len(b) # 0 => Len(b) \in 1..n
    BY <1>2, <1>3
  <2> QED BY <1>2, <2>1
<1>5. n <= Len(b)
  <2>1. n # 0 => n \in 1..Len(b)
    BY <1>2, <1>3
  <2> QED BY <1>2, <2>1
<1> QED BY <1>1, <1>2, <1>4, <1>5

\* The other committees stand in the order of their distance.
LEMMA ByDistanceFacts ==
  ASSUME NEW F \in Configurations, NEW c \in CommitteesOf(F)
  PROVE  /\ ByDistance(F, c) \in [1..(F.m - 1) -> Others(F, c)]
         /\ Len(ByDistance(F, c)) = F.m - 1
         /\ \A k \in 1..(F.m - 1) : Cardinality(Closer(F, c, ByDistance(F, c)[k])) = k - 1
<1> DEFINE b == [k \in 1..(F.m - 1) |-> CHOOSE d \in Others(F, c) : Cardinality(Closer(F, c, d)) = k - 1]
<1>1. ByDistance(F, c) = b
  <2>1. Cardinality(CommitteesOf(F) \ {c}) = F.m - 1
    BY OthersFacts DEF Others
  <2> QED BY <2>1 DEF ByDistance, Closer, Others
<1>2. \A k \in 1..(F.m - 1) : b[k] \in Others(F, c) /\ Cardinality(Closer(F, c, b[k])) = k - 1
  <2> SUFFICES ASSUME NEW k \in 1..(F.m - 1)
               PROVE  b[k] \in Others(F, c) /\ Cardinality(Closer(F, c, b[k])) = k - 1
    OBVIOUS
  <2>1. \E d \in Others(F, c) : Cardinality(Closer(F, c, d)) = k - 1
    BY PlacesAreTaken
  <2> QED BY <2>1
<1>3. b \in [1..(F.m - 1) -> Others(F, c)]
  BY <1>2
<1>4. F.m - 1 \in Nat
  BY Division
<1> HIDE DEF b
<1>5. b \in Seq(Others(F, c)) /\ Len(b) = F.m - 1
  BY <1>3, <1>4, RunIsSequence
<1> QED BY <1>1, <1>2, <1>3, <1>5

\* The first is the closest, the last the furthest.
LEMMA EndsOfOrder ==
  ASSUME NEW F \in Configurations, NEW c \in CommitteesOf(F), F.m > 1, NEW d \in Others(F, c)
  PROVE  /\ Distance(F, c, ByDistance(F, c)[1]) <= Distance(F, c, d)
         /\ Distance(F, c, d) <= Distance(F, c, ByDistance(F, c)[F.m - 1])
<1> DEFINE x == ByDistance(F, c)[1]
           y == ByDistance(F, c)[F.m - 1]
<1>1. F.m \in Nat /\ 1 \in 1..(F.m - 1) /\ F.m - 1 \in 1..(F.m - 1)
  BY Division
<1>2. x \in Others(F, c) /\ y \in Others(F, c)
  BY <1>1, ByDistanceFacts
<1>3. \A e \in Others(F, c) : Distance(F, c, e) \in Nat
  BY OverlayAssumption DEF Others
<1>4. Cardinality(Closer(F, c, x)) = 0 /\ Cardinality(Closer(F, c, y)) = F.m - 2
  BY <1>1, ByDistanceFacts
<1> HIDE DEF x, y
<1>5. Closer(F, c, x) = {}
  BY <1>2, <1>4, OthersFacts, FS_EmptySet
<1>6. Distance(F, c, x) <= Distance(F, c, d)
  BY <1>2, <1>3, <1>5 DEF Closer
<1>7. Closer(F, c, y) = Others(F, c) \ {y}
  <2>1. IsFiniteSet(Others(F, c) \ {y}) /\ Cardinality(Others(F, c) \ {y}) = (F.m - 1) - 1
    BY <1>2, OthersFacts, FS_RemoveElement
  <2>2. Closer(F, c, y) \subseteq Others(F, c) \ {y}
    BY <1>2, <1>3 DEF Closer
  <2>3. (F.m - 1) - 1 = F.m - 2
    BY <1>1
  <2> QED BY <1>4, <2>1, <2>2, <2>3, FS_Subset
<1>8. Distance(F, c, d) <= Distance(F, c, y)
  <2>1. d = y \/ d \in Closer(F, c, y)
    BY <1>7
  <2> QED BY <1>2, <1>3, <2>1 DEF Closer
<1> QED BY <1>6, <1>8 DEF x, y

-----------------------------------------------------------------------------
\* How many entries of the table are used.
Used(F) ==
  CHOOSE k \in 1..F.m : Power[k - 1] >= F.m - 1 /\ \A j \in 1..(k - 1) : Power[j - 1] < F.m - 1

\* The length computed for the table, from the logarithm, is enough for them.
LEMMA UsedFacts ==
  ASSUME NEW F \in Configurations
  PROVE  /\ Used(F) \in 1..F.m /\ TableLength(F.m) \in Nat /\ Used(F) <= TableLength(F.m)
         /\ Power[Used(F) - 1] >= F.m - 1
         /\ \A j \in 1..(Used(F) - 1) : Power[j - 1] < F.m - 1
<1> DEFINE m == F.m
           u == Used(F)
           S == {e \in Nat : Power[e] >= m - 1}
<1>1. m \in Nat \ {0}
  BY Division
<1>2. m - 1 \in S
  BY <1>1, PowerGrows
<1>3. PICK e \in S : \A i \in S : e <= i
  <2>1. S \in SUBSET Nat /\ S # {}
    BY <1>2
  <2> HIDE DEF S
  <2> QED BY <2>1, LeastOf
<1>4. e \in Nat /\ e <= m - 1 /\ Power[e] >= m - 1
  BY <1>2, <1>3
<1>5. \A j \in 1..e : Power[j - 1] < m - 1
  <2> SUFFICES ASSUME NEW j \in 1..e PROVE Power[j - 1] < m - 1
    OBVIOUS
  <2>1. j - 1 \in Nat /\ ~(e <= j - 1)
    BY <1>4
  <2>2. ~(Power[j - 1] >= m - 1)
    BY <1>3, <2>1
  <2>3. Power[j - 1] \in Nat
    BY <2>1, PowerGrows
  <2> QED BY <1>1, <2>2, <2>3
<1>6. \E k \in 1..m : Power[k - 1] >= m - 1 /\ \A j \in 1..(k - 1) : Power[j - 1] < m - 1
  <2>1. e + 1 \in 1..m /\ (e + 1) - 1 = e
    BY <1>1, <1>4
  <2> QED BY <1>4, <1>5, <2>1
<1>7. u \in 1..m /\ Power[u - 1] >= m - 1 /\ \A j \in 1..(u - 1) : Power[j - 1] < m - 1
  BY <1>6 DEF Used
<1> DEFINE l == LogTwo(m)
           t == TableLength(m)
<1>8. l \in Nat /\ Power[l] <= m /\ m < Power[l + 1]
  BY <1>1, LogFacts
<1>9. t = IF Power[l] = m THEN l + 1 ELSE l + 2
  BY DEF TableLength
<1> HIDE DEF m, u, l, t
<1>10. t \in Nat \ {0} /\ t - 1 \in Nat /\ Power[t - 1] >= m - 1
  <2>1. CASE Power[l] = m
    <3>1. t = l + 1 /\ t - 1 = l
      BY <1>8, <1>9, <2>1
    <3> QED BY <1>1, <1>8, <2>1, <3>1
  <2>2. CASE Power[l] # m
    <3>1. t = l + 2 /\ t - 1 = l + 1 /\ l + 1 \in Nat
      BY <1>8, <1>9, <2>2
    <3>2. Power[l + 1] \in Nat
      BY <3>1, PowerGrows
    <3> QED BY <1>1, <1>8, <3>1, <3>2
  <2> QED BY <2>1, <2>2
<1>11. u <= t
  <2> SUFFICES ASSUME ~(u <= t) PROVE FALSE
    OBVIOUS
  <2>1. t \in 1..(u - 1)
    BY <1>7, <1>10
  <2>2. Power[t - 1] < m - 1 /\ Power[t - 1] \in Nat
    BY <1>7, <1>10, <2>1, PowerGrows
  <2> QED BY <1>1, <1>10, <2>2
<1> QED BY <1>7, <1>10, <1>11 DEF m, u, t

\* Which committees the table holds: others only, from the closest to the furthest.
LEMMA TableFacts ==
  ASSUME NEW F \in Configurations, NEW c \in CommitteesOf(F), F.m > 1
  PROVE  /\ DOMAIN RoutingTable(F, c) = 1..TableLength(F.m) /\ Len(RoutingTable(F, c)) = TableLength(F.m)
         /\ \A i \in 1..Used(F) : RoutingTable(F, c)[i] \in Others(F, c)
         /\ \A i \in 1..TableLength(F.m) : i > Used(F) => RoutingTable(F, c)[i] = Unused
         /\ RoutingTable(F, c)[1] = ByDistance(F, c)[1]
         /\ RoutingTable(F, c)[Used(F)] = ByDistance(F, c)[F.m - 1]
<1> DEFINE u == Used(F)
           t == TableLength(F.m)
           b == ByDistance(F, c)
           place(i) == IF Power[i - 1] >= F.m - 1 THEN F.m - 1 ELSE Power[i - 1]
           r == [i \in 1..t |-> IF i > u THEN Unused ELSE b[place(i)]]
<1>1. F.m \in Nat /\ u \in 1..F.m /\ t \in Nat /\ u <= t /\ Power[u - 1] >= F.m - 1
  BY Division, UsedFacts
<1>2. b \in [1..(F.m - 1) -> Others(F, c)] /\ Len(b) = F.m - 1
  BY ByDistanceFacts
<1>3. RoutingTable(F, c) = r
  BY <1>2 DEF RoutingTable, Used
<1>4. \A i \in 1..u : place(i) \in 1..(F.m - 1)
  <2> SUFFICES ASSUME NEW i \in 1..u PROVE place(i) \in 1..(F.m - 1)
    OBVIOUS
  <2>1. i - 1 \in Nat
    BY <1>1
  <2>2. Power[i - 1] \in Nat /\ i - 1 < Power[i - 1]
    BY <2>1, PowerGrows
  <2> QED BY <1>1, <2>1, <2>2
<1>5. place(1) = 1
  <2>1. Power[1 - 1] = 1
    BY PowerFacts
  <2> QED BY <1>1, <2>1
<1>6. place(u) = F.m - 1
  BY <1>1
<1> HIDE DEF u, t, b, place
<1>7. /\ \A i \in 1..u : r[i] = b[place(i)] /\ r[i] \in Others(F, c)
      /\ \A i \in 1..t : i > u => r[i] = Unused
  BY <1>1, <1>2, <1>4
<1>8. 1 \in 1..u /\ u \in 1..u
  BY <1>1
<1>9. DOMAIN r = 1..t
  OBVIOUS
<1>10. r \in [1..t -> Others(F, c) \cup {Unused}]
  <2>1. \A i \in 1..t : r[i] \in Others(F, c) \cup {Unused}
    <3> SUFFICES ASSUME NEW i \in 1..t PROVE r[i] \in Others(F, c) \cup {Unused}
      OBVIOUS
    <3>1. i \in 1..u \/ i > u
      BY <1>1
    <3> HIDE DEF r
    <3> QED BY <1>7, <3>1
  <2>2. r = [i \in 1..t |-> r[i]]
    OBVIOUS
  <2> HIDE DEF r
  <2> QED BY <2>1, <2>2
<1> HIDE DEF r
<1>11. Len(r) = t
  BY <1>1, <1>10, RunIsSequence
<1> QED BY <1>3, <1>5, <1>6, <1>7, <1>8, <1>9, <1>11 DEF u, t, b

\* A committee is in the table by one of the entries used.
LEMMA InTableFacts ==
  ASSUME NEW F \in Configurations, NEW c \in CommitteesOf(F), F.m > 1
  PROVE  /\ \A d : d \in InTable(F, c) <=> \E i \in 1..Used(F) : RoutingTable(F, c)[i] = d
         /\ InTable(F, c) \subseteq Others(F, c) /\ InTable(F, c) # {}
         /\ Unused \notin CommitteesOf(F)
<1> DEFINE r == RoutingTable(F, c)
           u == Used(F)
           t == TableLength(F.m)
<1>1. Unused \notin CommitteesOf(F)
  BY DEF Unused, CommitteesOf
<1>2. DOMAIN r = 1..t /\ u \in 1..F.m /\ u <= t /\ t \in Nat /\ F.m \in Nat
  BY TableFacts, UsedFacts, Division
<1>3. \A i \in 1..u : r[i] \in Others(F, c) /\ r[i] # Unused
  BY <1>1, TableFacts DEF Others
<1>4. \A i \in 1..t : i > u => r[i] = Unused
  BY TableFacts
<1>5. InTable(F, c) = {r[i] : i \in 1..t} \ {Unused}
  BY <1>2 DEF InTable, Range
<1> HIDE DEF r, u, t
<1>6. \A d : d \in InTable(F, c) <=> \E i \in 1..u : r[i] = d
  BY <1>2, <1>3, <1>4, <1>5
<1>7. 1 \in 1..u
  BY <1>2
<1>8. InTable(F, c) \subseteq Others(F, c) /\ InTable(F, c) # {}
  BY <1>3, <1>6, <1>7
<1> QED BY <1>1, <1>6, <1>8 DEF r, u

\* Where a lookup for another committee goes on: the walk ends between two entries, and
\* one of them is asked.  Nothing ends the process, whatever the identifiers are.
THEOREM LookupIsLedOn ==
  ASSUME NEW F \in Configurations, NEW c \in CommitteesOf(F), F.m > 1,
         NEW target \in Others(F, c), target \notin InTable(F, c)
  PROVE  findClosestsCommittee(F, c, target) \in InTable(F, c)
<1> DEFINE r == RoutingTable(F, c)
           u == Used(F)
           t == TableLength(F.m)
           x == Distance(F, c, target)
           curr(k) == Distance(F, c, r[k])
           GoesOn(k) == /\ k < Len(r) /\ r[k + 1] # Unused
                        /\ curr(k) < x /\ curr(k + 1) < x
           S == {k \in Nat : k \in DOMAIN r /\ ~GoesOn(k)}
<1>1. DOMAIN r = 1..t /\ Len(r) = t /\ u \in 1..F.m /\ u <= t /\ t \in Nat /\ F.m \in Nat
  BY TableFacts, UsedFacts, Division
<1>2. \A i \in 1..u : r[i] \in Others(F, c) /\ r[i] # Unused /\ r[i] \in InTable(F, c) /\ r[i] # target
  BY TableFacts, InTableFacts DEF Others
<1>3. x \in Nat /\ \A i \in 1..u : curr(i) \in Nat /\ curr(i) # x
  <2>1. \A d, e \in Others(F, c) : Distance(F, c, d) \in Nat /\ (Distance(F, c, d) = Distance(F, c, e) => d = e)
    BY OverlayAssumption DEF Others
  <2> HIDE DEF r, u
  <2> QED BY <1>2, <2>1
<1>4. curr(1) < x /\ x < curr(u)
  <2>1. curr(1) <= x /\ x <= curr(u)
    BY TableFacts, EndsOfOrder
  <2>2. 1 \in 1..u /\ u \in 1..u
    BY <1>1
  <2> HIDE DEF r, u, x
  <2> QED BY <1>3, <2>1, <2>2
<1> HIDE DEF r, u, t, x
<1>5. u > 1 /\ u - 1 \in DOMAIN r /\ ~GoesOn(u - 1)
  <2>1. u # 1
    BY <1>3, <1>4, <1>1
  <2>2. u \in 1..u /\ (u - 1) + 1 = u
    BY <1>1
  <2>3. ~(curr((u - 1) + 1) < x)
    BY <1>3, <1>4, <2>2
  <2> QED BY <1>1, <2>1, <2>3
<1> HIDE DEF GoesOn
<1>6. PICK n \in S : \A k \in S : n <= k
  <2>1. S \in SUBSET Nat /\ u - 1 \in S
    BY <1>1, <1>5
  <2> HIDE DEF S
  <2> QED BY <2>1, LeastOf
<1>7. \E k \in DOMAIN r : ~GoesOn(k) /\ \A j \in 1..(k - 1) : GoesOn(j)
  <2>1. n \in DOMAIN r /\ ~GoesOn(n) /\ n \in 1..t
    BY <1>1, <1>6
  <2>2. \A j \in 1..(n - 1) : GoesOn(j)
    <3> SUFFICES ASSUME NEW j \in 1..(n - 1), ~GoesOn(j) PROVE FALSE
      OBVIOUS
    <3>1. j \in Nat /\ j \in DOMAIN r /\ ~(n <= j)
      BY <1>1, <2>1
    <3> QED BY <1>6, <3>1
  <2> QED BY <2>1, <2>2
<1> DEFINE i == CHOOSE k \in DOMAIN r : ~GoesOn(k) /\ \A j \in 1..(k - 1) : GoesOn(j)
<1>8. i \in DOMAIN r /\ ~GoesOn(i) /\ \A j \in 1..(i - 1) : GoesOn(j)
  BY <1>7
<1>9. findClosestsCommittee(F, c, target) =
        IF i = Len(r) THEN IF curr(i) < x THEN r[i] ELSE Unused
        ELSE IF r[i + 1] = Unused \/ x \notin (curr(i) + 1)..(curr(i + 1) - 1) THEN Unused
        ELSE IF x - curr(i) < curr(i + 1) - x THEN r[i] ELSE r[i + 1]
  BY DEF findClosestsCommittee, r, x, GoesOn
<1> HIDE DEF i, S
<1>10. i < u /\ i \in 1..t
  <2>1. u - 1 < i => GoesOn(u - 1)
    <3>1. u - 1 < i => u - 1 \in 1..(i - 1)
      BY <1>1, <1>5, <1>8
    <3> QED BY <1>8, <3>1
  <2> QED BY <1>1, <1>5, <1>8, <2>1
<1>11. i \in 1..u /\ i + 1 \in 1..u /\ i # Len(r) /\ i < Len(r)
  BY <1>1, <1>10
<1>12. curr(i) < x
  <2>1. CASE i = 1
    BY <1>4, <2>1
  <2>2. CASE i # 1
    <3>1. i - 1 \in 1..(i - 1) /\ (i - 1) + 1 = i
      BY <1>10, <2>2
    <3>2. GoesOn(i - 1)
      BY <1>8, <3>1
    <3>3. curr((i - 1) + 1) < x
      BY <3>2 DEF GoesOn
    <3> QED BY <3>1, <3>3
  <2> QED BY <2>1, <2>2
<1>13. x < curr(i + 1)
  <2>1. ~(curr(i + 1) < x)
    BY <1>2, <1>8, <1>11, <1>12 DEF GoesOn
  <2> QED BY <1>3, <1>11, <2>1
<1>14. curr(i) \in Nat /\ curr(i + 1) \in Nat
  BY <1>3, <1>11
<1>15. x \in (curr(i) + 1)..(curr(i + 1) - 1)
  BY <1>3, <1>12, <1>13, <1>14
<1> QED BY <1>2, <1>9, <1>11, <1>15

-----------------------------------------------------------------------------
\* What nodes and coordinator have come to: all that were assigned have passed the
\* checks, all that have set themselves up were able to.
SetUpState ==
  /\ flags \in Configurations
  /\ connected \in 0..flags.n /\ ready \in 0..flags.n /\ assigned \in BOOLEAN
  /\ ready > 0 => assigned
  /\ assigned => connected = flags.n /\ CoordinatorDeath(flags) = "none"
  /\ dead = "none" => \A i \in 0..(ready - 1) : SetUpDeath(flags, CommitteeOf(flags, i)) = "none"
  /\ dead \in Deaths

\* The lookup: from one committee to another, of which none is asked for itself.
LookupState ==
  /\ lookup \in [from : CommitteesOf(flags) \cup {Unused}, target : CommitteesOf(flags) \cup {Unused},
                 at : CommitteesOf(flags) \cup {Unused}, found : BOOLEAN]
  /\ lookup.found \/ lookup = NoLookup => lookup = [NoLookup EXCEPT !.found = lookup.found]
  /\ lookup # NoLookup /\ ~lookup.found => lookup.from # Unused /\ lookup.target # Unused
  /\ lookup.at # Unused => lookup.at # lookup.target
  /\ lookup # NoLookup => ready = flags.n /\ flags.m > 1

\* The members of the committee the transaction is for, and their packages.
GossipState ==
  IF lookup = NoLookup
    THEN ida = <<>> /\ net = <<>> /\ adding = <<>> /\ pooled = <<>> /\ starting = {}
    ELSE /\ \E c \in CommitteesOf(flags) : Ranks = 0..(Cardinality(Members(flags, c)) - 1)
         /\ ida \in [Ranks -> SUBSET Packages]
         /\ net \in [Copies -> Nat] /\ adding \in [Copies -> Nat]
         /\ pooled \in [Ranks -> Nat]
         /\ starting \subseteq Ranks

IInv == SetUpState /\ LookupState /\ GossipState

\* It holds before any node has registered.
LEMMA InitInv == Init => IInv
<1> SUFFICES ASSUME Init PROVE IInv
  OBVIOUS
<1>1. flags.n \in Nat
  BY OverlayAssumption DEF Init
<1>2. SetUpState
  <2>1. flags \in Configurations /\ connected = 0 /\ ready = 0 /\ assigned = FALSE /\ dead = "none"
    BY DEF Init
  <2>2. connected \in 0..flags.n /\ ready \in 0..flags.n /\ ~(ready > 0) /\ 0..(ready - 1) = {}
    BY <1>1, <2>1
  <2> QED BY <2>1, <2>2 DEF SetUpState, Deaths
<1>3. LookupState
  BY DEF Init, LookupState, NoLookup
<1>4. GossipState
  BY DEF Init, GossipState
<1> QED BY <1>2, <1>3, <1>4 DEF IInv

\* Nothing of this depends on other variables.
LEMMA SetUpStays ==
  ASSUME SetUpState, UNCHANGED setupVars, dead' = "none" => dead = "none", dead' \in Deaths
  PROVE  SetUpState'
<1> USE DEF setupVars
<1>1. flags' = flags /\ connected' = connected /\ assigned' = assigned /\ ready' = ready
  OBVIOUS
<1> QED BY <1>1 DEF SetUpState

\* Nor does this on the gossip.
LEMMA LookupStays ==
  ASSUME LookupState, flags' = flags, ready' = ready, lookup' = lookup
  PROVE  LookupState'
  BY DEF LookupState

\* Nor this on the set-up.
LEMMA GossipStays ==
  ASSUME GossipState, flags' = flags, lookup' = lookup, starting' = starting, UNCHANGED gossipVars
  PROVE  GossipState'
<1>1. net' = net /\ adding' = adding /\ ida' = ida /\ pooled' = pooled
  BY DEF gossipVars
<1>2. Ranks' = Ranks
  BY <1>1 DEF Ranks
<1>3. Packages' = Packages /\ Copies' = Copies
  BY <1>2 DEF Packages, Size, Copies
<1> QED BY <1>1, <1>2, <1>3 DEF GossipState

\* Causes of death are named.
LEMMA DeathsAreNamed ==
  /\ \A F : CoordinatorDeath(F) \in Deaths
  /\ \A F, c : SetUpDeath(F, c) \in Deaths
<1>1. \A F : CoordinatorDeath(F) \in Deaths
  BY DEF CoordinatorDeath, Deaths
<1>2. \A F, c : SetUpDeath(F, c) \in Deaths
  BY DEF SetUpDeath, Deaths
<1> QED BY <1>1, <1>2

\* All are set up: there are two committees, of two members at least.
LEMMA AllReady ==
  ASSUME SetUpState, dead = "none", ready = flags.n
  PROVE  flags.m > 1 /\ npm(flags) >= 2 /\ rest(flags) <= npm(flags)
<1> DEFINE F == flags
<1>1. F \in Configurations /\ assigned /\ CoordinatorDeath(F) = "none"
  <2>1. F \in Configurations /\ F.n \in Nat \ {0}
    BY Division DEF SetUpState
  <2> QED BY <2>1 DEF SetUpState
<1> HIDE DEF F
<1>2. npm(F) > 0 /\ rest(F) <= npm(F)
  BY <1>1, CoordinatorPassed
<1>3. npm(F) \in Nat /\ F.m \in Nat \ {0} /\ F.n \in Nat \ {0} /\ rest(F) \in Nat /\ F.n = Whole(F) + rest(F)
  BY <1>1, Division
<1>4. \A i \in 0..(F.n - 1) : SetUpDeath(F, CommitteeOf(F, i)) = "none"
  BY DEF SetUpState, F
<1>5. F.m > 1
  <2>1. SetUpDeath(F, CommitteeOf(F, 0)) = "none"
    BY <1>3, <1>4
  <2> QED BY <1>3, <2>1 DEF SetUpDeath
<1>6. ASSUME npm(F) = 1 PROVE FALSE
  <2> DEFINE i == F.n - 1
             c == CommitteeOf(F, i)
  <2>1. i \in 0..(F.n - 1) /\ i \in NodesOf(F) /\ i \in Nat
    BY <1>3 DEF NodesOf
  <2>2. i \div 1 = i
    BY <2>1
  <2>3. c = IF i < F.m THEN i ELSE F.m - 1
    BY <1>1, <1>2, <1>6, <2>1, <2>2, CommitteeIs
  <2>4. Whole(F) = F.m
    BY <1>3, <1>6 DEF Whole
  <2>5. c = F.m - 1
    BY <1>3, <2>1, <2>3, <2>4
  <2>6. c \in CommitteesOf(F)
    BY <1>3, <2>5 DEF CommitteesOf
  <2>7. SetUpDeath(F, c) = "none"
    BY <1>4, <2>1
  <2> HIDE DEF c, i
  <2>8. PICK d \in InTable(F, c) : TRUE
    BY <1>1, <1>5, <2>6, InTableFacts
  <2>9. d \in CommitteesOf(F) /\ d # F.m - 1
    BY <1>1, <1>5, <2>5, <2>6, InTableFacts DEF Others
  <2>10. Cardinality(Members(F, d)) = 1
    BY <1>1, <1>2, <1>6, <2>9, MembersAre
  <2>11. Per(1) = 0
    BY DEF Per
  <2> QED BY <1>5, <2>7, <2>10, <2>11 DEF SetUpDeath
<1> QED BY <1>2, <1>3, <1>5, <1>6 DEF F

\* The members of the committee a transaction is for.
LEMMA SizeFacts ==
  ASSUME SetUpState, LookupState, GossipState, lookup # NoLookup
  PROVE  /\ Size \in Nat \ {0} /\ Size >= npm(flags) /\ Degree(Size) \in Nat
         /\ flags \in Configurations /\ flags.m > 1
<1>1. flags \in Configurations /\ ready = flags.n /\ flags.m > 1 /\ flags.n \in Nat \ {0}
  BY Division DEF SetUpState, LookupState
<1>2. CoordinatorDeath(flags) = "none"
  BY <1>1 DEF SetUpState
<1>3. npm(flags) > 0 /\ rest(flags) <= npm(flags) /\ npm(flags) \in Nat /\ rest(flags) \in Nat
  BY <1>1, <1>2, CoordinatorPassed, Division
<1>4. PICK c \in CommitteesOf(flags) : Ranks = 0..(Cardinality(Members(flags, c)) - 1)
  BY DEF GossipState
<1> DEFINE s == Cardinality(Members(flags, c))
<1>5. s \in Nat \ {0} /\ s >= npm(flags)
  BY <1>1, <1>3, MembersAre
<1> HIDE DEF s
<1>6. Cardinality(0..((0 + s) - 1)) = s
  BY <1>5, Run
<1>7. (0 + s) - 1 = s - 1
  BY <1>5
<1>8. Size = s
  BY <1>4, <1>6, <1>7 DEF Size, s
<1> QED BY <1>1, <1>5, <1>8, DegreeFacts

-----------------------------------------------------------------------------
\* One lemma for each action.
LEMMA RegisterInv ==
  ASSUME IInv, dead = "none", Register
  PROVE  IInv'
<1>1. flags' = flags /\ ready' = ready /\ lookup' = lookup /\ assigned' = assigned /\ dead' = dead
  BY DEF Register
<1>2. SetUpState'
  <2>1. flags.n \in Nat /\ connected \in 0..flags.n
    BY Division DEF IInv, SetUpState
  <2>2. connected' \in 0..flags.n /\ connected # flags.n
    BY <2>1 DEF Register
  <2> QED BY <1>1, <2>2 DEF IInv, SetUpState
<1>3. LookupState'
  BY <1>1, LookupStays DEF IInv
<1>4. GossipState'
  BY GossipStays DEF IInv, Register
<1> QED BY <1>2, <1>3, <1>4 DEF IInv

\* The coordinator's answer: who is assigned has passed its checks.
LEMMA CoordinateInv ==
  ASSUME IInv, dead = "none", Coordinate
  PROVE  IInv'
<1>1. flags' = flags /\ ready' = ready /\ lookup' = lookup /\ connected' = connected
  BY DEF Coordinate
<1>2. SetUpState'
  <2>1. flags.n \in Nat \ {0} /\ ready \in 0..flags.n /\ ~(ready > 0)
    BY Division DEF IInv, SetUpState, Coordinate
  <2>2. 0..(ready - 1) = {} /\ ready = 0
    BY <2>1
  <2>3. dead' \in Deaths /\ assigned' \in BOOLEAN /\ connected = flags.n
        /\ (assigned' => CoordinatorDeath(flags) = "none")
    BY DeathsAreNamed DEF Coordinate
  <2> QED BY <1>1, <2>1, <2>2, <2>3 DEF IInv, SetUpState
<1>3. LookupState'
  BY <1>1, LookupStays DEF IInv
<1>4. GossipState'
  BY GossipStays DEF IInv, Coordinate
<1> QED BY <1>2, <1>3, <1>4 DEF IInv

\* A node sets itself up: the lookup has not begun.
LEMMA SetUpInv ==
  ASSUME IInv, dead = "none", SetUp
  PROVE  IInv'
<1>1. flags' = flags /\ lookup' = lookup /\ connected' = connected /\ assigned' = assigned /\ assigned
      /\ ready' = ready + 1
  BY DEF SetUp
<1>2. flags.n \in Nat \ {0} /\ ready \in 0..flags.n /\ ready < flags.n
  BY Division DEF IInv, SetUpState, SetUp
<1>3. SetUpState'
  <2>1. ready' \in 0..flags.n /\ dead' \in Deaths
    BY <1>1, <1>2, DeathsAreNamed DEF SetUp
  <2>2. ASSUME dead' = "none"
        PROVE  \A i \in 0..(ready' - 1) : SetUpDeath(flags, CommitteeOf(flags, i)) = "none"
    <3>1. \A i \in 0..(ready' - 1) : i = ready \/ i \in 0..(ready - 1)
      BY <1>1, <1>2
    <3>2. SetUpDeath(flags, CommitteeOf(flags, ready)) = "none"
      BY <2>2 DEF SetUp
    <3> QED BY <3>1, <3>2 DEF IInv, SetUpState
  <2> QED BY <1>1, <2>1, <2>2 DEF IInv, SetUpState
<1>4. lookup = NoLookup
  BY <1>2 DEF IInv, LookupState
<1>5. LookupState'
  BY <1>1, <1>4 DEF IInv, LookupState
<1>6. GossipState'
  BY GossipStays DEF IInv, SetUp
<1> QED BY <1>3, <1>5, <1>6 DEF IInv

\* A lookup begins, when all are set up; with it the committee of the gossip is known.
LEMMA ReceiveTransactionInv ==
  ASSUME IInv, dead = "none",
         NEW from \in CommitteesOf(flags), NEW target \in CommitteesOf(flags), ReceiveTransaction(from, target)
  PROVE  IInv'
<1>1. /\ flags' = flags /\ ready' = ready /\ UNCHANGED setupVars /\ dead' = dead /\ starting' = starting
      /\ ready = flags.n /\ lookup = NoLookup
      /\ lookup' = [from |-> from, target |-> target, at |-> Unused, found |-> FALSE]
  BY DEF ReceiveTransaction, setupVars, NoLookup
<1>2. flags \in Configurations /\ flags.m > 1 /\ npm(flags) >= 2 /\ rest(flags) <= npm(flags)
  BY <1>1, AllReady DEF IInv, SetUpState
<1>3. SetUpState'
  BY <1>1, SetUpStays DEF IInv, SetUpState
<1>4. from # Unused /\ target # Unused /\ Unused \notin CommitteesOf(flags)
  BY DEF Unused, CommitteesOf
<1>5. lookup' # NoLookup
  BY <1>1, <1>4 DEF NoLookup
<1>6. LookupState'
  BY <1>1, <1>2, <1>4, <1>5 DEF LookupState
<1>7. GossipState'
  <2>1. Ranks' = 0..(Cardinality(Members(flags, target)) - 1)
    BY DEF ReceiveTransaction, Ranks
  <2>2. ida' \in [Ranks' -> SUBSET Packages'] /\ pooled' \in [Ranks' -> Nat]
    BY <2>1 DEF ReceiveTransaction
  <2>3. net' \in [Copies' -> Nat] /\ adding' \in [Copies' -> Nat]
    BY DEF ReceiveTransaction
  <2>4. starting' = {}
    BY <1>1 DEF IInv, GossipState
  <2> QED BY <1>1, <1>5, <2>1, <2>2, <2>3, <2>4 DEF GossipState
<1> QED BY <1>3, <1>6, <1>7 DEF IInv

\* The gossip begins when a lookup ends, and not before.
LEMMA FoundInv ==
  ASSUME IInv, dead = "none", lookup # NoLookup, UNCHANGED <<setupVars, gossipVars>>,
         NEW members \in SUBSET Ranks, Found(members)
  PROVE  IInv'
<1>1. flags' = flags /\ ready' = ready /\ dead' = dead /\ UNCHANGED setupVars
      /\ lookup' = [from |-> Unused, target |-> Unused, at |-> Unused, found |-> TRUE]
  BY DEF Found, setupVars, NoLookup
<1>2. SetUpState'
  BY <1>1, SetUpStays DEF IInv, SetUpState
<1>3. lookup'.found = TRUE /\ NoLookup.found = FALSE
  BY <1>1 DEF NoLookup
<1>4. LookupState'
  <2>1. lookup' # NoLookup
    BY <1>3
  <2>2. lookup' = [NoLookup EXCEPT !.found = TRUE]
    BY DEF Found
  <2>3. lookup'.at = Unused
    BY <1>1
  <2>4. lookup' \in [from : CommitteesOf(flags) \cup {Unused}, target : CommitteesOf(flags) \cup {Unused},
                     at : CommitteesOf(flags) \cup {Unused}, found : BOOLEAN]
    BY <1>1
  <2>5. ready = flags.n /\ flags.m > 1
    BY DEF IInv, LookupState
  <2> QED BY <1>1, <1>3, <2>1, <2>2, <2>3, <2>4, <2>5 DEF LookupState
<1>5. net' = net /\ adding' = adding /\ ida' = ida /\ pooled' = pooled
  BY DEF gossipVars
<1>6. Ranks' = Ranks /\ Packages' = Packages /\ Copies' = Copies
  BY <1>5 DEF Ranks, Packages, Size, Copies
<1>7. starting' \subseteq Ranks
  BY DEF Found
<1>8. GossipState'
  <2>1. lookup' # NoLookup
    BY <1>3
  <2> QED BY <1>1, <2>1, <1>5, <1>6, <1>7 DEF IInv, GossipState
<1> QED BY <1>2, <1>4, <1>8 DEF IInv

\* A lookup asks another committee, not the one it is for.
LEMMA AskedInv ==
  ASSUME IInv, dead = "none", lookup # NoLookup, ~lookup.found, UNCHANGED <<setupVars, gossipVars>>,
         NEW c \in CommitteesOf(flags), c # lookup.target, Asked(c)
  PROVE  IInv' /\ dead' = "none"
<1>0. Unused \notin CommitteesOf(flags)
  BY DEF Unused, CommitteesOf
<1>1. flags' = flags /\ ready' = ready /\ dead' = "none" /\ UNCHANGED setupVars /\ UNCHANGED gossipVars
      /\ lookup' = [lookup EXCEPT !.at = c] /\ starting' = starting
  BY <1>0 DEF Asked, setupVars
<1>2. SetUpState'
  BY <1>1, SetUpStays DEF IInv, SetUpState
<1>3. /\ lookup' \in [from : CommitteesOf(flags) \cup {Unused}, target : CommitteesOf(flags) \cup {Unused},
                      at : CommitteesOf(flags) \cup {Unused}, found : BOOLEAN]
      /\ lookup'.at = c /\ lookup'.from = lookup.from /\ lookup'.target = lookup.target
      /\ lookup'.found = FALSE
  BY <1>1 DEF IInv, LookupState
<1>4. lookup' # NoLookup
  BY <1>0, <1>3 DEF NoLookup
<1>5. LookupState'
  BY <1>1, <1>3, <1>4 DEF IInv, LookupState
<1>6. net' = net /\ adding' = adding /\ ida' = ida /\ pooled' = pooled
  BY <1>1 DEF gossipVars
<1>7. Ranks' = Ranks /\ Packages' = Packages /\ Copies' = Copies
  BY <1>6 DEF Ranks, Packages, Size, Copies
<1>8. GossipState'
  BY <1>1, <1>4, <1>6, <1>7 DEF IInv, GossipState
<1> QED BY <1>1, <1>2, <1>5, <1>8 DEF IInv

\* Neither of the two steps of a lookup ends a process.
LEMMA routeTxInv ==
  ASSUME IInv, dead = "none", routeTx
  PROVE  IInv' /\ dead' = "none"
<1> DEFINE from == lookup.from
           target == lookup.target
<1>1. lookup # NoLookup /\ ~lookup.found /\ UNCHANGED <<setupVars, gossipVars>>
  BY DEF routeTx
<1>2. from \in CommitteesOf(flags) /\ target \in CommitteesOf(flags) /\ flags.m > 1 /\ flags \in Configurations
  BY <1>1 DEF IInv, LookupState, SetUpState
<1>3. CASE from = target
  <2>1. PICK r \in Ranks : Found({r})
    BY <1>3 DEF routeTx
  <2>2. {r} \in SUBSET Ranks
    OBVIOUS
  <2> QED BY <1>1, <2>1, <2>2, FoundInv DEF Found
<1>4. CASE from # target /\ target \in InTable(flags, from)
  <2>1. PICK members \in kSubset(Per(Size), Ranks) : Found(members)
    BY <1>4 DEF routeTx
  <2>2. members \in SUBSET Ranks
    BY <2>1 DEF kSubset
  <2> QED BY <1>1, <2>1, <2>2, FoundInv DEF Found
<1>5. CASE from # target /\ target \notin InTable(flags, from)
  <2> DEFINE c == findClosestsCommittee(flags, from, target)
  <2>1. Asked(c)
    BY <1>5 DEF routeTx
  <2>2. target \in Others(flags, from)
    BY <1>2, <1>5 DEF Others
  <2>3. c \in InTable(flags, from)
    BY <1>2, <1>5, <2>2, LookupIsLedOn
  <2>4. c \in CommitteesOf(flags) /\ c # target
    BY <1>2, <1>5, <2>3, InTableFacts DEF Others
  <2> HIDE DEF c
  <2> QED BY <1>1, <2>1, <2>4, AskedInv
<1> QED BY <1>3, <1>4, <1>5

\* A committee that is asked has the target in its table or another one to ask.
LEMMA recursiveFindNodeInv ==
  ASSUME IInv, dead = "none", recursiveFindNode
  PROVE  IInv' /\ dead' = "none"
<1> DEFINE at == lookup.at
           target == lookup.target
           c == handleFindNode(flags, at, target)
<1>1. ~lookup.found /\ at # Unused /\ UNCHANGED <<setupVars, gossipVars>> /\ lookup # NoLookup
  BY DEF recursiveFindNode, NoLookup
<1>2. at \in CommitteesOf(flags) /\ target \in CommitteesOf(flags) /\ at # target
      /\ flags.m > 1 /\ flags \in Configurations
  BY <1>1 DEF IInv, LookupState, SetUpState
<1>3. CASE c = target
  <2>1. PICK members \in SUBSET Ranks : Found(members)
    BY <1>3 DEF recursiveFindNode, IsFound
  <2> QED BY <1>1, <2>1, FoundInv DEF Found
<1>4. CASE c # target
  <2>1. Asked(c)
    BY <1>4 DEF recursiveFindNode, IsFound
  <2>2. target \in Others(flags, at) /\ target \notin InTable(flags, at)
    BY <1>2, <1>4 DEF Others, handleFindNode
  <2>3. c = findClosestsCommittee(flags, at, target)
    BY <2>2 DEF handleFindNode
  <2>4. c \in InTable(flags, at)
    BY <1>2, <2>2, <2>3, LookupIsLedOn
  <2>5. c \in CommitteesOf(flags)
    BY <1>2, <2>4, InTableFacts DEF Others
  <2> HIDE DEF c
  <2> QED BY <1>1, <1>4, <2>1, <2>5, AskedInv
<1> QED BY <1>3, <1>4

\* What is on its way to whom.
LEMMA CopiesAreCounted ==
  ASSUME NEW have, NEW sends, net \in [Copies -> Nat], NEW copies \in [Copies -> Nat]
  PROVE  Sent(sends) \in [Copies -> Nat] /\ UnderWay(have, copies) \in [Copies -> Nat]
<1>1. \A x \in Copies : net[x] + (IF x \in sends THEN 1 ELSE 0) \in Nat
  OBVIOUS
<1>2. Sent(sends) \in [Copies -> Nat]
  BY <1>1 DEF Sent
<1>3. UnderWay(have, copies) \in [Copies -> Nat]
  BY DEF UnderWay
<1> QED BY <1>2, <1>3

\* While there is no transaction there is no gossip.
LEMMA GossipIsOfALookup ==
  ASSUME IInv, starting # {} \/ DOMAIN net # {} \/ DOMAIN adding # {}
  PROVE  /\ lookup # NoLookup
         /\ ida \in [Ranks -> SUBSET Packages] /\ pooled \in [Ranks -> Nat] /\ starting \subseteq Ranks
         /\ net \in [Copies -> Nat] /\ adding \in [Copies -> Nat]
<1>1. DOMAIN <<>> = {}
  OBVIOUS
<1> QED BY <1>1 DEF IInv, GossipState

\* The gossip changes neither who takes part in it nor anything outside.
LEMMA GossipGoesOn ==
  ASSUME IInv, lookup # NoLookup, UNCHANGED setupVars, lookup' = lookup,
         dead = "none", dead' \in Deaths,
         ida' \in [Ranks -> SUBSET Packages], pooled' \in [Ranks -> Nat],
         net' \in [Copies -> Nat], adding' \in [Copies -> Nat], starting' \subseteq Ranks
  PROVE  IInv'
<1>1. flags' = flags /\ ready' = ready
  BY DEF setupVars
<1>2. SetUpState'
  BY SetUpStays DEF IInv
<1>3. LookupState'
  BY <1>1, LookupStays DEF IInv
<1>4. Ranks' = Ranks
  BY DEF Ranks
<1>5. Packages' = Packages /\ Copies' = Copies
  BY <1>4 DEF Packages, Size, Copies
<1>6. GossipState'
  BY <1>1, <1>4, <1>5 DEF IInv, GossipState
<1> QED BY <1>2, <1>3, <1>6 DEF IInv

\* Only a committee that is too small for the gossip ends whoever starts it.
LEMMA IDAGossipInv ==
  ASSUME IInv, dead = "none", NEW r \in starting, IDAGossip(r)
  PROVE  IInv' /\ (dead' # "none" => Degree(Size) = 0) /\ pooled' = pooled
<1>1. /\ lookup # NoLookup
      /\ ida \in [Ranks -> SUBSET Packages] /\ pooled \in [Ranks -> Nat] /\ starting \subseteq Ranks
      /\ net \in [Copies -> Nat] /\ adding \in [Copies -> Nat]
  BY GossipIsOfALookup
<1>2. net' \in [Copies -> Nat]
  <2>1. CASE Degree(Size) = 0
    BY <1>1, <2>1 DEF IDAGossip
  <2>2. CASE Degree(Size) # 0
    <3> DEFINE sends == {<<Neighbours(Size, r)[i], i>> : i \in Packages}
    <3>1. net' = UnderWay(ida, Sent(sends))
      BY <2>2 DEF IDAGossip
    <3> HIDE DEF sends
    <3>2. Sent(sends) \in [Copies -> Nat]
      BY <1>1, CopiesAreCounted
    <3> QED BY <1>1, <3>1, <3>2, CopiesAreCounted
  <2> QED BY <2>1, <2>2
<1>3. /\ UNCHANGED setupVars /\ lookup' = lookup /\ ida' = ida /\ pooled' = pooled /\ adding' = adding
      /\ starting' \subseteq starting
  BY DEF IDAGossip
<1>4. dead' \in Deaths /\ (dead' # "none" => Degree(Size) = 0)
  BY DEF IDAGossip, Deaths
<1> QED BY <1>1, <1>2, <1>3, <1>4, GossipGoesOn

\* A package is received.
LEMMA handleIDAGossipMsgInv ==
  ASSUME IInv, dead = "none", NEW x \in DOMAIN net, handleIDAGossipMsg(x[1], x[2])
  PROVE  IInv' /\ dead' = "none" /\ pooled' = pooled
<1> DEFINE d == x[1]
           p == x[2]
<1>1. /\ lookup # NoLookup
      /\ ida \in [Ranks -> SUBSET Packages] /\ pooled \in [Ranks -> Nat] /\ starting \subseteq Ranks
      /\ net \in [Copies -> Nat] /\ adding \in [Copies -> Nat]
  BY GossipIsOfALookup
<1>2. x \in Copies /\ d \in Ranks /\ p \in Packages /\ <<d, p>> = x /\ net[x] > 0
  BY <1>1 DEF Copies, handleIDAGossipMsg
<1> DEFINE left == [net EXCEPT ![<<d, p>>] = @ - 1]
<1>3. left \in [Copies -> Nat]
  <2>1. net[x] - 1 \in Nat
    BY <1>1, <1>2
  <2> QED BY <1>1, <1>2, <2>1
<1>4. ida' \in [Ranks -> SUBSET Packages] /\ net' \in [Copies -> Nat] /\ adding' \in [Copies -> Nat]
  <2>1. CASE ida[d] = {}
    <3> DEFINE copies == [y \in Copies |-> left[y] + IF y \in gossipSend(d, p) THEN 1 ELSE 0]
    <3>1. ida' = [ida EXCEPT ![d] = {p}] /\ net' = UnderWay(ida', copies) /\ adding' = adding
      BY <2>1 DEF handleIDAGossipMsg
    <3>2. copies \in [Copies -> Nat]
      <4> HIDE DEF left
      <4>1. \A y \in Copies : left[y] + (IF y \in gossipSend(d, p) THEN 1 ELSE 0) \in Nat
        BY <1>3
      <4> QED BY <4>1
    <3>3. ida' \in [Ranks -> SUBSET Packages]
      BY <1>1, <1>2, <3>1
    <3> HIDE DEF copies
    <3>4. UnderWay(ida', copies) \in [Copies -> Nat]
      BY <1>1, <3>2, CopiesAreCounted
    <3> QED BY <1>1, <3>1, <3>3, <3>4
  <2>2. CASE ida[d] # {}
    <3>1. ida' = ida /\ net' = left /\ adding' = [adding EXCEPT ![<<d, p>>] = @ + 1]
      BY <2>2 DEF handleIDAGossipMsg
    <3>2. adding[x] + 1 \in Nat
      BY <1>1, <1>2
    <3> QED BY <1>1, <1>2, <1>3, <3>1, <3>2
  <2> QED BY <2>1, <2>2
<1>5. UNCHANGED setupVars /\ lookup' = lookup /\ starting' = starting /\ pooled' = pooled /\ dead' = dead
  BY DEF handleIDAGossipMsg
<1>6. "none" \in Deaths
  BY DEF Deaths
<1> QED BY <1>1, <1>4, <1>5, <1>6, GossipGoesOn

\* A package is added: the transaction is pooled by a member that has not pooled it.
LEMMA AddUniqueInv ==
  ASSUME IInv, dead = "none", NEW x \in DOMAIN adding, AddUnique(x[1], x[2])
  PROVE  /\ IInv' /\ dead' = "none" /\ DOMAIN pooled' = DOMAIN pooled
         /\ \A d \in DOMAIN pooled : pooled'[d] = pooled[d] \/ (pooled[d] = 0 /\ pooled'[d] = 1)
<1> DEFINE d == x[1]
           p == x[2]
<1>1. /\ lookup # NoLookup
      /\ ida \in [Ranks -> SUBSET Packages] /\ pooled \in [Ranks -> Nat] /\ starting \subseteq Ranks
      /\ net \in [Copies -> Nat] /\ adding \in [Copies -> Nat]
  BY GossipIsOfALookup
<1>2. x \in Copies /\ d \in Ranks /\ p \in Packages /\ <<d, p>> = x /\ adding[x] > 0
  BY <1>1 DEF Copies, AddUnique
<1>3. ida' = [ida EXCEPT ![d] = @ \cup {p}] /\ adding' = [adding EXCEPT ![<<d, p>>] = @ - 1]
      /\ net' = UnderWay(ida', Sent(gossipSend(d, p)))
  BY DEF AddUnique
<1>4. pooled' = [pooled EXCEPT ![d] = IF Enough(ida'[d]) /\ pooled[d] = 0 THEN @ + 1 ELSE @]
  BY DEF AddUnique, safeAdd
<1>5. UNCHANGED setupVars /\ lookup' = lookup /\ starting' = starting /\ dead' = dead
  BY DEF AddUnique
<1> HIDE DEF d, p
<1>6. ida' \in [Ranks -> SUBSET Packages]
  <2>1. ida[d] \cup {p} \in SUBSET Packages
    BY <1>1, <1>2
  <2> QED BY <1>1, <1>2, <1>3, <2>1
<1>7. adding' \in [Copies -> Nat]
  <2>1. adding[x] - 1 \in Nat
    BY <1>1, <1>2
  <2> QED BY <1>1, <1>2, <1>3, <2>1
<1>8. net' \in [Copies -> Nat]
  <2>1. Sent(gossipSend(d, p)) \in [Copies -> Nat]
    BY <1>1, CopiesAreCounted
  <2> QED BY <1>1, <1>3, <2>1, CopiesAreCounted
<1>9. /\ pooled' \in [Ranks -> Nat]
      /\ \A e \in Ranks : pooled'[e] = pooled[e] \/ (pooled[e] = 0 /\ pooled'[e] = 1)
  BY <1>1, <1>2, <1>4
<1>10. "none" \in Deaths
  BY DEF Deaths
<1>11. IInv'
  BY <1>1, <1>5, <1>6, <1>7, <1>8, <1>9, <1>10, GossipGoesOn
<1> QED BY <1>1, <1>5, <1>9, <1>11

-----------------------------------------------------------------------------
\* What the flags are of a network that does not come up, or fails.
FlagsAreToBlame ==
  \/ flags.m = 1
  \/ npm(flags) < 4
  \/ rest(flags) > npm(flags)
  \/ rest(flags) # 0 /\ flags.m % 2 = 1

\* The coordinator's checks end it for the flags only.
LEMMA CoordinateBlames ==
  ASSUME CommitteeF \in 1..2, IInv, Coordinate, dead' # "none"
  PROVE  FlagsAreToBlame
<1> SUFFICES ASSUME ~FlagsAreToBlame PROVE FALSE
  OBVIOUS
<1>1. flags \in Configurations /\ npm(flags) \in Nat /\ rest(flags) \in Nat /\ flags.m \in Nat \ {0}
  BY Division DEF IInv, SetUpState
<1>2. npm(flags) >= 4 /\ rest(flags) <= npm(flags)
  BY <1>1 DEF FlagsAreToBlame
<1>3. rest(flags) = 0 \/ flags.m % 2 = 0
  <2>1. flags.m % 2 = 0 \/ flags.m % 2 = 1
    BY <1>1
  <2> QED BY <2>1 DEF FlagsAreToBlame
<1>4. CoordinatorDeath(flags) = "none"
  BY <1>1, <1>2, <1>3, CoordinatorPasses
<1> QED BY <1>4 DEF Coordinate

\* In committees of four or more a node knows somebody of every committee of its table.
LEMMA SetUpBlames ==
  ASSUME IInv, SetUp, dead' # "none"
  PROVE  FlagsAreToBlame
<1> SUFFICES ASSUME ~FlagsAreToBlame PROVE FALSE
  OBVIOUS
<1> DEFINE F == flags
           c == CommitteeOf(F, ready)
<1>1. F \in Configurations /\ npm(F) \in Nat /\ rest(F) \in Nat /\ F.m \in Nat \ {0} /\ F.n \in Nat \ {0}
      /\ ready \in 0..(F.n - 1)
  BY Division DEF IInv, SetUpState, SetUp
<1>2. npm(F) >= 4 /\ rest(F) <= npm(F) /\ F.m > 1 /\ npm(F) > 0
  BY <1>1 DEF FlagsAreToBlame
<1>3. SetUpDeath(F, c) # "none"
  BY DEF SetUp
<1>4. c \in CommitteesOf(F)
  <2>1. ready \in NodesOf(F)
    BY <1>1 DEF NodesOf
  <2> HIDE DEF F
  <2> QED BY <1>1, <1>2, <2>1, CommitteeIs
<1> HIDE DEF F, c
<1>5. PICK d \in InTable(F, c) : Per(Cardinality(Members(F, d))) = 0
  BY <1>2, <1>3 DEF SetUpDeath
<1>6. d \in CommitteesOf(F)
  BY <1>1, <1>2, <1>4, <1>5, InTableFacts DEF Others
<1> DEFINE s == Cardinality(Members(F, d))
<1>7. s \in Nat /\ s >= 4
  BY <1>1, <1>2, <1>6, MembersAre
<1> HIDE DEF s
<1>8. Per(s) # 0
  BY <1>7 DEF Per
<1> QED BY <1>5, <1>8 DEF s

\* In such committees everybody has neighbours.
LEMMA IDAGossipBlames ==
  ASSUME IInv, dead = "none", NEW r \in starting, IDAGossip(r), dead' # "none"
  PROVE  FlagsAreToBlame
<1>1. lookup # NoLookup /\ Degree(Size) = 0
  BY GossipIsOfALookup, IDAGossipInv
<1>2. Size \in Nat \ {0} /\ Size >= npm(flags) /\ npm(flags) \in Nat
  BY <1>1, SizeFacts, Division DEF IInv
<1>3. ~(Size >= 4)
  BY <1>1, <1>2, DegreeFacts
<1>4. npm(flags) < 4
  BY <1>2, <1>3
<1> QED BY <1>4 DEF FlagsAreToBlame

-----------------------------------------------------------------------------
\* What every step does: it keeps the invariant, ends a process for the flags only,
\* and pools a transaction at a member that has not pooled it.
LEMMA StepKeeps ==
  ASSUME IInv, Next
  PROVE  /\ IInv' /\ flags' = flags /\ dead = "none"
         /\ CommitteeF \in 1..2 /\ dead' # "none" => FlagsAreToBlame
         /\ PooledOnce => PooledOnce'
<1>0. dead = "none"
  BY DEF Next, SetUpOrRoute, Gossip
<1>1. CASE Register
  <2>1. flags' = flags /\ dead' = dead /\ pooled' = pooled
    BY <1>1 DEF Register, gossipVars
  <2> QED BY <1>0, <1>1, <2>1, RegisterInv DEF PooledOnce
<1>2. CASE Coordinate
  <2>1. flags' = flags /\ pooled' = pooled
    BY <1>2 DEF Coordinate, gossipVars
  <2> QED BY <1>0, <1>2, <2>1, CoordinateInv, CoordinateBlames DEF PooledOnce
<1>3. CASE SetUp
  <2>1. flags' = flags /\ pooled' = pooled
    BY <1>3 DEF SetUp, gossipVars
  <2> QED BY <1>0, <1>3, <2>1, SetUpInv, SetUpBlames DEF PooledOnce
<1>4. ASSUME NEW from \in CommitteesOf(flags), NEW target \in CommitteesOf(flags),
             ReceiveTransaction(from, target)
      PROVE  IInv' /\ flags' = flags /\ dead' = "none" /\ PooledOnce'
  <2>1. flags' = flags /\ dead' = dead
    BY <1>4 DEF ReceiveTransaction, setupVars
  <2>2. \A d \in DOMAIN pooled' : pooled'[d] = 0
    BY <1>4 DEF ReceiveTransaction
  <2> QED BY <1>0, <1>4, <2>1, <2>2, ReceiveTransactionInv DEF PooledOnce
<1>5. CASE routeTx
  <2>1. flags' = flags /\ pooled' = pooled
    BY <1>5 DEF routeTx, setupVars, gossipVars
  <2> QED BY <1>0, <1>5, <2>1, routeTxInv DEF PooledOnce
<1>6. CASE recursiveFindNode
  <2>1. flags' = flags /\ pooled' = pooled
    BY <1>6 DEF recursiveFindNode, setupVars, gossipVars
  <2> QED BY <1>0, <1>6, <2>1, recursiveFindNodeInv DEF PooledOnce
<1>7. ASSUME NEW r \in starting, IDAGossip(r)
      PROVE  IInv' /\ flags' = flags /\ (dead' # "none" => FlagsAreToBlame) /\ pooled' = pooled
  <2>1. flags' = flags
    BY <1>7 DEF IDAGossip, setupVars
  <2> QED BY <1>0, <1>7, <2>1, IDAGossipInv, IDAGossipBlames
<1>8. ASSUME NEW x \in DOMAIN net, handleIDAGossipMsg(x[1], x[2])
      PROVE  IInv' /\ flags' = flags /\ dead' = "none" /\ pooled' = pooled
  <2>1. flags' = flags
    BY <1>8 DEF handleIDAGossipMsg, setupVars
  <2> QED BY <1>0, <1>8, <2>1, handleIDAGossipMsgInv
<1>9. ASSUME NEW x \in DOMAIN adding, AddUnique(x[1], x[2])
      PROVE  IInv' /\ flags' = flags /\ dead' = "none" /\ (PooledOnce => PooledOnce')
  <2>1. flags' = flags
    BY <1>9 DEF AddUnique, setupVars
  <2>2. DOMAIN pooled' = DOMAIN pooled
        /\ \A d \in DOMAIN pooled : pooled'[d] = pooled[d] \/ pooled'[d] = 1
    BY <1>0, <1>9, AddUniqueInv
  <2>3. PooledOnce => PooledOnce'
    BY <2>2 DEF PooledOnce
  <2> QED BY <1>0, <1>9, <2>1, <2>3, AddUniqueInv
<1>10. CASE SetUpOrRoute
  BY <1>0, <1>1, <1>2, <1>3, <1>4, <1>5, <1>6, <1>10 DEF SetUpOrRoute
<1>11. CASE Gossip
  BY <1>0, <1>7, <1>8, <1>9, <1>11 DEF Gossip, PooledOnce
<1> QED BY <1>10, <1>11 DEF Next

\* Nothing changes, and nothing of this does.
LEMMA StutterKeeps ==
  ASSUME UNCHANGED vars
  PROVE  /\ IInv => IInv'
         /\ flags' = flags /\ dead' = dead
         /\ PooledOnce => PooledOnce'
<1>1. UNCHANGED setupVars /\ UNCHANGED gossipVars /\ lookup' = lookup /\ starting' = starting /\ dead' = dead
  BY DEF vars
<1>2. flags' = flags /\ ready' = ready /\ pooled' = pooled
  BY <1>1 DEF setupVars, gossipVars
<1>3. IInv => IInv'
  <2> SUFFICES ASSUME IInv PROVE IInv'
    OBVIOUS
  <2>1. dead' \in Deaths
    BY <1>1 DEF IInv, SetUpState
  <2> QED BY <1>1, <1>2, <2>1, SetUpStays, LookupStays, GossipStays DEF IInv
<1> QED BY <1>1, <1>2, <1>3 DEF PooledOnce

-----------------------------------------------------------------------------
\* The invariant of the set-up, the lookups and the gossip.
LEMMA AlwaysIInv == FairSpec => []IInv
<1>1. Init => IInv
  BY InitInv
<1>2. IInv /\ [Next]_vars => IInv'
  BY StepKeeps, StutterKeeps
<1> QED BY <1>1, <1>2, PTL DEF FairSpec

\* Types, for a network of any size: no node is asked for the committee it is of
\* (node.go:163).
THEOREM TypeCorrect == FairSpec => []TypeOK
<1>1. IInv => TypeOK
  <2> SUFFICES ASSUME IInv PROVE TypeOK
    OBVIOUS
  <2>1. flags \in Configurations /\ connected \in 0..flags.n /\ assigned \in BOOLEAN /\ dead \in Deaths
        /\ flags.n \in Nat /\ ready \in 0..flags.n
    BY Division DEF IInv, SetUpState
  <2>2. ready \in 0..connected
    BY <2>1 DEF IInv, SetUpState
  <2>3. {lookup.from, lookup.target, lookup.at} \subseteq CommitteesOf(flags) \cup {Unused}
        /\ (lookup.at # Unused => lookup.at # lookup.target)
    BY DEF IInv, LookupState
  <2>4. starting \subseteq Ranks
    BY DEF IInv, GossipState
  <2>5. Ranks # {} => /\ ida \in [Ranks -> SUBSET Packages]
                      /\ net \in [Copies -> Nat] /\ adding \in [Copies -> Nat]
                      /\ pooled \in [Ranks -> Nat]
    BY DEF IInv, GossipState, Ranks
  <2> QED BY <2>1, <2>2, <2>3, <2>4, <2>5 DEF TypeOK
<1> QED BY <1>1, AlwaysIInv, PTL

\* From which flags the network comes up and works: with a tolerance of a half, which
\* is the default, or none, nothing ends a process except for the flags.
THEOREM ComesUp ==
  ASSUME CommitteeF \in 1..2
  PROVE  FairSpec => []DiesOnlyByFlags
<1> DEFINE Blame == dead # "none" => FlagsAreToBlame
<1>1. Init => Blame
  BY DEF Init
<1>2. IInv /\ Blame /\ [Next]_vars => Blame'
  <2> SUFFICES ASSUME IInv, Blame, [Next]_vars PROVE Blame'
    OBVIOUS
  <2>1. flags' = flags /\ (dead' # "none" => FlagsAreToBlame)
    BY StepKeeps, StutterKeeps
  <2> QED BY <2>1 DEF FlagsAreToBlame
<1>3. IInv /\ Blame => DiesOnlyByFlags
  BY AllReady DEF IInv, FlagsAreToBlame, DiesOnlyByFlags
<1> HIDE DEF Blame
<1> QED BY <1>1, <1>2, <1>3, AlwaysIInv, PTL DEF FairSpec

\* Less than a third of the nodes are adversaries (coordinator.go:331-333) when all
\* committees come in pairs of equal size.
THEOREM Resilient == FairSpec => []TotalResiliency
<1>1. IInv => TotalResiliency
  <2> SUFFICES ASSUME IInv, assigned, rest(flags) = 0, flags.m % 2 = 0
               PROVE  3 * Cardinality(AllAdversaries(flags)) < flags.n
    BY DEF TotalResiliency
  <2>1. flags \in Configurations /\ CoordinatorDeath(flags) = "none"
    BY DEF IInv, SetUpState
  <2>2. npm(flags) > 0 /\ flags.m \in Nat \ {0}
    BY <2>1, CoordinatorPassed, Division
  <2>3. PICK h \in Nat \ {0} : flags.m = 2 * h
    <3>1. flags.m \div 2 \in Nat \ {0} /\ flags.m = 2 * (flags.m \div 2)
      BY <2>2
    <3> QED BY <3>1
  <2> QED BY <2>1, <2>2, <2>3, PairsAreResilient
<1> QED BY <1>1, AlwaysIInv, PTL

\* No member pools a transaction twice, however many members start the gossip and
\* however copies of a package race.
THEOREM PooledAtMostOnce == FairSpec => []PooledOnce
<1>1. Init => PooledOnce
  <2>1. DOMAIN <<>> = {}
    OBVIOUS
  <2> QED BY <2>1 DEF Init, PooledOnce
<1>2. IInv /\ PooledOnce /\ [Next]_vars => PooledOnce'
  BY StepKeeps, StutterKeeps
<1> QED BY <1>1, <1>2, AlwaysIInv, PTL DEF FairSpec

\* With a smaller tolerance no network with five or more nodes in a committee comes up.
THEOREM NeverAssigned ==
  ASSUME CommitteeF >= 3
  PROVE  FairSpec => [](npm(flags) >= 5 => ~assigned /\ ready = 0)
<1>1. IInv => (npm(flags) >= 5 => ~assigned /\ ready = 0)
  <2> SUFFICES ASSUME IInv, npm(flags) >= 5 PROVE ~assigned /\ ready = 0
    OBVIOUS
  <2>1. flags \in Configurations /\ flags.n \in Nat /\ ready \in 0..flags.n
    BY Division DEF IInv, SetUpState
  <2>2. ~assigned
    BY <2>1, CoordinatorFails DEF IInv, SetUpState
  <2> QED BY <2>1, <2>2 DEF IInv, SetUpState
<1> QED BY <1>1, AlwaysIInv, PTL
=============================================================================
