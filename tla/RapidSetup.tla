----------------------------- MODULE RapidSetup -----------------------------
(* What the coordinator of the RapidChain prototype and the nodes compute     *)
(* from the flags when the network is set up: committees, adversaries, the    *)
(* ring of neighbours, the routing table and the next committee a lookup asks *)
(* (coordinator.go, node-setup.go, kademlia.go).                              *)
(*                                                                            *)
(* A configuration F is a record of the flags n (nodes) and m (committees)    *)
(* and of the identifiers of the committees; nodes and committees are counted *)
(* from 0, as in the code.  A node's rank is its place among the sorted keys  *)
(* of its committee.                                                          *)
EXTENDS Naturals, Integers, FiniteSets, SequencesExt

CONSTANTS
  CommitteeF,      \* the tolerance of a committee is 1/CommitteeF
  xorBigInt(_, _)  \* the exclusive or of two identifiers

ASSUME SetupAssumption == CommitteeF \in Nat \ {0}

CommitteesOf(F) == 0..(F.m - 1)

NodesOf(F) == 0..(F.n - 1)

Ceiling(a, b) == (a + b - 1) \div b

\* The powers of two.
Power[e \in Nat] == IF e = 0 THEN 1 ELSE 2 * Power[e - 1]

LogTwo(k) == CHOOSE e \in 0..k : Power[e] <= k /\ k < Power[e + 1]

-----------------------------------------------------------------------------
(* Committees and adversaries.                                               *)

npm(F) == F.n \div F.m

rest(F) == F.n % F.m

\* A new committee begins at every multiple of npm, except where only the rest
\* is left.
CommitteeOf(F, i) ==
  Cardinality({j \in 1..i : j % npm(F) = 0 /\ j # F.n - rest(F)})

\* Faulty: close to half of every committee, not of every other one, are.
IsAdversaryInAll(F, i) ==
  LET f == npm(F) \div 2 - IF npm(F) % 2 = 0 THEN 1 ELSE 0
  IN  npm(F) = 0 \/ i % npm(F) < f

\* The first nodes of a batch of t_npm are adversaries: less than half of it in
\* every other committee, less than a sixth in the others.  Only the first node
\* of the rest sees the size of the last committee.
IsAdversary(F, i) ==
  LET t_npm == IF i # 0 /\ i % npm(F) = 0 /\ i = F.n - rest(F)
                 THEN npm(F) + rest(F) ELSE npm(F)
      div == IF CommitteeOf(F, i) % 2 = 0 THEN 2 ELSE 6
      f == t_npm \div div - IF t_npm % div = 0 THEN 1 ELSE 0
  IN  t_npm = 0 \/ i % t_npm < f

Members(F, c) == {i \in NodesOf(F) : CommitteeOf(F, i) = c}

Adversaries(F, c) == {i \in Members(F, c) : IsAdversary(F, i)}

AllAdversaries(F) == {i \in NodesOf(F) : IsAdversary(F, i)}

\* What ends the coordinator; the checks come after all nodes are assigned.  The
\* last check divides integers: nothing is below 1 / totalF, which is 0.
CoordinatorDeath(F) ==
  IF npm(F) = 0 /\ F.n > 1 THEN "division by zero"
  ELSE IF npm(F) > 0 /\ CommitteeOf(F, F.n - 1) >= F.m THEN "index out of range"
  ELSE IF \E c \in CommitteesOf(F) :
            Cardinality(Members(F, c)) \notin {npm(F), npm(F) + rest(F)} THEN "wrong size"
  ELSE IF \E c \in CommitteesOf(F) :
            Cardinality(Adversaries(F, c)) >= Ceiling(Cardinality(Members(F, c)), CommitteeF)
         THEN "too many adversaries"
  ELSE IF npm(F) # 1 /\ AllAdversaries(F) = {} THEN "division by zero"
  ELSE "none"

-----------------------------------------------------------------------------
(* The ring of neighbours, by the ranks of a committee of size members.      *)

\* The logarithm of the size, rounded down to an even number.
Degree(size) == 2 * (LogTwo(size) \div 2)

\* The neighbours of the member of rank r: the others in 2^i - 1 places after
\* its own place, in their sorted list, which leaves the member itself out.
Neighbours(size, r) ==
  [i \in 1..Degree(size) |->
     LET dist == (Power[i - 1] - 1 + r) % (size - 1)
     IN  IF dist < r THEN dist ELSE dist + 1]

-----------------------------------------------------------------------------
(* The routing table of committee c: the members of the committee agree on it. *)

ID(F, c) == F.ids[c + 1]

Distance(F, c, d) == xorBigInt(ID(F, c), ID(F, d))

Unused == -1

TableLength(m) == IF Power[LogTwo(m)] = m THEN LogTwo(m) + 1 ELSE LogTwo(m) + 2

\* The other committees, the closest first.
ByDistance(F, c) ==
  LET others == CommitteesOf(F) \ {c}
      Closer(d) == {e \in others : Distance(F, c, e) < Distance(F, c, d)}
  IN  [k \in 1..Cardinality(others) |-> CHOOSE d \in others : Cardinality(Closer(d)) = k - 1]

\* Faulty: the last committee is not added when it is not at a power of two.
RoutingTableOfPowers(F, c) ==
  LET xored == ByDistance(F, c)
  IN  [i \in 1..TableLength(F.m) |->
         IF Power[i - 1] > Len(xored) THEN Unused ELSE xored[Power[i - 1]]]

\* The committees of the table: those in 2^i - 1 places and the last.  The length
\* of the table is computed apart: an entry may be left.
RoutingTable(F, c) ==
  LET xored == ByDistance(F, c)
      used == CHOOSE k \in 1..F.m :
                Power[k - 1] >= Len(xored) /\ \A j \in 1..(k - 1) : Power[j - 1] < Len(xored)
  IN  [i \in 1..TableLength(F.m) |->
         IF i > used THEN Unused
         ELSE xored[IF Power[i - 1] >= Len(xored) THEN Len(xored) ELSE Power[i - 1]]]

InTable(F, c) == Range(RoutingTable(F, c)) \ {Unused}

\* How many of its members a node knows: the logarithm of the size, rounded up
\* (for sizes up to 20).
Per(size) ==
  CASE size = 1 -> 0 [] size = 2 -> 1 [] size \in 3..7 -> 2 [] size >= 8 -> 3

\* What ends a node of committee c: there is no other committee, or one of which
\* it would know nobody.
SetUpDeath(F, c) ==
  IF F.m = 1 THEN "index out of range"
  ELSE IF \E d \in InTable(F, c) : Per(Cardinality(Members(F, d))) = 0 THEN "per was 0"
  ELSE "none"

-----------------------------------------------------------------------------
(* A lookup.  Distances are compared as numbers, from the committee that asks. *)

\* Committee c looks for target, which is not in its table: the walk along the
\* table goes on while target is further away than the next entry, and takes the
\* nearer of the two entries it then stands between.  Unused stands for errFatal
\* and for the nil identifier of an entry left over.
findClosestsCommittee(F, c, target) ==
  LET r == RoutingTable(F, c)
      xored == Distance(F, c, target)
      curr(k) == Distance(F, c, r[k])
      GoesOn(k) == /\ k < Len(r) /\ r[k + 1] # Unused
                   /\ curr(k) < xored /\ curr(k + 1) < xored
      i == CHOOSE k \in DOMAIN r : ~GoesOn(k) /\ \A j \in 1..(k - 1) : GoesOn(j)
  IN  IF i = Len(r) THEN IF curr(i) < xored THEN r[i] ELSE Unused
      ELSE IF r[i + 1] = Unused \/ xored \notin (curr(i) + 1)..(curr(i + 1) - 1) THEN Unused
      ELSE IF xored - curr(i) < curr(i + 1) - xored THEN r[i] ELSE r[i + 1]

\* The committee that is asked, or that a committee which is asked names.
handleFindNode(F, c, target) ==
  IF target \in InTable(F, c) THEN target ELSE findClosestsCommittee(F, c, target)
=============================================================================
