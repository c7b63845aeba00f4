---------------------------- MODULE RapidOverlay ----------------------------
(* The network of the RapidChain prototype: the coordinator waits for the     *)
(* nodes, divides them into committees and starts them; a transaction is      *)
(* routed to its committee, asking one committee after the other for the way  *)
(* (kademlia.go), and spread in it in erasure-coded packages of chunks        *)
(* (ida-gossip.go).                                                           *)
(*                                                                            *)
(* Followed are one transaction and, of the members of its committee, what    *)
(* their goroutines do to idaMsgs, reconstructedIdaMsgs and txPool.  Chunks   *)
(* and proofs are those of an honest initiator: a package is known by its     *)
(* place in the sequence of packages, the same for every initiator.  The      *)
(* first death ends the model.                                                *)
EXTENDS RapidSetup

CONSTANTS
  Configurations,   \* the flags and the committees' identifiers
  Gossips           \* those whose gossip is followed (a bound), besides those
                    \* where it fails at once

\* Committees have different identifiers, and so are their distances from any other.
ASSUME OverlayAssumption ==
  \A F \in Configurations :
    /\ F.n \in Nat \ {0} /\ F.m \in Nat \ {0}
    /\ \A c, d, e \in CommitteesOf(F) :
         /\ Distance(F, c, d) \in Nat
         /\ Distance(F, c, d) = Distance(F, c, e) => d = e

VARIABLES
  flags,      \* flagArgs, and the identifiers the coordinator draws
  connected,  \* how many nodes have registered with the coordinator
  assigned,   \* whether it has answered them
  ready,      \* how many nodes have set themselves up
  lookup,     \* the way of the transaction: from which committee to which, and
              \* which one is asked for it
  starting,   \* the members of the target it is on its way to
  net,        \* the packages on their way to each member, as many copies
  adding,     \* the goroutines that found their package unique and add it
  ida,        \* idaMsgs: the packages each member has
  pooled,     \* how often it has reconstructed and pooled the transaction
  dead        \* what has ended the coordinator or a node

setupVars == <<flags, connected, assigned, ready>>

gossipVars == <<net, adding, ida, pooled>>

vars == <<setupVars, lookup, starting, gossipVars, dead>>

NoLookup == [from |-> Unused, target |-> Unused, at |-> Unused, found |-> FALSE]

Init ==
  /\ flags \in Configurations
  /\ connected = 0 /\ assigned = FALSE /\ ready = 0
  /\ lookup = NoLookup /\ starting = {}
  /\ net = <<>> /\ adding = <<>> /\ ida = <<>> /\ pooled = <<>>
  /\ dead = "none"

-----------------------------------------------------------------------------
(* Set-up.                                                                   *)

\* A node connects and its identity is passed on to the coordinator.
Register ==
  /\ connected < flags.n
  /\ connected' = connected + 1
  /\ UNCHANGED <<flags, assigned, ready, lookup, starting, gossipVars, dead>>

\* All have: the coordinator divides the nodes, checks, and answers all of them.
Coordinate ==
  /\ connected = flags.n /\ ~assigned
  /\ dead' = CoordinatorDeath(flags)
  /\ assigned' = (dead' = "none")
  /\ UNCHANGED <<flags, connected, ready, lookup, starting, gossipVars>>

\* A node makes its routing table and its list of neighbours.  Nodes do this on
\* their own; here, in the coordinator's order.
SetUp ==
  /\ assigned /\ ready < flags.n
  /\ dead' = SetUpDeath(flags, CommitteeOf(flags, ready))
  /\ ready' = ready + 1
  /\ UNCHANGED <<flags, connected, assigned, lookup, starting, gossipVars>>

-----------------------------------------------------------------------------
(* Gossip in the committee of the transaction.                               *)

default_kappa == 128

default_parity == 80

\* The members of that committee, by rank.
Ranks == DOMAIN ida

Size == Cardinality(Ranks)

Packages == 1..Degree(Size)

Copies == Ranks \X Packages

chunksToEach == (default_kappa + default_parity) \div Degree(Size)

Enough(packages) == Cardinality(packages) * chunksToEach >= default_kappa

\* A copy of a package the member has, or of a message it can reconstruct, is
\* thrown away whenever it arrives: such copies are not followed.
UnderWay(have, copies) ==
  [x \in Copies |-> IF x[2] \in have[x[1]] \/ Enough(have[x[1]]) THEN 0 ELSE copies[x]]

Sent(sends) == [x \in Copies |-> net[x] + IF x \in sends THEN 1 ELSE 0]

\* Faulty: a package is passed on to the second neighbour only.
gossipSendToSecond(d, p) == {<<Neighbours(Size, d)[2], p>>}

gossipSend(d, p) == {<<Neighbours(Size, d)[i], p>> : i \in Packages}

\* A member that receives the transaction starts the gossip: every neighbour
\* gets a package of its own.
IDAGossip(r) ==
  /\ r \in starting
  /\ starting' = starting \ {r}
  /\ IF Degree(Size) = 0
       THEN dead' = "no neighbours" /\ UNCHANGED net
       ELSE /\ net' = UnderWay(ida, Sent({<<Neighbours(Size, r)[i], i>> : i \in Packages}))
            /\ UNCHANGED dead
  /\ UNCHANGED <<setupVars, lookup, adding, ida, pooled>>

\* The first package is added and passed on under one lock; later ones are looked
\* for among those the member has, and the lock is released before they are added.
handleIDAGossipMsg(d, p) ==
  /\ net[<<d, p>>] > 0
  /\ LET left == [net EXCEPT ![<<d, p>>] = @ - 1] IN
       IF ida[d] = {}
         THEN /\ ida' = [ida EXCEPT ![d] = {p}]
              /\ net' = UnderWay(ida', [x \in Copies |->
                          left[x] + IF x \in gossipSend(d, p) THEN 1 ELSE 0])
              /\ UNCHANGED adding
         ELSE /\ adding' = [adding EXCEPT ![<<d, p>>] = @ + 1]
              /\ net' = left
              /\ UNCHANGED ida
  /\ UNCHANGED <<setupVars, lookup, starting, pooled, dead>>

\* Faulty: it is added without a look.
safeAddAlways(d) == TRUE

\* Whether the reconstructed message is new.
safeAdd(d) == pooled[d] = 0

\* The package is added; with enough of them the message is reconstructed, and
\* pooled if it is new.  The package is passed on in any case.
AddUnique(d, p) ==
  /\ adding[<<d, p>>] > 0
  /\ adding' = [adding EXCEPT ![<<d, p>>] = @ - 1]
  /\ ida' = [ida EXCEPT ![d] = @ \cup {p}]
  /\ pooled' = [pooled EXCEPT ![d] = IF Enough(ida'[d]) /\ safeAdd(d) THEN @ + 1 ELSE @]
  /\ net' = UnderWay(ida', Sent(gossipSend(d, p)))
  /\ UNCHANGED <<setupVars, lookup, starting, dead>>

-----------------------------------------------------------------------------
(* Routing.                                                                  *)

\* The client sends the transaction to a node of some committee.
ReceiveTransaction(from, target) ==
  /\ ready = flags.n /\ lookup = NoLookup
  /\ lookup' = [NoLookup EXCEPT !.from = from, !.target = target]
  /\ UNCHANGED <<setupVars, starting, dead>>
  /\ ida' = [r \in 0..(Cardinality(Members(flags, target)) - 1) |-> {}]
  /\ pooled' = [r \in Ranks' |-> 0]
  /\ net' = [x \in Copies' |-> 0]
  /\ adding' = net'

\* The transaction is sent to members of its committee, and the way forgotten.
Found(members) ==
  /\ lookup' = [NoLookup EXCEPT !.found = TRUE]
  /\ starting' = IF flags \in Gossips \/ Degree(Size) = 0 THEN members ELSE {}
  /\ UNCHANGED dead

Asked(c) ==
  /\ lookup' = [lookup EXCEPT !.at = c]
  /\ dead' = IF c = Unused THEN "findNode" ELSE "none"
  /\ UNCHANGED starting

\* The node that got it is of the right committee, has it in its table, or asks
\* members of the closest committee it has.
routeTx ==
  /\ lookup # NoLookup /\ ~lookup.found /\ lookup.at = Unused
  /\ IF lookup.from = lookup.target THEN \E r \in Ranks : Found({r})
     ELSE IF lookup.target \in InTable(flags, lookup.from)
       THEN \E members \in kSubset(Per(Size), Ranks) : Found(members)
     ELSE Asked(findClosestsCommittee(flags, lookup.from, lookup.target))
  /\ UNCHANGED <<setupVars, gossipVars>>

\* Faulty: members of the target are asked once more.
IsFoundByItself(c) == c = lookup.at

\* Whether the committee a lookup was led to is the one it looks for.
IsFound(c) == c = lookup.target

\* The members that are asked know some of the target, or name members of the
\* committee to ask next.
recursiveFindNode ==
  /\ ~lookup.found /\ lookup.at # Unused
  /\ LET c == handleFindNode(flags, lookup.at, lookup.target) IN
       IF IsFound(c) THEN \E members \in SUBSET Ranks :
                            Cardinality(members) >= Per(Size) /\ Found(members)
       ELSE Asked(c)
  /\ UNCHANGED <<setupVars, gossipVars>>

-----------------------------------------------------------------------------
SetUpOrRoute ==
  /\ dead = "none"
  /\ \/ Register
     \/ Coordinate
     \/ SetUp
     \/ \E from, target \in CommitteesOf(flags) : ReceiveTransaction(from, target)
     \/ routeTx
     \/ recursiveFindNode

Gossip ==
  /\ dead = "none"
  /\ \/ \E r \in starting : IDAGossip(r)
     \/ \E x \in DOMAIN net : handleIDAGossipMsg(x[1], x[2])
     \/ \E x \in DOMAIN adding : AddUnique(x[1], x[2])

Next == SetUpOrRoute \/ Gossip

\* What has been sent is received, and goroutines get on.
FairSpec == Init /\ [][Next]_vars /\ WF_vars(Gossip)

-----------------------------------------------------------------------------
\* How a process may end: in a check of the coordinator, while a node sets itself up,
\* in a lookup, in the gossip.
Deaths == {"none", "division by zero", "index out of range", "wrong size",
           "too many adversaries", "per was 0", "findNode", "no neighbours"}

\* Types.  Nobody is asked for the committee it is of: node.go:163 ends a node
\* that is.
TypeOK ==
  /\ flags \in Configurations
  /\ connected \in 0..flags.n /\ ready \in 0..connected
  /\ assigned \in BOOLEAN
  /\ {lookup.from, lookup.target, lookup.at} \subseteq CommitteesOf(flags) \cup {Unused}
  /\ lookup.at # Unused => lookup.at # lookup.target
  /\ starting \subseteq Ranks
  /\ Ranks # {} => /\ ida \in [Ranks -> SUBSET Packages]
                   /\ net \in [Copies -> Nat] /\ adding \in [Copies -> Nat]
                   /\ pooled \in [Ranks -> Nat]
  /\ dead \in Deaths

\* What the flags must be for the network to come up and work: with a tolerance
\* of a half, at least two committees of at least four, the rest no larger than a
\* committee and, when there is a rest, an even number of committees, nothing ends
\* a process: neither the checks of the coordinator (coordinator.go:377-394), nor
\* the set-up of a node, nor the lookups (kademlia.go:79-112, node.go:163), nor
\* the gossip.  Never are all nodes set up with one committee, fewer than two
\* nodes in each, or more left over than there are in one.
DiesOnlyByFlags ==
  /\ dead # "none" =>
       \/ flags.m = 1
       \/ npm(flags) < 4
       \/ rest(flags) > npm(flags)
       \/ rest(flags) # 0 /\ flags.m % 2 = 1
  /\ dead = "none" /\ ready = flags.n =>
       flags.m > 1 /\ npm(flags) >= 2 /\ rest(flags) <= npm(flags)

\* coordinator.go:331-333: every other committee has close to half adversaries,
\* the others close to a sixth, which makes a third of all nodes.  So it is, the
\* check of line 391 being void, when committees come in pairs of equal size.
TotalResiliency ==
  assigned /\ ready = 0 /\ rest(flags) = 0 /\ flags.m % 2 = 0
    => 3 * Cardinality(AllAdversaries(flags)) < flags.n

\* Copies of a package that race through the check for unique ones, from several
\* members that start the gossip, never make a member pool a transaction twice.
PooledOnce == \A d \in DOMAIN pooled : pooled[d] <= 1

\* Although a member that has enough passes nothing on, and whoever starts the
\* gossip keeps nothing, all members of the committee pool the transaction.
AllPool ==
  starting # {} ~> (dead # "none" \/ \A d \in DOMAIN pooled : pooled[d] = 1)
=============================================================================
