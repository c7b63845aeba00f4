----------------------------- MODULE Bootstrap -----------------------------
(***************************************************************************)
(* How the seed node brings a network up and takes it down again           *)
(* (BlockChain/SeedNode, BlockChain/NetWork/NodeTable.go and the node's    *)
(* side in Consensus/frustum/Node.go).  Nodes register; an operator types  *)
(* "sendMem"; two seconds apart the seed node then sends every node the    *)
(* members of its shard, the intra-shard leaders and the global leader, and *)
(* "start" to the global leader.  When that reports MiningStop, ShutDown   *)
(* goes to all and the seed node exits.                                    *)
(*                                                                         *)
(* The seed node is one loop.  What it sends goes through SendMsgCh, which *)
(* the same loop empties, and is then posted by a goroutine, so messages   *)
(* arrive in any order.  Nothing but the two seconds orders the phases.    *)
(***************************************************************************)
EXTENDS Integers, FiniteSets

CONSTANTS
  Nodes,
  ShardOf, NumberOf,   \* the two parts of an ID, "ShardID-InShardID"
  SendCap,             \* the capacity of SendMsgCh
  Hasty                \* the bound on the nodes that register unless it is orderly

ASSUME BootstrapAssumption ==
  /\ IsFiniteSet(Nodes) /\ Nodes # {}
  /\ ShardOf \in [Nodes -> Nat \ {0}] /\ NumberOf \in [Nodes -> Nat \ {0}]
  /\ \A a, b \in Nodes :
       ShardOf[a] = ShardOf[b] /\ NumberOf[a] = NumberOf[b] => a = b
  /\ SendCap \in Nat
  /\ Hasty \subseteq Nodes

VARIABLES
  orderly,       \* the operator types "sendMem" when all nodes have registered, and
                 \* two seconds are enough for all messages of a phase
  registered,    \* the seed node's Peers
  phase,         \* the next command of the bootstrap
  intra,         \* the seed node's table 1024
  global,        \* the seed node's table 1025
  queue,         \* SendMsgCh
  posted,        \* messages on their way to a node
  table,         \* the tables of each node
  role,          \* NodeState.Role
  started,       \* the nodes that have handled "start"
  down,          \* the nodes that have shut down
  seed           \* what has become of the seed node's loop

nodeVars == <<table, role, started, down>>
vars == <<orderly, registered, phase, intra, global, queue, posted, table, role, started,
          down, seed>>

Kinds == {"NodeMember", "IntraLeaderMem", "GlobalLeaderMem", "start", "ShutDown"}
Messages == [kind : Kinds, to : Nodes, members : SUBSET Nodes]

Shards(S) == {ShardOf[n] : n \in S}
InShard(S, s) == {n \in S : ShardOf[n] = s}

\* Log.Random(1, n): never n itself, unless n is 1.
Random(n) == IF n = 1 THEN {1} ELSE 1..n - 1

\* Faulty: only the leaders are told.
ToLeaders(kind, members) == {[kind |-> kind, to |-> n, members |-> members] : n \in intra}

ToAll(kind, members) == {[kind |-> kind, to |-> n, members |-> members] : n \in registered}

Init ==
  /\ orderly \in BOOLEAN
  /\ registered = {}
  /\ phase = "sendMem"
  /\ intra = {} /\ global = {}
  /\ queue = {} /\ posted = {}
  /\ table = [n \in Nodes |-> [shard |-> {}, intra |-> {}, global |-> {}]]
  /\ role = [n \in Nodes |-> "follower"]
  /\ started = {} /\ down = {}
  /\ seed = "running"

-----------------------------------------------------------------------------
\* A node's registration arrives, at whatever time.
Register(n) ==
  /\ seed = "running" /\ n \notin registered
  /\ orderly \/ n \in Hasty
  /\ registered' = registered \cup {n}
  /\ UNCHANGED <<orderly, phase, intra, global, queue, posted, nodeVars, seed>>

Fits(messages) == Cardinality(queue) + Cardinality(messages) <= SendCap

\* A handler writes its messages to SendMsgCh and leaves the next command to a
\* timer.  The loop it runs in is the only reader: a full channel blocks it for ever.
Send(messages, next) ==
  IF Fits(messages)
  THEN queue' = queue \cup messages /\ phase' = next /\ seed' = seed
  ELSE queue' = queue /\ phase' = "none" /\ seed' = "blocked"

\* The commands of the bootstrap, one after the other.
Command(name) ==
  /\ seed = "running" /\ phase = name
  /\ orderly => queue = {} /\ posted = {}

SendMem ==
  /\ Command("sendMem")
  /\ orderly => registered = Nodes
  /\ Send({[kind |-> "NodeMember", to |-> n,
            members |-> InShard(registered, ShardOf[n])] : n \in registered},
          "selectIntraLeader")
  /\ UNCHANGED <<orderly, registered, intra, global, posted, nodeVars>>

\* In every shard the node with a random number becomes the leader, if it exists.
SelectIntraLeader ==
  /\ Command("selectIntraLeader")
  /\ \E number \in [Shards(registered) -> 1..Cardinality(registered)] :
       /\ \A s \in Shards(registered) :
            number[s] \in Random(Cardinality(InShard(registered, s)))
       /\ intra' = {n \in registered : NumberOf[n] = number[ShardOf[n]]}
  /\ Send(ToAll("IntraLeaderMem", intra'), "selectGlobalLeader")
  /\ UNCHANGED <<orderly, registered, global, posted, nodeVars>>

\* Faulty: the leader is looked up by the wrong part of the ID.
ChosenByNumber(number) == {n \in intra : NumberOf[n] = number}

Chosen(number) == {n \in intra : ShardOf[n] = number}

\* The leader of a random shard becomes the global leader, if there is one.  With
\* no leaders at all Random panics.
SelectGlobalLeader ==
  /\ Command("selectGlobalLeader")
  /\ IF intra = {}
     THEN seed' = "crashed" /\ UNCHANGED <<phase, global, queue>>
     ELSE /\ \E number \in Random(Cardinality(intra)) : global' = Chosen(number)
          /\ Send(ToAll("GlobalLeaderMem", global'), "start")
  /\ UNCHANGED <<orderly, registered, intra, posted, nodeVars>>

\* Without a global leader the message has no addressee, and parsing the empty ID
\* panics.
GiveStart ==
  /\ Command("start")
  /\ IF global = {}
     THEN seed' = "crashed" /\ UNCHANGED <<phase, queue>>
     ELSE \E g \in global :
            Send({[kind |-> "start", to |-> g, members |-> {}]}, "mining")
  /\ UNCHANGED <<orderly, registered, intra, global, posted, nodeVars>>

\* The loop hands a message to a goroutine that posts it.
SendMsg(m) ==
  /\ seed \in {"running", "exiting"}
  /\ m \in queue
  /\ queue' = queue \ {m}
  /\ posted' = posted \cup {m}
  /\ UNCHANGED <<orderly, registered, phase, intra, global, nodeVars, seed>>

\* MiningStop arrives from the started node: ShutDown to every node, and after five
\* seconds in which the loop does nothing it finds its exit channel filled.
Exit ==
  /\ seed = "running" /\ phase = "mining" /\ started # {}
  /\ LET messages == ToAll("ShutDown", {})
     IN  IF Fits(messages)
         THEN queue' = queue \cup messages /\ seed' = "exiting"
         ELSE queue' = queue /\ seed' = "blocked"
  /\ phase' = "none"
  /\ UNCHANGED <<orderly, registered, intra, global, posted, nodeVars>>

\* The loop may choose the exit channel before it has emptied SendMsgCh, and the
\* goroutines that have not posted yet end with the process.
Leave ==
  /\ seed = "exiting"
  /\ seed' = "exited"
  /\ posted' \in SUBSET posted
  /\ UNCHANGED <<orderly, registered, phase, intra, global, queue, nodeVars>>

-----------------------------------------------------------------------------
\* The node's side.  A received set replaces the table; being in it gives a role.
HandleShardMsg(m) ==
  LET n == m.to
      Replaced(kind, members) == IF m.kind = kind THEN m.members ELSE members
      entry == [shard  |-> Replaced("NodeMember", table[n].shard),
                intra  |-> Replaced("IntraLeaderMem", table[n].intra),
                global |-> Replaced("GlobalLeaderMem", table[n].global)]
  IN  /\ m.kind \in {"NodeMember", "IntraLeaderMem", "GlobalLeaderMem"}
      /\ table' = [table EXCEPT ![n] = entry]
      /\ role' = [role EXCEPT ![n] =
                    IF n \notin m.members \/ m.kind = "NodeMember" THEN @
                    ELSE IF m.kind = "IntraLeaderMem" THEN "IntraLeader"
                    ELSE "GlobalLeader"]
      /\ UNCHANGED <<started, down>>

HandleStart(m) ==
  /\ m.kind = "start"
  /\ started' = started \cup {m.to}
  /\ UNCHANGED <<table, role, down>>

HandleShutDown(m) ==
  /\ m.kind = "ShutDown"
  /\ down' = down \cup {m.to}
  /\ UNCHANGED <<table, role, started>>

MSGHandle(m) ==
  /\ m \in posted /\ m.to \notin down
  /\ posted' = posted \ {m}
  /\ HandleShardMsg(m) \/ HandleStart(m) \/ HandleShutDown(m)
  /\ UNCHANGED <<orderly, registered, phase, intra, global, queue, seed>>

Next ==
  \/ \E n \in Nodes : Register(n)
  \/ SendMem \/ SelectIntraLeader \/ SelectGlobalLeader \/ GiveStart
  \/ \E m \in queue : SendMsg(m)
  \/ Exit \/ Leave
  \/ \E m \in posted : MSGHandle(m)

Spec == Init /\ [][Next]_vars

-----------------------------------------------------------------------------
TypeOK ==
  /\ orderly \in BOOLEAN
  /\ registered \subseteq Nodes /\ intra \subseteq registered /\ global \subseteq intra
  /\ phase \in {"sendMem", "selectIntraLeader", "selectGlobalLeader", "start",
                "mining", "none"}
  /\ queue \subseteq Messages /\ posted \subseteq Messages
  /\ table \in [Nodes -> [shard : SUBSET Nodes, intra : SUBSET Nodes,
                          global : SUBSET Nodes]]
  /\ role \in [Nodes -> {"follower", "IntraLeader", "GlobalLeader"}]
  /\ started \subseteq Nodes /\ down \subseteq Nodes
  /\ seed \in {"running", "blocked", "crashed", "exiting", "exited"}

\* IDs are given as the start scripts give them: from 1 up, without a gap.
NumbersContiguous ==
  /\ Shards(Nodes) = 1..Cardinality(Shards(Nodes))
  /\ \A s \in Shards(Nodes) :
       {NumberOf[n] : n \in InShard(Nodes, s)} = 1..Cardinality(InShard(Nodes, s))

\* In an orderly bootstrap neither a missing leader nor its own full channel stops
\* the seed node, as long as a message to every node fits.
SeedSurvives ==
  (orderly /\ NumbersContiguous /\ Cardinality(Nodes) <= SendCap)
    => seed \notin {"blocked", "crashed"}

\* In an orderly bootstrap, without overlapping phases, the consensus starts on
\* what it takes for granted (Frustum): every node knows its shard, all know the
\* same committee of one leader for each shard, and the one that starts is its
\* member, the global leader, and the only one with that role.  And the seed node
\* gets that far.
ReadyAtStart ==
  /\ SeedSurvives
  /\ (started # {} /\ orderly /\ NumbersContiguous) =>
       /\ \A n \in Nodes : table[n] = [shard |-> InShard(Nodes, ShardOf[n]),
                                       intra |-> intra, global |-> global]
       /\ \A s \in Shards(Nodes) : Cardinality(InShard(intra, s)) = 1
       /\ started = global /\ Cardinality(global) = 1
       /\ \A n \in Nodes : role[n] = IF n \in global THEN "GlobalLeader"
                                     ELSE IF n \in intra THEN "IntraLeader" ELSE "follower"

\* However late nodes register and messages arrive, at most one node takes itself
\* for the global leader, it is the only one told to start, and all committees
\* that nodes know are the same.
OneGlobalLeader ==
  /\ \A a, b \in Nodes :
       role[a] = "GlobalLeader" /\ role[b] = "GlobalLeader" => a = b
  /\ \A a \in started, b \in Nodes : role[b] = "GlobalLeader" => a = b
  /\ \A a, b \in Nodes : {} \notin {table[a].intra, table[b].intra} =>
                           table[a].intra = table[b].intra

\* A ShutDown to node n has been handed to a goroutine that posts it.
Posted(n) == \E m \in posted : m.to = n /\ m.kind = "ShutDown"

\* The network is taken down only after the mining.  No node is told twice (it would
\* close its exit channel again and panic), and as long as the seed node runs every
\* node it has registered is down, or its ShutDown is posted or still in the channel.
\* What becomes of the ones in the channel, see AllAreTold.
ShutDownOnce ==
  /\ down # {} => started # {}
  /\ \A m \in queue \cup posted : m.kind = "ShutDown" => m.to \notin down
  /\ seed = "exiting" =>
       \A n \in registered \ down :
         Posted(n) \/ \E m \in queue : m.to = n /\ m.kind = "ShutDown"

\* SeedNode.go:132: a broadcast to "all" is for all nodes, so that when the seed node
\* has exited they are down or their ShutDown is posted.  The code does not keep it
\* (README, section 4), and no run checks it: the loop that posts them may take the
\* exit channel first.
AllAreTold ==
  orderly /\ seed = "exited" => \A n \in registered : n \in down \/ Posted(n)
=============================================================================
