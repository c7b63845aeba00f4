-------------------------- MODULE BootstrapProofs --------------------------
(***************************************************************************)
(* Proofs about Bootstrap for every set of nodes, capacity of the channel  *)
(* and order of registrations and messages.  What the phases write they    *)
(* write once, and what is under way agrees with what was written.         *)
(***************************************************************************)
EXTENDS Bootstrap, FiniteSetTheorems, TLAPS

\* Every message that a node may still handle.
Net == queue \cup posted

\* Until the intra-shard leaders are chosen nobody hears of any.
IntraInTime ==
  phase \in {"sendMem", "selectIntraLeader"} =>
    /\ intra = {}
    /\ \A m \in Net : m.kind # "IntraLeaderMem"
    /\ \A n \in Nodes : table[n].intra = {}

\* What is said of the committee is what the seed node has in its table.
IntraKnown ==
  /\ \A m \in Net : m.kind = "IntraLeaderMem" => m.members = intra
  /\ \A n \in Nodes : table[n].intra \in {{}, intra}

\* The same for the global leader, who alone is told to start.
GlobalInTime ==
  phase \in {"sendMem", "selectIntraLeader", "selectGlobalLeader"} =>
    /\ global = {}
    /\ \A m \in Net : m.kind # "GlobalLeaderMem"

\* Everybody who hears of the global leader, or is it, hears of the same.
GlobalKnown ==
  /\ \A m \in Net : m.kind = "GlobalLeaderMem" => m.members = global
  /\ \A m \in Net : m.kind = "start" => m.to \in global
  /\ started \subseteq global
  /\ \A n \in Nodes : role[n] = "GlobalLeader" => n \in global

\* A shard has one leader at most, and so has the network.
LeadersUnique ==
  /\ \A a, b \in intra : ShardOf[a] = ShardOf[b] => a = b
  /\ \A a, b \in global : a = b

\* Nobody is shut down before the start.
ShutDownLate == (\E m \in Net : m.kind = "ShutDown") \/ down # {} => started # {}

\* Nobody hears of the shutdown before the seed node is on its way out, and each
\* node by one message, which is in one place.
ToldOnce ==
  /\ seed \in {"exiting", "exited"} => phase = "none"
  /\ \A m \in Net : m.kind = "ShutDown" => /\ m.members = {} /\ m.to \notin down
                                           /\ seed \in {"exiting", "exited"}
  /\ down # {} => seed \in {"exiting", "exited"}
  /\ \A m \in queue \cap posted : m.kind # "ShutDown"

\* The last part of ShutDownOnce.
Covered ==
  seed = "exiting" =>
    \A n \in registered \ down : \E m \in Net : m.to = n /\ m.kind = "ShutDown"

\* What holds for any arrival of the registrations.
IInv ==
  /\ TypeOK
  /\ IntraInTime /\ IntraKnown
  /\ GlobalInTime /\ GlobalKnown /\ LeadersUnique
  /\ ShutDownLate /\ ToldOnce /\ Covered

-----------------------------------------------------------------------------
\* Nothing is registered, chosen or sent.
LEMMA InitInv == Init => IInv
BY DEF Init, IInv, TypeOK, IntraInTime, IntraKnown, GlobalInTime, GlobalKnown,
       LeadersUnique, ShutDownLate, ToldOnce, Covered, Net

\* A handler's messages are in the channel, or none of them and the loop is blocked.
LEMMA SendFacts ==
  ASSUME NEW messages, NEW next, Send(messages, next)
  PROVE  /\ queue \subseteq queue' /\ queue' \subseteq queue \cup messages
         /\ phase' \in {next, "none"}
         /\ seed' \in {seed, "blocked"}
BY DEF Send

\* A message to all is one to each registered node.
LEMMA ToAllFacts ==
  ASSUME registered \subseteq Nodes, NEW kind \in Kinds, NEW members \in SUBSET Nodes
  PROVE  /\ ToAll(kind, members) \subseteq Messages
         /\ \A m \in ToAll(kind, members) : m.kind = kind /\ m.members = members
         /\ \A n \in registered : \E m \in ToAll(kind, members) : m.to = n
<1>1. \A n \in registered : [kind |-> kind, to |-> n, members |-> members] \in Messages
  BY DEF Messages
<1>2. \A n \in registered :
        LET m == [kind |-> kind, to |-> n, members |-> members]
        IN  m \in ToAll(kind, members) /\ m.to = n
  BY DEF ToAll
<1>3. ToAll(kind, members) \subseteq Messages
  BY <1>1 DEF ToAll
<1>4. \A m \in ToAll(kind, members) : m.kind = kind /\ m.members = members
  BY DEF ToAll
<1>5. \A n \in registered : \E m \in ToAll(kind, members) : m.to = n
  BY <1>2
<1>6. QED
  BY <1>3, <1>4, <1>5

\* A node registers while nothing is being shut down.
LEMMA RegisterInv ==
  ASSUME IInv, NEW n \in Nodes, Register(n)
  PROVE  IInv'
BY DEF IInv, TypeOK, IntraInTime, IntraKnown, GlobalInTime, GlobalKnown,
       LeadersUnique, ShutDownLate, ToldOnce, Covered, Net, Register, nodeVars

\* Before MiningStop nobody is told to shut down by what the seed node sends.
LEMMA BeforeExit ==
  ASSUME IInv, seed = "running", seed' \in {"running", "blocked", "crashed"},
         UNCHANGED <<started, down>>,
         \A m \in Net' : m \in Net \/ m.kind # "ShutDown"
  PROVE  ShutDownLate' /\ ToldOnce' /\ Covered'
<1>1. \A m \in Net' : m.kind # "ShutDown"
  BY DEF IInv, ToldOnce
<1>2. down' = {}
  BY DEF IInv, ToldOnce
<1>3. queue' \cap posted' \subseteq Net'
  BY DEF Net
<1>4. QED
  BY <1>1, <1>2, <1>3 DEF ShutDownLate, ToldOnce, Covered

\* The members of the shards say nothing of leaders.
LEMMA SendMemInv ==
  ASSUME IInv, SendMem
  PROVE  IInv'
<1> DEFINE ms == {[kind |-> "NodeMember", to |-> n,
                   members |-> InShard(registered, ShardOf[n])] : n \in registered}
<1>1. /\ seed = "running" /\ phase = "sendMem"
      /\ Send(ms, "selectIntraLeader")
      /\ UNCHANGED <<orderly, registered, intra, global, posted, nodeVars>>
  BY DEF SendMem, Command
<1>2. ms \subseteq Messages /\ \A m \in ms : m.kind = "NodeMember"
  BY DEF Messages, Kinds, InShard, IInv, TypeOK
<1>3. /\ queue' \subseteq queue \cup ms
      /\ phase' \in {"selectIntraLeader", "none"}
      /\ seed' \in {"running", "blocked"}
  <2> HIDE DEF ms
  <2> QED BY <1>1, SendFacts
<1> HIDE DEF ms
<1>4. TypeOK'
  BY <1>1, <1>2, <1>3 DEF IInv, TypeOK, nodeVars
<1>5. \A m \in Net' : m \in Net \/ m.kind = "NodeMember"
  BY <1>1, <1>2, <1>3 DEF Net
<1>6. IntraInTime' /\ IntraKnown'
  BY <1>1, <1>3, <1>5 DEF IInv, IntraInTime, IntraKnown, nodeVars
<1>7. GlobalInTime' /\ GlobalKnown' /\ LeadersUnique'
  BY <1>1, <1>3, <1>5 DEF IInv, GlobalInTime, GlobalKnown, LeadersUnique, nodeVars
<1>8. ShutDownLate' /\ ToldOnce' /\ Covered'
  BY <1>1, <1>3, <1>5, BeforeExit DEF nodeVars
<1>9. QED
  BY <1>4, <1>6, <1>7, <1>8 DEF IInv

\* The leaders of the shards are chosen when there are none and nobody knows any.
LEMMA SelectIntraLeaderInv ==
  ASSUME IInv, SelectIntraLeader
  PROVE  IInv'
<1>1. /\ seed = "running" /\ phase = "selectIntraLeader"
      /\ Send(ToAll("IntraLeaderMem", intra'), "selectGlobalLeader")
      /\ UNCHANGED <<orderly, registered, global, posted, nodeVars>>
  BY DEF SelectIntraLeader, Command
<1>2. PICK number : intra' = {n \in registered : NumberOf[n] = number[ShardOf[n]]}
  BY DEF SelectIntraLeader
<1>3. intra' \subseteq registered /\ registered \subseteq Nodes
  BY <1>2 DEF IInv, TypeOK
<1>4. /\ ToAll("IntraLeaderMem", intra') \subseteq Messages
      /\ \A m \in ToAll("IntraLeaderMem", intra') :
           m.kind = "IntraLeaderMem" /\ m.members = intra'
  BY <1>3, ToAllFacts DEF Kinds
<1>5. /\ queue' \subseteq queue \cup ToAll("IntraLeaderMem", intra')
      /\ phase' \in {"selectGlobalLeader", "none"}
      /\ seed' \in {"running", "blocked"}
  BY <1>1, SendFacts
<1>6. \A m \in Net' : \/ m \in Net
                      \/ m.kind = "IntraLeaderMem" /\ m.members = intra'
  BY <1>1, <1>4, <1>5 DEF Net
<1>7. global = {} /\ global' = {}
  BY <1>1 DEF IInv, GlobalInTime
<1>8. TypeOK'
  BY <1>1, <1>3, <1>4, <1>5, <1>7 DEF IInv, TypeOK, nodeVars
<1>9. IntraInTime' /\ IntraKnown'
  BY <1>1, <1>5, <1>6 DEF IInv, IntraInTime, IntraKnown, nodeVars
<1>10. GlobalInTime' /\ GlobalKnown'
  BY <1>1, <1>5, <1>6 DEF IInv, GlobalInTime, GlobalKnown, nodeVars
<1>11. LeadersUnique'
  BY <1>2, <1>3, <1>7, BootstrapAssumption DEF LeadersUnique
<1>12. ShutDownLate' /\ ToldOnce' /\ Covered'
  BY <1>1, <1>5, <1>6, BeforeExit DEF nodeVars
<1>13. QED
  BY <1>8, <1>9, <1>10, <1>11, <1>12 DEF IInv

\* The global leader is the one leader of a shard.
LEMMA SelectGlobalLeaderInv ==
  ASSUME IInv, SelectGlobalLeader
  PROVE  IInv'
<1>1. /\ seed = "running" /\ phase = "selectGlobalLeader"
      /\ UNCHANGED <<orderly, registered, intra, posted, nodeVars>>
  BY DEF SelectGlobalLeader, Command
<1>2. CASE intra = {}
  <2>1. seed' = "crashed" /\ UNCHANGED <<phase, global, queue>>
    BY <1>2 DEF SelectGlobalLeader
  <2>2. QED
    BY <1>1, <2>1 DEF IInv, TypeOK, IntraInTime, IntraKnown, GlobalInTime, GlobalKnown,
                      LeadersUnique, ShutDownLate, ToldOnce, Covered, Net, nodeVars
<1>3. CASE intra # {}
  <2>1. PICK number : global' = {n \in intra : ShardOf[n] = number}
    BY <1>3 DEF SelectGlobalLeader, Chosen
  <2>2. Send(ToAll("GlobalLeaderMem", global'), "start")
    BY <1>3 DEF SelectGlobalLeader
  <2>3. /\ global' \subseteq intra /\ intra \subseteq registered
        /\ registered \subseteq Nodes
    BY <2>1 DEF IInv, TypeOK
  <2>4. /\ ToAll("GlobalLeaderMem", global') \subseteq Messages
        /\ \A m \in ToAll("GlobalLeaderMem", global') :
             m.kind = "GlobalLeaderMem" /\ m.members = global'
    BY <2>3, ToAllFacts DEF Kinds
  <2>5. /\ queue' \subseteq queue \cup ToAll("GlobalLeaderMem", global')
        /\ phase' \in {"start", "none"}
        /\ seed' \in {"running", "blocked"}
    BY <1>1, <2>2, SendFacts
  <2>6. \A m \in Net' : \/ m \in Net
                        \/ m.kind = "GlobalLeaderMem" /\ m.members = global'
    BY <1>1, <2>4, <2>5 DEF Net
  <2>7. global = {}
    BY <1>1 DEF IInv, GlobalInTime
  <2>8. TypeOK'
    BY <1>1, <2>3, <2>4, <2>5 DEF IInv, TypeOK, nodeVars
  <2>9. IntraInTime' /\ IntraKnown'
    BY <1>1, <2>5, <2>6 DEF IInv, IntraInTime, IntraKnown, nodeVars
  <2>10. GlobalInTime' /\ GlobalKnown'
    BY <1>1, <2>5, <2>6, <2>7 DEF IInv, GlobalInTime, GlobalKnown, nodeVars
  <2>11. LeadersUnique'
    BY <1>1, <2>1 DEF IInv, LeadersUnique
  <2>12. ShutDownLate' /\ ToldOnce' /\ Covered'
    BY <1>1, <2>5, <2>6, BeforeExit DEF nodeVars
  <2>13. QED
    BY <2>8, <2>9, <2>10, <2>11, <2>12 DEF IInv
<1>4. QED
  BY <1>2, <1>3

\* "start" goes to the global leader.
LEMMA GiveStartInv ==
  ASSUME IInv, GiveStart
  PROVE  IInv'
<1>1. /\ seed = "running" /\ phase = "start"
      /\ UNCHANGED <<orderly, registered, intra, global, posted, nodeVars>>
  BY DEF GiveStart, Command
<1>2. CASE global = {}
  <2>1. seed' = "crashed" /\ UNCHANGED <<phase, queue>>
    BY <1>2 DEF GiveStart
  <2>2. QED
    BY <1>1, <2>1 DEF IInv, TypeOK, IntraInTime, IntraKnown, GlobalInTime, GlobalKnown,
                      LeadersUnique, ShutDownLate, ToldOnce, Covered, Net, nodeVars
<1>3. CASE global # {}
  <2>1. PICK g \in global :
          Send({[kind |-> "start", to |-> g, members |-> {}]}, "mining")
    BY <1>3 DEF GiveStart
  <2> DEFINE s == [kind |-> "start", to |-> g, members |-> {}]
  <2>2. s \in Messages /\ s.kind = "start" /\ s.to \in global
    BY DEF Messages, Kinds, IInv, TypeOK
  <2>3. /\ queue' \subseteq queue \cup {s}
        /\ phase' \in {"mining", "none"}
        /\ seed' \in {"running", "blocked"}
    BY <1>1, <2>1, SendFacts
  <2> HIDE DEF s
  <2>4. TypeOK'
    BY <1>1, <2>2, <2>3 DEF IInv, TypeOK, nodeVars
  <2>5. \A m \in Net' : m \in Net \/ (m.kind = "start" /\ m.to \in global)
    BY <1>1, <2>2, <2>3 DEF Net
  <2>6. IntraInTime' /\ IntraKnown'
    BY <1>1, <2>3, <2>5 DEF IInv, IntraInTime, IntraKnown, nodeVars
  <2>7. GlobalInTime' /\ GlobalKnown' /\ LeadersUnique'
    BY <1>1, <2>3, <2>5 DEF IInv, GlobalInTime, GlobalKnown, LeadersUnique, nodeVars
  <2>8. ShutDownLate' /\ ToldOnce' /\ Covered'
    BY <1>1, <2>3, <2>5, BeforeExit DEF nodeVars
  <2>9. QED
    BY <2>4, <2>6, <2>7, <2>8 DEF IInv
<1>4. QED
  BY <1>2, <1>3

\* A message is posted: it is under way as before.
LEMMA SendMsgInv ==
  ASSUME IInv, NEW m \in queue, SendMsg(m)
  PROVE  IInv'
<1>1. Net' = Net
  BY DEF SendMsg, Net
<1>2. TypeOK'
  BY DEF IInv, TypeOK, SendMsg, nodeVars
<1>3. QED
  BY <1>1, <1>2 DEF IInv, IntraInTime, IntraKnown, GlobalInTime, GlobalKnown,
                    LeadersUnique, ShutDownLate, ToldOnce, Covered, SendMsg, nodeVars

\* The way down: everybody is sent ShutDown, or nobody.
LEMMA ExitInv ==
  ASSUME IInv, Exit
  PROVE  IInv'
<1> DEFINE ms == ToAll("ShutDown", {})
<1>1. /\ ms \subseteq Messages
      /\ \A m \in ms : m.kind = "ShutDown" /\ m.members = {}
      /\ \A n \in registered : \E m \in ms : m.to = n
  BY ToAllFacts DEF IInv, TypeOK, Kinds
<1>2. /\ \/ queue' = queue \cup ms /\ seed' = "exiting"
         \/ queue' = queue /\ seed' = "blocked"
      /\ phase' = "none" /\ started # {} /\ seed = "running"
      /\ UNCHANGED <<orderly, registered, intra, global, posted, nodeVars>>
  BY DEF Exit
<1> HIDE DEF ms
<1>3. \A m \in Net' : m \in Net \/ m.kind = "ShutDown"
  BY <1>1, <1>2 DEF Net
<1>4. TypeOK'
  BY <1>1, <1>2 DEF IInv, TypeOK, nodeVars
<1>5. IntraInTime' /\ IntraKnown'
  BY <1>2, <1>3 DEF IInv, IntraInTime, IntraKnown, nodeVars
<1>6. GlobalInTime' /\ GlobalKnown' /\ LeadersUnique'
  BY <1>2, <1>3 DEF IInv, GlobalInTime, GlobalKnown, LeadersUnique, nodeVars
<1>7. ShutDownLate'
  BY <1>2 DEF ShutDownLate, nodeVars
<1>8. Covered'
  BY <1>1, <1>2 DEF Covered, Net
<1>9. ToldOnce'
  <2>1. down' = {} /\ \A m \in Net : m.kind # "ShutDown"
    BY <1>2 DEF IInv, ToldOnce, nodeVars
  <2>2. CASE queue' = queue /\ seed' = "blocked"
    BY <1>2, <2>1, <2>2 DEF ToldOnce, Net
  <2>3. CASE queue' = queue \cup ms /\ seed' = "exiting"
    BY <1>1, <1>2, <2>1, <2>3 DEF ToldOnce, Net
  <2>4. QED
    BY <1>2, <2>2, <2>3
<1>10. QED
  BY <1>4, <1>5, <1>6, <1>7, <1>8, <1>9 DEF IInv

\* The seed node leaves with whatever its channel still holds.
LEMMA LeaveInv ==
  ASSUME IInv, Leave
  PROVE  IInv'
BY DEF IInv, TypeOK, IntraInTime, IntraKnown, GlobalInTime, GlobalKnown,
       LeadersUnique, ShutDownLate, ToldOnce, Covered, Net, Leave, nodeVars

\* A node handles a message: it learns what the seed node has decided, starts as
\* the global leader, or is down.
LEMMA MSGHandleInv ==
  ASSUME IInv, NEW m \in posted, MSGHandle(m)
  PROVE  IInv'
<1>1. /\ posted' = posted \ {m}
      /\ UNCHANGED <<orderly, registered, phase, intra, global, queue, seed>>
  BY DEF MSGHandle
<1>2. m \in Messages /\ m.to \in Nodes /\ m \in Net
  BY DEF IInv, TypeOK, Messages, Net
<1>3. Net' \subseteq Net /\ Net \subseteq Net' \cup {m}
  BY <1>1 DEF Net
<1>4. LeadersUnique'
  BY <1>1 DEF IInv, LeadersUnique
<1>5. CASE HandleShardMsg(m)
  <2>1. /\ m.kind \in {"NodeMember", "IntraLeaderMem", "GlobalLeaderMem"}
        /\ UNCHANGED <<started, down>>
    BY <1>5 DEF HandleShardMsg
  <2> DEFINE Entries == [shard : SUBSET Nodes, intra : SUBSET Nodes, global : SUBSET Nodes]
             old == table[m.to]
             new == [shard  |-> IF m.kind = "NodeMember" THEN m.members ELSE old.shard,
                     intra  |-> IF m.kind = "IntraLeaderMem" THEN m.members ELSE old.intra,
                     global |-> IF m.kind = "GlobalLeaderMem" THEN m.members
                                                              ELSE old.global]
  <2>2. \E entry \in Entries :
          /\ table' = [table EXCEPT ![m.to] = entry]
          /\ entry.intra = IF m.kind = "IntraLeaderMem" THEN m.members
                                                        ELSE table[m.to].intra
    <3>1. table' = [table EXCEPT ![m.to] = new]
      BY <1>5 DEF HandleShardMsg
    <3>2. old \in Entries /\ m.members \in SUBSET Nodes
      BY <1>2 DEF IInv, TypeOK, Messages
    <3>3. new \in Entries
      BY <3>2
    <3>4. new.intra = IF m.kind = "IntraLeaderMem" THEN m.members ELSE old.intra
      OBVIOUS
    <3>5. QED
      BY <3>1, <3>3, <3>4
  <2>3. \E r \in {"follower", "IntraLeader", "GlobalLeader"} :
          /\ role' = [role EXCEPT ![m.to] = r]
          /\ r = "GlobalLeader" => \/ role[m.to] = "GlobalLeader"
                                   \/ m.kind = "GlobalLeaderMem" /\ m.to \in m.members
    BY <1>2, <1>5 DEF HandleShardMsg, IInv, TypeOK
  <2>4. TypeOK'
    <3>1. table' \in [Nodes -> Entries]
      BY <2>2 DEF IInv, TypeOK
    <3>2. role' \in [Nodes -> {"follower", "IntraLeader", "GlobalLeader"}]
      BY <2>3 DEF IInv, TypeOK
    <3>3. QED
      BY <1>1, <2>1, <3>1, <3>2 DEF IInv, TypeOK
  <2>5. \A n \in Nodes : table'[n].intra = IF n = m.to /\ m.kind = "IntraLeaderMem"
                                           THEN m.members ELSE table[n].intra
    BY <2>2 DEF IInv, TypeOK
  <2>6. \A n \in Nodes : role'[n] = "GlobalLeader" =>
          \/ role[n] = "GlobalLeader"
          \/ n = m.to /\ m.kind = "GlobalLeaderMem" /\ m.to \in m.members
    BY <2>3 DEF IInv, TypeOK
  <2>7. IntraInTime' /\ IntraKnown'
    BY <1>1, <1>2, <1>3, <2>5 DEF IInv, IntraInTime, IntraKnown
  <2>8. GlobalInTime' /\ GlobalKnown'
    BY <1>1, <1>2, <1>3, <2>1, <2>6 DEF IInv, GlobalInTime, GlobalKnown
  <2>9. ShutDownLate' /\ ToldOnce' /\ Covered'
    BY <1>1, <1>3, <2>1 DEF IInv, ShutDownLate, ToldOnce, Covered
  <2>10. QED
    BY <1>4, <2>4, <2>7, <2>8, <2>9 DEF IInv
<1>6. CASE HandleStart(m)
  <2>1. /\ m.kind = "start"
        /\ started' = started \cup {m.to}
        /\ UNCHANGED <<table, role, down>>
    BY <1>6 DEF HandleStart
  <2>2. TypeOK'
    BY <1>1, <1>2, <2>1 DEF IInv, TypeOK
  <2>3. IntraInTime' /\ IntraKnown'
    BY <1>1, <1>3, <2>1 DEF IInv, IntraInTime, IntraKnown
  <2>4. GlobalInTime' /\ GlobalKnown'
    BY <1>1, <1>2, <1>3, <2>1 DEF IInv, GlobalInTime, GlobalKnown
  <2>5. ShutDownLate' /\ ToldOnce' /\ Covered'
    BY <1>1, <1>3, <2>1 DEF IInv, ShutDownLate, ToldOnce, Covered
  <2>6. QED
    BY <1>4, <2>2, <2>3, <2>4, <2>5 DEF IInv
<1>7. CASE HandleShutDown(m)
  <2>1. /\ m.kind = "ShutDown"
        /\ down' = down \cup {m.to}
        /\ UNCHANGED <<table, role, started>>
    BY <1>7 DEF HandleShutDown
  <2>2. TypeOK'
    BY <1>1, <1>2, <2>1 DEF IInv, TypeOK
  <2>3. IntraInTime' /\ IntraKnown'
    BY <1>1, <1>3, <2>1 DEF IInv, IntraInTime, IntraKnown
  <2>4. GlobalInTime' /\ GlobalKnown'
    BY <1>1, <1>3, <2>1 DEF IInv, GlobalInTime, GlobalKnown
  <2>5. ShutDownLate' /\ Covered'
    BY <1>1, <1>2, <1>3, <2>1 DEF IInv, ShutDownLate, Covered
  <2>6. ToldOnce'
    <3>1. seed' \in {"exiting", "exited"} /\ m \notin queue
      BY <1>1, <1>2, <2>1 DEF IInv, ToldOnce
    <3>2. ASSUME NEW other \in Net', other.kind = "ShutDown"
          PROVE  other.members = {} /\ other.to \notin down'
      <4>1. other # m /\ other \in Net /\ other \in Messages
        BY <1>1, <1>3, <3>1 DEF Net, IInv, TypeOK
      <4>2. other.members = {} /\ m.members = {} /\ other.to \notin down
        BY <1>2, <2>1, <3>2, <4>1 DEF IInv, ToldOnce
      <4>3. other.to # m.to
        BY <1>2, <2>1, <3>2, <4>1, <4>2 DEF Messages
      <4>4. QED
        BY <2>1, <4>2, <4>3
    <3>3. QED
      BY <1>1, <3>1, <3>2 DEF IInv, ToldOnce
  <2>7. QED
    BY <1>4, <2>2, <2>3, <2>4, <2>5, <2>6 DEF IInv
<1>8. QED
  BY <1>5, <1>6, <1>7 DEF MSGHandle

\* Every step of the seed node and of a node keeps the inductive invariant.
LEMMA NextInv == IInv /\ [Next]_vars => IInv'
<1>1. SUFFICES ASSUME IInv, [Next]_vars PROVE IInv'
  OBVIOUS
<1>2. CASE UNCHANGED vars
  BY <1>1, <1>2 DEF IInv, TypeOK, IntraInTime, IntraKnown, GlobalInTime, GlobalKnown,
                    LeadersUnique, ShutDownLate, ToldOnce, Covered, Net, vars
<1>3. ASSUME NEW n \in Nodes, Register(n) PROVE IInv'
  BY <1>1, <1>3, RegisterInv
<1>4. CASE SendMem
  BY <1>1, <1>4, SendMemInv
<1>5. CASE SelectIntraLeader
  BY <1>1, <1>5, SelectIntraLeaderInv
<1>6. CASE SelectGlobalLeader
  BY <1>1, <1>6, SelectGlobalLeaderInv
<1>7. CASE GiveStart
  BY <1>1, <1>7, GiveStartInv
<1>8. ASSUME NEW m \in queue, SendMsg(m) PROVE IInv'
  BY <1>1, <1>8, SendMsgInv
<1>9. CASE Exit
  BY <1>1, <1>9, ExitInv
<1>10. CASE Leave
  BY <1>1, <1>10, LeaveInv
<1>11. ASSUME NEW m \in posted, MSGHandle(m) PROVE IInv'
  BY <1>1, <1>11, MSGHandleInv
<1>12. QED
  BY <1>1, <1>2, <1>3, <1>4, <1>5, <1>6, <1>7, <1>8, <1>9, <1>10, <1>11 DEF Next

-----------------------------------------------------------------------------
\* The inductive invariant holds in every reachable state.
THEOREM Invariance == Spec => []IInv
BY InitInv, NextInv, PTL DEF Spec

\* Tables, messages and roles keep their types; the leaders are registered nodes,
\* the global leader one of them (Bootstrap!TypeOK).
THEOREM TypeCorrect == Spec => []TypeOK
<1>1. IInv => TypeOK
  BY DEF IInv
<1>2. QED
  BY <1>1, Invariance, PTL

\* However late nodes register and messages arrive, one node at most takes itself
\* for the global leader or is started, and all know one committee
\* (SeedNode/MsgHandle.go, NodeTable.go).
THEOREM OneLeader == Spec => []OneGlobalLeader
<1>1. IInv => OneGlobalLeader
  BY DEF IInv, IntraKnown, GlobalKnown, LeadersUnique, OneGlobalLeader
<1>2. QED
  BY <1>1, Invariance, PTL

\* The network is taken down after the start only; no node is told twice, and until
\* the seed node has exited it has left out none of those that registered
\* (SeedNode.BroadCast).
THEOREM ToldOnceEach == Spec => []ShutDownOnce
<1>1. IInv => ShutDownOnce
  BY DEF IInv, ShutDownLate, ToldOnce, Covered, Net, ShutDownOnce, Posted
<1>2. QED
  BY <1>1, Invariance, PTL

-----------------------------------------------------------------------------
\* The orderly bootstrap: each phase finds the messages of the one before handled.

\* All messages under way are of one kind.
Only(kind) == \A m \in Net : m.kind = kind

\* A message to node n is under way.
Waits(n) == \E m \in Net : m.to = n

\* Node n has the members of its shard, the shard leaders, the global leader.
KnowsShard(n) == table[n].shard = InShard(Nodes, ShardOf[n])
KnowsIntra(n) == table[n].intra = intra
KnowsGlobal(n) == table[n].global = global

\* Each shard has one leader.
OneEach == \A s \in Shards(Nodes) : Cardinality(InShard(intra, s)) = 1

\* All leaders are chosen, and all nodes know them.
Ready ==
  /\ OneEach /\ Cardinality(global) = 1
  /\ \A n \in Nodes : KnowsShard(n) /\ KnowsIntra(n) /\ KnowsGlobal(n)

\* The role of a node is the one its tables give it.
RoleByTable(n) ==
  IF n \in table[n].global THEN "GlobalLeader"
  ELSE IF n \in table[n].intra THEN "IntraLeader" ELSE "follower"

\* In all phases what is sent of the shards is complete, a role is by the table,
\* and of the global leader nothing is known before it is chosen.
Throughout ==
  /\ phase # "sendMem" => registered = Nodes
  /\ \A m \in Net : m.kind = "NodeMember" => m.members = InShard(Nodes, ShardOf[m.to])
  /\ \A n \in Nodes : role[n] = RoleByTable(n) /\ table[n].global \in {{}, global}
  /\ phase \in {"sendMem", "selectIntraLeader", "selectGlobalLeader"} =>
       \A n \in Nodes : table[n].global = {}

\* Nothing is sent before the members of the shards.
BeforeMembers == phase = "sendMem" => started = {} /\ Net = {}

\* While the shard leaders are awaited, members are all that is under way.
BeforeIntra ==
  phase = "selectIntraLeader" =>
    /\ started = {} /\ Only("NodeMember")
    /\ \A n \in Nodes : KnowsShard(n) \/ Waits(n)

\* While the global leader is awaited, the shard leaders are.
BeforeGlobal ==
  phase = "selectGlobalLeader" =>
    /\ started = {} /\ Only("IntraLeaderMem") /\ OneEach
    /\ \A n \in Nodes : KnowsShard(n) /\ (KnowsIntra(n) \/ Waits(n))

\* Before the start, the global leader is.
BeforeStart ==
  phase = "start" =>
    /\ started = {} /\ Only("GlobalLeaderMem") /\ OneEach /\ Cardinality(global) = 1
    /\ \A n \in Nodes : KnowsShard(n) /\ KnowsIntra(n) /\ (KnowsGlobal(n) \/ Waits(n))

\* "start" is on its way to the global leader, or has been handled.
IsStart(S) == \E g \in global : S = {[kind |-> "start", to |-> g, members |-> {}]}

\* In the mining phase all is known, and "start" is on its way once.
Mining ==
  phase = "mining" =>
    /\ Ready
    /\ \/ started = {} /\ IsStart(queue) /\ posted = {}
       \/ started = {} /\ queue = {} /\ IsStart(posted)
       \/ started = global /\ queue = {} /\ posted = {}

\* The seed node does nothing more: its channel was full, or the mining is over.
InTheEnd ==
  phase = "none" =>
    \/ started = {} /\ Net = {}
    \/ started = global /\ Ready /\ Only("ShutDown")

\* The seed node is stopped by no channel its messages fit in.
Survives == Cardinality(Nodes) <= SendCap => seed \notin {"blocked", "crashed"}

\* What holds of an orderly bootstrap.
Sound ==
  /\ Throughout /\ BeforeMembers /\ BeforeIntra /\ BeforeGlobal /\ BeforeStart
  /\ Mining /\ InTheEnd /\ Survives

\* It does if the shards are numbered without a gap.
OrderlyInv == (orderly /\ NumbersContiguous) => Sound

\* Before the first registration.
LEMMA InitOrderly == Init => OrderlyInv
<1>1. SUFFICES ASSUME Init PROVE Sound
  BY DEF OrderlyInv
<1>2. Throughout
  BY <1>1 DEF Init, Throughout, Net, RoleByTable
<1>3. QED
  BY <1>1, <1>2 DEF Init, Sound, BeforeMembers, BeforeIntra, BeforeGlobal, BeforeStart,
                    Mining, InTheEnd, Survives, Net

\* Messages to different nodes are no more than the nodes.
LEMMA OneMessageEach ==
  ASSUME NEW ms, \A m \in ms : m.to \in Nodes,
         \A a, b \in ms : a.to = b.to => a = b
  PROVE  Cardinality(ms) \in Nat /\ Cardinality(ms) <= Cardinality(Nodes)
<1> DEFINE f == [m \in ms |-> m.to]
<1>1. f \in Injection(ms, Nodes)
  BY DEF Injection, IsInjective
<1>2. IsFiniteSet(Nodes)
  BY BootstrapAssumption
<1>3. IsFiniteSet(ms) /\ Cardinality(ms) <= Cardinality(Nodes)
  BY <1>1, <1>2, FS_Injection
<1>4. QED
  BY <1>3, FS_CardinalityType

\* Sizes that the capacity of the channel is compared with.
LEMMA NodesSize == Cardinality(Nodes) \in Nat /\ Cardinality(Nodes) >= 1 /\ SendCap \in Nat
<1>1. IsFiniteSet(Nodes) /\ Nodes # {} /\ SendCap \in Nat
  BY BootstrapAssumption
<1>2. QED
  BY <1>1, FS_CardinalityType, FS_EmptySet

\* Into an empty channel a phase's messages go, all of them, if there are no more
\* than the channel holds.
LEMMA SendIntoEmpty ==
  ASSUME NEW ms, NEW next, queue = {}, Send(ms, next),
         Cardinality(ms) \in Nat, Cardinality(ms) <= Cardinality(Nodes)
  PROVE  \/ queue' = ms /\ phase' = next /\ seed' = seed
         \/ /\ queue' = {} /\ phase' = "none" /\ seed' = "blocked"
            /\ ~(Cardinality(Nodes) <= SendCap)
<1>1. Cardinality(queue) = 0
  BY FS_EmptySet
<1>2. Fits(ms) <=> Cardinality(ms) <= SendCap
  BY <1>1, NodesSize DEF Fits
<1>3. QED
  BY <1>2, NodesSize DEF Send

\* A message to all, and nothing else, under way.
LEMMA AllWait ==
  ASSUME registered = Nodes, NEW kind, NEW members
  PROVE  /\ \A m \in ToAll(kind, members) : m.kind = kind /\ m.to \in Nodes
         /\ \A n \in Nodes : \E m \in ToAll(kind, members) : m.to = n
         /\ Cardinality(ToAll(kind, members)) \in Nat
         /\ Cardinality(ToAll(kind, members)) <= Cardinality(Nodes)
<1>1. \A m \in ToAll(kind, members) : m.kind = kind /\ m.to \in Nodes
  BY DEF ToAll
<1>2. \A a, b \in ToAll(kind, members) : a.to = b.to => a = b
  BY DEF ToAll
<1>3. \A n \in Nodes :
        LET m == [kind |-> kind, to |-> n, members |-> members]
        IN  m \in ToAll(kind, members) /\ m.to = n
  BY DEF ToAll
<1>4. \A n \in Nodes : \E m \in ToAll(kind, members) : m.to = n
  BY <1>3
<1>5. QED
  BY <1>1, <1>2, <1>4, OneMessageEach

\* Nobody registers once the phases have begun.
LEMMA RegisterOrderly ==
  ASSUME IInv, Sound, NEW n \in Nodes, Register(n)
  PROVE  Sound'
<1>1. /\ phase = "sendMem" /\ seed = "running"
      /\ UNCHANGED <<orderly, phase, intra, global, queue, posted, table, role, started,
                     down, seed>>
  BY DEF Register, nodeVars, Sound, Throughout
<1>2. Throughout'
  BY <1>1 DEF Sound, Throughout, Net, RoleByTable
<1>3. QED
  BY <1>1, <1>2 DEF Sound, BeforeMembers, BeforeIntra, BeforeGlobal, BeforeStart, Mining,
                    InTheEnd, Survives, Net

\* Every node is sent the members of its shard.
LEMMA SendMemOrderly ==
  ASSUME IInv, orderly, Sound, SendMem
  PROVE  Sound'
<1> DEFINE ms == {[kind |-> "NodeMember", to |-> n,
                   members |-> InShard(registered, ShardOf[n])] : n \in registered}
<1>1. /\ seed = "running" /\ phase = "sendMem" /\ registered = Nodes
      /\ queue = {} /\ posted = {} /\ Send(ms, "selectIntraLeader")
      /\ UNCHANGED <<registered, intra, global, posted, table, role, started>>
  BY DEF SendMem, Command, nodeVars
<1>2. /\ \A m \in ms : /\ m.kind = "NodeMember" /\ m.to \in Nodes
                       /\ m.members = InShard(Nodes, ShardOf[m.to])
      /\ \A a, b \in ms : a.to = b.to => a = b
  BY <1>1
<1>3. \A n \in Nodes : \E m \in ms : m.to = n
  <2>1. \A n \in Nodes :
          LET m == [kind |-> "NodeMember", to |-> n,
                    members |-> InShard(registered, ShardOf[n])]
          IN  m \in ms /\ m.to = n
    BY <1>1
  <2>2. QED
    BY <2>1
<1> HIDE DEF ms
<1>4. Cardinality(ms) \in Nat /\ Cardinality(ms) <= Cardinality(Nodes)
  BY <1>2, OneMessageEach
<1>5. \/ queue' = ms /\ phase' = "selectIntraLeader" /\ seed' = "running"
      \/ /\ queue' = {} /\ phase' = "none" /\ seed' = "blocked"
         /\ ~(Cardinality(Nodes) <= SendCap)
  BY <1>1, <1>4, SendIntoEmpty
<1>6. Net' \subseteq ms /\ started' = {} /\ (phase' = "none" => Net' = {})
  BY <1>1, <1>5 DEF Net, Sound, BeforeMembers
<1>7. Throughout'
  BY <1>1, <1>2, <1>5, <1>6 DEF Sound, Throughout, RoleByTable
<1>8. BeforeIntra'
  BY <1>1, <1>2, <1>3, <1>5, <1>6 DEF BeforeIntra, Only, Waits, Net
<1>9. QED
  BY <1>5, <1>6, <1>7, <1>8 DEF Sound, BeforeMembers, BeforeGlobal, BeforeStart, Mining,
                                InTheEnd, Survives

\* A random number is the number of a node of the shard, if numbers have no gap.
LEMMA RandomInRange ==
  ASSUME NEW k \in Nat, k >= 1
  PROVE  Random(k) \subseteq 1..k
BY DEF Random

\* Every shard finds its leader, and is told.
LEMMA SelectIntraLeaderOrderly ==
  ASSUME IInv, orderly, NumbersContiguous, Sound, SelectIntraLeader
  PROVE  Sound'
<1> DEFINE ms == ToAll("IntraLeaderMem", intra')
<1>1. /\ seed = "running" /\ phase = "selectIntraLeader" /\ registered = Nodes
      /\ queue = {} /\ posted = {} /\ Send(ms, "selectGlobalLeader")
      /\ UNCHANGED <<registered, global, posted, table, role, started>>
  BY DEF SelectIntraLeader, Command, nodeVars, Sound, Throughout
<1>2. PICK number :
        /\ \A s \in Shards(registered) :
             number[s] \in Random(Cardinality(InShard(registered, s)))
        /\ intra' = {n \in registered : NumberOf[n] = number[ShardOf[n]]}
  BY DEF SelectIntraLeader
<1>3. OneEach'
  <2>1. SUFFICES ASSUME NEW s \in Shards(Nodes)
                 PROVE  Cardinality(InShard(intra', s)) = 1
    BY DEF OneEach
  <2> DEFINE members == InShard(Nodes, s)
  <2>2. IsFiniteSet(members) /\ members # {}
    <3>1. members \subseteq Nodes /\ IsFiniteSet(Nodes)
      BY BootstrapAssumption DEF InShard
    <3>2. members # {}
      BY <2>1 DEF Shards, InShard
    <3>3. QED
      BY <3>1, <3>2, FS_Subset
  <2>3. Cardinality(members) \in Nat /\ Cardinality(members) >= 1
    BY <2>2, FS_CardinalityType, FS_EmptySet
  <2>4. number[s] \in 1..Cardinality(members)
    BY <1>1, <1>2, <2>1, <2>3, RandomInRange
  <2>5. PICK l \in members : NumberOf[l] = number[s]
    BY <2>1, <2>4 DEF NumbersContiguous
  <2>6. InShard(intra', s) = {l}
    BY <1>1, <1>2, <2>5, BootstrapAssumption DEF InShard
  <2>7. QED
    BY <2>6, FS_Singleton
<1>4. /\ \A m \in ms : m.kind = "IntraLeaderMem" /\ m.to \in Nodes
      /\ \A n \in Nodes : \E m \in ms : m.to = n
      /\ Cardinality(ms) \in Nat /\ Cardinality(ms) <= Cardinality(Nodes)
  BY <1>1, AllWait
<1> HIDE DEF ms
<1>5. \/ queue' = ms /\ phase' = "selectGlobalLeader" /\ seed' = "running"
      \/ /\ queue' = {} /\ phase' = "none" /\ seed' = "blocked"
         /\ ~(Cardinality(Nodes) <= SendCap)
  BY <1>1, <1>4, SendIntoEmpty
<1>6. Net' \subseteq ms /\ started' = {} /\ (phase' = "none" => Net' = {})
  BY <1>1, <1>5 DEF Net, Sound, BeforeIntra
<1>7. Throughout'
  BY <1>1, <1>4, <1>5, <1>6 DEF Sound, Throughout, RoleByTable
<1>8. \A n \in Nodes : KnowsShard(n)'
  <2>1. \A n \in Nodes : ~Waits(n)
    BY <1>1 DEF Waits, Net
  <2>2. QED
    BY <1>1, <2>1 DEF Sound, BeforeIntra, KnowsShard
<1>9. BeforeGlobal'
  BY <1>1, <1>3, <1>4, <1>5, <1>6, <1>8 DEF BeforeGlobal, Only, Waits, Net
<1>10. QED
  BY <1>5, <1>6, <1>7, <1>9 DEF Sound, BeforeMembers, BeforeIntra, BeforeStart, Mining,
                                InTheEnd, Survives

\* There are as many leaders as shards, and shards are numbered without a gap.
LEMMA LeadersAreShards ==
  ASSUME IInv, NumbersContiguous, OneEach
  PROVE  /\ Cardinality(intra) \in Nat /\ Cardinality(intra) >= 1
         /\ Shards(Nodes) = 1..Cardinality(intra)
<1>1. /\ intra \subseteq Nodes /\ IsFiniteSet(Nodes) /\ Nodes # {}
      /\ \A a, b \in intra : ShardOf[a] = ShardOf[b] => a = b
  BY BootstrapAssumption DEF IInv, TypeOK, LeadersUnique
<1>2. IsFiniteSet(intra) /\ Cardinality(intra) \in Nat
  BY <1>1, FS_Subset, FS_CardinalityType
<1> DEFINE f == [n \in intra |-> ShardOf[n]]
<1>3. \A s \in Shards(Nodes) : \E n \in intra : ShardOf[n] = s
  <2>1. SUFFICES ASSUME NEW s \in Shards(Nodes) PROVE \E n \in intra : ShardOf[n] = s
    OBVIOUS
  <2>2. InShard(intra, s) # {}
    BY FS_EmptySet DEF OneEach
  <2>3. QED
    BY <2>2 DEF InShard
<1>4. f \in Bijection(intra, Shards(Nodes))
  <2>1. f \in [intra -> Shards(Nodes)]
    BY <1>1 DEF Shards
  <2>2. f \in Injection(intra, Shards(Nodes))
    BY <1>1, <2>1 DEF Injection, IsInjective
  <2>3. f \in Surjection(intra, Shards(Nodes))
    BY <1>3, <2>1 DEF Surjection
  <2>4. QED
    BY <2>2, <2>3 DEF Bijection
<1>5. Cardinality(Shards(Nodes)) = Cardinality(intra)
  BY <1>2, <1>4, FS_Bijection DEF ExistsBijection
<1>6. Shards(Nodes) # {}
  BY <1>1 DEF Shards
<1>7. intra # {}
  BY <1>3, <1>6
<1>8. QED
  BY <1>2, <1>5, <1>7, FS_EmptySet DEF NumbersContiguous

\* The leader of one shard is chosen, and all are told.
LEMMA SelectGlobalLeaderOrderly ==
  ASSUME IInv, orderly, NumbersContiguous, Sound, SelectGlobalLeader
  PROVE  Sound'
<1> DEFINE ms == ToAll("GlobalLeaderMem", global')
<1>1. /\ seed = "running" /\ phase = "selectGlobalLeader" /\ registered = Nodes
      /\ queue = {} /\ posted = {}
      /\ UNCHANGED <<registered, intra, posted, table, role, started>>
  BY DEF SelectGlobalLeader, Command, nodeVars, Sound, Throughout
<1>2. OneEach /\ started = {}
  BY <1>1 DEF Sound, BeforeGlobal
<1>3. /\ Cardinality(intra) \in Nat /\ Cardinality(intra) >= 1
      /\ Shards(Nodes) = 1..Cardinality(intra)
  BY <1>2, LeadersAreShards
<1>4. intra # {}
  BY <1>3, FS_EmptySet
<1>5. PICK number \in Random(Cardinality(intra)) : global' = InShard(intra, number)
  BY <1>4 DEF SelectGlobalLeader, Chosen, InShard
<1>6. Send(ms, "start")
  BY <1>4 DEF SelectGlobalLeader
<1>7. Cardinality(global') = 1
  BY <1>2, <1>3, <1>5, RandomInRange DEF OneEach
<1>8. /\ \A m \in ms : m.kind = "GlobalLeaderMem" /\ m.to \in Nodes
      /\ \A n \in Nodes : \E m \in ms : m.to = n
      /\ Cardinality(ms) \in Nat /\ Cardinality(ms) <= Cardinality(Nodes)
  BY <1>1, AllWait
<1> HIDE DEF ms
<1>9. \/ queue' = ms /\ phase' = "start" /\ seed' = "running"
      \/ /\ queue' = {} /\ phase' = "none" /\ seed' = "blocked"
         /\ ~(Cardinality(Nodes) <= SendCap)
  BY <1>1, <1>6, <1>8, SendIntoEmpty
<1>10. Net' \subseteq ms /\ started' = {} /\ (phase' = "none" => Net' = {})
  BY <1>1, <1>2, <1>9 DEF Net
<1>11. Throughout'
  BY <1>1, <1>8, <1>9, <1>10 DEF Sound, Throughout, RoleByTable
<1>12. \A n \in Nodes : KnowsShard(n)' /\ KnowsIntra(n)'
  <2>1. \A n \in Nodes : ~Waits(n)
    BY <1>1 DEF Waits, Net
  <2>2. QED
    BY <1>1, <2>1 DEF Sound, BeforeGlobal, KnowsShard, KnowsIntra
<1>13. OneEach'
  BY <1>1, <1>2 DEF OneEach
<1>14. BeforeStart'
  BY <1>1, <1>7, <1>8, <1>9, <1>10, <1>12, <1>13 DEF BeforeStart, Only, Waits, Net
<1>15. QED
  BY <1>9, <1>10, <1>11, <1>14 DEF Sound, BeforeMembers, BeforeIntra, BeforeGlobal, Mining,
                                   InTheEnd, Survives

\* The one global leader is told to start, when all know what it is to start with.
LEMMA GiveStartOrderly ==
  ASSUME IInv, orderly, Sound, GiveStart
  PROVE  Sound'
<1>1. /\ seed = "running" /\ phase = "start" /\ registered = Nodes
      /\ queue = {} /\ posted = {}
      /\ UNCHANGED <<registered, intra, global, posted, table, role, started>>
  BY DEF GiveStart, Command, nodeVars, Sound, Throughout
<1>2. OneEach /\ Cardinality(global) = 1 /\ started = {}
  BY <1>1 DEF Sound, BeforeStart
<1>3. global # {}
  BY <1>2, FS_EmptySet
<1>4. PICK g \in global : Send({[kind |-> "start", to |-> g, members |-> {}]}, "mining")
  BY <1>3 DEF GiveStart
<1> DEFINE m == [kind |-> "start", to |-> g, members |-> {}]
<1>5. m.kind = "start"
  OBVIOUS
<1>6. Send({m}, "mining") /\ IsStart({m})
  BY <1>4 DEF IsStart
<1> HIDE DEF m
<1>7. \/ queue' = {m} /\ phase' = "mining" /\ seed' = "running"
      \/ /\ queue' = {} /\ phase' = "none" /\ seed' = "blocked"
         /\ ~(Cardinality(Nodes) <= SendCap)
  BY <1>1, <1>6, SendIntoEmpty, FS_Singleton, NodesSize
<1>8. Net' \subseteq {m} /\ started' = {} /\ (phase' = "none" => Net' = {})
  BY <1>1, <1>2, <1>7 DEF Net
<1>9. Throughout'
  BY <1>1, <1>5, <1>7, <1>8 DEF Sound, Throughout, RoleByTable
<1>10. \A n \in Nodes : KnowsShard(n)' /\ KnowsIntra(n)' /\ KnowsGlobal(n)'
  <2>1. \A n \in Nodes : ~Waits(n)
    BY <1>1 DEF Waits, Net
  <2>2. QED
    BY <1>1, <2>1 DEF Sound, BeforeStart, KnowsShard, KnowsIntra, KnowsGlobal
<1>11. Ready'
  BY <1>1, <1>2, <1>10 DEF Ready, OneEach
<1>12. Mining'
  BY <1>1, <1>6, <1>7, <1>8, <1>11 DEF Mining, IsStart
<1>13. QED
  BY <1>7, <1>8, <1>9, <1>12 DEF Sound, BeforeMembers, BeforeIntra, BeforeGlobal,
                                 BeforeStart, InTheEnd, Survives

\* A message is posted: it is under way as before.
LEMMA SendMsgOrderly ==
  ASSUME Sound, NEW m \in queue, SendMsg(m)
  PROVE  Sound'
<1>1. /\ queue' = queue \ {m} /\ posted' = posted \cup {m} /\ Net' = Net
      /\ UNCHANGED <<registered, phase, intra, global, table, role, started, seed>>
  BY DEF SendMsg, nodeVars, Net
<1>2. Throughout'
  BY <1>1 DEF Sound, Throughout, RoleByTable
<1>3. BeforeMembers' /\ BeforeIntra' /\ BeforeGlobal' /\ BeforeStart'
  BY <1>1 DEF Sound, BeforeMembers, BeforeIntra, BeforeGlobal, BeforeStart, Only, Waits,
              KnowsShard, KnowsIntra, KnowsGlobal, OneEach
<1>4. Ready' <=> Ready
  BY <1>1 DEF Ready, OneEach, KnowsShard, KnowsIntra, KnowsGlobal
<1>5. Mining'
  BY <1>1, <1>4 DEF Sound, Mining, IsStart
<1>6. InTheEnd'
  BY <1>1, <1>4 DEF Sound, InTheEnd, Only
<1>7. QED
  BY <1>1, <1>2, <1>3, <1>5, <1>6 DEF Sound, Survives

\* The way down begins when nothing else is under way.
LEMMA ExitOrderly ==
  ASSUME IInv, Sound, Exit
  PROVE  Sound'
<1> DEFINE ms == ToAll("ShutDown", {})
<1>1. /\ phase = "mining" /\ started # {} /\ phase' = "none" /\ seed = "running"
      /\ \/ Fits(ms) /\ queue' = queue \cup ms /\ seed' = "exiting"
         \/ ~Fits(ms) /\ queue' = queue /\ seed' = "blocked"
      /\ UNCHANGED <<registered, intra, global, posted, table, role, started>>
  BY DEF Exit, nodeVars
<1>2. /\ registered = Nodes /\ queue = {} /\ posted = {} /\ started = global /\ Ready
  BY <1>1 DEF Sound, Throughout, Mining
<1>3. /\ \A m \in ms : m.kind = "ShutDown"
      /\ Cardinality(ms) \in Nat /\ Cardinality(ms) <= Cardinality(Nodes)
  BY <1>2, AllWait
<1> HIDE DEF ms
<1>4. ~Fits(ms) => ~(Cardinality(Nodes) <= SendCap)
  <2>1. Cardinality(queue) = 0
    BY <1>2, FS_EmptySet
  <2>2. QED
    BY <1>3, <2>1, NodesSize DEF Fits
<1>5. \A m \in Net' : m.kind = "ShutDown"
  BY <1>1, <1>2, <1>3 DEF Net
<1>6. Throughout'
  BY <1>1, <1>2, <1>5 DEF Sound, Throughout, RoleByTable
<1>7. InTheEnd'
  BY <1>1, <1>2, <1>5 DEF InTheEnd, Only, Ready, OneEach, KnowsShard, KnowsIntra,
                          KnowsGlobal
<1>8. QED
  BY <1>1, <1>4, <1>6, <1>7 DEF Sound, BeforeMembers, BeforeIntra, BeforeGlobal,
                                BeforeStart, Mining, Survives

\* The seed node leaves.
LEMMA LeaveOrderly ==
  ASSUME IInv, Sound, Leave
  PROVE  Sound'
<1>1. /\ UNCHANGED <<registered, phase, intra, global, queue, table, role, started>>
      /\ posted' \subseteq posted /\ seed' = "exited" /\ phase = "none"
  BY DEF Leave, nodeVars, IInv, ToldOnce
<1>2. Throughout'
  BY <1>1 DEF Sound, Throughout, RoleByTable, Net
<1>3. BeforeMembers' /\ BeforeIntra' /\ BeforeGlobal' /\ BeforeStart'
  BY <1>1 DEF Sound, BeforeMembers, BeforeIntra, BeforeGlobal, BeforeStart, Only, Waits,
              KnowsShard, KnowsIntra, KnowsGlobal, OneEach, Net
<1>4. Mining' /\ InTheEnd'
  BY <1>1 DEF Sound, Mining, InTheEnd, Ready, OneEach, KnowsShard, KnowsIntra, KnowsGlobal,
              IsStart, Only, Net
<1>5. QED
  BY <1>1, <1>2, <1>3, <1>4 DEF Sound, Survives

\* A node takes over what its phase says, and waits for nothing more.
LEMMA MSGHandleOrderly ==
  ASSUME IInv, Sound, NEW m \in posted, MSGHandle(m)
  PROVE  Sound'
<1>1. /\ posted' = posted \ {m}
      /\ UNCHANGED <<registered, phase, intra, global, queue, seed>>
  BY DEF MSGHandle
<1>2. m \in Messages /\ m.to \in Nodes /\ m \in Net /\ m.members \in SUBSET Nodes
  BY DEF IInv, TypeOK, Messages, Net
<1>3. Net' \subseteq Net /\ Net \subseteq Net' \cup {m}
  BY <1>1 DEF Net
<1>4. Survives'
  BY <1>1 DEF Sound, Survives
<1>5. phase \in {"selectIntraLeader", "selectGlobalLeader", "start", "mining", "none"}
  BY <1>2 DEF Sound, BeforeMembers, IInv, TypeOK
<1>6. \A n \in Nodes : Waits(n) => Waits(n)' \/ n = m.to
  BY <1>3 DEF Waits
<1>7. CASE HandleShardMsg(m)
  <2>1. /\ m.kind \in {"NodeMember", "IntraLeaderMem", "GlobalLeaderMem"}
        /\ UNCHANGED <<started, down>>
    BY <1>7 DEF HandleShardMsg
  <2>2. \/ m.kind = "NodeMember" /\ phase = "selectIntraLeader"
        \/ m.kind = "IntraLeaderMem" /\ phase = "selectGlobalLeader"
        \/ m.kind = "GlobalLeaderMem" /\ phase = "start"
    <3>1. phase # "mining"
      BY <1>2, <2>1 DEF Sound, Mining, IsStart, Net
    <3>2. phase # "none"
      BY <1>2, <2>1 DEF Sound, InTheEnd, Only
    <3>3. QED
      BY <1>2, <1>5, <2>1, <3>1, <3>2 DEF Sound, BeforeIntra, BeforeGlobal, BeforeStart, Only
  <2>3. \E entry :
          /\ table' = [table EXCEPT ![m.to] = entry]
          /\ entry.shard = IF m.kind = "NodeMember" THEN m.members ELSE table[m.to].shard
          /\ entry.intra = IF m.kind = "IntraLeaderMem" THEN m.members ELSE table[m.to].intra
          /\ entry.global = IF m.kind = "GlobalLeaderMem" THEN m.members
                                                          ELSE table[m.to].global
    <3> DEFINE old == table[m.to]
               new == [shard  |-> IF m.kind = "NodeMember" THEN m.members ELSE old.shard,
                       intra  |-> IF m.kind = "IntraLeaderMem" THEN m.members
                                                               ELSE old.intra,
                       global |-> IF m.kind = "GlobalLeaderMem" THEN m.members
                                                                ELSE old.global]
    <3>1. table' = [table EXCEPT ![m.to] = new]
      BY <1>7 DEF HandleShardMsg
    <3>2. /\ new.shard = IF m.kind = "NodeMember" THEN m.members ELSE old.shard
          /\ new.intra = IF m.kind = "IntraLeaderMem" THEN m.members ELSE old.intra
          /\ new.global = IF m.kind = "GlobalLeaderMem" THEN m.members ELSE old.global
      OBVIOUS
    <3> HIDE DEF new
    <3>3. QED
      BY <3>1, <3>2
  <2>4. /\ \A n \in Nodes : n # m.to => table'[n] = table[n] /\ role'[n] = role[n]
        /\ table'[m.to].shard = IF m.kind = "NodeMember" THEN m.members
                                                         ELSE table[m.to].shard
        /\ table'[m.to].intra = IF m.kind = "IntraLeaderMem" THEN m.members
                                                             ELSE table[m.to].intra
        /\ table'[m.to].global = IF m.kind = "GlobalLeaderMem" THEN m.members
                                                               ELSE table[m.to].global
    BY <1>2, <1>7, <2>3 DEF HandleShardMsg, IInv, TypeOK
  <2>5. role'[m.to] = IF m.to \notin m.members \/ m.kind = "NodeMember" THEN role[m.to]
                      ELSE IF m.kind = "IntraLeaderMem" THEN "IntraLeader"
                      ELSE "GlobalLeader"
    BY <1>2, <1>7 DEF HandleShardMsg, IInv, TypeOK
  <2>6. /\ m.kind = "NodeMember" => m.members = InShard(Nodes, ShardOf[m.to])
        /\ m.kind = "IntraLeaderMem" => m.members = intra
        /\ m.kind = "GlobalLeaderMem" => m.members = global
    BY <1>2 DEF Sound, Throughout, IInv, IntraKnown, GlobalKnown
  <2>7. /\ role[m.to] = RoleByTable(m.to)
        /\ table[m.to].global \in {{}, global} /\ table[m.to].intra \in {{}, intra}
        /\ phase \in {"selectIntraLeader", "selectGlobalLeader"} => table[m.to].global = {}
    BY <1>2 DEF Sound, Throughout, IInv, IntraKnown
  <2>8. role'[m.to] = RoleByTable(m.to)'
    BY <2>2, <2>4, <2>5, <2>6, <2>7 DEF RoleByTable
  <2>9. Throughout'
    <3>1. \A n \in Nodes : role'[n] = RoleByTable(n)'
      BY <2>4, <2>8 DEF Sound, Throughout, RoleByTable
    <3>2. \A n \in Nodes : table'[n].global \in {{}, global}
      BY <2>4, <2>6, <2>7 DEF Sound, Throughout
    <3>3. phase \in {"selectIntraLeader", "selectGlobalLeader"} =>
            \A n \in Nodes : table'[n].global = {}
      BY <2>2, <2>4, <2>7 DEF Sound, Throughout
    <3>4. QED
      BY <1>1, <1>3, <1>5, <3>1, <3>2, <3>3 DEF Sound, Throughout
  <2>10. BeforeIntra'
    <3>1. SUFFICES ASSUME phase = "selectIntraLeader" PROVE BeforeIntra'
      BY <1>1 DEF BeforeIntra
    <3>2. \A n \in Nodes : KnowsShard(n)' \/ Waits(n)'
      BY <1>6, <2>2, <2>4, <2>6, <3>1 DEF Sound, BeforeIntra, KnowsShard
    <3>3. QED
      BY <1>1, <1>3, <2>1, <3>1, <3>2 DEF Sound, BeforeIntra, Only
  <2>11. BeforeGlobal'
    <3>1. SUFFICES ASSUME phase = "selectGlobalLeader" PROVE BeforeGlobal'
      BY <1>1 DEF BeforeGlobal
    <3>2. \A n \in Nodes : KnowsShard(n)' /\ (KnowsIntra(n)' \/ Waits(n)')
      BY <1>1, <1>6, <2>2, <2>4, <2>6, <3>1 DEF Sound, BeforeGlobal, KnowsShard, KnowsIntra
    <3>3. QED
      BY <1>1, <1>3, <2>1, <3>1, <3>2 DEF Sound, BeforeGlobal, Only, OneEach
  <2>12. BeforeStart'
    <3>1. SUFFICES ASSUME phase = "start" PROVE BeforeStart'
      BY <1>1 DEF BeforeStart
    <3>2. \A n \in Nodes : KnowsShard(n)' /\ KnowsIntra(n)' /\ (KnowsGlobal(n)' \/ Waits(n)')
      BY <1>1, <1>6, <2>2, <2>4, <2>6, <3>1
         DEF Sound, BeforeStart, KnowsShard, KnowsIntra, KnowsGlobal
    <3>3. QED
      BY <1>1, <1>3, <2>1, <3>1, <3>2 DEF Sound, BeforeStart, Only, OneEach
  <2>13. QED
    BY <1>1, <1>4, <2>2, <2>9, <2>10, <2>11, <2>12
       DEF Sound, BeforeMembers, Mining, InTheEnd
<1>8. CASE ~HandleShardMsg(m)
  <2>1. /\ HandleStart(m) \/ HandleShutDown(m)
        /\ UNCHANGED <<table, role>>
    BY <1>8 DEF MSGHandle, HandleStart, HandleShutDown
  <2>2. m.kind \in {"start", "ShutDown"}
    BY <2>1 DEF HandleStart, HandleShutDown
  <2>3. phase \in {"mining", "none"}
    BY <1>2, <1>5, <2>2 DEF Sound, BeforeIntra, BeforeGlobal, BeforeStart, Only
  <2>4. Throughout'
    BY <1>1, <1>3, <2>1 DEF Sound, Throughout, RoleByTable
  <2>5. Ready' <=> Ready
    BY <1>1, <2>1 DEF Ready, OneEach, KnowsShard, KnowsIntra, KnowsGlobal
  <2>6. CASE phase = "mining"
    <3>1. PICK g \in global :
            m = [kind |-> "start", to |-> g, members |-> {}] /\ posted = {m}
      BY <2>6 DEF Sound, Mining, IsStart
    <3>2. m.kind = "start" /\ m.to = g /\ started = {} /\ queue = {} /\ Ready
      BY <2>6, <3>1 DEF Sound, Mining, IsStart
    <3>3. global = {g}
      BY <3>1 DEF IInv, LeadersUnique
    <3>4. started' = global /\ queue' = {} /\ posted' = {}
      BY <1>1, <2>1, <3>1, <3>2, <3>3 DEF HandleStart, HandleShutDown
    <3>5. QED
      BY <1>1, <1>4, <2>4, <2>5, <2>6, <3>2, <3>4
         DEF Sound, BeforeMembers, BeforeIntra, BeforeGlobal, BeforeStart, Mining, InTheEnd
  <2>7. CASE phase = "none"
    <3>1. Only("ShutDown") /\ started = global /\ Ready
      BY <1>2, <2>7 DEF Sound, InTheEnd
    <3>2. started' = started
      BY <1>2, <2>1, <3>1 DEF HandleStart, HandleShutDown, Only
    <3>3. Only("ShutDown")'
      BY <1>3, <3>1 DEF Only
    <3>4. QED
      BY <1>1, <1>4, <2>4, <2>5, <2>7, <3>1, <3>2, <3>3
         DEF Sound, BeforeMembers, BeforeIntra, BeforeGlobal, BeforeStart, Mining, InTheEnd
  <2>8. QED
    BY <2>3, <2>6, <2>7
<1>9. QED
  BY <1>7, <1>8

\* Every step of an orderly bootstrap keeps its phases in order.
LEMMA NextOrderly == IInv /\ OrderlyInv /\ [Next]_vars => OrderlyInv'
<1>1. SUFFICES ASSUME IInv, orderly, NumbersContiguous, Sound, [Next]_vars PROVE Sound'
  BY DEF OrderlyInv, NumbersContiguous, Next, Register, SendMem, SelectIntraLeader,
         SelectGlobalLeader, GiveStart, SendMsg, Exit, Leave, MSGHandle, vars
<1>2. CASE UNCHANGED vars
  BY <1>1, <1>2 DEF Sound, Throughout, BeforeMembers, BeforeIntra, BeforeGlobal,
                    BeforeStart, Mining, InTheEnd, Survives, Ready, OneEach, KnowsShard,
                    KnowsIntra, KnowsGlobal, Only, Waits, IsStart, RoleByTable, Net, vars
<1>3. ASSUME NEW n \in Nodes, Register(n) PROVE Sound'
  BY <1>1, <1>3, RegisterOrderly
<1>4. CASE SendMem
  BY <1>1, <1>4, SendMemOrderly
<1>5. CASE SelectIntraLeader
  BY <1>1, <1>5, SelectIntraLeaderOrderly
<1>6. CASE SelectGlobalLeader
  BY <1>1, <1>6, SelectGlobalLeaderOrderly
<1>7. CASE GiveStart
  BY <1>1, <1>7, GiveStartOrderly
<1>8. ASSUME NEW m \in queue, SendMsg(m) PROVE Sound'
  BY <1>1, <1>8, SendMsgOrderly
<1>9. CASE Exit
  BY <1>1, <1>9, ExitOrderly
<1>10. CASE Leave
  BY <1>1, <1>10, LeaveOrderly
<1>11. ASSUME NEW m \in posted, MSGHandle(m) PROVE Sound'
  BY <1>1, <1>11, MSGHandleOrderly
<1>12. QED
  BY <1>1, <1>2, <1>3, <1>4, <1>5, <1>6, <1>7, <1>8, <1>9, <1>10, <1>11 DEF Next

\* What an orderly bootstrap starts is what the consensus takes for granted, and
\* the seed node gets that far when a message to every node fits into its channel
\* (SeedNode/MsgHandle.go, frustum/Node.go).
THEOREM StartsReady == Spec => []ReadyAtStart
<1>1. IInv /\ OrderlyInv => ReadyAtStart
  <2>1. SUFFICES ASSUME IInv, OrderlyInv PROVE ReadyAtStart
    OBVIOUS
  <2>2. SeedSurvives
    BY <2>1 DEF OrderlyInv, Sound, Survives, SeedSurvives
  <2>3. ASSUME started # {}, orderly, NumbersContiguous
        PROVE  /\ \A n \in Nodes : table[n] = [shard |-> InShard(Nodes, ShardOf[n]),
                                               intra |-> intra, global |-> global]
               /\ \A s \in Shards(Nodes) : Cardinality(InShard(intra, s)) = 1
               /\ started = global /\ Cardinality(global) = 1
               /\ \A n \in Nodes : role[n] = IF n \in global THEN "GlobalLeader"
                                             ELSE IF n \in intra THEN "IntraLeader"
                                             ELSE "follower"
    <3>1. Sound
      BY <2>1, <2>3 DEF OrderlyInv
    <3>2. phase \in {"mining", "none"}
      BY <2>1, <2>3, <3>1 DEF Sound, BeforeMembers, BeforeIntra, BeforeGlobal, BeforeStart,
                              IInv, TypeOK
    <3>3. Ready /\ started = global
      BY <2>3, <3>1, <3>2 DEF Sound, Mining, InTheEnd
    <3>4. \A n \in Nodes : table[n] = [shard |-> InShard(Nodes, ShardOf[n]),
                                       intra |-> intra, global |-> global]
      <4>1. SUFFICES ASSUME NEW n \in Nodes
                     PROVE  table[n] = [shard |-> InShard(Nodes, ShardOf[n]),
                                        intra |-> intra, global |-> global]
        OBVIOUS
      <4>2. table[n] \in [shard : SUBSET Nodes, intra : SUBSET Nodes, global : SUBSET Nodes]
        BY <2>1 DEF IInv, TypeOK
      <4>3. QED
        BY <3>3, <4>2 DEF Ready, KnowsShard, KnowsIntra, KnowsGlobal
    <3>5. \A n \in Nodes : role[n] = IF n \in global THEN "GlobalLeader"
                                     ELSE IF n \in intra THEN "IntraLeader" ELSE "follower"
      BY <3>1, <3>3 DEF Sound, Throughout, RoleByTable, Ready, KnowsIntra, KnowsGlobal
    <3>6. QED
      BY <3>3, <3>4, <3>5 DEF Ready, OneEach
  <2>4. QED
    BY <2>2, <2>3 DEF ReadyAtStart
<1>2. QED
  BY <1>1, InitOrderly, NextOrderly, Invariance, PTL DEF Spec
=============================================================================
