---------------------------- MODULE RaftElection ----------------------------
(***************************************************************************)
(* The election of intra-shard leaders in BlockChain/Consensus/SS-Raft.    *)
(* Every node is three threads that share its term and its role without a  *)
(* lock, and each of their reads and writes of these is a step:            *)
(*   - the main loop (Node.Run), which handles messages one at a time;     *)
(*   - the heartbeat time-out, started once by "start", which makes the    *)
(*     node a candidate;                                                   *)
(*   - the checker, started when the node stands, which counts the votes.  *)
(* One read and the write it leads to are taken together: the main loop's  *)
(* in RespondStartVote.  The only writer in between is the time-out thread, *)
(* and what it writes, one more than an earlier term, is at most the term   *)
(* of the candidate: if less, the write may as well come before the read,  *)
(* and if equal, after it.  A leader reports to the seed node, which       *)
(* announces the leaders.                                                  *)
(*                                                                         *)
(* BlockHeight is 0 on every node until the seed node starts the mining,   *)
(* which is outside of this module, so no vote is refused for it here.     *)
(* IntraLeader, where a node forwards transactions to, is left out too.    *)
(***************************************************************************)
EXTENDS Integers, FiniteSets

CONSTANTS
  Nodes,          \* the nodes, without the seed node
  ShardOf,        \* the shard of each node
  ConsensusType,  \* "Raft": one election for all nodes; "SS-Raft": one a shard
  MaxCandidates   \* the bound on the nodes that are started, and so may stand

ASSUME RaftAssumption ==
  /\ IsFiniteSet(Nodes)
  /\ ConsensusType \in {"Raft", "SS-Raft"}
  /\ MaxCandidates \in Nat

VARIABLES
  role,        \* IntraRole
  term,        \* IntraTerm
  voted,       \* IntraCandiStat: whom the node voted for last, and in which term
  answering,   \* the candidates the main loop has accepted and not yet answered
  yielding,    \* the candidates whose main loop has a heartbeat to follow
  timer,       \* where the time-out thread stands
  read,        \* the term it has read, before it writes it back incremented
  checker,     \* where the counting thread stands
  votes,       \* Q1CheckMsgCh: votes waiting to be counted
  counting,    \* the vote in the hands of the counting thread
  count,       \* IntraQ1Count
  sent,        \* every message posted so far
  handled,     \* those the main loops have taken
  registered,  \* the seed node's ShardLeaders
  announced    \* the seed node has sent the leaders to all nodes

timeOutVars == <<timer, read>>
mainVars == <<answering, yielding>>
countVars == <<checker, votes, counting, count>>
netVars == <<sent, handled>>
seedVars == <<registered, announced>>
vars == <<role, term, voted, answering, yielding, timer, read, checker, votes,
          counting, count, sent, handled, registered, announced>>

\* A term is made by a node that stands, which it does once.
Terms == 0..MaxCandidates

Messages == [type : {"StartVote", "ConfirmStartVote"}, from : Nodes, to : Nodes,
             term : Terms]

\* The members that elect a leader together with n.
Scope(n) ==
  IF ConsensusType = "Raft" THEN Nodes
                            ELSE {m \in Nodes : ShardOf[m] = ShardOf[n]}

\* Faulty: one member too few.
Q1WithoutSelf(n) == (Cardinality(Scope(n)) - 1) \div 2

\* The votes a candidate needs from others.  In Raft mode the seed node has been
\* deleted from AllNode when the checker subtracts it from the size once more.
Q1(n) ==
  IF ConsensusType = "Raft" THEN (Cardinality(Nodes) - 1) \div 2
                            ELSE Cardinality(Scope(n)) \div 2

Init ==
  /\ role = [n \in Nodes |-> "intraFollower"]
  /\ term = [n \in Nodes |-> 0]
  /\ voted = [n \in Nodes |-> [id |-> {}, term |-> 0]]
  /\ answering = [n \in Nodes |-> {}]
  /\ yielding = {}
  /\ timer = [n \in Nodes |-> "idle"]
  /\ read = [n \in Nodes |-> 0]
  /\ checker = [n \in Nodes |-> "none"]
  /\ votes = [n \in Nodes |-> {}]
  /\ counting = [n \in Nodes |-> {}]
  /\ count = [n \in Nodes |-> [count |-> 0, term |-> 0]]
  /\ sent = {}
  /\ handled = {}
  /\ registered = {}
  /\ announced = FALSE

\* The main loop is ready for the next message.
Idle(n) == answering[n] = {} /\ n \notin yielding

-----------------------------------------------------------------------------
\* The time-out thread.  "start" launches it; to a node whose time-out never comes
\* it makes no difference.
Candidates == {n \in Nodes : timer[n] # "idle"}

HandleStart(n) ==
  /\ Idle(n) /\ timer[n] = "idle"
  /\ Cardinality(Candidates) < MaxCandidates
  /\ timer' = [timer EXCEPT ![n] = "running"]
  /\ UNCHANGED <<role, term, voted, mainVars, read, countVars, netVars, seedVars>>

\* No heartbeat and no StartVote has reset the ticker in time.
HeartBeatTimeOut(n) ==
  /\ timer[n] = "running"
  /\ timer' = [timer EXCEPT ![n] = "standing"]
  /\ role' = [role EXCEPT ![n] = "intraCandidate"]
  /\ UNCHANGED <<term, voted, mainVars, read, countVars, netVars, seedVars>>

\* IntraTerm++ reads the term ...
ReadTerm(n) ==
  /\ timer[n] = "standing"
  /\ timer' = [timer EXCEPT ![n] = "incrementing"]
  /\ read' = [read EXCEPT ![n] = term[n]]
  /\ UNCHANGED <<role, term, voted, mainVars, countVars, netVars, seedVars>>

\* Faulty: incremented where it is read and where it is written.
IncrementedTwice(n) == read[n] + 2

\* ... and writes it, whatever the main loop has made of it in between.
Incremented(n) == read[n] + 1

WriteTerm(n) ==
  /\ timer[n] = "incrementing"
  /\ timer' = [timer EXCEPT ![n] = "incremented"]
  /\ term' = [term EXCEPT ![n] = Incremented(n)]
  /\ read' = [read EXCEPT ![n] = 0]
  /\ UNCHANGED <<role, voted, mainVars, countVars, netVars, seedVars>>

\* The candidate asks for votes in the term it now finds and triggers the checker.
SendStartVote(n) ==
  /\ timer[n] = "incremented"
  /\ timer' = [timer EXCEPT ![n] = "ended"]
  /\ sent' = sent \cup {[type |-> "StartVote", from |-> n, to |-> m,
                         term |-> term[n]] : m \in Scope(n) \ {n}}
  /\ checker' = [checker EXCEPT ![n] = "triggered"]
  /\ UNCHANGED <<role, term, voted, mainVars, read, votes, counting, count, handled,
                 seedVars>>

-----------------------------------------------------------------------------
\* The main loop.

InFlight == sent \ handled

\* Faulty: a candidate of the node's own term is accepted too, and the term it
\* voted in is not looked at.
GrantsByTerm(n, m) == m.term >= term[n]

\* The term is higher than the node's own and than the last one it voted in.
Grants(n, m) == m.term > term[n] /\ m.term > voted[n].term

\* Faulty: the voter stays in its own term.
StaysInTerm(n, m) == term[n]

FollowedTerm(n, m) == m.term

RespondStartVote(n, m) ==
  /\ Idle(n)
  /\ m.to = n /\ m.type = "StartVote"
  /\ handled' = handled \cup {m}
  /\ IF Grants(n, m)
     THEN /\ term' = [term EXCEPT ![n] = FollowedTerm(n, m)]
          /\ voted' = [voted EXCEPT ![n] = [id |-> {m.from}, term |-> m.term]]
          /\ answering' = [answering EXCEPT ![n] = {m.from}]
     ELSE UNCHANGED <<term, voted, answering>>
  /\ UNCHANGED <<role, yielding, timeOutVars, countVars, sent, seedVars>>

\* The vote is sent with the term the node has by then.
SendConfirm(n) ==
  \E c \in answering[n] :
    /\ sent' = sent \cup {[type |-> "ConfirmStartVote", from |-> n, to |-> c,
                           term |-> term[n]]}
    /\ answering' = [answering EXCEPT ![n] = {}]
    /\ UNCHANGED <<role, term, voted, yielding, timeOutVars, countVars, handled,
                   seedVars>>

\* A vote is handed to the counting thread.
HandleConfirm(n, m) ==
  /\ Idle(n)
  /\ m.to = n /\ m.type = "ConfirmStartVote"
  /\ votes' = [votes EXCEPT ![n] = @ \cup {m}]
  /\ handled' = handled \cup {m}
  /\ UNCHANGED <<role, term, voted, mainVars, timeOutVars, checker, counting, count,
                 sent, seedVars>>

StartChecker(n) ==
  /\ Idle(n) /\ checker[n] = "triggered"
  /\ checker' = [checker EXCEPT ![n] = "running"]
  /\ UNCHANGED <<role, term, voted, mainVars, timeOutVars, votes, counting, count,
                 netVars, seedVars>>

\* A heartbeat of leader l, which sends them for ever, ends a candidacy.  For a
\* follower it only delays the time-out.
HandleHeartBeat(n, l) ==
  /\ Idle(n)
  /\ checker[l] = "elected" /\ n \in Scope(l) \ {l}
  /\ role[n] = "intraCandidate"
  /\ yielding' = yielding \cup {n}
  /\ UNCHANGED <<role, term, voted, answering, timeOutVars, countVars, netVars, seedVars>>

\* What the counting thread has made of the role in between is overwritten.
BecomeFollower(n) ==
  /\ n \in yielding
  /\ yielding' = yielding \ {n}
  /\ role' = [role EXCEPT ![n] = "intraFollower"]
  /\ UNCHANGED <<term, voted, answering, timeOutVars, countVars, netVars, seedVars>>

-----------------------------------------------------------------------------
\* The counting thread.  It takes a vote ...
TakeVote(n, m) ==
  /\ checker[n] = "running" /\ m \in votes[n]
  /\ checker' = [checker EXCEPT ![n] = "taken"]
  /\ votes' = [votes EXCEPT ![n] = @ \ {m}]
  /\ counting' = [counting EXCEPT ![n] = {m}]
  /\ UNCHANGED <<role, term, voted, mainVars, timeOutVars, count, netVars, seedVars>>

\* Faulty: a vote of the node's own term is taken for an old one.
OutdatedOrEqual(n, m) == m.term <= term[n]

Outdated(n, m) == m.term < term[n]

\* ... drops it if its term is over by now ...
CheckVote(n) ==
  /\ checker[n] = "taken"
  /\ \E m \in counting[n] :
       IF Outdated(n, m)
       THEN /\ checker' = [checker EXCEPT ![n] = "running"]
            /\ counting' = [counting EXCEPT ![n] = {}]
       ELSE /\ checker' = [checker EXCEPT ![n] = "valid"]
            /\ UNCHANGED counting
  /\ UNCHANGED <<role, term, voted, mainVars, timeOutVars, votes, count, netVars,
                 seedVars>>

\* ... compares the term of the counter with the term it finds then ...
CheckCount(n) ==
  /\ checker[n] = "valid"
  /\ checker' = [checker EXCEPT ![n] = IF count[n].term < term[n] THEN "clearing"
                                                                 ELSE "adding"]
  /\ UNCHANGED <<role, term, voted, mainVars, timeOutVars, votes, counting, count,
                 netVars, seedVars>>

\* ... and empties an old counter for the term it finds after that.
ClearCount(n) ==
  /\ checker[n] = "clearing"
  /\ checker' = [checker EXCEPT ![n] = "adding"]
  /\ count' = [count EXCEPT ![n] = [count |-> 0, term |-> term[n]]]
  /\ UNCHANGED <<role, term, voted, mainVars, timeOutVars, votes, counting, netVars,
                 seedVars>>

\* The vote with which the counter is full ends the loop, and makes the node the
\* leader if it is a candidate still.
AddVote(n) ==
  /\ checker[n] = "adding"
  /\ LET full == count[n].count + 1 = Q1(n)
     IN  IF count[n].count < Q1(n)
         THEN /\ count' = [count EXCEPT ![n].count = @ + 1]
              /\ checker' = [checker EXCEPT ![n] =
                               IF ~full THEN "running"
                               ELSE IF role[n] = "intraCandidate" THEN "electing"
                               ELSE "ended"]
         ELSE checker' = [checker EXCEPT ![n] = "running"] /\ UNCHANGED count
  /\ counting' = [counting EXCEPT ![n] = {}]
  /\ UNCHANGED <<role, term, voted, mainVars, timeOutVars, votes, netVars, seedVars>>

\* The leader sends heartbeats and registers with the seed node from now on,
\* whatever becomes of its role.
BecomeIntraLeader(n) ==
  /\ checker[n] = "electing"
  /\ checker' = [checker EXCEPT ![n] = "elected"]
  /\ role' = [role EXCEPT ![n] = "intraLeader"]
  /\ UNCHANGED <<term, voted, mainVars, timeOutVars, votes, counting, count, netVars,
                 seedVars>>

-----------------------------------------------------------------------------
Shards == {ShardOf[n] : n \in Nodes}

\* The seed node hears of leader n, and announces the leaders when it has as many
\* as there are shards, in Raft mode at once.
HandleRegistration(n) ==
  /\ checker[n] = "elected" /\ n \notin registered
  /\ registered' = registered \cup {n}
  /\ announced' = \/ announced
                  \/ ConsensusType = "Raft"
                  \/ Cardinality(registered') = Cardinality(Shards)
  /\ UNCHANGED <<role, term, voted, mainVars, timeOutVars, countVars, netVars>>

TimeOutThread(n) ==
  HeartBeatTimeOut(n) \/ ReadTerm(n) \/ WriteTerm(n) \/ SendStartVote(n)

MainLoop(n) ==
  \/ HandleStart(n)
  \/ \E m \in InFlight : RespondStartVote(n, m) \/ HandleConfirm(n, m)
  \/ SendConfirm(n)
  \/ StartChecker(n)
  \/ \E l \in Nodes : HandleHeartBeat(n, l)
  \/ BecomeFollower(n)

CheckConfirmStartVote(n) ==
  \/ \E m \in votes[n] : TakeVote(n, m)
  \/ CheckVote(n) \/ CheckCount(n) \/ ClearCount(n) \/ AddVote(n) \/ BecomeIntraLeader(n)

Next ==
  \E n \in Nodes : \/ TimeOutThread(n)
                   \/ MainLoop(n)
                   \/ CheckConfirmStartVote(n)
                   \/ HandleRegistration(n)

Spec == Init /\ [][Next]_vars

-----------------------------------------------------------------------------
TypeOK ==
  /\ role \in [Nodes -> {"intraFollower", "intraCandidate", "intraLeader"}]
  /\ term \in [Nodes -> Terms]
  /\ voted \in [Nodes -> [id : SUBSET Nodes, term : Terms]]
  /\ answering \in [Nodes -> SUBSET Nodes]
  /\ yielding \subseteq Nodes
  /\ timer \in [Nodes -> {"idle", "running", "standing", "incrementing",
                          "incremented", "ended"}]
  /\ read \in [Nodes -> Terms]
  /\ checker \in [Nodes -> {"none", "triggered", "running", "taken", "valid", "clearing",
                            "adding", "electing", "elected", "ended"}]
  /\ votes \in [Nodes -> SUBSET Messages] /\ counting \in [Nodes -> SUBSET Messages]
  /\ count \in [Nodes -> [count : 0..Cardinality(Nodes), term : Terms]]
  /\ sent \subseteq Messages
  /\ handled \subseteq sent
  /\ registered \subseteq Nodes
  /\ announced \in BOOLEAN

\* The term candidate c has asked for votes in, as a set of at most one.
ElectionTerm(c) == {m.term : m \in {x \in sent : x.type = "StartVote" /\ x.from = c}}

\* The nodes that have sent their vote to candidate c.
Supporters(c) ==
  {v \in Nodes : \E m \in sent : /\ m.type = "ConfirmStartVote"
                                 /\ m.from = v /\ m.to = c}

\* The nodes that lead, be it that their role has been overwritten since.
Leaders == {n \in Nodes : checker[n] = "elected"}

\* The votes node v has sent.
VotesOf(v) == {m \in sent : m.type = "ConfirmStartVote" /\ m.from = v}

\* A node votes for at most one of the candidates of a term, although its time-out
\* thread moves its term under the hands of the main loop, even backwards.
OneVotePerTerm ==
  \A v \in Nodes : \A m1, m2 \in VotesOf(v) :
    m1.to # m2.to => ElectionTerm(m1.to) # ElectionTerm(m2.to)

\* NodeMethod.go:166: Q1, the votes that make a leader, is half of the nodes that
\* elect it together; the leader has been elected by as many others.
ElectedByHalf ==
  \A l \in Leaders : Cardinality(Supporters(l)) >= Cardinality(Scope(l)) \div 2

\* Two leaders of one term are possible only because a candidate has voted for a
\* rival in the very term it stands in itself: its time-out thread had read the
\* old term when the main loop gave the vote.
TwoLeadersOnlyByRace ==
  \A a, b \in Leaders :
    (a # b /\ Scope(a) = Scope(b) /\ ElectionTerm(a) = ElectionTerm(b)) =>
      a \in Supporters(b) \/ b \in Supporters(a)

\* A vote that its candidate takes for an outdated one.
Lost(m) == m.type = "ConfirmStartVote" /\ \E t \in ElectionTerm(m.to) : m.term < t

LostVotes == {m \in sent : Lost(m)}

\* A vote is sent with the term its voter has by then (NodeMethod.go:147).  It is
\* lost only if the voter stands itself and has written back an older term since
\* it gave the vote; so the votes of those that do not stand all count, and those
\* that stand lose one at most.
OneVoteLost ==
  /\ \A m \in LostVotes : timer[m.from] \in {"incremented", "ended"}
  /\ \A m1, m2 \in LostVotes : m1.from = m2.from => m1 = m2

\* The votes for c that the counting thread is through with.
Taken(c) ==
  {m \in handled \ (votes[c] \cup counting[c]) : m.type = "ConfirmStartVote" /\ m.to = c}

\* Between its reads of the term the counting thread loses none of the votes that
\* are not outdated when they are sent: a candidate it has taken enough of them
\* for and that is not being made the leader has moved to a higher term than the
\* one it stands in.
EnoughVotesElect ==
  \A c \in Nodes :
    (/\ role[c] = "intraCandidate" /\ checker[c] # "electing" /\ Q1(c) > 0
     /\ Cardinality({m \in Taken(c) : ~Lost(m)}) >= Q1(c))
      => \E t \in ElectionTerm(c) : term[c] > t

\* SeedNode.go:174: all shards have elected their leader when the seed node
\* announces the leaders.  The code does not keep it (README, section 4), and no
\* run checks it.
AllShardsElected ==
  announced => \A s \in Shards : \E l \in registered : ShardOf[l] = s
=============================================================================
