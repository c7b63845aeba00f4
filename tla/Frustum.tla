------------------------------ MODULE Frustum ------------------------------
(***************************************************************************)
(* The two-level consensus of BlockChain/Consensus/frustum.  The global    *)
(* leader proposes each block to its own shard (the "Intra" level) and to  *)
(* the committee of intra-shard leaders, table 1024 (the "Global" level).  *)
(* On both levels members exchange Prepare and Commit votes and answer the *)
(* global leader with Finality; f + 1 Finality answers from the committee  *)
(* let it start the next height.                                           *)
(*                                                                         *)
(* A node handles its messages one at a time (Node.Run), so a handler is   *)
(* one action.  Every message is posted by a goroutine of its own after a  *)
(* random delay, so messages are handled in any order.  Membership is what *)
(* the seed node distributed before "start" (module Bootstrap).            *)
(***************************************************************************)
EXTENDS PBFTQuorum, FiniteSets

CONSTANTS
  Nodes,          \* the registered nodes
  ShardOf,        \* the shard part of each node's ID
  IntraLeaders,   \* the committee, table 1024: one leader of each shard
  GlobalLeader    \* the one member of table 1025

ASSUME FrustumAssumption ==
  /\ IsFiniteSet(Nodes)
  /\ IntraLeaders \subseteq Nodes
  /\ GlobalLeader \in IntraLeaders
  /\ \A a, b \in IntraLeaders : ShardOf[a] = ShardOf[b] => a = b

VARIABLES
  started,        \* the seed node's "start" has been handled
  blockHeight,    \* NodeState.BlockHeight of each node
  check,          \* PrepareCheck, CommitCheck and FinalityCheck of each node
  preparing,      \* for each round, the level its goroutine sends Prepare to next
  sent,           \* every message posted so far
  handled,        \* those of them whose handler has run
  stopped         \* TxWorkerStop is closed and MiningStop sent to the seed node

vars == <<started, blockHeight, check, preparing, sent, handled, stopped>>

Rounds == Heights \ {0}
Scopes == {"Intra", "Global"}
VoteTypes == {"Prepare", "Commit", "Finality"}

\* A message.  Two posts with the same content are two messages: round is the
\* StartConsensus whose goroutine posted a Prepare of the global leader, and the
\* height for all others.
Messages == [type : VoteTypes \cup {"PrePrepare"}, from : Nodes, to : Nodes,
             height : Heights, round : Rounds]

\* The level a message belongs to, found from the sender's shard.
Scope(m) == IF ShardOf[m.from] = ShardOf[m.to] THEN "Intra" ELSE "Global"

\* The members a node knows on each level: its own shard, and table 1024.
Members(n, s) ==
  IF s = "Intra" THEN {m \in Nodes : ShardOf[m] = ShardOf[n]} ELSE IntraLeaders

Needed(n, type, s) == QuorumNodes(type, Cardinality(Members(n, s)))

\* BroadCastWithInShard: to every member of the level but the sender.
BroadCast(n, s, type, h, r) ==
  {[type |-> type, from |-> n, to |-> m, height |-> h, round |-> r] :
      m \in Members(n, s) \ {n}}

\* All six counters of a node are cleared for height h.
ResetVoteCheck(checks, h) ==
  [type \in VoteTypes |-> [s \in Scopes |-> ResetCount(checks[type][s], h)]]

InFlight == sent \ handled

Init ==
  /\ started = FALSE
  /\ blockHeight = [n \in Nodes |-> 0]
  /\ check = [n \in Nodes |->
                [type \in VoteTypes |-> [s \in Scopes |-> NewQuorum]]]
  /\ preparing = [r \in Rounds |-> "None"]
  /\ sent = {}
  /\ handled = {}
  /\ stopped = FALSE

-----------------------------------------------------------------------------
\* The global leader makes the block of the next height, clears its counters
\* (checks is what they hold by then), proposes the block on both levels, and
\* leaves its own Prepare to a goroutine.
StartConsensus(checks) ==
  LET h == blockHeight[GlobalLeader] + 1
  IN  /\ blockHeight' = [blockHeight EXCEPT ![GlobalLeader] = h]
      /\ check' = [check EXCEPT ![GlobalLeader] = ResetVoteCheck(checks, h)]
      /\ preparing' = [preparing EXCEPT ![h] = "Intra"]
      /\ sent' = sent \cup BroadCast(GlobalLeader, "Intra", "PrePrepare", h, h)
                      \cup BroadCast(GlobalLeader, "Global", "PrePrepare", h, h)

\* The seed node's "start" reaches the global leader.
HandleStart ==
  /\ ~started
  /\ started' = TRUE
  /\ StartConsensus(check[GlobalLeader])
  /\ UNCHANGED <<handled, stopped>>

\* The goroutine of round r sends the leader's Prepare to one level and goes on
\* to the other.  It reads BlockHeight when it runs, which the main loop may
\* have moved past r by then.
SendPrepare(r) ==
  /\ preparing[r] \in Scopes
  /\ preparing' = [preparing EXCEPT
                     ![r] = IF @ = "Intra" THEN "Global" ELSE "Done"]
  /\ sent' = sent \cup BroadCast(GlobalLeader, preparing[r], "Prepare",
                                 blockHeight[GlobalLeader], r)
  /\ UNCHANGED <<started, blockHeight, check, handled, stopped>>

\* Faulty: the counters are cleared before the height is taken over.
HandlePrePrepareLate(n, m) ==
  /\ m.to = n /\ m.type = "PrePrepare"
  /\ check' = [check EXCEPT ![n] = ResetVoteCheck(@, blockHeight[n])]
  /\ blockHeight' = [blockHeight EXCEPT ![n] = m.height]
  /\ sent' = sent \cup BroadCast(n, Scope(m), "Prepare", m.height, m.height)
  /\ handled' = handled \cup {m}
  /\ UNCHANGED <<started, preparing, stopped>>

\* A proposal arrives: whatever its height, the node takes it as its own, clears
\* its counters for it and votes on the level the proposal came from.
HandlePrePrepare(n, m) ==
  /\ m.to = n /\ m.type = "PrePrepare"
  /\ check' = [check EXCEPT ![n] = ResetVoteCheck(@, m.height)]
  /\ blockHeight' = [blockHeight EXCEPT ![n] = m.height]
  /\ sent' = sent \cup BroadCast(n, Scope(m), "Prepare", m.height, m.height)
  /\ handled' = handled \cup {m}
  /\ UNCHANGED <<started, preparing, stopped>>

\* The node's counters after vote m is handled, and whether m completes a quorum.
Counted(n, m) ==
  LET needed == Needed(n, m.type, Scope(m))
      q == check[n][m.type][Scope(m)]
  IN  [check[n] EXCEPT ![m.type][Scope(m)] =
         [Handle(q, needed, m.height) EXCEPT
            !.finish = @ \/ Reaches(q, needed, m.height)]]

Finishes(n, m) ==
  Reaches(check[n][m.type][Scope(m)], Needed(n, m.type, Scope(m)), m.height)

\* A quorum of Prepare votes on a level makes the node send Commit there.
HandlePrepare(n, m) ==
  /\ m.to = n /\ m.type = "Prepare"
  /\ check' = [check EXCEPT ![n] = Counted(n, m)]
  /\ sent' = IF Finishes(n, m)
             THEN sent \cup BroadCast(n, Scope(m), "Commit", blockHeight[n],
                                      blockHeight[n])
             ELSE sent
  /\ handled' = handled \cup {m}
  /\ UNCHANGED <<started, blockHeight, preparing, stopped>>

\* A quorum of Commit votes makes every node but the global leader answer it
\* with Finality, whether or not this node has sent a Commit itself.
HandleCommit(n, m) ==
  /\ m.to = n /\ m.type = "Commit"
  /\ check' = [check EXCEPT ![n] = Counted(n, m)]
  /\ sent' = IF Finishes(n, m) /\ n # GlobalLeader
             THEN sent \cup {[type |-> "Finality", from |-> n, to |-> GlobalLeader,
                              height |-> blockHeight[n], round |-> blockHeight[n]]}
             ELSE sent
  /\ handled' = handled \cup {m}
  /\ UNCHANGED <<started, blockHeight, preparing, stopped>>

\* Faulty: a quorum on either level ends the round.
ClosesRoundOfAny(m) == Finishes(GlobalLeader, m)

\* Faulty: one height too many is mined.
LastRoundPassed == blockHeight[GlobalLeader] > EndBlockHeight

\* A quorum of the leader's shard changes nothing; a quorum of the committee
\* ends the round.
ClosesRound(m) == Finishes(GlobalLeader, m) /\ Scope(m) = "Global"

LastRound == blockHeight[GlobalLeader] = EndBlockHeight

\* Faulty: the leader puts back answers unless they are for an earlier height.
HandleFinalityLater(m) ==
  /\ m.to = GlobalLeader /\ m.type = "Finality"
  /\ handled' = IF m.height < blockHeight[GlobalLeader] THEN handled \cup {m} ELSE handled
  /\ UNCHANGED <<started, blockHeight, check, preparing, sent, stopped>>

\* The global leader is answered; when that ends the round, NextRound.
HandleFinality(m) ==
  /\ m.to = GlobalLeader /\ m.type = "Finality"
  /\ handled' = handled \cup {m}
  /\ IF ClosesRound(m) /\ ~LastRound
     THEN /\ StartConsensus(Counted(GlobalLeader, m))
          /\ UNCHANGED stopped
     ELSE /\ stopped' = IF ClosesRound(m) THEN TRUE ELSE stopped
          /\ check' = [check EXCEPT ![GlobalLeader] = Counted(GlobalLeader, m)]
          /\ UNCHANGED <<blockHeight, preparing, sent>>
  /\ UNCHANGED started

\* MSGHandle dispatches on the type of the message.
HandleMessage(m) ==
  \/ HandlePrePrepare(m.to, m)
  \/ HandlePrepare(m.to, m)
  \/ HandleCommit(m.to, m)
  \/ HandleFinality(m)

Quiescent == sent = handled /\ \A r \in Rounds : preparing[r] \notin Scopes

\* Mining has stopped and everything posted has been handled.
Terminated == stopped /\ Quiescent /\ UNCHANGED vars

Next ==
  \/ HandleStart
  \/ \E r \in Rounds : SendPrepare(r)
  \/ \E m \in InFlight : HandleMessage(m)
  \/ Terminated

Spec == Init /\ [][Next]_vars

\* Node.Run takes messages from its channel for ever, every post is delivered,
\* every goroutine runs, and the seed node sends "start" when it has distributed
\* the leaders.  Less is enough: some of them go on as long as any can.
FairSpec == Spec /\ WF_vars(Next)

-----------------------------------------------------------------------------
TypeOK ==
  /\ started \in BOOLEAN
  /\ blockHeight \in [Nodes -> Heights]
  /\ check \in [Nodes -> [VoteTypes -> [Scopes -> QuorumType]]]
  /\ preparing \in [Rounds -> Scopes \cup {"None", "Done"}]
  /\ sent \subseteq Messages
  /\ handled \subseteq sent
  /\ stopped \in BOOLEAN

\* The global leader alone drives the heights: no node holds, votes for or has
\* buffered votes for a height it has not started, although followers take any
\* proposal's height and the leader's Prepare goroutine reads a height that may
\* have moved.
NobodyAheadOfLeader ==
  LET top == blockHeight[GlobalLeader]
  IN  /\ \A n \in Nodes : blockHeight[n] <= top
      /\ \A m \in sent : m.height \in 1..top
      /\ \A n \in Nodes, type \in VoteTypes, s \in Scopes :
           /\ check[n][type][s].latest = blockHeight[n]
           /\ \A h \in Heights : check[n][type][s].buffer[h] > 0 => h <= top

\* The leader's own counters therefore never hold a buffered vote: what it
\* decides is never a recount.
LeaderNeverBuffers ==
  \A type \in VoteTypes, s \in Scopes, h \in Heights :
    check[GlobalLeader][type][s].buffer[h] = 0

\* Committee members that have answered the leader with Finality for height h.
Finalizers(h) ==
  {n \in IntraLeaders \ {GlobalLeader} :
     \E m \in sent : m.type = "Finality" /\ m.from = n /\ m.height = h}

CommitteeQuorum == Needed(GlobalLeader, "Finality", "Global")

\* The leader leaves a height, and stops mining after the last, only when f + 1
\* distinct members of the committee have answered for that very height; late
\* answers for earlier heights, answers of its own shard and repeated counting
\* never close a round.
RoundsClosedByCommittee ==
  \A h \in Rounds :
    (h < blockHeight[GlobalLeader] \/ (stopped /\ h = EndBlockHeight))
      => Cardinality(Finalizers(h)) >= CommitteeQuorum

\* The message flow the counting rests on: proposals come from the leader,
\* nobody posts to itself, the Intra level is the leader's shard and the Global
\* level the committee, and a node answers with Finality at most once a height.
Routed(m) ==
  /\ m.from # m.to
  /\ m.type = "PrePrepare" => m.from = GlobalLeader
  /\ m.type = "Finality" => m.to = GlobalLeader /\ m.round = m.height
  /\ IF Scope(m) = "Intra" THEN ShardOf[m.from] = ShardOf[GlobalLeader]
                           ELSE {m.from, m.to} \subseteq IntraLeaders

MessagesRouted == \A m \in sent : Routed(m)

\* Committee members whose Finality for height h the leader has handled.
HeardFrom(h) ==
  {n \in IntraLeaders \ {GlobalLeader} :
     \E m \in handled : m.type = "Finality" /\ m.from = n /\ m.height = h}

\* The leader's count of answers is never above the number of distinct
\* committee members it has heard from at its height.
AnswersAreDistinct ==
  check[GlobalLeader]["Finality"]["Global"].votes
    <= Cardinality(HeardFrom(blockHeight[GlobalLeader]))

\* The leader is at height 0 until "start", and at the last height once mining
\* has stopped; no Prepare goroutine belongs to a round it has not started.
LeaderPhases ==
  /\ \A r \in Rounds : preparing[r] # "None" => r <= blockHeight[GlobalLeader]
  /\ ~started => blockHeight[GlobalLeader] = 0
  /\ stopped => blockHeight[GlobalLeader] = EndBlockHeight

\* The inductive invariant behind RoundsClosedByCommittee.
IInv ==
  /\ TypeOK
  /\ LeaderPhases
  /\ NobodyAheadOfLeader
  /\ LeaderNeverBuffers
  /\ MessagesRouted
  /\ AnswersAreDistinct
  /\ RoundsClosedByCommittee

\* A node answers for a height only when a member of the same level has sent it
\* a Commit for that height, so no answer is older or newer than what its level
\* was committing, whatever heights the node has been moved through since.
AnswersFollowCommits ==
  \A m \in sent : m.type = "Finality" =>
    \E c \in sent : /\ c.type = "Commit" /\ c.height = m.height
                    /\ c.to = m.from /\ Scope(c) = Scope(m)

\* A step may move the leader by one height at most, and never after it has
\* reported the end of mining.
LeaderAdvancesByOne ==
  [][/\ blockHeight'[GlobalLeader] \in
          {blockHeight[GlobalLeader], blockHeight[GlobalLeader] + 1}
     /\ stopped => /\ stopped'
                   /\ blockHeight'[GlobalLeader] = EndBlockHeight]_vars

\* Every quorum of the committee can be reached with the votes of the others,
\* which fails for committees of one and of three members.
QuorumsReachable ==
  \A type \in VoteTypes : Needed(GlobalLeader, type, "Global") < Cardinality(IntraLeaders)

\* Mining hangs only by messages out of order.  When nothing is left to deliver,
\* it has ended, or an overtaken proposal has set a committee member back below
\* the leader's height, or a member sits on votes of its current height that were
\* buffered before the proposal came and that no later vote has made it look at.
StuckOnlyByDisorder ==
  (started /\ Quiescent /\ ~stopped /\ QuorumsReachable) =>
    \E n \in IntraLeaders :
      \/ blockHeight[n] < blockHeight[GlobalLeader]
      \/ \E type \in VoteTypes :
           LET q == check[n][type]["Global"]
           IN  q.votes < Needed(n, type, "Global") /\ q.buffer[q.latest] > 0

\* Quorum.go:32: a reset moves the counter's round to the LATEST one.  The code does
\* not keep it (README, section 4), and no run checks it.
RoundOnlyForward ==
  [][\A n \in Nodes, type \in VoteTypes, s \in Scopes :
       check'[n][type][s].latest >= check[n][type][s].latest]_vars

\* Mining comes to its end.
MiningStops == <>stopped

\* The consensus implements the abstract specification: what the leader does is
\* to close heights by quorums of distinct members.
Abstract == INSTANCE CommitteeRounds WITH
  Committee <- IntraLeaders \ {GlobalLeader},
  Quorums <- {Q \in SUBSET (IntraLeaders \ {GlobalLeader}) :
                Cardinality(Q) >= CommitteeQuorum},
  LastHeight <- EndBlockHeight,
  height <- blockHeight[GlobalLeader],
  answers <- [h \in Rounds |-> Finalizers(h)],
  done <- stopped

ImplementsRounds == Abstract!Spec
=============================================================================
