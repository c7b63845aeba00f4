--------------------------- MODULE FrustumProofs ---------------------------
(***************************************************************************)
(* Proofs about Frustum for every set of nodes, every division into shards *)
(* with one leader each, and every last height.  IInv is the inductive     *)
(* invariant of the safety properties; ProgressInv, beside it, says why    *)
(* nothing but messages out of order can keep a round from closing.        *)
(***************************************************************************)
EXTENDS Frustum, FiniteSetTheorems, TLAPS

-----------------------------------------------------------------------------
(* What the operations of the vote counters return, for any counter, quorum *)
(* and height.                                                             *)

\* Heights are numbers.
LEMMA HeightsType == 0 \in Heights /\ Heights \subseteq Nat
BY EndBlockHeightAssumption DEF Heights

\* A quorum is a positive number of votes.
LEMMA QuorumNodesType ==
  ASSUME NEW type, NEW total \in Nat
  PROVE  QuorumNodes(type, total) \in Nat /\ QuorumNodes(type, total) >= 1
BY DEF QuorumNodes, MaliciousNodes

\* A tally is a number, exceeds the count by one and what is buffered at most, and
\* by one at least until the quorum is reached.
LEMMA TallyFacts ==
  ASSUME NEW q \in QuorumType, NEW needed \in Nat
  PROVE  /\ Tally(q, needed) \in Nat
         /\ q.buffer[q.latest] \in Nat
         /\ Tally(q, needed) <= needed
         /\ Tally(q, needed) <= q.votes + 1 + q.buffer[q.latest]
         /\ q.votes < needed => Tally(q, needed) >= q.votes + 1
         /\ q.buffer[q.latest] = 0 => Tally(q, needed) <= q.votes + 1
<1>1. q.votes \in Nat /\ q.latest \in Heights /\ q.buffer \in [Heights -> Nat]
  BY DEF QuorumType
<1>2. q.buffer[q.latest] \in Nat
  BY <1>1
<1>3. Tally(q, needed) = IF q.votes + 1 + q.buffer[q.latest] < needed
                         THEN q.votes + 1 + q.buffer[q.latest] ELSE needed
  BY DEF Tally
<1>4. QED
  BY <1>1, <1>2, <1>3

\* A new counter has its type.
LEMMA NewQuorumType == NewQuorum \in QuorumType
BY HeightsType DEF NewQuorum, QuorumType

\* A reset moves the counter to h and never adds to its buffer.
LEMMA ResetCountFacts ==
  ASSUME NEW q \in QuorumType, NEW h \in Heights
  PROVE  /\ ResetCount(q, h) \in QuorumType
         /\ ResetCount(q, h).latest = h
         /\ ResetCount(q, h).votes = 0
         /\ \A k \in Heights : ResetCount(q, h).buffer[k] \in {0, q.buffer[k]}
BY HeightsType DEF ResetCount, QuorumType

\* Handle keeps the counter's height, buffers at most the vote it is given, and
\* only if that is for a later height.
LEMMA HandleFacts ==
  ASSUME NEW q \in QuorumType, NEW needed \in Nat, needed >= 1, NEW h \in Heights
  PROVE  /\ Handle(q, needed, h) \in QuorumType
         /\ Handle(q, needed, h).latest = q.latest
         /\ \A k \in Heights :
              \/ Handle(q, needed, h).buffer[k] = q.buffer[k]
              \/ /\ k = h /\ h > q.latest
                 /\ Handle(q, needed, h).buffer[k] = q.buffer[k] + 1
         /\ ~Counts(q, needed, h) => Handle(q, needed, h).votes = q.votes
         /\ Counts(q, needed, h) => Handle(q, needed, h).votes = Tally(q, needed)
<1>1. CASE Counts(q, needed, h)
  <2>1. Tally(q, needed) \in Nat
    BY TallyFacts
  <2>2. Handle(q, needed, h) = [q EXCEPT !.votes = Tally(q, needed)]
    BY <1>1 DEF Handle
  <2>3. QED
    BY <1>1, <2>1, <2>2 DEF QuorumType
<1>2. CASE ~Counts(q, needed, h) /\ h > q.latest
  <2>1. Handle(q, needed, h) = [q EXCEPT !.buffer[h] = @ + 1]
    BY <1>2 DEF Handle
  <2>2. q.buffer \in [Heights -> Nat] /\ q.buffer[h] + 1 \in Nat
    BY DEF QuorumType
  <2>3. QED
    BY <1>2, <2>1, <2>2 DEF QuorumType
<1>3. CASE ~Counts(q, needed, h) /\ ~(h > q.latest)
  <2>1. Handle(q, needed, h) = q
    BY <1>3 DEF Handle
  <2>2. QED
    BY <1>3, <2>1
<1>4. QED
  BY <1>1, <1>2, <1>3

\* Handle keeps what is buffered, and buffers a vote for a later height.
LEMMA HandleBuffers ==
  ASSUME NEW q \in QuorumType, NEW needed \in Nat, NEW h \in Heights
  PROVE  /\ \A k \in Heights :
              Handle(q, needed, h).buffer[k] = 0 => q.buffer[k] = 0
         /\ h > q.latest => Handle(q, needed, h).buffer[h] # 0
<1>1. q.buffer \in [Heights -> Nat] /\ q.latest \in Nat /\ h \in Nat
  BY HeightsType DEF QuorumType
<1>2. CASE Counts(q, needed, h)
  <2>1. Handle(q, needed, h).buffer = q.buffer
    BY <1>2 DEF Handle, QuorumType
  <2>2. ~(h > q.latest)
    BY <1>1, <1>2 DEF Counts
  <2>3. QED
    BY <2>1, <2>2
<1>3. CASE ~Counts(q, needed, h) /\ h > q.latest
  <2>1. Handle(q, needed, h).buffer = [q.buffer EXCEPT ![h] = @ + 1]
    BY <1>3 DEF Handle, QuorumType
  <2>2. \A k \in Heights : [q.buffer EXCEPT ![h] = @ + 1][k] = 0 => q.buffer[k] = 0
    BY <1>1
  <2>3. [q.buffer EXCEPT ![h] = @ + 1][h] # 0
    BY <1>1
  <2>4. QED
    BY <2>1, <2>2, <2>3
<1>4. CASE ~Counts(q, needed, h) /\ ~(h > q.latest)
  BY <1>4 DEF Handle
<1>5. QED
  BY <1>2, <1>3, <1>4

-----------------------------------------------------------------------------
\* The members of a level are finitely many, and those of a node's shard too.
LEMMA MembersFinite ==
  ASSUME NEW n \in Nodes, NEW s \in Scopes
  PROVE  IsFiniteSet(Members(n, s)) /\ Members(n, s) \subseteq Nodes
<1>1. Members(n, s) \subseteq Nodes
  BY FrustumAssumption DEF Members
<1>2. QED
  BY <1>1, FS_Subset, FrustumAssumption

\* The quorum of a level is a number of at least one.
LEMMA NeededType ==
  ASSUME NEW n \in Nodes, NEW type, NEW s \in Scopes
  PROVE  Needed(n, type, s) \in Nat /\ Needed(n, type, s) >= 1
<1>1. Cardinality(Members(n, s)) \in Nat
  BY MembersFinite, FS_CardinalityType
<1>2. QED
  BY <1>1, QuorumNodesType DEF Needed

\* Heights and rounds are numbers in their bounds.
LEMMA HeightsFacts ==
  /\ 0 \in Heights
  /\ Heights \subseteq Nat
  /\ Rounds = 1..EndBlockHeight
  /\ EndBlockHeight \in Heights
BY EndBlockHeightAssumption DEF Heights, Rounds

-----------------------------------------------------------------------------
\* The level a node is on: the leader's shard, or the committee.
OnLevel(n, s) ==
  /\ n \in Nodes
  /\ s = "Intra" => ShardOf[n] = ShardOf[GlobalLeader]
  /\ s = "Global" => n \in IntraLeaders

\* What a member of a level posts there is well formed and stays on that level.
LEMMA BroadCastFacts ==
  ASSUME NEW n, NEW s \in Scopes, OnLevel(n, s),
         NEW type \in VoteTypes \cup {"PrePrepare"}, type # "Finality",
         type = "PrePrepare" => n = GlobalLeader,
         NEW h \in Rounds, NEW r \in Rounds,
         NEW m \in BroadCast(n, s, type, h, r)
  PROVE  /\ m \in Messages
         /\ m.type = type /\ m.height = h
         /\ Scope(m) = s
         /\ Routed(m)
<1>1. PICK to \in Members(n, s) \ {n} :
        m = [type |-> type, from |-> n, to |-> to, height |-> h, round |-> r]
  BY DEF BroadCast
<1>2. n \in Nodes /\ to \in Nodes /\ to # n
  BY <1>1, MembersFinite DEF OnLevel
<1>3. m \in Messages /\ m.type = type /\ m.height = h /\ m.from = n /\ m.to = to
  BY <1>1, <1>2, HeightsFacts DEF Messages, Rounds
<1>4. CASE s = "Intra"
  <2>1. ShardOf[to] = ShardOf[n] /\ ShardOf[n] = ShardOf[GlobalLeader]
    BY <1>1, <1>4 DEF Members, OnLevel
  <2>2. Scope(m) = "Intra"
    BY <1>3, <2>1 DEF Scope
  <2>3. QED
    BY <1>2, <1>3, <1>4, <2>1, <2>2 DEF Routed
<1>5. CASE s = "Global"
  <2>1. n \in IntraLeaders /\ to \in IntraLeaders
    BY <1>1, <1>5 DEF Members, OnLevel, Scopes
  <2>2. ShardOf[n] # ShardOf[to]
    BY <1>2, <2>1, FrustumAssumption
  <2>3. Scope(m) = "Global"
    BY <1>3, <2>2 DEF Scope
  <2>4. QED
    BY <1>2, <1>3, <1>5, <2>1, <2>3 DEF Routed
<1>6. QED
  BY <1>4, <1>5 DEF Scopes

\* The receiver of a routed message is on the message's level.
LEMMA ReceiverOnLevel ==
  ASSUME NEW m \in Messages, Routed(m)
  PROVE  Scope(m) \in Scopes /\ OnLevel(m.to, Scope(m))
<1>1. m.to \in Nodes
  BY DEF Messages
<1>2. CASE Scope(m) = "Intra"
  BY <1>1, <1>2 DEF Scope, Scopes, Routed, OnLevel
<1>3. CASE Scope(m) # "Intra"
  BY <1>1, <1>3 DEF Scope, Scopes, Routed, OnLevel
<1>4. QED
  BY <1>2, <1>3

\* The type of the vote counters of a node.
CheckType == [VoteTypes -> [Scopes -> QuorumType]]

\* A vote changes one counter of its receiver, as Handle does.
LEMMA CountedFacts ==
  ASSUME TypeOK, NEW m \in Messages, m.type \in VoteTypes, NEW n \in Nodes
  PROVE  /\ Counted(n, m) \in CheckType
         /\ \A t \in VoteTypes, s \in Scopes :
              /\ Counted(n, m)[t][s].latest = check[n][t][s].latest
              /\ \A k \in Heights :
                   \/ Counted(n, m)[t][s].buffer[k] = check[n][t][s].buffer[k]
                   \/ k = m.height /\ k > check[n][t][s].latest
              /\ <<t, s>> # <<m.type, Scope(m)>> =>
                   Counted(n, m)[t][s] = check[n][t][s]
         /\ LET q == check[n][m.type][Scope(m)]
                needed == Needed(n, m.type, Scope(m))
            IN  Counted(n, m)[m.type][Scope(m)].votes =
                  IF Counts(q, needed, m.height) THEN Tally(q, needed) ELSE q.votes
<1> DEFINE sc == Scope(m)
           q == check[n][m.type][sc]
           needed == Needed(n, m.type, sc)
           hq == Handle(q, needed, m.height)
           nq == [hq EXCEPT !.finish = @ \/ Reaches(q, needed, m.height)]
<1>1. sc \in Scopes
  BY DEF Scope, Scopes
<1>2. check[n] \in CheckType /\ q \in QuorumType /\ m.height \in Heights
  BY <1>1 DEF TypeOK, CheckType, Messages
<1>3. needed \in Nat /\ needed >= 1
  BY <1>1, NeededType
<1>4. /\ hq \in QuorumType
      /\ hq.latest = q.latest
      /\ \A k \in Heights : hq.buffer[k] = q.buffer[k] \/ (k = m.height /\ k > q.latest)
      /\ hq.votes = IF Counts(q, needed, m.height) THEN Tally(q, needed) ELSE q.votes
  <2> HIDE DEF q, needed
  <2> QED
    BY <1>2, <1>3, HandleFacts
<1>5. nq \in QuorumType /\ nq.latest = hq.latest /\ nq.buffer = hq.buffer
        /\ nq.votes = hq.votes
  <2>1. Reaches(q, needed, m.height) \in BOOLEAN
    BY DEF Reaches, Counts
  <2> HIDE DEF hq
  <2>2. QED
    BY <1>4, <2>1 DEF QuorumType
<1>6. Counted(n, m) = [check[n] EXCEPT ![m.type][sc] = nq]
  BY DEF Counted
<1> HIDE DEF nq, hq
<1>7. Counted(n, m) \in CheckType /\ Counted(n, m)[m.type][sc] = nq
  BY <1>1, <1>2, <1>5, <1>6 DEF CheckType
<1>8. \A t \in VoteTypes, s \in Scopes :
        <<t, s>> # <<m.type, sc>> => Counted(n, m)[t][s] = check[n][t][s]
  BY <1>1, <1>2, <1>6 DEF CheckType
<1>9. QED
  BY <1>4, <1>5, <1>7, <1>8

\* Clearing a node's counters sets them all to the new height with no votes, and
\* keeps or drops what each has buffered.
LEMMA ResetVoteCheckFacts ==
  ASSUME NEW checks \in CheckType, NEW h \in Heights
  PROVE  /\ ResetVoteCheck(checks, h) \in CheckType
         /\ \A t \in VoteTypes, s \in Scopes :
              /\ ResetVoteCheck(checks, h)[t][s].latest = h
              /\ ResetVoteCheck(checks, h)[t][s].votes = 0
              /\ \A k \in Heights :
                   ResetVoteCheck(checks, h)[t][s].buffer[k]
                     \in {0, checks[t][s].buffer[k]}
<1>1. \A t \in VoteTypes, s \in Scopes :
        /\ ResetVoteCheck(checks, h)[t][s] = ResetCount(checks[t][s], h)
        /\ checks[t][s] \in QuorumType
  BY DEF ResetVoteCheck, CheckType
<1>2. ResetVoteCheck(checks, h) \in CheckType
  BY <1>1, ResetCountFacts DEF ResetVoteCheck, CheckType
<1>3. QED
  BY <1>1, <1>2, ResetCountFacts

-----------------------------------------------------------------------------
\* The sets whose sizes the invariant compares are finite.
LEMMA AnswerSetsFinite ==
  /\ IsFiniteSet(IntraLeaders \ {GlobalLeader})
  /\ \A h : /\ IsFiniteSet(Finalizers(h)) /\ Cardinality(Finalizers(h)) \in Nat
            /\ IsFiniteSet(HeardFrom(h)) /\ Cardinality(HeardFrom(h)) \in Nat
            /\ HeardFrom(h) \subseteq IntraLeaders \ {GlobalLeader}
            /\ Finalizers(h) \subseteq IntraLeaders \ {GlobalLeader}
<1>1. IsFiniteSet(IntraLeaders \ {GlobalLeader})
  BY FrustumAssumption, FS_Subset
<1>2. \A h : /\ HeardFrom(h) \subseteq IntraLeaders \ {GlobalLeader}
             /\ Finalizers(h) \subseteq IntraLeaders \ {GlobalLeader}
  BY DEF HeardFrom, Finalizers
<1>3. QED
  BY <1>1, <1>2, FS_Subset, FS_CardinalityType

\* Posting and handling more messages never shrinks them.
LEMMA AnswerSetsGrow ==
  ASSUME sent \subseteq sent', handled \subseteq handled', NEW h
  PROVE  /\ Cardinality(Finalizers(h)) <= Cardinality(Finalizers(h)')
         /\ Cardinality(HeardFrom(h)) <= Cardinality(HeardFrom(h)')
<1>1. Finalizers(h) \subseteq Finalizers(h)' /\ HeardFrom(h) \subseteq HeardFrom(h)'
  BY DEF Finalizers, HeardFrom
<1>2. IsFiniteSet(Finalizers(h)') /\ IsFiniteSet(HeardFrom(h)')
  <2>1. /\ Finalizers(h)' \subseteq IntraLeaders \ {GlobalLeader}
        /\ HeardFrom(h)' \subseteq IntraLeaders \ {GlobalLeader}
    BY DEF Finalizers, HeardFrom
  <2>2. QED
    BY <2>1, AnswerSetsFinite, FS_Subset
<1>3. QED
  BY <1>1, <1>2, FS_Subset

-----------------------------------------------------------------------------
\* The global leader is a node, and the committee's quorum a number.
LEMMA GlobalLeaderFacts ==
  /\ GlobalLeader \in Nodes
  /\ "Finality" \in VoteTypes /\ "Global" \in Scopes
  /\ CommitteeQuorum \in Nat /\ CommitteeQuorum >= 1
BY FrustumAssumption, NeededType DEF VoteTypes, Scopes, CommitteeQuorum

\* A committee member's answer for the leader's height, about to be handled, is
\* its first: the leader has not heard from it at this height.
LEMMA AnswerIsNew ==
  ASSUME IInv, NEW m \in InFlight, m.type = "Finality", Scope(m) = "Global",
         NEW h, m.height = h
  PROVE  /\ m.from \in IntraLeaders \ {GlobalLeader}
         /\ m.from \notin HeardFrom(h)
         /\ Cardinality(HeardFrom(h) \cup {m.from}) = Cardinality(HeardFrom(h)) + 1
<1>1. m \in sent /\ m \notin handled /\ m \in Messages /\ Routed(m)
  BY DEF InFlight, IInv, TypeOK, MessagesRouted
<1>2. m.to = GlobalLeader /\ m.round = m.height /\ m.from # m.to
  BY <1>1 DEF Routed
<1>3. m.from \in IntraLeaders \ {GlobalLeader}
  BY <1>1, <1>2 DEF Routed
<1>4. ASSUME NEW x \in handled, x.type = "Finality", x.from = m.from, x.height = h
      PROVE  FALSE
  <2>1. x \in Messages /\ Routed(x)
    BY <1>4 DEF IInv, TypeOK, MessagesRouted
  <2>2. x.to = GlobalLeader /\ x.round = x.height
    BY <1>4, <2>1 DEF Routed
  <2>3. x = m
    BY <1>1, <1>2, <1>4, <2>1, <2>2 DEF Messages
  <2>4. QED
    BY <1>1, <1>4, <2>3
<1>5. m.from \notin HeardFrom(h)
  BY <1>4 DEF HeardFrom
<1>6. Cardinality(HeardFrom(h) \cup {m.from}) = Cardinality(HeardFrom(h)) + 1
  BY <1>5, AnswerSetsFinite, FS_AddElement
<1>7. QED
  BY <1>3, <1>5, <1>6

\* A vote that the leader counts among its committee's answers brings its count
\* up by one.
LEMMA LeaderCountsOne ==
  ASSUME IInv, NEW m \in InFlight, m.type = "Finality", Scope(m) = "Global",
         Counts(check[GlobalLeader]["Finality"]["Global"], CommitteeQuorum, m.height)
  PROVE  /\ m.height = blockHeight[GlobalLeader]
         /\ Tally(check[GlobalLeader]["Finality"]["Global"], CommitteeQuorum)
              <= Cardinality(HeardFrom(m.height) \cup {m.from})
<1> DEFINE q == check[GlobalLeader]["Finality"]["Global"]
<1>1. q \in QuorumType /\ q.latest = blockHeight[GlobalLeader] /\ q.latest \in Heights
  BY GlobalLeaderFacts DEF IInv, TypeOK, NobodyAheadOfLeader, QuorumType
<1>2. m.height = blockHeight[GlobalLeader]
  BY <1>1 DEF Counts
<1>3. q.buffer[q.latest] = 0
  BY <1>1, GlobalLeaderFacts DEF IInv, LeaderNeverBuffers
<1>4. Tally(q, CommitteeQuorum) <= q.votes + 1 /\ Tally(q, CommitteeQuorum) \in Nat
  <2> HIDE DEF q
  <2> QED BY <1>1, <1>3, TallyFacts, GlobalLeaderFacts
<1>5. q.votes <= Cardinality(HeardFrom(m.height)) /\ q.votes \in Nat
  BY <1>1, <1>2 DEF IInv, AnswersAreDistinct, QuorumType
<1>6. /\ Cardinality(HeardFrom(m.height) \cup {m.from})
           = Cardinality(HeardFrom(m.height)) + 1
      /\ Cardinality(HeardFrom(m.height)) \in Nat
  BY AnswerIsNew, AnswerSetsFinite
<1>7. QED
  BY <1>2, <1>4, <1>5, <1>6

\* When the leader's count of committee answers reaches the quorum, that many
\* distinct members have answered for its height.
LEMMA QuorumHasAnswered ==
  ASSUME IInv, NEW m \in InFlight, m.type = "Finality", m.to = GlobalLeader,
         Scope(m) = "Global", Finishes(GlobalLeader, m)
  PROVE  Cardinality(Finalizers(blockHeight[GlobalLeader])) >= CommitteeQuorum
<1> DEFINE h == blockHeight[GlobalLeader]
<1>1. /\ Counts(check[GlobalLeader]["Finality"]["Global"], CommitteeQuorum, m.height)
      /\ Tally(check[GlobalLeader]["Finality"]["Global"], CommitteeQuorum)
           = CommitteeQuorum
  BY DEF Finishes, Reaches, CommitteeQuorum
<1>2. m.height = h /\ CommitteeQuorum <= Cardinality(HeardFrom(h) \cup {m.from})
  BY <1>1, LeaderCountsOne
<1>3. HeardFrom(h) \cup {m.from} \subseteq Finalizers(h)
  <2>1. m \in sent /\ m.from \in IntraLeaders \ {GlobalLeader}
    BY <1>2, AnswerIsNew DEF InFlight
  <2>2. handled \subseteq sent
    BY DEF IInv, TypeOK
  <2>3. QED
    BY <1>2, <2>1, <2>2 DEF HeardFrom, Finalizers
<1>4. Cardinality(HeardFrom(h) \cup {m.from}) <= Cardinality(Finalizers(h))
  BY <1>3, AnswerSetsFinite, FS_Subset
<1>5. Cardinality(HeardFrom(h) \cup {m.from}) \in Nat
  BY <1>3, AnswerSetsFinite, FS_Subset, FS_CardinalityType
<1>6. QED
  BY <1>2, <1>4, <1>5, AnswerSetsFinite, GlobalLeaderFacts

\* The leader's count of answers is a number.
LEMMA AnswerCountType ==
  ASSUME TypeOK
  PROVE  check[GlobalLeader]["Finality"]["Global"].votes \in Nat
<1>1. check[GlobalLeader]["Finality"]["Global"] \in QuorumType
  BY GlobalLeaderFacts DEF TypeOK
<1>2. QED
  BY <1>1 DEF QuorumType

\* Steps that leave the leader's height and counters alone can only add answers.
LEMMA AnswersKept ==
  ASSUME AnswersAreDistinct, RoundsClosedByCommittee,
         sent \subseteq sent', handled \subseteq handled', stopped' = stopped,
         blockHeight'[GlobalLeader] = blockHeight[GlobalLeader],
         check'[GlobalLeader]["Finality"]["Global"].votes
           = check[GlobalLeader]["Finality"]["Global"].votes,
         check[GlobalLeader]["Finality"]["Global"].votes \in Nat
  PROVE  AnswersAreDistinct' /\ RoundsClosedByCommittee'
<1>1. \A h : /\ HeardFrom(h)' \subseteq IntraLeaders \ {GlobalLeader}
             /\ Finalizers(h)' \subseteq IntraLeaders \ {GlobalLeader}
  BY DEF HeardFrom, Finalizers
<1>2. \A h : Cardinality(HeardFrom(h)') \in Nat /\ Cardinality(Finalizers(h)') \in Nat
  BY <1>1, AnswerSetsFinite, FS_Subset, FS_CardinalityType
<1>3. \A h : /\ Cardinality(HeardFrom(h)) <= Cardinality(HeardFrom(h)')
             /\ Cardinality(Finalizers(h)) <= Cardinality(Finalizers(h)')
  BY AnswerSetsGrow
<1>4. AnswersAreDistinct'
  <2>1. /\ HeardFrom(blockHeight[GlobalLeader])
               \subseteq (HeardFrom(blockHeight[GlobalLeader]))'
        /\ (HeardFrom(blockHeight[GlobalLeader]))' \subseteq IntraLeaders \ {GlobalLeader}
    BY DEF HeardFrom
  <2>2. /\ Cardinality(HeardFrom(blockHeight[GlobalLeader]))
             <= Cardinality(HeardFrom(blockHeight[GlobalLeader]))'
        /\ Cardinality(HeardFrom(blockHeight[GlobalLeader]))' \in Nat
    BY <2>1, AnswerSetsFinite, FS_Subset, FS_CardinalityType
  <2>3. QED
    BY <2>2, AnswerSetsFinite DEF AnswersAreDistinct
<1>5. RoundsClosedByCommittee'
  <2> SUFFICES ASSUME NEW h \in Rounds,
                      (h < blockHeight'[GlobalLeader] \/ (stopped' /\ h = EndBlockHeight))
      PROVE Cardinality(Finalizers(h)') >= CommitteeQuorum
    BY DEF RoundsClosedByCommittee, CommitteeQuorum, Needed, Members
  <2>1. Cardinality(Finalizers(h)) >= CommitteeQuorum
    BY DEF RoundsClosedByCommittee
  <2>2. QED
    BY <1>2, <1>3, <2>1, AnswerSetsFinite, GlobalLeaderFacts
<1>6. QED
  BY <1>4, <1>5

-----------------------------------------------------------------------------
\* Mining goes on as it was, or stops at the last height once it is closed.
StopsWhenClosed ==
  \/ stopped' = stopped
  \/ /\ stopped' = TRUE
     /\ blockHeight[GlobalLeader] = EndBlockHeight
     /\ Cardinality(Finalizers(EndBlockHeight)) >= CommitteeQuorum

\* A step that handles one vote m at its receiver, posting new messages for
\* heights the leader has started, keeps the invariant.
LEMMA VoteStep ==
  ASSUME IInv, NEW m \in InFlight, NEW n, n = m.to, m.type \in VoteTypes,
         NEW new, \A x \in new : /\ x \in Messages /\ Routed(x)
                                 /\ x.height \in 1..blockHeight[GlobalLeader],
         check' = [check EXCEPT ![n] = Counted(n, m)],
         sent' = sent \cup new,
         handled' = handled \cup {m},
         UNCHANGED <<started, blockHeight, preparing>>,
         StopsWhenClosed
  PROVE  IInv'
<1> DEFINE top == blockHeight[GlobalLeader]
<1>1. /\ m \in sent /\ m \notin handled /\ m \in Messages /\ Routed(m)
      /\ n \in Nodes /\ m.height \in 1..top
  BY DEF InFlight, IInv, TypeOK, MessagesRouted, NobodyAheadOfLeader, Messages
<1>2. Counted(n, m) \in CheckType
  BY <1>1, CountedFacts DEF IInv
<1>3. TypeOK'
  <2>1. check' \in [Nodes -> CheckType]
    BY <1>1, <1>2 DEF IInv, TypeOK, CheckType
  <2>2. QED
    BY <1>1, <2>1 DEF IInv, TypeOK, CheckType, StopsWhenClosed
<1>4. LeaderPhases'
  BY DEF IInv, LeaderPhases, StopsWhenClosed
<1>5. MessagesRouted'
  BY DEF IInv, MessagesRouted, Routed, Scope
<1>6. \A k \in Nodes, t \in VoteTypes, s \in Scopes :
        /\ check'[k][t][s].latest = check[k][t][s].latest
        /\ \A h \in Heights :
             \/ check'[k][t][s].buffer[h] = check[k][t][s].buffer[h]
             \/ k = n /\ h = m.height /\ h > check[k][t][s].latest
  <2> SUFFICES ASSUME NEW k \in Nodes, NEW t \in VoteTypes, NEW s \in Scopes
      PROVE /\ check'[k][t][s].latest = check[k][t][s].latest
            /\ \A h \in Heights :
                 \/ check'[k][t][s].buffer[h] = check[k][t][s].buffer[h]
                 \/ k = n /\ h = m.height /\ h > check[k][t][s].latest
    OBVIOUS
  <2>1. CASE k = n
    <3>1. check'[k] = Counted(n, m)
      BY <2>1 DEF IInv, TypeOK
    <3>2. QED
      BY <1>1, <2>1, <3>1, CountedFacts DEF IInv
  <2>2. CASE k # n
    <3>1. check'[k] = check[k]
      BY <2>2 DEF IInv, TypeOK
    <3>2. QED
      BY <3>1
  <2>3. QED
    BY <2>1, <2>2
<1>7. NobodyAheadOfLeader'
  <2>1. /\ \A k \in Nodes : blockHeight'[k] <= blockHeight'[GlobalLeader]
        /\ \A x \in sent' : x.height \in 1..blockHeight'[GlobalLeader]
    BY DEF IInv, NobodyAheadOfLeader
  <2>2. \A k \in Nodes, t \in VoteTypes, s \in Scopes :
          /\ check'[k][t][s].latest = blockHeight'[k]
          /\ \A h \in Heights : check'[k][t][s].buffer[h] > 0
                                  => h <= blockHeight'[GlobalLeader]
    BY <1>1, <1>6 DEF IInv, NobodyAheadOfLeader
  <2>3. QED
    BY <2>1, <2>2 DEF NobodyAheadOfLeader
<1>8. LeaderNeverBuffers'
  <2> SUFFICES ASSUME NEW t \in VoteTypes, NEW s \in Scopes, NEW h \in Heights
      PROVE check'[GlobalLeader][t][s].buffer[h] = 0
    BY DEF LeaderNeverBuffers
  <2>1. check[GlobalLeader][t][s].buffer[h] = 0
          /\ check[GlobalLeader][t][s].latest = top
    BY GlobalLeaderFacts DEF IInv, LeaderNeverBuffers, NobodyAheadOfLeader
  <2>2. ~(m.height > top)
    <3>1. top \in Heights
      BY GlobalLeaderFacts DEF IInv, TypeOK
    <3>2. top \in Nat
      BY <3>1, HeightsFacts
    <3> HIDE DEF top
    <3>3. QED
      BY <1>1, <3>2
  <2>3. QED
    BY <1>6, <2>1, <2>2, GlobalLeaderFacts
<1>9. AnswersAreDistinct'
  <2> DEFINE q == check[GlobalLeader]["Finality"]["Global"]
             q2 == check'[GlobalLeader]["Finality"]["Global"]
  <2>1. q \in QuorumType /\ q2 \in QuorumType /\ q.votes \in Nat /\ q2.votes \in Nat
    BY <1>3, GlobalLeaderFacts DEF IInv, TypeOK, QuorumType
  <2>2. Cardinality(HeardFrom(top)) <= Cardinality(HeardFrom(top)')
    BY AnswerSetsGrow
  <2>3. /\ Cardinality(HeardFrom(top)) \in Nat
        /\ IsFiniteSet(HeardFrom(top)') /\ Cardinality(HeardFrom(top)') \in Nat
    <3>1. HeardFrom(top)' \subseteq IntraLeaders \ {GlobalLeader}
      BY DEF HeardFrom
    <3>2. QED
      BY <3>1, AnswerSetsFinite, FS_Subset, FS_CardinalityType
  <2>4. q.votes <= Cardinality(HeardFrom(top))
    BY DEF IInv, AnswersAreDistinct
  <2>5. CASE q2.votes = q.votes
    BY <2>1, <2>2, <2>3, <2>4, <2>5 DEF AnswersAreDistinct
  <2>6. CASE q2.votes # q.votes
    <3>1. n = GlobalLeader
      BY <2>6, GlobalLeaderFacts DEF IInv, TypeOK
    <3>2. q2 = Counted(n, m)["Finality"]["Global"]
      BY <1>1, <3>1 DEF IInv, TypeOK
    <3>3. m.type = "Finality" /\ Scope(m) = "Global"
      <4>1. <<"Finality", "Global">> = <<m.type, Scope(m)>>
        <5> SUFFICES ASSUME <<"Finality", "Global">> # <<m.type, Scope(m)>>
            PROVE FALSE
          OBVIOUS
        <5>1. Counted(n, m)["Finality"]["Global"] = check[n]["Finality"]["Global"]
          BY <1>1, CountedFacts, GlobalLeaderFacts DEF IInv
        <5>2. QED
          BY <2>6, <3>1, <3>2, <5>1
      <4>2. QED
        BY <4>1
    <3>4. q2.votes = IF Counts(q, CommitteeQuorum, m.height)
                     THEN Tally(q, CommitteeQuorum) ELSE q.votes
      BY <1>1, <3>1, <3>2, <3>3, CountedFacts DEF IInv, CommitteeQuorum
    <3>5. Counts(q, CommitteeQuorum, m.height)
      BY <2>6, <3>4
    <3>6. /\ m.height = top
          /\ q2.votes <= Cardinality(HeardFrom(top) \cup {m.from})
      BY <3>3, <3>4, <3>5, LeaderCountsOne
    <3>7. HeardFrom(top) \cup {m.from} \subseteq HeardFrom(top)'
      <4>1. m.from \in IntraLeaders \ {GlobalLeader}
        BY <3>3, AnswerIsNew
      <4>2. QED
        BY <3>3, <3>6, <4>1 DEF HeardFrom
    <3>8. /\ Cardinality(HeardFrom(top) \cup {m.from}) <= Cardinality(HeardFrom(top)')
          /\ Cardinality(HeardFrom(top) \cup {m.from}) \in Nat
      BY <2>3, <3>7, FS_Subset, FS_CardinalityType
    <3>9. QED
      BY <2>1, <2>3, <3>6, <3>8 DEF AnswersAreDistinct
  <2>7. QED
    BY <2>5, <2>6
<1>10. RoundsClosedByCommittee'
  <2> SUFFICES ASSUME NEW h \in Rounds,
                      (h < blockHeight'[GlobalLeader] \/ (stopped' /\ h = EndBlockHeight))
      PROVE Cardinality(Finalizers(h)') >= CommitteeQuorum
    BY DEF RoundsClosedByCommittee, CommitteeQuorum, Needed, Members
  <2>1. Cardinality(Finalizers(h)) >= CommitteeQuorum
    BY DEF IInv, RoundsClosedByCommittee, StopsWhenClosed
  <2>2. Cardinality(Finalizers(h)) <= Cardinality(Finalizers(h)')
    BY AnswerSetsGrow
  <2>3. Cardinality(Finalizers(h)) \in Nat /\ Cardinality(Finalizers(h)') \in Nat
    <3>1. Finalizers(h)' \subseteq IntraLeaders \ {GlobalLeader}
      BY DEF Finalizers
    <3>2. QED
      BY <3>1, AnswerSetsFinite, FS_Subset, FS_CardinalityType
  <2>4. QED
    BY <2>1, <2>2, <2>3, GlobalLeaderFacts
<1>11. QED
  BY <1>3, <1>4, <1>5, <1>7, <1>8, <1>9, <1>10 DEF IInv

\* Starting the next height keeps the invariant, given that the height the
\* leader leaves is closed.
LEMMA StartStep ==
  ASSUME IInv, NEW checks \in CheckType,
         \A t \in VoteTypes, s \in Scopes, k \in Heights : checks[t][s].buffer[k] = 0,
         StartConsensus(checks),
         blockHeight[GlobalLeader] # EndBlockHeight,
         blockHeight[GlobalLeader] \in Rounds =>
           Cardinality(Finalizers(blockHeight[GlobalLeader])) >= CommitteeQuorum,
         started' = TRUE, stopped = FALSE, stopped' = FALSE,
         handled \subseteq handled', handled' \subseteq sent
  PROVE  IInv'
<1> DEFINE top == blockHeight[GlobalLeader]
           h == top + 1
           new == BroadCast(GlobalLeader, "Intra", "PrePrepare", h, h)
                    \cup BroadCast(GlobalLeader, "Global", "PrePrepare", h, h)
<1>1. top \in Nat /\ h \in Nat /\ h \in Rounds /\ h \in Heights
  <2>1. top \in Heights
    BY GlobalLeaderFacts DEF IInv, TypeOK
  <2>2. QED
    BY <2>1, EndBlockHeightAssumption DEF Heights, Rounds
<1>2. \A x \in new : x \in Messages /\ x.height = h /\ Routed(x)
  BY <1>1, BroadCastFacts, GlobalLeaderFacts, FrustumAssumption
     DEF OnLevel, VoteTypes, Scopes
<1>3. /\ sent' = sent \cup new
      /\ blockHeight' = [blockHeight EXCEPT ![GlobalLeader] = h]
      /\ check' = [check EXCEPT ![GlobalLeader] = ResetVoteCheck(checks, h)]
      /\ preparing' = [preparing EXCEPT ![h] = "Intra"]
  BY DEF StartConsensus
<1> HIDE DEF h, new
<1>4. ResetVoteCheck(checks, h) \in CheckType
  BY <1>1, ResetVoteCheckFacts
<1>5. TypeOK'
  <2>1. check' \in [Nodes -> CheckType] /\ blockHeight' \in [Nodes -> Heights]
    BY <1>1, <1>3, <1>4 DEF IInv, TypeOK, CheckType
  <2>2. preparing' \in [Rounds -> Scopes \cup {"None", "Done"}]
    BY <1>1, <1>3 DEF IInv, TypeOK, Scopes
  <2>3. sent' \subseteq Messages /\ handled' \subseteq sent'
    BY <1>2, <1>3 DEF IInv, TypeOK
  <2>4. QED
    BY <2>1, <2>2, <2>3 DEF TypeOK, CheckType
<1>6. blockHeight'[GlobalLeader] = h
  BY <1>3, GlobalLeaderFacts DEF IInv, TypeOK
<1>7. LeaderPhases'
  <2>1. \A k \in Rounds : preparing'[k] # "None" => k <= h
    <3>1. \A k \in Rounds : k # h => preparing'[k] = preparing[k]
      BY <1>3 DEF IInv, TypeOK
    <3>2. \A k \in Rounds : preparing[k] # "None" => k <= top
      BY DEF IInv, LeaderPhases
    <3>3. \A k \in Rounds : k <= top => k <= h
      BY <1>1, HeightsFacts DEF h
    <3>4. h <= h
      BY <1>1
    <3>5. QED
      BY <3>1, <3>2, <3>3, <3>4
  <2>2. QED
    BY <1>6, <2>1 DEF LeaderPhases
<1>8. MessagesRouted'
  BY <1>2, <1>3 DEF IInv, MessagesRouted, Routed, Scope
<1>9. \A t \in VoteTypes, s \in Scopes :
        /\ check'[GlobalLeader][t][s].latest = h
        /\ check'[GlobalLeader][t][s].votes = 0
        /\ \A k \in Heights : check'[GlobalLeader][t][s].buffer[k] = 0
  <2>1. check'[GlobalLeader] = ResetVoteCheck(checks, h)
    BY <1>3, GlobalLeaderFacts DEF IInv, TypeOK
  <2>2. \A t \in VoteTypes, s \in Scopes :
          /\ ResetVoteCheck(checks, h)[t][s].latest = h
          /\ ResetVoteCheck(checks, h)[t][s].votes = 0
          /\ \A k \in Heights : ResetVoteCheck(checks, h)[t][s].buffer[k]
                                \in {0, checks[t][s].buffer[k]}
    BY <1>1, ResetVoteCheckFacts
  <2>3. QED
    BY <2>1, <2>2
<1>10. NobodyAheadOfLeader'
  <2>1. \A n \in Nodes : blockHeight'[n] <= h
    <3> SUFFICES ASSUME NEW n \in Nodes PROVE blockHeight'[n] <= h
      OBVIOUS
    <3>1. blockHeight[n] \in Nat /\ blockHeight[n] <= top
      BY HeightsFacts DEF IInv, TypeOK, NobodyAheadOfLeader
    <3>2. QED
      BY <1>1, <1>3, <1>6, <3>1 DEF h, IInv, TypeOK
  <2>2. \A x \in sent' : x.height \in 1..h
    BY <1>1, <1>2, <1>3 DEF h, IInv, NobodyAheadOfLeader
  <2>3. \A n \in Nodes, t \in VoteTypes, s \in Scopes :
          /\ check'[n][t][s].latest = blockHeight'[n]
          /\ \A k \in Heights : check'[n][t][s].buffer[k] > 0 => k <= h
    <3> SUFFICES ASSUME NEW n \in Nodes, NEW t \in VoteTypes, NEW s \in Scopes
        PROVE /\ check'[n][t][s].latest = blockHeight'[n]
              /\ \A k \in Heights : check'[n][t][s].buffer[k] > 0 => k <= h
      OBVIOUS
    <3>1. CASE n = GlobalLeader
      BY <1>6, <1>9, <3>1
    <3>2. CASE n # GlobalLeader
      <4>1. check'[n] = check[n] /\ blockHeight'[n] = blockHeight[n]
        BY <1>3, <3>2 DEF IInv, TypeOK
      <4>2. \A k \in Heights : check[n][t][s].buffer[k] > 0 => k <= top
        BY DEF IInv, NobodyAheadOfLeader
      <4>3. \A k \in Heights : k <= top => k <= h
        BY <1>1, HeightsFacts DEF h
      <4>4. QED
        BY <4>1, <4>2, <4>3 DEF IInv, NobodyAheadOfLeader
    <3>3. QED
      BY <3>1, <3>2
  <2>4. QED
    BY <1>6, <2>1, <2>2, <2>3 DEF NobodyAheadOfLeader
<1>11. LeaderNeverBuffers'
  BY <1>9 DEF LeaderNeverBuffers
<1>12. AnswersAreDistinct'
  <2>1. HeardFrom(blockHeight[GlobalLeader])' \subseteq IntraLeaders \ {GlobalLeader}
    BY DEF HeardFrom
  <2>2. Cardinality(HeardFrom(blockHeight[GlobalLeader])') \in Nat
    BY <2>1, AnswerSetsFinite, FS_Subset, FS_CardinalityType
  <2>3. check'[GlobalLeader]["Finality"]["Global"].votes = 0
    BY <1>9, GlobalLeaderFacts
  <2>4. QED
    BY <2>2, <2>3 DEF AnswersAreDistinct
<1>13. RoundsClosedByCommittee'
  <2> SUFFICES ASSUME NEW k \in Rounds, k < h
      PROVE Cardinality(Finalizers(k)') >= CommitteeQuorum
    BY <1>6 DEF RoundsClosedByCommittee, CommitteeQuorum, Needed, Members
  <2>1. k < top \/ k = top
    BY <1>1, HeightsFacts DEF h
  <2>2. Cardinality(Finalizers(k)) >= CommitteeQuorum
    BY <2>1 DEF IInv, RoundsClosedByCommittee
  <2>3. Cardinality(Finalizers(k)) <= Cardinality(Finalizers(k)')
    BY <1>3, AnswerSetsGrow
  <2>4. Cardinality(Finalizers(k)) \in Nat /\ Cardinality(Finalizers(k)') \in Nat
    <3>1. Finalizers(k)' \subseteq IntraLeaders \ {GlobalLeader}
      BY DEF Finalizers
    <3>2. QED
      BY <3>1, AnswerSetsFinite, FS_Subset, FS_CardinalityType
  <2>5. QED
    BY <2>2, <2>3, <2>4, GlobalLeaderFacts
<1>14. QED
  BY <1>5, <1>7, <1>8, <1>10, <1>11, <1>12, <1>13 DEF IInv

\* A proposal handled by a follower keeps the invariant.
LEMMA PrePrepareStep ==
  ASSUME IInv, NEW m \in InFlight, HandlePrePrepare(m.to, m)
  PROVE  IInv'
<1> DEFINE n == m.to
           top == blockHeight[GlobalLeader]
           new == BroadCast(n, Scope(m), "Prepare", m.height, m.height)
<1>1. /\ m \in sent /\ m \notin handled /\ m \in Messages /\ Routed(m)
      /\ n \in Nodes /\ m.height \in 1..top /\ m.height \in Heights
      /\ m.type = "PrePrepare"
  BY DEF InFlight, IInv, TypeOK, MessagesRouted, NobodyAheadOfLeader, Messages,
         HandlePrePrepare
<1>2. n # GlobalLeader
  BY <1>1 DEF Routed
<1>3. m.height \in Rounds
  BY <1>1, HeightsFacts DEF Rounds
<1>4. \A x \in new : x \in Messages /\ x.height = m.height /\ Routed(x)
  BY <1>1, <1>3, BroadCastFacts, ReceiverOnLevel DEF VoteTypes
<1>5. /\ sent' = sent \cup new /\ handled' = handled \cup {m}
      /\ blockHeight' = [blockHeight EXCEPT ![n] = m.height]
      /\ check' = [check EXCEPT ![n] = ResetVoteCheck(check[n], m.height)]
      /\ UNCHANGED <<started, preparing, stopped>>
  BY <1>1 DEF HandlePrePrepare, IInv, TypeOK
<1> HIDE DEF new, n
<1>6. check[n] \in CheckType /\ ResetVoteCheck(check[n], m.height) \in CheckType
  BY <1>1, ResetVoteCheckFacts DEF IInv, TypeOK, CheckType
<1>7. TypeOK'
  <2>1. check' \in [Nodes -> CheckType] /\ blockHeight' \in [Nodes -> Heights]
    BY <1>1, <1>5, <1>6 DEF IInv, TypeOK, CheckType
  <2>2. sent' \subseteq Messages /\ handled' \subseteq sent'
    BY <1>1, <1>4, <1>5 DEF IInv, TypeOK
  <2>3. QED
    BY <1>5, <2>1, <2>2 DEF IInv, TypeOK, CheckType
<1>8. /\ blockHeight'[GlobalLeader] = top
      /\ check'[GlobalLeader] = check[GlobalLeader]
  BY <1>2, <1>5, GlobalLeaderFacts DEF IInv, TypeOK
<1>9. LeaderPhases'
  BY <1>5, <1>8 DEF IInv, LeaderPhases
<1>10. MessagesRouted'
  BY <1>4, <1>5 DEF IInv, MessagesRouted, Routed, Scope
<1>11. NobodyAheadOfLeader'
  <2>1. \A k \in Nodes : blockHeight'[k] <= top
    BY <1>1, <1>5 DEF IInv, TypeOK, NobodyAheadOfLeader
  <2>2. \A x \in sent' : x.height \in 1..top
    BY <1>1, <1>4, <1>5 DEF IInv, NobodyAheadOfLeader
  <2>3. ASSUME NEW k \in Nodes, NEW t \in VoteTypes, NEW s \in Scopes
        PROVE  /\ check'[k][t][s].latest = blockHeight'[k]
               /\ \A h \in Heights : check'[k][t][s].buffer[h] > 0 => h <= top
    <3>1. CASE k = n
      <4>1. /\ check'[k] = ResetVoteCheck(check[n], m.height)
            /\ blockHeight'[k] = m.height
        BY <1>1, <1>5, <3>1 DEF IInv, TypeOK
      <4>2. /\ ResetVoteCheck(check[n], m.height)[t][s].latest = m.height
            /\ \A h \in Heights : ResetVoteCheck(check[n], m.height)[t][s].buffer[h]
                                    \in {0, check[n][t][s].buffer[h]}
        <5> DEFINE checks == check[n]
        <5>1. checks \in CheckType
          BY <1>6
        <5> HIDE DEF checks
        <5>2. /\ ResetVoteCheck(checks, m.height)[t][s].latest = m.height
              /\ \A h \in Heights : ResetVoteCheck(checks, m.height)[t][s].buffer[h]
                                      \in {0, checks[t][s].buffer[h]}
          BY <1>1, <5>1, ResetVoteCheckFacts
        <5>3. QED
          BY <5>2 DEF checks
      <4>3. QED
        BY <1>1, <4>1, <4>2 DEF IInv, NobodyAheadOfLeader
    <3>2. CASE k # n
      <4>1. check'[k] = check[k] /\ blockHeight'[k] = blockHeight[k]
        BY <1>5, <3>2 DEF IInv, TypeOK
      <4>2. QED
        BY <4>1 DEF IInv, NobodyAheadOfLeader
    <3>3. QED
      BY <3>1, <3>2
  <2>4. QED
    BY <1>8, <2>1, <2>2, <2>3 DEF NobodyAheadOfLeader
<1>12. LeaderNeverBuffers'
  BY <1>8 DEF IInv, LeaderNeverBuffers
<1>13. AnswersAreDistinct' /\ RoundsClosedByCommittee'
  <2>1. /\ sent \subseteq sent' /\ handled \subseteq handled' /\ stopped' = stopped
        /\ AnswersAreDistinct /\ RoundsClosedByCommittee /\ TypeOK
    BY <1>5 DEF IInv
  <2>2. QED
    BY <1>8, <2>1, AnswersKept, AnswerCountType
<1>14. QED
  BY <1>7, <1>9, <1>10, <1>11, <1>12, <1>13 DEF IInv

\* The goroutine that sends the leader's Prepare keeps the invariant.
LEMMA SendPrepareStep ==
  ASSUME IInv, NEW r \in Rounds, SendPrepare(r)
  PROVE  IInv'
<1> DEFINE h == blockHeight[GlobalLeader]
           new == BroadCast(GlobalLeader, preparing[r], "Prepare", h, r)
<1>1. preparing[r] \in Scopes /\ OnLevel(GlobalLeader, preparing[r])
  BY GlobalLeaderFacts, FrustumAssumption DEF SendPrepare, OnLevel
<1>2. h \in Rounds
  <2>1. h \in Heights /\ h # 0
    <3>1. r <= h /\ h \in Heights
      BY <1>1, GlobalLeaderFacts DEF IInv, TypeOK, LeaderPhases, Scopes
    <3>2. QED
      BY <3>1, HeightsFacts
  <2>2. QED
    BY <2>1 DEF Rounds
<1>3. \A x \in new : x \in Messages /\ x.height = h /\ Routed(x)
  BY <1>1, <1>2, BroadCastFacts DEF VoteTypes
<1>4. /\ sent' = sent \cup new
      /\ preparing' = [preparing EXCEPT ![r] = IF @ = "Intra" THEN "Global" ELSE "Done"]
      /\ UNCHANGED <<started, blockHeight, check, handled, stopped>>
  BY DEF SendPrepare
<1>5. h \in 1..h
  BY <1>2, HeightsFacts
<1> HIDE DEF new
<1>6. TypeOK'
  BY <1>3, <1>4 DEF IInv, TypeOK, Scopes
<1>7. LeaderPhases' /\ LeaderNeverBuffers'
  <2>1. \A k \in Rounds : preparing'[k] # "None" => preparing[k] # "None"
    BY <1>1, <1>4 DEF IInv, TypeOK, Scopes
  <2>2. QED
    BY <1>4, <2>1 DEF IInv, LeaderPhases, LeaderNeverBuffers
<1>8. NobodyAheadOfLeader' /\ MessagesRouted'
  BY <1>3, <1>4, <1>5 DEF IInv, NobodyAheadOfLeader, MessagesRouted, Routed, Scope
<1>9. AnswersAreDistinct' /\ RoundsClosedByCommittee'
  <2>1. /\ sent \subseteq sent' /\ handled \subseteq handled' /\ stopped' = stopped
        /\ blockHeight' = blockHeight /\ check' = check
        /\ AnswersAreDistinct /\ RoundsClosedByCommittee /\ TypeOK
    BY <1>4 DEF IInv
  <2>2. QED
    BY <2>1, AnswersKept, AnswerCountType
<1>10. QED
  BY <1>6, <1>7, <1>8, <1>9 DEF IInv

\* A vote that completes a quorum is for the height its receiver is at.
LEMMA FinishedHeight ==
  ASSUME IInv, NEW m \in InFlight, m.type \in VoteTypes, Finishes(m.to, m)
  PROVE  /\ m.height = blockHeight[m.to]
         /\ blockHeight[m.to] \in Rounds
         /\ blockHeight[m.to] \in 1..blockHeight[GlobalLeader]
<1>1. m \in Messages /\ Routed(m) /\ m.height \in 1..blockHeight[GlobalLeader]
  BY DEF InFlight, IInv, TypeOK, MessagesRouted, NobodyAheadOfLeader
<1>2. m.to \in Nodes /\ Scope(m) \in Scopes
  BY <1>1, ReceiverOnLevel DEF Messages
<1>3. m.height = check[m.to][m.type][Scope(m)].latest
  BY DEF Finishes, Reaches, Counts
<1>4. m.height = blockHeight[m.to]
  BY <1>2, <1>3 DEF IInv, NobodyAheadOfLeader
<1>5. blockHeight[m.to] \in Heights /\ blockHeight[m.to] # 0
  BY <1>1, <1>2, <1>4 DEF IInv, TypeOK
<1>6. QED
  BY <1>1, <1>4, <1>5 DEF Rounds

\* Handling a Prepare vote keeps the invariant.
LEMMA PrepareStep ==
  ASSUME IInv, NEW m \in InFlight, HandlePrepare(m.to, m)
  PROVE  IInv'
<1> DEFINE n == m.to
           h == blockHeight[n]
           new == IF Finishes(n, m) THEN BroadCast(n, Scope(m), "Commit", h, h) ELSE {}
<1>1. /\ m \in Messages /\ Routed(m) /\ m.type = "Prepare" /\ m.type \in VoteTypes
  BY DEF InFlight, IInv, TypeOK, MessagesRouted, HandlePrepare, VoteTypes
<1>2. \A x \in new : /\ x \in Messages /\ Routed(x)
                     /\ x.height \in 1..blockHeight[GlobalLeader]
  <2>1. CASE Finishes(n, m)
    <3>1. h \in Rounds /\ h \in 1..blockHeight[GlobalLeader]
      BY <1>1, <2>1, FinishedHeight
    <3>2. QED
      BY <1>1, <2>1, <3>1, BroadCastFacts, ReceiverOnLevel DEF VoteTypes
  <2>2. QED
    BY <2>1
<1>3. /\ check' = [check EXCEPT ![n] = Counted(n, m)]
      /\ sent' = sent \cup new /\ handled' = handled \cup {m}
      /\ UNCHANGED <<started, blockHeight, preparing>> /\ StopsWhenClosed
  BY DEF HandlePrepare, StopsWhenClosed
<1> HIDE DEF new
<1>4. QED
  BY <1>1, <1>2, <1>3, VoteStep

\* Handling a Commit vote keeps the invariant: the Finality answer it may cause is
\* for the round the level is in and goes to the leader.
LEMMA CommitStep ==
  ASSUME IInv, NEW m \in InFlight, HandleCommit(m.to, m)
  PROVE  IInv'
<1> DEFINE n == m.to
           h == blockHeight[n]
           answer == [type |-> "Finality", from |-> n, to |-> GlobalLeader,
                      height |-> h, round |-> h]
           new == IF Finishes(n, m) /\ n # GlobalLeader THEN {answer} ELSE {}
<1>1. /\ m \in Messages /\ Routed(m) /\ m.type = "Commit" /\ m.type \in VoteTypes
  BY DEF InFlight, IInv, TypeOK, MessagesRouted, HandleCommit, VoteTypes
<1>2. \A x \in new : /\ x \in Messages /\ Routed(x)
                     /\ x.height \in 1..blockHeight[GlobalLeader]
  <2>1. CASE Finishes(n, m) /\ n # GlobalLeader
    <3>1. h \in Rounds /\ h \in Heights /\ h \in 1..blockHeight[GlobalLeader]
      BY <1>1, <2>1, FinishedHeight DEF Rounds
    <3>2. n \in Nodes
      BY <1>1 DEF Messages
    <3>3. answer \in Messages
      BY <3>1, <3>2, GlobalLeaderFacts DEF Messages, VoteTypes
    <3>4. OnLevel(n, Scope(m)) /\ Scope(m) \in Scopes
      BY <1>1, ReceiverOnLevel
    <3>5. Routed(answer)
      <4>1. CASE Scope(m) = "Intra"
        BY <2>1, <3>4, <4>1 DEF Routed, Scope, OnLevel
      <4>2. CASE Scope(m) = "Global"
        <5>1. n \in IntraLeaders /\ ShardOf[n] # ShardOf[GlobalLeader]
          BY <2>1, <3>4, <4>2, FrustumAssumption DEF OnLevel
        <5>2. QED
          BY <2>1, <5>1, FrustumAssumption DEF Routed, Scope
      <4>3. QED
        BY <3>4, <4>1, <4>2 DEF Scopes
    <3>6. QED
      BY <2>1, <3>1, <3>3, <3>5
  <2>2. QED
    BY <2>1
<1>3. /\ check' = [check EXCEPT ![n] = Counted(n, m)]
      /\ sent' = sent \cup new /\ handled' = handled \cup {m}
      /\ UNCHANGED <<started, blockHeight, preparing>> /\ StopsWhenClosed
  BY DEF HandleCommit, StopsWhenClosed
<1> HIDE DEF new
<1>4. QED
  BY <1>1, <1>2, <1>3, VoteStep

\* The leader is answered: it counts, goes on to the next height, or stops.
LEMMA FinalityStep ==
  ASSUME IInv, NEW m \in InFlight, HandleFinality(m)
  PROVE  IInv'
<1> DEFINE L == GlobalLeader
           closes == Finishes(L, m) /\ Scope(m) = "Global"
           new == {}
<1>1. /\ m \in sent /\ m \notin handled /\ m \in Messages /\ Routed(m)
      /\ m.to = L /\ m.type = "Finality" /\ m.type \in VoteTypes
      /\ handled' = handled \cup {m} /\ started' = started
  BY DEF InFlight, IInv, TypeOK, MessagesRouted, HandleFinality, ClosesRound, LastRound, VoteTypes
<1>2. CASE ~closes
  <2> DEFINE n == m.to
  <2>1. /\ check' = [check EXCEPT ![L] = Counted(L, m)] /\ sent' = sent \cup new
        /\ UNCHANGED <<started, blockHeight, preparing>> /\ StopsWhenClosed
    BY <1>1, <1>2 DEF HandleFinality, ClosesRound, LastRound, StopsWhenClosed
  <2>2. /\ \A x \in new : /\ x \in Messages /\ Routed(x)
                           /\ x.height \in 1..blockHeight[GlobalLeader]
        /\ check' = [check EXCEPT ![n] = Counted(n, m)]
    BY <1>1, <2>1
  <2> HIDE DEF new
  <2>3. QED
    BY <1>1, <2>1, <2>2, VoteStep
<1>3. CASE closes /\ blockHeight[L] = EndBlockHeight
  <2>1. /\ check' = [check EXCEPT ![L] = Counted(L, m)] /\ sent' = sent \cup new
        /\ stopped' = TRUE
        /\ UNCHANGED <<started, blockHeight, preparing>>
    BY <1>1, <1>3 DEF HandleFinality, ClosesRound, LastRound
  <2>2. Cardinality(Finalizers(EndBlockHeight)) >= CommitteeQuorum
    BY <1>1, <1>3, QuorumHasAnswered
  <2>3. QED
    <3>1. StopsWhenClosed
      BY <1>3, <2>1, <2>2 DEF StopsWhenClosed
    <3> DEFINE n == m.to
    <3>2. /\ \A x \in new : /\ x \in Messages /\ Routed(x)
                             /\ x.height \in 1..blockHeight[GlobalLeader]
          /\ check' = [check EXCEPT ![n] = Counted(n, m)]
      BY <1>1, <2>1
    <3> HIDE DEF new
    <3>3. QED
      BY <1>1, <2>1, <3>1, <3>2, VoteStep
<1>4. CASE closes /\ blockHeight[L] # EndBlockHeight
  <2>1. StartConsensus(Counted(L, m)) /\ stopped' = stopped
    BY <1>1, <1>4 DEF HandleFinality, ClosesRound, LastRound
  <2>2. Cardinality(Finalizers(blockHeight[L])) >= CommitteeQuorum
    BY <1>1, <1>4, QuorumHasAnswered
  <2>3. stopped = FALSE
    BY <1>4 DEF IInv, LeaderPhases, TypeOK
  <2>4. started = TRUE
    <3>1. blockHeight[L] # 0
      <4>1. blockHeight[L] \in Rounds
        BY <1>1, <1>4, FinishedHeight
      <4>2. QED
        BY <4>1, HeightsFacts
    <3>2. QED
      BY <3>1 DEF IInv, LeaderPhases, TypeOK
  <2>5. /\ Counted(L, m) \in CheckType
        /\ \A t \in VoteTypes, s \in Scopes, k \in Heights :
             Counted(L, m)[t][s].buffer[k] = 0
    <3>1. blockHeight[L] \in Nat
      BY HeightsFacts, GlobalLeaderFacts DEF IInv, TypeOK
    <3>2. m.height \in 1..blockHeight[L]
      BY <1>1 DEF IInv, NobodyAheadOfLeader
    <3>3. \A t \in VoteTypes, s \in Scopes :
            ~(m.height > check[L][t][s].latest)
      BY <3>1, <3>2, GlobalLeaderFacts DEF IInv, NobodyAheadOfLeader
    <3>4. \A t \in VoteTypes, s \in Scopes, k \in Heights :
            Counted(L, m)[t][s].buffer[k] = check[L][t][s].buffer[k]
      BY <1>1, <3>3, CountedFacts, GlobalLeaderFacts DEF IInv
    <3>5. QED
      BY <1>1, <3>4, CountedFacts, GlobalLeaderFacts DEF IInv, LeaderNeverBuffers
  <2>6. handled \subseteq handled' /\ handled' \subseteq sent
    BY <1>1 DEF IInv, TypeOK
  <2>7. QED
    BY <1>1, <1>4, <2>1, <2>2, <2>3, <2>4, <2>5, <2>6, StartStep
<1>5. QED
  BY <1>2, <1>3, <1>4

\* "start" keeps the invariant.
LEMMA StartupStep ==
  ASSUME IInv, HandleStart
  PROVE  IInv'
<1> DEFINE checks == check[GlobalLeader]
<1>1. /\ started = FALSE /\ started' = TRUE /\ StartConsensus(checks)
      /\ handled' = handled /\ stopped' = stopped
  BY DEF HandleStart, IInv, TypeOK
<1>2. blockHeight[GlobalLeader] = 0
  BY <1>1 DEF IInv, LeaderPhases
<1>3. blockHeight[GlobalLeader] # EndBlockHeight /\ blockHeight[GlobalLeader] \notin Rounds
  BY <1>2, EndBlockHeightAssumption DEF Rounds
<1>4. stopped = FALSE
  BY <1>3 DEF IInv, LeaderPhases, TypeOK
<1>5. checks \in CheckType
  BY GlobalLeaderFacts DEF IInv, TypeOK, CheckType
<1>6. \A t \in VoteTypes, s \in Scopes, k \in Heights : checks[t][s].buffer[k] = 0
  BY DEF IInv, LeaderNeverBuffers
<1>7. handled \subseteq handled' /\ handled' \subseteq sent
  BY <1>1 DEF IInv, TypeOK
<1> HIDE DEF checks
<1>8. QED
  BY <1>1, <1>3, <1>4, <1>5, <1>6, <1>7, StartStep

\* The invariant holds before "start".
LEMMA InitIInv == Init => IInv
<1> SUFFICES ASSUME Init PROVE IInv
  OBVIOUS
<1>1. /\ 0 \in Heights
      /\ \A t \in VoteTypes, s \in Scopes, n \in Nodes : check[n][t][s] = NewQuorum
  BY EndBlockHeightAssumption DEF Init, Heights
<1>2. NewQuorum.latest = 0 /\ NewQuorum.votes = 0 /\ \A h \in Heights : NewQuorum.buffer[h] = 0
  BY DEF NewQuorum
<1>3. TypeOK
  BY <1>1, NewQuorumType DEF Init, TypeOK
<1>4. blockHeight[GlobalLeader] = 0
  BY GlobalLeaderFacts DEF Init
<1>5. LeaderPhases /\ MessagesRouted
  BY <1>4 DEF Init, LeaderPhases, MessagesRouted
<1>6. NobodyAheadOfLeader
  BY <1>1, <1>2, <1>4 DEF Init, NobodyAheadOfLeader
<1>7. LeaderNeverBuffers
  BY <1>1, <1>2, GlobalLeaderFacts DEF LeaderNeverBuffers
<1>8. AnswersAreDistinct
  <2>1. check[GlobalLeader]["Finality"]["Global"].votes = 0
    BY <1>1, <1>2, GlobalLeaderFacts
  <2>2. QED
    BY <1>4, <2>1, AnswerSetsFinite, FS_CardinalityType DEF AnswersAreDistinct
<1>9. RoundsClosedByCommittee
  BY <1>4, HeightsFacts DEF Init, RoundsClosedByCommittee, Rounds
<1>10. QED
  BY <1>3, <1>5, <1>6, <1>7, <1>8, <1>9 DEF IInv

\* Every step keeps the invariant.
LEMMA NextIInv == IInv /\ [Next]_vars => IInv'
<1> SUFFICES ASSUME IInv, [Next]_vars PROVE IInv'
  OBVIOUS
<1>1. CASE HandleStart
  BY <1>1, StartupStep
<1>2. ASSUME NEW r \in Rounds, SendPrepare(r) PROVE IInv'
  BY <1>2, SendPrepareStep
<1>3. ASSUME NEW m \in InFlight, HandleMessage(m) PROVE IInv'
  BY <1>3, PrePrepareStep, PrepareStep, CommitStep, FinalityStep DEF HandleMessage
<1>4. CASE UNCHANGED vars
  BY <1>4 DEF vars, IInv, TypeOK, LeaderPhases, NobodyAheadOfLeader, LeaderNeverBuffers,
              MessagesRouted, Routed, Scope, AnswersAreDistinct, HeardFrom,
              RoundsClosedByCommittee, Finalizers, CommitteeQuorum, Needed, Members
<1>5. QED
  BY <1>1, <1>2, <1>3, <1>4 DEF Next, Terminated

\* The inductive invariant holds in every reachable state, for any committee,
\* any shards and any number of heights.
THEOREM Invariance == Spec => []IInv
<1>1. QED
  BY InitIInv, NextIInv, PTL DEF Spec

\* Heights, counters and messages stay in their types.
THEOREM TypeCorrect == Spec => []TypeOK
<1>1. IInv => TypeOK
  BY DEF IInv
<1>2. QED
  BY <1>1, Invariance, PTL

\* The leader alone drives the heights.
THEOREM LeaderDrivesHeights == Spec => []NobodyAheadOfLeader
<1>1. IInv => NobodyAheadOfLeader
  BY DEF IInv
<1>2. QED
  BY <1>1, Invariance, PTL

\* The leader counts no answer twice and none of another height, although late
\* answers arrive among those of its height (ConsensusFunc.go, HandleFinality).
THEOREM DistinctAnswers == Spec => []AnswersAreDistinct
<1>1. IInv => AnswersAreDistinct
  BY DEF IInv
<1>2. QED
  BY <1>1, Invariance, PTL

\* The leader leaves a height only on f + 1 answers of distinct committee members.
THEOREM RoundsClosed == Spec => []RoundsClosedByCommittee
<1>1. IInv => RoundsClosedByCommittee
  BY DEF IInv
<1>2. QED
  BY <1>1, Invariance, PTL


-----------------------------------------------------------------------------
\* Posts that are no Finality answers change no answer set.
LEMMA NoAnswerPosted ==
  ASSUME NEW new, \A x \in new : x.type # "Finality", sent' = sent \cup new
  PROVE  [h \in Rounds |-> Finalizers(h)]' = [h \in Rounds |-> Finalizers(h)]
<1>1. \A h \in Rounds : (Finalizers(h))' = Finalizers(h)
  BY DEF Finalizers
<1>2. QED
  BY <1>1

\* A proposal, and any other broadcast of votes, is no answer.
LEMMA BroadCastIsNoAnswer ==
  ASSUME NEW n, NEW s, NEW type, type # "Finality", NEW h, NEW r
  PROVE  \A x \in BroadCast(n, s, type, h, r) : x.type # "Finality"
<1>1. QED
  BY DEF BroadCast

\* Starting the next height closes the one before it, or opens the first.
LEMMA StartConsensusImplements ==
  ASSUME NEW checks, StartConsensus(checks), TypeOK
  PROVE  /\ blockHeight'[GlobalLeader] = blockHeight[GlobalLeader] + 1
         /\ [h \in Rounds |-> Finalizers(h)]' = [h \in Rounds |-> Finalizers(h)]
<1> DEFINE h == blockHeight[GlobalLeader] + 1
           new == BroadCast(GlobalLeader, "Intra", "PrePrepare", h, h)
                    \cup BroadCast(GlobalLeader, "Global", "PrePrepare", h, h)
<1>1. /\ sent' = sent \cup new
      /\ blockHeight' = [blockHeight EXCEPT ![GlobalLeader] = h]
  BY DEF StartConsensus
<1>2. \A x \in new : x.type # "Finality"
  BY BroadCastIsNoAnswer
<1> HIDE DEF new
<1>3. QED
  BY <1>1, <1>2, NoAnswerPosted, GlobalLeaderFacts DEF TypeOK

\* The initial states are initial states of the abstract specification.
LEMMA InitImplements == Init => Abstract!Init
<1>1. Rounds = 1..EndBlockHeight
  BY EndBlockHeightAssumption DEF Rounds, Heights
<1>2. Init => \A h \in Rounds : Finalizers(h) = {}
  BY DEF Init, Finalizers
<1>3. QED
  BY <1>1, <1>2, GlobalLeaderFacts DEF Init, Abstract!Init

\* A Commit handled is one committee member's answer, or none.
LEMMA CommitImplements ==
  ASSUME IInv, NEW m \in InFlight, HandleCommit(m.to, m)
  PROVE  [Abstract!Next]_Abstract!vars
<1> DEFINE n == m.to
           h == blockHeight[n]
           answer == [type |-> "Finality", from |-> n, to |-> GlobalLeader,
                      height |-> h, round |-> h]
           old == [k \in Rounds |-> Finalizers(k)]
<1>1. /\ m \in Messages /\ m.type = "Commit" /\ m.type \in VoteTypes
      /\ blockHeight' = blockHeight /\ stopped' = stopped
  BY DEF InFlight, IInv, TypeOK, HandleCommit, VoteTypes
<1>2. CASE ~(Finishes(n, m) /\ n # GlobalLeader)
  <2>1. sent' = sent
    BY <1>2 DEF HandleCommit
  <2>2. [k \in Rounds |-> Finalizers(k)]' = old
    BY <2>1 DEF Finalizers
  <2>3. QED
    BY <1>1, <2>2 DEF Abstract!vars
<1>3. CASE Finishes(n, m) /\ n # GlobalLeader
  <2>1. sent' = sent \cup {answer}
    BY <1>3 DEF HandleCommit
  <2>2. h \in Rounds /\ h \in 1..blockHeight[GlobalLeader]
    BY <1>1, <1>3, FinishedHeight
  <2>3. \A k \in Rounds : (Finalizers(k))' =
          IF k = h /\ n \in IntraLeaders THEN Finalizers(k) \cup {n} ELSE Finalizers(k)
    <3>1. answer.type = "Finality" /\ answer.from = n /\ answer.height = h
      OBVIOUS
    <3> HIDE DEF answer, n, h
    <3>2. QED
      BY <1>3, <2>1, <3>1 DEF Finalizers
  <2>4. CASE n \notin IntraLeaders \/ n \in Finalizers(h)
    <3>1. [k \in Rounds |-> Finalizers(k)]' = old
      BY <2>3, <2>4
    <3>2. QED
      BY <1>1, <3>1 DEF Abstract!vars
  <2>5. CASE n \in IntraLeaders /\ n \notin Finalizers(h)
    <3>1. [k \in Rounds |-> Finalizers(k)]' = [old EXCEPT ![h] = @ \cup {n}]
      BY <2>2, <2>3, <2>5
    <3>2. h <= blockHeight[GlobalLeader] /\ n \notin old[h]
      BY <2>2, <2>5
    <3>3. n \in IntraLeaders \ {GlobalLeader} /\ h \in 1..EndBlockHeight
      BY <1>3, <2>2, <2>5, EndBlockHeightAssumption DEF Rounds, Heights
    <3> HIDE DEF n, h
    <3>4. Abstract!Answer(n, h)
      BY <1>1, <3>1, <3>2 DEF Abstract!Answer
    <3>5. QED
      BY <3>3, <3>4 DEF Abstract!Next
  <2>6. QED
    BY <2>4, <2>5
<1>4. QED
  BY <1>2, <1>3

\* An answer handled by the leader closes its height, or changes nothing.
LEMMA FinalityImplements ==
  ASSUME IInv, NEW m \in InFlight, HandleFinality(m)
  PROVE  [Abstract!Next]_Abstract!vars
<1> DEFINE L == GlobalLeader
           closes == Finishes(L, m) /\ Scope(m) = "Global"
           old == [k \in Rounds |-> Finalizers(k)]
<1>1. /\ m.to = L /\ m.type = "Finality" /\ m.type \in VoteTypes /\ TypeOK
  BY DEF IInv, HandleFinality, ClosesRound, LastRound, VoteTypes
<1>2. CASE ~closes
  <2>1. sent' = sent /\ blockHeight' = blockHeight /\ stopped' = stopped
    BY <1>2 DEF HandleFinality, ClosesRound, LastRound
  <2>2. [k \in Rounds |-> Finalizers(k)]' = old
    BY <2>1 DEF Finalizers
  <2>3. QED
    BY <2>1, <2>2 DEF Abstract!vars
<1>3. CASE closes
  <2>1. /\ old[blockHeight[L]] \in {Q \in SUBSET (IntraLeaders \ {GlobalLeader}) :
                                      Cardinality(Q) >= CommitteeQuorum}
        /\ blockHeight[L] > 0
    <3>1. Cardinality(Finalizers(blockHeight[L])) >= CommitteeQuorum
      BY <1>1, <1>3, QuorumHasAnswered
    <3>2. blockHeight[L] \in Rounds
      BY <1>1, <1>3, FinishedHeight
    <3>3. Finalizers(blockHeight[L]) \subseteq IntraLeaders \ {GlobalLeader}
      BY DEF Finalizers
    <3>4. old[blockHeight[L]] = Finalizers(blockHeight[L]) /\ blockHeight[L] > 0
      BY <3>2, HeightsFacts
    <3> HIDE DEF old
    <3>5. QED
      BY <3>1, <3>3, <3>4
  <2>2. CASE blockHeight[L] = EndBlockHeight
    <3>1. sent' = sent /\ blockHeight' = blockHeight /\ stopped' = TRUE
      BY <1>3, <2>2 DEF HandleFinality, ClosesRound, LastRound
    <3>2. [k \in Rounds |-> Finalizers(k)]' = old
      BY <3>1 DEF Finalizers
    <3>3. CASE stopped = TRUE
      BY <3>1, <3>2, <3>3 DEF Abstract!vars
    <3>4. CASE stopped = FALSE
      <4>1. Abstract!Close
        BY <2>1, <2>2, <3>1, <3>2, <3>4 DEF Abstract!Close
      <4>2. QED
        BY <4>1 DEF Abstract!Next
    <3>5. QED
      BY <3>3, <3>4 DEF IInv, TypeOK
  <2>3. CASE blockHeight[L] # EndBlockHeight
    <3>1. StartConsensus(Counted(L, m)) /\ stopped' = stopped
      BY <1>3, <2>3 DEF HandleFinality, ClosesRound, LastRound
    <3>2. /\ blockHeight'[L] = blockHeight[L] + 1
          /\ [k \in Rounds |-> Finalizers(k)]' = old
      BY <1>1, <3>1, StartConsensusImplements
    <3>3. stopped = FALSE
      BY <2>3 DEF IInv, LeaderPhases, TypeOK
    <3>4. Abstract!Close
      BY <2>1, <2>3, <3>1, <3>2, <3>3 DEF Abstract!Close
    <3>5. QED
      BY <3>4 DEF Abstract!Next
  <2>4. QED
    BY <2>2, <2>3
<1>4. QED
  BY <1>2, <1>3

\* Every step is a step of the abstract specification or leaves its variables alone.
LEMMA NextImplements ==
  ASSUME IInv, [Next]_vars
  PROVE  [Abstract!Next]_Abstract!vars
<1> DEFINE old == [k \in Rounds |-> Finalizers(k)]
<1>1. CASE HandleStart
  <2>1. blockHeight[GlobalLeader] = 0
    BY <1>1 DEF HandleStart, IInv, LeaderPhases
  <2>2. /\ blockHeight'[GlobalLeader] = blockHeight[GlobalLeader] + 1
        /\ [k \in Rounds |-> Finalizers(k)]' = old
    BY <1>1, StartConsensusImplements DEF HandleStart, IInv
  <2>3. stopped' = stopped
    BY <1>1 DEF HandleStart
  <2>4. QED
    BY <2>1, <2>2, <2>3 DEF Abstract!Next, Abstract!Start
<1>2. ASSUME NEW r \in Rounds, SendPrepare(r) PROVE UNCHANGED Abstract!vars
  <2> DEFINE new == BroadCast(GlobalLeader, preparing[r], "Prepare",
                              blockHeight[GlobalLeader], r)
  <2>1. /\ sent' = sent \cup new /\ blockHeight' = blockHeight /\ stopped' = stopped
    BY <1>2 DEF SendPrepare
  <2>2. \A x \in new : x.type # "Finality"
    BY BroadCastIsNoAnswer
  <2> HIDE DEF new
  <2>3. QED
    BY <2>1, <2>2, NoAnswerPosted DEF Abstract!vars
<1>3. ASSUME NEW m \in InFlight, HandlePrePrepare(m.to, m) PROVE UNCHANGED Abstract!vars
  <2> DEFINE new == BroadCast(m.to, Scope(m), "Prepare", m.height, m.height)
  <2>1. m.to # GlobalLeader
    BY <1>3 DEF InFlight, HandlePrePrepare, IInv, MessagesRouted, Routed
  <2>2. /\ sent' = sent \cup new /\ stopped' = stopped
        /\ blockHeight'[GlobalLeader] = blockHeight[GlobalLeader]
    BY <1>3, <2>1, GlobalLeaderFacts DEF HandlePrePrepare, IInv, TypeOK
  <2>3. \A x \in new : x.type # "Finality"
    BY BroadCastIsNoAnswer
  <2> HIDE DEF new
  <2>4. QED
    BY <2>2, <2>3, NoAnswerPosted DEF Abstract!vars
<1>4. ASSUME NEW m \in InFlight, HandlePrepare(m.to, m) PROVE UNCHANGED Abstract!vars
  <2> DEFINE new == IF Finishes(m.to, m)
                    THEN BroadCast(m.to, Scope(m), "Commit", blockHeight[m.to],
                                   blockHeight[m.to])
                    ELSE {}
  <2>1. /\ sent' = sent \cup new /\ blockHeight' = blockHeight /\ stopped' = stopped
    BY <1>4 DEF HandlePrepare
  <2>2. \A x \in new : x.type # "Finality"
    BY BroadCastIsNoAnswer
  <2> HIDE DEF new
  <2>3. QED
    BY <2>1, <2>2, NoAnswerPosted DEF Abstract!vars
<1>5. CASE UNCHANGED vars
  BY <1>5 DEF vars, Abstract!vars, Finalizers
<1>6. QED
  BY <1>1, <1>2, <1>3, <1>4, <1>5, CommitImplements, FinalityImplements
     DEF Next, Terminated, HandleMessage

\* The consensus implements the abstract specification: one height after
\* another, each closed by a quorum of distinct committee members.
THEOREM Refinement == Spec => ImplementsRounds
<1>1. QED
  BY InitImplements, NextImplements, Invariance, PTL
     DEF Spec, ImplementsRounds, Abstract!Spec

\* A step moves the leader by one height at most, and never after the end of
\* mining was reported.
THEOREM LeaderAdvances == Spec => LeaderAdvancesByOne
<1> DEFINE step == /\ blockHeight'[GlobalLeader] \in
                        {blockHeight[GlobalLeader], blockHeight[GlobalLeader] + 1}
                   /\ stopped => /\ stopped'
                                 /\ blockHeight'[GlobalLeader] = EndBlockHeight
<1>1. IInv /\ [Next]_vars => [step]_vars
  <2> SUFFICES ASSUME IInv, [Next]_vars PROVE step
    OBVIOUS
  <2>1. [Abstract!Next]_Abstract!vars
    BY NextImplements
  <2>2. stopped \in BOOLEAN /\ (stopped => blockHeight[GlobalLeader] = EndBlockHeight)
    BY DEF IInv, TypeOK, LeaderPhases
  <2>3. CASE UNCHANGED Abstract!vars
    BY <2>2, <2>3 DEF Abstract!vars
  <2>4. blockHeight[GlobalLeader] = 0 => ~stopped
    BY <2>2, EndBlockHeightAssumption
  <2>5. CASE Abstract!Start
    BY <2>4, <2>5 DEF Abstract!Start
  <2>6. ASSUME NEW n \in IntraLeaders \ {GlobalLeader}, NEW h \in 1..EndBlockHeight,
               Abstract!Answer(n, h)
        PROVE  step
    BY <2>2, <2>6 DEF Abstract!Answer
  <2>7. CASE Abstract!Close
    BY <2>2, <2>7 DEF Abstract!Close
  <2> HIDE DEF step
  <2>8. QED
    BY <2>1, <2>3, <2>5, <2>6, <2>7 DEF Abstract!Next
<1>2. QED
  BY <1>1, Invariance, PTL DEF Spec, LeaderAdvancesByOne

-----------------------------------------------------------------------------
\* The committee members that have sent n a vote for height h among msgs.
Voters(msgs, n, type, h) ==
  {k \in IntraLeaders :
     \E m \in msgs : m.type = type /\ m.from = k /\ m.to = n /\ m.height = h}

\* The leader's proposal of height h to n, and n's answer for height h.
Proposal(n, h) == [type |-> "PrePrepare", from |-> GlobalLeader, to |-> n,
                   height |-> h, round |-> h]

\* The answer of member n to the global leader for height h.
Answer(n, h) == [type |-> "Finality", from |-> n, to |-> GlobalLeader,
                 height |-> h, round |-> h]

\* Votes for the leader's height that reach a member before the proposal of it
\* are in the member's buffer.
VotesKept ==
  \A n \in IntraLeaders \ {GlobalLeader}, type \in VoteTypes :
    LET top == blockHeight[GlobalLeader]
    IN  /\ Proposal(n, top) \notin handled
        /\ check[n][type]["Global"].buffer[top] = 0
        => Voters(handled, n, type, top) = {}

\* At the leader's height a member without buffered votes that has no quorum yet
\* has counted every voter.
VotesCounted ==
  \A n \in IntraLeaders, type \in VoteTypes :
    LET q == check[n][type]["Global"]
        top == blockHeight[GlobalLeader]
    IN  /\ blockHeight[n] = top
        /\ q.votes < Needed(n, type, "Global")
        /\ q.buffer[top] = 0
        => Cardinality(Voters(handled, n, type, top)) <= q.votes

\* A member at the leader's height has handled its proposal and sent Prepare.
MembersPrepared ==
  \A n \in IntraLeaders \ {GlobalLeader} :
    LET top == blockHeight[GlobalLeader]
    IN  top # 0 /\ blockHeight[n] = top =>
          /\ Proposal(n, top) \in handled
          /\ BroadCast(n, "Global", "Prepare", top, top) \subseteq sent

\* The goroutine of the leader's height exists, and when it has ended the
\* committee has been sent the leader's Prepare of that height.
LeaderPrepared ==
  LET top == blockHeight[GlobalLeader]
  IN  /\ started => top # 0
      /\ top # 0 => preparing[top] # "None"
      /\ top # 0 /\ preparing[top] = "Done" =>
           BroadCast(GlobalLeader, "Global", "Prepare", top, top) \subseteq sent

\* At the leader's height a quorum has had its consequence: Commit, the answer
\* to the leader, and the end of the round.
QuorumsActedOn ==
  LET top == blockHeight[GlobalLeader]
  IN  /\ \A n \in IntraLeaders :
           blockHeight[n] = top =>
             \/ check[n]["Prepare"]["Global"].votes < Needed(n, "Prepare", "Global")
             \/ BroadCast(n, "Global", "Commit", top, top) \subseteq sent
      /\ \A n \in IntraLeaders \ {GlobalLeader} :
           blockHeight[n] = top =>
             \/ check[n]["Commit"]["Global"].votes < Needed(n, "Commit", "Global")
             \/ Answer(n, top) \in sent
      /\ \/ stopped
         \/ check[GlobalLeader]["Finality"]["Global"].votes
              < Needed(GlobalLeader, "Finality", "Global")

\* A proposal is of the round that made it.
ProposalsOfTheirRound == \A m \in sent : m.type = "PrePrepare" => m.round = m.height

\* What IInv needs beside it for StuckOnlyByDisorder.
ProgressInv ==
  /\ VotesKept
  /\ VotesCounted
  /\ MembersPrepared
  /\ LeaderPrepared
  /\ QuorumsActedOn
  /\ ProposalsOfTheirRound

\* The committee is finite, it is the Global level of each member, and all have
\* the same quorums there.
LEMMA CommitteeFacts ==
  /\ IsFiniteSet(IntraLeaders)
  /\ GlobalLeader \in IntraLeaders
  /\ "Global" \in Scopes /\ VoteTypes = {"Prepare", "Commit", "Finality"}
  /\ \A n \in IntraLeaders :
       /\ n \in Nodes
       /\ Members(n, "Global") = IntraLeaders
       /\ \A type \in VoteTypes :
            /\ Needed(n, type, "Global") \in Nat
            /\ Needed(n, type, "Global") >= 1
            /\ Needed(n, type, "Global") = Needed(GlobalLeader, type, "Global")
<1>1. IsFiniteSet(IntraLeaders) /\ GlobalLeader \in IntraLeaders /\ "Global" \in Scopes
  BY FrustumAssumption, FS_Subset DEF Scopes
<1>2. \A n \in IntraLeaders : n \in Nodes /\ Members(n, "Global") = IntraLeaders
  BY FrustumAssumption DEF Members
<1>3. \A n \in IntraLeaders, type \in VoteTypes :
        /\ Needed(n, type, "Global") \in Nat
        /\ Needed(n, type, "Global") >= 1
        /\ Needed(n, type, "Global") = Needed(GlobalLeader, type, "Global")
  <2>1. \A n \in IntraLeaders, type \in VoteTypes :
          Needed(n, type, "Global") = QuorumNodes(type, Cardinality(IntraLeaders))
    BY <1>2 DEF Needed
  <2>2. QED
    BY <1>1, <1>2, <2>1, NeededType
<1>4. QED
  BY <1>1, <1>2, <1>3 DEF VoteTypes

\* The voters of a kind are finitely many members of the committee; none vote
\* among no messages.
LEMMA VotersFacts ==
  ASSUME NEW msgs, NEW n, NEW type, NEW h
  PROVE  /\ Voters(msgs, n, type, h) \subseteq IntraLeaders
         /\ IsFiniteSet(Voters(msgs, n, type, h))
         /\ Cardinality(Voters(msgs, n, type, h)) \in Nat
<1>1. Voters(msgs, n, type, h) \subseteq IntraLeaders
  BY DEF Voters
<1>2. QED
  BY <1>1, CommitteeFacts, FS_Subset, FS_CardinalityType

\* One more message is one more voter at most, and none unless it is such a vote.
LEMMA VotersStep ==
  ASSUME NEW msgs, NEW m, NEW n, NEW type, NEW h
  PROVE  /\ Cardinality(Voters(msgs \cup {m}, n, type, h))
              <= Cardinality(Voters(msgs, n, type, h)) + 1
         /\ ~(m.type = type /\ m.to = n /\ m.height = h /\ m.from \in IntraLeaders) =>
              Voters(msgs \cup {m}, n, type, h) = Voters(msgs, n, type, h)
<1> DEFINE old == Voters(msgs, n, type, h)
           new == Voters(msgs \cup {m}, n, type, h)
<1>1. new = old \/ new = old \cup {m.from}
  BY DEF Voters
<1>2. ~(m.type = type /\ m.to = n /\ m.height = h /\ m.from \in IntraLeaders) => new = old
  BY DEF Voters
<1>3. IsFiniteSet(old) /\ Cardinality(old) \in Nat
  BY VotersFacts
<1> HIDE DEF old, new
<1>4. Cardinality(old \cup {m.from}) \in {Cardinality(old), Cardinality(old) + 1}
  BY <1>3, FS_AddElement
<1>5. Cardinality(new) <= Cardinality(old) + 1
  <2>1. CASE new = old
    BY <1>3, <2>1
  <2>2. CASE new = old \cup {m.from}
    BY <1>3, <1>4, <2>2
  <2>3. QED
    BY <1>1, <2>1, <2>2
<1>6. QED
  BY <1>2, <1>5 DEF old, new

\* A routed message is on the Global level exactly when it is between members of
\* the committee.
LEMMA GlobalScope ==
  ASSUME NEW m \in Messages, Routed(m), m.to \in IntraLeaders
  PROVE  /\ m.from \in IntraLeaders => Scope(m) = "Global"
         /\ m.from \notin IntraLeaders => Scope(m) = "Intra"
<1>1. m.from # m.to
  BY DEF Routed
<1>2. m.from \in IntraLeaders => ShardOf[m.from] # ShardOf[m.to]
  BY <1>1, FrustumAssumption
<1>3. m.from \in IntraLeaders => Scope(m) = "Global"
  BY <1>2 DEF Scope
<1>4. Scope(m) # "Intra" => m.from \in IntraLeaders
  BY DEF Routed
<1>5. QED
  BY <1>3, <1>4

\* A vote keeps what its receiver has buffered, and is buffered when it is for a
\* later height.
LEMMA CountedBuffers ==
  ASSUME TypeOK, NEW m \in Messages, m.type \in VoteTypes, NEW n \in Nodes
  PROVE  /\ \A t \in VoteTypes, s \in Scopes, k \in Heights :
              Counted(n, m)[t][s].buffer[k] = 0 => check[n][t][s].buffer[k] = 0
         /\ m.height > check[n][m.type][Scope(m)].latest =>
              Counted(n, m)[m.type][Scope(m)].buffer[m.height] # 0
<1> DEFINE sc == Scope(m)
           q == check[n][m.type][sc]
           needed == Needed(n, m.type, sc)
           hq == Handle(q, needed, m.height)
           nq == [hq EXCEPT !.finish = @ \/ Reaches(q, needed, m.height)]
<1>1. sc \in Scopes
  BY DEF Scope, Scopes
<1>2. check[n] \in CheckType /\ q \in QuorumType /\ m.height \in Heights
  BY <1>1 DEF TypeOK, CheckType, Messages
<1>3. needed \in Nat /\ needed >= 1
  BY <1>1, NeededType
<1>4. hq \in QuorumType
  <2> HIDE DEF q, needed
  <2> QED
    BY <1>2, <1>3, HandleFacts
<1>5. /\ \A k \in Heights : hq.buffer[k] = 0 => q.buffer[k] = 0
      /\ m.height > q.latest => hq.buffer[m.height] # 0
  <2> HIDE DEF q, needed
  <2> QED
    BY <1>2, <1>3, HandleBuffers
<1>6. nq.buffer = hq.buffer
  <2> HIDE DEF hq
  <2> QED
    BY <1>4 DEF QuorumType
<1>7. Counted(n, m) = [check[n] EXCEPT ![m.type][sc] = nq]
  BY DEF Counted
<1> HIDE DEF nq, hq
<1>8. Counted(n, m)[m.type][sc] = nq
  BY <1>1, <1>2, <1>7 DEF CheckType
<1>9. ASSUME NEW t \in VoteTypes, NEW s \in Scopes, NEW k \in Heights,
             Counted(n, m)[t][s].buffer[k] = 0
      PROVE  check[n][t][s].buffer[k] = 0
  <2>1. CASE <<t, s>> = <<m.type, sc>>
    BY <1>5, <1>6, <1>8, <1>9, <2>1
  <2>2. CASE <<t, s>> # <<m.type, sc>>
    BY <1>9, <2>2, CountedFacts
  <2>3. QED
    BY <2>1, <2>2
<1>10. QED
  BY <1>5, <1>6, <1>8, <1>9

\* The leader's height is a number, and a message in flight is for a height from
\* 1 up to it.
LEMMA TopFacts ==
  ASSUME IInv
  PROVE  /\ blockHeight[GlobalLeader] \in Nat
         /\ blockHeight[GlobalLeader] \in Heights
         /\ \A m \in sent : /\ m \in Messages /\ Routed(m)
                            /\ m.height \in Nat /\ m.height \in Heights
                            /\ m.height # 0 /\ m.height <= blockHeight[GlobalLeader]
         /\ \A n \in IntraLeaders : /\ blockHeight[n] \in Nat
                                    /\ blockHeight[n] <= blockHeight[GlobalLeader]
         /\ \A n \in IntraLeaders, t \in VoteTypes :
              /\ check[n][t]["Global"] \in QuorumType
              /\ check[n][t]["Global"].latest = blockHeight[n]
<1>1. blockHeight[GlobalLeader] \in Nat /\ blockHeight[GlobalLeader] \in Heights
  BY GlobalLeaderFacts, HeightsFacts DEF IInv, TypeOK
<1>2. ASSUME NEW m \in sent
      PROVE  /\ m \in Messages /\ Routed(m)
             /\ m.height \in Nat /\ m.height \in Heights
             /\ m.height # 0 /\ m.height <= blockHeight[GlobalLeader]
  <2>1. m \in Messages /\ Routed(m) /\ m.height \in 1..blockHeight[GlobalLeader]
    BY DEF IInv, TypeOK, MessagesRouted, NobodyAheadOfLeader
  <2>2. m.height \in Heights
    BY <2>1 DEF Messages
  <2>3. QED
    BY <1>1, <2>1, <2>2
<1>3. \A n \in IntraLeaders : /\ blockHeight[n] \in Nat
                              /\ blockHeight[n] <= blockHeight[GlobalLeader]
  BY CommitteeFacts, HeightsFacts DEF IInv, TypeOK, NobodyAheadOfLeader
<1>4. \A n \in IntraLeaders, t \in VoteTypes :
        /\ check[n][t]["Global"] \in QuorumType
        /\ check[n][t]["Global"].latest = blockHeight[n]
  BY CommitteeFacts DEF IInv, TypeOK, NobodyAheadOfLeader
<1>5. QED
  BY <1>1, <1>2, <1>3, <1>4

\* What handling vote m does to the counters and voters of committee member k.
VoteHandled(m) ==
  /\ m.type \in VoteTypes
  /\ check' = [check EXCEPT ![m.to] = Counted(m.to, m)]
  /\ handled' = handled \cup {m}
  /\ blockHeight' = blockHeight
  /\ sent \subseteq sent'

\* A vote leaves the other counters and their voters as they were.
LEMMA OtherCounters ==
  ASSUME IInv, NEW m \in InFlight, VoteHandled(m),
         NEW k \in IntraLeaders, NEW t \in VoteTypes, NEW h,
         ~(k = m.to /\ t = m.type /\ m.from \in IntraLeaders)
  PROVE  /\ check'[k][t]["Global"] = check[k][t]["Global"]
         /\ Voters(handled', k, t, h) = Voters(handled, k, t, h)
<1>1. m \in Messages /\ Routed(m) /\ m.to \in Nodes /\ m.type \in VoteTypes
  BY TopFacts DEF InFlight, Messages, VoteHandled
<1>2. Voters(handled', k, t, h) = Voters(handled, k, t, h)
  <2>1. ~(m.type = t /\ m.to = k /\ m.height = h /\ m.from \in IntraLeaders)
    OBVIOUS
  <2>2. Voters(handled \cup {m}, k, t, h) = Voters(handled, k, t, h)
    BY <2>1, VotersStep
  <2>3. QED
    BY <2>2 DEF VoteHandled
<1>3. CASE k # m.to
  <2>1. check'[k] = check[k]
    BY <1>3, CommitteeFacts DEF VoteHandled, IInv, TypeOK
  <2>2. QED
    BY <1>2, <2>1
<1>4. CASE k = m.to
  <2>1. check'[k] = Counted(k, m)
    BY <1>1, <1>4 DEF VoteHandled, IInv, TypeOK
  <2>2. <<t, "Global">> # <<m.type, Scope(m)>>
    BY <1>1, <1>4, GlobalScope
  <2>3. Counted(k, m)[t]["Global"] = check[k][t]["Global"]
    BY <1>1, <2>2, CountedFacts, CommitteeFacts DEF IInv
  <2>4. QED
    BY <1>2, <2>1, <2>3
<1>5. QED
  BY <1>3, <1>4

\* A vote between committee members changes the counter of its kind.
LEMMA VotedCounter ==
  ASSUME IInv, NEW m \in InFlight, VoteHandled(m),
         m.to \in IntraLeaders, m.from \in IntraLeaders
  PROVE  LET q == check[m.to][m.type]["Global"]
             q2 == check'[m.to][m.type]["Global"]
             needed == Needed(m.to, m.type, "Global")
         IN  /\ Scope(m) = "Global"
             /\ q2.votes = IF Counts(q, needed, m.height) THEN Tally(q, needed)
                                                          ELSE q.votes
             /\ \A h \in Heights :
                  /\ q2.buffer[h] = 0 => q.buffer[h] = 0
                  /\ ~(h > q.latest) => q2.buffer[h] = q.buffer[h]
             /\ m.height > q.latest => q2.buffer[m.height] # 0
<1>1. m \in Messages /\ Routed(m) /\ m.to \in Nodes /\ m.type \in VoteTypes /\ TypeOK
  BY TopFacts DEF InFlight, Messages, VoteHandled, IInv
<1>2. Scope(m) = "Global"
  BY <1>1, GlobalScope
<1>3. check'[m.to] = Counted(m.to, m)
  BY <1>1 DEF VoteHandled, TypeOK
<1>4. Counted(m.to, m)[m.type]["Global"].votes =
        LET q == check[m.to][m.type]["Global"]
            needed == Needed(m.to, m.type, "Global")
        IN  IF Counts(q, needed, m.height) THEN Tally(q, needed) ELSE q.votes
  BY <1>1, <1>2, CountedFacts
<1>5. ASSUME NEW h \in Heights
      PROVE  /\ Counted(m.to, m)[m.type]["Global"].buffer[h] = 0
                  => check[m.to][m.type]["Global"].buffer[h] = 0
             /\ ~(h > check[m.to][m.type]["Global"].latest)
                  => Counted(m.to, m)[m.type]["Global"].buffer[h]
                       = check[m.to][m.type]["Global"].buffer[h]
  <2>1. "Global" \in Scopes
    BY DEF Scopes
  <2>2. Counted(m.to, m)[m.type]["Global"].buffer[h] = 0
          => check[m.to][m.type]["Global"].buffer[h] = 0
    BY <1>1, <2>1, CountedBuffers
  <2>3. \/ Counted(m.to, m)[m.type]["Global"].buffer[h]
             = check[m.to][m.type]["Global"].buffer[h]
        \/ h = m.height /\ h > check[m.to][m.type]["Global"].latest
    BY <1>1, <2>1, CountedFacts
  <2>4. QED
    BY <2>2, <2>3
<1>6. m.height > check[m.to][m.type]["Global"].latest
        => Counted(m.to, m)[m.type]["Global"].buffer[m.height] # 0
  BY <1>1, <1>2, CountedBuffers
<1>7. QED
  BY <1>2, <1>3, <1>4, <1>5, <1>6

\* A vote handled before the proposal is buffered.
LEMMA VoteKeepsVotes ==
  ASSUME IInv, ProgressInv, NEW m \in InFlight, VoteHandled(m)
  PROVE  VotesKept'
<1> SUFFICES ASSUME NEW k \in IntraLeaders \ {GlobalLeader}, NEW t \in VoteTypes,
                    NEW h, h = blockHeight[GlobalLeader],
                    Proposal(k, h) \notin handled \cup {m},
                    check'[k][t]["Global"].buffer[h] = 0
             PROVE  Voters(handled', k, t, h) = {}
  BY DEF VotesKept, VoteHandled
<1>1. h \in Heights /\ h \in Nat
  BY TopFacts
<1>2. check[k][t]["Global"].buffer[h] = 0 => Voters(handled, k, t, h) = {}
  BY DEF ProgressInv, VotesKept
<1>3. CASE ~(k = m.to /\ t = m.type /\ m.from \in IntraLeaders)
  BY <1>2, <1>3, OtherCounters
<1>4. CASE k = m.to /\ t = m.type /\ m.from \in IntraLeaders
  <2>1. check[k][t]["Global"].buffer[h] = 0
    BY <1>1, <1>4, VotedCounter
  <2>2. m.height # h
    <3> SUFFICES ASSUME m.height = h PROVE FALSE
      OBVIOUS
    <3>1. h # 0
      BY TopFacts DEF InFlight
    <3>2. blockHeight[k] # h
      BY <3>1 DEF ProgressInv, MembersPrepared
    <3>3. h > blockHeight[k]
      BY <1>1, <3>2, TopFacts
    <3>4. check[k][t]["Global"].latest = blockHeight[k]
      BY TopFacts
    <3>5. QED
      BY <1>4, <3>3, <3>4, VotedCounter
  <2>3. Voters(handled', k, t, h) = Voters(handled, k, t, h)
    <3>1. ~(m.type = t /\ m.to = k /\ m.height = h /\ m.from \in IntraLeaders)
      BY <2>2
    <3>2. Voters(handled \cup {m}, k, t, h) = Voters(handled, k, t, h)
      BY <3>1, VotersStep
    <3>3. QED
      BY <3>2 DEF VoteHandled
  <2>4. QED
    BY <1>2, <2>1, <2>3
<1>5. QED
  BY <1>3, <1>4

\* A vote handled at the leader's height is counted.
LEMMA VoteCountsVoters ==
  ASSUME IInv, ProgressInv, NEW m \in InFlight, VoteHandled(m)
  PROVE  VotesCounted'
<1> SUFFICES ASSUME NEW k \in IntraLeaders, NEW t \in VoteTypes,
                    NEW h, h = blockHeight[GlobalLeader], blockHeight[k] = h,
                    check'[k][t]["Global"].votes < Needed(k, t, "Global"),
                    check'[k][t]["Global"].buffer[h] = 0
             PROVE  Cardinality(Voters(handled', k, t, h))
                      <= check'[k][t]["Global"].votes
  BY DEF VotesCounted, VoteHandled
<1>1. h \in Heights /\ h \in Nat
  BY TopFacts
<1>2. check[k][t]["Global"].votes < Needed(k, t, "Global")
        /\ check[k][t]["Global"].buffer[h] = 0
      => Cardinality(Voters(handled, k, t, h)) <= check[k][t]["Global"].votes
  BY DEF ProgressInv, VotesCounted
<1>3. CASE ~(k = m.to /\ t = m.type /\ m.from \in IntraLeaders)
  <2>1. /\ check'[k][t]["Global"] = check[k][t]["Global"]
        /\ Voters(handled', k, t, h) = Voters(handled, k, t, h)
    BY <1>3, OtherCounters
  <2>2. QED
    BY <1>2, <2>1
<1>4. CASE k = m.to /\ t = m.type /\ m.from \in IntraLeaders
  <2> DEFINE q == check[k][t]["Global"]
             q2 == check'[k][t]["Global"]
             needed == Needed(k, t, "Global")
  <2>1. /\ q \in QuorumType /\ q.latest = h /\ q.votes \in Nat
        /\ needed \in Nat
    BY TopFacts, CommitteeFacts DEF QuorumType
  <2>2. /\ q2.votes = IF Counts(q, needed, m.height) THEN Tally(q, needed) ELSE q.votes
        /\ q2.buffer[h] = q.buffer[h]
    BY <1>1, <1>4, <2>1, VotedCounter
  <2>3. Cardinality(Voters(handled, k, t, h)) \in Nat
        /\ Cardinality(Voters(handled', k, t, h)) \in Nat
    BY VotersFacts
  <2>4. CASE Counts(q, needed, m.height)
    <3>1. q.votes < needed
      BY <2>4 DEF Counts
    <3>2. Tally(q, needed) >= q.votes + 1 /\ Tally(q, needed) \in Nat
      <4> HIDE DEF q, needed
      <4> QED
        BY <2>1, <3>1, TallyFacts
    <3>3. Cardinality(Voters(handled, k, t, h)) <= q.votes
      BY <1>2, <2>2, <3>1
    <3>4. Cardinality(Voters(handled', k, t, h))
            <= Cardinality(Voters(handled, k, t, h)) + 1
      BY VotersStep DEF VoteHandled
    <3>5. q2.votes = Tally(q, needed)
      BY <2>2, <2>4
    <3> HIDE DEF q, q2, needed
    <3>6. Cardinality(Voters(handled', k, t, h)) <= q2.votes
      BY <2>1, <2>3, <3>2, <3>3, <3>4, <3>5
    <3>7. QED
      BY <3>6 DEF q2
  <2>5. CASE ~Counts(q, needed, m.height)
    <3>1. q2.votes = q.votes
      BY <2>2, <2>5
    <3>2. m.height # h
      BY <2>1, <2>5, <3>1 DEF Counts
    <3>3. Voters(handled', k, t, h) = Voters(handled, k, t, h)
      <4>1. Voters(handled \cup {m}, k, t, h) = Voters(handled, k, t, h)
        BY <3>2, VotersStep
      <4>2. QED
        BY <4>1 DEF VoteHandled
    <3>4. QED
      BY <1>2, <2>2, <3>1, <3>3
  <2>6. QED
    BY <2>4, <2>5
<1>5. QED
  BY <1>3, <1>4

\* A counter that a vote brings to its quorum is that of the vote, and Handle
\* returns true.
LEMMA QuorumByVote ==
  ASSUME IInv, NEW m \in InFlight, VoteHandled(m),
         NEW k \in IntraLeaders, NEW t \in VoteTypes,
         check[k][t]["Global"].votes < Needed(k, t, "Global"),
         ~(check'[k][t]["Global"].votes < Needed(k, t, "Global"))
  PROVE  k = m.to /\ t = m.type /\ Scope(m) = "Global" /\ Finishes(k, m)
<1> DEFINE q == check[k][t]["Global"]
           needed == Needed(k, t, "Global")
<1>1. k = m.to /\ t = m.type /\ m.from \in IntraLeaders
  BY OtherCounters
<1>2. /\ Scope(m) = "Global"
      /\ check'[k][t]["Global"].votes
           = IF Counts(q, needed, m.height) THEN Tally(q, needed) ELSE q.votes
  BY <1>1, VotedCounter
<1>3. Counts(q, needed, m.height) /\ ~(Tally(q, needed) < needed)
  BY <1>2
<1>4. q \in QuorumType /\ needed \in Nat
  BY TopFacts, CommitteeFacts
<1>5. Tally(q, needed) = needed
  <2>1. Tally(q, needed) <= needed /\ Tally(q, needed) \in Nat
    <3> HIDE DEF q, needed
    <3> QED
      BY <1>4, TallyFacts
  <2>2. QED
    BY <1>3, <1>4, <2>1
<1>6. Finishes(k, m)
  BY <1>1, <1>2, <1>3, <1>5 DEF Finishes, Reaches
<1>7. QED
  BY <1>1, <1>2, <1>6

\* A vote whose quorum has its consequence keeps the invariant.
LEMMA VoteProgress ==
  ASSUME IInv, ProgressInv, NEW m \in InFlight, VoteHandled(m),
         UNCHANGED <<started, preparing>>,
         \A x \in sent' \ sent : x.type # "PrePrepare",
         m.type = "Prepare" /\ Finishes(m.to, m) =>
           BroadCast(m.to, Scope(m), "Commit", blockHeight[m.to], blockHeight[m.to])
             \subseteq sent',
         m.type = "Commit" /\ Finishes(m.to, m) /\ m.to # GlobalLeader =>
           Answer(m.to, blockHeight[m.to]) \in sent',
         m.type = "Finality" /\ Finishes(m.to, m) /\ Scope(m) = "Global" => stopped',
         stopped => stopped'
  PROVE  ProgressInv'
<1>1. blockHeight' = blockHeight /\ sent \subseteq sent' /\ handled \subseteq handled'
  BY DEF VoteHandled
<1>2. VotesKept' /\ VotesCounted'
  BY VoteKeepsVotes, VoteCountsVoters
<1>3. MembersPrepared'
  BY <1>1 DEF ProgressInv, MembersPrepared
<1>4. LeaderPrepared'
  BY <1>1 DEF ProgressInv, LeaderPrepared
<1>5. ProposalsOfTheirRound'
  BY <1>1 DEF ProgressInv, ProposalsOfTheirRound
<1>6. ASSUME NEW n \in IntraLeaders, NEW h, h = blockHeight[GlobalLeader],
             blockHeight[n] = h
      PROVE  \/ check'[n]["Prepare"]["Global"].votes < Needed(n, "Prepare", "Global")
             \/ BroadCast(n, "Global", "Commit", h, h) \subseteq sent'
  <2>1. CASE check[n]["Prepare"]["Global"].votes < Needed(n, "Prepare", "Global")
    BY <1>6, <2>1, QuorumByVote, CommitteeFacts
  <2>2. CASE BroadCast(n, "Global", "Commit", h, h) \subseteq sent
    BY <1>1, <2>2
  <2>3. QED
    BY <1>6, <2>1, <2>2 DEF ProgressInv, QuorumsActedOn
<1>7. ASSUME NEW n \in IntraLeaders \ {GlobalLeader},
             NEW h, h = blockHeight[GlobalLeader], blockHeight[n] = h
      PROVE  \/ check'[n]["Commit"]["Global"].votes < Needed(n, "Commit", "Global")
             \/ Answer(n, h) \in sent'
  <2>1. CASE check[n]["Commit"]["Global"].votes < Needed(n, "Commit", "Global")
    BY <1>7, <2>1, QuorumByVote, CommitteeFacts
  <2>2. CASE Answer(n, h) \in sent
    BY <1>1, <2>2
  <2>3. QED
    BY <1>7, <2>1, <2>2 DEF ProgressInv, QuorumsActedOn
<1>8. \/ stopped'
      \/ check'[GlobalLeader]["Finality"]["Global"].votes
           < Needed(GlobalLeader, "Finality", "Global")
  <2>1. CASE check[GlobalLeader]["Finality"]["Global"].votes
               < Needed(GlobalLeader, "Finality", "Global")
    BY <2>1, QuorumByVote, CommitteeFacts
  <2>2. CASE stopped
    BY <2>2
  <2>3. QED
    BY <2>1, <2>2 DEF ProgressInv, QuorumsActedOn
<1>9. QuorumsActedOn'
  BY <1>1, <1>6, <1>7, <1>8 DEF QuorumsActedOn
<1>10. QED
  BY <1>2, <1>3, <1>4, <1>5, <1>9 DEF ProgressInv

\* A Prepare handled keeps the invariant.
LEMMA PrepareProgress ==
  ASSUME IInv, ProgressInv, NEW m \in InFlight, HandlePrepare(m.to, m)
  PROVE  ProgressInv'
<1> DEFINE new == BroadCast(m.to, Scope(m), "Commit", blockHeight[m.to],
                            blockHeight[m.to])
<1>1. VoteHandled(m) /\ m.type = "Prepare"
  BY DEF HandlePrepare, VoteHandled, VoteTypes
<1>2. \A x \in new : x.type # "PrePrepare"
  BY DEF BroadCast
<1> HIDE DEF new
<1>3. /\ \A x \in sent' \ sent : x.type # "PrePrepare"
      /\ Finishes(m.to, m) => new \subseteq sent'
      /\ UNCHANGED <<started, preparing, stopped>>
  BY <1>2 DEF HandlePrepare, new
<1>4. QED
  BY <1>1, <1>3, VoteProgress DEF new

\* A Commit handled keeps the invariant.
LEMMA CommitProgress ==
  ASSUME IInv, ProgressInv, NEW m \in InFlight, HandleCommit(m.to, m)
  PROVE  ProgressInv'
<1>1. VoteHandled(m) /\ m.type = "Commit"
  BY DEF HandleCommit, VoteHandled, VoteTypes
<1>2. /\ \A x \in sent' \ sent : x.type # "PrePrepare"
      /\ Finishes(m.to, m) /\ m.to # GlobalLeader =>
           Answer(m.to, blockHeight[m.to]) \in sent'
      /\ UNCHANGED <<started, preparing, stopped>>
  BY DEF HandleCommit, Answer
<1>3. QED
  BY <1>1, <1>2, VoteProgress

\* A proposal handled by a follower keeps the invariant: the votes it has
\* buffered for the height it takes over stay in its buffer.
LEMMA PrePrepareProgress ==
  ASSUME IInv, ProgressInv, NEW m \in InFlight, HandlePrePrepare(m.to, m)
  PROVE  ProgressInv'
<1> DEFINE n == m.to
           top == blockHeight[GlobalLeader]
           new == BroadCast(n, Scope(m), "Prepare", m.height, m.height)
<1>1. /\ m \in sent /\ m \notin handled /\ m \in Messages /\ Routed(m)
      /\ m.type = "PrePrepare" /\ m.from = GlobalLeader /\ n \in Nodes /\ n # GlobalLeader
      /\ m.height \in Heights /\ m.height \in Nat /\ m.height <= top /\ top \in Nat
      /\ top \in Heights
  BY TopFacts DEF InFlight, HandlePrePrepare, Routed, Messages
<1>2. m = Proposal(n, m.height)
  <2>1. m.round = m.height
    BY <1>1 DEF ProgressInv, ProposalsOfTheirRound
  <2>2. QED
    BY <1>1, <2>1 DEF Messages, Proposal
<1>3. /\ sent' = sent \cup new /\ handled' = handled \cup {m}
      /\ blockHeight' = [blockHeight EXCEPT ![n] = m.height]
      /\ check' = [check EXCEPT ![n] = ResetVoteCheck(check[n], m.height)]
      /\ UNCHANGED <<started, preparing, stopped>>
  BY <1>1 DEF HandlePrePrepare, IInv, TypeOK
<1>4. \A x \in new : x.type # "PrePrepare"
  BY DEF BroadCast
<1>5. n \in IntraLeaders => new = BroadCast(n, "Global", "Prepare", m.height, m.height)
  BY <1>1, GlobalScope, CommitteeFacts
<1> HIDE DEF n, new
<1>6. blockHeight'[GlobalLeader] = top /\ check'[GlobalLeader] = check[GlobalLeader]
  BY <1>1, <1>3, GlobalLeaderFacts DEF IInv, TypeOK
<1>7. \A k \in IntraLeaders, t \in VoteTypes, h \in Heights :
        Voters(handled', k, t, h) = Voters(handled, k, t, h)
  <2> SUFFICES ASSUME NEW k \in IntraLeaders, NEW t \in VoteTypes, NEW h \in Heights
               PROVE  Voters(handled', k, t, h) = Voters(handled, k, t, h)
    OBVIOUS
  <2>1. ~(m.type = t /\ m.to = k /\ m.height = h /\ m.from \in IntraLeaders)
    BY <1>1, CommitteeFacts
  <2>2. Voters(handled \cup {m}, k, t, h) = Voters(handled, k, t, h)
    BY <2>1, VotersStep
  <2>3. QED
    BY <1>3, <2>2
<1>8. \A k \in IntraLeaders : k # n => check'[k] = check[k] /\ blockHeight'[k] = blockHeight[k]
  BY <1>3, CommitteeFacts DEF IInv, TypeOK
<1>9. ASSUME n \in IntraLeaders, NEW t \in VoteTypes
      PROVE  /\ check'[n][t]["Global"].votes = 0
             /\ \A k \in Heights : k >= m.height =>
                  check'[n][t]["Global"].buffer[k] = check[n][t]["Global"].buffer[k]
             /\ blockHeight'[n] = m.height
  <2>1. check'[n] = ResetVoteCheck(check[n], m.height) /\ blockHeight'[n] = m.height
    BY <1>1, <1>3 DEF IInv, TypeOK
  <2>2. check'[n][t]["Global"] = ResetCount(check[n][t]["Global"], m.height)
    BY <2>1, CommitteeFacts DEF ResetVoteCheck
  <2>3. QED
    BY <2>1, <2>2 DEF ResetCount
<1>10. VotesKept'
  <2> SUFFICES ASSUME NEW k \in IntraLeaders \ {GlobalLeader}, NEW t \in VoteTypes,
                      NEW h, h = blockHeight[GlobalLeader],
                      Proposal(k, h) \notin handled \cup {m},
                      check'[k][t]["Global"].buffer[h] = 0
               PROVE  Voters(handled', k, t, h) = {}
    BY <1>3, <1>6 DEF VotesKept
  <2>1. check'[k][t]["Global"].buffer[h] = check[k][t]["Global"].buffer[h]
    <3>1. CASE k = n
      BY <1>1, <1>9, <3>1
    <3>2. CASE k # n
      BY <1>8, <3>2
    <3>3. QED
      BY <3>1, <3>2
  <2>2. Voters(handled, k, t, h) = {}
    BY <2>1 DEF ProgressInv, VotesKept
  <2>3. QED
    BY <1>1, <1>7, <2>2
<1>11. VotesCounted'
  <2> SUFFICES ASSUME NEW k \in IntraLeaders, NEW t \in VoteTypes,
                      NEW h, h = blockHeight[GlobalLeader], blockHeight'[k] = h,
                      check'[k][t]["Global"].votes < Needed(k, t, "Global"),
                      check'[k][t]["Global"].buffer[h] = 0
               PROVE  Cardinality(Voters(handled', k, t, h))
                        <= check'[k][t]["Global"].votes
    BY <1>6 DEF VotesCounted
  <2>1. Voters(handled', k, t, h) = Voters(handled, k, t, h)
    BY <1>1, <1>7
  <2>2. CASE k = n
    <3>1. h = m.height /\ check'[k][t]["Global"].votes = 0
      BY <1>9, <2>2
    <3>2. check[k][t]["Global"].buffer[h] = 0
      BY <1>1, <1>9, <2>2, <3>1
    <3>3. Proposal(k, h) \notin handled
      BY <1>1, <1>2, <2>2, <3>1
    <3>4. Voters(handled, k, t, h) = {}
      BY <1>1, <2>2, <3>2, <3>3 DEF ProgressInv, VotesKept
    <3>5. QED
      BY <2>1, <3>1, <3>4, FS_EmptySet
  <2>3. CASE k # n
    BY <1>8, <2>1, <2>3 DEF ProgressInv, VotesCounted
  <2>4. QED
    BY <2>2, <2>3
<1>12. MembersPrepared'
  <2> SUFFICES ASSUME NEW k \in IntraLeaders \ {GlobalLeader},
                      NEW h, h = blockHeight[GlobalLeader], h # 0, blockHeight'[k] = h
               PROVE  /\ Proposal(k, h) \in handled'
                      /\ BroadCast(k, "Global", "Prepare", h, h) \subseteq sent'
    BY <1>6 DEF MembersPrepared
  <2>1. CASE k = n
    <3>1. h = m.height
      BY <1>9, <2>1, CommitteeFacts
    <3>2. QED
      BY <1>2, <1>3, <1>5, <2>1, <3>1
  <2>2. CASE k # n
    BY <1>3, <1>8, <2>2 DEF ProgressInv, MembersPrepared
  <2>3. QED
    BY <2>1, <2>2
<1>13. LeaderPrepared'
  BY <1>3, <1>6 DEF ProgressInv, LeaderPrepared
<1>14. QuorumsActedOn'
  <2>1. ASSUME NEW k \in IntraLeaders, NEW h, h = blockHeight[GlobalLeader],
               blockHeight'[k] = h
        PROVE  /\ \/ check'[k]["Prepare"]["Global"].votes < Needed(k, "Prepare", "Global")
                  \/ BroadCast(k, "Global", "Commit", h, h) \subseteq sent'
               /\ \/ k = GlobalLeader
                  \/ check'[k]["Commit"]["Global"].votes < Needed(k, "Commit", "Global")
                  \/ Answer(k, h) \in sent'
    <3>1. CASE k = n
      <4>1. \A t \in VoteTypes : check'[k][t]["Global"].votes < Needed(k, t, "Global")
        <5> SUFFICES ASSUME NEW t \in VoteTypes
                     PROVE  check'[k][t]["Global"].votes < Needed(k, t, "Global")
          OBVIOUS
        <5>1. check'[k][t]["Global"].votes = 0
          BY <1>9, <3>1
        <5>2. QED
          BY <5>1, CommitteeFacts
      <4>2. QED
        BY <4>1, CommitteeFacts
    <3>2. CASE k # n
      BY <1>3, <1>8, <2>1, <3>2 DEF ProgressInv, QuorumsActedOn
    <3>3. QED
      BY <3>1, <3>2
  <2>2. \/ stopped'
        \/ check'[GlobalLeader]["Finality"]["Global"].votes
             < Needed(GlobalLeader, "Finality", "Global")
    BY <1>3, <1>6 DEF ProgressInv, QuorumsActedOn
  <2>3. QED
    BY <1>6, <2>1, <2>2 DEF QuorumsActedOn
<1>15. ProposalsOfTheirRound'
  BY <1>3, <1>4 DEF ProgressInv, ProposalsOfTheirRound
<1>16. QED
  BY <1>10, <1>11, <1>12, <1>13, <1>14, <1>15 DEF ProgressInv

\* Starting the next height keeps the invariant: nobody has voted for it yet.
LEMMA StartProgress ==
  ASSUME IInv, ProgressInv, NEW checks \in CheckType, StartConsensus(checks),
         blockHeight[GlobalLeader] # EndBlockHeight,
         handled' \subseteq sent
  PROVE  ProgressInv'
<1> DEFINE top == blockHeight[GlobalLeader]
           g == top + 1
           new == BroadCast(GlobalLeader, "Intra", "PrePrepare", g, g)
                    \cup BroadCast(GlobalLeader, "Global", "PrePrepare", g, g)
<1>1. top \in Nat /\ g \in Nat /\ g # 0 /\ top < g /\ g \in Rounds /\ g \in Heights
  <2>1. top \in Nat /\ top \in Heights
    BY TopFacts
  <2>2. QED
    BY <2>1, EndBlockHeightAssumption DEF Heights, Rounds
<1>2. /\ sent' = sent \cup new
      /\ blockHeight' = [blockHeight EXCEPT ![GlobalLeader] = g]
      /\ check' = [check EXCEPT ![GlobalLeader] = ResetVoteCheck(checks, g)]
      /\ preparing' = [preparing EXCEPT ![g] = "Intra"]
  BY DEF StartConsensus
<1>3. \A x \in new : x.round = x.height
  BY DEF BroadCast
<1> HIDE DEF g, new
<1>4. /\ blockHeight'[GlobalLeader] = g
      /\ \A k \in IntraLeaders \ {GlobalLeader} : blockHeight'[k] # g
  <2>1. blockHeight'[GlobalLeader] = g
    BY <1>2, GlobalLeaderFacts DEF IInv, TypeOK
  <2>2. ASSUME NEW k \in IntraLeaders \ {GlobalLeader} PROVE blockHeight'[k] # g
    <3>1. blockHeight'[k] = blockHeight[k]
      BY <1>2 DEF IInv, TypeOK
    <3>2. blockHeight[k] \in Nat /\ blockHeight[k] <= top
      BY TopFacts
    <3>3. QED
      BY <1>1, <3>1, <3>2
  <2>3. QED
    BY <2>1, <2>2
<1>5. \A t \in VoteTypes : check'[GlobalLeader][t]["Global"].votes = 0
  <2>1. check'[GlobalLeader] = ResetVoteCheck(checks, g)
    BY <1>2, GlobalLeaderFacts DEF IInv, TypeOK
  <2>2. QED
    BY <1>1, <2>1, ResetVoteCheckFacts, CommitteeFacts
<1>6. \A k, t : Voters(handled', k, t, g) = {}
  <2>1. \A m \in handled' : m.height \in Nat /\ m.height <= top
    BY TopFacts
  <2>2. \A m \in handled' : m.height # g
    BY <1>1, <2>1
  <2>3. QED
    BY <2>2 DEF Voters
<1>7. VotesKept'
  BY <1>4, <1>6 DEF VotesKept
<1>8. VotesCounted'
  <2> SUFFICES ASSUME NEW k \in IntraLeaders, NEW t \in VoteTypes, blockHeight'[k] = g
               PROVE  Cardinality(Voters(handled', k, t, g))
                        <= check'[k][t]["Global"].votes
    BY <1>4 DEF VotesCounted
  <2>1. k = GlobalLeader
    BY <1>4
  <2>2. Cardinality(Voters(handled', k, t, g)) = 0
    BY <1>6, FS_EmptySet
  <2>3. QED
    BY <1>5, <2>1, <2>2
<1>9. MembersPrepared'
  BY <1>4 DEF MembersPrepared
<1>10. LeaderPrepared'
  <2>1. preparing'[g] = "Intra"
    BY <1>1, <1>2 DEF IInv, TypeOK
  <2>2. QED
    BY <1>1, <1>4, <2>1 DEF LeaderPrepared
<1>11. QuorumsActedOn'
  <2>1. \A t \in VoteTypes : check'[GlobalLeader][t]["Global"].votes
                               < Needed(GlobalLeader, t, "Global")
    BY <1>5, CommitteeFacts
  <2>2. QED
    BY <1>4, <2>1, CommitteeFacts DEF QuorumsActedOn
<1>12. ProposalsOfTheirRound'
  BY <1>2, <1>3 DEF ProgressInv, ProposalsOfTheirRound
<1>13. QED
  BY <1>7, <1>8, <1>9, <1>10, <1>11, <1>12 DEF ProgressInv

\* An answer handled keeps the invariant.
LEMMA FinalityProgress ==
  ASSUME IInv, ProgressInv, NEW m \in InFlight, HandleFinality(m)
  PROVE  ProgressInv'
<1> DEFINE L == GlobalLeader
<1>1. /\ m.to = L /\ m.type = "Finality" /\ m.type \in VoteTypes
      /\ m \in sent /\ m \in Messages /\ handled' = handled \cup {m} /\ started' = started
  BY TopFacts DEF HandleFinality, InFlight, VoteTypes
<1>2. CASE ClosesRound(m) /\ ~LastRound
  <2>1. StartConsensus(Counted(L, m)) /\ blockHeight[L] # EndBlockHeight
    BY <1>2 DEF HandleFinality, LastRound
  <2>2. Counted(L, m) \in CheckType
    BY <1>1, CountedFacts, GlobalLeaderFacts DEF IInv
  <2>3. handled' \subseteq sent
    BY <1>1 DEF IInv, TypeOK
  <2>4. QED
    BY <2>1, <2>2, <2>3, StartProgress
<1>3. CASE ~(ClosesRound(m) /\ ~LastRound)
  <2>1. /\ stopped' = IF ClosesRound(m) THEN TRUE ELSE stopped
        /\ check' = [check EXCEPT ![L] = Counted(L, m)]
        /\ UNCHANGED <<blockHeight, preparing, sent>>
    BY <1>3 DEF HandleFinality
  <2>2. VoteHandled(m)
    BY <1>1, <2>1 DEF VoteHandled
  <2>3. Finishes(L, m) /\ Scope(m) = "Global" => stopped'
    BY <2>1 DEF ClosesRound
  <2>4. QED
    BY <1>1, <2>1, <2>2, <2>3, VoteProgress
<1>4. QED
  BY <1>2, <1>3

\* "start" keeps the invariant.
LEMMA StartupProgress ==
  ASSUME IInv, ProgressInv, HandleStart
  PROVE  ProgressInv'
<1> DEFINE checks == check[GlobalLeader]
<1>1. started = FALSE /\ StartConsensus(checks) /\ handled' = handled
  BY DEF HandleStart, IInv, TypeOK
<1>2. blockHeight[GlobalLeader] # EndBlockHeight
  BY <1>1, EndBlockHeightAssumption DEF IInv, LeaderPhases
<1>3. checks \in CheckType /\ handled' \subseteq sent
  BY <1>1, GlobalLeaderFacts DEF IInv, TypeOK, CheckType
<1> HIDE DEF checks
<1>4. QED
  BY <1>1, <1>2, <1>3, StartProgress

\* The leader's goroutine keeps the invariant: the one of the leader's height
\* sends Prepare of that very height.
LEMMA SendPrepareProgress ==
  ASSUME IInv, ProgressInv, NEW r \in Rounds, SendPrepare(r)
  PROVE  ProgressInv'
<1> DEFINE top == blockHeight[GlobalLeader]
           new == BroadCast(GlobalLeader, preparing[r], "Prepare", top, r)
<1>1. /\ sent' = sent \cup new
      /\ preparing' = [preparing EXCEPT ![r] = IF @ = "Intra" THEN "Global" ELSE "Done"]
      /\ preparing[r] \in Scopes
      /\ UNCHANGED <<started, blockHeight, check, handled, stopped>>
  BY DEF SendPrepare
<1>2. \A x \in new : x.type # "PrePrepare"
  BY DEF BroadCast
<1>3. preparing[r] = "Global" /\ r = top =>
        new = BroadCast(GlobalLeader, "Global", "Prepare", top, top)
  OBVIOUS
<1> HIDE DEF new
<1>4. VotesKept' /\ VotesCounted'
  BY <1>1 DEF ProgressInv, VotesKept, VotesCounted
<1>5. MembersPrepared' /\ QuorumsActedOn'
  BY <1>1 DEF ProgressInv, MembersPrepared, QuorumsActedOn
<1>6. ProposalsOfTheirRound'
  BY <1>1, <1>2 DEF ProgressInv, ProposalsOfTheirRound
<1>7. LeaderPrepared'
  <2>1. CASE r = top
    <3>1. preparing'[r] = IF preparing[r] = "Intra" THEN "Global" ELSE "Done"
      BY <1>1 DEF IInv, TypeOK
    <3>2. preparing'[r] # "None"
      BY <3>1
    <3>3. preparing'[r] = "Done" => preparing[r] = "Global"
      BY <1>1, <3>1 DEF Scopes
    <3>4. QED
      BY <1>1, <1>3, <2>1, <3>2, <3>3 DEF ProgressInv, LeaderPrepared
  <2>2. CASE r # top
    <3>1. top # 0 => preparing'[top] = preparing[top]
      BY <1>1, <2>2, TopFacts DEF Rounds, IInv, TypeOK
    <3>2. QED
      BY <1>1, <3>1 DEF ProgressInv, LeaderPrepared
  <2>3. QED
    BY <2>1, <2>2
<1>8. QED
  BY <1>4, <1>5, <1>6, <1>7 DEF ProgressInv

\* The invariant holds before "start".
LEMMA InitProgress == Init => ProgressInv
<1> SUFFICES ASSUME Init PROVE ProgressInv
  OBVIOUS
<1>1. /\ handled = {} /\ sent = {} /\ started = FALSE
      /\ blockHeight[GlobalLeader] = 0
  BY GlobalLeaderFacts DEF Init
<1>2. \A n \in IntraLeaders, t \in VoteTypes : check[n][t]["Global"].votes = 0
  BY CommitteeFacts DEF Init, NewQuorum
<1>3. \A n, t, h : Voters(handled, n, t, h) = {}
  BY <1>1 DEF Voters
<1>4. VotesKept
  BY <1>3 DEF VotesKept
<1>5. VotesCounted
  <2>1. \A n, t, h : Cardinality(Voters(handled, n, t, h)) = 0
    <3>1. Cardinality({}) = 0
      BY FS_EmptySet
    <3>2. QED
      BY <1>3, <3>1
  <2>2. \A n \in IntraLeaders, t \in VoteTypes : \A h :
          Cardinality(Voters(handled, n, t, h)) <= check[n][t]["Global"].votes
    BY <1>2, <2>1
  <2>3. QED
    BY <2>2 DEF VotesCounted
<1>6. MembersPrepared /\ LeaderPrepared /\ ProposalsOfTheirRound
  BY <1>1 DEF MembersPrepared, LeaderPrepared, ProposalsOfTheirRound
<1>7. QuorumsActedOn
  <2>1. \A n \in IntraLeaders, t \in VoteTypes :
          check[n][t]["Global"].votes < Needed(n, t, "Global")
    BY <1>2, CommitteeFacts
  <2>2. QED
    BY <2>1, CommitteeFacts DEF QuorumsActedOn
<1>8. QED
  BY <1>4, <1>5, <1>6, <1>7 DEF ProgressInv

\* Every step keeps the invariant.
LEMMA NextProgress == IInv /\ ProgressInv /\ [Next]_vars => ProgressInv'
<1> SUFFICES ASSUME IInv, ProgressInv, [Next]_vars PROVE ProgressInv'
  OBVIOUS
<1>1. CASE HandleStart
  BY <1>1, StartupProgress
<1>2. ASSUME NEW r \in Rounds, SendPrepare(r) PROVE ProgressInv'
  BY <1>2, SendPrepareProgress
<1>3. ASSUME NEW m \in InFlight, HandleMessage(m) PROVE ProgressInv'
  BY <1>3, PrePrepareProgress, PrepareProgress, CommitProgress, FinalityProgress
     DEF HandleMessage
<1>4. CASE UNCHANGED vars
  BY <1>4 DEF vars, ProgressInv, VotesKept, VotesCounted, MembersPrepared,
              LeaderPrepared, QuorumsActedOn, ProposalsOfTheirRound
<1>5. QED
  BY <1>1, <1>2, <1>3, <1>4 DEF Next, Terminated

\* A member that has been sent a vote of each other one, and all are handled, has
\* its quorum or votes in its buffer.
LEMMA AllVotesQuorum ==
  ASSUME IInv, ProgressInv, QuorumsReachable,
         NEW n \in IntraLeaders, NEW type \in VoteTypes,
         NEW h, h = blockHeight[GlobalLeader], blockHeight[n] = h,
         IntraLeaders \ {n} \subseteq Voters(handled, n, type, h)
  PROVE  LET q == check[n][type]["Global"]
         IN  q.votes < Needed(n, type, "Global") => q.buffer[q.latest] > 0
<1> DEFINE q == check[n][type]["Global"]
<1> SUFFICES ASSUME q.votes < Needed(n, type, "Global"), ~(q.buffer[q.latest] > 0)
             PROVE  FALSE
  OBVIOUS
<1>1. q.latest = h /\ q.votes \in Nat /\ q.buffer[q.latest] = 0
  BY TopFacts DEF QuorumType
<1>2. Cardinality(Voters(handled, n, type, h)) <= q.votes
  BY <1>1 DEF ProgressInv, VotesCounted
<1>3. /\ Cardinality(IntraLeaders \ {n}) = Cardinality(IntraLeaders) - 1
      /\ Cardinality(IntraLeaders) \in Nat
      /\ Cardinality(IntraLeaders \ {n}) \in Nat
  BY CommitteeFacts, FS_RemoveElement, FS_CardinalityType
<1>4. Cardinality(IntraLeaders \ {n}) <= Cardinality(Voters(handled, n, type, h))
        /\ Cardinality(Voters(handled, n, type, h)) \in Nat
  BY VotersFacts, FS_Subset
<1>5. /\ Needed(n, type, "Global") < Cardinality(IntraLeaders)
      /\ Needed(n, type, "Global") \in Nat
  BY CommitteeFacts DEF QuorumsReachable
<1> HIDE DEF q
<1>6. QED
  BY <1>1, <1>2, <1>3, <1>4, <1>5

\* Mining hangs only by messages out of order, for any committee whose quorums
\* can be reached and any number of heights.
THEOREM StuckByDisorder == Spec => []StuckOnlyByDisorder
<1>1. IInv /\ ProgressInv => StuckOnlyByDisorder
  <2> DEFINE top == blockHeight[GlobalLeader]
             unread == \E n \in IntraLeaders, type \in VoteTypes :
                         LET q == check[n][type]["Global"]
                         IN  /\ q.votes < Needed(n, type, "Global")
                             /\ q.buffer[q.latest] > 0
  <2> SUFFICES ASSUME IInv, ProgressInv, started, Quiescent, ~stopped,
                      QuorumsReachable,
                      \A n \in IntraLeaders : ~(blockHeight[n] < top),
                      ~unread
               PROVE  FALSE
    BY DEF StuckOnlyByDisorder
  <2>1. \A n \in IntraLeaders : blockHeight[n] = top
    BY TopFacts
  <2>2. top # 0 /\ sent = handled /\ preparing[top] = "Done"
    <3>1. top # 0 /\ preparing[top] # "None"
      BY DEF ProgressInv, LeaderPrepared
    <3>2. top \in Rounds
      BY <3>1, TopFacts DEF Rounds
    <3>3. QED
      BY <3>1, <3>2 DEF Quiescent, IInv, TypeOK
  <2>3. ASSUME NEW n \in IntraLeaders, NEW type \in VoteTypes,
               IntraLeaders \ {n} \subseteq Voters(handled, n, type, top)
        PROVE  ~(check[n][type]["Global"].votes < Needed(n, type, "Global"))
    <3>1. check[n][type]["Global"].votes < Needed(n, type, "Global")
            => check[n][type]["Global"].buffer[check[n][type]["Global"].latest] > 0
      BY <2>1, <2>3, AllVotesQuorum
    <3>2. QED
      BY <3>1
  <2>4. ASSUME NEW type \in {"Prepare", "Commit"},
               \A k \in IntraLeaders : BroadCast(k, "Global", type, top, top) \subseteq sent
        PROVE  \A n \in IntraLeaders :
                 ~(check[n][type]["Global"].votes < Needed(n, type, "Global"))
    <3> SUFFICES ASSUME NEW n \in IntraLeaders, NEW k \in IntraLeaders \ {n}
                 PROVE  k \in Voters(handled, n, type, top)
      BY <2>3, CommitteeFacts
    <3> DEFINE vote == [type |-> type, from |-> k, to |-> n, height |-> top, round |-> top]
    <3>1. vote \in BroadCast(k, "Global", type, top, top)
      BY CommitteeFacts DEF BroadCast
    <3>2. vote \in handled
      BY <2>2, <2>4, <3>1
    <3>3. QED
      BY <3>2 DEF Voters
  <2>5. \A n \in IntraLeaders :
          ~(check[n]["Prepare"]["Global"].votes < Needed(n, "Prepare", "Global"))
    <3>1. \A k \in IntraLeaders : BroadCast(k, "Global", "Prepare", top, top) \subseteq sent
      BY <2>1, <2>2 DEF ProgressInv, MembersPrepared, LeaderPrepared
    <3>2. QED
      BY <2>4, <3>1
  <2>6. \A n \in IntraLeaders :
          ~(check[n]["Commit"]["Global"].votes < Needed(n, "Commit", "Global"))
    <3>1. \A k \in IntraLeaders : BroadCast(k, "Global", "Commit", top, top) \subseteq sent
      BY <2>1, <2>5 DEF ProgressInv, QuorumsActedOn
    <3>2. QED
      BY <2>4, <3>1
  <2>7. \A k \in IntraLeaders \ {GlobalLeader} : Answer(k, top) \in handled
    BY <2>1, <2>2, <2>6 DEF ProgressInv, QuorumsActedOn
  <2>8. IntraLeaders \ {GlobalLeader} \subseteq Voters(handled, GlobalLeader, "Finality", top)
    BY <2>7 DEF Answer, Voters
  <2>9. ~(check[GlobalLeader]["Finality"]["Global"].votes
            < Needed(GlobalLeader, "Finality", "Global"))
    BY <2>3, <2>8, CommitteeFacts
  <2>10. QED
    BY <2>9 DEF ProgressInv, QuorumsActedOn
<1>2. QED
  BY <1>1, InitProgress, NextProgress, InitIInv, NextIInv, PTL DEF Spec

-----------------------------------------------------------------------------
\* Posts that are no answers keep every answer behind its Commit.
LEMMA AnswersStayBehind ==
  ASSUME AnswersFollowCommits, NEW new, \A x \in new : x.type # "Finality",
         sent' = sent \cup new
  PROVE  AnswersFollowCommits'
BY DEF AnswersFollowCommits, Scope

\* The answer a Commit causes is of the level of that Commit.
LEMMA CommitAnswers ==
  ASSUME IInv, AnswersFollowCommits, NEW m \in InFlight, HandleCommit(m.to, m)
  PROVE  AnswersFollowCommits'
<1> DEFINE n == m.to
           h == blockHeight[n]
           answer == [type |-> "Finality", from |-> n, to |-> GlobalLeader,
                      height |-> h, round |-> h]
<1>1. /\ m \in sent /\ m \in Messages /\ Routed(m)
      /\ m.type = "Commit" /\ m.type \in VoteTypes
  BY DEF InFlight, IInv, TypeOK, MessagesRouted, HandleCommit, VoteTypes
<1>2. CASE ~(Finishes(n, m) /\ n # GlobalLeader)
  <2>1. sent' = sent
    BY <1>2 DEF HandleCommit
  <2>2. QED
    BY <2>1 DEF AnswersFollowCommits, Scope
<1>3. CASE Finishes(n, m) /\ n # GlobalLeader
  <2>1. sent' = sent \cup {answer}
    BY <1>3 DEF HandleCommit
  <2>2. m.height = h
    BY <1>1, <1>3, FinishedHeight
  <2>3. Scope(answer) = Scope(m)
    <3>1. OnLevel(n, Scope(m)) /\ Scope(m) \in Scopes
      BY <1>1, ReceiverOnLevel
    <3>2. CASE Scope(m) = "Intra"
      BY <3>1, <3>2 DEF OnLevel, Scope
    <3>3. CASE Scope(m) = "Global"
      <4>1. ShardOf[n] # ShardOf[GlobalLeader]
        BY <1>3, <3>1, <3>3, FrustumAssumption DEF OnLevel
      <4>2. QED
        BY <3>3, <4>1 DEF Scope
    <3>4. QED
      BY <3>1, <3>2, <3>3 DEF Scopes
  <2>4. answer.from = n /\ answer.height = h
    OBVIOUS
  <2> HIDE DEF answer, n, h
  <2>5. ASSUME NEW x \in sent', x.type = "Finality"
        PROVE  \E c \in sent' : /\ c.type = "Commit" /\ c.height = x.height
                                /\ c.to = x.from /\ Scope(c) = Scope(x)
    <3>1. CASE x = answer
      BY <1>1, <2>1, <2>2, <2>3, <2>4, <3>1 DEF n
    <3>2. CASE x \in sent
      BY <2>1, <2>5, <3>2 DEF AnswersFollowCommits
    <3>3. QED
      BY <2>1, <3>1, <3>2
  <2>6. QED
    BY <2>5 DEF AnswersFollowCommits, Scope
<1>4. QED
  BY <1>2, <1>3

\* No answer comes but after a Commit for its height on its level, whatever heights
\* proposals have moved the node through (ConsensusFunc.go, HandleCommit).
THEOREM AnswersCommitted == Spec => []AnswersFollowCommits
<1>1. Init => AnswersFollowCommits
  BY DEF Init, AnswersFollowCommits
<1>2. IInv /\ AnswersFollowCommits /\ [Next]_vars => AnswersFollowCommits'
  <2> SUFFICES ASSUME IInv, AnswersFollowCommits, [Next]_vars
               PROVE  AnswersFollowCommits'
    OBVIOUS
  <2>1. ASSUME NEW checks, StartConsensus(checks) PROVE AnswersFollowCommits'
    <3> DEFINE g == blockHeight[GlobalLeader] + 1
               new == BroadCast(GlobalLeader, "Intra", "PrePrepare", g, g)
                        \cup BroadCast(GlobalLeader, "Global", "PrePrepare", g, g)
    <3>1. sent' = sent \cup new
      BY <2>1 DEF StartConsensus
    <3>2. \A x \in new : x.type # "Finality"
      BY BroadCastIsNoAnswer
    <3> HIDE DEF new
    <3>3. QED
      BY <3>1, <3>2, AnswersStayBehind
  <2>2. CASE UNCHANGED sent
    BY <2>2 DEF AnswersFollowCommits, Scope
  <2>3. CASE HandleStart
    BY <2>1, <2>3 DEF HandleStart
  <2>4. ASSUME NEW r \in Rounds, SendPrepare(r) PROVE AnswersFollowCommits'
    <3> DEFINE new == BroadCast(GlobalLeader, preparing[r], "Prepare",
                                blockHeight[GlobalLeader], r)
    <3>1. sent' = sent \cup new
      BY <2>4 DEF SendPrepare
    <3>2. \A x \in new : x.type # "Finality"
      BY BroadCastIsNoAnswer
    <3> HIDE DEF new
    <3>3. QED
      BY <3>1, <3>2, AnswersStayBehind
  <2>5. ASSUME NEW m \in InFlight, HandlePrePrepare(m.to, m) PROVE AnswersFollowCommits'
    <3> DEFINE new == BroadCast(m.to, Scope(m), "Prepare", m.height, m.height)
    <3>1. sent' = sent \cup new
      BY <2>5 DEF HandlePrePrepare
    <3>2. \A x \in new : x.type # "Finality"
      BY BroadCastIsNoAnswer
    <3> HIDE DEF new
    <3>3. QED
      BY <3>1, <3>2, AnswersStayBehind
  <2>6. ASSUME NEW m \in InFlight, HandlePrepare(m.to, m) PROVE AnswersFollowCommits'
    <3> DEFINE new == IF Finishes(m.to, m)
                      THEN BroadCast(m.to, Scope(m), "Commit", blockHeight[m.to],
                                     blockHeight[m.to])
                      ELSE {}
    <3>1. sent' = sent \cup new
      BY <2>6 DEF HandlePrepare
    <3>2. \A x \in new : x.type # "Finality"
      BY BroadCastIsNoAnswer
    <3> HIDE DEF new
    <3>3. QED
      BY <3>1, <3>2, AnswersStayBehind
  <2>7. ASSUME NEW m \in InFlight, HandleCommit(m.to, m) PROVE AnswersFollowCommits'
    BY <2>7, CommitAnswers
  <2>8. ASSUME NEW m \in InFlight, HandleFinality(m) PROVE AnswersFollowCommits'
    BY <2>1, <2>2, <2>8 DEF HandleFinality
  <2>9. QED
    BY <2>2, <2>3, <2>4, <2>5, <2>6, <2>7, <2>8
       DEF Next, vars, Terminated, HandleMessage
<1>3. QED
  BY <1>1, <1>2, InitIInv, NextIInv, PTL DEF Spec
=============================================================================
