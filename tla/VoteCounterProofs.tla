-------------------------- MODULE VoteCounterProofs --------------------------
(***************************************************************************)
(* Proofs about one vote counter, for every set of voters, kind of vote    *)
(* and number of heights: that it announces a quorum once, misses no vote  *)
(* that comes in time, and how many members a count stands for.            *)
(***************************************************************************)
EXTENDS VoteCounter, FiniteSetTheorems, TLAPS

\* The counter, its buffer and the votes that are alive have their types.
TypeOK ==
  /\ q \in QuorumType
  /\ proposed \subseteq Rounds
  /\ handled \subseteq Voters \X Rounds
  /\ live \in Nat
  /\ announced \in Nat

\* The votes of a height that Handle has seen, counted or buffered, are those of
\* distinct members: CountIsBacked for all heights, as any may be the next.
VotesAreDistinct ==
  \A h \in Rounds :
    q.buffer[h] + (IF h = q.latest THEN live ELSE 0) <= Cardinality(VotersFor(h))

\* Before the first proposal nothing is counted.
NothingBeforeProposal == q.latest = 0 => live = 0

\* A live vote counts itself and, at most, the buffered votes once more.
CountIsMultiple == q.votes <= live * (q.buffer[q.latest] + 1)

\* The inductive invariant.
IInv ==
  /\ TypeOK
  /\ AnnouncedOnce
  /\ LiveVotesSuffice
  /\ VotesAreDistinct
  /\ NothingBeforeProposal
  /\ CountIsMultiple

-----------------------------------------------------------------------------
(* What the operations of the counter return, as FrustumProofs has it for its *)
(* counters.                                                                *)

\* Heights are numbers.
LEMMA HeightsType == 0 \in Heights /\ Heights \subseteq Nat
BY EndBlockHeightAssumption DEF Heights

\* A quorum is a positive number of votes.
LEMMA QuorumNodesType ==
  ASSUME NEW type, NEW total \in Nat
  PROVE  QuorumNodes(type, total) \in Nat /\ QuorumNodes(type, total) >= 1
BY DEF QuorumNodes, MaliciousNodes

\* A tally is a number, exceeds the count by one and what is buffered at most, and
\* by one at least until the quorum is reached.
LEMMA TallyFacts ==
  ASSUME NEW v \in QuorumType, NEW needed \in Nat
  PROVE  /\ Tally(v, needed) \in Nat
         /\ v.buffer[v.latest] \in Nat
         /\ Tally(v, needed) <= needed
         /\ Tally(v, needed) <= v.votes + 1 + v.buffer[v.latest]
         /\ v.votes < needed => Tally(v, needed) >= v.votes + 1
         /\ v.buffer[v.latest] = 0 => Tally(v, needed) <= v.votes + 1
<1>1. v.votes \in Nat /\ v.latest \in Heights /\ v.buffer \in [Heights -> Nat]
  BY DEF QuorumType
<1>2. v.buffer[v.latest] \in Nat
  BY <1>1
<1>3. Tally(v, needed) = IF v.votes + 1 + v.buffer[v.latest] < needed
                         THEN v.votes + 1 + v.buffer[v.latest] ELSE needed
  BY DEF Tally
<1>4. QED
  BY <1>1, <1>2, <1>3

\* A new counter has its type.
LEMMA NewQuorumType == NewQuorum \in QuorumType
BY HeightsType DEF NewQuorum, QuorumType

\* A reset moves the counter to h and never adds to its buffer.
LEMMA ResetCountFacts ==
  ASSUME NEW v \in QuorumType, NEW h \in Heights
  PROVE  /\ ResetCount(v, h) \in QuorumType
         /\ ResetCount(v, h).latest = h
         /\ ResetCount(v, h).votes = 0
         /\ \A k \in Heights : ResetCount(v, h).buffer[k] \in {0, v.buffer[k]}
BY HeightsType DEF ResetCount, QuorumType

\* Handle keeps the counter's height, buffers at most the vote it is given, and
\* only if that is for a later height.
LEMMA HandleFacts ==
  ASSUME NEW v \in QuorumType, NEW needed \in Nat, needed >= 1, NEW h \in Heights
  PROVE  /\ Handle(v, needed, h) \in QuorumType
         /\ Handle(v, needed, h).latest = v.latest
         /\ \A k \in Heights :
              \/ Handle(v, needed, h).buffer[k] = v.buffer[k]
              \/ /\ k = h /\ h > v.latest
                 /\ Handle(v, needed, h).buffer[k] = v.buffer[k] + 1
         /\ ~Counts(v, needed, h) => Handle(v, needed, h).votes = v.votes
         /\ Counts(v, needed, h) => Handle(v, needed, h).votes = Tally(v, needed)
<1>1. CASE Counts(v, needed, h)
  <2>1. Tally(v, needed) \in Nat
    BY TallyFacts
  <2>2. Handle(v, needed, h) = [v EXCEPT !.votes = Tally(v, needed)]
    BY <1>1 DEF Handle
  <2>3. QED
    BY <1>1, <2>1, <2>2 DEF QuorumType
<1>2. CASE ~Counts(v, needed, h) /\ h > v.latest
  <2>1. Handle(v, needed, h) = [v EXCEPT !.buffer[h] = @ + 1]
    BY <1>2 DEF Handle
  <2>2. v.buffer \in [Heights -> Nat] /\ v.buffer[h] + 1 \in Nat
    BY DEF QuorumType
  <2>3. QED
    BY <1>2, <2>1, <2>2 DEF QuorumType
<1>3. CASE ~Counts(v, needed, h) /\ ~(h > v.latest)
  <2>1. Handle(v, needed, h) = v
    BY <1>3 DEF Handle
  <2>2. QED
    BY <1>3, <2>1
<1>4. QED
  BY <1>1, <1>2, <1>3


-----------------------------------------------------------------------------
\* The quorum is a number of at least one.
LEMMA NeededFacts == Needed \in Nat /\ Needed >= 1
<1>1. Cardinality(Voters) + 1 \in Nat
  BY VoterAssumption, FS_CardinalityType
<1>2. QED
  BY <1>1, QuorumNodesType DEF Needed

\* Rounds are heights.
LEMMA RoundsFacts == Rounds \subseteq Heights /\ 0 \notin Rounds
BY DEF Rounds

\* Those who voted for a height are finitely many.
LEMMA VotersForFinite ==
  ASSUME NEW h PROVE IsFiniteSet(VotersFor(h)) /\ Cardinality(VotersFor(h)) \in Nat
<1>1. VotersFor(h) \subseteq Voters
  BY DEF VotersFor
<1>2. QED
  BY <1>1, VoterAssumption, FS_Subset, FS_CardinalityType

\* A new counter has counted nothing.
LEMMA InitInv == Init => IInv
<1>1. SUFFICES ASSUME Init PROVE IInv
  OBVIOUS
<1>2. q = NewQuorum /\ NewQuorum \in QuorumType
  BY <1>1, NewQuorumType DEF Init
<1>3. q.latest = 0 /\ q.votes = 0 /\ \A h \in Heights : q.buffer[h] = 0
  BY <1>2 DEF NewQuorum
<1>4. TypeOK
  BY <1>1, <1>2 DEF Init, TypeOK
<1>5. AnnouncedOnce /\ LiveVotesSuffice /\ NothingBeforeProposal
  BY <1>1, <1>3, NeededFacts DEF Init, AnnouncedOnce, LiveVotesSuffice, NothingBeforeProposal
<1>6. VotesAreDistinct
  BY <1>1, <1>3, RoundsFacts, VotersForFinite DEF Init, VotesAreDistinct
<1>7. CountIsMultiple
  BY <1>1, <1>3, HeightsType DEF Init, CountIsMultiple
<1>8. QED
  BY <1>4, <1>5, <1>6, <1>7 DEF IInv

\* A proposal: what is buffered for its height and above stays.
LEMMA HandlePrePrepareInv ==
  ASSUME IInv, NEW h \in Rounds, HandlePrePrepare(h)
  PROVE  IInv'
<1>1. /\ q \in QuorumType /\ h \in Heights
      /\ q' = ResetCount(q, h) /\ live' = 0 /\ announced' = 0
  BY RoundsFacts DEF IInv, TypeOK, HandlePrePrepare
<1>2. /\ q' \in QuorumType /\ q'.latest = h /\ q'.votes = 0
      /\ \A k \in Heights : q'.buffer[k] \in {0, q.buffer[k]}
  BY <1>1, ResetCountFacts
<1>3. TypeOK'
  BY <1>1, <1>2 DEF IInv, TypeOK, HandlePrePrepare
<1>4. AnnouncedOnce' /\ LiveVotesSuffice' /\ NothingBeforeProposal'
  BY <1>1, <1>2, NeededFacts DEF AnnouncedOnce, LiveVotesSuffice, NothingBeforeProposal
<1>5. VotesAreDistinct'
  <2>1. SUFFICES ASSUME NEW k \in Rounds
                 PROVE  q'.buffer[k] <= Cardinality(VotersFor(k))
    BY <1>1, <1>2, RoundsFacts DEF VotesAreDistinct, VotersFor, HandlePrePrepare, QuorumType
  <2>2. q.buffer[k] \in Nat /\ q'.buffer[k] \in {0, q.buffer[k]}
    BY <1>1, <1>2, RoundsFacts DEF QuorumType
  <2>3. q.buffer[k] + (IF k = q.latest THEN live ELSE 0) <= Cardinality(VotersFor(k))
    BY DEF IInv, VotesAreDistinct
  <2>4. live \in Nat /\ Cardinality(VotersFor(k)) \in Nat
    BY VotersForFinite DEF IInv, TypeOK
  <2>5. QED
    BY <2>2, <2>3, <2>4
<1>6. CountIsMultiple'
  <2>1. q'.buffer[q'.latest] \in Nat
    BY <1>2 DEF QuorumType
  <2>2. QED
    BY <1>1, <1>2, <2>1 DEF CountIsMultiple
<1>7. QED
  BY <1>3, <1>4, <1>5, <1>6 DEF IInv

-----------------------------------------------------------------------------
\* A vote that is handled adds its voter to those of its height, who was not
\* among them.
LEMMA VotersForNext ==
  ASSUME TypeOK, NEW v \in Voters, NEW h \in Rounds, HandleVote(v, h), NEW k \in Rounds
  PROVE  Cardinality(VotersFor(k)') = Cardinality(VotersFor(k)) + IF k = h THEN 1 ELSE 0
<1>1. <<v, h>> \notin handled /\ handled' = handled \cup {<<v, h>>}
  BY DEF HandleVote
<1>2. IsFiniteSet(VotersFor(k)) /\ Cardinality(VotersFor(k)) \in Nat
  BY VotersForFinite
<1>3. CASE k = h
  <2>1. VotersFor(k)' = VotersFor(k) \cup {v} /\ v \notin VotersFor(k)
    BY <1>1, <1>3 DEF VotersFor
  <2>2. QED
    BY <1>2, <1>3, <2>1, FS_AddElement
<1>4. CASE k # h
  <2>1. VotersFor(k)' = VotersFor(k)
    BY <1>1, <1>4 DEF VotersFor
  <2>2. QED
    BY <1>2, <1>4, <2>1
<1>5. QED
  BY <1>3, <1>4

\* A vote: it is counted together with the buffered ones, buffered, or dropped.
LEMMA HandleVoteInv ==
  ASSUME IInv, NEW v \in Voters, NEW h \in Rounds, HandleVote(v, h)
  PROVE  IInv'
<1> DEFINE counts == Counts(q, Needed, h)
           tally  == Tally(q, Needed)
<1>1. /\ q \in QuorumType /\ h \in Heights /\ live \in Nat /\ announced \in Nat
      /\ q' = Handle(q, Needed, h)
      /\ live' = IF counts THEN live + 1 ELSE live
      /\ announced' = IF Reaches(q, Needed, h) THEN announced + 1 ELSE announced
  BY RoundsFacts DEF IInv, TypeOK, HandleVote
<1>2. /\ q' \in QuorumType /\ q'.latest = q.latest
      /\ \A k \in Heights :
           \/ q'.buffer[k] = q.buffer[k]
           \/ k = h /\ h > q.latest /\ q'.buffer[k] = q.buffer[k] + 1
      /\ q'.votes = IF counts THEN tally ELSE q.votes
  BY <1>1, HandleFacts, NeededFacts
<1>3. /\ tally \in Nat /\ q.buffer[q.latest] \in Nat /\ tally <= Needed
      /\ tally <= q.votes + 1 + q.buffer[q.latest]
      /\ counts => tally >= q.votes + 1
  BY <1>1, TallyFacts, NeededFacts DEF Counts
<1>4. q.votes \in Nat /\ q.latest \in Heights /\ q.latest \in Nat
  BY <1>1, HeightsType DEF QuorumType
<1>5. q'.buffer[q'.latest] = q.buffer[q.latest]
  BY <1>2, <1>4, HeightsType
<1>6. TypeOK'
  BY <1>1, <1>2 DEF IInv, TypeOK, HandleVote
<1>7. AnnouncedOnce'
  <2>1. announced = IF q.votes = Needed THEN 1 ELSE 0
    BY DEF IInv, AnnouncedOnce
  <2>2. counts => q.votes < Needed
    BY DEF Counts
  <2>3. Reaches(q, Needed, h) <=> counts /\ tally = Needed
    BY DEF Reaches
  <2>4. QED
    BY <1>1, <1>2, <1>3, <1>4, <2>1, <2>2, <2>3, NeededFacts DEF AnnouncedOnce
<1>8. LiveVotesSuffice'
  <2>1. live <= q.votes /\ q.votes <= Needed
    BY DEF IInv, LiveVotesSuffice
  <2>2. QED
    BY <1>1, <1>2, <1>3, <1>4, <2>1, NeededFacts DEF LiveVotesSuffice
<1>9. VotesAreDistinct'
  <2>1. SUFFICES ASSUME NEW k \in Rounds
                 PROVE  q'.buffer[k] + (IF k = q'.latest THEN live' ELSE 0)
                          <= Cardinality(VotersFor(k)')
    BY DEF VotesAreDistinct
  <2>2. q.buffer[k] + (IF k = q.latest THEN live ELSE 0) <= Cardinality(VotersFor(k))
    BY DEF IInv, VotesAreDistinct
  <2>3. Cardinality(VotersFor(k)') = Cardinality(VotersFor(k)) + IF k = h THEN 1 ELSE 0
    BY VotersForNext DEF IInv
  <2>4. k \in Heights /\ q.buffer[k] \in Nat /\ Cardinality(VotersFor(k)) \in Nat
    BY <1>1, RoundsFacts, VotersForFinite DEF QuorumType
  <2>5. counts => h = q.latest
    BY DEF Counts
  <2>6. h > q.latest => h # q.latest
    BY <1>4, HeightsType, RoundsFacts
  <2>7. CASE k = h /\ h > q.latest
    BY <1>1, <1>2, <2>2, <2>3, <2>4, <2>5, <2>6, <2>7
  <2>8. CASE ~(k = h /\ h > q.latest)
    <3>1. q'.buffer[k] = q.buffer[k]
      BY <1>2, <2>4, <2>8
    <3>2. QED
      BY <1>1, <1>2, <2>2, <2>3, <2>4, <2>5, <3>1
  <2>9. QED
    BY <2>7, <2>8
<1>10. NothingBeforeProposal'
  <2>1. counts => q.latest # 0
    BY RoundsFacts DEF Counts
  <2>2. QED
    BY <1>1, <1>2, <2>1 DEF IInv, NothingBeforeProposal
<1>11. CountIsMultiple'
  <2> DEFINE k == q.buffer[q.latest] + 1
  <2>1. q.votes <= live * k /\ k \in Nat
    BY <1>3 DEF IInv, CountIsMultiple
  <2>2. CASE counts
    <3>1. q'.votes <= q.votes + k
      BY <1>2, <1>3, <1>4, <2>2
    <3>2. (live + 1) * k = live * k + k /\ live * k \in Nat
      BY <1>1, <2>1
    <3>3. q'.votes <= (live + 1) * k
      <4> HIDE DEF k
      <4>1. q'.votes \in Nat
        BY <1>2 DEF QuorumType
      <4>2. QED
        BY <1>4, <2>1, <3>1, <3>2, <4>1
    <3>4. QED
      BY <1>1, <1>5, <2>2, <3>3 DEF CountIsMultiple
  <2>3. CASE ~counts
    BY <1>1, <1>2, <1>5, <2>1, <2>3 DEF CountIsMultiple
  <2>4. QED
    BY <2>2, <2>3
<1>12. QED
  BY <1>6, <1>7, <1>8, <1>9, <1>10, <1>11 DEF IInv

\* Every step keeps the invariant.
LEMMA NextInv == IInv /\ [Next]_vars => IInv'
<1>1. SUFFICES ASSUME IInv, [Next]_vars PROVE IInv'
  OBVIOUS
<1>2. CASE UNCHANGED vars
  BY <1>1, <1>2 DEF vars, IInv, TypeOK, AnnouncedOnce, LiveVotesSuffice,
                    VotesAreDistinct, VotersFor, NothingBeforeProposal, CountIsMultiple
<1>3. CASE Next
  BY <1>1, <1>3, HandlePrePrepareInv, HandleVoteInv DEF Next
<1>4. QED
  BY <1>1, <1>2, <1>3

-----------------------------------------------------------------------------
\* The inductive invariant holds in every reachable state.
THEOREM Invariance == Spec => []IInv
BY InitInv, NextInv, PTL DEF Spec

\* Handle returns true once a height, when the count stands at the quorum.
THEOREM Announced == Spec => []AnnouncedOnce
<1>1. IInv => AnnouncedOnce
  BY DEF IInv
<1>2. QED
  BY <1>1, Invariance, PTL

\* Votes that arrive after the proposal all count (Quorum.Handle).
THEOREM LiveVotes == Spec => []LiveVotesSuffice
<1>1. IInv => LiveVotesSuffice
  BY DEF IInv
<1>2. QED
  BY <1>1, Invariance, PTL

\* How many distinct members stand behind a count, given that buffered votes
\* are counted again and again.
THEOREM Backed == Spec => []CountIsBacked
<1>1. IInv => CountIsBacked
  <2>1. SUFFICES ASSUME IInv PROVE CountIsBacked
    OBVIOUS
  <2>2. q.votes <= live * (q.buffer[q.latest] + 1)
    BY <2>1 DEF IInv, CountIsMultiple
  <2>3. ASSUME q.latest # 0
        PROVE  live + q.buffer[q.latest] <= Cardinality(VotersFor(q.latest))
    <3>1. q.latest \in Rounds /\ live \in Nat /\ q.buffer[q.latest] \in Nat
      BY <2>1, <2>3 DEF IInv, TypeOK, QuorumType, Rounds
    <3>2. q.buffer[q.latest] + live <= Cardinality(VotersFor(q.latest))
      BY <2>1, <3>1 DEF IInv, VotesAreDistinct
    <3>3. QED
      BY <3>1, <3>2
  <2>4. QED
    BY <2>2, <2>3 DEF CountIsBacked
<1>2. QED
  BY <1>1, Invariance, PTL
=============================================================================
