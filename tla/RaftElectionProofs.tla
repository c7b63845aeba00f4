------------------------- MODULE RaftElectionProofs -------------------------
(***************************************************************************)
(* The safety of RaftElection for every set of nodes, division into shards *)
(* and number of candidates.  That the term of a node may fall does not    *)
(* matter: what orders its votes is the term it voted in last, which only  *)
(* the main loop writes.  Six invariants are proved one after another:     *)
(*   IInv         whom a node votes for, and in which terms;               *)
(*   CInv         the counter and the leaders are backed by voters;        *)
(*   TInv         types, and the bound on the terms;                       *)
(*   VotersElect  votes are given within a scope, by others;               *)
(*   LInv         which votes are sent with a term that is over;           *)
(*   EInv         a candidate that stays in its term loses no other vote.  *)
(***************************************************************************)
EXTENDS RaftElection, FiniteSetTheorems, TLAPS

\* The requests for votes that c has sent.
StartVotes(c) == {m \in sent : m.type = "StartVote" /\ m.from = c}

\* Node v has voted for c, whether or not it has told c yet.
HasVotedFor(v, c) == c \in answering[v] \/ v \in Supporters(c)

\* The types of what the votes rest on.
Types ==
  /\ term \in [Nodes -> Nat] /\ read \in [Nodes -> Nat]
  /\ voted \in [Nodes -> [id : SUBSET Nodes, term : Nat]]
  /\ answering \in [Nodes -> SUBSET Nodes]
  /\ DOMAIN timer = Nodes
  /\ \A m \in sent : m.from \in Nodes /\ m.to \in Nodes /\ m.term \in Nat

\* A node asks for votes once, and in one term.
StandsOnce ==
  \A c \in Nodes :
    /\ StartVotes(c) # {} => timer[c] = "ended"
    /\ \A m1, m2 \in StartVotes(c) : m1.term = m2.term

\* Whoever a node has voted for has asked for it, in a term no later than that of
\* the node's last vote.
VotesAreAsked ==
  \A v, c \in Nodes : HasVotedFor(v, c) =>
    \E m \in StartVotes(c) : m.term <= voted[v].term

\* The candidates a node has voted for stand in different terms.
VotesDiffer ==
  \A v, a, b \in Nodes : (a # b /\ HasVotedFor(v, a) /\ HasVotedFor(v, b)) =>
    \A m1 \in StartVotes(a), m2 \in StartVotes(b) : m1.term # m2.term

\* A term has one vote of each node.
IInv == Types /\ StandsOnce /\ VotesAreAsked /\ VotesDiffer

-----------------------------------------------------------------------------
\* Before the start nobody has asked for votes.
LEMMA InitInv == Init => IInv
BY DEF Init, IInv, Types, StandsOnce, VotesAreAsked, VotesDiffer, HasVotedFor,
       StartVotes, Supporters

\* Steps that touch neither messages nor votes, and leave a thread that has ended
\* where it is.
LEMMA QuietInv ==
  ASSUME IInv, Types',
         UNCHANGED <<sent, voted, answering>>,
         \A n \in Nodes : timer[n] = "ended" => timer'[n] = "ended"
  PROVE  IInv'
<1>1. \A c : StartVotes(c)' = StartVotes(c) /\ Supporters(c)' = Supporters(c)
  BY DEF StartVotes, Supporters
<1>2. \A v, c : HasVotedFor(v, c)' <=> HasVotedFor(v, c)
  BY <1>1 DEF HasVotedFor
<1>3. StandsOnce'
  BY <1>1 DEF IInv, StandsOnce
<1>4. VotesAreAsked'
  BY <1>1, <1>2 DEF IInv, VotesAreAsked
<1>5. VotesDiffer'
  BY <1>1, <1>2 DEF IInv, VotesDiffer
<1>6. QED
  BY <1>3, <1>4, <1>5 DEF IInv

\* A candidate asks for votes: nobody can have voted for it before.
LEMMA SendStartVoteInv ==
  ASSUME IInv, NEW n \in Nodes, SendStartVote(n)
  PROVE  IInv'
<1> DEFINE posts == {[type |-> "StartVote", from |-> n, to |-> m, term |-> term[n]] :
                       m \in Scope(n) \ {n}}
<1>1. /\ timer[n] = "incremented" /\ timer' = [timer EXCEPT ![n] = "ended"]
      /\ sent' = sent \cup posts
      /\ UNCHANGED <<term, read, voted, answering>>
  BY DEF SendStartVote, mainVars
<1>2. \A m \in posts :
        m.type = "StartVote" /\ m.from = n /\ m.to \in Nodes /\ m.term = term[n]
  BY DEF Scope
<1>3. StartVotes(n) = {}
  BY <1>1 DEF IInv, StandsOnce
<1>4. /\ \A m \in StartVotes(n)' : m.term = term[n]
      /\ \A c : c # n => StartVotes(c)' = StartVotes(c)
  BY <1>1, <1>2, <1>3 DEF StartVotes
<1>5. \A v, c : HasVotedFor(v, c)' <=> HasVotedFor(v, c)
  BY <1>1, <1>2 DEF HasVotedFor, Supporters
<1>6. \A v \in Nodes : ~HasVotedFor(v, n)
  BY <1>3 DEF IInv, VotesAreAsked
<1>7. Types'
  BY <1>1, <1>2 DEF IInv, Types
<1>8. StandsOnce'
  BY <1>1, <1>4 DEF IInv, Types, StandsOnce
<1>9. VotesAreAsked'
  BY <1>1, <1>4, <1>5, <1>6 DEF IInv, VotesAreAsked
<1>10. VotesDiffer'
  BY <1>4, <1>5, <1>6 DEF IInv, VotesDiffer
<1>11. QED
  BY <1>7, <1>8, <1>9, <1>10 DEF IInv

\* The main loop accepts a candidate, whose term is above that of all it has
\* voted for, or does not.
LEMMA RespondStartVoteInv ==
  ASSUME IInv, NEW n \in Nodes, NEW m \in InFlight, RespondStartVote(n, m)
  PROVE  IInv'
<1>1. m \in sent /\ m.type = "StartVote" /\ m.from \in Nodes /\ m.term \in Nat
  BY DEF InFlight, RespondStartVote, IInv, Types
<1>2. UNCHANGED <<sent, timer, read>>
  BY DEF RespondStartVote, timeOutVars
<1>3. CASE ~Grants(n, m)
  <2>1. UNCHANGED <<term, voted, answering>>
    BY <1>3 DEF RespondStartVote
  <2>2. Types'
    BY <1>2, <2>1 DEF IInv, Types
  <2>3. QED
    BY <1>2, <2>1, <2>2, QuietInv
<1>4. CASE Grants(n, m)
  <2>1. /\ m.term > voted[n].term
        /\ term' = [term EXCEPT ![n] = m.term]
        /\ voted' = [voted EXCEPT ![n] = [id |-> {m.from}, term |-> m.term]]
        /\ answering' = [answering EXCEPT ![n] = {m.from}]
        /\ answering[n] = {}
    BY <1>4 DEF RespondStartVote, Grants, FollowedTerm, Idle
  <2>2. Types'
    BY <1>1, <1>2, <2>1 DEF IInv, Types
  <2>3. \A c : StartVotes(c)' = StartVotes(c) /\ Supporters(c)' = Supporters(c)
    BY <1>2 DEF StartVotes, Supporters
  <2>4. \A v, c \in Nodes : HasVotedFor(v, c)' <=>
          HasVotedFor(v, c) \/ (v = n /\ c = m.from)
    BY <2>1, <2>3 DEF HasVotedFor, IInv, Types
  <2>5. m \in StartVotes(m.from)
    BY <1>1 DEF StartVotes
  <2>6. /\ voted'[n].term = m.term
        /\ \A v \in Nodes : v # n => voted'[v] = voted[v]
        /\ voted[n].term \in Nat
    BY <2>1 DEF IInv, Types
  <2>7. \A c \in Nodes : HasVotedFor(n, c) =>
          \A k \in StartVotes(c) : k.term < m.term
    <3>1. SUFFICES ASSUME NEW c \in Nodes, HasVotedFor(n, c), NEW k \in StartVotes(c)
                   PROVE  k.term < m.term
      OBVIOUS
    <3>2. PICK j \in StartVotes(c) : j.term <= voted[n].term
      BY <3>1 DEF IInv, VotesAreAsked
    <3>3. k.term = j.term /\ k.term \in Nat
      BY DEF IInv, StandsOnce, Types, StartVotes
    <3>4. QED
      BY <1>1, <2>1, <2>6, <3>2, <3>3
  <2>8. StandsOnce'
    BY <1>2, <2>3 DEF IInv, StandsOnce
  <2>9. VotesAreAsked'
    <3>1. SUFFICES ASSUME NEW v \in Nodes, NEW c \in Nodes, HasVotedFor(v, c)'
                   PROVE  \E k \in StartVotes(c) : k.term <= voted'[v].term
      BY <2>3 DEF VotesAreAsked
    <3>2. CASE v = n /\ c = m.from
      BY <1>1, <2>5, <2>6, <3>2
    <3>3. CASE HasVotedFor(v, c)
      <4>1. PICK k \in StartVotes(c) : k.term <= voted[v].term
        BY <3>3 DEF IInv, VotesAreAsked
      <4>2. k.term \in Nat
        BY DEF IInv, Types, StartVotes
      <4>3. QED
        BY <1>1, <2>1, <2>6, <4>1, <4>2
    <3>4. QED
      BY <2>4, <3>1, <3>2, <3>3
  <2>10. VotesDiffer'
    <3>1. SUFFICES ASSUME NEW v \in Nodes, NEW a \in Nodes, NEW b \in Nodes, a # b,
                          HasVotedFor(v, a)', HasVotedFor(v, b)',
                          NEW m1 \in StartVotes(a), NEW m2 \in StartVotes(b)
                   PROVE  m1.term # m2.term
      BY <2>3 DEF VotesDiffer
    <3>2. m1.term \in Nat /\ m2.term \in Nat
      BY DEF IInv, Types, StartVotes
    <3>3. \A k \in StartVotes(m.from) : k.term = m.term
      BY <1>1, <2>5 DEF IInv, StandsOnce
    <3>4. CASE v = n /\ a = m.from
      <4>1. HasVotedFor(n, b)
        BY <2>4, <3>1, <3>4
      <4>2. QED
        BY <1>1, <2>7, <3>2, <3>3, <3>4, <4>1
    <3>5. CASE v = n /\ b = m.from
      <4>1. HasVotedFor(n, a)
        BY <2>4, <3>1, <3>5
      <4>2. QED
        BY <1>1, <2>7, <3>2, <3>3, <3>5, <4>1
    <3>6. CASE HasVotedFor(v, a) /\ HasVotedFor(v, b)
      BY <3>1, <3>6 DEF IInv, VotesDiffer
    <3>7. QED
      BY <2>4, <3>1, <3>4, <3>5, <3>6
  <2>11. QED
    BY <2>2, <2>8, <2>9, <2>10 DEF IInv
<1>5. QED
  BY <1>3, <1>4

\* The vote is sent: it was given when the candidate was accepted.
LEMMA SendConfirmInv ==
  ASSUME IInv, NEW n \in Nodes, SendConfirm(n)
  PROVE  IInv'
<1>1. PICK c \in answering[n] :
        /\ sent' = sent \cup {[type |-> "ConfirmStartVote", from |-> n, to |-> c,
                               term |-> term[n]]}
        /\ answering' = [answering EXCEPT ![n] = {}]
        /\ UNCHANGED <<term, voted, read, timer>>
  BY DEF SendConfirm, timeOutVars
<1>2. \A x : StartVotes(x)' = StartVotes(x)
  BY <1>1 DEF StartVotes
<1>3. \A v, x \in Nodes : v \in Supporters(x)' => v \in Supporters(x) \/ (v = n /\ x = c)
  BY <1>1 DEF Supporters
<1>4. \A v, x \in Nodes : HasVotedFor(v, x)' => HasVotedFor(v, x)
  BY <1>1, <1>3 DEF HasVotedFor, IInv, Types
<1>5. Types'
  BY <1>1 DEF IInv, Types
<1>6. StandsOnce'
  BY <1>1, <1>2 DEF IInv, StandsOnce
<1>7. VotesAreAsked'
  BY <1>1, <1>2, <1>4 DEF IInv, VotesAreAsked
<1>8. VotesDiffer'
  BY <1>2, <1>4 DEF IInv, VotesDiffer
<1>9. QED
  BY <1>5, <1>6, <1>7, <1>8 DEF IInv

\* The time-out thread up to the write of the term.
LEMMA TimeOutInv ==
  ASSUME IInv, NEW n \in Nodes,
         HandleStart(n) \/ HeartBeatTimeOut(n) \/ ReadTerm(n) \/ WriteTerm(n)
  PROVE  IInv'
<1>1. /\ UNCHANGED <<sent, voted, answering>>
      /\ timer[n] # "ended"
      /\ \E t : timer' = [timer EXCEPT ![n] = t]
  BY DEF HandleStart, HeartBeatTimeOut, ReadTerm, WriteTerm, mainVars, netVars
<1>2. term' \in [Nodes -> Nat] /\ read' \in [Nodes -> Nat]
  <2>1. CASE HandleStart(n) \/ HeartBeatTimeOut(n)
    BY <2>1 DEF HandleStart, HeartBeatTimeOut, IInv, Types
  <2>2. CASE ReadTerm(n) \/ WriteTerm(n)
    BY <2>2 DEF ReadTerm, WriteTerm, Incremented, IInv, Types
  <2>3. QED
    BY <2>1, <2>2
<1>3. Types'
  BY <1>1, <1>2 DEF IInv, Types
<1>4. \A c \in Nodes : timer[c] = "ended" => timer'[c] = "ended"
  BY <1>1 DEF IInv, Types
<1>5. QED
  BY <1>1, <1>3, <1>4, QuietInv

\* The other steps count votes, follow heartbeats and register leaders.
LEMMA OtherInv ==
  ASSUME IInv, UNCHANGED <<term, read, voted, answering, timer, sent>>
  PROVE  IInv'
<1>1. Types'
  BY DEF IInv, Types
<1>2. QED
  BY <1>1, QuietInv

\* What the counting thread leaves alone.
LEMMA CheckerLeaves ==
  ASSUME NEW n \in Nodes, CheckConfirmStartVote(n)
  PROVE  UNCHANGED <<term, voted, answering, yielding, timer, read, sent, handled,
                     registered, announced>>
BY DEF CheckConfirmStartVote, TakeVote, CheckVote, CheckCount, ClearCount, AddVote,
       BecomeIntraLeader, mainVars, timeOutVars, netVars, seedVars

\* Every step of every thread keeps the inductive invariant.
LEMMA NextInv == IInv /\ [Next]_vars => IInv'
<1>1. SUFFICES ASSUME IInv, [Next]_vars PROVE IInv'
  OBVIOUS
<1>2. CASE UNCHANGED vars
  BY <1>1, <1>2, OtherInv DEF vars
<1>3. CASE Next
  <2>1. PICK n \in Nodes : \/ TimeOutThread(n) \/ MainLoop(n)
                           \/ CheckConfirmStartVote(n) \/ HandleRegistration(n)
    BY <1>3 DEF Next
  <2>2. CASE TimeOutThread(n)
    BY <1>1, <2>2, TimeOutInv, SendStartVoteInv DEF TimeOutThread
  <2>3. CASE MainLoop(n)
    <3>1. CASE HandleStart(n)
      BY <1>1, <3>1, TimeOutInv
    <3>2. ASSUME NEW m \in InFlight, RespondStartVote(n, m) PROVE IInv'
      BY <1>1, <3>2, RespondStartVoteInv
    <3>3. ASSUME NEW m \in InFlight, HandleConfirm(n, m) PROVE IInv'
      BY <1>1, <3>3, OtherInv DEF HandleConfirm, mainVars, timeOutVars
    <3>4. CASE SendConfirm(n)
      BY <1>1, <3>4, SendConfirmInv
    <3>5. CASE StartChecker(n)
      BY <1>1, <3>5, OtherInv DEF StartChecker, mainVars, timeOutVars, netVars
    <3>6. ASSUME NEW l \in Nodes, HandleHeartBeat(n, l) PROVE IInv'
      BY <1>1, <3>6, OtherInv DEF HandleHeartBeat, timeOutVars, netVars
    <3>7. CASE BecomeFollower(n)
      BY <1>1, <3>7, OtherInv DEF BecomeFollower, timeOutVars, netVars
    <3>8. QED
      BY <2>3, <3>1, <3>2, <3>3, <3>4, <3>5, <3>6, <3>7 DEF MainLoop
  <2>4. CASE CheckConfirmStartVote(n)
    BY <1>1, <2>4, CheckerLeaves, OtherInv
  <2>5. CASE HandleRegistration(n)
    BY <1>1, <2>5, OtherInv DEF HandleRegistration, mainVars, timeOutVars, netVars
  <2>6. QED
    BY <2>1, <2>2, <2>3, <2>4, <2>5
<1>4. QED
  BY <1>1, <1>2, <1>3

-----------------------------------------------------------------------------
\* The inductive invariant holds in every reachable state.
THEOREM Invariance == Spec => []IInv
BY InitInv, NextInv, PTL DEF Spec

\* A node votes for one candidate of a term only, whatever its time-out thread
\* does to its term meanwhile (NodeMethod.go, RespondStartVote).
THEOREM VotesOnce == Spec => []OneVotePerTerm
<1>1. IInv => OneVotePerTerm
  <2> SUFFICES ASSUME IInv, NEW v \in Nodes, NEW m1 \in VotesOf(v), NEW m2 \in VotesOf(v),
                      m1.to # m2.to, ElectionTerm(m1.to) = ElectionTerm(m2.to)
               PROVE  FALSE
    BY DEF OneVotePerTerm
  <2> DEFINE a == m1.to
             b == m2.to
  <2>1. a \in Nodes /\ b \in Nodes /\ a # b
    <3>1. m1 \in sent /\ m2 \in sent
      BY DEF VotesOf
    <3>2. \A m \in sent : m.to \in Nodes
      BY DEF IInv, Types
    <3>3. QED
      BY <3>1, <3>2
  <2>2. HasVotedFor(v, a) /\ HasVotedFor(v, b)
    BY <2>1 DEF HasVotedFor, Supporters, VotesOf
  <2>3. PICK m \in StartVotes(a) : TRUE
    BY <2>1, <2>2 DEF IInv, VotesAreAsked
  <2>4. m.term \in ElectionTerm(b)
    BY <2>1, <2>3 DEF StartVotes, ElectionTerm
  <2>5. PICK k \in StartVotes(b) : k.term = m.term
    BY <2>4 DEF StartVotes, ElectionTerm
  <2>6. QED
    BY <2>1, <2>2, <2>3, <2>5 DEF IInv, VotesDiffer
<1>2. QED
  BY <1>1, Invariance, PTL

-----------------------------------------------------------------------------
\* The voters whose vote for c the counting thread is through with.
Counted(c) == {v \in Nodes : \E m \in Taken(c) : m.from = v}

\* The places of the counting thread, and those in which it has a vote in hand.
CheckerStates == {"none", "triggered", "running", "taken", "valid", "clearing",
                  "adding", "electing", "elected", "ended"}
HoldsVote(c) == checker[c] \in {"taken", "valid", "clearing", "adding"}

\* The types of what counts the votes.
CountTypes ==
  /\ count \in [Nodes -> [count : Nat, term : Nat]]
  /\ checker \in [Nodes -> CheckerStates]
  /\ handled \subseteq sent
  /\ votes \in [Nodes -> SUBSET handled] /\ counting \in [Nodes -> SUBSET handled]
  /\ \A c \in Nodes : \A m \in votes[c] \cup counting[c] :
       m.type = "ConfirmStartVote" /\ m.to = c

\* The counting thread waits for the candidate to ask for votes, and has then one
\* vote in hand at a time.
OneInHand ==
  \A c \in Nodes :
    /\ timer[c] # "ended" => checker[c] = "none"
    /\ IF HoldsVote(c) THEN \E m \in handled \ votes[c] : counting[c] = {m}
                       ELSE counting[c] = {}

\* A vote is sent once.
SentOnce ==
  /\ \A m1, m2 \in sent :
       (/\ m1.type = "ConfirmStartVote" /\ m2.type = "ConfirmStartVote"
        /\ m1.from = m2.from /\ m1.to = m2.to) => m1 = m2
  /\ \A v \in Nodes, c \in Nodes : c \in answering[v] => v \notin Supporters(c)

\* The counter never runs ahead of the voters it has counted, and a leader has
\* the votes it was elected with for ever.
CountIsBacked == \A c \in Nodes : count[c].count <= Cardinality(Counted(c))

LeaderIsBacked ==
  \A c \in Nodes : checker[c] \in {"electing", "elected"} =>
                     Q1(c) <= Cardinality(Supporters(c))

\* A leader has its votes.
CInv == CountTypes /\ OneInHand /\ SentOnce /\ CountIsBacked /\ LeaderIsBacked

\* Sets of voters are finite.
LEMMA VotersFinite ==
  ASSUME NEW c
  PROVE  /\ IsFiniteSet(Supporters(c)) /\ Cardinality(Supporters(c)) \in Nat
         /\ IsFiniteSet(Counted(c)) /\ Cardinality(Counted(c)) \in Nat
         /\ IsFiniteSet(Supporters(c)') /\ Cardinality(Supporters(c)') \in Nat
         /\ IsFiniteSet(Counted(c)') /\ Cardinality(Counted(c)') \in Nat
<1>1. IsFiniteSet(Nodes)
  BY RaftAssumption
<1>2. /\ Supporters(c) \subseteq Nodes /\ Counted(c) \subseteq Nodes
      /\ Supporters(c)' \subseteq Nodes /\ Counted(c)' \subseteq Nodes
  BY DEF Supporters, Counted
<1>3. QED
  BY <1>1, <1>2, FS_Subset, FS_CardinalityType

\* What a candidate needs is a number.
LEMMA Q1Type == \A c : Q1(c) \in Int
<1>1. IsFiniteSet(Nodes)
  BY RaftAssumption
<1>2. \A c : Scope(c) \subseteq Nodes
  BY DEF Scope
<1>3. Cardinality(Nodes) \in Nat /\ \A c : Cardinality(Scope(c)) \in Nat
  BY <1>1, <1>2, FS_Subset, FS_CardinalityType
<1>4. QED
  BY <1>3 DEF Q1

\* No vote is counted before the start.
LEMMA InitCInv == Init => CInv
<1>1. SUFFICES ASSUME Init PROVE CInv
  OBVIOUS
<1>2. CountTypes
  BY <1>1 DEF Init, CountTypes, CheckerStates
<1>3. OneInHand /\ SentOnce /\ LeaderIsBacked
  BY <1>1 DEF Init, OneInHand, HoldsVote, SentOnce, LeaderIsBacked, Supporters
<1>4. CountIsBacked
  BY <1>1, VotersFinite DEF Init, CountIsBacked
<1>5. QED
  BY <1>2, <1>3, <1>4 DEF CInv

\* Steps that count no vote and send none, with which the counting thread neither
\* takes a vote in hand nor gets ready to elect.
LEMMA QuietCInv ==
  ASSUME CInv, UNCHANGED <<answering, votes, counting, count, sent, handled>>,
         checker' \in [Nodes -> CheckerStates],
         \A c \in Nodes : timer'[c] # "ended" => checker'[c] = "none",
         \A c \in Nodes : HoldsVote(c)' <=> HoldsVote(c),
         \A c \in Nodes : checker'[c] \in {"electing", "elected"} =>
                            checker[c] \in {"electing", "elected"}
  PROVE  CInv'
<1>1. \A c : Supporters(c)' = Supporters(c) /\ Counted(c)' = Counted(c) /\ Q1(c)' = Q1(c)
  BY DEF Supporters, Counted, Taken, Q1, Scope
<1>2. CountTypes' /\ SentOnce' /\ OneInHand'
  BY <1>1 DEF CInv, CountTypes, SentOnce, OneInHand
<1>3. CountIsBacked' /\ LeaderIsBacked'
  BY <1>1 DEF CInv, CountIsBacked, LeaderIsBacked
<1>4. QED
  BY <1>2, <1>3 DEF CInv

\* The same when the counting thread does not move.
LEMMA StillCInv ==
  ASSUME CInv, UNCHANGED <<answering, votes, counting, count, sent, handled, checker>>,
         \A c \in Nodes : timer[c] = "ended" => timer'[c] = "ended"
  PROVE  CInv'
<1>1. checker' \in [Nodes -> CheckerStates] /\ \A c : HoldsVote(c)' <=> HoldsVote(c)
  BY DEF CInv, CountTypes, HoldsVote
<1>2. \A c \in Nodes : timer'[c] # "ended" => checker'[c] = "none"
  BY DEF CInv, OneInHand
<1>3. QED
  BY <1>1, <1>2, QuietCInv

\* A candidate that asks for votes gives none.
LEMMA SendStartVoteCInv ==
  ASSUME IInv, CInv, NEW n \in Nodes, SendStartVote(n)
  PROVE  CInv'
<1> DEFINE posts == {[type |-> "StartVote", from |-> n, to |-> m, term |-> term[n]] :
                       m \in Scope(n) \ {n}}
<1>1. /\ sent' = sent \cup posts
      /\ timer[n] = "incremented" /\ timer' = [timer EXCEPT ![n] = "ended"]
      /\ checker' = [checker EXCEPT ![n] = "triggered"]
      /\ UNCHANGED <<answering, votes, counting, count, handled>>
  BY DEF SendStartVote, mainVars
<1>2. \A m \in posts : m.type = "StartVote"
  OBVIOUS
<1> HIDE DEF posts
<1>3. \A c : Supporters(c)' = Supporters(c) /\ Counted(c)' = Counted(c) /\ Q1(c)' = Q1(c)
  BY <1>1, <1>2 DEF Supporters, Counted, Taken, Q1, Scope
<1>4. /\ checker' \in [Nodes -> CheckerStates] /\ checker[n] = "none"
      /\ \A c \in Nodes : checker'[c] = IF c = n THEN "triggered" ELSE checker[c]
      /\ \A c \in Nodes : timer'[c] # "ended" => c # n /\ timer[c] # "ended"
  BY <1>1 DEF CInv, CountTypes, CheckerStates, OneInHand, IInv, Types
<1>5. CountTypes' /\ SentOnce'
  BY <1>1, <1>2, <1>3, <1>4 DEF CInv, CountTypes, SentOnce
<1>6. OneInHand'
  BY <1>1, <1>4 DEF CInv, OneInHand, HoldsVote
<1>7. CountIsBacked' /\ LeaderIsBacked'
  BY <1>1, <1>3, <1>4 DEF CInv, CountIsBacked, LeaderIsBacked
<1>8. QED
  BY <1>5, <1>6, <1>7 DEF CInv

\* A candidate is accepted only by a node that has never voted for it.
LEMMA RespondStartVoteCInv ==
  ASSUME IInv, CInv, NEW n \in Nodes, NEW m \in InFlight, RespondStartVote(n, m)
  PROVE  CInv'
<1>1. /\ m \in sent /\ m.type = "StartVote" /\ m.from \in Nodes /\ m.term \in Nat
      /\ handled' = handled \cup {m}
      /\ UNCHANGED <<timer, checker, votes, counting, count, sent>>
  BY DEF InFlight, RespondStartVote, countVars, timeOutVars, IInv, Types
<1>2. \A c : Supporters(c)' = Supporters(c) /\ Q1(c)' = Q1(c)
  BY <1>1 DEF Supporters, Q1, Scope
<1>3. \A c : Counted(c)' = Counted(c)
  BY <1>1 DEF Counted, Taken
<1>4. \A v, c \in Nodes : c \in answering'[v] => c \in answering[v] \/
                              (v = n /\ c = m.from /\ Grants(n, m))
  BY DEF RespondStartVote, IInv, Types
<1>5. ASSUME Grants(n, m) PROVE n \notin Supporters(m.from)
  <2>1. SUFFICES ASSUME n \in Supporters(m.from) PROVE FALSE
    OBVIOUS
  <2>2. PICK j \in StartVotes(m.from) : j.term <= voted[n].term
    BY <1>1, <2>1 DEF IInv, VotesAreAsked, HasVotedFor
  <2>3. m \in StartVotes(m.from)
    BY <1>1 DEF StartVotes
  <2>4. j.term = m.term
    BY <1>1, <2>2, <2>3 DEF IInv, StandsOnce
  <2>5. m.term > voted[n].term /\ voted[n].term \in Nat
    BY <1>5 DEF Grants, IInv, Types
  <2>6. QED
    BY <1>1, <2>2, <2>4, <2>5
<1>6. SentOnce'
  BY <1>1, <1>2, <1>4, <1>5 DEF CInv, SentOnce
<1>7. CountTypes' /\ OneInHand'
  BY <1>1 DEF CInv, CountTypes, OneInHand, HoldsVote
<1>8. CountIsBacked' /\ LeaderIsBacked'
  BY <1>1, <1>2, <1>3 DEF CInv, CountIsBacked, LeaderIsBacked
<1>9. QED
  BY <1>6, <1>7, <1>8 DEF CInv

\* The vote is sent, and not again.
LEMMA SendConfirmCInv ==
  ASSUME IInv, CInv, NEW n \in Nodes, SendConfirm(n)
  PROVE  CInv'
<1>1. PICK c \in answering[n] :
        /\ sent' = sent \cup {[type |-> "ConfirmStartVote", from |-> n, to |-> c,
                               term |-> term[n]]}
        /\ answering' = [answering EXCEPT ![n] = {}]
        /\ UNCHANGED <<timer, checker, votes, counting, count, handled>>
  BY DEF SendConfirm, countVars, timeOutVars
<1> DEFINE post == [type |-> "ConfirmStartVote", from |-> n, to |-> c, term |-> term[n]]
<1>2. c \in Nodes
  BY <1>1 DEF IInv, Types
<1>3. post.type = "ConfirmStartVote" /\ post.from = n /\ post.to = c
  OBVIOUS
<1>4. sent' = sent \cup {post}
  BY <1>1
<1> HIDE DEF post
<1>5. n \notin Supporters(c)
  BY <1>1, <1>2 DEF CInv, SentOnce
<1>6. \A k \in sent : ~(k.type = "ConfirmStartVote" /\ k.from = n /\ k.to = c)
  BY <1>5 DEF Supporters
<1>7. \A v, x \in Nodes : v \in Supporters(x)' => v \in Supporters(x) \/ (v = n /\ x = c)
  BY <1>3, <1>4 DEF Supporters
<1>8. \A x : Supporters(x) \subseteq Supporters(x)' /\ Counted(x)' = Counted(x) /\ Q1(x)' = Q1(x)
  BY <1>1, <1>4 DEF Supporters, Counted, Taken, Q1, Scope
<1>9. \A v, x \in Nodes : x \in answering'[v] => x \in answering[v] /\ v # n
  BY <1>1 DEF IInv, Types
<1>10. SentOnce'
  <2>1. \A v, x \in Nodes : x \in answering'[v] => v \notin Supporters(x)'
    BY <1>7, <1>9 DEF CInv, SentOnce
  <2>2. \A m1, m2 \in sent' :
          (/\ m1.type = "ConfirmStartVote" /\ m2.type = "ConfirmStartVote"
           /\ m1.from = m2.from /\ m1.to = m2.to) => m1 = m2
    BY <1>3, <1>4, <1>6 DEF CInv, SentOnce
  <2>3. QED
    BY <2>1, <2>2 DEF SentOnce
<1>11. CountTypes' /\ OneInHand'
  BY <1>1, <1>4 DEF CInv, CountTypes, OneInHand, HoldsVote
<1>12. CountIsBacked'
  BY <1>1, <1>8 DEF CInv, CountIsBacked
<1>13. \A x \in Nodes : Cardinality(Supporters(x)) <= Cardinality(Supporters(x)')
  BY <1>8, VotersFinite, FS_Subset
<1>14. LeaderIsBacked'
  BY <1>1, <1>8, <1>13, VotersFinite, Q1Type DEF CInv, LeaderIsBacked
<1>15. QED
  BY <1>10, <1>11, <1>12, <1>14 DEF CInv

\* A vote waits to be counted.
LEMMA HandleConfirmCInv ==
  ASSUME CInv, NEW n \in Nodes, NEW m \in InFlight, HandleConfirm(n, m)
  PROVE  CInv'
<1>1. /\ m \in sent /\ m \notin handled /\ m.to = n /\ m.type = "ConfirmStartVote"
      /\ votes' = [votes EXCEPT ![n] = @ \cup {m}]
      /\ handled' = handled \cup {m}
      /\ UNCHANGED <<timer, checker, counting, answering, count, sent>>
  BY DEF InFlight, HandleConfirm, mainVars, timeOutVars
<1>2. \A c \in Nodes : votes'[c] = IF c = n THEN votes[c] \cup {m} ELSE votes[c]
  BY <1>1 DEF CInv, CountTypes
<1>3. CountTypes'
  <2>1. DOMAIN votes' = Nodes
    BY <1>1 DEF CInv, CountTypes
  <2>2. votes' \in [Nodes -> SUBSET handled'] /\ counting' \in [Nodes -> SUBSET handled']
    BY <1>1, <2>1 DEF CInv, CountTypes
  <2>3. \A c \in Nodes : \A k \in votes'[c] \cup counting'[c] :
          k.type = "ConfirmStartVote" /\ k.to = c
    BY <1>1, <1>2 DEF CInv, CountTypes
  <2>4. QED
    BY <1>1, <2>2, <2>3 DEF CInv, CountTypes
<1>4. \A c : Supporters(c)' = Supporters(c) /\ Q1(c)' = Q1(c)
  BY <1>1 DEF Supporters, Q1, Scope
<1>5. \A c \in Nodes : Taken(c)' = Taken(c)
  BY <1>1, <1>2 DEF Taken
<1>6. SentOnce'
  BY <1>1, <1>4 DEF CInv, SentOnce
<1>7. OneInHand'
  BY <1>1, <1>2 DEF CInv, OneInHand, HoldsVote
<1>8. CountIsBacked' /\ LeaderIsBacked'
  BY <1>1, <1>4, <1>5 DEF CInv, CountIsBacked, LeaderIsBacked, Counted
<1>9. QED
  BY <1>3, <1>6, <1>7, <1>8 DEF CInv

\* The counting thread takes a vote in hand.
LEMMA TakeVoteCInv ==
  ASSUME CInv, NEW n \in Nodes, NEW m \in votes[n], TakeVote(n, m)
  PROVE  CInv'
<1>1. /\ checker[n] = "running" /\ checker' = [checker EXCEPT ![n] = "taken"]
      /\ votes' = [votes EXCEPT ![n] = @ \ {m}]
      /\ counting' = [counting EXCEPT ![n] = {m}]
      /\ UNCHANGED <<timer, answering, count, sent, handled>>
  BY DEF TakeVote, mainVars, timeOutVars, netVars
<1>2. /\ m \in handled /\ m.type = "ConfirmStartVote" /\ m.to = n /\ counting[n] = {}
      /\ timer[n] = "ended"
  BY <1>1 DEF CInv, CountTypes, OneInHand, HoldsVote
<1>3. \A c \in Nodes : /\ votes'[c] = IF c = n THEN votes[c] \ {m} ELSE votes[c]
                       /\ counting'[c] = IF c = n THEN {m} ELSE counting[c]
                       /\ checker'[c] = IF c = n THEN "taken" ELSE checker[c]
  BY <1>1 DEF CInv, CountTypes
<1>4. \A c : Supporters(c)' = Supporters(c) /\ Q1(c)' = Q1(c)
  BY <1>1 DEF Supporters, Q1, Scope
<1>5. \A c \in Nodes : Taken(c)' = Taken(c)
  BY <1>1, <1>2, <1>3 DEF Taken
<1>6. CountTypes'
  <2>1. /\ DOMAIN votes' = Nodes /\ DOMAIN counting' = Nodes
        /\ \A c \in Nodes : votes'[c] \subseteq handled /\ counting'[c] \subseteq handled
        /\ checker' \in [Nodes -> CheckerStates]
    <3>1. DOMAIN votes' = Nodes /\ DOMAIN counting' = Nodes
      BY <1>1 DEF CInv, CountTypes
    <3>2. \A c \in Nodes : votes'[c] \subseteq handled /\ counting'[c] \subseteq handled
      <4>1. \A c \in Nodes : votes[c] \subseteq handled /\ counting[c] \subseteq handled
        BY DEF CInv, CountTypes
      <4>2. SUFFICES ASSUME NEW c \in Nodes
                     PROVE  votes'[c] \subseteq handled /\ counting'[c] \subseteq handled
        OBVIOUS
      <4>3. CASE c = n
        <5>1. votes'[n] = votes[n] \ {m} /\ counting'[n] = {m}
          BY <1>3
        <5>2. votes[n] \subseteq handled /\ m \in handled
          BY <1>2, <4>1
        <5>3. QED
          BY <4>3, <5>1, <5>2, Zenon
      <4>4. CASE c # n
        BY <1>3, <4>1, <4>4
      <4>5. QED
        BY <4>3, <4>4
    <3>3. checker' \in [Nodes -> CheckerStates]
      BY <1>1 DEF CInv, CountTypes, CheckerStates
    <3>4. QED
      BY <3>1, <3>2, <3>3
  <2>2. \A c \in Nodes : \A k \in votes'[c] \cup counting'[c] :
          k.type = "ConfirmStartVote" /\ k.to = c
    <3>1. SUFFICES ASSUME NEW c \in Nodes, NEW k \in votes'[c] \cup counting'[c]
                   PROVE  k.type = "ConfirmStartVote" /\ k.to = c
      OBVIOUS
    <3>2. CASE k \in votes[c] \cup counting[c]
      BY <3>2 DEF CInv, CountTypes
    <3>3. k \in votes[c] \cup counting[c] \/ (c = n /\ k = m)
      BY <1>3
    <3>4. QED
      BY <1>2, <3>2, <3>3
  <2>3. votes' \in [Nodes -> SUBSET handled] /\ counting' \in [Nodes -> SUBSET handled]
    <3>1. votes' = [c \in Nodes |-> votes'[c]] /\ counting' = [c \in Nodes |-> counting'[c]]
      BY <1>1 DEF CInv, CountTypes
    <3>2. QED
      BY <2>1, <3>1
  <2>4. QED
    BY <1>1, <2>1, <2>2, <2>3 DEF CInv, CountTypes
<1>7. OneInHand'
  BY <1>1, <1>2, <1>3 DEF CInv, OneInHand, HoldsVote
<1>8. SentOnce'
  BY <1>1, <1>4 DEF CInv, SentOnce
<1>9. CountIsBacked' /\ LeaderIsBacked'
  BY <1>1, <1>3, <1>4, <1>5 DEF CInv, CountIsBacked, LeaderIsBacked, Counted
<1>10. QED
  BY <1>6, <1>7, <1>8, <1>9 DEF CInv

\* The vote in hand is of a voter that has not been counted.
LEMMA VoteInHand ==
  ASSUME IInv, CInv, NEW n \in Nodes, HoldsVote(n)
  PROVE  \E m \in handled \ votes[n] :
           /\ counting[n] = {m} /\ m.type = "ConfirmStartVote" /\ m.to = n
           /\ m.from \in Nodes /\ m \in sent /\ m \notin Taken(n)
           /\ m.from \notin Counted(n)
<1>1. PICK m \in handled \ votes[n] : counting[n] = {m}
  BY DEF CInv, OneInHand
<1>2. /\ m.type = "ConfirmStartVote" /\ m.to = n /\ m.from \in Nodes
      /\ m \in sent /\ m \notin Taken(n)
  BY <1>1 DEF CInv, CountTypes, IInv, Types, Taken
<1>3. m.from \notin Counted(n)
  <2>1. SUFFICES ASSUME NEW k \in Taken(n), k.from = m.from PROVE FALSE
    BY DEF Counted
  <2>2. k = m
    BY <1>2, <2>1 DEF CInv, CountTypes, SentOnce, Taken
  <2>3. QED
    BY <1>2, <2>2
<1>4. QED
  BY <1>1, <1>2, <1>3

\* With the vote in hand the counting thread is through, and the voters it has
\* counted grow by one.
LEMMA VoteIsTaken ==
  ASSUME IInv, CInv, NEW n \in Nodes, HoldsVote(n),
         counting' = [counting EXCEPT ![n] = {}],
         UNCHANGED <<votes, sent, handled>>
  PROVE  /\ Cardinality(Counted(n)') = Cardinality(Counted(n)) + 1
         /\ Cardinality(Counted(n)') <= Cardinality(Supporters(n))
         /\ \A c \in Nodes : c # n => Taken(c)' = Taken(c)
<1>1. PICK m \in handled \ votes[n] :
        /\ counting[n] = {m} /\ m.type = "ConfirmStartVote" /\ m.to = n
        /\ m.from \in Nodes /\ m \in sent /\ m \notin Taken(n) /\ m.from \notin Counted(n)
  BY VoteInHand
<1>2. \A c \in Nodes : counting'[c] = IF c = n THEN {} ELSE counting[c]
  BY DEF CInv, CountTypes
<1>3. Taken(n)' = Taken(n) \cup {m} /\ \A c \in Nodes : c # n => Taken(c)' = Taken(c)
  BY <1>1, <1>2 DEF Taken
<1>4. Counted(n)' = Counted(n) \cup {m.from}
  BY <1>1, <1>3 DEF Counted
<1>5. Cardinality(Counted(n)') = Cardinality(Counted(n)) + 1
  BY <1>1, <1>4, VotersFinite, FS_AddElement
<1>6. Counted(n)' \subseteq Supporters(n)
  BY <1>1, <1>3 DEF Counted, Supporters, Taken, CInv, CountTypes
<1>7. Cardinality(Counted(n)') <= Cardinality(Supporters(n))
  BY <1>6, VotersFinite, FS_Subset
<1>8. QED
  BY <1>3, <1>5, <1>7

\* It drops the vote or counts it: the counter grows by one at most, and at half
\* of the members the node is ready to lead.
LEMMA VoteTakenCInv ==
  ASSUME IInv, CInv, NEW n \in Nodes, HoldsVote(n),
         counting' = [counting EXCEPT ![n] = {}],
         UNCHANGED <<timer, answering, votes, sent, handled>>,
         NEW place \in {"running", "electing", "ended"},
         checker' = [checker EXCEPT ![n] = place],
         \/ count' = count /\ place # "electing"
         \/ /\ count' = [count EXCEPT ![n].count = @ + 1]
            /\ place = "electing" => count[n].count + 1 = Q1(n)
  PROVE  CInv'
<1>1. /\ Cardinality(Counted(n)') = Cardinality(Counted(n)) + 1
      /\ Cardinality(Counted(n)') <= Cardinality(Supporters(n))
      /\ \A c \in Nodes : c # n => Taken(c)' = Taken(c)
  BY VoteIsTaken
<1>2. \A c : Supporters(c)' = Supporters(c) /\ Q1(c)' = Q1(c)
  BY DEF Supporters, Q1, Scope
<1>3. \A c \in Nodes : c # n => Counted(c)' = Counted(c)
  BY <1>1 DEF Counted
<1>4. /\ \A c \in Nodes : checker'[c] = IF c = n THEN place ELSE checker[c]
      /\ \A c \in Nodes : counting'[c] = IF c = n THEN {} ELSE counting[c]
      /\ checker' \in [Nodes -> CheckerStates] /\ counting' \in [Nodes -> SUBSET handled]
      /\ timer[n] = "ended"
  BY DEF CInv, CountTypes, CheckerStates, OneInHand, HoldsVote
<1>5. /\ count' \in [Nodes -> [count : Nat, term : Nat]]
      /\ \A c \in Nodes : c # n => count'[c] = count[c]
      /\ count'[n].count \in {count[n].count, count[n].count + 1}
      /\ count[n].count \in Nat
  BY DEF CInv, CountTypes
<1>6. CountTypes'
  BY <1>4, <1>5 DEF CInv, CountTypes
<1>7. OneInHand'
  BY <1>4 DEF CInv, OneInHand, HoldsVote
<1>8. SentOnce'
  BY <1>2 DEF CInv, SentOnce
<1>9. CountIsBacked'
  BY <1>1, <1>3, <1>5, VotersFinite DEF CInv, CountIsBacked
<1>10. LeaderIsBacked'
  <2>1. place = "electing" => Q1(n) <= Cardinality(Supporters(n))
    BY <1>1, <1>5, VotersFinite DEF CInv, CountIsBacked
  <2>2. QED
    BY <1>2, <1>4, <2>1 DEF CInv, LeaderIsBacked
<1>11. QED
  BY <1>6, <1>7, <1>8, <1>9, <1>10 DEF CInv

\* The counting thread, step by step.
LEMMA CheckCInv ==
  ASSUME IInv, CInv, NEW n \in Nodes, CheckConfirmStartVote(n)
  PROVE  CInv'
<1>1. UNCHANGED <<timer, answering, sent, handled>> /\ checker \in [Nodes -> CheckerStates]
  BY CheckerLeaves DEF CInv, CountTypes
<1>2. ASSUME NEW m \in votes[n], TakeVote(n, m) PROVE CInv'
  BY <1>2, TakeVoteCInv
<1>3. CASE CheckVote(n)
  <2>1. checker[n] = "taken" /\ UNCHANGED <<votes, count>>
    BY <1>3 DEF CheckVote
  <2>2. CASE /\ checker' = [checker EXCEPT ![n] = "running"]
             /\ counting' = [counting EXCEPT ![n] = {}]
    BY <1>1, <2>1, <2>2, VoteTakenCInv DEF HoldsVote
  <2>3. CASE checker' = [checker EXCEPT ![n] = "valid"] /\ counting' = counting
    <3>1. checker' \in [Nodes -> CheckerStates] /\ timer[n] = "ended"
      BY <1>1, <2>1, <2>3 DEF CheckerStates, CInv, OneInHand
    <3>2. \A c \in Nodes : checker'[c] = IF c = n THEN "valid" ELSE checker[c]
      BY <1>1, <2>3
    <3>3. QED
      BY <1>1, <2>1, <2>3, <3>1, <3>2, QuietCInv DEF HoldsVote, CInv, OneInHand
  <2>4. QED
    BY <1>3, <2>2, <2>3 DEF CheckVote
<1>4. CASE CheckCount(n) \/ BecomeIntraLeader(n)
  <2>1. PICK place \in {"clearing", "adding", "elected"} :
          /\ checker' = [checker EXCEPT ![n] = place]
          /\ checker[n] = IF place = "elected" THEN "electing" ELSE "valid"
    BY <1>4 DEF CheckCount, BecomeIntraLeader
  <2>2. UNCHANGED <<votes, counting, count>>
    BY <1>4 DEF CheckCount, BecomeIntraLeader
  <2>3. checker' \in [Nodes -> CheckerStates] /\ timer[n] = "ended"
    BY <1>1, <2>1 DEF CheckerStates, CInv, OneInHand
  <2>4. \A c \in Nodes : checker'[c] = IF c = n THEN place ELSE checker[c]
    BY <1>1, <2>1
  <2>5. QED
    BY <1>1, <2>1, <2>2, <2>3, <2>4, QuietCInv DEF HoldsVote, CInv, OneInHand
<1>5. CASE ClearCount(n)
  <2>1. /\ checker[n] = "clearing" /\ checker' = [checker EXCEPT ![n] = "adding"]
        /\ count' = [count EXCEPT ![n] = [count |-> 0, term |-> term[n]]]
        /\ UNCHANGED <<votes, counting>>
    BY <1>5 DEF ClearCount
  <2>2. /\ \A c \in Nodes : checker'[c] = IF c = n THEN "adding" ELSE checker[c]
        /\ \A c \in Nodes : c # n => count'[c] = count[c]
        /\ count'[n].count = 0 /\ timer[n] = "ended"
    BY <2>1 DEF CInv, CountTypes, OneInHand
  <2>3. \A c : Supporters(c)' = Supporters(c) /\ Counted(c)' = Counted(c) /\ Q1(c)' = Q1(c)
    BY <1>1, <2>1 DEF Supporters, Counted, Taken, Q1, Scope
  <2>4. CountTypes'
    <3>1. /\ count' \in [Nodes -> [count : Nat, term : Nat]]
          /\ checker' \in [Nodes -> CheckerStates]
      BY <1>1, <2>1 DEF CheckerStates, CInv, CountTypes, IInv, Types
    <3>2. QED
      BY <1>1, <2>1, <3>1 DEF CInv, CountTypes
  <2>5. OneInHand'
    BY <1>1, <2>1, <2>2 DEF CInv, OneInHand, HoldsVote
  <2>6. SentOnce' /\ CountIsBacked' /\ LeaderIsBacked'
    BY <1>1, <2>2, <2>3, VotersFinite DEF CInv, SentOnce, CountIsBacked, LeaderIsBacked
  <2>7. QED
    BY <2>4, <2>5, <2>6 DEF CInv
<1>6. CASE AddVote(n)
  <2>1. /\ checker[n] = "adding" /\ votes' = votes
        /\ counting' = [counting EXCEPT ![n] = {}]
    BY <1>6 DEF AddVote
  <2>2. PICK place \in {"running", "electing", "ended"} :
          /\ checker' = [checker EXCEPT ![n] = place]
          /\ \/ count' = count /\ place # "electing"
             \/ /\ count' = [count EXCEPT ![n].count = @ + 1]
                /\ place = "electing" => count[n].count + 1 = Q1(n)
    BY <1>6 DEF AddVote
  <2>3. QED
    BY <1>1, <2>1, <2>2, VoteTakenCInv DEF HoldsVote
<1>7. QED
  BY <1>2, <1>3, <1>4, <1>5, <1>6 DEF CheckConfirmStartVote

\* Every step of every thread keeps the votes and their counts backed.
LEMMA NextCInv == IInv /\ CInv /\ [Next]_vars => CInv'
<1>1. SUFFICES ASSUME IInv, CInv, [Next]_vars PROVE CInv'
  OBVIOUS
<1>2. DOMAIN timer = Nodes /\ checker \in [Nodes -> CheckerStates]
  BY <1>1 DEF IInv, Types, CInv, CountTypes
<1>3. CASE UNCHANGED vars
  BY <1>1, <1>3, StillCInv DEF vars
<1>4. CASE Next
  <2>1. PICK n \in Nodes : \/ TimeOutThread(n) \/ MainLoop(n)
                           \/ CheckConfirmStartVote(n) \/ HandleRegistration(n)
    BY <1>4 DEF Next
  <2>2. CASE TimeOutThread(n)
    <3>1. CASE HeartBeatTimeOut(n) \/ ReadTerm(n) \/ WriteTerm(n)
      <4>1. /\ UNCHANGED <<answering, votes, counting, count, sent, handled, checker>>
            /\ timer[n] # "ended"
            /\ \E t : timer' = [timer EXCEPT ![n] = t]
        BY <3>1 DEF HeartBeatTimeOut, ReadTerm, WriteTerm, mainVars, countVars, netVars
      <4>2. QED
        BY <1>1, <1>2, <4>1, StillCInv
    <3>2. CASE SendStartVote(n)
      BY <1>1, <3>2, SendStartVoteCInv
    <3>3. QED
      BY <2>2, <3>1, <3>2 DEF TimeOutThread
  <2>3. CASE MainLoop(n)
    <3>1. CASE HandleStart(n)
      BY <1>1, <1>2, <3>1, StillCInv DEF HandleStart, mainVars, countVars, netVars
    <3>2. ASSUME NEW m \in InFlight, RespondStartVote(n, m) PROVE CInv'
      BY <1>1, <3>2, RespondStartVoteCInv
    <3>3. ASSUME NEW m \in InFlight, HandleConfirm(n, m) PROVE CInv'
      BY <1>1, <3>3, HandleConfirmCInv
    <3>4. CASE SendConfirm(n)
      BY <1>1, <3>4, SendConfirmCInv
    <3>5. CASE StartChecker(n)
      <4>1. /\ checker[n] = "triggered" /\ checker' = [checker EXCEPT ![n] = "running"]
            /\ UNCHANGED <<timer, answering, votes, counting, count, sent, handled>>
        BY <3>5 DEF StartChecker, mainVars, timeOutVars, netVars
      <4>2. checker' \in [Nodes -> CheckerStates] /\ timer[n] = "ended"
        BY <1>1, <1>2, <4>1 DEF CheckerStates, CInv, OneInHand
      <4>3. \A c \in Nodes : checker'[c] = IF c = n THEN "running" ELSE checker[c]
        BY <1>2, <4>1
      <4>4. QED
        BY <1>1, <4>1, <4>2, <4>3, QuietCInv DEF HoldsVote, CInv, OneInHand
    <3>6. ASSUME NEW l \in Nodes, HandleHeartBeat(n, l) PROVE CInv'
      BY <1>1, <3>6, StillCInv DEF HandleHeartBeat, timeOutVars, countVars, netVars
    <3>7. CASE BecomeFollower(n)
      BY <1>1, <3>7, StillCInv DEF BecomeFollower, timeOutVars, countVars, netVars
    <3>8. QED
      BY <2>3, <3>1, <3>2, <3>3, <3>4, <3>5, <3>6, <3>7 DEF MainLoop
  <2>4. CASE CheckConfirmStartVote(n)
    BY <1>1, <2>4, CheckCInv
  <2>5. CASE HandleRegistration(n)
    BY <1>1, <2>5, StillCInv DEF HandleRegistration, mainVars, timeOutVars, countVars, netVars
  <2>6. QED
    BY <2>1, <2>2, <2>3, <2>4, <2>5
<1>5. QED
  BY <1>1, <1>3, <1>4

\* The counts are backed in every reachable state.
THEOREM CountInvariance == Spec => []CInv
BY InitCInv, NextCInv, Invariance, PTL DEF Spec

\* What a candidate needs from others is half of its scope: in SS-Raft always, in
\* Raft when the number of nodes is odd.
HalfNeeded == ConsensusType = "SS-Raft" \/ Cardinality(Nodes) % 2 = 1

\* Half of a scope, then, is what a candidate needs.
LEMMA Q1IsHalf ==
  ASSUME HalfNeeded, NEW c \in Nodes
  PROVE  /\ IsFiniteSet(Scope(c)) /\ Cardinality(Scope(c)) \in Nat
         /\ Q1(c) = Cardinality(Scope(c)) \div 2
<1>1. /\ IsFiniteSet(Nodes) /\ Scope(c) \subseteq Nodes
      /\ ConsensusType \in {"Raft", "SS-Raft"}
  BY RaftAssumption DEF Scope
<1>2. IsFiniteSet(Scope(c)) /\ Cardinality(Scope(c)) \in Nat /\ Cardinality(Nodes) \in Nat
  BY <1>1, FS_Subset, FS_CardinalityType
<1>3. CASE ConsensusType = "SS-Raft"
  BY <1>2, <1>3 DEF Q1
<1>4. CASE ConsensusType = "Raft" /\ Cardinality(Nodes) % 2 = 1
  BY <1>2, <1>4 DEF Q1, Scope
<1>5. QED
  BY <1>1, <1>3, <1>4 DEF HalfNeeded

\* A leader has been elected by half of those that elect it, in whatever order
\* votes arrive and are counted (NodeMethod.go, CheckConfirmStartVote).
THEOREM HalfElects ==
  ASSUME HalfNeeded
  PROVE  Spec => []ElectedByHalf
<1>1. CInv => ElectedByHalf
  BY Q1IsHalf DEF CInv, LeaderIsBacked, ElectedByHalf, Leaders
<1>2. QED
  BY <1>1, CountInvariance, PTL

-----------------------------------------------------------------------------
\* The nodes whose time-out thread has raised their term.
Raised == {n \in Nodes : timer[n] \in {"incremented", "ended"}}

\* The variables that hold no term, and the nodes that stand, which are bounded.
PlainTypes ==
  /\ role \in [Nodes -> {"intraFollower", "intraCandidate", "intraLeader"}]
  /\ voted \in [Nodes -> [id : SUBSET Nodes, term : Nat]]
  /\ answering \in [Nodes -> SUBSET Nodes] /\ yielding \subseteq Nodes
  /\ timer \in [Nodes -> {"idle", "running", "standing", "incrementing",
                          "incremented", "ended"}]
  /\ handled \subseteq sent
  /\ \A m \in sent : m \in [type : {"StartVote", "ConfirmStartVote"}, from : Nodes,
                            to : Nodes, term : Nat]
  /\ registered \subseteq Nodes
  /\ announced \in BOOLEAN
  /\ Cardinality(Candidates) <= MaxCandidates

\* No term is above the number of nodes that have raised theirs.
TermsBounded ==
  /\ \A n \in Nodes : /\ term[n] \in 0..Cardinality(Raised)
                      /\ read[n] \in 0..Cardinality(Raised)
                      /\ voted[n].term \in 0..Cardinality(Raised)
                      /\ count[n].term \in 0..Cardinality(Raised)
  /\ \A m \in sent : m.term \in 0..Cardinality(Raised)

\* Types that bound what a state can hold.
TInv == PlainTypes /\ TermsBounded

\* Those that have raised their term stand, and are counted.
LEMMA RaisedFinite ==
  ASSUME PlainTypes
  PROVE  /\ IsFiniteSet(Raised) /\ Cardinality(Raised) \in Nat
         /\ IsFiniteSet(Candidates) /\ Cardinality(Candidates) \in Nat
         /\ Cardinality(Raised) <= Cardinality(Candidates)
         /\ Cardinality(Raised) <= MaxCandidates
<1>1. IsFiniteSet(Nodes) /\ MaxCandidates \in Nat
  BY RaftAssumption
<1>2. Raised \subseteq Candidates /\ Candidates \subseteq Nodes
  BY DEF Raised, Candidates
<1>3. IsFiniteSet(Candidates) /\ Cardinality(Candidates) \in Nat
  BY <1>1, <1>2, FS_Subset, FS_CardinalityType
<1>4. IsFiniteSet(Raised) /\ Cardinality(Raised) \in Nat
      /\ Cardinality(Raised) <= Cardinality(Candidates)
  BY <1>2, <1>3, FS_Subset, FS_CardinalityType
<1>5. QED
  BY <1>1, <1>3, <1>4 DEF PlainTypes

\* Before the start.
LEMMA InitTInv == Init => TInv
<1>1. SUFFICES ASSUME Init PROVE TInv
  OBVIOUS
<1>2. Candidates = {} /\ Raised = {}
  BY <1>1 DEF Init, Candidates, Raised
<1>3. Cardinality(Candidates) = 0 /\ Cardinality(Raised) = 0 /\ MaxCandidates \in Nat
  BY <1>2, FS_EmptySet, RaftAssumption
<1>4. PlainTypes
  <2>1. /\ role \in [Nodes -> {"intraFollower", "intraCandidate", "intraLeader"}]
        /\ voted \in [Nodes -> [id : SUBSET Nodes, term : Nat]]
        /\ answering \in [Nodes -> SUBSET Nodes]
        /\ timer \in [Nodes -> {"idle", "running", "standing", "incrementing",
                                "incremented", "ended"}]
        /\ yielding \subseteq Nodes
    BY <1>1 DEF Init
  <2>2. /\ sent = {} /\ handled \subseteq sent
        /\ registered \subseteq Nodes /\ announced \in BOOLEAN
    BY <1>1 DEF Init
  <2>3. Cardinality(Candidates) <= MaxCandidates
    BY <1>3
  <2>4. \A m \in sent : m \in [type : {"StartVote", "ConfirmStartVote"}, from : Nodes,
                               to : Nodes, term : Nat]
    BY <2>2, Zenon
  <2>5. QED
    BY <2>1, <2>2, <2>3, <2>4, Zenon DEF PlainTypes
<1>5. TermsBounded
  BY <1>1, <1>3 DEF Init, TermsBounded
<1>6. QED
  BY <1>4, <1>5 DEF TInv

\* Steps that leave the time-out threads, terms, votes and messages alone.
LEMMA QuietTInv ==
  ASSUME TInv, UNCHANGED <<timer, term, read, voted, sent>>,
         role' \in [Nodes -> {"intraFollower", "intraCandidate", "intraLeader"}],
         answering' = answering, yielding' \subseteq Nodes, handled' \subseteq sent,
         registered' \subseteq Nodes, announced' \in BOOLEAN,
         \A n \in Nodes : \/ count'[n].term = count[n].term
                          \/ count'[n].term = term[n]
  PROVE  TInv'
<1>1. Candidates' = Candidates /\ Raised' = Raised
  BY DEF Candidates, Raised
<1>2. PlainTypes'
  BY <1>1 DEF TInv, PlainTypes
<1>3. TermsBounded'
  BY <1>1 DEF TInv, TermsBounded
<1>4. QED
  BY <1>2, <1>3 DEF TInv

\* The time-out thread takes node n from one place to another.
LEMMA ThreadMoves ==
  ASSUME NEW n \in Nodes, \A m \in Nodes \ {n} : timer'[m] = timer[m]
  PROVE  /\ timer'[n] # "idle" => Candidates' = Candidates \cup {n}
         /\ timer'[n] \notin {"incremented", "ended"}
            /\ timer[n] \notin {"incremented", "ended"} => Raised' = Raised
         /\ timer'[n] \in {"incremented", "ended"} => Raised' = Raised \cup {n}
BY DEF Candidates, Raised

\* The time-out thread: a node that is started is one of the candidates, and when it
\* writes its term the first time it raises it.
LEMMA TimeOutTInv ==
  ASSUME TInv, NEW n \in Nodes,
         \/ HandleStart(n) \/ HeartBeatTimeOut(n) \/ ReadTerm(n) \/ WriteTerm(n)
  PROVE  TInv'
<1>1. /\ UNCHANGED <<voted, answering, yielding, count, sent, handled,
                     registered, announced>>
      /\ role' \in [Nodes -> {"intraFollower", "intraCandidate", "intraLeader"}]
  BY DEF HandleStart, HeartBeatTimeOut, ReadTerm, WriteTerm, mainVars, countVars,
         netVars, seedVars, TInv, PlainTypes
<1>2. /\ PlainTypes /\ TermsBounded
      /\ DOMAIN timer = Nodes /\ MaxCandidates \in Nat
  BY RaftAssumption DEF TInv, PlainTypes
<1>3. CASE HandleStart(n)
  <2>1. /\ timer' = [timer EXCEPT ![n] = "running"] /\ timer[n] = "idle"
        /\ UNCHANGED <<term, read>> /\ Cardinality(Candidates) < MaxCandidates
    BY <1>3 DEF HandleStart
  <2>2. Candidates' = Candidates \cup {n} /\ Raised' = Raised
    <3>1. timer'[n] = "running" /\ \A m \in Nodes \ {n} : timer'[m] = timer[m]
      BY <1>2, <2>1
    <3>2. QED
      BY <2>1, <3>1, ThreadMoves
  <2>3. Cardinality(Candidates)' <= MaxCandidates
    <3>1. n \notin Candidates /\ IsFiniteSet(Candidates) /\ Cardinality(Candidates) \in Nat
      BY <1>2, <2>1, RaisedFinite DEF Candidates
    <3>2. Cardinality(Candidates \cup {n}) = Cardinality(Candidates) + 1
      BY <3>1, FS_AddElement
    <3>3. QED
      BY <1>2, <2>1, <2>2, <3>1, <3>2
  <2>4. PlainTypes'
    BY <1>1, <2>1, <2>3 DEF TInv, PlainTypes
  <2>5. TermsBounded'
    BY <1>1, <1>2, <2>1, <2>2 DEF TermsBounded
  <2>6. QED
    BY <2>4, <2>5 DEF TInv
<1>4. CASE HeartBeatTimeOut(n)
  <2>1. /\ timer' = [timer EXCEPT ![n] = "standing"] /\ timer[n] = "running"
        /\ UNCHANGED <<term, read>>
    BY <1>4 DEF HeartBeatTimeOut
  <2>2. Candidates' = Candidates /\ Raised' = Raised
    <3>1. timer'[n] = "standing" /\ \A m \in Nodes \ {n} : timer'[m] = timer[m]
      BY <1>2, <2>1
    <3>2. Candidates' = Candidates \cup {n} /\ Raised' = Raised
      BY <2>1, <3>1, ThreadMoves
    <3>3. n \in Candidates
      BY <2>1 DEF Candidates
    <3>4. QED
      BY <3>2, <3>3
  <2>3. PlainTypes'
    BY <1>1, <2>1, <2>2 DEF TInv, PlainTypes
  <2>4. TermsBounded'
    BY <1>1, <1>2, <2>1, <2>2 DEF TermsBounded
  <2>5. QED
    BY <2>3, <2>4 DEF TInv
<1>5. CASE ReadTerm(n)
  <2>1. /\ timer' = [timer EXCEPT ![n] = "incrementing"] /\ timer[n] = "standing"
        /\ term' = term /\ read' = [read EXCEPT ![n] = term[n]]
    BY <1>5 DEF ReadTerm
  <2>2. Candidates' = Candidates /\ Raised' = Raised
    <3>1. timer'[n] = "incrementing" /\ \A m \in Nodes \ {n} : timer'[m] = timer[m]
      BY <1>2, <2>1
    <3>2. Candidates' = Candidates \cup {n} /\ Raised' = Raised
      BY <2>1, <3>1, ThreadMoves
    <3>3. n \in Candidates
      BY <2>1 DEF Candidates
    <3>4. QED
      BY <3>2, <3>3
  <2>3. PlainTypes'
    BY <1>1, <2>1, <2>2 DEF TInv, PlainTypes
  <2>4. \A k \in Nodes : read'[k] \in {read[k], term[k]}
    BY <2>1
  <2>5. TermsBounded'
    BY <1>1, <1>2, <2>1, <2>2, <2>4 DEF TermsBounded
  <2>6. QED
    BY <2>3, <2>5 DEF TInv
<1>6. CASE WriteTerm(n)
  <2>1. /\ timer' = [timer EXCEPT ![n] = "incremented"] /\ timer[n] = "incrementing"
        /\ term' = [term EXCEPT ![n] = read[n] + 1]
        /\ read' = [read EXCEPT ![n] = 0]
    BY <1>6 DEF WriteTerm, Incremented
  <2>2. /\ Candidates' = Candidates /\ Raised' = Raised \cup {n} /\ n \notin Raised
    <3>1. timer'[n] = "incremented" /\ \A m \in Nodes \ {n} : timer'[m] = timer[m]
      BY <1>2, <2>1
    <3>2. Candidates' = Candidates \cup {n} /\ Raised' = Raised \cup {n}
      BY <2>1, <3>1, ThreadMoves
    <3>3. n \in Candidates /\ n \notin Raised
      BY <2>1 DEF Candidates, Raised
    <3>4. QED
      BY <3>2, <3>3
  <2>3. Cardinality(Raised') = Cardinality(Raised) + 1 /\ Cardinality(Raised) \in Nat
    BY <1>2, <2>2, RaisedFinite, FS_AddElement
  <2>4. PlainTypes'
    BY <1>1, <2>1, <2>2 DEF TInv, PlainTypes
  <2>5. \A k \in Nodes : term'[k] \in {term[k], read[k] + 1} /\ read'[k] \in {read[k], 0}
    BY <2>1
  <2>6. TermsBounded'
    BY <1>1, <1>2, <2>3, <2>5 DEF TermsBounded
  <2>7. QED
    BY <2>4, <2>6 DEF TInv
<1>7. QED
  BY <1>3, <1>4, <1>5, <1>6

\* A candidate asks for votes in the term it has.
LEMMA SendStartVoteTInv ==
  ASSUME TInv, NEW n \in Nodes, SendStartVote(n)
  PROVE  TInv'
<1> DEFINE posts == {[type |-> "StartVote", from |-> n, to |-> m, term |-> term[n]] :
                       m \in Scope(n) \ {n}}
<1>1. /\ timer[n] = "incremented" /\ timer' = [timer EXCEPT ![n] = "ended"]
      /\ sent' = sent \cup posts
      /\ UNCHANGED <<role, term, read, voted, answering, yielding, count, handled,
                     registered, announced>>
  BY DEF SendStartVote, mainVars, seedVars
<1>2. PlainTypes /\ TermsBounded /\ term[n] \in Nat
  BY DEF TInv, TermsBounded
<1>3. \A m \in posts :
        /\ m.term = term[n]
        /\ m \in [type : {"StartVote", "ConfirmStartVote"}, from : Nodes, to : Nodes,
                  term : Nat]
  BY <1>2 DEF Scope
<1> HIDE DEF posts
<1>4. Candidates' = Candidates /\ Raised' = Raised
  <2>1. timer'[n] = "ended" /\ \A m \in Nodes \ {n} : timer'[m] = timer[m]
    BY <1>1, <1>2 DEF PlainTypes
  <2>2. Candidates' = Candidates \cup {n} /\ Raised' = Raised \cup {n}
    BY <1>1, <2>1, ThreadMoves
  <2>3. n \in Candidates /\ n \in Raised
    BY <1>1 DEF Candidates, Raised
  <2>4. QED
    BY <2>2, <2>3
<1>5. timer' \in [Nodes -> {"idle", "running", "standing", "incrementing",
                           "incremented", "ended"}]
  BY <1>1, <1>2 DEF PlainTypes
<1>6. handled' \subseteq sent' /\ \A m \in sent' : m \in sent \/ m \in posts
  BY <1>1, <1>2 DEF PlainTypes
<1>7. PlainTypes'
  BY <1>1, <1>2, <1>3, <1>4, <1>5, <1>6 DEF PlainTypes
<1>8. TermsBounded'
  BY <1>1, <1>2, <1>3, <1>4, <1>6 DEF TermsBounded
<1>9. QED
  BY <1>7, <1>8 DEF TInv

\* A term is taken over from a message.
LEMMA RespondStartVoteTInv ==
  ASSUME TInv, NEW n \in Nodes, NEW m \in InFlight, RespondStartVote(n, m)
  PROVE  TInv'
<1>1. /\ handled' = handled \cup {m} /\ m \in sent
      /\ \/ UNCHANGED <<term, voted, answering>>
         \/ /\ term' = [term EXCEPT ![n] = m.term]
            /\ voted' = [voted EXCEPT ![n] = [id |-> {m.from}, term |-> m.term]]
            /\ answering' = [answering EXCEPT ![n] = {m.from}]
      /\ UNCHANGED <<role, yielding, timer, read, count, sent, registered, announced>>
  BY DEF RespondStartVote, InFlight, FollowedTerm, timeOutVars, countVars, seedVars
<1>2. /\ PlainTypes /\ TermsBounded
      /\ m.from \in Nodes /\ m.term \in 0..Cardinality(Raised) /\ m.term \in Nat
  BY <1>1 DEF TInv, PlainTypes, TermsBounded
<1>3. Candidates' = Candidates /\ Raised' = Raised
  BY <1>1 DEF Candidates, Raised
<1>4. /\ voted' \in [Nodes -> [id : SUBSET Nodes, term : Nat]]
      /\ answering' \in [Nodes -> SUBSET Nodes]
      /\ \A k \in Nodes : term'[k] \in {term[k], m.term}
                          /\ voted'[k].term \in {voted[k].term, m.term}
  <2>1. CASE UNCHANGED <<term, voted, answering>>
    BY <1>2, <2>1 DEF PlainTypes
  <2>2. CASE /\ term' = [term EXCEPT ![n] = m.term]
             /\ voted' = [voted EXCEPT ![n] = [id |-> {m.from}, term |-> m.term]]
             /\ answering' = [answering EXCEPT ![n] = {m.from}]
    BY <1>2, <2>2 DEF PlainTypes
  <2>3. QED
    BY <1>1, <2>1, <2>2
<1>5. PlainTypes'
  BY <1>1, <1>2, <1>3, <1>4 DEF PlainTypes
<1>6. TermsBounded'
  BY <1>1, <1>2, <1>3, <1>4 DEF TermsBounded
<1>7. QED
  BY <1>5, <1>6 DEF TInv

\* A vote carries the voter's term.
LEMMA SendConfirmTInv ==
  ASSUME TInv, NEW n \in Nodes, SendConfirm(n)
  PROVE  TInv'
<1>1. PICK c \in answering[n] :
        /\ sent' = sent \cup {[type |-> "ConfirmStartVote", from |-> n, to |-> c,
                               term |-> term[n]]}
        /\ answering' = [answering EXCEPT ![n] = {}]
        /\ UNCHANGED <<role, term, read, voted, yielding, timer, count, handled,
                       registered, announced>>
  BY DEF SendConfirm, timeOutVars, countVars, seedVars
<1> DEFINE post == [type |-> "ConfirmStartVote", from |-> n, to |-> c, term |-> term[n]]
<1>2. PlainTypes /\ TermsBounded /\ c \in Nodes /\ term[n] \in Nat
  BY DEF TInv, PlainTypes, TermsBounded
<1>3. /\ post \in [type : {"StartVote", "ConfirmStartVote"}, from : Nodes, to : Nodes,
                   term : Nat]
      /\ post.term = term[n] /\ sent' = sent \cup {post}
  BY <1>1, <1>2
<1> HIDE DEF post
<1>4. Candidates' = Candidates /\ Raised' = Raised
  BY <1>1 DEF Candidates, Raised
<1>5. PlainTypes'
  BY <1>1, <1>2, <1>3, <1>4 DEF PlainTypes
<1>6. TermsBounded'
  BY <1>1, <1>2, <1>3, <1>4 DEF TermsBounded
<1>7. QED
  BY <1>5, <1>6 DEF TInv

\* The counting thread makes no term.
LEMMA CheckTInv ==
  ASSUME TInv, CInv, NEW n \in Nodes, CheckConfirmStartVote(n)
  PROVE  TInv'
<1>1. UNCHANGED <<timer, term, read, voted, sent, answering, yielding, handled,
                  registered, announced>>
  BY CheckerLeaves
<1>2. role' \in [Nodes -> {"intraFollower", "intraCandidate", "intraLeader"}]
  BY DEF CheckConfirmStartVote, TakeVote, CheckVote, CheckCount, ClearCount, AddVote,
         BecomeIntraLeader, TInv, PlainTypes
<1>3. \A k \in Nodes : count'[k].term = count[k].term \/ count'[k].term = term[k]
  <2>1. \/ count' = count
        \/ count' = [count EXCEPT ![n] = [count |-> 0, term |-> term[n]]]
        \/ count' = [count EXCEPT ![n].count = @ + 1]
    BY DEF CheckConfirmStartVote, TakeVote, CheckVote, CheckCount, ClearCount, AddVote,
           BecomeIntraLeader
  <2>2. count \in [Nodes -> [count : Nat, term : Nat]]
    BY DEF CInv, CountTypes
  <2>3. QED
    BY <2>1, <2>2
<1>4. QED
  BY <1>1, <1>2, <1>3, QuietTInv DEF TInv, PlainTypes

\* The heartbeats, the checker's start and the seed node make no term.
LEMMA OtherTInv ==
  ASSUME TInv,
         \E n \in Nodes : \/ \E m \in InFlight : HandleConfirm(n, m)
                         \/ StartChecker(n)
                         \/ \E l \in Nodes : HandleHeartBeat(n, l)
                         \/ BecomeFollower(n)
                         \/ HandleRegistration(n)
  PROVE  TInv'
<1>1. PICK n \in Nodes : \/ \E m \in InFlight : HandleConfirm(n, m)
                         \/ StartChecker(n)
                         \/ \E l \in Nodes : HandleHeartBeat(n, l)
                         \/ BecomeFollower(n)
                         \/ HandleRegistration(n)
  OBVIOUS
<1>2. UNCHANGED <<timer, term, read, voted, sent, answering, count>>
  BY <1>1 DEF HandleConfirm, StartChecker, HandleHeartBeat, BecomeFollower,
              HandleRegistration, mainVars, timeOutVars, countVars, netVars
<1>3. PlainTypes
  BY DEF TInv
<1>4. /\ role' \in [Nodes -> {"intraFollower", "intraCandidate", "intraLeader"}]
      /\ yielding' \subseteq Nodes
  BY <1>1, <1>3 DEF HandleConfirm, StartChecker, HandleHeartBeat, BecomeFollower,
                    HandleRegistration, mainVars, PlainTypes
<1>5. handled' \subseteq sent
  BY <1>1, <1>3 DEF HandleConfirm, StartChecker, HandleHeartBeat, BecomeFollower,
                    HandleRegistration, netVars, InFlight, PlainTypes
<1>6. registered' \subseteq Nodes /\ announced' \in BOOLEAN
  BY <1>1, <1>3 DEF HandleConfirm, StartChecker, HandleHeartBeat, BecomeFollower,
                    HandleRegistration, seedVars, PlainTypes
<1>7. QED
  BY <1>2, <1>4, <1>5, <1>6, QuietTInv

\* Every step of every thread keeps the types and the bound on the terms.
LEMMA NextTInv == TInv /\ CInv /\ [Next]_vars => TInv'
<1>1. SUFFICES ASSUME TInv, CInv, [Next]_vars PROVE TInv'
  OBVIOUS
<1>2. CASE UNCHANGED vars
  <2>1. Candidates' = Candidates /\ Raised' = Raised
    BY <1>2 DEF vars, Candidates, Raised
  <2>2. QED
    BY <1>1, <1>2, <2>1 DEF vars, TInv, PlainTypes, TermsBounded
<1>3. CASE Next
  <2>1. PICK n \in Nodes : \/ TimeOutThread(n) \/ MainLoop(n)
                           \/ CheckConfirmStartVote(n) \/ HandleRegistration(n)
    BY <1>3 DEF Next
  <2>2. CASE TimeOutThread(n)
    BY <1>1, <2>2, TimeOutTInv, SendStartVoteTInv DEF TimeOutThread
  <2>3. CASE MainLoop(n)
    BY <1>1, <2>3, TimeOutTInv, RespondStartVoteTInv, SendConfirmTInv, OtherTInv
       DEF MainLoop
  <2>4. CASE CheckConfirmStartVote(n) \/ HandleRegistration(n)
    BY <1>1, <2>4, CheckTInv, OtherTInv
  <2>5. QED
    BY <2>1, <2>2, <2>3, <2>4
<1>4. QED
  BY <1>1, <1>2, <1>3

\* Terms, counters, messages and threads keep their types: no interleaving of the
\* two threads that write a term makes more terms than there are candidates, and
\* no counter passes the number of nodes (Node.go, NodeMethod.go).
THEOREM TypeCorrect == Spec => []TypeOK
<1>1. IInv /\ CInv /\ TInv => TypeOK
  <2>1. SUFFICES ASSUME IInv, CInv, TInv PROVE TypeOK
    OBVIOUS
  <2>2. Cardinality(Raised) \in Nat /\ Cardinality(Raised) <= MaxCandidates
        /\ MaxCandidates \in Nat
    BY <2>1, RaisedFinite, RaftAssumption DEF TInv
  <2>3. \A k \in 0..Cardinality(Raised) : k \in Terms
    BY <2>2 DEF Terms
  <2>4. term \in [Nodes -> Terms] /\ read \in [Nodes -> Terms]
    BY <2>1, <2>3 DEF TInv, TermsBounded, IInv, Types
  <2>5. voted \in [Nodes -> [id : SUBSET Nodes, term : Terms]]
    BY <2>1, <2>3 DEF TInv, TermsBounded, IInv, Types
  <2>6. count \in [Nodes -> [count : 0..Cardinality(Nodes), term : Terms]]
    <3>1. IsFiniteSet(Nodes) /\ Cardinality(Nodes) \in Nat
      BY RaftAssumption, FS_CardinalityType
    <3>2. \A c \in Nodes : Cardinality(Counted(c)) \in Nat
                           /\ Cardinality(Counted(c)) <= Cardinality(Nodes)
      BY <3>1, FS_Subset, FS_CardinalityType DEF Counted
    <3>3. \A c \in Nodes : count[c] \in [count : Nat, term : Nat]
                           /\ count[c].count <= Cardinality(Counted(c))
                           /\ count[c].term \in Terms
      BY <2>1, <2>3 DEF TInv, TermsBounded, CInv, CountTypes, CountIsBacked
    <3>4. \A c \in Nodes : count[c] \in [count : 0..Cardinality(Nodes), term : Terms]
      BY <3>1, <3>2, <3>3
    <3>5. QED
      BY <2>1, <3>4 DEF CInv, CountTypes
  <2>7. sent \subseteq Messages
    BY <2>1, <2>3 DEF TInv, PlainTypes, TermsBounded, Messages
  <2>8. /\ votes \in [Nodes -> SUBSET Messages] /\ counting \in [Nodes -> SUBSET Messages]
        /\ checker \in [Nodes -> CheckerStates]
    BY <2>1, <2>7 DEF CInv, CountTypes
  <2>9. QED
    BY <2>1, <2>4, <2>5, <2>6, <2>7, <2>8 DEF TypeOK, TInv, PlainTypes, CheckerStates
<1>2. TInv /\ CInv /\ [Next]_vars => TInv'
  BY NextTInv
<1>3. QED
  BY <1>1, <1>2, InitTInv, Invariance, CountInvariance, PTL DEF Spec

-----------------------------------------------------------------------------
\* Votes are asked of, and given by, the others of a candidate's scope.
VotersElect ==
  /\ \A m \in sent : m.type = "StartVote" => m.to \in Scope(m.from) \ {m.from}
  /\ \A v, c \in Nodes : HasVotedFor(v, c) => v \in Scope(c) \ {c}

\* Steps that send nothing and accept nobody.
LEMMA QuietVoters ==
  ASSUME VotersElect, UNCHANGED <<sent, answering>>
  PROVE  VotersElect'
BY DEF VotersElect, HasVotedFor, Supporters, Scope

\* A candidate asks its scope, and the asked vote for the one that asks them.
LEMMA NextVoters == IInv /\ VotersElect /\ [Next]_vars => VotersElect'
<1>1. SUFFICES ASSUME IInv, VotersElect, [Next]_vars PROVE VotersElect'
  OBVIOUS
<1>2. CASE UNCHANGED vars
  BY <1>1, <1>2, QuietVoters DEF vars
<1>3. ASSUME NEW n \in Nodes, SendStartVote(n) PROVE VotersElect'
  <2> DEFINE posts == {[type |-> "StartVote", from |-> n, to |-> m, term |-> term[n]] :
                         m \in Scope(n) \ {n}}
  <2>1. sent' = sent \cup posts /\ answering' = answering
    BY <1>3 DEF SendStartVote, mainVars
  <2>2. \A m \in posts : m.type = "StartVote" /\ m.from = n /\ m.to \in Scope(n) \ {n}
    OBVIOUS
  <2> HIDE DEF posts
  <2>3. \A v, c : HasVotedFor(v, c)' <=> HasVotedFor(v, c)
    BY <2>1, <2>2 DEF HasVotedFor, Supporters
  <2>4. \A c : Scope(c)' = Scope(c)
    BY DEF Scope
  <2>5. QED
    BY <1>1, <2>1, <2>2, <2>3, <2>4 DEF VotersElect
<1>4. ASSUME NEW n \in Nodes, NEW m \in InFlight, RespondStartVote(n, m) PROVE VotersElect'
  <2>1. /\ m \in sent /\ m.type = "StartVote" /\ m.to = n /\ sent' = sent
        /\ answering' = answering \/ answering' = [answering EXCEPT ![n] = {m.from}]
    BY <1>4 DEF RespondStartVote, InFlight
  <2>2. n \in Scope(m.from) \ {m.from}
    BY <1>1, <2>1 DEF VotersElect
  <2>3. \A v, c \in Nodes : HasVotedFor(v, c)' => HasVotedFor(v, c) \/ (v = n /\ c = m.from)
    BY <1>1, <2>1 DEF HasVotedFor, Supporters, IInv, Types
  <2>4. QED
    BY <1>1, <2>1, <2>2, <2>3 DEF VotersElect, Scope
<1>5. ASSUME NEW n \in Nodes, SendConfirm(n) PROVE VotersElect'
  <2>1. PICK c \in answering[n] :
          /\ sent' = sent \cup {[type |-> "ConfirmStartVote", from |-> n, to |-> c,
                                 term |-> term[n]]}
          /\ answering' = [answering EXCEPT ![n] = {}]
    BY <1>5 DEF SendConfirm
  <2>2. \A v, x \in Nodes : HasVotedFor(v, x)' => HasVotedFor(v, x)
    BY <1>1, <2>1 DEF HasVotedFor, Supporters, IInv, Types
  <2>3. QED
    BY <1>1, <2>1, <2>2 DEF VotersElect, Scope
<1>6. CASE Next
  <2>1. PICK n \in Nodes : \/ TimeOutThread(n) \/ MainLoop(n)
                           \/ CheckConfirmStartVote(n) \/ HandleRegistration(n)
    BY <1>6 DEF Next
  <2>2. CASE TimeOutThread(n)
    <3>1. CASE HeartBeatTimeOut(n) \/ ReadTerm(n) \/ WriteTerm(n)
      BY <1>1, <3>1, QuietVoters DEF HeartBeatTimeOut, ReadTerm, WriteTerm, mainVars, netVars
    <3>2. QED
      BY <1>3, <2>2, <3>1 DEF TimeOutThread
  <2>3. CASE MainLoop(n)
    <3>1. CASE HandleStart(n) \/ StartChecker(n)
      BY <1>1, <3>1, QuietVoters DEF HandleStart, StartChecker, mainVars, netVars
    <3>2. ASSUME NEW m \in InFlight, HandleConfirm(n, m) PROVE VotersElect'
      BY <1>1, <3>2, QuietVoters DEF HandleConfirm, mainVars
    <3>3. ASSUME NEW l \in Nodes, HandleHeartBeat(n, l) PROVE VotersElect'
      BY <1>1, <3>3, QuietVoters DEF HandleHeartBeat, netVars
    <3>4. CASE BecomeFollower(n)
      BY <1>1, <3>4, QuietVoters DEF BecomeFollower, netVars
    <3>5. QED
      BY <1>4, <1>5, <2>3, <3>1, <3>2, <3>3, <3>4 DEF MainLoop
  <2>4. CASE CheckConfirmStartVote(n) \/ HandleRegistration(n)
    BY <1>1, <2>4, CheckerLeaves, QuietVoters DEF HandleRegistration, mainVars, netVars
  <2>5. QED
    BY <2>1, <2>2, <2>3, <2>4
<1>7. QED
  BY <1>1, <1>2, <1>6

\* Two leaders of one term and scope would need, with themselves, more than all
\* of it, unless one of them has voted for the other (NodeMethod.go,
\* HeartBeatTimeOut and RespondStartVote).
THEOREM TwoLeaders ==
  ASSUME HalfNeeded
  PROVE  Spec => []TwoLeadersOnlyByRace
<1>1. OneVotePerTerm /\ ElectedByHalf /\ VotersElect => TwoLeadersOnlyByRace
  <2>1. SUFFICES ASSUME OneVotePerTerm, ElectedByHalf, VotersElect,
                        NEW a \in Leaders, NEW b \in Leaders,
                        a # b, Scope(a) = Scope(b), ElectionTerm(a) = ElectionTerm(b),
                        a \notin Supporters(b), b \notin Supporters(a)
                 PROVE  FALSE
    BY DEF TwoLeadersOnlyByRace
  <2> DEFINE S == Scope(a)
             A == Supporters(a) \cup {a}
             B == Supporters(b) \cup {b}
  <2>2. a \in Nodes /\ b \in Nodes /\ a \in S /\ b \in S
    BY <2>1 DEF Leaders, Scope
  <2>3. /\ Supporters(a) \subseteq S /\ Supporters(b) \subseteq S
        /\ a \notin Supporters(a) /\ b \notin Supporters(b)
    BY <2>1, <2>2 DEF VotersElect, HasVotedFor, Supporters
  <2>4. Supporters(a) \cap Supporters(b) = {}
    BY <2>1, <2>2 DEF OneVotePerTerm, VotesOf, Supporters
  <2>5. /\ IsFiniteSet(S) /\ Cardinality(S) \in Nat
        /\ IsFiniteSet(Supporters(a)) /\ Cardinality(Supporters(a)) \in Nat
        /\ IsFiniteSet(Supporters(b)) /\ Cardinality(Supporters(b)) \in Nat
    BY <2>2, Q1IsHalf, VotersFinite
  <2>6. /\ Cardinality(Supporters(a)) >= Cardinality(S) \div 2
        /\ Cardinality(Supporters(b)) >= Cardinality(S) \div 2
    BY <2>1 DEF ElectedByHalf
  <2>7. /\ IsFiniteSet(A) /\ Cardinality(A) = Cardinality(Supporters(a)) + 1
        /\ IsFiniteSet(B) /\ Cardinality(B) = Cardinality(Supporters(b)) + 1
    BY <2>3, <2>5, FS_AddElement
  <2>8. A \cap B = {} /\ A \cup B \subseteq S
    BY <2>1, <2>2, <2>3, <2>4
  <2> HIDE DEF S, A, B
  <2>9. Cardinality(A \cup B) = Cardinality(A) + Cardinality(B)
    <3>1. Cardinality(A \cup B) = Cardinality(A) + Cardinality(B) - Cardinality(A \cap B)
      BY <2>7, FS_Union
    <3>2. Cardinality(A \cap B) = 0
      BY <2>8, FS_EmptySet
    <3>3. QED
      BY <2>5, <2>7, <3>1, <3>2
  <2>10. Cardinality(A \cup B) <= Cardinality(S)
    BY <2>5, <2>8, FS_Subset
  <2>11. QED
    BY <2>5, <2>6, <2>7, <2>9, <2>10
<1>2. Init => VotersElect
  BY DEF Init, VotersElect, HasVotedFor, Supporters
<1>3. QED
  BY <1>1, <1>2, NextVoters, Invariance, VotesOnce, HalfElects, PTL DEF Spec

-----------------------------------------------------------------------------
\* Past the write of its term by the time-out thread, only a vote moves the term
\* of a node.
Past(n) == timer[n] \in {"incremented", "ended"}

\* A node that does not stand is in the term it voted in last, or later.
TermFollowsVote ==
  \A n \in Nodes : ~Past(n) => term[n] >= voted[n].term

\* A candidate that waits for the answer has asked in the term of the last vote.
AnswersAsked ==
  \A n, c \in Nodes : c \in answering[n] =>
    \A k \in StartVotes(c) : k.term = voted[n].term

\* Once a vote of a node is lost, the term of the node follows its votes again.
LostIsPast ==
  \A m \in sent : Lost(m) =>
    /\ Past(m.from)
    /\ answering[m.from] # {} => term[m.from] >= voted[m.from].term

LostIsOne ==
  \A m1, m2 \in sent : (Lost(m1) /\ Lost(m2) /\ m1.from = m2.from) => m1 = m2

\* A node loses one vote.
LInv == TermFollowsVote /\ AnswersAsked /\ LostIsPast /\ LostIsOne

\* No vote before the start.
LEMMA InitLInv == Init => LInv
BY DEF Init, LInv, TermFollowsVote, AnswersAsked, LostIsPast, LostIsOne

\* Steps that ask for no votes, give none and make no term.
LEMMA QuietLInv ==
  ASSUME LInv, UNCHANGED <<term, voted, answering, sent>>,
         \A n \in Nodes : ~Past(n)' => ~Past(n),
         \A m \in sent : m.from \in Nodes
  PROVE  LInv'
<1>1. \A c : StartVotes(c)' = StartVotes(c) /\ ElectionTerm(c)' = ElectionTerm(c)
  BY DEF StartVotes, ElectionTerm
<1>2. \A m : Lost(m)' <=> Lost(m)
  BY <1>1 DEF Lost
<1>3. TermFollowsVote' /\ AnswersAsked'
  BY <1>1 DEF LInv, TermFollowsVote, AnswersAsked
<1>4. LostIsPast' /\ LostIsOne'
  BY <1>2 DEF LInv, LostIsPast, LostIsOne
<1>5. QED
  BY <1>3, <1>4 DEF LInv

\* A vote is for a candidate that has asked for it.
LEMMA VoteIsAsked ==
  ASSUME IInv, TInv, NEW m \in sent, m.type = "ConfirmStartVote"
  PROVE  m.from \in Nodes /\ m.to \in Nodes /\ StartVotes(m.to) # {}
<1>1. m.from \in Nodes /\ m.to \in Nodes
  BY DEF TInv, PlainTypes
<1>2. HasVotedFor(m.from, m.to)
  BY <1>1 DEF HasVotedFor, Supporters
<1>3. QED
  BY <1>1, <1>2 DEF IInv, VotesAreAsked

\* The time-out thread writes its term once, before a vote of the node is lost.
LEMMA TimeOutLInv ==
  ASSUME IInv, LInv, NEW n \in Nodes,
         HandleStart(n) \/ HeartBeatTimeOut(n) \/ ReadTerm(n) \/ WriteTerm(n)
  PROVE  LInv'
<1>1. /\ ~Past(n) /\ UNCHANGED <<voted, answering, sent>>
      /\ \E t : timer' = [timer EXCEPT ![n] = t]
  BY DEF HandleStart, HeartBeatTimeOut, ReadTerm, WriteTerm, Past, mainVars, netVars
<1>2. \A c \in Nodes : ~Past(c)' => ~Past(c)
  BY <1>1 DEF Past, IInv, Types
<1>3. \A m \in sent : m.from \in Nodes
  BY DEF IInv, Types
<1>4. CASE ~WriteTerm(n)
  <2>1. term' = term
    BY <1>4 DEF HandleStart, HeartBeatTimeOut, ReadTerm
  <2>2. QED
    BY <1>1, <1>2, <1>3, <2>1, QuietLInv
<1>5. CASE WriteTerm(n)
  <2>1. /\ Past(n)' /\ \A c \in Nodes : c # n => term'[c] = term[c]
    BY <1>5 DEF WriteTerm, Past, IInv, Types
  <2>2. \A c : StartVotes(c)' = StartVotes(c) /\ ElectionTerm(c)' = ElectionTerm(c)
    BY <1>1 DEF StartVotes, ElectionTerm
  <2>3. \A m : Lost(m)' <=> Lost(m)
    BY <2>2 DEF Lost
  <2>4. \A m \in sent : Lost(m) => m.from # n
    BY <1>1 DEF LInv, LostIsPast
  <2>5. TermFollowsVote' /\ AnswersAsked'
    BY <1>1, <1>2, <2>1, <2>2 DEF LInv, TermFollowsVote, AnswersAsked
  <2>6. \A c \in Nodes : Past(c) => Past(c)'
    BY <1>1, <2>1 DEF Past, IInv, Types
  <2>7. LostIsPast' /\ LostIsOne'
    BY <1>1, <1>3, <2>1, <2>3, <2>4, <2>6 DEF LInv, LostIsPast, LostIsOne
  <2>8. QED
    BY <2>5, <2>7 DEF LInv
<1>6. QED
  BY <1>4, <1>5

\* A candidate asks for votes: none has been given to it.
LEMMA SendStartVoteLInv ==
  ASSUME IInv, TInv, LInv, NEW n \in Nodes, SendStartVote(n)
  PROVE  LInv'
<1> DEFINE posts == {[type |-> "StartVote", from |-> n, to |-> m, term |-> term[n]] :
                       m \in Scope(n) \ {n}}
<1>1. /\ timer[n] = "incremented" /\ timer' = [timer EXCEPT ![n] = "ended"]
      /\ sent' = sent \cup posts
      /\ UNCHANGED <<term, voted, answering>>
  BY DEF SendStartVote, mainVars
<1>2. \A m \in posts : m.type = "StartVote" /\ m.from = n
  OBVIOUS
<1> HIDE DEF posts
<1>3. StartVotes(n) = {}
  BY <1>1 DEF IInv, StandsOnce
<1>4. \A c : c # n => StartVotes(c)' = StartVotes(c) /\ ElectionTerm(c)' = ElectionTerm(c)
  BY <1>1, <1>2 DEF StartVotes, ElectionTerm
<1>5. \A m \in sent' : Lost(m)' => m \in sent /\ Lost(m)
  <2>1. SUFFICES ASSUME NEW m \in sent', Lost(m)' PROVE m \in sent /\ Lost(m)
    OBVIOUS
  <2>2. m \in sent /\ m.type = "ConfirmStartVote"
    BY <1>1, <1>2, <2>1 DEF Lost
  <2>3. m.to # n
    BY <1>3, <2>2, VoteIsAsked
  <2>4. QED
    BY <1>4, <2>1, <2>2, <2>3 DEF Lost
<1>6. \A c \in Nodes : ~HasVotedFor(c, n)
  BY <1>3 DEF IInv, VotesAreAsked
<1>7. \A c \in Nodes : Past(c)' <=> Past(c)
  BY <1>1 DEF Past, IInv, Types
<1>8. TermFollowsVote'
  BY <1>1, <1>7 DEF LInv, TermFollowsVote
<1>9. AnswersAsked'
  BY <1>1, <1>4, <1>6 DEF LInv, AnswersAsked, HasVotedFor
<1>10. LostIsPast' /\ LostIsOne'
  <2>1. \A m \in sent : m.from \in Nodes
    BY DEF IInv, Types
  <2>2. QED
    BY <1>1, <1>5, <1>7, <2>1 DEF LInv, LostIsPast, LostIsOne
<1>11. QED
  BY <1>8, <1>9, <1>10 DEF LInv

\* A node that accepts a candidate is in the term of its last vote.
LEMMA RespondStartVoteLInv ==
  ASSUME IInv, LInv, NEW n \in Nodes, NEW m \in InFlight, RespondStartVote(n, m)
  PROVE  LInv'
<1>1. /\ m \in sent /\ m.type = "StartVote" /\ m.from \in Nodes /\ m.term \in Nat
      /\ UNCHANGED <<sent, timer>>
  BY DEF RespondStartVote, InFlight, timeOutVars, IInv, Types
<1>2. \A c \in Nodes : Past(c)' <=> Past(c)
  BY <1>1 DEF Past
<1>3. \A k \in sent : k.from \in Nodes
  BY DEF IInv, Types
<1>4. CASE ~Grants(n, m)
  <2>1. UNCHANGED <<term, voted, answering>>
    BY <1>4 DEF RespondStartVote
  <2>2. QED
    BY <1>1, <1>2, <1>3, <2>1, QuietLInv
<1>5. CASE Grants(n, m)
  <2>1. /\ term'[n] = m.term /\ voted'[n].term = m.term /\ answering'[n] = {m.from}
        /\ \A c \in Nodes : c # n => /\ term'[c] = term[c] /\ voted'[c] = voted[c]
                                     /\ answering'[c] = answering[c]
    BY <1>5 DEF RespondStartVote, FollowedTerm, IInv, Types
  <2>2. \A c : StartVotes(c)' = StartVotes(c) /\ ElectionTerm(c)' = ElectionTerm(c)
    BY <1>1 DEF StartVotes, ElectionTerm
  <2>3. \A k : Lost(k)' <=> Lost(k)
    BY <2>2 DEF Lost
  <2>4. \A k \in StartVotes(m.from) : k.term = m.term
    <3>1. m \in StartVotes(m.from)
      BY <1>1 DEF StartVotes
    <3>2. QED
      BY <1>1, <3>1 DEF IInv, StandsOnce
  <2>5. \A c \in Nodes : term'[c] >= voted'[c].term
                         \/ (term'[c] = term[c] /\ voted'[c] = voted[c] /\
                             answering'[c] = answering[c])
    BY <1>1, <2>1
  <2>6. TermFollowsVote'
    BY <1>2, <2>5 DEF LInv, TermFollowsVote
  <2>7. AnswersAsked'
    BY <2>1, <2>2, <2>4 DEF LInv, AnswersAsked
  <2>8. LostIsPast' /\ LostIsOne'
    BY <1>1, <1>2, <1>3, <2>3, <2>5 DEF LInv, LostIsPast, LostIsOne
  <2>9. QED
    BY <2>6, <2>7, <2>8 DEF LInv
<1>6. QED
  BY <1>4, <1>5

\* A vote is sent: it is lost if the term of the node is behind its last vote.
LEMMA SendConfirmLInv ==
  ASSUME IInv, LInv, NEW n \in Nodes, SendConfirm(n)
  PROVE  LInv'
<1>1. PICK c \in answering[n] :
        /\ sent' = sent \cup {[type |-> "ConfirmStartVote", from |-> n, to |-> c,
                               term |-> term[n]]}
        /\ answering' = [answering EXCEPT ![n] = {}]
        /\ UNCHANGED <<term, voted, timer>>
  BY DEF SendConfirm, timeOutVars
<1> DEFINE post == [type |-> "ConfirmStartVote", from |-> n, to |-> c, term |-> term[n]]
<1>2. /\ post.type = "ConfirmStartVote" /\ post.from = n /\ post.to = c
      /\ post.term = term[n] /\ sent' = sent \cup {post} /\ c \in Nodes
  BY <1>1 DEF IInv, Types
<1> HIDE DEF post
<1>3. \A x : StartVotes(x)' = StartVotes(x) /\ ElectionTerm(x)' = ElectionTerm(x)
  BY <1>2 DEF StartVotes, ElectionTerm
<1>4. \A k : Lost(k)' <=> Lost(k)
  BY <1>3 DEF Lost
<1>5. Lost(post) => ~(term[n] >= voted[n].term)
  <2>1. SUFFICES ASSUME Lost(post) PROVE ~(term[n] >= voted[n].term)
    OBVIOUS
  <2>2. PICK k \in StartVotes(c) : term[n] < k.term
    BY <1>2, <2>1 DEF Lost, ElectionTerm, StartVotes
  <2>3. k.term = voted[n].term /\ term[n] \in Nat /\ voted[n].term \in Nat
    BY <1>1, <1>2 DEF LInv, AnswersAsked, IInv, Types
  <2>4. QED
    BY <2>2, <2>3
<1>6. Lost(post) => Past(n) /\ \A k \in sent : Lost(k) => k.from # n
  BY <1>1, <1>5 DEF LInv, TermFollowsVote, LostIsPast
<1>7. /\ \A x : Past(x)' <=> Past(x)
      /\ \A k \in sent : k.from \in Nodes
  BY <1>1 DEF Past, IInv, Types
<1>8. /\ answering'[n] = {}
      /\ \A x \in Nodes : answering'[x] \subseteq answering[x]
  BY <1>1 DEF IInv, Types
<1>9. TermFollowsVote' /\ AnswersAsked'
  BY <1>1, <1>3, <1>7, <1>8 DEF LInv, TermFollowsVote, AnswersAsked
<1>10. LostIsPast'
  <2>1. SUFFICES ASSUME NEW k \in sent', Lost(k)
                 PROVE  /\ Past(k.from)'
                        /\ answering'[k.from] # {} => term'[k.from] >= voted'[k.from].term
    BY <1>4 DEF LostIsPast
  <2>2. CASE k = post
    BY <1>2, <1>6, <1>7, <1>8, <2>1, <2>2
  <2>3. CASE k \in sent
    BY <1>1, <1>7, <1>8, <2>1, <2>3 DEF LInv, LostIsPast
  <2>4. QED
    BY <1>2, <2>1, <2>2, <2>3
<1>11. LostIsOne'
  BY <1>2, <1>4, <1>6 DEF LInv, LostIsOne
<1>12. QED
  BY <1>9, <1>10, <1>11 DEF LInv

\* Every step of every thread keeps the lost votes few.
LEMMA NextLInv == IInv /\ TInv /\ LInv /\ [Next]_vars => LInv'
<1>1. SUFFICES ASSUME IInv, TInv, LInv, [Next]_vars PROVE LInv'
  OBVIOUS
<1>2. \A m \in sent : m.from \in Nodes
  BY <1>1 DEF IInv, Types
<1>3. ASSUME UNCHANGED <<term, voted, answering, sent, timer>> PROVE LInv'
  BY <1>1, <1>2, <1>3, QuietLInv DEF Past
<1>4. CASE UNCHANGED vars
  BY <1>3, <1>4 DEF vars
<1>5. CASE Next
  <2>1. PICK n \in Nodes : \/ TimeOutThread(n) \/ MainLoop(n)
                           \/ CheckConfirmStartVote(n) \/ HandleRegistration(n)
    BY <1>5 DEF Next
  <2>2. CASE TimeOutThread(n)
    BY <1>1, <2>2, TimeOutLInv, SendStartVoteLInv DEF TimeOutThread
  <2>3. CASE MainLoop(n)
    <3>1. CASE HandleStart(n)
      BY <1>1, <3>1, TimeOutLInv
    <3>2. ASSUME NEW m \in InFlight, RespondStartVote(n, m) PROVE LInv'
      BY <1>1, <3>2, RespondStartVoteLInv
    <3>3. CASE SendConfirm(n)
      BY <1>1, <3>3, SendConfirmLInv
    <3>4. ASSUME NEW m \in InFlight, HandleConfirm(n, m) PROVE LInv'
      BY <1>3, <3>4 DEF HandleConfirm, mainVars, timeOutVars
    <3>5. ASSUME NEW l \in Nodes, HandleHeartBeat(n, l) PROVE LInv'
      BY <1>3, <3>5 DEF HandleHeartBeat, timeOutVars, netVars
    <3>6. CASE StartChecker(n) \/ BecomeFollower(n)
      BY <1>3, <3>6 DEF StartChecker, BecomeFollower, mainVars, timeOutVars, netVars
    <3>7. QED
      BY <2>3, <3>1, <3>2, <3>3, <3>4, <3>5, <3>6 DEF MainLoop
  <2>4. CASE CheckConfirmStartVote(n)
    BY <1>3, <2>4, CheckerLeaves
  <2>5. CASE HandleRegistration(n)
    BY <1>3, <2>5 DEF HandleRegistration, mainVars, timeOutVars, netVars
  <2>6. QED
    BY <2>1, <2>2, <2>3, <2>4, <2>5
<1>6. QED
  BY <1>1, <1>4, <1>5

\* A vote arrives with too old a term only from a node that stands itself, and
\* such a node loses one vote at most (NodeMethod.go, RespondStartVote and
\* HeartBeatTimeOut).
THEOREM LostOnce == Spec => []OneVoteLost
<1>1. LInv => OneVoteLost
  BY DEF LInv, LostIsPast, LostIsOne, OneVoteLost, LostVotes, Past
<1>2. Init => TInv /\ LInv
  BY InitTInv, InitLInv
<1>3. IInv /\ CInv /\ TInv /\ LInv /\ [Next]_vars => TInv' /\ LInv'
  BY NextTInv, NextLInv
<1>4. QED
  BY <1>1, <1>2, <1>3, Invariance, CountInvariance, PTL DEF Spec

-----------------------------------------------------------------------------
\* Candidate c is still in the term in which it has asked for votes, and has not
\* got them.
Running(c) ==
  /\ role[c] = "intraCandidate" /\ checker[c] # "electing" /\ Q1(c) > 0
  /\ \E m \in StartVotes(c) : m.term = term[c]

\* The counter starts empty, and is cleared only if it is old; once the candidate
\* has asked for votes its term does not fall.
CheckerFollows ==
  \A c \in Nodes :
    /\ checker[c] \in {"none", "triggered"} => count[c].count = 0 /\ count[c].term = 0
    /\ checker[c] = "clearing" => count[c].term < term[c]
    /\ (checker[c] = "adding" /\ Running(c)) => count[c].term = term[c]
    /\ count[c].term <= term[c]
    /\ \A m \in StartVotes(c) : m.term <= term[c]

\* The votes for c that have been taken and are not lost.
Lasting(c) == {m \in Taken(c) : ~Lost(m)}

\* While it runs, each of these is in its counter, which is not full.
LastingAreCounted ==
  \A c \in Nodes : Running(c) =>
    /\ count[c].term = term[c] => count[c].count < Q1(c)
    /\ IsFiniteSet(Lasting(c))
    /\ Cardinality(Lasting(c)) <= IF count[c].term = term[c] THEN count[c].count ELSE 0

\* What is taken and lasts is counted.
EInv == CheckerFollows /\ LastingAreCounted

\* Nobody stands before the start.
LEMMA InitEInv == Init => EInv
<1>1. SUFFICES ASSUME Init PROVE EInv
  OBVIOUS
<1>2. \A c : StartVotes(c) = {}
  BY <1>1 DEF Init, StartVotes
<1>3. QED
  BY <1>1, <1>2 DEF Init, EInv, CheckerFollows, LastingAreCounted, Running

\* Steps that ask for no votes, count none that last and make no term.
LEMMA QuietEInv ==
  ASSUME EInv, UNCHANGED <<term, count>>,
         \A c \in Nodes : StartVotes(c)' = StartVotes(c),
         \A c \in Nodes : checker'[c] \in {"none", "triggered"} =>
                            checker[c] \in {"none", "triggered"},
         \A c \in Nodes : checker'[c] = "clearing" =>
                            checker[c] = "clearing" \/ count[c].term < term[c],
         \A c \in Nodes : checker'[c] = "adding" =>
                            checker[c] = "adding" \/ count[c].term = term[c],
         \A c \in Nodes : Running(c)' => Running(c) /\ Lasting(c)' = Lasting(c)
  PROVE  EInv'
<1>1. CheckerFollows'
  BY DEF EInv, CheckerFollows
<1>2. LastingAreCounted'
  <2>1. \A c : Q1(c)' = Q1(c)
    BY DEF Q1, Scope
  <2>2. QED
    BY <2>1 DEF EInv, LastingAreCounted
<1>3. QED
  BY <1>1, <1>2 DEF EInv

\* What the votes that last depend on.
LEMMA SameLasting ==
  ASSUME NEW c, StartVotes(c)' = StartVotes(c), Taken(c)' = Taken(c)
  PROVE  Lasting(c)' = Lasting(c)
<1>1. ElectionTerm(c)' = ElectionTerm(c)
  <2>1. ElectionTerm(c) = {m.term : m \in StartVotes(c)}
    BY DEF ElectionTerm, StartVotes
  <2>2. ElectionTerm(c)' = {m.term : m \in StartVotes(c)'}
    BY DEF ElectionTerm, StartVotes
  <2>3. QED
    BY <2>1, <2>2
<1>2. \A m \in Taken(c) : m.to = c
  BY DEF Taken
<1>3. QED
  BY <1>1, <1>2 DEF Lasting, Lost

\* Steps of the other threads, with which no candidate runs anew.
LEMMA StillEInv ==
  ASSUME EInv, UNCHANGED <<term, count, checker>>,
         \A c \in Nodes : StartVotes(c)' = StartVotes(c),
         \A c \in Nodes : Taken(c)' = Taken(c),
         \A c \in Nodes : role'[c] = "intraCandidate" =>
                            role[c] = "intraCandidate" \/ StartVotes(c) = {}
  PROVE  EInv'
<1>1. \A c \in Nodes : Running(c)' => Running(c)
  BY DEF Running, Q1, Scope
<1>2. \A c \in Nodes : Lasting(c)' = Lasting(c)
  BY SameLasting
<1>3. QED
  BY <1>1, <1>2, QuietEInv

\* The time-out thread: only a node that has not asked for votes becomes a
\* candidate or changes its term.
LEMMA TimeOutEInv ==
  ASSUME IInv, CInv, TInv, EInv, NEW n \in Nodes,
         HandleStart(n) \/ HeartBeatTimeOut(n) \/ ReadTerm(n) \/ WriteTerm(n)
  PROVE  EInv'
<1>1. timer[n] # "ended" /\ UNCHANGED <<checker, count, votes, counting, sent, handled>>
  BY DEF HandleStart, HeartBeatTimeOut, ReadTerm, WriteTerm, countVars, netVars
<1>2. StartVotes(n) = {} /\ checker[n] = "none"
  BY <1>1 DEF IInv, StandsOnce, CInv, OneInHand
<1>3. \A c \in Nodes : role'[c] = "intraCandidate" =>
                         role[c] = "intraCandidate" \/ StartVotes(c) = {}
  BY <1>2 DEF HandleStart, HeartBeatTimeOut, ReadTerm, WriteTerm, TInv, PlainTypes
<1>4. \A c \in Nodes : StartVotes(c)' = StartVotes(c) /\ Taken(c)' = Taken(c)
  BY <1>1 DEF StartVotes, Taken
<1>5. CASE ~WriteTerm(n)
  <2>1. term' = term
    BY <1>5 DEF HandleStart, HeartBeatTimeOut, ReadTerm
  <2>2. QED
    BY <1>1, <1>3, <1>4, <2>1, StillEInv
<1>6. CASE WriteTerm(n)
  <2>1. /\ term'[n] = read[n] + 1 /\ read[n] \in Nat /\ role' = role
        /\ \A c \in Nodes : c # n => term'[c] = term[c]
    BY <1>6 DEF WriteTerm, Incremented, IInv, Types
  <2>2. count[n].count = 0 /\ count[n].term = 0
    BY <1>2 DEF EInv, CheckerFollows
  <2>3. \A c \in Nodes : Running(c)' => c # n /\ Running(c) /\ Q1(c)' = Q1(c)
    BY <1>1, <1>2, <1>4, <2>1 DEF Running, Q1, Scope
  <2>4. CheckerFollows'
    BY <1>1, <1>2, <1>4, <2>1, <2>2, <2>3 DEF EInv, CheckerFollows
  <2>5. \A c \in Nodes : Lasting(c)' = Lasting(c)
    BY <1>4, SameLasting
  <2>6. LastingAreCounted'
    BY <1>1, <2>1, <2>3, <2>5 DEF EInv, LastingAreCounted
  <2>7. QED
    BY <2>4, <2>6 DEF EInv
<1>7. QED
  BY <1>5, <1>6

\* When a candidate asks for votes none of them has been given.
LEMMA SendStartVoteEInv ==
  ASSUME IInv, CInv, EInv, NEW n \in Nodes, SendStartVote(n)
  PROVE  EInv'
<1> DEFINE posts == {[type |-> "StartVote", from |-> n, to |-> m, term |-> term[n]] :
                       m \in Scope(n) \ {n}}
<1>1. /\ timer[n] = "incremented"
      /\ sent' = sent \cup posts
      /\ checker' = [checker EXCEPT ![n] = "triggered"]
      /\ UNCHANGED <<role, term, votes, counting, count, handled>>
  BY DEF SendStartVote
<1>2. \A m \in posts : m.type = "StartVote" /\ m.from = n /\ m.term = term[n]
  OBVIOUS
<1> HIDE DEF posts
<1>3. StartVotes(n) = {} /\ checker[n] = "none" /\ DOMAIN checker = Nodes
  BY <1>1 DEF IInv, StandsOnce, CInv, OneInHand, CountTypes
<1>4. /\ \A m \in StartVotes(n)' : m.term = term[n]
      /\ \A c \in Nodes : c # n => StartVotes(c)' = StartVotes(c)
  BY <1>1, <1>2, <1>3 DEF StartVotes
<1>5. \A c \in Nodes : Taken(c)' = Taken(c)
  BY <1>1 DEF Taken
<1>6. \A c \in Nodes : c # n => Lasting(c)' = Lasting(c)
  BY <1>4, <1>5, SameLasting
<1>7. Lasting(n)' = {}
  <2>1. \A v \in Nodes : ~HasVotedFor(v, n)
    BY <1>3 DEF IInv, VotesAreAsked
  <2>2. \A m \in sent : ~(m.type = "ConfirmStartVote" /\ m.to = n)
    BY <2>1 DEF HasVotedFor, Supporters, IInv, Types
  <2>3. Taken(n) = {}
    BY <2>2 DEF Taken, CInv, CountTypes
  <2>4. QED
    BY <1>5, <2>3 DEF Lasting
<1>8. /\ count[n].count = 0 /\ count[n].term = 0 /\ checker'[n] = "triggered"
      /\ \A c \in Nodes : c # n => checker'[c] = checker[c]
      /\ term[n] \in Nat
  BY <1>1, <1>3 DEF EInv, CheckerFollows, IInv, Types
<1>9. \A c \in Nodes : c # n => (Running(c)' => Running(c))
  BY <1>1, <1>4, <1>8 DEF Running, Q1, Scope
<1>10. CheckerFollows'
  <2>1. SUFFICES ASSUME NEW c \in Nodes
                 PROVE  /\ checker'[c] \in {"none", "triggered"} =>
                             count'[c].count = 0 /\ count'[c].term = 0
                        /\ checker'[c] = "clearing" => count'[c].term < term'[c]
                        /\ (checker'[c] = "adding" /\ Running(c)') =>
                             count'[c].term = term'[c]
                        /\ count'[c].term <= term'[c]
                        /\ \A m \in StartVotes(c)' : m.term <= term'[c]
    BY DEF CheckerFollows
  <2>2. CASE c = n
    BY <1>1, <1>4, <1>8, <2>2
  <2>3. CASE c # n
    BY <1>1, <1>4, <1>8, <1>9, <2>3 DEF EInv, CheckerFollows
  <2>4. QED
    BY <2>2, <2>3
<1>11. LastingAreCounted'
  <2>1. SUFFICES ASSUME NEW c \in Nodes, Running(c)'
                 PROVE  /\ count'[c].term = term'[c] => count'[c].count < Q1(c)
                        /\ IsFiniteSet(Lasting(c)')
                        /\ Cardinality(Lasting(c)') <=
                             IF count'[c].term = term'[c] THEN count'[c].count ELSE 0
    BY DEF LastingAreCounted, Q1, Scope
  <2>2. CASE c = n
    <3>1. Q1(n) > 0
      BY <2>1, <2>2 DEF Running, Q1, Scope
    <3>2. QED
      BY <1>1, <1>7, <1>8, <2>2, <3>1, FS_EmptySet
  <2>3. CASE c # n
    BY <1>1, <1>6, <1>9, <2>1, <2>3 DEF EInv, LastingAreCounted
  <2>4. QED
    BY <2>2, <2>3
<1>12. QED
  BY <1>10, <1>11 DEF EInv

\* A node that accepts a candidate leaves the term it may stand in itself.
LEMMA RespondStartVoteEInv ==
  ASSUME IInv, CInv, EInv, NEW n \in Nodes, NEW m \in InFlight, RespondStartVote(n, m)
  PROVE  EInv'
<1>1. /\ m \in sent /\ m.type = "StartVote" /\ m.term \in Nat
      /\ handled' = handled \cup {m}
      /\ UNCHANGED <<role, checker, votes, counting, count, sent>>
  BY DEF RespondStartVote, InFlight, countVars, IInv, Types
<1>2. \A c \in Nodes : StartVotes(c)' = StartVotes(c) /\ Taken(c)' = Taken(c)
  BY <1>1 DEF StartVotes, Taken
<1>3. CASE ~Grants(n, m)
  <2>1. term' = term
    BY <1>3 DEF RespondStartVote
  <2>2. QED
    BY <1>1, <1>2, <2>1, StillEInv
<1>4. CASE Grants(n, m)
  <2>1. /\ term'[n] = m.term /\ m.term > term[n]
        /\ \A c \in Nodes : c # n => term'[c] = term[c]
        /\ \A c \in Nodes : term[c] \in Nat /\ count[c].term \in Nat
    BY <1>4 DEF RespondStartVote, FollowedTerm, Grants, IInv, Types, CInv, CountTypes
  <2>2. \A c \in Nodes : \A k \in StartVotes(c) : k.term \in Nat /\ k.term <= term[c]
    BY DEF EInv, CheckerFollows, IInv, Types, StartVotes
  <2>3. \A c \in Nodes : term'[c] >= term[c] /\ term'[c] \in Nat
    BY <1>1, <2>1
  <2>4. \A c \in Nodes : Running(c)' => c # n /\ Running(c) /\ Q1(c)' = Q1(c)
    BY <1>1, <1>2, <2>1, <2>2 DEF Running, Q1, Scope
  <2>5. CheckerFollows'
    <3>1. SUFFICES ASSUME NEW c \in Nodes
                   PROVE  /\ checker'[c] \in {"none", "triggered"} =>
                               count'[c].count = 0 /\ count'[c].term = 0
                          /\ checker'[c] = "clearing" => count'[c].term < term'[c]
                          /\ (checker'[c] = "adding" /\ Running(c)') =>
                               count'[c].term = term'[c]
                          /\ count'[c].term <= term'[c]
                          /\ \A k \in StartVotes(c)' : k.term <= term'[c]
      BY DEF CheckerFollows
    <3>2. /\ checker[c] \in {"none", "triggered"} => count[c].count = 0 /\ count[c].term = 0
          /\ checker[c] = "clearing" => count[c].term < term[c]
          /\ (checker[c] = "adding" /\ Running(c)) => count[c].term = term[c]
          /\ count[c].term <= term[c]
      BY DEF EInv, CheckerFollows
    <3>3. QED
      BY <1>1, <1>2, <2>1, <2>2, <2>3, <2>4, <3>2
  <2>6. \A c \in Nodes : Lasting(c)' = Lasting(c)
    BY <1>2, SameLasting
  <2>7. LastingAreCounted'
    BY <1>1, <2>1, <2>4, <2>6 DEF EInv, LastingAreCounted
  <2>8. QED
    BY <2>5, <2>7 DEF EInv
<1>5. QED
  BY <1>3, <1>4

\* A vote is sent, or waits to be counted.
LEMMA VoteEInv ==
  ASSUME CInv, EInv, NEW n \in Nodes,
         SendConfirm(n) \/ \E m \in InFlight : HandleConfirm(n, m)
  PROVE  EInv'
<1>1. UNCHANGED <<role, term, checker, counting, count>>
  BY DEF SendConfirm, HandleConfirm, countVars
<1>2. \A c \in Nodes : StartVotes(c)' = StartVotes(c)
  BY DEF SendConfirm, HandleConfirm, StartVotes
<1>3. \A c \in Nodes : Taken(c)' = Taken(c)
  <2>1. CASE SendConfirm(n)
    BY <2>1 DEF SendConfirm, countVars, Taken
  <2>2. ASSUME NEW m \in InFlight, HandleConfirm(n, m) PROVE \A c \in Nodes : Taken(c)' = Taken(c)
    <3>1. /\ m.to = n /\ handled' = handled \cup {m} /\ m \notin handled
          /\ votes' = [votes EXCEPT ![n] = @ \cup {m}]
          /\ \A c \in Nodes : votes[c] \subseteq handled
      BY <2>2 DEF HandleConfirm, InFlight, CInv, CountTypes
    <3>2. \A c \in Nodes : votes'[c] = IF c = n THEN votes[c] \cup {m} ELSE votes[c]
      BY <3>1 DEF CInv, CountTypes
    <3>3. QED
      BY <1>1, <3>1, <3>2 DEF Taken
  <2>3. QED
    BY <2>1, <2>2
<1>4. QED
  BY <1>1, <1>2, <1>3, StillEInv

\* The counting thread starts, a candidate follows, a leader is registered.
LEMMA OtherEInv ==
  ASSUME CInv, TInv, EInv, NEW n \in Nodes,
         \/ StartChecker(n)
         \/ \E l \in Nodes : HandleHeartBeat(n, l)
         \/ BecomeFollower(n)
         \/ HandleRegistration(n)
  PROVE  EInv'
<1>1. UNCHANGED <<term, count, votes, counting, sent, handled>>
  BY DEF StartChecker, HandleHeartBeat, BecomeFollower, HandleRegistration, countVars, netVars
<1>2. \A c \in Nodes : StartVotes(c)' = StartVotes(c) /\ Taken(c)' = Taken(c)
  BY <1>1 DEF StartVotes, Taken
<1>3. CASE StartChecker(n)
  <2>1. checker[n] = "triggered" /\ checker' = [checker EXCEPT ![n] = "running"] /\ role' = role
    BY <1>3 DEF StartChecker
  <2>2. \A c \in Nodes : checker'[c] = IF c = n THEN "running" ELSE checker[c]
    BY <2>1 DEF CInv, CountTypes
  <2>3. \A c \in Nodes : Running(c)' => Running(c) /\ Lasting(c)' = Lasting(c)
    BY <1>1, <1>2, <2>1, <2>2, SameLasting DEF Running, Q1, Scope
  <2>4. QED
    BY <1>1, <1>2, <2>2, <2>3, QuietEInv
<1>4. CASE \/ \E l \in Nodes : HandleHeartBeat(n, l)
           \/ BecomeFollower(n)
           \/ HandleRegistration(n)
  <2>1. checker' = checker
    BY <1>4 DEF HandleHeartBeat, BecomeFollower, HandleRegistration, countVars
  <2>2. \A c \in Nodes : role'[c] = "intraCandidate" => role[c] = "intraCandidate"
    BY <1>4 DEF HandleHeartBeat, BecomeFollower, HandleRegistration, TInv, PlainTypes
  <2>3. QED
    BY <1>1, <1>2, <2>1, <2>2, StillEInv
<1>5. QED
  BY <1>3, <1>4

\* The counting thread takes a vote in hand, or drops one that is lost.
LEMMA TakeAndCheckEInv ==
  ASSUME IInv, CInv, EInv, NEW n \in Nodes,
         (\E m \in votes[n] : TakeVote(n, m)) \/ CheckVote(n)
  PROVE  EInv'
<1>1. /\ UNCHANGED <<role, term, count, sent, handled>>
      /\ \E place \in {"taken", "running", "valid"} :
           checker' = [checker EXCEPT ![n] = place]
      /\ checker[n] # "electing"
  BY DEF TakeVote, CheckVote, netVars
<1>2. \A c \in Nodes : /\ c # n => checker'[c] = checker[c]
                       /\ c = n => checker'[c] \in {"taken", "running", "valid"}
  BY <1>1 DEF CInv, CountTypes
<1>3. \A c \in Nodes : StartVotes(c)' = StartVotes(c)
  BY <1>1 DEF StartVotes
<1>4. \A c \in Nodes : Running(c)' => Running(c)
  BY <1>1, <1>2, <1>3 DEF Running, Q1, Scope
<1>5. CASE \E m \in votes[n] : TakeVote(n, m)
  <2>1. PICK m \in votes[n] : /\ checker[n] = "running"
                              /\ votes' = [votes EXCEPT ![n] = @ \ {m}]
                              /\ counting' = [counting EXCEPT ![n] = {m}]
    BY <1>5 DEF TakeVote
  <2>2. counting[n] = {} /\ DOMAIN votes = Nodes /\ DOMAIN counting = Nodes
    BY <2>1 DEF CInv, OneInHand, HoldsVote, CountTypes
  <2>3. \A c \in Nodes : votes'[c] \cup counting'[c] = votes[c] \cup counting[c]
    BY <2>1, <2>2
  <2>4. \A c \in Nodes : Taken(c)' = Taken(c)
    BY <1>1, <2>3 DEF Taken
  <2>5. QED
    BY <1>1, <1>2, <1>3, <1>4, <2>4, SameLasting, QuietEInv
<1>6. CASE CheckVote(n)
  <2>1. PICK m \in counting[n] :
          \/ /\ m.term < term[n] /\ counting' = [counting EXCEPT ![n] = {}]
          \/ counting' = counting
    BY <1>6 DEF CheckVote, Outdated
  <2>2. votes' = votes /\ HoldsVote(n)
    BY <1>6 DEF CheckVote, HoldsVote
  <2>3. counting[n] = {m} /\ m.type = "ConfirmStartVote" /\ m.to = n
    BY <2>1, <2>2, VoteInHand
  <2>4. CASE counting' = counting
    <3>1. \A c \in Nodes : Taken(c)' = Taken(c)
      BY <1>1, <2>2, <2>4 DEF Taken
    <3>2. QED
      BY <1>1, <1>2, <1>3, <1>4, <3>1, SameLasting, QuietEInv
  <2>5. CASE m.term < term[n] /\ counting' = [counting EXCEPT ![n] = {}]
    <3>1. \A c \in Nodes : counting'[c] = IF c = n THEN {} ELSE counting[c]
      BY <2>5 DEF CInv, CountTypes
    <3>2. /\ \A c \in Nodes : c # n => Taken(c)' = Taken(c)
          /\ Taken(n)' \subseteq Taken(n) \cup {m} /\ Taken(n) \subseteq Taken(n)'
      BY <1>1, <2>2, <2>3, <3>1 DEF Taken
    <3>3. ASSUME Running(n) PROVE Lasting(n)' = Lasting(n)
      <4>1. PICK k \in StartVotes(n) : k.term = term[n]
        BY <3>3 DEF Running
      <4>2. Lost(m)
        BY <2>3, <2>5, <4>1 DEF Lost, ElectionTerm, StartVotes
      <4>3. \A x : Lost(x)' <=> Lost(x)
        BY <1>1 DEF Lost, ElectionTerm
      <4>4. QED
        BY <3>2, <4>2, <4>3 DEF Lasting
    <3>4. \A c \in Nodes : Running(c)' => Running(c) /\ Lasting(c)' = Lasting(c)
      BY <1>3, <1>4, <3>2, <3>3, SameLasting
    <3>5. QED
      BY <1>1, <1>2, <1>3, <3>4, QuietEInv
  <2>6. QED
    BY <2>1, <2>4, <2>5
<1>7. QED
  BY <1>5, <1>6

\* It compares the terms, or makes the node the leader.
LEMMA CompareEInv ==
  ASSUME IInv, CInv, EInv, NEW n \in Nodes, DOMAIN role = Nodes,
         CheckCount(n) \/ BecomeIntraLeader(n)
  PROVE  EInv'
<1>1. UNCHANGED <<term, count, votes, counting, sent, handled>>
  BY DEF CheckCount, BecomeIntraLeader, netVars
<1>2. \A c \in Nodes : StartVotes(c)' = StartVotes(c) /\ Taken(c)' = Taken(c)
  BY <1>1 DEF StartVotes, Taken
<1>3. term[n] \in Nat /\ count[n].term \in Nat /\ count[n].term <= term[n]
      /\ DOMAIN checker = Nodes
  BY DEF IInv, Types, CInv, CountTypes, EInv, CheckerFollows
<1>4. CASE CheckCount(n)
  <2>1. /\ checker[n] = "valid" /\ role' = role
        /\ checker'[n] = IF count[n].term < term[n] THEN "clearing" ELSE "adding"
        /\ \A c \in Nodes : c # n => checker'[c] = checker[c]
    BY <1>3, <1>4 DEF CheckCount
  <2>2. \A c \in Nodes : Running(c)' => Running(c) /\ Lasting(c)' = Lasting(c)
    BY <1>1, <1>2, <2>1, SameLasting DEF Running, Q1, Scope
  <2>3. QED
    BY <1>1, <1>2, <1>3, <2>1, <2>2, QuietEInv
<1>5. CASE BecomeIntraLeader(n)
  <2>1. /\ role'[n] = "intraLeader" /\ checker'[n] = "elected"
        /\ \A c \in Nodes : c # n => checker'[c] = checker[c] /\ role'[c] = role[c]
    BY <1>3, <1>5 DEF BecomeIntraLeader
  <2>2. \A c \in Nodes : Running(c)' => Running(c) /\ Lasting(c)' = Lasting(c)
    BY <1>1, <1>2, <2>1, SameLasting DEF Running, Q1, Scope
  <2>3. QED
    BY <1>1, <1>2, <2>1, <2>2, QuietEInv
<1>6. QED
  BY <1>4, <1>5

\* An old counter has none of the votes of a running candidate.
LEMMA ClearCountEInv ==
  ASSUME IInv, CInv, EInv, NEW n \in Nodes, ClearCount(n)
  PROVE  EInv'
<1>1. /\ checker[n] = "clearing" /\ checker' = [checker EXCEPT ![n] = "adding"]
      /\ count' = [count EXCEPT ![n] = [count |-> 0, term |-> term[n]]]
      /\ UNCHANGED <<role, term, votes, counting, sent, handled>>
  BY DEF ClearCount, netVars
<1>2. \A c \in Nodes : StartVotes(c)' = StartVotes(c) /\ Taken(c)' = Taken(c)
  BY <1>1 DEF StartVotes, Taken
<1>3. /\ \A c \in Nodes : c # n => checker'[c] = checker[c] /\ count'[c] = count[c]
      /\ checker'[n] = "adding" /\ count'[n].count = 0 /\ count'[n].term = term[n]
      /\ term[n] \in Nat /\ count[n].term \in Nat
  BY <1>1 DEF CInv, CountTypes, IInv, Types
<1>4. \A c \in Nodes : Running(c)' => Running(c) /\ Q1(c)' = Q1(c)
  BY <1>1, <1>2, <1>3 DEF Running, Q1, Scope
<1>5. \A c \in Nodes : Lasting(c)' = Lasting(c)
  BY <1>2, SameLasting
<1>6. CheckerFollows'
  BY <1>1, <1>2, <1>3, <1>4 DEF EInv, CheckerFollows
<1>7. LastingAreCounted'
  <2>1. SUFFICES ASSUME NEW c \in Nodes, Running(c)'
                 PROVE  /\ count'[c].term = term[c] => count'[c].count < Q1(c)
                        /\ IsFiniteSet(Lasting(c))
                        /\ Cardinality(Lasting(c)) <=
                             IF count'[c].term = term[c] THEN count'[c].count ELSE 0
    BY <1>1, <1>4, <1>5 DEF LastingAreCounted
  <2>2. Running(c) /\ Q1(c) > 0
    BY <1>4, <2>1 DEF Running
  <2>3. CASE c = n
    <3>1. count[n].term < term[n]
      BY <1>1 DEF EInv, CheckerFollows
    <3>2. IsFiniteSet(Lasting(n)) /\ Cardinality(Lasting(n)) <= 0
      BY <1>3, <2>2, <2>3, <3>1 DEF EInv, LastingAreCounted
    <3>3. QED
      BY <1>3, <2>2, <2>3, <3>2
  <2>4. CASE c # n
    BY <1>3, <2>2, <2>4 DEF EInv, LastingAreCounted
  <2>5. QED
    BY <2>3, <2>4
<1>8. QED
  BY <1>6, <1>7 DEF EInv

\* A vote in hand of a running candidate is counted, and with the last one needed
\* the candidate is ready to lead.
LEMMA AddVoteEInv ==
  ASSUME IInv, CInv, EInv, NEW n \in Nodes, AddVote(n)
  PROVE  EInv'
<1>1. /\ checker[n] = "adding" /\ counting' = [counting EXCEPT ![n] = {}]
      /\ UNCHANGED <<role, term, votes, sent, handled>>
  BY DEF AddVote, netVars
<1>2. /\ \E place \in {"running", "electing", "ended"} :
           checker' = [checker EXCEPT ![n] = place]
      /\ count' = count \/ count' = [count EXCEPT ![n].count = @ + 1]
      /\ count[n].count < Q1(n) =>
           /\ count' = [count EXCEPT ![n].count = @ + 1]
           /\ (count[n].count + 1 = Q1(n) /\ role[n] = "intraCandidate") =>
                checker' = [checker EXCEPT ![n] = "electing"]
  BY DEF AddVote
<1>3. /\ \A c \in Nodes : c # n => checker'[c] = checker[c] /\ count'[c] = count[c]
      /\ checker'[n] \in {"running", "electing", "ended"}
      /\ count'[n].term = count[n].term /\ count[n].count \in Nat
      /\ count[n].count < Q1(n) =>
           /\ count'[n].count = count[n].count + 1
           /\ (count[n].count + 1 = Q1(n) /\ role[n] = "intraCandidate") =>
                checker'[n] = "electing"
  BY <1>2 DEF CInv, CountTypes
<1>4. PICK m \in handled \ votes[n] :
        /\ counting[n] = {m} /\ m.type = "ConfirmStartVote" /\ m.to = n /\ m \notin Taken(n)
  BY <1>1, VoteInHand DEF HoldsVote
<1>5. \A c \in Nodes : counting'[c] = IF c = n THEN {} ELSE counting[c]
  BY <1>1 DEF CInv, CountTypes
<1>6. Taken(n)' = Taken(n) \cup {m} /\ \A c \in Nodes : c # n => Taken(c)' = Taken(c)
  BY <1>1, <1>4, <1>5 DEF Taken
<1>7. \A c \in Nodes : StartVotes(c)' = StartVotes(c)
  BY <1>1 DEF StartVotes
<1>8. \A c \in Nodes : Running(c)' => Running(c) /\ Q1(c)' = Q1(c)
  BY <1>1, <1>3, <1>7 DEF Running, Q1, Scope
<1>9. CheckerFollows'
  BY <1>1, <1>3, <1>7, <1>8 DEF EInv, CheckerFollows
<1>10. ASSUME Running(n)'
       PROVE  /\ count'[n].term = term[n] => count'[n].count < Q1(n)
              /\ IsFiniteSet(Lasting(n)')
              /\ Cardinality(Lasting(n)') <=
                   IF count'[n].term = term[n] THEN count'[n].count ELSE 0
  <2>1. Running(n) /\ count[n].term = term[n] /\ Q1(n) \in Int
    BY <1>1, <1>8, <1>10, Q1Type DEF EInv, CheckerFollows
  <2>2. /\ count[n].count < Q1(n) /\ IsFiniteSet(Lasting(n))
        /\ Cardinality(Lasting(n)) <= count[n].count
    BY <2>1 DEF EInv, LastingAreCounted
  <2>3. count'[n].count = count[n].count + 1 /\ count[n].count + 1 # Q1(n)
    BY <1>3, <1>10, <2>1, <2>2 DEF Running
  <2>4. \A x : Lost(x)' <=> Lost(x)
    BY <1>1 DEF Lost, ElectionTerm
  <2>5. Lasting(n)' = Lasting(n) \/ Lasting(n)' = Lasting(n) \cup {m}
    BY <1>6, <2>4 DEF Lasting
  <2>6. /\ IsFiniteSet(Lasting(n) \cup {m})
        /\ Cardinality(Lasting(n) \cup {m}) = Cardinality(Lasting(n)) + 1
        /\ Cardinality(Lasting(n)) \in Nat
    BY <1>4, <2>2, FS_AddElement, FS_CardinalityType DEF Lasting
  <2>7. count'[n].term = term[n] /\ count'[n].count < Q1(n)
    BY <1>3, <2>1, <2>2, <2>3
  <2>8. IsFiniteSet(Lasting(n)') /\ Cardinality(Lasting(n)') <= count[n].count + 1
    <3>1. count[n].count \in Nat
      BY <1>3
    <3>2. CASE Lasting(n)' = Lasting(n)
      BY <2>2, <2>6, <3>1, <3>2
    <3>3. CASE Lasting(n)' = Lasting(n) \cup {m}
      BY <2>2, <2>6, <3>1, <3>3
    <3>4. QED
      BY <2>5, <3>2, <3>3
  <2>9. QED
    BY <2>3, <2>7, <2>8
<1>11. LastingAreCounted'
  <2>1. SUFFICES ASSUME NEW c \in Nodes, Running(c)'
                 PROVE  /\ count'[c].term = term[c] => count'[c].count < Q1(c)
                        /\ IsFiniteSet(Lasting(c)')
                        /\ Cardinality(Lasting(c)') <=
                             IF count'[c].term = term[c] THEN count'[c].count ELSE 0
    BY <1>1, <1>8 DEF LastingAreCounted
  <2>2. CASE c = n
    BY <1>10, <2>1, <2>2
  <2>3. CASE c # n
    <3>1. Lasting(c)' = Lasting(c)
      BY <1>6, <1>7, <2>3, SameLasting
    <3>2. QED
      BY <1>3, <1>8, <2>1, <2>3, <3>1 DEF EInv, LastingAreCounted
  <2>4. QED
    BY <2>2, <2>3
<1>12. QED
  BY <1>9, <1>11 DEF EInv

\* Every step of every thread keeps the votes of a running election counted.
LEMMA NextEInv == IInv /\ CInv /\ TInv /\ EInv /\ [Next]_vars => EInv'
<1>1. SUFFICES ASSUME IInv, CInv, TInv, EInv, [Next]_vars PROVE EInv'
  OBVIOUS
<1>2. CASE UNCHANGED vars
  <2>1. \A c : StartVotes(c)' = StartVotes(c) /\ Taken(c)' = Taken(c)
    BY <1>2 DEF vars, StartVotes, Taken
  <2>2. QED
    BY <1>1, <1>2, <2>1, StillEInv DEF vars
<1>3. CASE Next
  <2>1. PICK n \in Nodes : \/ TimeOutThread(n) \/ MainLoop(n)
                           \/ CheckConfirmStartVote(n) \/ HandleRegistration(n)
    BY <1>3 DEF Next
  <2>2. CASE TimeOutThread(n)
    BY <1>1, <2>2, TimeOutEInv, SendStartVoteEInv DEF TimeOutThread
  <2>3. CASE MainLoop(n)
    <3>1. CASE HandleStart(n)
      BY <1>1, <3>1, TimeOutEInv
    <3>2. ASSUME NEW m \in InFlight, RespondStartVote(n, m) PROVE EInv'
      BY <1>1, <3>2, RespondStartVoteEInv
    <3>3. CASE SendConfirm(n) \/ \E m \in InFlight : HandleConfirm(n, m)
      BY <1>1, <3>3, VoteEInv
    <3>4. CASE \/ StartChecker(n) \/ BecomeFollower(n)
               \/ \E l \in Nodes : HandleHeartBeat(n, l)
      BY <1>1, <3>4, OtherEInv
    <3>5. QED
      BY <2>3, <3>1, <3>2, <3>3, <3>4 DEF MainLoop
  <2>4. CASE CheckConfirmStartVote(n)
    <3>1. DOMAIN role = Nodes
      BY <1>1 DEF TInv, PlainTypes
    <3>2. QED
      BY <1>1, <2>4, <3>1, TakeAndCheckEInv, CompareEInv, ClearCountEInv, AddVoteEInv
         DEF CheckConfirmStartVote
  <2>5. CASE HandleRegistration(n)
    BY <1>1, <2>5, OtherEInv
  <2>6. QED
    BY <2>1, <2>2, <2>3, <2>4, <2>5
<1>4. QED
  BY <1>1, <1>2, <1>3

\* A candidate that has taken enough votes that are not lost is being made the
\* leader, leads, follows, or has been moved to a higher term: the counting thread
\* loses none of them although the main loop may change the term between its
\* reads (NodeMethod.go, CheckConfirmStartVote).
THEOREM EnoughElect == Spec => []EnoughVotesElect
<1>1. IInv /\ CInv /\ EInv => EnoughVotesElect
  <2>1. SUFFICES ASSUME IInv, CInv, EInv, NEW c \in Nodes, role[c] = "intraCandidate",
                        checker[c] # "electing",
                        Q1(c) > 0, Cardinality(Lasting(c)) >= Q1(c)
                 PROVE  \E t \in ElectionTerm(c) : term[c] > t
    BY DEF EnoughVotesElect, Lasting
  <2>2. Taken(c) # {}
    BY <2>1, FS_EmptySet, Q1Type DEF Lasting
  <2>3. PICK k \in StartVotes(c) : TRUE
    <3>1. PICK m \in sent : m.type = "ConfirmStartVote" /\ m.to = c /\ m.from \in Nodes
      BY <2>1, <2>2 DEF Taken, CInv, CountTypes, IInv, Types
    <3>2. HasVotedFor(m.from, c)
      BY <3>1 DEF HasVotedFor, Supporters
    <3>3. QED
      BY <2>1, <3>1, <3>2 DEF IInv, VotesAreAsked
  <2>4. k.term \in ElectionTerm(c) /\ k.term <= term[c] /\ k.term \in Nat /\ term[c] \in Nat
    BY <2>1 DEF ElectionTerm, StartVotes, EInv, CheckerFollows, IInv, Types
  <2>5. k.term # term[c]
    <3>1. SUFFICES ASSUME k.term = term[c] PROVE FALSE
      OBVIOUS
    <3>2. Running(c)
      BY <2>1, <3>1 DEF Running
    <3>3. /\ count[c].term = term[c] => count[c].count < Q1(c)
          /\ IsFiniteSet(Lasting(c))
          /\ Cardinality(Lasting(c)) <= IF count[c].term = term[c] THEN count[c].count ELSE 0
      BY <2>1, <3>2 DEF EInv, LastingAreCounted
    <3>4. Cardinality(Lasting(c)) \in Nat /\ count[c].count \in Nat
      BY <2>1, <3>3, FS_CardinalityType DEF CInv, CountTypes
    <3>5. QED
      BY <2>1, <3>3, <3>4, Q1Type
  <2>6. QED
    BY <2>4, <2>5
<1>2. Init => TInv /\ EInv
  BY InitTInv, InitEInv
<1>3. IInv /\ CInv /\ TInv /\ EInv /\ [Next]_vars => TInv' /\ EInv'
  BY NextTInv, NextEInv
<1>4. QED
  BY <1>1, <1>2, <1>3, Invariance, CountInvariance, PTL DEF Spec
=============================================================================
