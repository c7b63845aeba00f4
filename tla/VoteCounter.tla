---------------------------- MODULE VoteCounter ----------------------------
(***************************************************************************)
(* One counter of one node, used the way the frustum node uses it: a       *)
(* PrePrepare for a height resets it (Node.go MSGHandle), and each other   *)
(* member of the shard sends one vote per height.  Messages travel in      *)
(* goroutines of their own with a random latency, so they are handled in   *)
(* any order.                                                              *)
(***************************************************************************)
EXTENDS PBFTQuorum, FiniteSets

CONSTANTS Voters,        \* the members of the shard, this node left out
          VoteType       \* "Prepare", "Commit" or "Finality"

ASSUME VoterAssumption ==
  IsFiniteSet(Voters) /\ VoteType \in {"Prepare", "Commit", "Finality"}

VARIABLES
  q,           \* the counter
  proposed,    \* heights whose PrePrepare this node has handled
  handled,     \* the votes handled so far, as <<voter, height>>
  live,        \* history: votes counted by Handle itself since the last reset
  announced    \* history: Handle calls that returned true since the last reset

vars == <<q, proposed, handled, live, announced>>

Rounds == Heights \ {0}

Needed == QuorumNodes(VoteType, Cardinality(Voters) + 1)

Init ==
  /\ q = NewQuorum
  /\ proposed = {}
  /\ handled = {}
  /\ live = 0
  /\ announced = 0

\* A PrePrepare of height h is handled: ResetVoteCheck.
HandlePrePrepare(h) ==
  /\ h \notin proposed
  /\ proposed' = proposed \cup {h}
  /\ q' = ResetCount(q, h)
  /\ live' = 0
  /\ announced' = 0
  /\ UNCHANGED handled

\* The vote of voter v for height h is handled.
HandleVote(v, h) ==
  /\ <<v, h>> \notin handled
  /\ handled' = handled \cup {<<v, h>>}
  /\ q' = Handle(q, Needed, h)
  /\ live' = IF Counts(q, Needed, h) THEN live + 1 ELSE live
  /\ announced' = IF Reaches(q, Needed, h) THEN announced + 1 ELSE announced
  /\ UNCHANGED proposed

Next ==
  \/ \E h \in Rounds : HandlePrePrepare(h)
  \/ \E v \in Voters, h \in Rounds : HandleVote(v, h)

Spec == Init /\ [][Next]_vars

-----------------------------------------------------------------------------
VotersFor(h) == {v \in Voters : <<v, h>> \in handled}

\* Since the last reset Handle has returned true once if the count stands at
\* the quorum, and never otherwise: its caller sends the next phase's message
\* once, and no vote that comes late makes it send again.
AnnouncedOnce == announced = IF q.votes = Needed THEN 1 ELSE 0

\* A quorum of votes that arrive after the reset is never missed: however the
\* votes of other heights are mixed in, the count never lags behind the votes
\* handled for the current height since the reset.
LiveVotesSuffice == live <= q.votes /\ q.votes <= Needed

\* What a count is worth.  With k votes of this height in the buffer, each vote
\* handled after the reset counts at most k + 1, so a quorum stands for k plus
\* at least Needed / (k + 1) distinct members, not for Needed of them.
CountIsBacked ==
  LET k == q.buffer[q.latest]
  IN  /\ q.votes <= live * (k + 1)
      /\ q.latest # 0 => live + k <= Cardinality(VotersFor(q.latest))

\* Quorum.go:70 calls QuorumNodes the number of NODES needed for consensus and
\* Quorum.go:63 has Handle return true when the quorum is reached: whenever it
\* has, as many distinct members have voted for this height.
QuorumOfDistinctNodes ==
  announced > 0 => Cardinality(VotersFor(q.latest)) >= Needed

\* Quorum.go:91-97: votes short of the quorum are completed from the buffer, so
\* a buffer that by itself holds a quorum for the current height has decided.  The
\* code does not keep it (README, section 4), and no run checks it.
BufferedQuorumDecides ==
  q.buffer[q.latest] >= Needed => announced > 0
=============================================================================
