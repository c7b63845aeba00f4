----------------------------- MODULE PBFTQuorum -----------------------------
(***************************************************************************)
(* The vote counter of BlockChain/Consensus/PBFT/Quorum.go.  A node keeps  *)
(* one per kind of vote.  Votes for a height above the counter's are put   *)
(* in MsgBuffer; nothing but the height of a buffered vote is ever read    *)
(* again, so the buffer is the number of votes it holds for each height.   *)
(***************************************************************************)
EXTENDS Integers

CONSTANT EndBlockHeight      \* the last height (frustum/ConsensusFunc.go)

ASSUME EndBlockHeightAssumption == EndBlockHeight \in Nat \ {0}

Heights == 0..EndBlockHeight

\* LatestProposalNum, VoteCount, Finish and MsgBuffer.
QuorumType == [latest : Heights, votes : Nat, finish : BOOLEAN,
               buffer : [Heights -> Nat]]

NewQuorum == [latest |-> 0, votes |-> 0, finish |-> FALSE,
              buffer |-> [h \in Heights |-> 0]]

\* floor(totalNum * f), with f the Malicious share of one third.
MaliciousNodes(total) == total \div 3

\* Finality needs f + 1 answers, as a client does; the other votes 2f + 1.
QuorumNodes(type, total) ==
  IF type = "Finality" THEN MaliciousNodes(total) + 1
                       ELSE 2 * MaliciousNodes(total) + 1

\* Faulty: the count starts at one, or is kept, or the buffer loses a height too much.
ResetCountCountsSelf(q, h) ==
  [latest |-> h, votes |-> 1, finish |-> FALSE,
   buffer |-> [k \in Heights |-> IF k >= h THEN q.buffer[k] ELSE 0]]

ResetCountKeepsVotes(q, h) ==
  [latest |-> h, votes |-> q.votes, finish |-> FALSE,
   buffer |-> [k \in Heights |-> IF k >= h THEN q.buffer[k] ELSE 0]]

ResetCountDropsCurrent(q, h) ==
  [latest |-> h, votes |-> 0, finish |-> FALSE,
   buffer |-> [k \in Heights |-> IF k > h THEN q.buffer[k] ELSE 0]]

\* The counter is cleared for height h; only votes buffered for lower heights
\* are thrown away.
ResetCount(q, h) ==
  [latest |-> h, votes |-> 0, finish |-> FALSE,
   buffer |-> [k \in Heights |-> IF k >= h THEN q.buffer[k] ELSE 0]]

\* Faulty: votes are also counted once there is a quorum.
CountsPastQuorum(q, needed, h) == h = q.latest

\* A vote for height h that this call counts.
Counts(q, needed, h) == h = q.latest /\ q.votes < needed

\* What one counted vote brings the count to: itself and, again at every call,
\* each vote buffered for this height, up to the quorum.
Tally(q, needed) ==
  LET all == q.votes + 1 + q.buffer[q.latest]
  IN  IF all < needed THEN all ELSE needed

\* Handle returns true.
Reaches(q, needed, h) == Counts(q, needed, h) /\ Tally(q, needed) = needed

\* The counter after Handle.
Handle(q, needed, h) ==
  IF Counts(q, needed, h) THEN [q EXCEPT !.votes = Tally(q, needed)]
  ELSE IF h > q.latest    THEN [q EXCEPT !.buffer[h] = @ + 1]
  ELSE q
=============================================================================
