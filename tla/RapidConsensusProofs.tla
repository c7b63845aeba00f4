------------------------ MODULE RapidConsensusProofs ------------------------
(***************************************************************************)
(* The consensus of a RapidChain committee, for every committee, sequence  *)
(* of leaders, share of faulty members and number of blocks.  Two          *)
(* invariants, each inductive once the ones before it are known:           *)
(*                                                                         *)
(*   IInv  at any speed of the network: types, how blocks rest on earlier  *)
(*         ones, and what stands behind an accept, a count and a final     *)
(*         block.  Whoever fetches a block gets one that is final on the   *)
(*         member asked: its walk back ends, as each step goes to a        *)
(*         smaller number.                                                 *)
(*   TInv  within delta: one block at a time is in the members' hands      *)
(*         (Current), those before it are final everywhere, and its rounds *)
(*         are apart: nobody echoes before all have the proposal, nobody   *)
(*         accepts before all have echoed, nobody takes the accepts out    *)
(*         before all have all of them.                                    *)
(***************************************************************************)
EXTENDS RapidConsensus, FiniteSetTheorems, SequenceTheorems, TLAPS

\* Each variable has its type, and the blocks stay within their bound.
Types ==
  /\ TypeOK
  /\ latest \in [Nodes -> Chain]
  /\ asked \in [Nodes -> [Blocks -> [base : Chain, peer : Nodes, last : Nat]]]
  /\ Len(blocks) <= MaxBlocks

\* What is final, or taken for the last block when fetching, has been made; a
\* block rests on an earlier one.
BlocksAreLinked ==
  /\ \A n \in Nodes : 0 \in final[n] /\ final[n] \subseteq {0} \cup Made
  /\ \A n \in Nodes, b \in Blocks : asked[n][b].base \in {0} \cup Made
  /\ \A b \in Made : Previous(b) < b
  /\ proposing \subseteq Made
  /\ \A m \in sent : m.block \in Made

\* A vote in the records of a member has been sent.
MsgsAreSent ==
  \A n \in Nodes, b \in Blocks, x \in Nodes :
    msgs[n][b][x] # "none" => [tag |-> msgs[n][b][x], block |-> b, from |-> x] \in sent

\* The first accept of a block counts echoes only.
EchoesBehindAccepts ==
  \A b \in Blocks : Voters("accept", b) # {} => Cardinality(Voters("echo", b)) >= RequiredVotes

\* Those of whom n has some message on block b.
Recorded(n, b) == {x \in Nodes : msgs[n][b][x] # "none"}

\* Those whose signatures stand under the block b that n holds.
Signers(n, b) == {s[1] : s \in signatures[n][b]}

\* What was counted stays, until it is taken out, some message of as many members.
CountsStand ==
  \A n \in Nodes, b \in Blocks :
    /\ acceptT[n][b] \in {"enough", "popped"} => Cardinality(Voters("accept", b)) >= RequiredVotes
    /\ acceptT[n][b] = "enough" => Cardinality(Recorded(n, b)) >= RequiredVotes
    /\ acceptT[n][b] = "popped" => Cardinality(Signers(n, b)) >= RequiredVotes

\* A final block has as many accepts behind it, and signatures under it.
FinalStands ==
  \A n \in Nodes : \A b \in final[n] \ {0} :
    /\ Cardinality(Voters("accept", b)) >= RequiredVotes
    /\ Cardinality(Signers(n, b)) >= RequiredVotes

\* What stands behind the votes, the counts and the final blocks.
VInv == MsgsAreSent /\ EchoesBehindAccepts /\ CountsStand /\ FinalStands

\* What holds at any speed of the network.
IInv == Types /\ BlocksAreLinked /\ VInv

-----------------------------------------------------------------------------
\* The last block that has been proposed; 0 if none has.
Current == IF proposing = {} THEN Len(blocks) ELSE Len(blocks) - 1

\* Node n is through with the current block.
Over(n) == Current = 0 \/ acceptT[n][Current] = "done"

\* It is, or has it and has yet to start the next iteration.
Holds(n) == Over(n) \/ acceptT[n][Current] = "added"

\* The places of a goroutine that has counted enough accepts.
Counted == {"enough", "popped", "added", "done"}

\* Blocks are made one after the other, each by the leader of its iteration.
OneByOne ==
  /\ proposing \subseteq {Len(blocks)}
  /\ \A b \in Made : /\ Iteration(b) = b /\ Previous(b) = b - 1
                     /\ blocks[b].leader = LeaderOf(b)

\* All hold the same chain, up to the current block or the one before.
ChainsAreLevel ==
  \A n \in Nodes :
    /\ latest[n] = IF Holds(n) THEN Current ELSE Current - 1
    /\ final[n] = 0..latest[n]
    /\ iter[n] = IF Over(n) THEN Current + 1 ELSE Current

\* Whoever starts the next iteration is through with the current block, and only
\* its leader makes a block, once.
LeadersInTime ==
  \A n \in Nodes :
    /\ electing[n] \in {0, 1} /\ leading[n] \in {0, 1}
    /\ electing[n] = 1 => Over(n) /\ leading[n] = 0
    /\ leading[n] = 1 => Over(n) /\ LeaderOf(Current + 1) = n /\ proposing = {}
    /\ proposing # {} /\ LeaderOf(Len(blocks)) = n => Over(n) /\ electing[n] = 0

\* Nothing is under way for the blocks before and after the current one.
OnlyCurrent ==
  /\ \A n \in Nodes, b \in Blocks :
       /\ b < Current => proposeT[n][b] = "done" /\ echoT[n][b] = "done" /\ acceptT[n][b] = "done"
       /\ b > Current => proposeT[n][b] = "none" /\ echoT[n][b] = "none" /\ acceptT[n][b] = "none"
  /\ \A m \in sent : m.block <= Current

\* The one proposal of block b, and the votes of x on the current block.
Proposal(b) == [tag |-> "propose", block |-> b, from |-> LeaderOf(b)]
Vote(t, x) == [tag |-> t, block |-> Current, from |-> x]

\* The current block has been proposed, each block by its leader only.
Proposals ==
  /\ Current # 0 => Proposal(Current) \in sent
  /\ \A m \in sent : m.tag = "propose" => m = Proposal(m.block)

\* Where the goroutines of the current block stand on one node.
ThreadsInStep ==
  Current # 0 => \A n \in Nodes :
    /\ echoT[n][Current] # "retry"
    /\ acceptT[n][Current] \in {"none", "sleep"} \cup Counted
    /\ proposeT[n][Current] = "none" <=> echoT[n][Current] = "none"
    /\ proposeT[n][Current] = "none" <=> acceptT[n][Current] = "none"
    /\ proposeT[n][Current] = "none" => Proposal(Current) \notin handled[n]
    /\ Current \notin final[n] /\ proposeT[n][Current] # "none" => Proposal(Current) \in handled[n]
    /\ Vote("echo", n) \in sent <=> proposeT[n][Current] = "done"
    /\ Vote("accept", n) \in sent <=> echoT[n][Current] = "done"

\* Where they stand on different nodes: a round is over for all before the next
\* begins for one.
RoundsAreApart ==
  Current # 0 => \A n, x, y \in Nodes :
    /\ proposeT[x][Current] = "done" => proposeT[n][Current] # "none"
    /\ echoT[x][Current] = "done" =>
         proposeT[n][Current] = "done" /\ (Vote("echo", y) \in handled[n] \/ Current \in final[n])
    /\ acceptT[x][Current] \in Counted =>
         echoT[n][Current] = "done" /\ (Vote("accept", y) \in handled[n] \/ Current \in final[n])

\* What has been handled is what the messages show, until they are taken out.
MsgsShowVotes ==
  Current # 0 => \A n, x \in Nodes :
    acceptT[n][Current] \in {"none", "sleep", "enough"} =>
      /\ Vote("accept", x) \in handled[n] => msgs[n][Current][x] = "accept"
      /\ Vote("echo", x) \in handled[n] => msgs[n][Current][x] \in {"echo", "accept"}

\* Whoever has taken the accepts out has those of all members.
AllSigned ==
  \A n \in Nodes, b \in Blocks :
    b \in final[n] \/ acceptT[n][b] = "popped" => signatures[n][b] = Nodes \X {"accept"}

\* What holds within delta.
InTime ==
  /\ dead = "none"
  /\ OneByOne /\ ChainsAreLevel /\ LeadersInTime /\ OnlyCurrent /\ Proposals
  /\ ThreadsInStep /\ RoundsAreApart /\ MsgsShowVotes /\ AllSigned

\* It does as long as no goroutine was late.
TInv == timely => InTime

-----------------------------------------------------------------------------
\* There is a member, so a vote takes at least one voter, and all suffice.
LEMMA VotesNeeded ==
  /\ Cardinality(Nodes) \in Nat \ {0} /\ Leader[1] \in Nodes
  /\ RequiredVotes \in 1..Cardinality(Nodes)
<1>1. Leader[1] \in Nodes /\ Len(Leader) \in Nat \ {0}
  BY RapidAssumption, ElementOfSeq, EmptySeq
<1>2. Cardinality(Nodes) \in Nat \ {0}
  BY <1>1, RapidAssumption, FS_CardinalityType, FS_EmptySet
<1>3. \A c \in Nat \ {0}, f \in Nat \ {0} : (c - 1) \div f \in 0..(c - 1)
  OBVIOUS
<1>4. (Cardinality(Nodes) - 1) \div CommitteeF \in 0..(Cardinality(Nodes) - 1)
  BY <1>2, <1>3, RapidAssumption
<1> QED BY <1>1, <1>2, <1>4 DEF RequiredVotes

\* More members are no fewer.
LEMMA MoreMembers ==
  ASSUME NEW S, NEW T, S \subseteq T, T \subseteq Nodes
  PROVE Cardinality(S) \in Nat /\ Cardinality(T) \in Nat /\ Cardinality(S) <= Cardinality(T)
BY RapidAssumption, FS_Subset, FS_CardinalityType

\* Each nonempty set of naturals has a least element.
LEMMA Least ==
  ASSUME NEW T \in SUBSET Nat, T # {}
  PROVE \E x \in T : \A y \in T : x <= y
<1> DEFINE R == OpToRel(<, Nat)
<1>1. IsWellFoundedOn(R, Nat)
  BY NatLessThanWellFounded
<1>2. \A x, y \in Nat : <<x, y>> \in R <=> x < y
  BY DEF OpToRel
<1> HIDE DEF R
<1>3. PICK x \in T : \A y \in T : ~ (<<y, x>> \in R)
  BY <1>1, WFMin
<1>4. \A y \in T : ~ (y < x)
  BY <1>2, <1>3, Zenon
<1> QED BY <1>4

-----------------------------------------------------------------------------
\* One step of the walk of GetByIteration, given the walk from the smaller blocks.
Step(m, k, w, c) ==
  IF c \notin final[m] THEN -1
  ELSE IF Iteration(c) <= k THEN c
  ELSE w[Previous(c)]

\* Block 0 ends a walk, every other step goes to a smaller number.
LEMMA StepsDescend ==
  ASSUME Types, BlocksAreLinked, NEW m \in Nodes, NEW k \in Nat, NEW c \in final[m], c \in Chain,
         ~ (Iteration(c) <= k)
  PROVE c \in Made /\ Previous(c) \in 0..(c - 1)
<1>1. c # 0
  BY DEF Iteration
<1>2. c \in Made
  BY <1>1 DEF BlocksAreLinked
<1>3. blocks[c] \in [iteration : Nat, previous : Chain, leader : Nodes]
  BY <1>2, ElementOfSeq DEF Types, TypeOK, Made
<1> QED BY <1>2, <1>3, RapidAssumption DEF BlocksAreLinked, Previous, Chain, Made

\* The recursion has a solution on the blocks up to n, for every n.
LEMMA WalkExists ==
  ASSUME Types, BlocksAreLinked, NEW m \in Nodes, NEW k \in Nat
  PROVE \E w : w = [c \in Chain |-> Step(m, k, w, c)]
<1> DEFINE Good(n) == \E w : w = [c \in 0..n |-> Step(m, k, w, c)]
           Bad == {n \in Nat : ~ Good(n)}
<1>0. MaxBlocks \in Nat
  BY RapidAssumption
<1>1. SUFFICES ASSUME Bad # {} PROVE FALSE
  <2>1. \A n \in Nat : Good(n)
    BY <1>1
  <2>2. Good(MaxBlocks)
    BY <1>0, <2>1
  <2> QED BY <2>2 DEF Chain
<1>2. PICK n \in Bad : \A i \in Bad : n <= i
  <2> HIDE DEF Bad
  <2>1. Bad \in SUBSET Nat
    BY DEF Bad
  <2> QED BY <1>1, <2>1, Least
<1>3. n \in Nat /\ ~ Good(n)
  OBVIOUS
<1>4. \A i \in 0..(n - 1) : Good(i)
  BY <1>2, <1>3
<1> HIDE DEF Bad
<1>5. PICK w : \A c \in 0..(n - 1) : w[c] = Step(m, k, w, c)
  <2>1. CASE n = 0
    BY <2>1
  <2>2. CASE n # 0
    <3>1. n - 1 \in 0..(n - 1)
      BY <1>3, <2>2
    <3> QED BY <1>4, <3>1
  <2> QED BY <2>1, <2>2
<1> DEFINE v == [c \in 0..n |-> IF c = n THEN Step(m, k, w, c) ELSE w[c]]
<1>6. ASSUME NEW c \in 0..n PROVE v[c] = Step(m, k, v, c)
  <2>1. v[c] = Step(m, k, w, c)
    BY <1>3, <1>5
  <2>2. CASE c \in final[m] /\ ~ (Iteration(c) <= k) /\ c \in Chain
    <3>1. Previous(c) \in 0..(c - 1)
      BY <2>2, StepsDescend
    <3>2. v[Previous(c)] = w[Previous(c)]
      BY <1>3, <3>1
    <3> QED BY <2>1, <3>2 DEF Step
  <2>3. CASE c \notin final[m] \/ Iteration(c) <= k
    BY <2>1, <2>3 DEF Step
  <2>4. final[m] \subseteq Chain
    BY DEF Types, TypeOK
  <2> QED BY <2>2, <2>3, <2>4
<1>7. v = [c \in 0..n |-> Step(m, k, v, c)]
  BY <1>6
<1> QED BY <1>3, <1>7

\* A member asked for a block gives one that is final on it, or finds a hole.
LEMMA GivesWhatIsFinal ==
  ASSUME Types, BlocksAreLinked, NEW m \in Nodes, NEW k \in Nat
  PROVE GetByIteration(m, k) \in final[m] \cup {-1}
<1> DEFINE w == CHOOSE f : f = [c \in Chain |-> Step(m, k, f, c)]
<1>1. w = [c \in Chain |-> Step(m, k, w, c)]
  BY WalkExists
<1>2. GetByIteration(m, k) = w[latest[m]]
  BY DEF GetByIteration, Step
<1> HIDE DEF w
<1> DEFINE Bad == {c \in Chain : w[c] \notin final[m] \cup {-1}}
<1>3. SUFFICES ASSUME Bad # {} PROVE FALSE
  BY <1>2, <1>3 DEF Types
<1>4. PICK c \in Bad : \A d \in Bad : c <= d
  <2>1. Bad \in SUBSET Nat
    BY RapidAssumption DEF Chain
  <2> HIDE DEF Bad
  <2> QED BY <1>3, <2>1, Least
<1>5. c \in Chain /\ w[c] \notin final[m] \cup {-1} /\ w[c] = Step(m, k, w, c)
  BY <1>1
<1>6. c \in final[m] /\ ~ (Iteration(c) <= k) /\ w[c] = w[Previous(c)]
  BY <1>5 DEF Step
<1>7. Previous(c) \in 0..(c - 1) /\ c \in Nat /\ MaxBlocks \in Nat /\ c <= MaxBlocks
  BY <1>5, <1>6, StepsDescend, RapidAssumption DEF Chain
<1>8. Previous(c) \in Bad
  BY <1>5, <1>6, <1>7 DEF Chain
<1> QED BY <1>4, <1>7, <1>8

-----------------------------------------------------------------------------
\* The walk of a fetch, and where the goroutine that fetches can stand.
Asked == [base : Chain, peer : Nodes, last : Nat]

AcceptPlaces ==
  {"none", "sleep", "retry", "enough", "popped", "added", "done", "missing",
   "request", "asked", "fetched", "fetchedLast", "gaveUp"}

\* The types of the variables in four parts, each kept by itself.
ThreadTypes ==
  /\ proposeT \in [Nodes -> [Blocks -> {"none", "sleep", "done"}]]
  /\ echoT \in [Nodes -> [Blocks -> {"none", "sleep", "retry", "done"}]]
  /\ acceptT \in [Nodes -> [Blocks -> AcceptPlaces]]
  /\ asked \in [Nodes -> [Blocks -> Asked]]

MessageTypes ==
  /\ sent \subseteq Messages
  /\ handled \in [Nodes -> SUBSET sent]
  /\ known \in [Nodes -> SUBSET Blocks]

RecordTypes ==
  /\ msgs \in [Nodes -> [Blocks -> [Nodes -> Tags \cup {"none"}]]]
  /\ signatures \in [Nodes -> [Blocks -> SUBSET (Nodes \X Tags)]]

ChainTypes ==
  /\ timely \in BOOLEAN
  /\ blocks \in Seq([iteration : Nat, previous : Chain, leader : Nodes])
  /\ Len(blocks) <= MaxBlocks
  /\ final \in [Nodes -> SUBSET Chain]
  /\ latest \in [Nodes -> Chain]
  /\ \A n \in Nodes : latest[n] \in final[n]
  /\ iter \in [Nodes -> Nat]
  /\ electing \in [Nodes -> Nat] /\ leading \in [Nodes -> Nat]
  /\ proposing \subseteq Blocks

\* The type invariant in the parts that an action changes or leaves alone.
LEMMA TypeParts == Types <=> ThreadTypes /\ MessageTypes /\ RecordTypes /\ ChainTypes
BY DEF Types, TypeOK, Asked, AcceptPlaces, ThreadTypes, MessageTypes, RecordTypes, ChainTypes

\* A block that has been made is one, and what its record holds.
LEMMA MadeIsBlock ==
  ASSUME ChainTypes
  PROVE /\ Made \subseteq Blocks /\ Blocks \subseteq Chain /\ 0 \in Chain /\ Chain \subseteq Nat
        /\ Len(blocks) \in Nat
        /\ \A b \in Made : blocks[b] \in [iteration : Nat, previous : Chain, leader : Nodes]
<1>1. Len(blocks) \in Nat /\ Len(blocks) <= MaxBlocks /\ MaxBlocks \in Nat
  BY RapidAssumption, LenProperties DEF ChainTypes
<1>2. \A b \in Made : blocks[b] \in [iteration : Nat, previous : Chain, leader : Nodes]
  BY ElementOfSeq DEF ChainTypes, Made
<1> QED BY <1>1, <1>2 DEF Made, Blocks, Chain

\* The iteration of a block that has been made, or of the genesis block.
LEMMA IterationIsNat ==
  ASSUME ChainTypes, NEW b \in {0} \cup Made
  PROVE Iteration(b) \in Nat
<1>1. CASE b = 0
  BY <1>1 DEF Iteration
<1>2. CASE b \in Made /\ b # 0
  <2>1. blocks[b] \in [iteration : Nat, previous : Chain, leader : Nodes]
    BY <1>2, MadeIsBlock
  <2> QED BY <1>2, <2>1 DEF Iteration
<1> QED BY <1>1, <1>2

\* How a fetch is started over, and how it ends with block c of member m.
Refetch(n, b) ==
  /\ acceptT' = [acceptT EXCEPT ![n][b] = "request"]
  /\ UNCHANGED <<final, latest, iter, signatures, handled, dead>>

Fetched(n, b, m, c, p) ==
  /\ acceptT[n][b] = "asked"
  /\ acceptT' = [acceptT EXCEPT ![n][b] = p]
  /\ final' = [final EXCEPT ![n] = @ \cup {c}]
  /\ latest' = [latest EXCEPT ![n] = c]
  /\ signatures' = [signatures EXCEPT ![n][c] = signatures[m][c]]
  /\ handled' = [handled EXCEPT ![n] = {x \in @ : x.block # c}]
  /\ UNCHANGED <<iter, dead>>

\* What a fetch may do: end the member asked, ask again, or add a block that is
\* final on the member asked.
LEMMA FetchOutcomes ==
  ASSUME Types, ChainTypes, ThreadTypes, BlocksAreLinked,
         NEW n \in Nodes, NEW b \in Made, AddMissingBlock(n, b)
  PROVE \/ dead' # "none" /\ UNCHANGED <<acceptT, final, latest, iter, signatures, handled>>
        \/ Refetch(n, b)
        \/ \E m \in Nodes, c \in Made, p \in {"fetched", "fetchedLast"} :
             c \in final[m] \ {0} /\ Fetched(n, b, m, c, p)
<1> DEFINE base == asked[n][b].base
           m == asked[n][b].peer
           c == GetByIteration(m, Iteration(base) + 1)
<1>1. b \in Blocks /\ base \in {0} \cup Made /\ m \in Nodes
  <2>1. b \in Blocks
    BY MadeIsBlock
  <2> QED BY <2>1 DEF BlocksAreLinked, ThreadTypes, Asked
<1>2. Iteration(base) \in Nat
  BY <1>1, IterationIsNat
<1>3. c \in final[m] \cup {-1}
  BY <1>1, <1>2, GivesWhatIsFinal
<1>4. c = 0 => Iteration(base) >= Iteration(c)
  BY <1>2 DEF Iteration
<1>5. acceptT[n][b] = "asked"
  BY DEF AddMissingBlock
<1>6. CASE c = -1
  BY <1>6 DEF AddMissingBlock, chainVars
<1>7. CASE c # -1 /\ Iteration(base) >= Iteration(c)
  BY <1>7 DEF AddMissingBlock, chainVars, Refetch
<1>8. CASE c # -1 /\ ~ (Iteration(base) >= Iteration(c))
  <2>1. /\ Appends(n, c) /\ Forget(n, c)
        /\ signatures' = [signatures EXCEPT ![n][c] = signatures[m][c]]
        /\ \E p \in {"fetched", "fetchedLast"} : acceptT' = [acceptT EXCEPT ![n][b] = p]
        /\ UNCHANGED <<iter, dead>>
    BY <1>8 DEF AddMissingBlock
  <2>2. c \in final[m] \ {0}
    BY <1>3, <1>4, <1>8
  <2>3. c \in Made
    BY <1>1, <2>2 DEF BlocksAreLinked
  <2> HIDE DEF base, m, c
  <2> QED BY <1>1, <1>5, <2>1, <2>2, <2>3 DEF Appends, Forget, Fetched
<1> QED BY <1>6, <1>7, <1>8

\* Updates keep the type of what is asked for.
LEMMA AskedUpdates ==
  ASSUME NEW r \in Asked,
         NEW c \in Chain, NEW m \in Nodes, NEW k \in Nat
  PROVE /\ [r EXCEPT !.base = c] \in Asked
        /\ [r EXCEPT !.last = k, !.peer = m] \in Asked
BY DEF Asked

\* A step moves goroutines to places they have.
LEMMA ThreadTypesKept ==
  ASSUME Types, ThreadTypes, MessageTypes, RecordTypes, ChainTypes, BlocksAreLinked, [Next]_vars
  PROVE ThreadTypes'
<1>0. /\ Made \subseteq Blocks /\ Blocks \subseteq Chain /\ Chain \subseteq Nat
      /\ {Len(blocks), MaxBlocks, MaxLateBlocks} \subseteq Nat /\ MaxLateBlocks <= MaxBlocks
  BY MadeIsBlock, RapidAssumption
<1> USE DEF ThreadTypes, threadVars, leaderVars, chainVars, voteVars
<1>1. ASSUME NEW n \in Nodes, StartNewIteration(n) PROVE ThreadTypes'
  BY <1>0, <1>1 DEF StartNewIteration
<1>2. ASSUME NEW n \in Nodes, CreateProposeBlock(n) PROVE ThreadTypes'
  BY <1>0, <1>2 DEF CreateProposeBlock
<1>3. ASSUME NEW n \in Nodes, NEW b \in Made, Propose(n, b) PROVE ThreadTypes'
  BY <1>0, <1>3 DEF Propose
<1>4. ASSUME NEW n \in Nodes, NEW m \in sent, HandlePropose(n, m) PROVE ThreadTypes'
  BY <1>0, <1>4 DEF HandlePropose, AcceptPlaces
<1>5. ASSUME NEW n \in Nodes, NEW m \in sent, HandleVote(n, m) PROVE ThreadTypes'
  BY <1>0, <1>5 DEF HandleVote
<1>6. ASSUME NEW n \in Nodes, NEW m \in sent, MissProposedBlock(n, m) PROVE ThreadTypes'
  BY <1>0, <1>6 DEF MissProposedBlock
<1>7. ASSUME NEW n \in Nodes, NEW b \in Made, SendEcho(n, b) PROVE ThreadTypes'
  BY <1>0, <1>7 DEF SendEcho, AcceptPlaces
<1>8. ASSUME NEW n \in Nodes, NEW b \in Made, HandleConsensusEcho(n, b) PROVE ThreadTypes'
  <2>1. \E v \in {"retry", "done"} : echoT' = [echoT EXCEPT ![n][b] = v]
    BY <1>8, Zenon DEF HandleConsensusEcho
  <2>2. UNCHANGED <<proposeT, acceptT, asked>>
    BY <1>8 DEF HandleConsensusEcho
  <2> QED BY <1>0, <2>1, <2>2
<1>9. ASSUME NEW n \in Nodes, NEW b \in Made, HandleConsensusAccept(n, b) PROVE ThreadTypes'
  BY <1>0, <1>9 DEF HandleConsensusAccept, AcceptPlaces
<1>10. ASSUME NEW n \in Nodes, NEW b \in Made, Pop(n, b) PROVE ThreadTypes'
  BY <1>0, <1>10 DEF Pop, AcceptPlaces
<1>11. ASSUME NEW n \in Nodes, NEW b \in Made, AddFinal(n, b) PROVE ThreadTypes'
  BY <1>0, <1>11 DEF AddFinal, AcceptPlaces
<1>12. ASSUME NEW n \in Nodes, NEW b \in Made, NextIteration(n, b) PROVE ThreadTypes'
  BY <1>0, <1>12 DEF NextIteration, AcceptPlaces
<1>13. ASSUME NEW n \in Nodes, NEW b \in Made, RequestMissingBlock(n, b) PROVE ThreadTypes'
  <2>1. acceptT' = acceptT \/ acceptT' = [acceptT EXCEPT ![n][b] = "request"]
    BY <1>13 DEF RequestMissingBlock
  <2>2. acceptT' \in [Nodes -> [Blocks -> AcceptPlaces]]
    <3>1. CASE acceptT' = acceptT
      BY <3>1
    <3>2. CASE acceptT' = [acceptT EXCEPT ![n][b] = "request"]
      BY <1>0, <3>2 DEF AcceptPlaces
    <3> QED BY <2>1, <3>1, <3>2
  <2> DEFINE r == [asked[n][b] EXCEPT !.base = latest[n]]
  <2>3. asked' = asked \/ asked' = [asked EXCEPT ![n][b] = r]
    BY <1>13 DEF RequestMissingBlock
  <2>4. asked[n][b] \in Asked /\ latest[n] \in Chain
    BY <1>0 DEF ChainTypes
  <2>5. r \in Asked
    BY <2>4, AskedUpdates
  <2> HIDE DEF r
  <2>6. asked' \in [Nodes -> [Blocks -> Asked]]
    <3>1. CASE asked' = asked
      BY <3>1
    <3>2. CASE asked' = [asked EXCEPT ![n][b] = r]
      BY <1>0, <2>5, <3>2
    <3> QED BY <2>3, <3>1, <3>2
  <2>7. UNCHANGED <<proposeT, echoT>>
    BY <1>13 DEF RequestMissingBlock
  <2> QED BY <2>2, <2>6, <2>7
<1>14. ASSUME NEW n \in Nodes, NEW b \in Made, ReadLastIteration(n, b) PROVE ThreadTypes'
  <2>1. PICK m \in Nodes :
          asked' = [asked EXCEPT ![n][b] = [@ EXCEPT !.last = Iteration(latest[m]), !.peer = m]]
    BY <1>14 DEF ReadLastIteration
  <2>2. latest[m] \in {0} \cup Made
    BY DEF ChainTypes, BlocksAreLinked
  <2>3. Iteration(latest[m]) \in Nat /\ asked[n][b] \in Asked /\ 0 \in Chain
    BY <1>0, <2>2, IterationIsNat, MadeIsBlock
  <2> DEFINE i == Iteration(latest[m])
           r == [asked[n][b] EXCEPT !.last = i, !.peer = m]
  <2>4. asked' = [asked EXCEPT ![n][b] = r]
    BY <2>1
  <2>5. r \in Asked
    <3> HIDE DEF i
    <3> QED BY <2>3, AskedUpdates DEF i
  <2> HIDE DEF r
  <2>6. asked' \in [Nodes -> [Blocks -> Asked]]
    BY <1>0, <2>4, <2>5
  <2>7. acceptT' \in [Nodes -> [Blocks -> AcceptPlaces]]
    BY <1>0, <1>14 DEF ReadLastIteration, AcceptPlaces
  <2>8. UNCHANGED <<proposeT, echoT>>
    BY <1>14 DEF ReadLastIteration
  <2> QED BY <2>6, <2>7, <2>8
<1>15. ASSUME NEW n \in Nodes, NEW b \in Made, AddMissingBlock(n, b) PROVE ThreadTypes'
  <2>1. acceptT' = acceptT \/ \E p \in AcceptPlaces : acceptT' = [acceptT EXCEPT ![n][b] = p]
    BY <1>15, FetchOutcomes DEF Refetch, Fetched, AcceptPlaces
  <2>2. UNCHANGED <<proposeT, echoT, asked>>
    BY <1>15 DEF AddMissingBlock
  <2>3. acceptT' \in [Nodes -> [Blocks -> AcceptPlaces]]
    <3>1. CASE acceptT' = acceptT
      BY <3>1
    <3>2. ASSUME NEW p \in AcceptPlaces, acceptT' = [acceptT EXCEPT ![n][b] = p]
          PROVE acceptT' \in [Nodes -> [Blocks -> AcceptPlaces]]
      BY <1>0, <3>2
    <3> QED BY <2>1, <3>1, <3>2
  <2> QED BY <2>2, <2>3
<1>16. ASSUME NEW n \in Nodes, NEW b \in Made, NextAfterMissing(n, b) PROVE ThreadTypes'
  <2>1. acceptT' = acceptT \/ \E p \in AcceptPlaces : acceptT' = [acceptT EXCEPT ![n][b] = p]
    BY <1>16 DEF NextAfterMissing, AcceptPlaces
  <2>2. UNCHANGED <<proposeT, echoT, asked>>
    BY <1>16 DEF NextAfterMissing
  <2>3. acceptT' \in [Nodes -> [Blocks -> AcceptPlaces]]
    <3>1. CASE acceptT' = acceptT
      BY <3>1
    <3>2. ASSUME NEW p \in AcceptPlaces, acceptT' = [acceptT EXCEPT ![n][b] = p]
          PROVE acceptT' \in [Nodes -> [Blocks -> AcceptPlaces]]
      BY <1>0, <3>2
    <3> QED BY <2>1, <3>1, <3>2
  <2> QED BY <2>2, <2>3
<1>17. CASE UNCHANGED vars
  BY <1>17 DEF vars
<1> QED BY <1>1, <1>2, <1>3, <1>4, <1>5, <1>6, <1>7, <1>8, <1>9, <1>10, <1>11, <1>12, <1>13,
    <1>14, <1>15, <1>16, <1>17
  DEF Next, Terminated, LeaderStep, Receive, Thread, Fetch, BlocksAreLinked

\* A step sends and handles messages only.
LEMMA MessageTypesKept ==
  ASSUME Types, ThreadTypes, MessageTypes, RecordTypes, ChainTypes, BlocksAreLinked, [Next]_vars
  PROVE MessageTypes'
<1>0. /\ Made \subseteq Blocks /\ Blocks \subseteq Chain /\ Chain \subseteq Nat
      /\ {Len(blocks), MaxBlocks, MaxLateBlocks} \subseteq Nat /\ MaxLateBlocks <= MaxBlocks
  BY MadeIsBlock, RapidAssumption
<1> USE
  DEF MessageTypes, threadVars, leaderVars, chainVars, voteVars, Tags, Messages,
    SendMsgToCommitteeAndSelf, Handled, Add, Forget
<1>1. ASSUME NEW n \in Nodes, StartNewIteration(n) PROVE MessageTypes'
  BY <1>0, <1>1 DEF StartNewIteration
<1>2. ASSUME NEW n \in Nodes, CreateProposeBlock(n) PROVE MessageTypes'
  BY <1>0, <1>2 DEF CreateProposeBlock
<1>3. ASSUME NEW n \in Nodes, NEW b \in Made, Propose(n, b) PROVE MessageTypes'
  <2>1. sent' = sent \/ sent' = sent \cup {[tag |-> "propose", block |-> b, from |-> n]}
    BY <1>3 DEF Propose
  <2>2. sent \subseteq sent' /\ sent' \subseteq Messages
    BY <1>0, <2>1
  <2> QED BY <1>3, <2>2 DEF Propose
<1>4. ASSUME NEW n \in Nodes, NEW m \in sent, HandlePropose(n, m) PROVE MessageTypes'
  BY <1>0, <1>4 DEF HandlePropose
<1>5. ASSUME NEW n \in Nodes, NEW m \in sent, HandleVote(n, m) PROVE MessageTypes'
  BY <1>0, <1>5 DEF HandleVote
<1>6. ASSUME NEW n \in Nodes, NEW m \in sent, MissProposedBlock(n, m) PROVE MessageTypes'
  BY <1>0, <1>6 DEF MissProposedBlock
<1>7. ASSUME NEW n \in Nodes, NEW b \in Made, SendEcho(n, b) PROVE MessageTypes'
  <2>1. sent' = sent \/ sent' = sent \cup {[tag |-> "echo", block |-> b, from |-> n]}
    BY <1>7 DEF SendEcho
  <2>2. sent \subseteq sent' /\ sent' \subseteq Messages
    BY <1>0, <2>1
  <2> QED BY <1>7, <2>2 DEF SendEcho
<1>8. ASSUME NEW n \in Nodes, NEW b \in Made, HandleConsensusEcho(n, b) PROVE MessageTypes'
  <2>1. sent' = sent \/ sent' = sent \cup {[tag |-> "accept", block |-> b, from |-> n]}
    BY <1>8 DEF HandleConsensusEcho
  <2>2. sent \subseteq sent' /\ sent' \subseteq Messages
    BY <1>0, <2>1
  <2> QED BY <1>8, <2>2 DEF HandleConsensusEcho
<1>9. ASSUME NEW n \in Nodes, NEW b \in Made, HandleConsensusAccept(n, b) PROVE MessageTypes'
  BY <1>0, <1>9 DEF HandleConsensusAccept
<1>10. ASSUME NEW n \in Nodes, NEW b \in Made, Pop(n, b) PROVE MessageTypes'
  BY <1>0, <1>10 DEF Pop
<1>11. ASSUME NEW n \in Nodes, NEW b \in Made, AddFinal(n, b) PROVE MessageTypes'
  BY <1>0, <1>11 DEF AddFinal
<1>12. ASSUME NEW n \in Nodes, NEW b \in Made, NextIteration(n, b) PROVE MessageTypes'
  BY <1>0, <1>12 DEF NextIteration
<1>13. ASSUME NEW n \in Nodes, NEW b \in Made, RequestMissingBlock(n, b) PROVE MessageTypes'
  BY <1>0, <1>13 DEF RequestMissingBlock
<1>14. ASSUME NEW n \in Nodes, NEW b \in Made, ReadLastIteration(n, b) PROVE MessageTypes'
  BY <1>0, <1>14 DEF ReadLastIteration
<1>15. ASSUME NEW n \in Nodes, NEW b \in Made, AddMissingBlock(n, b) PROVE MessageTypes'
  <2>1. UNCHANGED <<sent, known>>
    BY <1>15 DEF AddMissingBlock
  <2>2. CASE UNCHANGED handled
    BY <2>1, <2>2
  <2>3. ASSUME NEW m \in Nodes, NEW c \in Made, NEW p, Fetched(n, b, m, c, p) PROVE MessageTypes'
    <3>1. handled' = [handled EXCEPT ![n] = {x \in @ : x.block # c}]
      BY <2>3 DEF Fetched
    <3>2. {x \in handled[n] : x.block # c} \subseteq sent
      OBVIOUS
    <3> QED BY <2>1, <3>1, <3>2
  <2> QED BY <2>2, <2>3, <1>15, FetchOutcomes DEF Refetch
<1>16. ASSUME NEW n \in Nodes, NEW b \in Made, NextAfterMissing(n, b) PROVE MessageTypes'
  BY <1>0, <1>16 DEF NextAfterMissing
<1>17. CASE UNCHANGED vars
  BY <1>17 DEF vars
<1> QED BY <1>1, <1>2, <1>3, <1>4, <1>5, <1>6, <1>7, <1>8, <1>9, <1>10, <1>11, <1>12, <1>13,
    <1>14, <1>15, <1>16, <1>17
  DEF Next, Terminated, LeaderStep, Receive, Thread, Fetch, BlocksAreLinked

\* A step records votes and signatures of members.
LEMMA RecordTypesKept ==
  ASSUME Types, ThreadTypes, MessageTypes, RecordTypes, ChainTypes, BlocksAreLinked, [Next]_vars
  PROVE RecordTypes'
<1>0. /\ Made \subseteq Blocks /\ Blocks \subseteq Chain /\ Chain \subseteq Nat
      /\ {Len(blocks), MaxBlocks, MaxLateBlocks} \subseteq Nat /\ MaxLateBlocks <= MaxBlocks
  BY MadeIsBlock, RapidAssumption
<1> USE
  DEF RecordTypes, threadVars, leaderVars, chainVars, voteVars, Tags, Messages, MessageTypes,
    Handled, Add, Forget
<1>1. ASSUME NEW n \in Nodes, StartNewIteration(n) PROVE RecordTypes'
  BY <1>0, <1>1 DEF StartNewIteration
<1>2. ASSUME NEW n \in Nodes, CreateProposeBlock(n) PROVE RecordTypes'
  BY <1>0, <1>2 DEF CreateProposeBlock
<1>3. ASSUME NEW n \in Nodes, NEW b \in Made, Propose(n, b) PROVE RecordTypes'
  BY <1>0, <1>3 DEF Propose
<1>4. ASSUME NEW n \in Nodes, NEW m \in sent, HandlePropose(n, m) PROVE RecordTypes'
  BY <1>0, <1>4 DEF HandlePropose
<1>5. ASSUME NEW n \in Nodes, NEW m \in sent, HandleVote(n, m) PROVE RecordTypes'
  BY <1>0, <1>5 DEF HandleVote
<1>6. ASSUME NEW n \in Nodes, NEW m \in sent, MissProposedBlock(n, m) PROVE RecordTypes'
  BY <1>0, <1>6 DEF MissProposedBlock
<1>7. ASSUME NEW n \in Nodes, NEW b \in Made, SendEcho(n, b) PROVE RecordTypes'
  BY <1>0, <1>7 DEF SendEcho
<1>8. ASSUME NEW n \in Nodes, NEW b \in Made, HandleConsensusEcho(n, b) PROVE RecordTypes'
  BY <1>0, <1>8 DEF HandleConsensusEcho
<1>9. ASSUME NEW n \in Nodes, NEW b \in Made, HandleConsensusAccept(n, b) PROVE RecordTypes'
  BY <1>0, <1>9 DEF HandleConsensusAccept
<1>10. ASSUME NEW n \in Nodes, NEW b \in Made, Pop(n, b) PROVE RecordTypes'
  <2>1. signatures' = [signatures EXCEPT ![n][b] = GetAllConsensusMsgs(n, b)]
        /\ msgs' = [msgs EXCEPT ![n][b] = [m \in Nodes |-> "none"]]
    BY <1>10 DEF Pop
  <2>2. GetAllConsensusMsgs(n, b) \subseteq Nodes \X Tags
    BY DEF GetAllConsensusMsgs
  <2> QED BY <2>1, <2>2
<1>11. ASSUME NEW n \in Nodes, NEW b \in Made, AddFinal(n, b) PROVE RecordTypes'
  BY <1>0, <1>11 DEF AddFinal
<1>12. ASSUME NEW n \in Nodes, NEW b \in Made, NextIteration(n, b) PROVE RecordTypes'
  BY <1>0, <1>12 DEF NextIteration
<1>13. ASSUME NEW n \in Nodes, NEW b \in Made, RequestMissingBlock(n, b) PROVE RecordTypes'
  BY <1>0, <1>13 DEF RequestMissingBlock
<1>14. ASSUME NEW n \in Nodes, NEW b \in Made, ReadLastIteration(n, b) PROVE RecordTypes'
  BY <1>0, <1>14 DEF ReadLastIteration
<1>15. ASSUME NEW n \in Nodes, NEW b \in Made, AddMissingBlock(n, b) PROVE RecordTypes'
  <2>1. msgs' = msgs
    BY <1>15 DEF AddMissingBlock
  <2>2. CASE UNCHANGED signatures
    BY <2>1, <2>2
  <2>3. ASSUME NEW m \in Nodes, NEW c \in Made, NEW p, Fetched(n, b, m, c, p) PROVE RecordTypes'
    BY <1>0, <2>1, <2>3 DEF Fetched
  <2> QED BY <2>2, <2>3, <1>15, FetchOutcomes DEF Refetch
<1>16. ASSUME NEW n \in Nodes, NEW b \in Made, NextAfterMissing(n, b) PROVE RecordTypes'
  BY <1>0, <1>16 DEF NextAfterMissing
<1>17. CASE UNCHANGED vars
  BY <1>17 DEF vars
<1> QED BY <1>1, <1>2, <1>3, <1>4, <1>5, <1>6, <1>7, <1>8, <1>9, <1>10, <1>11, <1>12, <1>13,
    <1>14, <1>15, <1>16, <1>17
  DEF Next, Terminated, LeaderStep, Receive, Thread, Fetch, BlocksAreLinked

\* A block appended to a node's chain.
LEMMA ChainAppended ==
  ASSUME ChainTypes, NEW n \in Nodes, NEW c \in Chain, UNCHANGED leaderVars, UNCHANGED iter,
         final' = [final EXCEPT ![n] = @ \cup {c}], latest' = [latest EXCEPT ![n] = c]
  PROVE ChainTypes'
<1>1. final' \in [Nodes -> SUBSET Chain] /\ latest' \in [Nodes -> Chain]
  BY DEF ChainTypes
<1>2. \A x \in Nodes : latest'[x] \in final'[x]
  BY DEF ChainTypes
<1> QED BY <1>1, <1>2 DEF ChainTypes, leaderVars

\* A step leaves every node on a block of the chain.
LEMMA ChainTypesKept ==
  ASSUME Types, ThreadTypes, MessageTypes, RecordTypes, ChainTypes, BlocksAreLinked, [Next]_vars
  PROVE ChainTypes'
<1>0. /\ Made \subseteq Blocks /\ Blocks \subseteq Chain /\ Chain \subseteq Nat
      /\ {Len(blocks), MaxBlocks, MaxLateBlocks} \subseteq Nat /\ MaxLateBlocks <= MaxBlocks
  BY MadeIsBlock, RapidAssumption
<1> USE DEF ChainTypes, threadVars, leaderVars, chainVars, voteVars, Appends
<1>1. ASSUME NEW n \in Nodes, StartNewIteration(n) PROVE ChainTypes'
  <2>1. electing' \in [Nodes -> Nat]
    BY <1>1 DEF StartNewIteration
  <2>2. leading' \in [Nodes -> Nat]
    BY <1>1 DEF StartNewIteration
  <2> QED BY <1>1, <2>1, <2>2 DEF StartNewIteration
<1>2. ASSUME NEW n \in Nodes, CreateProposeBlock(n) PROVE ChainTypes'
  <2> DEFINE r == [iteration |-> iter[n], previous |-> latest[n], leader |-> n]
  <2>1. blocks' = Append(blocks, r) /\ \E k \in {MaxBlocks, MaxLateBlocks} : Len(blocks) < k
    BY <1>2 DEF CreateProposeBlock
  <2>2. Len(blocks) \in Nat /\ Len(blocks) < MaxBlocks
    BY <1>0, <2>1
  <2>3. r \in [iteration : Nat, previous : Chain, leader : Nodes]
    OBVIOUS
  <2>4. /\ blocks' \in Seq([iteration : Nat, previous : Chain, leader : Nodes])
        /\ Len(blocks') = Len(blocks) + 1
    BY <2>1, <2>3, AppendProperties
  <2>5. Len(blocks') \in Blocks /\ Len(blocks') <= MaxBlocks
    <3>1. Len(blocks') = Len(blocks) + 1 /\ MaxBlocks \in Nat
      BY <1>0, <2>4
    <3> QED BY <2>2, <3>1 DEF Blocks
  <2>6. proposing' = proposing \cup {Len(blocks')} /\ UNCHANGED <<timely, electing, chainVars>>
    BY <1>2 DEF CreateProposeBlock
  <2>7. leading' \in [Nodes -> Nat]
    BY <1>2 DEF CreateProposeBlock
  <2> HIDE DEF r
  <2> QED BY <2>4, <2>5, <2>6, <2>7
<1>3. ASSUME NEW n \in Nodes, NEW b \in Made, Propose(n, b) PROVE ChainTypes'
  BY <1>0, <1>3 DEF Propose
<1>4. ASSUME NEW n \in Nodes, NEW m \in sent, HandlePropose(n, m) PROVE ChainTypes'
  BY <1>0, <1>4 DEF HandlePropose
<1>5. ASSUME NEW n \in Nodes, NEW m \in sent, HandleVote(n, m) PROVE ChainTypes'
  BY <1>0, <1>5 DEF HandleVote
<1>6. ASSUME NEW n \in Nodes, NEW m \in sent, MissProposedBlock(n, m) PROVE ChainTypes'
  BY <1>0, <1>6 DEF MissProposedBlock
<1>7. ASSUME NEW n \in Nodes, NEW b \in Made, SendEcho(n, b) PROVE ChainTypes'
  BY <1>0, <1>7 DEF SendEcho
<1>8. ASSUME NEW n \in Nodes, NEW b \in Made, HandleConsensusEcho(n, b) PROVE ChainTypes'
  BY <1>0, <1>8 DEF HandleConsensusEcho
<1>9. ASSUME NEW n \in Nodes, NEW b \in Made, HandleConsensusAccept(n, b) PROVE ChainTypes'
  BY <1>0, <1>9 DEF HandleConsensusAccept
<1>10. ASSUME NEW n \in Nodes, NEW b \in Made, Pop(n, b) PROVE ChainTypes'
  BY <1>0, <1>10 DEF Pop
<1>11. ASSUME NEW n \in Nodes, NEW b \in Made, AddFinal(n, b) PROVE ChainTypes'
  <2>1. UNCHANGED <<leaderVars, iter>> /\ final' = [final EXCEPT ![n] = @ \cup {b}]
        /\ latest' = [latest EXCEPT ![n] = b]
    BY <1>11 DEF AddFinal
  <2> QED BY <1>0, <2>1, MadeIsBlock, ChainAppended
<1>12. ASSUME NEW n \in Nodes, NEW b \in Made, NextIteration(n, b) PROVE ChainTypes'
  BY <1>0, <1>12 DEF NextIteration
<1>13. ASSUME NEW n \in Nodes, NEW b \in Made, RequestMissingBlock(n, b) PROVE ChainTypes'
  BY <1>0, <1>13 DEF RequestMissingBlock
<1>14. ASSUME NEW n \in Nodes, NEW b \in Made, ReadLastIteration(n, b) PROVE ChainTypes'
  BY <1>0, <1>14 DEF ReadLastIteration
<1>15. ASSUME NEW n \in Nodes, NEW b \in Made, AddMissingBlock(n, b) PROVE ChainTypes'
  <2>1. UNCHANGED <<leaderVars, iter>>
    BY <1>15, FetchOutcomes DEF AddMissingBlock, Refetch, Fetched
  <2>2. CASE UNCHANGED <<final, latest>>
    BY <2>1, <2>2
  <2>3. CASE \E c \in Made : /\ final' = [final EXCEPT ![n] = @ \cup {c}]
                             /\ latest' = [latest EXCEPT ![n] = c]
    BY <1>0, <2>1, <2>3, MadeIsBlock, ChainAppended
  <2> QED BY <2>2, <2>3, <1>15, FetchOutcomes DEF Refetch, Fetched
<1>16. ASSUME NEW n \in Nodes, NEW b \in Made, NextAfterMissing(n, b) PROVE ChainTypes'
  <2>1. electing' = electing \/ electing' = [electing EXCEPT ![n] = @ + 1]
    BY <1>16 DEF NextAfterMissing
  <2>2. iter' = [iter EXCEPT ![n] = @ + 1]
        /\ UNCHANGED <<timely, leading, proposing, blocks, final, latest>>
    BY <1>16 DEF NextAfterMissing
  <2> QED BY <2>1, <2>2
<1>17. CASE UNCHANGED vars
  BY <1>17 DEF vars
<1> QED BY <1>1, <1>2, <1>3, <1>4, <1>5, <1>6, <1>7, <1>8, <1>9, <1>10, <1>11, <1>12, <1>13,
    <1>14, <1>15, <1>16, <1>17
  DEF Next, Terminated, LeaderStep, Receive, Thread, Fetch, BlocksAreLinked

-----------------------------------------------------------------------------
\* What the variables that BlocksAreLinked reads may become.
LEMMA LinkedIfBlocksStay ==
  ASSUME BlocksAreLinked, UNCHANGED <<blocks, final, asked>>,
         proposing' \subseteq proposing, \A m \in sent' : m \in sent \/ m.block \in Made
  PROVE BlocksAreLinked'
BY DEF BlocksAreLinked, Made, Previous

\* No step, a fetch included, makes a block final that has not been made.
LEMMA LinkedKept ==
  ASSUME Types, BlocksAreLinked, [Next]_vars
  PROVE BlocksAreLinked'
<1>0. /\ Made \subseteq Blocks /\ Blocks \subseteq Chain /\ Chain \subseteq Nat /\ Len(blocks) \in Nat
      /\ ChainTypes /\ ThreadTypes /\ \A b \in Made : Previous(b) \in Chain
  <2>1. ChainTypes /\ ThreadTypes
    BY TypeParts
  <2>2. \A b \in Made : blocks[b] \in [iteration : Nat, previous : Chain, leader : Nodes]
    BY <2>1, MadeIsBlock
  <2> QED BY <2>1, <2>2, MadeIsBlock DEF Previous
<1> USE DEF threadVars, leaderVars, chainVars, voteVars
<1>1. ASSUME NEW n \in Nodes, CreateProposeBlock(n) PROVE BlocksAreLinked'
  <2> DEFINE r == [iteration |-> iter[n], previous |-> latest[n], leader |-> n]
             Rec == [iteration : Nat, previous : Chain, leader : Nodes]
  <2>1. /\ blocks' = Append(blocks, r) /\ proposing' = proposing \cup {Len(blocks')}
        /\ UNCHANGED <<final, asked, sent>>
    BY <1>1 DEF CreateProposeBlock
  <2>2. r \in Rec /\ blocks \in Seq(Rec)
    BY <1>0 DEF ChainTypes
  <2>3. /\ Len(blocks') = Len(blocks) + 1 /\ blocks'[Len(blocks) + 1] = r
        /\ \A b \in Made : blocks'[b] = blocks[b]
    <3> HIDE DEF r, Rec
    <3> QED BY <2>1, <2>2, AppendProperties DEF Made
  <2>4. Made' = Made \cup {Len(blocks) + 1} /\ proposing' \subseteq Made'
    <3>1. Made' = 1..(Len(blocks) + 1)
      BY <2>3 DEF Made
    <3>2. Made' = Made \cup {Len(blocks) + 1}
      BY <1>0, <3>1 DEF Made
    <3> QED BY <2>1, <2>3, <3>2 DEF BlocksAreLinked
  <2>5. latest[n] \in {0} \cup Made
    BY <1>0 DEF ChainTypes, BlocksAreLinked
  <2>6. ASSUME NEW b \in Made' PROVE Previous(b)' < b
    <3>1. CASE b \in Made
      BY <2>3, <3>1 DEF BlocksAreLinked, Previous
    <3>2. CASE b = Len(blocks) + 1
      BY <1>0, <2>3, <2>5, <3>2 DEF Previous, Made
    <3> QED BY <2>4, <3>1, <3>2
  <2> QED BY <2>1, <2>4, <2>6 DEF BlocksAreLinked
<1>2. ASSUME NEW n \in Nodes, NEW b \in Made, AddFinal(n, b) PROVE BlocksAreLinked'
  <2>1. final' = [final EXCEPT ![n] = @ \cup {b}] /\ UNCHANGED <<blocks, proposing, asked, sent>>
    BY <1>2 DEF AddFinal, Appends
  <2> QED BY <1>0, <2>1 DEF BlocksAreLinked, Made, ChainTypes, Previous
<1>3. ASSUME NEW n \in Nodes, NEW b \in Made, RequestMissingBlock(n, b) PROVE BlocksAreLinked'
  <2>1. UNCHANGED <<blocks, proposing, final, sent>>
    BY <1>3 DEF RequestMissingBlock
  <2>2. \/ asked' = asked
        \/ asked' = [asked EXCEPT ![n][b] = [@ EXCEPT !.base = latest[n]]]
    BY <1>3 DEF RequestMissingBlock
  <2>3. latest[n] \in {0} \cup Made
    BY <1>0 DEF ChainTypes, BlocksAreLinked
  <2>4. \A x \in Nodes, c \in Blocks : asked'[x][c].base \in {0} \cup Made
    <3>1. CASE asked' = asked
      BY <3>1 DEF BlocksAreLinked
    <3>2. CASE asked' = [asked EXCEPT ![n][b] = [@ EXCEPT !.base = latest[n]]]
      BY <1>0, <2>3, <3>2 DEF BlocksAreLinked, ThreadTypes, Asked
    <3> QED BY <2>2, <3>1, <3>2
  <2> QED BY <2>1, <2>4 DEF BlocksAreLinked, Made, Previous
<1>4. ASSUME NEW n \in Nodes, NEW b \in Made, ReadLastIteration(n, b) PROVE BlocksAreLinked'
  <2>1. UNCHANGED <<blocks, proposing, final, sent>>
    BY <1>4 DEF ReadLastIteration
  <2>2. PICK m \in Nodes :
          asked' = [asked EXCEPT ![n][b] = [@ EXCEPT !.last = Iteration(latest[m]), !.peer = m]]
    BY <1>4 DEF ReadLastIteration
  <2> DEFINE i == Iteration(latest[m])
             r == [asked[n][b] EXCEPT !.last = i, !.peer = m]
  <2>3. asked' = [asked EXCEPT ![n][b] = r]
    BY <2>2
  <2>4. r.base = asked[n][b].base
    <3> HIDE DEF i
    <3> QED BY <1>0 DEF ThreadTypes, Asked
  <2> HIDE DEF r
  <2>5. \A x \in Nodes, c \in Blocks : asked'[x][c].base \in {0} \cup Made
    BY <1>0, <2>3, <2>4 DEF BlocksAreLinked, ThreadTypes
  <2> QED BY <2>1, <2>5 DEF BlocksAreLinked, Made, Previous
<1>5. ASSUME NEW n \in Nodes, NEW b \in Made, AddMissingBlock(n, b) PROVE BlocksAreLinked'
  <2>1. UNCHANGED <<blocks, proposing, asked, sent>>
    BY <1>5 DEF AddMissingBlock
  <2>2. CASE UNCHANGED final
    BY <2>1, <2>2, LinkedIfBlocksStay
  <2>3. ASSUME NEW c \in Made, final' = [final EXCEPT ![n] = @ \cup {c}] PROVE BlocksAreLinked'
    BY <1>0, <2>1, <2>3 DEF BlocksAreLinked, Made, ChainTypes, Previous
  <2> QED BY <1>0, <1>5, <2>2, <2>3, FetchOutcomes DEF Refetch, Fetched
<1>6. ASSUME NEW n \in Nodes, NEW b \in Made, Propose(n, b) PROVE BlocksAreLinked'
  BY <1>6, LinkedIfBlocksStay DEF Propose, SendMsgToCommitteeAndSelf
<1>7. ASSUME NEW n \in Nodes, NEW b \in Made, SendEcho(n, b) PROVE BlocksAreLinked'
  BY <1>7, LinkedIfBlocksStay DEF SendEcho, SendMsgToCommitteeAndSelf
<1>8. ASSUME NEW n \in Nodes, NEW b \in Made, HandleConsensusEcho(n, b) PROVE BlocksAreLinked'
  BY <1>8, LinkedIfBlocksStay DEF HandleConsensusEcho, SendMsgToCommitteeAndSelf
<1>9. ASSUME NEW n \in Nodes, StartNewIteration(n) PROVE BlocksAreLinked'
  BY <1>9, LinkedIfBlocksStay DEF StartNewIteration
<1>10. ASSUME NEW n \in Nodes, Receive(n) PROVE BlocksAreLinked'
  <2>1. UNCHANGED <<blocks, proposing, final, asked, sent>>
    BY <1>10 DEF Receive, HandlePropose, HandleVote, MissProposedBlock
  <2> QED BY <2>1, LinkedIfBlocksStay
<1>11. ASSUME NEW n \in Nodes, NEW b \in Made,
              \/ HandleConsensusAccept(n, b) \/ Pop(n, b) \/ NextIteration(n, b)
              \/ NextAfterMissing(n, b)
       PROVE BlocksAreLinked'
  <2>1. UNCHANGED <<blocks, proposing, final, asked, sent>>
    BY <1>11 DEF HandleConsensusAccept, Pop, NextIteration, NextAfterMissing
  <2> QED BY <2>1, LinkedIfBlocksStay
<1>12. CASE UNCHANGED vars
  BY <1>12, LinkedIfBlocksStay DEF vars
<1>13. proposing \subseteq Made
  BY DEF BlocksAreLinked
<1> QED
  BY <1>1, <1>2, <1>3, <1>4, <1>5, <1>6, <1>7, <1>8, <1>9, <1>10, <1>11, <1>12, <1>13
  DEF Next, Terminated, LeaderStep, Thread, Fetch

-----------------------------------------------------------------------------
\* Nothing that was sent is taken back, so what voters there were are there.
LEMMA SentGrows == ASSUME [Next]_vars PROVE sent \subseteq sent'
<1> USE DEF SendMsgToCommitteeAndSelf, voteVars, leaderVars, chainVars, threadVars
<1>1. ASSUME NEW n \in Nodes, LeaderStep(n) PROVE sent \subseteq sent'
  BY <1>1 DEF LeaderStep, StartNewIteration, CreateProposeBlock, Propose
<1>2. ASSUME NEW n \in Nodes, Receive(n) PROVE sent \subseteq sent'
  BY <1>2 DEF Receive, HandlePropose, HandleVote, MissProposedBlock
<1>3. ASSUME NEW n \in Nodes, NEW b \in Made, Thread(n, b) PROVE sent \subseteq sent'
  BY <1>3 DEF Thread, SendEcho, HandleConsensusEcho, HandleConsensusAccept, Pop, AddFinal,
              NextIteration
<1>4. ASSUME NEW n \in Nodes, NEW b \in Made, Fetch(n, b) PROVE sent \subseteq sent'
  BY <1>4 DEF Fetch, RequestMissingBlock, ReadLastIteration, AddMissingBlock, NextAfterMissing
<1> QED BY <1>1, <1>2, <1>3, <1>4 DEF Next, Terminated, vars

\* Votes that were enough stay enough: nothing sent is taken back.
LEMMA VotersStay ==
  ASSUME sent \subseteq sent', NEW t, NEW b, Cardinality(Voters(t, b)) >= RequiredVotes
  PROVE Cardinality(Voters(t, b)') >= RequiredVotes
<1>1. Voters(t, b) \subseteq Voters(t, b)' /\ Voters(t, b)' \subseteq Nodes
  BY DEF Voters
<1> QED BY <1>1, MoreMembers, VotesNeeded

\* As many as required have more members among them than none.
LEMMA SomeVoter ==
  ASSUME NEW S, Cardinality(S) >= RequiredVotes, S \subseteq Nodes
  PROVE S # {}
BY VotesNeeded, FS_EmptySet

\* Only votes that were sent are recorded.
LEMMA MsgsAreSentKept ==
  ASSUME Types, MsgsAreSent, [Next]_vars
  PROVE MsgsAreSent'
<1> USE DEF voteVars, leaderVars, chainVars, threadVars
<1>1. sent \subseteq sent' /\ RecordTypes /\ sent \subseteq Messages
  BY SentGrows, TypeParts DEF MessageTypes
<1>2. CASE UNCHANGED msgs
  BY <1>1, <1>2 DEF MsgsAreSent
<1>3. ASSUME NEW n \in Nodes, NEW m \in sent, Add(n, m) PROVE MsgsAreSent'
  <2>1. m.block \in Blocks /\ m.from \in Nodes /\ m = [tag |-> m.tag, block |-> m.block, from |-> m.from]
    BY <1>1 DEF Messages
  <2>2. ASSUME NEW x \in Nodes, NEW b \in Blocks, NEW y \in Nodes, msgs'[x][b][y] # "none"
        PROVE [tag |-> msgs'[x][b][y], block |-> b, from |-> y] \in sent'
    <3>1. CASE x = n /\ b = m.block /\ y = m.from
      <4>1. msgs'[x][b][y] = m.tag
        BY <1>1, <1>3, <2>1, <3>1 DEF Add, RecordTypes
      <4> QED BY <1>1, <2>1, <3>1, <4>1
    <3>2. CASE ~ (x = n /\ b = m.block /\ y = m.from)
      <4>1. msgs'[x][b][y] = msgs[x][b][y]
        BY <1>1, <1>3, <2>1, <3>2 DEF Add, RecordTypes
      <4> QED BY <1>1, <2>2, <4>1 DEF MsgsAreSent
    <3> QED BY <3>1, <3>2
  <2> QED BY <2>2 DEF MsgsAreSent
<1>4. ASSUME NEW n \in Nodes, NEW b \in Blocks, Pop(n, b) PROVE MsgsAreSent'
  <2>1. \A x \in Nodes, c \in Blocks, y \in Nodes : msgs'[x][c][y] \in {msgs[x][c][y], "none"}
    BY <1>1, <1>4 DEF Pop, RecordTypes
  <2> QED BY <1>1, <2>1 DEF MsgsAreSent
<1>5. \/ UNCHANGED msgs
      \/ \E n \in Nodes, m \in sent : Add(n, m)
      \/ \E n \in Nodes, b \in Made : Pop(n, b)
  <2>1. ASSUME NEW n \in Nodes, LeaderStep(n) PROVE UNCHANGED msgs
    BY <2>1 DEF LeaderStep, StartNewIteration, CreateProposeBlock, Propose
  <2>2. ASSUME NEW n \in Nodes, Receive(n)
        PROVE UNCHANGED msgs \/ \E m \in sent : Add(n, m)
    BY <2>2 DEF Receive, HandlePropose, HandleVote, MissProposedBlock
  <2>3. ASSUME NEW n \in Nodes, NEW b \in Made, Thread(n, b) PROVE UNCHANGED msgs \/ Pop(n, b)
    BY <2>3 DEF Thread, SendEcho, HandleConsensusEcho, HandleConsensusAccept, AddFinal,
                NextIteration
  <2>4. ASSUME NEW n \in Nodes, NEW b \in Made, Fetch(n, b) PROVE UNCHANGED msgs
    BY <2>4 DEF Fetch, RequestMissingBlock, ReadLastIteration, AddMissingBlock, NextAfterMissing
  <2> QED BY <2>1, <2>2, <2>3, <2>4 DEF Next, Terminated, vars
<1>6. Made \subseteq Blocks
  BY MadeIsBlock, TypeParts
<1> QED BY <1>2, <1>3, <1>4, <1>5, <1>6

\* Whoever accepts has counted echoes, or an accept that rests on echoes.
LEMMA EchoesBehindAcceptsKept ==
  ASSUME Types, MsgsAreSent, EchoesBehindAccepts, [Next]_vars
  PROVE EchoesBehindAccepts'
<1> USE DEF voteVars, leaderVars, chainVars, threadVars
<1>1. sent \subseteq sent' /\ RecordTypes /\ Made \subseteq Blocks
  BY SentGrows, TypeParts, MadeIsBlock
<1>2. ASSUME NEW n \in Nodes, NEW b \in Blocks,
             sent' = sent \cup {[tag |-> "accept", block |-> b, from |-> n]},
             CountValidVotes(n, b) >= RequiredVotes
      PROVE EchoesBehindAccepts'
  <2> DEFINE C == {x \in Nodes : msgs[n][b][x] \in {"echo", "accept"}}
  <2>1. Cardinality(C) >= RequiredVotes
    BY <1>2 DEF CountValidVotes
  <2>2. Cardinality(Voters("echo", b)) >= RequiredVotes
    <3>1. CASE Voters("accept", b) # {}
      BY <3>1 DEF EchoesBehindAccepts
    <3>2. CASE Voters("accept", b) = {}
      <4>1. C \subseteq Voters("echo", b) /\ Voters("echo", b) \subseteq Nodes
        BY <3>2 DEF MsgsAreSent, Voters
      <4> HIDE DEF C
      <4> QED BY <2>1, <4>1, MoreMembers, VotesNeeded
    <3> QED BY <3>1, <3>2
  <2>3. \A c \in Blocks : c # b => Voters("accept", c)' = Voters("accept", c)
    BY <1>2 DEF Voters
  <2>4. ASSUME NEW c \in Blocks, Voters("accept", c)' # {}
        PROVE Cardinality(Voters("echo", c)) >= RequiredVotes
    BY <2>2, <2>3, <2>4 DEF EchoesBehindAccepts
  <2> QED BY <1>1, <2>4, VotersStay DEF EchoesBehindAccepts
<1>3. ASSUME \A m \in sent' : m \in sent \/ m.tag # "accept" PROVE EchoesBehindAccepts'
  <2>1. \A b \in Blocks : Voters("accept", b)' = Voters("accept", b)
    BY <1>1, <1>3 DEF Voters
  <2>2. ASSUME NEW c \in Blocks, Voters("accept", c)' # {}
        PROVE Cardinality(Voters("echo", c)) >= RequiredVotes
    BY <2>1, <2>2 DEF EchoesBehindAccepts
  <2> QED BY <1>1, <2>2, VotersStay DEF EchoesBehindAccepts
<1>4. \/ UNCHANGED sent
      \/ \E n, b : \E t \in {"propose", "echo"} :
           sent' = sent \cup {[tag |-> t, block |-> b, from |-> n]}
      \/ \E n \in Nodes, b \in Made :
           /\ sent' = sent \cup {[tag |-> "accept", block |-> b, from |-> n]}
           /\ CountValidVotes(n, b) >= RequiredVotes
  <2> USE DEF SendMsgToCommitteeAndSelf
  <2>1. ASSUME NEW n \in Nodes, LeaderStep(n)
        PROVE \/ UNCHANGED sent
              \/ \E b : sent' = sent \cup {[tag |-> "propose", block |-> b, from |-> n]}
    BY <2>1 DEF LeaderStep, StartNewIteration, CreateProposeBlock, Propose
  <2>2. ASSUME NEW n \in Nodes, Receive(n) PROVE UNCHANGED sent
    BY <2>2 DEF Receive, HandlePropose, HandleVote, MissProposedBlock
  <2>3. ASSUME NEW n \in Nodes, NEW b \in Made, Thread(n, b)
        PROVE \/ UNCHANGED sent
              \/ sent' = sent \cup {[tag |-> "echo", block |-> b, from |-> n]}
              \/ /\ sent' = sent \cup {[tag |-> "accept", block |-> b, from |-> n]}
                 /\ CountValidVotes(n, b) >= RequiredVotes
    BY <2>3 DEF Thread, SendEcho, HandleConsensusEcho, HandleConsensusAccept, AddFinal, Pop,
                NextIteration
  <2>4. ASSUME NEW n \in Nodes, NEW b \in Made, Fetch(n, b) PROVE UNCHANGED sent
    BY <2>4 DEF Fetch, RequestMissingBlock, ReadLastIteration, AddMissingBlock, NextAfterMissing
  <2> HIDE DEF SendMsgToCommitteeAndSelf
  <2>5. CASE UNCHANGED vars
    BY <2>5 DEF vars
  <2>6. CASE \E n \in Nodes : LeaderStep(n)
    BY <2>1, <2>6
  <2>7. CASE \E n \in Nodes, b \in Made : Thread(n, b)
    BY <2>3, <2>7
  <2> QED BY <2>2, <2>4, <2>5, <2>6, <2>7 DEF Next, Terminated
<1>5. ASSUME NEW n, NEW b, NEW t \in {"propose", "echo"},
             sent' = sent \cup {[tag |-> t, block |-> b, from |-> n]}
      PROVE EchoesBehindAccepts'
  BY <1>3, <1>5
<1> QED BY <1>1, <1>2, <1>3, <1>4, <1>5

\* The messages taken out are signed by those whose messages were there.
LEMMA SignersOfMsgs ==
  ASSUME RecordTypes, NEW n \in Nodes, NEW b \in Blocks
  PROVE {s[1] : s \in GetAllConsensusMsgs(n, b)} = Recorded(n, b)
<1> DEFINE S == GetAllConsensusMsgs(n, b)
<1>1. ASSUME NEW s \in S PROVE s[1] \in Recorded(n, b)
  BY DEF GetAllConsensusMsgs, Recorded, Tags
<1>2. ASSUME NEW x \in Recorded(n, b) PROVE \E s \in S : x = s[1]
  <2>1. x \in Nodes /\ msgs[n][b][x] \in Tags
    BY DEF Recorded, RecordTypes
  <2>2. <<x, msgs[n][b][x]>> \in S
    BY <2>1 DEF GetAllConsensusMsgs
  <2> QED BY <2>2
<1> QED BY <1>1, <1>2

\* The counts and the final blocks after a step that leaves both and what was
\* recorded alone; a goroutine may go to a place where nothing is claimed of it.
LEMMA StandsIfLeftAlone ==
  ASSUME CountsStand, FinalStands, sent \subseteq sent', RecordTypes,
         UNCHANGED <<msgs, signatures, final>>,
         \A n \in Nodes, b \in Blocks :
           acceptT'[n][b] \in {"enough", "popped"} => acceptT'[n][b] = acceptT[n][b]
  PROVE CountsStand' /\ FinalStands'
<1>1. \A t, b : Cardinality(Voters(t, b)) >= RequiredVotes => Cardinality(Voters(t, b)') >= RequiredVotes
  BY VotersStay
<1>2. ASSUME NEW n \in Nodes, NEW b PROVE Signers(n, b)' = Signers(n, b) /\ Recorded(n, b)' = Recorded(n, b)
  BY DEF Signers, Recorded
<1>3. CountsStand'
  BY <1>1, <1>2 DEF CountsStand
<1>4. FinalStands'
  BY <1>1, <1>2 DEF FinalStands
<1> QED BY <1>3, <1>4

\* A step that counts, takes the accepts out, adds the block or fetches it from
\* a member that has it leaves the votes and the signatures behind it.
LEMMA StandsKept ==
  ASSUME Types, BlocksAreLinked, MsgsAreSent, CountsStand, FinalStands, [Next]_vars
  PROVE CountsStand' /\ FinalStands'
<1> USE DEF voteVars, leaderVars, chainVars, threadVars
<1>0. /\ RecordTypes /\ ThreadTypes /\ ChainTypes /\ sent \subseteq Messages
      /\ Made \subseteq Blocks /\ sent \subseteq sent'
      /\ \A t, b : Cardinality(Voters(t, b)) >= RequiredVotes =>
                     Cardinality(Voters(t, b)') >= RequiredVotes
      /\ 0 \notin Blocks
  BY SentGrows, TypeParts, MadeIsBlock, VotersStay DEF MessageTypes, Blocks
<1>1. ASSUME NEW n \in Nodes, NEW m \in sent, Add(n, m), UNCHANGED <<signatures, final>>,
             \A x \in Nodes, b \in Blocks :
               acceptT'[x][b] \in {"enough", "popped"} => acceptT'[x][b] = acceptT[x][b]
      PROVE CountsStand' /\ FinalStands'
  <2>1. m.block \in Blocks /\ m.from \in Nodes /\ m.tag \in Tags
    BY <1>0 DEF Messages
  <2>2. ASSUME NEW x \in Nodes, NEW b \in Blocks
        PROVE Recorded(x, b) \subseteq Recorded(x, b)' /\ Recorded(x, b)' \subseteq Nodes
    BY <1>0, <1>1, <2>1 DEF Add, RecordTypes, Recorded, Tags
  <2>3. ASSUME NEW x \in Nodes, NEW b \in Blocks, Cardinality(Recorded(x, b)) >= RequiredVotes
        PROVE Cardinality(Recorded(x, b)') >= RequiredVotes
    <3>1. /\ Cardinality(Recorded(x, b)) \in Nat /\ Cardinality(Recorded(x, b)') \in Nat
          /\ Cardinality(Recorded(x, b)) <= Cardinality(Recorded(x, b)')
      BY <2>2, MoreMembers
    <3> QED BY <2>3, <3>1, VotesNeeded
  <2>4. ASSUME NEW x \in Nodes, NEW b PROVE Signers(x, b)' = Signers(x, b)
    BY <1>1 DEF Signers
  <2>5. CountsStand'
    BY <1>0, <1>1, <2>3, <2>4 DEF CountsStand
  <2>6. FinalStands'
    BY <1>0, <1>1, <2>4 DEF FinalStands
  <2> QED BY <2>5, <2>6
<1>2. ASSUME NEW n \in Nodes, NEW b \in Made, HandleConsensusAccept(n, b)
      PROVE CountsStand' /\ FinalStands'
  <2>1. CASE ~ EnoughAccepts(n, b)
    <3>1. \A x \in Nodes, c \in Blocks :
            acceptT'[x][c] \in {"enough", "popped"} => acceptT'[x][c] = acceptT[x][c]
      BY <1>0, <1>2, <2>1 DEF HandleConsensusAccept, ThreadTypes
    <3> QED BY <1>0, <1>2, <3>1, StandsIfLeftAlone DEF HandleConsensusAccept
  <2>2. CASE EnoughAccepts(n, b)
    <3> DEFINE A == {x \in Nodes : msgs[n][b][x] = "accept"}
    <3>1. Cardinality(A) >= RequiredVotes
      BY <2>2 DEF EnoughAccepts, CountValidAccepts
    <3>2. A \subseteq Voters("accept", b) /\ A \subseteq Recorded(n, b)
          /\ Voters("accept", b) \subseteq Nodes /\ Recorded(n, b) \subseteq Nodes
      BY <1>0 DEF MsgsAreSent, Voters, Recorded
    <3> HIDE DEF A
    <3>3. /\ Cardinality(Voters("accept", b)) >= RequiredVotes
          /\ Cardinality(Recorded(n, b)) >= RequiredVotes
      <4>1. Cardinality(A) \in Nat /\ Cardinality(Voters("accept", b)) \in Nat
            /\ Cardinality(A) <= Cardinality(Voters("accept", b))
        BY <3>2, MoreMembers
      <4>2. Cardinality(Recorded(n, b)) \in Nat /\ Cardinality(A) <= Cardinality(Recorded(n, b))
        BY <3>2, MoreMembers
      <4> QED BY <3>1, <4>1, <4>2, VotesNeeded
    <3>4. acceptT' = [acceptT EXCEPT ![n][b] = "enough"] /\ UNCHANGED <<msgs, signatures, final, sent>>
      BY <1>2, <2>2 DEF HandleConsensusAccept
    <3>5. ASSUME NEW x \in Nodes, NEW c
          PROVE Signers(x, c)' = Signers(x, c) /\ Recorded(x, c)' = Recorded(x, c)
      BY <3>4 DEF Signers, Recorded
    <3>6. ASSUME NEW x \in Nodes, NEW c \in Blocks
          PROVE /\ acceptT'[x][c] \in {"enough", "popped"} => Cardinality(Voters("accept", c)) >= RequiredVotes
                /\ acceptT'[x][c] = "enough" => Cardinality(Recorded(x, c)) >= RequiredVotes
                /\ acceptT'[x][c] = "popped" => Cardinality(Signers(x, c)) >= RequiredVotes
      <4>1. CASE x = n /\ c = b
        BY <1>0, <3>3, <3>4, <4>1 DEF ThreadTypes
      <4>2. CASE ~ (x = n /\ c = b)
        BY <1>0, <3>4, <4>2 DEF ThreadTypes, CountsStand
      <4> QED BY <4>1, <4>2
    <3>7. CountsStand'
      BY <1>0, <3>5, <3>6 DEF CountsStand
    <3>8. FinalStands'
      BY <1>0, <3>4, <3>5 DEF FinalStands
    <3> QED BY <3>7, <3>8
  <2> QED BY <2>1, <2>2
<1>3. ASSUME NEW n \in Nodes, NEW b \in Made, Pop(n, b) PROVE CountsStand' /\ FinalStands'
  <2>1. /\ acceptT[n][b] = "enough" /\ acceptT' = [acceptT EXCEPT ![n][b] = "popped"]
        /\ signatures' = [signatures EXCEPT ![n][b] = GetAllConsensusMsgs(n, b)]
        /\ msgs' = [msgs EXCEPT ![n][b] = [m \in Nodes |-> "none"]]
        /\ UNCHANGED <<final, sent>>
    BY <1>3 DEF Pop
  <2>2. Cardinality(Recorded(n, b)) >= RequiredVotes /\ Cardinality(Voters("accept", b)) >= RequiredVotes
    BY <1>0, <2>1 DEF CountsStand
  <2>3. Signers(n, b)' = Recorded(n, b)
    <3>1. signatures'[n][b] = GetAllConsensusMsgs(n, b)
      BY <1>0, <2>1 DEF RecordTypes
    <3>2. Signers(n, b)' = {s[1] : s \in GetAllConsensusMsgs(n, b)}
      BY <3>1 DEF Signers
    <3> QED BY <1>0, <3>2, SignersOfMsgs
  <2>4. ASSUME NEW x \in Nodes, NEW c \in Blocks, ~ (x = n /\ c = b)
        PROVE /\ Signers(x, c)' = Signers(x, c) /\ Recorded(x, c)' = Recorded(x, c)
              /\ acceptT'[x][c] = acceptT[x][c]
    BY <1>0, <2>1, <2>4 DEF Signers, Recorded, RecordTypes, ThreadTypes
  <2>5. acceptT'[n][b] = "popped"
    BY <1>0, <2>1 DEF ThreadTypes
  <2>6. ASSUME NEW x \in Nodes, NEW c \in Blocks
        PROVE /\ acceptT'[x][c] \in {"enough", "popped"} => Cardinality(Voters("accept", c)) >= RequiredVotes
              /\ acceptT'[x][c] = "enough" => Cardinality(Recorded(x, c)') >= RequiredVotes
              /\ acceptT'[x][c] = "popped" => Cardinality(Signers(x, c)') >= RequiredVotes
    <3>1. CASE x = n /\ c = b
      BY <2>2, <2>3, <2>5, <3>1
    <3>2. CASE ~ (x = n /\ c = b)
      BY <2>4, <3>2 DEF CountsStand
    <3> QED BY <3>1, <3>2
  <2>7. CountsStand'
    BY <1>0, <2>6 DEF CountsStand
  <2>8. ASSUME NEW x \in Nodes, NEW c \in final'[x] \ {0}
        PROVE /\ Cardinality(Voters("accept", c)') >= RequiredVotes
              /\ Cardinality(Signers(x, c)') >= RequiredVotes
    <3>1. c \in final[x] \ {0} /\ c \in Blocks
      BY <1>0, <2>1 DEF BlocksAreLinked
    <3> QED BY <1>0, <2>2, <2>3, <2>4, <3>1 DEF FinalStands
  <2>9. FinalStands'
    BY <2>8 DEF FinalStands
  <2> QED BY <2>7, <2>9
<1>4. ASSUME NEW n \in Nodes, NEW b \in Made, AddFinal(n, b) PROVE CountsStand' /\ FinalStands'
  <2>1. /\ acceptT[n][b] = "popped" /\ acceptT' = [acceptT EXCEPT ![n][b] = "added"]
        /\ final' = [final EXCEPT ![n] = @ \cup {b}]
        /\ UNCHANGED <<msgs, signatures, sent>>
    BY <1>4 DEF AddFinal, Appends
  <2>2. ASSUME NEW x \in Nodes, NEW c PROVE Signers(x, c)' = Signers(x, c) /\ Recorded(x, c)' = Recorded(x, c)
    BY <2>1 DEF Signers, Recorded
  <2>3. \A x \in Nodes, c \in Blocks :
            acceptT'[x][c] \in {"enough", "popped"} => acceptT'[x][c] = acceptT[x][c]
    BY <1>0, <2>1 DEF ThreadTypes
  <2>4. CountsStand'
    BY <1>0, <2>2, <2>3 DEF CountsStand
  <2>5. \A x \in Nodes : \A c \in final'[x] : c \in final[x] \/ (x = n /\ c = b)
    BY <1>0, <2>1 DEF ChainTypes
  <2>6. b \in Blocks /\ \A t, c : Voters(t, c)' = Voters(t, c)
    BY <1>0, <2>1 DEF Voters
  <2>7. ASSUME NEW x \in Nodes, NEW c \in final'[x] \ {0}
        PROVE /\ Cardinality(Voters("accept", c)') >= RequiredVotes
              /\ Cardinality(Signers(x, c)') >= RequiredVotes
    <3>1. Cardinality(Voters("accept", c)) >= RequiredVotes /\ Cardinality(Signers(x, c)) >= RequiredVotes
      BY <2>1, <2>5, <2>6 DEF FinalStands, CountsStand
    <3> QED BY <2>2, <2>6, <3>1
  <2>8. FinalStands'
    BY <2>7 DEF FinalStands
  <2> QED BY <2>4, <2>8
<1>5. ASSUME NEW n \in Nodes, NEW b \in Made, AddMissingBlock(n, b) PROVE CountsStand' /\ FinalStands'
  <2>1. UNCHANGED <<msgs, sent>>
    BY <1>5 DEF AddMissingBlock
  <2>2. CASE UNCHANGED <<acceptT, signatures, final>> \/ Refetch(n, b)
    <3>1. \A x \in Nodes, c \in Blocks :
            acceptT'[x][c] \in {"enough", "popped"} => acceptT'[x][c] = acceptT[x][c]
      <4>1. CASE UNCHANGED acceptT
        BY <4>1
      <4>2. CASE Refetch(n, b)
        BY <1>0, <4>2 DEF ThreadTypes, Refetch
      <4> QED BY <2>2, <4>1, <4>2
    <3>2. UNCHANGED <<msgs, sent, signatures, final>>
      BY <2>1, <2>2 DEF Refetch
    <3> QED BY <1>0, <3>1, <3>2, StandsIfLeftAlone
  <2>3. ASSUME NEW m \in Nodes, NEW c \in Made, NEW p \in {"fetched", "fetchedLast"},
               c \in final[m] \ {0}, Fetched(n, b, m, c, p)
        PROVE CountsStand' /\ FinalStands'
    <3>1. /\ Cardinality(Voters("accept", c)) >= RequiredVotes
          /\ Cardinality(Signers(m, c)) >= RequiredVotes
      BY <2>3 DEF FinalStands
    <3>2. signatures'[n][c] = signatures[m][c]
      BY <1>0, <2>3 DEF Fetched, RecordTypes
    <3>3. Signers(n, c)' = Signers(m, c)
      BY <3>2 DEF Signers
    <3>4. ASSUME NEW x \in Nodes, NEW d \in Blocks, ~ (x = n /\ d = c)
          PROVE Signers(x, d)' = Signers(x, d)
      BY <1>0, <2>3, <3>4 DEF Fetched, Signers, RecordTypes
    <3>5. ASSUME NEW x \in Nodes, NEW d PROVE Recorded(x, d)' = Recorded(x, d)
      BY <2>1 DEF Recorded
    <3>6. \A x \in Nodes, d \in Blocks :
            acceptT'[x][d] \in {"enough", "popped"} => acceptT'[x][d] = acceptT[x][d]
      BY <1>0, <2>3 DEF ThreadTypes, Fetched
    <3>7. CountsStand'
      BY <1>0, <3>1, <3>3, <3>4, <3>5, <3>6 DEF CountsStand
    <3>8. ASSUME NEW x \in Nodes, NEW d \in final'[x] \ {0}
          PROVE /\ Cardinality(Voters("accept", d)') >= RequiredVotes
                /\ Cardinality(Signers(x, d)') >= RequiredVotes
      <4>1. d \in final[x] \ {0} \/ (x = n /\ d = c)
        BY <1>0, <2>3 DEF Fetched, ChainTypes
      <4>2. d \in Blocks
        BY <1>0, <4>1 DEF BlocksAreLinked
      <4> QED BY <1>0, <3>1, <3>3, <3>4, <4>1, <4>2 DEF FinalStands
    <3>9. FinalStands'
      BY <3>8 DEF FinalStands
    <3> QED BY <3>7, <3>9
  <2> QED BY <1>0, <1>5, <2>2, <2>3, FetchOutcomes
<1>6. ASSUME NEW n \in Nodes, LeaderStep(n) PROVE CountsStand' /\ FinalStands'
  <2>1. UNCHANGED <<msgs, signatures, final, acceptT>>
    BY <1>6 DEF LeaderStep, StartNewIteration, CreateProposeBlock, Propose
  <2> QED BY <1>0, <2>1, StandsIfLeftAlone
<1>7. ASSUME NEW n \in Nodes, NEW m \in sent, HandlePropose(n, m) PROVE CountsStand' /\ FinalStands'
  <2>1. m.block \in Blocks
    BY <1>0 DEF Messages
  <2>2. \A x \in Nodes, b \in Blocks :
          acceptT'[x][b] \in {"enough", "popped"} => acceptT'[x][b] = acceptT[x][b]
    BY <1>0, <1>7, <2>1 DEF HandlePropose, ThreadTypes
  <2>3. Add(n, m) /\ UNCHANGED <<signatures, final>>
    BY <1>7 DEF HandlePropose
  <2> QED BY <1>1, <2>2, <2>3
<1>8. ASSUME NEW n \in Nodes, NEW m \in sent, HandleVote(n, m) PROVE CountsStand' /\ FinalStands'
  <2>1. Add(n, m) /\ UNCHANGED <<signatures, final, acceptT>>
    BY <1>8 DEF HandleVote
  <2> QED BY <1>1, <2>1
<1>9. ASSUME NEW n \in Nodes, NEW m \in sent, MissProposedBlock(n, m) PROVE CountsStand' /\ FinalStands'
  <2>1. UNCHANGED <<msgs, signatures, final, acceptT>>
    BY <1>9 DEF MissProposedBlock
  <2> QED BY <1>0, <2>1, StandsIfLeftAlone
<1>10. ASSUME NEW n \in Nodes, NEW b \in Made, SendEcho(n, b) \/ HandleConsensusEcho(n, b)
       PROVE CountsStand' /\ FinalStands'
  <2>1. UNCHANGED <<msgs, signatures, final, acceptT>>
    BY <1>10 DEF SendEcho, HandleConsensusEcho
  <2> QED BY <1>0, <2>1, StandsIfLeftAlone
<1>11. ASSUME NEW n \in Nodes, NEW b \in Made,
              \/ NextIteration(n, b) \/ RequestMissingBlock(n, b) \/ ReadLastIteration(n, b)
              \/ NextAfterMissing(n, b)
       PROVE CountsStand' /\ FinalStands'
  <2>1. UNCHANGED <<msgs, signatures, final>>
    BY <1>11 DEF NextIteration, RequestMissingBlock, ReadLastIteration, NextAfterMissing
  <2>2. \/ acceptT' = acceptT
        \/ \E p \in {"done", "request", "asked", "gaveUp", "missing"} :
             acceptT' = [acceptT EXCEPT ![n][b] = p]
    BY <1>11 DEF NextIteration, RequestMissingBlock, ReadLastIteration, NextAfterMissing
  <2>3. \A x \in Nodes, c \in Blocks :
          acceptT'[x][c] \in {"enough", "popped"} => acceptT'[x][c] = acceptT[x][c]
    <3>1. ASSUME NEW p \in {"done", "request", "asked", "gaveUp", "missing"},
                 acceptT' = [acceptT EXCEPT ![n][b] = p],
                 NEW x \in Nodes, NEW c \in Blocks, acceptT'[x][c] \in {"enough", "popped"}
          PROVE acceptT'[x][c] = acceptT[x][c]
      BY <1>0, <3>1 DEF ThreadTypes
    <3> QED BY <2>2, <3>1
  <2> QED BY <1>0, <2>1, <2>3, StandsIfLeftAlone
<1>12. CASE UNCHANGED vars
  BY <1>0, <1>12, StandsIfLeftAlone DEF vars
<1> QED
  BY <1>2, <1>3, <1>4, <1>5, <1>6, <1>7, <1>8, <1>9, <1>10, <1>11, <1>12
  DEF Next, Terminated, Receive, Thread, Fetch

-----------------------------------------------------------------------------
\* Nothing is made, sent or final at the start.
LEMMA InitIInv == ASSUME Init PROVE IInv
<1>0. MaxBlocks \in Nat /\ Leader[1] \in Nodes /\ \A b \in Blocks : b # 0
  BY RapidAssumption, VotesNeeded DEF Blocks
<1>1. Types
  <2>1. ThreadTypes
    BY <1>0 DEF Init, ThreadTypes, Asked, AcceptPlaces, Chain
  <2>2. MessageTypes /\ RecordTypes
    BY DEF Init, MessageTypes, RecordTypes
  <2>3. ChainTypes
    BY <1>0, EmptySeq DEF Init, ChainTypes, Chain
  <2> QED BY <2>1, <2>2, <2>3, TypeParts
<1>2. BlocksAreLinked
  <2>1. Made = {}
    BY EmptySeq DEF Init, Made
  <2> QED BY <1>0, <2>1 DEF Init, BlocksAreLinked, Chain
<1>3. \A b \in Blocks : Voters("accept", b) = {}
  BY DEF Init, Voters
<1>4. VInv
  BY <1>0, <1>3 DEF Init, VInv, MsgsAreSent, EchoesBehindAccepts, CountsStand, FinalStands
<1> QED BY <1>1, <1>2, <1>4 DEF IInv

\* Every step keeps the invariant, at any speed.
LEMMA StepIInv == ASSUME IInv, [Next]_vars PROVE IInv'
<1>1. Types'
  <2>1. ThreadTypes' /\ MessageTypes' /\ RecordTypes' /\ ChainTypes'
    BY TypeParts, ThreadTypesKept, MessageTypesKept, RecordTypesKept, ChainTypesKept DEF IInv
  <2> QED
    BY <2>1
      DEF Types, TypeOK, Asked, AcceptPlaces, ThreadTypes, MessageTypes, RecordTypes,
        ChainTypes
<1>2. BlocksAreLinked'
  BY LinkedKept DEF IInv
<1>3. VInv'
  BY MsgsAreSentKept, EchoesBehindAcceptsKept, StandsKept DEF IInv, VInv
<1> QED BY <1>1, <1>2, <1>3 DEF IInv

\* So it always holds.
LEMMA AlwaysIInv == Spec => []IInv
<1>1. Init => IInv
  BY InitIInv
<1>2. IInv /\ [Next]_vars => IInv'
  BY StepIInv
<1> QED BY <1>1, <1>2, PTL DEF Spec

\* Blocks, chains, messages and goroutines keep their types, whatever is fetched
\* and however the rounds overlap; the latest block is one of the node's own.
THEOREM TypeCorrect == Spec => []TypeOK
<1>1. IInv => TypeOK
  BY DEF IInv, Types
<1> QED BY <1>1, AlwaysIInv, PTL

\* Late or not, counted or fetched: no block is final anywhere without a quorum of
\* accepts, each on a quorum of echoes, and its record carries as many signers.
THEOREM QuorumBehindFinal == Spec => []FinalOnlyIfAccepted
<1>1. ASSUME IInv PROVE FinalOnlyIfAccepted
  <2>1. ASSUME NEW n \in Nodes, NEW b \in final[n] \ {0}
        PROVE /\ Cardinality(Voters("accept", b)) >= RequiredVotes
              /\ Cardinality(Voters("echo", b)) >= RequiredVotes
              /\ Cardinality({s[1] : s \in signatures[n][b]}) >= RequiredVotes
    <3>1. Cardinality(Voters("accept", b)) >= RequiredVotes
      BY <1>1 DEF IInv, VInv, FinalStands
    <3>2. Voters("accept", b) # {}
      BY <3>1, SomeVoter DEF Voters
    <3>3. b \in Blocks
      BY <1>1, MadeIsBlock, TypeParts DEF IInv, BlocksAreLinked
    <3> QED BY <1>1, <3>1, <3>2, <3>3 DEF IInv, VInv, FinalStands, EchoesBehindAccepts, Signers
  <2> QED BY <2>1 DEF FinalOnlyIfAccepted, ProofsVerify
<1> QED BY <1>1, AlwaysIInv, PTL

-----------------------------------------------------------------------------
\* The current block is the last one made, or the one before while the last is
\* being proposed.
LEMMA CurrentFacts ==
  ASSUME ChainTypes, OneByOne
  PROVE /\ Len(blocks) \in Nat /\ Current \in Nat /\ Current <= Len(blocks)
        /\ Current # 0 => Current \in Made
        /\ proposing = {} => Current = Len(blocks)
        /\ proposing # {} => proposing = {Len(blocks)} /\ Len(blocks) = Current + 1
<1>1. Len(blocks) \in Nat /\ 0 \notin Blocks
  BY MadeIsBlock DEF Blocks
<1>2. CASE proposing = {}
  BY <1>1, <1>2 DEF Current, Made
<1>3. CASE proposing # {}
  <2>1. proposing = {Len(blocks)} /\ Len(blocks) # 0
    BY <1>1, <1>3 DEF OneByOne, ChainTypes
  <2>2. Current = Len(blocks) - 1
    BY <1>3 DEF Current
  <2>3. Current \in Nat /\ Len(blocks) = Current + 1 /\ (Current # 0 => Current \in Made)
    BY <1>1, <2>1, <2>2 DEF Made
  <2> QED BY <1>1, <1>3, <2>1, <2>3
<1> QED BY <1>2, <1>3

\* What is under way within delta concerns the current block.
LEMMA InTimeFacts ==
  ASSUME IInv, InTime
  PROVE /\ ThreadTypes /\ MessageTypes /\ RecordTypes /\ ChainTypes
        /\ Current \in Nat /\ (Current # 0 => Current \in Made)
        /\ Made \subseteq Blocks /\ Blocks \subseteq Nat \ {0}
        /\ \A n \in Nodes, b \in Blocks :
             /\ acceptT[n][b] \in {"none", "sleep"} \cup Counted
             /\ echoT[n][b] # "retry"
             /\ \/ proposeT[n][b] = "sleep" \/ echoT[n][b] = "sleep"
                \/ acceptT[n][b] \in {"sleep", "enough", "popped", "added"}
                => b = Current
        /\ \A n \in Nodes, m \in sent : m.block \notin final[n] => m.block = Current
<1>1. ThreadTypes /\ MessageTypes /\ RecordTypes /\ ChainTypes /\ OneByOne
  BY TypeParts DEF IInv, InTime
<1>2. Current \in Nat /\ (Current # 0 => Current \in Made) /\ Made \subseteq Blocks
      /\ Blocks \subseteq Nat \ {0}
  BY <1>1, CurrentFacts, MadeIsBlock, RapidAssumption DEF Blocks
<1>3. ASSUME NEW n \in Nodes, NEW b \in Blocks
      PROVE /\ acceptT[n][b] \in {"none", "sleep"} \cup Counted
            /\ echoT[n][b] # "retry"
            /\ \/ proposeT[n][b] = "sleep" \/ echoT[n][b] = "sleep"
               \/ acceptT[n][b] \in {"sleep", "enough", "popped", "added"}
               => b = Current
  <2>1. CASE b < Current
    BY <2>1 DEF InTime, OnlyCurrent, Counted
  <2>2. CASE b > Current
    BY <2>2 DEF InTime, OnlyCurrent
  <2>3. CASE b = Current
    BY <1>2, <2>3 DEF InTime, ThreadsInStep
  <2> QED BY <1>2, <2>1, <2>2, <2>3
<1>4. ASSUME NEW n \in Nodes, NEW m \in sent, m.block \notin final[n] PROVE m.block = Current
  <2>1. m.block \in Nat /\ m.block <= Current
    BY <1>2 DEF IInv, BlocksAreLinked, InTime, OnlyCurrent
  <2>2. latest[n] \in {Current, Current - 1} /\ final[n] = 0..latest[n]
    BY DEF InTime, ChainsAreLevel
  <2> QED BY <1>2, <1>4, <2>1, <2>2
<1> QED BY <1>1, <1>2, <1>3, <1>4

\* When messages are sent.
LEMMA SentTimes ==
  ASSUME NEW m
  PROVE /\ m.tag = "propose" => SentAt(m) = <<m.block, 0>>
        /\ m.tag = "echo" => SentAt(m) = <<m.block, 1>>
        /\ m.tag = "accept" => SentAt(m) = <<m.block, 2>>
BY DEF SentAt

\* Whoever holds the current block has counted its accepts.
LEMMA FinalIsCounted ==
  ASSUME IInv, InTime, NEW n \in Nodes, Current # 0, Current \in final[n]
  PROVE acceptT[n][Current] \in {"added", "done"}
<1>1. Current \in Nat
  BY InTimeFacts
<1>2. latest[n] # Current - 1
  BY <1>1 DEF InTime, ChainsAreLevel
<1> QED BY <1>2 DEF InTime, ChainsAreLevel, Holds, Over

\* What has been done everywhere when a goroutine of a block wakes up.
LEMMA DueProposal ==
  ASSUME IInv, InTime, timely, Current # 0, NEW t, Due(t),
         Before(<<Current, 0>>, t), NEW n \in Nodes
  PROVE proposeT[n][Current] # "none"
<1>1. Proposal(Current) \in sent
  BY DEF InTime, Proposals
<1>2. SentAt(Proposal(Current)) = <<Current, 0>> /\ Proposal(Current).block = Current
  BY SentTimes DEF Proposal
<1>3. Proposal(Current) \in handled[n] \/ Current \in final[n]
  BY <1>1, <1>2 DEF Due
<1>4. CASE Proposal(Current) \in handled[n]
  BY <1>4 DEF InTime, ThreadsInStep
<1>5. CASE Current \in final[n]
  BY <1>5, FinalIsCounted DEF InTime, ThreadsInStep
<1> QED BY <1>3, <1>4, <1>5

\* When an echo round is due to be over, all have echoed and handled all echoes.
LEMMA DueEchoes ==
  ASSUME IInv, InTime, timely, Current # 0, NEW t, Due(t),
         Before(<<Current, 0>>, t), Before(<<Current, 1>>, t), NEW n \in Nodes
  PROVE /\ proposeT[n][Current] = "done"
        /\ \A x \in Nodes : Vote("echo", x) \in handled[n] \/ Current \in final[n]
<1>1. ASSUME NEW x \in Nodes PROVE proposeT[x][Current] = "done"
  <2>1. proposeT[x][Current] # "none"
    BY DueProposal
  <2>2. Current \in Blocks /\ ThreadTypes
    BY InTimeFacts
  <2>3. proposeT[x][Current] # "sleep"
    <3>1. SUFFICES ASSUME proposeT[x][Current] = "sleep" PROVE FALSE
      OBVIOUS
    <3>2. <<Current, 1>> \in WakeUps(x)
      BY <2>2, <3>1 DEF WakeUps
    <3> QED BY <3>2 DEF Due
  <2> QED BY <2>1, <2>2, <2>3 DEF ThreadTypes
<1>2. ASSUME NEW x \in Nodes PROVE Vote("echo", x) \in handled[n] \/ Current \in final[n]
  <2>1. Vote("echo", x) \in sent
    BY <1>1 DEF InTime, ThreadsInStep
  <2>2. SentAt(Vote("echo", x)) = <<Current, 1>> /\ Vote("echo", x).block = Current
    BY SentTimes DEF Vote
  <2> QED BY <2>1, <2>2 DEF Due
<1> QED BY <1>1, <1>2

\* The same for the accepts.
LEMMA DueAccepts ==
  ASSUME IInv, InTime, timely, Current # 0, NEW t, Due(t),
         Before(<<Current, 0>>, t), Before(<<Current, 2>>, t), NEW n \in Nodes
  PROVE /\ echoT[n][Current] = "done"
        /\ \A x \in Nodes : Vote("accept", x) \in handled[n] \/ Current \in final[n]
<1>1. ASSUME NEW x \in Nodes PROVE echoT[x][Current] = "done"
  <2>1. proposeT[x][Current] # "none"
    BY DueProposal
  <2>2. Current \in Blocks /\ ThreadTypes /\ echoT[x][Current] # "retry" /\ echoT[x][Current] # "none"
    BY <2>1, InTimeFacts DEF InTime, ThreadsInStep
  <2>3. echoT[x][Current] # "sleep"
    <3>1. SUFFICES ASSUME echoT[x][Current] = "sleep" PROVE FALSE
      OBVIOUS
    <3>2. <<Current, 2>> \in WakeUps(x)
      BY <2>2, <3>1 DEF WakeUps
    <3> QED BY <3>2 DEF Due
  <2> QED BY <2>2, <2>3 DEF ThreadTypes
<1>2. ASSUME NEW x \in Nodes PROVE Vote("accept", x) \in handled[n] \/ Current \in final[n]
  <2>1. Vote("accept", x) \in sent
    BY <1>1 DEF InTime, ThreadsInStep
  <2>2. SentAt(Vote("accept", x)) = <<Current, 2>> /\ Vote("accept", x).block = Current
    BY SentTimes DEF Vote
  <2> QED BY <2>1, <2>2 DEF Due
<1> QED BY <1>1, <1>2

\* When the next block is proposed, all are through with the current one.
LEMMA DueOver ==
  ASSUME IInv, InTime, timely, Current # 0, Due(<<Current + 1, 0>>), NEW n \in Nodes
  PROVE acceptT[n][Current] = "done" /\ proposeT[n][Current] = "done" /\ echoT[n][Current] = "done"
<1> DEFINE t == <<Current + 1, 0>>
<1>1. Current \in Nat
  BY InTimeFacts
<1>2. \A k \in 0..4 : Before(<<Current, k>>, t)
  BY <1>1 DEF Before
<1>3. Current \in Blocks /\ acceptT[n][Current] \in {"none", "sleep"} \cup Counted
  BY InTimeFacts
<1> HIDE DEF t
<1>4. Due(t)
  BY DEF t
<1>5. proposeT[n][Current] = "done" /\ echoT[n][Current] = "done"
  BY <1>2, <1>4, DueEchoes, DueAccepts
<1>6. acceptT[n][Current] # "none"
  BY <1>5 DEF InTime, ThreadsInStep
<1>7. acceptT[n][Current] # "sleep"
  <2>1. SUFFICES ASSUME acceptT[n][Current] = "sleep" PROVE FALSE
    OBVIOUS
  <2>2. <<Current, 3>> \in WakeUps(n)
    BY <1>3, <2>1 DEF WakeUps
  <2> QED BY <1>2, <1>4, <2>2 DEF Due
<1>8. acceptT[n][Current] \notin {"enough", "popped", "added"}
  BY <1>2, <1>3, <1>4 DEF Due
<1> QED BY <1>3, <1>5, <1>6, <1>7, <1>8 DEF Counted

-----------------------------------------------------------------------------
\* What a goroutine, or a receipt, leaves as it is within delta.
LEMMA SameBlocks ==
  ASSUME UNCHANGED <<blocks, proposing>>
  PROVE /\ Current' = Current /\ (OneByOne => OneByOne')
        /\ \A t, x : Vote(t, x)' = Vote(t, x)
<1>1. Current' = Current
  BY DEF Current
<1>2. OneByOne => OneByOne'
  BY DEF OneByOne, Made, Iteration, Previous
<1> QED BY <1>1, <1>2 DEF Vote

\* To start an iteration breaks nothing.
LEMMA StartsInTime ==
  ASSUME IInv, InTime, NEW n \in Nodes, StartNewIteration(n)
  PROVE InTime'
<1>1. /\ UNCHANGED <<blocks, proposing, sent, handled, msgs, signatures, final, latest, iter, dead>>
      /\ UNCHANGED <<proposeT, echoT, acceptT>>
  BY DEF StartNewIteration, chainVars, voteVars, threadVars
<1>2. /\ Current' = Current /\ OneByOne' /\ \A t, x : Vote(t, x)' = Vote(t, x)
      /\ ChainTypes /\ Current \in Nat
  BY <1>1, SameBlocks, InTimeFacts DEF InTime
<1>3. /\ electing[n] = 1 /\ leading[n] = 0 /\ Over(n) /\ iter[n] = Current + 1
  BY <1>2 DEF InTime, LeadersInTime, StartNewIteration, ChainsAreLevel, ChainTypes
<1>4. LeaderOf(Current + 1) = n => proposing = {}
  BY <1>2, <1>3, CurrentFacts DEF InTime, LeadersInTime
<1>5. /\ electing' = [electing EXCEPT ![n] = 0]
      /\ leading' = [leading EXCEPT ![n] = IF LeaderOf(Current + 1) = n THEN 1 ELSE 0]
  BY <1>2, <1>3 DEF StartNewIteration, ChainTypes
<1>6. LeadersInTime'
  BY <1>1, <1>2, <1>3, <1>4, <1>5 DEF InTime, LeadersInTime, Over, ChainTypes
<1>7. ChainsAreLevel' /\ OnlyCurrent' /\ Proposals' /\ ThreadsInStep'
  BY <1>1, <1>2 DEF InTime, ChainsAreLevel, Holds, Over, OnlyCurrent, Proposals, ThreadsInStep
<1>8. RoundsAreApart' /\ MsgsShowVotes' /\ AllSigned'
  BY <1>1, <1>2 DEF InTime, RoundsAreApart, MsgsShowVotes, AllSigned
<1> QED BY <1>1, <1>2, <1>6, <1>7, <1>8 DEF InTime

\* Nor does the leader that makes its block, the next one on the chain.
LEMMA CreatesInTime ==
  ASSUME IInv, InTime, NEW n \in Nodes, CreateProposeBlock(n)
  PROVE InTime'
<1>1. /\ UNCHANGED <<electing, sent, handled, msgs, signatures, final, latest, iter, dead>>
      /\ UNCHANGED <<proposeT, echoT, acceptT>>
  BY DEF CreateProposeBlock, chainVars, voteVars, threadVars
<1>2. ChainTypes /\ Current \in Nat /\ OneByOne /\ Len(blocks) \in Nat
  BY InTimeFacts, MadeIsBlock DEF InTime
<1>3. leading[n] = 1 /\ electing[n] = 0 /\ Over(n) /\ LeaderOf(Current + 1) = n /\ proposing = {}
  BY <1>2 DEF InTime, LeadersInTime, CreateProposeBlock, ChainTypes
<1>4. Current = Len(blocks) /\ iter[n] = Current + 1 /\ latest[n] = Current
  BY <1>2, <1>3, CurrentFacts DEF InTime, ChainsAreLevel, Holds
<1> DEFINE r == [iteration |-> Current + 1, previous |-> Current, leader |-> n]
           Rec == [iteration : Nat, previous : Chain, leader : Nodes]
<1>5. blocks' = Append(blocks, r) /\ blocks \in Seq(Rec) /\ r \in Rec
  BY <1>2, <1>4 DEF CreateProposeBlock, ChainTypes
<1>6. /\ Len(blocks') = Current + 1 /\ blocks'[Current + 1] = r
      /\ \A b \in Made : blocks'[b] = blocks[b]
  <2> HIDE DEF r, Rec
  <2> QED BY <1>4, <1>5, AppendProperties DEF Made
<1>7. proposing' = {Current + 1} /\ leading' = [leading EXCEPT ![n] = 0]
  BY <1>2, <1>3, <1>6 DEF CreateProposeBlock, ChainTypes
<1>8. Current' = Current
  BY <1>2, <1>6, <1>7 DEF Current
<1>9. OneByOne'
  <2>1. Made' = 1..(Current + 1) /\ Made = 1..Current
    BY <1>4, <1>6 DEF Made
  <2>2. ASSUME NEW b \in Made'
        PROVE Iteration(b)' = b /\ Previous(b)' = b - 1 /\ blocks'[b].leader = LeaderOf(b)
    <3>1. CASE b \in Made
      BY <1>2, <1>6, <3>1 DEF OneByOne, Iteration, Previous
    <3>2. CASE b = Current + 1
      BY <1>2, <1>3, <1>6, <3>2 DEF Iteration, Previous
    <3> QED BY <1>2, <2>1, <3>1, <3>2
  <2> QED BY <1>6, <1>7, <2>2 DEF OneByOne
<1>10. LeadersInTime'
  BY <1>1, <1>2, <1>3, <1>6, <1>7, <1>8 DEF InTime, LeadersInTime, Over, ChainTypes
<1>11. \A t, x : Vote(t, x)' = Vote(t, x)
  BY <1>8 DEF Vote
<1>12. ChainsAreLevel' /\ OnlyCurrent' /\ Proposals' /\ ThreadsInStep'
  BY <1>1, <1>8, <1>11
    DEF InTime, ChainsAreLevel, Holds, Over, OnlyCurrent, Proposals, ThreadsInStep
<1>13. RoundsAreApart' /\ MsgsShowVotes' /\ AllSigned'
  BY <1>1, <1>8, <1>11 DEF InTime, RoundsAreApart, MsgsShowVotes, AllSigned
<1> QED BY <1>1, <1>9, <1>10, <1>12, <1>13 DEF InTime

\* It is proposed when all are through with the one before.
LEMMA ProposesInTime ==
  ASSUME IInv, InTime, timely, NEW n \in Nodes, NEW b \in Made, Propose(n, b)
  PROVE InTime'
<1>1. /\ UNCHANGED <<electing, leading, blocks, handled, msgs, signatures, final, latest, iter, dead>>
      /\ UNCHANGED <<proposeT, echoT, acceptT>>
  BY DEF Propose, chainVars, voteVars, threadVars
<1>2. /\ ChainTypes /\ ThreadTypes /\ MessageTypes /\ OneByOne
      /\ Current \in Nat /\ (Current # 0 => Current \in Blocks) /\ Made \subseteq Blocks
      /\ Blocks \subseteq Nat \ {0}
  BY InTimeFacts DEF InTime
<1>3. proposing = {b} /\ b = Len(blocks) /\ b = Current + 1 /\ proposing' = {}
  BY <1>2, CurrentFacts DEF Propose
<1>4. Current' = b
  BY <1>1, <1>3 DEF Current
<1>5. OneByOne' /\ LeaderOf(b) = n
  <2>1. OneByOne'
    BY <1>1, <1>2, <1>3 DEF OneByOne, Made, Iteration, Previous
  <2> QED BY <1>2, <2>1 DEF Propose, OneByOne
<1>6. sent' = sent \cup {Proposal(b)}
  BY <1>5 DEF Propose, SendMsgToCommitteeAndSelf, Proposal
<1>7. Due(<<Current + 1, 0>>)
  BY <1>3 DEF Propose
<1>8. ASSUME NEW x \in Nodes
      PROVE Over(x) /\ electing[x] = 0
            /\ (Current # 0 => proposeT[x][Current] = "done" /\ echoT[x][Current] = "done"
                               /\ acceptT[x][Current] = "done")
  <2>1. electing[x] = 0
    BY <1>7 DEF Due
  <2> QED BY <1>7, <2>1, DueOver DEF Over
<1>9. ASSUME NEW x \in Nodes
      PROVE /\ proposeT[x][b] = "none" /\ echoT[x][b] = "none" /\ acceptT[x][b] = "none"
            /\ latest[x] = b - 1 /\ iter[x] = b /\ final[x] = 0..(b - 1)
  <2>1. proposeT[x][b] = "none" /\ echoT[x][b] = "none" /\ acceptT[x][b] = "none"
    BY <1>2, <1>3 DEF InTime, OnlyCurrent
  <2> QED BY <1>2, <1>3, <1>8, <2>1 DEF InTime, ChainsAreLevel, Holds
<1>10. \A m \in sent : m.block <= Current /\ m.block \in Nat
  BY <1>2 DEF InTime, OnlyCurrent, IInv, BlocksAreLinked
<1>11. \A x \in Nodes : handled[x] \subseteq sent
  BY <1>2 DEF MessageTypes
<1>12. ChainsAreLevel'
  BY <1>1, <1>2, <1>3, <1>4, <1>9 DEF ChainsAreLevel, Holds, Over
<1>13. LeadersInTime'
  <2>1. \A x \in Nodes : leading[x] = 0
    BY <1>3 DEF InTime, LeadersInTime
  <2> QED BY <1>1, <1>3, <1>8, <2>1 DEF LeadersInTime
<1>14. OnlyCurrent'
  <2>1. ASSUME NEW x \in Nodes, NEW c \in Blocks, c < b
        PROVE proposeT[x][c] = "done" /\ echoT[x][c] = "done" /\ acceptT[x][c] = "done"
    BY <1>2, <1>3, <1>8, <2>1 DEF InTime, OnlyCurrent
  <2>2. ASSUME NEW x \in Nodes, NEW c \in Blocks, c > b
        PROVE proposeT[x][c] = "none" /\ echoT[x][c] = "none" /\ acceptT[x][c] = "none"
    BY <1>2, <1>3, <2>2 DEF InTime, OnlyCurrent
  <2>3. \A m \in sent' : m.block <= b
    BY <1>2, <1>3, <1>6, <1>10 DEF Proposal
  <2> QED BY <1>1, <1>4, <2>1, <2>2, <2>3 DEF OnlyCurrent
<1>15. Proposals'
  BY <1>4, <1>6 DEF InTime, Proposals, Proposal
<1>16. ASSUME NEW t, NEW x PROVE Vote(t, x)' \notin sent /\ (t # "propose" => Vote(t, x)' \notin sent')
  BY <1>2, <1>3, <1>4, <1>6, <1>10 DEF Vote, Proposal
<1>17. Proposal(b) \notin sent
  BY <1>2, <1>3, <1>10 DEF Proposal
<1>18. ThreadsInStep'
  BY <1>1, <1>4, <1>9, <1>11, <1>16, <1>17 DEF ThreadsInStep
<1>19. RoundsAreApart'
  BY <1>1, <1>4, <1>9 DEF RoundsAreApart, Counted
<1>20. MsgsShowVotes'
  BY <1>1, <1>11, <1>16 DEF MsgsShowVotes
<1>21. AllSigned'
  BY <1>1 DEF InTime, AllSigned
<1> QED BY <1>1, <1>5, <1>12, <1>13, <1>14, <1>15, <1>18, <1>19, <1>20, <1>21 DEF InTime

-----------------------------------------------------------------------------
\* The steps of the current block.  Each lemma first says what the step changes.
LEMMA HandlesProposalInTime ==
  ASSUME IInv, InTime, NEW n \in Nodes, NEW m \in sent, HandlePropose(n, m)
  PROVE InTime'
<1>1. /\ UNCHANGED <<blocks, proposing, electing, leading, sent, signatures, final, latest, iter, dead>>
      /\ handled' = [handled EXCEPT ![n] = @ \cup {m}]
      /\ m \notin handled[n] /\ m.block \notin final[n] /\ m.tag = "propose" /\ Add(n, m)
  BY DEF HandlePropose, Unhandled, Handled, chainVars, leaderVars
<1>2. /\ ThreadTypes /\ MessageTypes /\ RecordTypes /\ Current \in Nat
      /\ (Current # 0 => Current \in Blocks) /\ m.block = Current /\ Current # 0
      /\ Blocks \subseteq Nat \ {0}
  <2>1. m.block \in Made
    BY DEF IInv, BlocksAreLinked
  <2> QED BY <1>1, <2>1, InTimeFacts
<1>3. /\ Current' = Current /\ OneByOne' /\ \A t, x : Vote(t, x)' = Vote(t, x)
  BY <1>1, SameBlocks DEF InTime
<1>4. m = Proposal(Current) /\ m.from = LeaderOf(Current) /\ m.from \in Nodes
  BY <1>1, <1>2 DEF InTime, Proposals, Proposal, MessageTypes, Messages
<1>5. proposeT[n][Current] = "none" /\ echoT[n][Current] = "none" /\ acceptT[n][Current] = "none"
  BY <1>1, <1>2, <1>4 DEF InTime, ThreadsInStep
<1>6. /\ proposeT' = [proposeT EXCEPT ![n][Current] = "sleep"]
      /\ echoT' = [echoT EXCEPT ![n][Current] = "sleep"]
      /\ acceptT' = [acceptT EXCEPT ![n][Current] = "sleep"]
      /\ msgs' = [msgs EXCEPT ![n][Current][m.from] = "propose"]
  BY <1>1, <1>2 DEF HandlePropose, Add
<1>7. ASSUME NEW x \in Nodes
      PROVE ~ (Vote("echo", x) \in handled[n]) /\ ~ (Vote("accept", x) \in handled[n])
  <2>1. handled[n] \subseteq sent
    BY <1>2 DEF MessageTypes
  <2>2. proposeT[x][Current] # "done" /\ echoT[x][Current] # "done"
    BY <1>2, <1>5 DEF InTime, RoundsAreApart
  <2> QED BY <1>2, <2>1, <2>2 DEF InTime, ThreadsInStep
<1>8. ASSUME NEW x \in Nodes PROVE Vote("echo", x) # m /\ Vote("accept", x) # m
  BY <1>1 DEF Vote
<1>9. ASSUME NEW x \in Nodes, NEW b \in Blocks, ~ (x = n /\ b = Current)
      PROVE /\ proposeT'[x][b] = proposeT[x][b] /\ echoT'[x][b] = echoT[x][b]
            /\ acceptT'[x][b] = acceptT[x][b] /\ msgs'[x][b] = msgs[x][b]
  BY <1>2, <1>6, <1>9 DEF ThreadTypes, RecordTypes
<1>10. /\ proposeT'[n][Current] = "sleep" /\ echoT'[n][Current] = "sleep"
       /\ acceptT'[n][Current] = "sleep"
  BY <1>2, <1>6 DEF ThreadTypes
<1>11. /\ handled'[n] = handled[n] \cup {m}
       /\ \A x \in Nodes : x # n => handled'[x] = handled[x]
  BY <1>1, <1>2 DEF MessageTypes
<1>12. \A x \in Nodes : (Over(x)' <=> Over(x)) /\ (Holds(x)' <=> Holds(x))
  BY <1>2, <1>3, <1>5, <1>9, <1>10 DEF Over, Holds
<1>13. ChainsAreLevel' /\ LeadersInTime'
  BY <1>1, <1>3, <1>12 DEF InTime, ChainsAreLevel, LeadersInTime
<1>14. OnlyCurrent' /\ Proposals'
  <2>1. \A b \in Blocks : (b < Current \/ b > Current) => b # Current
    BY <1>2
  <2>2. OnlyCurrent'
    BY <1>1, <1>3, <1>9, <2>1 DEF InTime, OnlyCurrent
  <2>3. Proposals'
    BY <1>1, <1>3 DEF InTime, Proposals, Proposal
  <2> QED BY <2>2, <2>3
<1>15. ThreadsInStep'
  BY <1>1, <1>2, <1>3, <1>4, <1>5, <1>9, <1>10, <1>11 DEF InTime, ThreadsInStep
<1>16. RoundsAreApart'
  BY <1>1, <1>2, <1>3, <1>5, <1>9, <1>10, <1>11 DEF InTime, RoundsAreApart, Counted
<1>17. MsgsShowVotes'
  BY <1>2, <1>3, <1>7, <1>8, <1>9, <1>11 DEF InTime, MsgsShowVotes
<1>18. AllSigned'
  <2>1. \A x \in Nodes, b \in Blocks : acceptT'[x][b] = "popped" => acceptT[x][b] = "popped"
    BY <1>9, <1>10
  <2> QED BY <1>1, <2>1 DEF InTime, AllSigned
<1> QED BY <1>1, <1>3, <1>13, <1>14, <1>15, <1>16, <1>17, <1>18 DEF InTime

\* A vote that arrives is on the current block, and is recorded.
LEMMA HandlesVoteInTime ==
  ASSUME IInv, InTime, NEW n \in Nodes, NEW m \in sent, HandleVote(n, m)
  PROVE InTime'
<1>1. /\ UNCHANGED <<blocks, proposing, electing, leading, sent, signatures, final, latest, iter, dead>>
      /\ UNCHANGED <<proposeT, echoT, acceptT>>
      /\ handled' = [handled EXCEPT ![n] = @ \cup {m}]
      /\ m \notin handled[n] /\ m.block \notin final[n] /\ m.tag # "propose" /\ Add(n, m)
  BY DEF HandleVote, Unhandled, Handled, chainVars, leaderVars, threadVars
<1>2. /\ ThreadTypes /\ MessageTypes /\ RecordTypes /\ Current \in Nat
      /\ (Current # 0 => Current \in Blocks) /\ m.block = Current /\ Current # 0
  <2>1. m.block \in Made
    BY DEF IInv, BlocksAreLinked
  <2> QED BY <1>1, <2>1, InTimeFacts DEF Blocks
<1>3. /\ Current' = Current /\ OneByOne' /\ \A t, x : Vote(t, x)' = Vote(t, x)
  BY <1>1, SameBlocks DEF InTime
<1>4. m = Vote(m.tag, m.from) /\ m.from \in Nodes /\ m.tag \in {"echo", "accept"}
  BY <1>1, <1>2 DEF Vote, MessageTypes, Messages, Tags
<1>5. msgs' = [msgs EXCEPT ![n][Current][m.from] = m.tag]
  BY <1>1, <1>2 DEF Add
<1>6. m.tag = "echo" => Vote("accept", m.from) \notin handled[n]
  <2>1. SUFFICES ASSUME m.tag = "echo", Vote("accept", m.from) \in handled[n] PROVE FALSE
    OBVIOUS
  <2>2. echoT[m.from][Current] = "done"
    BY <1>2, <1>4, <2>1 DEF InTime, ThreadsInStep, MessageTypes
  <2>3. Vote("echo", m.from) \in handled[n]
    BY <1>1, <1>2, <1>4, <2>2 DEF InTime, RoundsAreApart
  <2> QED BY <1>1, <1>4, <2>1, <2>3
<1>7. /\ handled'[n] = handled[n] \cup {m}
      /\ \A x \in Nodes : x # n => handled'[x] = handled[x]
  BY <1>1, <1>2 DEF MessageTypes
<1>8. m # Proposal(Current)
  BY <1>1 DEF Proposal
<1>9. ChainsAreLevel' /\ LeadersInTime' /\ OnlyCurrent' /\ Proposals' /\ AllSigned'
  BY <1>1, <1>3
    DEF InTime, ChainsAreLevel, LeadersInTime, Over, Holds, OnlyCurrent, Proposals,
      AllSigned
<1>10. ThreadsInStep'
  BY <1>1, <1>2, <1>3, <1>7, <1>8 DEF InTime, ThreadsInStep
<1>11. RoundsAreApart'
  BY <1>1, <1>2, <1>3, <1>7 DEF InTime, RoundsAreApart
<1>12. MsgsShowVotes'
  <2>1. ASSUME NEW x \in Nodes, NEW y \in Nodes, acceptT[x][Current] \in {"none", "sleep", "enough"}
        PROVE /\ Vote("accept", y) \in handled'[x] => msgs'[x][Current][y] = "accept"
              /\ Vote("echo", y) \in handled'[x] => msgs'[x][Current][y] \in {"echo", "accept"}
    <3>1. CASE x = n /\ y = m.from
      <4>1. msgs'[x][Current][y] = m.tag
        BY <1>2, <1>4, <1>5, <3>1 DEF RecordTypes
      <4>2. Vote("accept", y) \in handled'[x] => m.tag = "accept"
        BY <1>4, <1>6, <1>7, <3>1 DEF Vote
      <4> QED BY <1>4, <4>1, <4>2
    <3>2. CASE ~ (x = n /\ y = m.from)
      <4>1. msgs'[x][Current][y] = msgs[x][Current][y]
        BY <1>2, <1>4, <1>5, <3>2 DEF RecordTypes
      <4>2. \A t : Vote(t, y) \in handled'[x] => Vote(t, y) \in handled[x]
        BY <1>4, <1>7, <3>2 DEF Vote
      <4> QED BY <1>2, <2>1, <4>1, <4>2 DEF InTime, MsgsShowVotes
    <3> QED BY <3>1, <3>2
  <2> QED BY <1>1, <1>3, <2>1 DEF MsgsShowVotes
<1> QED BY <1>1, <1>3, <1>9, <1>10, <1>11, <1>12 DEF InTime

\* Who echoes has waited until all have the proposal.
LEMMA EchoesInTime ==
  ASSUME IInv, InTime, timely, NEW n \in Nodes, NEW b \in Made, SendEcho(n, b)
  PROVE InTime'
<1>1. /\ UNCHANGED <<blocks, proposing, electing, leading, handled, msgs, signatures, final, latest, iter, dead>>
      /\ UNCHANGED <<echoT, acceptT>>
      /\ proposeT[n][b] = "sleep" /\ proposeT' = [proposeT EXCEPT ![n][b] = "done"]
  BY DEF SendEcho, chainVars, leaderVars, voteVars
<1>2. /\ ThreadTypes /\ MessageTypes /\ Current \in Nat /\ b \in Blocks /\ b = Current /\ Current # 0
  BY <1>1, InTimeFacts DEF Blocks
<1>3. /\ Current' = Current /\ OneByOne' /\ \A t, x : Vote(t, x)' = Vote(t, x)
  BY <1>1, SameBlocks DEF InTime
<1>4. sent' = sent \cup {Vote("echo", n)}
  BY <1>2 DEF SendEcho, SendMsgToCommitteeAndSelf, Vote
<1>5. \A x \in Nodes : proposeT[x][Current] # "none"
  <2>1. Due(<<Current, 1>>) /\ Before(<<Current, 0>>, <<Current, 1>>)
    BY <1>2 DEF SendEcho, Before
  <2> QED BY <1>2, <2>1, DueProposal
<1>6. /\ proposeT'[n][Current] = "done"
      /\ \A x \in Nodes, c \in Blocks : ~ (x = n /\ c = Current) => proposeT'[x][c] = proposeT[x][c]
  BY <1>1, <1>2 DEF ThreadTypes
<1>7. \A x \in Nodes : (Vote("echo", x) = Vote("echo", n) => x = n) /\ Vote("accept", x) # Vote("echo", n)
  BY DEF Vote
<1>8. ChainsAreLevel' /\ LeadersInTime' /\ AllSigned' /\ MsgsShowVotes'
  BY <1>1, <1>3 DEF InTime, ChainsAreLevel, LeadersInTime, Over, Holds, AllSigned, MsgsShowVotes
<1>9. OnlyCurrent' /\ Proposals'
  BY <1>1, <1>2, <1>3, <1>4, <1>6 DEF InTime, OnlyCurrent, Proposals, Vote
<1>10. ThreadsInStep'
  BY <1>1, <1>2, <1>3, <1>4, <1>5, <1>6, <1>7 DEF InTime, ThreadsInStep
<1>11. RoundsAreApart'
  BY <1>1, <1>2, <1>3, <1>5, <1>6 DEF InTime, RoundsAreApart
<1> QED BY <1>1, <1>3, <1>8, <1>9, <1>10, <1>11 DEF InTime

\* Who accepts has the echoes of all.
LEMMA AcceptsInTime ==
  ASSUME IInv, InTime, timely, NEW n \in Nodes, NEW b \in Made, HandleConsensusEcho(n, b)
  PROVE InTime'
<1>1. /\ UNCHANGED <<blocks, proposing, electing, leading, handled, msgs, signatures, final, latest, iter, dead>>
      /\ UNCHANGED <<proposeT, acceptT>>
  BY DEF HandleConsensusEcho, chainVars, leaderVars, voteVars
<1>2. /\ ThreadTypes /\ MessageTypes /\ Current \in Nat /\ b \in Blocks /\ b = Current /\ Current # 0
      /\ echoT[n][b] = "sleep" /\ acceptT[n][b] \in {"none", "sleep"} \cup Counted
  <2>1. b \in Blocks /\ echoT[n][b] # "retry"
    BY InTimeFacts
  <2>2. echoT[n][b] = "sleep"
    BY <2>1 DEF HandleConsensusEcho
  <2> QED BY <2>1, <2>2, InTimeFacts DEF Blocks
<1>3. /\ Current' = Current /\ OneByOne' /\ \A t, x : Vote(t, x)' = Vote(t, x)
  BY <1>1, SameBlocks DEF InTime
<1>4. \A x \in Nodes :
        /\ proposeT[x][Current] = "done"
        /\ \A y \in Nodes : Vote("echo", y) \in handled[x] \/ Current \in final[x]
  <2>1. Due(<<Current, 2>>) /\ Before(<<Current, 0>>, <<Current, 2>>) /\ Before(<<Current, 1>>, <<Current, 2>>)
    BY <1>2 DEF HandleConsensusEcho, Before
  <2> QED BY <1>2, <2>1, DueEchoes
<1>5. acceptT[n][Current] \in {"none", "sleep"} /\ Current \notin final[n]
  <2>1. acceptT[n][Current] \notin Counted
    BY <1>2 DEF InTime, RoundsAreApart
  <2> QED BY <1>2, <2>1, FinalIsCounted DEF Counted
<1>6. CountValidVotes(n, b) >= RequiredVotes
  <2>1. {x \in Nodes : msgs[n][b][x] \in {"echo", "accept"}} = Nodes
    BY <1>2, <1>4, <1>5 DEF InTime, MsgsShowVotes
  <2> QED BY <2>1, VotesNeeded DEF CountValidVotes
<1>7. sent' = sent \cup {Vote("accept", n)} /\ echoT' = [echoT EXCEPT ![n][b] = "done"]
  BY <1>2, <1>6 DEF HandleConsensusEcho, SendMsgToCommitteeAndSelf, Vote
<1>8. /\ echoT'[n][Current] = "done"
      /\ \A x \in Nodes, c \in Blocks : ~ (x = n /\ c = Current) => echoT'[x][c] = echoT[x][c]
  BY <1>2, <1>7 DEF ThreadTypes
<1>9. \A x \in Nodes : (Vote("accept", x) = Vote("accept", n) => x = n) /\ Vote("echo", x) # Vote("accept", n)
  BY DEF Vote
<1>10. ChainsAreLevel' /\ LeadersInTime' /\ AllSigned' /\ MsgsShowVotes'
  BY <1>1, <1>3 DEF InTime, ChainsAreLevel, LeadersInTime, Over, Holds, AllSigned, MsgsShowVotes
<1>11. OnlyCurrent' /\ Proposals'
  BY <1>1, <1>2, <1>3, <1>7, <1>8 DEF InTime, OnlyCurrent, Proposals, Vote
<1>12. ThreadsInStep'
  BY <1>1, <1>2, <1>3, <1>4, <1>7, <1>8, <1>9 DEF InTime, ThreadsInStep
<1>13. RoundsAreApart'
  BY <1>1, <1>2, <1>3, <1>4, <1>8 DEF InTime, RoundsAreApart
<1> QED BY <1>1, <1>3, <1>10, <1>11, <1>12, <1>13 DEF InTime

\* Who counts has the accepts of all.
LEMMA CountsInTime ==
  ASSUME IInv, InTime, timely, NEW n \in Nodes, NEW b \in Made, HandleConsensusAccept(n, b)
  PROVE InTime'
<1>1. /\ UNCHANGED <<blocks, proposing, electing, leading, sent, handled, msgs, signatures, final, latest, iter, dead>>
      /\ UNCHANGED <<proposeT, echoT>>
  BY DEF HandleConsensusAccept, chainVars, leaderVars, voteVars
<1>2. /\ ThreadTypes /\ Current \in Nat /\ b \in Blocks /\ b = Current /\ Current # 0
      /\ acceptT[n][b] = "sleep"
  <2>1. b \in Blocks /\ acceptT[n][b] \in {"none", "sleep"} \cup Counted
    BY InTimeFacts
  <2>2. acceptT[n][b] = "sleep"
    BY <2>1 DEF HandleConsensusAccept, Counted
  <2> QED BY <2>1, <2>2, InTimeFacts DEF Blocks
<1>3. /\ Current' = Current /\ OneByOne' /\ \A t, x : Vote(t, x)' = Vote(t, x)
  BY <1>1, SameBlocks DEF InTime
<1>4. \A x \in Nodes :
        /\ echoT[x][Current] = "done"
        /\ \A y \in Nodes : Vote("accept", y) \in handled[x] \/ Current \in final[x]
  <2>1. Due(<<Current, 3>>) /\ Before(<<Current, 0>>, <<Current, 3>>) /\ Before(<<Current, 2>>, <<Current, 3>>)
    BY <1>2 DEF HandleConsensusAccept, Before
  <2> QED BY <1>2, <2>1, DueAccepts
<1>5. Current \notin final[n]
  BY <1>2, FinalIsCounted
<1>6. EnoughAccepts(n, b)
  <2>1. {x \in Nodes : msgs[n][b][x] = "accept"} = Nodes
    BY <1>2, <1>4, <1>5 DEF InTime, MsgsShowVotes
  <2> QED BY <2>1, VotesNeeded DEF CountValidAccepts, EnoughAccepts
<1>7. acceptT' = [acceptT EXCEPT ![n][b] = "enough"]
  BY <1>6 DEF HandleConsensusAccept
<1>8. /\ acceptT'[n][Current] = "enough"
      /\ \A x \in Nodes, c \in Blocks : ~ (x = n /\ c = Current) => acceptT'[x][c] = acceptT[x][c]
  BY <1>2, <1>7 DEF ThreadTypes
<1>9. \A x \in Nodes : (Over(x)' <=> Over(x)) /\ (Holds(x)' <=> Holds(x))
  BY <1>2, <1>3, <1>8 DEF Over, Holds
<1>10. ChainsAreLevel' /\ LeadersInTime'
  BY <1>1, <1>3, <1>9 DEF InTime, ChainsAreLevel, LeadersInTime
<1>11. OnlyCurrent' /\ Proposals'
  <2>1. \A c \in Blocks : (c < Current \/ c > Current) => c # Current
    BY <1>2 DEF Blocks
  <2>2. OnlyCurrent'
    BY <1>1, <1>3, <1>8, <2>1 DEF InTime, OnlyCurrent
  <2>3. Proposals'
    BY <1>1, <1>3 DEF InTime, Proposals, Proposal
  <2> QED BY <2>2, <2>3
<1>12. ThreadsInStep'
  BY <1>1, <1>2, <1>3, <1>8 DEF InTime, ThreadsInStep, Counted
<1>13. RoundsAreApart'
  BY <1>1, <1>2, <1>3, <1>4, <1>8 DEF InTime, RoundsAreApart
<1>14. MsgsShowVotes' /\ AllSigned'
  BY <1>1, <1>2, <1>3, <1>8 DEF InTime, MsgsShowVotes, AllSigned
<1> QED BY <1>1, <1>3, <1>10, <1>11, <1>12, <1>13, <1>14 DEF InTime

\* Nobody has taken the accepts out before all of them were handled.
LEMMA PopsInTime ==
  ASSUME IInv, InTime, NEW n \in Nodes, NEW b \in Made, Pop(n, b)
  PROVE InTime'
<1>1. /\ UNCHANGED <<blocks, proposing, electing, leading, sent, handled, final, latest, iter, dead>>
      /\ UNCHANGED <<proposeT, echoT>>
      /\ acceptT[n][b] = "enough" /\ acceptT' = [acceptT EXCEPT ![n][b] = "popped"]
      /\ signatures' = [signatures EXCEPT ![n][b] = GetAllConsensusMsgs(n, b)]
      /\ msgs' = [msgs EXCEPT ![n][b] = [m \in Nodes |-> "none"]]
  BY DEF Pop, leaderVars
<1>2. /\ ThreadTypes /\ RecordTypes /\ Current \in Nat /\ b \in Blocks /\ b = Current /\ Current # 0
      /\ Blocks \subseteq Nat \ {0}
  BY <1>1, InTimeFacts
<1>3. /\ Current' = Current /\ OneByOne' /\ \A t, x : Vote(t, x)' = Vote(t, x)
  BY <1>1, SameBlocks DEF InTime
<1>4. Current \notin final[n]
  BY <1>1, <1>2, FinalIsCounted
<1>5. GetAllConsensusMsgs(n, b) = Nodes \X {"accept"}
  <2>1. \A x \in Nodes : msgs[n][b][x] = "accept"
    BY <1>1, <1>2, <1>4 DEF InTime, RoundsAreApart, MsgsShowVotes, Counted
  <2> QED BY <2>1 DEF GetAllConsensusMsgs, Tags
<1>6. /\ acceptT'[n][Current] = "popped" /\ signatures'[n][Current] = Nodes \X {"accept"}
      /\ \A x \in Nodes, c \in Blocks : ~ (x = n /\ c = Current) =>
           /\ acceptT'[x][c] = acceptT[x][c] /\ signatures'[x][c] = signatures[x][c]
           /\ msgs'[x][c] = msgs[x][c]
  BY <1>1, <1>2, <1>5 DEF ThreadTypes, RecordTypes
<1>7. \A x \in Nodes : (Over(x)' <=> Over(x)) /\ (Holds(x)' <=> Holds(x))
  BY <1>1, <1>2, <1>3, <1>6 DEF Over, Holds
<1>8. ChainsAreLevel' /\ LeadersInTime'
  BY <1>1, <1>3, <1>7 DEF InTime, ChainsAreLevel, LeadersInTime
<1>9. OnlyCurrent' /\ Proposals'
  <2>1. \A c \in Blocks : (c < Current \/ c > Current) => c # Current
    BY <1>2
  <2>2. OnlyCurrent'
    BY <1>1, <1>3, <1>6, <2>1 DEF InTime, OnlyCurrent
  <2>3. Proposals'
    BY <1>1, <1>3 DEF InTime, Proposals, Proposal
  <2> QED BY <2>2, <2>3
<1>10. ThreadsInStep'
  BY <1>1, <1>2, <1>3, <1>6 DEF InTime, ThreadsInStep, Counted
<1>11. RoundsAreApart'
  BY <1>1, <1>2, <1>3, <1>6 DEF InTime, RoundsAreApart, Counted
<1>12. MsgsShowVotes'
  BY <1>1, <1>2, <1>3, <1>6 DEF InTime, MsgsShowVotes
<1>13. AllSigned'
  BY <1>1, <1>2, <1>6 DEF InTime, AllSigned
<1> QED BY <1>1, <1>3, <1>8, <1>9, <1>10, <1>11, <1>12, <1>13 DEF InTime

\* The block before is there, the block itself is not: nothing dies of it.
LEMMA AddsInTime ==
  ASSUME IInv, InTime, NEW n \in Nodes, NEW b \in Made, AddFinal(n, b)
  PROVE InTime'
<1>1. /\ UNCHANGED <<blocks, proposing, electing, leading, sent, msgs, signatures, iter>>
      /\ UNCHANGED <<proposeT, echoT>>
      /\ acceptT[n][b] = "popped" /\ acceptT' = [acceptT EXCEPT ![n][b] = "added"]
      /\ final' = [final EXCEPT ![n] = @ \cup {b}] /\ latest' = [latest EXCEPT ![n] = b]
      /\ handled' = [handled EXCEPT ![n] = {m \in @ : m.block # b}]
  BY DEF AddFinal, Appends, Forget, leaderVars
<1>2. /\ ThreadTypes /\ MessageTypes /\ ChainTypes /\ Current \in Nat /\ b \in Blocks
      /\ b = Current /\ Current # 0 /\ Blocks \subseteq Nat \ {0}
  BY <1>1, InTimeFacts
<1>3. /\ Current' = Current /\ OneByOne' /\ \A t, x : Vote(t, x)' = Vote(t, x)
  BY <1>1, SameBlocks DEF InTime
<1>4. latest[n] = Current - 1 /\ final[n] = 0..(Current - 1) /\ iter[n] = Current
  BY <1>1, <1>2 DEF InTime, ChainsAreLevel, Holds, Over
<1>5. dead' = "none"
  <2>1. b \notin final[n] /\ Previous(b) \in final[n]
    BY <1>2, <1>4 DEF InTime, OneByOne
  <2> QED BY <2>1 DEF AddFinal
<1>6. /\ acceptT'[n][Current] = "added"
      /\ \A x \in Nodes, c \in Blocks : ~ (x = n /\ c = Current) => acceptT'[x][c] = acceptT[x][c]
  BY <1>1, <1>2 DEF ThreadTypes
<1>7. /\ final'[n] = 0..Current /\ latest'[n] = Current
      /\ \A x \in Nodes : x # n => final'[x] = final[x] /\ latest'[x] = latest[x]
  <2>1. final'[n] = final[n] \cup {Current}
    BY <1>1, <1>2 DEF ChainTypes
  <2> QED BY <1>1, <1>2, <1>4, <2>1 DEF ChainTypes
<1>8. /\ handled'[n] = {m \in handled[n] : m.block # Current}
      /\ \A x \in Nodes : x # n => handled'[x] = handled[x]
  BY <1>1, <1>2 DEF MessageTypes
<1>9. \A x \in Nodes : Over(x)' <=> Over(x)
  BY <1>1, <1>2, <1>3, <1>6 DEF Over
<1>10. Holds(n)' /\ \A x \in Nodes : x # n => (Holds(x)' <=> Holds(x))
  BY <1>2, <1>3, <1>6, <1>9 DEF Holds
<1>11. ChainsAreLevel'
  BY <1>1, <1>2, <1>3, <1>4, <1>7, <1>9, <1>10 DEF InTime, ChainsAreLevel
<1>12. LeadersInTime'
  BY <1>1, <1>3, <1>9 DEF InTime, LeadersInTime
<1>13. OnlyCurrent' /\ Proposals'
  <2>1. \A c \in Blocks : (c < Current \/ c > Current) => c # Current
    BY <1>2
  <2>2. OnlyCurrent'
    BY <1>1, <1>3, <1>6, <2>1 DEF InTime, OnlyCurrent
  <2>3. Proposals'
    BY <1>1, <1>3 DEF InTime, Proposals, Proposal
  <2> QED BY <2>2, <2>3
<1>14. Proposal(Current)' = Proposal(Current)
  BY <1>1, <1>3 DEF Proposal
<1>15. ThreadsInStep'
  BY <1>1, <1>2, <1>3, <1>6, <1>7, <1>8, <1>14 DEF InTime, ThreadsInStep, Counted
<1>16. RoundsAreApart'
  <2>1. Current \in final'[n]
    BY <1>2, <1>7
  <2> QED BY <1>1, <1>2, <1>3, <1>6, <1>7, <1>8, <2>1 DEF InTime, RoundsAreApart, Counted
<1>17. MsgsShowVotes'
  BY <1>1, <1>2, <1>3, <1>6, <1>8 DEF InTime, MsgsShowVotes
<1>18. AllSigned'
  <2>1. ASSUME NEW x \in Nodes, NEW c \in Blocks, c \in final'[x] \/ acceptT'[x][c] = "popped"
        PROVE c \in final[x] \/ acceptT[x][c] = "popped"
    BY <1>1, <1>2, <1>4, <1>6, <1>7, <2>1 DEF ChainTypes
  <2> QED BY <1>1, <2>1 DEF InTime, AllSigned
<1> QED BY <1>3, <1>5, <1>11, <1>12, <1>13, <1>15, <1>16, <1>17, <1>18 DEF InTime

\* Who goes on to the next iteration has the current block.
LEMMA NextsInTime ==
  ASSUME IInv, InTime, NEW n \in Nodes, NEW b \in Made, NextIteration(n, b)
  PROVE InTime'
<1>1. /\ UNCHANGED <<blocks, proposing, leading, sent, handled, msgs, signatures, final, latest, dead>>
      /\ UNCHANGED <<proposeT, echoT>>
      /\ acceptT[n][b] = "added" /\ acceptT' = [acceptT EXCEPT ![n][b] = "done"]
      /\ iter' = [iter EXCEPT ![n] = @ + 1] /\ electing' = [electing EXCEPT ![n] = @ + 1]
  BY DEF NextIteration, voteVars
<1>2. /\ ThreadTypes /\ ChainTypes /\ Current \in Nat /\ b \in Blocks
      /\ b = Current /\ Current # 0 /\ Blocks \subseteq Nat \ {0}
  BY <1>1, InTimeFacts
<1>3. /\ Current' = Current /\ OneByOne' /\ \A t, x : Vote(t, x)' = Vote(t, x)
  BY <1>1, SameBlocks DEF InTime
<1>4. ~ Over(n) /\ Holds(n)
  BY <1>1, <1>2 DEF Over, Holds
<1>5. electing[n] = 0 /\ leading[n] = 0 /\ iter[n] = Current
      /\ ~ (proposing # {} /\ LeaderOf(Len(blocks)) = n)
  BY <1>4 DEF InTime, LeadersInTime, ChainsAreLevel
<1>6. /\ acceptT'[n][Current] = "done"
      /\ \A x \in Nodes, c \in Blocks : ~ (x = n /\ c = Current) => acceptT'[x][c] = acceptT[x][c]
  BY <1>1, <1>2 DEF ThreadTypes
<1>7. /\ iter'[n] = Current + 1 /\ electing'[n] = 1
      /\ \A x \in Nodes : x # n => iter'[x] = iter[x] /\ electing'[x] = electing[x]
  BY <1>1, <1>2, <1>5 DEF ChainTypes
<1>8. /\ Over(n)' /\ Holds(n)'
      /\ \A x \in Nodes : x # n => (Over(x)' <=> Over(x)) /\ (Holds(x)' <=> Holds(x))
  BY <1>2, <1>3, <1>6 DEF Over, Holds
<1>9. ChainsAreLevel'
  BY <1>1, <1>3, <1>4, <1>7, <1>8 DEF InTime, ChainsAreLevel
<1>10. LeadersInTime'
  BY <1>1, <1>3, <1>5, <1>7, <1>8 DEF InTime, LeadersInTime
<1>11. OnlyCurrent' /\ Proposals'
  <2>1. \A c \in Blocks : (c < Current \/ c > Current) => c # Current
    BY <1>2
  <2>2. OnlyCurrent'
    BY <1>1, <1>3, <1>6, <2>1 DEF InTime, OnlyCurrent
  <2>3. Proposals'
    BY <1>1, <1>3 DEF InTime, Proposals, Proposal
  <2> QED BY <2>2, <2>3
<1>12. ThreadsInStep'
  BY <1>1, <1>2, <1>3, <1>6 DEF InTime, ThreadsInStep, Counted
<1>13. RoundsAreApart'
  BY <1>1, <1>2, <1>3, <1>6 DEF InTime, RoundsAreApart, Counted
<1>14. MsgsShowVotes'
  BY <1>1, <1>2, <1>3, <1>6 DEF InTime, MsgsShowVotes
<1>15. AllSigned'
  BY <1>1, <1>2, <1>6 DEF InTime, AllSigned
<1> QED BY <1>1, <1>3, <1>9, <1>10, <1>11, <1>12, <1>13, <1>14, <1>15 DEF InTime

\* While a block is nowhere, no message about it is to come.
LEMMA NoneMissesInTime ==
  ASSUME IInv, InTime, NEW n \in Nodes, NEW m \in sent, MissProposedBlock(n, m)
  PROVE FALSE
<1>1. m \notin handled[n] /\ m.block \notin final[n] /\ acceptT[n][m.block] = "popped"
  BY DEF MissProposedBlock, Unhandled
<1>2. /\ MessageTypes /\ m.block = Current /\ Current # 0 /\ Current \in Blocks
  <2>1. m.block \in Made
    BY DEF IInv, BlocksAreLinked
  <2> QED BY <1>1, <2>1, InTimeFacts
<1>3. m.tag \in Tags /\ m.from \in Nodes /\ m = [tag |-> m.tag, block |-> m.block, from |-> m.from]
  BY <1>2 DEF MessageTypes, Messages
<1>4. CASE m.tag = "propose"
  BY <1>1, <1>2, <1>4 DEF InTime, Proposals, ThreadsInStep
<1>5. CASE m.tag # "propose"
  <2>1. m = Vote(m.tag, m.from) /\ m.tag \in {"echo", "accept"}
    BY <1>2, <1>3, <1>5 DEF Vote, Tags
  <2>2. echoT[n][Current] = "done" /\ Vote("accept", m.from) \in handled[n]
    BY <1>1, <1>2, <1>3 DEF InTime, RoundsAreApart, Counted
  <2>3. Vote("echo", m.from) \in handled[n]
    BY <1>1, <1>2, <1>3, <2>2 DEF InTime, RoundsAreApart
  <2> QED BY <1>1, <2>1, <2>2, <2>3
<1> QED BY <1>4, <1>5

\* No goroutine comes to fetch a block.
LEMMA NoneFetchesInTime ==
  ASSUME IInv, InTime, NEW n \in Nodes, NEW b \in Made
  PROVE ~ Fetch(n, b)
<1>1. acceptT[n][b] \in {"none", "sleep"} \cup Counted
  BY InTimeFacts
<1> QED
  BY <1>1
    DEF Fetch, RequestMissingBlock, ReadLastIteration, AddMissingBlock, NextAfterMissing,
      Counted

-----------------------------------------------------------------------------
\* There is no current block at the start.
LEMMA InitTInv == ASSUME Init PROVE TInv
<1>1. Current = 0 /\ Made = {} /\ proposing = {}
  BY EmptySeq DEF Init, Current, Made
<1>2. \A b \in Blocks : b \in Nat \ {0}
  BY RapidAssumption DEF Blocks
<1>3. OneByOne /\ LeadersInTime /\ OnlyCurrent /\ Proposals
  BY <1>1, <1>2 DEF Init, OneByOne, LeadersInTime, Over, OnlyCurrent, Proposals
<1>4. ChainsAreLevel
  BY <1>1 DEF Init, ChainsAreLevel, Over, Holds
<1>5. ThreadsInStep /\ RoundsAreApart /\ MsgsShowVotes
  BY <1>1 DEF ThreadsInStep, RoundsAreApart, MsgsShowVotes
<1>6. AllSigned
  BY <1>2 DEF Init, AllSigned
<1> QED BY <1>3, <1>4, <1>5, <1>6 DEF Init, TInv, InTime

\* Every step keeps the rounds apart, as long as none is late.
LEMMA StepTInv == ASSUME IInv, TInv, [Next]_vars PROVE TInv'
<1>1. timely' = timely
  <2>1. ASSUME NEW n \in Nodes, LeaderStep(n) PROVE timely' = timely
    BY <2>1 DEF LeaderStep, StartNewIteration, CreateProposeBlock, Propose
  <2>2. ASSUME NEW n \in Nodes, Receive(n) PROVE timely' = timely
    BY <2>2 DEF Receive, HandlePropose, HandleVote, MissProposedBlock, leaderVars
  <2>3. ASSUME NEW n \in Nodes, NEW b \in Made, Thread(n, b) PROVE timely' = timely
    BY <2>3
    DEF Thread, SendEcho, HandleConsensusEcho, HandleConsensusAccept, Pop, AddFinal, NextIteration, leaderVars
  <2>4. ASSUME NEW n \in Nodes, NEW b \in Made, Fetch(n, b) PROVE timely' = timely
    BY <2>4
    DEF Fetch, RequestMissingBlock, ReadLastIteration, AddMissingBlock, NextAfterMissing, leaderVars
  <2>5. ASSUME UNCHANGED vars PROVE timely' = timely
    BY <2>5 DEF vars
  <2> QED BY <2>1, <2>2, <2>3, <2>4, <2>5 DEF Next, Terminated
<1>2. SUFFICES ASSUME timely PROVE InTime'
  BY <1>1 DEF TInv
<1>3. InTime
  BY <1>2 DEF TInv
<1>4. ASSUME NEW n \in Nodes, LeaderStep(n) PROVE InTime'
  <2>1. ASSUME NEW b \in proposing, Propose(n, b) PROVE InTime'
    <3>1. b \in Made
      BY DEF IInv, BlocksAreLinked
    <3> QED BY <1>2, <1>3, <2>1, <3>1, ProposesInTime
  <2> QED BY <1>3, <1>4, <2>1, StartsInTime, CreatesInTime DEF LeaderStep
<1>5. ASSUME NEW n \in Nodes, Receive(n) PROVE InTime'
  BY <1>3, <1>5, HandlesProposalInTime, HandlesVoteInTime, NoneMissesInTime DEF Receive
<1>6. ASSUME NEW n \in Nodes, NEW b \in Made, Thread(n, b) PROVE InTime'
  BY <1>2, <1>3, <1>6, EchoesInTime, AcceptsInTime, CountsInTime, PopsInTime, AddsInTime,
     NextsInTime DEF Thread
<1>7. ASSUME UNCHANGED vars PROVE InTime'
  <2>1. /\ UNCHANGED <<blocks, proposing, electing, leading, sent, handled, msgs, signatures>>
        /\ UNCHANGED <<final, latest, iter, dead, proposeT, echoT, acceptT>>
    BY <1>7 DEF vars
  <2>2. Current' = Current /\ OneByOne' /\ \A t, x : Vote(t, x)' = Vote(t, x)
    BY <1>3, <2>1, SameBlocks DEF InTime
  <2>3. ChainsAreLevel' /\ LeadersInTime' /\ OnlyCurrent' /\ Proposals'
    BY <1>3, <2>1, <2>2
    DEF InTime, ChainsAreLevel, LeadersInTime, Over, Holds, OnlyCurrent, Proposals, Proposal
  <2>4. ThreadsInStep' /\ RoundsAreApart' /\ MsgsShowVotes' /\ AllSigned'
    BY <1>3, <2>1, <2>2
      DEF InTime, ThreadsInStep, RoundsAreApart, MsgsShowVotes, AllSigned, Proposal
  <2> QED BY <1>3, <2>1, <2>2, <2>3, <2>4 DEF InTime
<1> QED
  BY <1>3, <1>4, <1>5, <1>6, <1>7, NoneFetchesInTime DEF Next, Terminated

\* So they always are.
LEMMA AlwaysTInv == Spec => [](IInv /\ TInv)
<1>1. Init => IInv /\ TInv
  BY InitIInv, InitTInv
<1>2. (IInv /\ TInv) /\ [Next]_vars => (IInv /\ TInv)'
  BY StepIInv, StepTInv
<1> QED BY <1>1, <1>2, PTL DEF Spec

\* Within delta the blocks form one chain, one per iteration, which every node
\* holds without a hole and without ever fetching from it, for any committee, any
\* order of leaders and any number of blocks.
THEOREM OneChainInTime == Spec => []TimelyChains
<1>1. ASSUME IInv, TInv PROVE TimelyChains
  <2>1. SUFFICES ASSUME timely
                 PROVE /\ NoFetchInTime
                       /\ \A b, c \in Made : /\ Iteration(b) = Iteration(c) => b = c
                                             /\ Iteration(b) = Iteration(Previous(b)) + 1
                       /\ \A n \in Nodes :
                            /\ \A b \in final[n] \ {0} : Previous(b) \in final[n] /\ b <= latest[n]
                            /\ (\A b \in Blocks : acceptT[n][b] \notin {"added", "fetched", "fetchedLast"})
                                 => iter[n] = Iteration(latest[n]) + 1
    BY DEF TimelyChains, NoFetchInTime
  <2>2. InTime
    BY <1>1, <2>1 DEF TInv
  <2>3. /\ ChainTypes /\ Current \in Nat /\ (Current # 0 => Current \in Made)
        /\ Made \subseteq Blocks /\ Blocks \subseteq Nat \ {0}
    BY <1>1, <2>2, InTimeFacts
  <2>4. NoFetchInTime
    BY <1>1, <2>2, InTimeFacts DEF NoFetchInTime, InTime, Counted
  <2>5. \A b \in Made : Iteration(b) = b /\ Previous(b) = b - 1
    BY <2>2 DEF InTime, OneByOne
  <2>6. \A k \in 0..Current : Iteration(k) = k
    <3>1. \A k \in 1..Current : k \in Made
      BY <2>3, MadeIsBlock DEF Made
    <3> QED BY <2>3, <2>5, <3>1 DEF Iteration
  <2>7. ASSUME NEW b \in Made PROVE Iteration(b) = Iteration(Previous(b)) + 1
    <3>1. b \in Nat \ {0} /\ b <= Len(blocks) /\ Len(blocks) \in Nat
      BY <2>3, MadeIsBlock DEF Made
    <3>2. b - 1 = 0 \/ b - 1 \in Made
      BY <3>1 DEF Made
    <3>3. Iteration(b - 1) = b - 1
      BY <2>5, <3>2 DEF Iteration
    <3> QED BY <2>5, <3>1, <3>3
  <2>8. ASSUME NEW n \in Nodes
        PROVE /\ \A b \in final[n] \ {0} : Previous(b) \in final[n] /\ b <= latest[n]
              /\ (\A b \in Blocks : acceptT[n][b] \notin {"added", "fetched", "fetchedLast"})
                   => iter[n] = Iteration(latest[n]) + 1
    <3>1. /\ latest[n] = IF Holds(n) THEN Current ELSE Current - 1
          /\ final[n] = 0..latest[n]
          /\ iter[n] = IF Over(n) THEN Current + 1 ELSE Current
      BY <2>2 DEF InTime, ChainsAreLevel
    <3>2. latest[n] \in 0..Current
      BY <2>3, <3>1 DEF ChainTypes, Holds, Over
    <3>3. ASSUME NEW b \in final[n] \ {0} PROVE Previous(b) \in final[n] /\ b <= latest[n]
      <4>1. b \in 1..latest[n] /\ b \in Made
        BY <1>1, <2>3, <3>1, <3>2 DEF IInv, BlocksAreLinked
      <4> QED BY <2>5, <3>1, <3>2, <4>1
    <3>4. ASSUME \A b \in Blocks : acceptT[n][b] \notin {"added", "fetched", "fetchedLast"}
          PROVE iter[n] = Iteration(latest[n]) + 1
      <4>1. Holds(n) <=> Over(n)
        BY <2>3, <3>4 DEF Holds, Over
      <4> QED BY <2>3, <2>6, <3>1, <3>2, <4>1
    <3> QED BY <3>3, <3>4
  <2> QED BY <2>4, <2>5, <2>7, <2>8
<1> QED BY <1>1, AlwaysTInv, PTL

\* Within delta a block carries the same signatures everywhere: the accepts of all
\* members, since nobody takes them out before they have all come.
THEOREM SignaturesAgree == Spec => []SameSignatures
<1>1. ASSUME IInv, TInv PROVE SameSignatures
  <2>1. SUFFICES ASSUME timely, NEW n \in Nodes, NEW m \in Nodes, NEW b \in (final[n] \cap final[m]) \ {0}
                 PROVE signatures[n][b] = signatures[m][b]
    BY DEF SameSignatures
  <2>2. InTime
    BY <1>1, <2>1 DEF TInv
  <2>3. b \in Blocks
    BY <1>1, <2>2, InTimeFacts DEF IInv, BlocksAreLinked
  <2> QED BY <2>2, <2>3 DEF InTime, AllSigned
<1> QED BY <1>1, AlwaysTInv, PTL

=============================================================================
