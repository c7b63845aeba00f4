--------------------------- MODULE RapidConsensus ---------------------------
(***************************************************************************)
(* The consensus inside one committee of the RapidChain prototype          *)
(* (BlockChain/Consensus/rapidchain-master).  The leader of an iteration   *)
(* gossips a block and proposes it; members echo the proposal, accept a    *)
(* block that enough have echoed, and add one that enough have accepted.   *)
(* Nothing but sleeps of multiples of delta separates these rounds.  Who   *)
(* finds too few accepts fetches the block from another member.  That the  *)
(* chunks of a block have arrived everywhere when it is proposed is taken  *)
(* for granted here.                                                       *)
(*                                                                         *)
(* A proposal starts three goroutines on a node: one echoes, one counts    *)
(* echoes, one counts accepts and goes on to the next iteration; several   *)
(* blocks may be in their hands at once.  The first death ends the model:  *)
(* whoever dials a dead node dies of it (dial, ifErrFatal).                *)
(***************************************************************************)
EXTENDS Integers, FiniteSets, Sequences

CONSTANTS
  Nodes,          \* the members of the committee
  Leader,         \* who leads the iterations, a sequence taken cyclically
  CommitteeF,     \* the share of faulty members is 1/CommitteeF
  MaxBlocks,      \* the bound on the blocks that are proposed
  MaxLateBlocks   \* the same when messages are late

ASSUME RapidAssumption ==
  /\ IsFiniteSet(Nodes) /\ {MaxBlocks, MaxLateBlocks} \subseteq Nat /\ MaxLateBlocks <= MaxBlocks
  /\ Leader \in Seq(Nodes) /\ Leader # <<>>
  /\ CommitteeF \in Nat \ {0}

VARIABLES
  timely,      \* messages take less than delta, and what follows a sleep no time
  blocks,      \* the blocks proposed so far: their content, by number
  final,       \* the blocks in each node's blockchain; 0 is the genesis block
  latest,      \* LatestBlock
  iter,        \* the current iteration, nodeCtx.i
  msgs,        \* consensusMsgs: the tag of the last message of each member
  known,       \* the blocks consensusMsgs has an entry for
  signatures,  \* the messages recorded in each final block
  sent, handled,
  proposeT, echoT, acceptT,   \* where the three goroutines of a block stand
  asked,       \* in the third: the last block, who is asked, its LastIteration
  electing,    \* the goroutines of a node about to start a new iteration
  leading,     \* those that wait for transactions, being the leader
  proposing,   \* the blocks a leader has gossiped and not proposed yet
  dead         \* what has killed a node

threadVars == <<proposeT, echoT, acceptT, asked>>
leaderVars == <<timely, electing, leading, proposing, blocks>>
chainVars == <<final, latest, iter, signatures>>
voteVars == <<msgs, known, handled>>
vars == <<timely, blocks, final, latest, iter, msgs, known, signatures, sent, handled,
          proposeT, echoT, acceptT, asked, electing, leading, proposing, dead>>

Blocks == 1..MaxBlocks
Chain == 0..MaxBlocks
Tags == {"propose", "echo", "accept"}
Messages == [tag : Tags, block : Blocks, from : Nodes]

Made == 1..Len(blocks)
Iteration(b) == IF b = 0 THEN 0 ELSE blocks[b].iteration
Previous(b) == blocks[b].previous
LeaderOf(k) == Leader[((k - 1) % Len(Leader)) + 1]

\* Members leaves the node itself out.
RequiredVotes == (Cardinality(Nodes) - 1) \div CommitteeF + 1

Init ==
  /\ timely \in BOOLEAN
  /\ blocks = <<>>
  /\ final = [n \in Nodes |-> {0}]
  /\ latest = [n \in Nodes |-> 0]
  /\ iter = [n \in Nodes |-> 1]
  /\ msgs = [n \in Nodes |-> [b \in Blocks |-> [m \in Nodes |-> "none"]]]
  /\ known = [n \in Nodes |-> {}]
  /\ signatures = [n \in Nodes |-> [b \in Blocks |-> {}]]
  /\ sent = {} /\ handled = [n \in Nodes |-> {}]
  /\ proposeT = [n \in Nodes |-> [b \in Blocks |-> "none"]]
  /\ echoT = proposeT
  /\ acceptT = proposeT
  /\ asked = [n \in Nodes |-> [b \in Blocks |-> [base |-> 0, peer |-> Leader[1], last |-> 0]]]
  /\ electing = [n \in Nodes |-> 1]
  /\ leading = [n \in Nodes |-> 0]
  /\ proposing = {}
  /\ dead = "none"

-----------------------------------------------------------------------------
\* Time.  The rounds of block b are instants <<b, 0>> (propose) to <<b, 4>>; the
\* next block is proposed 2 delta after the accepts were counted at <<b, 3>>.

\* The instants at which the sleeping goroutines of node n wake up.
WakeUps(n) ==
  {<<b, 1>> : b \in {c \in Blocks : proposeT[n][c] = "sleep"}} \cup
  {<<b, 2>> : b \in {c \in Blocks : echoT[n][c] = "sleep"}} \cup
  {<<b, 3>> : b \in {c \in Blocks : echoT[n][c] = "retry" \/ acceptT[n][c] = "sleep"}} \cup
  {<<b, 4>> : b \in {c \in Blocks : acceptT[n][c] = "retry"}}

SentAt(m) == <<m.block, CASE m.tag = "propose" -> 0 [] m.tag = "echo" -> 1
                          [] m.tag = "accept" -> 2>>

Before(s, t) == s[1] < t[1] \/ (s[1] = t[1] /\ s[2] < t[2])

\* What is sent in one round has arrived, and the steps that follow a sleep have
\* been taken, before the goroutines of a later round wake up.
Due(t) ==
  timely =>
    /\ \A m \in sent, n \in Nodes :
         Before(SentAt(m), t) => m \in handled[n] \/ m.block \in final[n]
    /\ \A n \in Nodes :
         /\ electing[n] = 0
         /\ \A w \in WakeUps(n) : ~Before(w, t)
         /\ \A b \in Blocks :
              Before(<<b, 3>>, t) => acceptT[n][b] \notin {"enough", "popped", "added"}

-----------------------------------------------------------------------------
\* A new iteration starts: the node leads it, or waits for the proposal.
StartNewIteration(n) ==
  /\ electing[n] > 0
  /\ electing' = [electing EXCEPT ![n] = @ - 1]
  /\ leading' = [leading EXCEPT ![n] = IF LeaderOf(iter[n]) = n THEN @ + 1 ELSE @]
  /\ UNCHANGED <<timely, proposing, blocks, chainVars, voteVars, sent, threadVars, dead>>

\* Enough transactions: the leader makes a block on top of its latest one, for
\* the iteration it is in, and gossips it.
CreateProposeBlock(n) ==
  /\ leading[n] > 0 /\ Len(blocks) < IF timely THEN MaxBlocks ELSE MaxLateBlocks
  /\ leading' = [leading EXCEPT ![n] = @ - 1]
  /\ blocks' = Append(blocks, [iteration |-> iter[n], previous |-> latest[n],
                               leader |-> n])
  /\ proposing' = proposing \cup {Len(blocks')}
  /\ UNCHANGED <<timely, electing, chainVars, voteVars, sent, threadVars, dead>>

SendMsgToCommitteeAndSelf(tag, b, n) == sent' = sent \cup {[tag |-> tag, block |-> b, from |-> n]}

Propose(n, b) ==
  /\ b \in proposing /\ blocks[b].leader = n
  /\ Due(<<b, 0>>)
  /\ proposing' = proposing \ {b}
  /\ SendMsgToCommitteeAndSelf("propose", b, n)
  /\ UNCHANGED <<timely, electing, leading, blocks, chainVars, voteVars, threadVars, dead>>

-----------------------------------------------------------------------------
\* A message about a block that is final here is ignored, and a late one whose
\* proposal does not come in time is dropped: such messages are never handled.
Unhandled(n, m) == m \in sent /\ m \notin handled[n] /\ m.block \notin final[n]
Handled(n, m) == handled' = [handled EXCEPT ![n] = @ \cup {m}]

\* Nothing looks at them again once the block is final.
Forget(n, b) == handled' = [handled EXCEPT ![n] = {m \in @ : m.block # b}]

\* Faulty: the votes of a block are emptied by whatever message of it arrives.
AddClearing(n, m) ==
  /\ known' = [known EXCEPT ![n] = @ \cup {m.block}]
  /\ msgs' = [msgs EXCEPT ![n][m.block] =
                [x \in Nodes |-> IF x = m.from THEN m.tag ELSE "none"]]

\* The message takes the place of the sender's last one.
Add(n, m) ==
  /\ known' = [known EXCEPT ![n] = @ \cup {m.block}]
  /\ msgs' = [msgs EXCEPT ![n][m.block][m.from] = m.tag]

HandlePropose(n, m) ==
  /\ m.tag = "propose" /\ Unhandled(n, m)
  /\ Handled(n, m) /\ Add(n, m)
  /\ proposeT' = [proposeT EXCEPT ![n][m.block] = "sleep"]
  /\ echoT' = [echoT EXCEPT ![n][m.block] = "sleep"]
  /\ acceptT' = [acceptT EXCEPT ![n][m.block] = "sleep"]
  /\ UNCHANGED <<asked, leaderVars, chainVars, sent, dead>>

\* An echo or accept waits for the proposal.
HandleVote(n, m) ==
  /\ m.tag # "propose" /\ Unhandled(n, m)
  /\ m.block \in known[n]
  /\ Handled(n, m) /\ Add(n, m)
  /\ UNCHANGED <<leaderVars, chainVars, sent, threadVars, dead>>

\* Between its removal from the proposed blocks and its addition to the final ones
\* a block is nowhere: a message about it kills the node.
MissProposedBlock(n, m) ==
  /\ Unhandled(n, m) /\ acceptT[n][m.block] = "popped"
  /\ dead' = "no proposed block"
  /\ UNCHANGED <<leaderVars, chainVars, voteVars, sent, threadVars>>

SendEcho(n, b) ==
  /\ proposeT[n][b] = "sleep" /\ Due(<<b, 1>>)
  /\ proposeT' = [proposeT EXCEPT ![n][b] = "done"]
  /\ SendMsgToCommitteeAndSelf("echo", b, n)
  /\ UNCHANGED <<echoT, acceptT, asked, leaderVars, chainVars, voteVars, dead>>

\* Faulty: the proposal is taken for the leader's vote.
CountValidVotesOfAll(n, b) == Cardinality({m \in Nodes : msgs[n][b][m] # "none"})

CountValidVotes(n, b) == Cardinality({m \in Nodes : msgs[n][b][m] \in {"echo", "accept"}})

CountValidAccepts(n, b) == Cardinality({m \in Nodes : msgs[n][b][m] = "accept"})

EnoughAccepts(n, b) == CountValidAccepts(n, b) >= RequiredVotes

\* Enough echoes make the node accept; too few are counted again after a delta.
HandleConsensusEcho(n, b) ==
  /\ \/ echoT[n][b] = "sleep" /\ Due(<<b, 2>>)
     \/ echoT[n][b] = "retry" /\ Due(<<b, 3>>)
  /\ IF CountValidVotes(n, b) >= RequiredVotes
     THEN /\ SendMsgToCommitteeAndSelf("accept", b, n)
          /\ echoT' = [echoT EXCEPT ![n][b] = "done"]
     ELSE /\ echoT' = [echoT EXCEPT ![n][b] = IF @ = "sleep" THEN "retry" ELSE "done"]
          /\ UNCHANGED sent
  /\ UNCHANGED <<proposeT, acceptT, asked, leaderVars, chainVars, voteVars, dead>>

-----------------------------------------------------------------------------
\* The accepts are counted ...
HandleConsensusAccept(n, b) ==
  /\ \/ acceptT[n][b] = "sleep" /\ Due(<<b, 3>>)
     \/ acceptT[n][b] = "retry" /\ Due(<<b, 4>>)
  /\ acceptT' = [acceptT EXCEPT ![n][b] =
                   IF EnoughAccepts(n, b) THEN "enough"
                   ELSE IF @ = "sleep" THEN "retry" ELSE "missing"]
  /\ UNCHANGED <<proposeT, echoT, asked, leaderVars, chainVars, voteVars, sent, dead>>

\* Faulty: the members' messages only, among which the node's own are not.
GetAllMembersMsgs(n, b) == {s \in (Nodes \ {n}) \X Tags : msgs[n][b][s[1]] = s[2]}

GetAllConsensusMsgs(n, b) == {s \in Nodes \X Tags : msgs[n][b][s[1]] = s[2]}

\* ... under another lock than they are taken out, as the block's signatures.
Pop(n, b) ==
  /\ acceptT[n][b] = "enough"
  /\ acceptT' = [acceptT EXCEPT ![n][b] = "popped"]
  /\ signatures' = [signatures EXCEPT ![n][b] = GetAllConsensusMsgs(n, b)]
  /\ msgs' = [msgs EXCEPT ![n][b] = [m \in Nodes |-> "none"]]
  /\ UNCHANGED <<proposeT, echoT, asked, leaderVars, final, latest, iter, known,
                 handled, sent, dead>>

\* Faulty: the block is not stored.
AppendsLatestOnly(n, b) ==
  /\ latest' = [latest EXCEPT ![n] = b]
  /\ UNCHANGED final

\* Faulty: the latest block stays.
AppendsNot(n, b) ==
  /\ final' = [final EXCEPT ![n] = @ \cup {b}]
  /\ UNCHANGED latest

Appends(n, b) ==
  /\ final' = [final EXCEPT ![n] = @ \cup {b}]
  /\ latest' = [latest EXCEPT ![n] = b]

\* Block b becomes final.  Processing it twice, or without the one it rests on,
\* may find an input that is not there.
AddFinal(n, b) ==
  /\ acceptT[n][b] = "popped"
  /\ acceptT' = [acceptT EXCEPT ![n][b] = "added"]
  /\ Appends(n, b) /\ Forget(n, b)
  /\ dead' \in {"none"} \cup (IF b \in final[n] \/ Previous(b) \notin final[n]
                             THEN {"input not found"} ELSE {})
  /\ UNCHANGED <<proposeT, echoT, asked, leaderVars, iter, signatures, msgs, known, sent>>

NextIteration(n, b) ==
  /\ acceptT[n][b] = "added"
  /\ acceptT' = [acceptT EXCEPT ![n][b] = "done"]
  /\ iter' = [iter EXCEPT ![n] = @ + 1]
  /\ electing' = [electing EXCEPT ![n] = @ + 1]
  /\ UNCHANGED <<timely, proposeT, echoT, asked, leading, proposing, blocks, final, latest,
                 signatures, voteVars, sent, dead>>

-----------------------------------------------------------------------------
\* Too few accepts: the missing block is fetched, unless the iteration is not the
\* one after the latest block, an error the code takes to be impossible.
RequestMissingBlock(n, b) ==
  /\ acceptT[n][b] = "missing"
  /\ IF Iteration(latest[n]) + 1 # iter[n]
     THEN dead' = "not in sync" /\ UNCHANGED <<acceptT, asked>>
     ELSE /\ acceptT' = [acceptT EXCEPT ![n][b] = "request"]
          /\ asked' = [asked EXCEPT ![n][b] = [@ EXCEPT !.base = latest[n]]]
          /\ UNCHANGED dead
  /\ UNCHANGED <<proposeT, echoT, leaderVars, chainVars, voteVars, sent>>

\* A random member is asked.  It looks up its last iteration first ...
ReadLastIteration(n, b) ==
  /\ acceptT[n][b] = "request"
  /\ \E m \in Nodes \ {n} :
       asked' = [asked EXCEPT ![n][b] = [@ EXCEPT !.last = Iteration(latest[m]), !.peer = m]]
  /\ acceptT' = [acceptT EXCEPT ![n][b] = "asked"]
  /\ UNCHANGED <<proposeT, echoT, leaderVars, chainVars, voteVars, sent, dead>>

\* The block member m gives for iteration k: the first at or below it, walking
\* back from the latest; a hole in the chain kills m.
GetByIteration(m, k) ==
  LET walk[c \in Chain] ==
        IF c \notin final[m] THEN -1
        ELSE IF Iteration(c) <= k THEN c
        ELSE walk[Previous(c)]
  IN  walk[latest[m]]

\* ... then the block, which the node adds if it is newer than its last.
AddMissingBlock(n, b) ==
  /\ acceptT[n][b] = "asked"
  /\ LET base == asked[n][b].base
         m == asked[n][b].peer
         c == GetByIteration(m, Iteration(base) + 1)
     IN  IF c = -1
         THEN dead' = "hole in the chain" /\ UNCHANGED <<acceptT, chainVars, handled>>
         ELSE IF Iteration(base) >= Iteration(c)
         THEN /\ acceptT' = [acceptT EXCEPT ![n][b] = "request"]
              /\ UNCHANGED <<chainVars, handled, dead>>
         ELSE /\ Appends(n, c) /\ Forget(n, c)
              /\ signatures' = [signatures EXCEPT ![n][c] = signatures[m][c]]
              /\ acceptT' = [acceptT EXCEPT ![n][b] =
                               IF asked[n][b].last = Iteration(c) THEN "fetchedLast"
                                                                  ELSE "fetched"]
              /\ UNCHANGED <<iter, dead>>
  /\ UNCHANGED <<proposeT, echoT, asked, leaderVars, msgs, known, sent>>

\* The iteration follows; another block is fetched unless this was the last.
NextAfterMissing(n, b) ==
  /\ acceptT[n][b] \in {"fetched", "fetchedLast"}
  /\ iter' = [iter EXCEPT ![n] = @ + 1]
  /\ IF acceptT[n][b] = "fetchedLast"
     THEN /\ electing' = [electing EXCEPT ![n] = @ + 1]
          /\ acceptT' = [acceptT EXCEPT ![n][b] = "gaveUp"]
     ELSE /\ acceptT' = [acceptT EXCEPT ![n][b] = "missing"]
          /\ UNCHANGED electing
  /\ UNCHANGED <<timely, proposeT, echoT, asked, leading, proposing, blocks, final, latest,
                 signatures, voteVars, sent, dead>>

-----------------------------------------------------------------------------
LeaderStep(n) ==
  \/ StartNewIteration(n)
  \/ CreateProposeBlock(n)
  \/ \E b \in proposing : Propose(n, b)

Receive(n) ==
  \E m \in sent : HandlePropose(n, m) \/ HandleVote(n, m) \/ MissProposedBlock(n, m)

Thread(n, b) ==
  \/ SendEcho(n, b)
  \/ HandleConsensusEcho(n, b)
  \/ HandleConsensusAccept(n, b) \/ Pop(n, b) \/ AddFinal(n, b) \/ NextIteration(n, b)

Fetch(n, b) ==
  \/ RequestMissingBlock(n, b) \/ ReadLastIteration(n, b)
  \/ AddMissingBlock(n, b) \/ NextAfterMissing(n, b)

\* Every node has every block.
Finished == \A n \in Nodes : final[n] = Chain

Terminated == Finished /\ UNCHANGED vars

Next ==
  \/ /\ dead = "none"
     /\ \E n \in Nodes : \/ LeaderStep(n)
                         \/ Receive(n)
                         \/ \E b \in Made : Thread(n, b) \/ Fetch(n, b)
  \/ Terminated

Spec == Init /\ [][Next]_vars

\* Every goroutine runs, every message is delivered and transactions arrive.
FairSpec == Spec /\ WF_vars(Next)

-----------------------------------------------------------------------------
TypeOK ==
  /\ timely \in BOOLEAN
  /\ blocks \in Seq([iteration : Nat, previous : Chain, leader : Nodes])
  /\ final \in [Nodes -> SUBSET Chain]
  /\ \A n \in Nodes : latest[n] \in final[n]
  /\ iter \in [Nodes -> Nat]
  /\ msgs \in [Nodes -> [Blocks -> [Nodes -> Tags \cup {"none"}]]]
  /\ known \in [Nodes -> SUBSET Blocks]
  /\ signatures \in [Nodes -> [Blocks -> SUBSET (Nodes \X Tags)]]
  /\ sent \subseteq Messages
  /\ handled \in [Nodes -> SUBSET sent]
  /\ proposeT \in [Nodes -> [Blocks -> {"none", "sleep", "done"}]]
  /\ echoT \in [Nodes -> [Blocks -> {"none", "sleep", "retry", "done"}]]
  /\ acceptT \in [Nodes -> [Blocks ->
       {"none", "sleep", "retry", "enough", "popped", "added", "done", "missing",
        "request", "asked", "fetched", "fetchedLast", "gaveUp"}]]
  /\ electing \in [Nodes -> Nat] /\ leading \in [Nodes -> Nat]
  /\ proposing \subseteq Blocks

Voters(tag, b) == {n \in Nodes : [tag |-> tag, block |-> b, from |-> n] \in sent}

\* What another committee checks of a block's proof of consensus: as many
\* signatures of members as votes are required (create-block.go:23).  The messages
\* are taken out after they were counted, and may have changed in between.
ProofsVerify ==
  \A n \in Nodes : \A b \in final[n] \ {0} :
    Cardinality({s[1] : s \in signatures[n][b]}) >= RequiredVotes

\* A block is final on any node, whether the node has counted or fetched, only
\* when as many members as required have accepted it, each of whom has counted as
\* many that had echoed it: however late messages are, the one cannot outrun the
\* other, although an accept counts as an echo.  Its proof verifies elsewhere.
FinalOnlyIfAccepted ==
  /\ \A n \in Nodes : \A b \in final[n] \ {0} :
       /\ Cardinality(Voters("accept", b)) >= RequiredVotes
       /\ Cardinality(Voters("echo", b)) >= RequiredVotes
  /\ ProofsVerify

\* consensus.go:221: a final block is recorded with enough accepts; its signatures
\* hold that many.  The code does not keep it (README, section 4), and no run
\* checks it.
SignaturesAreAccepts ==
  \A n \in Nodes : \A b \in final[n] \ {0} :
    Cardinality({s[1] : s \in {x \in signatures[n][b] : x[2] = "accept"}}) >= RequiredVotes

\* Within delta no node dies, and the rounds never come to a second count or a
\* fetch: what the sleeps order needs no other order.
NoFetchInTime ==
  timely => /\ dead = "none"
            /\ \A n \in Nodes, b \in Blocks :
                 acceptT[n][b] \notin {"retry", "missing"} /\ echoT[n][b] # "retry"

\* Within delta no iteration has two blocks, and each rests on the one of the
\* iteration before, although a leader makes it while other goroutines of its node
\* may be adding blocks.  What a node holds is this chain without a hole, got
\* without a fetch, and its iteration, if no goroutine is about to move it, is the
\* next one.
TimelyChains ==
  /\ NoFetchInTime
  /\ timely =>
       /\ \A b, c \in Made :
            /\ Iteration(b) = Iteration(c) => b = c
            /\ Iteration(b) = Iteration(Previous(b)) + 1
       /\ \A n \in Nodes :
            /\ \A b \in final[n] \ {0} : Previous(b) \in final[n] /\ b <= latest[n]
            /\ (\A b \in Blocks : acceptT[n][b] \notin {"added", "fetched", "fetchedLast"})
                 => iter[n] = Iteration(latest[n]) + 1

\* datastructures.go:754: the signature set of a final block is equal among all
\* nodes, as long as the network is as fast as delta says.
SameSignatures ==
  timely => \A n, m \in Nodes : \A b \in (final[n] \cap final[m]) \ {0} :
                 signatures[n][b] = signatures[m][b]

\* Within delta every node gets every block, at last.
EveryBlockFinal == timely ~> Finished
=============================================================================
