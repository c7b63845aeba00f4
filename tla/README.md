# Verification of Frustum

TLA+ models of the Frustum repository (`src/`): a Go test bench for sharded
blockchain consensus. One program, started as a seed node or as a node, runs a
chosen consensus over HTTP and measures throughput and latency; beside it lie
older consensus prototypes, a RapidChain prototype and single-process simulations.
The modules are translated from the Go source; every definition that stands for
code is listed with its lines in `PROJECT.json` ("map").

## 1. Inventory

| Part | Source | State it keeps | Operations |
| --- | --- | --- | --- |
| Vote counter | `BlockChain/Consensus/PBFT/Quorum.go` | proposal height, vote count, buffer of early votes, finish flag | `ResetCount`, `Handle` |
| frustum node | `BlockChain/Consensus/frustum/*.go` | block height, role, stage, six counters, tables of members | `MSGHandle` and the handlers for `start`, `PrePrepare`, `Prepare`, `Commit`, `Finality`, the tables; `NextRound`; command loop |
| Transaction pool | `BlockChain/TxPool/*.go` | one bounded channel per priority level | `AddTx`, `CommitTrs`, `CycleAddTx` |
| Block store | `BlockChain/DB/BlockChain.go` | bolt bucket (blocks, hashes, `latest`), tip and index in memory | `CreatBlockChain`, `AddNewBlock`, `AddNewBlockHash`, iterator |
| Seed node | `BlockChain/SeedNode/*.go` | tables of registered nodes, channel of messages to send | bootstrap commands, `MSGHandle`, start, exit, replay of Ethereum transactions |
| Network, node table | `BlockChain/NetWork/*.go` | tables shard -> members, traffic and transaction statistics | posts and their handlers, `AddNode`, `HandleShardMsg`, statistics |
| SS-Raft | `BlockChain/Consensus/SS-Raft/*.go` | role, term, last vote, counters, chain | election (time-out, `StartVote`, `ConfirmStartVote`, checker), heartbeat, registration, mining |
| SS-PBFT-V1 | `BlockChain/Consensus/SS-PBFT-V1/*.go` | height, role, three counters | PrePrepare/Prepare/Commit/FinalCommit in one shard |
| RapidChain prototype | `BlockChain/Consensus/rapidchain-master/*.go` | per node: gossip chunks, consensus messages, proposed and final blocks, UTXO, routing table | IDA gossip, the synchronous consensus, block creation, cross-shard transactions, leader election, coordinator |
| Simulations | `myBlockChain/*/main.go` | counters and locks shared by goroutines | one process per "node" over channels |
| Helpers | `ID`, `Message`, `Log`, `CLI`, `Helper.go`, `main.go` | none | formatting, parsing, logging, flags |

**How the parts interact.** The seed node learns of the nodes by registration,
distributes the tables of members (each node's shard, table 1024 with one leader
for each shard, table 1025 with the global leader) and sends `start` to the global
leader. Nodes talk to each other with one HTTP post a message; every post is made by
a goroutine of its own after a random delay. A node has one main loop
(`Node.Run`) that takes messages from a channel and runs their handlers to the end.
Beside it run the goroutines handlers leave behind: the posts, the leader's own
Prepare, the workers that fill the transaction pool, the statistics. The global
leader takes a block from the pool, reports `MiningStop` after the last height, and
the seed node takes the network down. SS-Raft has three threads a node instead of one.

**What is hard.** Messages are reordered freely, so votes overtake proposals and
proposals overtake each other. Goroutines read the main loop's fields without a lock.
No round is ever retried. The bootstrap is ordered by pauses of two seconds only. The
seed node's loop writes to the channel it reads. The pool is measured, then drained
with blocking receives. The election reads, compares and writes the term from three
threads of a node. `PROJECT.json` lists these hazards at their lines with the properties that
would notice.

**What makes each part correct**

- Vote counter: true is returned once a height and not too late; how many distinct voters
  stand behind it (fewer than a quorum may, see section 4).
- frustum: heights are closed one after another, each by answers of a quorum of
  distinct committee members for that very height; nobody is ahead of the leader;
  mining ends, or hangs in known situations only.
- Pool: a block is filled from the lowest levels first, is not empty, and making it
  does not block.
- Store: the latest entry and the index name blocks that exist, also after crashes, and
  until when the tip in memory agrees with them; blocks are never lost.
- Bootstrap: all nodes start on the same tables with one global leader; the network goes
  down after the mining, no node twice (that it may leave nodes running, see section 4).
- Raft election: one vote a term, a leader has half of the votes; which votes may be
  lost, and that no others are.
- RapidChain consensus: only a block that enough of the committee has echoed and
  accepted becomes final, everywhere the same.
- RapidChain ledger: outputs move between committees without being lost or doubled, and
  no transaction is left waiting by two committees that wait for each other.
- RapidChain network: which flags give a network that comes up; every member of the
  committee that a transaction reaches pools it once.

## 2. Modules

| Module | Models | Checked by | Proved in |
| --- | --- | --- | --- |
| `PBFTQuorum` | `Quorum.go`: the counter as a record and operators | the next two | their lemmas `Handle…`, `Reset…` |
| `VoteCounter` | one counter driven by every order of proposals and votes | `MCVoteCounter` | `VoteCounterProofs` |
| `Frustum` | the consensus node's handlers on both levels | `MCFrustum` | `FrustumProofs` |
| `CommitteeRounds` | abstract specification of `Frustum` | refined by `Frustum!Abstract` | `FrustumProofs` |
| `TxPool` | `TxPool.go` | `MCTxPool` | `StoresProofs` |
| `BlockStore` | `BlockChain.go` | `MCBlockStore` | `StoresProofs` |
| `Bootstrap` | seed node, node tables, start and shutdown | `MCBootstrap` | `BootstrapProofs` |
| `RaftElection` | the election of SS-Raft | `MCRaftElection` | `RaftElectionProofs` |
| `RapidConsensus` | the consensus of one RapidChain committee | `MCRapidConsensus` | `RapidConsensusProofs` |
| `CrossTx` | RapidChain's ledger across committees, and the client | `MCCrossTx` | `CrossTxProofs` |
| `RapidSetup` | what coordinator and nodes compute from the flags | the next one | `RapidOverlayProofs` |
| `RapidOverlay` | set-up, routing and gossip of a RapidChain network | `MCRapidOverlay` | `RapidOverlayProofs` |

How they fit together: `Bootstrap` establishes the tables that `Frustum` assumes
(`ReadyAtStart` and `FrustumAssumption`); `Frustum` is built on `PBFTQuorum` and
implements `CommitteeRounds`. `RapidConsensus` says how one committee accepts a
block, which is a single step in `CrossTx`; `RapidOverlay` says how a transaction gets
into the pools from which `CrossTx` makes its blocks.

### PBFTQuorum and VoteCounter
`QuorumType` is the struct `Quorum`: `latest`, `votes`, `finish` and `buffer`
are `LatestProposalNum`, `VoteCount`, `Finish` and `MsgBuffer`. Of a buffered vote only
the height is ever read, so the buffer is a number of votes for each height.
`Handle` runs under the single main loop, so it is one step. `Handle` answers in Go
with a pair; `Reaches` is its Boolean and `Handle` the counter it leaves behind.
`MaliciousNodes` is integer division: the code's
`math.Floor(float64(totalNum) * 1/3)` gives the same number for sizes of
this kind.

### Frustum and CommitteeRounds
Variables per node: `blockHeight`, `check` (`PrepareCheck`, `CommitCheck` and
`FinalityCheck`, each for the Intra and the Global level). `sent` holds all posts,
`handled` those whose handler has run, so `InFlight` is the network: a post can be
handled at any later time, in any order, once. Each message type has one action,
which is the whole handler with what it calls (`MSGHandle` resets the counters before
`HandlePrePrepare`; `HandleFinality` runs `NextRound` and `StartConsensus`). The one
goroutine whose timing matters, the leader's own Prepare, is `SendPrepare` with its
program counter `preparing`: it reads `BlockHeight` once for each level when
it runs. `CommitteeRounds` says what this adds up to: rounds opened in
order and closed by a quorum of distinct answers. The level `Scope` is found from the
sender's shard, as the handlers do.

### TxPool
`CommitTrs` is a loop over `measure` (one step a level, `ChLength`), `Decide` (the
recursive retry on an empty pool, `LengthCompare`, the shares) and `Take` (one
blocking receive). Workers add between any two of these. Transactions are counted, not
distinguished. The sums over the levels (`Total`, `SumBelow`) are recursive functions, as
the theorems about them need.

### BlockStore
Bolt transactions are atomic and serialised on disk; the memory fields are moved inside
them. The step inside a transaction and the commit are separate actions, so a crash or
a reader can come between. `tipFrom` says whose bytes `Tip` is. The store sets it to
bytes of its own, SS-Raft's `StartCommit` to those of a message, and `NewBlockChain` to
the slice that bolt returned for "latest": a piece of the mapped file, good until the
transaction ends. `page` follows that piece, and `ReusePage` is what a commit may do to
it: one that puts something frees the page, and may map the file elsewhere; any later
one may write there. An iterator started meanwhile has the same slice. `Garbage` stands
for memory that is no hash or is not mapped.

### Bootstrap
The operator types `sendMem`; each command leaves the next to a timer. `queue` is
`SendMsgCh`, emptied by the loop that fills it (`Send` blocks for ever when it does
not fit), `posted` are the posts under way. A bootstrap is `orderly` when `sendMem` is
typed after all nodes have registered and two seconds are enough for a phase; the
initial state leaves it open, and the properties say which of the two they need.
In this snapshot
`ServerV2.setRoute` is never called, so a seed node would receive nothing over HTTP;
the module models `MSGHandle` as `RecMsg` would invoke it. A blocked seed node sends
nothing of what its channel holds. `Leave` may come at any time after `Exit`: the loop
chooses between its channels, what is left in `queue` is never sent, and of what is
`posted` the goroutines that have not got to it end with the process.

### RaftElection
The main loop, the time-out thread and the counting thread of a node share `role` and
`term` without a lock, and each of their accesses is a step. `ReadTerm` and
`WriteTerm` are `IntraTerm++`. The counting thread is six: it takes a vote from the
channel (`TakeVote`), compares its term (`CheckVote`), compares the counter's
(`CheckCount`), empties the counter for the term it finds then (`ClearCount`), counts and
reads the role (`AddVote`), and writes it (`BecomeIntraLeader`). A heartbeat reads the role
in one step and writes it in another, and may so undo that write. Only in
`RespondStartVote` are reads of the term one step with the write they lead to: of the
other threads only the time-out thread writes it, once, and what it writes is at most the
candidate's term, so that write comes as well before the reads or after
the vote. The answer follows a sleep and reads the term again (`SendConfirm`). A heartbeat
is always possible once a leader exists. Left out: `IntraLeader` (only used to forward
transactions), which process runs which channel, and the pause in `Tick.Run`, which only
delays the main loop. The network package it imports is not in the repository: that its
broadcast leaves out the sender is taken from the use.

### RapidConsensus
`HandlePropose` and `HandleVote` are `handleConsensus`; a proposal starts three
goroutines of the block on a node, whose places are `proposeT`, `echoT` and `acceptT`.
`Pop`, `AddFinal` and `NextIteration` are the steps of `handleConsensusAccept` between
which other goroutines may see the node: the votes are counted, taken out, the block
added and the iteration counted up under four separate locks. `RequestMissingBlock` to
`NextAfterMissing` are `requestAndAddMissingBlocks` with its recursion; the peer's
answer is two steps, as it takes two locks. `blocks` holds what a leader has made, so a
block's number is its hash. Time: block b's rounds are instants. When the
network is `timely`, `Due` says that a message takes less than delta and that what
follows a sleep takes no time; otherwise there is no timing at all. The initial state
leaves open which. Left out: the IDA gossip of the block (it has arrived when it is
proposed, as the leader waits 2 delta), what blocks do to transactions, and the election
of leaders by hashes (`Leader` is any sequence). A process that ends in `errFatal` ends
the model (`dead`), because whoever dials it ends too.

### CrossTx
A committee is one replica. `Issue` is the client (`tx-gen.go`), `Deliver` the arrival of
a routed transaction in the pool, `Propose` the leader's loop over the pool
(`processTransactions`, a fold over the batch), `Accept` what every member does with the
accepted block and what is then sent to other committees, `HandleReport` the
client's bookkeeping. The two hashes of a transaction are kept because `whatAmI` tells
normal transactions, originals, requests, responses and final ones apart by which of
them is zero. Several members send each response with the signatures in the order of a Go
map, so gossip takes the copies for different messages: `late` is one that is pooled a
second time. Left out: values (those of cross-committee transactions are never checked by
the code), signatures and proofs, which honest clients and members always get right.

### RapidSetup and RapidOverlay
`RapidSetup` holds the pure computations: the division of the nodes into committees and
adversaries, the checks of the coordinator, the ring of neighbours, the routing table by
XOR distance (`xorBigInt`, a constant that the instance sets to the real one) and the
next committee a lookup asks. `RapidOverlay` drives them: nodes
register, the coordinator answers all, nodes set themselves up, a transaction enters
somewhere, is routed by asking committee after committee, and is gossiped in packages.
`handleIDAGossipMsg` and `AddUnique` are the check for a new package and its insertion,
which the code does under two locks, so two goroutines may both find one new. A
process that ends in `errFatal` or a panic ends the model (`dead` says where).

## 3. Runs

The instances are small and named in the `MC` modules. Every bound is a constant.

| Run | Instance | Shows |
| --- | --- | --- |
| `counter` | 5 voters, 2 heights | what `Handle` promises: one announcement, how far a count is backed |
| `counter_distinct` (violation) | 5 voters, Prepare | a quorum of 5 is announced by fewer distinct voters |
| `rounds` | leader, follower, one other committee member; 2 heights; fair | both levels, the safety properties, the refinement, and mining ends |
| `rounds_four` | committee of 4, 1 height | quorums above one; mining hangs on buffered votes, and on nothing else |
| `pool` | 3 levels, blocks that span two of them; fair | blocks are full, take the lower levels first, are drained without blocking and do get made |
| `store` | chain of 3 with a rival block | store invariants over crashes, restarts, borrowed tips and walks |
| `bootstrap` | orderly: 4 nodes in 3 shards; else 3 nodes, no order | tables at the start, nobody told twice or left out until the seed node exits; at most one global leader in any case |
| `election` | shard of 3, up to 3 candidates; shard of 4, 2 candidates | two leaders of a term only by the race, half of the votes for each; one vote a term; a node loses one vote at most, the counting thread none |
| `election_raft` (violation) | Raft mode, 4 nodes | one vote makes a leader |
| `rapid` | 2 members, both votes required; timely: 3 blocks, alternating leaders, fair; else 1 block | one chain, equal signatures, every block final; without timing final only on a quorum |
| `crosstx` | 3 committees, 2 transactions, blocks of 2, 1 late response; fair | nothing lost or doubled, who dies and of what, the committees come to rest |
| `overlay` | every n up to 30 and m up to 8, 35 more sets of identifiers; gossip in committees of 4; fair | which flags end a process, the share of adversaries, every member pools the transaction once |

Some properties are conjunctions of what belongs together: `BlockIsFilled` (size, order
of levels, no blocking receive), `TipSurvivesRestart` (with `IndexIsOfABlock`),
`ReadyAtStart` (with `SeedSurvives`), `FinalOnlyIfAccepted` (with `ProofsVerify`),
`TimelyChains` (with `NoFetchInTime`), `NothingLost` (with `WalletIsSpendable`). Of
the formulas no run names, `LiveVotesSuffice`, `LeaderAdvancesByOne` and
`AnswersFollowCommits` are proved.

**Why the bounds are enough.** The counter's cases depend on how a height compares with
`latest` and on votes before and after a reset: two heights and as many voters as the
smallest size with a buffered recount (six members) meet them all. In `Frustum` two
heights make the leader advance while messages of the first are under way, and a
committee of four is the smallest with f = 1 in which a quorum can be reached. A pool of
three levels has a first, a middle and a last one. In the election a shard of
three, where one vote of another is enough, has two leaders of one term: both candidates
raise their term, the first votes for the second between the two halves of
`IntraTerm++`, and the third votes for the first, so `TwoLeadersOnlyByRace` speaks of
states that occur. A shard of four is the smallest that needs two votes; it has no such
leaders. A vote is lost only if its voter stands and three terms meet, which takes three
candidates. Both shards are in the one run, and since they share nothing before their
leaders register, one of them stands at a time. `Bound` cuts three cases off: all three
members stand and two of them count, or one has counted enough (`OneCounts`,
`Undecided`); and two candidates of the shard of four both count. The count of a
candidate depends on the others by the messages they send and the heartbeats of a leader
only; two counting threads at once, and what comes after the count, are in the shard of
three with two candidates, and the proofs are without these bounds. The
unordered part of `bootstrap` leaves out what nodes handle after the seed node has exited,
and what they then still handle of the earlier phases (`Bound` in `MCBootstrap`): the
seed node sends nothing more, so they may as well handle it before. In RapidChain's
committee two members that must both vote meet every order of the messages of a block;
three blocks pass the lead to and fro. The rival block and any number of repetitions
of each insertion meet each branch of the store. In `CrossTx` one committee has no output of its
own, so its transaction asks two others, and the second transaction mixes a local with a
foreign input; a pool of one already makes a block, where the code waits for ten, which
gives more interleavings and not fewer. In `RapidOverlay` the divisions are exhaustive;
the gossip of four members in a ring is the smallest in which a member has neighbours
that are not everybody, and since the first neighbour is always the next rank, larger
rings pass packages on in the same way (a committee of five has been checked too). What
matters for every size in the other modules is proved, see section 5: there any number of
levels of the pool, of members and blocks of a RapidChain committee, timely or not, of
committees, transactions and late responses of its ledger, of nodes, committees and
identifiers of its network, and of members and heights of `Frustum` take the place of
these instances.

**Fairness.** `FairSpec` of `Frustum` and of `RapidConsensus` is weak fairness of
`Next`: somebody goes on as long as anybody can. The code justifies more, weak fairness of
each main loop (`for { select ... }` with nothing that blocks for ever), goroutine and
post. It includes that no post fails, which the code needs too, as no message is sent
twice. `CrossTx` takes it of `Work`, all that processes do unasked: the client may stop
issuing and a late copy need not come. `RapidOverlay` takes it of `Gossip`, the goroutines
and messages of the gossip. `TxPool` takes it of `CommitTrs` and of the workers'
tickers. All are scheduling by the Go runtime. A committee of two is used for
`MiningStops`, as it never has to buffer a vote that decides: with four the run
`rounds_four` shows that mining may hang, and `StuckOnlyByDisorder` on what: here on
buffered votes. In larger committees it may also hang on members that an overtaken
proposal has set back (item 6 of section 4); which of the two it is the property leaves
open, and the theorem `StuckByDisorder` says that there is no third for any committee.

**Failed posts and dropped messages.** A post that fails is a message that is never
handled. So is one that finds the seed node's receive channel full (`ServerV2.RecMsg`,
Server.go:426, drops it). A consensus node drops nothing: there the handler of the post
waits for a place in the channel (Server.go:177), which is a delay. The specifications
without fairness allow a message never to be handled, so all safety properties hold with
such losses; liveness is claimed only without them.

**Deadlock** is not checked where the system ends: elections come to an end, a network
goes down, a RapidChain process dies of a late message or of its flags, the client has
nothing left to spend, and a `Frustum` network that hangs has nothing left to deliver.
`rounds` does check it: with `Terminated` for the end of mining no other state is without
a step.

**Mutants.** The operators marked "Faulty" stand beside the ones they imitate: a
dropped guard, a missing reset, a swapped order. They are used by nothing. Each names
a slip under which one of the properties fails, so they document what a property is
sensitive to; `PROJECT.json` pairs them.

## 4. Disagreements between code and comments

1. `Quorum.go:92`: buffered votes are counted again with each later vote
   (`QuorumOfDistinctNodes`, run `counter_distinct`); the comment speaks of the number
   of nodes.
2. `SS-Raft/NodeMethod.go:170`: Q1 in Raft mode subtracts the seed node twice
   (`ElectedByHalf`, run `election_raft`).
Six more formulas stand in the modules although the code does not keep them and no run
is kept for them; as the invariant of a configuration each has a short counterexample.

3. `BlockChain.go:180`: after a restart `Tip` is a slice of bolt's mapped file, and is
   not moved when the pre-commit it names is completed (`TipIsLatest`): the page is freed
   and may be written again. The comment on the field, line 107, says the hash of the
   last block.
4. `SeedNode.go:123`: ShutDown is queued for all nodes by the loop that would have to
   send it, which may take its exit channel first (`AllAreTold`); the comment on the
   broadcast, line 132, says that "all" stands for all nodes. Nodes whose message is
   still queued run for ever.
5. `Quorum.go:115`: a quorum that is complete in the buffer is not noticed
   (`BufferedQuorumDecides`).
6. `ConsensusFunc.go:76`: a proposal that was overtaken moves the counters back
   (`RoundOnlyForward`); the comment says to the latest round. A member that is set back
   never votes on for the leader's height. One is left behind by a round if the quorum
   did without it, so with seven members and three heights two can be set back at the
   third, the other five cannot make a quorum of Commit, and mining hangs although every
   message has been handled and no vote is in a buffer. A committee of four needs
   everybody, so there no member is overtaken.
7. `SS-Raft/SeedNode.go:173`: two leaders of one shard pass for two shards
   (`AllShardsElected`, two shards of two).
8. `rapidchain-master/consensus.go:222`: a late echo may replace an accept that was
   counted, so a final block has fewer accepts than required (`SignaturesAreAccepts`).

The global leader is safe from 1 and 6: it never buffers a vote (`LeaderNeverBuffers`)
and no height comes from anybody else (`NobodyAheadOfLeader`), which is why
`RoundsClosedByCommittee` holds all the same.

What else came up while modelling RapidChain; the properties are stated so that they say
exactly how far the code goes:

- `node.go:264`: when messages are late, a member that fetches a block while another of
  its goroutines is between adding one and counting the iteration finds chain and
  iteration out of step and ends (`dead = "not in sync"`).
- `consensus.go:277`: when messages are late, two goroutines of a node may both count the
  iteration up before either starts the next one, so that its leader makes two blocks of
  one iteration (`leader.go:12`). `TimelyChains` therefore speaks of deliveries within
  delta only.
- A response that is pooled again after its original is settled ends the leader
  (`create-block.go:465`); pooled in the same block as the final transaction it brings
  a spent output back. `DiesOnlyByLateResponse` and `NothingDoubled` confine both to
  late responses. A leader that waits for ten transactions leaves the last ones in the
  pool for ever, so `Quiesces` promises rest and not that all is settled.
- Flags that end a process: fewer nodes than committees; a rest larger than a
  committee; an odd number of committees with a rest, where the last committee gets a
  second batch of adversaries (17 nodes in 3); one committee; committees of one; of
  fewer than four, where nobody has neighbours and the gossip divides by zero; two
  nodes each without a rest, where the check at `coordinator.go:391` divides by zero. For
  all others that check is void, and the third the comment at line 331 speaks of is
  exceeded by e.g. 39 nodes in 3 committees.
- A lookup need not come nearer to its target: among the identifiers 0, 1, 2, 4 and 8
  committee 0 looking for 4 asks 2, which names 1, which names 2. No property promises
  that lookups end.

## 5. Proofs

All theorems are for every value of the constants that the modules' assumptions allow.

**`FrustumProofs`** (any finite set of nodes, shards with at most one committee member
each, any last height). The assumptions are `FrustumAssumption`, which `Bootstrap`
establishes (`ReadyAtStart`), and `EndBlockHeightAssumption`.
*Safety*: `TypeCorrect`, `Invariance`, `LeaderDrivesHeights` (`NobodyAheadOfLeader`),
`DistinctAnswers` (`AnswersAreDistinct`), `RoundsClosed` (`RoundsClosedByCommittee`),
`LeaderAdvances` (`LeaderAdvancesByOne`), `AnswersCommitted` (`AnswersFollowCommits`) and
`Refinement` (`ImplementsRounds`). `RoundsClosedByCommittee` is not inductive. When the
leader's counter completes a quorum, that quorum must stand for distinct members:
`AnswersAreDistinct` bounds the count by the number of members heard from. That is
preserved only if each handled answer counts one, hence `LeaderNeverBuffers`; which holds
because no message is for a height above the leader's, `NobodyAheadOfLeader`; which in
turn needs that proposals come from the leader and nobody posts to itself
(`MessagesRouted`), that goroutines belong to rounds already started and that nothing is
open before the start (`LeaderPhases`). That an answer is a distinct member's rests on a
node sending at most one Finality a height and the messages being a set. `IInv` is the
conjunction; each action has a lemma, split by conjunct.
*Why mining hangs*: `StuckByDisorder` (`StuckOnlyByDisorder`). `ProgressInv`, inductive
beside `IInv`, follows the votes for the leader's height: those that come before the
proposal are in the buffer (`VotesKept`), those after it are counted (`VotesCounted`), a
member at that height has voted (`MembersPrepared`, `LeaderPrepared`, where the goroutine
of the leader's own height is the one that cannot read a wrong one), and a complete
quorum has had its consequence (`QuorumsActedOn`). So when all is handled, all members are
at the leader's height and none has votes in its buffer, each has counted a vote of
every other one: Prepare, hence Commit, hence Finality, and the round is closed.

**`VoteCounterProofs`** (any voters, kind of vote, number of heights): `Announced`
(`AnnouncedOnce`), `LiveVotes` (`LiveVotesSuffice`), `Backed` (`CountIsBacked`). A count
is at most the live votes times one more than the buffered ones (`CountIsMultiple`), and
live and buffered votes of one height are of distinct voters, for all heights at once
since any may be proposed next (`VotesAreDistinct`). The lemmas about `Handle` and
`ResetCount` stand at the head of both modules.

**`StoresProofs`**, the pool and the block database, which a node both has.
*The pool* (any number of levels, capacity, size of a block): `TypeCorrect` and
`BlocksAreFilled` (`BlockIsFilled`). The invariant is that what `CommitTrs` has measured
and has yet to take stays in the channels, as it alone takes anything out. The rest is
arithmetic on sums over the levels: `SumsExist` shows that the recursive function is one,
and its facts (`SumsGrow`, `FirstLevel`, `LastLevel`, `SharesFillBlock`) are shown by the
least level at which they would fail.
*The database* (any tree of blocks): `StoreTypeCorrect`, `TipSurvives`
(`TipSurvivesRestart`), `BlocksAreKept` (`BlocksStay`). Inside a transaction the tip in
memory is ahead of the disk; what makes the invariant inductive is that it is then
exactly what the commit will write (`TipForeseesCommit`), as long as its bytes are the
store's or those of a page nobody has rewritten (`TipIsReadable`, `PageReused`). Nothing
is claimed of the tip after that, or once a peer's message has replaced it.

**`RaftElectionProofs`** (any nodes, shards and candidates; both modes unless said
otherwise): `VotesOnce` (`OneVotePerTerm`), `HalfElects` (`ElectedByHalf`) and `TwoLeaders`
(`TwoLeadersOnlyByRace`), these two in SS-Raft, and in Raft for an odd number of nodes
(`HalfNeeded`; for an even one the first fails, item 2 of section 4), `LostOnce`
(`OneVoteLost`), `EnoughElect` (`EnoughVotesElect`) and `TypeCorrect`. A node's term may
fall, as its time-out thread writes back a stale one; the term it voted in last never
does. Whoever a node has voted for asked in a term no later than that (`VotesAreAsked`),
and a grant needs a higher one, so no two of its candidates share a term (`VotesDiffer`)
and none gets a second vote (`SentOnce`). Hence the counter is at most the number of
voters counted (`CountIsBacked`), and a leader's quorum is of distinct voters; two
leaders' quorums and the two themselves are more than their shard, so they meet, in a
voter, which cannot be, or in one of the two. The bound on terms in `TypeOK` holds because
a term never exceeds the number of nodes whose time-out thread has raised theirs
(`TermsBounded`), although the thread may write any stale term plus one.
*Which votes are lost.* The answer to a candidate carries the term the voter has by then,
so a vote may reach its candidate with too old a term, and the counting thread drops it.
`LostOnce` says whose: only a node that stands itself loses one, by the write of its own
time-out thread, and one only, since a node's term follows its votes before that write and
after its next vote (`LInv`). All other votes last, and `EnoughElect` says that the
counting thread, between whose reads of the term and the role the main loop may do
anything, loses none of them: a candidate of which it has taken enough is made the
leader, follows a heartbeat, or has been moved to a higher term. `EInv` holds it: once
the candidate has asked for votes its term does not fall, a counter is emptied only if it
is older than the term (`CheckerFollows`), and while the candidate is in its election the
lasting votes it has taken are in the counter, or one of them is in hand
(`LastingAreCounted`).

**`BootstrapProofs`** (any nodes, at least one; any capacity; registrations at any time):
`TypeCorrect`, `OneLeader` (`OneGlobalLeader`), `ToldOnceEach` (`ShutDownOnce`) and
`StartsReady` (`ReadyAtStart`). Each table is written once, before any message about it
(`IntraInTime`, `GlobalInTime`), and all that is under way or has arrived agrees with it
(`IntraKnown`, `GlobalKnown`); IDs being unique, a shard has one leader at most and so
does the network (`LeadersUnique`). For the orderly bootstrap `OrderlyInv` follows the
phases: at each, which messages can be under way, and that a node without one already has
the table of that phase, so that all have all when the next command is typed.

**`RapidConsensusProofs`** (any committee, order of leaders, share of faulty members and
number of blocks): `TypeCorrect`, `QuorumBehindFinal` (`FinalOnlyIfAccepted`),
`OneChainInTime` (`TimelyChains`) and `SignaturesAgree` (`SameSignatures`). `IInv` holds at
any speed: a first accept counts echoes only (`EchoesBehindAccepts`), and what was counted
stays, as some message of as many members, until it is taken out (`CountsStand`), which
goes through a late echo in between. The walk of `GetByIteration` back along the chain,
a recursive function, ends because each block rests on a smaller number
(`BlocksAreLinked`). `TInv` is for deliveries within delta: one block is under way at a time
(`OneByOne`, `OnlyCurrent`), all chains agree up to it (`ChainsAreLevel`), no member begins
a round before all are through with the one before (`RoundsAreApart`), and so what a
member has recorded is exactly what was sent (`MsgsShowVotes`).

**`CrossTxProofs`** (any finite set of committees, any transactions, outputs, pool and block
sizes and any number of late responses): `TypeCorrect` (`TypeOK`), `TransactionsMoveOn`
(`InFlight`), `OutputsStay` (`NothingLost`), `OutputsAreSingle` (`NothingDoubled`),
`DiesOnlyByLate` (`DiesOnlyByLateResponse`) and its consequence `NobodyDies`: without late
responses no process ends. None of the five is inductive. What a ledger gets depends on
what the pools, the network, the open originals and the proposed blocks hold, so the
invariant says of each transaction of the client where it is and of each of its inputs
where that is:
- `Clients`: no two transactions have a hash or an input in common, and the wallet is what
  settled transactions made less what the tracked ones take.
- `Shapes`: all that is on its way is such a transaction, a request or a response of one;
  a piece is both under way and pooled only when late.
- `Stages`: a transaction waits, is open or is done, and only one of these; a request or
  its response, never both, is about while it is open, unless the response is late.
- `Reported`: a finished transaction is reported once.
- `Lower` and `Upper`: an input of a transaction that is not done is in its owner's ledger
  until that has answered, then in the response, then with the transaction's committee;
  what nobody takes is with its owner; nothing else is in a ledger but what a late
  response brought.
- `Proposals` (`BlockSound`): a proposed block holds only what the pool, the open originals
  and the ledger account for, nothing twice; an original comes with all its requests, the
  last response with the final transaction. It has to hold of blocks and not only of
  states, since between `Propose` and `Accept` the pool grows.

The step that carries the proof is `Accept`. What a leader's loop makes (`SoundGrown`,
`GoodGrown`) and what a block does to a ledger (`BlockApplied`) are recursive functions over
the sequence, so both are shown by the least place in it at which they would fail:
each prefix of the pool gives a sound part of a block, each prefix of the block the ledger
that `LedgerSays` describes in terms of the whole. `After` then restates the step as
what becomes of one transaction, and each conjunct is shown from that alone.

**`RapidOverlayProofs`** (any flags, committees' identifiers, tolerance and gossips
followed): `TypeCorrect` (`TypeOK`), `ComesUp` (`DiesOnlyByFlags`), `Resilient`
(`TotalResiliency`), `PooledAtMostOnce` (`PooledOnce`) and `LookupIsLedOn`. Of identifiers
only `OverlayAssumption` is used: distances, a constant `xorBigInt` in the model, are
natural, and two committees are never equally far from a third.
*The division.* `CommitteeOf` counts multiples in a range (`CountMultiples`); from that,
which nodes a committee has (`MembersAre`) and how many adversaries (`AdversariesAre`), in
closed form. The coordinator's checks then fail or pass by arithmetic
(`CoordinatorPasses`, `CoordinatorPassed`), and `PairsAreResilient` adds up pairs of
committees, by the least pair at which the sum would fail.
*The lookup.* `ByDistance` picks, for each place, the committee with as many closer ones:
that every place has one is `PlacesAreTaken`. So a routing table begins with the closest
committee, ends with the furthest, and has no hole in between (`TableFacts`); the walk of
`findClosestsCommittee` for a target that is not in the table therefore ends between two
entries and names one of them (`LookupIsLedOn`). That the powers of two exist and grow
is shown as for the sums above (`PowersExist`, `PowerFacts`).
*The invariant* says what has been computed before what: who is assigned has passed the
coordinator's checks and who is ready those of its set-up (`SetUpState`); a lookup runs
only with all nodes ready, between two committees of which none is asked for itself
(`LookupState`); the gossip has the ranks of one committee, and nothing moves before a
lookup (`GossipState`). With it `DiesOnlyByFlags` is inductive once its first
conjunct is restated for all states (`FlagsAreToBlame`).
`ComesUp` is for `CommitteeF` 1 or 2; the default is 2. For 3 and more the placing of the
adversaries, close to half of every other committee whatever the tolerance, fails the
coordinator's own check in all committees of five nodes and more: `NeverAssigned` makes a
fact of the TODO at coordinator.go:340.

**Only model-checked.** Liveness (`MiningStops`, `BlockIsMade`, `EveryBlockFinal`,
`Quiesces`, `AllPool`), which is out of the prover's reach. Every other property of the
passing runs is stated by a theorem.

## 6. Not modelled

- HTTP, JSON, logging, latency figures: they reach the protocol only as delay,
  reordering and loss, which every module has.
- Statistics of traffic and throughput: no effect on the protocol.
- SS-PBFT-V1: it does not build (`NewQuorum` and `Handle` are called with arguments no
  package of the repository takes), and what the counter answers is the heart of it.
  `frustum` does not build at this commit either: `Node.go:30` calls `NewServer` without
  the port and `Node.go:81` `CycleAddTx` without the number of shards, which both have
  gained since. Neither argument touches what `Frustum` models (an address, the content of
  a transaction), and all that its handlers call is in the repository, so it is modelled
  as it stands.
- SS-Raft's mining: blocks travel through packages that are not in the repository; what
  the election uses of them is modelled from its use.
- The seed node's replay of Ethereum transactions and its RapidChain start; a node's
  own command `quit`.
- RapidChain's election of a leader by hashes (`Leader` is any sequence), the values of
  outputs, and byzantine members: the code's adversaries only count.
- The Merkle tree below the RapidChain prototype: third-party code.
- The single-process simulations: programs of their own without shared code, in which
  goroutines and counters of one process stand for nodes and messages.
- The contents of transactions and blocks except where a property tells them apart.
