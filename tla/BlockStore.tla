----------------------------- MODULE BlockStore -----------------------------
(***************************************************************************)
(* The block database of a node, BlockChain/DB/BlockChain.go: a bolt bucket *)
(* that maps a hash to a block, or to a mark while only the hash of the    *)
(* block is known (a pre-commit), and "latest" to the last hash put there. *)
(* Tip and LatestBlockIndex are its image in memory.                       *)
(*                                                                         *)
(* Blocks and hashes arrive in any order and more than once; the main loop *)
(* and the mining thread both write.  A bolt transaction excludes other    *)
(* writers and commits as a whole, but Tip is set inside of it, before it  *)
(* commits.  The process may stop at any time and be started again; Tip is *)
(* then the slice that bolt's Get returned, a piece of the mapped file that *)
(* is good only until its transaction ends.  The next commit that writes   *)
(* frees the page and may map the file elsewhere; the ones after it may    *)
(* reuse the page.                                                         *)
(***************************************************************************)
EXTENDS Integers

CONSTANTS
  Blocks,      \* blocks, each named by its hash
  Previous,    \* PreBlockHash, as a set of at most one block
  HeightOf,    \* BlockHeight of each block
  Garbage      \* memory that is no hash of a block, or no longer mapped

ASSUME BlockAssumption ==
  /\ HeightOf \in [Blocks -> Nat \ {0}]
  /\ Previous \in [Blocks -> SUBSET Blocks]
  /\ \A b \in Blocks, p \in Blocks :
       p \in Previous[b] => /\ Previous[b] = {p}
                            /\ HeightOf[p] < HeightOf[b]

ASSUME GarbageAssumption == Garbage \notin Blocks

VARIABLES
  stored,     \* what the bucket holds for each hash
  latest,     \* the hash under "latest", as a set of at most one
  tip,        \* Tip, as a set of at most one
  tipFrom,    \* whose bytes Tip is: the store's own, a page's, a peer's message's
  page,       \* what has become of the page with "latest" read at the restart
  index,      \* LatestBlockIndex, a set of at most one; empty for 0
  writing,    \* the open write transaction, as a set of at most one
  walk        \* an iterator: the hash it is at, whether its bytes are a page's,
              \* and how its last step went

storeVars == <<stored, latest, tip, tipFrom, page, index, writing, walk>>

Operations == [op : {"AddNewBlock", "AddNewBlockHash"}, hash : Blocks]

\* What 32 bytes in memory can be.
Hashes == Blocks \cup {Garbage}

WalkAt(at, state) == [at |-> at, ofPage |-> FALSE, state |-> state]

NoWalk == WalkAt({}, "none")

StoreInit ==
  /\ stored = [b \in Blocks |-> "absent"]
  /\ latest = {}
  /\ tip = {}
  /\ tipFrom = "store"
  /\ page = "none"
  /\ index = {}
  /\ writing = {}
  /\ walk = NoWalk

Running == walk.state # "panic"

\* A hash the bucket does not hold becomes the tip, be it of a block or of a
\* pre-commit; the memory shows it before the transaction has committed.
Begin(o) ==
  /\ Running
  /\ writing = {}
  /\ writing' = {o}
  /\ IF stored[o.hash] = "absent"
     THEN tip' = {o.hash} /\ tipFrom' = "store"
     ELSE UNCHANGED <<tip, tipFrom>>
  /\ UNCHANGED <<stored, latest, page, index, walk>>

\* Faulty: a hash that arrives after its block takes the block's place.
WrittenAlways(o) == IF o.op = "AddNewBlock" THEN "block" ELSE "preCommit"

\* What the transaction leaves under the hash: a block once it is known.
Written(o) ==
  IF o.op = "AddNewBlock" \/ stored[o.hash] = "block" THEN "block" ELSE "preCommit"

\* Faulty: the block that completes a pre-commit becomes the latest on disk.
LatestAfterCompleted(o) ==
  IF stored[o.hash] # "block" THEN {o.hash} ELSE latest

LatestAfter(o) == IF stored[o.hash] = "absent" THEN {o.hash} ELSE latest

Puts(o) == Written(o) # stored[o.hash]

\* What may be found where the page was: once it is free, what a later commit put
\* there; before that, nothing readable when the commit maps the file elsewhere.
PageContents(o) ==
  CASE page = "freed" -> Hashes
    [] page = "current" /\ Puts(o) -> {Garbage}
    [] OTHER -> {}

\* Tip, an iterator or both point into the page.  A commit that puts nothing only
\* rewrites bolt's list of free pages.
ReusePage(o) ==
  /\ page' = IF page = "current" /\ Puts(o) THEN "freed" ELSE page
  /\ \/ UNCHANGED <<tip, walk>>
     \/ \E h \in PageContents(o) :
          /\ tip' = IF tipFrom = "page" THEN {h} ELSE tip
          /\ walk' = IF walk.ofPage THEN [walk EXCEPT !.at = {h}] ELSE walk

CommitWrite(o) ==
  /\ Running
  /\ o \in writing
  /\ stored' = [stored EXCEPT ![o.hash] = Written(o)]
  /\ latest' = LatestAfter(o)
  /\ writing' = {}
  /\ ReusePage(o)
  /\ UNCHANGED <<tipFrom, index>>

\* Faulty: heights are taken to start at 0.
RestartedIndexFromZero ==
  {HeightOf[h] - 1 : h \in {x \in latest : stored[x] = "block"}}

\* The slice that Get returned for "latest", which is not copied.
RestartedTip ==
  /\ tip' = latest
  /\ tipFrom' = IF latest = {} THEN "store" ELSE "page"
  /\ page' = IF latest = {} THEN "none" ELSE "current"

\* The height of the latest block; of a pre-commit it is not known.
RestartedIndex == {HeightOf[h] : h \in {x \in latest : stored[x] = "block"}}

\* The process stops, with its transaction undone, and NewBlockChain opens the
\* bucket again.
Restart ==
  /\ RestartedTip
  /\ index' = RestartedIndex
  /\ writing' = {}
  /\ walk' = NoWalk
  /\ UNCHANGED <<stored, latest>>

\* SS-Raft's main loop puts the hash of a StartCommit message in Tip, past the
\* store and its lock.
StartCommit(h) ==
  /\ Running
  /\ tip # {h}
  /\ tip' = {h}
  /\ tipFrom' = "peer"
  /\ UNCHANGED <<stored, latest, page, index, writing, walk>>

\* An iterator starts with Tip's slice, not with a copy of its bytes.
Iterator ==
  /\ Running
  /\ tip # {}
  /\ walk' = [at |-> tip, ofPage |-> tipFrom = "page", state |-> "walking"]
  /\ UNCHANGED <<stored, latest, tip, tipFrom, page, index, writing>>

\* Next reads what is committed.  A block leads to its predecessor; a missing one
\* is replaced by an empty block, which ends the walk as the first block does; the
\* mark of a pre-commit cannot be decoded, and the process stops, as it does when
\* the page of the hash is no longer mapped.
WalkNext ==
  /\ walk.state = "walking"
  /\ \E h \in walk.at :
       \/ /\ h = Garbage
          /\ \E end \in {"missing", "panic"} : walk' = WalkAt({}, end)
       \/ /\ h \in Blocks /\ stored[h] = "absent"
          /\ walk' = WalkAt({}, "missing")
       \/ /\ h \in Blocks /\ stored[h] = "preCommit"
          /\ walk' = WalkAt({h}, "panic")
       \/ /\ h \in Blocks /\ stored[h] = "block"
          /\ walk' = IF Previous[h] = {} THEN WalkAt({h}, "first")
                     ELSE WalkAt(Previous[h], "walking")
  /\ UNCHANGED <<stored, latest, tip, tipFrom, page, index, writing>>

StoreNext ==
  \/ \E o \in Operations : Begin(o) \/ CommitWrite(o)
  \/ Restart
  \/ \E h \in Blocks : StartCommit(h)
  \/ Iterator
  \/ WalkNext

StoreSpec == StoreInit /\ [][StoreNext]_storeVars

-----------------------------------------------------------------------------
StoreTypeOK ==
  /\ stored \in [Blocks -> {"absent", "preCommit", "block"}]
  /\ latest \in SUBSET Blocks /\ tip \in SUBSET Hashes
  /\ tipFrom \in {"store", "page", "peer"}
  /\ page \in {"none", "current", "freed"}
  /\ index \in SUBSET (Nat \ {0})
  /\ writing \in SUBSET Operations
  /\ walk \in [at : SUBSET Hashes, ofPage : BOOLEAN,
               state : {"none", "walking", "missing", "panic", "first"}]

\* The index read at a restart is the height of a block that is stored.
IndexIsOfABlock ==
  \A i \in index : \E b \in Blocks : stored[b] = "block" /\ HeightOf[b] = i

\* Tip's bytes are the store's own or those of a page that nobody has rewritten.
TipIsReadable == tipFrom = "store" \/ (tipFrom = "page" /\ page = "current")

\* "latest" names an entry of the bucket as soon as anything is stored, so that a
\* restart never decodes a missing block.  While nobody writes, the tip in memory is
\* the one a restart would find, however blocks, hashes and restarts alternated, as
\* long as no peer's message has replaced it; and a tip that a restart has read, only
\* until the next commit that writes (see TipIsLatest).
TipSurvivesRestart ==
  /\ \A h \in latest : stored[h] # "absent"
  /\ (\E h \in Blocks : stored[h] # "absent") => latest # {}
  /\ writing = {} /\ TipIsReadable => tip = latest
  /\ IndexIsOfABlock

\* BlockChain.go:107: Tip is the hash of the last block.  The code does not keep it
\* (README, section 4), and no run checks it: completing the pre-commit that is the
\* latest entry moves the page, and a tip that a restart has read still points to the
\* old one.
TipIsLatest == writing = {} /\ tipFrom # "peer" => tip = latest

\* A block, once committed, is never replaced by its hash nor lost, and the order
\* in which a block and its hash arrive does not matter for what is stored.
BlocksStay ==
  [][\A b \in Blocks : /\ stored[b] = "block" => stored'[b] = "block"
                       /\ stored[b] # "absent" => stored'[b] # "absent"]_storeVars
=============================================================================
