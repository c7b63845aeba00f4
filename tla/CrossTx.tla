------------------------------- MODULE CrossTx -------------------------------
(* The ledger of the RapidChain prototype across committees: create-block.go, *)
(* FinalBlock.processBlock and the pools of datastructures.go, the routing of *)
(* cross-committee transactions after a block is accepted (consensus.go) and  *)
(* the client that feeds it all, tx-gen.go.                                   *)
(*                                                                            *)
(* A committee is one replica here: RapidConsensus says how its members come  *)
(* to accept the leader's block.  A transaction keeps the two hashes of the   *)
(* code, since everything the code does with it hangs on which of them is     *)
(* zero.  Signatures, values and Merkle proofs are those of honest clients    *)
(* and members and are always in order.                                       *)
EXTENDS Naturals, FiniteSets, SequencesExt

CONSTANTS
  Committees,
  Txs,          \* names of the client's transactions
  Home,         \* Home[t] is the committee closest to the hash of t
  NumOuts,      \* NumOuts[t] is the number of outputs of t
  GenesisOuts,  \* GenesisOuts[c]: outputs of c's genesis transaction the users hold
  MaxIns,       \* bound on the inputs of a transaction
  MinPool,      \* pooled transactions a leader waits for (10 in leader.go)
  BlockSize,    \* transactions that fill a block
  MaxLate       \* bound on the responses that arrive a second time

ASSUME CrossTxAssumption ==
  /\ IsFiniteSet(Committees)
  /\ Home \in [Txs -> Committees]
  /\ NumOuts \in [Txs -> Nat \ {0}]
  /\ GenesisOuts \in [Committees -> Nat]
  /\ {MinPool, BlockSize, MaxIns} \subseteq Nat \ {0}
  /\ MaxLate \in Nat

VARIABLES
  wallet,    \* unspent outputs the client knows of (UserSets)
  tracked,   \* transactions the client has sent (TransactionTracker)
  settled,   \* hashes of those it has seen finished
  net,       \* transactions on their way to a committee
  pool,      \* pool[c]: txPool
  utxo,      \* utxo[c]: utxoSet
  originals, \* originals[c]: crossTxPool
  proposed,  \* proposed[c]: the leader's block while it is voted on
  reports,   \* final blocks on their way to the coordinator
  dead,      \* processes that ended in errFatal or a nil pointer
  late       \* responses that arrive a second time

vars == <<wallet, tracked, settled, net, pool, utxo, originals, proposed,
          reports, dead, late>>

Coordinator == "coordinator"

NoBlock == <<>>

-----------------------------------------------------------------------------
(* Transactions.                                                             *)

Nil == <<>>

UserHash(t) == <<"user", t>>

GenesisHash(c) == <<"genesis", c>>

CrossHash(h, d) == <<"cross", h, d>>

FinalHash(h) == <<"final", h>>

\* txFindClosestCommittee, for the hashes that name outputs.
ClosestCommittee(h) == IF h[1] = "genesis" THEN h[2] ELSE Home[h[2]]

Outputs(h, n) == {[hash |-> h, n |-> i] : i \in 1..n}

Owner(o) == ClosestCommittee(o.hash)

NewTx(t, ins) ==
  [hash |-> UserHash(t), orig |-> Nil, ins |-> ins,
   outs |-> Outputs(UserHash(t), NumOuts[t]), poc |-> FALSE]

id(t) == IF t.hash # Nil THEN t.hash ELSE t.orig

ifOrigRetOrigIfNotRetHash(t) == IF t.orig # Nil THEN t.orig ELSE t.hash

whatAmI(c, t) ==
  CASE t.orig = Nil -> "normal"
    [] t.hash = Nil /\ t.outs = {} -> "crosstx"
    [] t.hash = Nil /\ t.outs # {} -> "originaltx"
    [] t.hash # Nil /\ t.orig # Nil ->
         IF ClosestCommittee(t.orig) # c THEN "crosstxresponse_C_in"
         ELSE IF t.poc THEN "crosstxresponse_C_out" ELSE "finaltransaction"

\* The inputs of t that committee d holds.
Part(t, d) == {o \in t.ins : Owner(o) = d}

\* What becomes of a transaction with inputs of other committees: the original,
\* whose hash moves to orig so that it cannot be spent, and a request to each.
Original(t) ==
  [hash |-> Nil, orig |-> t.hash, ins |-> t.ins, outs |-> t.outs, poc |-> t.poc]

Request(t, d) ==
  [hash |-> Nil, orig |-> t.hash, ins |-> Part(t, d), outs |-> {}, poc |-> FALSE]

\* Committee d answers request q by handing the outputs over.
Response(d, q) ==
  [hash |-> CrossHash(q.orig, d), orig |-> q.orig, ins |-> q.ins, outs |-> q.ins,
   poc |-> q.poc]

\* The original with all of its inputs there.
Final(o) == [o EXCEPT !.hash = FinalHash(o.orig)]

\* The pool is a map from id to transaction: a second one replaces the first.
PoolAdd(p, t) == {u \in p : id(u) # id(t)} \cup {t}

\* Faulty: the request of another committee stays in the pool.
PoolProcessBlockByHash(p, block) ==
  {u \in p : \A i \in DOMAIN block : id(u) # block[i].hash}

\* TxPool.processBlock.
PoolProcessBlock(p, block) ==
  {u \in p : \A i \in DOMAIN block : id(u) \notin {block[i].orig, block[i].hash}}

-----------------------------------------------------------------------------
(* The leader's block.  b is the block under construction: its transactions, *)
(* the outputs they spend and add, and the originals they bring.             *)

EmptyBlock == [txs |-> <<>>, spent |-> {}, added |-> {}, tmp |-> {}, fatal |-> FALSE]

Fatal(b) == [b EXCEPT !.fatal = TRUE]

\* validateInput and validateNormalTransaction: there and not spent already.
InputsValid(c, b, ins) ==
  /\ ins \cap b.spent = {}
  /\ ins \subseteq utxo[c] \cup b.added

processNormalTransaction(c, b, t) ==
  IF InputsValid(c, b, t.ins)
  THEN [b EXCEPT !.txs = Append(@, t),
                 !.spent = @ \cup t.ins,
                 !.added = (@ \ (t.ins \ utxo[c])) \cup t.outs]
  ELSE Fatal(b)

\* The local inputs are validated but stay spendable; the other committees
\* are asked for theirs.  The original's hash moves to orig: not spendable.
processTransactionWithUnknowInputs(c, b, t) ==
  LET asked == {Owner(o) : o \in t.ins} \ {c}
      requests == SetToSeq({Request(t, d) : d \in asked})
  IN IF InputsValid(c, b, Part(t, c))
     THEN [b EXCEPT !.txs = @ \o <<Original(t)>> \o requests,
                    !.tmp = @ \cup {Original(t)}]
     ELSE Fatal(b)

\* Spends the inputs here and hands the same outputs over; only outputs of
\* earlier blocks can be spent (spendInputToNewOutput looks in utxoSet alone).
processIncommingCrossTx(c, b, t) ==
  IF /\ t.outs = {}
     /\ \A o \in t.ins : Owner(o) = c
     /\ InputsValid(c, b, t.ins)
     /\ t.ins \subseteq utxo[c]
  THEN [b EXCEPT !.txs = Append(@, Response(c, t)),
                 !.spent = @ \cup t.ins]
  ELSE Fatal(b)

\* When the last input of the original is there, the final transaction follows
\* the response in the same block.
proccessCrossTxResponse(c, b, t) ==
  LET known == {o \in originals[c] \cup b.tmp : o.orig = t.orig}
      o == CHOOSE x \in known : TRUE
      added == b.added \cup t.outs
      covered == /\ o.ins \subseteq utxo[c] \cup added
                 /\ o.ins \cap b.spent = {}
  IN IF known = {} \/ ~t.poc THEN Fatal(b)
     ELSE IF ~covered
     THEN [b EXCEPT !.txs = Append(@, t), !.added = added]
     ELSE [b EXCEPT !.txs = @ \o <<t, Final(o)>>,
                    !.spent = @ \cup o.ins,
                    !.added = added \cup o.outs]

processTransaction(c, b, t) ==
  IF b.fatal THEN b
  ELSE IF t.orig = Nil
  THEN IF \A o \in t.ins : Owner(o) = c
       THEN processNormalTransaction(c, b, t)
       ELSE processTransactionWithUnknowInputs(c, b, t)
  ELSE IF t.hash = Nil
  THEN processIncommingCrossTx(c, b, t)
  ELSE proccessCrossTxResponse(c, b, t)

processTransactions(c, txes) ==
  LET after[i \in 0..Len(txes)] ==
        IF i = 0 THEN EmptyBlock ELSE processTransaction(c, after[i - 1], txes[i])
  IN  after[Len(txes)]

\* getEnoughToFillblock: some of the pool, in the order of a Go map.
Batches(p) ==
  LET size == IF Cardinality(p) < BlockSize THEN Cardinality(p) ELSE BlockSize
  IN UNION {SetToSeqs(S) : S \in kSubset(size, p)}

-----------------------------------------------------------------------------
(* An accepted block.  l is the ledger of the committee that applies it.     *)

Ledger(c) == [utxo |-> utxo[c], originals |-> originals[c], fatal |-> FALSE]

Forget(l, h) == {o \in l.originals : o.orig # h}

\* Faulty: the committee that gives an output up keeps it as well.
ForceApplyKeeping(c, l, t) ==
  CASE whatAmI(c, t) \in {"crosstx", "crosstxresponse_C_in"} -> l
    [] whatAmI(c, t) = "originaltx" ->
         [l EXCEPT !.originals = Forget(l, t.orig) \cup {t}]
    [] OTHER -> [l EXCEPT !.utxo = (@ \ t.ins) \cup t.outs,
                          !.originals = Forget(l, t.orig)]

\* Faulty: the final transaction is to bring the outputs of the responses.
ForceApplyWithoutResponse(c, l, t) ==
  CASE whatAmI(c, t) \in {"crosstx", "crosstxresponse_C_out"} -> l
    [] whatAmI(c, t) = "originaltx" ->
         [l EXCEPT !.originals = Forget(l, t.orig) \cup {t}]
    [] whatAmI(c, t) = "crosstxresponse_C_in" -> [l EXCEPT !.utxo = @ \ t.ins]
    [] OTHER -> [l EXCEPT !.utxo = (@ \ t.ins) \cup t.outs,
                          !.originals = Forget(l, t.orig)]

\* forceProcessBlock: what a member does with a block it had to ask for.
ForceApply(c, l, t) ==
  LET what == whatAmI(c, t)
  IN CASE what = "normal" ->
            [l EXCEPT !.utxo = (@ \ t.ins) \cup t.outs]
       [] what = "crosstx" -> l
       [] what = "originaltx" ->
            [l EXCEPT !.originals = Forget(l, t.orig) \cup {t}]
       [] what = "crosstxresponse_C_in" ->
            [l EXCEPT !.utxo = @ \ t.ins]
       [] what = "crosstxresponse_C_out" ->
            [l EXCEPT !.utxo = @ \cup t.outs]
       [] what = "finaltransaction" ->
            [l EXCEPT !.utxo = (@ \ t.ins) \cup t.outs,
                      !.originals = Forget(l, t.orig)]

\* processBlock does the same after it has checked that every input of a normal
\* transaction is there and that a final one has its original.
Apply(c, l, t) ==
  LET what == whatAmI(c, t)
      sound == CASE what = "normal" -> t.ins \subseteq l.utxo
                 [] what = "finaltransaction" ->
                      \E o \in l.originals : o.orig = t.orig /\ t.outs \subseteq o.outs
                 [] OTHER -> TRUE
  IN IF l.fatal \/ ~sound THEN [l EXCEPT !.fatal = TRUE] ELSE ForceApply(c, l, t)

processBlock(c, block) ==
  LET after[i \in 0..Len(block)] ==
        IF i = 0 THEN Ledger(c) ELSE Apply(c, after[i - 1], block[i])
  IN  after[Len(block)]

\* Faulty: only responses are sent.
RoutedResponses(c, t) ==
  IF whatAmI(c, t) = "crosstxresponse_C_in"
  THEN {[to |-> ClosestCommittee(t.orig), tx |-> [t EXCEPT !.poc = TRUE]]}
  ELSE {}

\* What handleConsensusAccept sends to other committees for transaction t.
Routed(c, t) ==
  CASE whatAmI(c, t) = "crosstxresponse_C_in" ->
         {[to |-> ClosestCommittee(t.orig), tx |-> [t EXCEPT !.poc = TRUE]]}
    [] whatAmI(c, t) = "crosstx" ->
         {[to |-> Owner(CHOOSE o \in t.ins : TRUE), tx |-> t]}
    [] OTHER -> {}

-----------------------------------------------------------------------------
(* Actions.                                                                  *)

Genesis(c) == Outputs(GenesisHash(c), GenesisOuts[c])

Init ==
  /\ wallet = UNION {Genesis(c) : c \in Committees}
  /\ tracked = {} /\ settled = {} /\ net = {} /\ reports = {} /\ dead = {} /\ late = {}
  /\ pool = [c \in Committees |-> {}]
  /\ utxo = [c \in Committees |-> Genesis(c)]
  /\ originals = [c \in Committees |-> {}]
  /\ proposed = [c \in Committees |-> NoBlock]

Sent == {t.hash : t \in tracked}

\* Faulty: the node that gets a transaction keeps it for its own committee.
IssueUnrouted(t, ins) ==
  /\ UserHash(t) \notin Sent
  /\ ins # {} /\ Cardinality(ins) <= MaxIns
  /\ wallet' = wallet \ ins
  /\ tracked' = tracked \cup {NewTx(t, ins)}
  /\ \E c \in Committees : net' = net \cup {[to |-> c, tx |-> NewTx(t, ins)]}
  /\ UNCHANGED <<settled, pool, utxo, originals, proposed, reports, dead, late>>

\* _txGenerator: takes outputs out of the wallet and sends a transaction, which
\* the node that gets it routes to the committee closest to its hash.
Issue(t, ins) ==
  /\ Coordinator \notin dead
  /\ UserHash(t) \notin Sent
  /\ ins # {} /\ Cardinality(ins) <= MaxIns
  /\ wallet' = wallet \ ins
  /\ tracked' = tracked \cup {NewTx(t, ins)}
  /\ net' = net \cup {[to |-> Home[t], tx |-> NewTx(t, ins)]}
  /\ UNCHANGED <<settled, pool, utxo, originals, proposed, reports, dead, late>>

\* A transaction is gossiped in its committee and goes into the pool.  Several
\* members send each response, with the signatures in an order of their own, so
\* that the gossip takes the copies for different messages: one may come late.
Deliver(m, again) ==
  /\ m.to \notin dead
  /\ pool' = [pool EXCEPT ![m.to] = PoolAdd(@, m.tx)]
  /\ again => m.tx.poc /\ m \notin late /\ Cardinality(late) < MaxLate
  /\ late' = IF again THEN late \cup {m} ELSE late
  /\ net' = IF again THEN net ELSE net \ {m}
  /\ UNCHANGED <<wallet, tracked, settled, utxo, originals, proposed, reports, dead>>

\* leader and createProposeBlock, once the pool is large enough.
Propose(c, txes) ==
  LET b == processTransactions(c, txes)
  IN /\ c \notin dead /\ proposed[c] = NoBlock
     /\ Cardinality(pool[c]) >= MinPool
     /\ IF b.fatal
        THEN dead' = dead \cup {c} /\ UNCHANGED proposed
        ELSE proposed' = [proposed EXCEPT ![c] = b.txs] /\ UNCHANGED dead
     /\ UNCHANGED <<wallet, tracked, settled, net, pool, utxo, originals, reports, late>>

\* handleConsensusAccept: the block is processed, the cross-committee
\* transactions are sent on and the leader reports to the coordinator.
Accept(c) ==
  LET block == proposed[c]
      l == processBlock(c, block)
  IN /\ c \notin dead /\ block # NoBlock
     /\ proposed' = [proposed EXCEPT ![c] = NoBlock]
     /\ IF l.fatal
        THEN dead' = dead \cup {c} /\ UNCHANGED <<utxo, originals, pool, net, reports>>
        ELSE /\ utxo' = [utxo EXCEPT ![c] = l.utxo]
             /\ originals' = [originals EXCEPT ![c] = l.originals]
             /\ pool' = [pool EXCEPT ![c] = PoolProcessBlock(@, block)]
             /\ net' = net \cup UNION {Routed(c, block[i]) : i \in DOMAIN block}
             /\ reports' = reports \cup {[from |-> c, txs |-> ToSet(block)]}
             /\ UNCHANGED dead
     /\ UNCHANGED <<wallet, tracked, settled, late>>

\* What txGenerator takes for the end of a transaction: a normal or a final one.
Finished(r) ==
  {t \in r.txs : /\ t.hash # Nil
                 /\ t.orig # Nil => ClosestCommittee(t.orig) = r.from /\ ~t.poc}

\* The requests to other committees, which txGenerator counts.
Requests(r) == {t \in r.txs : t.hash = Nil /\ t.outs = {}}

\* Faulty: the block is read and not taken out of the channel.
HandleReportPeeking(r) ==
  /\ wallet' = wallet \cup UNION {t.outs : t \in Finished(r)}
  /\ UNCHANGED <<tracked, settled, net, pool, utxo, originals, proposed, reports,
                 dead, late>>

\* txGenerator gives the outputs of finished transactions to their users.
HandleReport(r) ==
  LET hashes(S) == {ifOrigRetOrigIfNotRetHash(t) : t \in S}
  IN /\ Coordinator \notin dead
     /\ reports' = reports \ {r}
     /\ IF hashes(Requests(r) \cup Finished(r)) \subseteq Sent
        THEN /\ wallet' = wallet \cup UNION {t.outs : t \in Finished(r)}
             /\ settled' = settled \cup hashes(Finished(r))
             /\ UNCHANGED dead
        ELSE dead' = dead \cup {Coordinator} /\ UNCHANGED <<wallet, settled>>
     /\ UNCHANGED <<tracked, net, pool, utxo, originals, proposed, late>>

\* What the network, the leaders, the members and the coordinator do unasked.
Work ==
  \/ \E m \in net : Deliver(m, FALSE)
  \/ \E c \in Committees : Accept(c)
  \/ \E r \in reports : HandleReport(r)
  \/ \E c \in Committees : \E txes \in Batches(pool[c]) : Propose(c, txes)

Next ==
  \/ Work
  \/ \E t \in Txs, ins \in SUBSET wallet : Issue(t, ins)
  \/ \E m \in net : Deliver(m, TRUE)

Spec == Init /\ [][Next]_vars

\* Somebody goes on as long as somebody can.  A user may stop spending, and a
\* response need not come twice.
FairSpec == Spec /\ WF_vars(Work)

-----------------------------------------------------------------------------
(* Properties.                                                               *)

Hashes == {UserHash(t) : t \in Txs} \cup {GenesisHash(c) : c \in Committees}

OutputSet == [hash : Hashes, n : Nat \ {0}]

\* TypeOK: the client knows outputs and hashes of its own making; a pool holds
\* what its committee is to handle, its own transactions, requests for its outputs
\* and responses to its originals; only processes die.
TypeOK ==
  /\ wallet \subseteq OutputSet
  /\ settled \subseteq Sent /\ Sent \subseteq {UserHash(t) : t \in Txs}
  /\ \A c \in Committees :
       /\ utxo[c] \subseteq OutputSet
       /\ \A o \in originals[c] : o.hash = Nil /\ ClosestCommittee(o.orig) = c
       /\ \A t \in pool[c] :
            IF t.hash = Nil
            THEN t.outs = {} /\ \A o \in t.ins : Owner(o) = c
            ELSE /\ ClosestCommittee(ifOrigRetOrigIfNotRetHash(t)) = c
                 /\ t.poc <=> t.orig # Nil
  /\ dead \subseteq Committees \cup {Coordinator}
  /\ Cardinality(late) <= MaxLate

\* Transactions of blocks that finish one of the client's, not yet seen by it.
Finishing == UNION {Finished(r) : r \in reports}

\* What the client has spent and no block has.
Unspent ==
  LET done == settled \cup {ifOrigRetOrigIfNotRetHash(t) : t \in Finishing}
  IN UNION {t.ins : t \in {u \in tracked : u.hash \notin done}}

\* The outputs that are worth something: the client's, those of transactions
\* it has yet to hear of, and those its pending transactions spend.
Worth == wallet \cup (UNION {t.outs : t \in Finishing}) \cup Unspent

\* Outputs a response carries from the committee that gave them up.
Carried ==
  (UNION {m.tx.outs : m \in {n \in net : n.tx.poc}}) \cup
  (UNION {t.outs : t \in {u \in UNION {pool[c] : c \in Committees} : u.poc}})

\* DiesOnlyByLateResponse: the checks that end a leader or a member in errFatal
\* (create-block.go) or a nil pointer (FinalBlock.processBlock) never fire for
\* honest clients and members, except in a committee that got a response twice.
DiesOnlyByLateResponse == dead \subseteq {m.to : m \in late}

\* What the client holds is where a transaction that spends it will be sent, the
\* committee closest to the hash that names the output, though the outputs of a
\* cross-committee transaction were created elsewhere.
WalletIsSpendable == \A o \in wallet : o \in utxo[Owner(o)]

\* NothingLost: whatever is worth something is in the ledger of a committee or
\* in a response on its way, however blocks and messages interleave; outputs
\* leave one ledger (crosstxresponse_C_in) blocks before they enter the other.
\* And what the client holds, it can spend.
NothingLost ==
  /\ Worth \subseteq (UNION {utxo[c] : c \in Committees}) \cup Carried
  /\ WalletIsSpendable

\* NothingDoubled: an output is in one ledger or on its way, and is worth
\* something; only a response that came twice can bring back a spent output.
NothingDoubled ==
  LET lately == UNION {m.tx.outs : m \in late}
      places(o) == {c \in Committees : o \in utxo[c]}
  IN /\ \A o \in Worth \ lately :
          Cardinality(places(o)) + (IF o \in Carried THEN 1 ELSE 0) <= 1
     /\ (UNION {utxo[c] : c \in Committees}) \cup Carried \subseteq Worth \cup lately

\* Pieces of the client's transactions that a process has yet to handle.
Pieces == {m.tx : m \in net} \cup (UNION {pool[c] : c \in Committees}) \cup Finishing

\* InFlight: a transaction that is not settled has a piece on the way, itself, its
\* request to another committee, a response or its final transaction: the two
\* committees never wait for each other.
InFlight ==
  dead = {} =>
    \A t \in tracked : t.hash \notin settled =>
      \E p \in Pieces : ifOrigRetOrigIfNotRetHash(p) = t.hash

Quiet ==
  /\ proposed = [c \in Committees |-> NoBlock]
  /\ \A m \in net : m.to \in dead
  /\ reports = {} \/ Coordinator \in dead
  /\ \A c \in Committees \ dead : Cardinality(pool[c]) < MinPool

\* Quiesces: with a last transaction issued the committees come to rest: no
\* transaction is put into block after block, none bounces between committees, and
\* what is not settled then waits in a pool too small for a block.
Quiesces == <>[](Quiet \/ dead # {})
=============================================================================
