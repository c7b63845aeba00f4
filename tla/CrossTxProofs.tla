---------------------------- MODULE CrossTxProofs ----------------------------
(***************************************************************************)
(* RapidChain's ledger across committees, for every number of committees,  *)
(* transactions, outputs and late responses.  The invariant says of each   *)
(* transaction where it is, waiting, open or done, and of each of its      *)
(* inputs in whose ledger, or in which response, that puts it.             *)
(***************************************************************************)
EXTENDS CrossTx, FiniteSetTheorems, SequenceTheorems, WellFoundedInduction, TLAPS

\* The committee of transaction t, and those it asks for inputs.
At(t) == ClosestCommittee(t.hash)

Asked(t) == {Owner(o) : o \in t.ins} \ {At(t)}

\* The response of committee d to t's request, as it is sent.
Proven(t, d) ==
  [hash |-> CrossHash(t.hash, d), orig |-> t.hash, ins |-> Part(t, d),
   outs |-> Part(t, d), poc |-> TRUE]

Answer(t, d) == [to |-> At(t), tx |-> Proven(t, d)]

\* Piece u is on its way to committee c, or in its pool.
OnWay(c, u) == [to |-> c, tx |-> u] \in net \/ u \in pool[c]

\* What can be: transactions to their committee, requests and responses.
IsPiece(c, u) ==
  \E t \in tracked :
    \/ c = At(t) /\ u = t
    \/ \E d \in Asked(t) : \/ c = d /\ u = Request(t, d)
                           \/ c = At(t) /\ u = Proven(t, d)

\* A transaction waits to be put into a block, is open while its inputs are asked
\* for, and is done with the block that has it.
Waiting(t) == OnWay(At(t), t)

Open(t) == Original(t) \in originals[At(t)]

Done == settled \cup {ifOrigRetOrigIfNotRetHash(x) : x \in Finishing}

Requested(t, d) == OnWay(d, Request(t, d))

Answered(t, d) == OnWay(At(t), Proven(t, d))

\* Outputs that exist, by the transactions whose hashes are in H, and those of
\* them that are spent.
Created(H) ==
  {o \in OutputSet : \/ \E c \in Committees : o \in Genesis(c)
                     \/ \E t \in tracked : t.hash \in H /\ o \in t.outs}

Taken == UNION {t.ins : t \in tracked}

Lately == UNION {m.tx.outs : m \in late}

-----------------------------------------------------------------------------
\* Hashes and transactions.
Names == {Nil} \cup {UserHash(x) : x \in Txs}
         \cup {CrossHash(UserHash(x), c) : x \in Txs, c \in Committees}
         \cup {FinalHash(UserHash(x)) : x \in Txs}

TxType == [hash : Names, orig : Names, ins : SUBSET OutputSet, outs : SUBSET OutputSet,
           poc : BOOLEAN]

\* A transaction of the client.
ClientTx(t) ==
  /\ t \in TxType /\ t.orig = Nil /\ ~t.poc /\ t.ins # {}
  /\ \E x \in Txs : t.hash = UserHash(x) /\ t.outs = Outputs(UserHash(x), NumOuts[x])

Types ==
  /\ wallet \subseteq OutputSet
  /\ tracked \subseteq TxType
  /\ net \subseteq [to : Committees, tx : TxType]
  /\ late \subseteq [to : Committees, tx : TxType] /\ IsFiniteSet(late) /\ Cardinality(late) <= MaxLate
  /\ pool \in [Committees -> SUBSET TxType]
  /\ \A c \in Committees : IsFiniteSet(pool[c])
  /\ utxo \in [Committees -> SUBSET OutputSet]
  /\ originals \in [Committees -> SUBSET TxType]
  /\ proposed \in [Committees -> Seq(TxType)]
  /\ \A r \in reports : r.from \in Committees /\ r.txs \subseteq TxType

\* Transactions are the client's; no two have a hash or an input in common.
Clients ==
  /\ \A t \in tracked : ClientTx(t) /\ t.ins \subseteq Created(settled)
  /\ \A t, u \in tracked : t.hash = u.hash \/ t.ins \cap u.ins # {} => t = u
  /\ wallet = Created(settled) \ Taken

\* Only such pieces are about, each once unless it is late.
Shapes ==
  /\ \A m \in net : IsPiece(m.to, m.tx) /\ (m.tx \in pool[m.to] => m \in late)
  /\ \A c \in Committees : \A u \in pool[c] : IsPiece(c, u)
  /\ \A c \in Committees : \A o \in originals[c] :
       \E t \in tracked : c = At(t) /\ o = Original(t) /\ Asked(t) # {}
  /\ \A m \in late : \E t \in tracked : \E d \in Asked(t) :
       m = Answer(t, d) /\ ~Waiting(t) /\ ~Requested(t, d)

\* A finished transaction is reported once, then settled.
Reported ==
  /\ \A r \in reports : \A x \in Finished(r) : \E t \in tracked :
       x.outs = t.outs /\ ifOrigRetOrigIfNotRetHash(x) = t.hash /\ t.hash \notin settled
  /\ \A r \in reports : \A x \in Requests(r) : ifOrigRetOrigIfNotRetHash(x) \in Sent
  /\ \A r, s \in reports : \A x \in Finished(r), y \in Finished(s) :
       ifOrigRetOrigIfNotRetHash(x) = ifOrigRetOrigIfNotRetHash(y) => r = s
  /\ settled \subseteq Sent

Stages ==
  \A t \in tracked :
    /\ Waiting(t) \/ Open(t) \/ t.hash \in Done
    /\ Waiting(t) => ~Open(t) /\ t.hash \notin Done
    /\ Open(t) => t.hash \notin Done
    /\ \A d \in Asked(t) : /\ Requested(t, d) => Open(t) /\ ~Answered(t, d)
                           /\ Answered(t, d) /\ Answer(t, d) \notin late => Open(t)

\* Where the inputs of t are as long as it is not done.
Held(t, o) ==
  IF Owner(o) = At(t) \/ Waiting(t) \/ Requested(t, Owner(o)) THEN o \in utxo[Owner(o)]
  ELSE Answered(t, Owner(o)) \/ o \in utxo[At(t)]

Lower ==
  /\ \A o \in Created(Done) \ Taken : o \in utxo[Owner(o)]
  /\ \A t \in tracked : t.hash \notin Done => \A o \in t.ins : Held(t, o)
  /\ \A t \in tracked : Open(t) => ~(t.ins \subseteq utxo[At(t)])

\* Nothing else is in a ledger.
Placed(c, o) ==
  \/ o \in Created(Done) \ Taken /\ c = Owner(o)
  \/ \E t \in tracked :
       /\ t.hash \notin Done /\ o \in t.ins
       /\ \/ c = Owner(o) /\ (c = At(t) \/ Waiting(t) \/ Requested(t, c))
          \/ /\ c = At(t) /\ c # Owner(o) /\ Open(t)
             /\ ~Requested(t, Owner(o)) /\ ~Answered(t, Owner(o))

Upper == \A c \in Committees : \A o \in utxo[c] : o \in Lately \/ Placed(c, o)

-----------------------------------------------------------------------------
\* The transactions of block B.
In(B, x) == \E i \in DOMAIN B : B[i] = x

\* What a block of committee c can have in place i, and the transaction of P, the
\* pool or a part of it, that it comes from.
IsNormal(c, P, x) == x \in tracked /\ At(x) = c /\ Asked(x) = {} /\ x \in P

IsOriginal(c, P, x) == \E t \in tracked : At(t) = c /\ Asked(t) # {} /\ t \in P /\ x = Original(t)

IsRequest(c, P, x) == \E t \in tracked : At(t) = c /\ t \in P /\ \E d \in Asked(t) : x = Request(t, d)

IsResponse(c, P, x) == \E t \in tracked : c \in Asked(t) /\ Request(t, c) \in P /\ x = Response(c, Request(t, c))

IsProven(c, P, x) ==
  \E t \in tracked : /\ At(t) = c /\ Original(t) \in originals[c]
                     /\ \E d \in Asked(t) : Proven(t, d) \in P /\ x = Proven(t, d)

IsFinal(c, B, i) ==
  \E t \in tracked :
    /\ At(t) = c /\ Original(t) \in originals[c] /\ B[i] = Final(Original(t))
    /\ \A o \in t.ins : o \in utxo[c] \/ \E j \in 1..(i - 1) : B[j] = Proven(t, Owner(o))

Is(c, P, B, i) ==
  \/ IsNormal(c, P, B[i]) \/ IsOriginal(c, P, B[i]) \/ IsRequest(c, P, B[i])
  \/ IsResponse(c, P, B[i]) \/ IsProven(c, P, B[i]) \/ IsFinal(c, B, i)

\* No transaction is in B twice.
Once(B) == \A i, j \in DOMAIN B : B[i] = B[j] => i = j

\* The requests of t come with the original, the final transaction with its last input.
Closed(c, B, t) ==
  /\ \A d \in Asked(t) : In(B, Request(t, d)) <=> In(B, Original(t))
  /\ \A d \in Asked(t) :
       (/\ In(B, Proven(t, d))
        /\ \A o \in t.ins : o \in utxo[c] \/ In(B, Proven(t, Owner(o))))
         => In(B, Final(Original(t)))

BlockSound(c, P, B) ==
  /\ \A i \in DOMAIN B : Is(c, P, B, i)
  /\ Once(B)
  /\ \A t \in tracked : At(t) = c => Closed(c, B, t)

Proposals == \A c \in Committees : BlockSound(c, pool[c], proposed[c])

IInv ==
  /\ Types /\ Clients /\ Shapes /\ Reported /\ Stages /\ Lower /\ Upper /\ Proposals
  /\ DiesOnlyByLateResponse

-----------------------------------------------------------------------------
\* The hashes of the client's transactions, of responses and of final ones are
\* told apart by what they are made of.
LEMMA HashFacts ==
  /\ \A x : UserHash(x) # Nil
  /\ \A x, y : UserHash(x) = UserHash(y) => x = y
  /\ \A h, d : CrossHash(h, d) # Nil /\ FinalHash(h) # Nil
  /\ \A h, d, x : CrossHash(h, d) # UserHash(x) /\ FinalHash(h) # UserHash(x)
  /\ \A h, k, d : CrossHash(h, d) # FinalHash(k)
  /\ \A h, k, d, e : CrossHash(h, d) = CrossHash(k, e) => h = k /\ d = e
  /\ \A h, k : FinalHash(h) = FinalHash(k) => h = k
<1>1. \A x : UserHash(x) # Nil
  BY DEF UserHash, Nil
<1>2. \A x, y : UserHash(x) = UserHash(y) => x = y
  BY DEF UserHash
<1>3. \A h, d : CrossHash(h, d) # Nil /\ FinalHash(h) # Nil
  BY DEF Nil, CrossHash, FinalHash
<1>4. \A h, d, x : CrossHash(h, d) # UserHash(x) /\ FinalHash(h) # UserHash(x)
  BY DEF UserHash, CrossHash, FinalHash
<1>5. \A h, k, d : CrossHash(h, d) # FinalHash(k)
  BY DEF CrossHash, FinalHash
<1>6. \A h, k, d, e : CrossHash(h, d) = CrossHash(k, e) => h = k /\ d = e
  BY DEF CrossHash, FinalHash
<1>7. \A h, k : FinalHash(h) = FinalHash(k) => h = k
  BY DEF CrossHash, FinalHash
<1> QED BY <1>1, <1>2, <1>3, <1>4, <1>5, <1>6, <1>7

\* A transaction with its proof of acceptance, or without.
Marked(t, q) == [t EXCEPT !.poc = q]

\* The fields of what a transaction becomes.
LEMMA Fields ==
  ASSUME NEW t \in TxType, NEW d
  PROVE  /\ Original(t) = [hash |-> Nil, orig |-> t.hash, ins |-> t.ins, outs |-> t.outs, poc |-> t.poc]
         /\ Request(t, d) = [hash |-> Nil, orig |-> t.hash, ins |-> Part(t, d), outs |-> {}, poc |-> FALSE]
         /\ Response(d, Request(t, d)) =
              [hash |-> CrossHash(t.hash, d), orig |-> t.hash, ins |-> Part(t, d),
               outs |-> Part(t, d), poc |-> FALSE]
         /\ [Response(d, Request(t, d)) EXCEPT !.poc = TRUE] = Proven(t, d)
         /\ Final(Original(t)) =
              [hash |-> FinalHash(t.hash), orig |-> t.hash, ins |-> t.ins, outs |-> t.outs,
               poc |-> t.poc]
<1>3. Response(d, Request(t, d)) =
        [hash |-> CrossHash(t.hash, d), orig |-> t.hash, ins |-> Part(t, d),
         outs |-> Part(t, d), poc |-> FALSE]
  BY DEF Request, Response
<1>4. [Response(d, Request(t, d)) EXCEPT !.poc = TRUE] = Proven(t, d)
  <2>1. \A q : Marked(Response(d, Request(t, d)), q) =
                [hash |-> CrossHash(t.hash, d), orig |-> t.hash, ins |-> Part(t, d),
                 outs |-> Part(t, d), poc |-> q]
    BY <1>3 DEF Marked
  <2>2. Marked(Response(d, Request(t, d)), TRUE) = [Response(d, Request(t, d)) EXCEPT !.poc = TRUE]
    BY Zenon DEF Marked
  <2>3. Marked(Response(d, Request(t, d)), TRUE) = Proven(t, d)
    BY <2>1 DEF Proven
  <2> QED BY <2>2, <2>3, Zenon
<1>5. Final(Original(t)) =
        [hash |-> FinalHash(t.hash), orig |-> t.hash, ins |-> t.ins, outs |-> t.outs,
         poc |-> t.poc]
  BY DEF Original, Final
<1> QED BY <1>3, <1>4, <1>5 DEF Request, Original

\* The same, field by field.
LEMMA PieceFields ==
  ASSUME NEW t \in TxType, NEW d
  PROVE  /\ Original(t).hash = Nil /\ Original(t).orig = t.hash /\ Original(t).ins = t.ins
         /\ Original(t).outs = t.outs /\ Original(t).poc = t.poc
         /\ Request(t, d).hash = Nil /\ Request(t, d).orig = t.hash
         /\ Request(t, d).ins = Part(t, d) /\ Request(t, d).outs = {} /\ ~Request(t, d).poc
         /\ Response(d, Request(t, d)).hash = CrossHash(t.hash, d)
         /\ Response(d, Request(t, d)).orig = t.hash
         /\ Response(d, Request(t, d)).ins = Part(t, d)
         /\ Response(d, Request(t, d)).outs = Part(t, d) /\ ~Response(d, Request(t, d)).poc
         /\ Proven(t, d).hash = CrossHash(t.hash, d) /\ Proven(t, d).orig = t.hash
         /\ Proven(t, d).ins = Part(t, d) /\ Proven(t, d).outs = Part(t, d) /\ Proven(t, d).poc
         /\ Final(Original(t)).hash = FinalHash(t.hash) /\ Final(Original(t)).orig = t.hash
         /\ Final(Original(t)).ins = t.ins /\ Final(Original(t)).outs = t.outs
         /\ Final(Original(t)).poc = t.poc
<1>1. /\ Original(t).hash = Nil /\ Original(t).orig = t.hash /\ Original(t).ins = t.ins
      /\ Original(t).outs = t.outs /\ Original(t).poc = t.poc
  BY DEF Original
<1>2. /\ Request(t, d).hash = Nil /\ Request(t, d).orig = t.hash
      /\ Request(t, d).ins = Part(t, d) /\ Request(t, d).outs = {} /\ ~Request(t, d).poc
  BY DEF Request
<1>3. /\ Response(d, Request(t, d)).hash = CrossHash(t.hash, d)
      /\ Response(d, Request(t, d)).orig = t.hash
      /\ Response(d, Request(t, d)).ins = Part(t, d)
      /\ Response(d, Request(t, d)).outs = Part(t, d) /\ ~Response(d, Request(t, d)).poc
  BY <1>2 DEF Response
<1>4. /\ Proven(t, d).hash = CrossHash(t.hash, d) /\ Proven(t, d).orig = t.hash
      /\ Proven(t, d).ins = Part(t, d) /\ Proven(t, d).outs = Part(t, d) /\ Proven(t, d).poc
  BY DEF Proven
<1>5. /\ Final(Original(t)).hash = FinalHash(t.hash) /\ Final(Original(t)).orig = t.hash
      /\ Final(Original(t)).ins = t.ins /\ Final(Original(t)).outs = t.outs
      /\ Final(Original(t)).poc = t.poc
  BY DEF Original, Final
<1> QED BY <1>1, <1>2, <1>3, <1>4, <1>5

\* A transaction in the making.
Made(h, o, i, u, q) == [hash |-> h, orig |-> o, ins |-> i, outs |-> u, poc |-> q]

\* The image of a finite set.
LEMMA ImageFinite ==
  ASSUME NEW S, IsFiniteSet(S), NEW f
  PROVE  IsFiniteSet({f[x] : x \in S})
<1> DEFINE T == {f[x] : x \in S}
           g == [x \in S |-> f[x]]
<1>1. g \in Surjection(S, T)
  BY DEF Surjection
<1> HIDE DEF g, T
<1>2. IsFiniteSet(T)
  BY <1>1, FS_Surjection
<1> QED BY <1>2 DEF T

\* Outputs, and the committees that own them.
LEMMA OutputFacts ==
  /\ \A x \in Txs : ClosestCommittee(UserHash(x)) = Home[x] /\ Home[x] \in Committees
  /\ \A c : ClosestCommittee(GenesisHash(c)) = c
  /\ \A o \in OutputSet : Owner(o) \in Committees
  /\ \A x \in Txs : /\ Outputs(UserHash(x), NumOuts[x]) \subseteq OutputSet
                    /\ Outputs(UserHash(x), NumOuts[x]) # {}
                    /\ \A o \in Outputs(UserHash(x), NumOuts[x]) : o.hash = UserHash(x)
  /\ \A c \in Committees : /\ Genesis(c) \subseteq OutputSet
                           /\ \A o \in Genesis(c) : o.hash = GenesisHash(c)
  /\ \A x, c : UserHash(x) # GenesisHash(c)
<1>1. \A x : ClosestCommittee(UserHash(x)) = Home[x]
  BY DEF ClosestCommittee, UserHash
<1>2. \A c : ClosestCommittee(GenesisHash(c)) = c
  BY DEF ClosestCommittee, GenesisHash
<1>3. \A x \in Txs : Home[x] \in Committees /\ NumOuts[x] \in Nat \ {0}
  BY CrossTxAssumption
<1>4. \A o \in OutputSet : Owner(o) \in Committees
  BY <1>1, <1>2, <1>3 DEF OutputSet, Hashes, Owner
<1>5. ASSUME NEW h, NEW n \in Nat
      PROVE  /\ h \in Hashes => Outputs(h, n) \subseteq OutputSet
             /\ n # 0 => Outputs(h, n) # {}
             /\ \A o \in Outputs(h, n) : o.hash = h
  <2>3. h \in Hashes => Outputs(h, n) \subseteq OutputSet
    BY DEF Outputs, OutputSet
  <2>4. n # 0 => [hash |-> h, n |-> 1] \in Outputs(h, n)
    BY DEF Outputs
  <2>5. \A o \in Outputs(h, n) : o.hash = h
    BY DEF Outputs
  <2> QED BY <2>3, <2>4, <2>5
<1>6. \A x \in Txs : UserHash(x) \in Hashes
  BY DEF Hashes
<1>7. \A c \in Committees : GenesisHash(c) \in Hashes /\ GenesisOuts[c] \in Nat
  BY CrossTxAssumption DEF Hashes
<1>8. \A x, c : UserHash(x) # GenesisHash(c)
  BY DEF UserHash, GenesisHash
<1> QED BY <1>1, <1>2, <1>3, <1>4, <1>5, <1>6, <1>7, <1>8 DEF Genesis

\* A transaction of the client.
LEMMA ClientFacts ==
  ASSUME NEW t, ClientTx(t)
  PROVE  /\ t \in TxType /\ t.hash \in Names /\ t.hash # Nil /\ t.orig = Nil /\ t.poc = FALSE
         /\ At(t) \in Committees /\ Asked(t) \subseteq Committees
         /\ t.outs # {} /\ t.outs \subseteq OutputSet
         /\ \A o \in t.outs : o.hash = t.hash /\ Owner(o) = At(t)
         /\ t.ins # {} /\ t.ins \subseteq OutputSet
         /\ \A o \in t.ins : Owner(o) \in Committees
<1>1. PICK x \in Txs : t.hash = UserHash(x) /\ t.outs = Outputs(UserHash(x), NumOuts[x])
  BY DEF ClientTx
<1>2. t \in TxType /\ t.orig = Nil /\ ~t.poc /\ t.ins # {}
  BY DEF ClientTx
<1>3. t.poc = FALSE /\ t.ins \subseteq OutputSet /\ t.hash \in Names
  BY <1>2 DEF TxType
<1>5. At(t) \in Committees
  BY <1>1, OutputFacts DEF At
<1>6. \A o \in t.ins : Owner(o) \in Committees
  BY <1>3, OutputFacts
<1>7. \A o \in t.outs : o.hash = t.hash /\ Owner(o) = At(t)
  BY <1>1, OutputFacts DEF Owner, At
<1>8. t.outs # {} /\ t.outs \subseteq OutputSet
  BY <1>1, OutputFacts
<1>9. t.hash # Nil
  BY <1>1, HashFacts
<1> QED BY <1>2, <1>3, <1>5, <1>6, <1>7, <1>8, <1>9 DEF Asked

\* What becomes of it.
LEMMA PieceFacts ==
  ASSUME NEW t, ClientTx(t)
  PROVE  /\ Original(t) \in TxType /\ Final(Original(t)) \in TxType
         /\ id(t) = t.hash /\ ifOrigRetOrigIfNotRetHash(t) = t.hash
         /\ ifOrigRetOrigIfNotRetHash(Final(Original(t))) = t.hash
         /\ \A d \in Asked(t) :
              /\ d \in Committees /\ d # At(t)
              /\ Part(t, d) # {} /\ Part(t, d) \subseteq t.ins /\ \A o \in Part(t, d) : Owner(o) = d
              /\ Request(t, d) \in TxType /\ Proven(t, d) \in TxType
              /\ Response(d, Request(t, d)) \in TxType
              /\ id(Request(t, d)) = t.hash /\ id(Proven(t, d)) = CrossHash(t.hash, d)
<1>1. t \in TxType /\ t.hash \in Names /\ t.hash # Nil /\ t.orig = Nil /\ t.poc = FALSE
      /\ \E x \in Txs : t.hash = UserHash(x)
  BY ClientFacts DEF ClientTx
<1>2. Nil \in Names /\ FinalHash(t.hash) \in Names /\ \A d \in Committees : CrossHash(t.hash, d) \in Names
  BY <1>1 DEF Names
<1>3. t.ins \in SUBSET OutputSet /\ t.outs \in SUBSET OutputSet
  BY <1>1 DEF TxType
<1>4. Original(t) \in TxType /\ Final(Original(t)) \in TxType
  BY <1>1, <1>2, <1>3, Fields DEF TxType
<1>5. /\ id(t) = t.hash /\ ifOrigRetOrigIfNotRetHash(t) = t.hash
      /\ ifOrigRetOrigIfNotRetHash(Final(Original(t))) = t.hash
  BY <1>1, Fields DEF id, ifOrigRetOrigIfNotRetHash
<1>6. ASSUME NEW d \in Asked(t)
      PROVE  /\ d \in Committees /\ d # At(t)
             /\ Part(t, d) # {} /\ Part(t, d) \subseteq t.ins /\ \A o \in Part(t, d) : Owner(o) = d
             /\ Request(t, d) \in TxType /\ Proven(t, d) \in TxType
             /\ Response(d, Request(t, d)) \in TxType
             /\ id(Request(t, d)) = t.hash /\ id(Proven(t, d)) = CrossHash(t.hash, d)
  <2>1. d \in Committees /\ d # At(t)
    BY ClientFacts DEF Asked
  <2>2. Part(t, d) # {} /\ Part(t, d) \subseteq t.ins /\ \A o \in Part(t, d) : Owner(o) = d
    BY DEF Asked, Part
  <2>3. Part(t, d) \in SUBSET OutputSet /\ {} \in SUBSET OutputSet
    BY <1>3, <2>2
  <2>9. \A h, o \in Names : \A i, v \in SUBSET OutputSet : \A q \in BOOLEAN :
          Made(h, o, i, v, q) \in TxType
    BY DEF Made, TxType
  <2>10. TRUE \in BOOLEAN /\ FALSE \in BOOLEAN /\ CrossHash(t.hash, d) \in Names
    BY <1>2, <2>1
  <2>4. Request(t, d) \in TxType
    <3>1. Request(t, d) = Made(Nil, t.hash, Part(t, d), {}, FALSE)
      BY Fields, <1>1, Zenon DEF Made
    <3> QED BY <1>1, <1>2, <2>3, <2>9, <2>10, <3>1, Zenon
  <2>5. Proven(t, d) \in TxType
    <3>1. Proven(t, d) = Made(CrossHash(t.hash, d), t.hash, Part(t, d), Part(t, d), TRUE)
      BY Zenon DEF Made, Proven
    <3> QED BY <1>1, <2>3, <2>9, <2>10, <3>1, Zenon
  <2>6. Response(d, Request(t, d)) \in TxType
    <3>1. Response(d, Request(t, d)) = Made(CrossHash(t.hash, d), t.hash, Part(t, d), Part(t, d), FALSE)
      BY Fields, <1>1, Zenon DEF Made
    <3> QED BY <1>1, <2>3, <2>9, <2>10, <3>1, Zenon
  <2>7. id(Request(t, d)) = t.hash
    BY <1>1, Fields DEF id
  <2>8. id(Proven(t, d)) = CrossHash(t.hash, d)
    BY HashFacts DEF id, Proven
  <2> QED BY <2>1, <2>2, <2>4, <2>5, <2>6, <2>7, <2>8
<1> QED BY <1>4, <1>5, <1>6

\* Each is what whatAmI takes it for.
LEMMA Whats ==
  ASSUME NEW t, ClientTx(t)
  PROVE  /\ \A c : whatAmI(c, t) = "normal" /\ whatAmI(c, Original(t)) = "originaltx"
         /\ whatAmI(At(t), Final(Original(t))) = "finaltransaction"
         /\ \A d \in Asked(t) :
              /\ \A c : whatAmI(c, Request(t, d)) = "crosstx"
              /\ whatAmI(d, Response(d, Request(t, d))) = "crosstxresponse_C_in"
              /\ whatAmI(At(t), Proven(t, d)) = "crosstxresponse_C_out"
<1>1. t \in TxType /\ t.hash # Nil /\ t.orig = Nil /\ t.poc = FALSE /\ t.outs # {}
  BY ClientFacts
<1>2. \A c : whatAmI(c, t) = "normal"
  BY <1>1 DEF whatAmI
<1>3. \A c : whatAmI(c, Original(t)) = "originaltx"
  <2>1. Original(t).hash = Nil /\ Original(t).orig # Nil /\ Original(t).outs # {}
    BY <1>1, Fields
  <2> QED BY <2>1 DEF whatAmI
<1>4. whatAmI(At(t), Final(Original(t))) = "finaltransaction"
  <2>1. /\ Final(Original(t)).hash # Nil /\ Final(Original(t)).orig = t.hash
        /\ Final(Original(t)).poc = FALSE
    BY <1>1, Fields, HashFacts
  <2>2. Final(Original(t)).orig # Nil /\ ClosestCommittee(Final(Original(t)).orig) = At(t)
    BY <1>1, <2>1 DEF At
  <2> QED BY <2>1, <2>2 DEF whatAmI
<1>5. ASSUME NEW d \in Asked(t)
      PROVE  /\ \A c : whatAmI(c, Request(t, d)) = "crosstx"
             /\ whatAmI(d, Response(d, Request(t, d))) = "crosstxresponse_C_in"
             /\ whatAmI(At(t), Proven(t, d)) = "crosstxresponse_C_out"
  <2>1. d # At(t)
    BY PieceFacts
  <2>2. \A c : whatAmI(c, Request(t, d)) = "crosstx"
    <3>1. Request(t, d).hash = Nil /\ Request(t, d).orig # Nil /\ Request(t, d).outs = {}
      BY <1>1, Fields
    <3> QED BY <3>1 DEF whatAmI
  <2>3. whatAmI(d, Response(d, Request(t, d))) = "crosstxresponse_C_in"
    <3> DEFINE r == Response(d, Request(t, d))
    <3>1. r.hash # Nil /\ r.orig = t.hash
      BY <1>1, Fields, HashFacts
    <3>2. r.orig # Nil /\ ClosestCommittee(r.orig) # d
      BY <1>1, <2>1, <3>1 DEF At
    <3> HIDE DEF r
    <3>3. whatAmI(d, r) = "crosstxresponse_C_in"
      BY <3>1, <3>2 DEF whatAmI
    <3> QED BY <3>3 DEF r
  <2>4. whatAmI(At(t), Proven(t, d)) = "crosstxresponse_C_out"
    <3>1. Proven(t, d).hash # Nil /\ Proven(t, d).orig = t.hash /\ Proven(t, d).poc = TRUE
      BY HashFacts DEF Proven
    <3>2. Proven(t, d).orig # Nil /\ ClosestCommittee(Proven(t, d).orig) = At(t)
      BY <1>1, <3>1 DEF At
    <3> QED BY <3>1, <3>2 DEF whatAmI
  <2> QED BY <2>2, <2>3, <2>4
<1> QED BY <1>2, <1>3, <1>4, <1>5

\* No two are the same.
LEMMA Apart ==
  ASSUME NEW t, ClientTx(t), NEW u, ClientTx(u), t.hash = u.hash => t = u
  PROVE  /\ t # Original(u) /\ t # Final(Original(u)) /\ Original(t) # Final(Original(u))
         /\ Original(t) = Original(u) => t = u
         /\ Final(Original(t)) = Final(Original(u)) => t = u
         /\ \A d :
              /\ Request(t, d) # u /\ Request(t, d) # Original(u)
              /\ Request(t, d) # Final(Original(u))
              /\ Proven(t, d) # u /\ Proven(t, d) # Original(u) /\ Proven(t, d) # Final(Original(u))
              /\ Response(d, Request(t, d)) # u /\ Response(d, Request(t, d)) # Original(u)
              /\ Response(d, Request(t, d)) # Final(Original(u))
         /\ \A d \in Asked(t) : \A e \in Asked(u) :
              Request(t, d) = Request(u, e) => t = u /\ d = e
         /\ \A d, e :
              /\ Request(t, d) # Proven(u, e)
              /\ Request(t, d) # Response(e, Request(u, e))
              /\ Proven(t, d) # Response(e, Request(u, e))
              /\ Proven(t, d) = Proven(u, e) => t = u /\ d = e
              /\ Response(d, Request(t, d)) = Response(e, Request(u, e)) => t = u /\ d = e
<1>1. /\ t \in TxType /\ t.hash # Nil /\ t.orig = Nil
      /\ u \in TxType /\ u.hash # Nil /\ u.orig = Nil /\ t.outs # {} /\ u.outs # {}
  BY ClientFacts
<1>2. t.hash = u.hash => t = u
  OBVIOUS
<1>3. /\ Original(t).hash = Nil /\ Original(t).orig = t.hash /\ Original(t).outs = t.outs
      /\ Original(u).hash = Nil /\ Original(u).orig = u.hash /\ Original(u).outs = u.outs
      /\ Final(Original(t)).hash = FinalHash(t.hash) /\ Final(Original(u)).hash = FinalHash(u.hash)
      /\ Final(Original(u)).orig = u.hash
  BY <1>1, Fields
<1>4. /\ t # Original(u) /\ t # Final(Original(u)) /\ Original(t) # Final(Original(u))
      /\ Original(t) = Original(u) => t = u
      /\ Final(Original(t)) = Final(Original(u)) => t = u
  BY <1>1, <1>2, <1>3, HashFacts
<1>5. ASSUME NEW d
      PROVE  /\ Request(t, d) # u /\ Request(t, d) # Original(u)
             /\ Request(t, d) # Final(Original(u))
             /\ Proven(t, d) # u /\ Proven(t, d) # Original(u) /\ Proven(t, d) # Final(Original(u))
             /\ Response(d, Request(t, d)) # u /\ Response(d, Request(t, d)) # Original(u)
             /\ Response(d, Request(t, d)) # Final(Original(u))
  <2>1. /\ Request(t, d).hash = Nil /\ Request(t, d).orig = t.hash /\ Request(t, d).outs = {}
        /\ Response(d, Request(t, d)).hash = CrossHash(t.hash, d)
        /\ Response(d, Request(t, d)).orig = t.hash
        /\ Proven(t, d).hash = CrossHash(t.hash, d) /\ Proven(t, d).orig = t.hash
    BY <1>1, PieceFields
  <2> QED BY <1>1, <1>3, <2>1, HashFacts
<1>6. ASSUME NEW d, NEW e
      PROVE  /\ Request(t, d) # Proven(u, e)
             /\ Request(t, d) # Response(e, Request(u, e))
             /\ Proven(t, d) # Response(e, Request(u, e))
             /\ d \in Asked(t) /\ e \in Asked(u) /\ Request(t, d) = Request(u, e) => t = u /\ d = e
             /\ Proven(t, d) = Proven(u, e) => t = u /\ d = e
             /\ Response(d, Request(t, d)) = Response(e, Request(u, e)) => t = u /\ d = e
  <2>1. /\ Request(t, d).hash = Nil /\ Request(t, d).orig = t.hash /\ Request(t, d).ins = Part(t, d)
        /\ Response(d, Request(t, d)).hash = CrossHash(t.hash, d)
        /\ Proven(t, d).hash = CrossHash(t.hash, d) /\ Proven(t, d).poc
    BY <1>1, PieceFields
  <2>2. /\ Request(u, e).orig = u.hash /\ Request(u, e).ins = Part(u, e)
        /\ Response(e, Request(u, e)).hash = CrossHash(u.hash, e)
        /\ ~Response(e, Request(u, e)).poc
        /\ Proven(u, e).hash = CrossHash(u.hash, e)
    BY <1>1, PieceFields
  <2>3. ASSUME d \in Asked(t), e \in Asked(u), Request(t, d) = Request(u, e)
        PROVE  t = u /\ d = e
    <3>1. /\ Part(t, d) # {} /\ \A o \in Part(t, d) : Owner(o) = d
          /\ \A o \in Part(u, e) : Owner(o) = e
      BY <2>3, PieceFacts
    <3> QED BY <1>2, <2>1, <2>2, <2>3, <3>1
  <2>4. /\ Request(t, d) # Proven(u, e)
        /\ Request(t, d) # Response(e, Request(u, e))
        /\ Proven(t, d) # Response(e, Request(u, e))
    BY <2>1, <2>2, HashFacts
  <2>5. /\ Proven(t, d) = Proven(u, e) => t = u /\ d = e
        /\ Response(d, Request(t, d)) = Response(e, Request(u, e)) => t = u /\ d = e
    BY <1>2, <2>1, <2>2, HashFacts
  <2> QED BY <2>3, <2>4, <2>5
<1> QED BY <1>4, <1>5, <1>6

\* The client's transactions are told apart by their hashes and by their inputs.
LEMMA Tracked ==
  ASSUME Clients
  PROVE  /\ \A t \in tracked : ClientTx(t) /\ t.ins \subseteq Created(settled) /\ t.ins \subseteq Taken
         /\ \A t, u \in tracked : t.hash = u.hash => t = u
         /\ \A t, u \in tracked : \A o : o \in t.ins /\ o \in u.ins => t = u
<1>1. \A t \in tracked : ClientTx(t) /\ t.ins \subseteq Created(settled)
  BY DEF Clients
<1>2. \A t \in tracked : t.ins \subseteq Taken
  BY DEF Taken
<1>3. \A t, u \in tracked : t.hash = u.hash => t = u
  BY DEF Clients
<1>4. \A t, u \in tracked : \A o : o \in t.ins /\ o \in u.ins => t = u
  BY DEF Clients
<1> QED BY <1>1, <1>2, <1>3, <1>4

\* An output exists when its transaction is done.
LEMMA CreatedBy ==
  ASSUME Clients, NEW t \in tracked, NEW o \in t.outs, NEW H, o \in Created(H)
  PROVE  t.hash \in H
<1>1. PICK x \in Txs : t.hash = UserHash(x)
  BY Tracked DEF ClientTx
<1>2. o.hash = t.hash
  BY Tracked, ClientFacts
<1>3. \A c \in Committees : o \notin Genesis(c)
  BY <1>1, <1>2, OutputFacts
<1>4. PICK u \in tracked : u.hash \in H /\ o \in u.outs
  BY <1>3 DEF Created
<1>5. o.hash = u.hash
  BY <1>4, Tracked, ClientFacts
<1> QED BY <1>2, <1>4, <1>5

\* In a committee a transaction, a request and a response are told apart by id.
LEMMA SameId ==
  ASSUME Clients, NEW c, NEW u, NEW v, IsPiece(c, u), IsPiece(c, v), id(u) = id(v)
  PROVE  u = v
<1>1. PICK t \in tracked : \/ c = At(t) /\ u = t
                           \/ \E d \in Asked(t) : \/ c = d /\ u = Request(t, d)
                                                  \/ c = At(t) /\ u = Proven(t, d)
  BY DEF IsPiece
<1>2. PICK w \in tracked : \/ c = At(w) /\ v = w
                           \/ \E e \in Asked(w) : \/ c = e /\ v = Request(w, e)
                                                  \/ c = At(w) /\ v = Proven(w, e)
  BY DEF IsPiece
<1>3. ClientTx(t) /\ ClientTx(w) /\ (t.hash = w.hash => t = w)
  BY Tracked
<1>4. id(t) = t.hash /\ id(w) = w.hash
  BY <1>3, PieceFacts
<1>5. \A d \in Asked(t) : d # At(t) /\ id(Request(t, d)) = t.hash /\ id(Proven(t, d)) = CrossHash(t.hash, d)
  BY <1>3, PieceFacts
<1>6. \A d \in Asked(w) : d # At(w) /\ id(Request(w, d)) = w.hash /\ id(Proven(w, d)) = CrossHash(w.hash, d)
  BY <1>3, PieceFacts
<1>7. \A h, d : CrossHash(h, d) # t.hash /\ CrossHash(h, d) # w.hash
  <2>1. \A h, d : CrossHash(h, d) # t.hash
    BY <1>3, HashFacts DEF ClientTx
  <2>2. \A h, d : CrossHash(h, d) # w.hash
    BY <1>3, HashFacts DEF ClientTx
  <2> QED BY <2>1, <2>2
<1>8. \A h, k, d, e : CrossHash(h, d) = CrossHash(k, e) => (h = k /\ d = e)
  BY DEF CrossHash
<1>9. CASE id(u) = t.hash
  <2>1. id(v) = w.hash /\ t = w
    BY <1>2, <1>3, <1>4, <1>6, <1>7, <1>9
  <2>2. (u = t /\ c = At(t)) \/ (c \in Asked(t) /\ u = Request(t, c))
    BY <1>1, <1>5, <1>7, <1>9
  <2>3. (v = t /\ c = At(t)) \/ (c \in Asked(t) /\ v = Request(t, c))
    BY <1>2, <1>6, <1>7, <1>9, <2>1
  <2> QED BY <1>5, <2>2, <2>3
<1>10. CASE id(u) # t.hash
  <2>1. PICK d \in Asked(t) : u = Proven(t, d)
    BY <1>1, <1>4, <1>5, <1>10
  <2>2. id(u) = CrossHash(t.hash, d)
    BY <1>5, <2>1
  <2>3. PICK e \in Asked(w) : v = Proven(w, e)
    BY <1>2, <1>4, <1>6, <1>7, <2>2
  <2>4. id(v) = CrossHash(w.hash, e)
    BY <1>6, <2>3
  <2> QED BY <1>3, <1>8, <2>1, <2>2, <2>3, <2>4
<1> QED BY <1>9, <1>10

\* What is said of transactions and outputs holds on while ledgers and what is on its
\* way stay the same.
LEMMA Steady ==
  ASSUME Stages, Lower, Upper, tracked' = tracked, utxo' = utxo, originals' = originals,
         Done' = Done, Lately \subseteq Lately', late \subseteq late',
         \A c, u : OnWay(c, u)' <=> OnWay(c, u)
  PROVE  Stages' /\ Lower' /\ Upper'
<1>1. \A t : (Waiting(t)' <=> Waiting(t)) /\ (Open(t)' <=> Open(t))
  BY DEF Waiting, Open
<1>2. \A t, d : (Requested(t, d)' <=> Requested(t, d)) /\ (Answered(t, d)' <=> Answered(t, d))
  BY DEF Requested, Answered
<1>3. Stages'
  BY <1>1, <1>2 DEF Stages
<1>4. Created(Done)' = Created(Done) /\ Taken' = Taken
  BY DEF Created, Taken
<1>5. \A t, o : Held(t, o)' <=> Held(t, o)
  BY <1>1, <1>2 DEF Held
<1>6. Lower'
  BY <1>1, <1>4, <1>5 DEF Lower
<1>7. \A c, o : Placed(c, o)' <=> Placed(c, o)
  BY <1>1, <1>2, <1>4 DEF Placed
<1>8. Upper'
  BY <1>7 DEF Upper
<1> QED BY <1>3, <1>6, <1>8

\* A block under way stays sound when pools grow and new transactions come.
LEMMA BlockKept ==
  ASSUME NEW c, NEW B, BlockSound(c, pool[c], B), tracked \subseteq tracked', pool[c] \subseteq pool'[c],
         utxo'[c] = utxo[c], originals'[c] = originals[c],
         \A t \in tracked' \ tracked : At(t) = c =>
           \A d \in Asked(t) : ~In(B, Request(t, d)) /\ ~In(B, Original(t)) /\ ~In(B, Proven(t, d))
  PROVE  BlockSound(c, pool[c], B)'
<1>1. ASSUME NEW i \in DOMAIN B
      PROVE  \/ IsNormal(c, pool[c], B[i])' \/ IsOriginal(c, pool[c], B[i])' \/ IsRequest(c, pool[c], B[i])'
             \/ IsResponse(c, pool[c], B[i])' \/ IsProven(c, pool[c], B[i])' \/ IsFinal(c, B, i)'
  <2>1. IsNormal(c, pool[c], B[i]) => IsNormal(c, pool[c], B[i])'
    BY DEF IsNormal
  <2>2. IsOriginal(c, pool[c], B[i]) => IsOriginal(c, pool[c], B[i])'
    BY DEF IsOriginal
  <2>3. IsRequest(c, pool[c], B[i]) => IsRequest(c, pool[c], B[i])'
    BY DEF IsRequest
  <2>4. IsResponse(c, pool[c], B[i]) => IsResponse(c, pool[c], B[i])'
    BY DEF IsResponse
  <2>5. IsProven(c, pool[c], B[i]) => IsProven(c, pool[c], B[i])'
    BY DEF IsProven
  <2>6. IsFinal(c, B, i) => IsFinal(c, B, i)'
    BY DEF IsFinal
  <2> QED BY <2>1, <2>2, <2>3, <2>4, <2>5, <2>6 DEF BlockSound, Is
<1>2. Once(B)
  BY DEF BlockSound
<1>3. ASSUME NEW t \in tracked', At(t) = c, NEW d \in Asked(t)
      PROVE  /\ In(B, Request(t, d)) <=> In(B, Original(t))
             /\ /\ In(B, Proven(t, d))
                /\ \A o \in t.ins : o \in utxo'[c] \/ In(B, Proven(t, Owner(o)))
                => In(B, Final(Original(t)))
  <2>1. CASE t \in tracked
    BY <1>3, <2>1 DEF BlockSound, Closed
  <2>2. CASE t \notin tracked
    BY <1>3, <2>2
  <2> QED BY <2>1, <2>2
<1> QED BY <1>1, <1>2, <1>3 DEF BlockSound, Is, Closed

\* A transaction moves from the network to a pool, where it stands for itself only.
LEMMA DeliverKeeps ==
  ASSUME IInv, NEW m \in net, NEW again \in BOOLEAN, Deliver(m, again)
  PROVE  IInv'
<1>0. Types /\ Clients /\ Shapes /\ Reported /\ Stages /\ Lower /\ Upper /\ Proposals /\ DiesOnlyByLateResponse
  BY DEF IInv
<1>1. m.to \in Committees /\ m.tx \in TxType /\ m = [to |-> m.to, tx |-> m.tx] /\ IsPiece(m.to, m.tx)
  BY <1>0 DEF Types, Shapes
<1>2. /\ wallet' = wallet /\ tracked' = tracked /\ settled' = settled /\ utxo' = utxo
      /\ originals' = originals /\ proposed' = proposed /\ reports' = reports /\ dead' = dead
  BY DEF Deliver
<1>3. /\ again => m.tx.poc /\ m \notin late /\ Cardinality(late) < MaxLate
      /\ late' = IF again THEN late \cup {m} ELSE late
      /\ net' = IF again THEN net ELSE net \ {m}
      /\ pool' = [pool EXCEPT ![m.to] = PoolAdd(@, m.tx)]
  BY DEF Deliver
<1>4. pool \in [Committees -> SUBSET TxType] /\ \A c \in Committees : IsFiniteSet(pool[c])
  BY <1>0 DEF Types
<1>5. PoolAdd(pool[m.to], m.tx) = pool[m.to] \cup {m.tx}
  <2>1. \A u \in pool[m.to] : id(u) = id(m.tx) => u = m.tx
    BY <1>0, <1>1, SameId DEF Shapes
  <2> QED BY <2>1 DEF PoolAdd
<1>6. /\ pool'[m.to] = pool[m.to] \cup {m.tx}
      /\ \A c \in Committees : c # m.to => pool'[c] = pool[c]
      /\ DOMAIN pool' = Committees
  BY <1>1, <1>3, <1>4, <1>5
<1>7. ASSUME again
      PROVE  \E t \in tracked : \E d \in Asked(t) : m = Answer(t, d) /\ ~Waiting(t) /\ ~Requested(t, d)
  <2>1. PICK t \in tracked : \/ m.to = At(t) /\ m.tx = t
                             \/ \E d \in Asked(t) : \/ m.to = d /\ m.tx = Request(t, d)
                                                    \/ m.to = At(t) /\ m.tx = Proven(t, d)
    BY <1>1 DEF IsPiece
  <2>2. ClientTx(t) /\ ~t.poc /\ t \in TxType
    BY <1>0, Tracked DEF ClientTx
  <2>3. \A d : ~Request(t, d).poc
    BY <2>2, PieceFields
  <2>4. PICK d \in Asked(t) : m.to = At(t) /\ m.tx = Proven(t, d)
    BY <1>3, <1>7, <2>1, <2>2, <2>3
  <2>5. m = Answer(t, d)
    BY <1>1, <2>4 DEF Answer
  <2>6. Answered(t, d)
    BY <1>1, <2>4 DEF Answered, OnWay
  <2>7. m \notin late
    BY <1>3, <1>7
  <2>8. Open(t) /\ ~Requested(t, d)
    BY <1>0, <2>5, <2>6, <2>7 DEF Stages
  <2>9. ~Waiting(t)
    BY <1>0, <2>8 DEF Stages
  <2> QED BY <2>5, <2>8, <2>9
<1>8. \A c, u : OnWay(c, u)' <=> OnWay(c, u)
  <2>1. ASSUME NEW c, NEW u, OnWay(c, u)
        PROVE  OnWay(c, u)'
    <3>1. CASE [to |-> c, tx |-> u] = m
      <4>1. c = m.to /\ u = m.tx
        BY <3>1
      <4> QED BY <1>6, <4>1 DEF OnWay
    <3>2. CASE [to |-> c, tx |-> u] # m /\ [to |-> c, tx |-> u] \in net
      BY <1>3, <3>2 DEF OnWay
    <3>3. CASE u \in pool[c] /\ c \in Committees
      BY <1>6, <3>3 DEF OnWay
    <3>4. CASE u \in pool[c] /\ c \notin Committees
      BY <1>1, <1>3, <1>4, <3>4 DEF OnWay
    <3> QED BY <2>1, <3>1, <3>2, <3>3, <3>4 DEF OnWay
  <2>2. ASSUME NEW c, NEW u, OnWay(c, u)'
        PROVE  OnWay(c, u)
    <3>1. CASE [to |-> c, tx |-> u] \in net'
      BY <1>3, <3>1 DEF OnWay
    <3>2. CASE u \in pool'[c] /\ c \in Committees
      BY <1>1, <1>6, <3>2 DEF OnWay
    <3>3. CASE u \in pool'[c] /\ c \notin Committees
      BY <1>1, <1>3, <1>4, <3>3 DEF OnWay
    <3> QED BY <2>2, <3>1, <3>2, <3>3 DEF OnWay
  <2> QED BY <2>1, <2>2
<1>9. late \subseteq late' /\ Lately \subseteq Lately'
  BY <1>3 DEF Lately
<1>10. Done' = Done
  BY <1>2 DEF Done, Finishing
<1>11. Stages' /\ Lower' /\ Upper'
  BY <1>0, <1>2, <1>8, <1>9, <1>10, Steady
<1>12. Types'
  <2>1. net' \subseteq [to : Committees, tx : TxType]
    BY <1>0, <1>3 DEF Types
  <2>2. late' \subseteq [to : Committees, tx : TxType]
    BY <1>0, <1>3 DEF Types
  <2>3. IsFiniteSet(late') /\ Cardinality(late') <= MaxLate
    <3>1. IsFiniteSet(late) /\ Cardinality(late) <= MaxLate /\ MaxLate \in Nat
      BY <1>0, CrossTxAssumption DEF Types
    <3>2. CASE ~again
      BY <1>3, <3>1, <3>2
    <3>3. CASE again
      <4>1. m \notin late /\ Cardinality(late) < MaxLate /\ late' = late \cup {m}
        BY <1>3, <3>3
      <4>2. IsFiniteSet(late \cup {m}) /\ Cardinality(late \cup {m}) = Cardinality(late) + 1
        BY <3>1, <4>1, FS_AddElement
      <4>3. Cardinality(late) \in Nat
        BY <3>1, FS_CardinalityType
      <4> QED BY <3>1, <4>1, <4>2, <4>3
    <3> QED BY <3>2, <3>3
  <2>4. pool' \in [Committees -> SUBSET TxType]
    BY <1>1, <1>3, <1>4, <1>5
  <2>5. \A c \in Committees : IsFiniteSet(pool'[c])
    BY <1>1, <1>4, <1>6, FS_AddElement
  <2> QED BY <1>0, <1>2, <2>1, <2>2, <2>3, <2>4, <2>5 DEF Types
<1>13. Clients'
  BY <1>0, <1>2 DEF Clients, Created, Taken
<1>14. Shapes'
  <2>1. \A c, u : IsPiece(c, u)' <=> IsPiece(c, u)
    BY <1>2 DEF IsPiece
  <2>2. ASSUME NEW n \in net'
        PROVE  IsPiece(n.to, n.tx) /\ (n.tx \in pool'[n.to] => n \in late')
    <3>1. n \in net /\ IsPiece(n.to, n.tx) /\ (n.tx \in pool[n.to] => n \in late) /\ n.to \in Committees
          /\ n = [to |-> n.to, tx |-> n.tx]
      BY <1>0, <1>3 DEF Shapes, Types
    <3>2. CASE n = m
      BY <1>3, <3>1, <3>2
    <3>3. CASE n # m
      <4>1. ~(n.to = m.to /\ n.tx = m.tx)
        BY <1>1, <3>1, <3>3
      <4>2. n.tx \in pool'[n.to] => n.tx \in pool[n.to]
        BY <1>6, <3>1, <4>1
      <4> QED BY <1>9, <3>1, <4>2
    <3> QED BY <3>2, <3>3
  <2>3. ASSUME NEW c \in Committees, NEW u \in pool'[c]
        PROVE  IsPiece(c, u)
    BY <1>0, <1>1, <1>6 DEF Shapes
  <2>4. \A c \in Committees : \A o \in originals'[c] :
          \E t \in tracked' : c = At(t) /\ o = Original(t) /\ Asked(t) # {}
    BY <1>0, <1>2 DEF Shapes
  <2>5. \A t, d : (Waiting(t)' <=> Waiting(t)) /\ (Requested(t, d)' <=> Requested(t, d))
    BY <1>8 DEF Waiting, Requested
  <2>6. ASSUME NEW n \in late'
        PROVE  \E t \in tracked : \E d \in Asked(t) : n = Answer(t, d) /\ ~Waiting(t) /\ ~Requested(t, d)
    <3>1. CASE n \in late
      BY <1>0, <3>1 DEF Shapes
    <3>2. CASE n \notin late
      BY <1>3, <1>7, <3>2
    <3> QED BY <3>1, <3>2
  <2> QED BY <1>2, <2>1, <2>2, <2>3, <2>4, <2>5, <2>6 DEF Shapes
<1>15. Reported'
  BY <1>0, <1>2 DEF Reported, Finished, Requests, Sent
<1>16. Proposals'
  <2>1. ASSUME NEW c \in Committees
        PROVE  BlockSound(c, pool[c], proposed[c])'
    <3>1. BlockSound(c, pool[c], proposed[c])
      BY <1>0 DEF Proposals
    <3>2. pool[c] \subseteq pool'[c]
      BY <1>6
    <3>3. \A B : BlockSound(c, pool[c], B) => BlockSound(c, pool[c], B)'
      BY <1>2, <3>2, BlockKept
    <3> QED BY <1>2, <3>1, <3>3
  <2> QED BY <2>1 DEF Proposals
<1>17. DiesOnlyByLateResponse'
  BY <1>0, <1>2, <1>9 DEF DiesOnlyByLateResponse
<1> QED BY <1>11, <1>12, <1>13, <1>14, <1>15, <1>16, <1>17 DEF IInv

\* A report settles what it finishes.
LEMMA HandleReportKeeps ==
  ASSUME IInv, NEW r \in reports, HandleReport(r)
  PROVE  IInv'
<1>0. Types /\ Clients /\ Shapes /\ Reported /\ Stages /\ Lower /\ Upper /\ Proposals /\ DiesOnlyByLateResponse
  BY DEF IInv
<1> DEFINE names == {ifOrigRetOrigIfNotRetHash(x) : x \in Finished(r)}
<1>1. /\ tracked' = tracked /\ net' = net /\ pool' = pool /\ utxo' = utxo
      /\ originals' = originals /\ proposed' = proposed /\ late' = late
      /\ reports' = reports \ {r}
  BY DEF HandleReport
<1>2. /\ \A x \in Finished(r) : ifOrigRetOrigIfNotRetHash(x) \in Sent
      /\ \A x \in Requests(r) : ifOrigRetOrigIfNotRetHash(x) \in Sent
  BY <1>0 DEF Reported, Sent
<1>3. /\ wallet' = wallet \cup UNION {x.outs : x \in Finished(r)}
      /\ settled' = settled \cup names
      /\ dead' = dead
  <2>1. {ifOrigRetOrigIfNotRetHash(x) : x \in Requests(r) \cup Finished(r)} \subseteq Sent
    BY <1>2
  <2> QED BY <2>1 DEF HandleReport
<1>4. \A h : h \in names <=> \E x \in Finished(r) : ifOrigRetOrigIfNotRetHash(x) = h
  OBVIOUS
<1> HIDE DEF names
<1>5. Done' = Done
  <2>1. \A h : h \in Done <=> h \in settled \/ \E q \in reports : \E x \in Finished(q) : ifOrigRetOrigIfNotRetHash(x) = h
    BY DEF Done, Finishing
  <2>2. \A h : h \in Done' <=> h \in settled' \/ \E q \in reports' : \E x \in Finished(q) : ifOrigRetOrigIfNotRetHash(x) = h
    BY DEF Done, Finishing
  <2>3. \A h : h \in Done' <=> h \in Done
    BY <1>1, <1>3, <1>4, <2>1, <2>2
  <2> QED BY <2>3
<1>6. Stages' /\ Lower' /\ Upper'
  <2>1. \A c, u : OnWay(c, u)' <=> OnWay(c, u)
    BY <1>1 DEF OnWay
  <2>2. Lately' = Lately
    BY <1>1 DEF Lately
  <2> QED BY <1>0, <1>1, <1>5, <2>1, <2>2, Steady
<1>7. ASSUME NEW x \in Finished(r)
      PROVE  \E t \in tracked : /\ x.outs = t.outs /\ ifOrigRetOrigIfNotRetHash(x) = t.hash
                                /\ t.hash \notin settled /\ t.outs \cap Taken = {} /\ t.outs \subseteq OutputSet
  <2>1. PICK t \in tracked : /\ x.outs = t.outs /\ ifOrigRetOrigIfNotRetHash(x) = t.hash
                             /\ t.hash \notin settled
    BY <1>0 DEF Reported
  <2>2. t.outs \subseteq OutputSet
    BY <1>0, Tracked, ClientFacts
  <2>3. ASSUME NEW o \in t.outs, o \in Taken
        PROVE  FALSE
    <3>1. PICK u \in tracked : o \in u.ins
      BY <2>3 DEF Taken
    <3>2. o \in Created(settled)
      BY <1>0, <3>1, Tracked
    <3> QED BY <1>0, <2>1, <3>2, CreatedBy
  <2> QED BY <2>1, <2>2, <2>3
<1>8. Clients'
  <2>1. Created(settled) \subseteq Created(settled')
    BY <1>3 DEF Created
  <2>2. Created(settled)' = Created(settled')
    BY <1>1 DEF Created
  <2>3. Taken' = Taken
    BY <1>1 DEF Taken
  <2>4. wallet = Created(settled) \ Taken
    BY <1>0 DEF Clients
  <2>5. ASSUME NEW o \in wallet'
        PROVE  o \in Created(settled') \ Taken
    <3>1. CASE o \in wallet
      BY <2>1, <2>4, <3>1
    <3>2. CASE o \notin wallet
      <4>1. PICK x \in Finished(r) : o \in x.outs
        BY <1>3, <3>2
      <4>2. PICK t \in tracked : /\ x.outs = t.outs /\ ifOrigRetOrigIfNotRetHash(x) = t.hash
                                 /\ t.outs \cap Taken = {} /\ t.outs \subseteq OutputSet
        BY <1>7
      <4>3. t.hash \in settled'
        BY <1>3, <1>4, <4>2
      <4> QED BY <4>1, <4>2, <4>3 DEF Created
    <3> QED BY <3>1, <3>2
  <2>6. ASSUME NEW o \in Created(settled') \ Taken
        PROVE  o \in wallet'
    <3>1. CASE o \in Created(settled)
      BY <1>3, <2>4, <3>1
    <3>2. CASE o \notin Created(settled)
      <4>1. PICK t \in tracked : t.hash \in settled' /\ o \in t.outs
        BY <3>2 DEF Created
      <4>2. t.hash \notin settled
        BY <3>2, <4>1 DEF Created
      <4>3. PICK x \in Finished(r) : ifOrigRetOrigIfNotRetHash(x) = t.hash
        BY <1>3, <1>4, <4>1, <4>2
      <4>4. x.outs = t.outs
        BY <1>0, <1>7, <4>3, Tracked
      <4>5. o \in UNION {y.outs : y \in Finished(r)}
        BY <4>1, <4>4
      <4> QED BY <1>3, <4>5
    <3> QED BY <3>1, <3>2
  <2>7. wallet' = Created(settled)' \ Taken'
    BY <2>2, <2>3, <2>5, <2>6
  <2>8. \A t \in tracked : ClientTx(t) /\ t.ins \subseteq Created(settled)'
    BY <1>0, <2>1, <2>2, Tracked
  <2>9. \A t, u \in tracked : t.hash = u.hash \/ t.ins \cap u.ins # {} => t = u
    BY <1>0 DEF Clients
  <2> QED BY <1>1, <2>7, <2>8, <2>9 DEF Clients
<1>9. Types'
  <2>1. wallet' \subseteq OutputSet
    BY <1>8 DEF Clients, Created
  <2> QED BY <1>0, <1>1, <2>1 DEF Types
<1>10. Shapes'
  <2>1. \A c, u : IsPiece(c, u)' <=> IsPiece(c, u)
    BY <1>1 DEF IsPiece
  <2>2. \A t, d : (Waiting(t)' <=> Waiting(t)) /\ (Requested(t, d)' <=> Requested(t, d))
    BY <1>1 DEF Waiting, Requested, OnWay
  <2> QED BY <1>0, <1>1, <2>1, <2>2 DEF Shapes
<1>11. Reported'
  <2>1. ASSUME NEW q \in reports', NEW x \in Finished(q)
        PROVE  \E t \in tracked : /\ x.outs = t.outs /\ ifOrigRetOrigIfNotRetHash(x) = t.hash
                                  /\ t.hash \notin settled'
    <3>1. PICK t \in tracked : /\ x.outs = t.outs /\ ifOrigRetOrigIfNotRetHash(x) = t.hash
                               /\ t.hash \notin settled
      BY <1>0, <1>1 DEF Reported
    <3>2. q \in reports /\ q # r
      BY <1>1
    <3>3. ~\E y \in Finished(r) : ifOrigRetOrigIfNotRetHash(y) = t.hash
      BY <1>0, <3>1, <3>2 DEF Reported
    <3> QED BY <1>3, <1>4, <3>1, <3>3
  <2>2. settled' \subseteq Sent
    BY <1>0, <1>2, <1>3, <1>4 DEF Reported
  <2>3. Sent' = Sent
    BY <1>1 DEF Sent
  <2> QED BY <1>0, <1>1, <2>1, <2>2, <2>3 DEF Reported
<1>12. Proposals'
  <2>1. ASSUME NEW c \in Committees
        PROVE  BlockSound(c, pool[c], proposed[c])'
    <3>1. BlockSound(c, pool[c], proposed[c])
      BY <1>0 DEF Proposals
    <3>2. \A B : BlockSound(c, pool[c], B) => BlockSound(c, pool[c], B)'
      BY <1>1, BlockKept
    <3> QED BY <1>1, <3>1, <3>2
  <2> QED BY <2>1 DEF Proposals
<1>13. DiesOnlyByLateResponse'
  BY <1>0, <1>1, <1>3 DEF DiesOnlyByLateResponse
<1> QED BY <1>6, <1>8, <1>9, <1>10, <1>11, <1>12, <1>13 DEF IInv

\* What is in a sound block, and where it comes from.
LEMMA BlockEntries ==
  ASSUME NEW c, NEW P, NEW B \in Seq(TxType), BlockSound(c, P, B), NEW x, In(B, x)
  PROVE  \E t \in tracked :
           \/ x = t /\ At(t) = c /\ Asked(t) = {} /\ t \in P
           \/ x = Original(t) /\ At(t) = c /\ Asked(t) # {} /\ t \in P
           \/ x = Final(Original(t)) /\ At(t) = c /\ Original(t) \in originals[c]
              /\ \A o \in t.ins : o \in utxo[c] \/ In(B, Proven(t, Owner(o)))
           \/ \E d \in Asked(t) :
                \/ x = Request(t, d) /\ At(t) = c /\ t \in P
                \/ x = Response(d, Request(t, d)) /\ d = c /\ Request(t, c) \in P
                \/ x = Proven(t, d) /\ At(t) = c /\ Original(t) \in originals[c] /\ Proven(t, d) \in P
<1>1. PICK i \in DOMAIN B : B[i] = x
  BY DEF In
<1>2. CASE IsNormal(c, P, x)
  BY <1>2 DEF IsNormal
<1>3. CASE IsOriginal(c, P, x)
  BY <1>3 DEF IsOriginal
<1>4. CASE IsRequest(c, P, x)
  BY <1>4 DEF IsRequest
<1>5. CASE IsResponse(c, P, x)
  BY <1>5 DEF IsResponse
<1>6. CASE IsProven(c, P, x)
  BY <1>6 DEF IsProven
<1>7. CASE IsFinal(c, B, i)
  <2>1. PICK t \in tracked :
          /\ At(t) = c /\ Original(t) \in originals[c] /\ B[i] = Final(Original(t))
          /\ \A o \in t.ins : o \in utxo[c] \/ \E j \in 1..(i - 1) : B[j] = Proven(t, Owner(o))
    BY <1>7 DEF IsFinal
  <2>2. \A j \in 1..(i - 1) : j \in DOMAIN B
    OBVIOUS
  <2>3. \A o \in t.ins : o \in utxo[c] \/ In(B, Proven(t, Owner(o)))
    BY <2>1, <2>2 DEF In
  <2> QED BY <1>1, <2>1, <2>3
<1> QED BY <1>1, <1>2, <1>3, <1>4, <1>5, <1>6, <1>7 DEF BlockSound, Is

\* What the transactions of a sound block say of transaction t.
LEMMA BlockMembers ==
  ASSUME Clients, NEW c, NEW P, NEW B \in Seq(TxType), BlockSound(c, P, B), NEW t, ClientTx(t),
         \A u \in tracked : t.hash = u.hash => t = u
  PROVE  /\ In(B, t) => t \in tracked /\ At(t) = c /\ Asked(t) = {} /\ t \in P
         /\ In(B, Original(t)) => t \in tracked /\ At(t) = c /\ Asked(t) # {} /\ t \in P
         /\ In(B, Final(Original(t))) =>
              /\ t \in tracked /\ At(t) = c /\ Original(t) \in originals[c]
              /\ \A o \in t.ins : o \in utxo[c] \/ In(B, Proven(t, Owner(o)))
         /\ \A d \in Asked(t) :
              /\ In(B, Request(t, d)) => t \in tracked /\ At(t) = c /\ t \in P
              /\ In(B, Response(d, Request(t, d))) => t \in tracked /\ d = c /\ Request(t, c) \in P
              /\ In(B, Proven(t, d)) => /\ t \in tracked /\ At(t) = c /\ Original(t) \in originals[c]
                                        /\ Proven(t, d) \in P
<1> DEFINE From(x, u) ==
             \/ x = u /\ At(u) = c /\ Asked(u) = {} /\ u \in P
             \/ x = Original(u) /\ At(u) = c /\ Asked(u) # {} /\ u \in P
             \/ x = Final(Original(u)) /\ At(u) = c /\ Original(u) \in originals[c]
                /\ \A o \in u.ins : o \in utxo[c] \/ In(B, Proven(u, Owner(o)))
             \/ \E d \in Asked(u) :
                  \/ x = Request(u, d) /\ At(u) = c /\ u \in P
                  \/ x = Response(d, Request(u, d)) /\ d = c /\ Request(u, c) \in P
                  \/ x = Proven(u, d) /\ At(u) = c /\ Original(u) \in originals[c] /\ Proven(u, d) \in P
<1>1. \A x : In(B, x) => \E u \in tracked : From(x, u)
  BY BlockEntries
<1>2. ASSUME NEW u \in tracked
      PROVE  ClientTx(u) /\ (t.hash = u.hash => t = u) /\ (u.hash = t.hash => u = t)
  BY Tracked
<1>3. ASSUME NEW u \in tracked
      PROVE  /\ u # Original(t) /\ u # Final(Original(t)) /\ Original(u) # Final(Original(t))
             /\ t # Original(u) /\ t # Final(Original(u)) /\ Original(t) # Final(Original(u))
             /\ Original(t) = Original(u) => t = u
             /\ Final(Original(t)) = Final(Original(u)) => t = u
  BY <1>2, Apart
<1>4. ASSUME NEW u \in tracked, NEW d \in Asked(t)
      PROVE  /\ Request(t, d) # u /\ Request(t, d) # Original(u) /\ Request(t, d) # Final(Original(u))
             /\ Proven(t, d) # u /\ Proven(t, d) # Original(u) /\ Proven(t, d) # Final(Original(u))
             /\ Response(d, Request(t, d)) # u /\ Response(d, Request(t, d)) # Original(u)
             /\ Response(d, Request(t, d)) # Final(Original(u))
  BY <1>2, Apart
<1>5. ASSUME NEW u \in tracked, NEW d \in Asked(u)
      PROVE  /\ Request(u, d) # t /\ Request(u, d) # Original(t) /\ Request(u, d) # Final(Original(t))
             /\ Proven(u, d) # t /\ Proven(u, d) # Original(t) /\ Proven(u, d) # Final(Original(t))
             /\ Response(d, Request(u, d)) # t /\ Response(d, Request(u, d)) # Original(t)
             /\ Response(d, Request(u, d)) # Final(Original(t))
  BY <1>2, Apart
<1>6. ASSUME NEW u \in tracked, NEW d \in Asked(t), NEW e \in Asked(u)
      PROVE  /\ Request(t, d) # Proven(u, e) /\ Request(t, d) # Response(e, Request(u, e))
             /\ Proven(t, d) # Response(e, Request(u, e))
             /\ Request(t, d) = Request(u, e) => t = u /\ d = e
             /\ Proven(t, d) = Proven(u, e) => t = u /\ d = e
             /\ Response(d, Request(t, d)) = Response(e, Request(u, e)) => t = u /\ d = e
  BY <1>2, Apart
<1>7. ASSUME NEW u \in tracked, NEW d \in Asked(t), NEW e \in Asked(u)
      PROVE  /\ Proven(t, d) # Request(u, e) /\ Response(d, Request(t, d)) # Request(u, e)
             /\ Response(d, Request(t, d)) # Proven(u, e)
  BY <1>2, Apart
<1>8. In(B, t) => t \in tracked /\ At(t) = c /\ Asked(t) = {} /\ t \in P
  BY <1>1, <1>3, <1>5
<1>9. In(B, Original(t)) => t \in tracked /\ At(t) = c /\ Asked(t) # {} /\ t \in P
  BY <1>1, <1>3, <1>5
<1>10. In(B, Final(Original(t))) =>
         /\ t \in tracked /\ At(t) = c /\ Original(t) \in originals[c]
         /\ \A o \in t.ins : o \in utxo[c] \/ In(B, Proven(t, Owner(o)))
  BY <1>1, <1>3, <1>5
<1>11. ASSUME NEW d \in Asked(t)
       PROVE  /\ In(B, Request(t, d)) => t \in tracked /\ At(t) = c /\ t \in P
              /\ In(B, Response(d, Request(t, d))) => t \in tracked /\ d = c /\ Request(t, c) \in P
              /\ In(B, Proven(t, d)) => /\ t \in tracked /\ At(t) = c /\ Original(t) \in originals[c]
                                        /\ Proven(t, d) \in P
  <2>1. In(B, Request(t, d)) => t \in tracked /\ At(t) = c /\ t \in P
    BY <1>1, <1>4, <1>6, <1>7
  <2>2. In(B, Response(d, Request(t, d))) => t \in tracked /\ d = c /\ Request(t, c) \in P
    BY <1>1, <1>4, <1>6, <1>7
  <2>3. In(B, Proven(t, d)) => /\ t \in tracked /\ At(t) = c /\ Original(t) \in originals[c]
                               /\ Proven(t, d) \in P
    BY <1>1, <1>4, <1>6, <1>7
  <2> QED BY <2>1, <2>2, <2>3
<1> QED BY <1>8, <1>9, <1>10, <1>11

\* A new transaction spends what the client holds and waits for its committee.
LEMMA IssueKeeps ==
  ASSUME IInv, NEW x \in Txs, NEW ins \in SUBSET wallet, Issue(x, ins)
  PROVE  IInv'
<1>0. Types /\ Clients /\ Shapes /\ Reported /\ Stages /\ Lower /\ Upper /\ Proposals /\ DiesOnlyByLateResponse
  BY DEF IInv
<1> DEFINE n == NewTx(x, ins)
<1>1. /\ UserHash(x) \notin Sent /\ ins # {}
      /\ wallet' = wallet \ ins /\ tracked' = tracked \cup {n}
      /\ net' = net \cup {[to |-> Home[x], tx |-> n]}
      /\ settled' = settled /\ pool' = pool /\ utxo' = utxo /\ originals' = originals
      /\ proposed' = proposed /\ reports' = reports /\ dead' = dead /\ late' = late
  BY DEF Issue
<1>2. /\ n.hash = UserHash(x) /\ n.orig = Nil /\ n.ins = ins /\ ~n.poc
      /\ n.outs = Outputs(UserHash(x), NumOuts[x])
  BY DEF NewTx
<1>3. wallet \subseteq OutputSet /\ ins \subseteq OutputSet /\ wallet = Created(settled) \ Taken
  BY <1>0 DEF Types, Clients
<1>4. ClientTx(n)
  <2>1. n \in TxType
    <3>1. Nil \in Names /\ UserHash(x) \in Names
      BY DEF Names
    <3>2. Outputs(UserHash(x), NumOuts[x]) \subseteq OutputSet
      BY OutputFacts
    <3>3. \A h, o \in Names : \A i, v \in SUBSET OutputSet : \A q \in BOOLEAN : Made(h, o, i, v, q) \in TxType
      BY DEF Made, TxType
    <3>4. n = Made(UserHash(x), Nil, ins, Outputs(UserHash(x), NumOuts[x]), FALSE)
      BY Zenon DEF NewTx, Made
    <3>5. FALSE \in BOOLEAN /\ ins \in SUBSET OutputSet /\ Outputs(UserHash(x), NumOuts[x]) \in SUBSET OutputSet
      BY <1>3, <3>2
    <3> QED BY <3>1, <3>3, <3>4, <3>5, Zenon
  <2> QED BY <1>1, <1>2, <2>1 DEF ClientTx
<1> HIDE DEF n
<1>5. At(n) = Home[x] /\ Home[x] \in Committees
  BY <1>2, OutputFacts DEF At
<1>6. n \notin tracked /\ \A t \in tracked : t.hash # n.hash
  BY <1>1, <1>2 DEF Sent
<1>7. \A t \in tracked : ClientTx(t) /\ t.ins \subseteq Created(settled) /\ t.ins \subseteq Taken /\ n # t
  BY <1>0, <1>6, Tracked
<1>8. ASSUME NEW c, NEW u, IsPiece(c, u)
      PROVE  /\ u # n /\ u # Original(n) /\ \A d \in Asked(n) : u # Request(n, d) /\ u # Proven(n, d)
  <2>1. PICK t \in tracked : \/ c = At(t) /\ u = t
                             \/ \E d \in Asked(t) : \/ c = d /\ u = Request(t, d)
                                                    \/ c = At(t) /\ u = Proven(t, d)
    BY <1>8 DEF IsPiece
  <2>2. ClientTx(t) /\ t.hash # n.hash /\ n # t
    BY <1>6, <1>7
  <2>3. /\ t # n /\ t # Original(n)
        /\ \A d \in Asked(n) : t # Request(n, d) /\ t # Proven(n, d)
    BY <1>4, <2>2, Apart
  <2>4. ASSUME NEW d \in Asked(t)
        PROVE  /\ Request(t, d) # n /\ Request(t, d) # Original(n)
               /\ Proven(t, d) # n /\ Proven(t, d) # Original(n)
               /\ \A e \in Asked(n) : Request(t, d) # Request(n, e) /\ Proven(t, d) # Proven(n, e)
                                      /\ Request(t, d) # Proven(n, e)
    BY <1>4, <2>2, Apart
  <2>5. \A e \in Asked(n), d \in Asked(t) : Proven(t, d) # Request(n, e)
    BY <1>4, <2>2, Apart
  <2> QED BY <2>1, <2>3, <2>4, <2>5
<1>9. \A c, u : OnWay(c, u)' <=> OnWay(c, u) \/ (c = At(n) /\ u = n)
  BY <1>1, <1>5 DEF OnWay
<1>10. \A c \in Committees : \A u \in pool[c] : IsPiece(c, u)
  BY <1>0 DEF Shapes
<1>11. \A c \in Committees : \A u : OnWay(c, u) => IsPiece(c, u)
  BY <1>0, <1>10 DEF OnWay, Shapes
<1>12. ASSUME NEW t \in tracked
       PROVE  /\ At(t) \in Committees /\ (Waiting(t)' <=> Waiting(t)) /\ (Open(t)' <=> Open(t))
              /\ \A d \in Asked(t) : /\ d \in Committees /\ (Requested(t, d)' <=> Requested(t, d))
                                     /\ (Answered(t, d)' <=> Answered(t, d))
  <2>1. At(t) \in Committees
    BY <1>7, ClientFacts
  <2>2. \A d \in Asked(t) : d \in Committees
    BY <1>7, ClientFacts
  <2>3. \A d \in Asked(t) : Request(t, d) # n /\ Proven(t, d) # n
    BY <1>4, <1>6, <1>7, Apart
  <2>4. (Waiting(t)' <=> Waiting(t)) /\ (Open(t)' <=> Open(t))
    BY <1>1, <1>7, <1>9 DEF Waiting, Open
  <2>5. \A d \in Asked(t) : (Requested(t, d)' <=> Requested(t, d)) /\ (Answered(t, d)' <=> Answered(t, d))
    BY <1>9, <2>3 DEF Requested, Answered
  <2> QED BY <2>1, <2>2, <2>4, <2>5
<1>13. /\ Waiting(n)' /\ ~Open(n)' /\ ~Open(n)
       /\ \A d \in Asked(n) : ~Requested(n, d)' /\ ~Answered(n, d)'
  <2>1. Waiting(n)'
    BY <1>9 DEF Waiting
  <2>2. \A c \in Committees : \A o \in originals[c] : o # Original(n)
    <3>1. \A t \in tracked : Original(t) # Original(n)
      BY <1>4, <1>6, <1>7, Apart
    <3> QED BY <1>0, <3>1 DEF Shapes
  <2>3. \A d \in Asked(n) : d \in Committees /\ Request(n, d) # n /\ Proven(n, d) # n
    BY <1>4, Apart, PieceFacts
  <2>4. \A d \in Asked(n) : ~Requested(n, d)' /\ ~Answered(n, d)'
    BY <1>5, <1>8, <1>9, <1>11, <2>3 DEF Requested, Answered
  <2> QED BY <1>1, <1>5, <2>1, <2>2, <2>4 DEF Open
<1>14. Done' = Done /\ Done \subseteq Sent /\ n.hash \notin Done
  <2>1. Done' = Done
    BY <1>1 DEF Done, Finishing
  <2>2. \A x1 \in Finishing : ifOrigRetOrigIfNotRetHash(x1) \in Sent
    BY <1>0 DEF Finishing, Reported, Sent
  <2>3. Done \subseteq Sent
    BY <1>0, <2>2 DEF Done, Reported
  <2> QED BY <1>1, <1>2, <2>1, <2>3
<1>15. ASSUME NEW H, n.hash \notin H
       PROVE  Created(H)' = Created(H)
  BY <1>1, <1>15 DEF Created
<1>16. Taken' = Taken \cup ins
  BY <1>1, <1>2 DEF Taken
<1>17. n.hash \notin settled
  BY <1>14 DEF Done
<1>18. Created(settled) \subseteq Created(Done)
  BY DEF Created, Done
<1>19. Clients'
  <2>1. Created(settled)' = Created(settled)
    BY <1>1, <1>15, <1>17
  <2>2. wallet' = Created(settled)' \ Taken'
    BY <1>1, <1>3, <1>16, <2>1
  <2>3. \A t \in tracked' : ClientTx(t) /\ t.ins \subseteq Created(settled)'
    BY <1>1, <1>2, <1>3, <1>4, <1>7, <2>1
  <2>4. \A t \in tracked : t.ins \cap n.ins = {} /\ n.ins \cap t.ins = {}
    BY <1>2, <1>3, <1>7
  <2>5. \A t, u \in tracked' : t.hash = u.hash \/ t.ins \cap u.ins # {} => t = u
    <3>1. \A t, u \in tracked : t.hash = u.hash \/ t.ins \cap u.ins # {} => t = u
      BY <1>0 DEF Clients
    <3> QED BY <1>1, <1>6, <2>4, <3>1
  <2> QED BY <1>1, <2>2, <2>3, <2>5 DEF Clients
<1>20. Types'
  <2>1. n \in TxType
    BY <1>4 DEF ClientTx
  <2>2. wallet' \subseteq OutputSet /\ tracked' \subseteq TxType
    BY <1>0, <1>1, <2>1 DEF Types
  <2>3. net' \subseteq [to : Committees, tx : TxType]
    BY <1>0, <1>1, <1>5, <2>1 DEF Types
  <2> QED BY <1>0, <1>1, <2>2, <2>3 DEF Types
<1>21. \A c, u : IsPiece(c, u) => IsPiece(c, u)'
  BY <1>1 DEF IsPiece
<1>22. Shapes'
  <2>1. ASSUME NEW m \in net'
        PROVE  IsPiece(m.to, m.tx)' /\ (m.tx \in pool'[m.to] => m \in late')
    <3>1. CASE m \in net
      BY <1>0, <1>1, <1>21, <3>1 DEF Shapes
    <3>2. CASE m \notin net
      <4>1. m.to = At(n) /\ m.tx = n
        BY <1>1, <1>5, <3>2
      <4>2. IsPiece(m.to, m.tx)'
        BY <1>1, <4>1 DEF IsPiece
      <4>3. m.tx \notin pool'[m.to]
        BY <1>1, <1>5, <1>8, <1>10, <4>1
      <4> QED BY <4>2, <4>3
    <3> QED BY <3>1, <3>2
  <2>2. \A c \in Committees : \A u \in pool'[c] : IsPiece(c, u)'
    BY <1>1, <1>10, <1>21
  <2>3. \A c \in Committees : \A o \in originals'[c] :
          \E t \in tracked' : c = At(t) /\ o = Original(t) /\ Asked(t) # {}
    BY <1>0, <1>1 DEF Shapes
  <2>4. \A m \in late' : \E t \in tracked' : \E d \in Asked(t) :
          m = Answer(t, d) /\ ~Waiting(t)' /\ ~Requested(t, d)'
    BY <1>0, <1>1, <1>12 DEF Shapes
  <2> QED BY <2>1, <2>2, <2>3, <2>4 DEF Shapes
<1>23. Reported'
  <2>1. Sent \subseteq Sent'
    BY <1>1 DEF Sent
  <2>2. \A r \in reports : \A y \in Finished(r) : \E t \in tracked' :
          y.outs = t.outs /\ ifOrigRetOrigIfNotRetHash(y) = t.hash /\ t.hash \notin settled
    BY <1>0, <1>1 DEF Reported
  <2> QED BY <1>0, <1>1, <2>1, <2>2 DEF Reported
<1>24. Stages'
  <2>1. \A t \in tracked :
          /\ Waiting(t) \/ Open(t) \/ t.hash \in Done
          /\ Waiting(t) => ~Open(t) /\ t.hash \notin Done
          /\ Open(t) => t.hash \notin Done
          /\ \A d \in Asked(t) : /\ Requested(t, d) => Open(t) /\ ~Answered(t, d)
                                 /\ Answered(t, d) /\ Answer(t, d) \notin late => Open(t)
    BY <1>0 DEF Stages
  <2>2. ASSUME NEW t \in tracked'
        PROVE  /\ Waiting(t)' \/ Open(t)' \/ t.hash \in Done'
               /\ Waiting(t)' => ~Open(t)' /\ t.hash \notin Done'
               /\ Open(t)' => t.hash \notin Done'
               /\ \A d \in Asked(t) : /\ Requested(t, d)' => Open(t)' /\ ~Answered(t, d)'
                                      /\ Answered(t, d)' /\ Answer(t, d) \notin late' => Open(t)'
    <3>1. CASE t \in tracked
      BY <1>1, <1>12, <1>14, <2>1, <3>1
    <3>2. CASE t = n
      BY <1>13, <1>14, <3>2
    <3> QED BY <1>1, <3>1, <3>2
  <2> QED BY <2>2 DEF Stages
<1>25. Created(Done)' = Created(Done)
  BY <1>14, <1>15
<1>26. Lower'
  <2>1. \A o \in Created(Done)' \ Taken' : o \in utxo'[Owner(o)]
    BY <1>0, <1>1, <1>16, <1>25 DEF Lower
  <2>2. ASSUME NEW t \in tracked', t.hash \notin Done', NEW o \in t.ins
        PROVE  Held(t, o)'
    <3>1. CASE t \in tracked
      <4>1. Held(t, o)
        BY <1>0, <1>14, <2>2, <3>1 DEF Lower
      <4>2. Owner(o) # At(t) => Owner(o) \in Asked(t)
        BY DEF Asked
      <4> QED BY <1>1, <1>12, <3>1, <4>1, <4>2 DEF Held
    <3>2. CASE t = n
      <4>1. o \in Created(Done) \ Taken
        BY <1>2, <1>3, <1>18, <3>2
      <4>2. o \in utxo'[Owner(o)]
        BY <1>0, <1>1, <4>1 DEF Lower
      <4> QED BY <1>13, <3>2, <4>2 DEF Held
    <3> QED BY <1>1, <3>1, <3>2
  <2>3. ASSUME NEW t \in tracked', Open(t)'
        PROVE  ~(t.ins \subseteq utxo'[At(t)])
    BY <1>0, <1>1, <1>12, <1>13, <2>3 DEF Lower
  <2> QED BY <2>1, <2>2, <2>3 DEF Lower
<1>27. Upper'
  <2>1. Lately' = Lately
    BY <1>1 DEF Lately
  <2>2. ASSUME NEW c \in Committees, NEW o \in utxo'[c]
        PROVE  o \in Lately \/ Placed(c, o)'
    <3>1. CASE o \in Created(Done) \ Taken /\ c = Owner(o) /\ o \notin ins
      BY <1>16, <1>25, <3>1 DEF Placed
    <3>2. CASE o \in Created(Done) \ Taken /\ c = Owner(o) /\ o \in ins
      BY <1>1, <1>2, <1>13, <1>14, <3>2 DEF Placed
    <3>3. ASSUME NEW t \in tracked, t.hash \notin Done, o \in t.ins,
                 \/ c = Owner(o) /\ (c = At(t) \/ Waiting(t) \/ Requested(t, c))
                 \/ /\ c = At(t) /\ c # Owner(o) /\ Open(t)
                    /\ ~Requested(t, Owner(o)) /\ ~Answered(t, Owner(o))
          PROVE  Placed(c, o)'
      <4>1. Owner(o) # At(t) => Owner(o) \in Asked(t)
        BY <3>3 DEF Asked
      <4> QED BY <1>1, <1>12, <1>14, <3>3, <4>1 DEF Placed
    <3> QED BY <1>0, <1>1, <3>1, <3>2, <3>3 DEF Upper, Placed
  <2> QED BY <2>1, <2>2 DEF Upper
<1>28. Proposals'
  <2>1. ASSUME NEW c \in Committees
        PROVE  BlockSound(c, pool[c], proposed[c])'
    <3>1. BlockSound(c, pool[c], proposed[c])
      BY <1>0 DEF Proposals
    <3>2. \A d \in Asked(n) : /\ ~In(proposed[c], Request(n, d)) /\ ~In(proposed[c], Original(n))
                              /\ ~In(proposed[c], Proven(n, d))
      <4>1. proposed[c] \in Seq(TxType)
        BY <1>0 DEF Types
      <4>2. \A t \in tracked : n.hash = t.hash => n = t
        BY <1>6
      <4> QED BY <1>0, <1>4, <1>6, <3>1, <4>1, <4>2, BlockMembers
    <3>3. \A B : /\ BlockSound(c, pool[c], B)
                 /\ \A d \in Asked(n) : ~In(B, Request(n, d)) /\ ~In(B, Original(n)) /\ ~In(B, Proven(n, d))
                 => BlockSound(c, pool[c], B)'
      BY <1>1, BlockKept
    <3> QED BY <1>1, <3>1, <3>2, <3>3
  <2> QED BY <2>1 DEF Proposals
<1>29. DiesOnlyByLateResponse'
  BY <1>0, <1>1 DEF DiesOnlyByLateResponse
<1> QED BY <1>19, <1>20, <1>22, <1>23, <1>24, <1>26, <1>27, <1>28, <1>29 DEF IInv

-----------------------------------------------------------------------------
\* Each nonempty set of naturals has a least element, so that a set with 0 that goes
\* on to each next number has them all.
LEMMA LeastOf ==
  ASSUME NEW S \in SUBSET Nat, S # {}
  PROVE  \E x \in S : \A y \in S : x <= y
<1> DEFINE Less == OpToRel(<, Nat)
<1>1. IsWellFoundedOn(Less, Nat)
  BY NatLessThanWellFounded
<1>2. \A x, y \in Nat : <<x, y>> \in Less <=> x < y
  BY DEF OpToRel
<1> HIDE DEF Less
<1>3. PICK x \in S : \A y \in S : ~ (<<y, x>> \in Less)
  BY <1>1, WFMin
<1>4. \A k, l \in S : k \in Nat /\ l \in Nat
  OBVIOUS
<1>5. \A y \in S : ~ (y < x)
  BY <1>2, <1>3, <1>4, Zenon
<1> QED BY <1>4, <1>5

\* Induction up to n, as the least exception would show.
LEMMA UpTo ==
  ASSUME NEW n \in Nat, NEW S, 0 \in S, \A i \in 0..(n - 1) : i \in S => i + 1 \in S
  PROVE  \A i \in 0..n : i \in S
<1> DEFINE Bad == {i \in 0..n : i \notin S}
<1>1. SUFFICES ASSUME Bad # {} PROVE FALSE
  OBVIOUS
<1>2. PICK x \in Bad : \A y \in Bad : x <= y
  <2>1. Bad \in SUBSET Nat
    OBVIOUS
  <2> HIDE DEF Bad
  <2> QED BY <1>1, <2>1, LeastOf
<1>3. x \in 0..n /\ x \notin S /\ x # 0
  BY <1>2
<1>4. x - 1 \in 0..(n - 1) /\ x - 1 \notin Bad /\ (x - 1) + 1 = x
  BY <1>2, <1>3
<1>5. x - 1 \in S
  BY <1>3, <1>4
<1> QED BY <1>3, <1>4, <1>5

\* One transaction more of a block in the making, or of an accepted one.
Grown(making, c, xs, w, i) ==
  IF making THEN (IF i = 0 THEN EmptyBlock ELSE processTransaction(c, w[i - 1], xs[i]))
  ELSE (IF i = 0 THEN Ledger(c) ELSE Apply(c, w[i - 1], xs[i]))

\* What a block comes to, transaction by transaction, exists.
LEMMA GrownExists ==
  ASSUME NEW making \in BOOLEAN, NEW c, NEW xs, NEW N \in Nat
  PROVE  \E w : w = [i \in 0..N |-> Grown(making, c, xs, w, i)]
<1> DEFINE Good(n) == \E w : w = [i \in 0..n |-> Grown(making, c, xs, w, i)]
           Bad == {n \in Nat : ~ Good(n)}
<1>1. SUFFICES ASSUME Bad # {} PROVE FALSE
  <2>1. Good(N)
    BY <1>1
  <2> QED BY <2>1
<1>2. PICK n \in Bad : \A i \in Bad : n <= i
  <2> HIDE DEF Bad
  <2>1. Bad \in SUBSET Nat
    BY DEF Bad
  <2> QED BY <1>1, <2>1, LeastOf
<1>3. n \in Nat /\ ~ Good(n)
  OBVIOUS
<1>4. \A i \in 0..(n - 1) : Good(i)
  BY <1>2, <1>3
<1> HIDE DEF Bad
<1>5. PICK w : \A i \in 0..(n - 1) : w[i] = Grown(making, c, xs, w, i)
  <2>1. CASE n = 0
    BY <2>1
  <2>2. CASE n # 0
    <3>1. n - 1 \in 0..(n - 1)
      BY <1>3, <2>2
    <3> QED BY <1>4, <3>1
  <2> QED BY <2>1, <2>2
<1> DEFINE v == [i \in 0..n |-> IF i = n THEN Grown(making, c, xs, w, i) ELSE w[i]]
<1>6. ASSUME NEW i \in 0..n PROVE v[i] = Grown(making, c, xs, v, i)
  <2>1. v[i] = Grown(making, c, xs, w, i)
    BY <1>3, <1>5
  <2>2. CASE i # 0
    <3>1. i - 1 \in 0..n /\ i - 1 # n
      BY <1>3, <2>2
    <3>2. v[i - 1] = w[i - 1]
      BY <3>1
    <3> QED BY <2>1, <2>2, <3>2 DEF Grown
  <2>3. CASE i = 0
    BY <2>1, <2>3 DEF Grown
  <2> QED BY <2>2, <2>3
<1>7. v = [i \in 0..n |-> Grown(making, c, xs, v, i)]
  BY <1>6
<1> QED BY <1>3, <1>7

\* What processTransactions and processBlock come to.
LEMMA BlockMade ==
  ASSUME NEW c, NEW xs \in Seq(TxType)
  PROVE  \E w : /\ w[0] = EmptyBlock /\ w[Len(xs)] = processTransactions(c, xs)
                /\ \A i \in 1..Len(xs) : w[i] = processTransaction(c, w[i - 1], xs[i])
<1> DEFINE w == CHOOSE v : v = [i \in 0..Len(xs) |-> IF i = 0 THEN EmptyBlock
                                                     ELSE processTransaction(c, v[i - 1], xs[i])]
<1>1. processTransactions(c, xs) = w[Len(xs)]
  BY DEF processTransactions
<1>2. w = [i \in 0..Len(xs) |-> IF i = 0 THEN EmptyBlock ELSE processTransaction(c, w[i - 1], xs[i])]
  <2>1. PICK m \in BOOLEAN : m
    OBVIOUS
  <2>2. Len(xs) \in Nat
    OBVIOUS
  <2>3. PICK v : v = [i \in 0..Len(xs) |-> Grown(m, c, xs, v, i)]
    BY <2>2, GrownExists
  <2>4. v = [i \in 0..Len(xs) |-> IF i = 0 THEN EmptyBlock ELSE processTransaction(c, v[i - 1], xs[i])]
    BY <2>1, <2>3 DEF Grown
  <2> QED BY <2>4
<1> HIDE DEF w
<1>3. w[0] = EmptyBlock /\ \A i \in 1..Len(xs) : w[i] = processTransaction(c, w[i - 1], xs[i])
  BY <1>2
<1> QED BY <1>1, <1>3

\* The ledgers on the way through an accepted block.
LEMMA BlockApplied ==
  ASSUME NEW c, NEW xs \in Seq(TxType)
  PROVE  \E w : /\ w[0] = Ledger(c) /\ w[Len(xs)] = processBlock(c, xs)
                /\ \A i \in 1..Len(xs) : w[i] = Apply(c, w[i - 1], xs[i])
<1> DEFINE w == CHOOSE v : v = [i \in 0..Len(xs) |-> IF i = 0 THEN Ledger(c)
                                                     ELSE Apply(c, v[i - 1], xs[i])]
<1>1. processBlock(c, xs) = w[Len(xs)]
  BY DEF processBlock
<1>2. w = [i \in 0..Len(xs) |-> IF i = 0 THEN Ledger(c) ELSE Apply(c, w[i - 1], xs[i])]
  <2>1. PICK m \in BOOLEAN : ~m
    OBVIOUS
  <2>2. Len(xs) \in Nat
    OBVIOUS
  <2>3. PICK v : v = [i \in 0..Len(xs) |-> Grown(m, c, xs, v, i)]
    BY <2>2, GrownExists
  <2>4. v = [i \in 0..Len(xs) |-> IF i = 0 THEN Ledger(c) ELSE Apply(c, v[i - 1], xs[i])]
    BY <2>1, <2>3 DEF Grown
  <2> QED BY <2>4
<1> HIDE DEF w
<1>3. w[0] = Ledger(c) /\ \A i \in 1..Len(xs) : w[i] = Apply(c, w[i - 1], xs[i])
  BY <1>2
<1> QED BY <1>1, <1>3

\* A block with more transactions at its end.
LEMMA Joined ==
  ASSUME NEW B \in Seq(TxType), NEW S \in Seq(TxType)
  PROVE  /\ B \o S \in Seq(TxType)
         /\ \A i \in DOMAIN B : i \in DOMAIN (B \o S) /\ (B \o S)[i] = B[i]
         /\ \A i \in DOMAIN S : Len(B) + i \in DOMAIN (B \o S) /\ (B \o S)[Len(B) + i] = S[i]
         /\ \A k \in DOMAIN (B \o S) : k \in DOMAIN B \/ \E i \in DOMAIN S : k = Len(B) + i
         /\ \A x : In(B \o S, x) <=> In(B, x) \/ In(S, x)
<1>1. /\ B \o S \in Seq(TxType) /\ Len(B \o S) = Len(B) + Len(S) /\ Len(B) \in Nat /\ Len(S) \in Nat
      /\ DOMAIN (B \o S) = 1..(Len(B) + Len(S)) /\ DOMAIN B = 1..Len(B) /\ DOMAIN S = 1..Len(S)
  OBVIOUS
<1>2. \A i \in 1..(Len(B) + Len(S)) : (B \o S)[i] = IF i <= Len(B) THEN B[i] ELSE S[i - Len(B)]
  OBVIOUS
<1>3. \A i \in DOMAIN B : i \in DOMAIN (B \o S) /\ (B \o S)[i] = B[i]
  BY <1>1, <1>2
<1>4. \A i \in DOMAIN S : Len(B) + i \in DOMAIN (B \o S) /\ (B \o S)[Len(B) + i] = S[i]
  BY <1>1, <1>2
<1>5. ASSUME NEW k \in DOMAIN (B \o S), k \notin DOMAIN B
      PROVE  \E i \in DOMAIN S : k = Len(B) + i
  <2>1. k - Len(B) \in DOMAIN S /\ k = Len(B) + (k - Len(B))
    BY <1>1, <1>5
  <2> QED BY <2>1
<1>6. \A x : In(B \o S, x) <=> In(B, x) \/ In(S, x)
  BY <1>3, <1>4, <1>5 DEF In
<1> QED BY <1>1, <1>3, <1>4, <1>5, <1>6

\* What makes block B stay sound with S at its end.
Follows(c, Q, B, S) ==
  /\ \A i \in DOMAIN S : ~In(B, S[i]) /\ Is(c, Q, B \o S, Len(B) + i)
  /\ Once(S)
  /\ \A t \in tracked : At(t) = c => Closed(c, B \o S, t)

\* A sound block that more is put at the end of is sound, with more of the pool behind it.
LEMMA SoundGrown ==
  ASSUME NEW c, NEW P, NEW Q, P \subseteq Q, NEW B \in Seq(TxType), NEW S \in Seq(TxType),
         BlockSound(c, P, B), Follows(c, Q, B, S)
  PROVE  BlockSound(c, Q, B \o S)
<1> DEFINE A == B \o S
<1>1. /\ \A i \in DOMAIN B : i \in DOMAIN A /\ A[i] = B[i]
      /\ \A i \in DOMAIN S : Len(B) + i \in DOMAIN A /\ A[Len(B) + i] = S[i]
      /\ \A k \in DOMAIN A : k \in DOMAIN B \/ \E i \in DOMAIN S : k = Len(B) + i
  BY Joined
<1>2. DOMAIN B = 1..Len(B) /\ Len(B) \in Nat /\ DOMAIN S \subseteq Nat
  OBVIOUS
<1>3. /\ \A i \in DOMAIN S : ~In(B, S[i]) /\ Is(c, Q, A, Len(B) + i)
      /\ \A t \in tracked : At(t) = c => Closed(c, A, t)
  BY DEF Follows
<1> HIDE DEF A
<1>4. ASSUME NEW i \in DOMAIN B
      PROVE  Is(c, Q, A, i)
  <2>1. A[i] = B[i] /\ Is(c, P, B, i)
    BY <1>1 DEF BlockSound
  <2>2. /\ IsNormal(c, P, B[i]) => IsNormal(c, Q, B[i])
        /\ IsOriginal(c, P, B[i]) => IsOriginal(c, Q, B[i])
        /\ IsRequest(c, P, B[i]) => IsRequest(c, Q, B[i])
        /\ IsResponse(c, P, B[i]) => IsResponse(c, Q, B[i])
    BY DEF IsNormal, IsOriginal, IsRequest, IsResponse
  <2>3. IsProven(c, P, B[i]) => IsProven(c, Q, B[i])
    BY DEF IsProven
  <2>4. ASSUME IsFinal(c, B, i) PROVE IsFinal(c, A, i)
    <3>1. PICK t \in tracked :
            /\ At(t) = c /\ Original(t) \in originals[c] /\ B[i] = Final(Original(t))
            /\ \A o \in t.ins : o \in utxo[c] \/ \E j \in 1..(i - 1) : B[j] = Proven(t, Owner(o))
      BY <2>4 DEF IsFinal
    <3>2. \A j \in 1..(i - 1) : A[j] = B[j]
      BY <1>1, <1>2
    <3>3. \A o \in t.ins : o \in utxo[c] \/ \E j \in 1..(i - 1) : A[j] = Proven(t, Owner(o))
      BY <3>1, <3>2
    <3>4. A[i] = Final(Original(t))
      BY <2>1, <3>1
    <3> QED BY <3>1, <3>3, <3>4 DEF IsFinal
  <2> QED BY <2>1, <2>2, <2>3, <2>4 DEF Is
<1>5. \A i \in DOMAIN A : Is(c, Q, A, i)
  BY <1>1, <1>3, <1>4
<1>6. Once(A)
  <2>1. \A i, j \in DOMAIN B : A[i] = A[j] => i = j
    BY <1>1 DEF BlockSound, Once
  <2>2. \A i \in DOMAIN B, j \in DOMAIN S : A[i] # A[Len(B) + j]
    BY <1>1, <1>3 DEF In
  <2>3. \A i, j \in DOMAIN S : A[Len(B) + i] = A[Len(B) + j] => i = j
    BY <1>1 DEF Follows, Once
  <2> QED BY <1>1, <2>1, <2>2, <2>3 DEF Once
<1>7. BlockSound(c, Q, A)
  BY <1>3, <1>5, <1>6 DEF BlockSound
<1> QED BY <1>7 DEF A

\* Nothing of transaction u is among what block A has more than B.
LEMMA ClosedKept ==
  ASSUME NEW c, NEW P, NEW B, BlockSound(c, P, B), NEW A, NEW u \in tracked, At(u) = c,
         In(A, Original(u)) <=> In(B, Original(u)),
         In(A, Final(Original(u))) <=> In(B, Final(Original(u))),
         \A d : In(A, Request(u, d)) <=> In(B, Request(u, d)),
         \A d : In(A, Proven(u, d)) <=> In(B, Proven(u, d))
  PROVE  Closed(c, A, u)
<1>1. Closed(c, B, u)
  BY DEF BlockSound
<1>2. \A d \in Asked(u) : In(A, Request(u, d)) <=> In(A, Original(u))
  BY <1>1 DEF Closed
<1>3. ASSUME NEW d \in Asked(u), In(A, Proven(u, d)),
             \A o \in u.ins : o \in utxo[c] \/ In(A, Proven(u, Owner(o)))
      PROVE  In(A, Final(Original(u)))
  <2>1. In(B, Proven(u, d)) /\ \A o \in u.ins : o \in utxo[c] \/ In(B, Proven(u, Owner(o)))
    BY <1>3
  <2> QED BY <1>1, <2>1 DEF Closed
<1> QED BY <1>2, <1>3 DEF Closed

-----------------------------------------------------------------------------
\* A block in the making.
BlockType == [txs : Seq(TxType), spent : SUBSET OutputSet, added : SUBSET OutputSet,
              tmp : SUBSET TxType, fatal : BOOLEAN]

\* Why block B of committee c spends output o, and why it has it to spend.
SpentBy(c, B, o) ==
  \E t \in tracked : /\ o \in t.ins
                     /\ \/ In(B, t) \/ In(B, Final(Original(t)))
                        \/ c \in Asked(t) /\ In(B, Response(c, Request(t, c)))

AddedBy(B, o) ==
  \E t \in tracked : \/ o \in t.outs /\ (In(B, t) \/ In(B, Final(Original(t))))
                     \/ \E d \in Asked(t) : o \in Part(t, d) /\ In(B, Proven(t, d))

\* A block made of the transactions P of the pool.
Good(c, P, b) ==
  /\ ~b.fatal
  /\ BlockSound(c, P, b.txs)
  /\ \A o \in b.spent : SpentBy(c, b.txs, o)
  /\ \A t \in tracked : In(b.txs, Final(Original(t))) => t.ins \subseteq b.spent
  /\ \A o \in b.added : AddedBy(b.txs, o)
  /\ \A t \in tracked : \A d \in Asked(t) : In(b.txs, Proven(t, d)) => Part(t, d) \subseteq b.added
  /\ \A x \in b.tmp : \E t \in tracked : x = Original(t) /\ t \in P

\* It stays one with S at its end, which spends sp, adds ad and brings originals tm.
Adds(c, Q, b, n, S, sp, ad, tm) ==
  /\ ~n.fatal /\ n.txs = b.txs \o S /\ n.spent = b.spent \cup sp /\ n.added = b.added \cup ad
  /\ n.tmp = b.tmp \cup tm /\ Follows(c, Q, b.txs, S)
  /\ \A o \in sp : SpentBy(c, n.txs, o)
  /\ \A t \in tracked : In(S, Final(Original(t))) => t.ins \subseteq sp
  /\ \A o \in ad : AddedBy(n.txs, o)
  /\ \A t \in tracked : \A d \in Asked(t) : In(S, Proven(t, d)) => Part(t, d) \subseteq ad
  /\ \A x \in tm : \E t \in tracked : x = Original(t) /\ t \in Q

\* A block in the making stays good when that is sound, spends what it may and adds
\* what is new.
LEMMA GoodGrown ==
  ASSUME NEW c, NEW P, NEW Q, NEW b \in BlockType, NEW n \in BlockType, Good(c, P, b), P \subseteq Q,
         NEW S \in Seq(TxType), NEW sp, NEW ad, NEW tm, Adds(c, Q, b, n, S, sp, ad, tm)
  PROVE  Good(c, Q, n)
<1>1. b.txs \in Seq(TxType)
  BY DEF BlockType
<1>2. \A x : In(n.txs, x) <=> In(b.txs, x) \/ In(S, x)
  BY <1>1, Joined DEF Adds
<1>3. \A o : SpentBy(c, b.txs, o) => SpentBy(c, n.txs, o)
  BY <1>2 DEF SpentBy
<1>4. \A o : AddedBy(b.txs, o) => AddedBy(n.txs, o)
  BY <1>2 DEF AddedBy
<1>5. \A o \in n.spent : SpentBy(c, n.txs, o)
  BY <1>3 DEF Good, Adds
<1>6. \A t \in tracked : In(n.txs, Final(Original(t))) => t.ins \subseteq n.spent
  BY <1>2 DEF Good, Adds
<1>7. \A o \in n.added : AddedBy(n.txs, o)
  BY <1>4 DEF Good, Adds
<1>8. \A t \in tracked : \A d \in Asked(t) : In(n.txs, Proven(t, d)) => Part(t, d) \subseteq n.added
  BY <1>2 DEF Good, Adds
<1>9. \A x \in n.tmp : \E t \in tracked : x = Original(t) /\ t \in Q
  BY DEF Good, Adds
<1>10. BlockSound(c, Q, n.txs)
  BY <1>1, SoundGrown DEF Good, Adds
<1> QED BY <1>5, <1>6, <1>7, <1>8, <1>9, <1>10 DEF Good, Adds

\* What the pool of committee c has can be worked on.
LEMMA PoolFacts ==
  ASSUME IInv, NEW t \in tracked
  PROVE  /\ t \in pool[At(t)] =>
              t.hash \notin Done /\ Original(t) \notin originals[At(t)] /\ \A o \in t.ins : o \in utxo[Owner(o)]
         /\ \A d \in Asked(t) :
              /\ Request(t, d) \in pool[d] => t.hash \notin Done /\ \A o \in Part(t, d) : o \in utxo[d]
              /\ Proven(t, d) \in pool[At(t)] /\ Original(t) \notin originals[At(t)] =>
                   Answer(t, d) \in late /\ t \notin pool[At(t)]
<1>1. ASSUME t \in pool[At(t)]
      PROVE  t.hash \notin Done /\ Original(t) \notin originals[At(t)] /\ \A o \in t.ins : o \in utxo[Owner(o)]
  <2>1. Waiting(t)
    BY <1>1 DEF Waiting, OnWay
  <2>2. t.hash \notin Done /\ ~Open(t)
    BY <2>1 DEF IInv, Stages
  <2>3. \A o \in t.ins : Held(t, o)
    BY <2>2 DEF IInv, Lower
  <2> QED BY <2>1, <2>2, <2>3 DEF Held, Open
<1>2. ASSUME NEW d \in Asked(t), Request(t, d) \in pool[d]
      PROVE  t.hash \notin Done /\ \A o \in Part(t, d) : o \in utxo[d]
  <2>1. Requested(t, d)
    BY <1>2 DEF Requested, OnWay
  <2>2. t.hash \notin Done
    BY <2>1 DEF IInv, Stages
  <2>3. \A o \in t.ins : Held(t, o)
    BY <2>2 DEF IInv, Lower
  <2>4. \A o \in Part(t, d) : o \in t.ins /\ Owner(o) = d
    BY DEF Part
  <2> QED BY <2>1, <2>2, <2>3, <2>4 DEF Held
<1>3. ASSUME NEW d \in Asked(t), Proven(t, d) \in pool[At(t)], Original(t) \notin originals[At(t)]
      PROVE  Answer(t, d) \in late /\ t \notin pool[At(t)]
  <2>1. Answered(t, d) /\ ~Open(t)
    BY <1>3 DEF Answered, OnWay, Open
  <2>2. Answer(t, d) \in late
    BY <2>1 DEF IInv, Stages
  <2>3. PICK u \in tracked : \E e \in Asked(u) : Answer(t, d) = Answer(u, e) /\ ~Waiting(u)
    BY <2>2 DEF IInv, Shapes
  <2>4. PICK e \in Asked(u) : Answer(t, d) = Answer(u, e)
    BY <2>3
  <2>5. Proven(t, d) = Proven(u, e)
    BY <2>4 DEF Answer
  <2>6. t = u
    BY <2>5, Tracked, Apart DEF IInv
  <2>7. ~Waiting(t)
    BY <2>3, <2>6
  <2> QED BY <2>2, <2>7 DEF Waiting, OnWay
<1> QED BY <1>1, <1>2, <1>3

\* A block in the making that gets more of something.
LEMMA BlockTyped ==
  ASSUME NEW b \in BlockType, NEW T \in Seq(TxType), NEW s \in SUBSET OutputSet, NEW a \in SUBSET OutputSet,
         NEW m \in SUBSET TxType
  PROVE  /\ [b EXCEPT !.txs = T, !.spent = s, !.added = a] \in BlockType
         /\ [b EXCEPT !.txs = T, !.spent = s] \in BlockType
         /\ [b EXCEPT !.txs = T, !.added = a] \in BlockType
         /\ [b EXCEPT !.txs = T, !.tmp = m] \in BlockType
BY DEF BlockType

\* A transaction with all of its inputs here.
LEMMA GrowNormal ==
  ASSUME IInv, NEW c \in Committees, NEW P, NEW b \in BlockType, Good(c, P, b),
         NEW t \in tracked, At(t) = c, Asked(t) = {}, t \in pool[c], t \notin P
  PROVE  /\ processTransaction(c, b, t) \in BlockType
         /\ Good(c, P \cup {t}, processTransaction(c, b, t))
<1>0. Clients
  BY DEF IInv
<1>1. ClientTx(t) /\ t \in TxType /\ t.orig = Nil /\ t.ins \subseteq OutputSet /\ t.outs \subseteq OutputSet
  BY <1>0, Tracked, ClientFacts
<1>2. \A o \in t.ins : Owner(o) = c
  BY DEF Asked
<1>3. t.ins \subseteq utxo[c] /\ Original(t) \notin originals[c]
  BY <1>2, PoolFacts
<1>4. b.txs \in Seq(TxType) /\ BlockSound(c, P, b.txs) /\ ~b.fatal
  BY DEF BlockType, Good
<1>5. \A u \in tracked : t.hash = u.hash => t = u
  BY <1>0, Tracked
<1>6. ~In(b.txs, t) /\ ~In(b.txs, Final(Original(t)))
  BY <1>0, <1>1, <1>3, <1>4, <1>5, BlockMembers
<1>7. t.ins \cap b.spent = {}
  <2>1. ASSUME NEW o \in t.ins, o \in b.spent
        PROVE  FALSE
    <3>1. PICK u \in tracked : /\ o \in u.ins
                               /\ \/ In(b.txs, u) \/ In(b.txs, Final(Original(u)))
                                  \/ c \in Asked(u) /\ In(b.txs, Response(c, Request(u, c)))
      BY <2>1 DEF Good, SpentBy
    <3>2. u = t
      BY <1>0, <3>1, Tracked
    <3> QED BY <1>6, <3>1, <3>2
  <2> QED BY <2>1
<1> DEFINE n == [b EXCEPT !.txs = Append(@, t), !.spent = @ \cup t.ins,
                          !.added = (@ \ (t.ins \ utxo[c])) \cup t.outs]
<1>8. processTransaction(c, b, t) = n
  BY <1>1, <1>2, <1>3, <1>4, <1>7 DEF processTransaction, processNormalTransaction, InputsValid
<1>9. /\ n \in BlockType /\ n.txs = b.txs \o <<t>> /\ n.spent = b.spent \cup t.ins
      /\ n.added = b.added \cup t.outs /\ n.tmp = b.tmp \cup {} /\ ~n.fatal
  <2>1. n.txs = b.txs \o <<t>>
    BY <1>1, <1>4 DEF BlockType
  <2>2. n.spent = b.spent \cup t.ins
    BY DEF BlockType
  <2>3. n.added = b.added \cup t.outs
    BY <1>3 DEF BlockType
  <2>4. n.tmp = b.tmp \cup {}
    BY DEF BlockType
  <2>5. ~n.fatal
    BY <1>4 DEF BlockType
  <2>6. n \in BlockType
    <3>1. Append(b.txs, t) \in Seq(TxType)
      BY <1>1, <1>4
    <3>2. b.spent \cup t.ins \in SUBSET OutputSet
      BY <1>1 DEF BlockType
    <3>3. (b.added \ (t.ins \ utxo[c])) \cup t.outs \in SUBSET OutputSet
      BY <1>1 DEF BlockType
    <3>4. b.tmp \in SUBSET TxType
      BY DEF BlockType
    <3> QED BY <3>1, <3>2, <3>3, <3>4, BlockTyped
  <2> QED BY <2>1, <2>2, <2>3, <2>4, <2>5, <2>6
<1> HIDE DEF n
<1> DEFINE S == <<t>>
<1>10. S \in Seq(TxType) /\ DOMAIN S = {1} /\ S[1] = t /\ \A x : In(S, x) <=> x = t
  BY <1>1 DEF In
<1> HIDE DEF S
<1>11. n.txs = b.txs \o S
  BY <1>9 DEF S
<1>12. \A x : In(n.txs, x) <=> In(b.txs, x) \/ x = t
  BY <1>4, <1>10, <1>11, Joined
<1>13. ASSUME NEW u \in tracked
       PROVE  /\ t # Original(u) /\ t # Final(Original(u))
              /\ \A d : t # Request(u, d) /\ t # Proven(u, d)
  BY <1>0, <1>1, Tracked, Apart
<1>14. Follows(c, P \cup {t}, b.txs, S)
  <2>1. ASSUME NEW i \in DOMAIN S
        PROVE  ~In(b.txs, S[i]) /\ Is(c, P \cup {t}, b.txs \o S, Len(b.txs) + i)
    <3>1. (b.txs \o S)[Len(b.txs) + i] = t
      BY <1>4, <1>10, Joined
    <3>2. IsNormal(c, P \cup {t}, t)
      BY DEF IsNormal
    <3> QED BY <1>6, <1>10, <3>1, <3>2 DEF Is
  <2>2. Once(S)
    BY <1>10 DEF Once
  <2>3. ASSUME NEW u \in tracked, At(u) = c
        PROVE  Closed(c, n.txs, u)
    <3>1. /\ In(n.txs, Original(u)) <=> In(b.txs, Original(u))
          /\ In(n.txs, Final(Original(u))) <=> In(b.txs, Final(Original(u)))
      BY <1>12, <1>13
    <3>2. \A d : In(n.txs, Request(u, d)) <=> In(b.txs, Request(u, d))
      BY <1>12, <1>13
    <3>3. \A d : In(n.txs, Proven(u, d)) <=> In(b.txs, Proven(u, d))
      BY <1>12, <1>13
    <3> QED BY <1>4, <2>3, <3>1, <3>2, <3>3, ClosedKept
  <2> QED BY <1>11, <2>1, <2>2, <2>3 DEF Follows
<1>15. \A o \in t.ins : SpentBy(c, n.txs, o)
  BY <1>12 DEF SpentBy
<1>16. \A o \in t.outs : AddedBy(n.txs, o)
  BY <1>12 DEF AddedBy
<1>17. \A u \in tracked : /\ ~In(S, Final(Original(u)))
                          /\ \A d \in Asked(u) : ~In(S, Proven(u, d))
  BY <1>10, <1>13
<1>18. Adds(c, P \cup {t}, b, n, S, t.ins, t.outs, {})
  BY <1>9, <1>11, <1>14, <1>15, <1>16, <1>17 DEF Adds
<1>19. P \subseteq P \cup {t}
  OBVIOUS
<1>20. Good(c, P \cup {t}, n)
  BY <1>9, <1>10, <1>18, <1>19, GoodGrown
<1> QED BY <1>8, <1>9, <1>20

\* The answer to another committee's request.
LEMMA GrowRequest ==
  ASSUME IInv, NEW c \in Committees, NEW P \in SUBSET pool[c], NEW b \in BlockType, Good(c, P, b),
         NEW t \in tracked, c \in Asked(t), NEW x, x = Request(t, c), x \in pool[c], x \notin P
  PROVE  /\ processTransaction(c, b, x) \in BlockType
         /\ Good(c, P \cup {x}, processTransaction(c, b, x))
<1>0. Clients
  BY DEF IInv
<1>1. ClientTx(t) /\ t \in TxType /\ t.hash # Nil
  BY <1>0, Tracked, ClientFacts
<1>2. x.hash = Nil /\ x.orig = t.hash /\ x.ins = Part(t, c) /\ x.outs = {}
  BY <1>1, PieceFields
<1>3. /\ c # At(t) /\ Part(t, c) \subseteq t.ins /\ \A o \in Part(t, c) : Owner(o) = c
      /\ Response(c, x) \in TxType
  BY <1>1, PieceFacts
<1>4. Part(t, c) \subseteq utxo[c] /\ Part(t, c) \subseteq OutputSet
  <2>1. Part(t, c) \subseteq utxo[c]
    BY PoolFacts
  <2>2. t.ins \subseteq OutputSet
    BY <1>1, ClientFacts
  <2> QED BY <1>3, <2>1, <2>2
<1>5. b.txs \in Seq(TxType) /\ BlockSound(c, P, b.txs) /\ ~b.fatal
  BY DEF BlockType, Good
<1>6. \A u \in tracked : t.hash = u.hash => t = u
  BY <1>0, Tracked
<1>7. ~In(b.txs, t) /\ ~In(b.txs, Final(Original(t))) /\ ~In(b.txs, Response(c, x))
  BY <1>0, <1>1, <1>3, <1>5, <1>6, BlockMembers
<1>8. Part(t, c) \cap b.spent = {}
  <2>1. ASSUME NEW o \in Part(t, c), o \in b.spent
        PROVE  FALSE
    <3>1. PICK u \in tracked : /\ o \in u.ins
                               /\ \/ In(b.txs, u) \/ In(b.txs, Final(Original(u)))
                                  \/ c \in Asked(u) /\ In(b.txs, Response(c, Request(u, c)))
      BY <2>1 DEF Good, SpentBy
    <3>2. u = t
      BY <1>0, <1>3, <2>1, <3>1, Tracked
    <3> QED BY <1>7, <3>1, <3>2
  <2> QED BY <2>1
<1> DEFINE n == [b EXCEPT !.txs = Append(@, Response(c, x)), !.spent = @ \cup x.ins]
<1>9. processTransaction(c, b, x) = n
  BY <1>1, <1>2, <1>3, <1>4, <1>5, <1>8 DEF processTransaction, processIncommingCrossTx, InputsValid
<1> DEFINE S == <<Response(c, x)>>
<1>10. /\ n \in BlockType /\ n.txs = b.txs \o S /\ n.spent = b.spent \cup Part(t, c)
       /\ n.added = b.added \cup {} /\ n.tmp = b.tmp \cup {} /\ ~n.fatal
  <2>1. n.txs = b.txs \o S
    BY <1>3, <1>5 DEF BlockType
  <2>2. n.spent = b.spent \cup Part(t, c)
    BY <1>2 DEF BlockType
  <2>3. n.added = b.added \cup {}
    BY DEF BlockType
  <2>4. n.tmp = b.tmp \cup {}
    BY DEF BlockType
  <2>5. ~n.fatal
    BY <1>5 DEF BlockType
  <2>6. n \in BlockType
    <3>1. Append(b.txs, Response(c, x)) \in Seq(TxType)
      BY <1>3, <1>5
    <3>2. b.spent \cup x.ins \in SUBSET OutputSet
      BY <1>2, <1>4 DEF BlockType
    <3>3. b.added \in SUBSET OutputSet /\ b.tmp \in SUBSET TxType
      BY DEF BlockType
    <3> QED BY <3>1, <3>2, <3>3, BlockTyped
  <2> QED BY <2>1, <2>2, <2>3, <2>4, <2>5, <2>6
<1>11. S \in Seq(TxType) /\ DOMAIN S = {1} /\ S[1] = Response(c, x) /\ \A y : In(S, y) <=> y = Response(c, x)
  BY <1>3 DEF In
<1> HIDE DEF n, S
<1>12. \A y : In(n.txs, y) <=> In(b.txs, y) \/ y = Response(c, x)
  BY <1>5, <1>10, <1>11, Joined
<1>13. ASSUME NEW u \in tracked
       PROVE  /\ Response(c, x) # Original(u) /\ Response(c, x) # Final(Original(u))
              /\ \A d : Response(c, x) # Request(u, d)
              /\ \A d : Response(c, x) # Proven(u, d)
  BY <1>0, <1>1, Tracked, Apart
<1>14. Follows(c, P \cup {x}, b.txs, S)
  <2>1. ASSUME NEW i \in DOMAIN S
        PROVE  ~In(b.txs, S[i]) /\ Is(c, P \cup {x}, b.txs \o S, Len(b.txs) + i)
    <3>1. (b.txs \o S)[Len(b.txs) + i] = Response(c, x)
      BY <1>5, <1>11, Joined
    <3>2. IsResponse(c, P \cup {x}, Response(c, x))
      BY DEF IsResponse
    <3> QED BY <1>7, <1>11, <3>1, <3>2 DEF Is
  <2>2. Once(S)
    BY <1>11 DEF Once
  <2>3. ASSUME NEW u \in tracked, At(u) = c
        PROVE  Closed(c, n.txs, u)
    <3>1. /\ In(n.txs, Original(u)) <=> In(b.txs, Original(u))
          /\ In(n.txs, Final(Original(u))) <=> In(b.txs, Final(Original(u)))
      BY <1>12, <1>13
    <3>2. \A d : In(n.txs, Request(u, d)) <=> In(b.txs, Request(u, d))
      BY <1>12, <1>13
    <3>3. \A d : In(n.txs, Proven(u, d)) <=> In(b.txs, Proven(u, d))
      BY <1>12, <1>13
    <3> QED BY <1>5, <2>3, <3>1, <3>2, <3>3, ClosedKept
  <2> QED BY <1>10, <2>1, <2>2, <2>3 DEF Follows
<1>15. \A o \in Part(t, c) : SpentBy(c, n.txs, o)
  BY <1>3, <1>12 DEF SpentBy
<1>16. \A u \in tracked : /\ ~In(S, Final(Original(u)))
                          /\ \A d \in Asked(u) : ~In(S, Proven(u, d))
  BY <1>11, <1>13
<1>17. Adds(c, P \cup {x}, b, n, S, Part(t, c), {}, {})
  BY <1>10, <1>14, <1>15, <1>16 DEF Adds
<1>18. P \subseteq P \cup {x}
  OBVIOUS
<1>19. Good(c, P \cup {x}, n)
  BY <1>10, <1>11, <1>17, <1>18, GoodGrown
<1> QED BY <1>9, <1>10, <1>19

\* The sequence of a finite set has each of its elements once.
LEMMA SeqOfSet ==
  ASSUME NEW T \in SUBSET TxType, IsFiniteSet(T)
  PROVE  SetToSeq(T) \in Seq(TxType) /\ Once(SetToSeq(T)) /\ \A x : In(SetToSeq(T), x) <=> x \in T
<1> DEFINE N == Cardinality(T)
           f == SetToSeq(T)
<1>1. N \in Nat /\ ExistsBijection(1..N, T)
  BY FS_CardinalityType
<1>2. IsFiniteSet(1..N) /\ Cardinality(1..N) = N
  BY <1>1, FS_Interval
<1> HIDE DEF N
<1>3. \E g \in [1..N -> T] : IsInjective(g)
  BY <1>1 DEF ExistsBijection, Bijection, Injection
<1>4. f \in [1..N -> T] /\ IsInjective(f)
  BY <1>3 DEF SetToSeq, N
<1> HIDE DEF f
<1>5. f \in Injection(1..N, T)
  BY <1>4 DEF Injection
<1>6. f \in Surjection(1..N, T)
  <2>1. Cardinality(1..N) = Cardinality(T)
    BY <1>2 DEF N
  <2> QED BY <1>5, <2>1, FS_Injection
<1>7. \A x : In(f, x) <=> x \in T
  BY <1>4, <1>6 DEF In, Surjection
<1>8. f \in Seq(TxType)
  BY <1>1, <1>4
<1>9. Once(f)
  BY <1>4 DEF Once, IsInjective
<1> QED BY <1>7, <1>8, <1>9 DEF f

\* A transaction that needs inputs of other committees.
LEMMA GrowCross ==
  ASSUME IInv, NEW c \in Committees, NEW P \in SUBSET pool[c], NEW b \in BlockType, Good(c, P, b),
         NEW t \in tracked, At(t) = c, Asked(t) # {}, t \in pool[c], t \notin P
  PROVE  /\ processTransaction(c, b, t) \in BlockType
         /\ Good(c, P \cup {t}, processTransaction(c, b, t))
<1>0. Clients
  BY DEF IInv
<1>1. ClientTx(t) /\ t \in TxType /\ t.orig = Nil
  BY <1>0, Tracked, ClientFacts
<1>2. ~ \A o \in t.ins : Owner(o) = c
  BY DEF Asked
<1>3. Part(t, c) \subseteq utxo[c] /\ Original(t) \notin originals[c]
  <2>1. Original(t) \notin originals[c] /\ \A o \in t.ins : o \in utxo[Owner(o)]
    BY PoolFacts
  <2> QED BY <2>1 DEF Part
<1>4. b.txs \in Seq(TxType) /\ BlockSound(c, P, b.txs) /\ ~b.fatal
  BY DEF BlockType, Good
<1>5. \A u \in tracked : t.hash = u.hash => t = u
  BY <1>0, Tracked
<1>6. /\ ~In(b.txs, t) /\ ~In(b.txs, Original(t)) /\ ~In(b.txs, Final(Original(t)))
      /\ \A d \in Asked(t) : ~In(b.txs, Request(t, d))
  BY <1>0, <1>1, <1>3, <1>4, <1>5, BlockMembers
<1>7. Part(t, c) \cap b.spent = {}
  <2>1. ASSUME NEW o \in Part(t, c), o \in b.spent
        PROVE  FALSE
    <3>1. PICK u \in tracked : /\ o \in u.ins
                               /\ \/ In(b.txs, u) \/ In(b.txs, Final(Original(u)))
                                  \/ c \in Asked(u) /\ In(b.txs, Response(c, Request(u, c)))
      BY <2>1 DEF Good, SpentBy
    <3>2. u = t
      BY <1>0, <2>1, <3>1, Tracked DEF Part
    <3>3. c \notin Asked(t)
      BY DEF Asked
    <3> QED BY <1>6, <3>1, <3>2, <3>3
  <2> QED BY <2>1
<1> DEFINE T == {Request(t, d) : d \in Asked(t)}
           R == SetToSeq(T)
           n == [b EXCEPT !.txs = @ \o <<Original(t)>> \o R, !.tmp = @ \cup {Original(t)}]
<1>8. processTransaction(c, b, t) = n
  <2>1. Asked(t) = {Owner(o) : o \in t.ins} \ {c}
    BY DEF Asked
  <2>2. processTransaction(c, b, t) = processTransactionWithUnknowInputs(c, b, t)
    BY <1>1, <1>2, <1>4 DEF processTransaction
  <2>3. InputsValid(c, b, Part(t, c))
    BY <1>3, <1>7 DEF InputsValid
  <2> QED BY <2>1, <2>2, <2>3 DEF processTransactionWithUnknowInputs
<1>9. Original(t) \in TxType /\ \A d \in Asked(t) : Request(t, d) \in TxType /\ d \in Committees
  BY <1>1, PieceFacts
<1>10. R \in Seq(TxType) /\ Once(R) /\ \A x : In(R, x) <=> \E d \in Asked(t) : x = Request(t, d)
  <2>1. T \in SUBSET TxType
    BY <1>9
  <2>2. IsFiniteSet(Asked(t))
    <3>1. Asked(t) \subseteq Committees
      BY <1>9
    <3> QED BY <3>1, CrossTxAssumption, FS_Subset
  <2>3. IsFiniteSet(T)
    <3> DEFINE f == [d \in Asked(t) |-> Request(t, d)]
    <3>1. T = {f[d] : d \in Asked(t)}
      OBVIOUS
    <3> HIDE DEF f, T
    <3> QED BY <2>2, <3>1, ImageFinite
  <2> HIDE DEF T
  <2>4. R \in Seq(TxType) /\ Once(R) /\ \A x : In(R, x) <=> x \in T
    BY <2>1, <2>3, SeqOfSet
  <2> QED BY <2>4 DEF T
<1> HIDE DEF R
<1> DEFINE S == <<Original(t)>> \o R
<1>11. <<Original(t)>> \in Seq(TxType)
  BY <1>9
<1>12. b.txs \o <<Original(t)>> \o R = b.txs \o S
  <2>1. \A A, B, C \in Seq(TxType) : A \o B \o C = A \o (B \o C)
    BY ConcatAssociative
  <2> QED BY <1>4, <1>10, <1>11, <2>1
<1>13. S \in Seq(TxType)
  BY <1>10, <1>11
<1>14. /\ n \in BlockType /\ n.txs = b.txs \o S /\ n.spent = b.spent \cup {}
       /\ n.added = b.added \cup {} /\ n.tmp = b.tmp \cup {Original(t)} /\ ~n.fatal
  <2> HIDE DEF S
  <2>0. b.txs \o S \in Seq(TxType)
    BY <1>4, <1>13, Joined
  <2>1. n.txs = b.txs \o S
    BY <1>12 DEF BlockType
  <2>2. n.spent = b.spent \cup {}
    BY DEF BlockType
  <2>3. n.added = b.added \cup {}
    BY DEF BlockType
  <2>4. n.tmp = b.tmp \cup {Original(t)}
    BY DEF BlockType
  <2>5. ~n.fatal
    BY <1>4 DEF BlockType
  <2>6. n \in BlockType
    <3>1. b.txs \o <<Original(t)>> \o R \in Seq(TxType)
      BY <1>12, <2>0
    <3>2. b.spent \in SUBSET OutputSet /\ b.added \in SUBSET OutputSet /\ b.tmp \in SUBSET TxType
      BY DEF BlockType
    <3>3. b.tmp \cup {Original(t)} \in SUBSET TxType
      BY <1>9, <3>2
    <3> QED BY <3>1, <3>2, <3>3, BlockTyped
  <2> QED BY <2>1, <2>2, <2>3, <2>4, <2>5, <2>6
<1> HIDE DEF n
<1>15. \A u \in tracked : t # Original(u)
  BY <1>0, <1>1, Tracked, Apart
<1>16. ASSUME NEW u \in tracked
       PROVE  /\ Original(t) # Final(Original(u)) /\ (Original(t) = Original(u) => t = u)
              /\ \A d : Request(t, d) # Original(u) /\ Request(t, d) # Final(Original(u))
              /\ \A d, e : Request(t, d) # Proven(u, e)
              /\ \A d \in Asked(t), e \in Asked(u) : Request(t, d) = Request(u, e) => t = u /\ d = e
  BY <1>0, <1>1, Tracked, Apart
<1>17. ASSUME NEW u \in tracked
       PROVE  \A d : Original(t) # Request(u, d) /\ Original(t) # Proven(u, d)
  BY <1>0, <1>1, Tracked, Apart
<1>18. /\ \A x : In(S, x) <=> x = Original(t) \/ \E d \in Asked(t) : x = Request(t, d)
       /\ Once(S)
  <2>1. \A x : In(<<Original(t)>>, x) <=> x = Original(t)
    BY DEF In
  <2>2. \A x : In(S, x) <=> x = Original(t) \/ \E d \in Asked(t) : x = Request(t, d)
    BY <1>10, <1>11, <2>1, Joined
  <2>3. ~In(R, Original(t))
    BY <1>10, <1>16
  <2>4. /\ DOMAIN S = 1..(1 + Len(R)) /\ Len(R) \in Nat /\ S[1] = Original(t)
        /\ \A i \in 2..(1 + Len(R)) : S[i] = R[i - 1] /\ i - 1 \in DOMAIN R
    BY <1>10, <1>11
  <2> HIDE DEF S
  <2>5. Once(S)
    BY <1>10, <2>3, <2>4 DEF Once, In
  <2> QED BY <2>2, <2>5
<1> HIDE DEF S
<1>19. \A x : In(n.txs, x) <=> In(b.txs, x) \/ x = Original(t) \/ \E d \in Asked(t) : x = Request(t, d)
  BY <1>4, <1>13, <1>14, <1>18, Joined
<1>20. Follows(c, P \cup {t}, b.txs, S)
  <2>1. ASSUME NEW i \in DOMAIN S
        PROVE  ~In(b.txs, S[i]) /\ Is(c, P \cup {t}, b.txs \o S, Len(b.txs) + i)
    <3>1. (b.txs \o S)[Len(b.txs) + i] = S[i]
      BY <1>4, <1>13, Joined
    <3>2. S[i] = Original(t) \/ \E d \in Asked(t) : S[i] = Request(t, d)
      BY <1>18 DEF In
    <3>3. ~In(b.txs, S[i])
      BY <1>6, <3>2
    <3>4. S[i] = Original(t) => IsOriginal(c, P \cup {t}, S[i])
      BY DEF IsOriginal
    <3>5. (\E d \in Asked(t) : S[i] = Request(t, d)) => IsRequest(c, P \cup {t}, S[i])
      BY DEF IsRequest
    <3> QED BY <3>1, <3>2, <3>3, <3>4, <3>5 DEF Is
  <2>2. ASSUME NEW u \in tracked, At(u) = c
        PROVE  Closed(c, n.txs, u)
    <3>1. In(n.txs, Final(Original(u))) <=> In(b.txs, Final(Original(u)))
      BY <1>16, <1>19
    <3>2. \A d : In(n.txs, Proven(u, d)) <=> In(b.txs, Proven(u, d))
      BY <1>16, <1>17, <1>19
    <3>3. Closed(c, b.txs, u)
      BY <1>4, <2>2 DEF BlockSound
    <3>4. \A d \in Asked(u) : In(n.txs, Request(u, d)) <=> In(n.txs, Original(u))
      <4>1. CASE u = t
        BY <1>19, <4>1
      <4>2. CASE u # t
        <5>1. In(n.txs, Original(u)) <=> In(b.txs, Original(u))
          BY <1>16, <1>19, <4>2
        <5>2. \A d \in Asked(u) : In(n.txs, Request(u, d)) <=> In(b.txs, Request(u, d))
          BY <1>16, <1>17, <1>19, <4>2
        <5> QED BY <3>3, <5>1, <5>2 DEF Closed
      <4> QED BY <4>1, <4>2
    <3>5. ASSUME NEW d \in Asked(u), In(n.txs, Proven(u, d)),
                 \A o \in u.ins : o \in utxo[c] \/ In(n.txs, Proven(u, Owner(o)))
          PROVE  In(n.txs, Final(Original(u)))
      <4>1. In(b.txs, Proven(u, d)) /\ \A o \in u.ins : o \in utxo[c] \/ In(b.txs, Proven(u, Owner(o)))
        BY <3>2, <3>5
      <4> QED BY <3>1, <3>3, <4>1 DEF Closed
    <3> QED BY <3>4, <3>5 DEF Closed
  <2> QED BY <1>14, <1>18, <2>1, <2>2 DEF Follows
<1>21. \A u \in tracked : /\ ~In(S, Final(Original(u)))
                          /\ \A d \in Asked(u) : ~In(S, Proven(u, d))
  BY <1>16, <1>17, <1>18
<1>22. \A x \in {Original(t)} : \E u \in tracked : x = Original(u) /\ u \in P \cup {t}
  OBVIOUS
<1>23. Adds(c, P \cup {t}, b, n, S, {}, {}, {Original(t)})
  BY <1>14, <1>20, <1>21, <1>22 DEF Adds
<1>24. P \subseteq P \cup {t}
  OBVIOUS
<1>25. Good(c, P \cup {t}, n)
  BY <1>13, <1>14, <1>23, <1>24, GoodGrown
<1> QED BY <1>8, <1>14, <1>25

\* Block b with the response of d to t, and with the final transaction after it, for
\* which all inputs of t are there.
WithResponse(b, t, d) ==
  [b EXCEPT !.txs = Append(@, Proven(t, d)), !.added = b.added \cup Part(t, d)]

WithFinal(b, t, d) ==
  [b EXCEPT !.txs = @ \o <<Proven(t, d), Final(Original(t))>>, !.spent = @ \cup t.ins,
            !.added = (b.added \cup Part(t, d)) \cup t.outs]

Covered(c, b, t, d) ==
  t.ins \subseteq utxo[c] \cup (b.added \cup Part(t, d)) /\ t.ins \cap b.spent = {}

\* A response that is not the last one its original waits for.
LEMMA GrowEarly ==
  ASSUME IInv, NEW c \in Committees, NEW P \in SUBSET pool[c], NEW b \in BlockType, Good(c, P, b),
         NEW t \in tracked, At(t) = c, Original(t) \in originals[c], NEW d \in Asked(t),
         NEW x, x = Proven(t, d), x \in pool[c], x \notin P,
         ~Covered(c, b, t, d)
  PROVE  WithResponse(b, t, d) \in BlockType /\ Good(c, P \cup {x}, WithResponse(b, t, d))
<1> DEFINE n == [b EXCEPT !.txs = Append(@, x), !.added = b.added \cup Part(t, d)]
<1>0. Clients
  BY DEF IInv
<1>1. ClientTx(t) /\ t \in TxType /\ t.ins \subseteq OutputSet
  BY <1>0, Tracked, ClientFacts
<1>2. x \in TxType /\ d # c /\ Part(t, d) \subseteq t.ins
  BY <1>1, PieceFacts
<1>3. b.txs \in Seq(TxType) /\ BlockSound(c, P, b.txs) /\ ~b.fatal
  BY DEF BlockType, Good
<1>4. \A u \in tracked : t.hash = u.hash => t = u
  BY <1>0, Tracked
<1>5. ~In(b.txs, x) /\ ~In(b.txs, t)
  BY <1>0, <1>1, <1>3, <1>4, BlockMembers
<1> DEFINE S == <<x>>
<1>6. /\ n \in BlockType /\ n.txs = b.txs \o S /\ n.spent = b.spent \cup {}
      /\ n.added = b.added \cup Part(t, d) /\ n.tmp = b.tmp \cup {} /\ ~n.fatal
  <2>1. n.txs = b.txs \o S
    BY <1>2, <1>3 DEF BlockType
  <2>2. n.spent = b.spent \cup {}
    BY DEF BlockType
  <2>3. n.added = b.added \cup Part(t, d)
    BY DEF BlockType
  <2>4. n.tmp = b.tmp \cup {}
    BY DEF BlockType
  <2>5. ~n.fatal
    BY <1>3 DEF BlockType
  <2>6. n \in BlockType
    <3>1. Append(b.txs, x) \in Seq(TxType)
      BY <1>2, <1>3
    <3>2. b.added \cup Part(t, d) \in SUBSET OutputSet
      BY <1>1, <1>2 DEF BlockType
    <3>3. b.spent \in SUBSET OutputSet /\ b.tmp \in SUBSET TxType
      BY DEF BlockType
    <3> QED BY <3>1, <3>2, <3>3, BlockTyped
  <2> QED BY <2>1, <2>2, <2>3, <2>4, <2>5, <2>6
<1>7. S \in Seq(TxType) /\ DOMAIN S = {1} /\ S[1] = x /\ \A y : In(S, y) <=> y = x
  BY <1>2 DEF In
<1> HIDE DEF n, S
<1>8. \A y : In(n.txs, y) <=> In(b.txs, y) \/ y = x
  <2>1. \A y : In(b.txs \o S, y) <=> In(b.txs, y) \/ In(S, y)
    BY <1>3, <1>7, Joined
  <2>2. n.txs = b.txs \o S
    BY <1>6
  <2> QED BY <1>7, <2>1, <2>2, Zenon
<1>9. ASSUME NEW u \in tracked
      PROVE  /\ x # Original(u) /\ x # Final(Original(u))
             /\ \A e : x # Request(u, e)
             /\ \A e : x = Proven(u, e) => t = u /\ d = e
  <2>1. ClientTx(u) /\ (t.hash = u.hash => t = u) /\ (u.hash = t.hash => u = t)
    BY <1>0, Tracked
  <2>2. x # Original(u) /\ x # Final(Original(u)) /\ \A e : x = Proven(u, e) => t = u /\ d = e
    BY <1>1, <2>1, Apart
  <2>3. \A e : x # Request(u, e)
    BY <1>1, <2>1, Apart
  <2> QED BY <2>2, <2>3
<1>10. Follows(c, P \cup {x}, b.txs, S)
  <2>1. ASSUME NEW i \in DOMAIN S
        PROVE  ~In(b.txs, S[i]) /\ Is(c, P \cup {x}, b.txs \o S, Len(b.txs) + i)
    <3>1. (b.txs \o S)[Len(b.txs) + i] = x
      BY <1>3, <1>7, Joined
    <3>2. IsProven(c, P \cup {x}, x)
      BY DEF IsProven
    <3> QED BY <1>5, <1>7, <3>1, <3>2 DEF Is
  <2>2. Once(S)
    BY <1>7 DEF Once
  <2>3. ASSUME NEW u \in tracked, At(u) = c
        PROVE  Closed(c, n.txs, u)
    <3>1. /\ In(n.txs, Original(u)) <=> In(b.txs, Original(u))
          /\ In(n.txs, Final(Original(u))) <=> In(b.txs, Final(Original(u)))
      BY <1>8, <1>9
    <3>2. \A e : In(n.txs, Request(u, e)) <=> In(b.txs, Request(u, e))
      BY <1>8, <1>9
    <3>3. CASE u # t
      <4>1. \A e : In(n.txs, Proven(u, e)) <=> In(b.txs, Proven(u, e))
        BY <1>8, <1>9, <3>3
      <4> QED BY <1>3, <2>3, <3>1, <3>2, <4>1, ClosedKept
    <3>4. CASE u = t
      <4>1. \A e \in Asked(t) : In(n.txs, Request(t, e)) <=> In(n.txs, Original(t))
        BY <1>3, <2>3, <3>1, <3>2, <3>4 DEF BlockSound, Closed
      <4>2. ASSUME \A o \in t.ins : o \in utxo[c] \/ In(n.txs, Proven(t, Owner(o)))
            PROVE  In(n.txs, Final(Original(t)))
        <5>1. ASSUME NEW o \in t.ins PROVE o \in utxo[c] \cup (b.added \cup Part(t, d))
          <6>1. CASE Owner(o) = c
            <7>1. t.hash \notin Done
              BY DEF IInv, Stages, Open
            <7>2. Held(t, o)
              BY <7>1 DEF IInv, Lower
            <7> QED BY <6>1, <7>2 DEF Held
          <6>2. CASE Owner(o) # c /\ In(n.txs, Proven(t, Owner(o)))
            <7>1. Owner(o) \in Asked(t) /\ o \in Part(t, Owner(o))
              BY <6>2 DEF Asked, Part
            <7>2. CASE In(b.txs, Proven(t, Owner(o)))
              BY <7>1, <7>2 DEF Good
            <7>3. CASE Proven(t, Owner(o)) = x
              <8>1. Owner(o) = d
                BY <1>9, <7>3
              <8> QED BY <7>1, <8>1
            <7> QED BY <1>8, <6>2, <7>2, <7>3
          <6> QED BY <4>2, <6>1, <6>2
        <5>2. PICK o \in t.ins : o \in b.spent
          BY <5>1 DEF Covered
        <5>3. PICK w \in tracked : /\ o \in w.ins
                                   /\ \/ In(b.txs, w) \/ In(b.txs, Final(Original(w)))
                                      \/ c \in Asked(w) /\ In(b.txs, Response(c, Request(w, c)))
          BY <5>2 DEF Good, SpentBy
        <5>4. w = t
          BY <1>0, <5>3, Tracked
        <5>5. c \notin Asked(t)
          BY DEF Asked
        <5>6. In(b.txs, Final(Original(t)))
          BY <1>5, <5>3, <5>4, <5>5
        <5> QED BY <1>8, <5>6
      <4> QED BY <3>4, <4>1, <4>2 DEF Closed
    <3> QED BY <3>3, <3>4
  <2> QED BY <1>6, <2>1, <2>2, <2>3 DEF Follows
<1>11. \A o \in Part(t, d) : AddedBy(n.txs, o)
  BY <1>8 DEF AddedBy
<1>12. \A u \in tracked : /\ ~In(S, Final(Original(u)))
                          /\ \A e \in Asked(u) : In(S, Proven(u, e)) => u = t /\ e = d
  BY <1>7, <1>9
<1>13. \A u \in tracked : \A e \in Asked(u) : In(S, Proven(u, e)) => Part(u, e) \subseteq Part(t, d)
  BY <1>12
<1>14. Adds(c, P \cup {x}, b, n, S, {}, Part(t, d), {})
  BY <1>6, <1>10, <1>11, <1>12, <1>13 DEF Adds
<1>15. P \subseteq P \cup {x}
  OBVIOUS
<1>16. Good(c, P \cup {x}, n)
  BY <1>6, <1>7, <1>14, <1>15, GoodGrown
<1> QED BY <1>6, <1>16 DEF n, WithResponse

\* The last response an original waits for brings its final transaction.
LEMMA GrowLast ==
  ASSUME IInv, NEW c \in Committees, NEW P \in SUBSET pool[c], NEW b \in BlockType, Good(c, P, b),
         NEW t \in tracked, At(t) = c, Original(t) \in originals[c], NEW d \in Asked(t),
         NEW x, x = Proven(t, d), x \in pool[c], x \notin P,
         Covered(c, b, t, d)
  PROVE  WithFinal(b, t, d) \in BlockType /\ Good(c, P \cup {x}, WithFinal(b, t, d))
<1> DEFINE n == [b EXCEPT !.txs = @ \o <<x, Final(Original(t))>>, !.spent = @ \cup t.ins,
                          !.added = (b.added \cup Part(t, d)) \cup t.outs]
<1>0. Clients
  BY DEF IInv
<1>1. ClientTx(t) /\ t \in TxType /\ t.ins \subseteq OutputSet /\ t.outs \subseteq OutputSet /\ t.ins # {}
  BY <1>0, Tracked, ClientFacts
<1>2. x \in TxType /\ Final(Original(t)) \in TxType /\ Part(t, d) \subseteq t.ins
  BY <1>1, PieceFacts
<1>3. b.txs \in Seq(TxType) /\ BlockSound(c, P, b.txs) /\ ~b.fatal
  BY DEF BlockType, Good
<1>4. \A u \in tracked : t.hash = u.hash => t = u
  BY <1>0, Tracked
<1>5. ~In(b.txs, x) /\ ~In(b.txs, Final(Original(t)))
  <2>1. ~In(b.txs, x)
    BY <1>0, <1>1, <1>3, <1>4, BlockMembers
  <2>2. In(b.txs, Final(Original(t))) => t.ins \subseteq b.spent
    BY DEF Good
  <2> QED BY <1>1, <2>1, <2>2 DEF Covered
<1> DEFINE S == <<x, Final(Original(t))>>
<1>6. /\ n \in BlockType /\ n.txs = b.txs \o S /\ n.spent = b.spent \cup t.ins
      /\ n.added = b.added \cup (Part(t, d) \cup t.outs) /\ n.tmp = b.tmp \cup {} /\ ~n.fatal
  <2>0. S \in Seq(TxType)
    BY <1>2
  <2> HIDE DEF S
  <2>1. n.txs = b.txs \o S
    BY DEF BlockType, S
  <2>2. n.spent = b.spent \cup t.ins
    BY DEF BlockType
  <2>3. n.added = b.added \cup (Part(t, d) \cup t.outs)
    BY DEF BlockType
  <2>4. n.tmp = b.tmp \cup {}
    BY DEF BlockType
  <2>5. ~n.fatal
    BY <1>3 DEF BlockType
  <2>6. n \in BlockType
    <3>1. b.txs \o S \in Seq(TxType)
      BY <1>3, <2>0, Joined
    <3>2. (b.added \cup Part(t, d)) \cup t.outs \in SUBSET OutputSet
      BY <1>1, <1>2 DEF BlockType
    <3>3. b.spent \cup t.ins \in SUBSET OutputSet /\ b.tmp \in SUBSET TxType
      BY <1>1 DEF BlockType
    <3> QED BY <3>1, <3>2, <3>3, BlockTyped DEF S
  <2> QED BY <2>1, <2>2, <2>3, <2>4, <2>5, <2>6
<1>7. /\ S \in Seq(TxType) /\ DOMAIN S = {1, 2} /\ S[1] = x /\ S[2] = Final(Original(t))
      /\ \A y : In(S, y) <=> y = x \/ y = Final(Original(t))
  <2>1. S \in Seq(TxType) /\ DOMAIN S = {1, 2} /\ S[1] = x /\ S[2] = Final(Original(t))
    BY <1>2
  <2> HIDE DEF S
  <2> QED BY <2>1 DEF In
<1> HIDE DEF n, S
<1>8. \A y : In(n.txs, y) <=> In(b.txs, y) \/ y = x \/ y = Final(Original(t))
  <2>1. \A y : In(b.txs \o S, y) <=> In(b.txs, y) \/ In(S, y)
    BY <1>3, <1>7, Joined
  <2>2. n.txs = b.txs \o S
    BY <1>6
  <2> QED BY <1>7, <2>1, <2>2, Zenon
<1>9. ASSUME NEW u \in tracked
      PROVE  /\ x # Original(u) /\ x # Final(Original(u))
             /\ \A e : x # Request(u, e)
             /\ \A e : x = Proven(u, e) => t = u /\ d = e
             /\ Final(Original(t)) # Original(u) /\ (Final(Original(t)) = Final(Original(u)) => t = u)
             /\ \A e : Final(Original(t)) # Request(u, e) /\ Final(Original(t)) # Proven(u, e)
  <2>1. ClientTx(u) /\ (t.hash = u.hash => t = u) /\ (u.hash = t.hash => u = t)
    BY <1>0, Tracked
  <2>2. x # Original(u) /\ x # Final(Original(u)) /\ \A e : x = Proven(u, e) => t = u /\ d = e
    BY <1>1, <2>1, Apart
  <2>3. \A e : x # Request(u, e)
    BY <1>1, <2>1, Apart
  <2>4. Final(Original(t)) = Final(Original(u)) => t = u
    BY <1>1, <2>1, Apart
  <2>5. /\ Final(Original(t)) # Original(u)
        /\ \A e : Final(Original(t)) # Request(u, e) /\ Final(Original(t)) # Proven(u, e)
    BY <1>1, <2>1, Apart
  <2> QED BY <2>2, <2>3, <2>4, <2>5
<1>10. x # Final(Original(t))
  BY <1>9
<1>11. \A o \in t.ins : o \in utxo[c] \/ Owner(o) = d \/ \E j \in DOMAIN b.txs : b.txs[j] = Proven(t, Owner(o))
  <2>1. SUFFICES ASSUME NEW o \in t.ins, o \in b.added
                 PROVE  \E j \in DOMAIN b.txs : b.txs[j] = Proven(t, Owner(o))
    BY DEF Part, Covered
  <2>2. PICK u \in tracked : \/ o \in u.outs /\ (In(b.txs, u) \/ In(b.txs, Final(Original(u))))
                             \/ \E e \in Asked(u) : o \in Part(u, e) /\ In(b.txs, Proven(u, e))
    BY <2>1 DEF Good, AddedBy
  <2>3. ASSUME o \in u.outs, In(b.txs, u) \/ In(b.txs, Final(Original(u)))
        PROVE  FALSE
    <3>1. o \in Created(settled)
      BY <1>0, <2>1, Tracked
    <3>2. u.hash \in Done
      BY <1>0, <2>3, <3>1, CreatedBy DEF Done
    <3>3. ClientTx(u) /\ \A w \in tracked : u.hash = w.hash => u = w
      BY <1>0, Tracked
    <3>4. \/ At(u) = c /\ u \in P
          \/ At(u) = c /\ Original(u) \in originals[c]
      BY <1>0, <1>3, <2>3, <3>3, BlockMembers
    <3>5. u.hash \notin Done
      <4>1. CASE At(u) = c /\ u \in P
        BY <4>1, PoolFacts
      <4>2. CASE At(u) = c /\ Original(u) \in originals[c]
        BY <4>2 DEF IInv, Stages, Open
      <4> QED BY <3>4, <4>1, <4>2
    <3> QED BY <3>2, <3>5
  <2>4. PICK e \in Asked(u) : o \in Part(u, e) /\ In(b.txs, Proven(u, e))
    BY <2>2, <2>3
  <2>5. o \in u.ins /\ e = Owner(o)
    BY <2>4 DEF Part
  <2>6. u = t
    BY <1>0, <2>5, Tracked
  <2> QED BY <2>4, <2>5, <2>6 DEF In
<1>12. Follows(c, P \cup {x}, b.txs, S)
  <2>0. (b.txs \o S)[Len(b.txs) + 1] = x /\ (b.txs \o S)[Len(b.txs) + 2] = Final(Original(t))
    <3>1. \A i \in DOMAIN S : (b.txs \o S)[Len(b.txs) + i] = S[i]
      <4>1. \A A, B \in Seq(TxType) : \A i \in DOMAIN B : (A \o B)[Len(A) + i] = B[i]
        BY Joined
      <4> QED BY <1>3, <1>7, <4>1
    <3>2. 1 \in DOMAIN S /\ 2 \in DOMAIN S
      BY <1>7
    <3> QED BY <1>7, <3>1, <3>2, Zenon
  <2>1. ~In(b.txs, S[1]) /\ Is(c, P \cup {x}, b.txs \o S, Len(b.txs) + 1)
    <3>1. IsProven(c, P \cup {x}, x)
      BY DEF IsProven
    <3> QED BY <1>5, <1>7, <2>0, <3>1 DEF Is
  <2>2. ~In(b.txs, S[2]) /\ Is(c, P \cup {x}, b.txs \o S, Len(b.txs) + 2)
    <3> DEFINE A == b.txs \o S
               N == Len(b.txs)
    <3>1. N \in Nat /\ DOMAIN b.txs = 1..N
      BY <1>3
    <3>2. \A j \in 1..N : A[j] = b.txs[j]
      BY <1>3, <1>7, <3>1, Joined
    <3>3. A[N + 1] = Proven(t, d) /\ A[N + 2] = Final(Original(t))
      BY <2>0
    <3>4. \A o \in t.ins : o \in utxo[c] \/ Owner(o) = d \/ \E j \in 1..N : b.txs[j] = Proven(t, Owner(o))
      BY <1>11, <3>1
    <3> HIDE DEF A, N
    <3>5. N + 1 \in 1..((N + 2) - 1) /\ \A j \in 1..N : j \in 1..((N + 2) - 1)
      BY <3>1
    <3>6. \A o \in t.ins : o \in utxo[c] \/ \E j \in 1..((N + 2) - 1) : A[j] = Proven(t, Owner(o))
      BY <3>2, <3>3, <3>4, <3>5, Zenon
    <3>7. IsFinal(c, A, N + 2)
      BY <3>3, <3>6, Zenon DEF IsFinal
    <3> QED BY <1>5, <1>7, <3>7 DEF Is, A, N
  <2>3. Once(S)
    BY <1>7, <1>10 DEF Once
  <2>4. ASSUME NEW u \in tracked, At(u) = c
        PROVE  Closed(c, n.txs, u)
    <3>1. In(n.txs, Original(u)) <=> In(b.txs, Original(u))
      BY <1>8, <1>9
    <3>2. \A e : In(n.txs, Request(u, e)) <=> In(b.txs, Request(u, e))
      BY <1>8, <1>9
    <3>3. CASE u # t
      <4>1. \A e : In(n.txs, Proven(u, e)) <=> In(b.txs, Proven(u, e))
        BY <1>8, <1>9, <3>3
      <4>2. In(n.txs, Final(Original(u))) <=> In(b.txs, Final(Original(u)))
        BY <1>8, <1>9, <3>3
      <4> QED BY <1>3, <2>4, <3>1, <3>2, <4>1, <4>2, ClosedKept
    <3>4. CASE u = t
      <4>1. \A e \in Asked(t) : In(n.txs, Request(t, e)) <=> In(n.txs, Original(t))
        BY <1>3, <2>4, <3>1, <3>2, <3>4 DEF BlockSound, Closed
      <4>2. In(n.txs, Final(Original(t)))
        BY <1>8
      <4> QED BY <3>4, <4>1, <4>2 DEF Closed
    <3> QED BY <3>3, <3>4
  <2> QED BY <1>6, <1>7, <2>1, <2>2, <2>3, <2>4 DEF Follows
<1>13. \A o \in t.ins : SpentBy(c, n.txs, o)
  BY <1>8 DEF SpentBy
<1>14. \A o \in Part(t, d) \cup t.outs : AddedBy(n.txs, o)
  BY <1>8 DEF AddedBy
<1>15. \A u \in tracked : /\ In(S, Final(Original(u))) => u = t
                          /\ \A e \in Asked(u) : In(S, Proven(u, e)) => u = t /\ e = d
  BY <1>7, <1>9
<1>16. /\ \A u \in tracked : In(S, Final(Original(u))) => u.ins \subseteq t.ins
       /\ \A u \in tracked : \A e \in Asked(u) :
            In(S, Proven(u, e)) => Part(u, e) \subseteq Part(t, d) \cup t.outs
  BY <1>15
<1>17. Adds(c, P \cup {x}, b, n, S, t.ins, Part(t, d) \cup t.outs, {})
  BY <1>6, <1>12, <1>13, <1>14, <1>16 DEF Adds
<1>18. P \subseteq P \cup {x}
  OBVIOUS
<1>19. Good(c, P \cup {x}, n)
  BY <1>6, <1>7, <1>17, <1>18, GoodGrown
<1> QED BY <1>6, <1>19 DEF n, WithFinal

\* The one original of t that is known.
LEMMA KnownOriginal ==
  ASSUME IInv, NEW c \in Committees, NEW P \in SUBSET pool[c], NEW b \in BlockType, Good(c, P, b),
         NEW t \in tracked, NEW o \in originals[c] \cup b.tmp, o.orig = t.hash
  PROVE  o = Original(t) /\ (o \in originals[c] \/ t \in P)
<1>0. Clients
  BY DEF IInv
<1>1. PICK u \in tracked : o = Original(u) /\ (o \in originals[c] \/ u \in P)
  BY DEF IInv, Shapes, Good
<1>2. ClientTx(u) /\ u \in TxType
  BY <1>0, Tracked, ClientFacts
<1>3. o.orig = u.hash
  BY <1>1, <1>2, PieceFields
<1>4. u = t
  BY <1>0, <1>3, Tracked
<1> QED BY <1>1, <1>4

\* A response: without its original it is late, and the leader dies.
LEMMA GrowResponse ==
  ASSUME IInv, NEW c \in Committees, NEW P \in SUBSET pool[c], NEW b \in BlockType, Good(c, P, b),
         NEW t \in tracked, At(t) = c, NEW d \in Asked(t), NEW x, x = Proven(t, d), x \in pool[c], x \notin P
  PROVE  LET n == processTransaction(c, b, x)
         IN  /\ n \in BlockType
             /\ Good(c, P \cup {x}, n) \/ (n.fatal /\ \E m \in late : m.to = c)
<1>0. Clients
  BY DEF IInv
<1>1. ClientTx(t) /\ t \in TxType /\ t.hash # Nil
  BY <1>0, Tracked, ClientFacts
<1>2. /\ x.hash = CrossHash(t.hash, d) /\ x.orig = t.hash /\ x.ins = Part(t, d)
      /\ x.outs = Part(t, d) /\ x.poc
  BY <1>1, PieceFields
<1>3. x.hash # Nil
  BY <1>2, HashFacts
<1>4. ~b.fatal
  BY DEF Good
<1>5. processTransaction(c, b, x) = proccessCrossTxResponse(c, b, x)
  BY <1>1, <1>2, <1>3, <1>4 DEF processTransaction
<1>6. Original(t).ins = t.ins /\ Original(t).outs = t.outs /\ Original(t).orig = t.hash
  BY <1>1, PieceFields
<1> DEFINE known == {o \in originals[c] \cup b.tmp : o.orig = x.orig}
           y == CHOOSE o \in known : TRUE
           covered == /\ y.ins \subseteq utxo[c] \cup (b.added \cup x.outs)
                      /\ y.ins \cap b.spent = {}
<1>7. CASE Original(t) \in originals[c]
  <2>1. known = {Original(t)}
    <3>1. \A o \in originals[c] \cup b.tmp : o.orig = t.hash => o = Original(t)
      BY KnownOriginal
    <3> QED BY <1>2, <1>6, <1>7, <3>1
  <2>2. y = Original(t)
    <3> HIDE DEF known
    <3> QED BY <2>1
  <2>3. /\ ~covered => processTransaction(c, b, x) =
                        [b EXCEPT !.txs = Append(@, x), !.added = b.added \cup x.outs]
        /\ covered => processTransaction(c, b, x) =
                       [b EXCEPT !.txs = @ \o <<x, Final(y)>>, !.spent = @ \cup y.ins,
                                 !.added = (b.added \cup x.outs) \cup y.outs]
    <3>1. known # {} /\ x.poc
      BY <1>2, <2>1
    <3> QED BY <1>5, <3>1 DEF proccessCrossTxResponse
  <2> HIDE DEF known, y
  <2>4. covered <=> Covered(c, b, t, d)
    BY <1>2, <1>6, <2>2 DEF Covered
  <2> HIDE DEF covered
  <2>5. CASE ~Covered(c, b, t, d)
    <3>1. processTransaction(c, b, x) = [b EXCEPT !.txs = Append(@, x), !.added = b.added \cup x.outs]
      BY <2>3, <2>4, <2>5
    <3>2. processTransaction(c, b, x) = WithResponse(b, t, d)
      BY <1>2, <3>1, Zenon DEF WithResponse
    <3> QED BY <1>7, <2>5, <3>2, GrowEarly
  <2>6. CASE Covered(c, b, t, d)
    <3>1. processTransaction(c, b, x) =
            [b EXCEPT !.txs = @ \o <<x, Final(y)>>, !.spent = @ \cup y.ins,
                      !.added = (b.added \cup x.outs) \cup y.outs]
      BY <2>3, <2>4, <2>6
    <3>2. processTransaction(c, b, x) = WithFinal(b, t, d)
      BY <1>2, <1>6, <2>2, <3>1, Zenon DEF WithFinal
    <3> QED BY <1>7, <2>6, <3>2, GrowLast
  <2> QED BY <2>5, <2>6
<1>8. CASE Original(t) \notin originals[c]
  <2>1. Answer(t, d) \in late /\ t \notin pool[c]
    BY <1>8, PoolFacts
  <2>2. known = {}
    BY <1>2, <1>8, <2>1, KnownOriginal
  <2>3. processTransaction(c, b, x) = Fatal(b)
    BY <1>2, <1>5, <2>2 DEF proccessCrossTxResponse
  <2>4. Fatal(b) \in BlockType /\ Fatal(b).fatal
    BY DEF BlockType, Fatal
  <2>5. Answer(t, d).to = c
    BY DEF Answer
  <2> QED BY <2>1, <2>3, <2>4, <2>5
<1> QED BY <1>7, <1>8

\* Whatever comes next out of the pool.
LEMMA GrowAny ==
  ASSUME IInv, NEW c \in Committees, NEW P \in SUBSET pool[c], NEW b \in BlockType, Good(c, P, b),
         NEW x \in pool[c], x \notin P
  PROVE  LET n == processTransaction(c, b, x)
         IN  /\ n \in BlockType
             /\ Good(c, P \cup {x}, n) \/ (n.fatal /\ \E m \in late : m.to = c)
<1>1. PICK t \in tracked : \/ c = At(t) /\ x = t
                           \/ \E d \in Asked(t) : \/ c = d /\ x = Request(t, d)
                                                  \/ c = At(t) /\ x = Proven(t, d)
  BY DEF IInv, Shapes, IsPiece
<1>2. CASE c = At(t) /\ x = t /\ Asked(t) = {}
  BY <1>2, GrowNormal
<1>3. CASE c = At(t) /\ x = t /\ Asked(t) # {}
  BY <1>3, GrowCross
<1>4. CASE c \in Asked(t) /\ x = Request(t, c)
  BY <1>4, GrowRequest
<1>5. ASSUME NEW d \in Asked(t), c = At(t), x = Proven(t, d)
      PROVE  LET n == processTransaction(c, b, x)
             IN  /\ n \in BlockType
                 /\ Good(c, P \cup {x}, n) \/ (n.fatal /\ \E m \in late : m.to = c)
  BY <1>5, GrowResponse
<1> QED BY <1>1, <1>2, <1>3, <1>4, <1>5

-----------------------------------------------------------------------------
\* What a leader takes from its pool: some transactions of it, each once.
LEMMA BatchFacts ==
  ASSUME Types, NEW c \in Committees, NEW txes \in Batches(pool[c])
  PROVE  /\ txes \in Seq(TxType) /\ \A i \in DOMAIN txes : txes[i] \in pool[c]
         /\ \A i, j \in DOMAIN txes : i # j => txes[i] # txes[j]
<1> DEFINE size == IF Cardinality(pool[c]) < BlockSize THEN Cardinality(pool[c]) ELSE BlockSize
<1>1. pool[c] \subseteq TxType /\ IsFiniteSet(pool[c])
  BY DEF Types
<1>2. PICK S \in kSubset(size, pool[c]) : txes \in SetToSeqs(S)
  BY DEF Batches
<1>3. S \subseteq pool[c]
  BY DEF kSubset
<1>4. Cardinality(S) \in Nat
  BY <1>1, <1>3, FS_Subset, FS_CardinalityType
<1> DEFINE N == Cardinality(S)
<1>5. txes \in [1..N -> S] /\ \A i, j \in 1..N : i # j => txes[i] # txes[j]
  BY <1>2 DEF SetToSeqs
<1> HIDE DEF N
<1>6. N \in Nat
  BY <1>4 DEF N
<1>7. txes \in [1..N -> TxType]
  BY <1>1, <1>3, <1>5
<1> QED BY <1>3, <1>5, <1>6, <1>7

\* Less of the pool is enough for a sound block.
LEMMA SoundMore ==
  ASSUME NEW c, NEW P, NEW Q, P \subseteq Q, NEW B \in Seq(TxType), BlockSound(c, P, B)
  PROVE  BlockSound(c, Q, B)
<1> DEFINE S == <<>>
<1>1. S \in Seq(TxType) /\ B \o S = B /\ DOMAIN S = {}
  OBVIOUS
<1> HIDE DEF S
<1>2. Once(S)
  BY <1>1 DEF Once
<1>3. \A t \in tracked : At(t) = c => Closed(c, B, t)
  BY DEF BlockSound
<1>4. Follows(c, Q, B, S)
  BY <1>1, <1>2, <1>3 DEF Follows
<1>5. BlockSound(c, Q, B \o S)
  BY <1>1, <1>4, SoundGrown
<1> QED BY <1>1, <1>5

\* The leader's block is sound, or a response that came twice killed the leader.
LEMMA MadeSound ==
  ASSUME IInv, NEW c \in Committees, NEW txes \in Batches(pool[c]),
         NEW b, b = processTransactions(c, txes)
  PROVE  /\ b \in BlockType
         /\ ~b.fatal => BlockSound(c, pool[c], b.txs)
         /\ b.fatal => \E m \in late : m.to = c
<1> DEFINE N == Len(txes)
           P(i) == {txes[k] : k \in 1..i}
<1>1. /\ txes \in Seq(TxType) /\ \A i \in 1..N : txes[i] \in pool[c]
      /\ \A i, j \in 1..N : i # j => txes[i] # txes[j]
  BY BatchFacts DEF IInv
<1>2. N \in Nat
  BY <1>1
<1>3. PICK w : /\ w[0] = EmptyBlock /\ w[N] = b
               /\ \A i \in 1..N : w[i] = processTransaction(c, w[i - 1], txes[i])
  BY <1>1, BlockMade
<1> HIDE DEF N
<1> DEFINE Fine(i) == /\ w[i] \in BlockType
                      /\ Good(c, P(i), w[i]) \/ (w[i].fatal /\ \E m \in late : m.to = c)
           S == {i \in 0..N : Fine(i)}
<1>4. Fine(0)
  <2>1. EmptyBlock \in BlockType
    BY DEF EmptyBlock, BlockType
  <2>2. /\ EmptyBlock.txs = <<>> /\ ~EmptyBlock.fatal
        /\ EmptyBlock.spent = {} /\ EmptyBlock.added = {} /\ EmptyBlock.tmp = {}
    BY DEF EmptyBlock
  <2>3. \A x : ~In(<<>>, x)
    BY DEF In
  <2>4. \A t \in tracked : Closed(c, <<>>, t)
    BY <2>3 DEF Closed
  <2>5. BlockSound(c, P(0), <<>>)
    BY <2>4 DEF BlockSound, Once
  <2>6. Good(c, P(0), EmptyBlock)
    BY <2>2, <2>3, <2>5 DEF Good
  <2> QED BY <1>3, <2>1, <2>6
<1>5. ASSUME NEW i \in 0..(N - 1), Fine(i)
      PROVE  Fine(i + 1)
  <2>1. /\ i \in 0..N /\ i + 1 \in 1..N /\ (i + 1) - 1 = i /\ i \in Nat
        /\ \A k \in 1..i : k \in 1..N /\ k # i + 1
    BY <1>2
  <2>2. w[i + 1] = processTransaction(c, w[i], txes[i + 1])
    BY <1>3, <2>1
  <2>3. CASE Good(c, P(i), w[i])
    <3>1. P(i) \in SUBSET pool[c] /\ txes[i + 1] \in pool[c] /\ txes[i + 1] \notin P(i)
      BY <1>1, <2>1
    <3>2. P(i) \cup {txes[i + 1]} = P(i + 1)
      <4>1. \A k : k \in 1..(i + 1) <=> k \in 1..i \/ k = i + 1
        BY <2>1
      <4> QED BY <4>1
    <3> HIDE DEF P
    <3>3. /\ w[i + 1] \in BlockType
          /\ Good(c, P(i) \cup {txes[i + 1]}, w[i + 1]) \/ (w[i + 1].fatal /\ \E m \in late : m.to = c)
      <4>1. PICK Q, x, v : Q = P(i) /\ x = txes[i + 1] /\ v = w[i]
        OBVIOUS
      <4>2. /\ Q \in SUBSET pool[c] /\ x \in pool[c] /\ x \notin Q
            /\ v \in BlockType /\ Good(c, Q, v)
        BY <1>5, <2>3, <3>1, <4>1
      <4>3. /\ processTransaction(c, v, x) \in BlockType
            /\ \/ Good(c, Q \cup {x}, processTransaction(c, v, x))
               \/ processTransaction(c, v, x).fatal /\ \E m \in late : m.to = c
        BY <4>2, GrowAny
      <4>4. processTransaction(c, v, x) = w[i + 1]
        BY <2>2, <4>1
      <4> QED BY <4>1, <4>3, <4>4
    <3> QED BY <3>2, <3>3
  <2>4. CASE w[i].fatal /\ \E m \in late : m.to = c
    <3>1. w[i + 1] = w[i]
      BY <2>2, <2>4 DEF processTransaction
    <3> QED BY <1>5, <2>4, <3>1
  <2> QED BY <1>5, <2>3, <2>4
<1>6. 0 \in S /\ \A i \in 0..(N - 1) : i \in S => i + 1 \in S
  <2> HIDE DEF Fine
  <2>1. \A i \in 0..(N - 1) : i + 1 \in 0..N
    BY <1>2
  <2> QED BY <1>2, <1>4, <1>5, <2>1
<1>7. N \in S
  <2> HIDE DEF S
  <2>1. \A i \in 0..N : i \in S
    BY <1>2, <1>6, UpTo
  <2> QED BY <1>2, <2>1
<1>8. b \in BlockType /\ (Good(c, P(N), b) \/ (b.fatal /\ \E m \in late : m.to = c))
  BY <1>3, <1>7
<1>9. P(N) \subseteq pool[c]
  BY <1>1
<1> HIDE DEF P
<1>10. b.txs \in Seq(TxType)
  BY <1>8 DEF BlockType
<1>11. Good(c, P(N), b) => ~b.fatal /\ BlockSound(c, pool[c], b.txs)
  BY <1>9, <1>10, SoundMore DEF Good
<1> QED BY <1>8, <1>11

\* A block is proposed.
LEMMA ProposeKeeps ==
  ASSUME IInv, NEW c \in Committees, NEW txes \in Batches(pool[c]), Propose(c, txes)
  PROVE  IInv'
<1>0. Types /\ Clients /\ Shapes /\ Reported /\ Stages /\ Lower /\ Upper /\ Proposals /\ DiesOnlyByLateResponse
  BY DEF IInv
<1> DEFINE b == processTransactions(c, txes)
<1>1. /\ b \in BlockType
      /\ ~b.fatal => BlockSound(c, pool[c], b.txs)
      /\ b.fatal => \E m \in late : m.to = c
  BY MadeSound
<1>2. /\ wallet' = wallet /\ tracked' = tracked /\ settled' = settled /\ net' = net /\ pool' = pool
      /\ utxo' = utxo /\ originals' = originals /\ reports' = reports /\ late' = late
  BY DEF Propose
<1>3. /\ b.fatal => dead' = dead \cup {c} /\ proposed' = proposed
      /\ ~b.fatal => proposed' = [proposed EXCEPT ![c] = b.txs] /\ dead' = dead
  BY DEF Propose
<1> HIDE DEF b
<1>4. \A u, d : OnWay(d, u)' <=> OnWay(d, u)
  BY <1>2 DEF OnWay
<1>5. Done' = Done /\ Lately' = Lately
  BY <1>2 DEF Done, Finishing, Lately
<1>6. Stages' /\ Lower' /\ Upper'
  BY <1>0, <1>2, <1>4, <1>5, Steady
<1>7. b.txs \in Seq(TxType)
  BY <1>1 DEF BlockType
<1>8. Types'
  <2>1. proposed' \in [Committees -> Seq(TxType)]
    BY <1>0, <1>3, <1>7 DEF Types
  <2> QED BY <1>0, <1>2, <2>1 DEF Types
<1>9. Clients'
  BY <1>0, <1>2 DEF Clients, Created, Taken
<1>10. Shapes'
  <2>1. \A d, u : IsPiece(d, u)' <=> IsPiece(d, u)
    BY <1>2 DEF IsPiece
  <2>2. \A t, d : (Waiting(t)' <=> Waiting(t)) /\ (Requested(t, d)' <=> Requested(t, d))
    BY <1>4 DEF Waiting, Requested
  <2> QED BY <1>0, <1>2, <2>1, <2>2 DEF Shapes
<1>11. Reported'
  BY <1>0, <1>2 DEF Reported, Finished, Requests, Sent
<1>12. Proposals'
  <2>1. ASSUME NEW d \in Committees
        PROVE  BlockSound(d, pool[d], proposed[d])'
    <3>1. \A B : BlockSound(d, pool[d], B) => BlockSound(d, pool[d], B)'
      BY <1>2, BlockKept
    <3>2. BlockSound(d, pool[d], proposed'[d])
      <4>1. CASE d = c /\ ~b.fatal
        <5>1. proposed'[d] = b.txs
          BY <1>0, <1>3, <4>1 DEF Types
        <5> QED BY <1>1, <4>1, <5>1
      <4>2. CASE d # c \/ b.fatal
        <5>1. proposed'[d] = proposed[d]
          BY <1>0, <1>3, <4>2 DEF Types
        <5> QED BY <1>0, <5>1 DEF Proposals
      <4> QED BY <4>1, <4>2
    <3> QED BY <3>1, <3>2
  <2> QED BY <2>1 DEF Proposals
<1>13. DiesOnlyByLateResponse'
  <2>1. dead \subseteq {m.to : m \in late}
    BY <1>0 DEF DiesOnlyByLateResponse
  <2>2. b.fatal => c \in {m.to : m \in late}
    BY <1>1
  <2> QED BY <1>2, <1>3, <2>1, <2>2 DEF DiesOnlyByLateResponse
<1> QED BY <1>6, <1>8, <1>9, <1>10, <1>11, <1>12, <1>13 DEF IInv

-----------------------------------------------------------------------------
\* A ledger, and what transaction x takes out of it and puts in.
LedgerType == [utxo : SUBSET OutputSet, originals : SUBSET TxType, fatal : BOOLEAN]

Lose(c, x) ==
  IF whatAmI(c, x) \in {"normal", "finaltransaction", "crosstxresponse_C_in"} THEN x.ins ELSE {}

Gain(c, x) ==
  IF whatAmI(c, x) \in {"normal", "finaltransaction", "crosstxresponse_C_out"} THEN x.outs ELSE {}

\* The originals of ledger l after transaction x.
Brought(c, l, x) ==
  IF whatAmI(c, x) = "originaltx" THEN Forget(l, x.orig) \cup {x}
  ELSE IF whatAmI(c, x) = "finaltransaction" THEN Forget(l, x.orig) ELSE l.originals

\* What forceProcessBlock does to a ledger.
LEMMA ForceFacts ==
  ASSUME NEW c, NEW l \in LedgerType, NEW x \in TxType,
         whatAmI(c, x) \in {"normal", "crosstx", "originaltx", "crosstxresponse_C_in",
                            "crosstxresponse_C_out", "finaltransaction"}
  PROVE  /\ ForceApply(c, l, x) \in LedgerType
         /\ ForceApply(c, l, x).fatal = l.fatal
         /\ ForceApply(c, l, x).utxo = (l.utxo \ Lose(c, x)) \cup Gain(c, x)
         /\ ForceApply(c, l, x).originals = Brought(c, l, x)
<1>1. x.ins \subseteq OutputSet /\ x.outs \subseteq OutputSet /\ Forget(l, x.orig) \subseteq TxType
  BY DEF TxType, LedgerType, Forget
<1>2. CASE whatAmI(c, x) = "normal"
  <2>1. ForceApply(c, l, x) = [l EXCEPT !.utxo = (@ \ x.ins) \cup x.outs]
    BY <1>2 DEF ForceApply
  <2>2. Lose(c, x) = x.ins /\ Gain(c, x) = x.outs /\ Brought(c, l, x) = l.originals
    BY <1>2 DEF Lose, Gain, Brought
  <2> QED BY <1>1, <2>1, <2>2 DEF LedgerType
<1>3. CASE whatAmI(c, x) = "crosstx"
  <2>1. ForceApply(c, l, x) = l
    BY <1>3 DEF ForceApply
  <2>2. Lose(c, x) = {} /\ Gain(c, x) = {} /\ Brought(c, l, x) = l.originals
    BY <1>3 DEF Lose, Gain, Brought
  <2> QED BY <2>1, <2>2
<1>4. CASE whatAmI(c, x) = "originaltx"
  <2>1. ForceApply(c, l, x) = [l EXCEPT !.originals = Forget(l, x.orig) \cup {x}]
    BY <1>4 DEF ForceApply
  <2>2. Lose(c, x) = {} /\ Gain(c, x) = {} /\ Brought(c, l, x) = Forget(l, x.orig) \cup {x}
    BY <1>4 DEF Lose, Gain, Brought
  <2> QED BY <1>1, <2>1, <2>2 DEF LedgerType
<1>5. CASE whatAmI(c, x) = "crosstxresponse_C_in"
  <2>1. ForceApply(c, l, x) = [l EXCEPT !.utxo = @ \ x.ins]
    BY <1>5 DEF ForceApply
  <2>2. Lose(c, x) = x.ins /\ Gain(c, x) = {} /\ Brought(c, l, x) = l.originals
    BY <1>5 DEF Lose, Gain, Brought
  <2> QED BY <1>1, <2>1, <2>2 DEF LedgerType
<1>6. CASE whatAmI(c, x) = "crosstxresponse_C_out"
  <2>1. ForceApply(c, l, x) = [l EXCEPT !.utxo = @ \cup x.outs]
    BY <1>6 DEF ForceApply
  <2>2. Lose(c, x) = {} /\ Gain(c, x) = x.outs /\ Brought(c, l, x) = l.originals
    BY <1>6 DEF Lose, Gain, Brought
  <2> QED BY <1>1, <2>1, <2>2 DEF LedgerType
<1>7. CASE whatAmI(c, x) = "finaltransaction"
  <2>1. ForceApply(c, l, x) = [l EXCEPT !.utxo = (@ \ x.ins) \cup x.outs, !.originals = Forget(l, x.orig)]
    BY <1>7 DEF ForceApply
  <2>2. Lose(c, x) = x.ins /\ Gain(c, x) = x.outs /\ Brought(c, l, x) = Forget(l, x.orig)
    BY <1>7 DEF Lose, Gain, Brought
  <2>3. (l.utxo \ x.ins) \cup x.outs \subseteq OutputSet
    BY <1>1 DEF LedgerType
  <2>4. ForceApply(c, l, x) = [utxo |-> (l.utxo \ x.ins) \cup x.outs, originals |-> Forget(l, x.orig), fatal |-> l.fatal]
    BY <2>1 DEF LedgerType
  <2> QED BY <1>1, <2>2, <2>3, <2>4 DEF LedgerType
<1> QED BY <1>2, <1>3, <1>4, <1>5, <1>6, <1>7

\* What each transaction of a block takes and puts in.
LEMMA Effects ==
  ASSUME NEW t, ClientTx(t), NEW c
  PROVE  /\ Lose(c, t) = t.ins /\ Gain(c, t) = t.outs
         /\ Lose(c, Original(t)) = {} /\ Gain(c, Original(t)) = {}
         /\ c = At(t) => Lose(c, Final(Original(t))) = t.ins /\ Gain(c, Final(Original(t))) = t.outs
         /\ \A d \in Asked(t) :
              /\ Lose(c, Request(t, d)) = {} /\ Gain(c, Request(t, d)) = {}
              /\ c = d => /\ Lose(c, Response(d, Request(t, d))) = Part(t, d)
                          /\ Gain(c, Response(d, Request(t, d))) = {}
              /\ c = At(t) => Lose(c, Proven(t, d)) = {} /\ Gain(c, Proven(t, d)) = Part(t, d)
<1>1. t \in TxType
  BY ClientFacts
<1>2. Lose(c, t) = t.ins /\ Gain(c, t) = t.outs
  <2>1. whatAmI(c, t) = "normal"
    BY Whats
  <2> QED BY <2>1 DEF Lose, Gain
<1>3. Lose(c, Original(t)) = {} /\ Gain(c, Original(t)) = {}
  <2>1. whatAmI(c, Original(t)) = "originaltx"
    BY Whats
  <2> QED BY <2>1 DEF Lose, Gain
<1>4. ASSUME c = At(t)
      PROVE  Lose(c, Final(Original(t))) = t.ins /\ Gain(c, Final(Original(t))) = t.outs
  <2>1. whatAmI(c, Final(Original(t))) = "finaltransaction"
    BY <1>4, Whats
  <2>2. Final(Original(t)).ins = t.ins /\ Final(Original(t)).outs = t.outs
    BY <1>1, PieceFields
  <2> QED BY <2>1, <2>2 DEF Lose, Gain
<1>5. ASSUME NEW d \in Asked(t)
      PROVE  Lose(c, Request(t, d)) = {} /\ Gain(c, Request(t, d)) = {}
  <2>1. whatAmI(c, Request(t, d)) = "crosstx"
    BY Whats
  <2> QED BY <2>1 DEF Lose, Gain
<1>6. ASSUME NEW d \in Asked(t), c = d
      PROVE  Lose(c, Response(d, Request(t, d))) = Part(t, d) /\ Gain(c, Response(d, Request(t, d))) = {}
  <2>1. whatAmI(c, Response(d, Request(t, d))) = "crosstxresponse_C_in"
    BY <1>6, Whats
  <2>2. Response(d, Request(t, d)).ins = Part(t, d)
    BY <1>1, PieceFields
  <2> QED BY <2>1, <2>2 DEF Lose, Gain
<1>7. ASSUME NEW d \in Asked(t), c = At(t)
      PROVE  Lose(c, Proven(t, d)) = {} /\ Gain(c, Proven(t, d)) = Part(t, d)
  <2>1. whatAmI(c, Proven(t, d)) = "crosstxresponse_C_out"
    BY <1>7, Whats
  <2>2. Proven(t, d).outs = Part(t, d)
    BY <1>1, PieceFields
  <2> QED BY <2>1, <2>2 DEF Lose, Gain
<1> QED BY <1>2, <1>3, <1>4, <1>5, <1>6, <1>7

\* The outputs that late responses carry.
LEMMA LateFacts ==
  ASSUME IInv, NEW t \in tracked
  PROVE  /\ \A d \in Asked(t) : Answer(t, d) \in late => /\ ~Waiting(t) /\ ~Requested(t, d)
                                                         /\ Part(t, d) \subseteq Lately
         /\ \A o \in t.ins : o \in Lately => Owner(o) \in Asked(t) /\ Answer(t, Owner(o)) \in late
<1>0. Clients
  BY DEF IInv
<1>1. ClientTx(t) /\ t \in TxType /\ \A u \in tracked : ClientTx(u) /\ u \in TxType /\ (t.hash = u.hash => t = u)
  BY <1>0, Tracked, ClientFacts
<1>2. ASSUME NEW d \in Asked(t), Answer(t, d) \in late
      PROVE  ~Waiting(t) /\ ~Requested(t, d) /\ Part(t, d) \subseteq Lately
  <2>1. PICK u \in tracked : \E e \in Asked(u) : Answer(t, d) = Answer(u, e) /\ ~Waiting(u) /\ ~Requested(u, e)
    BY <1>2 DEF IInv, Shapes
  <2>2. PICK e \in Asked(u) : Answer(t, d) = Answer(u, e) /\ ~Waiting(u) /\ ~Requested(u, e)
    BY <2>1
  <2>3. Proven(t, d) = Proven(u, e)
    BY <2>2 DEF Answer
  <2>4. t = u /\ d = e
    BY <1>1, <2>3, Apart
  <2>5. Answer(t, d).tx.outs = Part(t, d)
    BY <1>1, PieceFields DEF Answer
  <2>6. Part(t, d) \subseteq Lately
    BY <1>2, <2>5 DEF Lately
  <2> QED BY <2>2, <2>4, <2>6
<1>3. ASSUME NEW o \in t.ins, o \in Lately
      PROVE  Owner(o) \in Asked(t) /\ Answer(t, Owner(o)) \in late
  <2>1. PICK m \in late : o \in m.tx.outs
    BY <1>3 DEF Lately
  <2>2. PICK u \in tracked : \E d \in Asked(u) : m = Answer(u, d)
    BY DEF IInv, Shapes
  <2>3. PICK d \in Asked(u) : m = Answer(u, d)
    BY <2>2
  <2>4. m.tx.outs = Part(u, d)
    BY <1>1, <2>3, PieceFields DEF Answer
  <2>5. o \in u.ins /\ Owner(o) = d
    BY <2>1, <2>4 DEF Part
  <2>6. u = t
    BY <1>0, <1>3, <2>5, Tracked
  <2> QED BY <2>1, <2>3, <2>5, <2>6
<1> QED BY <1>2, <1>3

\* An input of another committee is here when it has arrived, or is there again.
LEMMA Arrived ==
  ASSUME IInv, NEW t \in tracked, NEW d \in Asked(t), NEW o \in Part(t, d), o \in utxo[At(t)]
  PROVE  \/ Answer(t, d) \in late
         \/ Open(t) /\ ~Requested(t, d) /\ ~Answered(t, d)
<1>0. Clients
  BY DEF IInv
<1>1. At(t) \in Committees /\ o \in t.ins /\ Owner(o) = d /\ d # At(t)
  BY <1>0, Tracked, ClientFacts DEF Part, Asked
<1>2. o \in Lately \/ Placed(At(t), o)
  BY <1>1 DEF IInv, Upper
<1>3. CASE o \in Lately
  BY <1>1, <1>3, LateFacts
<1>4. CASE Placed(At(t), o)
  <2>1. o \in Taken
    BY <1>1 DEF Taken
  <2>2. PICK u \in tracked :
          /\ o \in u.ins
          /\ \/ At(t) = Owner(o)
             \/ At(t) = At(u) /\ Open(u) /\ ~Requested(u, Owner(o)) /\ ~Answered(u, Owner(o))
    BY <1>4, <2>1 DEF Placed
  <2>3. u = t
    BY <1>0, <1>1, <2>2, Tracked
  <2> QED BY <1>1, <2>2, <2>3
<1> QED BY <1>2, <1>3, <1>4

\* What block B of committee c says of transaction t, and where that was.
BlockSays(c, B, t) ==
  /\ In(B, t) \/ In(B, Original(t)) =>
       /\ At(t) = c /\ t \in pool[c] /\ Waiting(t) /\ ~Open(t) /\ t.hash \notin Done
       /\ \A d \in Asked(t) : ~Requested(t, d) /\ ~Answered(t, d)
  /\ In(B, t) => Asked(t) = {}
  /\ In(B, Original(t)) => Asked(t) # {}
  /\ In(B, Final(Original(t))) =>
       /\ At(t) = c /\ Asked(t) # {} /\ Open(t) /\ ~Waiting(t) /\ t.hash \notin Done
       /\ \A o \in t.ins : o \in utxo[c] \/ In(B, Proven(t, Owner(o)))
  /\ \A d \in Asked(t) :
       /\ In(B, Request(t, d)) <=> In(B, Original(t))
       /\ In(B, Response(d, Request(t, d))) =>
            /\ d = c /\ At(t) # c /\ Request(t, c) \in pool[c] /\ Requested(t, c) /\ ~Answered(t, c)
            /\ Open(t) /\ ~Waiting(t) /\ t.hash \notin Done
       /\ In(B, Proven(t, d)) =>
            /\ At(t) = c /\ Proven(t, d) \in pool[c] /\ Answered(t, d) /\ ~Requested(t, d)
            /\ Open(t) /\ ~Waiting(t) /\ t.hash \notin Done

\* A sound block says so of each transaction.
LEMMA BlockTold ==
  ASSUME IInv, NEW c \in Committees, NEW B \in Seq(TxType), BlockSound(c, pool[c], B), NEW t \in tracked
  PROVE  BlockSays(c, B, t)
<1>0. Clients /\ Stages
  BY DEF IInv
<1>1. ClientTx(t) /\ \A u \in tracked : ClientTx(u) /\ (t.hash = u.hash => t = u)
  BY <1>0, Tracked
<1>2. /\ In(B, t) => At(t) = c /\ Asked(t) = {} /\ t \in pool[c]
      /\ In(B, Original(t)) => At(t) = c /\ Asked(t) # {} /\ t \in pool[c]
      /\ In(B, Final(Original(t))) =>
           /\ At(t) = c /\ Original(t) \in originals[c]
           /\ \A o \in t.ins : o \in utxo[c] \/ In(B, Proven(t, Owner(o)))
      /\ \A d \in Asked(t) :
           /\ In(B, Request(t, d)) => At(t) = c
           /\ In(B, Response(d, Request(t, d))) => d = c /\ Request(t, c) \in pool[c]
           /\ In(B, Proven(t, d)) => /\ At(t) = c /\ Original(t) \in originals[c]
                                     /\ Proven(t, d) \in pool[c]
  BY <1>0, <1>1, BlockMembers
<1>3. ASSUME t \in pool[c], At(t) = c
      PROVE  /\ Waiting(t) /\ ~Open(t) /\ t.hash \notin Done
             /\ \A d \in Asked(t) : ~Requested(t, d) /\ ~Answered(t, d)
  <2>1. Waiting(t)
    BY <1>3 DEF Waiting, OnWay
  <2>2. ~Open(t) /\ t.hash \notin Done
    BY <1>0, <2>1 DEF Stages
  <2>3. ASSUME NEW d \in Asked(t)
        PROVE  ~Requested(t, d) /\ ~Answered(t, d)
    <3>1. Answer(t, d) \notin late
      BY <2>1, LateFacts
    <3> QED BY <1>0, <2>2, <3>1 DEF Stages
  <2> QED BY <2>1, <2>2, <2>3
<1>4. ASSUME Open(t) PROVE ~Waiting(t) /\ t.hash \notin Done
  BY <1>0, <1>4 DEF Stages
<1>5. ASSUME Original(t) \in originals[c], At(t) = c
      PROVE  Open(t) /\ Asked(t) # {}
  <2>1. PICK u \in tracked : Original(t) = Original(u) /\ Asked(u) # {}
    BY <1>5 DEF IInv, Shapes
  <2>2. t = u
    BY <1>1, <2>1, Apart
  <2> QED BY <1>5, <2>1, <2>2 DEF Open
<1>6. ASSUME NEW d \in Asked(t)
      PROVE  /\ In(B, Request(t, d)) <=> In(B, Original(t))
             /\ In(B, Response(d, Request(t, d))) =>
                  /\ d = c /\ At(t) # c /\ Request(t, c) \in pool[c] /\ Requested(t, c) /\ ~Answered(t, c)
                  /\ Open(t)
             /\ In(B, Proven(t, d)) =>
                  /\ At(t) = c /\ Proven(t, d) \in pool[c] /\ Answered(t, d) /\ ~Requested(t, d)
                  /\ Open(t)
  <2>1. In(B, Request(t, d)) <=> In(B, Original(t))
    <3>1. CASE At(t) = c
      BY <3>1 DEF BlockSound, Closed
    <3>2. CASE At(t) # c
      BY <1>2, <3>2
    <3> QED BY <3>1, <3>2
  <2>2. ASSUME In(B, Response(d, Request(t, d)))
        PROVE  /\ d = c /\ At(t) # c /\ Request(t, c) \in pool[c] /\ Requested(t, c) /\ ~Answered(t, c)
               /\ Open(t)
    <3>1. d = c /\ Request(t, c) \in pool[c]
      BY <1>2, <2>2
    <3>2. At(t) # c
      BY <3>1 DEF Asked
    <3>3. Requested(t, c)
      BY <3>1 DEF Requested, OnWay
    <3>4. Open(t) /\ ~Answered(t, c)
      BY <1>0, <3>1, <3>3 DEF Stages
    <3> QED BY <3>1, <3>2, <3>3, <3>4
  <2>3. ASSUME In(B, Proven(t, d))
        PROVE  /\ At(t) = c /\ Proven(t, d) \in pool[c] /\ Answered(t, d) /\ ~Requested(t, d)
               /\ Open(t)
    <3>1. At(t) = c /\ Original(t) \in originals[c] /\ Proven(t, d) \in pool[c]
      BY <1>2, <2>3
    <3>2. Answered(t, d)
      BY <3>1 DEF Answered, OnWay
    <3>3. ~Requested(t, d)
      BY <1>0, <3>2 DEF Stages
    <3> QED BY <1>5, <3>1, <3>2, <3>3
  <2> QED BY <2>1, <2>2, <2>3
<1>7. In(B, t) \/ In(B, Original(t)) =>
        /\ At(t) = c /\ t \in pool[c] /\ Waiting(t) /\ ~Open(t) /\ t.hash \notin Done
        /\ \A d \in Asked(t) : ~Requested(t, d) /\ ~Answered(t, d)
  BY <1>2, <1>3
<1>8. In(B, Final(Original(t))) =>
        /\ At(t) = c /\ Asked(t) # {} /\ Open(t)
        /\ \A o \in t.ins : o \in utxo[c] \/ In(B, Proven(t, Owner(o)))
  BY <1>2, <1>5
<1> QED BY <1>2, <1>4, <1>6, <1>7, <1>8 DEF BlockSays

\* The kinds of transactions a sound block has, and which they are.
LEMMA EntryKinds ==
  ASSUME Clients, NEW c, NEW P, NEW B \in Seq(TxType), BlockSound(c, P, B), NEW x, In(B, x)
  PROVE  /\ whatAmI(c, x) \in {"normal", "crosstx", "originaltx", "crosstxresponse_C_in",
                               "crosstxresponse_C_out", "finaltransaction"}
         /\ whatAmI(c, x) = "normal" => x \in tracked
         /\ whatAmI(c, x) = "originaltx" => \E t \in tracked : At(t) = c /\ Asked(t) # {} /\ x = Original(t)
         /\ whatAmI(c, x) = "finaltransaction" => \E t \in tracked : At(t) = c /\ x = Final(Original(t))
<1>1. PICK t \in tracked :
        \/ x = t
        \/ x = Original(t) /\ At(t) = c /\ Asked(t) # {}
        \/ x = Final(Original(t)) /\ At(t) = c
        \/ \E d \in Asked(t) : \/ x = Request(t, d)
                               \/ x = Response(d, Request(t, d)) /\ d = c
                               \/ x = Proven(t, d) /\ At(t) = c
  BY BlockEntries
<1>2. ClientTx(t)
  BY Tracked
<1>3. CASE x = t
  <2>1. whatAmI(c, x) = "normal"
    BY <1>2, <1>3, Whats
  <2> QED BY <1>3, <2>1
<1>4. CASE x = Original(t) /\ At(t) = c /\ Asked(t) # {}
  <2>1. whatAmI(c, x) = "originaltx"
    BY <1>2, <1>4, Whats
  <2> QED BY <1>4, <2>1
<1>5. CASE x = Final(Original(t)) /\ At(t) = c
  <2>1. whatAmI(c, x) = "finaltransaction"
    BY <1>2, <1>5, Whats
  <2> QED BY <1>5, <2>1
<1>6. ASSUME NEW d \in Asked(t), x = Request(t, d)
      PROVE  whatAmI(c, x) = "crosstx"
  BY <1>2, <1>6, Whats
<1>7. ASSUME NEW d \in Asked(t), x = Response(d, Request(t, d)), d = c
      PROVE  whatAmI(c, x) = "crosstxresponse_C_in"
  BY <1>2, <1>7, Whats
<1>8. ASSUME NEW d \in Asked(t), x = Proven(t, d), At(t) = c
      PROVE  whatAmI(c, x) = "crosstxresponse_C_out"
  BY <1>2, <1>8, Whats
<1>9. CASE \E d \in Asked(t) : \/ x = Request(t, d)
                               \/ x = Response(d, Request(t, d)) /\ d = c
                               \/ x = Proven(t, d) /\ At(t) = c
  <2>1. whatAmI(c, x) \in {"crosstx", "crosstxresponse_C_in", "crosstxresponse_C_out"}
    BY <1>6, <1>7, <1>8, <1>9
  <2> QED BY <2>1
<1> QED BY <1>1, <1>3, <1>4, <1>5, <1>9

\* Whose outputs a transaction of a sound block takes or puts in.
LEMMA TakenBy ==
  ASSUME Clients, NEW c, NEW P, NEW B \in Seq(TxType), BlockSound(c, P, B), NEW x, In(B, x), NEW o
  PROVE  /\ o \in Lose(c, x) => \E t \in tracked :
              /\ o \in t.ins
              /\ \/ x = t \/ x = Final(Original(t))
                 \/ c \in Asked(t) /\ Owner(o) = c /\ x = Response(c, Request(t, c))
         /\ o \in Gain(c, x) => \E t \in tracked :
              \/ o \in t.outs /\ (x = t \/ x = Final(Original(t)))
              \/ o \in t.ins /\ Owner(o) \in Asked(t) /\ x = Proven(t, Owner(o))
<1>1. PICK t \in tracked :
        \/ x = t
        \/ x = Original(t)
        \/ x = Final(Original(t)) /\ At(t) = c
        \/ \E d \in Asked(t) : \/ x = Request(t, d)
                               \/ x = Response(d, Request(t, d)) /\ d = c
                               \/ x = Proven(t, d) /\ At(t) = c
  BY BlockEntries
<1>2. ClientTx(t)
  BY Tracked
<1>3. CASE x = t
  <2>1. Lose(c, x) = t.ins /\ Gain(c, x) = t.outs
    BY <1>2, <1>3, Effects
  <2> QED BY <1>3, <2>1
<1>4. CASE x = Original(t)
  <2>1. Lose(c, x) = {} /\ Gain(c, x) = {}
    BY <1>2, <1>4, Effects
  <2> QED BY <2>1
<1>5. CASE x = Final(Original(t)) /\ At(t) = c
  <2>1. Lose(c, x) = t.ins /\ Gain(c, x) = t.outs
    BY <1>2, <1>5, Effects
  <2> QED BY <1>5, <2>1
<1>6. ASSUME NEW d \in Asked(t), x = Request(t, d)
      PROVE  o \notin Lose(c, x) /\ o \notin Gain(c, x)
  BY <1>2, <1>6, Effects
<1>7. ASSUME NEW d \in Asked(t), x = Response(d, Request(t, d)), d = c
      PROVE  /\ o \in Lose(c, x) => o \in t.ins /\ Owner(o) = c
             /\ o \notin Gain(c, x)
  <2>1. Lose(c, x) = Part(t, d) /\ Gain(c, x) = {}
    BY <1>2, <1>7, Effects
  <2> QED BY <1>7, <2>1 DEF Part
<1>8. ASSUME NEW d \in Asked(t), x = Proven(t, d), At(t) = c
      PROVE  /\ o \notin Lose(c, x)
             /\ o \in Gain(c, x) => o \in t.ins /\ Owner(o) = d
  <2>1. Lose(c, x) = {} /\ Gain(c, x) = Part(t, d)
    BY <1>2, <1>8, Effects
  <2> QED BY <2>1 DEF Part
<1>9. CASE \E d \in Asked(t) : \/ x = Request(t, d)
                               \/ x = Response(d, Request(t, d)) /\ d = c
                               \/ x = Proven(t, d) /\ At(t) = c
  BY <1>6, <1>7, <1>8, <1>9
<1> QED BY <1>1, <1>3, <1>4, <1>5, <1>9

\* The outputs of a transaction that a block finishes are new: nobody spends them.
LEMMA NewOutputs ==
  ASSUME IInv, NEW c, NEW B, NEW u \in tracked, BlockSays(c, B, u),
         In(B, u) \/ In(B, Final(Original(u))), NEW o \in u.outs
  PROVE  /\ o \notin Taken /\ o \in OutputSet /\ Owner(o) = c /\ At(u) = c
<1>0. Clients
  BY DEF IInv
<1>1. ClientTx(u) /\ u.outs \subseteq OutputSet /\ Owner(o) = At(u)
  BY <1>0, Tracked, ClientFacts
<1>2. u.hash \notin Done /\ At(u) = c
  BY DEF BlockSays
<1>3. ASSUME o \in Taken PROVE FALSE
  <2>1. PICK t \in tracked : o \in t.ins
    BY <1>3 DEF Taken
  <2>2. o \in Created(settled)
    BY <1>0, <2>1, Tracked
  <2>3. u.hash \in settled
    BY <1>0, <2>2, CreatedBy
  <2> QED BY <1>2, <2>3 DEF Done
<1> QED BY <1>1, <1>2, <1>3

\* The ledger of committee c after the first i transactions of block B.
Applied(c, B, i, v) ==
  /\ v \in LedgerType /\ v.fatal = FALSE
  /\ \A o \in v.utxo : o \in utxo[c] \/ \E j \in 1..i : o \in Gain(c, B[j])
  /\ \A o : (/\ o \in utxo[c] \/ \E j \in 1..i : o \in Gain(c, B[j])
             /\ \A k \in 1..i : o \notin Lose(c, B[k])) => o \in v.utxo
  /\ \A k \in 1..i : \A o \in v.utxo : o \in Lose(c, B[k]) => \E j \in k..i : o \in Gain(c, B[j])
  /\ \A t \in tracked : At(t) = c =>
       (Original(t) \in v.originals <=>
          \/ Open(t) /\ \A k \in 1..i : B[k] # Final(Original(t))
          \/ \E k \in 1..i : B[k] = Original(t))
  /\ \A x \in v.originals : \E t \in tracked : c = At(t) /\ x = Original(t) /\ Asked(t) # {}

\* A block that is sound brings the next transaction, whose inputs or original are there.
LEMMA NextIsThere ==
  ASSUME IInv, NEW c \in Committees, NEW B \in Seq(TxType), BlockSound(c, pool[c], B),
         NEW i \in Nat, i + 1 \in DOMAIN B, NEW v, Applied(c, B, i, v)
  PROVE  Apply(c, v, B[i + 1]) = ForceApply(c, v, B[i + 1])
<1>0. Clients
  BY DEF IInv
<1> DEFINE x == B[i + 1]
<1>1. In(B, x)
  BY DEF In
<1>2. \A k \in 1..i : k \in DOMAIN B /\ k # i + 1 /\ B[k] # x
  <2>1. DOMAIN B = 1..Len(B) /\ Len(B) \in Nat
    OBVIOUS
  <2>2. \A k \in 1..i : k \in DOMAIN B /\ k # i + 1
    BY <2>1
  <2> QED BY <2>2 DEF BlockSound, Once
<1>3. ASSUME NEW t \in tracked, x = t
      PROVE  t.ins \subseteq v.utxo
  <2>1. In(B, t) /\ BlockSays(c, B, t)
    BY <1>1, <1>3, BlockTold
  <2>2. At(t) = c /\ Asked(t) = {} /\ t \in pool[c] /\ ~Open(t)
    BY <2>1 DEF BlockSays
  <2>3. ASSUME NEW o \in t.ins
        PROVE  o \in v.utxo
    <3>1. Owner(o) = c
      BY <2>2 DEF Asked
    <3>2. o \in utxo[c]
      BY <2>2, <3>1, PoolFacts
    <3>3. ASSUME NEW k \in 1..i, o \in Lose(c, B[k])
          PROVE  FALSE
      <4>1. In(B, B[k])
        BY <1>2 DEF In
      <4>2. PICK u \in tracked : /\ o \in u.ins
                                 /\ \/ B[k] = u \/ B[k] = Final(Original(u))
                                    \/ c \in Asked(u)
        BY <1>0, <3>3, <4>1, TakenBy
      <4>3. u = t
        BY <1>0, <4>2, Tracked
      <4>4. B[k] = Final(Original(t))
        BY <1>2, <1>3, <2>2, <4>2, <4>3
      <4> QED BY <2>1, <2>2, <4>1, <4>4 DEF BlockSays
    <3> QED BY <3>2, <3>3 DEF Applied
  <2> QED BY <2>3
<1>4. ASSUME NEW t \in tracked, At(t) = c, x = Final(Original(t))
      PROVE  \E o \in v.originals : o.orig = x.orig /\ x.outs \subseteq o.outs
  <2>1. In(B, Final(Original(t))) /\ BlockSays(c, B, t)
    BY <1>1, <1>4, BlockTold
  <2>2. Open(t)
    BY <2>1 DEF BlockSays
  <2>3. Original(t) \in v.originals
    BY <1>2, <1>4, <2>2 DEF Applied
  <2>4. t \in TxType
    BY <1>0, Tracked, ClientFacts
  <2>5. Original(t).orig = x.orig /\ x.outs = Original(t).outs
    BY <1>4, <2>4, PieceFields
  <2> QED BY <2>3, <2>5
<1>5. /\ whatAmI(c, x) = "normal" => x \in tracked
      /\ whatAmI(c, x) = "finaltransaction" => \E t \in tracked : At(t) = c /\ x = Final(Original(t))
  BY <1>0, <1>1, EntryKinds
<1>6. /\ whatAmI(c, x) = "normal" => x.ins \subseteq v.utxo
      /\ whatAmI(c, x) = "finaltransaction" => \E o \in v.originals : o.orig = x.orig /\ x.outs \subseteq o.outs
  BY <1>3, <1>4, <1>5
<1>7. ~v.fatal
  BY DEF Applied
<1> HIDE DEF x
<1>8. Apply(c, v, x) = ForceApply(c, v, x)
  BY <1>6, <1>7 DEF Apply
<1> QED BY <1>8 DEF x

\* The originals of a ledger after the next transaction.
LEMMA OriginalsStep ==
  ASSUME IInv, NEW c \in Committees, NEW B \in Seq(TxType), BlockSound(c, pool[c], B),
         NEW i \in Nat, i + 1 \in DOMAIN B, NEW v, Applied(c, B, i, v),
         NEW t \in tracked, At(t) = c
  PROVE  Original(t) \in Brought(c, v, B[i + 1]) <=>
           \/ Open(t) /\ \A k \in 1..(i + 1) : B[k] # Final(Original(t))
           \/ \E k \in 1..(i + 1) : B[k] = Original(t)
<1>0. Clients
  BY DEF IInv
<1> DEFINE x == B[i + 1]
           o == Original(t)
           before == \/ Open(t) /\ \A k \in 1..i : B[k] # Final(o)
                     \/ \E k \in 1..i : B[k] = o
           after == \/ Open(t) /\ \A k \in 1..(i + 1) : B[k] # Final(o)
                    \/ \E k \in 1..(i + 1) : B[k] = o
<1>1. In(B, x)
  BY DEF In
<1>2. \A k : k \in 1..(i + 1) <=> k \in 1..i \/ k = i + 1
  OBVIOUS
<1>3. o \in v.originals <=> before
  BY DEF Applied
<1>4. \A u \in tracked : u \in TxType /\ Original(u).orig = u.hash /\ Final(Original(u)).orig = u.hash
  BY <1>0, Tracked, ClientFacts, PieceFields
<1>5. \A u \in tracked : ClientTx(t) /\ ClientTx(u) /\ (t.hash = u.hash => t = u) /\ (u.hash = t.hash => u = t)
  BY <1>0, Tracked
<1>6. whatAmI(c, o) = "originaltx" /\ whatAmI(c, Final(o)) = "finaltransaction"
  BY <1>5, Whats
<1> HIDE DEF x, o
<1>7. (x # o /\ x # Final(o)) => (after <=> before)
  BY <1>2 DEF x
<1>8. CASE whatAmI(c, x) \notin {"originaltx", "finaltransaction"}
  <2>1. Brought(c, v, x) = v.originals
    BY <1>8 DEF Brought
  <2>2. x # o /\ x # Final(o)
    BY <1>6, <1>8
  <2> QED BY <1>3, <1>7, <2>1, <2>2 DEF x, o
<1>9. CASE whatAmI(c, x) = "originaltx"
  <2>1. PICK u \in tracked : x = Original(u)
    BY <1>0, <1>1, <1>9, EntryKinds
  <2>2. Brought(c, v, x) = {y \in v.originals : y.orig # x.orig} \cup {x}
    BY <1>9 DEF Brought, Forget
  <2>3. CASE u = t
    <3>1. x = o
      BY <2>1, <2>3 DEF o
    <3>2. after
      BY <1>2, <3>1 DEF x
    <3> QED BY <2>2, <3>1, <3>2 DEF x, o
  <2>4. CASE u # t
    <3>1. x # o /\ x # Final(o)
      BY <1>5, <2>1, <2>4, Apart DEF o
    <3>2. o.orig # x.orig
      BY <1>4, <1>5, <2>1, <2>4 DEF o
    <3> QED BY <1>3, <1>7, <2>2, <3>1, <3>2 DEF x, o
  <2> QED BY <2>3, <2>4
<1>10. CASE whatAmI(c, x) = "finaltransaction"
  <2>1. PICK u \in tracked : x = Final(Original(u))
    BY <1>0, <1>1, <1>10, EntryKinds
  <2>2. Brought(c, v, x) = {y \in v.originals : y.orig # x.orig}
    BY <1>10 DEF Brought, Forget
  <2>3. CASE u = t
    <3>1. x = Final(o) /\ o.orig = x.orig
      BY <1>4, <2>1, <2>3 DEF o
    <3>2. In(B, Final(Original(t))) /\ BlockSays(c, B, t)
      BY <1>1, <3>1, BlockTold DEF o
    <3>3. ~In(B, Original(t))
      BY <3>2 DEF BlockSays
    <3>4. \A k \in 1..(i + 1) : k \in DOMAIN B
      OBVIOUS
    <3>5. ~after
      BY <1>2, <3>1, <3>3, <3>4 DEF x, o, In
    <3> QED BY <2>2, <3>1, <3>5 DEF x, o
  <2>4. CASE u # t
    <3>1. x # o /\ x # Final(o)
      BY <1>5, <2>1, <2>4, Apart DEF o
    <3>2. o.orig # x.orig
      BY <1>4, <1>5, <2>1, <2>4 DEF o
    <3> QED BY <1>3, <1>7, <2>2, <3>1, <3>2 DEF x, o
  <2> QED BY <2>3, <2>4
<1> QED BY <1>8, <1>9, <1>10

\* One transaction more.
LEMMA ApplyStep ==
  ASSUME IInv, NEW c \in Committees, NEW B \in Seq(TxType), BlockSound(c, pool[c], B),
         NEW i \in Nat, i + 1 \in DOMAIN B, NEW v, Applied(c, B, i, v)
  PROVE  Applied(c, B, i + 1, Apply(c, v, B[i + 1]))
<1>0. Clients
  BY DEF IInv
<1> DEFINE x == B[i + 1]
           n == Apply(c, v, x)
<1>1. In(B, x) /\ x \in TxType
  BY DEF In
<1>2. v \in LedgerType /\ v.fatal = FALSE
  BY DEF Applied
<1>3. n = ForceApply(c, v, x)
  BY NextIsThere
<1>4. /\ n \in LedgerType /\ n.fatal = v.fatal
      /\ n.utxo = (v.utxo \ Lose(c, x)) \cup Gain(c, x)
      /\ n.originals = Brought(c, v, x)
  <2>1. whatAmI(c, x) \in {"normal", "crosstx", "originaltx", "crosstxresponse_C_in",
                           "crosstxresponse_C_out", "finaltransaction"}
    BY <1>0, <1>1, EntryKinds
  <2> HIDE DEF x, n
  <2> QED BY <1>1, <1>2, <1>3, <2>1, ForceFacts
<1>5. /\ \A k : k \in 1..(i + 1) <=> k \in 1..i \/ k = i + 1
      /\ \A k \in 1..i : \A j : j \in k..i => j \in k..(i + 1)
      /\ i + 1 \in (i + 1)..(i + 1) /\ \A k \in 1..i : i + 1 \in k..(i + 1)
  OBVIOUS
<1>6. \A t \in tracked : At(t) = c =>
        (Original(t) \in n.originals <=>
           \/ Open(t) /\ \A k \in 1..(i + 1) : B[k] # Final(Original(t))
           \/ \E k \in 1..(i + 1) : B[k] = Original(t))
  BY <1>4, OriginalsStep
<1>7. \A y \in n.originals : \E t \in tracked : c = At(t) /\ y = Original(t) /\ Asked(t) # {}
  <2>1. ASSUME NEW y \in n.originals
        PROVE  \E t \in tracked : c = At(t) /\ y = Original(t) /\ Asked(t) # {}
    <3>1. y \in v.originals \/ (y = x /\ whatAmI(c, x) = "originaltx")
      BY <1>4 DEF Brought, Forget
    <3>2. CASE y \in v.originals
      BY <3>2 DEF Applied
    <3>3. CASE y = x /\ whatAmI(c, x) = "originaltx"
      BY <1>0, <1>1, <3>3, EntryKinds
    <3> QED BY <3>1, <3>2, <3>3
  <2> QED BY <2>1
<1> DEFINE L(k) == Lose(c, B[k])
           G(k) == Gain(c, B[k])
<1>8. n.utxo = (v.utxo \ L(i + 1)) \cup G(i + 1)
  BY <1>4
<1>9. /\ \A o \in v.utxo : o \in utxo[c] \/ \E j \in 1..i : o \in G(j)
      /\ \A o : (/\ o \in utxo[c] \/ \E j \in 1..i : o \in G(j)
                 /\ \A k \in 1..i : o \notin L(k)) => o \in v.utxo
      /\ \A k \in 1..i : \A o \in v.utxo : o \in L(k) => \E j \in k..i : o \in G(j)
  BY DEF Applied
<1> HIDE DEF n, L, G
<1>10. \A o \in n.utxo : o \in utxo[c] \/ \E j \in 1..(i + 1) : o \in G(j)
  BY <1>5, <1>8, <1>9
<1>11. \A o : (/\ o \in utxo[c] \/ \E j \in 1..(i + 1) : o \in G(j)
               /\ \A k \in 1..(i + 1) : o \notin L(k)) => o \in n.utxo
  BY <1>5, <1>8, <1>9
<1>12. \A k \in 1..(i + 1) : \A o \in n.utxo : o \in L(k) => \E j \in k..(i + 1) : o \in G(j)
  <2>1. ASSUME NEW k \in 1..(i + 1), NEW o \in n.utxo, o \in L(k)
        PROVE  \E j \in k..(i + 1) : o \in G(j)
    <3>1. CASE o \in G(i + 1)
      BY <1>5, <3>1
    <3>2. CASE o \notin G(i + 1)
      <4>1. o \in v.utxo /\ o \notin L(i + 1)
        BY <1>8, <3>2
      <4>2. k \in 1..i
        BY <1>5, <2>1, <4>1
      <4> QED BY <1>5, <1>9, <2>1, <4>1, <4>2
    <3> QED BY <3>1, <3>2
  <2> QED BY <2>1
<1>13. Applied(c, B, i + 1, n)
  BY <1>2, <1>4, <1>6, <1>7, <1>10, <1>11, <1>12 DEF Applied, L, G
<1> QED BY <1>13 DEF n

\* The ledger of committee c after block B.
LEMMA BlockLedger ==
  ASSUME IInv, NEW c \in Committees, NEW B \in Seq(TxType), BlockSound(c, pool[c], B)
  PROVE  Applied(c, B, Len(B), processBlock(c, B))
<1> DEFINE N == Len(B)
<1>1. N \in Nat /\ DOMAIN B = 1..N
  OBVIOUS
<1>2. PICK w : /\ w[0] = Ledger(c) /\ w[N] = processBlock(c, B)
               /\ \A i \in 1..N : w[i] = Apply(c, w[i - 1], B[i])
  BY BlockApplied
<1> HIDE DEF N
<1>3. Applied(c, B, 0, Ledger(c))
  <2>1. Ledger(c) \in LedgerType /\ Ledger(c).fatal = FALSE
    BY DEF IInv, Types, Ledger, LedgerType
  <2>2. Ledger(c).utxo = utxo[c] /\ Ledger(c).originals = originals[c]
    BY DEF Ledger
  <2>3. \A k : k \notin 1..0
    OBVIOUS
  <2>4. \A t \in tracked : At(t) = c => (Original(t) \in originals[c] <=> Open(t))
    BY DEF Open
  <2>5. \A x \in originals[c] : \E t \in tracked : c = At(t) /\ x = Original(t) /\ Asked(t) # {}
    BY DEF IInv, Shapes
  <2> QED BY <2>1, <2>2, <2>3, <2>4, <2>5 DEF Applied
<1> DEFINE S == {i \in 0..N : Applied(c, B, i, w[i])}
<1>4. ASSUME NEW i \in 0..(N - 1), Applied(c, B, i, w[i])
      PROVE  Applied(c, B, i + 1, w[i + 1])
  <2>1. i \in Nat /\ i + 1 \in DOMAIN B /\ i + 1 \in 1..N /\ (i + 1) - 1 = i
    BY <1>1
  <2>2. w[i + 1] = Apply(c, w[i], B[i + 1])
    BY <1>2, <2>1
  <2> QED BY <1>4, <2>1, <2>2, ApplyStep
<1>5. 0 \in S /\ \A i \in 0..(N - 1) : i \in S => i + 1 \in S
  <2>1. \A i \in 0..(N - 1) : i + 1 \in 0..N /\ 0 \in 0..N
    BY <1>1
  <2> QED BY <1>1, <1>2, <1>3, <1>4, <2>1
<1>6. N \in S
  <2> HIDE DEF S
  <2>1. \A i \in 0..N : i \in S
    BY <1>1, <1>5, UpTo
  <2> QED BY <1>1, <2>1
<1> QED BY <1>2, <1>6 DEF N

\* Block B of committee c finishes transaction t, gives its inputs here to another
\* committee, or brings its input o from one.
Finishes(B, t) == In(B, t) \/ In(B, Final(Original(t)))

Gives(c, B, t) == c \in Asked(t) /\ In(B, Response(c, Request(t, c)))

Brings(B, t, o) == Owner(o) \in Asked(t) /\ In(B, Proven(t, Owner(o)))

\* The block takes input o of t out of the ledger of c.
Takes(c, B, t, o) == Finishes(B, t) \/ (Gives(c, B, t) /\ Owner(o) = c)

\* What ledger l of committee c has after block B.
LedgerSays(c, B, l) ==
  /\ l \in LedgerType /\ l.fatal = FALSE
  /\ \A t \in tracked : At(t) = c =>
       (Original(t) \in l.originals <=>
          (Open(t) /\ ~In(B, Final(Original(t)))) \/ In(B, Original(t)))
  /\ \A x \in l.originals : \E t \in tracked : c = At(t) /\ x = Original(t) /\ Asked(t) # {}
  /\ \A o \in l.utxo : o \notin Taken =>
       o \in utxo[c] \/ \E t \in tracked : o \in t.outs /\ Finishes(B, t)
  /\ \A t \in tracked : \A o \in t.ins :
       /\ o \in l.utxo => (o \in utxo[c] \/ Brings(B, t, o)) /\ (Takes(c, B, t, o) => o \in Lately)
       /\ (o \in utxo[c] \/ Brings(B, t, o)) /\ ~Takes(c, B, t, o) => o \in l.utxo
  /\ \A t \in tracked : Finishes(B, t) => t.outs \subseteq l.utxo
  /\ utxo[c] \ Taken \subseteq l.utxo

\* A final transaction comes after the responses it needs.
LEMMA FinalAfter ==
  ASSUME Clients, NEW c, NEW P, NEW B \in Seq(TxType), BlockSound(c, P, B), NEW t \in tracked,
         NEW k \in DOMAIN B, B[k] = Final(Original(t))
  PROVE  \A o \in t.ins : o \in utxo[c] \/ \E j \in 1..(k - 1) : B[j] = Proven(t, Owner(o))
<1>1. Is(c, P, B, k)
  BY DEF BlockSound
<1>2. \A u \in tracked : ClientTx(t) /\ ClientTx(u) /\ (t.hash = u.hash => t = u) /\ (u.hash = t.hash => u = t)
  BY Tracked
<1>3. ASSUME NEW u \in tracked
      PROVE  /\ B[k] # u /\ B[k] # Original(u) /\ (B[k] = Final(Original(u)) => u = t)
             /\ \A d : B[k] # Request(u, d) /\ B[k] # Response(d, Request(u, d)) /\ B[k] # Proven(u, d)
  <2>1. B[k] # u /\ B[k] # Original(u) /\ (B[k] = Final(Original(u)) => u = t)
    BY <1>2, Apart
  <2>2. \A d : B[k] # Request(u, d) /\ B[k] # Response(d, Request(u, d)) /\ B[k] # Proven(u, d)
    BY <1>2, Apart
  <2> QED BY <2>1, <2>2
<1>4. IsFinal(c, B, k)
  BY <1>1, <1>3 DEF Is, IsNormal, IsOriginal, IsRequest, IsResponse, IsProven
<1> QED BY <1>3, <1>4 DEF IsFinal

\* An input that is in the ledger after the block took it had come twice.
LEMMA TakenIsLate ==
  ASSUME IInv, NEW c \in Committees, NEW B \in Seq(TxType), BlockSound(c, pool[c], B),
         NEW t \in tracked, NEW o \in t.ins, NEW k \in DOMAIN B, NEW j \in DOMAIN B, k <= j,
         o \in Lose(c, B[k]), o \in Gain(c, B[j])
  PROVE  o \in Lately
<1>0. Clients
  BY DEF IInv
<1>1. ClientTx(t) /\ t \in TxType /\ BlockSays(c, B, t) /\ o \in Taken
  BY <1>0, Tracked, ClientFacts, BlockTold
<1>2. In(B, B[k]) /\ In(B, B[j])
  BY DEF In
<1>3. Owner(o) \in Asked(t) /\ B[j] = Proven(t, Owner(o))
  <2>1. PICK u \in tracked : \/ o \in u.outs /\ (B[j] = u \/ B[j] = Final(Original(u)))
                             \/ o \in u.ins /\ Owner(o) \in Asked(u) /\ B[j] = Proven(u, Owner(o))
    BY <1>0, <1>2, TakenBy
  <2>2. BlockSays(c, B, u)
    BY BlockTold
  <2>3. ~(o \in u.outs /\ (B[j] = u \/ B[j] = Final(Original(u))))
    BY <1>1, <1>2, <2>2, NewOutputs
  <2>4. o \in u.ins /\ Owner(o) \in Asked(u) /\ B[j] = Proven(u, Owner(o))
    BY <2>1, <2>3
  <2>5. u = t
    BY <1>0, <2>4, Tracked
  <2> QED BY <2>4, <2>5
<1>4. At(t) = c /\ Answered(t, Owner(o)) /\ ~Waiting(t)
  BY <1>1, <1>2, <1>3 DEF BlockSays
<1>5. B[k] = Final(Original(t))
  <2>1. PICK u \in tracked :
          /\ o \in u.ins
          /\ B[k] = u \/ B[k] = Final(Original(u)) \/ c \in Asked(u)
    BY <1>0, <1>2, TakenBy
  <2>2. u = t
    BY <1>0, <2>1, Tracked
  <2>3. c \notin Asked(t)
    BY <1>4 DEF Asked
  <2>4. B[k] # t
    BY <1>1, <1>2, <1>4 DEF BlockSays
  <2> QED BY <2>1, <2>2, <2>3, <2>4
<1>6. o \in utxo[c] \/ \E i \in 1..(k - 1) : B[i] = Proven(t, Owner(o))
  BY <1>0, <1>5, FinalAfter
<1>7. DOMAIN B = 1..Len(B) /\ Len(B) \in Nat
  OBVIOUS
<1>8. o \in utxo[c]
  <2>1. ASSUME NEW i \in 1..(k - 1), B[i] = Proven(t, Owner(o))
        PROVE  FALSE
    <3>1. i \in DOMAIN B /\ i # j
      BY <1>7
    <3> QED BY <1>3, <2>1, <3>1 DEF BlockSound, Once
  <2> QED BY <1>6, <2>1
<1>9. o \in Part(t, Owner(o))
  BY DEF Part
<1>10. Answer(t, Owner(o)) \in late
  BY <1>3, <1>4, <1>8, <1>9, Arrived
<1> QED BY <1>3, <1>9, <1>10, LateFacts

\* processBlock does as much to the ledger, and never fails on a sound block.
LEMMA LedgerTold ==
  ASSUME IInv, NEW c \in Committees, NEW B \in Seq(TxType), BlockSound(c, pool[c], B),
         NEW l, l = processBlock(c, B)
  PROVE  LedgerSays(c, B, l)
<1>0. Clients
  BY DEF IInv
<1> DEFINE N == Len(B)
<1>1. N \in Nat /\ DOMAIN B = 1..N
  OBVIOUS
<1>2. Applied(c, B, N, l)
  BY BlockLedger
<1> HIDE DEF N
<1>3. \A t \in tracked : ClientTx(t) /\ BlockSays(c, B, t) /\ t.ins \subseteq Taken
  BY <1>0, Tracked, BlockTold
<1>4. \A k \in 1..N : In(B, B[k])
  BY <1>1 DEF In
<1>5. \A x : In(B, x) => \E k \in 1..N : B[k] = x
  BY <1>1 DEF In
<1>6. /\ l \in LedgerType /\ l.fatal = FALSE
      /\ \A x \in l.originals : \E t \in tracked : c = At(t) /\ x = Original(t) /\ Asked(t) # {}
  BY <1>2 DEF Applied
<1>7. \A t \in tracked : At(t) = c =>
        (Original(t) \in l.originals <=>
           (Open(t) /\ ~In(B, Final(Original(t)))) \/ In(B, Original(t)))
  <2>1. \A t \in tracked : At(t) = c =>
          (Original(t) \in l.originals <=>
             \/ Open(t) /\ \A k \in 1..N : B[k] # Final(Original(t))
             \/ \E k \in 1..N : B[k] = Original(t))
    BY <1>2 DEF Applied
  <2>2. \A x : In(B, x) <=> \E k \in 1..N : B[k] = x
    BY <1>4, <1>5
  <2> QED BY <2>1, <2>2
<1>8. ASSUME NEW k \in 1..N, NEW o, o \in Gain(c, B[k])
      PROVE  \/ \E t \in tracked : o \in t.outs /\ Finishes(B, t) /\ o \notin Taken
             \/ \E t \in tracked : o \in t.ins /\ Brings(B, t, o)
  <2>1. PICK t \in tracked : \/ o \in t.outs /\ (B[k] = t \/ B[k] = Final(Original(t)))
                             \/ o \in t.ins /\ Owner(o) \in Asked(t) /\ B[k] = Proven(t, Owner(o))
    BY <1>0, <1>4, <1>8, TakenBy
  <2>2. CASE o \in t.outs /\ (B[k] = t \/ B[k] = Final(Original(t)))
    <3>1. Finishes(B, t)
      BY <1>4, <2>2 DEF Finishes
    <3>2. o \notin Taken
      BY <1>3, <2>2, <3>1, NewOutputs DEF Finishes
    <3> QED BY <2>2, <3>1, <3>2
  <2>3. CASE o \in t.ins /\ Owner(o) \in Asked(t) /\ B[k] = Proven(t, Owner(o))
    <3>1. Brings(B, t, o)
      BY <1>4, <2>3 DEF Brings
    <3> QED BY <2>3, <3>1
  <2> QED BY <2>1, <2>2, <2>3
<1>9. ASSUME NEW k \in 1..N, NEW o, o \in Lose(c, B[k])
      PROVE  o \in Taken /\ \E t \in tracked : o \in t.ins /\ Takes(c, B, t, o)
  <2>1. PICK t \in tracked : /\ o \in t.ins
                             /\ \/ B[k] = t \/ B[k] = Final(Original(t))
                                \/ c \in Asked(t) /\ Owner(o) = c /\ B[k] = Response(c, Request(t, c))
    BY <1>0, <1>4, <1>9, TakenBy
  <2>2. Takes(c, B, t, o)
    BY <1>4, <2>1 DEF Takes, Finishes, Gives
  <2> QED BY <1>3, <2>1, <2>2
<1>10. ASSUME NEW t \in tracked, NEW o \in t.ins, Brings(B, t, o)
       PROVE  \E j \in 1..N : o \in Gain(c, B[j])
  <2>1. PICK j \in 1..N : B[j] = Proven(t, Owner(o)) /\ Owner(o) \in Asked(t)
    BY <1>5, <1>10 DEF Brings
  <2>2. At(t) = c
    BY <1>3, <1>4, <2>1 DEF BlockSays
  <2>3. Gain(c, B[j]) = Part(t, Owner(o))
    BY <1>3, <2>1, <2>2, Effects
  <2> QED BY <2>3 DEF Part
<1>11. ASSUME NEW t \in tracked, NEW o \in t.ins, Takes(c, B, t, o)
       PROVE  \E k \in 1..N : o \in Lose(c, B[k])
  <2>1. CASE In(B, t)
    <3>1. Lose(c, t) = t.ins
      BY <1>3, Effects
    <3> QED BY <1>5, <2>1, <3>1
  <2>2. CASE In(B, Final(Original(t)))
    <3>1. At(t) = c
      BY <1>3, <2>2 DEF BlockSays
    <3>2. Lose(c, Final(Original(t))) = t.ins
      BY <1>3, <3>1, Effects
    <3> QED BY <1>5, <2>2, <3>2
  <2>3. CASE Gives(c, B, t) /\ Owner(o) = c
    <3>1. Lose(c, Response(c, Request(t, c))) = Part(t, c)
      BY <1>3, <2>3, Effects DEF Gives
    <3>2. o \in Part(t, c)
      BY <2>3 DEF Part
    <3> QED BY <1>5, <2>3, <3>1, <3>2 DEF Gives
  <2> QED BY <1>11, <2>1, <2>2, <2>3 DEF Takes, Finishes
<1>12. /\ \A o \in l.utxo : o \in utxo[c] \/ \E j \in 1..N : o \in Gain(c, B[j])
       /\ \A o : (/\ o \in utxo[c] \/ \E j \in 1..N : o \in Gain(c, B[j])
                  /\ \A k \in 1..N : o \notin Lose(c, B[k])) => o \in l.utxo
       /\ \A k \in 1..N : \A o \in l.utxo : o \in Lose(c, B[k]) => \E j \in k..N : o \in Gain(c, B[j])
  BY <1>2 DEF Applied
<1>13. ASSUME NEW o \in l.utxo, o \notin Taken
       PROVE  o \in utxo[c] \/ \E t \in tracked : o \in t.outs /\ Finishes(B, t)
  BY <1>3, <1>8, <1>12, <1>13
<1>14. ASSUME NEW t \in tracked, NEW o \in t.ins, o \in l.utxo
       PROVE  (o \in utxo[c] \/ Brings(B, t, o)) /\ (Takes(c, B, t, o) => o \in Lately)
  <2>1. \A u \in tracked : o \in u.ins => u = t
    BY <1>0, Tracked
  <2>2. o \in utxo[c] \/ Brings(B, t, o)
    BY <1>3, <1>8, <1>12, <1>14, <2>1
  <2>3. ASSUME Takes(c, B, t, o) PROVE o \in Lately
    <3>1. PICK k \in 1..N : o \in Lose(c, B[k])
      BY <1>11, <2>3
    <3>2. PICK j \in k..N : o \in Gain(c, B[j])
      BY <1>12, <1>14, <3>1
    <3>3. k \in DOMAIN B /\ j \in DOMAIN B /\ k <= j
      BY <1>1
    <3> QED BY <3>1, <3>2, <3>3, TakenIsLate
  <2> QED BY <2>2, <2>3
<1>15. ASSUME NEW t \in tracked, NEW o \in t.ins, o \in utxo[c] \/ Brings(B, t, o), ~Takes(c, B, t, o)
       PROVE  o \in l.utxo
  <2>1. \A u \in tracked : o \in u.ins => u = t
    BY <1>0, Tracked
  <2>2. \A k \in 1..N : o \notin Lose(c, B[k])
    BY <1>9, <1>15, <2>1
  <2> QED BY <1>10, <1>12, <1>15, <2>2
<1>16. ASSUME NEW t \in tracked, Finishes(B, t), NEW o \in t.outs
       PROVE  o \in l.utxo
  <2>1. \E j \in 1..N : o \in Gain(c, B[j])
    <3>1. CASE In(B, t)
      <4>1. Gain(c, t) = t.outs
        BY <1>3, Effects
      <4> QED BY <1>5, <3>1, <4>1
    <3>2. CASE In(B, Final(Original(t)))
      <4>1. At(t) = c
        BY <1>3, <3>2 DEF BlockSays
      <4>2. Gain(c, Final(Original(t))) = t.outs
        BY <1>3, <4>1, Effects
      <4> QED BY <1>5, <3>2, <4>2
    <3> QED BY <1>16, <3>1, <3>2 DEF Finishes
  <2>2. o \notin Taken
    BY <1>3, <1>16, NewOutputs DEF Finishes
  <2> QED BY <1>9, <1>12, <2>1, <2>2
<1>17. utxo[c] \ Taken \subseteq l.utxo
  BY <1>9, <1>12
<1> QED BY <1>6, <1>7, <1>13, <1>14, <1>15, <1>16, <1>17 DEF LedgerSays

-----------------------------------------------------------------------------
\* The transactions of a block that name a transaction of the client, or a response.
LEMMA EntryNames ==
  ASSUME Clients, NEW c, NEW P, NEW B \in Seq(TxType), BlockSound(c, P, B), NEW x, In(B, x), NEW t \in tracked
  PROVE  /\ t.hash \in {x.orig, x.hash} =>
              \/ x = t \/ x = Original(t) \/ x = Final(Original(t))
              \/ \E d \in Asked(t) : x = Request(t, d) \/ x = Response(d, Request(t, d)) \/ x = Proven(t, d)
         /\ \A d : CrossHash(t.hash, d) \in {x.orig, x.hash} =>
              x = Response(d, Request(t, d)) \/ x = Proven(t, d)
<1>1. PICK u \in tracked :
        \/ x = u
        \/ x = Original(u)
        \/ x = Final(Original(u))
        \/ \E d \in Asked(u) : \/ x = Request(u, d)
                               \/ x = Response(d, Request(u, d))
                               \/ x = Proven(u, d)
  BY BlockEntries
<1>2. u \in TxType /\ u.hash # Nil /\ u.orig = Nil /\ t.hash # Nil
  BY Tracked, ClientFacts
<1>3. u.hash = t.hash => u = t
  BY Tracked
<1>4. (\E y : u.hash = UserHash(y)) /\ (\E y : t.hash = UserHash(y))
  BY Tracked DEF ClientTx
<1>5. \A d : /\ CrossHash(t.hash, d) # Nil /\ CrossHash(t.hash, d) # u.hash
             /\ CrossHash(t.hash, d) # FinalHash(u.hash)
  BY <1>4, HashFacts
<1>6. /\ \A d : CrossHash(u.hash, d) # t.hash
      /\ FinalHash(u.hash) # t.hash
      /\ \A d, e : CrossHash(t.hash, d) = CrossHash(u.hash, e) => t.hash = u.hash /\ d = e
  BY <1>4, HashFacts
<1>7. CASE x = u
  BY <1>2, <1>3, <1>5, <1>7
<1>8. CASE x = Original(u)
  <2>1. x.hash = Nil /\ x.orig = u.hash
    BY <1>2, <1>8, PieceFields
  <2> QED BY <1>2, <1>3, <1>5, <1>8, <2>1
<1>9. CASE x = Final(Original(u))
  <2>1. x.hash = FinalHash(u.hash) /\ x.orig = u.hash
    BY <1>2, <1>9, PieceFields
  <2> QED BY <1>2, <1>3, <1>5, <1>6, <1>9, <2>1
<1>10. ASSUME NEW e \in Asked(u), x = Request(u, e)
       PROVE  /\ t.hash \in {x.orig, x.hash} => u = t
              /\ \A d : CrossHash(t.hash, d) \notin {x.orig, x.hash}
  <2>1. x.hash = Nil /\ x.orig = u.hash
    BY <1>2, <1>10, PieceFields
  <2> QED BY <1>2, <1>3, <1>5, <2>1
<1>11. ASSUME NEW e \in Asked(u), x = Response(e, Request(u, e)) \/ x = Proven(u, e)
       PROVE  /\ t.hash \in {x.orig, x.hash} => u = t
              /\ \A d : CrossHash(t.hash, d) \in {x.orig, x.hash} => u = t /\ d = e
  <2>1. x.hash = CrossHash(u.hash, e) /\ x.orig = u.hash
    BY <1>2, <1>11, PieceFields
  <2> QED BY <1>2, <1>3, <1>5, <1>6, <2>1
<1>12. CASE \E e \in Asked(u) : \/ x = Request(u, e)
                                \/ x = Response(e, Request(u, e))
                                \/ x = Proven(u, e)
  BY <1>10, <1>11, <1>12
<1> QED BY <1>1, <1>7, <1>8, <1>9, <1>12

\* What stays in the pool of committee c when block B is processed.
LEMMA PoolLeft ==
  ASSUME IInv, NEW c \in Committees, NEW B \in Seq(TxType), BlockSound(c, pool[c], B), NEW t \in tracked,
         NEW S, S = PoolProcessBlock(pool[c], B)
  PROVE  /\ At(t) = c => (t \in S <=> t \in pool[c] /\ ~In(B, t) /\ ~In(B, Original(t)))
         /\ c \in Asked(t) => (Request(t, c) \in S <=>
                                 Request(t, c) \in pool[c] /\ ~In(B, Response(c, Request(t, c))))
         /\ \A d \in Asked(t) : At(t) = c =>
              (Proven(t, d) \in S <=> Proven(t, d) \in pool[c] /\ ~In(B, Proven(t, d)))
<1>0. Clients
  BY DEF IInv
<1>1. ClientTx(t) /\ t \in TxType /\ BlockSays(c, B, t)
  BY <1>0, Tracked, ClientFacts, BlockTold
<1>2. \A u : u \in S <=> u \in pool[c] /\ \A x : In(B, x) => id(u) \notin {x.orig, x.hash}
  BY DEF PoolProcessBlock, In
<1>3. ASSUME At(t) = c
      PROVE  t \in S <=> t \in pool[c] /\ ~In(B, t) /\ ~In(B, Original(t))
  <2>1. id(t) = t.hash /\ Original(t).orig = t.hash
    BY <1>1, PieceFacts, PieceFields
  <2>2. In(B, t) \/ In(B, Original(t)) => t \notin S
    BY <1>2, <2>1
  <2>3. ASSUME t \in pool[c], ~In(B, t), ~In(B, Original(t)), NEW x, In(B, x), t.hash \in {x.orig, x.hash}
        PROVE  FALSE
    <3>1. Waiting(t)
      BY <1>3, <2>3 DEF Waiting, OnWay
    <3>2. /\ ~In(B, Final(Original(t)))
          /\ \A d \in Asked(t) : /\ ~In(B, Request(t, d)) /\ ~In(B, Proven(t, d))
                                 /\ ~In(B, Response(d, Request(t, d)))
      BY <1>1, <2>3, <3>1 DEF BlockSays
    <3>3. \/ x = t \/ x = Original(t) \/ x = Final(Original(t))
          \/ \E d \in Asked(t) : x = Request(t, d) \/ x = Response(d, Request(t, d)) \/ x = Proven(t, d)
      BY <1>0, <2>3, EntryNames
    <3> QED BY <2>3, <3>2, <3>3
  <2> QED BY <1>2, <2>1, <2>2, <2>3
<1>4. ASSUME c \in Asked(t)
      PROVE  Request(t, c) \in S <=> Request(t, c) \in pool[c] /\ ~In(B, Response(c, Request(t, c)))
  <2>1. id(Request(t, c)) = t.hash /\ Response(c, Request(t, c)).orig = t.hash /\ At(t) # c
    BY <1>1, <1>4, PieceFacts, PieceFields
  <2>2. In(B, Response(c, Request(t, c))) => Request(t, c) \notin S
    BY <1>2, <2>1
  <2>3. ASSUME ~In(B, Response(c, Request(t, c))), NEW x, In(B, x), t.hash \in {x.orig, x.hash}
        PROVE  FALSE
    <3>1. /\ ~In(B, t) /\ ~In(B, Original(t)) /\ ~In(B, Final(Original(t)))
          /\ \A d \in Asked(t) : /\ ~In(B, Request(t, d)) /\ ~In(B, Proven(t, d))
                                 /\ In(B, Response(d, Request(t, d))) => d = c
      BY <1>1, <2>1 DEF BlockSays
    <3>2. \/ x = t \/ x = Original(t) \/ x = Final(Original(t))
          \/ \E d \in Asked(t) : x = Request(t, d) \/ x = Response(d, Request(t, d)) \/ x = Proven(t, d)
      BY <1>0, <2>3, EntryNames
    <3> QED BY <2>3, <3>1, <3>2
  <2> QED BY <1>2, <2>1, <2>2, <2>3
<1>5. ASSUME NEW d \in Asked(t), At(t) = c
      PROVE  Proven(t, d) \in S <=> Proven(t, d) \in pool[c] /\ ~In(B, Proven(t, d))
  <2>1. id(Proven(t, d)) = CrossHash(t.hash, d) /\ Proven(t, d).hash = CrossHash(t.hash, d)
    BY <1>1, PieceFacts, PieceFields
  <2>2. In(B, Proven(t, d)) => Proven(t, d) \notin S
    BY <1>2, <2>1
  <2>3. ASSUME ~In(B, Proven(t, d)), NEW x, In(B, x), CrossHash(t.hash, d) \in {x.orig, x.hash}
        PROVE  FALSE
    <3>1. ~In(B, Response(d, Request(t, d)))
      BY <1>1, <1>5 DEF BlockSays
    <3>2. x = Response(d, Request(t, d)) \/ x = Proven(t, d)
      BY <1>0, <2>3, EntryNames
    <3> QED BY <2>3, <3>1, <3>2
  <2> QED BY <1>2, <2>1, <2>2, <2>3
<1> QED BY <1>3, <1>4, <1>5

\* What committee c sends for the transactions of block B.
LEMMA RoutedFacts ==
  ASSUME Clients, NEW c, NEW P, NEW B \in Seq(TxType), BlockSound(c, P, B), NEW m
  PROVE  (\E x : In(B, x) /\ m \in Routed(c, x)) <=>
           \E t \in tracked :
             \/ \E d \in Asked(t) : In(B, Request(t, d)) /\ m = [to |-> d, tx |-> Request(t, d)]
             \/ Gives(c, B, t) /\ m = Answer(t, c)
<1>1. ASSUME NEW t \in tracked
      PROVE  /\ Routed(c, t) = {} /\ Routed(c, Original(t)) = {}
             /\ At(t) = c => Routed(c, Final(Original(t))) = {}
             /\ \A d \in Asked(t) :
                  /\ Routed(c, Request(t, d)) = {[to |-> d, tx |-> Request(t, d)]}
                  /\ c = d => Routed(c, Response(d, Request(t, d))) = {Answer(t, d)}
                  /\ At(t) = c => Routed(c, Proven(t, d)) = {}
  <2>1. ClientTx(t) /\ t \in TxType
    BY Tracked, ClientFacts
  <2>2. Routed(c, t) = {} /\ Routed(c, Original(t)) = {}
    <3>1. whatAmI(c, t) = "normal" /\ whatAmI(c, Original(t)) = "originaltx"
      BY <2>1, Whats
    <3> QED BY <3>1 DEF Routed
  <2>3. ASSUME At(t) = c PROVE Routed(c, Final(Original(t))) = {}
    <3>1. whatAmI(c, Final(Original(t))) = "finaltransaction"
      BY <2>1, <2>3, Whats
    <3> QED BY <3>1 DEF Routed
  <2>4. ASSUME NEW d \in Asked(t)
        PROVE  Routed(c, Request(t, d)) = {[to |-> d, tx |-> Request(t, d)]}
    <3>1. whatAmI(c, Request(t, d)) = "crosstx"
      BY <2>1, Whats
    <3>2. Request(t, d).ins = Part(t, d)
      BY <2>1, PieceFields
    <3>3. Part(t, d) # {} /\ \A o \in Part(t, d) : Owner(o) = d
      BY <2>1, PieceFacts
    <3>4. Owner(CHOOSE o \in Request(t, d).ins : TRUE) = d
      BY <3>2, <3>3
    <3> QED BY <3>1, <3>4 DEF Routed
  <2>5. ASSUME NEW d \in Asked(t), c = d
        PROVE  Routed(c, Response(d, Request(t, d))) = {Answer(t, d)}
    <3>1. whatAmI(c, Response(d, Request(t, d))) = "crosstxresponse_C_in"
      BY <2>1, <2>5, Whats
    <3>2. Response(d, Request(t, d)).orig = t.hash
      BY <2>1, PieceFields
    <3>3. [Response(d, Request(t, d)) EXCEPT !.poc = TRUE] = Proven(t, d)
      BY <2>1, Fields
    <3>4. Routed(c, Response(d, Request(t, d))) =
            {[to |-> ClosestCommittee(Response(d, Request(t, d)).orig),
              tx |-> [Response(d, Request(t, d)) EXCEPT !.poc = TRUE]]}
      BY <3>1 DEF Routed
    <3> QED BY <3>2, <3>3, <3>4, Zenon DEF Answer, At
  <2>6. ASSUME NEW d \in Asked(t), At(t) = c
        PROVE  Routed(c, Proven(t, d)) = {}
    <3>1. whatAmI(c, Proven(t, d)) = "crosstxresponse_C_out"
      BY <2>1, <2>6, Whats
    <3> QED BY <3>1 DEF Routed
  <2> QED BY <2>2, <2>3, <2>4, <2>5, <2>6
<1>2. ASSUME NEW x, In(B, x), m \in Routed(c, x)
      PROVE  \E t \in tracked :
               \/ \E d \in Asked(t) : In(B, Request(t, d)) /\ m = [to |-> d, tx |-> Request(t, d)]
               \/ Gives(c, B, t) /\ m = Answer(t, c)
  <2>1. PICK t \in tracked :
          \/ x = t
          \/ x = Original(t)
          \/ x = Final(Original(t)) /\ At(t) = c
          \/ \E d \in Asked(t) : \/ x = Request(t, d)
                                 \/ x = Response(d, Request(t, d)) /\ d = c
                                 \/ x = Proven(t, d) /\ At(t) = c
    BY <1>2, BlockEntries
  <2>2. PICK d \in Asked(t) : x = Request(t, d) \/ (x = Response(d, Request(t, d)) /\ d = c)
    BY <1>1, <1>2, <2>1
  <2>3. CASE x = Request(t, d)
    BY <1>1, <1>2, <2>3
  <2>4. CASE x = Response(d, Request(t, d)) /\ d = c
    <3>1. m = Answer(t, c) /\ Gives(c, B, t)
      BY <1>1, <1>2, <2>4 DEF Gives
    <3> QED BY <3>1
  <2> QED BY <2>2, <2>3, <2>4
<1>3. ASSUME NEW t \in tracked,
             \/ \E d \in Asked(t) : In(B, Request(t, d)) /\ m = [to |-> d, tx |-> Request(t, d)]
             \/ Gives(c, B, t) /\ m = Answer(t, c)
      PROVE  \E x : In(B, x) /\ m \in Routed(c, x)
  <2>1. CASE \E d \in Asked(t) : In(B, Request(t, d)) /\ m = [to |-> d, tx |-> Request(t, d)]
    BY <1>1, <2>1
  <2>2. CASE Gives(c, B, t) /\ m = Answer(t, c)
    <3>1. m \in Routed(c, Response(c, Request(t, c)))
      BY <1>1, <2>2 DEF Gives
    <3> QED BY <2>2, <3>1 DEF Gives
  <2> QED BY <1>3, <2>1, <2>2
<1> QED BY <1>2, <1>3

\* What the leader's report of block B says has finished, and been asked for.
LEMMA ReportFacts ==
  ASSUME Clients, NEW c, NEW P, NEW B \in Seq(TxType), BlockSound(c, P, B), NEW r,
         r.from = c, r.txs = ToSet(B)
  PROVE  /\ \A x : x \in Finished(r) <=> In(B, x) /\ \E t \in tracked : x = t \/ x = Final(Original(t))
         /\ \A x \in Requests(r) : \E t \in tracked : ifOrigRetOrigIfNotRetHash(x) = t.hash
<1>1. \A x : x \in r.txs <=> In(B, x)
  BY DEF ToSet, In
<1>2. r.from = c
  OBVIOUS
<1>3. ASSUME NEW t \in tracked
      PROVE  /\ t.hash # Nil /\ t.orig = Nil /\ Original(t).hash = Nil /\ Original(t).outs # {}
             /\ Final(Original(t)).hash # Nil /\ Final(Original(t)).orig = t.hash /\ ~Final(Original(t)).poc
             /\ \A d : /\ Request(t, d).hash = Nil /\ Request(t, d).orig = t.hash
                       /\ Proven(t, d).hash # Nil /\ Proven(t, d).orig # Nil /\ Proven(t, d).poc
                       /\ Response(d, Request(t, d)).hash # Nil
                       /\ Response(d, Request(t, d)).orig = t.hash
  <2>1. ClientTx(t) /\ t \in TxType /\ t.hash # Nil /\ t.orig = Nil /\ t.poc = FALSE /\ t.outs # {}
    BY Tracked, ClientFacts
  <2>2. \A h, d : CrossHash(h, d) # Nil /\ FinalHash(h) # Nil
    BY HashFacts
  <2>3. /\ Original(t).hash = Nil /\ Original(t).outs = t.outs
        /\ Final(Original(t)).hash = FinalHash(t.hash) /\ Final(Original(t)).orig = t.hash
        /\ Final(Original(t)).poc = t.poc
    BY <2>1, PieceFields
  <2>4. \A d : /\ Request(t, d).hash = Nil /\ Request(t, d).orig = t.hash
               /\ Proven(t, d).hash = CrossHash(t.hash, d) /\ Proven(t, d).orig = t.hash /\ Proven(t, d).poc
               /\ Response(d, Request(t, d)).hash = CrossHash(t.hash, d)
               /\ Response(d, Request(t, d)).orig = t.hash
    BY <2>1, PieceFields
  <2> QED BY <2>1, <2>2, <2>3, <2>4
<1>4. \A x : In(B, x) => \E t \in tracked :
        \/ x = t \/ x = Original(t) \/ (x = Final(Original(t)) /\ At(t) = c)
        \/ \E d \in Asked(t) : \/ x = Request(t, d) \/ x = Proven(t, d)
                               \/ x = Response(d, Request(t, d)) /\ d = c
  BY BlockEntries
<1>5. ASSUME NEW x, x \in Finished(r)
      PROVE  In(B, x) /\ \E t \in tracked : x = t \/ x = Final(Original(t))
  <2>1. In(B, x) /\ x.hash # Nil /\ (x.orig # Nil => ClosestCommittee(x.orig) = c /\ ~x.poc)
    BY <1>1, <1>2, <1>5 DEF Finished
  <2>2. PICK t \in tracked :
          \/ x = t \/ x = Original(t) \/ (x = Final(Original(t)) /\ At(t) = c)
          \/ \E d \in Asked(t) : \/ x = Request(t, d) \/ x = Proven(t, d)
                                 \/ x = Response(d, Request(t, d)) /\ d = c
    BY <1>4, <2>1
  <2>3. ASSUME NEW d \in Asked(t), x = Response(d, Request(t, d)), d = c
        PROVE  FALSE
    <3>1. ClosestCommittee(t.hash) = c /\ t.hash # Nil
      BY <1>3, <2>1, <2>3
    <3> QED BY <2>3, <3>1 DEF Asked, At
  <2> QED BY <1>3, <2>1, <2>2, <2>3
<1>6. ASSUME NEW x, In(B, x), NEW t \in tracked, x = t \/ x = Final(Original(t))
      PROVE  x \in Finished(r)
  <2>1. CASE x = t
    BY <1>1, <1>3, <1>6, <2>1 DEF Finished
  <2>2. CASE x = Final(Original(t))
    <3>1. At(t) = c
      <4>1. ClientTx(t) /\ \A u \in tracked : t.hash = u.hash => t = u
        BY Tracked
      <4> QED BY <1>6, <2>2, <4>1, BlockMembers
    <3>2. ClosestCommittee(x.orig) = c
      BY <1>3, <2>2, <3>1 DEF At
    <3> QED BY <1>1, <1>2, <1>3, <1>6, <2>2, <3>2 DEF Finished
  <2> QED BY <1>6, <2>1, <2>2
<1>7. ASSUME NEW x \in Requests(r)
      PROVE  \E t \in tracked : ifOrigRetOrigIfNotRetHash(x) = t.hash
  <2>1. In(B, x) /\ x.hash = Nil /\ x.outs = {}
    BY <1>1, <1>7 DEF Requests
  <2>2. PICK t \in tracked : \E d \in Asked(t) : x = Request(t, d)
    BY <1>3, <1>4, <2>1
  <2>3. x.orig = t.hash /\ t.hash # Nil
    BY <1>3, <2>2
  <2> QED BY <2>3 DEF ifOrigRetOrigIfNotRetHash
<1> QED BY <1>5, <1>6, <1>7

\* What committee c sends when it accepts block B.
Sends(c, B, m) ==
  \E t \in tracked :
    \/ \E d \in Asked(t) : In(B, Request(t, d)) /\ m = [to |-> d, tx |-> Request(t, d)]
    \/ Gives(c, B, t) /\ m = Answer(t, c)

\* Committee c accepts block B, with ledger l after it.
Accepts(c, B, l) ==
  /\ B \in Seq(TxType) /\ BlockSound(c, pool[c], B) /\ LedgerSays(c, B, l)
  /\ wallet' = wallet /\ tracked' = tracked /\ settled' = settled /\ dead' = dead /\ late' = late
  /\ utxo' = [utxo EXCEPT ![c] = l.utxo]
  /\ originals' = [originals EXCEPT ![c] = l.originals]
  /\ proposed' = [proposed EXCEPT ![c] = NoBlock]
  /\ pool' = [pool EXCEPT ![c] = PoolProcessBlock(pool[c], B)]
  /\ \A m : m \in net' <=> m \in net \/ Sends(c, B, m)
  /\ reports' = reports \cup {[from |-> c, txs |-> ToSet(B)]}

\* No member dies of a block that a leader made.
LEMMA AcceptDoes ==
  ASSUME IInv, NEW c \in Committees, Accept(c)
  PROVE  \E B, l : Accepts(c, B, l)
<1>1. PICK B, l : B = proposed[c] /\ l = processBlock(c, B)
  OBVIOUS
<1>2. B \in Seq(TxType) /\ BlockSound(c, pool[c], B)
  BY <1>1 DEF IInv, Types, Proposals
<1>3. Clients
  BY DEF IInv
<1>4. LedgerSays(c, B, l)
  BY <1>1, <1>2, LedgerTold
<1>5. ~l.fatal
  BY <1>4 DEF LedgerSays
<1>6. /\ proposed' = [proposed EXCEPT ![c] = NoBlock]
      /\ utxo' = [utxo EXCEPT ![c] = l.utxo]
      /\ originals' = [originals EXCEPT ![c] = l.originals]
      /\ pool' = [pool EXCEPT ![c] = PoolProcessBlock(pool[c], B)]
      /\ net' = net \cup UNION {Routed(c, B[i]) : i \in DOMAIN B}
      /\ reports' = reports \cup {[from |-> c, txs |-> ToSet(B)]}
      /\ dead' = dead /\ wallet' = wallet /\ tracked' = tracked /\ settled' = settled /\ late' = late
  BY <1>1, <1>5 DEF Accept
<1>7. ASSUME NEW m
      PROVE  m \in net' <=> m \in net \/ Sends(c, B, m)
  <2>1. m \in net' <=> m \in net \/ \E x : In(B, x) /\ m \in Routed(c, x)
    BY <1>6 DEF In
  <2>2. (\E x : In(B, x) /\ m \in Routed(c, x)) <=> Sends(c, B, m)
    BY <1>2, <1>3, RoutedFacts DEF Sends
  <2> QED BY <2>1, <2>2
<1>8. Accepts(c, B, l)
  BY <1>2, <1>4, <1>6, <1>7 DEF Accepts
<1> QED BY <1>8

\* What is on its way after committee c has accepted block B.
LEMMA WaysAfter ==
  ASSUME IInv, NEW c \in Committees, NEW B, NEW l, Accepts(c, B, l), NEW t \in tracked
  PROVE  /\ Waiting(t)' <=> Waiting(t) /\ ~In(B, t) /\ ~In(B, Original(t))
         /\ \A d \in Asked(t) :
              /\ Requested(t, d)' <=> (Requested(t, d) /\ ~In(B, Response(d, Request(t, d))))
                                      \/ In(B, Original(t))
              /\ Answered(t, d)' => Answered(t, d) \/ In(B, Response(d, Request(t, d)))
              /\ In(B, Response(d, Request(t, d))) => Answered(t, d)'
              /\ Answered(t, d) /\ ~In(B, Proven(t, d)) => Answered(t, d)'
              /\ In(B, Proven(t, d)) /\ Answered(t, d)' => Answer(t, d) \in late
<1>0. Clients /\ Shapes /\ B \in Seq(TxType) /\ BlockSound(c, pool[c], B)
  BY DEF IInv, Accepts
<1>1. ClientTx(t) /\ \A u \in tracked : ClientTx(u) /\ (t.hash = u.hash => t = u) /\ (u.hash = t.hash => u = t)
  BY <1>0, Tracked
<1>2. BlockSays(c, B, t)
  BY <1>0, BlockTold
<1>3. At(t) \in Committees /\ \A d \in Asked(t) : d \in Committees /\ d # At(t)
  BY <1>1, ClientFacts, PieceFacts
<1>4. \A e \in Committees : e # c => pool'[e] = pool[e]
  BY DEF Accepts, IInv, Types
<1>5. /\ At(t) = c => (t \in pool'[c] <=> t \in pool[c] /\ ~In(B, t) /\ ~In(B, Original(t)))
      /\ c \in Asked(t) => (Request(t, c) \in pool'[c] <=>
                              Request(t, c) \in pool[c] /\ ~In(B, Response(c, Request(t, c))))
      /\ \A d \in Asked(t) : At(t) = c =>
           (Proven(t, d) \in pool'[c] <=> Proven(t, d) \in pool[c] /\ ~In(B, Proven(t, d)))
  <2>1. PICK S : S = PoolProcessBlock(pool[c], B)
    OBVIOUS
  <2>2. pool'[c] = S
    BY <2>1 DEF Accepts, IInv, Types
  <2>3. /\ At(t) = c => (t \in S <=> t \in pool[c] /\ ~In(B, t) /\ ~In(B, Original(t)))
        /\ c \in Asked(t) => (Request(t, c) \in S <=>
                                Request(t, c) \in pool[c] /\ ~In(B, Response(c, Request(t, c))))
        /\ \A d \in Asked(t) : At(t) = c =>
             (Proven(t, d) \in S <=> Proven(t, d) \in pool[c] /\ ~In(B, Proven(t, d)))
    BY <1>0, <2>1, PoolLeft
  <2> QED BY <2>2, <2>3
<1>6. \A m : m \in net' <=> m \in net \/ Sends(c, B, m)
  BY DEF Accepts
<1>7. \A e : ~Sends(c, B, [to |-> e, tx |-> t])
  <2>1. \A u \in tracked : \A d : Request(u, d) # t /\ Proven(u, d) # t
    BY <1>1, Apart
  <2> QED BY <2>1 DEF Sends, Answer
<1>8. ASSUME NEW d \in Asked(t)
      PROVE  Sends(c, B, [to |-> d, tx |-> Request(t, d)]) <=> In(B, Request(t, d))
  <2>1. \A u \in tracked : \A e \in Asked(u) : Request(t, d) = Request(u, e) => t = u /\ d = e
    BY <1>1, <1>8, Apart
  <2>2. \A u \in tracked : Request(t, d) # Proven(u, c)
    BY <1>1, Apart
  <2>3. In(B, Request(t, d)) => Sends(c, B, [to |-> d, tx |-> Request(t, d)])
    BY <1>8 DEF Sends
  <2>4. ASSUME Sends(c, B, [to |-> d, tx |-> Request(t, d)])
        PROVE  In(B, Request(t, d))
    <3>1. PICK u \in tracked :
            \/ \E e \in Asked(u) : In(B, Request(u, e)) /\ [to |-> d, tx |-> Request(t, d)] = [to |-> e, tx |-> Request(u, e)]
            \/ [to |-> d, tx |-> Request(t, d)] = Answer(u, c)
      BY <2>4 DEF Sends
    <3>2. [to |-> d, tx |-> Request(t, d)] # Answer(u, c)
      BY <2>2 DEF Answer
    <3> QED BY <2>1, <3>1, <3>2
  <2> QED BY <2>3, <2>4
<1>9. ASSUME NEW d \in Asked(t)
      PROVE  Sends(c, B, Answer(t, d)) <=> In(B, Response(d, Request(t, d)))
  <2>1. \A u \in tracked : Proven(t, d) = Proven(u, c) => t = u /\ d = c
    BY <1>1, Apart
  <2>2. \A u \in tracked : \A e : Request(u, e) # Proven(t, d)
    BY <1>1, Apart
  <2>3. ASSUME In(B, Response(d, Request(t, d)))
        PROVE  Sends(c, B, Answer(t, d))
    <3>1. d = c
      BY <1>2, <1>9, <2>3 DEF BlockSays
    <3> QED BY <1>9, <2>3, <3>1 DEF Sends, Gives
  <2>4. ASSUME Sends(c, B, Answer(t, d))
        PROVE  In(B, Response(d, Request(t, d)))
    <3>1. PICK u \in tracked :
            \/ \E e \in Asked(u) : Answer(t, d) = [to |-> e, tx |-> Request(u, e)]
            \/ Gives(c, B, u) /\ Answer(t, d) = Answer(u, c)
      BY <2>4 DEF Sends
    <3>2. ~\E e \in Asked(u) : Answer(t, d) = [to |-> e, tx |-> Request(u, e)]
      BY <2>2 DEF Answer
    <3>3. Proven(t, d) = Proven(u, c) /\ Gives(c, B, u)
      BY <3>1, <3>2 DEF Answer
    <3> QED BY <2>1, <3>3 DEF Gives
  <2> QED BY <2>3, <2>4
<1>10. \A e, u : [to |-> e, tx |-> u] \in net /\ u \in pool[e] =>
         \E v \in tracked : \E d \in Asked(v) : e = At(v) /\ u = Proven(v, d) /\ [to |-> e, tx |-> u] \in late
  <2>1. ASSUME NEW e, NEW u, [to |-> e, tx |-> u] \in net, u \in pool[e]
        PROVE  \E v \in tracked : \E d \in Asked(v) : e = At(v) /\ u = Proven(v, d) /\ [to |-> e, tx |-> u] \in late
    <3>1. [to |-> e, tx |-> u] \in late
      BY <1>0, <2>1 DEF Shapes
    <3>2. PICK v \in tracked : \E d \in Asked(v) : [to |-> e, tx |-> u] = Answer(v, d)
      BY <1>0, <3>1 DEF Shapes
    <3> QED BY <3>1, <3>2 DEF Answer
  <2> QED BY <2>1
<1>11. Waiting(t)' <=> Waiting(t) /\ ~In(B, t) /\ ~In(B, Original(t))
  <2>1. [to |-> At(t), tx |-> t] \in net' <=> [to |-> At(t), tx |-> t] \in net
    BY <1>6, <1>7
  <2>2. t \in pool'[At(t)] <=> t \in pool[At(t)] /\ ~In(B, t) /\ ~In(B, Original(t))
    BY <1>2, <1>3, <1>4, <1>5 DEF BlockSays
  <2>3. In(B, t) \/ In(B, Original(t)) => [to |-> At(t), tx |-> t] \notin net
    <3>1. \A u \in tracked : \A d : Proven(u, d) # t
      BY <1>1, Apart
    <3>2. In(B, t) \/ In(B, Original(t)) => t \in pool[At(t)]
      BY <1>2 DEF BlockSays
    <3> QED BY <1>10, <3>1, <3>2
  <2> QED BY <2>1, <2>2, <2>3 DEF Waiting, OnWay
<1>12. ASSUME NEW d \in Asked(t)
       PROVE  Requested(t, d)' <=> (Requested(t, d) /\ ~In(B, Response(d, Request(t, d)))) \/ In(B, Original(t))
  <2>1. [to |-> d, tx |-> Request(t, d)] \in net' <=>
          [to |-> d, tx |-> Request(t, d)] \in net \/ In(B, Original(t))
    BY <1>2, <1>6, <1>8, <1>12 DEF BlockSays
  <2>2. Request(t, d) \in pool'[d] <=> Request(t, d) \in pool[d] /\ ~In(B, Response(d, Request(t, d)))
    <3>1. CASE d = c
      BY <1>5, <1>12, <3>1
    <3>2. CASE d # c
      BY <1>2, <1>3, <1>4, <1>12, <3>2 DEF BlockSays
    <3> QED BY <3>1, <3>2
  <2>3. In(B, Response(d, Request(t, d))) => [to |-> d, tx |-> Request(t, d)] \notin net
    <3>1. \A u \in tracked : \A e : Proven(u, e) # Request(t, d)
      <4>1. \A u \in tracked : \A e : Request(t, d) # Proven(u, e)
        BY <1>1, Apart
      <4> QED BY <4>1
    <3>2. In(B, Response(d, Request(t, d))) => Request(t, d) \in pool[d]
      BY <1>2, <1>12 DEF BlockSays
    <3> QED BY <1>10, <3>1, <3>2
  <2> QED BY <2>1, <2>2, <2>3 DEF Requested, OnWay
<1>13. ASSUME NEW d \in Asked(t)
       PROVE  /\ Answered(t, d)' => Answered(t, d) \/ In(B, Response(d, Request(t, d)))
              /\ In(B, Response(d, Request(t, d))) => Answered(t, d)'
              /\ Answered(t, d) /\ ~In(B, Proven(t, d)) => Answered(t, d)'
              /\ In(B, Proven(t, d)) /\ Answered(t, d)' => Answer(t, d) \in late
  <2>1. Answer(t, d) \in net' <=> Answer(t, d) \in net \/ In(B, Response(d, Request(t, d)))
    BY <1>6, <1>9, <1>13
  <2>2. Proven(t, d) \in pool'[At(t)] <=> Proven(t, d) \in pool[At(t)] /\ ~In(B, Proven(t, d))
    <3>1. CASE At(t) = c
      BY <1>5, <1>13, <3>1
    <3>2. CASE At(t) # c
      BY <1>2, <1>3, <1>4, <1>13, <3>2 DEF BlockSays
    <3> QED BY <3>1, <3>2
  <2>3. In(B, Proven(t, d)) => /\ Proven(t, d) \in pool[At(t)] /\ ~In(B, Response(d, Request(t, d)))
    BY <1>2, <1>13 DEF BlockSays
  <2>4. Answer(t, d) \in net /\ Proven(t, d) \in pool[At(t)] => Answer(t, d) \in late
    BY <1>10 DEF Answer
  <2>5. /\ Answered(t, d) <=> Answer(t, d) \in net \/ Proven(t, d) \in pool[At(t)]
        /\ Answered(t, d)' <=> Answer(t, d) \in net' \/ Proven(t, d) \in pool'[At(t)]
    BY DEF Answered, OnWay, Answer
  <2> QED BY <2>1, <2>2, <2>3, <2>4, <2>5
<1> QED BY <1>11, <1>12, <1>13

\* What is said of transaction t after committee c has accepted block B.
After(c, B, t) ==
  /\ Waiting(t)' <=> Waiting(t) /\ ~In(B, t) /\ ~In(B, Original(t))
  /\ Open(t)' <=> (Open(t) /\ ~In(B, Final(Original(t)))) \/ In(B, Original(t))
  /\ t.hash \in Done' <=> t.hash \in Done \/ Finishes(B, t)
  /\ \A d \in Asked(t) :
       /\ Requested(t, d)' <=> (Requested(t, d) /\ ~In(B, Response(d, Request(t, d))))
                               \/ In(B, Original(t))
       /\ Answered(t, d)' => Answered(t, d) \/ In(B, Response(d, Request(t, d)))
       /\ In(B, Response(d, Request(t, d))) => Answered(t, d)'
       /\ Answered(t, d) /\ ~In(B, Proven(t, d)) => Answered(t, d)'
       /\ In(B, Proven(t, d)) /\ Answered(t, d)' => Answer(t, d) \in late

\* Which names are done, in blocks that are reported or settled.
LEMMA DoneAfter ==
  ASSUME IInv, NEW c \in Committees, NEW B, NEW l, Accepts(c, B, l)
  PROVE  \A h : h \in Done' <=> h \in Done \/ \E t \in tracked : h = t.hash /\ Finishes(B, t)
<1>0. Clients /\ B \in Seq(TxType) /\ BlockSound(c, pool[c], B)
  BY DEF IInv, Accepts
<1>1. PICK r : r = [from |-> c, txs |-> ToSet(B)]
  OBVIOUS
<1>a. r.from = c /\ r.txs = ToSet(B)
  BY <1>1
<1>2. \A x : x \in Finished(r) <=> In(B, x) /\ \E t \in tracked : x = t \/ x = Final(Original(t))
  BY <1>0, <1>a, ReportFacts
<1>3. reports' = reports \cup {r} /\ settled' = settled
  BY <1>1 DEF Accepts
<1>4. \A h : h \in Done <=> h \in settled \/ \E q \in reports : \E x \in Finished(q) : ifOrigRetOrigIfNotRetHash(x) = h
  BY DEF Done, Finishing
<1>5. \A h : h \in Done' <=> h \in settled' \/ \E q \in reports' : \E x \in Finished(q) : ifOrigRetOrigIfNotRetHash(x) = h
  BY DEF Done, Finishing
<1>6. \A h : h \in Done' <=> h \in Done \/ \E x \in Finished(r) : ifOrigRetOrigIfNotRetHash(x) = h
  BY <1>3, <1>4, <1>5
<1>7. \A t \in tracked : ifOrigRetOrigIfNotRetHash(t) = t.hash /\ ifOrigRetOrigIfNotRetHash(Final(Original(t))) = t.hash
  BY <1>0, Tracked, PieceFacts
<1>8. \A h : (\E x \in Finished(r) : ifOrigRetOrigIfNotRetHash(x) = h)
               <=> \E t \in tracked : h = t.hash /\ Finishes(B, t)
  <2>1. ASSUME NEW h, NEW x \in Finished(r), ifOrigRetOrigIfNotRetHash(x) = h
        PROVE  \E t \in tracked : h = t.hash /\ Finishes(B, t)
    BY <1>2, <1>7, <2>1 DEF Finishes
  <2>2. ASSUME NEW t \in tracked, Finishes(B, t)
        PROVE  \E x \in Finished(r) : ifOrigRetOrigIfNotRetHash(x) = t.hash
    <3>1. CASE In(B, t)
      <4>1. t \in Finished(r)
        BY <1>2, <3>1
      <4> QED BY <1>7, <4>1
    <3>2. CASE In(B, Final(Original(t)))
      <4>1. Final(Original(t)) \in Finished(r)
        BY <1>2, <3>2
      <4> QED BY <1>7, <4>1
    <3> QED BY <2>2, <3>1, <3>2 DEF Finishes
  <2> QED BY <2>1, <2>2
<1> QED BY <1>6, <1>8

\* Where transaction t is after committee c has accepted block B.
LEMMA AcceptTold ==
  ASSUME IInv, NEW c \in Committees, NEW B, NEW l, Accepts(c, B, l), NEW t \in tracked
  PROVE  After(c, B, t)
<1>0. Clients /\ B \in Seq(TxType) /\ BlockSound(c, pool[c], B) /\ LedgerSays(c, B, l)
  BY DEF IInv, Accepts
<1>1. Waiting(t)' <=> Waiting(t) /\ ~In(B, t) /\ ~In(B, Original(t))
  BY WaysAfter
<1>2. \A d \in Asked(t) :
        /\ Requested(t, d)' <=> (Requested(t, d) /\ ~In(B, Response(d, Request(t, d))))
                                \/ In(B, Original(t))
        /\ Answered(t, d)' => Answered(t, d) \/ In(B, Response(d, Request(t, d)))
        /\ In(B, Response(d, Request(t, d))) => Answered(t, d)'
        /\ Answered(t, d) /\ ~In(B, Proven(t, d)) => Answered(t, d)'
        /\ In(B, Proven(t, d)) /\ Answered(t, d)' => Answer(t, d) \in late
  BY WaysAfter
<1>3. t.hash \in Done' <=> t.hash \in Done \/ Finishes(B, t)
  <2>1. \A u \in tracked : t.hash = u.hash => t = u
    BY <1>0, Tracked
  <2> QED BY <2>1, DoneAfter
<1>4. Open(t)' <=> (Open(t) /\ ~In(B, Final(Original(t)))) \/ In(B, Original(t))
  <2>1. originals \in [Committees -> SUBSET TxType] /\ originals' = [originals EXCEPT ![c] = l.originals]
    BY DEF IInv, Types, Accepts
  <2>2. CASE At(t) = c
    <3>1. originals'[c] = l.originals
      BY <2>1
    <3> QED BY <1>0, <2>2, <3>1 DEF Open, LedgerSays
  <2>3. CASE At(t) # c
    <3>1. originals'[At(t)] = originals[At(t)]
      BY <2>1, <2>3
    <3>2. ~In(B, Final(Original(t))) /\ ~In(B, Original(t))
      <4>1. BlockSays(c, B, t)
        BY <1>0, BlockTold
      <4> QED BY <2>3, <4>1 DEF BlockSays
    <3> QED BY <3>1, <3>2 DEF Open
  <2> QED BY <2>2, <2>3
<1> QED BY <1>1, <1>2, <1>3, <1>4 DEF After

\* With the final transaction of t, nothing of t is on its way but what came twice.
LEMMA NothingLeft ==
  ASSUME IInv, NEW c \in Committees, NEW B, NEW l, Accepts(c, B, l), NEW t \in tracked,
         In(B, Final(Original(t))), NEW d \in Asked(t)
  PROVE  ~Requested(t, d) /\ (Answered(t, d)' => Answer(t, d) \in late)
<1>0. Clients /\ B \in Seq(TxType) /\ BlockSound(c, pool[c], B)
  BY DEF IInv, Accepts
<1>1. BlockSays(c, B, t) /\ After(c, B, t) /\ ClientTx(t)
  BY <1>0, BlockTold, AcceptTold, Tracked
<1>2. PICK o \in Part(t, d) : o \in t.ins /\ Owner(o) = d
  BY <1>1, PieceFacts
<1>3. At(t) = c /\ d # c
  BY <1>1 DEF BlockSays, Asked
<1>4. o \in utxo[c] \/ In(B, Proven(t, d))
  BY <1>1, <1>2 DEF BlockSays
<1>5. CASE In(B, Proven(t, d))
  BY <1>1, <1>5 DEF BlockSays, After
<1>6. CASE o \in utxo[c]
  <2>1. \/ Answer(t, d) \in late
        \/ ~Requested(t, d) /\ ~Answered(t, d)
    BY <1>2, <1>3, <1>6, Arrived
  <2>2. Answer(t, d) \in late => ~Requested(t, d)
    BY LateFacts
  <2>3. Answered(t, d)' => Answered(t, d)
    BY <1>1, <1>3 DEF BlockSays, After
  <2> QED BY <2>1, <2>2, <2>3
<1> QED BY <1>4, <1>5, <1>6

\* Transactions go from waiting to open to done.
LEMMA StagesAfter ==
  ASSUME IInv, NEW c \in Committees, NEW B, NEW l, Accepts(c, B, l)
  PROVE  Stages'
<1>0. Clients /\ Stages /\ B \in Seq(TxType) /\ BlockSound(c, pool[c], B) /\ tracked' = tracked /\ late' = late
  BY DEF IInv, Accepts
<1>1. ASSUME NEW t \in tracked
      PROVE  /\ Waiting(t)' \/ Open(t)' \/ t.hash \in Done'
             /\ Waiting(t)' => ~Open(t)' /\ t.hash \notin Done'
             /\ Open(t)' => t.hash \notin Done'
             /\ \A d \in Asked(t) : /\ Requested(t, d)' => Open(t)' /\ ~Answered(t, d)'
                                    /\ Answered(t, d)' /\ Answer(t, d) \notin late => Open(t)'
  <2>1. BlockSays(c, B, t) /\ After(c, B, t)
    BY <1>0, BlockTold, AcceptTold
  <2>2. /\ Waiting(t) \/ Open(t) \/ t.hash \in Done
        /\ Waiting(t) => ~Open(t) /\ t.hash \notin Done
        /\ Open(t) => t.hash \notin Done
        /\ \A d \in Asked(t) : /\ Requested(t, d) => Open(t) /\ ~Answered(t, d)
                               /\ Answered(t, d) /\ Answer(t, d) \notin late => Open(t)
    BY <1>0 DEF Stages
  <2>3. Waiting(t)' \/ Open(t)' \/ t.hash \in Done'
    BY <2>1, <2>2 DEF After, Finishes
  <2>4. Waiting(t)' => ~Open(t)' /\ t.hash \notin Done'
    BY <2>1, <2>2 DEF After, Finishes, BlockSays
  <2>5. Open(t)' => t.hash \notin Done'
    BY <2>1, <2>2 DEF After, Finishes, BlockSays
  <2>6. ASSUME NEW d \in Asked(t)
        PROVE  /\ Requested(t, d)' => Open(t)' /\ ~Answered(t, d)'
               /\ Answered(t, d)' /\ Answer(t, d) \notin late => Open(t)'
    <3>1. In(B, Final(Original(t))) => ~Requested(t, d) /\ (Answered(t, d)' => Answer(t, d) \in late)
      BY <2>6, NothingLeft
    <3>2. In(B, Response(d, Request(t, d))) => ~In(B, Original(t)) /\ ~In(B, Final(Original(t))) /\ Open(t)
      BY <2>1, <2>6 DEF BlockSays
    <3>3. In(B, Original(t)) => ~Answered(t, d)
      BY <2>1, <2>6 DEF BlockSays
    <3> QED BY <2>1, <2>2, <2>6, <3>1, <3>2, <3>3 DEF After
  <2> QED BY <2>3, <2>4, <2>5, <2>6
<1> QED BY <1>0, <1>1 DEF Stages

\* The outputs of the transactions that are done stay where they are.
LEMMA CreatedAfter ==
  ASSUME IInv, NEW c \in Committees, NEW B, NEW l, Accepts(c, B, l)
  PROVE  /\ Created(Done)' = Created(Done')
         /\ Created(Done) \subseteq Created(Done')
         /\ \A o \in Created(Done') \ Taken : o \notin Created(Done) =>
              \E t \in tracked : o \in t.outs /\ Finishes(B, t) /\ Owner(o) = c
         /\ \A o \in Created(Done') \ Taken : o \in utxo'[Owner(o)]
<1>0. /\ Clients /\ Lower /\ B \in Seq(TxType) /\ BlockSound(c, pool[c], B) /\ LedgerSays(c, B, l)
      /\ tracked' = tracked
  BY DEF IInv, Accepts
<1>1. /\ utxo'[c] = l.utxo /\ \A e \in Committees : e # c => utxo'[e] = utxo[e]
  BY DEF Accepts, IInv, Types
<1>2. \A h : h \in Done' <=> h \in Done \/ \E t \in tracked : h = t.hash /\ Finishes(B, t)
  BY DoneAfter
<1>3. Created(Done)' = Created(Done')
  BY <1>0 DEF Created
<1>4. Created(Done) \subseteq Created(Done')
  BY <1>2 DEF Created
<1>5. ASSUME NEW o \in Created(Done') \ Taken, o \notin Created(Done)
      PROVE  \E t \in tracked : o \in t.outs /\ Finishes(B, t) /\ Owner(o) = c
  <2>1. PICK t \in tracked : t.hash \in Done' /\ o \in t.outs
    BY <1>5 DEF Created
  <2>2. t.hash \notin Done
    BY <1>5, <2>1 DEF Created
  <2>3. PICK u \in tracked : t.hash = u.hash /\ Finishes(B, u)
    BY <1>2, <2>1, <2>2
  <2>4. t = u
    BY <1>0, <2>3, Tracked
  <2>5. BlockSays(c, B, t)
    BY <1>0, BlockTold
  <2>6. In(B, t) \/ In(B, Final(Original(t)))
    BY <2>3, <2>4 DEF Finishes
  <2>7. Owner(o) = c
    BY <2>1, <2>5, <2>6, NewOutputs
  <2> QED BY <2>1, <2>3, <2>4, <2>7
<1>6. ASSUME NEW o \in Created(Done') \ Taken
      PROVE  o \in utxo'[Owner(o)]
  <2>1. o \in OutputSet /\ Owner(o) \in Committees
    BY <1>6, OutputFacts DEF Created
  <2>2. CASE o \in Created(Done)
    <3>1. o \in utxo[Owner(o)]
      BY <1>0, <1>6, <2>2 DEF Lower
    <3>2. utxo[c] \ Taken \subseteq l.utxo
      BY <1>0 DEF LedgerSays
    <3> QED BY <1>1, <1>6, <2>1, <3>1, <3>2
  <2>3. CASE o \notin Created(Done)
    <3>1. PICK t \in tracked : o \in t.outs /\ Finishes(B, t) /\ Owner(o) = c
      BY <1>5, <1>6, <2>3
    <3>2. t.outs \subseteq l.utxo
      BY <1>0, <3>1 DEF LedgerSays
    <3> QED BY <1>1, <3>1, <3>2
  <2> QED BY <2>2, <2>3
<1> QED BY <1>3, <1>4, <1>5, <1>6

\* The inputs of a transaction that is not done stay, are handed over or arrive.
LEMMA HeldAfter ==
  ASSUME IInv, NEW c \in Committees, NEW B, NEW l, Accepts(c, B, l), NEW t \in tracked,
         t.hash \notin Done', NEW o \in t.ins
  PROVE  Held(t, o)'
<1>0. /\ Clients /\ Lower /\ B \in Seq(TxType) /\ BlockSound(c, pool[c], B) /\ LedgerSays(c, B, l)
  BY DEF IInv, Accepts
<1>1. /\ utxo'[c] = l.utxo /\ \A e \in Committees : e # c => utxo'[e] = utxo[e]
  BY DEF Accepts, IInv, Types
<1>2. BlockSays(c, B, t) /\ After(c, B, t) /\ ClientTx(t)
  BY <1>0, BlockTold, AcceptTold, Tracked
<1>3. Owner(o) \in Committees /\ At(t) \in Committees /\ (Owner(o) # At(t) => Owner(o) \in Asked(t))
  BY <1>2, ClientFacts DEF Asked
<1>4. t.hash \notin Done /\ ~In(B, t) /\ ~In(B, Final(Original(t)))
  BY <1>2 DEF After, Finishes
<1>5. Held(t, o)
  BY <1>0, <1>4 DEF Lower
<1>6. /\ (o \in utxo[c] \/ Brings(B, t, o)) /\ ~(Gives(c, B, t) /\ Owner(o) = c) => o \in l.utxo
  BY <1>0, <1>4 DEF LedgerSays, Takes, Finishes
<1>7. CASE Owner(o) = At(t)
  <2>1. o \in utxo[At(t)]
    BY <1>5, <1>7 DEF Held
  <2>2. At(t) = c => ~Gives(c, B, t)
    BY DEF Gives, Asked
  <2>3. o \in utxo'[At(t)]
    BY <1>1, <1>3, <1>6, <2>1, <2>2
  <2> QED BY <1>7, <2>3 DEF Held
<1>8. CASE Owner(o) # At(t)
  <2>1. Owner(o) \in Asked(t)
    BY <1>3, <1>8
  <2> DEFINE d == Owner(o)
  <2>2. o \in utxo[d] /\ ~In(B, Response(d, Request(t, d))) => o \in utxo'[d]
    BY <1>1, <1>3, <1>6 DEF Gives
  <2>3. CASE Waiting(t)'
    <3>1. Waiting(t) /\ ~In(B, Response(d, Request(t, d)))
      BY <1>2, <2>1, <2>3 DEF After, BlockSays
    <3>2. o \in utxo'[d]
      BY <1>5, <2>2, <3>1 DEF Held
    <3> QED BY <2>3, <3>2 DEF Held
  <2>4. CASE Requested(t, d)'
    <3>1. (Requested(t, d) \/ Waiting(t)) /\ ~In(B, Response(d, Request(t, d)))
      BY <1>2, <2>1, <2>4 DEF After, BlockSays
    <3>2. o \in utxo'[d]
      BY <1>5, <2>2, <3>1 DEF Held
    <3> QED BY <2>4, <3>2 DEF Held
  <2>5. CASE ~Waiting(t)' /\ ~Requested(t, d)'
    <3>1. ~Waiting(t)
      BY <1>2, <1>4, <2>1, <2>5 DEF After
    <3>2. Requested(t, d) => Answered(t, d)'
      BY <1>2, <2>1, <2>5 DEF After
    <3>3. ~Requested(t, d) => Answered(t, d) \/ o \in utxo[At(t)]
      BY <1>5, <1>8, <3>1 DEF Held
    <3>4. At(t) = c => ~Gives(c, B, t)
      BY DEF Gives, Asked
    <3>5. o \in utxo[At(t)] => o \in utxo'[At(t)]
      BY <1>1, <1>3, <1>6, <3>4
    <3>6. Answered(t, d) => Answered(t, d)' \/ o \in utxo'[At(t)]
      <4>1. CASE ~In(B, Proven(t, d))
        BY <1>2, <2>1, <4>1 DEF After
      <4>2. CASE In(B, Proven(t, d))
        <5>1. At(t) = c /\ Brings(B, t, o)
          BY <1>2, <2>1, <4>2 DEF BlockSays, Brings
        <5> QED BY <1>1, <1>6, <3>4, <5>1
      <4> QED BY <4>1, <4>2
    <3>7. Answered(t, d)' \/ o \in utxo'[At(t)]
      BY <3>2, <3>3, <3>5, <3>6
    <3> QED BY <1>8, <2>5, <3>7 DEF Held
  <2> QED BY <2>3, <2>4, <2>5
<1> QED BY <1>7, <1>8

\* An open transaction has an input that is not there.
LEMMA OpenAfter ==
  ASSUME IInv, NEW c \in Committees, NEW B, NEW l, Accepts(c, B, l), NEW t \in tracked, Open(t)'
  PROVE  ~(t.ins \subseteq utxo'[At(t)])
<1>0. /\ Clients /\ Lower /\ B \in Seq(TxType) /\ BlockSound(c, pool[c], B) /\ LedgerSays(c, B, l)
  BY DEF IInv, Accepts
<1>1. /\ utxo'[c] = l.utxo /\ \A e \in Committees : e # c => utxo'[e] = utxo[e]
  BY DEF Accepts, IInv, Types
<1>2. BlockSays(c, B, t) /\ After(c, B, t) /\ ClientTx(t)
  BY <1>0, BlockTold, AcceptTold, Tracked
<1>3. At(t) \in Committees
  BY <1>2, ClientFacts
<1>4. \A o \in t.ins : o \in l.utxo => o \in utxo[c] \/ Brings(B, t, o)
  BY <1>0 DEF LedgerSays
<1>5. CASE Open(t) /\ ~In(B, Final(Original(t)))
  <2>1. PICK o \in t.ins : o \notin utxo[At(t)]
    BY <1>0, <1>5 DEF Lower
  <2>2. CASE At(t) # c
    BY <1>1, <1>3, <2>1, <2>2
  <2>3. CASE At(t) = c
    <3>1. SUFFICES ASSUME t.ins \subseteq l.utxo PROVE FALSE
      BY <1>1, <2>3
    <3>2. Brings(B, t, o)
      BY <1>4, <2>1, <2>3, <3>1
    <3>3. \A p \in t.ins : p \in utxo[c] \/ In(B, Proven(t, Owner(p)))
      BY <1>4, <3>1 DEF Brings
    <3>4. Closed(c, B, t)
      BY <1>0, <2>3 DEF BlockSound
    <3> QED BY <1>5, <3>2, <3>3, <3>4 DEF Closed, Brings
  <2> QED BY <2>2, <2>3
<1>6. CASE In(B, Original(t))
  <2>1. At(t) = c /\ Asked(t) # {} /\ Waiting(t) /\ ~Open(t)
    BY <1>2, <1>6 DEF BlockSays
  <2>2. PICK d \in Asked(t) : TRUE
    BY <2>1
  <2>3. PICK o \in Part(t, d) : o \in t.ins /\ Owner(o) = d
    BY <1>2, <2>2, PieceFacts
  <2>4. ~Brings(B, t, o)
    BY <1>2, <2>1, <2>2, <2>3 DEF BlockSays, Brings
  <2>5. o \notin utxo[c]
    <3>1. Answer(t, d) \notin late
      BY <2>1, LateFacts
    <3> QED BY <2>1, <2>3, <3>1, Arrived
  <2> QED BY <1>1, <1>4, <2>1, <2>3, <2>4, <2>5
<1> QED BY <1>2, <1>5, <1>6 DEF After

\* Nothing is lost by a block.
LEMMA LowerAfter ==
  ASSUME IInv, NEW c \in Committees, NEW B, NEW l, Accepts(c, B, l)
  PROVE  Lower'
<1>1. tracked' = tracked
  BY DEF Accepts
<1>2. Taken' = Taken
  BY <1>1 DEF Taken
<1>3. Created(Done)' = Created(Done') /\ \A o \in Created(Done') \ Taken : o \in utxo'[Owner(o)]
  BY CreatedAfter
<1>4. \A t \in tracked : t.hash \notin Done' => \A o \in t.ins : Held(t, o)'
  BY HeldAfter
<1>5. \A t \in tracked : Open(t)' => ~(t.ins \subseteq utxo'[At(t)])
  BY OpenAfter
<1> QED BY <1>1, <1>2, <1>3, <1>4, <1>5 DEF Lower

\* What a ledger has beside the late outputs after a block of another committee.
LEMMA OthersAfter ==
  ASSUME IInv, NEW c \in Committees, NEW B, NEW l, Accepts(c, B, l), NEW e \in Committees, e # c,
         NEW o \in utxo[e]
  PROVE  o \in Lately \/ Placed(e, o)'
<1>0. Clients /\ Stages /\ Upper /\ B \in Seq(TxType) /\ BlockSound(c, pool[c], B) /\ tracked' = tracked
  BY DEF IInv, Accepts
<1>1. SUFFICES ASSUME o \notin Lately PROVE Placed(e, o)'
  OBVIOUS
<1>2. Placed(e, o)
  BY <1>0, <1>1 DEF Upper
<1>3. Taken' = Taken /\ Created(Done)' = Created(Done') /\ Created(Done) \subseteq Created(Done')
  BY <1>0, CreatedAfter DEF Taken
<1>4. CASE o \in Created(Done) \ Taken /\ e = Owner(o)
  BY <1>3, <1>4 DEF Placed
<1>5. ASSUME NEW t \in tracked, t.hash \notin Done, o \in t.ins,
             \/ e = Owner(o) /\ (e = At(t) \/ Waiting(t) \/ Requested(t, e))
             \/ /\ e = At(t) /\ e # Owner(o) /\ Open(t)
                /\ ~Requested(t, Owner(o)) /\ ~Answered(t, Owner(o))
      PROVE  Placed(e, o)'
  <2>1. BlockSays(c, B, t) /\ After(c, B, t) /\ ClientTx(t)
    BY <1>0, BlockTold, AcceptTold, Tracked
  <2>2. Owner(o) # At(t) => Owner(o) \in Asked(t)
    BY <1>5 DEF Asked
  <2>3. t.hash \notin Done'
    <3>1. SUFFICES ASSUME Finishes(B, t) PROVE FALSE
      BY <1>5, <2>1 DEF After
    <3>2. At(t) = c
      BY <2>1, <3>1 DEF Finishes, BlockSays
    <3>3. e = Owner(o) /\ e \in Asked(t) /\ (Waiting(t) \/ Requested(t, e))
      BY <1>0, <1>5, <2>2, <3>2
    <3>4. ~In(B, t)
      BY <2>1, <3>3 DEF BlockSays
    <3>5. In(B, Final(Original(t)))
      BY <3>1, <3>4 DEF Finishes
    <3>6. ~Waiting(t) /\ ~Requested(t, e)
      BY <2>1, <3>3, <3>5, NothingLeft DEF BlockSays
    <3> QED BY <3>3, <3>6
  <2>4. ~In(B, t) /\ ~In(B, Final(Original(t)))
    BY <2>1, <2>3 DEF After, Finishes
  <2>5. CASE e = Owner(o) /\ (e = At(t) \/ Waiting(t) \/ Requested(t, e))
    <3>1. e = At(t) \/ Waiting(t)' \/ Requested(t, e)'
      BY <1>0, <2>1, <2>2, <2>4, <2>5 DEF After, BlockSays
    <3> QED BY <1>0, <1>5, <2>3, <2>5, <3>1 DEF Placed
  <2>6. CASE /\ e = At(t) /\ e # Owner(o) /\ Open(t)
             /\ ~Requested(t, Owner(o)) /\ ~Answered(t, Owner(o))
    <3>1. Owner(o) \in Asked(t) /\ At(t) # c
      BY <1>0, <2>2, <2>6
    <3>2. Open(t)' /\ ~Requested(t, Owner(o))'
      BY <2>1, <2>4, <2>6, <3>1 DEF After, BlockSays
    <3>3. ~Answered(t, Owner(o))'
      BY <2>1, <2>6, <3>1 DEF After, BlockSays
    <3> QED BY <1>0, <1>5, <2>3, <2>6, <3>2, <3>3 DEF Placed
  <2> QED BY <1>5, <2>5, <2>6
<1> QED BY <1>2, <1>4, <1>5 DEF Placed

\* What the ledger of committee c has beside the late outputs after its block.
LEMMA OwnAfter ==
  ASSUME IInv, NEW c \in Committees, NEW B, NEW l, Accepts(c, B, l), NEW o \in l.utxo
  PROVE  o \in Lately \/ Placed(c, o)'
<1>0. /\ Clients /\ Stages /\ Upper /\ B \in Seq(TxType) /\ BlockSound(c, pool[c], B)
      /\ LedgerSays(c, B, l) /\ tracked' = tracked
  BY DEF IInv, Accepts
<1>1. SUFFICES ASSUME o \notin Lately PROVE Placed(c, o)'
  OBVIOUS
<1>2. Taken' = Taken /\ Created(Done)' = Created(Done') /\ Created(Done) \subseteq Created(Done')
  BY <1>0, CreatedAfter DEF Taken
<1>3. o \in utxo[c] => Placed(c, o)
  BY <1>0, <1>1 DEF Upper
<1>4. CASE o \notin Taken
  <2>1. ~\E t \in tracked : o \in t.ins
    BY <1>4 DEF Taken
  <2>2. CASE o \in utxo[c]
    <3>1. o \in Created(Done) /\ c = Owner(o)
      BY <1>3, <2>1, <2>2 DEF Placed
    <3> QED BY <1>2, <1>4, <3>1 DEF Placed
  <2>3. ASSUME NEW t \in tracked, o \in t.outs, Finishes(B, t)
        PROVE  Placed(c, o)'
    <3>1. BlockSays(c, B, t) /\ After(c, B, t)
      BY <1>0, BlockTold, AcceptTold
    <3>2. In(B, t) \/ In(B, Final(Original(t)))
      BY <2>3 DEF Finishes
    <3>3. o \in OutputSet /\ Owner(o) = c
      BY <2>3, <3>1, <3>2, NewOutputs
    <3>4. t.hash \in Done'
      BY <2>3, <3>1 DEF After
    <3>5. o \in Created(Done')
      BY <2>3, <3>3, <3>4 DEF Created
    <3> QED BY <1>2, <1>4, <3>3, <3>5 DEF Placed
  <2> QED BY <1>0, <1>4, <2>2, <2>3 DEF LedgerSays
<1>5. ASSUME NEW t \in tracked, o \in t.ins
      PROVE  Placed(c, o)'
  <2>1. BlockSays(c, B, t) /\ After(c, B, t) /\ ClientTx(t)
    BY <1>0, BlockTold, AcceptTold, Tracked
  <2>2. Owner(o) # At(t) => Owner(o) \in Asked(t)
    BY <1>5 DEF Asked
  <2>3. (o \in utxo[c] \/ Brings(B, t, o)) /\ ~Takes(c, B, t, o)
    BY <1>0, <1>1, <1>5 DEF LedgerSays
  <2>4. ~In(B, t) /\ ~In(B, Final(Original(t))) /\ ~(Gives(c, B, t) /\ Owner(o) = c)
    BY <2>3 DEF Takes, Finishes
  <2>5. t.hash \notin Done => t.hash \notin Done'
    BY <2>1, <2>4 DEF After, Finishes
  <2> DEFINE d == Owner(o)
  <2>6. CASE Brings(B, t, o)
    <3>1. d \in Asked(t) /\ In(B, Proven(t, d))
      BY <2>6 DEF Brings
    <3>2. At(t) = c /\ c # d
      BY <2>1, <3>1 DEF BlockSays, Asked
    <3>3. t.hash \notin Done /\ Open(t)' /\ ~Requested(t, d)'
      BY <2>1, <2>4, <3>1 DEF BlockSays, After
    <3>4. ~Answered(t, d)'
      <4>1. SUFFICES ASSUME Answered(t, d)' PROVE FALSE
        OBVIOUS
      <4>2. Answer(t, d) \in late
        BY <2>1, <3>1, <4>1 DEF After
      <4>3. o \in Part(t, d)
        BY <1>5 DEF Part
      <4>4. Part(t, d) \subseteq Lately
        BY <3>1, <4>2, LateFacts
      <4> QED BY <1>1, <4>3, <4>4
    <3> QED BY <1>0, <1>5, <2>5, <3>2, <3>3, <3>4 DEF Placed
  <2>7. CASE o \in utxo[c] /\ ~Brings(B, t, o)
    <3>1. o \in Taken
      BY <1>5 DEF Taken
    <3>2. PICK u \in tracked :
            /\ u.hash \notin Done /\ o \in u.ins
            /\ \/ c = d /\ (c = At(u) \/ Waiting(u) \/ Requested(u, c))
               \/ c = At(u) /\ c # d /\ Open(u) /\ ~Requested(u, d) /\ ~Answered(u, d)
      BY <1>3, <2>7, <3>1 DEF Placed
    <3>3. u = t
      BY <1>0, <1>5, <3>2, Tracked
    <3>4. CASE c = d /\ (c = At(t) \/ Waiting(t) \/ Requested(t, c))
      <4>1. c # At(t) => ~In(B, Response(c, Request(t, c)))
        BY <2>2, <2>4, <3>4 DEF Gives
      <4>2. c = At(t) \/ Waiting(t)' \/ Requested(t, c)'
        BY <2>1, <2>2, <2>4, <3>4, <4>1 DEF After, BlockSays
      <4> QED BY <1>0, <1>5, <2>5, <3>2, <3>3, <3>4, <4>2 DEF Placed
    <3>5. CASE c = At(t) /\ c # d /\ Open(t) /\ ~Requested(t, d) /\ ~Answered(t, d)
      <4>1. d \in Asked(t)
        BY <2>2, <3>5
      <4>2. Open(t)' /\ ~Requested(t, d)' /\ ~Answered(t, d)'
        BY <2>1, <2>4, <3>5, <4>1 DEF After, BlockSays
      <4> QED BY <1>0, <1>5, <2>5, <3>2, <3>3, <3>5, <4>2 DEF Placed
    <3> QED BY <3>2, <3>3, <3>4, <3>5
  <2> QED BY <2>3, <2>6, <2>7
<1> QED BY <1>4, <1>5 DEF Taken

\* Nothing is doubled by a block.
LEMMA UpperAfter ==
  ASSUME IInv, NEW c \in Committees, NEW B, NEW l, Accepts(c, B, l)
  PROVE  Upper'
<1>1. /\ utxo'[c] = l.utxo /\ \A e \in Committees : e # c => utxo'[e] = utxo[e]
  BY DEF Accepts, IInv, Types
<1>2. Lately' = Lately
  BY DEF Accepts, Lately
<1>3. \A e \in Committees : \A o \in utxo'[e] : o \in Lately \/ Placed(e, o)'
  BY <1>1, OthersAfter, OwnAfter
<1> QED BY <1>2, <1>3 DEF Upper

\* What committee c sends are requests and responses that nobody has yet.
LEMMA SentPieces ==
  ASSUME IInv, NEW c \in Committees, NEW B \in Seq(TxType), BlockSound(c, pool[c], B), NEW m, Sends(c, B, m)
  PROVE  /\ m \in [to : Committees, tx : TxType] /\ IsPiece(m.to, m.tx)
         /\ m.tx \notin pool[m.to]
<1>0. Clients /\ Stages
  BY DEF IInv
<1>1. PICK t \in tracked :
        \/ \E d \in Asked(t) : In(B, Request(t, d)) /\ m = [to |-> d, tx |-> Request(t, d)]
        \/ Gives(c, B, t) /\ m = Answer(t, c)
  BY DEF Sends
<1>2. ClientTx(t) /\ BlockSays(c, B, t)
  BY <1>0, Tracked, BlockTold
<1>3. ASSUME NEW d \in Asked(t), In(B, Request(t, d)), m = [to |-> d, tx |-> Request(t, d)]
      PROVE  /\ m \in [to : Committees, tx : TxType] /\ IsPiece(m.to, m.tx)
             /\ m.tx \notin pool[m.to]
  <2>1. d \in Committees /\ Request(t, d) \in TxType
    BY <1>2, <1>3, PieceFacts
  <2>2. ~Open(t)
    BY <1>2, <1>3 DEF BlockSays
  <2>3. ~Requested(t, d)
    BY <1>0, <1>3, <2>2 DEF Stages
  <2>4. m.to = d /\ m.tx = Request(t, d)
    BY <1>3
  <2>5. m.tx \notin pool[m.to]
    BY <2>3, <2>4 DEF Requested, OnWay
  <2>6. IsPiece(m.to, m.tx)
    BY <1>3, <2>4 DEF IsPiece
  <2> QED BY <1>3, <2>1, <2>5, <2>6
<1>4. ASSUME Gives(c, B, t), m = Answer(t, c)
      PROVE  /\ m \in [to : Committees, tx : TxType] /\ IsPiece(m.to, m.tx)
             /\ m.tx \notin pool[m.to]
  <2>1. c \in Asked(t) /\ At(t) \in Committees /\ Proven(t, c) \in TxType
    BY <1>2, <1>4, ClientFacts, PieceFacts DEF Gives
  <2>2. Requested(t, c)
    BY <1>2, <1>4, <2>1 DEF BlockSays, Gives
  <2>3. ~Answered(t, c)
    BY <1>0, <2>1, <2>2 DEF Stages
  <2>4. m.to = At(t) /\ m.tx = Proven(t, c)
    BY <1>4 DEF Answer
  <2>5. m.tx \notin pool[m.to]
    BY <2>3, <2>4 DEF Answered, OnWay
  <2>6. IsPiece(m.to, m.tx)
    BY <2>1, <2>4 DEF IsPiece
  <2> QED BY <1>4, <2>1, <2>5, <2>6 DEF Answer
<1> QED BY <1>1, <1>3, <1>4

\* Only such pieces are about after the block.
LEMMA ShapesAfter ==
  ASSUME IInv, NEW c \in Committees, NEW B, NEW l, Accepts(c, B, l)
  PROVE  Shapes'
<1>0. /\ Types /\ Clients /\ Shapes /\ B \in Seq(TxType) /\ BlockSound(c, pool[c], B)
      /\ LedgerSays(c, B, l) /\ tracked' = tracked /\ late' = late
  BY DEF IInv, Accepts
<1>1. \A d, u : IsPiece(d, u)' <=> IsPiece(d, u)
  BY <1>0 DEF IsPiece
<1>2. \A e \in Committees : pool'[e] \subseteq pool[e]
  <2>1. PoolProcessBlock(pool[c], B) \subseteq pool[c]
    BY DEF PoolProcessBlock
  <2> QED BY <1>0, <2>1 DEF Accepts, Types
<1>3. ASSUME NEW m \in net'
      PROVE  IsPiece(m.to, m.tx) /\ (m.tx \in pool'[m.to] => m \in late)
  <2>1. m \in net \/ Sends(c, B, m)
    BY <1>3 DEF Accepts
  <2>2. CASE m \in net
    <3>1. m.to \in Committees
      BY <1>0, <2>2 DEF Types
    <3> QED BY <1>0, <1>2, <2>2, <3>1 DEF Shapes
  <2>3. CASE Sends(c, B, m)
    <3>1. m \in [to : Committees, tx : TxType] /\ IsPiece(m.to, m.tx) /\ m.tx \notin pool[m.to]
      BY <1>0, <2>3, SentPieces
    <3> QED BY <1>2, <3>1
  <2> QED BY <2>1, <2>2, <2>3
<1>4. \A e \in Committees : \A u \in pool'[e] : IsPiece(e, u)
  BY <1>0, <1>2 DEF Shapes
<1>5. ASSUME NEW e \in Committees, NEW o \in originals'[e]
      PROVE  \E t \in tracked : e = At(t) /\ o = Original(t) /\ Asked(t) # {}
  <2>1. CASE e = c
    <3>1. o \in l.originals
      BY <1>0, <1>5, <2>1 DEF Accepts, Types
    <3> QED BY <1>0, <2>1, <3>1 DEF LedgerSays
  <2>2. CASE e # c
    <3>1. o \in originals[e]
      BY <1>0, <1>5, <2>2 DEF Accepts, Types
    <3> QED BY <1>0, <3>1 DEF Shapes
  <2> QED BY <2>1, <2>2
<1>6. ASSUME NEW m \in late
      PROVE  \E t \in tracked : \E d \in Asked(t) : m = Answer(t, d) /\ ~Waiting(t)' /\ ~Requested(t, d)'
  <2>1. PICK t \in tracked : \E d \in Asked(t) : m = Answer(t, d) /\ ~Waiting(t) /\ ~Requested(t, d)
    BY <1>0 DEF Shapes
  <2>2. PICK d \in Asked(t) : m = Answer(t, d) /\ ~Waiting(t) /\ ~Requested(t, d)
    BY <2>1
  <2>3. BlockSays(c, B, t) /\ After(c, B, t)
    BY <1>0, BlockTold, AcceptTold
  <2>4. ~Waiting(t)' /\ ~Requested(t, d)'
    BY <2>2, <2>3 DEF BlockSays, After
  <2> QED BY <2>2, <2>4
<1> QED BY <1>0, <1>1, <1>3, <1>4, <1>5, <1>6 DEF Shapes

\* The new report finishes what no other does.
LEMMA ReportedAfter ==
  ASSUME IInv, NEW c \in Committees, NEW B, NEW l, Accepts(c, B, l)
  PROVE  Reported'
<1>0. /\ Clients /\ Reported /\ B \in Seq(TxType) /\ BlockSound(c, pool[c], B)
      /\ tracked' = tracked /\ settled' = settled
  BY DEF IInv, Accepts
<1>1. PICK r : r = [from |-> c, txs |-> ToSet(B)]
  OBVIOUS
<1>a. r.from = c /\ r.txs = ToSet(B)
  BY <1>1
<1>2. reports' = reports \cup {r}
  BY <1>1 DEF Accepts
<1>3. /\ \A x : x \in Finished(r) <=> In(B, x) /\ \E t \in tracked : x = t \/ x = Final(Original(t))
      /\ \A x \in Requests(r) : \E t \in tracked : ifOrigRetOrigIfNotRetHash(x) = t.hash
  BY <1>0, <1>a, ReportFacts
<1>4. ASSUME NEW x \in Finished(r)
      PROVE  \E t \in tracked : /\ x.outs = t.outs /\ ifOrigRetOrigIfNotRetHash(x) = t.hash
                                /\ t.hash \notin Done
  <2>1. PICK t \in tracked : In(B, x) /\ (x = t \/ x = Final(Original(t)))
    BY <1>3
  <2>2. ClientTx(t) /\ t \in TxType /\ BlockSays(c, B, t)
    BY <1>0, Tracked, ClientFacts, BlockTold
  <2>3. ifOrigRetOrigIfNotRetHash(x) = t.hash
    BY <2>1, <2>2, PieceFacts
  <2>4. x.outs = t.outs
    BY <2>1, <2>2, PieceFields
  <2>5. t.hash \notin Done
    BY <2>1, <2>2 DEF BlockSays
  <2> QED BY <2>3, <2>4, <2>5
<1>5. settled \subseteq Done /\ \A q \in reports : \A y \in Finished(q) : ifOrigRetOrigIfNotRetHash(y) \in Done
  BY DEF Done, Finishing
<1>6. ASSUME NEW q \in reports', NEW x \in Finished(q)
      PROVE  \E t \in tracked : /\ x.outs = t.outs /\ ifOrigRetOrigIfNotRetHash(x) = t.hash
                                /\ t.hash \notin settled
  BY <1>0, <1>2, <1>4, <1>5 DEF Reported
<1>7. ASSUME NEW q \in reports', NEW x \in Requests(q)
      PROVE  ifOrigRetOrigIfNotRetHash(x) \in Sent
  BY <1>0, <1>2, <1>3 DEF Reported, Sent
<1>8. ASSUME NEW q \in reports', NEW s \in reports', NEW x \in Finished(q), NEW y \in Finished(s),
             ifOrigRetOrigIfNotRetHash(x) = ifOrigRetOrigIfNotRetHash(y)
      PROVE  q = s
  <2>1. \A z \in Finished(r) : ifOrigRetOrigIfNotRetHash(z) \notin Done
    BY <1>4
  <2> QED BY <1>0, <1>2, <1>5, <1>8, <2>1 DEF Reported
<1>9. Sent' = Sent
  BY <1>0 DEF Sent
<1> QED BY <1>0, <1>6, <1>7, <1>8, <1>9 DEF Reported

\* Everything stays of its type.
LEMMA TypesAfter ==
  ASSUME IInv, NEW c \in Committees, NEW B, NEW l, Accepts(c, B, l)
  PROVE  Types'
<1>0. /\ Types /\ B \in Seq(TxType) /\ BlockSound(c, pool[c], B) /\ LedgerSays(c, B, l)
      /\ wallet' = wallet /\ tracked' = tracked /\ late' = late
  BY DEF IInv, Accepts
<1>1. l.utxo \subseteq OutputSet /\ l.originals \subseteq TxType
  BY <1>0 DEF LedgerSays, LedgerType
<1>2. PoolProcessBlock(pool[c], B) \subseteq pool[c]
  BY DEF PoolProcessBlock
<1>3. pool' \in [Committees -> SUBSET TxType]
  BY <1>0, <1>2 DEF Accepts, Types
<1>4. \A e \in Committees : IsFiniteSet(pool'[e])
  <2>1. \A e \in Committees : pool'[e] \subseteq pool[e]
    BY <1>0, <1>2 DEF Accepts, Types
  <2> QED BY <1>0, <2>1, FS_Subset DEF Types
<1>5. utxo' \in [Committees -> SUBSET OutputSet] /\ originals' \in [Committees -> SUBSET TxType]
  BY <1>0, <1>1 DEF Accepts, Types
<1>6. proposed' \in [Committees -> Seq(TxType)]
  <2>1. NoBlock \in Seq(TxType)
    BY DEF NoBlock
  <2> QED BY <1>0, <2>1 DEF Accepts, Types
<1>7. net' \subseteq [to : Committees, tx : TxType]
  <2>1. \A m : Sends(c, B, m) => m \in [to : Committees, tx : TxType]
    BY <1>0, SentPieces
  <2> QED BY <1>0, <2>1 DEF Accepts, Types
<1>8. \A r \in reports' : r.from \in Committees /\ r.txs \subseteq TxType
  <2>1. PICK r : r = [from |-> c, txs |-> ToSet(B)]
    OBVIOUS
  <2>2. r.from = c /\ r.txs = ToSet(B)
    BY <2>1
  <2>3. ToSet(B) \subseteq TxType
    BY <1>0 DEF ToSet
  <2> QED BY <1>0, <2>1, <2>2, <2>3 DEF Accepts, Types
<1> QED BY <1>0, <1>3, <1>4, <1>5, <1>6, <1>7, <1>8 DEF Types

\* The blocks of the other committees stay sound.
LEMMA ProposalsAfter ==
  ASSUME IInv, NEW c \in Committees, NEW B, NEW l, Accepts(c, B, l)
  PROVE  Proposals'
<1>0. Types /\ Proposals /\ tracked' = tracked
  BY DEF IInv, Accepts
<1>1. ASSUME NEW e \in Committees, e # c
      PROVE  BlockSound(e, pool[e], proposed[e])'
  <2>1. proposed'[e] = proposed[e] /\ pool'[e] = pool[e] /\ utxo'[e] = utxo[e] /\ originals'[e] = originals[e]
    BY <1>0, <1>1 DEF Accepts, Types
  <2>2. BlockSound(e, pool[e], proposed[e])
    BY <1>0 DEF Proposals
  <2>3. \A D : BlockSound(e, pool[e], D) => BlockSound(e, pool[e], D)'
    BY <1>0, <2>1, BlockKept
  <2> QED BY <2>1, <2>2, <2>3
<1>2. BlockSound(c, pool[c], proposed[c])'
  <2>1. proposed'[c] = <<>>
    BY <1>0 DEF Accepts, Types, NoBlock
  <2>2. \A x : ~In(<<>>, x)
    BY DEF In
  <2>3. \A t \in tracked' : Closed(c, <<>>, t)'
    BY <2>2 DEF Closed
  <2> QED BY <2>1, <2>3 DEF BlockSound, Once
<1> QED BY <1>1, <1>2 DEF Proposals

\* A block is accepted.
LEMMA AcceptKeeps ==
  ASSUME IInv, NEW c \in Committees, Accept(c)
  PROVE  IInv'
<1>1. PICK B, l : Accepts(c, B, l)
  BY AcceptDoes
<1>2. Clients'
  <2>1. Clients /\ tracked' = tracked /\ settled' = settled /\ wallet' = wallet
    BY <1>1 DEF IInv, Accepts
  <2> QED BY <2>1 DEF Clients, Created, Taken
<1>3. DiesOnlyByLateResponse'
  BY <1>1 DEF IInv, Accepts, DiesOnlyByLateResponse
<1>4. Types'
  BY <1>1, TypesAfter
<1>5. Shapes'
  BY <1>1, ShapesAfter
<1>6. Reported'
  BY <1>1, ReportedAfter
<1>7. Stages'
  BY <1>1, StagesAfter
<1>8. Lower'
  BY <1>1, LowerAfter
<1>9. Upper'
  BY <1>1, UpperAfter
<1>10. Proposals'
  BY <1>1, ProposalsAfter
<1> QED BY <1>2, <1>3, <1>4, <1>5, <1>6, <1>7, <1>8, <1>9, <1>10 DEF IInv

-----------------------------------------------------------------------------
\* The invariant holds as the system starts, with the genesis outputs alone.
LEMMA InitHolds == Init => IInv
<1>0. SUFFICES ASSUME Init PROVE IInv
  OBVIOUS
<1>1. /\ wallet = UNION {Genesis(c) : c \in Committees}
      /\ tracked = {} /\ settled = {} /\ net = {} /\ reports = {} /\ dead = {} /\ late = {}
      /\ pool = [c \in Committees |-> {}] /\ utxo = [c \in Committees |-> Genesis(c)]
      /\ originals = [c \in Committees |-> {}] /\ proposed = [c \in Committees |-> NoBlock]
  BY <1>0 DEF Init
<1>2. \A c \in Committees : Genesis(c) \subseteq OutputSet /\ \A o \in Genesis(c) : Owner(o) = c
  BY OutputFacts DEF Owner
<1>3. IsFiniteSet({}) /\ Cardinality({}) = 0 /\ MaxLate \in Nat
  BY FS_EmptySet, CrossTxAssumption
<1>4. Types
  <2>1. NoBlock \in Seq(TxType)
    BY DEF NoBlock
  <2>2. wallet \subseteq OutputSet /\ utxo \in [Committees -> SUBSET OutputSet]
    BY <1>1, <1>2
  <2>3. IsFiniteSet(late) /\ Cardinality(late) <= MaxLate
    BY <1>1, <1>3
  <2>4. \A c \in Committees : IsFiniteSet(pool[c])
    BY <1>1, <1>3
  <2> QED BY <1>1, <2>1, <2>2, <2>3, <2>4 DEF Types
<1>5. \A H : \A o : o \in Created(H) <=> \E c \in Committees : o \in Genesis(c)
  BY <1>1, <1>2 DEF Created
<1>6. Taken = {}
  BY <1>1 DEF Taken
<1>7. Clients
  BY <1>1, <1>5, <1>6 DEF Clients
<1>8. Shapes
  BY <1>1 DEF Shapes
<1>9. Reported
  BY <1>1 DEF Reported
<1>10. Stages
  BY <1>1 DEF Stages
<1>11. Lower
  BY <1>1, <1>2, <1>5 DEF Lower
<1>12. Upper
  BY <1>1, <1>2, <1>5, <1>6 DEF Upper, Placed
<1>13. Proposals
  <2>1. \A c \in Committees : proposed[c] = <<>>
    BY <1>1 DEF NoBlock
  <2> QED BY <1>1, <2>1 DEF Proposals, BlockSound, Once
<1>14. DiesOnlyByLateResponse
  BY <1>1 DEF DiesOnlyByLateResponse
<1> QED BY <1>4, <1>7, <1>8, <1>9, <1>10, <1>11, <1>12, <1>13, <1>14 DEF IInv

\* Every step keeps the invariant.
LEMMA StepKeeps == IInv /\ [Next]_vars => IInv'
<1>0. SUFFICES ASSUME IInv, [Next]_vars PROVE IInv'
  OBVIOUS
<1>1. ASSUME NEW m \in net, Deliver(m, FALSE) PROVE IInv'
  BY <1>0, <1>1, DeliverKeeps
<1>2. ASSUME NEW m \in net, Deliver(m, TRUE) PROVE IInv'
  BY <1>0, <1>2, DeliverKeeps
<1>3. ASSUME NEW c \in Committees, Accept(c) PROVE IInv'
  BY <1>0, <1>3, AcceptKeeps
<1>4. ASSUME NEW r \in reports, HandleReport(r) PROVE IInv'
  BY <1>0, <1>4, HandleReportKeeps
<1>5. ASSUME NEW c \in Committees, NEW txes \in Batches(pool[c]), Propose(c, txes) PROVE IInv'
  BY <1>0, <1>5, ProposeKeeps
<1>6. ASSUME NEW t \in Txs, NEW ins \in SUBSET wallet, Issue(t, ins) PROVE IInv'
  BY <1>0, <1>6, IssueKeeps
<1>7. CASE UNCHANGED vars
  <2>1. /\ wallet' = wallet /\ tracked' = tracked /\ settled' = settled /\ net' = net /\ pool' = pool
        /\ utxo' = utxo /\ originals' = originals /\ proposed' = proposed /\ reports' = reports
        /\ dead' = dead /\ late' = late
    BY <1>7 DEF vars
  <2>2. /\ Types /\ Clients /\ Shapes /\ Reported /\ Stages /\ Lower /\ Upper /\ Proposals
        /\ DiesOnlyByLateResponse
    BY <1>0 DEF IInv
  <2>3. \A c, u : OnWay(c, u)' <=> OnWay(c, u)
    BY <2>1 DEF OnWay
  <2>4. Done' = Done /\ Lately' = Lately
    BY <2>1 DEF Done, Finishing, Lately
  <2>5. Stages' /\ Lower' /\ Upper'
    BY <2>1, <2>2, <2>3, <2>4, Steady
  <2>6. Types' /\ Reported' /\ DiesOnlyByLateResponse'
    BY <2>1, <2>2 DEF Types, Reported, Finished, Requests, Sent, DiesOnlyByLateResponse
  <2>7. Clients'
    BY <2>1, <2>2 DEF Clients, Created, Taken
  <2>8. Shapes'
    <3>1. \A c, u : IsPiece(c, u)' <=> IsPiece(c, u)
      BY <2>1 DEF IsPiece
    <3>2. \A t, d : (Waiting(t)' <=> Waiting(t)) /\ (Requested(t, d)' <=> Requested(t, d))
      BY <2>3 DEF Waiting, Requested
    <3> QED BY <2>1, <2>2, <3>1, <3>2 DEF Shapes
  <2>9. Proposals'
    <3>1. \A c, B : BlockSound(c, pool[c], B) => BlockSound(c, pool[c], B)'
      BY <2>1, BlockKept
    <3> QED BY <2>1, <2>2, <3>1 DEF Proposals
  <2> QED BY <2>2, <2>5, <2>6, <2>7, <2>8, <2>9 DEF IInv
<1>8. CASE Next
  BY <1>1, <1>2, <1>3, <1>4, <1>5, <1>6, <1>8 DEF Next, Work
<1> QED BY <1>0, <1>7, <1>8

\* The invariant of the ledgers: each transaction waits, is open or done, and each of
\* its inputs is in the one ledger, or the one response, that puts it.
THEOREM AlwaysIInv == Spec => []IInv
<1>1. Init => IInv
  BY InitHolds
<1>2. IInv /\ [Next]_vars => IInv'
  BY StepKeeps
<1> QED BY <1>1, <1>2, PTL DEF Spec

\* A committee dies, in errFatal or of a nil pointer, only where a response came twice.
THEOREM DiesOnlyByLate == Spec => []DiesOnlyByLateResponse
<1>1. IInv => DiesOnlyByLateResponse
  BY DEF IInv
<1> QED BY <1>1, AlwaysIInv, PTL

\* As long as no response comes twice nobody dies: honest clients and members never
\* meet a check of createProposeBlock or processBlock that fails.
THEOREM NobodyDies == Spec => [](late = {} => dead = {})
<1>1. IInv => (late = {} => dead = {})
  BY DEF IInv, DiesOnlyByLateResponse
<1> QED BY <1>1, AlwaysIInv, PTL

\* The pools, ledgers and the client hold what they are to handle.
THEOREM TypeCorrect == Spec => []TypeOK
<1>1. ASSUME IInv PROVE TypeOK
  <2>0. Types /\ Clients /\ Shapes /\ Reported /\ DiesOnlyByLateResponse
    BY <1>1 DEF IInv
  <2>1. settled \subseteq Sent /\ Sent \subseteq {UserHash(t) : t \in Txs}
    BY <2>0 DEF Reported, Sent, Clients, ClientTx
  <2>2. ASSUME NEW c \in Committees, NEW o \in originals[c]
        PROVE  o.hash = Nil /\ ClosestCommittee(o.orig) = c
    <3>1. PICK t \in tracked : c = At(t) /\ o = Original(t)
      BY <2>0 DEF Shapes
    <3> QED BY <3>1 DEF Original, At
  <2>3. ASSUME NEW c \in Committees, NEW u \in pool[c]
        PROVE  IF u.hash = Nil
               THEN u.outs = {} /\ \A o \in u.ins : Owner(o) = c
               ELSE /\ ClosestCommittee(ifOrigRetOrigIfNotRetHash(u)) = c
                    /\ u.poc <=> u.orig # Nil
    <3>1. PICK t \in tracked : \/ c = At(t) /\ u = t
                               \/ \E d \in Asked(t) : \/ c = d /\ u = Request(t, d)
                                                      \/ c = At(t) /\ u = Proven(t, d)
      BY <2>0 DEF Shapes, IsPiece
    <3>2. /\ ClientTx(t) /\ t \in TxType /\ t.hash # Nil /\ t.orig = Nil /\ ~t.poc
          /\ ifOrigRetOrigIfNotRetHash(t) = t.hash
      BY <2>0, Tracked, ClientFacts, PieceFacts
    <3>3. CASE c = At(t) /\ u = t
      BY <3>2, <3>3 DEF At
    <3>4. ASSUME NEW d \in Asked(t), c = d, u = Request(t, d)
          PROVE  u.hash = Nil /\ u.outs = {} /\ \A o \in u.ins : Owner(o) = c
      BY <3>2, <3>4, PieceFields, PieceFacts
    <3>5. ASSUME NEW d \in Asked(t), c = At(t), u = Proven(t, d)
          PROVE  /\ u.hash # Nil /\ ClosestCommittee(ifOrigRetOrigIfNotRetHash(u)) = c
                 /\ u.poc /\ u.orig # Nil
      <4>1. u.hash = CrossHash(t.hash, d) /\ u.orig = t.hash /\ u.poc
        BY <3>2, <3>5, PieceFields
      <4>2. ifOrigRetOrigIfNotRetHash(u) = t.hash
        BY <3>2, <4>1 DEF ifOrigRetOrigIfNotRetHash
      <4>3. CrossHash(t.hash, d) # Nil
        BY HashFacts
      <4> QED BY <3>2, <3>5, <4>1, <4>2, <4>3 DEF At
    <3> QED BY <3>1, <3>3, <3>4, <3>5
  <2>4. dead \subseteq Committees \cup {Coordinator}
    BY <2>0 DEF DiesOnlyByLateResponse, Types
  <2> QED BY <2>0, <2>1, <2>2, <2>3, <2>4 DEF TypeOK, Types
<1> QED BY <1>1, AlwaysIInv, PTL

\* A transaction that is not settled has a piece on the way: itself, the request for
\* an input that is missing, the response with it, or the report of its block.
THEOREM TransactionsMoveOn == Spec => []InFlight
<1>1. ASSUME IInv PROVE InFlight
  <2>0. Types /\ Clients /\ Stages /\ Lower
    BY <1>1 DEF IInv
  <2>1. SUFFICES ASSUME NEW t \in tracked, t.hash \notin settled
                 PROVE  \E p \in Pieces : ifOrigRetOrigIfNotRetHash(p) = t.hash
    BY DEF InFlight
  <2>2. ClientTx(t) /\ t \in TxType /\ t.hash # Nil /\ At(t) \in Committees
        /\ Asked(t) \subseteq Committees /\ ifOrigRetOrigIfNotRetHash(t) = t.hash
    BY <2>0, Tracked, ClientFacts, PieceFacts
  <2>3. \A c \in Committees : \A u : OnWay(c, u) => u \in Pieces
    <3>1. ASSUME NEW c \in Committees, NEW u, [to |-> c, tx |-> u] \in net
          PROVE  u \in Pieces
      <4>1. [to |-> c, tx |-> u].tx = u
        OBVIOUS
      <4>2. u \in {m.tx : m \in net}
        BY <3>1, <4>1
      <4> QED BY <4>2 DEF Pieces
    <3> QED BY <3>1 DEF OnWay, Pieces
  <2>4. CASE Waiting(t)
    <3>1. OnWay(At(t), t) /\ At(t) \in Committees
      BY <2>2, <2>4 DEF Waiting
    <3>2. t \in Pieces
      BY <2>3, <3>1
    <3> QED BY <2>2, <3>2
  <2>5. CASE t.hash \in Done
    BY <2>1, <2>5 DEF Done, Pieces
  <2>6. CASE Open(t)
    <3>1. PICK o \in t.ins : o \notin utxo[At(t)]
      BY <2>0, <2>6 DEF Lower
    <3>2. Held(t, o) /\ ~Waiting(t)
      BY <2>0, <2>6 DEF Lower, Stages
    <3>3. Owner(o) # At(t) /\ (Requested(t, Owner(o)) \/ Answered(t, Owner(o)))
      BY <3>1, <3>2 DEF Held
    <3>4. Owner(o) \in Committees
      BY <2>2, <3>3 DEF Asked
    <3>5. \A d : /\ ifOrigRetOrigIfNotRetHash(Request(t, d)) = t.hash
                 /\ ifOrigRetOrigIfNotRetHash(Proven(t, d)) = t.hash
      BY <2>2, PieceFields DEF ifOrigRetOrigIfNotRetHash
    <3>6. CASE Requested(t, Owner(o))
      BY <2>3, <3>4, <3>5, <3>6 DEF Requested
    <3>7. CASE Answered(t, Owner(o))
      BY <2>2, <2>3, <3>5, <3>7 DEF Answered
    <3> QED BY <3>3, <3>6, <3>7
  <2> QED BY <2>0, <2>4, <2>5, <2>6 DEF Stages
<1> QED BY <1>1, AlwaysIInv, PTL

\* A response on its way is that of a committee to the request of a transaction.
LEMMA CarriedBy ==
  ASSUME IInv, NEW o \in Carried
  PROVE  \E t \in tracked : o \in t.ins /\ Owner(o) \in Asked(t) /\ Answered(t, Owner(o))
<1>0. Types /\ Clients /\ Shapes
  BY DEF IInv
<1>1. \/ \E m \in net : m.tx.poc /\ o \in m.tx.outs
      \/ \E c \in Committees : \E u \in pool[c] : u.poc /\ o \in u.outs
  BY DEF Carried
<1>2. ASSUME NEW c, NEW u, IsPiece(c, u), OnWay(c, u), u.poc, o \in u.outs
      PROVE  \E t \in tracked : o \in t.ins /\ Owner(o) \in Asked(t) /\ Answered(t, Owner(o))
  <2>1. PICK t \in tracked : \/ c = At(t) /\ u = t
                             \/ \E d \in Asked(t) : \/ c = d /\ u = Request(t, d)
                                                    \/ c = At(t) /\ u = Proven(t, d)
    BY <1>2 DEF IsPiece
  <2>2. ClientTx(t) /\ t \in TxType /\ ~t.poc
    BY <1>0, Tracked, ClientFacts
  <2>3. \A d : ~Request(t, d).poc /\ Proven(t, d).outs = Part(t, d)
    BY <2>2, PieceFields
  <2>4. PICK d \in Asked(t) : c = At(t) /\ u = Proven(t, d)
    BY <1>2, <2>1, <2>2, <2>3
  <2>5. o \in t.ins /\ Owner(o) = d
    BY <1>2, <2>3, <2>4 DEF Part
  <2> QED BY <1>2, <2>4, <2>5 DEF Answered
<1>3. ASSUME NEW m \in net, m.tx.poc, o \in m.tx.outs
      PROVE  \E t \in tracked : o \in t.ins /\ Owner(o) \in Asked(t) /\ Answered(t, Owner(o))
  <2>1. m = [to |-> m.to, tx |-> m.tx] /\ IsPiece(m.to, m.tx)
    BY <1>0 DEF Types, Shapes
  <2>2. OnWay(m.to, m.tx)
    BY <2>1 DEF OnWay
  <2> QED BY <1>2, <1>3, <2>1, <2>2
<1>4. ASSUME NEW c \in Committees, NEW u \in pool[c], u.poc, o \in u.outs
      PROVE  \E t \in tracked : o \in t.ins /\ Owner(o) \in Asked(t) /\ Answered(t, Owner(o))
  <2>1. IsPiece(c, u) /\ OnWay(c, u)
    BY <1>0 DEF Shapes, OnWay
  <2> QED BY <1>2, <1>4, <2>1
<1> QED BY <1>1, <1>3, <1>4

\* The other way round, what such a response carries.
LEMMA AnswerCarries ==
  ASSUME IInv, NEW t \in tracked, NEW d \in Asked(t), Answered(t, d)
  PROVE  Part(t, d) \subseteq Carried
<1>1. ClientTx(t) /\ t \in TxType /\ At(t) \in Committees
  BY Tracked, ClientFacts DEF IInv
<1>2. Proven(t, d).poc /\ Proven(t, d).outs = Part(t, d)
  BY <1>1, PieceFields
<1>3. CASE Answer(t, d) \in net
  <2>1. Answer(t, d).tx = Proven(t, d)
    BY DEF Answer
  <2>2. Answer(t, d) \in {n \in net : n.tx.poc}
    BY <1>2, <1>3, <2>1
  <2>3. Part(t, d) \in {m.tx.outs : m \in {n \in net : n.tx.poc}}
    BY <1>2, <2>1, <2>2
  <2> QED BY <2>3 DEF Carried
<1>4. CASE Proven(t, d) \in pool[At(t)]
  <2>1. Proven(t, d) \in {u \in UNION {pool[c] : c \in Committees} : u.poc}
    BY <1>1, <1>2, <1>4
  <2>2. Part(t, d) \in {u.outs : u \in {v \in UNION {pool[c] : c \in Committees} : v.poc}}
    BY <1>2, <2>1
  <2> QED BY <2>2 DEF Carried
<1> QED BY <1>3, <1>4 DEF Answered, OnWay, Answer

\* The outputs of transactions that are done, and the inputs of those that are not,
\* are what is worth something.
LEMMA WorthFacts ==
  ASSUME IInv
  PROVE  \A o : o \in Worth <=> \/ o \in Created(Done) \ Taken
                                \/ \E t \in tracked : t.hash \notin Done /\ o \in t.ins
<1>0. Types /\ Clients /\ Reported
  BY DEF IInv
<1>1. wallet = Created(settled) \ Taken
  BY <1>0 DEF Clients
<1>2. ASSUME NEW x \in Finishing
      PROVE  \E t \in tracked : /\ x.outs = t.outs /\ ifOrigRetOrigIfNotRetHash(x) = t.hash
                                /\ t.hash \notin settled
  BY <1>0 DEF Reported, Finishing
<1>3. Unspent = UNION {t.ins : t \in {u \in tracked : u.hash \notin Done}}
  BY DEF Unspent, Done
<1>4. settled \subseteq Done
  BY DEF Done
<1>5. ASSUME NEW x \in Finishing, NEW o \in x.outs
      PROVE  o \in Created(Done) \ Taken
  <2>1. PICK t \in tracked : /\ x.outs = t.outs /\ ifOrigRetOrigIfNotRetHash(x) = t.hash
                             /\ t.hash \notin settled
    BY <1>2
  <2>2. t.hash \in Done
    BY <2>1 DEF Done
  <2>3. o \in OutputSet
    BY <1>0, <1>5, <2>1, Tracked, ClientFacts
  <2>4. o \in Created(Done)
    BY <1>5, <2>1, <2>2, <2>3 DEF Created
  <2>5. o \notin Taken
    <3>1. SUFFICES ASSUME o \in Taken PROVE FALSE
      OBVIOUS
    <3>2. PICK u \in tracked : o \in u.ins
      BY <3>1 DEF Taken
    <3>3. o \in Created(settled)
      BY <1>0, <3>2, Tracked
    <3>4. o \in t.outs
      BY <1>5, <2>1
    <3> QED BY <1>0, <2>1, <3>3, <3>4, CreatedBy
  <2> QED BY <2>4, <2>5
<1>6. ASSUME NEW o \in wallet
      PROVE  o \in Created(Done) \ Taken
  BY <1>1, <1>4 DEF Created
<1>7. ASSUME NEW o \in Created(Done) \ Taken
      PROVE  o \in wallet \/ \E x \in Finishing : o \in x.outs
  <2>1. CASE o \in Created(settled)
    BY <1>1, <1>7, <2>1
  <2>2. CASE o \notin Created(settled)
    <3>1. PICK t \in tracked : t.hash \in Done /\ o \in t.outs
      BY <1>7, <2>2 DEF Created
    <3>2. t.hash \notin settled
      BY <1>7, <2>2, <3>1 DEF Created
    <3>3. PICK x \in Finishing : ifOrigRetOrigIfNotRetHash(x) = t.hash
      BY <3>1, <3>2 DEF Done
    <3>4. PICK u \in tracked : x.outs = u.outs /\ ifOrigRetOrigIfNotRetHash(x) = u.hash
      BY <1>2
    <3>5. u = t
      BY <1>0, <3>3, <3>4, Tracked
    <3> QED BY <3>1, <3>4, <3>5
  <2> QED BY <2>1, <2>2
<1>8. \A o : o \in Worth <=> \/ o \in wallet \/ \E x \in Finishing : o \in x.outs
                             \/ \E t \in tracked : t.hash \notin Done /\ o \in t.ins
  BY <1>3 DEF Worth
<1> QED BY <1>5, <1>6, <1>7, <1>8

\* Whatever is worth something is in a ledger or in a response on its way, and what the
\* client holds it can spend.
THEOREM OutputsStay == Spec => []NothingLost
<1>1. ASSUME IInv PROVE NothingLost
  <2>0. Types /\ Clients /\ Stages /\ Lower
    BY <1>1 DEF IInv
  <2>1. ASSUME NEW o \in Worth
        PROVE  o \in (UNION {utxo[c] : c \in Committees}) \cup Carried
    <3>1. CASE o \in Created(Done) \ Taken
      <4>1. o \in utxo[Owner(o)]
        BY <2>0, <3>1 DEF Lower
      <4>2. Owner(o) \in Committees
        BY <3>1, OutputFacts DEF Created
      <4> QED BY <4>1, <4>2
    <3>2. ASSUME NEW t \in tracked, t.hash \notin Done, o \in t.ins
          PROVE  o \in (UNION {utxo[c] : c \in Committees}) \cup Carried
      <4>1. ClientTx(t) /\ At(t) \in Committees /\ Owner(o) \in Committees
        BY <2>0, <3>2, Tracked, ClientFacts
      <4>2. Held(t, o)
        BY <2>0, <3>2 DEF Lower
      <4>3. CASE o \in utxo[Owner(o)] \/ o \in utxo[At(t)]
        BY <4>1, <4>3
      <4>4. CASE Owner(o) # At(t) /\ Answered(t, Owner(o))
        <5>1. Owner(o) \in Asked(t) /\ o \in Part(t, Owner(o))
          BY <3>2, <4>4 DEF Asked, Part
        <5>2. Part(t, Owner(o)) \subseteq Carried
          BY <1>1, <4>4, <5>1, AnswerCarries
        <5> QED BY <5>1, <5>2
      <4> QED BY <4>2, <4>3, <4>4 DEF Held
    <3> QED BY <1>1, <3>1, <3>2, WorthFacts
  <2>2. WalletIsSpendable
    <3>1. wallet \subseteq Created(Done) \ Taken
      BY <2>0 DEF Clients, Created, Done
    <3> QED BY <2>0, <3>1 DEF WalletIsSpendable, Lower
  <2> QED BY <2>1, <2>2 DEF NothingLost
<1> QED BY <1>1, AlwaysIInv, PTL

\* An output that is not late is in one ledger, or in a response.
LEMMA OnePlace ==
  ASSUME IInv, NEW o, o \notin Lately
  PROVE  /\ \A c, e \in Committees : o \in utxo[c] /\ o \in utxo[e] => c = e
         /\ \A c \in Committees : o \in utxo[c] => o \notin Carried
         /\ o \in Carried => \E t \in tracked : t.hash \notin Done /\ o \in t.ins
<1>0. Types /\ Clients /\ Stages /\ Upper
  BY DEF IInv
<1>1. \A c \in Committees : o \in utxo[c] => Placed(c, o)
  BY <1>0 DEF Upper
<1>2. \A t \in tracked : o \in t.ins => o \in Taken
  BY DEF Taken
<1>3. \A t, u \in tracked : o \in t.ins /\ o \in u.ins => t = u
  BY <1>0, Tracked
<1>4. \A t \in tracked : o \in t.ins => (Owner(o) # At(t) => Owner(o) \in Asked(t))
  BY DEF Asked
<1>5. ASSUME NEW c \in Committees, NEW e \in Committees, Placed(c, o), Placed(e, o)
      PROVE  c = e
  <2>1. CASE o \notin Taken
    BY <1>2, <1>5, <2>1 DEF Placed
  <2>2. CASE o \in Taken
    <3>1. PICK t \in tracked :
            /\ o \in t.ins
            /\ \/ c = Owner(o) /\ (c = At(t) \/ Waiting(t) \/ Requested(t, c))
               \/ c = At(t) /\ c # Owner(o) /\ Open(t) /\ ~Requested(t, Owner(o))
      BY <1>5, <2>2 DEF Placed
    <3>2. PICK u \in tracked :
            /\ o \in u.ins
            /\ \/ e = Owner(o) /\ (e = At(u) \/ Waiting(u) \/ Requested(u, e))
               \/ e = At(u) /\ e # Owner(o) /\ Open(u) /\ ~Requested(u, Owner(o))
      BY <1>5, <2>2 DEF Placed
    <3>3. t = u
      BY <1>3, <3>1, <3>2
    <3>4. Open(t) => ~Waiting(t)
      BY <1>0 DEF Stages
    <3> QED BY <3>1, <3>2, <3>3, <3>4
  <2> QED BY <2>1, <2>2
<1>6. ASSUME o \in Carried
      PROVE  /\ \E t \in tracked : t.hash \notin Done /\ o \in t.ins
             /\ \A c \in Committees : ~Placed(c, o)
  <2>1. PICK t \in tracked : o \in t.ins /\ Owner(o) \in Asked(t) /\ Answered(t, Owner(o))
    BY <1>6, CarriedBy
  <2>2. Answer(t, Owner(o)) \notin late
    <3>1. o \in Part(t, Owner(o))
      BY <2>1 DEF Part
    <3> QED BY <2>1, <3>1, LateFacts
  <2>3. Open(t) /\ ~Waiting(t) /\ ~Requested(t, Owner(o)) /\ t.hash \notin Done
    BY <1>0, <2>1, <2>2 DEF Stages
  <2>4. ASSUME NEW c \in Committees, Placed(c, o)
        PROVE  FALSE
    <3>1. o \in Taken
      BY <1>2, <2>1
    <3>2. PICK u \in tracked :
            /\ o \in u.ins
            /\ \/ c = Owner(o) /\ (c = At(u) \/ Waiting(u) \/ Requested(u, c))
               \/ c = At(u) /\ ~Answered(u, Owner(o))
      BY <2>4, <3>1 DEF Placed
    <3>3. u = t
      BY <1>3, <2>1, <3>2
    <3>4. Owner(o) # At(t)
      BY <2>1 DEF Asked
    <3> QED BY <2>1, <2>3, <3>2, <3>3, <3>4
  <2> QED BY <2>1, <2>3, <2>4
<1> QED BY <1>1, <1>5, <1>6

\* An output is in one ledger or in a response, and worth something, unless the response
\* that brought it came twice.
THEOREM OutputsAreSingle == Spec => []NothingDoubled
<1>1. ASSUME IInv PROVE NothingDoubled
  <2>0. Types /\ Clients /\ Stages /\ Upper
    BY <1>1 DEF IInv
  <2>1. UNION {m.tx.outs : m \in late} = Lately
    BY DEF Lately
  <2>2. ASSUME NEW o, o \notin Lately
        PROVE  Cardinality({c \in Committees : o \in utxo[c]}) + (IF o \in Carried THEN 1 ELSE 0) <= 1
    <3> DEFINE S == {c \in Committees : o \in utxo[c]}
    <3>1. /\ \A c, e \in Committees : o \in utxo[c] /\ o \in utxo[e] => c = e
          /\ \A c \in Committees : o \in utxo[c] => o \notin Carried
      BY <1>1, <2>2, OnePlace
    <3>2. S = {} \/ (o \notin Carried /\ \E c : S = {c})
      <4>1. CASE S # {}
        <5>1. PICK c \in S : TRUE
          BY <4>1
        <5>2. S = {c} /\ o \notin Carried
          BY <3>1, <5>1
        <5> QED BY <5>2
      <4> QED BY <4>1
    <3> HIDE DEF S
    <3>3. CASE S = {}
      <4>1. Cardinality(S) = 0
        BY <3>3, FS_EmptySet
      <4> QED BY <4>1 DEF S
    <3>4. CASE o \notin Carried /\ \E c : S = {c}
      <4>1. Cardinality(S) = 1
        BY <3>4, FS_Singleton
      <4> QED BY <3>4, <4>1 DEF S
    <3> QED BY <3>2, <3>3, <3>4
  <2>3. ASSUME NEW o, o \notin Lately, o \in (UNION {utxo[c] : c \in Committees}) \cup Carried
        PROVE  o \in Worth
    <3>1. CASE o \in Carried
      <4>1. \E t \in tracked : t.hash \notin Done /\ o \in t.ins
        BY <1>1, <2>3, <3>1, OnePlace
      <4> QED BY <1>1, <4>1, WorthFacts
    <3>2. CASE o \notin Carried
      <4>1. PICK c \in Committees : o \in utxo[c]
        BY <2>3, <3>2
      <4>2. Placed(c, o)
        BY <2>0, <2>3, <4>1 DEF Upper
      <4>3. \/ o \in Created(Done) \ Taken
            \/ \E t \in tracked : t.hash \notin Done /\ o \in t.ins
        BY <4>2 DEF Placed
      <4> QED BY <1>1, <4>3, WorthFacts
    <3> QED BY <3>1, <3>2
  <2> QED BY <2>1, <2>2, <2>3 DEF NothingDoubled
<1> QED BY <1>1, AlwaysIInv, PTL
=============================================================================
