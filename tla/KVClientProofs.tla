---------------------------- MODULE KVClientProofs --------------------------
(***************************************************************************)
(* Proofs about KVClient: the PUT endpoint over the key-value store keeps  *)
(* what it answered, through crashes, replays and failed SaveMeta calls.   *)
(***************************************************************************)
EXTENDS KVStoreProofs, KVClient
LOCAL INSTANCE SequenceTheorems

\* No key contains the separator: "a=b" would be stored under "a".
PlainKeyArgs == \A k \in KeyArg : \A i \in DOMAIN k : k[i] # "="

-----------------------------------------------------------------------------
(* The inductive invariant.                                                 *)

\* A transaction on its way, or answered with success, has a key; it is answered
\* only when it is in a committed block.
ClientInv ==
    /\ pc \in [Request -> {"new", "waiting", "executed", "done"}]
    /\ put \in [Request -> {NoPut} \cup [key : KeyArg, value : ValueArg]]
    /\ answer \in [Request -> {"none", "ok", "error", "bad request"}]
    /\ \A r \in Request :
           /\ pc[r] # "done" => answer[r] = "none"
           /\ pc[r] \in {"waiting", "executed"} \/ answer[r] = "ok" =>
                  put[r] \in [key : KeyArg \ {<<>>}, value : ValueArg]
           /\ pc[r] = "executed" \/ answer[r] = "ok" => Landed(r) # {}

-----------------------------------------------------------------------------
(* Transactions.                                                            *)

\* SetTx puts the key before the first "=".
LEMMA SetTxIs ==
    ASSUME PlainKeyArgs, NEW p \in [key : KeyArg \ {<<>>}, value : ValueArg]
    PROVE  isValidTx(SetTx(p)) /\ KeyOf(SetTx(p)) = p.key
<1> DEFINE k == p.key
           v == p.value
           n == Len(k)
           tx == SetTx(p)
<1>1. /\ k \in Seq(Symbol) /\ v \in Seq(Symbol) /\ "=" \in Symbol /\ k # <<>>
      /\ \A i \in DOMAIN k : k[i] # "="
    BY PutAssumption, SymbolAssumption DEF PlainKeyArgs, Bytes
<1>2. n \in Nat \ {0} /\ DOMAIN k = 1 .. n
    BY <1>1, EmptySeq, LenProperties
<1>3. /\ k \o <<"=">> \in Seq(Symbol) /\ Len(k \o <<"=">>) = n + 1
      /\ \A i \in 1 .. n : (k \o <<"=">>)[i] = k[i]
      /\ (k \o <<"=">>)[n + 1] = "="
    BY <1>1, <1>2
<1>4. /\ tx \in Seq(Symbol) /\ Len(tx) = n + 1 + Len(v)
      /\ \A i \in 1 .. n : tx[i] = k[i]
      /\ tx[n + 1] = "="
    BY <1>1, <1>2, <1>3 DEF SetTx
<1> HIDE DEF k, v, tx, n
<1>5. DOMAIN tx = 1 .. Len(tx) /\ Len(tx) \in Nat /\ Len(v) \in Nat
    BY <1>1, <1>4
<1>6. n + 1 \in EqualSigns(tx) /\ \A j \in EqualSigns(tx) : n + 1 <= j
    BY <1>1, <1>2, <1>4, <1>5 DEF EqualSigns
<1>7. EqualSigns(tx) \subseteq Nat
    BY <1>5 DEF EqualSigns
<1>8. FirstEqual(tx) = n + 1
    <2>1. /\ FirstEqual(tx) \in EqualSigns(tx)
          /\ \A j \in EqualSigns(tx) : FirstEqual(tx) <= j
        BY <1>6 DEF FirstEqual
    <2> QED BY <1>2, <1>6, <1>7, <2>1
<1>9. isValidTx(tx)
    BY <1>2, <1>6, <1>8 DEF isValidTx
<1>10. KeyOf(tx) = SubSeq(tx, 1, n)
    BY <1>2, <1>8 DEF KeyOf
<1>11. SubSeq(tx, 1, n) = k
    <2>1. \A i \in 1 .. n : tx[i] \in Symbol
        BY <1>2, <1>4, <1>5
    <2>2. /\ SubSeq(tx, 1, n) \in Seq(Symbol)
          /\ Len(SubSeq(tx, 1, n)) = n
          /\ \A i \in 1 .. n : SubSeq(tx, 1, n)[i] = tx[i]
        BY <1>2, <1>4, <1>5, <2>1, SubSeqProperties
    <2> QED BY <1>1, <1>2, <1>4, <2>2, SeqEqual DEF n
<1> QED BY <1>9, <1>10, <1>11 DEF tx, k

\* A block writes the keys of its valid transactions.
LEMMA BlockWrites ==
    ASSUME blocks \in Seq(Proposal), NEW h \in DOMAIN blocks, NEW tx \in Range(blocks[h]),
           isValidTx(tx)
    PROVE  KeyOf(tx) \in Key /\ Writes(h, KeyOf(tx))
<1>1. blocks[h] \in Seq(Tx)
    BY ProposalAssumption
<1>2. PICK j \in DOMAIN blocks[h] : blocks[h][j] = tx
    BY DEF Range
<1>3. tx \in Tx
    BY <1>1, <1>2
<1>4. j \in DOMAIN Staged(blocks[h]) /\ Staged(blocks[h])[j][1] = KeyOf(tx)
    BY <1>2 DEF Staged
<1>5. KeyOf(tx) \in BatchKeys(Staged(blocks[h]))
    BY <1>4 DEF BatchKeys
<1>6. Writes(h, KeyOf(tx))
    BY <1>5 DEF Writes, Effect, BatchSet, EmptyDB
<1> QED BY <1>3, <1>6, PairType

-----------------------------------------------------------------------------
(* The store under the endpoints.                                           *)

\* Every step of the endpoints is one of the store's or leaves it alone.
LEMMA StoreStep == [PutNext]_allVars => [Next]_vars
  BY DEF PutNext, SetKey, SetReturns, SetTimesOut, Propose, CommitAndUpdate, SaveAndPublish,
         Others, GoDown, Next, Progress, allVars

\* The key-value endpoints run on the store as it is specified.
THEOREM ClientRunsStore == PutSpec => Spec
<1>1. PutInit => Init
    BY DEF PutInit
<1> QED BY <1>1, StoreStep, PTL DEF PutSpec, Spec

\* Committed blocks stay committed.
LEMMA CommittedStay ==
    ASSUME TypeOK, [Next]_vars
    PROVE  /\ stateHeight' >= stateHeight /\ stateHeight' \in Nat
           /\ \A h \in 1 .. stateHeight : blocks'[h] = blocks[h]
<1>1. /\ blocks \in Seq(Proposal) /\ stateHeight \in 0 .. Len(blocks) /\ cur \in Nat
    BY DEF TypeOK
<1>2. CASE \E txs \in Proposal : SaveBlock(txs)
    <2> PICK txs \in Proposal : SaveBlock(txs)
        BY <1>2
    <2>1. blocks' = Append(blocks, txs) /\ stateHeight' = stateHeight
        BY DEF SaveBlock
    <2> QED BY <1>1, <2>1
<1>3. CASE SaveState
    BY <1>1, <1>3 DEF SaveState
<1>4. CASE HandshakeMock
    BY <1>1, <1>4 DEF HandshakeMock
<1>5. CASE UNCHANGED <<blocks, stateHeight>>
    BY <1>1, <1>5
<1> QED BY <1>2, <1>3, <1>4, <1>5
    DEF Next, Progress, FinalizeBlock, CommitBatchSet, CommitSaveMeta, NewKVStoreApp,
        SaveResponse, ReplayNext, ReplayDone, HandshakeInSync, HandshakeReplay,
        HandshakeTooHigh, Crash, CrashNode, vars, chainVars

\* A transaction that has landed stays landed.
LEMMA LandedStays ==
    ASSUME TypeOK, [Next]_vars, NEW r \in Request, put'[r] = put[r], Landed(r) # {}
    PROVE  Landed(r)' # {}
<1>1. PICK h \in 1 .. stateHeight : SetTx(put[r]) \in Range(blocks[h])
    BY DEF Landed
<1>2. h \in 1 .. stateHeight' /\ blocks'[h] = blocks[h]
    BY CommittedStay DEF TypeOK
<1>3. SetTx(put'[r]) \in Range(blocks'[h])
    BY <1>1, <1>2
<1> QED BY <1>2, <1>3 DEF Landed

-----------------------------------------------------------------------------
(* The invariant.                                                           *)

\* ClientInv holds before any request.
LEMMA ClientInit == PutInit => ClientInv
  BY DEF PutInit, ClientInv

\* A request that is answered at once, or whose transaction enters the mempool.
LEMMA SetKeyKeeps ==
    ASSUME PlainKeyArgs, TypeOK, ClientInv,
           NEW r \in Request, NEW k \in KeyArg, NEW v \in ValueArg, SetKey(r, k, v)
    PROVE  ClientInv'
<1> DEFINE p == [key |-> k, value |-> v]
<1>1. /\ pc[r] = "new" /\ put' = [put EXCEPT ![r] = p] /\ UNCHANGED vars
    BY DEF SetKey
<1>2. put'[r] = p
    BY <1>1 DEF ClientInv
<1>3. \/ /\ pc' = [pc EXCEPT ![r] = "done"]
         /\ \E text \in {"error", "bad request"} : answer' = [answer EXCEPT ![r] = text]
      \/ /\ k # <<>>
         /\ pc' = [pc EXCEPT ![r] = "waiting"]
         /\ answer' = answer
    <2>1. CASE Done(r, "bad request") \/ Done(r, "error")
        BY <2>1 DEF Done
    <2>2. CASE k # <<>> /\ Broadcast(r, SetTx(put'[r]))
        <3>1. isValidTx(SetTx(p))
            BY <2>2, SetTxIs
        <3> QED BY <1>2, <2>2, <3>1 DEF Broadcast, Done
    <2> QED BY <2>1, <2>2 DEF SetKey
<1>4. ASSUME NEW q \in Request, q # r
      PROVE  /\ pc'[q] = pc[q] /\ answer'[q] = answer[q] /\ put'[q] = put[q]
             /\ Landed(q)' = Landed(q)
    <2>1. pc'[q] = pc[q] /\ answer'[q] = answer[q] /\ put'[q] = put[q]
        BY <1>1, <1>3, <1>4 DEF ClientInv
    <2> QED BY <1>1, <2>1 DEF Landed, vars, chainVars
<1>5. /\ pc'[r] \in {"done", "waiting"} /\ answer'[r] # "ok"
      /\ pc'[r] # "done" => answer'[r] = "none" /\ k # <<>>
    BY <1>1, <1>3 DEF ClientInv
<1>6. /\ pc' \in [Request -> {"new", "waiting", "executed", "done"}]
      /\ put' \in [Request -> {NoPut} \cup [key : KeyArg, value : ValueArg]]
      /\ answer' \in [Request -> {"none", "ok", "error", "bad request"}]
    BY <1>1, <1>3 DEF ClientInv
<1>7. pc'[r] = "waiting" => put'[r] \in [key : KeyArg \ {<<>>}, value : ValueArg]
    BY <1>2, <1>5
<1> QED BY <1>4, <1>5, <1>6, <1>7 DEF ClientInv

\* A request that returns leaves the store alone.
LEMMA ReturnKeeps ==
    ASSUME TypeOK, ClientInv, NEW r \in Request, SetReturns(r) \/ SetTimesOut(r)
    PROVE  ClientInv'
<1>1. /\ pc[r] \in {"waiting", "executed"} /\ pc' = [pc EXCEPT ![r] = "done"]
      /\ UNCHANGED <<put, vars>>
      /\ \/ pc[r] = "executed" /\ answer' = [answer EXCEPT ![r] = "ok"]
         \/ answer' = [answer EXCEPT ![r] = "error"]
    BY DEF SetReturns, SetTimesOut, Done
<1>2. \A q \in Request : Landed(q)' = Landed(q)
    BY <1>1 DEF Landed, vars, chainVars
<1> QED BY <1>1, <1>2 DEF ClientInv

\* The block's requests are executed: it is committed in the same step.
LEMMA PublishKeeps ==
    ASSUME TypeOK, ClientInv, SaveAndPublish
    PROVE  ClientInv'
<1>1. /\ SaveState
      /\ pc' = [r \in Request |->
                   IF pc[r] = "waiting" /\ SetTx(put[r]) \in Range(blocks[cur])
                   THEN "executed" ELSE pc[r]]
      /\ UNCHANGED <<put, answer>>
    BY DEF SaveAndPublish
<1>2. [Next]_vars
    BY <1>1 DEF Next, Progress
<1>3. ASSUME NEW r \in Request, pc[r] = "waiting", SetTx(put[r]) \in Range(blocks[cur])
      PROVE  Landed(r)' # {}
    <2>1. stateHeight' = cur /\ cur > 0 /\ cur \in Nat /\ blocks' = blocks
        BY <1>1 DEF SaveState, TypeOK, Executing
    <2>2. cur \in 1 .. stateHeight' /\ SetTx(put'[r]) \in Range(blocks'[cur])
        BY <1>1, <1>3, <2>1
    <2> QED BY <2>2 DEF Landed
<1>4. \A r \in Request : Landed(r) # {} => Landed(r)' # {}
    BY <1>1, <1>2, LandedStays
<1> QED BY <1>1, <1>3, <1>4 DEF ClientInv

\* Steps of the node that leave the requests alone.
LEMMA NodeKeeps ==
    ASSUME TypeOK, ClientInv, [Next]_vars, UNCHANGED putVars
    PROVE  ClientInv'
<1>1. \A r \in Request : Landed(r) # {} => Landed(r)' # {}
    BY LandedStays DEF putVars
<1> QED BY <1>1 DEF ClientInv, putVars

\* A crash answers what was under way with an error.
LEMMA DownKeeps ==
    ASSUME TypeOK, ClientInv, GoDown
    PROVE  ClientInv'
<1>1. /\ Crash \/ CrashNode
      /\ pc' = [r \in Request |-> IF pc[r] = "new" THEN "new" ELSE "done"]
      /\ answer' = [r \in Request |->
                       IF pc[r] \in {"waiting", "executed"} THEN "error" ELSE answer[r]]
      /\ UNCHANGED put
    BY DEF GoDown
<1>2. \A r \in Request : Landed(r) # {} => Landed(r)' # {}
    BY <1>1, LandedStays DEF Next
<1> QED BY <1>1, <1>2 DEF ClientInv

\* Every step keeps ClientInv.
LEMMA ClientStep ==
    ASSUME PlainKeyArgs, TypeOK, ClientInv, [PutNext]_allVars
    PROVE  ClientInv'
<1>1. [Next]_vars
    BY StoreStep
<1>2. CASE UNCHANGED putVars
    BY <1>1, <1>2, NodeKeeps
<1> QED BY <1>2, SetKeyKeeps, ReturnKeeps, PublishKeeps, DownKeeps
    DEF PutNext, Propose, CommitAndUpdate, Others, allVars

-----------------------------------------------------------------------------
(* Theorems.                                                                *)

\* A served query for a key that has landed answers its last committed value.
LEMMA LandedIsRead ==
    ASSUME PlainKeyArgs, TypeOK, RecoveryInv, ClientInv, NEW r \in Request,
           answer[r] = "ok", Serving
    PROVE  \E h \in 1 .. VisibleHeight :
               /\ \A i \in Landed(r) : i <= h
               /\ Writes(h, put[r].key)
               /\ GetKey(put[r].key) = <<Effect(blocks[h])[put[r].key]>>
<1> DEFINE k == put[r].key
           n == VisibleHeight
<1>1. /\ put[r] \in [key : KeyArg \ {<<>>}, value : ValueArg]
      /\ Landed(r) # {}
    BY DEF ClientInv
<1>2. isValidTx(SetTx(put[r])) /\ KeyOf(SetTx(put[r])) = k
    BY <1>1, SetTxIs
<1>3. /\ blocks \in Seq(Proposal) /\ stateHeight \in 0 .. Len(blocks)
      /\ cur \in 0 .. Len(blocks)
    BY DEF TypeOK
<1>4. \A i \in Landed(r) : i \in 1 .. stateHeight /\ k \in Key /\ Writes(i, k)
    BY <1>2, <1>3, BlockWrites DEF Landed
<1>5. n \in Nat /\ stateHeight <= n
    BY <1>3 DEF VisibleHeight, RecoveryInv, PipelineInv, Serving, Executing
<1>6. k \in Key /\ \A i \in Landed(r) : i \in 1 .. n /\ Writes(i, k)
    BY <1>1, <1>3, <1>4, <1>5
<1> DEFINE W == {i \in 1 .. n : Writes(i, k)}
<1>7. W \subseteq 0 .. n /\ W # {}
    BY <1>1, <1>6
<1>8. PICK h \in W : \A i \in W : i <= h
    <2> HIDE DEF W, n
    <2> QED BY <1>5, <1>7, NatMax
<1>9. h \in 1 .. n /\ LastWriter(h, k, n)
    BY <1>8 DEF LastWriter
<1>10. Query(k) = <<Effect(blocks[h])[k]>>
    <2>1. Reads(k, VisibleHeight)
        BY <1>6, RecoveryServes DEF QueryReturnsLatest
    <2> QED BY <1>9, <2>1 DEF Reads
<1>11. GetKey(k) = Query(k)
    BY <1>1 DEF GetKey, Get
<1> QED BY <1>6, <1>8, <1>9, <1>10, <1>11

\* A PUT answered with success is in a committed block for good, and a GET answers
\* its value or a later one (client/kvstore.go, Set and Get).
THEOREM PutsAreDurable ==
    ASSUME FaultModel, PlainKeyArgs
    PROVE  PutSpec => []PutIsDurable
<1>1. Spec => []RecoveryInv
    BY Recovery
<1>2. TypeOK /\ ClientInv /\ [PutNext]_allVars => ClientInv'
    BY ClientStep
<1>3. TypeOK /\ RecoveryInv /\ ClientInv => PutIsDurable
    BY LandedIsRead DEF PutIsDurable, ClientInv
<1> QED BY <1>1, <1>2, <1>3, ClientInit, ClientRunsStore, TypeCorrect, PTL DEF PutSpec

-----------------------------------------------------------------------------
(* Types and the mempool.                                                   *)

Landable(r) == Range(pool) \cup UNION {Range(blocks[h]) : h \in DOMAIN blocks}

\* The mempool holds transactions it has seen, and what a request waits for is in
\* it or in a block.  An application that was left alone in Commit by its node has
\* no request waiting.
PoolInv ==
    /\ pc \in [Request -> {"new", "waiting", "executed", "done"}]
    /\ put \in [Request -> {NoPut} \cup [key : KeyArg, value : ValueArg]]
    /\ answer \in [Request -> {"none", "ok", "error", "bad request"}]
    /\ pool \in Seq(Tx) /\ Range(pool) \subseteq seen /\ seen \subseteq Tx
    /\ \A r \in Request : pc[r] = "waiting" => SetTx(put[r]) \in Landable(r)
    /\ appAt = "commit" => \/ phase = "committing"
                           \/ phase = "down" /\ \A r \in Request : pc[r] # "waiting"

\* A sequence and one more element.
LEMMA RangeAppend ==
    ASSUME NEW S, NEW s \in Seq(S), NEW e \in S
    PROVE  Range(Append(s, e)) = Range(s) \cup {e} /\ Append(s, e) \in Seq(S)
<1>1. /\ Append(s, e) \in Seq(S) /\ DOMAIN Append(s, e) = 1 .. Len(s) + 1
      /\ Len(s) \in Nat /\ DOMAIN s = 1 .. Len(s)
    OBVIOUS
<1>2. /\ \A i \in 1 .. Len(s) : Append(s, e)[i] = s[i]
      /\ Append(s, e)[Len(s) + 1] = e
    OBVIOUS
<1>3. \A i \in 1 .. Len(s) + 1 : i \in 1 .. Len(s) \/ i = Len(s) + 1
    BY <1>1
<1>4. 1 .. Len(s) \subseteq 1 .. Len(s) + 1 /\ Len(s) + 1 \in 1 .. Len(s) + 1
    BY <1>1
<1> QED BY <1>1, <1>2, <1>3, <1>4, Zenon DEF Range

\* Taking out a block's transactions leaves exactly the others.
LEMMA WithoutIs ==
    ASSUME pool \in Seq(Tx), NEW txs
    PROVE  Without(txs) \in Seq(Tx) /\ Range(Without(txs)) = Range(pool) \ Range(txs)
<1> DEFINE S == {i \in DOMAIN pool : pool[i] \notin Range(txs)}
<1>1. DOMAIN pool = 1 .. Len(pool) /\ Len(pool) \in Nat /\ \A i \in DOMAIN pool : pool[i] \in Tx
    OBVIOUS
<1>2. S \subseteq 1 .. Len(pool)
    BY <1>1
<1>3. \A i \in S : i \in DOMAIN pool /\ pool[i] \notin Range(txs)
    OBVIOUS
<1>4. \A i \in DOMAIN pool : pool[i] \notin Range(txs) => i \in S
    OBVIOUS
<1>5. Without(txs) = [i \in DOMAIN Ascending(S) |-> pool[Ascending(S)[i]]]
    BY DEF Without
<1> HIDE DEF S
<1>6. PICK n \in Nat : /\ Ascending(S) \in [1 .. n -> S]
                        /\ \A x \in S : \E i \in 1 .. n : Ascending(S)[i] = x
    BY <1>1, <1>2, AscendingPositions
<1>7. Without(txs) \in [1 .. n -> Tx]
    BY <1>1, <1>3, <1>5, <1>6
<1>8. Without(txs) \in Seq(Tx)
    BY <1>6, <1>7, SeqDef
<1>9. Range(Without(txs)) \subseteq Range(pool) \ Range(txs)
    BY <1>3, <1>5, <1>6 DEF Range
<1>10. ASSUME NEW tx \in Range(pool) \ Range(txs) PROVE tx \in Range(Without(txs))
    <2>1. PICK i \in DOMAIN pool : pool[i] = tx
        BY DEF Range
    <2>2. PICK j \in 1 .. n : Ascending(S)[j] = i
        BY <1>4, <1>6, <2>1
    <2>3. j \in DOMAIN Without(txs) /\ Without(txs)[j] = tx
        BY <1>5, <1>6, <2>1, <2>2
    <2> QED BY <2>3 DEF Range
<1> QED BY <1>8, <1>9, <1>10

LEMMA PoolInit == PutInit => PoolInv
<1> SUFFICES ASSUME PutInit PROVE PoolInv
    OBVIOUS
<1>1. Range(<<>>) = {}
    BY DEF Range
<1> QED BY <1>1 DEF PutInit, Init, PoolInv

\* The store's own steps, which leave requests and mempool alone, lose no block and
\* are not in Commit without the node.
LEMMA OthersKeepPool ==
    ASSUME PoolInv, [Next]_vars, UNCHANGED <<putVars, poolVars>>, TypeOK,
           ~Crash, ~CrashNode
    PROVE  PoolInv'
<1>1. \A h \in DOMAIN blocks : h \in DOMAIN blocks' /\ blocks'[h] = blocks[h]
    <2>1. CASE \E txs \in Proposal : SaveBlock(txs)
        <3> PICK txs \in Proposal : SaveBlock(txs)
            BY <2>1
        <3>1. blocks' = Append(blocks, txs)
            BY DEF SaveBlock
        <3>2. blocks \in Seq(Proposal)
            BY DEF TypeOK
        <3> QED BY <3>1, <3>2
    <2>2. CASE blocks' = blocks
        BY <2>2
    <2> QED BY <2>1, <2>2
        DEF Next, Progress, FinalizeBlock, CommitBatchSet, CommitSaveMeta, NewKVStoreApp,
            SaveResponse, SaveState, ReplayNext, ReplayDone, HandshakeInSync, HandshakeReplay,
            HandshakeMock, HandshakeTooHigh, Crash, CrashNode, vars, chainVars
<1>2. ASSUME NEW r \in Request, pc[r] = "waiting" PROVE SetTx(put'[r]) \in Landable(r)'
    <2>1. SetTx(put[r]) \in Landable(r)
        BY <1>2 DEF PoolInv
    <2> QED BY <1>1, <2>1 DEF Landable, putVars, poolVars
<1>3. appAt' = "commit" => \/ phase' = "committing"
                           \/ phase' = "down" /\ \A r \in Request : pc'[r] # "waiting"
    <2>1. UNCHANGED pc
        BY DEF putVars
    <2>2. CASE UNCHANGED <<appAt, phase>>
        BY <2>1, <2>2 DEF PoolInv
    <2>3. CASE appAt' # "commit" \/ phase' = "committing"
        BY <2>3
    <2>4. CASE appAt' = appAt /\ phase \notin {"committing", "down"}
        BY <2>4 DEF PoolInv
    <2> QED BY <2>2, <2>3, <2>4
        DEF Next, Progress, FinalizeBlock, CommitBatchSet, CommitSaveMeta, NewKVStoreApp,
            SaveResponse, SaveState, ReplayNext, ReplayDone, HandshakeInSync, HandshakeReplay,
            HandshakeMock, HandshakeTooHigh, Handshaking, SaveBlock, vars, appVars, nodeVars
<1>4. /\ pc' \in [Request -> {"new", "waiting", "executed", "done"}]
      /\ put' \in [Request -> {NoPut} \cup [key : KeyArg, value : ValueArg]]
      /\ answer' \in [Request -> {"none", "ok", "error", "bad request"}]
      /\ pool' \in Seq(Tx) /\ Range(pool') \subseteq seen' /\ seen' \subseteq Tx
    BY DEF PoolInv, putVars, poolVars
<1> QED BY <1>2, <1>3, <1>4 DEF PoolInv, putVars

\* A PUT arrives.
LEMMA SetKeyKeepsPool ==
    ASSUME PoolInv, NEW r \in Request, NEW k \in KeyArg, NEW v \in ValueArg, SetKey(r, k, v)
    PROVE  PoolInv'
<1> DEFINE p == [key |-> k, value |-> v]
<1>1. /\ pc[r] = "new" /\ put' = [put EXCEPT ![r] = p] /\ put'[r] = p
      /\ UNCHANGED <<blocks, appAt, phase>>
    BY DEF SetKey, PoolInv, vars, appVars, nodeVars, chainVars
<1>2. \A q \in Request : q # r => put'[q] = put[q]
    BY <1>1 DEF PoolInv
<1>3. CASE /\ \E text \in {"bad request", "error", "ok"} : Done(r, text)
           /\ UNCHANGED poolVars
    <2>1. /\ pc' = [pc EXCEPT ![r] = "done"]
          /\ \E text \in {"bad request", "error", "ok"} : answer' = [answer EXCEPT ![r] = text]
          /\ UNCHANGED <<pool, seen>>
        BY <1>3 DEF Done, poolVars
    <2>2. \A q \in Request : pc'[q] = "waiting" => q # r /\ pc[q] = "waiting"
        BY <2>1 DEF PoolInv
    <2>3. \A q \in Request : Landable(q)' = Landable(q)
        BY <1>1, <2>1 DEF Landable
    <2> QED BY <1>1, <1>2, <2>1, <2>2, <2>3 DEF PoolInv
<1>4. CASE /\ k # <<>> /\ NodeTakesTx /\ SetTx(p) \notin seen
           /\ pool' = Append(pool, SetTx(p)) /\ seen' = seen \cup {SetTx(p)}
           /\ pc' = [pc EXCEPT ![r] = "waiting"] /\ UNCHANGED answer
    <2>1. SetTx(p) \in Tx
        BY <1>4, SentAssumption
    <2>2. pool' \in Seq(Tx) /\ Range(pool') = Range(pool) \cup {SetTx(p)}
        BY <1>4, <2>1, RangeAppend DEF PoolInv
    <2>3. \A q \in Request : SetTx(p) \in Landable(q)' /\ Landable(q) \subseteq Landable(q)'
        BY <1>1, <2>2 DEF Landable
    <2>4. \A q \in Request : pc'[q] = "waiting" => q = r \/ pc[q] = "waiting"
        BY <1>4 DEF PoolInv
    <2>5. \A q \in Request : pc'[q] = "waiting" => SetTx(put'[q]) \in Landable(q)'
        BY <1>1, <1>2, <2>3, <2>4 DEF PoolInv
    <2>6. appAt' # "commit"
        BY <1>1, <1>4 DEF NodeTakesTx
    <2> QED BY <1>1, <1>4, <2>1, <2>2, <2>5, <2>6 DEF PoolInv
<1> QED BY <1>1, <1>3, <1>4 DEF SetKey, Broadcast

\* A PUT returns.
LEMMA ReturnKeepsPool ==
    ASSUME PoolInv, NEW r \in Request, SetReturns(r) \/ SetTimesOut(r)
    PROVE  PoolInv'
<1>1. /\ pc' = [pc EXCEPT ![r] = "done"]
      /\ \E text \in {"ok", "error"} : answer' = [answer EXCEPT ![r] = text]
      /\ UNCHANGED <<put, pool, seen, blocks, appAt, phase>>
    BY DEF SetReturns, SetTimesOut, Done, poolVars, vars, appVars, nodeVars, chainVars
<1>2. \A q \in Request : pc'[q] = "waiting" => q # r /\ pc[q] = "waiting"
    BY <1>1 DEF PoolInv
<1>3. \A q \in Request : Landable(q)' = Landable(q)
    BY <1>1 DEF Landable
<1> QED BY <1>1, <1>2, <1>3 DEF PoolInv

\* The mempool is updated after Commit: what it loses is in the block.
LEMMA CommitKeepsPool ==
    ASSUME PoolInv, TypeOK, CommitAndUpdate
    PROVE  PoolInv'
<1>1. /\ appAt = "commit" /\ appAt' = "ready"
      /\ pool' = Without(blocks[cur])
      /\ UNCHANGED <<seen, pc, put, answer, blocks>>
    BY DEF CommitAndUpdate, CommitSaveMeta, putVars, chainVars
<1>2. pool' \in Seq(Tx) /\ Range(pool') = Range(pool) \ Range(blocks[cur])
    BY <1>1, WithoutIs DEF PoolInv
<1>3. ASSUME NEW r \in Request, pc[r] = "waiting" PROVE SetTx(put[r]) \in Landable(r)'
    <2>1. phase = "committing"
        BY <1>1, <1>3 DEF PoolInv
    <2>2. cur \in DOMAIN blocks
        <3>1. cur \in 0 .. Len(blocks) /\ cur > 0 /\ blocks \in Seq(Proposal)
            BY <2>1 DEF TypeOK, Executing
        <3> QED BY <3>1
    <2>3. SetTx(put[r]) \in Landable(r)
        BY <1>3 DEF PoolInv
    <2> QED BY <1>1, <1>2, <2>2, <2>3 DEF Landable
<1> QED BY <1>1, <1>2, <1>3 DEF PoolInv

\* A block's requests stop waiting when its events are published.
LEMMA PublishKeepsPool ==
    ASSUME PoolInv, SaveAndPublish
    PROVE  PoolInv'
<1>1. /\ phase = "committed" /\ phase' = "consensus" /\ appAt' = appAt
      /\ UNCHANGED <<put, answer, pool, seen, blocks>>
      /\ pc' = [r \in Request |->
                   IF pc[r] = "waiting" /\ SetTx(put[r]) \in Range(blocks[cur])
                   THEN "executed" ELSE pc[r]]
    BY DEF SaveAndPublish, SaveState, poolVars, appVars
<1>2. \A r \in Request : Landable(r)' = Landable(r)
    BY <1>1 DEF Landable
<1>3. appAt' # "commit"
    BY <1>1 DEF PoolInv
<1> QED BY <1>1, <1>2, <1>3 DEF PoolInv

\* A crash empties the mempool and leaves no request waiting.
LEMMA DownKeepsPool ==
    ASSUME PoolInv, GoDown
    PROVE  PoolInv'
<1>1. /\ pool' = <<>> /\ seen' = {} /\ phase' = "down" /\ put' = put
      /\ pc' = [r \in Request |-> IF pc[r] = "new" THEN "new" ELSE "done"]
      /\ answer' = [r \in Request |->
                       IF pc[r] \in {"waiting", "executed"} THEN "error" ELSE answer[r]]
    BY DEF GoDown, Crash, CrashNode
<1>2. Range(pool') \subseteq seen' /\ pool' \in Seq(Tx) /\ seen' \subseteq Tx
    BY <1>1 DEF Range
<1>3. \A r \in Request : pc'[r] # "waiting"
    BY <1>1
<1>4. pc' \in [Request -> {"new", "waiting", "executed", "done"}]
    BY <1>1
<1>5. /\ answer' \in [Request -> {"none", "ok", "error", "bad request"}]
      /\ put' \in [Request -> {NoPut} \cup [key : KeyArg, value : ValueArg]]
    BY <1>1 DEF PoolInv
<1> QED BY <1>1, <1>2, <1>3, <1>4, <1>5 DEF PoolInv

LEMMA PoolStep == PoolInv /\ TypeOK /\ [PutNext]_allVars => PoolInv'
<1> SUFFICES ASSUME PoolInv, TypeOK, [PutNext]_allVars PROVE PoolInv'
    OBVIOUS
<1>1. [Next]_vars
    BY StoreStep
<1>2. CASE Propose
    <2>1. UNCHANGED <<putVars, poolVars>> /\ ~Crash /\ ~CrashNode
        BY <1>2 DEF Propose, SaveBlock, Crash, CrashNode
    <2> QED BY <1>1, <2>1, OthersKeepPool
<1>3. CASE Others
    <2>1. UNCHANGED <<putVars, poolVars>>
        BY <1>3 DEF Others
    <2>2. crashes' = crashes /\ crashes \in Nat
        BY <1>3 DEF TypeOK, Others, FinalizeBlock, CommitBatchSet, NewKVStoreApp, SaveResponse,
            ReplayNext, ReplayDone, HandshakeInSync, HandshakeReplay, HandshakeMock,
            HandshakeTooHigh
    <2>3. ~Crash /\ ~CrashNode
        BY <2>2 DEF Crash, CrashNode
    <2> QED BY <1>1, <2>1, <2>3, OthersKeepPool
<1>4. CASE UNCHANGED allVars
    <2>1. ~Crash /\ ~CrashNode
        BY <1>4 DEF allVars, vars, Crash, CrashNode, TypeOK
    <2> QED BY <1>1, <1>4, <2>1, OthersKeepPool DEF allVars
<1> QED BY <1>2, <1>3, <1>4, SetKeyKeepsPool, ReturnKeepsPool, CommitKeepsPool,
           PublishKeepsPool, DownKeepsPool DEF PutNext

\* Types, and the mempool: under every fault, what a request waits for is in the
\* mempool or in a block, so the wait can end (BroadcastTxCommit in Set).
THEOREM PutTypeCorrect == PutSpec => []PutTypeOK
<1>1. PoolInv => PutTypeOK
    BY DEF PoolInv, PutTypeOK, Landable
<1> QED BY <1>1, PoolInit, PoolStep, ClientRunsStore, TypeCorrect, PTL DEF PutSpec
=============================================================================
