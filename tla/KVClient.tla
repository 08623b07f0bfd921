------------------------------ MODULE KVClient ------------------------------
(***************************************************************************)
(* The key-value endpoints of the API (api-backend/client/kvstore.go and   *)
(* handlers/kvstore.go) as clients of the key-value store: PUT broadcasts  *)
(* "key=value" and waits for its block, GET queries the application.       *)
(*                                                                         *)
(* BroadcastTxCommit answers with an error when the transaction is in the  *)
(* mempool's cache or the block does not come in time, and with two codes  *)
(* otherwise: CheckTx's and, zero if there was no execution, the block's.  *)
(* Set looks at the second only.                                           *)
(***************************************************************************)
EXTENDS KVStore, Iteration
LOCAL INSTANCE SequencesExt

CONSTANTS
    Request,    \* PUT requests
    KeyArg,     \* keys they may name in the URL
    ValueArg    \* values they may carry

ASSUME PutAssumption == KeyArg \subseteq Bytes /\ ValueArg \subseteq Bytes

VARIABLES
    pc,         \* where each request is
    put,        \* its key and value
    answer,     \* what it was answered
    pool,       \* CometBFT's mempool: lost in a crash
    seen        \* its cache of transactions: lost in a crash

putVars  == <<pc, put, answer>>
poolVars == <<pool, seen>>
allVars  == <<vars, putVars, poolVars>>

NoPut == <<>>

\* fmt.Sprintf("%s=%s", key, value)
SetTx(p) == p.key \o <<"=">> \o p.value

ASSUME SentAssumption ==
    \A k \in KeyArg \ {<<>>}, v \in ValueArg : SetTx([key |-> k, value |-> v]) \in Tx

-----------------------------------------------------------------------------
(* PUT.                                                                     *)

Done(r, text) ==
    /\ pc' = [pc EXCEPT ![r] = "done"]
    /\ answer' = [answer EXCEPT ![r] = text]

\* The mempool takes calls while no Commit is under way.
NodeTakesTx == serving /\ appAt = "ready" /\ phase # "commit"

\* Mutant: the answer does not wait for the block.
BroadcastSync(r, tx) ==
    IF tx \in seen
    THEN Done(r, "error") /\ UNCHANGED poolVars
    ELSE /\ pool' = IF isValidTx(tx) THEN Append(pool, tx) ELSE pool
         /\ seen' = IF isValidTx(tx) THEN seen \cup {tx} ELSE seen
         /\ Done(r, "ok")

\* Mutant: the checked transaction does not get into the mempool.
BroadcastLost(r, tx) ==
    IF tx \in seen
    THEN Done(r, "error") /\ UNCHANGED poolVars
    ELSE /\ pc' = [pc EXCEPT ![r] = "waiting"]
         /\ seen' = seen \cup {tx}
         /\ UNCHANGED <<answer, pool>>

\* CheckTx, which decides like isValidTx: a rejected transaction comes back with
\* CheckTx's code and TxResult's zero code, which Set takes for success.
Broadcast(r, tx) ==
    IF tx \in seen
    THEN Done(r, "error") /\ UNCHANGED poolVars
    ELSE IF isValidTx(tx)
    THEN /\ pool' = Append(pool, tx)
         /\ seen' = seen \cup {tx}
         /\ pc' = [pc EXCEPT ![r] = "waiting"]
         /\ UNCHANGED answer
    ELSE Done(r, "ok") /\ UNCHANGED poolVars

\* The handler rejects an empty key and calls Set, whose call may not get through.
SetKey(r, k, v) ==
    /\ pc[r] = "new"
    /\ put' = [put EXCEPT ![r] = [key |-> k, value |-> v]]
    /\ \/ k = <<>> /\ Done(r, "bad request") /\ UNCHANGED poolVars
       \/ k # <<>> /\ NodeTakesTx /\ Broadcast(r, SetTx(put'[r]))
       \/ k # <<>> /\ Done(r, "error") /\ UNCHANGED poolVars
    /\ UNCHANGED vars

\* The event of the block reached BroadcastTxCommit in time.
SetReturns(r) ==
    /\ pc[r] = "executed"
    /\ Done(r, IF isValidTx(SetTx(put[r])) THEN "ok" ELSE "error")
    /\ UNCHANGED <<put, poolVars, vars>>

\* timeout_broadcast_tx_commit, the router's 30 seconds, or a lost connection.
SetTimesOut(r) ==
    /\ pc[r] \in {"waiting", "executed"}
    /\ Done(r, "error")
    /\ UNCHANGED <<put, poolVars, vars>>

\* GET: ABCIQuery's value, or an error if the key is empty or not there.
Get(k) == Query(k)

GetKey(k) == IF k = <<>> THEN NotFound ELSE Get(k)

-----------------------------------------------------------------------------
(* The node.                                                                *)

\* A proposal is the beginning of the mempool that fits into a block; empty blocks
\* are made too.
Propose ==
    /\ \E n \in 0 .. Len(pool) :
           SubSeq(pool, 1, n) \in Proposal /\ SaveBlock(SubSeq(pool, 1, n))
    /\ UNCHANGED <<putVars, poolVars>>

\* What is left of the mempool, in its order, when a block's transactions are taken out.
Without(txs) ==
    LET left == Ascending({i \in DOMAIN pool : pool[i] \notin Range(txs)})
    IN  [n \in DOMAIN left |-> pool[left[n]]]

\* CometBFT holds the mempool during Commit and then takes the block's
\* transactions out of it; they stay in the cache.  Replayed blocks meet an
\* empty mempool.
CommitAndUpdate ==
    /\ CommitSaveMeta
    /\ pool' = Without(blocks[cur])
    /\ UNCHANGED <<seen, putVars>>

\* The events of a block are published once its state is saved.
SaveAndPublish ==
    /\ SaveState
    /\ pc' = [r \in Request |->
                 IF pc[r] = "waiting" /\ SetTx(put[r]) \in Range(blocks[cur])
                 THEN "executed" ELSE pc[r]]
    /\ UNCHANGED <<put, answer, poolVars>>

Others ==
    /\ \/ FinalizeBlock \/ CommitBatchSet \/ NewKVStoreApp
       \/ SaveResponse \/ ReplayNext \/ ReplayDone
       \/ HandshakeInSync \/ HandshakeReplay \/ HandshakeMock \/ HandshakeTooHigh
    /\ UNCHANGED <<putVars, poolVars>>

\* A crash cuts the connections of the requests under way.
GoDown ==
    /\ Crash \/ CrashNode
    /\ pool' = <<>> /\ seen' = {}
    /\ pc' = [r \in Request |-> IF pc[r] = "new" THEN "new" ELSE "done"]
    /\ answer' = [r \in Request |-> IF pc[r] \in {"waiting", "executed"} THEN "error" ELSE answer[r]]
    /\ UNCHANGED put

-----------------------------------------------------------------------------
PutInit ==
    /\ Init
    /\ pc = [r \in Request |-> "new"]
    /\ put = [r \in Request |-> NoPut]
    /\ answer = [r \in Request |-> "none"]
    /\ pool = <<>> /\ seen = {}

PutNext ==
    \/ \E r \in Request, k \in KeyArg, v \in ValueArg : SetKey(r, k, v)
    \/ \E r \in Request : SetReturns(r) \/ SetTimesOut(r)
    \/ Propose
    \/ CommitAndUpdate
    \/ SaveAndPublish
    \/ Others
    \/ GoDown

PutSpec == PutInit /\ [][PutNext]_allVars

-----------------------------------------------------------------------------
(* Properties.                                                              *)

\* Every variable has its type, and a request waits only for a transaction that
\* is in the mempool or in a block.
PutTypeOK ==
    /\ pc \in [Request -> {"new", "waiting", "executed", "done"}]
    /\ put \in [Request -> {NoPut} \cup [key : KeyArg, value : ValueArg]]
    /\ answer \in [Request -> {"none", "ok", "error", "bad request"}]
    /\ Range(pool) \subseteq seen /\ seen \subseteq Tx
    /\ \A r \in Request : pc[r] = "waiting" =>
           SetTx(put[r]) \in Range(pool) \cup UNION {Range(blocks[h]) : h \in DOMAIN blocks}

\* The committed blocks that hold the request's transaction.
Landed(r) == {h \in 1 .. stateHeight : SetTx(put[r]) \in Range(blocks[h])}

\* A PUT that was answered with success is in a committed block and stays there
\* through crashes: a GET of its key answers its value or that of a later write
\* to the key, and never something older.
PutIsDurable ==
    \A r \in Request : answer[r] = "ok" =>
        /\ Landed(r) # {}
        /\ Serving => \E h \in 1 .. VisibleHeight :
               /\ \A i \in Landed(r) : i <= h
               /\ Writes(h, put[r].key)
               /\ GetKey(put[r].key) = <<Effect(blocks[h])[put[r].key]>>
=============================================================================
