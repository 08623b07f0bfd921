---------------------------- MODULE ApiBackend -----------------------------
(***************************************************************************)
(* The write path of the HTTP API (api-backend) composed with the task     *)
(* registry: concurrent handlers sign with one key and broadcast, the node *)
(* checks, blocks execute.                                                 *)
(*                                                                         *)
(* A handler holds a mutex while it asks the node for the account's        *)
(* committed sequence number, signs with it and waits for CheckTx.         *)
(* mychaind on the command line (deploy-contracts.sh) signs with the same  *)
(* key and knows nothing of the mutex.  Any call to the node may fail or   *)
(* outlive the request's 30 second context, with or without having reached *)
(* the node.                                                               *)
(***************************************************************************)
EXTENDS TaskReg
LOCAL INSTANCE SequencesExt

CONSTANTS
    Request,        \* HTTP requests
    Cli,            \* transactions signed on the command line
    Admin,          \* the one account the backend and the CLI sign for
    Call,           \* messages the task endpoints may be asked to send
    CallsMayFail,   \* calls to the node may fail or time out
    MaxRestarts     \* bound: restarts of the backend and of the node

Client == Request \cup Cli

ASSUME ClientAssumption == Request \cap Cli = {}
ASSUME CallAssumption   == Call \subseteq {m \in Msg : m.signer = Admin}
ASSUME CarryAssumption  == \A m \in Call : <<m>> \in Payload
ASSUME FailAssumption   == CallsMayFail \in BOOLEAN /\ MaxRestarts \in Nat

VARIABLES
    pc,         \* where each client is
    call,       \* the message it sends
    sequence,   \* the account sequence it signed with
    reply,      \* what it was told
    mu,         \* ChainClient.mu: its holder, or NoHolder
    mempool,    \* CometBFT's mempool
    seen,       \* its cache of transactions
    checkSeq,   \* the account's sequence in the CheckTx state
    accSeq,     \* the account's sequence in the committed state
    blockSeq,   \* the account's sequence in the block being executed
    block,      \* the transactions of that block
    pos,        \* the one to execute next, 0 between blocks
    result,     \* what executing each client's transaction returned
    restarts

clientVars == <<pc, call, sequence, reply, mu>>
nodeVars   == <<mempool, seen, checkSeq>>
chainVars  == <<accSeq, blockSeq, block, pos, result>>
apiVars    == <<clientVars, nodeVars, chainVars, restarts, vars>>

NoHolder == "unlocked"
NoCall   == <<>>

-----------------------------------------------------------------------------
(* The node: CheckTx, BroadcastTxSync, recheck.                             *)

\* Signing is deterministic: equal messages and sequences are equal bytes.
Bytes(tx) == <<tx.msg, tx.seq>>

SignedTx(c) == [from |-> c, msg |-> call[c], seq |-> sequence[c]]

\* Mutant: CheckTx does not compare the sequence.
CheckAnySequence(tx) ==
    IF Bytes(tx) \in seen THEN "in cache"
    ELSE IF ~ValidateBasic(tx.msg) THEN "invalid" ELSE "ok"

\* CheckTx runs the ante handler and no message handler.
CheckTx(tx) ==
    IF Bytes(tx) \in seen THEN "in cache"
    ELSE IF ~ValidateBasic(tx.msg) THEN "invalid"
    ELSE IF tx.seq # checkSeq THEN "sequence mismatch" ELSE "ok"

\* Mutant: the checked transaction does not get into the mempool.
AddTxLost(tx) ==
    IF CheckTx(tx) = "ok"
    THEN /\ seen' = seen \cup {Bytes(tx)}
         /\ checkSeq' = checkSeq + 1
         /\ UNCHANGED mempool
    ELSE UNCHANGED nodeVars

AddTx(tx) ==
    IF CheckTx(tx) = "ok"
    THEN /\ mempool' = Append(mempool, tx)
         /\ seen' = seen \cup {Bytes(tx)}
         /\ checkSeq' = checkSeq + 1
    ELSE UNCHANGED nodeVars

\* Update rechecks what is left, if anything is: the transactions that still pass
\* CheckTx, in order, from sequence s on.
Recheck(txs, s) ==
    LET Keep(kept, tx) == IF tx.seq = s + Len(kept) THEN Append(kept, tx) ELSE kept
    IN  IF txs = <<>> THEN <<>> ELSE FoldLeft(Keep, <<>>, txs)

-----------------------------------------------------------------------------
(* The backend.                                                             *)

\* client/chain.go: whoever asks, the backend's own account is the creator and
\* the assignee.
CreateTaskMsg(title)        == [type |-> "CreateTask", signer |-> Admin, title |-> title]
AssignTaskMsg(id, assignee) == [type |-> "AssignTask", signer |-> Admin, id |-> id,
                                assignee |-> assignee]
CompleteTaskMsg(id)         == [type |-> "CompleteTask", signer |-> Admin, id |-> id]

\* handlers/tasks.go: CreateTask rejects an empty title, the others send what
\* they decoded.
BadRequest(m) == m.type = "CreateTask" /\ m.title = NoTitle

Receive(c, m) ==
    /\ pc[c] = "new"
    /\ call' = [call EXCEPT ![c] = m]
    /\ LET bad == c \in Request /\ BadRequest(m)
       IN  /\ pc' = [pc EXCEPT ![c] = IF bad THEN "done" ELSE IF c \in Request THEN "lock"
                                      ELSE "account"]
           /\ reply' = [reply EXCEPT ![c] = IF bad THEN "bad request" ELSE @]
    /\ UNCHANGED <<sequence, mu, nodeVars, chainVars, restarts, vars>>

Lock(c) ==
    /\ pc[c] = "lock" /\ mu = NoHolder
    /\ mu' = c
    /\ pc' = [pc EXCEPT ![c] = "account"]
    /\ UNCHANGED <<call, sequence, reply, nodeVars, chainVars, restarts, vars>>

\* Mutant: Unlock is not deferred but follows the successful return.
AnswerKeepsLock(c, text) ==
    /\ reply' = [reply EXCEPT ![c] = text]
    /\ pc' = [pc EXCEPT ![c] = "done"]
    /\ mu' = IF mu = c /\ text = "ok" THEN NoHolder ELSE mu
    /\ UNCHANGED call

\* broadcastMsg returns: the deferred Unlock runs and the handler answers.
Answer(c, text) ==
    /\ reply' = [reply EXCEPT ![c] = text]
    /\ pc' = [pc EXCEPT ![c] = "done"]
    /\ mu' = IF mu = c THEN NoHolder ELSE mu
    /\ UNCHANGED call

\* Mutant: the sequence is read from the CheckTx state.
getPendingAccount(c) ==
    /\ pc[c] = "account"
    /\ \/ /\ sequence' = [sequence EXCEPT ![c] = checkSeq]
          /\ pc' = [pc EXCEPT ![c] = "broadcast"]
          /\ UNCHANGED <<call, reply, mu>>
       \/ CallsMayFail /\ Answer(c, "error") /\ UNCHANGED sequence
    /\ UNCHANGED <<nodeVars, chainVars, restarts, vars>>

getAccount(c) ==
    /\ pc[c] = "account"
    /\ \/ /\ sequence' = [sequence EXCEPT ![c] = accSeq]
          /\ pc' = [pc EXCEPT ![c] = "broadcast"]
          /\ UNCHANGED <<call, reply, mu>>
       \/ CallsMayFail /\ Answer(c, "error") /\ UNCHANGED sequence
    /\ UNCHANGED <<nodeVars, chainVars, restarts, vars>>

BroadcastTxSync(c) ==
    /\ pc[c] = "broadcast"
    /\ LET tx == SignedTx(c)
       IN  \/ AddTx(tx) /\ Answer(c, CheckTx(tx))
           \/ CallsMayFail /\ AddTx(tx) /\ Answer(c, "error")
           \/ CallsMayFail /\ UNCHANGED nodeVars /\ Answer(c, "error")
    /\ UNCHANGED <<sequence, chainVars, restarts, vars>>

-----------------------------------------------------------------------------
(* Blocks.                                                                  *)

ProposeBlock ==
    /\ pos = 0 /\ mempool # <<>>
    /\ \E n \in 1 .. Len(mempool) : block' = SubSeq(mempool, 1, n)
    /\ pos' = 1
    /\ UNCHANGED <<clientVars, nodeVars, accSeq, blockSeq, result, restarts, vars>>

Executing == pos \in DOMAIN block

\* The ante handler, then the message.  The sequence counts up even if the
\* message fails.
DeliverTx ==
    /\ Executing /\ Idle
    /\ LET tx == block[pos]
       IN  IF tx.seq = blockSeq
           THEN /\ blockSeq' = blockSeq + 1
                /\ BeginTx(<<tx.msg>>)
                /\ UNCHANGED <<pos, result>>
           ELSE /\ result' = [result EXCEPT ![tx.from] = "sequence mismatch"]
                /\ pos' = pos + 1
                /\ UNCHANGED <<blockSeq, vars>>
    /\ UNCHANGED <<clientVars, nodeVars, accSeq, block, restarts>>

RunMsg ==
    /\ CreateTask \/ AssignTask \/ CompleteTask
    /\ UNCHANGED <<clientVars, nodeVars, chainVars, restarts>>

FinishTx ==
    /\ EndTx \/ AbortTx
    /\ result' = [result EXCEPT ![block[pos].from] = code']
    /\ pos' = pos + 1
    /\ UNCHANGED <<clientVars, nodeVars, accSeq, blockSeq, block, restarts>>

\* Mutant: the committed transactions stay in the mempool.
CommitKeepsTxs ==
    /\ pos = Len(block) + 1 /\ pos > 1
    /\ accSeq' = blockSeq
    /\ checkSeq' = blockSeq
    /\ block' = <<>>
    /\ pos' = 0
    /\ UNCHANGED <<clientVars, mempool, seen, blockSeq, result, restarts, vars>>

\* Commit makes the block's state the committed one, resets the CheckTx state
\* to it and rechecks what is left in the mempool.  The cache keeps the
\* transactions that succeeded.
Commit ==
    /\ pos = Len(block) + 1 /\ pos > 1
    /\ accSeq' = blockSeq
    /\ mempool' = Recheck(SubSeq(mempool, Len(block) + 1, Len(mempool)), blockSeq)
    /\ checkSeq' = blockSeq + Len(mempool')
    /\ seen' = seen \ {Bytes(tx) : tx \in {t \in Range(mempool) \ Range(mempool') :
                                               result[t.from] # "ok"}}
    /\ block' = <<>>
    /\ pos' = 0
    /\ UNCHANGED <<clientVars, blockSeq, result, restarts, vars>>

-----------------------------------------------------------------------------
(* Restarts.                                                                *)

\* The backend keeps nothing: requests it was serving are never answered.
RestartBackend ==
    /\ restarts < MaxRestarts
    /\ pc' = [c \in Client |-> IF c \in Request /\ pc[c] # "new" THEN "done" ELSE pc[c]]
    /\ mu' = NoHolder
    /\ restarts' = restarts + 1
    /\ UNCHANGED <<call, sequence, reply, nodeVars, chainVars, vars>>

\* The node loses its mempool, the cache and the CheckTx state.
RestartNode ==
    /\ restarts < MaxRestarts
    /\ pos = 0
    /\ mempool' = <<>> /\ seen' = {} /\ checkSeq' = accSeq
    /\ restarts' = restarts + 1
    /\ UNCHANGED <<clientVars, chainVars, vars>>

-----------------------------------------------------------------------------
ApiInit ==
    /\ Init
    /\ pc = [c \in Client |-> "new"]
    /\ call = [c \in Client |-> NoCall]
    /\ sequence = [c \in Client |-> 0]
    /\ reply = [c \in Client |-> "none"]
    /\ mu = NoHolder
    /\ mempool = <<>> /\ seen = {} /\ checkSeq = 0
    /\ accSeq = 0 /\ blockSeq = 0 /\ block = <<>> /\ pos = 0
    /\ result = [c \in Client |-> "none"]
    /\ restarts = 0

Serve(c) == Lock(c) \/ getAccount(c) \/ BroadcastTxSync(c)

Chain == ProposeBlock \/ DeliverTx \/ RunMsg \/ FinishTx \/ Commit

ApiNext ==
    \/ \E c \in Client, m \in Call : Receive(c, m)
    \/ \E c \in Client : Serve(c)
    \/ Chain
    \/ RestartBackend
    \/ RestartNode

ApiSpec == ApiInit /\ [][ApiNext]_apiVars

\* Handlers run, the node answers, and blocks go on being produced.
ApiFairSpec ==
    /\ ApiSpec
    /\ \A c \in Client : WF_apiVars(Serve(c))
    /\ WF_apiVars(Chain)

-----------------------------------------------------------------------------
(* Properties.                                                              *)

Pending == {tx.from : tx \in Range(mempool)}

\* Every variable has its type, and the mutex is held by a request that is
\* between Lock and the deferred Unlock.
ApiTypeOK ==
    /\ TypeOK
    /\ pc \in [Client -> {"new", "lock", "account", "broadcast", "done"}]
    /\ call \in [Client -> {NoCall} \cup Call]
    /\ sequence \in [Client -> 0 .. accSeq]
    /\ mu \in {NoHolder} \cup {c \in Request : pc[c] \in {"account", "broadcast"}}
    /\ \A tx \in Range(mempool) \cup Range(block) :
           tx.from \in Client /\ tx.msg \in Call /\ tx.seq \in Nat
    /\ checkSeq \in Nat /\ accSeq \in Nat /\ blockSeq \in Nat
    /\ pos \in 0 .. Len(block) + 1
    /\ restarts \in 0 .. MaxRestarts

\* The account never has more than one transaction waiting: clients sign with the
\* committed sequence, so CheckTx turns away whatever comes before the next block,
\* through the mutex or past it.
OnePending == Len(mempool) <= 1

\* A transaction the API reported as accepted is neither dropped by a recheck nor
\* refused by the ante handler in its block: it waits, runs, or has run.  Only a
\* restart of the node, which empties the mempool, loses it.
AcceptedRuns ==
    \A c \in Client : reply[c] = "ok" =>
        /\ restarts = 0 /\ result[c] = "none" => c \in Pending
        /\ result[c] # "sequence mismatch"

\* What a client's transaction returned stays what it returned: no transaction
\* is executed twice, although it stays in the mempool while it executes and the
\* cache forgets failed ones and all of them when the node restarts.
ExecutedOnce ==
    [][\A c \in Client : result[c] # "none" => result'[c] = result[c]]_apiVars

\* Every request is answered unless a restart cuts it off: the mutex is released on
\* every path, and waiting for it ends.
EveryRequestAnswered ==
    \A c \in Request : pc[c] # "new" ~> (reply[c] # "none" \/ restarts > 0)

\* Every accepted transaction is executed, unless a restart empties the mempool.
AcceptedIsExecuted ==
    \A c \in Client : reply[c] = "ok" ~> (result[c] # "none" \/ restarts > 0)

-----------------------------------------------------------------------------
(* A claim of the documentation that the code does not meet.                *)

\* docs/05 and docs/08: a task that is not found, has the wrong status or belongs
\* to somebody else is answered with an error.
FailureReported ==
    \A c \in Request :
        result[c] \in {"ErrTaskNotFound", "ErrUnauthorized", "ErrInvalidStatus"} =>
            reply[c] # "ok"
=============================================================================
