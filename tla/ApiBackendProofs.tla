-------------------------- MODULE ApiBackendProofs --------------------------
(***************************************************************************)
(* Proofs about ApiBackend: the account has one transaction waiting at     *)
(* most, what CheckTx accepted is not refused later and not lost, nothing  *)
(* is executed twice, and the composition does to the registry only what   *)
(* the registry's own specification allows.                                *)
(***************************************************************************)
EXTENDS TaskRegProofs, ApiBackend
LOCAL INSTANCE SequenceTheorems

Answers == {"none", "bad request", "error", "in cache", "invalid",
            "sequence mismatch", "ok"}

\* What executing a transaction may return: never "sequence mismatch".
Outcomes == {"none", "ok", "ErrTaskNotFound", "ErrUnauthorized", "ErrInvalidStatus"}

-----------------------------------------------------------------------------
(* The inductive invariant.                                                 *)

\* Nobody signs with a sequence the chain has not reached, a client that is not
\* done has no outcome and no acceptance, and an accepted one is waiting or has run.
ClientsOK ==
    /\ pc \in [Client -> {"new", "lock", "account", "broadcast", "done"}]
    /\ call \in [Client -> {NoCall} \cup Call]
    /\ reply \in [Client -> Answers]
    /\ result \in [Client -> Outcomes]
    /\ sequence \in [Client -> Nat]
    /\ restarts \in Nat
    /\ \A c \in Client :
           /\ sequence[c] <= accSeq
           /\ pc[c] \in {"lock", "account", "broadcast"} => call[c] \in Call
           /\ pc[c] # "done" => result[c] = "none" /\ reply[c] # "ok"
           /\ reply[c] = "ok" /\ restarts = 0 /\ result[c] = "none" =>
                  mempool # <<>> /\ mempool[1].from = c

\* Nothing is pending: the next transaction must carry the committed sequence.
Empty ==
    /\ mempool = <<>> /\ checkSeq = accSeq
    /\ block = <<>> /\ pos = 0 /\ blockSeq = accSeq
    /\ Idle

\* tx is the one transaction pending.
Only(tx) ==
    /\ mempool = <<tx>> /\ checkSeq = accSeq + 1
    /\ tx.from \in Client /\ pc[tx.from] = "done"
    /\ tx.msg \in Call
    /\ tx.seq = accSeq

\* It waits for a block, is in the block, is executed, has been executed.
Waiting(tx)  == Only(tx) /\ block = <<>> /\ pos = 0 /\ blockSeq = accSeq
                /\ Idle /\ result[tx.from] = "none"
Proposed(tx) == Only(tx) /\ block = <<tx>> /\ pos = 1 /\ blockSeq = accSeq
                /\ Idle /\ result[tx.from] = "none"
Running(tx)  == Only(tx) /\ block = <<tx>> /\ pos = 1 /\ blockSeq = accSeq + 1
                /\ code = "running" /\ result[tx.from] = "none"
Executed(tx) == Only(tx) /\ block = <<tx>> /\ pos = 2 /\ blockSeq = accSeq + 1
                /\ Idle /\ result[tx.from] # "none"

ChainOK ==
    /\ accSeq \in Nat
    /\ \/ Empty
       \/ \E tx : Waiting(tx) \/ Proposed(tx) \/ Running(tx) \/ Executed(tx)

OneAtATime == ClientsOK /\ ChainOK

-----------------------------------------------------------------------------
(* What the steps do.                                                       *)

\* The invariant holds initially.
LEMMA OneInit == ApiInit => OneAtATime
<1> SUFFICES ASSUME ApiInit PROVE OneAtATime
    OBVIOUS
<1>1. ClientsOK
    BY FailAssumption DEF ApiInit, ClientsOK, Answers, Outcomes
<1>2. Idle
    BY DEF ApiInit, Init, Idle
<1>3. ChainOK
    BY <1>2 DEF ApiInit, ChainOK, Empty
<1> QED BY <1>1, <1>3 DEF OneAtATime

\* The chain's part depends on nothing a handler changes but pc, and on pc only
\* where it is "done".
LEMMA ChainKept ==
    ASSUME ChainOK, UNCHANGED <<mempool, checkSeq, chainVars, vars>>,
           \A c \in Client : pc[c] = "done" => pc'[c] = "done"
    PROVE  ChainOK'
<1>1. CASE Empty
    <2>1. Empty'
        BY <1>1 DEF Empty, Idle, chainVars, vars
    <2> QED BY <2>1 DEF ChainOK, chainVars
<1>2. CASE \E tx : Waiting(tx) \/ Proposed(tx) \/ Running(tx) \/ Executed(tx)
    <2> PICK tx : Waiting(tx) \/ Proposed(tx) \/ Running(tx) \/ Executed(tx)
        BY <1>2
    <2>1. Only(tx)'
        BY DEF Waiting, Proposed, Running, Executed, Only, chainVars
    <2>2. (Waiting(tx) \/ Proposed(tx) \/ Running(tx) \/ Executed(tx))'
        BY <2>1 DEF Waiting, Proposed, Running, Executed, Idle, chainVars, vars
    <2> QED BY <2>2 DEF ChainOK, chainVars
<1> QED BY <1>1, <1>2 DEF ChainOK

\* A client that is not done did not send the pending transaction, and its own is
\* accepted only if nothing is pending.
LEMMA AcceptedIs ==
    ASSUME OneAtATime, NEW c \in Client, pc[c] = "broadcast",
           CheckTx(SignedTx(c)) = "ok"
    PROVE  Empty /\ sequence[c] = accSeq
<1>1. sequence[c] = checkSeq
    BY DEF CheckTx, SignedTx
<1>2. sequence[c] \in Nat /\ sequence[c] <= accSeq
    BY DEF OneAtATime, ClientsOK
<1>3. ASSUME NEW tx, Only(tx) PROVE FALSE
    BY <1>1, <1>2, <1>3 DEF Only, OneAtATime, ChainOK
<1> QED BY <1>1, <1>3 DEF OneAtATime, ChainOK, Waiting, Proposed, Running, Executed, Empty

\* A handler that answers without having broadcast, or was turned away.
LEMMA AnswerKeeps ==
    ASSUME OneAtATime, NEW c \in Client, NEW text \in Answers,
           pc[c] # "done", Answer(c, text), text # "ok",
           sequence' = sequence,
           UNCHANGED <<nodeVars, chainVars, restarts, vars>>
    PROVE  OneAtATime'
<1>1. /\ reply' = [reply EXCEPT ![c] = text]
      /\ pc' = [pc EXCEPT ![c] = "done"]
      /\ call' = call
    BY DEF Answer
<1>2. ClientsOK'
    BY <1>1 DEF OneAtATime, ClientsOK, nodeVars, chainVars
<1>3. \A k \in Client : pc[k] = "done" => pc'[k] = "done"
    BY <1>1 DEF OneAtATime, ClientsOK
<1>4. ChainOK'
    BY <1>3, ChainKept DEF OneAtATime, nodeVars
<1> QED BY <1>2, <1>4 DEF OneAtATime

\* An accepted transaction is the only one pending.
LEMMA AcceptKeeps ==
    ASSUME OneAtATime, NEW c \in Client, NEW text \in Answers,
           pc[c] = "broadcast", CheckTx(SignedTx(c)) = "ok",
           AddTx(SignedTx(c)), Answer(c, text),
           UNCHANGED <<sequence, chainVars, restarts, vars>>
    PROVE  OneAtATime'
<1> DEFINE tx == SignedTx(c)
<1>1. Empty /\ sequence[c] = accSeq
    BY AcceptedIs
<1>2. /\ tx.from = c /\ tx.msg = call[c] /\ tx.seq = accSeq
      /\ call[c] \in Call
    BY <1>1 DEF SignedTx, OneAtATime, ClientsOK
<1>3. mempool' = <<tx>> /\ checkSeq' = accSeq + 1
    BY <1>1 DEF AddTx, Empty
<1>4. /\ reply' = [reply EXCEPT ![c] = text]
      /\ pc' = [pc EXCEPT ![c] = "done"]
      /\ call' = call
    BY DEF Answer
<1>5. mempool'[1].from = c /\ mempool' # <<>>
    BY <1>2, <1>3
<1>6. ClientsOK'
    <2>1. \A k \in Client : k # c => reply'[k] = reply[k] /\ pc'[k] = pc[k]
        BY <1>4 DEF OneAtATime, ClientsOK
    <2>2. \A k \in Client : ~(reply[k] = "ok" /\ restarts = 0 /\ result[k] = "none")
        BY <1>1 DEF OneAtATime, ClientsOK, Empty
    <2>3. \A k \in Client : reply'[k] = "ok" /\ restarts' = 0 /\ result'[k] = "none" =>
              mempool' # <<>> /\ mempool'[1].from = k
        BY <1>5, <2>1, <2>2 DEF chainVars
    <2>4. /\ pc' \in [Client -> {"new", "lock", "account", "broadcast", "done"}]
          /\ reply' \in [Client -> Answers]
          /\ pc'[c] = "done"
        BY <1>4 DEF OneAtATime, ClientsOK
    <2> QED BY <1>4, <2>1, <2>3, <2>4 DEF OneAtATime, ClientsOK, chainVars
<1>7. result[c] = "none"
    BY DEF OneAtATime, ClientsOK
<1>8. ASSUME NEW k, k = SignedTx(c)'
      PROVE  Waiting(k)'
    <2>1. k = tx
        BY <1>4, <1>8 DEF SignedTx
    <2>2. Only(k)'
        BY <1>2, <1>3, <1>4, <2>1 DEF Only, chainVars, OneAtATime, ClientsOK
    <2> QED BY <1>1, <1>2, <1>7, <2>1, <2>2 DEF Waiting, Empty, Idle, chainVars, vars
<1>9. \E k : Waiting(k)'
    BY <1>8
<1>10. ChainOK'
    BY <1>9 DEF ChainOK, OneAtATime, chainVars
<1> QED BY <1>6, <1>10 DEF OneAtATime

\* Whatever the node answers to a broadcast.
LEMMA BroadcastKeeps ==
    ASSUME OneAtATime, NEW c \in Client, BroadcastTxSync(c)
    PROVE  OneAtATime'
<1> DEFINE tx == SignedTx(c)
<1>1. pc[c] = "broadcast" /\ UNCHANGED <<sequence, chainVars, restarts, vars>>
    BY DEF BroadcastTxSync
<1>2. /\ CheckTx(tx) \in Answers /\ "error" \in Answers
      /\ pc[c] # "done"
    BY <1>1 DEF CheckTx, Answers
<1>3. ASSUME NEW text \in Answers, AddTx(tx), Answer(c, text),
             CheckTx(tx) = "ok" \/ text # "ok"
      PROVE  OneAtATime'
    <2>1. CASE CheckTx(tx) = "ok"
        BY <1>1, <1>3, <2>1, AcceptKeeps
    <2>2. CASE CheckTx(tx) # "ok"
        <3>1. UNCHANGED nodeVars
            BY <1>3, <2>2 DEF AddTx
        <3> QED BY <1>1, <1>2, <1>3, <2>2, <3>1, AnswerKeeps
    <2> QED BY <2>1, <2>2
<1>4. CASE AddTx(tx) /\ Answer(c, CheckTx(tx))
    BY <1>2, <1>3, <1>4
<1>5. CASE AddTx(tx) /\ Answer(c, "error")
    BY <1>2, <1>3, <1>5
<1>6. CASE UNCHANGED nodeVars /\ Answer(c, "error")
    BY <1>1, <1>2, <1>6, AnswerKeeps
<1> QED BY <1>4, <1>5, <1>6 DEF BroadcastTxSync

\* A request arrives.
LEMMA ReceiveKeeps ==
    ASSUME OneAtATime, NEW c \in Client, NEW m \in Call, Receive(c, m)
    PROVE  OneAtATime'
<1>1. /\ pc[c] = "new" /\ call' = [call EXCEPT ![c] = m]
      /\ UNCHANGED <<sequence, nodeVars, chainVars, restarts, vars>>
      /\ \/ /\ pc' = [pc EXCEPT ![c] = "done"]
            /\ reply' = [reply EXCEPT ![c] = "bad request"]
         \/ /\ pc' = [pc EXCEPT ![c] = "lock"]
            /\ reply' = reply
         \/ /\ pc' = [pc EXCEPT ![c] = "account"]
            /\ reply' = reply
    BY DEF Receive, OneAtATime, ClientsOK
<1>2. ClientsOK'
    BY <1>1 DEF OneAtATime, ClientsOK, Answers, nodeVars, chainVars
<1>3. \A k \in Client : pc[k] = "done" => pc'[k] = "done"
    BY <1>1 DEF OneAtATime, ClientsOK
<1>4. ChainOK'
    BY <1>1, <1>3, ChainKept DEF OneAtATime, nodeVars
<1> QED BY <1>2, <1>4 DEF OneAtATime

\* A handler takes the mutex.
LEMMA LockKeeps ==
    ASSUME OneAtATime, NEW c \in Client, Lock(c)
    PROVE  OneAtATime'
<1>1. /\ pc[c] = "lock" /\ pc' = [pc EXCEPT ![c] = "account"]
      /\ UNCHANGED <<call, sequence, reply, nodeVars, chainVars, restarts, vars>>
    BY DEF Lock
<1>2. ClientsOK'
    BY <1>1 DEF OneAtATime, ClientsOK, nodeVars, chainVars
<1>3. \A k \in Client : pc[k] = "done" => pc'[k] = "done"
    BY <1>1 DEF OneAtATime, ClientsOK
<1>4. ChainOK'
    BY <1>1, <1>3, ChainKept DEF OneAtATime, nodeVars
<1> QED BY <1>2, <1>4 DEF OneAtATime

\* A handler asks for the committed sequence.
LEMMA AccountKeeps ==
    ASSUME OneAtATime, NEW c \in Client, getAccount(c)
    PROVE  OneAtATime'
<1>1. CASE /\ sequence' = [sequence EXCEPT ![c] = accSeq]
           /\ pc' = [pc EXCEPT ![c] = "broadcast"]
           /\ UNCHANGED <<call, reply, mu>>
    <2>1. pc[c] = "account" /\ UNCHANGED <<nodeVars, chainVars, restarts, vars>>
        BY DEF getAccount
    <2>2. ClientsOK'
        BY <1>1, <2>1 DEF OneAtATime, ClientsOK, ChainOK, nodeVars, chainVars
    <2>3. \A k \in Client : pc[k] = "done" => pc'[k] = "done"
        BY <1>1, <2>1 DEF OneAtATime, ClientsOK
    <2>4. ChainOK'
        BY <2>1, <2>3, ChainKept DEF OneAtATime, nodeVars
    <2> QED BY <2>2, <2>4 DEF OneAtATime
<1>2. CASE Answer(c, "error") /\ UNCHANGED sequence
    BY <1>2, AnswerKeeps DEF getAccount, Answers
<1> QED BY <1>1, <1>2 DEF getAccount

\* A block of one transaction.
LEMMA OneElement ==
    ASSUME NEW tx
    PROVE  Len(<<tx>>) = 1 /\ SubSeq(<<tx>>, 1, 1) = <<tx>>
<1>1. <<tx>> \in Seq({tx}) /\ Len(<<tx>>) = 1
    OBVIOUS
<1>2. SubSeq(<<tx>>, 1, 1) \in Seq({tx}) /\ Len(SubSeq(<<tx>>, 1, 1)) = 1
    BY <1>1, SubSeqProperties
<1>3. \A i \in 1 .. 1 : SubSeq(<<tx>>, 1, 1)[i] = <<tx>>[1 + i - 1]
    <2>1. \A i \in 1 .. 1 : <<tx>>[i] \in {tx}
        BY <1>1
    <2> QED BY <2>1, SubSeqProperties
<1> DEFINE s == SubSeq(<<tx>>, 1, 1)
<1>4. s[1] = tx /\ Len(s) = 1
    BY <1>2, <1>3
<1>5. \A i \in 1 .. Len(s) : s[i] = <<tx>>[i]
    <2> HIDE DEF s
    <2> QED BY <1>4
<1> QED BY <1>1, <1>2, <1>5, SeqEqual

\* A proposed block holds the one transaction.
LEMMA ProposeKeeps ==
    ASSUME OneAtATime, ProposeBlock
    PROVE  OneAtATime'
<1>1. /\ pos = 0 /\ mempool # <<>> /\ pos' = 1
      /\ UNCHANGED <<clientVars, nodeVars, accSeq, blockSeq, result, restarts, vars>>
    BY DEF ProposeBlock
<1>2. PICK tx : Waiting(tx)
    BY <1>1 DEF OneAtATime, ChainOK, Empty, Proposed, Running, Executed
<1>3. block' = <<tx>>
    <2>1. mempool = <<tx>>
        BY <1>2 DEF Waiting, Only
    <2>2. PICK n \in 1 .. Len(mempool) : block' = SubSeq(mempool, 1, n)
        BY DEF ProposeBlock
    <2>3. n = 1
        BY <2>1
    <2>4. SubSeq(<<tx>>, 1, 1) = <<tx>>
        BY OneElement
    <2> QED BY <2>1, <2>2, <2>3, <2>4
<1>4. Proposed(tx)'
    BY <1>1, <1>2, <1>3
    DEF Waiting, Proposed, Only, Idle, clientVars, nodeVars, vars
<1>5. ChainOK'
    BY <1>1, <1>4 DEF ChainOK, OneAtATime
<1>6. ClientsOK'
    BY <1>1 DEF OneAtATime, ClientsOK, clientVars, nodeVars
<1> QED BY <1>5, <1>6 DEF OneAtATime

\* The ante handler meets the sequence it expects.
LEMMA DeliverIs ==
    ASSUME OneAtATime, DeliverTx
    PROVE  \E tx : /\ Proposed(tx) /\ Running(tx)'
                   /\ BeginTx(<<tx.msg>>)
                   /\ UNCHANGED <<pos, result>>
<1>1. /\ Executing /\ Idle
      /\ UNCHANGED <<clientVars, nodeVars, accSeq, block, restarts>>
    BY DEF DeliverTx
<1>2. PICK tx : Proposed(tx)
    BY <1>1 DEF OneAtATime, ChainOK, Empty, Waiting, Running, Executed, Executing, Idle
<1>3. block[pos] = tx /\ tx.seq = blockSeq
    BY <1>2 DEF Proposed, Only
<1>4. /\ blockSeq' = blockSeq + 1
      /\ BeginTx(<<tx.msg>>)
      /\ UNCHANGED <<pos, result>>
    BY <1>3 DEF DeliverTx
<1>5. code' = "running"
    BY <1>4 DEF BeginTx
<1>6. Running(tx)'
    BY <1>1, <1>2, <1>4, <1>5 DEF Proposed, Running, Only, clientVars, nodeVars
<1> QED BY <1>2, <1>4, <1>6

LEMMA DeliverKeeps ==
    ASSUME OneAtATime, DeliverTx
    PROVE  OneAtATime'
<1>1. PICK tx : Running(tx)' /\ UNCHANGED <<pos, result>>
    BY DeliverIs
<1>2. UNCHANGED <<clientVars, nodeVars, accSeq, block, restarts>>
    BY DEF DeliverTx
<1>3. ChainOK'
    BY <1>1, <1>2 DEF ChainOK, OneAtATime
<1>4. ClientsOK'
    BY <1>1, <1>2 DEF OneAtATime, ClientsOK, clientVars, nodeVars
<1> QED BY <1>3, <1>4 DEF OneAtATime

\* The message runs on a copy of the registry and nothing else moves.
LEMMA RunKeeps ==
    ASSUME OneAtATime, RunMsg
    PROVE  OneAtATime'
<1>1. /\ todo # <<>> /\ code' = code
      /\ UNCHANGED <<clientVars, nodeVars, chainVars, restarts>>
    BY DEF RunMsg, CreateTask, AssignTask, CompleteTask
<1>2. PICK tx : Running(tx)
    BY <1>1 DEF OneAtATime, ChainOK, Empty, Waiting, Proposed, Executed, Idle
<1>3. Running(tx)'
    BY <1>1, <1>2 DEF Running, Only, clientVars, nodeVars, chainVars
<1>4. ChainOK'
    BY <1>1, <1>3 DEF ChainOK, OneAtATime, chainVars
<1>5. ClientsOK'
    BY <1>1 DEF OneAtATime, ClientsOK, clientVars, nodeVars, chainVars
<1> QED BY <1>4, <1>5 DEF OneAtATime

\* A transaction ends with an outcome.
LEMMA Outcome ==
    ASSUME EndTx \/ AbortTx
    PROVE  Idle' /\ code' \in Outcomes \ {"none"}
<1>1. CASE EndTx
    BY <1>1 DEF EndTx, Idle, Outcomes
<1>2. CASE AbortTx
    BY <1>2 DEF AbortTx, Idle, Outcomes, AssignOutcome, CompleteOutcome
<1> QED BY <1>1, <1>2

\* The outcome is recorded once: the transaction's sender had none.
LEMMA FinishIs ==
    ASSUME OneAtATime, FinishTx
    PROVE  \E tx : /\ Running(tx) /\ Executed(tx)'
                   /\ result' = [result EXCEPT ![tx.from] = code']
<1>1. /\ EndTx \/ AbortTx
      /\ pos' = pos + 1
      /\ UNCHANGED <<clientVars, nodeVars, accSeq, blockSeq, block, restarts>>
    BY DEF FinishTx
<1>2. ~Idle
    BY <1>1 DEF EndTx, AbortTx, Idle
<1>3. PICK tx : Running(tx)
    BY <1>2 DEF OneAtATime, ChainOK, Empty, Waiting, Proposed, Executed
<1>4. block[pos] = tx
    BY <1>3 DEF Running
<1>5. result' = [result EXCEPT ![tx.from] = code']
    BY <1>4 DEF FinishTx
<1>6. Idle' /\ code' # "none"
    BY <1>1, Outcome
<1>7. result'[tx.from] # "none"
    BY <1>3, <1>5, <1>6 DEF Running, Only, OneAtATime, ClientsOK
<1>8. Executed(tx)'
    BY <1>1, <1>3, <1>6, <1>7 DEF Running, Executed, Only, clientVars, nodeVars
<1> QED BY <1>3, <1>5, <1>8

LEMMA FinishKeeps ==
    ASSUME OneAtATime, FinishTx
    PROVE  OneAtATime'
<1>1. /\ EndTx \/ AbortTx
      /\ UNCHANGED <<clientVars, nodeVars, accSeq, blockSeq, block, restarts>>
    BY DEF FinishTx
<1>2. PICK tx : /\ Running(tx) /\ Executed(tx)'
                /\ result' = [result EXCEPT ![tx.from] = code']
    BY FinishIs
<1>3. code' \in Outcomes \ {"none"}
    BY <1>1, Outcome
<1>4. ChainOK'
    BY <1>1, <1>2 DEF ChainOK, OneAtATime
<1>5. ClientsOK'
    BY <1>1, <1>2, <1>3 DEF Running, Only, OneAtATime, ClientsOK, clientVars, nodeVars
<1> QED BY <1>4, <1>5 DEF OneAtATime

\* The block takes the one transaction with it; nothing is left to recheck.
LEMMA CommitKeeps ==
    ASSUME OneAtATime, Commit
    PROVE  OneAtATime'
<1>1. /\ pos > 1 /\ pos = Len(block) + 1
      /\ accSeq' = blockSeq
      /\ mempool' = Recheck(SubSeq(mempool, Len(block) + 1, Len(mempool)), blockSeq)
      /\ checkSeq' = blockSeq + Len(mempool')
      /\ block' = <<>> /\ pos' = 0
      /\ UNCHANGED <<clientVars, blockSeq, result, restarts, vars>>
    BY DEF Commit
<1>2. PICK tx : Executed(tx)
    BY <1>1 DEF OneAtATime, ChainOK, Empty, Waiting, Proposed, Running
<1>3. SubSeq(mempool, Len(block) + 1, Len(mempool)) = <<>>
    BY <1>2 DEF Executed, Only
<1>4. mempool' = <<>> /\ blockSeq = accSeq + 1 /\ accSeq \in Nat
    BY <1>1, <1>2, <1>3 DEF Recheck, Executed, OneAtATime, ChainOK
<1>5. checkSeq' = accSeq'
    BY <1>1, <1>4
<1>6. Empty'
    BY <1>1, <1>2, <1>4, <1>5 DEF Empty, Executed, Idle, vars
<1>7. ChainOK'
    BY <1>1, <1>4, <1>6 DEF ChainOK
<1>8. \A c \in Client : ~(reply[c] = "ok" /\ restarts = 0 /\ result[c] = "none")
    BY <1>2 DEF Executed, Only, OneAtATime, ClientsOK
<1>9. ClientsOK'
    BY <1>1, <1>4, <1>8 DEF OneAtATime, ClientsOK, clientVars
<1> QED BY <1>7, <1>9 DEF OneAtATime

\* The backend forgets what it was serving.
LEMMA RestartBackendKeeps ==
    ASSUME OneAtATime, RestartBackend
    PROVE  OneAtATime'
<1>1. /\ pc' = [c \in Client |->
                   IF c \in Request /\ pc[c] # "new" THEN "done" ELSE pc[c]]
      /\ restarts' = restarts + 1
      /\ UNCHANGED <<call, sequence, reply, nodeVars, chainVars, vars>>
    BY DEF RestartBackend
<1>2. ClientsOK'
    BY <1>1 DEF OneAtATime, ClientsOK, nodeVars, chainVars
<1>3. ChainOK'
    BY <1>1, ChainKept DEF OneAtATime, nodeVars
<1> QED BY <1>2, <1>3 DEF OneAtATime

\* The node forgets what was waiting.
LEMMA RestartNodeKeeps ==
    ASSUME OneAtATime, RestartNode
    PROVE  OneAtATime'
<1>1. /\ pos = 0 /\ mempool' = <<>> /\ checkSeq' = accSeq
      /\ restarts' = restarts + 1
      /\ UNCHANGED <<clientVars, chainVars, vars>>
    BY DEF RestartNode
<1>2. block = <<>> /\ blockSeq = accSeq /\ Idle
    BY <1>1 DEF OneAtATime, ChainOK, Empty, Waiting, Proposed, Running, Executed
<1>3. Empty'
    BY <1>1, <1>2 DEF Empty, Idle, chainVars, vars
<1>4. ChainOK'
    BY <1>1, <1>3 DEF ChainOK, OneAtATime, chainVars
<1>5. ClientsOK'
    BY <1>1 DEF OneAtATime, ClientsOK, clientVars, chainVars
<1> QED BY <1>4, <1>5 DEF OneAtATime

-----------------------------------------------------------------------------
(* Theorems.                                                                *)

\* The invariant is inductive.
LEMMA OneStep == OneAtATime /\ [ApiNext]_apiVars => OneAtATime'
<1> SUFFICES ASSUME OneAtATime, [ApiNext]_apiVars PROVE OneAtATime'
    OBVIOUS
<1>1. ASSUME NEW c \in Client, NEW m \in Call, Receive(c, m) PROVE OneAtATime'
    BY <1>1, ReceiveKeeps
<1>2. ASSUME NEW c \in Client, Serve(c) PROVE OneAtATime'
    BY <1>2, LockKeeps, AccountKeeps, BroadcastKeeps DEF Serve
<1>3. CASE Chain
    BY <1>3, ProposeKeeps, DeliverKeeps, RunKeeps, FinishKeeps, CommitKeeps DEF Chain
<1>4. CASE RestartBackend
    BY <1>4, RestartBackendKeeps
<1>5. CASE RestartNode
    BY <1>5, RestartNodeKeeps
<1>6. CASE UNCHANGED apiVars
    <2>1. UNCHANGED <<clientVars, nodeVars, chainVars, restarts, vars>>
        BY <1>6 DEF apiVars
    <2>2. ClientsOK'
        BY <2>1 DEF OneAtATime, ClientsOK, clientVars, nodeVars, chainVars
    <2>3. ChainOK'
        BY <2>1, ChainKept DEF OneAtATime, clientVars, nodeVars
    <2> QED BY <2>2, <2>3 DEF OneAtATime
<1> QED BY <1>1, <1>2, <1>3, <1>4, <1>5, <1>6 DEF ApiNext

LEMMA OneInvariant == ApiSpec => []OneAtATime
  BY OneInit, OneStep, PTL DEF ApiSpec

\* At most one of the account's transactions waits, whatever clients, endpoints and
\* failures there are (ChainClient.getAccount signs with the committed sequence, and
\* CheckTx wants the next one).
THEOREM OneTransactionPending == ApiSpec => []OnePending
<1>1. OneAtATime => mempool = <<>> \/ \E tx : mempool = <<tx>>
    BY DEF OneAtATime, ChainOK, Empty, Waiting, Proposed, Running, Executed, Only
<1>2. ASSUME NEW tx, mempool = <<tx>> PROVE Len(mempool) = 1
    BY <1>2, OneElement
<1>3. OneAtATime => OnePending
    BY <1>1, <1>2 DEF OnePending
<1> QED BY <1>3, OneInvariant, PTL

\* An accepted transaction is pending or has run, and the ante handler does not
\* refuse it (broadcastMsg answers ok after CheckTx only).
THEOREM AcceptedAlwaysRuns == ApiSpec => []AcceptedRuns
<1>1. ASSUME OneAtATime, NEW c \in Client, reply[c] = "ok", restarts = 0, result[c] = "none"
      PROVE  c \in Pending
    <2>1. mempool # <<>> /\ mempool[1].from = c
        BY <1>1 DEF OneAtATime, ClientsOK
    <2>2. \E tx : mempool = <<tx>>
        BY <2>1, <1>1 DEF OneAtATime, ChainOK, Empty, Waiting, Proposed, Running, Executed, Only
    <2> QED BY <2>1, <2>2 DEF Pending, Range
<1>2. ASSUME OneAtATime, NEW c \in Client
      PROVE  result[c] # "sequence mismatch"
    BY <1>2 DEF OneAtATime, ClientsOK, Outcomes
<1>3. OneAtATime => AcceptedRuns
    BY <1>1, <1>2 DEF AcceptedRuns
<1> QED BY <1>3, OneInvariant, PTL

\* No transaction is executed twice, across recheck, cache and restarts.
THEOREM NothingRunsTwice == ApiSpec => ExecutedOnce
<1> DEFINE Kept == \A c \in Client : result[c] # "none" => result'[c] = result[c]
<1>1. ASSUME OneAtATime, ApiNext PROVE Kept
    <2>1. CASE FinishTx
        <3> PICK tx : /\ Running(tx)
                      /\ result' = [result EXCEPT ![tx.from] = code']
            BY <1>1, <2>1, FinishIs
        <3> QED BY <1>1 DEF Running, Only, OneAtATime, ClientsOK
    <2>2. CASE DeliverTx
        BY <1>1, <2>2, DeliverIs
    <2>3. CASE \E c \in Client, m \in Call : Receive(c, m)
        BY <2>3 DEF Receive, chainVars
    <2>4. CASE \E c \in Client : Serve(c)
        BY <2>4 DEF Serve, Lock, getAccount, BroadcastTxSync, chainVars
    <2>5. CASE ProposeBlock \/ RunMsg \/ Commit \/ RestartBackend \/ RestartNode
        BY <2>5 DEF ProposeBlock, RunMsg, Commit, RestartBackend, RestartNode, chainVars
    <2> QED BY <1>1, <2>1, <2>2, <2>3, <2>4, <2>5 DEF ApiNext, Chain
<1>2. OneAtATime /\ [ApiNext]_apiVars => [Kept]_apiVars
    BY <1>1
<1> QED BY <1>2, OneInvariant, PTL DEF ApiSpec, ExecutedOnce

\* Behind the API the registry does only what its own specification allows: blocks
\* feed it with transactions of its payload, one at a time.
THEOREM ApiImplementsRegistry == ApiSpec => Spec
<1>1. ApiInit => Init
    BY DEF ApiInit
<1>2. ASSUME OneAtATime, ApiNext PROVE [Next]_vars
    <2>1. CASE DeliverTx
        <3> PICK tx : Proposed(tx) /\ BeginTx(<<tx.msg>>)
            BY <1>2, <2>1, DeliverIs
        <3>1. <<tx.msg>> \in Payload
            BY CarryAssumption DEF Proposed, Only
        <3> QED BY <3>1 DEF Next
    <2>2. CASE RunMsg \/ FinishTx
        BY <2>2 DEF RunMsg, FinishTx, Next
    <2>3. CASE \E c \in Client, m \in Call : Receive(c, m)
        BY <2>3 DEF Receive
    <2>4. CASE \E c \in Client : Serve(c)
        BY <2>4 DEF Serve, Lock, getAccount, BroadcastTxSync
    <2>5. CASE ProposeBlock \/ Commit \/ RestartBackend \/ RestartNode
        BY <2>5 DEF ProposeBlock, Commit, RestartBackend, RestartNode
    <2> QED BY <1>2, <2>1, <2>2, <2>3, <2>4, <2>5 DEF ApiNext, Chain
<1>3. OneAtATime /\ [ApiNext]_apiVars => [Next]_vars
    BY <1>2 DEF apiVars
<1> QED BY <1>1, <1>3, OneInvariant, PTL DEF ApiSpec, Spec

\* What holds of the registry holds of the registry behind the API.
COROLLARY RegistryBehindApi ==
    ASSUME Sound
    PROVE  ApiSpec => []TypeOK /\ []IdsFresh /\ []AssigneeMatchesStatus
                      /\ OnlyForward /\ Authorized
  BY ApiImplementsRegistry, TypeCorrect, IdsAlwaysFresh, AssigneesMatch, LifeCycle,
     Authorization, PTL

-----------------------------------------------------------------------------
(* Types and the mutex.                                                     *)

\* Only requests wait for the mutex, and its holder is between Lock and Unlock.
HolderOK ==
    /\ \A c \in Client : pc[c] = "lock" => c \in Request
    /\ mu \in {NoHolder} \cup {c \in Request : pc[c] \in {"account", "broadcast"}}
    /\ restarts \in 0 .. MaxRestarts

LEMMA HolderInit == ApiInit => HolderOK
  BY FailAssumption DEF ApiInit, HolderOK

\* broadcastMsg returns with the mutex free or in another's hands.
LEMMA AnswerReleases ==
    ASSUME ClientsOK, HolderOK, NEW c \in Client, NEW text, Answer(c, text), restarts' = restarts
    PROVE  HolderOK'
<1>1. pc' = [pc EXCEPT ![c] = "done"] /\ mu' = IF mu = c THEN NoHolder ELSE mu
    BY DEF Answer
<1>2. \A k \in Client : pc'[k] = IF k = c THEN "done" ELSE pc[k]
    BY <1>1 DEF ClientsOK
<1> QED BY <1>1, <1>2 DEF HolderOK, Client

\* Every step leaves the mutex with a handler that will release it.
LEMMA HolderStep == ClientsOK /\ HolderOK /\ [ApiNext]_apiVars => HolderOK'
<1> SUFFICES ASSUME ClientsOK, HolderOK, [ApiNext]_apiVars PROVE HolderOK'
    OBVIOUS
<1>1. ASSUME NEW c \in Client, NEW m \in Call, Receive(c, m) PROVE HolderOK'
    <2>1. /\ pc[c] = "new" /\ UNCHANGED <<mu, restarts>>
          /\ \E at \in {"done", "lock", "account"} :
                 /\ pc' = [pc EXCEPT ![c] = at]
                 /\ at = "lock" => c \in Request
        BY <1>1 DEF Receive
    <2>2. \A k \in Client : k # c => pc'[k] = pc[k]
        BY <2>1 DEF ClientsOK
    <2>3. pc'[c] = "lock" => c \in Request
        BY <2>1 DEF ClientsOK
    <2> QED BY <2>1, <2>2, <2>3 DEF HolderOK, Client
<1>2. ASSUME NEW c \in Client, Lock(c) PROVE HolderOK'
    <2>1. /\ pc[c] = "lock" /\ mu' = c /\ pc' = [pc EXCEPT ![c] = "account"]
          /\ restarts' = restarts
        BY <1>2 DEF Lock
    <2>2. \A k \in Client : pc'[k] = IF k = c THEN "account" ELSE pc[k]
        BY <2>1 DEF ClientsOK
    <2> QED BY <2>1, <2>2 DEF HolderOK, Client
<1>3. ASSUME NEW c \in Client, getAccount(c) PROVE HolderOK'
    <2>1. pc[c] = "account" /\ restarts' = restarts
        BY <1>3 DEF getAccount
    <2>2. CASE pc' = [pc EXCEPT ![c] = "broadcast"] /\ mu' = mu
        <3>1. \A k \in Client : pc'[k] = IF k = c THEN "broadcast" ELSE pc[k]
            BY <2>2 DEF ClientsOK
        <3> QED BY <2>1, <2>2, <3>1 DEF HolderOK, Client
    <2>3. CASE Answer(c, "error")
        BY <2>1, <2>3, AnswerReleases
    <2> QED BY <1>3, <2>2, <2>3 DEF getAccount
<1>4. ASSUME NEW c \in Client, BroadcastTxSync(c) PROVE HolderOK'
    <2>1. restarts' = restarts /\ \E text : Answer(c, text)
        BY <1>4 DEF BroadcastTxSync
    <2> QED BY <2>1, AnswerReleases
<1>5. CASE RestartBackend
    <2>1. /\ pc' = [c \in Client |-> IF c \in Request /\ pc[c] # "new" THEN "done" ELSE pc[c]]
          /\ mu' = NoHolder /\ restarts' = restarts + 1 /\ restarts < MaxRestarts
        BY <1>5 DEF RestartBackend
    <2> QED BY <2>1, FailAssumption DEF HolderOK
<1>6. CASE RestartNode
    <2>1. UNCHANGED <<pc, mu>> /\ restarts' = restarts + 1 /\ restarts < MaxRestarts
        BY <1>6 DEF RestartNode, clientVars
    <2> QED BY <2>1, FailAssumption DEF HolderOK
<1>7. CASE UNCHANGED <<pc, mu, restarts>>
    BY <1>7 DEF HolderOK
<1>8. Chain \/ UNCHANGED apiVars => UNCHANGED <<pc, mu, restarts>>
    BY DEF Chain, ProposeBlock, DeliverTx, RunMsg, FinishTx, Commit, clientVars, apiVars
<1> QED BY <1>1, <1>2, <1>3, <1>4, <1>5, <1>6, <1>7, <1>8 DEF ApiNext, Serve

\* What is pending or in the block is a signed transaction of the API.
LEMMA PendingTyped ==
    ASSUME ChainOK
    PROVE  /\ \A tx \in Range(mempool) \cup Range(block) :
                  tx.from \in Client /\ tx.msg \in Call /\ tx.seq \in Nat
           /\ checkSeq \in Nat /\ accSeq \in Nat /\ blockSeq \in Nat
           /\ pos \in 0 .. Len(block) + 1
<1>1. CASE Empty
    <2>1. Range(mempool) = {} /\ Range(block) = {} /\ Len(block) = 0
        BY <1>1 DEF Empty, Range
    <2> QED BY <1>1, <2>1 DEF Empty, ChainOK
<1>2. CASE \E tx : Waiting(tx) \/ Proposed(tx) \/ Running(tx) \/ Executed(tx)
    <2> PICK tx : Waiting(tx) \/ Proposed(tx) \/ Running(tx) \/ Executed(tx)
        BY <1>2
    <2>1. /\ mempool = <<tx>> /\ block \in {<<>>, <<tx>>}
          /\ tx.from \in Client /\ tx.msg \in Call /\ tx.seq \in Nat
        BY DEF Waiting, Proposed, Running, Executed, Only, ChainOK
    <2>2. Range(mempool) = {tx} /\ Range(block) \subseteq {tx}
        BY <2>1 DEF Range
    <2>3. Len(<<tx>>) = 1 /\ Len(<<>>) = 0
        BY OneElement
    <2>4. pos \in 0 .. Len(block) + 1
        BY <2>3 DEF Waiting, Proposed, Running, Executed
    <2>5. checkSeq \in Nat /\ accSeq \in Nat /\ blockSeq \in Nat
        BY DEF Waiting, Proposed, Running, Executed, Only, ChainOK
    <2> QED BY <2>1, <2>2, <2>4, <2>5
<1> QED BY <1>1, <1>2 DEF ChainOK

\* Types, and the mutex: whatever fails or restarts, it is free or held by a request
\* between Lock and the deferred Unlock of broadcastMsg.
THEOREM ApiTypeCorrect == ApiSpec => []ApiTypeOK
<1>1. ClientsOK /\ HolderOK /\ [ApiNext]_apiVars => HolderOK'
    BY HolderStep
<1>2. OneAtATime => ClientsOK
    BY DEF OneAtATime
<1>3. TypeOK /\ OneAtATime /\ HolderOK => ApiTypeOK
    <2> SUFFICES ASSUME TypeOK, OneAtATime, HolderOK PROVE ApiTypeOK
        OBVIOUS
    <2>1. sequence \in [Client -> 0 .. accSeq]
        BY DEF OneAtATime, ClientsOK, ChainOK
    <2>2. /\ pc \in [Client -> {"new", "lock", "account", "broadcast", "done"}]
          /\ call \in [Client -> {NoCall} \cup Call]
        BY DEF OneAtATime, ClientsOK
    <2>3. ChainOK
        BY DEF OneAtATime
    <2> QED BY <2>1, <2>2, <2>3, PendingTyped DEF HolderOK, ApiTypeOK
<1> QED BY <1>1, <1>2, <1>3, HolderInit, OneInvariant, ApiImplementsRegistry, TypeCorrect, PTL
        DEF ApiSpec
=============================================================================
