------------------------------ MODULE KVStore ------------------------------
(***************************************************************************)
(* The ABCI key-value application (abci-kvstore/app.go) driven by the      *)
(* CometBFT 0.38 node it runs beside.                                      *)
(*                                                                         *)
(* CometBFT saves a decided block, calls FinalizeBlock, saves the response,*)
(* calls Commit and saves its own state; a crash can fall between any two  *)
(* of these steps, and inside Commit between its two Badger transactions.  *)
(* On restart CometBFT asks the application for its height (Info) and      *)
(* decides from three heights - application, block store, state store -    *)
(* whether to replay blocks, to pretend that the last one was executed, or *)
(* to refuse to start.                                                     *)
(***************************************************************************)
EXTENDS KVState

CONSTANTS
    Tx,             \* transactions: sequences of symbols, "=" among them
    Proposal,       \* blocks a proposer may propose: sequences over Tx
    FaultyOps,      \* Badger updates that may return an error
    SeparateProcs,  \* CometBFT may die while the application lives on
    MaxHeight,      \* bound: blocks decided
    MaxCrashes      \* bound: crashes

Ops == {"BatchSet", "SaveMeta"}

ASSUME TxAssumption       == Tx \subseteq Bytes
ASSUME ProposalAssumption == Proposal \subseteq Seq(Tx)
ASSUME FaultAssumption    == FaultyOps \subseteq Ops /\ SeparateProcs \in BOOLEAN
ASSUME BoundAssumption    == MaxHeight \in Nat /\ MaxCrashes \in Nat

VARIABLES
    db,           \* Badger: survives a crash
    appAt,        \* application process: "down", "ready" or "commit"
    height,       \* KVStoreApp.height  (memory)
    appHash,      \* KVStoreApp.appHash (memory)
    staged,       \* KVStoreApp.staged  (memory)
    phase,        \* where CometBFT is in its block pipeline
    cur,          \* the block CometBFT is executing
    serving,      \* CometBFT's RPC is up: clients can query
    blocks,       \* CometBFT block store (survives)
    response,     \* height of the FinalizeBlock response saved last (survives)
    stateHeight,  \* CometBFT state store: last block height (survives)
    stateHash,    \* CometBFT state store: AppHash (survives)
    crashes

appVars   == <<appAt, height, appHash, staged>>
nodeVars  == <<phase, cur, serving>>
chainVars == <<blocks, response, stateHeight, stateHash>>
vars      == <<db, appVars, nodeVars, chainVars, crashes>>

-----------------------------------------------------------------------------
(* Transactions: bytes.SplitN(tx, "=", 2).                                  *)

EqualSigns(tx) == {i \in DOMAIN tx : tx[i] = "="}

FirstEqual(tx) == CHOOSE i \in EqualSigns(tx) : \A j \in EqualSigns(tx) : i <= j

isValidTx(tx) == EqualSigns(tx) # {} /\ FirstEqual(tx) > 1

KeyOf(tx)   == SubSeq(tx, 1, FirstEqual(tx) - 1)
ValueOf(tx) == SubSeq(tx, FirstEqual(tx) + 1, Len(tx))

NoPairs == <<>>

\* The pairs FinalizeBlock stages: those of the valid transactions, in order.
Staged(txs) ==
    [i \in {j \in DOMAIN txs : isValidTx(txs[j])} |->
        <<KeyOf(txs[i]), ValueOf(txs[i])>>]

\* FinalizeBlock fills in TxResults only, so AppHash stays empty.
ResponseAppHash == NoHash

-----------------------------------------------------------------------------
(* The application's handlers.                                              *)

\* Mutant: the batch is written when it is staged, not when it is committed.
FinalizeBlockWrites ==
    /\ phase = "execute" /\ appAt = "ready"
    /\ staged' = Staged(blocks[cur])
    /\ db' = BatchSet(db, staged')
    /\ height' = cur
    /\ phase' = "finalized"
    /\ UNCHANGED <<appAt, appHash, cur, serving, chainVars, crashes>>

\* Mutant: the transaction is not split, so all of it becomes the key.
FinalizeBlockNoSplit ==
    /\ phase = "execute" /\ appAt = "ready"
    /\ staged' = [i \in DOMAIN blocks[cur] |-> <<blocks[cur][i], <<>> >>]
    /\ height' = cur
    /\ phase' = "finalized"
    /\ UNCHANGED <<db, appAt, appHash, cur, serving, chainVars, crashes>>

FinalizeBlock ==
    /\ phase = "execute" /\ appAt = "ready"
    /\ staged' = Staged(blocks[cur])
    /\ height' = cur
    /\ phase' = "finalized"
    /\ UNCHANGED <<db, appAt, appHash, cur, serving, chainVars, crashes>>

\* Mutant: Commit forgets the batch.
CommitNoBatch ==
    /\ phase = "commit" /\ appAt = "ready"
    /\ phase' = "committing"
    /\ appAt' = "commit"
    /\ UNCHANGED <<db, height, appHash, staged, cur, serving, chainVars, crashes>>

\* Commit, first Badger transaction; its error is logged and ignored.
CommitBatchSet ==
    /\ phase = "commit" /\ appAt = "ready"
    /\ \/ db' = BatchSet(db, staged)
       \/ "BatchSet" \in FaultyOps /\ staged # NoPairs /\ db' = db
    /\ phase' = "committing"
    /\ appAt' = "commit"
    /\ UNCHANGED <<height, appHash, staged, cur, serving, chainVars, crashes>>

\* Mutant: the metadata is saved before the hash is recomputed.
CommitStaleHash ==
    /\ appAt = "commit"
    /\ db' = SaveMeta(db, height, appHash)
    /\ appHash' = Hash(db)
    /\ staged' = NoPairs
    /\ appAt' = "ready"
    /\ phase' = IF phase = "committing" THEN "committed" ELSE phase
    /\ UNCHANGED <<height, cur, serving, chainVars, crashes>>

\* Mutant: the height of the next block is saved.
CommitNextHeight ==
    /\ appAt = "commit"
    /\ appHash' = Hash(db)
    /\ db' = SaveMeta(db, height + 1, appHash')
    /\ staged' = NoPairs
    /\ appAt' = "ready"
    /\ phase' = IF phase = "committing" THEN "committed" ELSE phase
    /\ UNCHANGED <<height, cur, serving, chainVars, crashes>>

\* Commit, second Badger transaction, and the answer to whoever still listens.
CommitSaveMeta ==
    /\ appAt = "commit"
    /\ appHash' = Hash(db)
    /\ \/ db' = SaveMeta(db, height, appHash')
       \/ "SaveMeta" \in FaultyOps /\ db' = db
    /\ staged' = NoPairs
    /\ appAt' = "ready"
    /\ phase' = IF phase = "committing" THEN "committed" ELSE phase
    /\ UNCHANGED <<height, cur, serving, chainVars, crashes>>

\* Mutant: the application takes the stored height for the next one to execute.
ResumeAhead ==
    /\ appAt = "down" /\ phase = "down"
    /\ MetaReadable(db)
    /\ height' = IF metaHeight \in DOMAIN db THEN LoadMeta(db).height + 1 ELSE 0
    /\ appHash' = LoadMeta(db).appHash
    /\ staged' = NoPairs
    /\ appAt' = "ready"
    /\ UNCHANGED <<db, nodeVars, chainVars, crashes>>

\* main and NewKVStoreApp: the process comes up unless LoadMeta fails.
NewKVStoreApp ==
    /\ appAt = "down" /\ phase = "down"
    /\ MetaReadable(db)
    /\ height' = LoadMeta(db).height
    /\ appHash' = LoadMeta(db).appHash
    /\ staged' = NoPairs
    /\ appAt' = "ready"
    /\ UNCHANGED <<db, nodeVars, chainVars, crashes>>

Info == [height |-> height, appHash |-> appHash]

NotFound == <<>>

Query(k) == IF k \in DOMAIN db THEN <<db[k]>> ELSE NotFound

-----------------------------------------------------------------------------
(* CometBFT's block pipeline.                                               *)

\* A block is decided and saved.  PrepareProposal returns the transactions it
\* is given and ProcessProposal accepts every block.
SaveBlock(txs) ==
    /\ phase = "consensus"
    /\ Len(blocks) < MaxHeight
    /\ blocks' = Append(blocks, txs)
    /\ cur' = Len(blocks) + 1
    /\ phase' = "execute"
    /\ UNCHANGED <<db, appVars, serving, response, stateHeight, stateHash, crashes>>

\* The response is stored when the block is new to the state store.
SaveResponse ==
    /\ phase = "finalized"
    /\ response' = IF cur > stateHeight THEN cur ELSE response
    /\ phase' = "commit"
    /\ UNCHANGED <<db, appVars, cur, serving, blocks, stateHeight, stateHash, crashes>>

\* Mutant: a replayed block is saved like a new one.
SaveStateAlways ==
    /\ phase = "committed"
    /\ stateHeight' = cur
    /\ stateHash' = ResponseAppHash
    /\ phase' = "consensus"
    /\ serving' = TRUE
    /\ UNCHANGED <<db, appVars, cur, blocks, response, crashes>>

SaveState ==
    /\ phase = "committed" /\ cur > stateHeight
    /\ stateHeight' = cur
    /\ stateHash' = ResponseAppHash
    /\ phase' = "consensus"
    /\ serving' = TRUE
    /\ UNCHANGED <<db, appVars, cur, blocks, response, crashes>>

ReplayNext ==
    /\ phase = "committed" /\ cur <= stateHeight /\ cur < Len(blocks)
    /\ cur' = cur + 1
    /\ phase' = "execute"
    /\ UNCHANGED <<db, appVars, serving, chainVars, crashes>>

\* The end of a replay that had no state to save asserts the app hash.
ReplayDone ==
    /\ phase = "committed" /\ cur <= stateHeight /\ cur = Len(blocks)
    /\ serving' = (ResponseAppHash = stateHash)
    /\ phase' = IF serving' THEN "consensus" ELSE "halted"
    /\ UNCHANGED <<db, appVars, cur, chainVars, crashes>>

-----------------------------------------------------------------------------
(* CometBFT's handshake with the application at startup.                    *)

Handshaking == phase = "down" /\ appAt = "ready"

\* The application height CometBFT compares; InitChain runs at height 0 and
\* answers an empty app hash.
InfoHash == IF Info.height = 0 THEN NoHash ELSE Info.appHash

\* Application, block store and state store agree: the app hash must too.
HandshakeInSync ==
    /\ Handshaking
    /\ Info.height = Len(blocks) /\ stateHeight = Len(blocks)
    /\ serving' = (InfoHash = stateHash)
    /\ phase' = IF serving' THEN "consensus" ELSE "halted"
    /\ UNCHANGED <<db, appVars, cur, chainVars, crashes>>

\* The application is behind the block store: replay from its height on.
HandshakeReplay ==
    /\ Handshaking
    /\ Info.height < Len(blocks)
    /\ cur' = Info.height + 1
    /\ phase' = "execute"
    /\ UNCHANGED <<db, appVars, serving, chainVars, crashes>>

\* The application reports the last block done, the state store does not have
\* it: the saved response is applied to the state, the block is not re-run.
HandshakeMock ==
    /\ Handshaking
    /\ Info.height = Len(blocks) /\ stateHeight + 1 = Len(blocks)
    /\ IF response = Len(blocks)
       THEN /\ stateHeight' = Len(blocks)
            /\ stateHash' = IF ResponseAppHash = NoHash
                            THEN InfoHash ELSE ResponseAppHash
            /\ serving' = TRUE
            /\ phase' = "consensus"
       ELSE /\ phase' = "halted"
            /\ UNCHANGED <<serving, stateHeight, stateHash>>
    /\ UNCHANGED <<db, appVars, cur, blocks, response, crashes>>

\* The application claims a block that does not exist.
HandshakeTooHigh ==
    /\ Handshaking
    /\ Info.height > Len(blocks)
    /\ phase' = "halted"
    /\ UNCHANGED <<db, appVars, cur, serving, chainVars, crashes>>

-----------------------------------------------------------------------------
(* Crashes.  CometBFT is the container's main process and dies when its     *)
(* connection to the application does, so one crash takes both; started by  *)
(* hand as two processes, CometBFT can die alone.                           *)

Crash ==
    /\ crashes < MaxCrashes
    /\ crashes' = crashes + 1
    /\ phase' = "down" /\ cur' = 0 /\ serving' = FALSE
    /\ appAt' = "down" /\ height' = 0 /\ appHash' = NoHash /\ staged' = NoPairs
    /\ UNCHANGED <<db, chainVars>>

CrashNode ==
    /\ SeparateProcs
    /\ crashes < MaxCrashes
    /\ crashes' = crashes + 1
    /\ phase # "down"
    /\ phase' = "down" /\ cur' = 0 /\ serving' = FALSE
    /\ UNCHANGED <<db, appVars, chainVars>>

-----------------------------------------------------------------------------
Init ==
    /\ db = EmptyDB
    /\ appAt = "down" /\ height = 0 /\ appHash = NoHash /\ staged = NoPairs
    /\ phase = "down" /\ cur = 0 /\ serving = FALSE
    /\ blocks = <<>> /\ response = 0 /\ stateHeight = 0 /\ stateHash = NoHash
    /\ crashes = 0

\* The steps the two processes take by themselves.
Progress ==
    \/ FinalizeBlock \/ CommitBatchSet \/ CommitSaveMeta \/ NewKVStoreApp
    \/ SaveResponse \/ SaveState \/ ReplayNext \/ ReplayDone
    \/ HandshakeInSync \/ HandshakeReplay \/ HandshakeMock \/ HandshakeTooHigh

Next ==
    \/ Progress
    \/ \E txs \in Proposal : SaveBlock(txs)
    \/ Crash
    \/ CrashNode

Spec     == Init /\ [][Next]_vars
FairSpec == Spec /\ WF_vars(Progress)

-----------------------------------------------------------------------------
(* Types.                                                                   *)

Phases == {"down", "consensus", "execute", "finalized", "commit", "committing",
           "committed", "halted"}

\* CometBFT is between saving a block, or picking one to replay, and being done
\* with it.
Executing == phase \in {"execute", "finalized", "commit", "committing", "committed"}

\* Every variable has its type and no height points past the block store.  The
\* hashes are opaque.
TypeOK ==
    /\ DOMAIN db \subseteq Bytes
    /\ \A k \in DOMAIN db \ {metaAppHash} : db[k] \in Bytes
    /\ appAt \in {"down", "ready", "commit"}
    /\ height \in Nat
    /\ staged \in {NoPairs} \cup {Staged(txs) : txs \in Proposal}
    /\ phase \in Phases
    /\ serving \in BOOLEAN
    /\ blocks \in Seq(Proposal)
    /\ cur \in 0 .. Len(blocks)
    /\ Executing => cur > 0
    /\ response \in 0 .. Len(blocks)
    /\ stateHeight \in 0 .. Len(blocks)
    /\ crashes \in 0 .. MaxCrashes

-----------------------------------------------------------------------------
(* What the database should hold.                                           *)

\* The pairs block h leaves behind, and the ones a set of blocks does.
Effect(txs) == BatchSet(EmptyDB, Staged(txs))

Effects == [h \in DOMAIN blocks |-> Effect(blocks[h])]

\* Queries reach the application between two ABCI calls.
Serving == serving /\ appAt = "ready"

Service == INSTANCE ReplicatedMap WITH
    Batch <- {Effect(txs) : txs \in Proposal},
    log   <- Effects,
    upto  <- LoadMeta(db).height,
    view  <- IF Serving THEN <<Data(db)>> ELSE <<>>

Key == {KeyOf(tx) : tx \in {t \in Tx : isValidTx(t)}}

Writes(h, k) == k \in DOMAIN Effect(blocks[h])

\* Block i is the last of the first n to write k.
LastWriter(i, k, n) ==
    /\ i \in 1 .. n
    /\ Writes(i, k)
    /\ \A j \in i + 1 .. n : ~Writes(j, k)

\* A query for k answers what the first n blocks last wrote to it.
Reads(k, n) ==
    /\ \A i \in 1 .. n : LastWriter(i, k, n) => Query(k) = <<Effect(blocks[i])[k]>>
    /\ (\A i \in 1 .. n : ~Writes(i, k)) => Query(k) = NotFound

\* The block whose state queries see: the last one committed.
VisibleHeight == IF phase = "committed" THEN cur ELSE stateHeight

-----------------------------------------------------------------------------
(* Properties.                                                              *)

\* A query answers with the value of the last committed write to the key, and
\* "not found" for keys no committed block wrote: whatever crashes and replays
\* lie behind, no write whose block was committed (app.go, Commit) is lost,
\* overwritten by an older one or visible early.
QueryReturnsLatest == Serving => \A k \in Key : Reads(k, VisibleHeight)

\* When CometBFT refuses to start after a crash, every decided block is already
\* executed and in the database: the refusal hides no half-done block.
HaltLosesNothing ==
    phase = "halted" => /\ stateHeight = Len(blocks)
                        /\ \A k \in Key : Reads(k, stateHeight)

\* The app hash stored beside a height (state.go, SaveMeta) is the hash of the
\* state at that height, also when the data is a block ahead of it because a
\* crash fell between the two transactions of Commit.
StoredHashMatchesHeight ==
    LET meta == LoadMeta(db)
    IN  meta.height > 0 =>
            meta.appHash = Hash(Service!MapAt(Effects, meta.height))

\* Blocks, crashes and replays together look to a client like a map driven by a
\* log that is sometimes offline.
ImplementsReplicatedMap == Service!Spec

\* Under every storage error, with either process crashing and with clients
\* writing the bookkeeping keys: a query returns only values that a committed
\* block wrote to that key.
QueryOnlyCommitted ==
    Serving => \A k \in Key \ MetaKeys :
        k \in DOMAIN db =>
            \E h \in 1 .. VisibleHeight :
                Writes(h, k) /\ Query(k) = <<Effect(blocks[h])[k]>>

\* CometBFT's state never goes back and never skips a block, whichever way the
\* handshake went.
StateAdvancesByOne ==
    [][stateHeight' \in {stateHeight, stateHeight + 1}]_vars

\* Every decided block is eventually executed, committed and recorded by
\* CometBFT, however the crashes fall: no crash point makes a decided block
\* stay behind.
DecidedIsCommitted ==
    \A h \in 1 .. MaxHeight : Len(blocks) >= h ~> stateHeight >= h

-----------------------------------------------------------------------------
(* The inductive invariant behind QueryReturnsLatest and HaltLosesNothing.  *)

MetaHeight == LoadMeta(db).height

\* The faults the application is built for: the two processes fall together,
\* batches are written, and clients leave the bookkeeping keys alone.
FaultModel ==
    /\ ~SeparateProcs
    /\ "BatchSet" \notin FaultyOps
    /\ Key \cap MetaKeys = {}

\* How many blocks the running processes know to be in the database.
Reached ==
    CASE phase \in {"committing", "committed"}         -> cur
      [] phase \in {"execute", "finalized", "commit"}  -> cur - 1
      [] phase = "down"                                -> MetaHeight
      [] OTHER                                         -> stateHeight

\* The database has been through the first n blocks, and replaying the blocks
\* after c brings it back to their state: a key whose last writer lies at or
\* below c has its value already.
Recovers(c, n) ==
    \A k \in Key :
        /\ k \in DOMAIN db <=> \E i \in 1 .. n : Writes(i, k)
        /\ \A i \in 1 .. c : LastWriter(i, k, n) => db[k] = Effect(blocks[i])[k]

\* The heights of the three stores and the application's memory agree with the
\* place CometBFT is at.
PipelineInv ==
    /\ Len(blocks) <= stateHeight + 1
    /\ phase \in {"consensus", "halted"} => stateHeight = Len(blocks)
    /\ phase \in {"down", "halted"} => ~serving
    /\ phase # "down" => appAt # "down"
    /\ phase = "committing" <=> appAt = "commit"
    /\ phase \in {"finalized", "commit", "committing"} =>
           height = cur /\ staged = Staged(blocks[cur])
    /\ Handshaking => height = MetaHeight
    /\ Executing /\ serving => cur = stateHeight + 1
    /\ phase \in {"commit", "committing", "committed"} => cur <= response
    /\ stateHeight <= response
    /\ MetaHeight \in 0 .. response

\* However far a crash throws the application back, the database is one replay
\* away from a block that CometBFT has decided.
DataInv ==
    /\ MetaHeight <= Reached
    /\ \E n \in stateHeight .. Len(blocks) :
           /\ Reached <= n
           /\ Recovers(Reached, n)
           /\ serving => Reached = n

\* After any crash with SaveMeta's errors ignored (app.go, Commit), the blocks
\* CometBFT would replay are exactly enough to repair the database.
RecoveryInv == PipelineInv /\ DataInv

-----------------------------------------------------------------------------
(* A claim of the documentation that the code does not meet.                *)

\* docs/07 and docs/11: the service resumes after a restart.
RestartResumes == phase # "halted"
=============================================================================
