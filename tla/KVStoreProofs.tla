--------------------------- MODULE KVStoreProofs ---------------------------
(***************************************************************************)
(* Types, recovery and durability of the key-value store, the abstract map *)
(* that it implements and the hash it stores, for every set of             *)
(* transactions and every number of blocks and crashes.                    *)
(***************************************************************************)
EXTENDS KVStore, NatOrder, TLAPS

-----------------------------------------------------------------------------
(* Transactions and batches.                                                *)

StagedSet == {NoPairs} \cup {Staged(txs) : txs \in Proposal}

\* The first "=" of a transaction that has one lies inside it.
LEMMA FirstEqualExists ==
    ASSUME NEW tx \in Bytes, EqualSigns(tx) # {}
    PROVE  /\ FirstEqual(tx) \in EqualSigns(tx)
           /\ FirstEqual(tx) \in 1 .. Len(tx)
<1>1. EqualSigns(tx) \subseteq Nat
    BY DEF EqualSigns, Bytes
<1>2. \E i \in EqualSigns(tx) : \A j \in EqualSigns(tx) : i <= j
    BY <1>1, NatMin
<1>3. FirstEqual(tx) \in EqualSigns(tx)
    BY <1>2, Zenon DEF FirstEqual
<1> QED BY <1>3 DEF EqualSigns, Bytes

\* A valid transaction yields a key clients may use and two byte strings.
LEMMA PairType ==
    ASSUME NEW tx \in Tx, isValidTx(tx)
    PROVE  KeyOf(tx) \in Key /\ KeyOf(tx) \in Bytes /\ ValueOf(tx) \in Bytes
<1>1. tx \in Bytes
    BY TxAssumption DEF Bytes
<1>2. KeyOf(tx) \in Bytes /\ ValueOf(tx) \in Bytes
    BY <1>1, FirstEqualExists DEF isValidTx, KeyOf, ValueOf, Bytes
<1> QED BY <1>2 DEF Key

\* A staged batch has finitely many positions, each holding a pair of byte strings.
LEMMA StagedType ==
    ASSUME NEW s \in StagedSet
    PROVE  \E n \in Nat :
              /\ DOMAIN s \subseteq 0 .. n
              /\ \A i \in DOMAIN s : s[i][1] \in Key /\ s[i][1] \in Bytes /\ s[i][2] \in Bytes
<1>1. CASE s = NoPairs
    BY <1>1 DEF NoPairs
<1>2. CASE \E txs \in Proposal : s = Staged(txs)
    <2>1. PICK txs \in Proposal : s = Staged(txs)
        BY <1>2
    <2>2. txs \in Seq(Tx)
        BY ProposalAssumption
    <2>3. \A i \in DOMAIN s : s[i] = <<KeyOf(txs[i]), ValueOf(txs[i])>> /\ isValidTx(txs[i]) /\ i \in DOMAIN txs
        BY <2>1 DEF Staged
    <2>4. DOMAIN s \subseteq 0 .. Len(txs) /\ Len(txs) \in Nat
        BY <2>2, <2>3
    <2>5. \A i \in DOMAIN s : s[i][1] \in Key /\ s[i][1] \in Bytes /\ s[i][2] \in Bytes
        <3> TAKE i \in DOMAIN s
        <3>1. txs[i] \in Tx /\ isValidTx(txs[i])
            BY <2>2, <2>3
        <3> QED BY <2>3, <3>1, PairType
    <2> QED BY <2>4, <2>5
<1> QED BY <1>1, <1>2 DEF StagedSet

\* LastPair finds the pair that wins, so a batch writes byte strings under client keys.
LEMMA BatchType ==
    ASSUME NEW s \in StagedSet
    PROVE  /\ BatchKeys(s) \subseteq Key \cap Bytes
           /\ \A k \in BatchKeys(s) : s[LastPair(s, k)][2] \in Bytes
<1>1. PICK n \in Nat :
          /\ DOMAIN s \subseteq 0 .. n
          /\ \A i \in DOMAIN s : s[i][1] \in Key /\ s[i][1] \in Bytes /\ s[i][2] \in Bytes
    BY StagedType
<1>2. BatchKeys(s) \subseteq Key \cap Bytes
    BY <1>1 DEF BatchKeys
<1>3. ASSUME NEW k \in BatchKeys(s)
      PROVE  s[LastPair(s, k)][2] \in Bytes
    <2> DEFINE T == {i \in DOMAIN s : s[i][1] = k}
    <2>1. T \subseteq 0 .. n /\ T # {}
        BY <1>1 DEF BatchKeys
    <2>2. \E x \in T : \A y \in T : y <= x
        <3> HIDE DEF T
        <3> QED BY <2>1, NatMax
    <2>3. \E i \in DOMAIN s : s[i][1] = k /\ \A j \in DOMAIN s : s[j][1] = k => j <= i
        BY <2>2
    <2>4. LastPair(s, k) \in DOMAIN s
        BY <2>3, Zenon DEF LastPair
    <2> QED BY <1>1, <2>4
<1> QED BY <1>2, <1>3

\* A batch writes the pairs it would leave in an empty database, and nothing else.
LEMMA BatchEffect ==
    ASSUME NEW d, NEW txs
    PROVE  /\ DOMAIN BatchSet(d, Staged(txs)) = DOMAIN d \cup DOMAIN Effect(txs)
           /\ \A k \in DOMAIN Effect(txs) : BatchSet(d, Staged(txs))[k] = Effect(txs)[k]
           /\ \A k \in DOMAIN d \ DOMAIN Effect(txs) : BatchSet(d, Staged(txs))[k] = d[k]
  BY DEF BatchSet, Effect, EmptyDB

\* A block writes only keys that some valid transaction names.
LEMMA EffectKeys ==
    ASSUME NEW txs \in Proposal
    PROVE  DOMAIN Effect(txs) \subseteq Key
<1>1. DOMAIN Effect(txs) = BatchKeys(Staged(txs))
    BY DEF Effect, BatchSet, EmptyDB
<1> QED BY <1>1, BatchType DEF StagedSet

-----------------------------------------------------------------------------
(* Types.                                                                   *)

\* The part of TypeOK about the database.
DBType(d) == /\ DOMAIN d \subseteq Bytes
             /\ \A k \in DOMAIN d \ {metaAppHash} : d[k] \in Bytes

\* Both Badger transactions of Commit keep the database well typed.
LEMMA BatchSetType ==
    ASSUME NEW d, DBType(d), NEW s \in StagedSet
    PROVE  DBType(BatchSet(d, s))
  BY BatchType DEF DBType, BatchSet

\* The bookkeeping keys and the height are byte strings too; the hash is opaque.
LEMMA SaveMetaType ==
    ASSUME NEW d, DBType(d), NEW h \in Nat, NEW hash
    PROVE  DBType(SaveMeta(d, h, hash))
<1>1. metaHeight \in Bytes /\ metaAppHash \in Bytes
    BY SymbolAssumption DEF metaHeight, metaAppHash, Bytes
<1>2. PutUint64(h) \in Bytes
    BY SymbolAssumption DEF PutUint64, Bytes
<1> QED BY <1>1, <1>2 DEF DBType, SaveMeta, MetaKeys

\* Where LoadMeta returns, it returns a height.
LEMMA LoadMetaType ==
    ASSUME NEW d, DBType(d), MetaReadable(d)
    PROVE  LoadMeta(d).height \in Nat
<1>1. metaHeight # metaAppHash
    BY DEF metaHeight, metaAppHash
<1> QED BY <1>1 DEF DBType, MetaReadable, LoadMeta, IsUint64, Uint64, Bytes

\* TypeOK holds when both processes start on an empty database.
LEMMA TypeInit == Init => TypeOK
<1> SUFFICES ASSUME Init PROVE TypeOK
    OBVIOUS
<1>1. serving \in BOOLEAN
    BY DEF Init
<1>2. DOMAIN db = {} /\ blocks \in Seq(Proposal) /\ Len(blocks) = 0
    BY DEF Init, EmptyDB
<1> QED BY <1>1, <1>2, BoundAssumption DEF Init, TypeOK, NoPairs, Phases, Executing

\* Every action keeps TypeOK.
LEMMA TypeStep == TypeOK /\ [Next]_vars => TypeOK'
<1> SUFFICES ASSUME TypeOK, [Next]_vars PROVE TypeOK'
    OBVIOUS
<1> USE DEF TypeOK, Phases, Executing
<1>1. CASE FinalizeBlock
    BY <1>1 DEF FinalizeBlock, chainVars
<1>2. CASE CommitBatchSet
    <2>1. DBType(db) /\ staged \in StagedSet
        BY DEF DBType, StagedSet
    <2>2. DBType(db')
        BY <1>2, <2>1, BatchSetType DEF CommitBatchSet
    <2> QED BY <1>2, <2>2 DEF CommitBatchSet, chainVars, DBType
<1>3. CASE CommitSaveMeta
    <2>1. DBType(db) 
        BY DEF DBType
    <2>2. DBType(db')
        BY <1>3, <2>1, SaveMetaType DEF CommitSaveMeta
    <2> QED BY <1>3, <2>2 DEF CommitSaveMeta, chainVars, DBType
<1>4. CASE NewKVStoreApp
    <2>1. height' \in Nat
        BY <1>4, LoadMetaType DEF NewKVStoreApp, DBType
    <2> QED BY <1>4, <2>1 DEF NewKVStoreApp, chainVars, nodeVars
<1>5. CASE SaveResponse
    BY <1>5 DEF SaveResponse, appVars
<1>6. CASE SaveState
    BY <1>6 DEF SaveState, appVars
<1>7. CASE ReplayNext
    BY <1>7 DEF ReplayNext, appVars, chainVars
<1>8. CASE ReplayDone
    BY <1>8 DEF ReplayDone, appVars, chainVars
<1>9. CASE HandshakeInSync
    BY <1>9 DEF HandshakeInSync, Handshaking, appVars, chainVars
<1>10. CASE HandshakeReplay
    BY <1>10 DEF HandshakeReplay, Handshaking, Info, appVars, chainVars
<1>11. CASE HandshakeMock
    BY <1>11 DEF HandshakeMock, Handshaking, appVars
<1>12. CASE HandshakeTooHigh
    BY <1>12 DEF HandshakeTooHigh, Handshaking, appVars, chainVars
<1>13. ASSUME NEW txs \in Proposal, SaveBlock(txs) PROVE TypeOK'
    BY <1>13 DEF SaveBlock, appVars
<1>14. CASE Crash
    <2>1. serving' \in BOOLEAN
        BY <1>14 DEF Crash
    <2> QED BY <1>14, <2>1, BoundAssumption DEF Crash, chainVars, NoPairs
<1>15. CASE CrashNode
    <2>1. serving' \in BOOLEAN
        BY <1>15 DEF CrashNode
    <2> QED BY <1>15, <2>1, BoundAssumption DEF CrashNode, appVars, chainVars
<1>16. CASE UNCHANGED vars
    BY <1>16 DEF vars, appVars, nodeVars, chainVars
<1> QED
    BY <1>1, <1>2, <1>3, <1>4, <1>5, <1>6, <1>7, <1>8, <1>9, <1>10, <1>11,
       <1>12, <1>13, <1>14, <1>15, <1>16 DEF Next, Progress

\* TypeOK is an invariant, for every choice of transactions, faults and bounds.
THEOREM TypeCorrect == Spec => []TypeOK
  BY TypeInit, TypeStep, PTL DEF Spec

-----------------------------------------------------------------------------
(* Recovery.                                                                *)

\* A height written by SaveMeta is the height LoadMeta reads back.
LEMMA MetaRoundTrip ==
    ASSUME NEW d, NEW h \in Nat, NEW hash
    PROVE  LoadMeta(SaveMeta(d, h, hash)).height = h
<1>1. metaHeight # metaAppHash
    BY DEF metaHeight, metaAppHash
<1>2. metaHeight \in DOMAIN SaveMeta(d, h, hash)
    BY DEF SaveMeta, MetaKeys
<1>3. SaveMeta(d, h, hash)[metaHeight] = PutUint64(h)
    BY <1>1 DEF SaveMeta, MetaKeys
<1>4. Uint64(PutUint64(h)) = h
    BY DEF Uint64, PutUint64
<1> QED BY <1>2, <1>3, <1>4 DEF LoadMeta

\* Batches without bookkeeping keys leave the stored height alone.
LEMMA BatchKeepsMeta ==
    ASSUME FaultModel, NEW d, NEW txs \in Proposal
    PROVE  LoadMeta(BatchSet(d, Staged(txs))).height = LoadMeta(d).height
<1>1. metaHeight \notin DOMAIN Effect(txs)
    BY EffectKeys DEF FaultModel, MetaKeys
<1> DEFINE new == BatchSet(d, Staged(txs))
<1>2. /\ metaHeight \in DOMAIN new <=> metaHeight \in DOMAIN d
      /\ metaHeight \in DOMAIN d => new[metaHeight] = d[metaHeight]
    BY <1>1, BatchEffect
<1> HIDE DEF new
<1>3. LoadMeta(new).height = LoadMeta(d).height
    BY <1>2 DEF LoadMeta
<1> QED BY <1>3 DEF new

\* SaveMeta leaves the user's keys alone.
LEMMA SaveMetaKeepsData ==
    ASSUME FaultModel, NEW d, NEW h, NEW hash, NEW k \in Key
    PROVE  /\ k \in DOMAIN SaveMeta(d, h, hash) <=> k \in DOMAIN d
           /\ k \in DOMAIN d => SaveMeta(d, h, hash)[k] = d[k]
  BY DEF FaultModel, SaveMeta, MetaKeys

\* Going back to an earlier block only adds blocks to replay.
LEMMA RecoversFromEarlier ==
    ASSUME NEW b \in Nat, NEW c \in Nat, NEW n, b <= c, Recovers(c, n)
    PROVE  Recovers(b, n)
  BY DEF Recovers

\* Committing block c + 1, for the first time or again, advances the recovery.
LEMMA RecoversCommit ==
    ASSUME NEW c \in Nat, NEW n \in Nat, c <= n, NEW m \in Nat,
           m = IF c + 1 <= n THEN n ELSE c + 1,
           UNCHANGED blocks, db' = BatchSet(db, Staged(blocks[c + 1])),
           Recovers(c, n)
    PROVE  Recovers(c + 1, m)'
<1> DEFINE e == Effect(blocks[c + 1])
<1>1. /\ DOMAIN db' = DOMAIN db \cup DOMAIN e
      /\ \A k \in DOMAIN e : db'[k] = e[k]
      /\ \A k \in DOMAIN db \ DOMAIN e : db'[k] = db[k]
    <2> DEFINE new == BatchSet(db, Staged(blocks[c + 1]))
    <2>1. /\ DOMAIN new = DOMAIN db \cup DOMAIN e
          /\ \A k \in DOMAIN e : new[k] = e[k]
          /\ \A k \in DOMAIN db \ DOMAIN e : new[k] = db[k]
        BY BatchEffect, Zenon
    <2>2. db' = new
        OBVIOUS
    <2> QED BY <2>1, <2>2, Zenon
<1>2. \A i, k : Writes(i, k)' <=> Writes(i, k)
    BY DEF Writes
<1>3. \A k : Writes(c + 1, k) <=> k \in DOMAIN e
    BY DEF Writes
<1> HIDE DEF e
<1> SUFFICES ASSUME NEW k \in Key
             PROVE  /\ k \in DOMAIN db' <=> \E i \in 1 .. m : Writes(i, k)
                    /\ \A i \in 1 .. c + 1 : LastWriter(i, k, m) =>
                           db'[k] = Effect(blocks[i])[k]
    <2>1. \A i, k : LastWriter(i, k, m)' <=> LastWriter(i, k, m)
        BY DEF LastWriter, Writes
    <2> QED BY <1>2, <2>1 DEF Recovers
<1>4. /\ k \in DOMAIN db <=> \E i \in 1 .. n : Writes(i, k)
      /\ \A i \in 1 .. c : LastWriter(i, k, n) => db[k] = Effect(blocks[i])[k]
    BY DEF Recovers
<1>5. k \in DOMAIN db' <=> \E i \in 1 .. m : Writes(i, k)
    BY <1>1, <1>3, <1>4
<1>6. ASSUME NEW i \in 1 .. c + 1, LastWriter(i, k, m)
      PROVE  db'[k] = Effect(blocks[i])[k]
    <2>1. CASE i = c + 1
        BY <1>1, <1>3, <1>6, <2>1 DEF LastWriter, e
    <2>2. CASE i # c + 1
        <3>1. i \in 1 .. c /\ c + 1 \in i + 1 .. m
            BY <2>2
        <3>2. k \notin DOMAIN e
            BY <1>3, <1>6, <3>1 DEF LastWriter
        <3>3. LastWriter(i, k, n)
            BY <1>6, <3>1 DEF LastWriter
        <3>4. k \in DOMAIN db
            BY <1>4, <3>3 DEF LastWriter
        <3> QED BY <1>1, <1>4, <3>1, <3>2, <3>3, <3>4
    <2> QED BY <2>1, <2>2
<1> QED BY <1>5, <1>6

\* Steps that touch neither the user's keys nor the blocks keep it.
LEMMA RecoversUnchanged ==
    ASSUME NEW c \in Nat, NEW n \in Nat, UNCHANGED blocks, Recovers(c, n),
           \A k \in Key : /\ k \in DOMAIN db' <=> k \in DOMAIN db
                          /\ k \in DOMAIN db => db'[k] = db[k],
           c <= n
    PROVE  Recovers(c, n)'
  BY DEF Recovers, LastWriter, Writes

\* A new block is no part of the recovery yet.
LEMMA RecoversAppend ==
    ASSUME NEW c \in Nat, NEW n \in Nat, c <= n, n <= Len(blocks),
           blocks \in Seq(Proposal), NEW txs \in Proposal,
           blocks' = Append(blocks, txs), UNCHANGED db, Recovers(c, n)
    PROVE  Recovers(c, n)'
<1>1. \A i \in 1 .. n : blocks'[i] = blocks[i]
    OBVIOUS
<1>2. \A i \in 1 .. n, k \in Key : Writes(i, k)' <=> Writes(i, k)
    BY <1>1 DEF Writes
<1>3. \A i \in 1 .. n, k \in Key : LastWriter(i, k, n)' <=> LastWriter(i, k, n)
    BY <1>2 DEF LastWriter
<1> QED BY <1>1, <1>2, <1>3 DEF Recovers

\* An empty database recovers the empty chain.
LEMMA RecoveryInit == Init => RecoveryInv
<1> SUFFICES ASSUME Init PROVE RecoveryInv
    OBVIOUS
<1>1. MetaHeight = 0
    BY DEF Init, MetaHeight, LoadMeta, EmptyDB
<1>2. Recovers(0, 0)
    BY DEF Init, Recovers, EmptyDB
<1>3. Reached = 0
    BY <1>1 DEF Init, Reached
<1>4. PipelineInv
    BY <1>1 DEF Init, PipelineInv, Handshaking, Executing
<1>5. DataInv
    BY <1>1, <1>2, <1>3 DEF Init, DataInv
<1> QED BY <1>4, <1>5 DEF RecoveryInv

\* Every action keeps the recovery invariant, crashes and handshakes included.
LEMMA RecoveryStep ==
    ASSUME FaultModel, TypeOK, RecoveryInv, [Next]_vars
    PROVE  RecoveryInv'
<1> USE DEF RecoveryInv
<1>t. /\ Len(blocks) \in Nat /\ blocks \in Seq(Proposal)
      /\ cur \in 0 .. Len(blocks) /\ stateHeight \in 0 .. Len(blocks)
      /\ response \in 0 .. Len(blocks) /\ height \in Nat
      /\ phase \in Phases /\ appAt \in {"down", "ready", "commit"}
      /\ Executing => cur > 0
    BY DEF TypeOK
<1>m. MetaHeight \in Nat
    BY <1>t DEF PipelineInv
<1>r. Reached \in Nat
    BY <1>t, <1>m DEF Reached, Executing
<1>c. PICK c \in Nat : c = Reached
    BY <1>r
<1>n. PICK n \in stateHeight .. Len(blocks) :
          c <= n /\ Recovers(c, n) /\ (serving => c = n)
    BY <1>c DEF DataInv
<1>d. MetaHeight <= c
    BY <1>c DEF DataInv
\* Steps that leave the database and the blocks alone.
<1>k. ASSUME UNCHANGED <<db, blocks>>, NEW b \in Nat, b <= c
      PROVE  MetaHeight' = MetaHeight /\ Recovers(b, n)'
    <2>1. Recovers(b, n)
        BY <1>k, <1>n, RecoversFromEarlier
    <2>2. b <= n /\ n \in Nat
        BY <1>k, <1>n, <1>t
    <2>3. Recovers(b, n)'
        BY <1>k, <2>1, <2>2, RecoversUnchanged
    <2> QED BY <1>k, <2>3 DEF MetaHeight
\* So they only have to place the application again.
<1>q. ASSUME UNCHANGED <<db, blocks>>, NEW b \in Nat, b <= c, MetaHeight <= b,
             Reached' = b, stateHeight' \in Nat, stateHeight' <= n, serving' => b = n
      PROVE  DataInv'
    <2>1. MetaHeight' = MetaHeight /\ Recovers(b, n)'
        BY <1>k, <1>q
    <2>2. n \in stateHeight' .. Len(blocks') /\ b <= n
        BY <1>q, <1>n, <1>t
    <2> QED BY <1>q, <2>1, <2>2 DEF DataInv
<1>1. CASE FinalizeBlock
    <2>1. /\ Reached' = c /\ UNCHANGED <<db, blocks>>
          /\ stateHeight' \in Nat /\ stateHeight' <= n /\ (serving' => c = n)
        BY <1>1, <1>c, <1>n, <1>t, <1>d DEF FinalizeBlock, PipelineInv, Reached, Executing, Phases, chainVars
    <2>2. DataInv'
        BY <1>q, <1>d, <1>m, <2>1
    <2>3. PipelineInv'
        BY <1>1, <1>c, <1>k, <1>n, <1>t, <1>d, <2>1 DEF FinalizeBlock, PipelineInv, Reached, Handshaking, Executing, Phases, chainVars
    <2> QED BY <2>2, <2>3
<1>2. CASE CommitBatchSet
    <2>1. /\ c = cur - 1 /\ c + 1 = cur /\ cur \in 1 .. Len(blocks) /\ Reached' = cur
          /\ UNCHANGED <<blocks, stateHeight, serving>>
          /\ staged = Staged(blocks[cur])
        BY <1>2, <1>c, <1>t DEF CommitBatchSet, PipelineInv, Reached, Executing, chainVars
    <2>2. db' = BatchSet(db, Staged(blocks[cur]))
        BY <1>2, <2>1 DEF CommitBatchSet, FaultModel
    <2>3. MetaHeight' = MetaHeight
        <3>1. blocks[cur] \in Proposal
            BY <1>t, <2>1
        <3> QED BY <2>2, <3>1, BatchKeepsMeta DEF MetaHeight
    <2>4. PICK m \in Nat : m = IF c + 1 <= n THEN n ELSE c + 1
        BY <1>n, <1>t
    <2>5. Recovers(c + 1, m)'
        BY <1>n, <1>t, <2>1, <2>2, <2>4, RecoversCommit
    <2>6. DataInv'
        <3>1. m \in stateHeight' .. Len(blocks') /\ Reached' = c + 1 /\ c + 1 <= m
            BY <1>n, <1>t, <2>1, <2>4
        <3>2. serving' => Reached' = m
            BY <1>n, <2>1, <2>4
        <3>3. MetaHeight' <= Reached'
            BY <1>d, <1>m, <2>1, <2>3
        <3> QED BY <2>5, <3>1, <3>2, <3>3 DEF DataInv
    <2>7. PipelineInv'
        BY <1>2, <1>t, <2>1, <2>3 DEF CommitBatchSet, PipelineInv, Handshaking, Executing, chainVars
    <2> QED BY <2>6, <2>7
<1>3. CASE CommitSaveMeta
    <2>1. /\ phase = "committing" /\ phase' = "committed" /\ c = cur /\ height = cur
          /\ Reached' = cur /\ UNCHANGED <<blocks, stateHeight, serving>>
        BY <1>3, <1>c DEF CommitSaveMeta, PipelineInv, Reached, chainVars
    <2>2. MetaHeight' \in {MetaHeight, cur}
        BY <1>3, <1>t, <2>1, MetaRoundTrip DEF CommitSaveMeta, MetaHeight
    <2>3. \A k \in Key : /\ k \in DOMAIN db' <=> k \in DOMAIN db
                         /\ k \in DOMAIN db => db'[k] = db[k]
        BY <1>3, SaveMetaKeepsData DEF CommitSaveMeta
    <2>4. Recovers(c, n)'
        BY <1>n, <1>t, <2>1, <2>3, RecoversUnchanged
    <2>5. DataInv'
        BY <1>n, <1>t, <1>m, <1>d, <2>1, <2>2, <2>4 DEF DataInv
    <2>6. PipelineInv'
        BY <1>3, <1>t, <1>m, <2>1, <2>2 DEF CommitSaveMeta, PipelineInv, Handshaking, Executing, chainVars
    <2> QED BY <2>5, <2>6
<1>4. CASE NewKVStoreApp
    <2>1. /\ Reached' = c /\ UNCHANGED <<db, blocks>>
          /\ stateHeight' \in Nat /\ stateHeight' <= n /\ (serving' => c = n)
        BY <1>4, <1>c, <1>n, <1>t, <1>d DEF NewKVStoreApp, PipelineInv, Reached, Executing, Phases, chainVars, nodeVars, Handshaking, MetaHeight
    <2>2. DataInv'
        BY <1>q, <1>d, <1>m, <2>1
    <2>3. PipelineInv'
        BY <1>4, <1>c, <1>k, <1>n, <1>t, <1>d, <2>1 DEF NewKVStoreApp, PipelineInv, Reached, Handshaking, Executing, Phases, chainVars, nodeVars, Handshaking, MetaHeight
    <2> QED BY <2>2, <2>3
<1>5. CASE SaveResponse
    <2>1. /\ Reached' = c /\ UNCHANGED <<db, blocks>>
          /\ stateHeight' \in Nat /\ stateHeight' <= n /\ (serving' => c = n)
        BY <1>5, <1>c, <1>n, <1>t, <1>d DEF SaveResponse, PipelineInv, Reached, Executing, Phases, appVars
    <2>2. DataInv'
        BY <1>q, <1>d, <1>m, <2>1
    <2>3. PipelineInv'
        BY <1>5, <1>c, <1>k, <1>n, <1>t, <1>d, <2>1 DEF SaveResponse, PipelineInv, Reached, Handshaking, Executing, Phases, appVars
    <2> QED BY <2>2, <2>3
<1>6. CASE SaveState
    <2>1. /\ Reached' = c /\ UNCHANGED <<db, blocks>>
          /\ stateHeight' \in Nat /\ stateHeight' <= n /\ (serving' => c = n)
        BY <1>6, <1>c, <1>n, <1>t, <1>d DEF SaveState, PipelineInv, Reached, Executing, Phases, appVars
    <2>2. DataInv'
        BY <1>q, <1>d, <1>m, <2>1
    <2>3. PipelineInv'
        BY <1>6, <1>c, <1>k, <1>n, <1>t, <1>d, <2>1 DEF SaveState, PipelineInv, Reached, Handshaking, Executing, Phases, appVars
    <2> QED BY <2>2, <2>3
<1>7. CASE ReplayNext
    <2>1. /\ Reached' = c /\ UNCHANGED <<db, blocks>>
          /\ stateHeight' \in Nat /\ stateHeight' <= n /\ (serving' => c = n)
        BY <1>7, <1>c, <1>n, <1>t, <1>d DEF ReplayNext, PipelineInv, Reached, Executing, Phases, appVars, chainVars
    <2>2. DataInv'
        BY <1>q, <1>d, <1>m, <2>1
    <2>3. PipelineInv'
        BY <1>7, <1>c, <1>k, <1>n, <1>t, <1>d, <2>1 DEF ReplayNext, PipelineInv, Reached, Handshaking, Executing, Phases, appVars, chainVars
    <2> QED BY <2>2, <2>3
<1>8. CASE ReplayDone
    <2>1. /\ Reached' = c /\ UNCHANGED <<db, blocks>>
          /\ stateHeight' \in Nat /\ stateHeight' <= n /\ (serving' => c = n)
        BY <1>8, <1>c, <1>n, <1>t, <1>d DEF ReplayDone, PipelineInv, Reached, Executing, Phases, appVars, chainVars
    <2>2. DataInv'
        BY <1>q, <1>d, <1>m, <2>1
    <2>3. PipelineInv'
        BY <1>8, <1>c, <1>k, <1>n, <1>t, <1>d, <2>1 DEF ReplayDone, PipelineInv, Reached, Handshaking, Executing, Phases, appVars, chainVars
    <2> QED BY <2>2, <2>3
<1>9. CASE HandshakeInSync
    <2>1. /\ Reached' = c /\ UNCHANGED <<db, blocks>>
          /\ stateHeight' \in Nat /\ stateHeight' <= n /\ (serving' => c = n)
        BY <1>9, <1>c, <1>n, <1>t, <1>d DEF HandshakeInSync, PipelineInv, Reached, Executing, Phases, Info, Handshaking, appVars, chainVars
    <2>2. DataInv'
        BY <1>q, <1>d, <1>m, <2>1
    <2>3. PipelineInv'
        BY <1>9, <1>c, <1>k, <1>n, <1>t, <1>d, <2>1 DEF HandshakeInSync, PipelineInv, Reached, Handshaking, Executing, Phases, Info, Handshaking, appVars, chainVars
    <2> QED BY <2>2, <2>3
<1>10. CASE HandshakeReplay
    <2>1. /\ Reached' = c /\ UNCHANGED <<db, blocks>>
          /\ stateHeight' \in Nat /\ stateHeight' <= n /\ (serving' => c = n)
        BY <1>10, <1>c, <1>n, <1>t, <1>d DEF HandshakeReplay, PipelineInv, Reached, Executing, Phases, Info, Handshaking, appVars, chainVars
    <2>2. DataInv'
        BY <1>q, <1>d, <1>m, <2>1
    <2>3. PipelineInv'
        BY <1>10, <1>c, <1>k, <1>n, <1>t, <1>d, <2>1 DEF HandshakeReplay, PipelineInv, Reached, Handshaking, Executing, Phases, Info, Handshaking, appVars, chainVars
    <2> QED BY <2>2, <2>3
<1>11. CASE HandshakeMock
    <2>1. /\ Reached' = c /\ UNCHANGED <<db, blocks>>
          /\ stateHeight' \in Nat /\ stateHeight' <= n /\ (serving' => c = n)
        BY <1>11, <1>c, <1>n, <1>t, <1>d DEF HandshakeMock, PipelineInv, Reached, Executing, Phases, Info, Handshaking, appVars
    <2>2. DataInv'
        BY <1>q, <1>d, <1>m, <2>1
    <2>3. PipelineInv'
        BY <1>11, <1>c, <1>k, <1>n, <1>t, <1>d, <2>1 DEF HandshakeMock, PipelineInv, Reached, Handshaking, Executing, Phases, Info, Handshaking, appVars
    <2> QED BY <2>2, <2>3
<1>12. CASE HandshakeTooHigh
    <2>1. /\ Reached' = c /\ UNCHANGED <<db, blocks>>
          /\ stateHeight' \in Nat /\ stateHeight' <= n /\ (serving' => c = n)
        BY <1>12, <1>c, <1>n, <1>t, <1>d DEF HandshakeTooHigh, PipelineInv, Reached, Executing, Phases, Info, Handshaking, appVars, chainVars
    <2>2. DataInv'
        BY <1>q, <1>d, <1>m, <2>1
    <2>3. PipelineInv'
        BY <1>12, <1>c, <1>k, <1>n, <1>t, <1>d, <2>1 DEF HandshakeTooHigh, PipelineInv, Reached, Handshaking, Executing, Phases, Info, Handshaking, appVars, chainVars
    <2> QED BY <2>2, <2>3
<1>13. ASSUME NEW txs \in Proposal, SaveBlock(txs) PROVE RecoveryInv'
    <2>1. /\ c = Len(blocks) /\ n = c /\ stateHeight = c
          /\ blocks' = Append(blocks, txs) /\ Len(blocks') = c + 1
          /\ cur' = c + 1 /\ phase' = "execute" /\ UNCHANGED <<db, stateHeight>>
          /\ Reached' = c
        BY <1>13, <1>c, <1>n, <1>t DEF SaveBlock, PipelineInv, Reached
    <2>2. Recovers(c, c)'
        BY <1>13, <1>n, <1>t, <2>1, RecoversAppend
    <2>3. MetaHeight' = MetaHeight
        BY <2>1 DEF MetaHeight
    <2>4. DataInv'
        BY <1>d, <2>1, <2>2, <2>3 DEF DataInv
    <2>5. PipelineInv'
        BY <1>13, <1>t, <2>1, <2>3 DEF SaveBlock, PipelineInv, Handshaking, Executing, appVars
    <2> QED BY <2>4, <2>5
<1>14. CASE Crash
    <2>1. /\ UNCHANGED <<db, blocks, stateHeight>> /\ ~serving' /\ phase' = "down"
        BY <1>14 DEF Crash, chainVars
    <2>2. MetaHeight' = MetaHeight /\ Reached' = MetaHeight
        BY <2>1 DEF MetaHeight, Reached
    <2>3. PICK b \in Nat : b = MetaHeight
        BY <1>m
    <2>4. DataInv'
        BY <1>d, <1>n, <1>q, <1>t, <2>1, <2>2, <2>3
    <2>5. PipelineInv'
        BY <1>14, <1>t, <2>1, <2>2 DEF Crash, PipelineInv, Handshaking, Executing, chainVars
    <2> QED BY <2>4, <2>5
<1>15. CASE CrashNode
    BY <1>15 DEF CrashNode, FaultModel
<1>16. CASE UNCHANGED vars
    <2>1. /\ Reached' = c /\ UNCHANGED <<db, blocks>>
          /\ stateHeight' \in Nat /\ stateHeight' <= n /\ (serving' => c = n)
        BY <1>16, <1>c, <1>n, <1>t, <1>d DEF vars, PipelineInv, Reached, Executing, Phases, appVars, nodeVars, chainVars
    <2>2. DataInv'
        BY <1>q, <1>d, <1>m, <2>1
    <2>3. PipelineInv'
        BY <1>16, <1>c, <1>k, <1>n, <1>t, <1>d, <2>1 DEF vars, PipelineInv, Reached, Handshaking, Executing, Phases, appVars, nodeVars, chainVars
    <2> QED BY <2>2, <2>3
<1> QED
    BY <1>1, <1>2, <1>3, <1>4, <1>5, <1>6, <1>7, <1>8, <1>9, <1>10, <1>11,
       <1>12, <1>13, <1>14, <1>15, <1>16 DEF Next, Progress

\* Under the fault model a crash always leaves a database that the replay of the
\* decided blocks repairs (app.go, Commit and FinalizeBlock; CometBFT's handshake).
THEOREM Recovery ==
    ASSUME FaultModel
    PROVE  Spec => []RecoveryInv
<1>1. Init => RecoveryInv
    BY RecoveryInit
<1>2. TypeOK /\ RecoveryInv /\ [Next]_vars => RecoveryInv'
    BY RecoveryStep
<1> QED BY <1>1, <1>2, TypeCorrect, PTL DEF Spec

\* A database that has nothing left to replay answers every query correctly.
LEMMA RecoveredReads ==
    ASSUME NEW n \in Nat, Recovers(n, n), NEW k \in Key
    PROVE  Reads(k, n)
<1>1. ASSUME NEW i \in 1 .. n, LastWriter(i, k, n)
      PROVE  Query(k) = <<Effect(blocks[i])[k]>>
    BY <1>1 DEF Recovers, LastWriter, Query
<1>2. ASSUME \A i \in 1 .. n : ~Writes(i, k)
      PROVE  Query(k) = NotFound
    BY <1>2 DEF Recovers, Query
<1> QED BY <1>1, <1>2 DEF Reads

\* While the node serves, or has refused to start, nothing is left to replay.
LEMMA RecoveryServes ==
    ASSUME TypeOK, RecoveryInv
    PROVE  QueryReturnsLatest /\ HaltLosesNothing
<1>1. stateHeight \in Nat /\ Len(blocks) \in Nat /\ cur \in Nat /\ phase \in Phases
    BY DEF TypeOK
<1>2. ASSUME Serving, NEW k \in Key PROVE Reads(k, VisibleHeight)
    <2>1. Reached = VisibleHeight /\ Recovers(Reached, Reached)
        BY <1>1, <1>2 DEF RecoveryInv, PipelineInv, DataInv, Reached, Serving,
                          VisibleHeight, Executing, Phases
    <2>2. VisibleHeight \in Nat
        BY <1>1 DEF VisibleHeight
    <2> QED BY <2>1, <2>2, RecoveredReads
<1>3. ASSUME phase = "halted", NEW k \in Key PROVE Reads(k, stateHeight)
    <2>1. Reached = stateHeight /\ stateHeight = Len(blocks)
        BY <1>3 DEF RecoveryInv, PipelineInv, Reached
    <2>2. Recovers(stateHeight, stateHeight)
        BY <1>1, <2>1 DEF RecoveryInv, DataInv
    <2> QED BY <1>1, <2>2, RecoveredReads
<1>4. phase = "halted" => stateHeight = Len(blocks)
    BY DEF RecoveryInv, PipelineInv
<1> QED BY <1>2, <1>3, <1>4 DEF QueryReturnsLatest, HaltLosesNothing

\* No committed write is ever lost, overwritten by an older one or visible early,
\* for any number of blocks, crashes and failed SaveMeta calls (app.go, Commit).
THEOREM Durability ==
    ASSUME FaultModel
    PROVE  Spec => []QueryReturnsLatest
<1>1. TypeOK /\ RecoveryInv => QueryReturnsLatest
    BY RecoveryServes
<1> QED BY <1>1, TypeCorrect, Recovery, PTL

\* When CometBFT refuses to start, no decided block is missing from the database.
THEOREM SafeHalt ==
    ASSUME FaultModel
    PROVE  Spec => []HaltLosesNothing
<1>1. TypeOK /\ RecoveryInv => HaltLosesNothing
    BY RecoveryServes
<1> QED BY <1>1, TypeCorrect, Recovery, PTL

-----------------------------------------------------------------------------
(* Under every fault: no FaultModel from here on.                           *)

\* The blocks that may have left something in the database: while a new block is
\* under way and its batch not written, only those before it.
Written == IF serving /\ phase \in {"consensus", "execute", "finalized", "commit"}
           THEN stateHeight ELSE Len(blocks)

\* d's value for k is one that some block up to n wrote.
FromBlock(d, k, n) == \E h \in 1 .. n : Writes(h, k) /\ d[k] = Effect(blocks[h])[k]

\* What remains of the pipeline's invariant, and where values come from.
OriginInv ==
    /\ Len(blocks) <= stateHeight + 1
    /\ phase = "consensus" => stateHeight = Len(blocks)
    /\ phase \in {"down", "halted"} => ~serving
    /\ phase = "committing" => appAt = "commit"
    /\ appAt = "commit" => phase \in {"committing", "down"}
    /\ phase \in {"finalized", "commit"} => staged = Staged(blocks[cur])
    /\ Executing /\ serving => cur = stateHeight + 1
    /\ \A k \in (Key \ MetaKeys) \cap DOMAIN db : FromBlock(db, k, Written)

\* A batch adds values of its own block; failing, it adds nothing.
LEMMA OriginBatch ==
    ASSUME TypeOK, OriginInv, CommitBatchSet
    PROVE  \A k \in (Key \ MetaKeys) \cap DOMAIN db' : FromBlock(db', k, Len(blocks))
<1>1. /\ cur \in 1 .. Len(blocks) /\ staged = Staged(blocks[cur])
      /\ stateHeight <= Len(blocks) /\ Len(blocks) \in Nat /\ stateHeight \in Nat
    BY DEF CommitBatchSet, OriginInv, TypeOK, Executing
<1>2. \A k \in (Key \ MetaKeys) \cap DOMAIN db : FromBlock(db, k, Len(blocks))
    BY <1>1 DEF OriginInv, Written, FromBlock
<1>3. CASE db' = db
    BY <1>2, <1>3
<1>4. CASE db' = BatchSet(db, staged)
    <2> DEFINE e   == Effect(blocks[cur])
               new == BatchSet(db, Staged(blocks[cur]))
    <2>1. /\ DOMAIN new = DOMAIN db \cup DOMAIN e
          /\ \A k \in DOMAIN e : new[k] = e[k]
          /\ \A k \in DOMAIN db \ DOMAIN e : new[k] = db[k]
        BY BatchEffect, Zenon
    <2>2. db' = new
        BY <1>1, <1>4
    <2> HIDE DEF e, new
    <2> SUFFICES ASSUME NEW k \in (Key \ MetaKeys) \cap DOMAIN db'
                 PROVE  FromBlock(db', k, Len(blocks))
        OBVIOUS
    <2>3. CASE k \in DOMAIN e
        <3>1. db'[k] = Effect(blocks[cur])[k] /\ Writes(cur, k)
            BY <2>1, <2>2, <2>3 DEF Writes, e
        <3> QED BY <1>1, <3>1 DEF FromBlock
    <2>4. CASE k \notin DOMAIN e
        <3>1. k \in DOMAIN db /\ db'[k] = db[k]
            BY <2>1, <2>2, <2>4
        <3> QED BY <1>2, <3>1 DEF FromBlock
    <2> QED BY <2>3, <2>4
<1> QED BY <1>3, <1>4 DEF CommitBatchSet

\* SaveMeta touches the bookkeeping keys only.
LEMMA OriginMeta ==
    ASSUME CommitSaveMeta, NEW k \in Key \ MetaKeys
    PROVE  /\ k \in DOMAIN db' <=> k \in DOMAIN db
           /\ k \in DOMAIN db => db'[k] = db[k]
<1>1. CASE db' = db
    BY <1>1
<1>2. CASE db' = SaveMeta(db, height, appHash')
    BY <1>2 DEF SaveMeta, MetaKeys
<1> QED BY <1>1, <1>2 DEF CommitSaveMeta

\* Values keep their origin when blocks are only appended and the bound does not shrink.
LEMMA OriginKept ==
    ASSUME TypeOK, OriginInv,
           \A k \in Key \ MetaKeys : /\ k \in DOMAIN db' => k \in DOMAIN db
                                     /\ k \in DOMAIN db => db'[k] = db[k],
           \A h \in 1 .. Written : blocks'[h] = blocks[h],
           Written' \in Nat, Written <= Written'
    PROVE  (\A k \in (Key \ MetaKeys) \cap DOMAIN db : FromBlock(db, k, Written))'
<1> SUFFICES ASSUME NEW k \in (Key \ MetaKeys) \cap DOMAIN db'
             PROVE  FromBlock(db, k, Written)'
    OBVIOUS
<1>1. k \in DOMAIN db /\ db'[k] = db[k]
    OBVIOUS
<1>2. PICK h \in 1 .. Written : Writes(h, k) /\ db[k] = Effect(blocks[h])[k]
    BY <1>1 DEF OriginInv, FromBlock
<1>3. Written \in Nat
    BY DEF Written, TypeOK
<1>4. h \in 1 .. Written' /\ blocks'[h] = blocks[h]
    BY <1>3
<1>5. Writes(h, k)' /\ db'[k] = Effect(blocks'[h])[k]
    BY <1>1, <1>2, <1>4 DEF Writes
<1> QED BY <1>4, <1>5 DEF FromBlock

\* Every step keeps OriginInv.
LEMMA OriginStep ==
    ASSUME TypeOK, OriginInv, [Next]_vars
    PROVE  OriginInv'
<1>t. /\ Len(blocks) \in Nat /\ blocks \in Seq(Proposal)
      /\ cur \in 0 .. Len(blocks) /\ stateHeight \in 0 .. Len(blocks)
      /\ phase \in Phases /\ appAt \in {"down", "ready", "commit"}
      /\ Executing => cur > 0
      /\ serving \in BOOLEAN
    BY DEF TypeOK
<1> DEFINE Pipeline == /\ Len(blocks) <= stateHeight + 1
                       /\ phase = "consensus" => stateHeight = Len(blocks)
                       /\ phase \in {"down", "halted"} => ~serving
                       /\ phase = "committing" => appAt = "commit"
                       /\ appAt = "commit" => phase \in {"committing", "down"}
                       /\ phase \in {"finalized", "commit"} => staged = Staged(blocks[cur])
                       /\ Executing /\ serving => cur = stateHeight + 1
           Origin == \A k \in (Key \ MetaKeys) \cap DOMAIN db : FromBlock(db, k, Written)
<1>p. Pipeline
    BY DEF OriginInv
<1>q. SUFFICES Pipeline' /\ Origin'
    BY DEF OriginInv
<1>1. CASE CommitBatchSet
    <2>1. Pipeline'
        BY <1>1, <1>t, <1>p DEF CommitBatchSet, Executing, chainVars
    <2>2. blocks' = blocks /\ Written' = Len(blocks)
        BY <1>1 DEF CommitBatchSet, chainVars, Written
    <2>3. Origin'
        BY <1>1, <2>2, OriginBatch DEF FromBlock, Writes
    <2> QED BY <2>1, <2>3
<1>2. CASE CommitSaveMeta
    <2>1. Pipeline'
        BY <1>2, <1>t, <1>p DEF CommitSaveMeta, Executing, chainVars
    <2>2. blocks' = blocks /\ Written' \in Nat /\ Written <= Written' /\ Written \in Nat
        BY <1>2, <1>t, <1>p DEF CommitSaveMeta, chainVars, Written
    <2>3. Origin'
        BY <1>2, <2>2, OriginMeta, OriginKept
    <2> QED BY <2>1, <2>3
<1>3. ASSUME Pipeline', UNCHANGED <<db, blocks>>, Written' \in Nat, Written <= Written'
      PROVE  Pipeline' /\ Origin'
    <2>1. Origin'
        BY <1>3, OriginKept
    <2> QED BY <1>3, <2>1
<1>4. CASE FinalizeBlock
    <2>1. Pipeline'
        BY <1>4, <1>t, <1>p DEF FinalizeBlock, Executing, chainVars
    <2> QED BY <1>3, <1>4, <1>t, <2>1 DEF FinalizeBlock, chainVars, Written
<1>5. CASE NewKVStoreApp
    <2>1. Pipeline'
        BY <1>5, <1>t, <1>p DEF NewKVStoreApp, Executing, nodeVars, chainVars
    <2> QED BY <1>3, <1>5, <1>t, <2>1 DEF NewKVStoreApp, nodeVars, chainVars, Written
<1>6. CASE SaveResponse
    <2>1. Pipeline'
        BY <1>6, <1>t, <1>p DEF SaveResponse, Executing, appVars
    <2> QED BY <1>3, <1>6, <1>t, <2>1 DEF SaveResponse, Written
<1>7. CASE SaveState
    <2>1. Pipeline'
        BY <1>7, <1>t, <1>p DEF SaveState, Executing, appVars
    <2>2. Written' = Len(blocks) /\ Written <= Len(blocks)
        BY <1>7, <1>t, <1>p DEF SaveState, Written
    <2> QED BY <1>3, <1>7, <1>t, <2>1, <2>2 DEF SaveState
<1>8. CASE ReplayNext
    <2>0. ~serving
        BY <1>8, <1>t, <1>p DEF ReplayNext, Executing
    <2>1. Pipeline'
        BY <1>8, <1>t, <1>p, <2>0 DEF ReplayNext, Executing, appVars, chainVars
    <2> QED BY <1>3, <1>8, <1>t, <2>0, <2>1 DEF ReplayNext, Written, chainVars
<1>9. CASE ReplayDone
    <2>1. Pipeline'
        BY <1>9, <1>t, <1>p DEF ReplayDone, Executing, appVars, chainVars
    <2>2. Written' = Len(blocks) /\ Written <= Len(blocks)
        BY <1>9, <1>t, <1>p DEF ReplayDone, Written, chainVars
    <2> QED BY <1>3, <1>9, <1>t, <2>1, <2>2 DEF ReplayDone, chainVars
<1>10. CASE HandshakeInSync \/ HandshakeReplay \/ HandshakeMock \/ HandshakeTooHigh
    <2>0. phase = "down" /\ ~serving /\ appAt = "ready" /\ UNCHANGED <<db, appVars, blocks>>
        BY <1>10, <1>p DEF HandshakeInSync, HandshakeReplay, HandshakeMock, HandshakeTooHigh,
                           Handshaking, chainVars
    <2>1. Pipeline'
        <3>1. CASE HandshakeInSync
            BY <3>1, <1>t, <1>p, <2>0 DEF HandshakeInSync, Executing, appVars, chainVars
        <3>2. CASE HandshakeReplay
            BY <3>2, <1>t, <1>p, <2>0 DEF HandshakeReplay, Executing, appVars, chainVars
        <3>3. CASE HandshakeMock
            BY <3>3, <1>t, <1>p, <2>0 DEF HandshakeMock, Executing, appVars
        <3>4. CASE HandshakeTooHigh
            BY <3>4, <1>t, <1>p, <2>0 DEF HandshakeTooHigh, Executing, appVars, chainVars
        <3> QED BY <1>10, <3>1, <3>2, <3>3, <3>4
    <2>2. Written' = Len(blocks) /\ Written = Len(blocks)
        <3>1. Written = Len(blocks)
            BY <2>0 DEF Written
        <3>2. serving' => phase' = "consensus"
            BY <1>10, <2>0 DEF HandshakeInSync, HandshakeReplay, HandshakeMock,
                               HandshakeTooHigh, chainVars
        <3> QED BY <2>0, <2>1, <3>1, <3>2 DEF Written
    <2> QED BY <1>3, <1>t, <2>0, <2>1, <2>2
<1>11. ASSUME NEW txs \in Proposal, SaveBlock(txs) PROVE Pipeline' /\ Origin'
    <2>1. /\ blocks' = Append(blocks, txs) /\ Len(blocks') = Len(blocks) + 1
          /\ \A h \in 1 .. Len(blocks) : blocks'[h] = blocks[h]
        BY <1>11, <1>t DEF SaveBlock
    <2>2. Pipeline'
        BY <1>11, <1>t, <1>p, <2>1 DEF SaveBlock, Executing, appVars
    <2>3. Written = Len(blocks) /\ Written' \in Nat /\ Written <= Written' /\ db' = db
        BY <1>11, <1>t, <1>p, <2>1 DEF SaveBlock, Written
    <2>4. Origin'
        BY <2>1, <2>3, OriginKept
    <2> QED BY <2>2, <2>4
<1>12. CASE Crash \/ CrashNode
    <2>1. /\ phase' = "down" /\ ~serving' /\ UNCHANGED <<db, chainVars>>
        BY <1>12 DEF Crash, CrashNode
    <2>2. Pipeline'
        BY <1>t, <1>p, <2>1 DEF Executing, chainVars
    <2>3. Written' = Len(blocks) /\ Written <= Len(blocks)
        BY <1>t, <2>1 DEF Written, chainVars
    <2> QED BY <1>3, <1>t, <2>1, <2>2, <2>3 DEF chainVars
<1>13. CASE UNCHANGED vars
    <2>1. Pipeline'
        BY <1>13, <1>p DEF vars, Executing, appVars, nodeVars, chainVars
    <2> QED BY <1>3, <1>13, <1>t, <2>1 DEF vars, appVars, nodeVars, chainVars, Written
<1> QED BY <1>1, <1>2, <1>4, <1>5, <1>6, <1>7, <1>8, <1>9, <1>10, <1>11, <1>12, <1>13
    DEF Next, Progress

LEMMA OriginInvariant == Spec => []OriginInv
<1>1. Init => OriginInv
    BY DEF Init, OriginInv, Executing, EmptyDB
<1>2. TypeOK /\ OriginInv /\ [Next]_vars => OriginInv'
    BY OriginStep
<1> QED BY <1>1, <1>2, TypeCorrect, PTL DEF Spec

\* Whatever fails and whoever crashes, a query answers a value that a committed block
\* wrote to the key (app.go, Query; Commit's errors are only logged).
THEOREM OnlyCommittedValues == Spec => []QueryOnlyCommitted
<1>1. TypeOK /\ OriginInv => QueryOnlyCommitted
    <2> SUFFICES ASSUME TypeOK, OriginInv, Serving,
                        NEW k \in Key \ MetaKeys, k \in DOMAIN db
                 PROVE  \E h \in 1 .. VisibleHeight :
                            Writes(h, k) /\ Query(k) = <<Effect(blocks[h])[k]>>
        BY DEF QueryOnlyCommitted
    <2>1. Written <= VisibleHeight /\ Written \in Nat /\ VisibleHeight \in Nat
        BY DEF Written, VisibleHeight, Serving, OriginInv, TypeOK, Executing, Phases
    <2>2. PICK h \in 1 .. Written : Writes(h, k) /\ db[k] = Effect(blocks[h])[k]
        BY DEF OriginInv, FromBlock
    <2> QED BY <2>1, <2>2 DEF Query
<1> QED BY <1>1, OriginInvariant, TypeCorrect, PTL

\* CometBFT's state moves one block at a time, whatever handshake it took.
THEOREM OneBlockAtATime == Spec => StateAdvancesByOne
<1>1. TypeOK /\ OriginInv /\ [Next]_vars => [stateHeight' \in {stateHeight, stateHeight + 1}]_vars
    <2> SUFFICES ASSUME TypeOK, OriginInv, Next
                 PROVE  stateHeight' \in {stateHeight, stateHeight + 1}
        OBVIOUS
    <2>1. CASE SaveState
        BY <2>1 DEF SaveState, OriginInv, TypeOK
    <2>2. CASE HandshakeMock
        BY <2>2 DEF HandshakeMock
    <2>3. CASE UNCHANGED stateHeight
        BY <2>3
    <2> QED BY <2>1, <2>2, <2>3
        DEF Next, Progress, FinalizeBlock, CommitBatchSet, CommitSaveMeta, NewKVStoreApp,
            SaveResponse, ReplayNext, ReplayDone, HandshakeInSync, HandshakeReplay,
            HandshakeTooHigh, SaveBlock, Crash, CrashNode, chainVars
<1> QED BY <1>1, OriginInvariant, TypeCorrect, PTL DEF Spec, StateAdvancesByOne

(***************************************************************************)
(* The store with its node, its crashes and its replays implements         *)
(* ReplicatedMap, and the stored app hash is the one of the stored height, *)
(* as long as the Badger transactions succeed.                             *)
(***************************************************************************)


\* With SaveMeta failing the stored height would stand still for a block and then
\* jump, which no map does.
FaultFree == FaultModel /\ FaultyOps = {}

-----------------------------------------------------------------------------
(* The inductive invariant.                                                 *)

\* The height the database should have recorded.
Recorded ==
    CASE phase = "committed"                                      -> cur
      [] phase \in {"execute", "finalized", "commit", "committing"} -> cur - 1
      [] phase = "down"                                           -> MetaHeight
      [] OTHER                                                    -> stateHeight

\* The stored height is exact, at most the last block is not recorded yet, and the
\* database holds nothing but pairs of valid transactions and the bookkeeping.
ServiceInv ==
    /\ MetaHeight = Recorded
    /\ Len(blocks) <= MetaHeight + 1
    /\ DOMAIN db \subseteq Key \cup MetaKeys

\* What clients see is the map of the recorded prefix.
ViewOK == Serving => Data(db) = Service!MapAt(Effects, MetaHeight)

-----------------------------------------------------------------------------
(* The database and the map.                                                *)

\* A key some block wrote has a last writer.
LEMMA LastWriterExists ==
    ASSUME NEW n \in Nat, NEW k, \E i \in 1 .. n : Writes(i, k)
    PROVE  \E i \in 1 .. n : LastWriter(i, k, n)
<1> DEFINE W == {i \in 1 .. n : Writes(i, k)}
<1>1. W \subseteq 0 .. n /\ W # {}
    OBVIOUS
<1>2. PICK i \in W : \A j \in W : j <= i
    <2> HIDE DEF W
    <2> QED BY <1>1, NatMax
<1> QED BY <1>2 DEF LastWriter

\* The map's value is that of the last writer.
LEMMA MapValue ==
    ASSUME NEW n \in 0 .. Len(blocks), blocks \in Seq(Proposal), NEW k,
           \E i \in 1 .. n : Writes(i, k)
    PROVE  \E i \in 1 .. n :
               /\ LastWriter(i, k, n)
               /\ k \in DOMAIN Service!MapAt(Effects, n)
               /\ Service!MapAt(Effects, n)[k] = Effect(blocks[i])[k]
<1>1. \A i \in 1 .. n : i \in DOMAIN blocks /\ Effects[i] = Effect(blocks[i])
    BY DEF Effects
<1>2. \A i \in 1 .. n : k \in DOMAIN Effects[i] <=> Writes(i, k)
    BY <1>1 DEF Writes
<1> DEFINE Last(i) == /\ k \in DOMAIN Effects[i]
                      /\ \A j \in i + 1 .. n : k \notin DOMAIN Effects[j]
           last == CHOOSE i \in 1 .. n : Last(i)
<1>3. \A i \in 1 .. n : Last(i) <=> LastWriter(i, k, n)
    BY <1>2 DEF LastWriter
<1>4. \E i \in 1 .. n : Last(i)
    BY <1>3, LastWriterExists
<1>5. last \in 1 .. n /\ Last(last)
    BY <1>4
<1>6. k \in UNION {DOMAIN Effects[i] : i \in 1 .. n}
    BY <1>2
<1>7. /\ k \in DOMAIN Service!MapAt(Effects, n)
      /\ Service!MapAt(Effects, n)[k] = Effects[last][k]
    BY <1>6 DEF Service!MapAt
<1>8. LastWriter(last, k, n) /\ Effects[last] = Effect(blocks[last])
    BY <1>1, <1>3, <1>5
<1> QED BY <1>5, <1>7, <1>8

\* A database that has recovered to n holds the map of the first n blocks.
LEMMA DataIsMap ==
    ASSUME FaultModel, NEW n \in 0 .. Len(blocks), blocks \in Seq(Proposal),
           DOMAIN db \subseteq Key \cup MetaKeys, Recovers(n, n)
    PROVE  Data(db) = Service!MapAt(Effects, n)
<1> DEFINE data == Data(db)
           map  == Service!MapAt(Effects, n)
<1>1. \A i \in 1 .. n : /\ blocks[i] \in Proposal
                        /\ Effects[i] = Effect(blocks[i])
                        /\ DOMAIN Effects[i] \subseteq Key
    BY EffectKeys DEF Effects
<1>2. DOMAIN map = {k \in Key : \E i \in 1 .. n : Writes(i, k)}
    BY <1>1 DEF Service!MapAt, Writes
<1>3. DOMAIN data = {k \in Key : k \in DOMAIN db}
    BY DEF Data, FaultModel
<1>4. DOMAIN data = DOMAIN map
    <2> HIDE DEF data, map
    <2> QED BY <1>2, <1>3 DEF Recovers
<1>5. ASSUME NEW k \in DOMAIN data PROVE data[k] = map[k]
    <2>1. k \in Key /\ (\E i \in 1 .. n : Writes(i, k)) /\ data[k] = db[k]
        BY <1>2, <1>3, <1>4 DEF Data
    <2>2. PICK i \in 1 .. n : LastWriter(i, k, n) /\ map[k] = Effect(blocks[i])[k]
        BY <2>1, MapValue
    <2>3. db[k] = Effect(blocks[i])[k]
        BY <2>1, <2>2 DEF Recovers
    <2> QED BY <2>1, <2>2, <2>3
<1>6. /\ data = [k \in DOMAIN data |-> data[k]]
      /\ map = [k \in DOMAIN map |-> map[k]]
    BY DEF Data, Service!MapAt
<1> HIDE DEF data, map
<1>7. data = map
    BY <1>4, <1>5, <1>6
<1> QED BY <1>7 DEF data, map

\* While clients are served the recorded height is the recovered one.
LEMMA ServingIs ==
    ASSUME FaultModel, TypeOK, RecoveryInv, ServiceInv
    PROVE  ViewOK
<1> SUFFICES ASSUME Serving PROVE Data(db) = Service!MapAt(Effects, MetaHeight)
    BY DEF ViewOK
<1>1. phase \notin {"committing", "down", "halted"} /\ phase \in Phases
    BY DEF Serving, RecoveryInv, PipelineInv, TypeOK
<1>2. MetaHeight = Reached
    BY <1>1 DEF ServiceInv, Recorded, Reached, Phases
<1>3. PICK n \in stateHeight .. Len(blocks) : Recovers(Reached, n) /\ Reached = n
    BY DEF RecoveryInv, DataInv, Serving
<1>4. n \in 0 .. Len(blocks)
    BY DEF TypeOK
<1> QED BY <1>2, <1>3, <1>4, DataIsMap DEF ServiceInv, TypeOK

-----------------------------------------------------------------------------
(* The invariant.                                                           *)

\* ServiceInv holds on an empty database.
LEMMA ServiceInit == Init => ServiceInv
  BY DEF Init, ServiceInv, Recorded, MetaHeight, LoadMeta, EmptyDB

\* What a commit does to the stored height and to the keys.
LEMMA CommitIs ==
    ASSUME FaultFree, TypeOK, RecoveryInv, ServiceInv
    PROVE  /\ CommitBatchSet => /\ MetaHeight' = MetaHeight
                                /\ DOMAIN db' \subseteq Key \cup MetaKeys
           /\ CommitSaveMeta => /\ MetaHeight' = cur /\ MetaHeight = cur - 1
                                /\ phase = "committing" /\ phase' = "committed"
                                /\ DOMAIN db' \subseteq Key \cup MetaKeys
<1>1. ASSUME CommitBatchSet
      PROVE  MetaHeight' = MetaHeight /\ DOMAIN db' \subseteq Key \cup MetaKeys
    <2>1. staged = Staged(blocks[cur]) /\ blocks[cur] \in Proposal
        BY <1>1 DEF CommitBatchSet, RecoveryInv, PipelineInv, TypeOK, Executing
    <2>2. db' = BatchSet(db, Staged(blocks[cur]))
        BY <1>1, <2>1 DEF CommitBatchSet, FaultFree
    <2>3. MetaHeight' = MetaHeight
        BY <2>1, <2>2, BatchKeepsMeta DEF MetaHeight, FaultFree
    <2>4. DOMAIN db' = DOMAIN db \cup DOMAIN Effect(blocks[cur])
        BY <2>2, BatchEffect
    <2> QED BY <2>1, <2>3, <2>4, EffectKeys DEF ServiceInv
<1>2. ASSUME CommitSaveMeta
      PROVE  /\ MetaHeight' = cur /\ MetaHeight = cur - 1
             /\ phase = "committing" /\ phase' = "committed"
             /\ DOMAIN db' \subseteq Key \cup MetaKeys
    <2>1. phase = "committing" /\ height = cur
        BY <1>2 DEF CommitSaveMeta, RecoveryInv, PipelineInv
    <2>2. db' = SaveMeta(db, height, appHash')
        BY <1>2 DEF CommitSaveMeta, FaultFree
    <2>3. MetaHeight' = height
        BY <2>2, MetaRoundTrip DEF MetaHeight, TypeOK
    <2>4. DOMAIN db' = DOMAIN db \cup MetaKeys
        BY <2>2 DEF SaveMeta
    <2>5. MetaHeight = cur - 1
        BY <2>1 DEF ServiceInv, Recorded
    <2>6. phase' = "committed"
        BY <1>2, <2>1 DEF CommitSaveMeta
    <2> QED BY <2>1, <2>3, <2>4, <2>5, <2>6 DEF ServiceInv
<1> QED BY <1>1, <1>2

\* Every step keeps ServiceInv.
LEMMA ServiceStep ==
    ASSUME FaultFree, TypeOK, RecoveryInv, ServiceInv, [Next]_vars
    PROVE  ServiceInv'
<1>t. /\ cur \in Nat /\ stateHeight \in Nat /\ Len(blocks) \in Nat /\ height \in Nat
      /\ phase \in Phases
      /\ stateHeight <= Len(blocks) /\ response <= Len(blocks) /\ response \in Nat
    BY DEF TypeOK
<1>1. CASE CommitBatchSet
    BY <1>1, <1>t, CommitIs DEF CommitBatchSet, ServiceInv, Recorded, chainVars
<1>2. CASE CommitSaveMeta
    BY <1>2, <1>t, CommitIs DEF CommitSaveMeta, ServiceInv, Recorded, chainVars
<1>3. ASSUME UNCHANGED <<db, blocks>>, Recorded' = Recorded
      PROVE  ServiceInv'
    BY <1>3 DEF ServiceInv, MetaHeight
<1>4. CASE FinalizeBlock
    <2>1. Recorded' = Recorded
        BY <1>4 DEF FinalizeBlock, Recorded
    <2> QED BY <1>3, <1>4, <2>1 DEF FinalizeBlock, chainVars
<1>5. CASE NewKVStoreApp
    <2>1. Recorded' = Recorded
        BY <1>5 DEF NewKVStoreApp, nodeVars, chainVars, Recorded, MetaHeight
    <2> QED BY <1>3, <1>5, <2>1 DEF NewKVStoreApp, chainVars
<1>6. CASE SaveResponse
    <2>1. Recorded' = Recorded
        BY <1>6 DEF SaveResponse, Recorded
    <2> QED BY <1>3, <1>6, <2>1 DEF SaveResponse
<1>7. CASE SaveState
    <2>1. Recorded' = Recorded
        BY <1>7 DEF SaveState, Recorded
    <2> QED BY <1>3, <1>7, <2>1 DEF SaveState
<1>8. CASE ReplayNext
    <2>1. Recorded' = Recorded
        BY <1>8, <1>t DEF ReplayNext, Recorded
    <2> QED BY <1>3, <1>8, <2>1 DEF ReplayNext, chainVars
<1>9. CASE ReplayDone
    <2>1. Recorded' = Recorded
        BY <1>9, <1>t DEF ReplayDone, chainVars, Recorded
    <2> QED BY <1>3, <1>9, <2>1 DEF ReplayDone, chainVars
<1>10. CASE HandshakeInSync \/ HandshakeReplay \/ HandshakeMock \/ HandshakeTooHigh
    <2>1. height = MetaHeight /\ phase = "down" /\ UNCHANGED db /\ MetaHeight <= response
        BY <1>10 DEF HandshakeInSync, HandshakeReplay, HandshakeMock, HandshakeTooHigh,
                     Handshaking, RecoveryInv, PipelineInv
    <2>2. Recorded = MetaHeight /\ MetaHeight' = MetaHeight
        BY <2>1 DEF Recorded, MetaHeight
    <2>3. CASE HandshakeInSync
        BY <1>3, <2>1, <2>2, <2>3 DEF HandshakeInSync, Recorded, chainVars, Info
    <2>4. CASE HandshakeReplay
        BY <1>3, <1>t, <2>1, <2>2, <2>4 DEF HandshakeReplay, Recorded, Info, chainVars
    <2>5. CASE HandshakeMock
        BY <1>3, <1>t, <2>1, <2>2, <2>5 DEF HandshakeMock, Recorded, Info
    <2>6. CASE HandshakeTooHigh
        BY <1>t, <2>1, <2>6 DEF HandshakeTooHigh, Info
    <2> QED BY <1>10, <2>3, <2>4, <2>5, <2>6
<1>11. ASSUME NEW txs \in Proposal, SaveBlock(txs) PROVE ServiceInv'
    <2>1. stateHeight = Len(blocks)
        BY <1>11 DEF SaveBlock, RecoveryInv, PipelineInv
    <2>2. Recorded' = Recorded
        BY <1>11, <1>t, <2>1 DEF SaveBlock, Recorded
    <2>3. MetaHeight' = MetaHeight /\ MetaHeight = Len(blocks)
        BY <1>11, <2>1 DEF SaveBlock, MetaHeight, ServiceInv, Recorded
    <2>4. Len(blocks') = Len(blocks) + 1
        BY <1>11 DEF SaveBlock, TypeOK
    <2> QED BY <1>t, <1>11, <2>2, <2>3, <2>4 DEF SaveBlock, ServiceInv
<1>12. CASE Crash
    <2>1. Recorded' = MetaHeight'
        BY <1>12 DEF Crash, Recorded
    <2> QED BY <1>12, <2>1 DEF Crash, ServiceInv, MetaHeight, chainVars
<1>13. CASE CrashNode
    BY <1>13 DEF CrashNode, FaultFree, FaultModel
<1>14. CASE UNCHANGED vars
    <2>1. Recorded' = Recorded /\ UNCHANGED <<db, blocks>>
        BY <1>14 DEF vars, nodeVars, chainVars, Recorded, MetaHeight
    <2> QED BY <1>3, <2>1
<1> QED BY <1>1, <1>2, <1>4, <1>5, <1>6, <1>7, <1>8, <1>9, <1>10, <1>11, <1>12, <1>13,
           <1>14 DEF Next, Progress

\* The invariants of the earlier proofs and this one.
FullInv == TypeOK /\ RecoveryInv /\ ServiceInv

LEMMA FullInvariant ==
    ASSUME FaultFree
    PROVE  Spec => []FullInv
<1>1. FaultModel
    BY DEF FaultFree
<1>2. Spec => []RecoveryInv
    BY <1>1, Recovery
<1>3. Init => ServiceInv
    BY ServiceInit
<1>4. TypeOK /\ RecoveryInv /\ ServiceInv /\ [Next]_vars => ServiceInv'
    BY ServiceStep
<1> QED BY <1>2, <1>3, <1>4, TypeCorrect, PTL DEF Spec, FullInv

-----------------------------------------------------------------------------
(* The refinement.                                                          *)

\* At first no block is decided and nobody is served.
LEMMA RefinesInit == Init => Service!Init
<1> SUFFICES ASSUME Init PROVE Service!Init
    OBVIOUS
<1>1. Effects = <<>>
    BY DEF Init, Effects
<1>2. ~Serving /\ LoadMeta(db).height = 0
    BY DEF Init, Serving, LoadMeta, EmptyDB
<1> QED BY <1>1, <1>2 DEF Service!Init, Service!Offline

\* A step that decides nothing and records nothing takes the view offline or shows
\* the map it had.
LEMMA RefinesView ==
    ASSUME UNCHANGED blocks, MetaHeight' = MetaHeight, ViewOK'
    PROVE  Service!Next
<1>1. Effects' = Effects
    BY DEF Effects
<1>2. CASE ~Serving'
    <2>1. Service!GoOffline
        BY <1>1, <1>2 DEF Service!GoOffline, Service!Offline, MetaHeight
    <2> QED BY <2>1 DEF Service!Next
<1>3. CASE Serving'
    <2>1. Data(db)' = Service!MapAt(Effects, MetaHeight)
        BY <1>1, <1>3 DEF ViewOK, Service!MapAt
    <2>2. Service!GoOnline
        BY <1>1, <1>3, <2>1 DEF Service!GoOnline, MetaHeight
    <2> QED BY <2>2 DEF Service!Next
<1> QED BY <1>2, <1>3

\* Saving a block decides a batch; everything before it is recorded.
LEMMA RefinesDecide ==
    ASSUME FullInv, NEW txs \in Proposal, SaveBlock(txs)
    PROVE  Service!Next
<1>1. /\ phase = "consensus" /\ blocks' = Append(blocks, txs)
      /\ UNCHANGED <<db, appVars, serving>>
    BY DEF SaveBlock
<1>2. blocks \in Seq(Proposal)
    BY DEF FullInv, TypeOK
<1>3. LoadMeta(db).height = Len(blocks)
    BY <1>1 DEF FullInv, ServiceInv, Recorded, MetaHeight, RecoveryInv, PipelineInv
<1>4. Len(Effects) = Len(blocks)
    BY <1>2 DEF Effects
<1>5. Effects' = Append(Effects, Effect(txs))
    BY <1>1, <1>2 DEF Effects
<1>6. Effect(txs) \in {Effect(t) : t \in Proposal}
    OBVIOUS
<1>7. /\ LoadMeta(db)' = LoadMeta(db) /\ Data(db)' = Data(db) /\ Serving' = Serving
    BY <1>1 DEF Serving, appVars
<1>8. Service!Decide
    BY <1>3, <1>4, <1>5, <1>6, <1>7 DEF Service!Decide
<1> QED BY <1>8 DEF Service!Next

\* Recording the height of a committed block applies its batch.
LEMMA RefinesApply ==
    ASSUME FaultFree, FullInv, CommitSaveMeta, ViewOK'
    PROVE  Service!Next
<1>1. /\ MetaHeight' = cur /\ MetaHeight = cur - 1
      /\ phase = "committing"
    BY CommitIs DEF FullInv
<1>2. /\ cur \in 0 .. Len(blocks) /\ Len(blocks) \in Nat /\ blocks \in Seq(Proposal)
    BY DEF FullInv, TypeOK
<1>3. UNCHANGED blocks
    BY DEF CommitSaveMeta, chainVars
<1>4. Effects' = Effects /\ Len(Effects) = Len(blocks)
    BY <1>2, <1>3 DEF Effects
<1>5. MetaHeight < Len(Effects) /\ MetaHeight' = MetaHeight + 1
    BY <1>1, <1>2, <1>4
<1>6. Serving' => Data(db)' = Service!MapAt(Effects, MetaHeight + 1)
    BY <1>4, <1>5 DEF ViewOK, Service!MapAt
<1>7. Service!Apply
    BY <1>4, <1>5, <1>6 DEF Service!Apply, Service!Offline, MetaHeight
<1> QED BY <1>7 DEF Service!Next

\* Every step of the store is one of the map or leaves it alone.
LEMMA RefinesStep ==
    ASSUME FaultFree, FullInv, [Next]_vars, ViewOK'
    PROVE  [Service!Next]_(Service!vars)
<1>1. CASE \E txs \in Proposal : SaveBlock(txs)
    BY <1>1, RefinesDecide
<1>2. CASE CommitSaveMeta
    BY <1>2, RefinesApply
<1>3. CASE CommitBatchSet
    BY <1>3, CommitIs, RefinesView DEF FullInv, CommitBatchSet, chainVars
<1>4. CASE UNCHANGED <<db, blocks>>
    BY <1>4, RefinesView DEF MetaHeight
<1> QED BY <1>1, <1>2, <1>3, <1>4
    DEF Next, Progress, FinalizeBlock, NewKVStoreApp, SaveResponse, SaveState, ReplayNext,
        ReplayDone, HandshakeInSync, HandshakeReplay, HandshakeMock, HandshakeTooHigh,
        Crash, CrashNode, vars, chainVars

\* Through any number of crashes and replays the node serves what a replicated map
\* serves: each block applied once, in order, and shown whole or not at all.
THEOREM Refinement ==
    ASSUME FaultFree
    PROVE  Spec => ImplementsReplicatedMap
<1>1. FullInv => ViewOK
    BY ServingIs DEF FullInv, FaultFree
<1>2. FullInv /\ ViewOK' /\ [Next]_vars => [Service!Next]_(Service!vars)
    BY RefinesStep
<1> QED BY <1>1, <1>2, RefinesInit, FullInvariant, PTL
    DEF Spec, ImplementsReplicatedMap, Service!Spec

-----------------------------------------------------------------------------
(* The stored hash.                                                         *)

\* The value a map has for a key is that of the last batch that wrote it.
LEMMA MapIs ==
    ASSUME NEW l, NEW n \in Nat, NEW i \in 1 .. n, NEW k \in DOMAIN l[i],
           \A j \in i + 1 .. n : k \notin DOMAIN l[j]
    PROVE  k \in DOMAIN Service!MapAt(l, n) /\ Service!MapAt(l, n)[k] = l[i][k]
<1> DEFINE Last(x) == /\ k \in DOMAIN l[x]
                      /\ \A j \in x + 1 .. n : k \notin DOMAIN l[j]
           last == CHOOSE x \in 1 .. n : Last(x)
<1>1. last \in 1 .. n /\ Last(last)
    OBVIOUS
<1>2. k \in UNION {DOMAIN l[x] : x \in 1 .. n}
    OBVIOUS
<1>3. k \in DOMAIN Service!MapAt(l, n) /\ Service!MapAt(l, n)[k] = l[last][k]
    BY <1>2 DEF Service!MapAt
<1> HIDE DEF last
<1>4. last = i
    BY <1>1
<1> QED BY <1>3, <1>4

\* The map after n batches depends on these alone.
LEMMA MapPrefix ==
    ASSUME NEW l, NEW m, NEW n \in Nat, \A i \in 1 .. n : l[i] = m[i]
    PROVE  Service!MapAt(l, n) = Service!MapAt(m, n)
<1> DEFINE a == Service!MapAt(l, n)
           b == Service!MapAt(m, n)
<1>1. /\ DOMAIN a = UNION {DOMAIN l[i] : i \in 1 .. n}
      /\ DOMAIN b = UNION {DOMAIN m[i] : i \in 1 .. n}
    BY DEF Service!MapAt
<1>2. DOMAIN a = DOMAIN b
    BY <1>1
<1>3. ASSUME NEW k \in DOMAIN a PROVE a[k] = b[k]
    <2> DEFINE W == {i \in 1 .. n : k \in DOMAIN l[i]}
    <2>1. W \subseteq 0 .. n /\ W # {}
        BY <1>1
    <2>2. PICK i \in W : \A j \in W : j <= i
        <3> HIDE DEF W
        <3> QED BY <2>1, NatMax
    <2>3. i \in 1 .. n /\ k \in DOMAIN l[i] /\ \A j \in i + 1 .. n : k \notin DOMAIN l[j]
        BY <2>2
    <2>4. k \in DOMAIN m[i] /\ \A j \in i + 1 .. n : k \notin DOMAIN m[j]
        BY <2>3
    <2>5. a[k] = l[i][k]
        BY <2>3, MapIs
    <2>6. b[k] = m[i][k]
        BY <2>3, <2>4, MapIs
    <2> QED BY <2>3, <2>5, <2>6
<1>4. a = [k \in DOMAIN a |-> a[k]] /\ b = [k \in DOMAIN b |-> b[k]]
    BY DEF Service!MapAt
<1> HIDE DEF a, b
<1>5. a = b
    BY <1>2, <1>3, <1>4
<1> QED BY <1>5 DEF a, b

\* SaveMeta writes both bookkeeping keys in one transaction.
BothOrNone(d) == metaHeight \in DOMAIN d <=> metaAppHash \in DOMAIN d

\* SaveMeta stores what LoadMeta returns.
LEMMA SaveMetaIs ==
    ASSUME NEW d, NEW h \in Nat, NEW hash
    PROVE  /\ LoadMeta(SaveMeta(d, h, hash)) = [height |-> h, appHash |-> hash]
           /\ BothOrNone(SaveMeta(d, h, hash))
<1>1. metaHeight # metaAppHash /\ metaHeight \in MetaKeys /\ metaAppHash \in MetaKeys
    BY DEF metaHeight, metaAppHash, MetaKeys
<1>2. /\ metaHeight \in DOMAIN SaveMeta(d, h, hash)
      /\ metaAppHash \in DOMAIN SaveMeta(d, h, hash)
      /\ SaveMeta(d, h, hash)[metaHeight] = PutUint64(h)
      /\ SaveMeta(d, h, hash)[metaAppHash] = hash
    BY <1>1 DEF SaveMeta
<1>3. Uint64(PutUint64(h)) = h
    BY DEF Uint64, PutUint64
<1> QED BY <1>2, <1>3 DEF LoadMeta, BothOrNone

\* A batch of user's pairs leaves it alone.
LEMMA BatchKeepsBoth ==
    ASSUME FaultModel, NEW d, BothOrNone(d), NEW txs \in Proposal
    PROVE  /\ LoadMeta(BatchSet(d, Staged(txs))) = LoadMeta(d)
           /\ BothOrNone(BatchSet(d, Staged(txs)))
<1> DEFINE new == BatchSet(d, Staged(txs))
<1>1. DOMAIN Effect(txs) \cap MetaKeys = {}
    BY EffectKeys DEF FaultModel
<1>2. \A k \in MetaKeys : /\ k \in DOMAIN new <=> k \in DOMAIN d
                          /\ k \in DOMAIN d => new[k] = d[k]
    BY <1>1, BatchEffect
<1> HIDE DEF new
<1>3. LoadMeta(new) = LoadMeta(d) /\ BothOrNone(new)
    BY <1>2 DEF LoadMeta, BothOrNone, MetaKeys
<1> QED BY <1>3 DEF new

\* The hash beside the height is right, and there is one beside every height.
HashInv == StoredHashMatchesHeight /\ BothOrNone(db)

\* The hash of a map is the hash of a database that holds it.
LEMMA HashOfMap ==
    ASSUME FaultModel, NEW n \in 0 .. Len(blocks), blocks \in Seq(Proposal),
           Data(db) = Service!MapAt(Effects, n)
    PROVE  Hash(db) = Hash(Service!MapAt(Effects, n))
<1> DEFINE map == Service!MapAt(Effects, n)
<1>1. DOMAIN map = UNION {DOMAIN Effects[i] : i \in 1 .. n}
    BY DEF Service!MapAt
<1>2. \A i \in 1 .. n : DOMAIN Effects[i] \subseteq Key
    BY EffectKeys DEF Effects
<1>3. DOMAIN map \cap MetaKeys = {}
    BY <1>1, <1>2 DEF FaultModel
<1>4. map = [k \in DOMAIN map |-> map[k]]
    BY DEF Service!MapAt
<1> HIDE DEF map
<1>5. DOMAIN map \ MetaKeys = DOMAIN map
    BY <1>3
<1>6. Data(map) = map
    BY <1>4, <1>5 DEF Data
<1>7. Hash(db) = Hash(map)
    BY <1>6, Zenon DEF Hash, map
<1> QED BY <1>7 DEF map

\* When the height of a block is stored, the data is the map at that height: the block
\* was written just before, and none after it.
LEMMA HashedData ==
    ASSUME FaultFree, FullInv, phase = "committing"
    PROVE  cur \in 0 .. Len(blocks) /\ Data(db) = Service!MapAt(Effects, cur)
<1>1. /\ cur \in 0 .. Len(blocks) /\ Len(blocks) \in Nat /\ stateHeight \in Nat
      /\ blocks \in Seq(Proposal)
    BY DEF FullInv, TypeOK
<1>2. Reached = cur /\ MetaHeight = cur - 1 /\ Len(blocks) <= MetaHeight + 1
    BY DEF Reached, FullInv, ServiceInv, Recorded
<1>3. PICK n \in stateHeight .. Len(blocks) : Reached <= n /\ Recovers(Reached, n)
    BY DEF FullInv, RecoveryInv, DataInv
<1>4. n = cur
    BY <1>1, <1>2, <1>3
<1> QED BY <1>1, <1>2, <1>3, <1>4, DataIsMap DEF FullInv, ServiceInv, FaultFree

\* The map up to a recorded height stays what it is.
LEMMA MapStays ==
    ASSUME FullInv, [Next]_vars
    PROVE  \A n \in 0 .. Len(blocks) : Service!MapAt(Effects', n) = Service!MapAt(Effects, n)
<1>1. blocks \in Seq(Proposal)
    BY DEF FullInv, TypeOK
<1>2. CASE UNCHANGED blocks
    BY <1>2 DEF Effects
<1>3. ASSUME NEW txs \in Proposal, SaveBlock(txs)
      PROVE  \A n \in 0 .. Len(blocks) :
                 Service!MapAt(Effects', n) = Service!MapAt(Effects, n)
    <2> SUFFICES ASSUME NEW n \in 0 .. Len(blocks)
                 PROVE  Service!MapAt(Effects', n) = Service!MapAt(Effects, n)
        OBVIOUS
    <2>1. blocks' = Append(blocks, txs)
        BY <1>3 DEF SaveBlock
    <2>2. \A i \in 1 .. n : Effects'[i] = Effects[i]
        BY <1>1, <2>1 DEF Effects
    <2>3. n \in Nat
        OBVIOUS
    <2> HIDE DEF Effects
    <2> QED BY <2>2, <2>3, MapPrefix
<1> QED BY <1>2, <1>3 DEF Next, Progress, CommitBatchSet, CommitSaveMeta, FinalizeBlock,
        NewKVStoreApp, SaveResponse, SaveState, ReplayNext, ReplayDone, HandshakeInSync,
        HandshakeReplay, HandshakeMock, HandshakeTooHigh, Crash, CrashNode, vars, chainVars

\* A hash is stored with its height only, and neither a batch nor a new block spoils it.
LEMMA HashStep ==
    ASSUME FaultFree, FullInv, HashInv, [Next]_vars
    PROVE  HashInv'
<1> DEFINE Right(meta, l) ==
               meta.height > 0 => meta.appHash = Hash(Service!MapAt(l, meta.height))
<1>1. Right(LoadMeta(db), Effects) /\ BothOrNone(db)
    BY DEF HashInv, StoredHashMatchesHeight
<1>2. SUFFICES Right(LoadMeta(db'), Effects') /\ BothOrNone(db')
    BY DEF HashInv, StoredHashMatchesHeight, BothOrNone, LoadMeta, Service!MapAt
<1>3. \A n \in 0 .. Len(blocks) : Service!MapAt(Effects', n) = Service!MapAt(Effects, n)
    BY MapStays
<1>4. LoadMeta(db).height \in 0 .. Len(blocks)
    BY DEF FullInv, TypeOK, RecoveryInv, PipelineInv, MetaHeight
<1>5. CASE LoadMeta(db') = LoadMeta(db) /\ BothOrNone(db')
    BY <1>1, <1>3, <1>4, <1>5
<1>6. CASE CommitBatchSet
    <2>1. staged = Staged(blocks[cur]) /\ blocks[cur] \in Proposal
        BY <1>6 DEF CommitBatchSet, FullInv, RecoveryInv, PipelineInv, TypeOK, Executing
    <2>2. db' = BatchSet(db, Staged(blocks[cur]))
        BY <1>6, <2>1 DEF CommitBatchSet, FaultFree
    <2> QED BY <1>1, <1>5, <2>1, <2>2, BatchKeepsBoth DEF FaultFree
<1>7. CASE CommitSaveMeta
    <2>1. phase = "committing" /\ height = cur
        BY <1>7 DEF CommitSaveMeta, FullInv, RecoveryInv, PipelineInv
    <2>2. db' = SaveMeta(db, cur, Hash(db))
        BY <1>7, <2>1 DEF CommitSaveMeta, FaultFree
    <2>3. cur \in 0 .. Len(blocks) /\ Data(db) = Service!MapAt(Effects, cur)
        BY <2>1, HashedData
    <2>4. blocks \in Seq(Proposal) /\ cur \in Nat
        BY <2>3 DEF FullInv, TypeOK
    <2>5. Hash(db) = Hash(Service!MapAt(Effects', cur))
        BY <1>3, <2>3, <2>4, HashOfMap DEF FaultFree
    <2>6. LoadMeta(db') = [height |-> cur, appHash |-> Hash(db)] /\ BothOrNone(db')
        BY <2>2, <2>4, SaveMetaIs
    <2> QED BY <2>5, <2>6
<1>8. CASE UNCHANGED db
    BY <1>1, <1>5, <1>8
<1> QED BY <1>6, <1>7, <1>8 DEF Next, Progress, FinalizeBlock, NewKVStoreApp, SaveResponse,
        SaveState, ReplayNext, ReplayDone, HandshakeInSync, HandshakeReplay, HandshakeMock,
        HandshakeTooHigh, SaveBlock, Crash, CrashNode, vars

\* However crashes cut commits short, the app hash beside the stored height is the hash of
\* the state at that height (app.go, Commit; state.go, SaveMeta): what Info answers after
\* a restart names the state the replay starts from.
THEOREM StoredHash ==
    ASSUME FaultFree
    PROVE  Spec => []StoredHashMatchesHeight
<1>1. Init => HashInv
    BY DEF Init, HashInv, StoredHashMatchesHeight, BothOrNone, LoadMeta, EmptyDB
<1>2. FullInv /\ HashInv /\ [Next]_vars => HashInv'
    BY HashStep
<1>3. HashInv => StoredHashMatchesHeight
    BY DEF HashInv
<1> QED BY <1>1, <1>2, <1>3, FullInvariant, PTL DEF Spec
=============================================================================
