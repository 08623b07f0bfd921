------------------------------ MODULE KVState ------------------------------
(***************************************************************************)
(* The Badger wrapper of abci-kvstore (state.go) as operators on a         *)
(* database: a function from the keys present to their byte strings.  User *)
(* pairs and the two bookkeeping keys share that one key space, as they do *)
(* in Badger.  A byte string is a sequence of symbols; a reserved key is a *)
(* single symbol, because nothing depends on how its name is spelt.        *)
(***************************************************************************)
EXTENDS Integers, Sequences
LOCAL INSTANCE SequencesExt

CONSTANTS
    Symbol,     \* what byte strings are made of
    KeyOrder    \* every key that can occur, in Badger's iteration order

ASSUME SymbolAssumption == {"=", "__meta_height", "__meta_apphash", "be64"} \subseteq Symbol

Bytes == Seq(Symbol)

metaHeight  == <<"__meta_height">>
metaAppHash == <<"__meta_apphash">>
MetaKeys    == {metaHeight, metaAppHash}

EmptyDB == <<>>
NoHash  == <<>>     \* the nil / empty app hash

(***************************************************************************)
(* binary.BigEndian: eight bytes that spell a number, written here in      *)
(* unary so that every byte string is a sequence of symbols.  Uint64       *)
(* indexes past the end of a shorter slice, which Go turns into a panic:   *)
(* IsUint64 is the condition under which it returns.                       *)
(***************************************************************************)
PutUint64(n) == [i \in 1 .. n + 1 |-> "be64"]
IsUint64(b)  == b # <<>> /\ \A i \in DOMAIN b : b[i] = "be64"
Uint64(b)    == Len(b) - 1

(***************************************************************************)
(* A staged batch is a function from positions to <<key, value>>; the      *)
(* positions keep the order in which the pairs were appended.  Badger      *)
(* applies the batch in one transaction, so the last pair for a key wins.  *)
(***************************************************************************)
BatchKeys(pairs) == {pairs[i][1] : i \in DOMAIN pairs}

LastPair(pairs, k) ==
    CHOOSE i \in DOMAIN pairs :
        /\ pairs[i][1] = k
        /\ \A j \in DOMAIN pairs : pairs[j][1] = k => j <= i

BatchSet(d, pairs) ==
    [k \in DOMAIN d \cup BatchKeys(pairs) |->
        IF k \in BatchKeys(pairs) THEN pairs[LastPair(pairs, k)][2] ELSE d[k]]

SaveMeta(d, height, appHash) ==
    [k \in DOMAIN d \cup MetaKeys |->
        CASE k = metaHeight  -> PutUint64(height)
          [] k = metaAppHash -> appHash
          [] OTHER           -> d[k]]

\* LoadMeta returns: an error or a panic stops the process before it serves.
MetaReadable(d) ==
    metaHeight \in DOMAIN d => IsUint64(d[metaHeight]) /\ metaAppHash \in DOMAIN d

LoadMeta(d) ==
    IF metaHeight \notin DOMAIN d
    THEN [height |-> 0, appHash |-> NoHash]
    ELSE [height |-> Uint64(d[metaHeight]), appHash |-> d[metaAppHash]]

\* SHA-256, idealised: never empty, and different for different inputs.
Sha256(stream) == <<"sha256">> \o stream

\* The user's pairs.
Data(d) == [k \in DOMAIN d \ MetaKeys |-> d[k]]

(***************************************************************************)
(* Hash feeds SHA-256 the keys and values back to back, without lengths or *)
(* separators, skipping the bookkeeping keys.                              *)
(***************************************************************************)
Stream(data) ==
    LET Feed(stream, k) == IF k \in DOMAIN data THEN stream \o k \o data[k] ELSE stream
    IN  FoldLeft(Feed, <<>>, KeyOrder)

Hash(d) == Sha256(Stream(Data(d)))
=============================================================================
