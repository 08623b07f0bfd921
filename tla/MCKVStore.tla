----------------------------- MODULE MCKVStore -----------------------------
(* Small instances of KVStore.                                              *)
EXTENDS KVStore

MCSymbol == {"=", "__meta_height", "__meta_apphash", "be64", "a", "b", "x", "y"}

a == <<"a">>
b == <<"b">>

Pair(k, v) == k \o <<"=">> \o v

\* Two keys with two values each, a value that contains "=", and the three
\* shapes FinalizeBlock rejects or accepts at the edge.
PlainTx == {Pair(a, <<"x">>), Pair(a, <<"y">>), Pair(b, <<"x", "=", "y">>),
            Pair(b, <<>>), Pair(<<>>, <<"x">>), <<"a", "x">>}

PlainOrder == <<a, b>>

\* Overwrites inside one block, rejected transactions beside accepted ones,
\* a block that stages nothing and an empty block.
PlainProposal ==
    {<<>>,
     <<Pair(<<>>, <<"x">>), <<"a", "x">> >>,
     <<Pair(a, <<"x">>), Pair(a, <<"y">>)>>,
     <<Pair(a, <<"y">>), Pair(a, <<"x">>), Pair(b, <<>>)>>,
     <<Pair(b, <<"x", "=", "y">>), <<"a", "x">> >>}

\* Clients may also write the bookkeeping keys, with a value too short to be a
\* height and with one that reads as height 5.
ReservedTx == {Pair(a, <<"x">>), Pair(a, <<"y">>), Pair(metaHeight, <<"x">>),
               Pair(metaHeight, PutUint64(5))}

ReservedOrder == <<metaAppHash, metaHeight, a>>

ReservedProposal ==
    {<<>>, <<Pair(a, <<"x">>)>>, <<Pair(a, <<"y">>), Pair(metaHeight, <<"x">>)>>,
     <<Pair(metaHeight, PutUint64(5))>>}
=============================================================================
