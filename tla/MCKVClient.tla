----------------------------- MODULE MCKVClient -----------------------------
(* Small instances of the key-value endpoints.                              *)
EXTENDS KVClient, FiniteSets, TLC

MCSymbol == {"=", "__meta_height", "__meta_apphash", "be64", "a", "b", "x", "y"}

a == <<"a">>
b == <<"b">>

MCOrder == <<a, b>>

\* An empty key and two plain ones.
PlainKeys == {<<>>, a, b}

\* One contains "=".
MCValues == {<<"x">>, <<"x", "=", "y">>}

MCTx == {SetTx([key |-> k, value |-> v]) : k \in KeyArg \ {<<>>}, v \in ValueArg}

\* Whatever the mempool holds of them.
MCProposal == UNION {[1 .. n -> MCTx] : n \in 0 .. Cardinality(Request)}

Clients == Permutations(Request)
=============================================================================
