----------------------------- MODULE ProtoWire -----------------------------
(***************************************************************************)
(* The protobuf wire format as x/taskreg uses it: the functions of         *)
(* google.golang.org/protobuf/encoding/protowire that its codec calls, and *)
(* the codec's own helpers on top of them (tx.pb.go).                      *)
(*                                                                         *)
(* Bytes are the numbers 0 .. 255; a buffer and a string are sequences of  *)
(* them.  A Consume function returns the value and the number of bytes     *)
(* read, negative when the bytes are not a value.  Varints stay below      *)
(* 2^31, TLC's integers.                                                   *)
(***************************************************************************)
EXTENDS Integers, Sequences

VarintType  == 0
Fixed64Type == 1
BytesType   == 2
Fixed32Type == 5

Byte   == 0 .. 255
Buffer == Seq(Byte)

Drop(b, n) == SubSeq(b, n + 1, Len(b))

-----------------------------------------------------------------------------
(* protowire.                                                               *)

AppendVarint[v \in Nat] ==
    IF v < 128 THEN <<v>> ELSE <<128 + (v % 128)>> \o AppendVarint[v \div 128]

AppendTag(num, typ) == AppendVarint[8 * num + typ]

AppendBytes(s) == AppendVarint[Len(s)] \o s

SizeVarint[v \in Nat] == IF v < 128 THEN 1 ELSE 1 + SizeVarint[v \div 128]

SizeTag(num) == SizeVarint[8 * num]

SizeBytes(n) == SizeVarint[n] + n

BadValue == [v |-> 0, n |-> -1]

ConsumeVarint[b \in Buffer] ==
    IF b = <<>> THEN BadValue
    ELSE IF Head(b) < 128 THEN [v |-> Head(b), n |-> 1]
    ELSE LET more == ConsumeVarint[Tail(b)]
         IN  IF more.n < 0 THEN BadValue
             ELSE [v |-> Head(b) - 128 + 128 * more.v, n |-> more.n + 1]

\* ConsumeString is the same: it does not look at the bytes.
ConsumeBytes(b) ==
    LET size == ConsumeVarint[b]
    IN  IF size.n < 0 \/ size.v > Len(b) - size.n THEN BadValue
        ELSE [v |-> SubSeq(b, size.n + 1, size.n + size.v), n |-> size.n + size.v]

\* Field number 0 is no field.
ConsumeTag(b) ==
    LET tag == ConsumeVarint[b]
    IN  [num |-> tag.v \div 8, typ |-> tag.v % 8, n |-> IF tag.v < 8 THEN -1 ELSE tag.n]

FixedSize(size, b) == IF Len(b) < size THEN -1 ELSE size

\* Called with field number 0, no group can end: the end tag must repeat the number.
ConsumeFieldValue(typ, b) ==
    CASE typ = VarintType  -> ConsumeVarint[b].n
      [] typ = BytesType   -> ConsumeBytes(b).n
      [] typ = Fixed32Type -> FixedSize(4, b)
      [] typ = Fixed64Type -> FixedSize(8, b)
      [] OTHER             -> -1

-----------------------------------------------------------------------------
(* The helpers of tx.pb.go.  Zero values are left out of the encoding.      *)

appendString(num, s) == IF s = <<>> THEN <<>> ELSE AppendTag(num, BytesType) \o AppendBytes(s)

appendUint64(num, v) == IF v = 0 THEN <<>> ELSE AppendTag(num, VarintType) \o AppendVarint[v]

sizeString(num, s) == IF s = <<>> THEN 0 ELSE SizeTag(num) + SizeBytes(Len(s))

\* Mutant: the size of the value is forgotten.
sizeTagOnly(num, v) == IF v = 0 THEN 0 ELSE SizeTag(num) + 1

sizeUint64(num, v) == IF v = 0 THEN 0 ELSE SizeTag(num) + SizeVarint[v]

skipField(typ, b) == [v |-> <<>>, n |-> ConsumeFieldValue(typ, b)]
=============================================================================
