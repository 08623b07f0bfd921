------------------------------ MODULE TaskWire ------------------------------
(***************************************************************************)
(* x/taskreg's messages on their way: a gRPC client and the server's       *)
(* handlers (tx.pb.go, query.pb.go), and messages saved as bytes and read  *)
(* back.  A buffer is decoded one field at a time, as Unmarshal's loop     *)
(* does.                                                                   *)
(*                                                                         *)
(* Bytes may arrive cut short, or with a field this version does not know  *)
(* before or after the known ones.                                         *)
(***************************************************************************)
EXTENDS TaskMessages
LOCAL INSTANCE SequencesExt

CONSTANTS
    Message,    \* for every type but the SDK's own: messages to send
    Unknown,    \* fields no message has, encoded
    MayBeCut    \* buffers may arrive truncated

ASSUME MessageAssumption ==
    /\ DOMAIN Message = DOMAIN Struct \ {"PageRequest", "PageResponse"}
    /\ \A t \in DOMAIN Message : Message[t] \subseteq Struct[t]
ASSUME UnknownAssumption ==
    /\ MayBeCut \in BOOLEAN
    /\ Unknown \subseteq Buffer

VARIABLES
    phase,      \* "idle", "request", "response", "saved" or "done"
    method,     \* the method called, or the type saved
    type,       \* the type of the message on its way
    sent,       \* the message that was encoded
    wire,       \* the bytes that arrived
    fault,      \* "none", "cut" or "unknown": what happened to them
    buf,        \* b, the bytes Unmarshal has not read yet
    msg,        \* the message decoded so far
    err         \* what the call returns

vars == <<phase, method, type, sent, wire, fault, buf, msg, err>>

-----------------------------------------------------------------------------
(* Unmarshal.                                                               *)

NoField == [num |-> 0, v |-> <<>>, n |-> -1]

\* The field at the beginning of b, as the switch of type t reads it, and its
\* length.  The cases look at the field's number and not at its wire type.
Field(t, b) ==
    LET tag  == ConsumeTag(b)
        rest == Drop(b, tag.n)
        val  == IF tag.num \notin DOMAIN Cases[t] THEN skipField(tag.typ, rest)
                ELSE IF Cases[t][tag.num].kind = "varint" THEN ConsumeVarint[rest]
                ELSE ConsumeBytes(rest)
    IN  IF tag.n < 0 THEN NoField
        ELSE IF val.n < 0 THEN NoField
        ELSE [num |-> tag.num, v |-> val.v, n |-> tag.n + val.n]

ASSUME UnknownIsAField ==
    \A u \in Unknown : \A t \in DOMAIN Cases :
        Field(t, u).n = Len(u) /\ Field(t, u).num \notin DOMAIN Cases[t]

\* A case for a number or a string; other fields are skipped.
SetScalar(t, m, field) ==
    IF field.num \notin DOMAIN Cases[t] THEN m
    ELSE [m EXCEPT ![Cases[t][field.num].field] = field.v]

\* The loop, for the messages that are nested in others: their fields are numbers
\* and strings.
UnmarshalNested(t, m, b) ==
    LET loop[s \in [m : Struct[t], b : Buffer, err : {"none", "decode"}]] ==
            LET field == Field(t, s.b)
            IN  IF s.b = <<>> \/ s.err # "none" THEN s
                ELSE loop[IF field.n < 0 THEN [s EXCEPT !.err = "decode"]
                          ELSE [s EXCEPT !.m = SetScalar(t, @, field), !.b = Drop(@, field.n)]]
    IN  loop[[m |-> m, b |-> b, err |-> "none"]]

\* Mutant: the task is declared outside the loop and keeps the fields of the
\* one before.
TargetReused(m, case) ==
    CASE case.kind = "embedded"                              -> m[case.field]
      [] case.kind = "repeated" /\ m[case.field] # <<>> -> Last(m[case.field])
      [] OTHER                                               -> New[case.of]

\* The message that a nested one is decoded into.
Target(m, case) == IF case.kind = "embedded" THEN m[case.field] ELSE New[case.of]

\* A case for a nested message.
SetNested(m, case, v) ==
    LET inner == UnmarshalNested(case.of, Target(m, case), v)
    IN  [m   |-> [m EXCEPT ![case.field] =
                     CASE case.kind = "embedded" -> inner.m
                       [] case.kind = "pointer"  -> <<inner.m>>
                       [] case.kind = "repeated" -> Append(@, inner.m)],
         err |-> inner.err]

\* What a case of the switch does with the field that it read.
SetField(t, m, field) ==
    IF /\ field.num \in DOMAIN Cases[t]
       /\ Cases[t][field.num].kind \in {"embedded", "pointer", "repeated"}
    THEN SetNested(m, Cases[t][field.num], field.v)
    ELSE [m |-> SetScalar(t, m, field), err |-> "none"]

Failed(m, b) == [m |-> m, b |-> b, err |-> "decode"]

\* One round of the loop.
UnmarshalField(t, m, b) ==
    LET field == Field(t, b)
        set   == SetField(t, m, field)
    IN  IF field.n < 0 THEN Failed(m, b)
        ELSE IF set.err # "none" THEN Failed(m, b)
        ELSE [m |-> set.m, b |-> Drop(b, field.n), err |-> "none"]

-----------------------------------------------------------------------------
(* Decoding by descriptor, as the SDK does to find out who must sign.       *)

NothingRead == [num |-> 0, typ |-> VarintType, v |-> <<>>, n |-> -1]

\* The field at the beginning of b, read by its wire type.
AnyField(b) ==
    LET tag  == ConsumeTag(b)
        rest == Drop(b, tag.n)
        val  == IF tag.typ = VarintType THEN ConsumeVarint[rest]
                ELSE IF tag.typ = BytesType THEN ConsumeBytes(rest) ELSE skipField(tag.typ, rest)
    IN  IF tag.n < 0 THEN NothingRead
        ELSE IF val.n < 0 THEN NothingRead
        ELSE [num |-> tag.num, typ |-> tag.typ, v |-> val.v, n |-> tag.n + val.n]

WireType(typ) == IF typ \in {"uint64", "enum"} THEN VarintType ELSE BytesType

\* What a field that was read adds to the values of f.
Own(f, field) ==
    IF field.num = f.num /\ field.typ = WireType(f.typ) THEN <<field.v>> ELSE <<>>

\* What b gives for the field f, as far as b can be read.
Given(f, b) ==
    LET given[r \in Buffer] ==
            IF AnyField(r).n < 0 THEN <<>>
            ELSE Own(f, AnyField(r)) \o given[Drop(r, AnyField(r).n)]
    IN  given[b]

\* The last value counts.
Scalar(t, f, b) == IF Given(f, b) = <<>> THEN New[t][f.name] ELSE Last(Given(f, b))

Described(t, name) == CHOOSE f \in Descriptor[t] : f.name = name

ReflectNested(t, b) ==
    [name \in {f.name : f \in Descriptor[t]} |-> Scalar(t, Described(t, name), b)]

\* Nested messages merge, absent ones are empty.
Reflect(t, b) ==
    [name \in {f.name : f \in Descriptor[t]} |->
        LET f == Described(t, name)
        IN  CASE f.many -> [i \in DOMAIN Given(f, b) |-> ReflectNested(f.typ, Given(f, b)[i])]
              [] ~f.many /\ f.typ \in DOMAIN Descriptor ->
                     ReflectNested(f.typ, FlattenSeq(Given(f, b)))
              [] OTHER -> Scalar(t, f, b)]

-----------------------------------------------------------------------------
(* Sending.                                                                 *)

\* MarshalTo and MarshalToSizedBuffer copy what Marshal returns to the front and
\* to the end of a buffer that the caller makes Size bytes long.
Written(t, m) ==
    LET bz   == Marshal(t, m)
        zero == [i \in 1 .. Size(t, m) - Len(bz) |-> 0]
    IN  {bz, SubSeq(bz \o zero, 1, Size(t, m)), zero \o bz}

Arrivals(b) ==
    {[b |-> b, fault |-> "none"]}
    \cup {[b |-> SubSeq(b, 1, n), fault |-> "cut"] : n \in IF MayBeCut THEN 0 .. Len(b) - 1 ELSE {}}
    \cup UNION {{[b |-> u \o b, fault |-> "unknown"], [b |-> b \o u, fault |-> "unknown"]}
                : u \in Unknown}

Send(t, m, ph) ==
    /\ phase' = ph /\ type' = t /\ sent' = m /\ msg' = New[t]
    /\ \E bz \in Written(t, m) : \E a \in Arrivals(bz) :
           wire' = a.b /\ fault' = a.fault /\ buf' = a.b

-----------------------------------------------------------------------------
(* The services.                                                            *)

MsgMethods ==
    [CreateTask   |-> [request |-> "MsgCreateTask",   response |-> "MsgCreateTaskResponse"],
     AssignTask   |-> [request |-> "MsgAssignTask",   response |-> "MsgAssignTaskResponse"],
     CompleteTask |-> [request |-> "MsgCompleteTask", response |-> "MsgCompleteTaskResponse"]]

QueryMethods ==
    [Task      |-> [request |-> "QueryTaskRequest",      response |-> "QueryTaskResponse"],
     ListTasks |-> [request |-> "QueryListTasksRequest", response |-> "QueryListTasksResponse"]]

Methods == Both(MsgMethods, QueryMethods)

Saved == {"Task", "GenesisState"}

Invoke(name, in) ==
    /\ phase = "idle"
    /\ method' = name /\ err' = "none"
    /\ Send(Methods[name].request, in, "request")

\* Written to the store or a file, and read again.
Save(t, m) ==
    /\ phase = "idle"
    /\ method' = t /\ err' = "none"
    /\ Send(t, m, "saved")

Decode ==
    /\ phase \in {"request", "response", "saved"} /\ buf # <<>>
    /\ \E next \in {IF type \in Empty THEN [m |-> msg, b |-> <<>>, err |-> "none"]
                    ELSE UnmarshalField(type, msg, buf)} :
           /\ msg' = next.m /\ buf' = next.b /\ err' = next.err
           /\ phase' = IF next.err = "none" THEN phase ELSE "done"
    /\ UNCHANGED <<method, type, sent, wire, fault>>

\* The handler gets the decoded request; what it answers goes back the same way.
Handle(out) ==
    /\ phase = "request" /\ buf = <<>>
    /\ Send(Methods[method].response, out, "response")
    /\ UNCHANGED <<method, err>>

HandlerFails ==
    /\ phase = "request" /\ buf = <<>>
    /\ phase' = "done" /\ err' = "handler"
    /\ UNCHANGED <<method, type, sent, wire, fault, buf, msg>>

Return ==
    /\ phase \in {"response", "saved"} /\ buf = <<>>
    /\ phase' = "done"
    /\ UNCHANGED <<method, type, sent, wire, fault, buf, msg, err>>

Init ==
    /\ phase = "idle" /\ method = "none" /\ type = "Task" /\ sent = NewTask /\ msg = NewTask
    /\ wire = <<>> /\ fault = "none" /\ buf = <<>> /\ err = "none"

Answer ==
    \/ Decode
    \/ phase = "request" /\ \E out \in Message[Methods[method].response] : Handle(out)
    \/ HandlerFails
    \/ Return

Next ==
    \/ \E name \in DOMAIN Methods : \E in \in Message[Methods[name].request] : Invoke(name, in)
    \/ \E t \in Saved : \E m \in Message[t] : Save(t, m)
    \/ Answer

Spec == Init /\ [][Next]_vars

-----------------------------------------------------------------------------
(* Properties.                                                              *)

Decoded == phase # "idle" /\ buf = <<>> /\ err # "decode"

\* An absent page request or response means an empty one, to the handlers and to
\* decoding by descriptor.
Meaning(t, m) ==
    IF "pagination" \notin DOMAIN m THEN m
    ELSE [m EXCEPT !.pagination =
            IF @ # <<>> THEN @[1]
            ELSE IF t = "QueryListTasksRequest" THEN NewPageRequest ELSE NewPageResponse]

\* Size counts exactly the bytes that Marshal writes: MarshalToSizedBuffer slices
\* its buffer by the difference and a buffer that is too long starts with zeros.
SizeFits == Size(type, sent) = Len(Marshal(type, sent))

\* Unmarshal's loop is at any time where encoding what it has decoded would be:
\* so a buffer that ends early is an error or a message of the first fields and
\* entries of the one that was sent, never a different value.
ConsumedIsDecoded ==
    fault # "unknown" /\ err # "decode" => wire = Marshal(type, msg) \o buf

\* What was sent arrives, zero values, empty entries and fields of newer versions
\* included, and only truncated bytes are refused.
DecodedIsSent ==
    /\ err = "decode" => fault = "cut"
    /\ Decoded /\ fault # "cut" => Meaning(type, msg) = Meaning(type, sent)

\* The descriptors, written apart from the codec, read every buffer as it does.
DescriptorsAgree == Decoded => Reflect(type, wire) = Meaning(type, msg)

\* The account by whose name the handlers act, as creator and as assignee.
Actor(t, m) == IF t = "MsgCompleteTask" THEN m.assignee ELSE m.creator

\* The SDK verifies the signature of the account in whose name the handler will
\* act, though it finds it by another way than the handler does.
SignerIsActor ==
    Decoded /\ type \in DOMAIN SignerField =>
        Reflect(type, wire)[SignerField[type]] = Actor(type, msg)
=============================================================================
