---------------------------- MODULE TaskMessages ----------------------------
(***************************************************************************)
(* The messages of x/taskreg and their codec (types.pb.go, tx.pb.go,       *)
(* query.pb.go, genesis.pb.go), and the file descriptors from which the    *)
(* SDK decodes the same bytes by reflection (proto_descriptor.go).         *)
(*                                                                         *)
(* All of it is written out by hand in the code, message by message: what  *)
(* Marshal writes, what Size counts, which field each case of Unmarshal    *)
(* sets, and the descriptors.  Here too each is a definition of its own.   *)
(*                                                                         *)
(* A message is a record; an optional message (a Go pointer) is a sequence *)
(* of at most one.  MarshalTo and MarshalToSizedBuffer, which copy what    *)
(* Marshal returned, are in TaskWire.                                      *)
(***************************************************************************)
EXTENDS ProtoWire

-----------------------------------------------------------------------------
(* A case of Unmarshal: how the value is read and which field it sets.      *)

Varint(field)       == [kind |-> "varint",   field |-> field, of |-> "none"]
String(field)       == [kind |-> "string",   field |-> field, of |-> "none"]
\* m.Task.Unmarshal: decoded into the message that is there.
Embedded(field, of) == [kind |-> "embedded", field |-> field, of |-> of]
\* A fresh message each time.
Pointer(field, of)  == [kind |-> "pointer",  field |-> field, of |-> of]
Repeated(field, of) == [kind |-> "repeated", field |-> field, of |-> of]

\* A nested message: its length, then its bytes.
appendMessage(num, bz) == AppendTag(num, BytesType) \o AppendBytes(bz)
sizeMessage(num, n)    == SizeTag(num) + SizeBytes(n)

-----------------------------------------------------------------------------
(* types.pb.go                                                              *)

Task == [id : Nat, title : Buffer, description : Buffer, creator : Buffer,
         assignee : Buffer, status : Nat]

NewTask == [id |-> 0, title |-> <<>>, description |-> <<>>, creator |-> <<>>,
            assignee |-> <<>>, status |-> 0]

MarshalTask(m) ==
    appendUint64(1, m.id) \o appendString(2, m.title) \o appendString(3, m.description)
    \o appendString(4, m.creator) \o appendString(5, m.assignee)
    \o appendUint64(6, m.status)

SizeTask(m) ==
    sizeUint64(1, m.id) + sizeString(2, m.title) + sizeString(3, m.description)
    + sizeString(4, m.creator) + sizeString(5, m.assignee) + sizeUint64(6, m.status)

UnmarshalTask ==
    <<Varint("id"), String("title"), String("description"), String("creator"),
      String("assignee"), Varint("status")>>

-----------------------------------------------------------------------------
(* tx.pb.go                                                                 *)

MsgCreateTask == [creator : Buffer, title : Buffer, description : Buffer]

NewMsgCreateTask == [creator |-> <<>>, title |-> <<>>, description |-> <<>>]

MarshalMsgCreateTask(m) ==
    appendString(1, m.creator) \o appendString(2, m.title) \o appendString(3, m.description)

SizeMsgCreateTask(m) ==
    sizeString(1, m.creator) + sizeString(2, m.title) + sizeString(3, m.description)

UnmarshalMsgCreateTask == <<String("creator"), String("title"), String("description")>>

MsgCreateTaskResponse == [id : Nat]
NewMsgCreateTaskResponse == [id |-> 0]
MarshalMsgCreateTaskResponse(m) == appendUint64(1, m.id)
SizeMsgCreateTaskResponse(m)    == sizeUint64(1, m.id)
UnmarshalMsgCreateTaskResponse  == <<Varint("id")>>

MsgAssignTask == [creator : Buffer, task_id : Nat, assignee : Buffer]

NewMsgAssignTask == [creator |-> <<>>, task_id |-> 0, assignee |-> <<>>]

MarshalMsgAssignTask(m) ==
    appendString(1, m.creator) \o appendUint64(2, m.task_id) \o appendString(3, m.assignee)

SizeMsgAssignTask(m) ==
    sizeString(1, m.creator) + sizeUint64(2, m.task_id) + sizeString(3, m.assignee)

\* Mutant: the two addresses change places.
UnmarshalAddressesSwapped == <<String("assignee"), Varint("task_id"), String("creator")>>

UnmarshalMsgAssignTask == <<String("creator"), Varint("task_id"), String("assignee")>>

MsgCompleteTask == [assignee : Buffer, task_id : Nat]
NewMsgCompleteTask == [assignee |-> <<>>, task_id |-> 0]
MarshalMsgCompleteTask(m) == appendString(1, m.assignee) \o appendUint64(2, m.task_id)
SizeMsgCompleteTask(m)    == sizeString(1, m.assignee) + sizeUint64(2, m.task_id)
UnmarshalMsgCompleteTask  == <<String("assignee"), Varint("task_id")>>

\* MsgAssignTaskResponse and MsgCompleteTaskResponse: nothing is written, and
\* Unmarshal returns without looking at its argument.
NewMsgAssignTaskResponse   == <<>>
NewMsgCompleteTaskResponse == <<>>
Empty == {"MsgAssignTaskResponse", "MsgCompleteTaskResponse"}

-----------------------------------------------------------------------------
(* The SDK's pagination messages.                                           *)

PageRequest  == [key : Buffer, offset : Nat, limit : Nat]
PageResponse == [next_key : Buffer, total : Nat]

\* A pointer, nil or not.
Optional(S) == {p \in Seq(S) : Len(p) <= 1}

NewPageRequest  == [key |-> <<>>, offset |-> 0, limit |-> 0]
NewPageResponse == [next_key |-> <<>>, total |-> 0]

MarshalPageRequest(m) ==
    appendString(1, m.key) \o appendUint64(2, m.offset) \o appendUint64(3, m.limit)

MarshalPageResponse(m) == appendString(1, m.next_key) \o appendUint64(2, m.total)

UnmarshalPageRequest  == <<String("key"), Varint("offset"), Varint("limit")>>
UnmarshalPageResponse == <<String("next_key"), Varint("total")>>

\* A pagination's bytes; none if there is no pagination.
PageRequestBz(page)  == IF page = <<>> THEN <<>> ELSE MarshalPageRequest(page[1])
PageResponseBz(page) == IF page = <<>> THEN <<>> ELSE MarshalPageResponse(page[1])

\* It is written when it is there and not empty.
appendPage(num, pageBz) == IF pageBz = <<>> THEN <<>> ELSE appendMessage(num, pageBz)
sizePage(num, pageBz)   == IF pageBz = <<>> THEN 0 ELSE sizeMessage(num, Len(pageBz))

-----------------------------------------------------------------------------
(* query.pb.go                                                              *)

QueryTaskRequest == [id : Nat]
NewQueryTaskRequest == [id |-> 0]
MarshalQueryTaskRequest(m) == appendUint64(1, m.id)
SizeQueryTaskRequest(m)    == sizeUint64(1, m.id)
UnmarshalQueryTaskRequest  == <<Varint("id")>>

QueryTaskResponse == [task : Task]
NewQueryTaskResponse == [task |-> NewTask]

MarshalQueryTaskResponse(m) ==
    LET taskBz == MarshalTask(m.task)
    IN  IF taskBz = <<>> THEN <<>> ELSE appendMessage(1, taskBz)

SizeQueryTaskResponse(m) ==
    LET taskSize == SizeTask(m.task)
    IN  IF taskSize = 0 THEN 0 ELSE sizeMessage(1, taskSize)

UnmarshalQueryTaskResponse == <<Embedded("task", "Task")>>

QueryListTasksRequest == [pagination : Optional(PageRequest)]
NewQueryListTasksRequest == [pagination |-> <<>>]
MarshalQueryListTasksRequest(m) == appendPage(1, PageRequestBz(m.pagination))
SizeQueryListTasksRequest(m)    == sizePage(1, PageRequestBz(m.pagination))
UnmarshalQueryListTasksRequest  == <<Pointer("pagination", "PageRequest")>>

QueryListTasksResponse == [tasks : Seq(Task), pagination : Optional(PageResponse)]
NewQueryListTasksResponse == [tasks |-> <<>>, pagination |-> <<>>]

\* Tasks are written even if they are empty.
appendTasks(num, tasks) ==
    LET b[i \in 0 .. Len(tasks)] ==
            IF i = 0 THEN <<>> ELSE b[i - 1] \o appendMessage(num, MarshalTask(tasks[i]))
    IN  b[Len(tasks)]

sizeTasks(num, tasks) ==
    LET n[i \in 0 .. Len(tasks)] ==
            IF i = 0 THEN 0 ELSE n[i - 1] + sizeMessage(num, SizeTask(tasks[i]))
    IN  n[Len(tasks)]

MarshalQueryListTasksResponse(m) ==
    appendTasks(1, m.tasks) \o appendPage(2, PageResponseBz(m.pagination))

SizeQueryListTasksResponse(m) ==
    sizeTasks(1, m.tasks) + sizePage(2, PageResponseBz(m.pagination))

UnmarshalQueryListTasksResponse ==
    <<Repeated("tasks", "Task"), Pointer("pagination", "PageResponse")>>

-----------------------------------------------------------------------------
(* genesis.pb.go                                                            *)

GenesisState == [tasks : Seq(Task), next_task_id : Nat]
NewGenesisState == [tasks |-> <<>>, next_task_id |-> 0]
MarshalGenesisState(m) == appendTasks(1, m.tasks) \o appendUint64(2, m.next_task_id)
SizeGenesisState(m)    == sizeTasks(1, m.tasks) + sizeUint64(2, m.next_task_id)
UnmarshalGenesisState  == <<Repeated("tasks", "Task"), Varint("next_task_id")>>

-----------------------------------------------------------------------------
(* The methods, by message type.                                            *)

Marshal(type, m) ==
    CASE type = "Task"                   -> MarshalTask(m)
      [] type = "MsgCreateTask"          -> MarshalMsgCreateTask(m)
      [] type = "MsgCreateTaskResponse"  -> MarshalMsgCreateTaskResponse(m)
      [] type = "MsgAssignTask"          -> MarshalMsgAssignTask(m)
      [] type = "MsgCompleteTask"        -> MarshalMsgCompleteTask(m)
      [] type = "QueryTaskRequest"       -> MarshalQueryTaskRequest(m)
      [] type = "QueryTaskResponse"      -> MarshalQueryTaskResponse(m)
      [] type = "QueryListTasksRequest"  -> MarshalQueryListTasksRequest(m)
      [] type = "QueryListTasksResponse" -> MarshalQueryListTasksResponse(m)
      [] type = "GenesisState"           -> MarshalGenesisState(m)
      [] type \in Empty                  -> <<>>

Size(type, m) ==
    CASE type = "Task"                   -> SizeTask(m)
      [] type = "MsgCreateTask"          -> SizeMsgCreateTask(m)
      [] type = "MsgCreateTaskResponse"  -> SizeMsgCreateTaskResponse(m)
      [] type = "MsgAssignTask"          -> SizeMsgAssignTask(m)
      [] type = "MsgCompleteTask"        -> SizeMsgCompleteTask(m)
      [] type = "QueryTaskRequest"       -> SizeQueryTaskRequest(m)
      [] type = "QueryTaskResponse"      -> SizeQueryTaskResponse(m)
      [] type = "QueryListTasksRequest"  -> SizeQueryListTasksRequest(m)
      [] type = "QueryListTasksResponse" -> SizeQueryListTasksResponse(m)
      [] type = "GenesisState"           -> SizeGenesisState(m)
      [] type \in Empty                  -> 0

Struct ==
    [Task                    |-> Task,
     MsgCreateTask           |-> MsgCreateTask,
     MsgCreateTaskResponse   |-> MsgCreateTaskResponse,
     MsgAssignTask           |-> MsgAssignTask,
     MsgAssignTaskResponse   |-> {<<>>},
     MsgCompleteTask         |-> MsgCompleteTask,
     MsgCompleteTaskResponse |-> {<<>>},
     QueryTaskRequest        |-> QueryTaskRequest,
     QueryTaskResponse       |-> QueryTaskResponse,
     QueryListTasksRequest   |-> QueryListTasksRequest,
     QueryListTasksResponse  |-> QueryListTasksResponse,
     GenesisState            |-> GenesisState,
     PageRequest             |-> PageRequest,
     PageResponse            |-> PageResponse]

New ==
    [Task                    |-> NewTask,
     MsgCreateTask           |-> NewMsgCreateTask,
     MsgCreateTaskResponse   |-> NewMsgCreateTaskResponse,
     MsgAssignTask           |-> NewMsgAssignTask,
     MsgAssignTaskResponse   |-> NewMsgAssignTaskResponse,
     MsgCompleteTask         |-> NewMsgCompleteTask,
     MsgCompleteTaskResponse |-> NewMsgCompleteTaskResponse,
     QueryTaskRequest        |-> NewQueryTaskRequest,
     QueryTaskResponse       |-> NewQueryTaskResponse,
     QueryListTasksRequest   |-> NewQueryListTasksRequest,
     QueryListTasksResponse  |-> NewQueryListTasksResponse,
     GenesisState            |-> NewGenesisState,
     PageRequest             |-> NewPageRequest,
     PageResponse            |-> NewPageResponse]

Cases ==
    [Task                   |-> UnmarshalTask,
     MsgCreateTask          |-> UnmarshalMsgCreateTask,
     MsgCreateTaskResponse  |-> UnmarshalMsgCreateTaskResponse,
     MsgAssignTask          |-> UnmarshalMsgAssignTask,
     MsgCompleteTask        |-> UnmarshalMsgCompleteTask,
     QueryTaskRequest       |-> UnmarshalQueryTaskRequest,
     QueryTaskResponse      |-> UnmarshalQueryTaskResponse,
     QueryListTasksRequest  |-> UnmarshalQueryListTasksRequest,
     QueryListTasksResponse |-> UnmarshalQueryListTasksResponse,
     GenesisState           |-> UnmarshalGenesisState,
     PageRequest            |-> UnmarshalPageRequest,
     PageResponse           |-> UnmarshalPageResponse]

-----------------------------------------------------------------------------
(* proto_descriptor.go: what the messages are said to look like.            *)

FieldOf(name, num, typ, many) == [name |-> name, num |-> num, typ |-> typ, many |-> many]

strField(name, num)              == FieldOf(name, num, "string", FALSE)
uint64Field(name, num)           == FieldOf(name, num, "uint64", FALSE)
enumField(name, num)             == FieldOf(name, num, "enum", FALSE)
msgField(name, num, typ)         == FieldOf(name, num, typ, FALSE)
repeatedMsgField(name, num, typ) == FieldOf(name, num, typ, TRUE)

TxFileDescriptor ==
    [MsgCreateTask           |-> {strField("creator", 1), strField("title", 2),
                                  strField("description", 3)},
     MsgCreateTaskResponse   |-> {uint64Field("id", 1)},
     MsgAssignTask           |-> {strField("creator", 1), uint64Field("task_id", 2),
                                  strField("assignee", 3)},
     MsgAssignTaskResponse   |-> {},
     MsgCompleteTask         |-> {strField("assignee", 1), uint64Field("task_id", 2)},
     MsgCompleteTaskResponse |-> {}]

\* Mutant: whoever is assigned a task signs for it.
SignedByAssignee == [MsgCreateTask |-> "creator", MsgAssignTask |-> "assignee",
                     MsgCompleteTask |-> "assignee"]

\* signerOpts: the field that holds the message's signer.
SignerField == [MsgCreateTask |-> "creator", MsgAssignTask |-> "creator",
                MsgCompleteTask |-> "assignee"]

TypesFileDescriptor ==
    [Task |-> {uint64Field("id", 1), strField("title", 2), strField("description", 3),
               strField("creator", 4), strField("assignee", 5), enumField("status", 6)}]

QueryFileDescriptor ==
    [QueryTaskRequest       |-> {uint64Field("id", 1)},
     QueryTaskResponse      |-> {msgField("task", 1, "Task")},
     QueryListTasksRequest  |-> {msgField("pagination", 1, "PageRequest")},
     QueryListTasksResponse |-> {repeatedMsgField("tasks", 1, "Task"),
                                 msgField("pagination", 2, "PageResponse")}]

\* Mutant: the two fields are described under each other's number.
GenesisFileSwapped ==
    [GenesisState |-> {repeatedMsgField("tasks", 2, "Task"), uint64Field("next_task_id", 1)}]

GenesisFileDescriptor ==
    [GenesisState |-> {repeatedMsgField("tasks", 1, "Task"), uint64Field("next_task_id", 2)}]

PageDescriptor ==
    [PageRequest  |-> {strField("key", 1), uint64Field("offset", 2), uint64Field("limit", 3)},
     PageResponse |-> {strField("next_key", 1), uint64Field("total", 2)}]

\* Two tables in one.
Both(f, g) == [x \in DOMAIN f \cup DOMAIN g |-> IF x \in DOMAIN f THEN f[x] ELSE g[x]]

Descriptor ==
    Both(TxFileDescriptor, Both(TypesFileDescriptor,
        Both(QueryFileDescriptor, Both(GenesisFileDescriptor, PageDescriptor))))

=============================================================================
