----------------------------- MODULE MCTaskWire ----------------------------
(* Small instances of x/taskreg's codec.                                    *)
EXTENDS TaskWire

\* Absent, short, and as long as takes a second byte for the length.
Short == <<97>>
Long  == [i \in 1 .. 128 |-> 98]
Text  == {<<>>, Short, Long}

\* 1 and 2 byte varints, on both sides of the boundary.
Number == {0, 1, 127, 128}

MCTasks ==
    [id : {0, 1, 300}, title : {<<>>, Short}, description : {<<>>, <<99>>},
     creator : {<<>>, <<100>>}, assignee : {<<>>, <<101>>}, status : {0, 1, 3}]

\* An empty task, one with all its fields, one whose length takes two bytes.
FullTask == [id |-> 300, title |-> Short, description |-> <<99>>, creator |-> <<100>>,
             assignee |-> <<101>>, status |-> 3]
LongTask == [NewTask EXCEPT !.id = 2, !.title = Long]

TaskLists == {<<>>, <<NewTask>>, <<FullTask, NewTask>>, <<NewTask, LongTask>>}

PageRequests  == [key : {<<>>, Short}, offset : {0, 1}, limit : {0, 128}]
PageResponses == [next_key : {<<>>, Short}, total : {0, 128}]

NilOr(S) == {<<>>} \cup {<<x>> : x \in S}

MCMessage ==
    [Task                    |-> MCTasks \cup {LongTask},
     MsgCreateTask           |-> [creator : Text, title : {<<>>, <<102>>}, description : {<<>>, Short}],
     MsgCreateTaskResponse   |-> [id : Number],
     MsgAssignTask           |-> [creator : Text, task_id : Number, assignee : {<<>>, <<103>>}],
     MsgAssignTaskResponse   |-> {NewMsgAssignTaskResponse},
     MsgCompleteTask         |-> [assignee : Text, task_id : Number],
     MsgCompleteTaskResponse |-> {NewMsgCompleteTaskResponse},
     QueryTaskRequest        |-> [id : Number],
     QueryTaskResponse       |-> [task : {NewTask, FullTask, LongTask}],
     QueryListTasksRequest   |-> [pagination : NilOr(PageRequests)],
     QueryListTasksResponse  |-> [tasks : TaskLists, pagination : NilOr(PageResponses)],
     GenesisState            |-> [tasks : TaskLists, next_task_id : Number]]

\* A field of each wire type there is to skip.
MCUnknown ==
    {AppendTag(16, VarintType) \o AppendVarint[300],
     AppendTag(9, BytesType) \o AppendBytes(Short),
     AppendTag(9, Fixed32Type) \o <<0, 0, 1, 8>>,
     AppendTag(9, Fixed64Type) \o <<8, 1, 8, 1, 8, 1, 8, 1>>}
=============================================================================
