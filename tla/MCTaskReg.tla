----------------------------- MODULE MCTaskReg -----------------------------
(* Small instances of the task registry.                                    *)
EXTENDS TaskRegQuery

Create(who, title)    == [type |-> "CreateTask", signer |-> who, title |-> title]
Assign(who, id, whom) == [type |-> "AssignTask", signer |-> who, id |-> id, assignee |-> whom]
Complete(who, id)     == [type |-> "CompleteTask", signer |-> who, id |-> id]

\* Not found at first.  A third task can be created but stays open.
Ids == 1 .. 2

MCMsg ==
    {Create(who, title) : who \in Account, title \in Title}
    \cup {Assign(who, id, whom) : who \in Account, id \in Ids, whom \in Account \cup {NoOne}}
    \cup {Complete(who, id) : who \in Account \cup {NoOne}, id \in Ids}

\* One message, or two of one or of different signers.
MCPayload == {<<m>> : m \in MCMsg} \cup {<<m, n>> : m \in MCMsg, n \in MCMsg}

OneTask(id, who) == [id |-> id, title |-> CHOOSE t \in Title : t # NoTitle, creator |-> who,
                     assignee |-> NoOne, status |-> "OPEN"]

\* The default genesis and one exported from a chain with a task.
MCGenesis == {DefaultGenesis} \cup {[tasks |-> <<OneTask(1, who)>>, nextTaskId |-> 2] : who \in Account}
=============================================================================
