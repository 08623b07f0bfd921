------------------------------ MODULE TaskReg ------------------------------
(***************************************************************************)
(* The task registry module of mychain (x/taskreg): tasks that a creator   *)
(* opens and assigns and an assignee completes.                            *)
(*                                                                         *)
(* A transaction carries one or more messages.  The Cosmos SDK runs them   *)
(* in order on a cached copy of the module's store and writes the copy     *)
(* back only when all of them succeed; each handler is an action on the    *)
(* copy.                                                                   *)
(***************************************************************************)
EXTENDS Integers, Sequences

CONSTANTS
    Account,    \* valid addresses
    NoOne,      \* the empty address
    Title,      \* titles, NoTitle among them if it is to be tried
    NoTitle,    \* the empty title
    Genesis,    \* genesis states the chain may start from
    Payload,    \* message sequences a transaction may carry
    IdSpace,    \* 2^64: task ids wrap around at this number
    MaxId       \* bound: ids in use stay below it

Statuses == {"OPEN", "ASSIGNED", "COMPLETED"}

Task == [id : Nat, title : Title, creator : Account,
         assignee : Account \cup {NoOne}, status : Statuses]

Address == Account \cup {NoOne}

Msg == [type : {"CreateTask"}, signer : Address, title : Title]
       \cup [type : {"AssignTask"}, signer : Address, id : Nat, assignee : Address]
       \cup [type : {"CompleteTask"}, signer : Address, id : Nat]

ASSUME AddressAssumption == NoOne \notin Account
ASSUME GenesisAssumption ==
    \A gs \in Genesis : gs.tasks \in Seq(Task) /\ gs.nextTaskId \in Nat
ASSUME PayloadAssumption == Payload \subseteq Seq(Msg)
ASSUME IdAssumption      == IdSpace \in Nat \ {0} /\ MaxId \in Nat

VARIABLES
    store,      \* the module's store: [tasks |-> id -> task, next |-> next id]
    cache,      \* the running transaction's copy of it
    todo,       \* messages of the running transaction still to execute
    signers,    \* accounts that signed the last transaction
    code        \* its outcome

vars == <<store, cache, todo, signers, code>>

-----------------------------------------------------------------------------
(* Genesis.                                                                 *)

DefaultGenesis == [tasks |-> <<>>, nextTaskId |-> 1]

\* GenesisState.Validate rejects duplicate ids, and looks at nothing else.
Validate(gs) ==
    \A i, j \in DOMAIN gs.tasks : gs.tasks[i].id = gs.tasks[j].id => i = j

SetAll(tasks) ==
    [id \in {tasks[i].id : i \in DOMAIN tasks} |->
        tasks[CHOOSE i \in DOMAIN tasks :
                /\ tasks[i].id = id
                /\ \A j \in DOMAIN tasks : tasks[j].id = id => j <= i]]

InitGenesis(gs) == [tasks |-> SetAll(gs.tasks), next |-> gs.nextTaskId]

-----------------------------------------------------------------------------
(* Messages.                                                                *)

\* Mutant: the signer's address is not checked.
ValidateNoSigner(m) ==
    /\ m.type = "CreateTask" => m.title # NoTitle
    /\ m.type = "AssignTask" => m.assignee \in Account

\* Mutant: the assignee's address is not checked.
ValidateNoAssignee(m) ==
    /\ m.signer \in Account
    /\ m.type = "CreateTask" => m.title # NoTitle

ValidateBasic(m) ==
    /\ m.signer \in Account
    /\ m.type = "CreateTask" => m.title # NoTitle
    /\ m.type = "AssignTask" => m.assignee \in Account

SetTask(tasks, task) ==
    [id \in DOMAIN tasks \cup {task.id} |-> IF id = task.id THEN task ELSE tasks[id]]

Found(id) == id \in DOMAIN cache.tasks

\* Mutant: a task may be assigned again.
AssignAnyStatus(m) ==
    IF ~Found(m.id) THEN "ErrTaskNotFound"
    ELSE IF cache.tasks[m.id].creator # m.signer THEN "ErrUnauthorized" ELSE "ok"

\* The handlers' checks, in the order the code makes them.
AssignOutcome(m) ==
    IF ~Found(m.id) THEN "ErrTaskNotFound"
    ELSE IF cache.tasks[m.id].creator # m.signer THEN "ErrUnauthorized"
    ELSE IF cache.tasks[m.id].status # "OPEN" THEN "ErrInvalidStatus" ELSE "ok"

\* Mutant: anybody may complete an assigned task.
CompleteByAnyone(m) ==
    IF ~Found(m.id) THEN "ErrTaskNotFound"
    ELSE IF cache.tasks[m.id].status # "ASSIGNED" THEN "ErrInvalidStatus" ELSE "ok"

CompleteOutcome(m) ==
    IF ~Found(m.id) THEN "ErrTaskNotFound"
    ELSE IF cache.tasks[m.id].assignee # m.signer THEN "ErrUnauthorized"
    ELSE IF cache.tasks[m.id].status # "ASSIGNED" THEN "ErrInvalidStatus" ELSE "ok"

Next1(id) == (id + 1) % IdSpace

-----------------------------------------------------------------------------
(* Actions.                                                                 *)

\* Only creations use up ids, so only they are bounded.
HasCreate(msgs) == \E i \in DOMAIN msgs : msgs[i].type = "CreateTask"

Idle == todo = <<>> /\ code # "running"

\* The ante handler checks every message and the signatures of their signers
\* before any message runs.
BeginTx(msgs) ==
    /\ Idle
    /\ \A i \in DOMAIN msgs : ValidateBasic(msgs[i])
    /\ HasCreate(msgs) => store.next + Len(msgs) < MaxId
    /\ cache' = store
    /\ todo' = msgs
    /\ signers' = {msgs[i].signer : i \in DOMAIN msgs}
    /\ code' = "running"
    /\ UNCHANGED store

\* Mutant: the next id is not advanced.
CreateSameId ==
    /\ todo # <<>> /\ Head(todo).type = "CreateTask"
    /\ LET m    == Head(todo)
           task == [id |-> cache.next, title |-> m.title, creator |-> m.signer,
                    assignee |-> NoOne, status |-> "OPEN"]
       IN  cache' = [tasks |-> SetTask(cache.tasks, task), next |-> cache.next]
    /\ todo' = Tail(todo)
    /\ UNCHANGED <<store, signers, code>>

CreateTask ==
    /\ todo # <<>> /\ Head(todo).type = "CreateTask"
    /\ LET m    == Head(todo)
           task == [id |-> cache.next, title |-> m.title, creator |-> m.signer,
                    assignee |-> NoOne, status |-> "OPEN"]
       IN  cache' = [tasks |-> SetTask(cache.tasks, task), next |-> Next1(cache.next)]
    /\ todo' = Tail(todo)
    /\ UNCHANGED <<store, signers, code>>

AssignTask ==
    /\ todo # <<>> /\ Head(todo).type = "AssignTask"
    /\ LET m == Head(todo)
       IN  /\ AssignOutcome(m) = "ok"
           /\ LET task == [cache.tasks[m.id] EXCEPT !.assignee = m.assignee,
                                                    !.status = "ASSIGNED"]
              IN  cache' = [tasks |-> SetTask(cache.tasks, task), next |-> cache.next]
    /\ todo' = Tail(todo)
    /\ UNCHANGED <<store, signers, code>>

CompleteTask ==
    /\ todo # <<>> /\ Head(todo).type = "CompleteTask"
    /\ LET m == Head(todo)
       IN  /\ CompleteOutcome(m) = "ok"
           /\ LET task == [cache.tasks[m.id] EXCEPT !.status = "COMPLETED"]
              IN  cache' = [tasks |-> SetTask(cache.tasks, task), next |-> cache.next]
    /\ todo' = Tail(todo)
    /\ UNCHANGED <<store, signers, code>>

\* A handler returned an error: the copy is dropped with the rest of the messages.
AbortTx ==
    /\ todo # <<>>
    /\ LET m == Head(todo)
       IN  code' = CASE m.type = "AssignTask"   -> AssignOutcome(m)
                     [] m.type = "CompleteTask" -> CompleteOutcome(m)
                     [] OTHER                   -> "ok"
    /\ code' # "ok"
    /\ cache' = store
    /\ todo' = <<>>
    /\ UNCHANGED <<store, signers>>

EndTx ==
    /\ todo = <<>> /\ code = "running"
    /\ store' = cache
    /\ code' = "ok"
    /\ UNCHANGED <<cache, todo, signers>>

Init ==
    /\ \E gs \in Genesis : Validate(gs) /\ store = InitGenesis(gs)
    /\ cache = store
    /\ todo = <<>>
    /\ signers = {}
    /\ code = "ok"

Next ==
    \/ \E msgs \in Payload : BeginTx(msgs)
    \/ CreateTask
    \/ AssignTask
    \/ CompleteTask
    \/ AbortTx
    \/ EndTx

Spec == Init /\ [][Next]_vars

-----------------------------------------------------------------------------
(* Properties.                                                              *)

IsRegistry(reg) ==
    /\ reg.next \in Nat
    /\ DOMAIN reg.tasks \subseteq Nat
    /\ \A id \in DOMAIN reg.tasks : reg.tasks[id] \in Task

\* Every variable has its type.
TypeOK ==
    /\ IsRegistry(store) /\ IsRegistry(cache)
    /\ todo \in Seq(Msg) /\ \A i \in DOMAIN todo : ValidateBasic(todo[i])
    /\ signers \subseteq Account
    /\ code \in {"running", "ok", "ErrTaskNotFound", "ErrUnauthorized", "ErrInvalidStatus"}

IdsFreshIn(reg) ==
    \A id \in DOMAIN reg.tasks : id < reg.next /\ reg.tasks[id].id = id

\* GetNextTaskID always hands out an id no task has, after any mix of committed
\* and rolled back transactions, and every task is stored under its own id.
IdsFresh == IdsFreshIn(store) /\ IdsFreshIn(cache)

AssigneeMatchesStatusIn(reg) ==
    \A id \in DOMAIN reg.tasks :
        reg.tasks[id].status = "OPEN" <=> reg.tasks[id].assignee = NoOne

\* Exactly the tasks that left OPEN have an assignee, so a task that was assigned
\* can be completed by somebody.
AssigneeMatchesStatus == AssigneeMatchesStatusIn(store)

Rank(status) == CASE status = "OPEN" -> 0 [] status = "ASSIGNED" -> 1 [] OTHER -> 2

Keeps(old, new) ==
    /\ new.creator = old.creator
    /\ new.title = old.title
    /\ Rank(old.status) <= Rank(new.status)
    /\ old.status # "OPEN" => new.assignee = old.assignee

OnlyForwardFrom(old, new) ==
    \A id \in DOMAIN old.tasks :
        id \in DOMAIN new.tasks /\ Keeps(old.tasks[id], new.tasks[id])

\* Whatever a transaction does, no task disappears, changes its creator, goes back
\* in its life cycle or is given to somebody else once assigned.
OnlyForward == [][OnlyForwardFrom(store, store')]_vars

RankIn(reg, id) == IF id \in DOMAIN reg.tasks THEN Rank(reg.tasks[id].status) ELSE -1

AuthorizedBy(old, new, who) ==
    \A id \in DOMAIN new.tasks :
        /\ RankIn(old, id) < 0 => new.tasks[id].creator \in who
        /\ RankIn(old, id) < 1 /\ RankIn(new, id) >= 1 => new.tasks[id].creator \in who
        /\ RankIn(old, id) < 2 /\ RankIn(new, id) = 2 => new.tasks[id].assignee \in who

\* A transaction moves a task only with the signature of the account entitled to
\* each transition it makes, also when one transaction makes several of them.
Authorized == [][AuthorizedBy(store, store', signers)]_vars

-----------------------------------------------------------------------------
(* Genesis states with which the registry works.  Validate does not demand   *)
(* any of this.                                                             *)

SoundGenesis ==
    \A gs \in Genesis : \A i \in DOMAIN gs.tasks :
        /\ gs.tasks[i].id < gs.nextTaskId
        /\ gs.tasks[i].status = "OPEN" <=> gs.tasks[i].assignee = NoOne
=============================================================================
