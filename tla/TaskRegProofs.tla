--------------------------- MODULE TaskRegProofs ---------------------------
(***************************************************************************)
(* Types, fresh ids, life cycle and authorization of the task registry,    *)
(* its export and its pages, for every set of accounts, payloads and       *)
(* genesis states.                                                         *)
(***************************************************************************)
EXTENDS TaskRegQuery, NatOrder, TLAPS
LOCAL INSTANCE SequencesExt

\* The hypotheses of the theorems: what Validate should have checked, and an id
\* space that does not run out.
Sound == SoundGenesis /\ MaxId <= IdSpace

-----------------------------------------------------------------------------
(* Genesis.                                                                 *)

\* Loading a genesis stores, under each id, one of the genesis tasks with that id.
LEMMA SetAllIs ==
    ASSUME NEW tasks \in Seq(Task), NEW id \in DOMAIN SetAll(tasks)
    PROVE  \E i \in DOMAIN tasks : tasks[i].id = id /\ SetAll(tasks)[id] = tasks[i]
<1> DEFINE T == {i \in DOMAIN tasks : tasks[i].id = id}
           P(i) == tasks[i].id = id /\ \A j \in DOMAIN tasks : tasks[j].id = id => j <= i
<1>1. T \subseteq 0 .. Len(tasks) /\ T # {} /\ Len(tasks) \in Nat
    BY DEF SetAll
<1>2. \E x \in T : \A y \in T : y <= x
    <2> HIDE DEF T
    <2> QED BY <1>1, NatMax
<1>3. \E i \in DOMAIN tasks : P(i)
    BY <1>2
<1>4. PICK i \in DOMAIN tasks : P(i) /\ i = CHOOSE j \in DOMAIN tasks : P(j)
    <2> HIDE DEF P
    <2> QED BY <1>3, Zenon
<1>5. SetAll(tasks)[id] = tasks[i]
    BY <1>4 DEF SetAll
<1> QED BY <1>4, <1>5

\* A genesis state loads into a well-formed registry.
LEMMA InitGenesisType ==
    ASSUME NEW gs \in Genesis
    PROVE  IsRegistry(InitGenesis(gs))
<1>1. gs.tasks \in Seq(Task) /\ gs.nextTaskId \in Nat
    BY GenesisAssumption
<1>2. \A id \in DOMAIN SetAll(gs.tasks) : SetAll(gs.tasks)[id] \in Task /\ id \in Nat
    <2> TAKE id \in DOMAIN SetAll(gs.tasks)
    <2>1. PICK i \in DOMAIN gs.tasks : gs.tasks[i].id = id /\ SetAll(gs.tasks)[id] = gs.tasks[i]
        BY <1>1, SetAllIs
    <2>2. gs.tasks[i] \in Task
        BY <1>1
    <2> QED BY <2>1, <2>2 DEF Task
<1> QED BY <1>1, <1>2 DEF IsRegistry, InitGenesis

-----------------------------------------------------------------------------
(* Types.                                                                   *)

\* Storing a task keeps a registry well formed.
LEMMA SetTaskType ==
    ASSUME NEW reg, IsRegistry(reg), NEW task \in Task, NEW n \in Nat
    PROVE  IsRegistry([tasks |-> SetTask(reg.tasks, task), next |-> n])
  BY DEF IsRegistry, SetTask, Task

\* TypeOK holds after any genesis.
LEMMA TypeInit == Init => TypeOK
<1> SUFFICES ASSUME Init PROVE TypeOK
    OBVIOUS
<1>1. IsRegistry(store) /\ IsRegistry(cache)
    BY InitGenesisType DEF Init
<1> QED BY <1>1 DEF Init, TypeOK

\* The fields of a message that passed ValidateBasic.
LEMMA MsgFields ==
    ASSUME NEW m \in Msg, ValidateBasic(m)
    PROVE  /\ m.signer \in Account
           /\ m.type = "CreateTask" => m.title \in Title
           /\ m.type = "AssignTask" => m.id \in Nat /\ m.assignee \in Account
           /\ m.type = "CompleteTask" => m.id \in Nat
  BY DEF Msg, ValidateBasic

\* Taking the first message off a transaction leaves a transaction.
LEMMA TodoStep ==
    ASSUME TypeOK, todo # <<>>
    PROVE  /\ Head(todo) \in Msg /\ ValidateBasic(Head(todo)) /\ Head(todo) = todo[1]
           /\ Tail(todo) \in Seq(Msg) /\ Len(Tail(todo)) = Len(todo) - 1
           /\ \A i \in DOMAIN Tail(todo) : i + 1 \in DOMAIN todo /\ Tail(todo)[i] = todo[i + 1]
           /\ Len(todo) \in Nat \ {0} /\ 1 \in DOMAIN todo
<1>1. todo \in Seq(Msg) /\ \A i \in DOMAIN todo : ValidateBasic(todo[i])
    BY DEF TypeOK
<1>2. Head(todo) = todo[1] /\ 1 \in DOMAIN todo /\ Len(todo) \in Nat \ {0}
    BY <1>1
<1> QED BY <1>1, <1>2

\* What CreateTask stores is a task.
LEMMA CreatedTask ==
    ASSUME TypeOK, CreateTask
    PROVE  [id |-> cache.next, title |-> Head(todo).title, creator |-> Head(todo).signer,
            assignee |-> NoOne, status |-> "OPEN"] \in Task
<1>1. Head(todo).type = "CreateTask" /\ todo # <<>>
    BY DEF CreateTask
<1>2. Head(todo).signer \in Account /\ Head(todo).title \in Title
    BY <1>1, TodoStep, MsgFields
<1>3. cache.next \in Nat
    BY DEF TypeOK, IsRegistry
<1> QED BY <1>2, <1>3 DEF Task, Statuses

\* What AssignTask stores is a task that existed before.
LEMMA AssignedTask ==
    ASSUME TypeOK, AssignTask
    PROVE  /\ Found(Head(todo).id)
           /\ [cache.tasks[Head(todo).id] EXCEPT !.assignee = Head(todo).assignee,
                                                 !.status = "ASSIGNED"] \in Task
<1>1. Head(todo).type = "AssignTask" /\ AssignOutcome(Head(todo)) = "ok" /\ todo # <<>>
    BY DEF AssignTask
<1>2. Found(Head(todo).id)
    BY <1>1 DEF AssignOutcome
<1>3. cache.tasks[Head(todo).id] \in Task
    BY <1>2 DEF Found, TypeOK, IsRegistry
<1>4. Head(todo).assignee \in Account
    BY <1>1, TodoStep, MsgFields
<1>5. ASSUME NEW task \in Task, NEW a \in Account
      PROVE  [task EXCEPT !.assignee = a, !.status = "ASSIGNED"] \in Task
    BY DEF Task, Statuses
<1> QED BY <1>2, <1>3, <1>4, <1>5

\* What CompleteTask stores is a task that existed before.
LEMMA CompletedTask ==
    ASSUME TypeOK, CompleteTask
    PROVE  /\ Found(Head(todo).id)
           /\ [cache.tasks[Head(todo).id] EXCEPT !.status = "COMPLETED"] \in Task
<1>1. CompleteOutcome(Head(todo)) = "ok"
    BY DEF CompleteTask
<1>2. Found(Head(todo).id)
    BY <1>1 DEF CompleteOutcome
<1>3. cache.tasks[Head(todo).id] \in Task
    BY <1>2 DEF Found, TypeOK, IsRegistry
<1>4. ASSUME NEW task \in Task
      PROVE  [task EXCEPT !.status = "COMPLETED"] \in Task
    BY DEF Task, Statuses
<1> QED BY <1>2, <1>3, <1>4

\* Every action keeps TypeOK.
LEMMA TypeStep == TypeOK /\ [Next]_vars => TypeOK'
<1> SUFFICES ASSUME TypeOK, [Next]_vars PROVE TypeOK'
    OBVIOUS
<1>t. todo # <<>> => Tail(todo) \in Seq(Msg) /\ \A i \in DOMAIN Tail(todo) : ValidateBasic(Tail(todo)[i])
    BY TodoStep DEF TypeOK
<1>1. ASSUME NEW msgs \in Payload, BeginTx(msgs) PROVE TypeOK'
    BY <1>1, PayloadAssumption DEF BeginTx, TypeOK, ValidateBasic
<1>2. CASE CreateTask
    <2>1. Next1(cache.next) \in Nat
        BY IdAssumption DEF TypeOK, IsRegistry, Next1
    <2>2. IsRegistry(cache')
        BY <1>2, <2>1, CreatedTask, SetTaskType DEF CreateTask, TypeOK
    <2> QED BY <1>2, <1>t, <2>2 DEF CreateTask, TypeOK
<1>3. CASE AssignTask
    <2>1. IsRegistry(cache')
        BY <1>3, AssignedTask, SetTaskType DEF AssignTask, TypeOK, IsRegistry
    <2> QED BY <1>3, <1>t, <2>1 DEF AssignTask, TypeOK
<1>4. CASE CompleteTask
    <2>1. IsRegistry(cache')
        BY <1>4, CompletedTask, SetTaskType DEF CompleteTask, TypeOK, IsRegistry
    <2> QED BY <1>4, <1>t, <2>1 DEF CompleteTask, TypeOK
<1>5. CASE AbortTx
    <2>1. code' \in {"ok", "ErrTaskNotFound", "ErrUnauthorized", "ErrInvalidStatus"}
        BY <1>5 DEF AbortTx, AssignOutcome, CompleteOutcome
    <2> QED BY <1>5, <2>1 DEF AbortTx, TypeOK
<1>6. CASE EndTx
    BY <1>6 DEF EndTx, TypeOK
<1>7. CASE UNCHANGED vars
    BY <1>7 DEF vars, TypeOK
<1> QED BY <1>1, <1>2, <1>3, <1>4, <1>5, <1>6, <1>7 DEF Next

\* TypeOK is an invariant, whatever the genesis states and the payloads are.
THEOREM TypeCorrect == Spec => []TypeOK
  BY TypeInit, TypeStep, PTL DEF Spec

-----------------------------------------------------------------------------
(* What a running transaction may have done to its copy of the store.       *)

RegistryInv ==
    /\ IdsFresh
    /\ AssigneeMatchesStatusIn(store) /\ AssigneeMatchesStatusIn(cache)
    /\ OnlyForwardFrom(store, cache)
    /\ AuthorizedBy(store, cache, signers)
    /\ \A i \in DOMAIN todo : todo[i].signer \in signers
    /\ HasCreate(todo) => cache.next + Len(todo) < MaxId

\* A registry that does not change breaks neither action property.
LEMMA Unmoved ==
    ASSUME NEW reg, NEW who
    PROVE  OnlyForwardFrom(reg, reg) /\ AuthorizedBy(reg, reg, who)
<1>1. \A status : Rank(status) \in 0 .. 2
    BY DEF Rank
<1> QED BY <1>1 DEF OnlyForwardFrom, Keeps, AuthorizedBy, RankIn

\* The invariant holds after a sound genesis.
LEMMA RegistryInit ==
    ASSUME Sound, Init
    PROVE  RegistryInv
<1>1. PICK gs \in Genesis : store = InitGenesis(gs)
    BY DEF Init
<1>2. gs.tasks \in Seq(Task) /\ gs.nextTaskId \in Nat
    BY GenesisAssumption
<1>3. store.tasks = SetAll(gs.tasks) /\ store.next = gs.nextTaskId
    BY <1>1 DEF InitGenesis
<1>4. ASSUME NEW id \in DOMAIN store.tasks
      PROVE  /\ id < store.next /\ store.tasks[id].id = id
             /\ store.tasks[id].status = "OPEN" <=> store.tasks[id].assignee = NoOne
    <2>1. PICK i \in DOMAIN gs.tasks : gs.tasks[i].id = id /\ store.tasks[id] = gs.tasks[i]
        BY <1>2, <1>3, SetAllIs
    <2> QED BY <1>3, <2>1 DEF Sound, SoundGenesis
<1>5. cache = store /\ todo = <<>>
    BY DEF Init
<1>6. OnlyForwardFrom(store, cache) /\ AuthorizedBy(store, cache, signers)
    BY <1>5, Unmoved
<1> QED BY <1>4, <1>5, <1>6 DEF RegistryInv, IdsFresh, IdsFreshIn, AssigneeMatchesStatusIn, HasCreate

\* Every message keeps the invariant, and so do roll-back and write-back.
LEMMA RegistryStep ==
    ASSUME Sound, TypeOK, RegistryInv, [Next]_vars
    PROVE  RegistryInv'
<1> USE DEF RegistryInv, IdsFresh
<1>r. Rank("OPEN") = 0 /\ Rank("ASSIGNED") = 1 /\ Rank("COMPLETED") = 2
    BY DEF Rank
\* What executing the first message does to the conditions on the others.
<1>t. ASSUME todo # <<>>, todo' = Tail(todo), UNCHANGED signers,
             cache'.next \in Int, cache'.next <= cache.next + 1,
             cache'.next # cache.next => HasCreate(todo)
      PROVE  /\ \A i \in DOMAIN todo' : todo'[i].signer \in signers'
             /\ HasCreate(todo') => cache'.next + Len(todo') < MaxId
    <2>1. HasCreate(todo') => HasCreate(todo)
        BY <1>t, TodoStep DEF HasCreate
    <2>2. cache.next \in Nat /\ MaxId \in Nat
        BY IdAssumption DEF TypeOK, IsRegistry
    <2>3. Len(todo') = Len(todo) - 1 /\ Len(todo) \in Nat
        BY <1>t, TodoStep
    <2>4. HasCreate(todo') => cache'.next + Len(todo') < MaxId
        BY <1>t, <2>1, <2>2, <2>3
    <2>5. \A i \in DOMAIN todo' : todo'[i].signer \in signers'
        BY <1>t, TodoStep
    <2> QED BY <2>4, <2>5
<1>1. ASSUME NEW msgs \in Payload, BeginTx(msgs) PROVE RegistryInv'
    BY <1>1, Unmoved DEF BeginTx
<1>2. CASE CreateTask
    <2> DEFINE m    == Head(todo)
               task == [id |-> cache.next, title |-> m.title, creator |-> m.signer,
                        assignee |-> NoOne, status |-> "OPEN"]
    <2>1. /\ todo # <<>> /\ m.type = "CreateTask" /\ todo' = Tail(todo)
          /\ UNCHANGED <<store, signers>>
          /\ cache'.tasks = SetTask(cache.tasks, task) /\ cache'.next = Next1(cache.next)
        BY <1>2 DEF CreateTask
    <2>2. HasCreate(todo) /\ m.signer \in signers /\ m.signer \in Account
        BY <2>1, TodoStep, MsgFields DEF HasCreate
    <2>3. cache.next \in Nat /\ cache'.next = cache.next + 1
        <3>1. cache.next \in Nat /\ cache.next + 1 < IdSpace /\ IdSpace \in Nat
            BY <2>1, <2>2, TodoStep, IdAssumption DEF TypeOK, IsRegistry, Sound
        <3>2. (cache.next + 1) % IdSpace = cache.next + 1
            BY <3>1, ModSmall
        <3> QED BY <2>1, <3>1, <3>2 DEF Next1
    <2>4. /\ DOMAIN cache'.tasks = DOMAIN cache.tasks \cup {cache.next}
          /\ cache'.tasks[cache.next] = task
          /\ \A id \in DOMAIN cache.tasks : id # cache.next => cache'.tasks[id] = cache.tasks[id]
        BY <2>1 DEF SetTask
    <2>5. cache.next \notin DOMAIN cache.tasks /\ cache.next \notin DOMAIN store.tasks
        BY <2>3 DEF IdsFreshIn, OnlyForwardFrom
    <2>6. /\ task.id = cache.next /\ task.creator = m.signer /\ task.status = "OPEN"
          /\ task.assignee = NoOne
        OBVIOUS
    <2> HIDE DEF task, m
    <2>7. IdsFreshIn(cache')
        <3>1. \A id \in DOMAIN cache.tasks : id \in Nat
            BY DEF TypeOK, IsRegistry
        <3> QED BY <2>3, <2>4, <2>5, <2>6, <3>1 DEF IdsFreshIn
    <2>8. AssigneeMatchesStatusIn(cache')
        BY <2>4, <2>5, <2>6 DEF AssigneeMatchesStatusIn
    <2>9. OnlyForwardFrom(store, cache')
        BY <2>4, <2>5 DEF OnlyForwardFrom
    <2>10. AuthorizedBy(store, cache', signers)
        BY <1>r, <2>2, <2>4, <2>5, <2>6 DEF AuthorizedBy, RankIn
    <2> QED BY <1>t, <2>1, <2>2, <2>3, <2>7, <2>8, <2>9, <2>10
<1>3. CASE AssignTask
    <2> DEFINE m    == Head(todo)
               old  == cache.tasks[m.id]
               task == [old EXCEPT !.assignee = m.assignee, !.status = "ASSIGNED"]
    <2>1. /\ todo # <<>> /\ m.type = "AssignTask" /\ todo' = Tail(todo)
          /\ UNCHANGED <<store, signers>> /\ AssignOutcome(m) = "ok"
          /\ cache'.tasks = SetTask(cache.tasks, task) /\ cache'.next = cache.next
        BY <1>3 DEF AssignTask
    <2>2. m.id \in DOMAIN cache.tasks /\ old.creator = m.signer /\ old.status = "OPEN"
        BY <2>1 DEF AssignOutcome, Found
    <2>3. m.signer \in signers /\ m.assignee \in Account /\ m.assignee # NoOne
        BY <2>1, TodoStep, MsgFields, AddressAssumption
    <2>4. old \in Task /\ old.id = m.id
        BY <2>2 DEF TypeOK, IsRegistry, IdsFreshIn
    <2>5. /\ task.id = m.id /\ task.creator = m.signer /\ task.title = old.title
          /\ task.assignee = m.assignee /\ task.status = "ASSIGNED"
        BY <2>2, <2>4 DEF Task
    <2>6. cache.next \in Nat
        BY DEF TypeOK, IsRegistry
    <2> HIDE DEF task, old, m
    <2>7. /\ DOMAIN cache'.tasks = DOMAIN cache.tasks
          /\ cache'.tasks[m.id] = task
          /\ \A id \in DOMAIN cache.tasks : id # m.id => cache'.tasks[id] = cache.tasks[id]
        BY <2>1, <2>2, <2>5 DEF SetTask
    <2>8. IdsFreshIn(cache')
        BY <2>1, <2>5, <2>7 DEF IdsFreshIn
    <2>9. AssigneeMatchesStatusIn(cache')
        BY <2>3, <2>5, <2>7 DEF AssigneeMatchesStatusIn
    <2>10. OnlyForwardFrom(store, cache')
        <3>1. ASSUME NEW id \in DOMAIN store.tasks, id = m.id
              PROVE  Keeps(store.tasks[id], task)
            <4>1. Keeps(store.tasks[id], old)
                BY <3>1 DEF OnlyForwardFrom, old
            <4>2. store.tasks[id].status = "OPEN"
                <5>1. store.tasks[id].status \in Statuses
                    BY <3>1 DEF TypeOK, IsRegistry, Task
                <5> QED BY <1>r, <2>2, <4>1, <5>1 DEF Keeps, Statuses
            <4> QED BY <1>r, <2>2, <2>5, <4>1, <4>2 DEF Keeps
        <3> QED BY <2>7, <3>1 DEF OnlyForwardFrom
    <2>11. AuthorizedBy(store, cache', signers)
        BY <1>r, <2>2, <2>3, <2>5, <2>7 DEF AuthorizedBy, RankIn
    <2> QED BY <1>t, <2>1, <2>6, <2>8, <2>9, <2>10, <2>11
<1>4. CASE CompleteTask
    <2> DEFINE m    == Head(todo)
               old  == cache.tasks[m.id]
               task == [old EXCEPT !.status = "COMPLETED"]
    <2>1. /\ todo # <<>> /\ m.type = "CompleteTask" /\ todo' = Tail(todo)
          /\ UNCHANGED <<store, signers>> /\ CompleteOutcome(m) = "ok"
          /\ cache'.tasks = SetTask(cache.tasks, task) /\ cache'.next = cache.next
        BY <1>4 DEF CompleteTask
    <2>2. m.id \in DOMAIN cache.tasks /\ old.assignee = m.signer /\ old.status = "ASSIGNED"
        BY <2>1 DEF CompleteOutcome, Found
    <2>3. m.signer \in signers
        BY <2>1, TodoStep
    <2>4. old \in Task /\ old.id = m.id /\ old.assignee # NoOne
        BY <2>2 DEF TypeOK, IsRegistry, IdsFreshIn, AssigneeMatchesStatusIn
    <2>5. /\ task.id = m.id /\ task.creator = old.creator /\ task.title = old.title
          /\ task.assignee = old.assignee /\ task.status = "COMPLETED"
        BY <2>2, <2>4 DEF Task
    <2>6. cache.next \in Nat
        BY DEF TypeOK, IsRegistry
    <2>7. RankIn(store, m.id) < 1 => old.creator \in signers
        BY <1>r, <2>2 DEF AuthorizedBy, RankIn
    <2>8. RankIn(store, m.id) < 0 => old.creator \in signers
        BY <2>2 DEF AuthorizedBy
    <2> HIDE DEF task, old, m
    <2>9. /\ DOMAIN cache'.tasks = DOMAIN cache.tasks
          /\ cache'.tasks[m.id] = task
          /\ \A id \in DOMAIN cache.tasks : id # m.id => cache'.tasks[id] = cache.tasks[id]
        BY <2>1, <2>2, <2>5 DEF SetTask
    <2>10. IdsFreshIn(cache')
        BY <2>1, <2>5, <2>9 DEF IdsFreshIn
    <2>11. AssigneeMatchesStatusIn(cache')
        BY <2>4, <2>5, <2>9 DEF AssigneeMatchesStatusIn
    <2>12. OnlyForwardFrom(store, cache')
        <3>1. ASSUME NEW id \in DOMAIN store.tasks, id = m.id
              PROVE  Keeps(store.tasks[id], task)
            <4>1. Keeps(store.tasks[id], old)
                BY <3>1 DEF OnlyForwardFrom, old
            <4> QED BY <1>r, <2>2, <2>5, <4>1 DEF Keeps, Rank
        <3> QED BY <2>9, <3>1 DEF OnlyForwardFrom
    <2>13. AuthorizedBy(store, cache', signers)
        <3>1. ASSUME NEW id \in DOMAIN cache.tasks, id # m.id
              PROVE  RankIn(cache', id) = RankIn(cache, id)
            BY <2>9, <3>1 DEF RankIn
        <3> QED BY <2>2, <2>3, <2>5, <2>7, <2>8, <2>9, <3>1 DEF AuthorizedBy
    <2> QED BY <1>t, <2>1, <2>6, <2>10, <2>11, <2>12, <2>13
<1>5. CASE AbortTx
    BY <1>5, Unmoved DEF AbortTx, HasCreate
<1>6. CASE EndTx
    BY <1>6, Unmoved DEF EndTx, HasCreate
<1>7. CASE UNCHANGED vars
    BY <1>7 DEF vars, AssigneeMatchesStatus
<1> QED BY <1>1, <1>2, <1>3, <1>4, <1>5, <1>6, <1>7 DEF Next

\* The invariant holds throughout.
LEMMA RegistryInvariant ==
    ASSUME Sound
    PROVE  Spec => []RegistryInv
<1>1. Init => RegistryInv
    BY RegistryInit
<1>2. TypeOK /\ RegistryInv /\ [Next]_vars => RegistryInv'
    BY RegistryStep
<1> QED BY <1>1, <1>2, TypeCorrect, PTL DEF Spec

\* From a genesis whose next id is above every task's id, CreateTask never hands
\* out an id twice, over any number of transactions and roll-backs.
THEOREM IdsAlwaysFresh ==
    ASSUME Sound
    PROVE  Spec => []IdsFresh
<1>1. RegistryInv => IdsFresh
    BY DEF RegistryInv
<1> QED BY <1>1, RegistryInvariant, PTL

\* Exactly the tasks that left OPEN have an assignee.
THEOREM AssigneesMatch ==
    ASSUME Sound
    PROVE  Spec => []AssigneeMatchesStatus
<1>1. RegistryInv => AssigneeMatchesStatus
    BY DEF RegistryInv, AssigneeMatchesStatus
<1> QED BY <1>1, RegistryInvariant, PTL

\* The store changes only when a finished copy, vetted by the invariant, replaces it.
LEMMA StoreStep ==
    ASSUME RegistryInv, [Next]_vars
    PROVE  OnlyForwardFrom(store, store') /\ AuthorizedBy(store, store', signers)
<1>1. CASE EndTx
    BY <1>1 DEF EndTx, RegistryInv
<1>2. CASE UNCHANGED store
    BY <1>2, Unmoved
<1> QED BY <1>1, <1>2 DEF Next, BeginTx, CreateTask, AssignTask, CompleteTask, AbortTx, vars

\* No transaction removes a task, changes its creator, moves it back or reassigns it.
THEOREM LifeCycle ==
    ASSUME Sound
    PROVE  Spec => OnlyForward
<1>1. RegistryInv /\ [Next]_vars => [OnlyForwardFrom(store, store')]_vars
    BY StoreStep
<1> QED BY <1>1, RegistryInvariant, PTL DEF Spec, OnlyForward

\* Every transition of a task carries the signature of the account entitled to it.
THEOREM Authorization ==
    ASSUME Sound
    PROVE  Spec => Authorized
<1>1. RegistryInv /\ [Next]_vars => [AuthorizedBy(store, store', signers)]_vars
    BY StoreStep
<1> QED BY <1>1, RegistryInvariant, PTL DEF Spec, Authorized

-----------------------------------------------------------------------------
(* What the iterator finds.                                                 *)

\* A store holds finitely many tasks, each under its own id.
IsStore(reg) ==
    /\ reg = [tasks |-> reg.tasks, next |-> reg.next]
    /\ reg.tasks \in [DOMAIN reg.tasks -> Task]
    /\ IsFiniteSet(DOMAIN reg.tasks)
    /\ \A id \in DOMAIN reg.tasks : reg.tasks[id].id = id

StoreInv == IsStore(store) /\ IsStore(cache)

\* Any genesis loads into a store.
LEMMA GenesisStore ==
    ASSUME NEW gs \in Genesis
    PROVE  IsStore(InitGenesis(gs))
<1> DEFINE tasks == gs.tasks
           all   == SetAll(tasks)
<1>1. tasks \in Seq(Task)
    BY GenesisAssumption
<1>2. \A id \in DOMAIN all : all[id] \in Task /\ all[id].id = id
    <2> TAKE id \in DOMAIN all
    <2>1. PICK i \in DOMAIN tasks : tasks[i].id = id /\ all[id] = tasks[i]
        BY <1>1, SetAllIs
    <2> QED BY <1>1, <2>1
<1>3. IsFiniteSet(DOMAIN all)
    <2> DEFINE f == [i \in DOMAIN tasks |-> tasks[i].id]
    <2>1. DOMAIN all = {f[i] : i \in DOMAIN f}
        BY DEF SetAll
    <2>2. IsFiniteSet(DOMAIN f)
        BY <1>1, FS_Interval
    <2> HIDE DEF f, all
    <2> QED BY <2>1, <2>2, FiniteRange
<1>4. all = [id \in DOMAIN all |-> all[id]]
    BY DEF SetAll
<1> HIDE DEF all
<1>5. all \in [DOMAIN all -> Task]
    BY <1>2, <1>4
<1> QED BY <1>2, <1>3, <1>5 DEF IsStore, InitGenesis, all

\* Storing a task under its own id keeps a store.
LEMMA SetTaskStore ==
    ASSUME NEW reg, IsStore(reg), NEW task \in Task, NEW n
    PROVE  IsStore([tasks |-> SetTask(reg.tasks, task), next |-> n])
<1> DEFINE new == SetTask(reg.tasks, task)
<1>1. DOMAIN new = DOMAIN reg.tasks \cup {task.id}
    BY DEF SetTask
<1>2. IsFiniteSet(DOMAIN new)
    BY <1>1, FS_AddElement DEF IsStore
<1>3. new \in [DOMAIN new -> Task] /\ \A id \in DOMAIN new : new[id].id = id
    BY <1>1 DEF SetTask, IsStore
<1> HIDE DEF new
<1>4. IsStore([tasks |-> new, next |-> n])
    BY <1>2, <1>3 DEF IsStore
<1> QED BY <1>4 DEF new

\* Every step keeps both copies stores.
LEMMA StoreInvStep ==
    ASSUME TypeOK, StoreInv, [Next]_vars
    PROVE  StoreInv'
<1>1. CASE CreateTask
    <2> DEFINE task == [id |-> cache.next, title |-> Head(todo).title,
                        creator |-> Head(todo).signer, assignee |-> NoOne, status |-> "OPEN"]
    <2>1. task \in Task
        BY <1>1, CreatedTask
    <2>2. cache' = [tasks |-> SetTask(cache.tasks, task), next |-> Next1(cache.next)]
          /\ store' = store
        BY <1>1 DEF CreateTask
    <2> HIDE DEF task
    <2> QED BY <2>1, <2>2, SetTaskStore DEF StoreInv
<1>2. CASE AssignTask
    <2> DEFINE task == [cache.tasks[Head(todo).id] EXCEPT !.assignee = Head(todo).assignee,
                                                          !.status = "ASSIGNED"]
    <2>1. task \in Task
        BY <1>2, AssignedTask
    <2>2. cache' = [tasks |-> SetTask(cache.tasks, task), next |-> cache.next]
          /\ store' = store
        BY <1>2 DEF AssignTask
    <2> HIDE DEF task
    <2> QED BY <2>1, <2>2, SetTaskStore DEF StoreInv
<1>3. CASE CompleteTask
    <2> DEFINE task == [cache.tasks[Head(todo).id] EXCEPT !.status = "COMPLETED"]
    <2>1. task \in Task
        BY <1>3, CompletedTask
    <2>2. cache' = [tasks |-> SetTask(cache.tasks, task), next |-> cache.next]
          /\ store' = store
        BY <1>3 DEF CompleteTask
    <2> HIDE DEF task
    <2> QED BY <2>1, <2>2, SetTaskStore DEF StoreInv
<1>4. CASE store' \in {store, cache} /\ cache' \in {store, cache}
    BY <1>4 DEF StoreInv
<1> QED BY <1>1, <1>2, <1>3, <1>4 DEF Next, BeginTx, AbortTx, EndTx, vars

LEMMA StoreInvariant == Spec => []StoreInv
<1>1. Init => StoreInv
    BY GenesisStore DEF Init, StoreInv
<1> QED BY <1>1, StoreInvStep, TypeCorrect, PTL DEF Spec

\* The iterator returns every task once, by id.
LEMMA IterateIs ==
    ASSUME NEW reg, IsRegistry(reg), IsStore(reg)
    PROVE  /\ IterateTasks(reg) \in Seq(Task)
           /\ Len(IterateTasks(reg)) = Cardinality(DOMAIN reg.tasks)
           /\ \A i \in DOMAIN IterateTasks(reg) :
                  /\ IterateTasks(reg)[i].id \in DOMAIN reg.tasks
                  /\ IterateTasks(reg)[i] = reg.tasks[IterateTasks(reg)[i].id]
           /\ \A i, j \in DOMAIN IterateTasks(reg) :
                  IterateTasks(reg)[i].id = IterateTasks(reg)[j].id => i = j
           /\ \A id \in DOMAIN reg.tasks :
                  \E i \in DOMAIN IterateTasks(reg) : IterateTasks(reg)[i].id = id
<1> DEFINE S   == DOMAIN reg.tasks
           n   == Cardinality(S)
           ids == Ascending(S)
           all == IterateTasks(reg)
<1>1. S \subseteq Nat /\ IsFiniteSet(S)
    BY DEF IsRegistry, IsStore
<1>2. n \in Nat
    BY <1>1, AscendingLists
<1>3. ids \in [1 .. n -> S]
    BY <1>1, AscendingLists
<1>4. \A i, j \in 1 .. n : i < j => ids[i] < ids[j]
    BY <1>1, AscendingLists, Zenon
<1>5. \A x \in S : \E i \in 1 .. n : ids[i] = x
    BY <1>1, AscendingLists, Zenon
<1>6. all = [i \in 1 .. n |-> reg.tasks[ids[i]]]
    BY <1>3 DEF IterateTasks
<1>7. \A x \in S : reg.tasks[x] \in Task /\ reg.tasks[x].id = x
    BY DEF IsStore
<1> HIDE DEF S, n, ids, all
<1>8. \A i \in 1 .. n : ids[i] \in S /\ all[i] = reg.tasks[ids[i]] /\ all[i].id = ids[i]
    BY <1>3, <1>6, <1>7
<1>9. all \in [1 .. n -> Task]
    BY <1>6, <1>7, <1>8
<1>10. all \in Seq(Task) /\ Len(all) = n /\ DOMAIN all = 1 .. n
    BY <1>2, <1>9
<1>11. \A i, j \in 1 .. n : all[i].id = all[j].id => i = j
    <2> SUFFICES ASSUME NEW i \in 1 .. n, NEW j \in 1 .. n, i < j
                 PROVE  all[i].id # all[j].id
        BY <1>2
    <2>1. ids[i] < ids[j] /\ ids[i] \in Nat /\ ids[j] \in Nat
        BY <1>1, <1>4, <1>8
    <2> QED BY <1>8, <2>1
<1>12. \A id \in S : \E i \in 1 .. n : all[i].id = id
    BY <1>5, <1>8
<1>13. \A i \in 1 .. n : all[i].id \in S /\ all[i] = reg.tasks[all[i].id]
    BY <1>8
<1> QED BY <1>10, <1>11, <1>12, <1>13, Zenon DEF S, n, all

\* Loading what was exported.
LEMMA ExportLoads ==
    ASSUME NEW reg, IsRegistry(reg), IsStore(reg)
    PROVE  Validate(ExportGenesis(reg)) /\ InitGenesis(ExportGenesis(reg)) = reg
<1> DEFINE tasks == IterateTasks(reg)
           all   == SetAll(tasks)
<1>1. /\ tasks \in Seq(Task)
      /\ \A i \in DOMAIN tasks : /\ tasks[i].id \in DOMAIN reg.tasks
                                 /\ tasks[i] = reg.tasks[tasks[i].id]
      /\ \A i, j \in DOMAIN tasks : tasks[i].id = tasks[j].id => i = j
      /\ \A id \in DOMAIN reg.tasks : \E i \in DOMAIN tasks : tasks[i].id = id
    BY IterateIs
<1> HIDE DEF tasks
<1>2. DOMAIN all = DOMAIN reg.tasks
    BY <1>1 DEF SetAll
<1>3. \A id \in DOMAIN all : all[id] = reg.tasks[id]
    BY <1>1, SetAllIs
<1>4. all = [id \in DOMAIN all |-> all[id]]
    BY DEF SetAll
<1> HIDE DEF all
<1>5. reg.tasks = [id \in DOMAIN reg.tasks |-> reg.tasks[id]]
    BY DEF IsStore
<1>6. all = reg.tasks
    BY <1>2, <1>3, <1>4, <1>5
<1>7. InitGenesis(ExportGenesis(reg)) = [tasks |-> all, next |-> reg.next]
    BY DEF InitGenesis, ExportGenesis, tasks, all
<1>8. Validate(ExportGenesis(reg))
    BY <1>1 DEF Validate, ExportGenesis, tasks
<1> QED BY <1>6, <1>7, <1>8 DEF IsStore

\* From whatever genesis and after whatever transactions, a chain started from the
\* exported genesis has the registry it was exported from (genesis.go, ExportGenesis).
THEOREM ExportsLoad == Spec => []ExportRoundTrip
<1>1. TypeOK /\ StoreInv => ExportRoundTrip
    BY ExportLoads DEF TypeOK, StoreInv, ExportRoundTrip
<1> QED BY <1>1, TypeCorrect, StoreInvariant, PTL

-----------------------------------------------------------------------------
(* The pages.                                                               *)

Half == IntSpace \div 2

LEMMA HalfIs == Half \in Nat /\ IntSpace = 2 * Half
  BY IntAssumption DEF Half

\* While nothing reaches the negative half of int, a page is the part of the list that
\* its offset and limit name.
LEMMA PageIs ==
    ASSUME NEW reg, NEW offset \in Nat, NEW limit \in Nat \ {0}, offset + limit < Half,
           IterateTasks(reg) \in Seq(Task), Len(IterateTasks(reg)) < Half
    PROVE  ListTasks(reg, offset, limit) =
               SubSeq(IterateTasks(reg), Least(offset, Len(IterateTasks(reg))) + 1,
                      Least(offset + limit, Len(IterateTasks(reg))))
<1> DEFINE all == IterateTasks(reg)
           n   == Len(all)
           start == Least(offset, n)
           end == Least(start + limit, n)
<1>1. n \in Nat /\ Half \in Nat /\ IntSpace = 2 * Half
    BY HalfIs
<1>2. \A x \in Nat : x < Half => ToInt(x) = x
    BY DEF ToInt, Half
<1> HIDE DEF n, all
<1>3. ToInt(offset) = offset /\ ToInt(limit) = limit
    BY <1>1, <1>2
<1>4. start \in Nat /\ start <= offset /\ start <= n
    BY <1>1 DEF Least
<1>5. AddInt(start, ToInt(limit)) = start + limit
    <2>1. start + limit \in Nat /\ start + limit < Half /\ start + limit < IntSpace
        BY <1>1, <1>4
    <2>2. (start + limit) % IntSpace = start + limit
        BY <1>1, <2>1, ModSmall
    <2> HIDE DEF start
    <2> QED BY <1>2, <1>3, <2>1, <2>2 DEF AddInt
<1>6. start = IF offset > 0 THEN IF ToInt(offset) > n THEN n ELSE ToInt(offset) ELSE 0
    BY <1>1, <1>3 DEF Least
<1>7. end = IF limit > 0 THEN IF AddInt(start, ToInt(limit)) > n THEN n
                              ELSE AddInt(start, ToInt(limit))
            ELSE n
    <2> HIDE DEF start
    <2> QED BY <1>1, <1>4, <1>5 DEF Least
<1>8. start <= end /\ end = Least(offset + limit, n)
    BY <1>1, <1>4 DEF Least
<1> HIDE DEF start, end
<1>9. ListTasks(reg, offset, limit) =
          IF 0 <= start /\ start <= end THEN SubSeq(all, start + 1, end) ELSE Panics
    BY <1>6, <1>7, Zenon DEF ListTasks, all, n
<1>10. ListTasks(reg, offset, limit) = SubSeq(all, start + 1, Least(offset + limit, n))
    <2>1. 0 <= start
        BY <1>4
    <2> QED BY <1>8, <1>9, <2>1, Zenon
<1> QED BY <1>10 DEF start, n, all

\* The library's FlattenSeq joins its parts.
LEMMA FlattenIs ==
    ASSUME NEW parts, Len(parts) # 0
    PROVE  FlattenSeq(parts) = (CHOOSE F : Joins(F, parts))[Len(parts)]
  BY Zenon DEF FlattenSeq, Joins

\* Pages of any size, one after the other, are the list.
LEMMA PagesJoin ==
    ASSUME NEW reg, IterateTasks(reg) \in Seq(Task), NEW limit \in 1 .. Half,
           limit * Len(IterateTasks(reg)) < Half
    PROVE  FlattenSeq([n \in DOMAIN IterateTasks(reg) |->
                          ListTasks(reg, (n - 1) * limit, limit)]) = IterateTasks(reg)
<1> DEFINE all   == IterateTasks(reg)
           len   == Len(all)
           pages == [n \in DOMAIN all |-> ListTasks(reg, (n - 1) * limit, limit)]
           e     == [n \in 0 .. len |-> Least(n * limit, len)]
<1>1. /\ all \in Seq(Task) /\ len \in Nat /\ DOMAIN all = 1 .. len
      /\ Half \in Nat /\ limit \in Nat \ {0} /\ limit * len < Half
    BY HalfIs
<1>2. DOMAIN pages = 1 .. len /\ Len(pages) = len
    BY <1>1
<1>3. CASE len = 0
    <2>1. pages = <<>> /\ all = <<>>
        BY <1>1, <1>2, <1>3
    <2>2. FlattenSeq(pages) = pages
        BY <1>2, <1>3 DEF FlattenSeq
    <2> QED BY <2>1, <2>2
<1>4. CASE len # 0
    <2>1. \A n \in 0 .. len : n * limit \in Nat /\ n * limit <= limit * len
        <3> HIDE DEF len
        <3> QED BY <1>1
    <2>2. len <= len * limit /\ len < Half
        <3> HIDE DEF len
        <3>1. len <= len * limit
            BY <1>1
        <3>2. len * limit = limit * len
            BY <1>1
        <3>3. len * limit \in Nat
            BY <1>1
        <3> QED BY <1>1, <3>1, <3>2, <3>3
    <2>3. e \in [0 .. len -> 0 .. len] /\ e[0] = 0 /\ e[len] = len
        <3> HIDE DEF len
        <3>1. \A n \in 0 .. len : Least(n * limit, len) \in 0 .. len
            BY <1>1, <2>1 DEF Least
        <3>2. e[0] = 0
            BY <1>1 DEF Least
        <3>3. e[len] = len
            BY <1>1, <2>2 DEF Least
        <3> QED BY <3>1, <3>2, <3>3
    <2>4. ASSUME NEW n \in 1 .. len
          PROVE  e[n - 1] <= e[n] /\ pages[n] = SubSeq(all, e[n - 1] + 1, e[n])
        <3> DEFINE offset == (n - 1) * limit
        <3>1. n - 1 \in 0 .. len /\ n \in 0 .. len
            BY <1>1
        <3>2. offset \in Nat /\ offset + limit = n * limit
            <4> HIDE DEF len
            <4> QED BY <1>1
        <3>3. offset + limit < Half
            <4>1. n * limit <= limit * len /\ limit * len \in Nat
                BY <1>1, <2>1, <3>1
            <4> HIDE DEF offset, len
            <4> QED BY <1>1, <3>2, <4>1
        <3>4. e[n - 1] = Least(offset, len) /\ e[n] = Least(offset + limit, len)
            BY <3>1, <3>2
        <3>5. pages[n] = ListTasks(reg, offset, limit)
            BY <1>1
        <3> HIDE DEF offset, e, pages
        <3>6. ListTasks(reg, offset, limit) =
                  SubSeq(all, Least(offset, len) + 1, Least(offset + limit, len))
            BY <1>1, <2>2, <3>2, <3>3, PageIs
        <3>7. e[n - 1] <= e[n]
            <4> HIDE DEF len
            <4> QED BY <1>1, <3>2, <3>4 DEF Least
        <3> QED BY <3>4, <3>5, <3>6, <3>7
    <2> HIDE DEF e, pages, all
    <2>5. (CHOOSE F : Joins(F, pages))[len] = all
        BY <1>1, <1>2, <1>4, <2>3, <2>4, PartsJoin
    <2> QED BY <1>2, <1>4, <2>5, FlattenIs DEF pages, all
<1> QED BY <1>3, <1>4

\* What the API lists, and what it finds one by one.
LEMMA ListsAll ==
    ASSUME TypeOK, StoreInv
    PROVE  /\ apiListTasks = IterateTasks(store)
           /\ IterateTasks(store) \in Seq(Task)
           /\ Len(IterateTasks(store)) = Cardinality(DOMAIN store.tasks)
           /\ \A i \in DOMAIN apiListTasks : apiGetTask(apiListTasks[i].id) = apiListTasks[i]
<1> DEFINE all == IterateTasks(store)
<1>1. IsRegistry(store) /\ IsStore(store)
    BY DEF TypeOK, StoreInv
<1>2. /\ all \in Seq(Task) /\ Len(all) = Cardinality(DOMAIN store.tasks)
      /\ \A i \in DOMAIN all : /\ all[i].id \in DOMAIN store.tasks
                               /\ all[i] = store.tasks[all[i].id]
    BY <1>1, IterateIs
<1> HIDE DEF all
<1>3. Len(all) \in Nat /\ SubSeq(all, 1, Len(all)) = all
    BY <1>2, SubSeqFull
<1>4. apiListTasks = all
    BY <1>3 DEF apiListTasks, ListTasks, all
<1>5. \A i \in DOMAIN all : apiGetTask(all[i].id) = all[i]
    BY <1>2 DEF apiGetTask, QueryTask
<1> QED BY <1>2, <1>4, <1>5 DEF all

\* Whoever follows the pages of ListTasks, of whatever size, sees every task once and in
\* order (query_server.go, ListTasks), for every size of int; what the API lists is
\* complete and agrees with its answers for single tasks.
THEOREM PagesAlwaysCover == Spec => []PagesCoverTasks
<1>1. TypeOK /\ StoreInv => PagesCoverTasks
    BY ListsAll, PagesJoin DEF PagesCoverTasks, Half
<1> QED BY <1>1, TypeCorrect, StoreInvariant, PTL
=============================================================================
