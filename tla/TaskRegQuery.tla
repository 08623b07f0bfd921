--------------------------- MODULE TaskRegQuery ----------------------------
(***************************************************************************)
(* The registry's read side: the iteration over the store, the export of   *)
(* its genesis and the paginated listing.                                  *)
(***************************************************************************)
EXTENDS TaskReg, Iteration
LOCAL INSTANCE SequencesExt

CONSTANT IntSpace   \* 2^64: int(x) turns the upper half of it negative

ASSUME IntAssumption == IntSpace \in Nat /\ IntSpace % 2 = 0

\* Keys are a prefix and the id in big-endian bytes: the iterator follows ids.
IterateTasks(reg) ==
    LET ids == Ascending(DOMAIN reg.tasks)
    IN  [i \in DOMAIN ids |-> reg.tasks[ids[i]]]

\* Mutant: the counter is not exported.
ExportNoCounter(reg) == [tasks |-> IterateTasks(reg), nextTaskId |-> 1]

ExportGenesis(reg) == [tasks |-> IterateTasks(reg), nextTaskId |-> reg.next]

\* Go's conversion of uint64 to int, and int addition.
ToInt(x) == IF x < IntSpace \div 2 THEN x ELSE x - IntSpace
AddInt(x, y) == ToInt((x + y) % IntSpace)

Panics == <<"slice bounds out of range">>

\* Mutant: the offset counts pages instead of tasks.
ListTasksByPage(reg, offset, limit) ==
    LET all   == IterateTasks(reg)
        start == IF offset * limit > Len(all) THEN Len(all) ELSE offset * limit
        end   == IF start + limit > Len(all) THEN Len(all) ELSE start + limit
    IN  SubSeq(all, start + 1, end)

ListTasks(reg, offset, limit) ==
    LET all   == IterateTasks(reg)
        start == IF offset > 0
                 THEN IF ToInt(offset) > Len(all) THEN Len(all) ELSE ToInt(offset) ELSE 0
        end   == IF limit > 0
                 THEN IF AddInt(start, ToInt(limit)) > Len(all) THEN Len(all)
                      ELSE AddInt(start, ToInt(limit))
                 ELSE Len(all)
    IN  IF 0 <= start /\ start <= end THEN SubSeq(all, start + 1, end) ELSE Panics

NotFound == <<"task not found">>

QueryTask(reg, id) == IF id \in DOMAIN reg.tasks THEN reg.tasks[id] ELSE NotFound

\* The API's readers: ListTasks is asked without pagination.
apiGetTask(id) == QueryTask(store, id)
apiListTasks   == ListTasks(store, 0, 0)

-----------------------------------------------------------------------------
\* A chain started from an exported genesis has the registry it was exported
\* from, and the exported genesis passes the module's validation.
ExportRoundTrip ==
    /\ Validate(ExportGenesis(store))
    /\ InitGenesis(ExportGenesis(store)) = store

\* Following pages of any size lists every task exactly once, in id order, as
\* long as the offsets stay in the positive half of int; asking for no page, as the
\* API does, lists them all, each as GET /api/tasks/{id} finds it.
PagesCoverTasks ==
    LET all == IterateTasks(store)
    IN  /\ \A limit \in 1 .. IntSpace \div 2 :
               limit * Len(all) < IntSpace \div 2 =>
                   FlattenSeq([n \in DOMAIN all |-> ListTasks(store, (n - 1) * limit, limit)])
                       = all
        /\ Len(apiListTasks) = Cardinality(DOMAIN store.tasks)
        /\ \A i \in DOMAIN apiListTasks : apiGetTask(apiListTasks[i].id) = apiListTasks[i]
=============================================================================
