---------------------------- MODULE MCApiBackend ---------------------------
(* Small instances of the API backend over the task registry.               *)
EXTENDS ApiBackend

\* Every endpoint; an empty title; a completion that comes too early or again.
MCCall == {CreateTaskMsg(title) : title \in Title}
          \cup {AssignTaskMsg(1, Admin), CompleteTaskMsg(1)}

\* The registry takes its transactions from the blocks.
MCPayload == {<<m>> : m \in Call}

MCGenesis == {DefaultGenesis}
=============================================================================
