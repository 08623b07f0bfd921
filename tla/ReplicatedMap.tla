--------------------------- MODULE ReplicatedMap ---------------------------
(***************************************************************************)
(* What the key-value service promises its clients: a log of decided       *)
(* batches of writes, and a view that is either offline or exactly the map *)
(* that a prefix of the log produces.  The prefix never shrinks, grows one *)
(* batch at a time, and the next batch is decided only when every earlier  *)
(* one is in it.                                                           *)
(***************************************************************************)
EXTENDS Integers, Sequences

CONSTANT Batch      \* the batches that can be decided: functions key -> value

VARIABLES log, upto, view

vars == <<log, upto, view>>

Offline == <<>>

\* The map after the first n batches of l.
MapAt(l, n) ==
    [k \in UNION {DOMAIN l[i] : i \in 1 .. n} |->
        l[CHOOSE i \in 1 .. n : /\ k \in DOMAIN l[i]
                                /\ \A j \in i + 1 .. n : k \notin DOMAIN l[j]][k]]

Init == log = <<>> /\ upto = 0 /\ view = Offline

Decide ==
    /\ upto = Len(log)
    /\ \E batch \in Batch : log' = Append(log, batch)
    /\ UNCHANGED <<upto, view>>

Apply ==
    /\ upto < Len(log)
    /\ upto' = upto + 1
    /\ view' \in {Offline, <<MapAt(log, upto + 1)>>}
    /\ UNCHANGED log

GoOffline == view' = Offline /\ UNCHANGED <<log, upto>>

GoOnline == view' = <<MapAt(log, upto)>> /\ UNCHANGED <<log, upto>>

Next == Decide \/ Apply \/ GoOffline \/ GoOnline

Spec == Init /\ [][Next]_vars
=============================================================================
