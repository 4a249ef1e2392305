------------------------------ MODULE RecordSets ------------------------------
(***************************************************************************)
(* What the two arrays of topic records in kafka-table.c promise: each     *)
(* record is in use, retired or given up, it is there once, and it leaves  *)
(* only for one of the others or to be freed.                              *)
(***************************************************************************)
CONSTANTS Record

VARIABLES inUse, retiredSet, givenUp

sets == <<inUse, retiredSet, givenUp>>

Init == inUse = {} /\ retiredSet = {} /\ givenUp = {}

Create(r) ==
  /\ r \notin inUse \cup retiredSet \cup givenUp
  /\ inUse' = inUse \cup {r}
  /\ retiredSet' \in {retiredSet, {}}
  /\ UNCHANGED givenUp

(* A dismissed record is freed, retired, or given up; the retired ones may *)
(* be freed with it.                                                       *)
Dismiss(r) ==
  /\ r \in inUse
  /\ inUse' = inUse \ {r}
  /\ \/ retiredSet' \in {{}, retiredSet, retiredSet \cup {r}} /\ UNCHANGED givenUp
     \/ retiredSet' \in {retiredSet, {}} /\ givenUp' = givenUp \cup {r}

Reap == retiredSet' = {} /\ UNCHANGED <<inUse, givenUp>>

FreeAll == inUse' = {} /\ retiredSet' = {} /\ UNCHANGED givenUp

Next == (\E r \in Record : Create(r) \/ Dismiss(r)) \/ Reap \/ FreeAll

Spec == Init /\ [][Next]_sets
===============================================================================
