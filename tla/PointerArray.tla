----------------------------- MODULE PointerArray -----------------------------
(***************************************************************************)
(* The two arrays of topic records of kafka-table.c, kt.topics and         *)
(* kt.retired, down to the slots: what realloc() gave, what the table      *)
(* believes it has (capacity), and what it uses (count).  Every action     *)
(* runs under the write lock.  The slots of an array past its last grown   *)
(* size are not there: a write to one is kept in "stray".                  *)
(***************************************************************************)
EXTENDS Integers, FiniteSets

CONSTANTS
  Record,       \* addresses of topic records
  Junk,         \* what a slot holds before it is written
  ItemSize,     \* sizeof(tek_topic_t *)
  InitialSlots, \* KAFKA_TABLE_INITIAL_SLOTS
  SizeMod,      \* size_t is computed modulo this
  PtrMax        \* realloc() gives no more bytes than this (PTRDIFF_MAX)

ASSUME ArrayAssumption ==
  /\ Junk \notin Record
  /\ ItemSize \in Nat \ {0} /\ InitialSlots \in Nat \ {0}
  /\ SizeMod \in Nat /\ PtrMax \in Nat
  /\ SizeMod > 2 * PtrMax /\ SizeMod > ItemSize * InitialSlots

VARIABLES
  topics,    \* kt.topics, kt.count, kt.capacity and the slots allocated
  retired,   \* the same for kt.retired
  leaked,    \* history: records given up when kt.retired could not grow
  stray      \* history: whether a slot that is not there was written

vars == <<topics, retired, leaked, stray>>

(* slot: what the allocated memory holds, by index.                        *)
Null == [slot |-> [i \in {} |-> Junk], count |-> 0, capacity |-> 0]

Init == topics = Null /\ retired = Null /\ leaked = {} /\ stray = FALSE

Used(a) == {a.slot[i] : i \in 0..(a.count - 1)}

-----------------------------------------------------------------------------
NewCap(a) ==
  IF a.capacity = 0 THEN InitialSlots ELSE (a.capacity * 2) % SizeMod

Bytes(a) == (NewCap(a) * ItemSize) % SizeMod

(* realloc() keeps what fits of the old memory.                            *)
realloc(a) ==
  [i \in 0..(Bytes(a) \div ItemSize - 1) |->
     IF i \in DOMAIN a.slot THEN a.slot[i] ELSE Junk]

(* Believes in one slot more (for the mutation of Full).                   *)
FullOffByOne(a) == a.count > a.capacity

Full(a) == a.count >= a.capacity

MayGrow(a) == ~Full(a) \/ Bytes(a) \in 1..PtrMax

(* The array after kafka_table_grow() returned 0.                          *)
kafka_table_grow(a) ==
  IF ~Full(a) THEN a
  ELSE [a EXCEPT !.slot = realloc(a), !.capacity = NewCap(a)]

(* array[count++] = r.                                                     *)
Append(a, r) ==
  [a EXCEPT !.slot = [@ EXCEPT ![a.count] = r], !.count = a.count + 1]

Strays(a) == a.count \notin DOMAIN a.slot

(* The last entry fills the hole.                                          *)
Without(a, i) ==
  [a EXCEPT !.slot = [@ EXCEPT ![i] = a.slot[a.count - 1]],
            !.count = a.count - 1]

(* kafka_table_reap_retired_locked(): the memory is kept.                  *)
Reaped(a) == [a EXCEPT !.count = 0]

(* Keeps the capacity of the memory freed (for the mutation of Released).  *)
ReleasedUncleared(a) == [Null EXCEPT !.capacity = a.capacity]

Released(a) == Null

-----------------------------------------------------------------------------
(* A reap runs at the end of create and dismiss; it does nothing while the *)
(* out queue holds a message.                                              *)
ThenReap(a) == retired' = a \/ retired' = Reaped(a)

kafka_table_create(r) ==
  LET grown == kafka_table_grow(topics)
  IN /\ r \notin Used(topics) \cup Used(retired) \cup leaked
     /\ MayGrow(topics)
     /\ topics' = Append(grown, r)
     /\ stray' = (stray \/ Strays(grown))
     /\ ThenReap(retired)
     /\ UNCHANGED leaked

(* tek_kafka_topic_create() failed: the array may have grown all the same. *)
kafka_table_create_failed ==
  /\ MayGrow(topics)
  /\ topics' = kafka_table_grow(topics)
  /\ ThenReap(retired)
  /\ UNCHANGED <<leaked, stray>>

(* The topic is there, nobody is connected, there is no memory, or a       *)
(* dismiss finds no such topic.                                            *)
kafka_table_create_refused ==
  /\ ThenReap(retired)
  /\ UNCHANGED <<topics, leaked, stray>>

(* Nothing is in flight, and under the write lock nothing is produced.     *)
kafka_table_dismiss_freed(i) ==
  /\ topics' = Without(topics, i)
  /\ retired' = Reaped(retired)
  /\ UNCHANGED <<leaked, stray>>

(* Reads the slot once the hole is filled (for the mutation of             *)
(* kafka_table_dismiss_parked).                                            *)
kafka_table_dismiss_parked_late(i) ==
  LET grown == kafka_table_grow(retired)
  IN /\ MayGrow(retired)
     /\ topics' = Without(topics, i)
     /\ stray' = (stray \/ Strays(grown))
     /\ ThenReap(Append(grown, topics'.slot[i]))
     /\ UNCHANGED leaked

(* Messages are in flight.                                                 *)
kafka_table_dismiss_parked(i) ==
  LET grown == kafka_table_grow(retired)
  IN /\ MayGrow(retired)
     /\ topics' = Without(topics, i)
     /\ stray' = (stray \/ Strays(grown))
     /\ ThenReap(Append(grown, topics.slot[i]))
     /\ UNCHANGED leaked

kafka_table_dismiss_leaked(i) ==
  /\ Full(retired)
  /\ topics' = Without(topics, i)
  /\ leaked' = leaked \cup {topics.slot[i]}
  /\ ThenReap(retired)
  /\ UNCHANGED stray

kafka_table_dismiss(i) ==
  \/ kafka_table_dismiss_freed(i)
  \/ kafka_table_dismiss_parked(i)
  \/ kafka_table_dismiss_leaked(i)

kafka_table_dismiss_all ==
  /\ topics' = Released(topics)
  /\ retired' = Released(retired)
  /\ UNCHANGED <<leaked, stray>>

Next ==
  \/ \E r \in Record : kafka_table_create(r)
  \/ kafka_table_create_failed
  \/ kafka_table_create_refused
  \/ \E i \in 0..(topics.count - 1) : kafka_table_dismiss(i)
  \/ kafka_table_dismiss_all

Spec == Init /\ [][Next]_vars

-----------------------------------------------------------------------------
ArrayOK(a) ==
  /\ a = [slot |-> a.slot, count |-> a.count, capacity |-> a.capacity]
  /\ a.count \in Nat /\ a.capacity \in Nat
  /\ a.slot = [i \in 0..(a.capacity - 1) |-> a.slot[i]]
  /\ a.count <= a.capacity
  /\ a.capacity * ItemSize <= PtrMax

(* kafka-table.c:33-52: after any sequence of growing, reaping, dismissing *)
(* and disconnecting, an array has the slots its capacity says and no slot *)
(* that is not there was ever written; the doubling never wraps.           *)
InBounds ==
  /\ ~stray
  /\ \A a \in {topics, retired} :
       a.count <= a.capacity /\ DOMAIN a.slot = 0..(a.capacity - 1)

HeldOnce(a) ==
  /\ Used(a) \subseteq Record
  /\ \A i, j \in 0..(a.count - 1) : a.slot[i] = a.slot[j] => i = j

(* kafka-table.c:33-52,78-131,522-531: the inductive invariant: each array *)
(* is as large as the table believes, holds no record twice, and shares    *)
(* none with the other or with those given up.                             *)
IndInv ==
  /\ ArrayOK(topics) /\ ArrayOK(retired)
  /\ HeldOnce(topics) /\ HeldOnce(retired)
  /\ Used(topics) \cap (Used(retired) \cup leaked) = {}
  /\ Used(retired) \cap leaked = {}
  /\ leaked \subseteq Record
  /\ stray = FALSE

Sets == INSTANCE RecordSets
  WITH inUse <- Used(topics), retiredSet <- Used(retired), givenUp <- leaked

(* kafka-table.c:78-131,400-402,491-531: whatever moves in the slots, the  *)
(* arrays hold each record once and lose none but to a free or a leak the  *)
(* code owns up to.                                                        *)
ImplementsRecordSets == Sets!Spec
===============================================================================
