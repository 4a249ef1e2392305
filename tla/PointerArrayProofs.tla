-------------------------- MODULE PointerArrayProofs --------------------------
(***************************************************************************)
(* Proofs about PointerArray: the doubling never wraps, no slot outside an *)
(* array is touched, and the arrays implement RecordSets, for any number   *)
(* of records, item size and width of size_t.                              *)
(***************************************************************************)
EXTENDS PointerArray, TLAPS

(* The doubling and the size in bytes are exact: kafka-table.c:41,43.      *)
LEMMA GrowsExactly ==
  ASSUME NEW a, ArrayOK(a)
  PROVE  /\ NewCap(a) = IF a.capacity = 0 THEN InitialSlots ELSE a.capacity * 2
         /\ Bytes(a) = NewCap(a) * ItemSize
         /\ Bytes(a) \div ItemSize = NewCap(a)
         /\ NewCap(a) \in Nat /\ a.capacity < NewCap(a)
  <1> DEFINE cap == a.capacity
  <1>1. /\ cap \in Nat /\ cap * ItemSize <= PtrMax
        /\ ItemSize \in Nat \ {0} /\ InitialSlots \in Nat \ {0}
        /\ PtrMax \in Nat /\ SizeMod \in Nat
        /\ SizeMod > 2 * PtrMax /\ SizeMod > ItemSize * InitialSlots
    BY ArrayAssumption DEF ArrayOK
  <1>2. /\ \A m \in Nat : m < SizeMod => m % SizeMod = m
        /\ \A m \in Nat : (m * ItemSize) \div ItemSize = m
    <2>1. \A m \in Nat : m < SizeMod => m % SizeMod = m
      BY <1>1
    <2>2. \A m, d \in Nat : d > 0 => (m * d) \div d = m
      OBVIOUS
    <2> QED BY <1>1, <2>1, <2>2
  <1>3. /\ \A m \in Nat : m * ItemSize \in Nat /\ m <= m * ItemSize
        /\ cap * 2 \in Nat /\ (cap * 2) * ItemSize = 2 * (cap * ItemSize)
    BY <1>1
  <1> HIDE DEF cap
  <1>4. CASE cap = 0
    <2>1. InitialSlots * ItemSize < SizeMod
      BY <1>1
    <2>2. NewCap(a) = InitialSlots
      BY <1>4 DEF NewCap, cap
    <2>3. Bytes(a) = NewCap(a) * ItemSize
      BY <2>1, <2>2, <1>1, <1>2, <1>3 DEF Bytes
    <2> QED BY <2>2, <2>3, <1>1, <1>2, <1>4 DEF cap
  <1>5. CASE cap # 0
    <2>1. (cap * 2) * ItemSize < SizeMod /\ cap * 2 < SizeMod
      <3>1. 2 * (cap * ItemSize) < SizeMod
        BY <1>1, <1>3
      <3>2. cap * 2 <= (cap * 2) * ItemSize
        BY <1>3
      <3> QED BY <3>1, <3>2, <1>1, <1>3
    <2>2. NewCap(a) = cap * 2
      BY <1>5, <2>1, <1>2, <1>3 DEF NewCap, cap
    <2>3. Bytes(a) = NewCap(a) * ItemSize
      BY <2>1, <2>2, <1>2, <1>3 DEF Bytes
    <2> QED BY <2>2, <2>3, <1>1, <1>2, <1>3, <1>5 DEF cap
  <1> QED BY <1>4, <1>5

(* kafka_table_grow() makes room and moves nothing: kafka-table.c:33-52.   *)
LEMMA GrowMakesRoom ==
  ASSUME NEW a, ArrayOK(a), MayGrow(a)
  PROVE  LET g == kafka_table_grow(a)
         IN /\ ArrayOK(g) /\ g.count = a.count /\ g.count < g.capacity
            /\ \A i \in 0..(a.count - 1) : g.slot[i] = a.slot[i]
  <1>1. CASE ~Full(a)
    BY <1>1 DEF kafka_table_grow, Full, ArrayOK
  <1>2. CASE Full(a)
    <2>1. a.count = a.capacity /\ Bytes(a) \in 1..PtrMax
      BY <1>2 DEF Full, ArrayOK, MayGrow
    <2> DEFINE g == kafka_table_grow(a)
    <2>2. g = [slot |-> realloc(a), count |-> a.count, capacity |-> NewCap(a)]
      BY <1>2 DEF kafka_table_grow, ArrayOK
    <2>3. realloc(a) = [i \in 0..(NewCap(a) - 1) |->
                          IF i \in 0..(a.capacity - 1) THEN a.slot[i] ELSE Junk]
      BY GrowsExactly DEF realloc, ArrayOK
    <2>4. NewCap(a) * ItemSize <= PtrMax
      BY <2>1, GrowsExactly, ArrayAssumption
    <2>5. /\ NewCap(a) \in Nat /\ a.capacity < NewCap(a)
          /\ a.count \in Nat /\ a.capacity \in Nat
      BY GrowsExactly DEF ArrayOK
    <2>6. ArrayOK(g)
      BY <2>1, <2>2, <2>3, <2>4, <2>5 DEF ArrayOK
    <2> QED BY <2>1, <2>2, <2>3, <2>5, <2>6
  <1> QED BY <1>1, <1>2

LEMMA GrowKeeps ==
  ASSUME NEW a, ArrayOK(a), MayGrow(a), HeldOnce(a)
  PROVE  LET g == kafka_table_grow(a)
         IN ArrayOK(g) /\ HeldOnce(g) /\ Used(g) = Used(a) /\ g.count < g.capacity
  BY GrowMakesRoom DEF HeldOnce, Used

LEMMA AppendAdds ==
  ASSUME NEW a, ArrayOK(a), HeldOnce(a), a.count < a.capacity,
         NEW r \in Record, r \notin Used(a)
  PROVE  /\ ArrayOK(Append(a, r)) /\ HeldOnce(Append(a, r))
         /\ Used(Append(a, r)) = Used(a) \cup {r}
         /\ ~Strays(a)
  <1> DEFINE b == Append(a, r)
  <1>1. /\ a.count \in Nat /\ a.capacity \in Nat
        /\ DOMAIN a.slot = 0..(a.capacity - 1)
        /\ a = [slot |-> a.slot, count |-> a.count, capacity |-> a.capacity]
    BY DEF ArrayOK
  <1>2. b = [slot |-> [i \in 0..(a.capacity - 1) |->
                         IF i = a.count THEN r ELSE a.slot[i]],
             count |-> a.count + 1, capacity |-> a.capacity]
    <2> DEFINE t == [a.slot EXCEPT ![a.count] = r]
    <2>1. b = [a EXCEPT !.slot = t, !.count = a.count + 1]
      BY DEF Append
    <2> HIDE DEF t
    <2>2. b = [slot |-> t, count |-> a.count + 1, capacity |-> a.capacity]
      BY <1>1, <2>1
    <2> QED BY <1>1, <2>2 DEF t
  <1>3. ArrayOK(b)
    BY <1>1, <1>2 DEF ArrayOK
  <1>4. /\ b.slot[a.count] = r /\ b.count = a.count + 1
        /\ \A i \in 0..(a.count - 1) : b.slot[i] = a.slot[i]
    BY <1>1, <1>2
  <1>5. 0..(b.count - 1) = 0..(a.count - 1) \cup {a.count}
    BY <1>1, <1>4
  <1>6. Used(b) = Used(a) \cup {r}
    BY <1>4, <1>5 DEF Used
  <1>7. HeldOnce(b)
    BY <1>4, <1>5, <1>6 DEF HeldOnce, Used
  <1> QED BY <1>1, <1>3, <1>6, <1>7 DEF Strays

LEMMA WithoutRemoves ==
  ASSUME NEW a, ArrayOK(a), HeldOnce(a), NEW i \in 0..(a.count - 1)
  PROVE  /\ ArrayOK(Without(a, i)) /\ HeldOnce(Without(a, i))
         /\ Used(Without(a, i)) = Used(a) \ {a.slot[i]}
         /\ a.slot[i] \in Used(a)
  <1> DEFINE b == Without(a, i)
  <1>1. /\ a.count \in Nat /\ a.capacity \in Nat /\ a.count <= a.capacity
        /\ DOMAIN a.slot = 0..(a.capacity - 1)
        /\ a = [slot |-> a.slot, count |-> a.count, capacity |-> a.capacity]
    BY DEF ArrayOK
  <1>2. b = [slot |-> [j \in 0..(a.capacity - 1) |->
                         IF j = i THEN a.slot[a.count - 1] ELSE a.slot[j]],
             count |-> a.count - 1, capacity |-> a.capacity]
    <2> DEFINE t == [a.slot EXCEPT ![i] = a.slot[a.count - 1]]
    <2>1. b = [a EXCEPT !.slot = t, !.count = a.count - 1]
      BY DEF Without
    <2> HIDE DEF t
    <2>2. b = [slot |-> t, count |-> a.count - 1, capacity |-> a.capacity]
      BY <1>1, <2>1
    <2> QED BY <1>1, <2>2 DEF t
  <1>3. ArrayOK(b)
    BY <1>1, <1>2 DEF ArrayOK
  <1>4. /\ b.count = a.count - 1 /\ i \in Nat /\ i <= a.count - 1
        /\ \A j \in 0..(a.count - 2) :
             b.slot[j] = IF j = i THEN a.slot[a.count - 1] ELSE a.slot[j]
    BY <1>1, <1>2
  <1>5. 0..(b.count - 1) = 0..(a.count - 2)
    BY <1>1, <1>4
  <1>6. \A j, k \in 0..(a.count - 1) : a.slot[j] = a.slot[k] => j = k
    BY DEF HeldOnce
  <1>7. Used(b) = Used(a) \ {a.slot[i]}
    <2>1. Used(b) \subseteq Used(a) \ {a.slot[i]}
      BY <1>1, <1>4, <1>5, <1>6 DEF Used
    <2>2. ASSUME NEW j \in 0..(a.count - 1), a.slot[j] # a.slot[i]
          PROVE  a.slot[j] \in Used(b)
      <3>1. CASE j = a.count - 1
        <4>1. i \in 0..(a.count - 2) /\ b.slot[i] = a.slot[j]
          BY <3>1, <2>2, <1>1, <1>4
        <4> QED BY <4>1, <1>5 DEF Used
      <3>2. CASE j # a.count - 1
        <4>1. j \in 0..(a.count - 2) /\ b.slot[j] = a.slot[j]
          BY <3>2, <2>2, <1>1, <1>4
        <4> QED BY <4>1, <1>5 DEF Used
      <3> QED BY <3>1, <3>2
    <2> QED BY <2>1, <2>2 DEF Used
  <1>8. HeldOnce(b)
    <2>1. \A j, k \in 0..(b.count - 1) : b.slot[j] = b.slot[k] => j = k
      BY <1>1, <1>4, <1>5, <1>6
    <2> QED BY <2>1, <1>7 DEF HeldOnce
  <1> QED BY <1>3, <1>7, <1>8 DEF Used

LEMMA EmptyIsFine ==
  /\ ArrayOK(Null) /\ HeldOnce(Null) /\ Used(Null) = {}
  /\ \A a : ArrayOK(a) =>
       ArrayOK(Reaped(a)) /\ HeldOnce(Reaped(a)) /\ Used(Reaped(a)) = {}
  <1>1. ArrayOK(Null) /\ HeldOnce(Null) /\ Used(Null) = {}
    BY ArrayAssumption DEF ArrayOK, Null, HeldOnce, Used
  <1>2. ASSUME NEW a, ArrayOK(a)
        PROVE  ArrayOK(Reaped(a)) /\ HeldOnce(Reaped(a)) /\ Used(Reaped(a)) = {}
    <2>1. Reaped(a) = [slot |-> a.slot, count |-> 0, capacity |-> a.capacity]
      BY <1>2 DEF Reaped, ArrayOK
    <2> QED BY <1>2, <2>1 DEF ArrayOK, HeldOnce, Used
  <1> QED BY <1>1, <1>2

LEMMA ReapKeeps ==
  ASSUME NEW a, ArrayOK(a), HeldOnce(a), ThenReap(a)
  PROVE  ArrayOK(retired') /\ HeldOnce(retired') /\ Used(retired') \in {Used(a), {}}
  BY EmptyIsFine DEF ThenReap

-------------------------------------------------------------------------------
(* What a step does to the sets of records, whichever slots it moves.      *)
Create(r) ==
  /\ r \notin Used(topics) \cup Used(retired) \cup leaked
  /\ Used(topics)' = Used(topics) \cup {r}
  /\ Used(retired)' \in {Used(retired), {}}
  /\ leaked' = leaked

Dismiss(r) ==
  /\ r \in Used(topics)
  /\ Used(topics)' = Used(topics) \ {r}
  /\ \/ Used(retired)' \in {{}, Used(retired) \cup {r}} /\ leaked' = leaked
     \/ Used(retired)' \in {Used(retired), {}} /\ leaked' = leaked \cup {r}

Other ==
  /\ Used(topics)' \in {Used(topics), {}}
  /\ Used(retired)' \in {Used(retired), {}}
  /\ Used(topics)' # Used(topics) => Used(retired)' = {}
  /\ leaked' = leaked

(* Both arrays keep their shape, and every step is one of the three above. *)
LEMMA StepOnSets ==
  ASSUME IndInv, [Next]_vars
  PROVE  /\ ArrayOK(topics') /\ ArrayOK(retired')
         /\ HeldOnce(topics') /\ HeldOnce(retired')
         /\ stray' = FALSE
         /\ (\E r \in Record : Create(r) \/ Dismiss(r)) \/ Other
  <1> USE DEF IndInv
  <1>a. Used(topics)' = Used(topics') /\ Used(retired)' = Used(retired')
    BY DEF Used
  <1>1. ASSUME NEW r \in Record, kafka_table_create(r)
        PROVE  StepOnSets!3
    <2> DEFINE g == kafka_table_grow(topics)
    <2>1. /\ ArrayOK(g) /\ HeldOnce(g) /\ Used(g) = Used(topics)
          /\ g.count < g.capacity
      BY <1>1, GrowKeeps DEF kafka_table_create
    <2>2. topics' = Append(g, r) /\ stray' = (stray \/ Strays(g)) /\ leaked' = leaked
          /\ ThenReap(retired) /\ r \notin Used(topics) \cup Used(retired) \cup leaked
      BY <1>1 DEF kafka_table_create
    <2> HIDE DEF g
    <2>3. /\ ArrayOK(topics') /\ HeldOnce(topics')
          /\ Used(topics') = Used(topics) \cup {r} /\ ~Strays(g)
      BY <2>1, <2>2, AppendAdds
    <2>4. /\ ArrayOK(retired') /\ HeldOnce(retired')
          /\ Used(retired') \in {Used(retired), {}}
      BY <2>2, ReapKeeps
    <2> QED BY <2>2, <2>3, <2>4, <1>a DEF Create
  <1>2. CASE kafka_table_create_failed
    <2>1. /\ ArrayOK(topics') /\ HeldOnce(topics') /\ Used(topics') = Used(topics)
      BY <1>2, GrowKeeps DEF kafka_table_create_failed
    <2>2. /\ ArrayOK(retired') /\ HeldOnce(retired')
          /\ Used(retired') \in {Used(retired), {}}
      BY <1>2, ReapKeeps DEF kafka_table_create_failed
    <2> QED BY <1>2, <2>1, <2>2, <1>a DEF kafka_table_create_failed, Other
  <1>3. CASE kafka_table_create_refused
    <2>2. /\ ArrayOK(retired') /\ HeldOnce(retired')
          /\ Used(retired') \in {Used(retired), {}}
      BY <1>3, ReapKeeps DEF kafka_table_create_refused
    <2> QED BY <1>3, <2>2, <1>a DEF kafka_table_create_refused, Other
  <1>4. ASSUME NEW i \in 0..(topics.count - 1), kafka_table_dismiss(i)
        PROVE  StepOnSets!3
    <2> DEFINE r == topics.slot[i]
    <2>1. /\ topics' = Without(topics, i)
          /\ r \in Used(topics) /\ r \in Record /\ r \notin Used(retired)
      BY <1>4, WithoutRemoves
      DEF kafka_table_dismiss, kafka_table_dismiss_freed, HeldOnce,
          kafka_table_dismiss_parked, kafka_table_dismiss_leaked
    <2>2. /\ ArrayOK(topics') /\ HeldOnce(topics')
          /\ Used(topics') = Used(topics) \ {r}
      BY <2>1, WithoutRemoves
    <2>3. CASE kafka_table_dismiss_freed(i)
      <3>1. ArrayOK(retired') /\ HeldOnce(retired') /\ Used(retired') = {}
        BY <2>3, EmptyIsFine DEF kafka_table_dismiss_freed
      <3> QED BY <2>1, <2>2, <2>3, <3>1, <1>a DEF kafka_table_dismiss_freed, Dismiss
    <2>4. CASE kafka_table_dismiss_parked(i)
      <3> DEFINE g == kafka_table_grow(retired)
      <3>1. /\ ArrayOK(g) /\ HeldOnce(g) /\ Used(g) = Used(retired)
            /\ g.count < g.capacity
        BY <2>4, GrowKeeps DEF kafka_table_dismiss_parked
      <3>2. /\ stray' = (stray \/ Strays(g)) /\ leaked' = leaked
            /\ ThenReap(Append(g, r))
        BY <2>4 DEF kafka_table_dismiss_parked
      <3> HIDE DEF g, r
      <3>3. /\ ArrayOK(Append(g, r)) /\ HeldOnce(Append(g, r))
            /\ Used(Append(g, r)) = Used(retired) \cup {r} /\ ~Strays(g)
        BY <2>1, <3>1, AppendAdds
      <3>4. /\ ArrayOK(retired') /\ HeldOnce(retired')
            /\ Used(retired') \in {Used(retired) \cup {r}, {}}
        BY <3>2, <3>3, ReapKeeps
      <3> QED BY <2>1, <2>2, <3>2, <3>3, <3>4, <1>a DEF Dismiss
    <2>5. CASE kafka_table_dismiss_leaked(i)
      <3>1. /\ ArrayOK(retired') /\ HeldOnce(retired')
            /\ Used(retired') \in {Used(retired), {}}
        BY <2>5, ReapKeeps DEF kafka_table_dismiss_leaked
      <3> QED BY <2>1, <2>2, <2>5, <3>1, <1>a DEF kafka_table_dismiss_leaked, Dismiss
    <2> QED BY <1>4, <2>3, <2>4, <2>5 DEF kafka_table_dismiss
  <1>5. CASE kafka_table_dismiss_all
    BY <1>5, EmptyIsFine, <1>a DEF kafka_table_dismiss_all, Released, Other
  <1>6. CASE UNCHANGED vars
    BY <1>6, <1>a DEF vars, Other
  <1> QED BY <1>1, <1>2, <1>3, <1>4, <1>5, <1>6 DEF Next

LEMMA InductiveInit == Init => IndInv
  BY EmptyIsFine DEF Init, IndInv

LEMMA InductiveStep == IndInv /\ [Next]_vars => IndInv'
  <1> SUFFICES ASSUME IndInv, [Next]_vars PROVE IndInv'
    OBVIOUS
  <1>1. /\ ArrayOK(topics)' /\ ArrayOK(retired)'
        /\ HeldOnce(topics)' /\ HeldOnce(retired)' /\ (stray = FALSE)'
    BY StepOnSets DEF ArrayOK, HeldOnce, Used
  <1>2. Used(topics) \subseteq Record /\ Used(retired) \subseteq Record
    BY DEF IndInv, HeldOnce
  <1>3. /\ (Used(topics) \cap (Used(retired) \cup leaked) = {})'
        /\ (Used(retired) \cap leaked = {})' /\ (leaked \subseteq Record)'
    BY <1>2, StepOnSets DEF IndInv, Create, Dismiss, Other
  <1> QED BY <1>1, <1>3 DEF IndInv

(* kafka-table.c:33-52,78-131: the slots, the counts and the capacities    *)
(* agree at every step, and no record is held twice.                       *)
THEOREM ArrayInvariance == Spec => []IndInv
  BY InductiveInit, InductiveStep, PTL DEF Spec

(* kafka-table.c:41-43,120,400: no write falls outside the memory          *)
(* realloc() gave, however often the arrays are grown, reaped and freed.   *)
THEOREM ArraysStayInBounds == Spec => []InBounds
  <1>1. IndInv => InBounds
    BY DEF IndInv, InBounds, ArrayOK
  <1> QED BY <1>1, ArrayInvariance, PTL

(* kafka-table.c:104-131,522-531: swapping, growing and reaping lose no    *)
(* record and duplicate none.                                              *)
THEOREM ArraysImplementSets == Spec => ImplementsRecordSets
  <1>1. Init => Sets!Init
    BY EmptyIsFine DEF Init, Sets!Init
  <1>2. IndInv /\ [Next]_vars => [Sets!Next]_(Sets!sets)
    <2> SUFFICES ASSUME IndInv, [Next]_vars PROVE [Sets!Next]_(Sets!sets)
      OBVIOUS
    <2>1. CASE \E r \in Record : Create(r)
      BY <2>1 DEF Create, Sets!Next, Sets!Create
    <2>2. CASE \E r \in Record : Dismiss(r)
      BY <2>2 DEF Dismiss, Sets!Next, Sets!Dismiss
    <2>3. CASE Other
      BY <2>3 DEF Other, Sets!Next, Sets!Reap, Sets!FreeAll, Sets!sets
    <2> QED BY <2>1, <2>2, <2>3, StepOnSets
  <1> QED BY <1>1, <1>2, ArrayInvariance, PTL DEF Spec, ImplementsRecordSets, Sets!Spec
===============================================================================
