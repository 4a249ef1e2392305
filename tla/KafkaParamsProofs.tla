-------------------------- MODULE KafkaParamsProofs --------------------------
(***************************************************************************)
(* The parameter array, proved for every set of names, values, settings    *)
(* and aliases: its invariant, and that it implements ParamMap.            *)
(***************************************************************************)
EXTENDS KafkaParams, Integers, WellFoundedInduction, TLAPS

-----------------------------------------------------------------------------
(* Induction, over sets of numbers: a set has a least element ...          *)
LEMMA NatLeast ==
  ASSUME NEW T \in SUBSET Nat, T # {}
  PROVE  \E n \in T : \A k \in T : n <= k
  <1> DEFINE R == {ss \in Nat \X Nat : ss[1] < ss[2]}
  <1>1. IsWellFoundedOn(R, Nat)
    BY NatLessThanWellFounded DEF OpToRel
  <1>2. \A x, y \in Nat : x < y => <<x, y>> \in R
    OBVIOUS
  <1> HIDE DEF R
  <1>3. PICK n \in T : \A k \in T : ~(<<k, n>> \in R)
    BY <1>1, WFMin
  <1>4. \A k \in T : n <= k
    <2> TAKE k \in T
    <2>1. ~(k < n)
      BY <1>2, <1>3
    <2> QED BY <2>1
  <1> QED BY <1>4

(* ... a set with 0 and every successor is Nat ...                         *)
LEMMA NatSetInduction ==
  ASSUME NEW S \in SUBSET Nat, 0 \in S, \A n \in S : n + 1 \in S
  PROVE  S = Nat
  <1> SUFFICES ASSUME Nat \ S # {} PROVE FALSE
    OBVIOUS
  <1>1. PICK n \in Nat \ S : \A k \in Nat \ S : n <= k
    BY NatLeast
  <1>2. n # 0 /\ n - 1 \in Nat
    BY <1>1
  <1>3. n - 1 \in S
    BY <1>1, <1>2
  <1> QED BY <1>1, <1>2, <1>3

(* ... and a bounded set has a greatest element.                           *)
LEMMA GreatestExists ==
  ASSUME NEW n \in Nat, NEW I \in SUBSET (1 .. n), I # {}
  PROVE  \E m \in I : \A j \in I : j <= m
  <1> DEFINE T == {u \in Nat : \A j \in I : j <= u}
  <1>1. T \in SUBSET Nat /\ n \in T
    OBVIOUS
  <1>2. PICK m \in T : \A u \in T : m <= u
    BY <1>1, NatLeast
  <1>3. m \in Nat /\ \A j \in I : j <= m
    OBVIOUS
  <1>4. m \in I
    <2> SUFFICES ASSUME m \notin I PROVE FALSE
      OBVIOUS
    <2>1. \A j \in I : j \in Int /\ 1 <= j /\ j <= m /\ j # m
      BY <1>3
    <2>2. \A j \in I : j <= m - 1
      BY <2>1, <1>3
    <2>3. m - 1 \in Nat
      <3>1. PICK j \in I : TRUE
        OBVIOUS
      <3>2. j \in Int /\ 1 <= j /\ j <= m
        BY <2>1
      <3> QED BY <3>2, <1>3
    <2>4. m - 1 \in T
      BY <2>2, <2>3
    <2>5. m <= m - 1
      BY <1>2, <2>4
    <2> QED BY <2>5, <1>3
  <1> QED BY <1>3, <1>4

-----------------------------------------------------------------------------
(* What the last assignment to a setting is.                               *)
LEMMA LastOfIsLast ==
  ASSUME NEW ps \in Seq(Param), NEW x \in Setting, Assigned(ps, x) # {}
  PROVE  /\ LastOf(Assigned(ps, x)) \in Assigned(ps, x)
         /\ LastOf(Assigned(ps, x)) \in DOMAIN ps
         /\ \A j \in Assigned(ps, x) : j <= LastOf(Assigned(ps, x))
  <1>1. Assigned(ps, x) \in SUBSET (1 .. Len(ps)) /\ Len(ps) \in Nat
    BY DEF Assigned
  <1>2. \E m \in Assigned(ps, x) : \A j \in Assigned(ps, x) : j <= m
    BY <1>1, GreatestExists
  <1>3. /\ LastOf(Assigned(ps, x)) \in Assigned(ps, x)
        /\ \A j \in Assigned(ps, x) : j <= LastOf(Assigned(ps, x))
    BY <1>2 DEF LastOf
  <1> QED
    BY <1>3 DEF Assigned

(* Every setting of a new producer has a value.                            *)
LEMMA ConfiguredType ==
  ASSUME TypeOK, NEW b \in Value
  PROVE  Configured(params, b) \in [Setting -> Value]
  <1>1. ASSUME NEW x \in Setting, Assigned(params, x) # {}
        PROVE  params[LastOf(Assigned(params, x))].value \in Value
    <2>1. LastOf(Assigned(params, x)) \in DOMAIN params
      BY <1>1, LastOfIsLast DEF TypeOK
    <2>2. params[LastOf(Assigned(params, x))] \in Param
      BY <2>1 DEF TypeOK
    <2> QED
      BY <2>2 DEF Param
  <1> DEFINE F(x) == IF Assigned(params, x) # {}
                     THEN params[LastOf(Assigned(params, x))].value
                     ELSE IF x = Bootstrap THEN b ELSE Default[x]
  <1>2. \A x \in Setting : F(x) \in Value
    BY <1>1, ParamsAssumption
  <1>3. Configured(params, b) = [x \in Setting |-> F(x)]
    BY DEF Configured
  <1> HIDE DEF F
  <1> QED
    BY <1>2, <1>3

(* The three ways the array changes.                                       *)
LEMMA ReplaceKeeps ==
  ASSUME IndInv, NEW n \in Name, NEW v \in Value, NEW i \in At(n), MaySet(n, v),
         params' = [params EXCEPT ![i] = [name |-> n, value |-> v]]
  PROVE  /\ params' \in Seq(Param) /\ OneEntryPerName'
         /\ RefusedEarly'
         /\ DOMAIN params' = DOMAIN params
         /\ \A j \in DOMAIN params :
              params'[j] = IF j = i THEN [name |-> n, value |-> v] ELSE params[j]
  <1>1. params \in Seq(Param) /\ i \in 1 .. Len(params) /\ params[i].name = n
    BY DEF IndInv, TypeOK, At, Holds
  <1>2. [name |-> n, value |-> v] \in Param
    BY DEF Param
  <1>3. /\ DOMAIN params' = DOMAIN params
        /\ \A j \in DOMAIN params :
             params'[j] = IF j = i THEN [name |-> n, value |-> v] ELSE params[j]
    BY <1>1, <1>2
  <1>4. params' \in Seq(Param)
    BY <1>1, <1>2 DEF Param
  <1>5. \A j \in DOMAIN params : params'[j].name = params[j].name
    BY <1>1, <1>3
  <1>6. OneEntryPerName'
    BY <1>3, <1>5 DEF IndInv, OneEntryPerName
  <1>7. RefusedEarly'
    <2> SUFFICES ASSUME NEW j \in DOMAIN params
                 PROVE  <<params'[j].name, params'[j].value>> \in Accepted
      BY <1>3 DEF RefusedEarly
    <2>1. CASE j = i
      BY <2>1, <1>3 DEF MaySet
    <2>2. CASE j # i
      <3>1. params'[j] = params[j]
        BY <2>2, <1>3
      <3> QED
        BY <3>1 DEF IndInv, RefusedEarly
    <2> QED
      BY <2>1, <2>2
  <1> QED
    BY <1>3, <1>4, <1>6, <1>7

LEMMA AppendKeeps ==
  ASSUME IndInv, NEW n \in Name, NEW v \in Value, At(n) = {}, MaySet(n, v),
         params' = Append(params, [name |-> n, value |-> v])
  PROVE  /\ params' \in Seq(Param) /\ OneEntryPerName'
         /\ RefusedEarly'
         /\ DOMAIN params' = DOMAIN params \cup {Len(params) + 1}
         /\ Len(params) + 1 \notin DOMAIN params
         /\ \A j \in DOMAIN params : params'[j] = params[j]
         /\ params'[Len(params) + 1] = [name |-> n, value |-> v]
  <1> DEFINE k == Len(params) + 1
  <1>1. params \in Seq(Param) /\ DOMAIN params = 1 .. Len(params)
        /\ Len(params) \in Nat
    BY DEF IndInv, TypeOK
  <1>2. [name |-> n, value |-> v] \in Param
    BY DEF Param
  <1>3. /\ params' \in Seq(Param)
        /\ DOMAIN params' = DOMAIN params \cup {k}
        /\ k \notin DOMAIN params
        /\ \A j \in DOMAIN params : params'[j] = params[j] /\ j <= k
        /\ params'[k] = [name |-> n, value |-> v]
    BY <1>1, <1>2
  <1>4. OneEntryPerName' /\ RefusedEarly'
    BY <1>3 DEF IndInv, OneEntryPerName, RefusedEarly, MaySet, At, Holds
  <1> QED
    BY <1>3, <1>4

LEMMA WithoutKeeps ==
  ASSUME IndInv, NEW n \in Name, NEW i \in At(n), params' = Without(i)
  PROVE  /\ params' \in Seq(Param) /\ OneEntryPerName'
         /\ RefusedEarly'
         /\ \A j \in DOMAIN params' : \E l \in DOMAIN params :
              l # i /\ params'[j] = params[l]
         /\ \A l \in DOMAIN params \ {i} : \E j \in DOMAIN params' :
              params'[j] = params[l]
  <1> DEFINE k == Len(params)
  <1>1. /\ params \in Seq(Param) /\ DOMAIN params = 1 .. k
        /\ k \in Nat \ {0} /\ i \in 1 .. k
    BY DEF IndInv, TypeOK, At, Holds
  <1>2. /\ DOMAIN params' = 1 .. k - 1
        /\ \A j \in 1 .. k - 1 :
             params'[j] = IF j = i THEN params[k] ELSE params[j]
    BY DEF Without
  <1>3. params' \in Seq(Param)
    <2>1. \A j \in 1 .. k - 1 : params'[j] \in Param
      BY <1>1, <1>2
    <2>2. k - 1 \in Nat
      BY <1>1
    <2>3. params' = [j \in 1 .. k - 1 |-> params'[j]]
      BY <1>2 DEF Without
    <2> QED
      BY <2>1, <2>2, <2>3
  <1>4. \A j \in DOMAIN params' : \E l \in DOMAIN params :
          l # i /\ params'[j] = params[l]
    <2> TAKE j \in DOMAIN params'
    <2>1. CASE j = i
      <3>1. k \in DOMAIN params /\ k # i /\ params'[j] = params[k]
        BY <2>1, <1>1, <1>2
      <3> QED
        BY <3>1
    <2>2. CASE j # i
      BY <2>2, <1>1, <1>2
    <2> QED
      BY <2>1, <2>2
  <1>5. \A l \in DOMAIN params \ {i} : \E j \in DOMAIN params' :
          params'[j] = params[l]
    <2> TAKE l \in DOMAIN params \ {i}
    <2>1. CASE l = k
      <3>1. i \in DOMAIN params' /\ params'[i] = params[l]
        BY <2>1, <1>1, <1>2
      <3> QED
        BY <3>1
    <2>2. CASE l # k
      <3>1. l \in DOMAIN params' /\ params'[l] = params[l]
        BY <2>2, <1>1, <1>2
      <3> QED
        BY <3>1
    <2> QED
      BY <2>1, <2>2
  <1>6. OneEntryPerName'
    <2> SUFFICES ASSUME NEW a \in 1 .. k - 1, NEW b \in 1 .. k - 1,
                        params'[a].name = params'[b].name
                 PROVE  a = b
      BY <1>2 DEF OneEntryPerName
    <2>a. /\ k \in Int /\ a \in Int /\ b \in Int
          /\ 1 <= a /\ a <= k - 1 /\ 1 <= b /\ b <= k - 1
      BY <1>1
    <2>b. a # k /\ b # k /\ k \in 1 .. k /\ a \in 1 .. k /\ b \in 1 .. k
      BY <2>a
    <2>1. /\ k \in DOMAIN params /\ a \in DOMAIN params /\ b \in DOMAIN params
          /\ a # k /\ b # k
      BY <2>b, <1>1
    <2>2. \A p, q \in DOMAIN params : params[p].name = params[q].name => p = q
      BY DEF IndInv, OneEntryPerName
    <2>3. ASSUME NEW p \in 1 .. k - 1
          PROVE  params'[p] = params[IF p = i THEN k ELSE p]
      BY <1>2
    <2>4. (IF a = i THEN k ELSE a) = (IF b = i THEN k ELSE b)
      BY <2>1, <2>2, <2>3
    <2> QED
      BY <2>1, <2>4
  <1>7. RefusedEarly'
    BY <1>4 DEF IndInv, RefusedEarly
  <1> QED
    BY <1>3, <1>4, <1>5, <1>6, <1>7

-----------------------------------------------------------------------------
(* The array starts empty.                                                 *)
LEMMA InitIndInv == Init => IndInv
  BY DEF Init, IndInv, TypeOK, OneEntryPerName, RefusedEarly,
         FrozenWhileConnected

(* Every call keeps the array in order.                                    *)
LEMMA NextIndInv == ASSUME IndInv, [Next]_vars PROVE IndInv'
  <1>0. TypeOK /\ OneEntryPerName /\ RefusedEarly
        /\ FrozenWhileConnected
    BY DEF IndInv
  <1>a. ASSUME UNCHANGED params, conf' = None \/ UNCHANGED <<conf, brokers>>,
               TypeOK',
               module' # "loaded" => /\ conf' = None
                                     /\ \A s \in Session : pc'[s] = "idle"
        PROVE  IndInv'
    BY <1>0, <1>a DEF IndInv, OneEntryPerName, RefusedEarly,
         FrozenWhileConnected, Configured
  <1>1. ASSUME NEW s \in Session,
               \/ kafka_connection_param_init(s) \/ kafka_connect_init(s)
               \/ deinit(s) \/ kafka_disconnect(s)
        PROVE  IndInv'
    <2>1. TypeOK'
      BY <1>0, <1>1 DEF TypeOK, kafka_connection_param_init, kafka_connect_init,
           deinit, kafka_disconnect, Goto
    <2> QED
      BY <1>a, <1>1, <2>1 DEF IndInv, kafka_connection_param_init,
           kafka_connect_init, deinit, kafka_disconnect, Goto, TypeOK
  <1>2. ASSUME NEW s \in Session, NEW n \in Name, NEW v \in Value,
               kafka_table_set_param(s, n, v)
        PROVE  IndInv'
    <2>1. conf = None /\ MaySet(n, v) /\ UNCHANGED <<conf, brokers, module, pc>>
      BY <1>2 DEF kafka_table_set_param, set_param_replace, set_param_append,
           MaySet
    <2>2. params' \in Seq(Param) /\ OneEntryPerName' /\ RefusedEarly'
      <3>1. CASE set_param_replace(s, n, v)
        BY <3>1, ReplaceKeeps DEF set_param_replace
      <3>2. CASE set_param_append(s, n, v)
        BY <3>2, AppendKeeps DEF set_param_append
      <3> QED
        BY <1>2, <3>1, <3>2 DEF kafka_table_set_param
    <2> QED
      BY <1>0, <2>1, <2>2 DEF IndInv, TypeOK, FrozenWhileConnected
  <1>3. ASSUME NEW s \in Session, NEW n \in Name, kafka_table_unset_param(s, n)
        PROVE  IndInv'
    <2>1. conf = None /\ UNCHANGED <<conf, brokers, module, pc>>
      BY <1>3 DEF kafka_table_unset_param
    <2>2. params' \in Seq(Param) /\ OneEntryPerName' /\ RefusedEarly'
      BY <1>3, WithoutKeeps DEF kafka_table_unset_param
    <2> QED
      BY <1>0, <2>1, <2>2 DEF IndInv, TypeOK, FrozenWhileConnected
  <1>4. ASSUME NEW s \in Session, NEW b \in Value, kafka_table_connect(s, b)
        PROVE  IndInv'
    <2>1. Configured(params, b) \in [Setting -> Value]
      BY <1>0, ConfiguredType
    <2>2. /\ UNCHANGED <<params, module, pc>> /\ brokers' = b
          /\ conf' = Configured(params, b) /\ conf = None
      BY <1>4 DEF kafka_table_connect
    <2>3. module = "loaded"
      BY <1>4 DEF IndInv, kafka_table_connect
    <2> QED
      BY <1>0, <2>1, <2>2, <2>3 DEF IndInv, TypeOK, OneEntryPerName,
           RefusedEarly, FrozenWhileConnected, Configured
  <1>5. CASE kafka_table_shutdown \/ kafka_module_load
    BY <1>0, <1>5, <1>a DEF IndInv, TypeOK, kafka_table_shutdown, kafka_module_load
  <1>6. CASE kafka_table_clear_params_locked
    BY <1>0, <1>6 DEF IndInv, TypeOK, kafka_table_clear_params_locked,
         OneEntryPerName, RefusedEarly, FrozenWhileConnected
  <1>7. CASE UNCHANGED vars
    BY <1>0, <1>7, <1>a DEF vars, IndInv, TypeOK
  <1> QED
    BY <1>1, <1>2, <1>3, <1>4, <1>5, <1>6, <1>7 DEF Next, Call, Library
(* The array keeps its order, and the live configuration its parameters,   *)
(* under every sequence of set, unset, connect, disconnect and unload.     *)
THEOREM ParamsInvariance == Spec => []IndInv
  <1>1. IndInv /\ [Next]_vars => IndInv'
    BY NextIndInv
  <1> QED
    BY <1>1, InitIndInv, PTL DEF Spec

(* kafka_table_set_param() and kafka_table_unset_param() keep one entry    *)
(* for each name.                                                          *)
THEOREM OneEntryForEachName == Spec => []OneEntryPerName
  <1>1. IndInv => OneEntryPerName
    BY DEF IndInv
  <1> QED
    BY <1>1, ParamsInvariance, PTL

(* While connected, the array is what the producer was built from.         *)
THEOREM ParametersAreFrozen == Spec => []FrozenWhileConnected
  <1>1. IndInv => FrozenWhileConnected
    BY DEF IndInv
  <1> QED
    BY <1>1, ParamsInvariance, PTL

-----------------------------------------------------------------------------
Unique(ps) == \A i, j \in DOMAIN ps : ps[i].name = ps[j].name => i = j

(* The value of a name is that of its entry.                               *)
LEMMA ValueOfEntry ==
  ASSUME NEW ps, Unique(ps), NEW i \in DOMAIN ps
  PROVE  ValueIn(ps, ps[i].name) = ps[i].value
  <1>1. Holds(ps, ps[i].name) = {i}
    BY DEF Holds, Unique
  <1> QED
    BY <1>1 DEF ValueIn

(* A name without an entry has no value.                                   *)
LEMMA ValueOfNoEntry ==
  ASSUME NEW ps, NEW n, \A i \in DOMAIN ps : ps[i].name # n
  PROVE  ValueIn(ps, n) = None
  BY DEF ValueIn, Holds

(* Two arrays with the same entries for a name give it the same value.     *)
LEMMA SameValue ==
  ASSUME NEW ps, NEW qs, Unique(ps), Unique(qs), NEW n,
         \A i \in DOMAIN ps : ps[i].name = n =>
           \E j \in DOMAIN qs : qs[j] = ps[i],
         \A j \in DOMAIN qs : qs[j].name = n =>
           \E i \in DOMAIN ps : ps[i] = qs[j]
  PROVE  ValueIn(qs, n) = ValueIn(ps, n)
  <1>1. CASE \E i \in DOMAIN ps : ps[i].name = n
    <2>1. PICK i \in DOMAIN ps : ps[i].name = n
      BY <1>1
    <2>2. PICK j \in DOMAIN qs : qs[j] = ps[i]
      BY <2>1
    <2>3. ValueIn(ps, ps[i].name) = ps[i].value
      BY ValueOfEntry
    <2>4. ValueIn(qs, qs[j].name) = qs[j].value
      BY ValueOfEntry
    <2> QED
      BY <2>1, <2>2, <2>3, <2>4
  <1>2. CASE \A i \in DOMAIN ps : ps[i].name # n
    <2>1. \A j \in DOMAIN qs : qs[j].name # n
      BY <1>2
    <2> QED
      BY <1>2, <2>1, ValueOfNoEntry
  <1> QED
    BY <1>1, <1>2

(* What a parameter of the array configures, ParamMap names.               *)
LEMMA ConnectHonours ==
  ASSUME IndInv, NEW b \in Value, conf' = Configured(params, b)
  PROVE  Map!Honours(conf', b)
  <1> SUFFICES ASSUME NEW x \in Setting
               PROVE  IF Map!Named(x) # {}
                      THEN \E n \in Map!Named(x) : conf'[x] = ValueIn(params, n)
                      ELSE conf'[x] = IF x = Bootstrap THEN b ELSE Default[x]
    BY DEF Map!Honours, Map!Named
  <1>0. Unique(params) /\ TypeOK
    BY DEF IndInv, OneEntryPerName, Unique
  <1>1. CASE Assigned(params, x) # {}
    <2> DEFINE i == LastOf(Assigned(params, x))
    <2>1. i \in Assigned(params, x) /\ i \in DOMAIN params
      BY <1>0, <1>1, LastOfIsLast DEF TypeOK
    <2> HIDE DEF i
    <2>2. params[i] \in Param
      BY <1>0, <2>1 DEF TypeOK
    <2>3. params[i].name \in Name /\ params[i].value # None
          /\ SettingOf[params[i].name] = x
      BY <2>1, <2>2, ParamsAssumption DEF Param, Assigned
    <2>4. ValueIn(params, params[i].name) = params[i].value
      BY <1>0, <2>1, ValueOfEntry
    <2>5. params[i].name \in Map!Named(x)
      BY <2>3, <2>4 DEF Map!Named
    <2>6. conf'[x] = params[i].value
      BY <1>1 DEF Configured, i
    <2> QED
      BY <2>4, <2>5, <2>6
  <1>2. CASE Assigned(params, x) = {}
    <2>1. ASSUME NEW n \in Name, SettingOf[n] = x PROVE ValueIn(params, n) = None
      <3>1. \A i \in DOMAIN params : params[i].name # n
        BY <1>2, <2>1 DEF Assigned
      <3> QED
        BY <3>1, ValueOfNoEntry
    <2>2. Map!Named(x) = {}
      BY <2>1 DEF Map!Named
    <2>3. conf'[x] = IF x = Bootstrap THEN b ELSE Default[x]
      BY <1>2 DEF Configured
    <2> QED
      BY <2>2, <2>3
  <1> QED
    BY <1>1, <1>2

(* Every step of the array is a step of the map, or none.                  *)
LEMMA StepRefines ==
  ASSUME IndInv, IndInv', [Next]_vars PROVE [Map!Next]_(Map!mapVars)
  <1>0. /\ TypeOK /\ TypeOK' /\ Unique(params) /\ Unique(params')
    BY DEF IndInv, OneEntryPerName, Unique
  <1>a. ASSUME UNCHANGED <<params, conf>> PROVE UNCHANGED Map!mapVars
    BY <1>a DEF Map!mapVars
  <1>b. ASSUME UNCHANGED params, conf' = None PROVE Map!Next
    BY <1>b DEF Map!Next, Map!Disconnect
  <1>1. ASSUME NEW s \in Session, NEW n \in Name, NEW v \in Value,
               kafka_table_set_param(s, n, v)
        PROVE  Map!Next
    <2>0. conf = None /\ conf' = conf /\ MaySet(n, v)
      BY <1>1 DEF kafka_table_set_param, set_param_replace, set_param_append,
           MaySet
    <2>1. \E k \in DOMAIN params' :
            /\ params'[k] = [name |-> n, value |-> v]
            /\ \A j \in DOMAIN params' \ {k} :
                 j \in DOMAIN params /\ params'[j] = params[j]
            /\ \A j \in DOMAIN params :
                 params[j].name # n => j \in DOMAIN params' \ {k}
      <3>1. CASE set_param_replace(s, n, v)
        <4>1. PICK i \in At(n) :
                params' = [params EXCEPT ![i] = [name |-> n, value |-> v]]
          BY <3>1 DEF set_param_replace
        <4>2. i \in DOMAIN params /\ params[i].name = n
          BY DEF At, Holds
        <4>3. /\ DOMAIN params' = DOMAIN params
              /\ \A j \in DOMAIN params :
                   params'[j] = IF j = i THEN [name |-> n, value |-> v]
                                ELSE params[j]
          BY <2>0, <4>1, ReplaceKeeps
        <4> QED
          BY <4>2, <4>3
      <3>2. CASE set_param_append(s, n, v)
        <4>1. /\ DOMAIN params' = DOMAIN params \cup {Len(params) + 1}
              /\ Len(params) + 1 \notin DOMAIN params
              /\ \A j \in DOMAIN params : params'[j] = params[j]
              /\ params'[Len(params) + 1] = [name |-> n, value |-> v]
          BY <2>0, <3>2, AppendKeeps DEF set_param_append
        <4> QED
          BY <4>1
      <3> QED
        BY <1>1, <3>1, <3>2 DEF kafka_table_set_param
    <2>2. PICK k \in DOMAIN params' :
            /\ params'[k] = [name |-> n, value |-> v]
            /\ \A j \in DOMAIN params' \ {k} :
                 j \in DOMAIN params /\ params'[j] = params[j]
            /\ \A j \in DOMAIN params :
                 params[j].name # n => j \in DOMAIN params' \ {k}
      BY <2>1
    <2>3. ValueIn(params', n) = v
      <3>1. ValueIn(params', params'[k].name) = params'[k].value
        BY <1>0, ValueOfEntry
      <3> QED
        BY <2>2, <3>1
    <2>4. ASSUME NEW m \in Name, m # n
          PROVE  ValueIn(params', m) = ValueIn(params, m)
      <3>1. \A i \in DOMAIN params : params[i].name = m =>
              \E j \in DOMAIN params' : params'[j] = params[i]
        BY <2>2, <2>4
      <3>2. \A j \in DOMAIN params' : params'[j].name = m =>
              \E i \in DOMAIN params : params[i] = params'[j]
        BY <2>2, <2>4
      <3> QED
        BY <1>0, <3>1, <3>2, SameValue
    <2>5. Map!Set(n, v)
      BY <2>0, <2>3, <2>4 DEF Map!Set
    <2> QED
      BY <2>5 DEF Map!Next
  <1>2. ASSUME NEW s \in Session, NEW n \in Name, kafka_table_unset_param(s, n)
        PROVE  Map!Next
    <2>1. PICK i \in At(n) : params' = Without(i)
      BY <1>2 DEF kafka_table_unset_param
    <2>2. i \in DOMAIN params /\ params[i].name = n
      BY DEF At, Holds
    <2>3. /\ \A j \in DOMAIN params' : \E l \in DOMAIN params :
               l # i /\ params'[j] = params[l]
          /\ \A l \in DOMAIN params \ {i} : \E j \in DOMAIN params' :
               params'[j] = params[l]
      BY <2>1, WithoutKeeps
    <2>4. ValueIn(params', n) = None
      <3>1. \A j \in DOMAIN params' : params'[j].name # n
        BY <1>0, <2>2, <2>3 DEF Unique
      <3> QED
        BY <3>1, ValueOfNoEntry
    <2>5. ASSUME NEW m \in Name, m # n
          PROVE  ValueIn(params', m) = ValueIn(params, m)
      <3>1. \A l \in DOMAIN params : params[l].name = m =>
              \E j \in DOMAIN params' : params'[j] = params[l]
        BY <2>2, <2>3, <2>5
      <3>2. \A j \in DOMAIN params' : params'[j].name = m =>
              \E l \in DOMAIN params : params[l] = params'[j]
        BY <2>3
      <3> QED
        BY <1>0, <3>1, <3>2, SameValue
    <2>6. Map!Set(n, None)
      BY <1>2, <2>4, <2>5 DEF Map!Set, kafka_table_unset_param
    <2> QED
      BY <2>6 DEF Map!Next
  <1>3. ASSUME NEW s \in Session, NEW b \in Value, kafka_table_connect(s, b)
        PROVE  Map!Next
    <2>1. conf = None /\ conf' = Configured(params, b) /\ UNCHANGED params
      BY <1>3 DEF kafka_table_connect
    <2>2. Map!Honours(conf', b)
      BY <2>1, ConnectHonours
    <2>3. conf' \in [Setting -> Value]
      BY <1>0, <2>1, ConfiguredType DEF IndInv
    <2>4. Map!Connect(b)
      BY <2>1, <2>2, <2>3 DEF Map!Connect
    <2> QED
      BY <2>4 DEF Map!Next
  <1>4. CASE kafka_table_clear_params_locked
    <2>1. params' = <<>> /\ conf = None /\ conf' = conf
      BY <1>4 DEF kafka_table_clear_params_locked, IndInv
    <2>2. \A n \in Name : ValueIn(params', n) = None
      BY <2>1, ValueOfNoEntry
    <2> QED
      BY <2>1, <2>2 DEF Map!Next, Map!Forget
  <1>5. ASSUME NEW s \in Session,
               \/ kafka_connection_param_init(s) \/ kafka_connect_init(s)
               \/ deinit(s)
        PROVE  UNCHANGED Map!mapVars
    BY <1>a, <1>5 DEF kafka_connection_param_init, kafka_connect_init, deinit
  <1>6. ASSUME NEW s \in Session, kafka_disconnect(s) PROVE Map!Next
    BY <1>b, <1>6 DEF kafka_disconnect
  <1>7. CASE kafka_table_shutdown
    BY <1>b, <1>7 DEF kafka_table_shutdown
  <1>8. CASE kafka_module_load \/ UNCHANGED vars
    BY <1>a, <1>8 DEF kafka_module_load, vars
  <1> QED
    BY <1>1, <1>2, <1>3, <1>4, <1>5, <1>6, <1>7, <1>8 DEF Next, Call,
       Library

(* The array that is searched, overwritten, swapped and applied in order   *)
(* implements the map the documentation describes.                         *)
THEOREM ParamsImplementMap == Spec => ImplementsParamMap
  <1>1. Init => Map!Init
    BY ValueOfNoEntry DEF Init, Map!Init
  <1>2. IndInv /\ IndInv' /\ [Next]_vars => [Map!Next]_(Map!mapVars)
    BY StepRefines
  <1> QED
    BY <1>1, <1>2, ParamsInvariance, PTL
       DEF Spec, ImplementsParamMap, Map!Spec

-----------------------------------------------------------------------------
(* A set of places in an array has a last one.                             *)
LEMMA LastOfPlaces ==
  ASSUME NEW ps \in Seq(Param), NEW I \in SUBSET DOMAIN ps, I # {}
  PROVE  LastOf(I) \in I /\ \A j \in I : j <= LastOf(I)
  <1>1. I \in SUBSET (1 .. Len(ps)) /\ Len(ps) \in Nat
    OBVIOUS
  <1>2. \E m \in I : \A j \in I : j <= m
    BY <1>1, GreatestExists
  <1> QED BY <1>2 DEF LastOf

(* ... and no other.                                                       *)
LEMMA LastOfIsThis ==
  ASSUME NEW ps \in Seq(Param), NEW I \in SUBSET DOMAIN ps,
         NEW m \in I, \A j \in I : j <= m
  PROVE  LastOf(I) = m
  <1>1. LastOf(I) \in I /\ \A j \in I : j <= LastOf(I)
    BY LastOfPlaces
  <1>2. \A j \in I : j \in Int
    OBVIOUS
  <1> QED BY <1>1, <1>2

(* What filling the hole with the last entry does to a setting that the    *)
(* removed entry had no part in.                                           *)
LEMMA FillingYields ==
  ASSUME NEW ps \in Seq(Param), NEW qs \in Seq(Param), NEW i \in DOMAIN ps,
         qs = [j \in 1 .. Len(ps) - 1 |-> IF j = i THEN ps[Len(ps)] ELSE ps[j]],
         NEW x \in Setting, SettingOf[ps[i].name] # x, NEW b \in Value
  PROVE  Configured(qs, b)[x] =
           IF Len(ps) \in Assigned(ps, x) /\ Between(ps, x, i) # {}
           THEN ps[LastOf(Between(ps, x, i))].value
           ELSE Configured(ps, b)[x]
  <1> DEFINE k == Len(ps)  A == Assigned(ps, x)  C == Assigned(qs, x)
             B == Between(ps, x, i)
  <1>1. /\ k \in Nat /\ DOMAIN ps = 1 .. k /\ i \in 1 .. k
        /\ DOMAIN qs = 1 .. k - 1
        /\ \A j \in 1 .. k - 1 : qs[j] = IF j = i THEN ps[k] ELSE ps[j]
    OBVIOUS
  <1>2. /\ A \in SUBSET DOMAIN ps /\ C \in SUBSET DOMAIN qs /\ i \notin A
        /\ \A j \in 1 .. k : j \in A <=> SettingOf[ps[j].name] = x
        /\ \A j \in 1 .. k - 1 : j \in C <=> SettingOf[qs[j].name] = x
    BY <1>1 DEF Assigned
  <1>3. B \in SUBSET A /\ \A j \in A : j \in B <=> i < j /\ j < k
    BY DEF Between
  <1>4. /\ Configured(ps, b)[x] = IF A # {} THEN ps[LastOf(A)].value
                                 ELSE IF x = Bootstrap THEN b ELSE Default[x]
        /\ Configured(qs, b)[x] = IF C # {} THEN qs[LastOf(C)].value
                                 ELSE IF x = Bootstrap THEN b ELSE Default[x]
    BY DEF Configured
  <1> HIDE DEF A, B, C, k
  <1>5. CASE k \notin A
    <2>1. A = C
      <3>1. \A j \in A : j \in C
        <4> TAKE j \in A
        <4>1. j \in 1 .. k - 1 /\ j # i
          BY <1>1, <1>2, <1>5
        <4> QED BY <1>1, <1>2, <4>1
      <3>2. \A j \in C : j \in A
        <4> TAKE j \in C
        <4>1. j \in 1 .. k - 1 /\ j \in 1 .. k /\ k \in 1 .. k
          BY <1>1, <1>2
        <4>2. j # i
          BY <1>1, <1>2, <1>5, <4>1
        <4> QED BY <1>1, <1>2, <4>1, <4>2
      <3> QED BY <3>1, <3>2
    <2>2. ASSUME A # {} PROVE qs[LastOf(C)] = ps[LastOf(A)]
      <3>1. LastOf(A) \in A
        BY <1>2, <2>2, LastOfPlaces
      <3>2. LastOf(A) \in 1 .. k - 1 /\ LastOf(A) # i
        BY <1>1, <1>2, <1>5, <3>1
      <3> QED BY <1>1, <2>1, <3>2
    <2> QED BY <1>4, <1>5, <2>1, <2>2 DEF A, B, C, k
  <1>6. CASE k \in A
    <2>1. i \in 1 .. k - 1 /\ i # k
      BY <1>1, <1>2, <1>6
    <2>2. i \in C /\ qs[i] = ps[k]
      BY <1>1, <1>2, <1>6, <2>1
    <2>3. \A j \in 1 .. k - 1 : j # i => qs[j] = ps[j] /\ (j \in C <=> j \in A)
      BY <1>1, <1>2
    <2>4. LastOf(A) = k
      <3>1. \A j \in A : j <= k
        BY <1>1, <1>2
      <3> QED BY <1>2, <1>6, <3>1, LastOfIsThis
    <2>5. Configured(ps, b)[x] = ps[k].value
      BY <1>4, <1>6, <2>4
    <2>6. CASE B = {}
      <3>1. \A j \in C : j <= i
        <4> TAKE j \in C
        <4>1. j \in 1 .. k - 1
          BY <1>1, <1>2
        <4>2. j # i => j \in A /\ j \notin B
          BY <2>3, <2>6, <4>1
        <4>3. j # i => ~(i < j)
          BY <1>1, <1>3, <4>1, <4>2
        <4> QED BY <1>1, <4>1, <4>3
      <3>2. LastOf(C) = i
        BY <1>2, <2>2, <3>1, LastOfIsThis
      <3>3. Configured(qs, b)[x] = ps[k].value
        BY <1>4, <2>2, <3>2
      <3> QED BY <2>5, <2>6, <3>3 DEF A, B, k
    <2>7. CASE B # {}
      <3> DEFINE m == LastOf(B)
      <3>1. m \in B /\ \A j \in B : j <= m
        BY <1>2, <1>3, <2>7, LastOfPlaces
      <3> HIDE DEF m
      <3>2. m \in A /\ m \in 1 .. k - 1 /\ i < m /\ m # i
        BY <1>1, <1>2, <1>3, <3>1
      <3>3. m \in C /\ qs[m] = ps[m]
        BY <2>3, <3>2
      <3>4. \A j \in C : j <= m
        <4> TAKE j \in C
        <4>1. j \in 1 .. k - 1
          BY <1>1, <1>2
        <4>2. CASE j <= i
          BY <1>1, <3>2, <4>1, <4>2
        <4>3. CASE ~(j <= i)
          <5>1. j # i /\ i < j /\ j < k
            BY <1>1, <4>1, <4>3
          <5>2. j \in B
            BY <1>3, <2>3, <4>1, <5>1
          <5> QED BY <3>1, <5>2
        <4> QED BY <4>2, <4>3
      <3>5. LastOf(C) = m
        BY <1>2, <3>3, <3>4, LastOfIsThis
      <3>6. Configured(qs, b)[x] = ps[m].value
        BY <1>4, <3>3, <3>5
      <3> QED BY <1>6, <2>7, <3>6 DEF A, B, k, m
    <2> QED BY <2>6, <2>7
  <1> QED BY <1>5, <1>6

(* kafka-table.c:577: how far "order is not significant" is true, for any  *)
(* names, aliases among them, and any history of the array: a removal      *)
(* changes another setting only where the entry that fills the hole moves  *)
(* in front of an alias, and then to the value of that alias.              *)
THEOREM OrderMattersToAliasesOnly == Spec => RemovalYieldsToAliases
  <1> DEFINE Yields ==
        \A n \in Names, b \in Value :
          Removes(n) =>
            \A i \in At(n), x \in Setting \ {SettingOf[n]} :
              Configured(params', b)[x] =
                IF Len(params) \in Assigned(params, x) /\ Between(params, x, i) # {}
                THEN params[LastOf(Between(params, x, i))].value
                ELSE Configured(params, b)[x]
  <1>1. ASSUME IndInv, IndInv', [Next]_vars
        PROVE  Yields \/ UNCHANGED params
    <2>1. SUFFICES ASSUME NEW n \in Names, NEW b \in Value, Removes(n),
                          NEW i \in At(n), NEW x \in Setting \ {SettingOf[n]},
                          params' # params
                   PROVE  Configured(params', b)[x] =
                            IF Len(params) \in Assigned(params, x)
                                 /\ Between(params, x, i) # {}
                            THEN params[LastOf(Between(params, x, i))].value
                            ELSE Configured(params, b)[x]
      OBVIOUS
    <2>2. /\ params \in Seq(Param) /\ params' \in Seq(Param)
          /\ OneEntryPerName
          /\ i \in DOMAIN params /\ params[i].name = n
      BY <1>1 DEF IndInv, TypeOK, At, Holds
    <2>3. {params'[j].name : j \in DOMAIN params'} = Names \ {n}
      BY <2>1 DEF Removes, Names
    <2>4. CASE \E s \in Session, m \in Name : kafka_table_unset_param(s, m)
      <3>1. PICK s \in Session, m \in Name : kafka_table_unset_param(s, m)
        BY <2>4
      <3>2. PICK h \in At(m) : params' = Without(h)
        BY <3>1 DEF kafka_table_unset_param
      <3>3. h \in DOMAIN params /\ params[h].name = m
        BY DEF At, Holds
      <3>4. \A l \in DOMAIN params \ {h} : \E j \in DOMAIN params' :
              params'[j] = params[l]
        BY <1>1, <3>2, WithoutKeeps
      <3>5. i = h
        <4> SUFFICES ASSUME i # h PROVE FALSE
          OBVIOUS
        <4>1. \E j \in DOMAIN params' : params'[j].name = n
          BY <2>2, <3>4
        <4> QED BY <2>3, <4>1
      <3> QED BY <2>2, <3>2, <3>5, FillingYields DEF Without
    <2>5. CASE kafka_table_clear_params_locked
      <3>1. params' = <<>>
        BY <2>5 DEF kafka_table_clear_params_locked
      <3>2. \A l \in DOMAIN params : l = i
        BY <2>2, <2>3, <3>1 DEF Names, OneEntryPerName
      <3>3. Len(params) = i /\ Len(params) - 1 = 0
        <4>1. Len(params) \in Nat /\ DOMAIN params = 1 .. Len(params)
          BY <2>2
        <4>2. 1 \in DOMAIN params /\ Len(params) \in DOMAIN params
          BY <2>2, <4>1
        <4>3. 1 = i /\ Len(params) = i
          BY <3>2, <4>2
        <4> QED BY <4>3
      <3>4. params' = [j \in 1 .. Len(params) - 1 |->
                         IF j = i THEN params[Len(params)] ELSE params[j]]
        BY <3>1, <3>3
      <3> QED BY <2>2, <3>4, FillingYields
    <2>6. CASE \E s \in Session, m \in Name, v \in Value :
                 kafka_table_set_param(s, m, v)
      <3>1. PICK s \in Session, m \in Name, v \in Value :
              kafka_table_set_param(s, m, v)
        BY <2>6
      <3>2. Names \subseteq {params'[j].name : j \in DOMAIN params'}
        <4>1. CASE set_param_replace(s, m, v)
          <5>1. PICK h \in At(m) :
                  params' = [params EXCEPT ![h] = [name |-> m, value |-> v]]
            BY <4>1 DEF set_param_replace
          <5>2. /\ params[h].name = m /\ DOMAIN params' = DOMAIN params
                /\ \A j \in DOMAIN params :
                     params'[j] = IF j = h THEN [name |-> m, value |-> v]
                                  ELSE params[j]
            BY <1>1, <4>1, <5>1, ReplaceKeeps DEF set_param_replace, At, Holds
          <5>3. \A j \in DOMAIN params :
                  j \in DOMAIN params' /\ params'[j].name = params[j].name
            BY <5>2
          <5> QED BY <5>3 DEF Names
        <4>2. CASE set_param_append(s, m, v)
          <5>1. \A j \in DOMAIN params :
                  j \in DOMAIN params' /\ params'[j] = params[j]
            BY <1>1, <4>2, AppendKeeps DEF set_param_append
          <5> QED BY <5>1 DEF Names
        <4> QED BY <3>1, <4>1, <4>2 DEF kafka_table_set_param
      <3> QED BY <2>3, <3>2
    <2>7. CASE /\ ~ \E s \in Session, m \in Name : kafka_table_unset_param(s, m)
               /\ ~ \E s \in Session, m \in Name, v \in Value :
                      kafka_table_set_param(s, m, v)
               /\ ~ kafka_table_clear_params_locked
      <3>1. params' = params
        BY <1>1, <2>7 DEF Next, Call, Library, kafka_connection_param_init,
               kafka_connect_init, kafka_table_connect, deinit,
               kafka_disconnect, kafka_table_shutdown, kafka_module_load, vars
      <3> QED BY <2>1, <3>1
    <2> QED BY <2>4, <2>5, <2>6, <2>7
  <1>2. ASSUME IndInv, IndInv', [Next]_vars PROVE [Yields]_params
    BY <1>1, <1>2
  <1>3. RemovalYieldsToAliases <=> [][Yields]_params
    BY DEF RemovalYieldsToAliases
  <1> HIDE DEF Yields
  <1> QED BY <1>2, <1>3, ParamsInvariance, PTL DEF Spec
=============================================================================
