----------------------------- MODULE KafkaParams -----------------------------
(***************************************************************************)
(* The connection parameters of TrigEmit-Kafka (kafka-table.c,             *)
(* kafka-cmd-param.c): the array kt.params, the calls that change it, and  *)
(* what kafka_connect() makes of it.  No callback runs inside these        *)
(* functions, so a critical section is one step.                           *)
(***************************************************************************)
EXTENDS Naturals, Sequences

CONSTANTS
  Session,      \* threads of the server that evaluate the UDFs
  Name, Value,  \* property names and values
  Accepted,     \* the pairs rd_kafka_conf_set() takes
  Setting,      \* what librdkafka configures
  SettingOf,    \* the setting a name stands for: librdkafka knows aliases
  Default,      \* what tek_kafka_producer_create() sets
  Bootstrap,    \* the setting of bootstrap.servers
  None          \* NULL, SQL's or C's

ASSUME ParamsAssumption ==
  /\ Accepted \subseteq Name \X Value
  /\ SettingOf \in [Name -> Setting]
  /\ Default \in [Setting -> Value]
  /\ Bootstrap \in Setting
  /\ None \notin Value \cup [Setting -> Value]

VARIABLES
  params,       \* kt.params
  conf,         \* configuration of kt.producer, None for NULL
  brokers,      \* kt.producer->brokers
  module,       \* whether kafka.so is mapped
  pc            \* per session: the UDF whose _init() it has passed

vars == <<params, conf, brokers, module, pc>>

Param == [name : Name, value : Value]

Goto(s, label) == pc' = [pc EXCEPT ![s] = label]

(* Where a name is in an array, and in kt.params.                          *)
Holds(ps, n) == {i \in DOMAIN ps : ps[i].name = n}

At(n) == Holds(params, n)

Assigned(ps, x) == {i \in DOMAIN ps : SettingOf[ps[i].name] = x}

LastOf(I) == CHOOSE i \in I : \A j \in I : j <= i

(* The defaults are applied after the parameters (for the mutation of      *)
(* Configured).                                                            *)
ConfiguredDefaultsLast(ps, b) ==
  [x \in Setting |-> IF x = Bootstrap THEN b ELSE Default[x]]

(* The defaults, then every parameter in the order of the array: the last  *)
(* assignment to a setting stands.                                         *)
Configured(ps, b) ==
  [x \in Setting |->
     IF Assigned(ps, x) # {} THEN ps[LastOf(Assigned(ps, x))].value
     ELSE IF x = Bootstrap THEN b ELSE Default[x]]

-----------------------------------------------------------------------------
Init ==
  /\ params = <<>>
  /\ conf = None /\ brokers = None
  /\ module = "loaded"
  /\ pc = [s \in Session |-> "idle"]

(***************************************************************************)
(* kafka_connection_param(): _init() looks at the connection without       *)
(* keeping the lock; then every row sets or, with a NULL value, removes a  *)
(* parameter.  The check of literal arguments at _init() only ends the     *)
(* statement earlier.                                                      *)
(***************************************************************************)
kafka_connection_param_init(s) ==
  /\ pc[s] = "idle" /\ module = "loaded"
  /\ conf = None
  /\ Goto(s, "param")
  /\ UNCHANGED <<params, conf, brokers, module>>

(* Trusts the look at _init() (for the mutation of MaySet).                *)
MaySetConnected(n, v) == <<n, v>> \in Accepted

(* kafka_table_validate_param() before the lock, the live producer under   *)
(* it.  Running out of memory leaves the array as it was.                  *)
MaySet(n, v) == <<n, v>> \in Accepted /\ conf = None

set_param_replace(s, n, v) ==
  /\ pc[s] = "param"
  /\ MaySet(n, v)
  /\ \E i \in At(n) : params' = [params EXCEPT ![i] = [name |-> n, value |-> v]]
  /\ UNCHANGED <<conf, brokers, module, pc>>

set_param_append(s, n, v) ==
  /\ pc[s] = "param"
  /\ MaySet(n, v)
  /\ At(n) = {}
  /\ params' = Append(params, [name |-> n, value |-> v])
  /\ UNCHANGED <<conf, brokers, module, pc>>

kafka_table_set_param(s, n, v) ==
  set_param_replace(s, n, v) \/ set_param_append(s, n, v)

(* The freed entry stays (for the mutation of Without).                    *)
WithoutFilling(i) ==
  [params EXCEPT ![i] = [name |-> None, value |-> None]]

(* The count stays (for the mutation of Without).                          *)
WithoutShrinking(i) == [params EXCEPT ![i] = params[Len(params)]]

(* The last entry fills the hole.                                          *)
Without(i) ==
  [j \in 1 .. Len(params) - 1 |->
     IF j = i THEN params[Len(params)] ELSE params[j]]

kafka_table_unset_param(s, n) ==
  /\ pc[s] = "param"
  /\ conf = None
  /\ \E i \in At(n) : params' = Without(i)
  /\ UNCHANGED <<conf, brokers, module, pc>>

-----------------------------------------------------------------------------
kafka_connect_init(s) ==
  /\ pc[s] = "idle" /\ module = "loaded"
  /\ conf = None
  /\ Goto(s, "connect")
  /\ UNCHANGED <<params, conf, brokers, module>>

(* A parameter librdkafka refuses, or any other failure, disposes what was *)
(* built and leaves everything as it was.                                  *)
kafka_table_connect(s, b) ==
  /\ pc[s] = "connect"
  /\ conf = None
  /\ \A i \in DOMAIN params : <<params[i].name, params[i].value>> \in Accepted
  /\ conf' = Configured(params, b)
  /\ brokers' = b
  /\ UNCHANGED <<params, module, pc>>

(* The end of a statement: nothing is kept between calls.                  *)
deinit(s) ==
  /\ pc[s] # "idle"
  /\ Goto(s, "idle")
  /\ UNCHANGED <<params, conf, brokers, module>>

(* kafka_table_dismiss_all(): the parameters survive.                      *)
kafka_disconnect(s) ==
  /\ pc[s] = "idle" /\ module = "loaded"
  /\ conf' = None /\ brokers' = None
  /\ UNCHANGED <<params, module, pc>>

(* The library destructor disconnects, lets the lock go, takes it again    *)
(* and clears the array; dlclose() runs it when no function is in use.     *)
kafka_table_shutdown ==
  /\ module = "loaded"
  /\ \A s \in Session : pc[s] = "idle"
  /\ conf' = None /\ brokers' = None
  /\ module' = "unloading"
  /\ UNCHANGED <<params, pc>>

kafka_table_clear_params_locked ==
  /\ module = "unloading"
  /\ params' = <<>>
  /\ module' = "unloaded"
  /\ UNCHANGED <<conf, brokers, pc>>

kafka_module_load ==
  /\ module = "unloaded"
  /\ module' = "loaded"
  /\ UNCHANGED <<params, conf, brokers, pc>>

-----------------------------------------------------------------------------
(* What a session can do.                                                  *)
Call(s) ==
  \/ kafka_connection_param_init(s)
  \/ \E n \in Name, v \in Value : kafka_table_set_param(s, n, v)
  \/ \E n \in Name : kafka_table_unset_param(s, n)
  \/ kafka_connect_init(s)
  \/ \E b \in Value : kafka_table_connect(s, b)
  \/ deinit(s)
  \/ kafka_disconnect(s)

Library ==
  kafka_table_shutdown \/ kafka_table_clear_params_locked \/ kafka_module_load

Next == Library \/ \E s \in Session : Call(s)

Spec == Init /\ [][Next]_vars

-----------------------------------------------------------------------------
(* The state space: every variable in its range.                           *)
TypeOK ==
  /\ params \in Seq(Param)
  /\ conf \in [Setting -> Value] \cup {None}
  /\ brokers \in Value \cup {None}
  /\ module \in {"loaded", "unloading", "unloaded"}
  /\ pc \in [Session -> {"idle", "param", "connect"}]

(* README.md, "Setting the same property twice replaces the earlier        *)
(* value": whatever was set, replaced and removed before, a name has at    *)
(* most one entry, so removing it removes it (kafka_table_unset_param()).  *)
OneEntryPerName ==
  \A i, j \in DOMAIN params : params[i].name = params[j].name => i = j

(* kafka-table.c:198-199: a bad property "is reported here rather than at  *)
(* connect time": librdkafka takes every parameter kafka_connect() will    *)
(* apply.                                                                  *)
RefusedEarly ==
  \A i \in DOMAIN params : <<params[i].name, params[i].value>> \in Accepted

(* README.md, "kafka_connect() freezes them": what the array shows while   *)
(* connected is what the producer was built from, also when the call       *)
(* passed its _init() before another session connected.                    *)
FrozenWhileConnected == conf # None => conf = Configured(params, brokers)

Names == {params[i].name : i \in DOMAIN params}

Removes(n) == Names' = Names \ {n}

(* kafka-table.c:577: "The last entry fills the hole: order is not         *)
(* significant".  Removing a parameter leaves every other setting of the   *)
(* next producer alone.                                                    *)
RemovalKeepsTheRest ==
  [][\A n \in Names, b \in Value :
       Removes(n) =>
         \A x \in Setting \ {SettingOf[n]} :
           Configured(params', b)[x] = Configured(params, b)[x]]_params

(* Who gave a setting its value before the last entry, after the i-th.     *)
Between(ps, x, i) == {j \in Assigned(ps, x) : i < j /\ j < Len(ps)}

(* How far that is true.  The last entry, which kafka_table_unset_param()  *)
(* moves into the hole, loses its say to an alias it moves in front of;    *)
(* every other setting of the next producer stays as it was, whatever was  *)
(* set, replaced and removed before.                                       *)
RemovalYieldsToAliases ==
  [][\A n \in Names, b \in Value :
       Removes(n) =>
         \A i \in At(n), x \in Setting \ {SettingOf[n]} :
           Configured(params', b)[x] =
             IF Len(params) \in Assigned(params, x) /\ Between(params, x, i) # {}
             THEN params[LastOf(Between(params, x, i))].value
             ELSE Configured(params, b)[x]]_params

-----------------------------------------------------------------------------
(* The inductive invariant: a map, checked, and frozen while connected     *)
(* (kafka_table_set_param()); no session is in a call while the library is *)
(* away.                                                                   *)
IndInv ==
  /\ TypeOK
  /\ OneEntryPerName /\ RefusedEarly /\ FrozenWhileConnected
  /\ module # "loaded" => conf = None /\ \A s \in Session : pc[s] = "idle"

-----------------------------------------------------------------------------
(* The value of a name in an array, as ParamMap sees it.                   *)
ValueIn(ps, n) ==
  IF Holds(ps, n) = {} THEN None ELSE ps[CHOOSE i \in Holds(ps, n) : TRUE].value

Map == INSTANCE ParamMap
         WITH value <- [n \in Name |-> ValueIn(params, n)], live <- conf

(* The array, with its replacing, swapping and applying in order, keeps    *)
(* the promise of ParamMap.                                                *)
ImplementsParamMap == Map!Spec
=============================================================================
