------------------------------- MODULE ParamMap -------------------------------
(***************************************************************************)
(* What the connection parameters promise: a map from names to values that *)
(* can be changed only while disconnected, survives a disconnect, and is   *)
(* honoured by every producer.  How two names of one librdkafka setting    *)
(* are resolved is left open.                                              *)
(***************************************************************************)
CONSTANTS
  Name, Value,
  Setting,      \* what librdkafka configures
  SettingOf,    \* the setting a name stands for
  Default,      \* what tek_kafka_producer_create() sets
  Bootstrap,    \* the setting kafka_connect() is called with
  None

VARIABLES
  value,        \* the value of each name, None if it has none
  live          \* configuration of the producer, None if disconnected

mapVars == <<value, live>>

Named(x) == {n \in Name : SettingOf[n] = x /\ value[n] # None}

(* A named setting has one of the values given, any other its default.     *)
Honours(conf, brokers) ==
  \A x \in Setting :
    IF Named(x) # {} THEN \E n \in Named(x) : conf[x] = value[n]
    ELSE conf[x] = IF x = Bootstrap THEN brokers ELSE Default[x]

Init == value = [n \in Name |-> None] /\ live = None

Set(n, v) ==
  /\ live = None
  /\ value' = [value EXCEPT ![n] = v]
  /\ UNCHANGED live

Connect(brokers) ==
  /\ live = None
  /\ live' \in [Setting -> Value]
  /\ Honours(live', brokers)
  /\ UNCHANGED value

Disconnect == live' = None /\ UNCHANGED value

(* The library is unloaded.                                                *)
Forget ==
  /\ live = None
  /\ value' = [n \in Name |-> None]
  /\ UNCHANGED live

Next ==
  \/ \E n \in Name, v \in Value \cup {None} : Set(n, v)
  \/ \E brokers \in Value : Connect(brokers)
  \/ Disconnect
  \/ Forget

Spec == Init /\ [][Next]_mapVars
=============================================================================
