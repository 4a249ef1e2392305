----------------------- MODULE ProducerLifecycleProofs -----------------------
(***************************************************************************)
(* Building and taking apart a producer, proved for every set of sessions, *)
(* names, values and settings and every order of failures: nothing is lost *)
(* or destroyed twice, and the whole is one step of KafkaParams.           *)
(***************************************************************************)
EXTENDS ProducerLifecycle, Integers, TLAPS

-----------------------------------------------------------------------------
(* The last position of a set of positions.                                *)
LEMMA LastOfIs ==
  ASSUME NEW I \in SUBSET Nat, NEW m \in I, \A j \in I : j <= m
  PROVE  Atomic!LastOf(I) = m
  <1>1. \A n \in I : (\A j \in I : j <= n) => n = m
    OBVIOUS
  <1> QED
    BY <1>1 DEF Atomic!LastOf

(* Before the loop over kt.params there are the defaults.                  *)
LEMMA ConfiguredFirst ==
  ASSUME TypeOK
  PROVE  ConfiguredUpTo(1) = [Default EXCEPT ![Bootstrap] = list]
  <1>1. \A x \in Setting : Before(1, x) = {}
    BY DEF TypeOK, Before, Atomic!Assigned
  <1>2. ConfiguredUpTo(1) = [x \in Setting |-> IF x = Bootstrap THEN list
                                             ELSE Default[x]]
    BY <1>1 DEF ConfiguredUpTo
  <1> QED
    BY <1>2, LifecycleAssumption

(* One turn of the loop adds one parameter.                                *)
LEMMA ConfiguredStep ==
  ASSUME TypeOK, next \in DOMAIN params, settings = ConfiguredUpTo(next)
  PROVE  Overridden(params[next]) = ConfiguredUpTo(next + 1)
  <1> DEFINE y == SettingOf[params[next].name]
  <1>1. next \in Nat /\ DOMAIN params \in SUBSET Nat
    BY DEF TypeOK
  <1>2. y \in Setting
    <2>1. params[next] \in Atomic!Param
      BY DEF TypeOK
    <2> QED
      BY <2>1, LifecycleAssumption DEF Atomic!Param
  <1>3. Atomic!LastOf(Before(next + 1, y)) = next /\ Before(next + 1, y) # {}
    <2>1. /\ Before(next + 1, y) \in SUBSET Nat
          /\ next \in Before(next + 1, y)
          /\ \A j \in Before(next + 1, y) : j <= next
      BY <1>1 DEF Before, Atomic!Assigned
    <2> QED
      BY <2>1, LastOfIs
  <1>4. \A x \in Setting \ {y} : Before(next + 1, x) = Before(next, x)
    BY <1>1 DEF Before, Atomic!Assigned
  <1>5. settings = [x \in Setting |-> settings[x]]
    BY DEF ConfiguredUpTo
  <1>6. ConfiguredUpTo(next + 1)[y] = params[next].value
    BY <1>2, <1>3 DEF ConfiguredUpTo
  <1>7. \A x \in Setting \ {y} : ConfiguredUpTo(next + 1)[x] = settings[x]
    BY <1>4 DEF ConfiguredUpTo
  <1>8. ConfiguredUpTo(next + 1) = [x \in Setting |-> ConfiguredUpTo(next + 1)[x]]
    BY DEF ConfiguredUpTo
  <1> HIDE DEF y
  <1>9. Overridden(params[next]) = [settings EXCEPT ![y] = params[next].value]
    BY DEF Overridden, y
  <1> QED
    BY <1>2, <1>5, <1>6, <1>7, <1>8, <1>9

(* After the loop every parameter has been applied.                        *)
LEMMA ConfiguredLast ==
  ASSUME TypeOK, next > Len(params)
  PROVE  ConfiguredUpTo(next) = Atomic!Configured(params, list)
  <1>1. \A x \in Setting : Before(next, x) = Atomic!Assigned(params, x)
    BY DEF TypeOK, Before, Atomic!Assigned
  <1> QED
    BY <1>1 DEF ConfiguredUpTo, Atomic!Configured

(* What has been applied depends on the parameters and the broker list.    *)
LEMMA ConfiguredSame ==
  ASSUME params' = params, list' = list
  PROVE  /\ ConfiguredUpTo(next)' = ConfiguredUpTo(next')
         /\ Atomic!Configured(params, list)' = Atomic!Configured(params, list)
  BY DEF ConfiguredUpTo, Before, Atomic!Configured, Atomic!Assigned, Atomic!LastOf

(* The calls that change the array keep it one of names and values.        *)
LEMMA CallTypeOK == ASSUME TypeOK, NEW s \in Session, Call(s) PROVE TypeOK'
  <1>1. UNCHANGED <<engine, module>>
    BY DEF Call
  <1>2. pc' \in [Session -> {"idle", "param", "connect"}]
    BY DEF Call, TypeOK, Atomic!kafka_connection_param_init,
       Atomic!kafka_connect_init, Atomic!deinit, Atomic!Goto,
       Atomic!kafka_table_unset_param, Atomic!kafka_table_set_param,
       Atomic!set_param_replace, Atomic!set_param_append
  <1>3. ASSUME NEW n \in Name, NEW v \in Value, Atomic!kafka_table_set_param(s, n, v)
        PROVE  params' \in Seq(Atomic!Param)
    <2>1. [name |-> n, value |-> v] \in Atomic!Param
      BY DEF Atomic!Param
    <2>2. CASE Atomic!set_param_replace(s, n, v)
      BY <2>1, <2>2 DEF TypeOK, Atomic!set_param_replace, Atomic!At, Atomic!Holds
    <2>3. CASE Atomic!set_param_append(s, n, v)
      BY <2>1, <2>3 DEF TypeOK, Atomic!set_param_append
    <2> QED
      BY <1>3, <2>2, <2>3 DEF Atomic!kafka_table_set_param
  <1>4. ASSUME NEW n \in Name, Atomic!kafka_table_unset_param(s, n)
        PROVE  params' \in Seq(Atomic!Param)
    <2> DEFINE k == Len(params)
    <2>1. PICK i \in Atomic!At(n) : params' = Atomic!Without(i)
      BY <1>4 DEF Atomic!kafka_table_unset_param
    <2>2. i \in 1 .. k /\ k \in Nat /\ params \in Seq(Atomic!Param)
      BY <2>1 DEF TypeOK, Atomic!At, Atomic!Holds
    <2>3. k - 1 \in Nat /\ k \in 1 .. k /\ 1 .. k - 1 \subseteq 1 .. k
      BY <2>2
    <2>4. \A j \in 1 .. k - 1 :
            (IF j = i THEN params[k] ELSE params[j]) \in Atomic!Param
      BY <2>2, <2>3
    <2>5. params' = [j \in 1 .. k - 1 |-> IF j = i THEN params[k] ELSE params[j]]
      BY <2>1 DEF Atomic!Without
    <2> HIDE DEF k
    <2> QED
      BY <2>3, <2>4, <2>5
  <1>5. \/ UNCHANGED params
        \/ \E n \in Name : \/ Atomic!kafka_table_unset_param(s, n)
                           \/ \E v \in Value : Atomic!kafka_table_set_param(s, n, v)
    BY DEF Call, Atomic!kafka_connection_param_init, Atomic!kafka_connect_init,
         Atomic!deinit
  <1>6. params' \in Seq(Atomic!Param)
    BY <1>3, <1>4, <1>5 DEF TypeOK
  <1> QED
    BY <1>1, <1>2, <1>6 DEF TypeOK, engine

-----------------------------------------------------------------------------
(* Nothing is built, the library is loaded.                                *)
LEMMA InitIndInv == Init => IndInv
  <1> SUFFICES ASSUME Init PROVE IndInv
    OBVIOUS
  <1>1. TypeOK
    <2>1. /\ params \in Seq(Atomic!Param)
          /\ pc \in [Session -> {"idle", "param", "connect"}]
      BY DEF Init
    <2>2. /\ holder \in Session \cup {None} /\ list \in Value \cup {None}
          /\ tk \in SUBSET Field /\ alive \in SUBSET Object
          /\ next \in Nat \ {0} /\ settings \in [Setting -> Value]
      BY LifecycleAssumption DEF Init
    <2>3. /\ module \in {"loaded", "unloading", "clearing", "unloaded"}
          /\ published \in BOOLEAN /\ thread \in {"none", "look", "poll", "exited"}
          /\ at = "none"
      BY DEF Init
    <2> QED
      BY <2>1, <2>2, <2>3 DEF TypeOK
  <1>2. StageInv /\ ThreadInv /\ OneOwner /\ PublishedIsComplete
    BY LifecycleAssumption DEF Init, StageInv, ThreadInv, OneOwner, Named, Object,
         PublishedIsComplete, Unlocked, Building, TearingDown
  <1> QED
    BY <1>1, <1>2 DEF IndInv

(* Every step of the lock holder, of the callers and of the poll thread    *)
(* keeps the invariant.                                                    *)
LEMMA NextIndInv == ASSUME IndInv, [Next]_vars PROVE IndInv'
  <1> USE LifecycleAssumption
      DEF IndInv, TypeOK, Unlocked, Release, built, outside, engine
  <1> USE DEF StageInv, Building, TearingDown, ThreadInv, PublishedIsComplete
  <1>1. ASSUME NEW s \in Session, NEW b \in Value,
               NEW got \in SUBSET {"brokers", "conf"},
               tek_kafka_producer_create(s, b, got)
        PROVE  IndInv'
    <2>1. TypeOK'
      BY <1>1 DEF tek_kafka_producer_create, Object, Field
    <2>2. StageInv'
      BY <1>1 DEF tek_kafka_producer_create, Field
    <2>3. ThreadInv' /\ PublishedIsComplete'
      BY <1>1 DEF tek_kafka_producer_create
    <2>4. OneOwner'
      BY <1>1 DEF tek_kafka_producer_create, OneOwner, Named, Object, Field
    <2> QED
      BY <2>1, <2>2, <2>3, <2>4
  <1>2. ASSUME NEW s \in Session, kafka_conf_set_refused(s)
        PROVE  IndInv'
    <2>1. TypeOK'
      BY <1>2 DEF kafka_conf_set_refused, Object, Field
    <2>2. StageInv'
      BY <1>2 DEF kafka_conf_set_refused
    <2>3. ThreadInv' /\ PublishedIsComplete'
      BY <1>2 DEF kafka_conf_set_refused
    <2>4. OneOwner'
      BY <1>2 DEF kafka_conf_set_refused, OneOwner, Named, Object, Field
    <2> QED
      BY <2>1, <2>2, <2>3, <2>4
  <1>3. ASSUME NEW s \in Session, kafka_conf_set_defaults(s)
        PROVE  IndInv'
    <2>1. TypeOK'
      BY <1>3 DEF kafka_conf_set_defaults, Object, Field
    <2>2. StageInv'
      BY <1>3, ConfiguredFirst, ConfiguredSame DEF kafka_conf_set_defaults
    <2>3. ThreadInv' /\ PublishedIsComplete'
      BY <1>3 DEF kafka_conf_set_defaults
    <2>4. OneOwner'
      BY <1>3 DEF kafka_conf_set_defaults, OneOwner, Named, Object, Field
    <2> QED
      BY <2>1, <2>2, <2>3, <2>4
  <1>4. ASSUME NEW s \in Session, tek_kafka_producer_set_param(s)
        PROVE  IndInv'
    <2>1. TypeOK'
      <3>1. params[next] \in Atomic!Param
        BY <1>4 DEF tek_kafka_producer_set_param
      <3>2. settings' \in [Setting -> Value]
        BY <1>4, <3>1 DEF tek_kafka_producer_set_param, Overridden, Atomic!Param
      <3> QED
        BY <1>4, <3>2 DEF tek_kafka_producer_set_param
    <2>2. StageInv'
      BY <1>4, ConfiguredStep, ConfiguredSame DEF tek_kafka_producer_set_param
    <2>3. ThreadInv' /\ PublishedIsComplete'
      BY <1>4 DEF tek_kafka_producer_set_param
    <2>4. OneOwner'
      BY <1>4 DEF tek_kafka_producer_set_param, OneOwner, Named, Object, Field
    <2> QED
      BY <2>1, <2>2, <2>3, <2>4
  <1>5. ASSUME NEW s \in Session, rd_kafka_new(s)
        PROVE  IndInv'
    <2>1. TypeOK'
      BY <1>5 DEF rd_kafka_new, Object, Field
    <2>2. StageInv'
      BY <1>5, ConfiguredLast, ConfiguredSame DEF rd_kafka_new
    <2>3. ThreadInv' /\ PublishedIsComplete'
      BY <1>5 DEF rd_kafka_new
    <2>4. OneOwner'
      BY <1>5 DEF rd_kafka_new, OneOwner, Named, Object, Field
    <2> QED
      BY <2>1, <2>2, <2>3, <2>4
  <1>6. ASSUME NEW s \in Session, rd_kafka_new_refused(s)
        PROVE  IndInv'
    <2>1. TypeOK'
      BY <1>6 DEF rd_kafka_new_refused, Object, Field
    <2>2. StageInv'
      BY <1>6 DEF rd_kafka_new_refused
    <2>3. ThreadInv' /\ PublishedIsComplete'
      BY <1>6 DEF rd_kafka_new_refused
    <2>4. OneOwner'
      BY <1>6 DEF rd_kafka_new_refused, OneOwner, Named, Object, Field
    <2> QED
      BY <2>1, <2>2, <2>3, <2>4
  <1>7. ASSUME NEW s \in Session, producer_thread_start(s)
        PROVE  IndInv'
    <2>1. TypeOK'
      BY <1>7 DEF producer_thread_start, Object, Field
    <2>2. StageInv'
      BY <1>7 DEF producer_thread_start
    <2>3. ThreadInv' /\ PublishedIsComplete'
      BY <1>7 DEF producer_thread_start
    <2>4. OneOwner'
      BY <1>7 DEF producer_thread_start, OneOwner, Named, Object, Field
    <2> QED
      BY <2>1, <2>2, <2>3, <2>4
  <1>8. ASSUME NEW s \in Session, pthread_create_failed(s)
        PROVE  IndInv'
    <2>1. TypeOK'
      BY <1>8 DEF pthread_create_failed, Object, Field
    <2>2. StageInv'
      BY <1>8 DEF pthread_create_failed
    <2>3. ThreadInv' /\ PublishedIsComplete'
      BY <1>8 DEF pthread_create_failed
    <2>4. OneOwner'
      BY <1>8 DEF pthread_create_failed, OneOwner, Named, Object, Field
    <2> QED
      BY <2>1, <2>2, <2>3, <2>4
  <1>9. ASSUME NEW s \in Session, kafka_table_dismiss_all(s)
        PROVE  IndInv'
    <2>1. TypeOK'
      BY <1>9 DEF kafka_table_dismiss_all, Object, Field
    <2>2. StageInv'
      BY <1>9 DEF kafka_table_dismiss_all
    <2>3. ThreadInv' /\ PublishedIsComplete'
      BY <1>9 DEF kafka_table_dismiss_all
    <2>4. OneOwner'
      BY <1>9 DEF kafka_table_dismiss_all, OneOwner, Named, Object, Field
    <2> QED
      BY <2>1, <2>2, <2>3, <2>4
  <1>10. ASSUME NEW s \in Session, kafka_module_unload(s)
        PROVE  IndInv'
    <2>1. TypeOK'
      BY <1>10 DEF kafka_module_unload, Object, Field
    <2>2. StageInv'
      BY <1>10 DEF kafka_module_unload
    <2>3. ThreadInv' /\ PublishedIsComplete'
      BY <1>10 DEF kafka_module_unload
    <2>4. OneOwner'
      BY <1>10 DEF kafka_module_unload, OneOwner, Named, Object, Field
    <2> QED
      BY <2>1, <2>2, <2>3, <2>4
  <1>11. ASSUME NEW s \in Session, tek_kafka_producer_stop(s)
        PROVE  IndInv'
    <2>1. TypeOK'
      BY <1>11 DEF tek_kafka_producer_stop, Object, Field
    <2>2. StageInv'
      BY <1>11 DEF tek_kafka_producer_stop
    <2>3. ThreadInv' /\ PublishedIsComplete'
      BY <1>11 DEF tek_kafka_producer_stop
    <2>4. OneOwner'
      BY <1>11 DEF tek_kafka_producer_stop, OneOwner, Named, Object, Field
    <2> QED
      BY <2>1, <2>2, <2>3, <2>4
  <1>12. ASSUME NEW s \in Session, pthread_join(s)
        PROVE  IndInv'
    <2>1. TypeOK'
      BY <1>12 DEF pthread_join, Object, Field
    <2>2. StageInv'
      BY <1>12 DEF pthread_join
    <2>3. ThreadInv' /\ PublishedIsComplete'
      BY <1>12 DEF pthread_join
    <2>4. OneOwner'
      BY <1>12 DEF pthread_join, OneOwner, Named, Object, Field
    <2> QED
      BY <2>1, <2>2, <2>3, <2>4
  <1>13. ASSUME NEW s \in Session, tek_kafka_producer_dispose(s)
        PROVE  IndInv'
    <2>1. TypeOK'
      BY <1>13 DEF tek_kafka_producer_dispose, Object, Field
    <2>2. StageInv'
      BY <1>13 DEF tek_kafka_producer_dispose
    <2>3. ThreadInv' /\ PublishedIsComplete'
      BY <1>13 DEF tek_kafka_producer_dispose
    <2>4. OneOwner'
      BY <1>13 DEF tek_kafka_producer_dispose, OneOwner, Named, Object, Field
    <2> QED
      BY <2>1, <2>2, <2>3, <2>4
  <1>14. ASSUME NEW s \in Session, Call(s)
        PROVE  IndInv'
    <2>1. UNCHANGED <<engine, module>> /\ TypeOK'
      BY <1>14, CallTypeOK DEF Call
    <2>2. CASE Unlocked
      BY <1>14, <2>1, <2>2 DEF Call, OneOwner, Named,
           Atomic!kafka_connection_param_init, Atomic!kafka_connect_init,
           Atomic!deinit, Atomic!Goto, Atomic!kafka_table_unset_param,
           Atomic!kafka_table_set_param, Atomic!set_param_replace,
           Atomic!set_param_append
    <2>3. CASE ~Unlocked
      <3>1. /\ UNCHANGED <<params, list>> /\ holder # s
            /\ pc' = [pc EXCEPT ![s] = "idle"]
        BY <1>14, <2>1, <2>3 DEF Call, Atomic!deinit, Atomic!Goto
      <3> QED
        BY <1>14, <2>1, <2>3, <3>1, ConfiguredSame DEF OneOwner, Named
    <2> QED
      BY <2>2, <2>3
  <1>15. CASE kafka_table_clear_params_locked
    <2>1. TypeOK'
      BY <1>15 DEF kafka_table_clear_params_locked, Object, Field
    <2>2. StageInv'
      BY <1>15 DEF kafka_table_clear_params_locked
    <2>3. ThreadInv' /\ PublishedIsComplete'
      BY <1>15 DEF kafka_table_clear_params_locked
    <2>4. OneOwner'
      BY <1>15 DEF kafka_table_clear_params_locked, OneOwner, Named, Object, Field
    <2> QED
      BY <2>1, <2>2, <2>3, <2>4
  <1>16. CASE kafka_module_load
    <2>1. TypeOK'
      BY <1>16 DEF kafka_module_load, Object, Field
    <2>2. StageInv'
      BY <1>16 DEF kafka_module_load
    <2>3. ThreadInv' /\ PublishedIsComplete'
      BY <1>16 DEF kafka_module_load
    <2>4. OneOwner'
      BY <1>16 DEF kafka_module_load, OneOwner, Named, Object, Field
    <2> QED
      BY <2>1, <2>2, <2>3, <2>4
  <1>17. CASE producer_thread_look
    <2>1. TypeOK'
      BY <1>17 DEF producer_thread_look, Object, Field
    <2>2. StageInv'
      BY <1>17, ConfiguredSame DEF producer_thread_look
    <2>3. ThreadInv' /\ PublishedIsComplete'
      BY <1>17 DEF producer_thread_look
    <2>4. OneOwner'
      BY <1>17 DEF producer_thread_look, OneOwner, Named, Object, Field
    <2> QED
      BY <2>1, <2>2, <2>3, <2>4
  <1>18. CASE producer_thread_poll
    <2>1. TypeOK'
      BY <1>18 DEF producer_thread_poll, Object, Field
    <2>2. StageInv'
      BY <1>18, ConfiguredSame DEF producer_thread_poll
    <2>3. ThreadInv' /\ PublishedIsComplete'
      BY <1>18 DEF producer_thread_poll
    <2>4. OneOwner'
      BY <1>18 DEF producer_thread_poll, OneOwner, Named, Object, Field
    <2> QED
      BY <2>1, <2>2, <2>3, <2>4
  <1>19. CASE UNCHANGED vars
    BY <1>19, ConfiguredSame DEF vars, OneOwner, Named
  <1> QED
    BY <1>1, <1>2, <1>3, <1>4, <1>5, <1>6, <1>7, <1>8, <1>9,
       <1>10, <1>11, <1>12, <1>13, <1>14, <1>15, <1>16, <1>17, <1>18, <1>19
    DEF Next, Work, Poll

-----------------------------------------------------------------------------
(* How far a connect or a teardown has come is always visible in the       *)
(* producer it works on.                                                   *)
THEOREM LifecycleInvariance == Spec => []IndInv
  <1> QED
    BY InitIndInv, NextIndInv, PTL DEF Spec

(* kafka-engine.c:215-222: nothing is lost, nothing destroyed twice,       *)
(* whichever call fails.                                                   *)
THEOREM EverythingHasOneOwner == Spec => []OneOwner
  <1>1. IndInv => OneOwner
    BY DEF IndInv
  <1> QED
    BY <1>1, LifecycleInvariance, PTL

(* producer_thread() never outlives the producer it polls.                 *)
THEOREM PollThreadStaysSafe == Spec => []PollThreadIsSafe
  <1>1. IndInv => PollThreadIsSafe
    BY DEF IndInv, ThreadInv, OneOwner, PollThreadIsSafe, Named, Object
  <1> QED
    BY <1>1, LifecycleInvariance, PTL

(* kafka-table.c:292: what is published is complete.                       *)
THEOREM PublishedStaysComplete == Spec => []PublishedIsComplete
  <1>1. IndInv => PublishedIsComplete
    BY DEF IndInv
  <1> QED
    BY <1>1, LifecycleInvariance, PTL

-----------------------------------------------------------------------------
(* Publishing a producer is KafkaParams' kafka_table_connect().            *)
LEMMA StartConnects ==
  ASSUME IndInv, NEW s \in Session, producer_thread_start(s)
  PROVE  Atomic!kafka_table_connect(s, list) /\ list \in Value
  BY LifecycleAssumption
     DEF producer_thread_start, IndInv, TypeOK, StageInv, Building, Release,
         outside, Atomic!kafka_table_connect

(* The end of a dispose is a disconnect, the first half of the unload, or, *)
(* when a connect failed, nothing.                                         *)
LEMMA DisposeDisconnects ==
  ASSUME IndInv, NEW s \in Session, tek_kafka_producer_dispose(s)
  PROVE  \/ Atomic!kafka_disconnect(s) \/ Atomic!kafka_table_shutdown
         \/ UNCHANGED Atomic!vars
  BY LifecycleAssumption
     DEF tek_kafka_producer_dispose, IndInv, TypeOK, StageInv, TearingDown, Release,
         Atomic!kafka_disconnect, Atomic!kafka_table_shutdown, Atomic!vars

(* The steps in between are seen by nobody.                                *)
LEMMA WorkIsUnseen ==
  ASSUME IndInv, NEW s \in Session,
         \/ \E b \in Value, got \in SUBSET {"brokers", "conf"} :
              tek_kafka_producer_create(s, b, got)
         \/ kafka_conf_set_refused(s) \/ kafka_conf_set_defaults(s)
         \/ tek_kafka_producer_set_param(s) \/ rd_kafka_new(s)
         \/ rd_kafka_new_refused(s) \/ pthread_create_failed(s)
         \/ kafka_table_dismiss_all(s) \/ kafka_module_unload(s)
         \/ tek_kafka_producer_stop(s) \/ pthread_join(s)
  PROVE  UNCHANGED Atomic!vars
  BY DEF IndInv, StageInv, Building, Atomic!vars, outside, built,
         tek_kafka_producer_create, kafka_conf_set_refused, kafka_conf_set_defaults,
         tek_kafka_producer_set_param, rd_kafka_new, rd_kafka_new_refused,
         pthread_create_failed, kafka_table_dismiss_all, kafka_module_unload,
         tek_kafka_producer_stop, pthread_join

(* The calls are those of KafkaParams.                                     *)
LEMMA CallIsACall ==
  ASSUME NEW s \in Session, Call(s)
  PROVE  Atomic!Next
  BY DEF Call, Atomic!Next, Atomic!Call

(* kafka_connect(), with everything that can fail in it, and the teardowns *)
(* do what KafkaParams has as single steps.                                *)
THEOREM LifecycleImplementsParams == Spec => ImplementsKafkaParams
  <1>1. Init => Atomic!Init
    BY DEF Init, Atomic!Init
  <1>2. ASSUME IndInv, [Next]_vars PROVE [Atomic!Next]_(Atomic!vars)
    <2>1. ASSUME NEW s \in Session, Call(s) PROVE Atomic!Next
      BY <2>1, CallIsACall
    <2>2. ASSUME NEW s \in Session, producer_thread_start(s) PROVE Atomic!Next
      BY <1>2, <2>2, StartConnects DEF Atomic!Next, Atomic!Call
    <2>3. ASSUME NEW s \in Session, tek_kafka_producer_dispose(s)
          PROVE  Atomic!Next \/ UNCHANGED Atomic!vars
      BY <1>2, <2>3, DisposeDisconnects DEF Atomic!Next, Atomic!Call,
           Atomic!Library
    <2>4. CASE kafka_table_clear_params_locked
      <3>1. Atomic!kafka_table_clear_params_locked
        BY <2>4, <1>2 DEF kafka_table_clear_params_locked, engine,
             Atomic!kafka_table_clear_params_locked
      <3> QED
        BY <3>1 DEF Atomic!Next, Atomic!Library
    <2>5. CASE kafka_module_load
      <3>1. Atomic!kafka_module_load
        BY <2>5, <1>2 DEF kafka_module_load, engine, Atomic!kafka_module_load
      <3> QED
        BY <3>1 DEF Atomic!Next, Atomic!Library
    <2>6. CASE Poll \/ UNCHANGED vars
      BY <2>6 DEF Poll, producer_thread_look, producer_thread_poll, vars, engine,
           outside, built, Atomic!vars
    <2> QED
      BY <1>2, <2>1, <2>2, <2>3, <2>4, <2>5, <2>6, WorkIsUnseen DEF Next, Work
  <1> QED
    BY <1>1, <1>2, LifecycleInvariance, PTL DEF Spec, ImplementsKafkaParams, Atomic!Spec

-----------------------------------------------------------------------------
(* What KafkaParamsProofs proves of the one step, seen through the many.   *)
Seen == INSTANCE KafkaParamsProofs
          WITH conf <- IF published THEN settings ELSE None,
               brokers <- IF published THEN list ELSE None,
               module <- IF module = "unloading" THEN "loaded"
                         ELSE IF module = "clearing" THEN "unloading"
                         ELSE module

(* Seen and Atomic name the same calls.                                    *)
LEMMA SameCalls ==
  ASSUME NEW s \in Session
  PROVE  Atomic!Call(s) <=> Seen!Call(s)
  <1> USE DEF Atomic!Goto, Seen!Goto, Atomic!At, Atomic!Holds, Seen!At, Seen!Holds
  <1>1. ASSUME NEW n, NEW v
        PROVE  Atomic!kafka_table_set_param(s, n, v)
                 <=> Seen!kafka_table_set_param(s, n, v)
    BY DEF Atomic!kafka_table_set_param, Seen!kafka_table_set_param,
           Atomic!set_param_append, Seen!set_param_append,
           Atomic!set_param_replace, Seen!set_param_replace,
           Atomic!MaySet, Seen!MaySet
  <1>2. ASSUME NEW n
        PROVE  Atomic!kafka_table_unset_param(s, n)
                 <=> Seen!kafka_table_unset_param(s, n)
    BY DEF Atomic!kafka_table_unset_param, Seen!kafka_table_unset_param,
           Atomic!Without, Seen!Without
  <1>3. ASSUME NEW b
        PROVE  Atomic!kafka_table_connect(s, b) <=> Seen!kafka_table_connect(s, b)
    <2>1. Atomic!Configured(params, b) = Seen!Configured(params, b)
      BY DEF Atomic!Configured, Seen!Configured, Atomic!Assigned, Seen!Assigned,
             Atomic!LastOf, Seen!LastOf
    <2> QED
      BY <2>1 DEF Atomic!kafka_table_connect, Seen!kafka_table_connect
  <1>4. /\ Atomic!kafka_connection_param_init(s)
             <=> Seen!kafka_connection_param_init(s)
        /\ Atomic!kafka_connect_init(s) <=> Seen!kafka_connect_init(s)
        /\ Atomic!deinit(s) <=> Seen!deinit(s)
        /\ Atomic!kafka_disconnect(s) <=> Seen!kafka_disconnect(s)
    BY DEF Atomic!kafka_connection_param_init, Seen!kafka_connection_param_init,
           Atomic!kafka_connect_init, Seen!kafka_connect_init,
           Atomic!deinit, Seen!deinit,
           Atomic!kafka_disconnect, Seen!kafka_disconnect
  <1> QED
    BY <1>1, <1>2, <1>3, <1>4 DEF Atomic!Call, Seen!Call

LEMMA SameSpec == Atomic!Spec <=> Seen!Spec
  <1>1. Atomic!Init <=> Seen!Init
    BY DEF Atomic!Init, Seen!Init
  <1>2. Atomic!Library <=> Seen!Library
    BY DEF Atomic!Library, Seen!Library,
           Atomic!kafka_table_shutdown, Seen!kafka_table_shutdown,
           Atomic!kafka_table_clear_params_locked,
           Seen!kafka_table_clear_params_locked,
           Atomic!kafka_module_load, Seen!kafka_module_load
  <1>3. [Atomic!Next]_(Atomic!vars) <=> [Seen!Next]_(Seen!vars)
    BY <1>2, SameCalls DEF Atomic!Next, Seen!Next, Atomic!vars, Seen!vars
  <1> QED
    BY <1>1, <1>3, PTL DEF Atomic!Spec, Seen!Spec

(* README.md, "kafka_connect() freezes them", from the calls that build a  *)
(* producer one by one: whichever of them failed before, what was set is   *)
(* what the producer is configured with, as a map from names to values.    *)
THEOREM LifecycleImplementsMap ==
  ASSUME Seen!ParamsAssumption
  PROVE  Spec => Seen!ImplementsParamMap
  <1> QED
    BY LifecycleImplementsParams, SameSpec, Seen!ParamsImplementMap, PTL
       DEF ImplementsKafkaParams

(* kafka-table.c:263-296: while other sessions can see a producer it has   *)
(* the settings that kt.params and its brokers make.                       *)
THEOREM PublishedIsConfigured ==
  ASSUME Seen!ParamsAssumption
  PROVE  Spec => [](published => settings = Seen!Configured(params, list))
  <1>1. LifecycleAssumption /\ IndInv /\ Seen!FrozenWhileConnected
          => (published => settings = Seen!Configured(params, list))
    BY DEF Seen!FrozenWhileConnected, Seen!Configured, IndInv, TypeOK,
           LifecycleAssumption
  <1> QED
    BY <1>1, LifecycleAssumption, LifecycleInvariance, LifecycleImplementsParams,
       SameSpec, Seen!ParametersAreFrozen, PTL DEF ImplementsKafkaParams
=============================================================================
