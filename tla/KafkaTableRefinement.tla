------------------------ MODULE KafkaTableRefinement ------------------------
(***************************************************************************)
(* KafkaTable implements TopicLifecycle: creating a topic opens a record,  *)
(* producing accepts a message, the delivery report callback reports it,   *)
(* removing a topic and tearing down close records, and the reap, the park *)
(* and the end of a teardown free them.  Every other step stutters.        *)
(***************************************************************************)
EXTENDS KafkaTableProofs

(* What changes neither a record nor a message is a stuttering step.       *)
LEMMA StutterStep ==
  ASSUME UNCHANGED <<mem, rkt, opaque, mstate>>
  PROVE  UNCHANGED Lifecycle!lifeVars
  BY DEF Lifecycle!lifeVars, Life, OutQ

(* Each step of the table is a step of TopicLifecycle or a stutter.        *)
LEMMA RefinementStep ==
  IndInv /\ [Next]_vars => [Lifecycle!Next]_(Lifecycle!lifeVars)
<1> SUFFICES ASSUME IndInv, [Next]_vars
             PROVE  Lifecycle!Next \/ UNCHANGED Lifecycle!lifeVars
  OBVIOUS
<1> USE DEF lockVars, tableVars, heapVars, countVars, queueVars, pollVars,
            callVars
<1>1. ASSUME NEW s \in Session, NEW r \in Record, kafka_table_create(s, r)
      PROVE  Lifecycle!Open(r)
  BY <1>1 DEF kafka_table_create, Lifecycle!Open, Life, OutQ, IndInv, TypeOK
<1>2. ASSUME NEW s \in Session, NEW m \in Msg, tek_kafka_topic_feed(s, m)
      PROVE  Lifecycle!Accept(m, tt[s]) /\ tt[s] \in Record
  <2>1. /\ tt[s] \in topics /\ tt[s] \in rkt
        /\ tt[s] \in Record /\ mem[tt[s]] = "allocated"
    BY <1>2, HandlesAreTopics DEF tek_kafka_topic_feed, IndInv, TypeOK,
           PointerInv, HeapInv, InTablePCs, ReadPCs
  <2>2. opaque[m] = None
    BY <1>2 DEF tek_kafka_topic_feed, IndInv, HeapInv
  <2>3. OutQ' = OutQ \cup {m}
    BY <1>2 DEF tek_kafka_topic_feed, OutQ, IndInv, TypeOK
  <2> QED BY <1>2, <2>1, <2>2, <2>3 DEF tek_kafka_topic_feed,
                 Lifecycle!Accept, Life
<1>3. ASSUME NEW th \in Thread, dr_msg_cb(th)
      PROVE  serving[th] \in Msg /\ Lifecycle!Report(serving[th])
  <2>1. /\ serving[th] \in Msg /\ serving[th] \in OutQ
        /\ opaque[serving[th]] \in Record
        /\ mem[opaque[serving[th]]] = "allocated"
    BY <1>3 DEF dr_msg_cb, IndInv, TypeOK, ServeInv, HeapInv, OutQ
  <2>2. OutQ' = OutQ \ {serving[th]}
    BY <1>3, <2>1 DEF dr_msg_cb, OutQ, IndInv, TypeOK
  <2> QED BY <1>3, <2>1, <2>2 DEF dr_msg_cb, Lifecycle!Report, Life
<1>4. ASSUME NEW s \in Session, kafka_table_remove_locked(s)
      PROVE  Lifecycle!Close({tt[s]}) /\ {tt[s]} \in SUBSET Record
  <2>1. /\ tt[s] \in topics /\ tt[s] \in rkt
        /\ tt[s] \in Record /\ mem[tt[s]] = "allocated"
    BY <1>4, HandlesAreTopics DEF kafka_table_remove_locked, IndInv, TypeOK,
           PointerInv, HeapInv, InTablePCs, WritePCs, TornDownPCs
  <2> QED BY <1>4, <2>1 DEF kafka_table_remove_locked, Lifecycle!Close, Life,
                 OutQ
<1>5. ASSUME NEW s \in Session, kafka_table_dismiss_all_flushed(s)
      PROVE  Lifecycle!Close(topics) /\ topics \in SUBSET Record
  <2>1. rkt = topics
    BY <1>5, HandlesAreTopics DEF kafka_table_dismiss_all_flushed, WritePCs,
           TornDownPCs
  <2> QED BY <1>5, <2>1 DEF kafka_table_dismiss_all_flushed, Lifecycle!Close,
                 Life, OutQ, IndInv, TypeOK, HeapInv
<1>6. ASSUME NEW s \in Session, kafka_table_reap_retired_locked(s)
      PROVE  \/ \E R \in SUBSET Record : Lifecycle!Free(R)
             \/ UNCHANGED Lifecycle!lifeVars
  <2>1. CASE Busy
    BY <1>6, <2>1, StutterStep DEF kafka_table_reap_retired_locked,
           FreeRecords, IndInv, TypeOK
  <2>2. CASE ~Busy
    <3>1. OutQ = {}
      BY <2>2, NotBusyMeansNothingPending
    <3>2. \A r \in retired : mem[r] = "allocated" /\ r \notin rkt
      BY DEF IndInv, HeapInv, ProducerInv
    <3>3. Lifecycle!Free(retired) /\ retired \in SUBSET Record
      BY <1>6, <2>2, <3>1, <3>2 DEF kafka_table_reap_retired_locked,
             FreeRecords, Lifecycle!Free, Life, OutQ, IndInv, TypeOK
    <3> QED BY <3>3
  <2> QED BY <2>1, <2>2
<1>7. ASSUME NEW s \in Session, kafka_table_park(s)
      PROVE  \/ \E R \in SUBSET Record : Lifecycle!Free(R)
             \/ UNCHANGED Lifecycle!lifeVars
  <2>1. CASE Busy
    BY <1>7, <2>1, StutterStep DEF kafka_table_park
  <2>2. CASE ~Busy
    <3>1. OutQ = {}
      BY <2>2, NotBusyMeansNothingPending
    <3>2. tt[s] \in Record /\ mem[tt[s]] = "allocated" /\ tt[s] \notin rkt
      BY <1>7 DEF kafka_table_park, IndInv, PointerInv, ProducerInv
    <3>3. Lifecycle!Free({tt[s]})
      BY <1>7, <2>2, <3>1, <3>2 DEF kafka_table_park, FreeRecords,
             Lifecycle!Free, Life, OutQ
    <3> QED BY <3>2, <3>3
  <2> QED BY <2>1, <2>2
<1>8. ASSUME NEW s \in Session, kafka_table_dismiss_all_done(s)
      PROVE  (\E R \in SUBSET Record : Lifecycle!Free(R))
  <2>1. OutQ = {}
    BY <1>8, NotBusyMeansNothingPending DEF kafka_table_dismiss_all_done
  <2>2. \A r \in Disposed : r \in Record /\ mem[r] = "allocated" /\ r \notin rkt
    BY <1>8 DEF kafka_table_dismiss_all_done, Disposed, IndInv, TypeOK,
           HeapInv, ProducerInv, TornDownPCs
  <2>3. Lifecycle!Free(Disposed)
    BY <1>8, <2>1, <2>2 DEF kafka_table_dismiss_all_done, FreeRecords,
           Lifecycle!Free, Life, OutQ
  <2> QED BY <2>2, <2>3
<1>9. ASSUME NEW s \in Session, Begin(s)
      PROVE  UNCHANGED Lifecycle!lifeVars
  BY <1>9, StutterStep DEF Begin, kafka_connect_init, kafka_send_init,
         kafka_send_deinit, kafka_table_exists, kafka_stats_init,
         kafka_disconnect_topic, kafka_disconnect, kafka_module_unload
<1>10. ASSUME NEW s \in Session, Continue(s),
              \A r \in Record : ~ kafka_table_create(s, r),
              \A m \in Msg : ~ tek_kafka_topic_feed(s, m),
              ~ kafka_table_remove_locked(s),
              ~ kafka_table_dismiss_all_flushed(s),
              ~ kafka_table_reap_retired_locked(s),
              ~ kafka_table_park(s),
              ~ kafka_table_dismiss_all_done(s)
       PROVE  UNCHANGED Lifecycle!lifeVars
  BY <1>10, StutterStep DEF Continue, kafka_table_connect,
         kafka_table_connect_failed, kafka_table_create_found,
         kafka_table_create_failed, kafka_table_send,
         kafka_table_send_unknown, tek_kafka_topic_feed_full,
         tek_kafka_topic_feed_retry, tek_kafka_topic_feed_error,
         kafka_table_send_done, kafka_send_return, kafka_topic_get_stats,
         kafka_topic_get_stats_unknown, tek_kafka_topic_get_stats_flushed,
         tek_kafka_topic_get_stats_transferred,
         tek_kafka_topic_get_stats_failed, kafka_stats_return,
         kafka_table_dismiss, kafka_table_dismiss_unknown,
         kafka_table_dismiss_flushed, kafka_table_dismiss_all,
         tek_kafka_producer_join
<1>11. ASSUME NEW m \in Msg, Resolve(m)
       PROVE  UNCHANGED Lifecycle!lifeVars
  <2>1. OutQ' = OutQ
    BY <1>11 DEF Resolve, rd_kafka_resolve, OutQ, IndInv, TypeOK
  <2> QED BY <1>11, <2>1 DEF Resolve, rd_kafka_resolve, Lifecycle!lifeVars,
                 Life
<1>12. ASSUME \/ \E th \in Thread, m \in Msg : rd_kafka_serve(th, m)
              \/ producer_thread_exit \/ kafka_module_load
              \/ UNCHANGED vars
       PROVE  UNCHANGED Lifecycle!lifeVars
  BY <1>12, StutterStep DEF rd_kafka_serve, producer_thread_exit,
         kafka_module_load, vars
<1>13. ASSUME NEW s \in Session, Continue(s)
       PROVE  Lifecycle!Next \/ UNCHANGED Lifecycle!lifeVars
  BY <1>1, <1>2, <1>4, <1>5, <1>6, <1>7, <1>8, <1>10, <1>13 DEF Lifecycle!Next
<1>14. ASSUME NEW th \in Thread, Serve(th)
       PROVE  Lifecycle!Next \/ UNCHANGED Lifecycle!lifeVars
  BY <1>3, <1>12, <1>14 DEF Serve, Lifecycle!Next
<1> QED BY <1>9, <1>11, <1>12, <1>13, <1>14 DEF Next

(* An empty table is an initial state of TopicLifecycle.                   *)
LEMMA RefinementInit == Init => Lifecycle!Init
  BY DEF Init, Lifecycle!Init, Life, OutQ

(* The table with its lock, its retired list and its test of the out queue *)
(* keeps the promise of TopicLifecycle about the memory of topic records.  *)
THEOREM TableImplementsLifecycle == Spec => ImplementsTopicLifecycle
<1> QED BY Invariance, RefinementInit, RefinementStep, PTL
           DEF Spec, ImplementsTopicLifecycle, Lifecycle!Spec

-----------------------------------------------------------------------------
(* KafkaTable implements RecordSets: a record that a dismissing session    *)
(* has in its hands counts as in use until it is parked, given up or       *)
(* freed.                                                                  *)

(* Who holds the write lock is alone with the arrays.                      *)
LEMMA OneWriter ==
  ASSUME IndInv, NEW s \in Session, NEW u \in Session,
         pc[s] \in WritePCs, pc[u] \in WritePCs
  PROVE  s = u
  BY DEF IndInv, LockInv

LEMMA NobodyParks ==
  ASSUME IndInv, NEW s \in Session, pc[s] \in WritePCs, pc[s] # "dismiss_park"
  PROVE  Parked = {}
  BY OneWriter DEF Parked, WritePCs

(* A step of one session that is not at kafka_table_park() before or after *)
(* leaves the records in hand.                                             *)
LEMMA SameParked ==
  ASSUME IndInv, NEW s \in Session, NEW label, pc' = [pc EXCEPT ![s] = label],
         label # "dismiss_park", pc[s] # "dismiss_park",
         \A u \in Session \ {s} : tt'[u] = tt[u]
  PROVE  Parked' = Parked
  <1>1. \A u \in Session : pc'[u] = IF u = s THEN label ELSE pc[u]
    BY DEF IndInv, TypeOK
  <1> QED BY <1>1 DEF Parked

(* Each step of the table is a step of RecordSets or a stutter.            *)
LEMMA SetsStep ==
  IndInv /\ [Next]_vars => [Sets!Next]_(Sets!sets)
<1> SUFFICES ASSUME IndInv, [Next]_vars
             PROVE  Sets!Next \/ UNCHANGED Sets!sets
  OBVIOUS
<1> USE DEF lockVars, tableVars, heapVars, countVars, queueVars, pollVars,
            callVars
<1>0. /\ pc \in [Session -> PCs] /\ tt \in [Session -> Record \cup {None}]
      /\ topics \in SUBSET Record /\ retired \in SUBSET Record
  BY DEF IndInv, TypeOK
<1>1. ASSUME NEW s \in Session, NEW r \in Record, kafka_table_create(s, r)
      PROVE  Sets!Create(r)
  <2>1. Parked' = Parked
    BY <1>1, SameParked DEF kafka_table_create, Goto
  <2>2. r \notin topics \cup Parked \cup retired \cup leaked
    BY <1>1 DEF kafka_table_create, IndInv, HeapInv, PointerInv, Parked
  <2> QED BY <1>1, <2>1, <2>2 DEF kafka_table_create, Sets!Create
<1>2. ASSUME NEW s \in Session, kafka_table_remove_locked(s)
      PROVE  UNCHANGED Sets!sets
  <2>1. tt[s] \in topics
    BY <1>2 DEF kafka_table_remove_locked, IndInv, PointerInv, InTablePCs
  <2>2. Parked = {}
    BY <1>2, NobodyParks DEF kafka_table_remove_locked, WritePCs
  <2>3. Parked' = {tt[s]}
    <3>1. /\ tt' = tt
          /\ \A u \in Session : pc'[u] = IF u = s THEN "dismiss_park" ELSE pc[u]
      BY <1>0, <1>2 DEF kafka_table_remove_locked, Goto
    <3>2. \A u \in Session : pc[u] # "dismiss_park"
      BY <2>2 DEF Parked
    <3> QED BY <3>1, <3>2 DEF Parked
  <2> QED BY <1>2, <2>1, <2>2, <2>3 DEF kafka_table_remove_locked, Sets!sets
<1>3. ASSUME NEW s \in Session, kafka_table_park(s)
      PROVE  Sets!Dismiss(tt[s]) /\ tt[s] \in Record
  <2>1. /\ tt[s] \in Record /\ tt[s] \notin topics \cup retired \cup leaked
        /\ pc[s] = "dismiss_park"
    BY <1>3 DEF kafka_table_park, IndInv, PointerInv
  <2>2. \A u \in Session : pc[u] = "dismiss_park" <=> u = s
    BY <2>1, OneWriter DEF WritePCs
  <2>3. Parked = {tt[s]}
    BY <2>2 DEF Parked
  <2>4. Parked' = {}
    <3>1. \A u \in Session : pc'[u] # "dismiss_park"
      BY <1>0, <1>3, <2>2 DEF kafka_table_park, Goto
    <3> QED BY <3>1 DEF Parked
  <2>5. /\ topics' = topics
        /\ \/ retired' \in {retired, retired \cup {tt[s]}} /\ leaked' = leaked
           \/ retired' = retired /\ leaked' = leaked \cup {tt[s]}
    BY <1>3 DEF kafka_table_park
  <2> QED BY <2>1, <2>3, <2>4, <2>5 DEF Sets!Dismiss
<1>4. ASSUME NEW s \in Session, kafka_table_reap_retired_locked(s)
      PROVE  Sets!Reap \/ UNCHANGED Sets!sets
  <2>1. Parked' = Parked
    <3>1. PICK label \in {"send", "send_failed", "idle"} :
            pc' = [pc EXCEPT ![s] = label]
      BY <1>4 DEF kafka_table_reap_retired_locked, Goto
    <3>2. pc[s] # "dismiss_park" /\ tt' = tt /\ label # "dismiss_park"
      BY <1>4 DEF kafka_table_reap_retired_locked
    <3> QED BY <3>1, <3>2, SameParked
  <2>2. /\ topics' = topics /\ leaked' = leaked
        /\ retired' = retired \/ retired' = {}
    BY <1>4 DEF kafka_table_reap_retired_locked
  <2> QED BY <2>1, <2>2 DEF Sets!Reap, Sets!sets
<1>5. ASSUME NEW s \in Session, kafka_table_dismiss_all_done(s)
      PROVE  Sets!FreeAll
  <2>1. Parked = {} /\ Parked' = Parked
    <3>1. pc[s] = "all_destroy" /\ tt' = tt /\ pc' = [pc EXCEPT ![s] = "idle"]
      BY <1>5 DEF kafka_table_dismiss_all_done, Goto
    <3> QED BY <3>1, NobodyParks, SameParked DEF WritePCs
  <2> QED BY <1>5, <2>1 DEF kafka_table_dismiss_all_done, Sets!FreeAll
<1>6. ASSUME NEW s \in Session, NEW label, pc' = [pc EXCEPT ![s] = label],
             label # "dismiss_park", pc[s] # "dismiss_park",
             UNCHANGED <<topics, retired, leaked>>,
             UNCHANGED tt \/ \E v : tt' = [tt EXCEPT ![s] = v]
      PROVE  UNCHANGED Sets!sets
  <2>1. \A u \in Session \ {s} : tt'[u] = tt[u]
    BY <1>0, <1>6
  <2> QED BY <1>6, <2>1, SameParked DEF Sets!sets
<1>7. ASSUME NEW s \in Session, Begin(s)
      PROVE  UNCHANGED Sets!sets
  <2>1. /\ UNCHANGED <<topics, retired, leaked, tt>>
        /\ pc[s] \in {"idle", "send_ready"}
        /\ \E label \in FreePCs : pc' = [pc EXCEPT ![s] = label]
    BY <1>7 DEF Begin, kafka_connect_init, kafka_send_init, kafka_send_deinit,
           kafka_table_exists, kafka_stats_init, kafka_disconnect_topic,
           kafka_disconnect, kafka_module_unload, Goto, FreePCs
  <2>2. PICK label \in FreePCs : pc' = [pc EXCEPT ![s] = label]
    BY <2>1
  <2>3. label # "dismiss_park" /\ pc[s] # "dismiss_park"
    BY <2>1 DEF FreePCs
  <2> QED BY <1>6, <2>1, <2>2, <2>3
<1>8. ASSUME NEW s \in Session, Continue(s),
             \A r \in Record : ~ kafka_table_create(s, r),
             ~ kafka_table_remove_locked(s),
             ~ kafka_table_park(s),
             ~ kafka_table_reap_retired_locked(s),
             ~ kafka_table_dismiss_all_done(s)
      PROVE  UNCHANGED Sets!sets
  <2> DEFINE Moves ==
               /\ UNCHANGED <<topics, retired, leaked>>
               /\ pc[s] # "dismiss_park"
               /\ UNCHANGED tt \/ \E v : tt' = [tt EXCEPT ![s] = v]
               /\ \E label \in PCs \ {"dismiss_park"} :
                    pc' = [pc EXCEPT ![s] = label]
  <2>1. CASE \/ kafka_table_connect(s) \/ kafka_table_connect_failed(s)
             \/ kafka_table_create_found(s) \/ kafka_table_create_failed(s)
             \/ kafka_table_send_unknown(s)
             \/ \E m \in Msg : tek_kafka_topic_feed(s, m)
             \/ tek_kafka_topic_feed_full(s) \/ tek_kafka_topic_feed_retry(s)
             \/ kafka_send_return(s)
    <3>1. /\ UNCHANGED <<topics, retired, leaked, tt>>
          /\ pc[s] \in PCs \ {"dismiss_park"}
          /\ \E label \in PCs \ {"dismiss_park"} : pc' = [pc EXCEPT ![s] = label]
      BY <2>1 DEF kafka_table_connect, kafka_table_connect_failed,
             kafka_table_create_found, kafka_table_create_failed,
             kafka_table_send_unknown, tek_kafka_topic_feed,
             tek_kafka_topic_feed_full, tek_kafka_topic_feed_retry,
             kafka_send_return, Goto, PCs, ReadPCs, WritePCs, FreePCs
    <3>2. Moves
      BY <3>1
    <3> QED BY <3>2, <1>6
  <2>2. CASE \/ \E r \in Record : kafka_table_send(s, r)
             \/ tek_kafka_topic_feed_error(s) \/ kafka_table_send_done(s)
             \/ \E r \in Record : kafka_topic_get_stats(s, r)
             \/ kafka_topic_get_stats_unknown(s)
             \/ tek_kafka_topic_get_stats_flushed(s)
             \/ tek_kafka_topic_get_stats_transferred(s)
             \/ tek_kafka_topic_get_stats_failed(s)
             \/ kafka_stats_return(s)
    <3>1. /\ UNCHANGED <<topics, retired, leaked>>
          /\ pc[s] \in PCs \ {"dismiss_park"}
          /\ \E label \in PCs \ {"dismiss_park"} : pc' = [pc EXCEPT ![s] = label]
      BY <2>2 DEF kafka_table_send, tek_kafka_topic_feed_error,
             kafka_table_send_done, kafka_topic_get_stats,
             kafka_topic_get_stats_unknown, tek_kafka_topic_get_stats_flushed,
             tek_kafka_topic_get_stats_transferred,
             tek_kafka_topic_get_stats_failed, kafka_stats_return,
             Goto, PCs, ReadPCs, WritePCs, FreePCs
    <3>2. UNCHANGED tt \/ \E v : tt' = [tt EXCEPT ![s] = v]
      BY <2>2 DEF kafka_table_send, tek_kafka_topic_feed_error,
             kafka_table_send_done, kafka_topic_get_stats,
             kafka_topic_get_stats_unknown, tek_kafka_topic_get_stats_flushed,
             tek_kafka_topic_get_stats_transferred,
             tek_kafka_topic_get_stats_failed, kafka_stats_return
    <3> QED BY <3>1, <3>2, <1>6
  <2>3. CASE \/ \E r \in Record : kafka_table_dismiss(s, r)
             \/ kafka_table_dismiss_unknown(s) \/ kafka_table_dismiss_flushed(s)
             \/ kafka_table_dismiss_all(s) \/ kafka_table_dismiss_all_flushed(s)
             \/ tek_kafka_producer_join(s)
    <3>1. /\ UNCHANGED <<topics, retired, leaked>>
          /\ pc[s] \in PCs \ {"dismiss_park"}
          /\ \E label \in PCs \ {"dismiss_park"} : pc' = [pc EXCEPT ![s] = label]
      BY <2>3 DEF kafka_table_dismiss, kafka_table_dismiss_unknown,
             kafka_table_dismiss_flushed, kafka_table_dismiss_all,
             kafka_table_dismiss_all_flushed, tek_kafka_producer_join,
             Goto, PCs, ReadPCs, WritePCs, FreePCs
    <3>2. UNCHANGED tt \/ \E v : tt' = [tt EXCEPT ![s] = v]
      BY <2>3 DEF kafka_table_dismiss, kafka_table_dismiss_unknown,
             kafka_table_dismiss_flushed, kafka_table_dismiss_all,
             kafka_table_dismiss_all_flushed, tek_kafka_producer_join
    <3> QED BY <3>1, <3>2, <1>6
  <2> QED BY <1>8, <2>1, <2>2, <2>3 DEF Continue
<1>9. ASSUME \/ \E m \in Msg : Resolve(m)
             \/ \E th \in Thread : Serve(th)
             \/ producer_thread_exit \/ kafka_module_load \/ UNCHANGED vars
      PROVE  UNCHANGED Sets!sets
  <2>1. UNCHANGED <<topics, retired, leaked, pc, tt>>
    BY <1>9 DEF Resolve, rd_kafka_resolve, Serve, dr_msg_cb, rd_kafka_serve,
           producer_thread_exit, kafka_module_load, vars
  <2> QED BY <2>1 DEF Sets!sets, Parked
<1>10. ASSUME NEW s \in Session, Continue(s)
       PROVE  Sets!Next \/ UNCHANGED Sets!sets
  BY <1>1, <1>2, <1>3, <1>4, <1>5, <1>8, <1>10 DEF Sets!Next
<1> QED BY <1>7, <1>9, <1>10 DEF Next

LEMMA SetsInit == Init => Sets!Init
  BY DEF Init, Sets!Init, Parked

(* kafka-table.c:78-131,491-536: under every interleaving of the sessions  *)
(* a record is in use, retired or given up, never two of them, and is lost *)
(* to none but a free: the promise PointerArray keeps slot by slot.        *)
THEOREM TableImplementsRecordSets == Spec => ImplementsRecordSets
<1> QED BY Invariance, SetsInit, SetsStep, PTL
           DEF Spec, ImplementsRecordSets, Sets!Spec

-----------------------------------------------------------------------------
(* KafkaTable implements TopicService: a call takes effect when its record *)
(* enters the table, leaves it or accepts a message, a report when the     *)
(* callback counts it, a disconnect when the producer is gone.             *)

LEMMA OpenInit == Init => OpenInv
  BY TableAssumption DEF Init, OpenInv, CleanInv

(* A topic argument is kept for as long as the call is at kafka_table_     *)
(* create().                                                               *)
LEMMA ArgumentStep ==
  ASSUME IndInv, OpenInv, [Next]_vars, NEW u \in Session, pc'[u] = "create"
  PROVE  arg'[u] \in Topic
<1> USE DEF IndInv, TypeOK, OpenInv, Goto, callVars
<1>1. ASSUME NEW s \in Session, NEW t \in Topic, kafka_table_exists(s, t)
      PROVE  arg'[u] \in Topic
  BY <1>1 DEF kafka_table_exists
<1>2. ASSUME NEW s \in Session, Begin(s),
             \A t \in Topic : ~ kafka_table_exists(s, t)
      PROVE  arg'[u] \in Topic
  BY <1>2 DEF Begin, kafka_connect_init, kafka_send_init, kafka_send_deinit,
         kafka_stats_init, kafka_disconnect_topic, kafka_disconnect,
         kafka_module_unload
<1>3. ASSUME NEW s \in Session,
             \/ kafka_table_connect(s) \/ kafka_table_connect_failed(s)
             \/ kafka_table_create_found(s)
             \/ \E r \in Record : kafka_table_create(s, r)
             \/ kafka_table_create_failed(s)
             \/ kafka_table_reap_retired_locked(s)
             \/ \E r \in Record : kafka_table_send(s, r)
             \/ kafka_table_send_unknown(s)
             \/ \E m \in Msg : tek_kafka_topic_feed(s, m)
             \/ tek_kafka_topic_feed_full(s)
      PROVE  arg'[u] \in Topic
  BY <1>3 DEF kafka_table_connect, kafka_table_connect_failed,
         kafka_table_create_found, kafka_table_create,
         kafka_table_create_failed, kafka_table_reap_retired_locked,
         kafka_table_send, kafka_table_send_unknown, tek_kafka_topic_feed,
         tek_kafka_topic_feed_full
<1>4. ASSUME NEW s \in Session,
             \/ tek_kafka_topic_feed_retry(s)
             \/ tek_kafka_topic_feed_error(s)
             \/ kafka_table_send_done(s) \/ kafka_send_return(s)
             \/ \E r \in Record : kafka_topic_get_stats(s, r)
             \/ kafka_topic_get_stats_unknown(s)
             \/ tek_kafka_topic_get_stats_flushed(s)
             \/ tek_kafka_topic_get_stats_transferred(s)
             \/ tek_kafka_topic_get_stats_failed(s)
             \/ kafka_stats_return(s)
      PROVE  arg'[u] \in Topic
  BY <1>4 DEF tek_kafka_topic_feed_retry, tek_kafka_topic_feed_error,
         kafka_table_send_done, kafka_send_return, kafka_topic_get_stats,
         kafka_topic_get_stats_unknown, tek_kafka_topic_get_stats_flushed,
         tek_kafka_topic_get_stats_transferred,
         tek_kafka_topic_get_stats_failed, kafka_stats_return
<1>5. ASSUME NEW s \in Session,
             \/ \E r \in Record : kafka_table_dismiss(s, r)
             \/ kafka_table_dismiss_unknown(s) \/ kafka_table_dismiss_flushed(s)
             \/ kafka_table_remove_locked(s) \/ kafka_table_park(s)
             \/ kafka_table_dismiss_all(s) \/ kafka_table_dismiss_all_flushed(s)
             \/ tek_kafka_producer_join(s) \/ kafka_table_dismiss_all_done(s)
      PROVE  arg'[u] \in Topic
  BY <1>5 DEF kafka_table_dismiss, kafka_table_dismiss_unknown,
         kafka_table_dismiss_flushed, kafka_table_remove_locked,
         kafka_table_park, kafka_table_dismiss_all,
         kafka_table_dismiss_all_flushed, tek_kafka_producer_join,
         kafka_table_dismiss_all_done
<1>6. ASSUME \/ \E m \in Msg : Resolve(m)
             \/ \E th \in Thread : Serve(th)
             \/ producer_thread_exit \/ kafka_module_load \/ UNCHANGED vars
      PROVE  UNCHANGED <<pc, arg>>
  BY <1>6 DEF Resolve, rd_kafka_resolve, Serve, dr_msg_cb, rd_kafka_serve,
         producer_thread_exit, kafka_module_load, vars
<1> QED BY <1>1, <1>2, <1>3, <1>4, <1>5, <1>6 DEF Next, Continue

(* What the service sees of the table: the steps that change it, and those *)
(* that leave it, and the memory no topic has used, alone.                 *)
Quiet ==
  /\ UNCHANGED <<topics, name, transferred, failed, opaque>>
  /\ (producer # 0)' = (producer # 0)
  /\ OutQ' = OutQ
  /\ \A m \in Msg : mstate'[m] = "unused" <=> mstate[m] = "unused"
  /\ \A r \in Record : mem'[r] = "unused" <=> mem[r] = "unused"

LEMMA OtherStepsAreQuiet ==
  ASSUME IndInv, [Next]_vars,
         \A s \in Session :
           /\ ~ kafka_table_connect(s)
           /\ \A r \in Record : ~ kafka_table_create(s, r)
           /\ \A m \in Msg : ~ tek_kafka_topic_feed(s, m)
           /\ ~ kafka_table_remove_locked(s)
           /\ ~ kafka_table_dismiss_all_done(s),
         \A th \in Thread : ~ dr_msg_cb(th)
  PROVE  Quiet
<1> USE DEF tableVars, heapVars, countVars, queueVars, OutQ, Quiet
<1>1. ASSUME UNCHANGED <<topics, name, transferred, failed, opaque, producer,
                         mstate, mem>>
      PROVE  Quiet
  BY <1>1
<1>2. ASSUME NEW m \in Msg, Resolve(m)
      PROVE  Quiet
  BY <1>2 DEF Resolve, rd_kafka_resolve, IndInv, TypeOK
<1>3. ASSUME NEW s \in Session, kafka_table_reap_retired_locked(s)
      PROVE  Quiet
  BY <1>3 DEF kafka_table_reap_retired_locked, FreeRecords, IndInv, TypeOK,
         HeapInv
<1>4. ASSUME NEW s \in Session, kafka_table_park(s)
      PROVE  Quiet
  BY <1>4 DEF kafka_table_park, FreeRecords, IndInv, TypeOK, PointerInv
<1>5. ASSUME NEW s \in Session, Begin(s)
      PROVE  Quiet
  BY <1>1, <1>5 DEF Begin, kafka_connect_init, kafka_send_init,
         kafka_send_deinit, kafka_table_exists, kafka_stats_init,
         kafka_disconnect_topic, kafka_disconnect, kafka_module_unload
<1>6. ASSUME NEW s \in Session, Continue(s),
             ~ kafka_table_reap_retired_locked(s), ~ kafka_table_park(s)
      PROVE  Quiet
  <2>1. UNCHANGED <<topics, name, transferred, failed, opaque, producer,
                    mstate, mem>>
    BY <1>6 DEF Continue, kafka_table_connect_failed,
           kafka_table_create_found, kafka_table_create_failed,
           kafka_table_send, kafka_table_send_unknown,
           tek_kafka_topic_feed_full, tek_kafka_topic_feed_retry,
           tek_kafka_topic_feed_error, kafka_table_send_done,
           kafka_send_return, kafka_topic_get_stats,
           kafka_topic_get_stats_unknown, tek_kafka_topic_get_stats_flushed,
           tek_kafka_topic_get_stats_transferred,
           tek_kafka_topic_get_stats_failed, kafka_stats_return,
           kafka_table_dismiss, kafka_table_dismiss_unknown,
           kafka_table_dismiss_flushed, kafka_table_dismiss_all,
           kafka_table_dismiss_all_flushed, tek_kafka_producer_join
  <2> QED BY <1>1, <2>1
<1>7. ASSUME \/ \E th \in Thread, m \in Msg : rd_kafka_serve(th, m)
             \/ producer_thread_exit \/ kafka_module_load \/ UNCHANGED vars
      PROVE  Quiet
  BY <1>1, <1>7 DEF rd_kafka_serve, producer_thread_exit, kafka_module_load,
         vars
<1> QED BY <1>2, <1>3, <1>4, <1>5, <1>6, <1>7 DEF Next, Serve

LEMMA OpenStep == IndInv /\ OpenInv /\ [Next]_vars => OpenInv'
<1> SUFFICES ASSUME IndInv, OpenInv, [Next]_vars
             PROVE  OpenInv'
  OBVIOUS
<1>0. /\ CleanInv /\ None \notin Record
      /\ topics \in SUBSET Record
      /\ opaque \in [Msg -> Record \cup {None}]
      /\ mem \in [Record -> {"unused", "allocated", "freed"}]
      /\ name \in [Record -> Topic \cup {None}]
      /\ transferred \in [Record -> Nat] /\ failed \in [Record -> Nat]
  BY TableAssumption DEF OpenInv, IndInv, TypeOK
<1> USE DEF tableVars, heapVars, countVars, queueVars
<1>1. ASSUME NEW s \in Session, NEW r \in Record, kafka_table_create(s, r)
      PROVE  CleanInv'
  <2>1. arg[s] \in Topic
    BY <1>1 DEF kafka_table_create, OpenInv
  <2> QED BY <1>0, <1>1, <2>1 DEF kafka_table_create, CleanInv
<1>2. ASSUME NEW s \in Session, NEW m \in Msg, tek_kafka_topic_feed(s, m)
      PROVE  CleanInv'
  <2>1. tt[s] \in Record /\ mem[tt[s]] = "allocated"
    BY <1>0, <1>2 DEF tek_kafka_topic_feed, IndInv, PointerInv, HeapInv,
           InTablePCs, ReadPCs
  <2> QED BY <1>0, <1>2, <2>1 DEF tek_kafka_topic_feed, CleanInv
<1>3. ASSUME NEW s \in Session, kafka_table_remove_locked(s)
      PROVE  CleanInv'
  BY <1>0, <1>3 DEF kafka_table_remove_locked, CleanInv
<1>4. ASSUME NEW s \in Session, kafka_table_dismiss_all_done(s)
      PROVE  CleanInv'
  BY <1>0, <1>4 DEF kafka_table_dismiss_all_done, FreeRecords,
             CleanInv
<1>5. ASSUME NEW s \in Session, kafka_table_connect(s)
      PROVE  CleanInv'
  BY <1>0, <1>5 DEF kafka_table_connect, CleanInv
<1>6. ASSUME NEW th \in Thread, dr_msg_cb(th)
      PROVE  CleanInv'
  <2>1. /\ opaque[serving[th]] \in Record
        /\ mem[opaque[serving[th]]] = "allocated"
    BY <1>6 DEF dr_msg_cb, IndInv, TypeOK, ServeInv, HeapInv, OutQ
  <2>2. \A r \in Record : mem[r] = "unused" =>
          transferred'[r] = transferred[r] /\ failed'[r] = failed[r]
    BY <1>0, <1>6, <2>1 DEF dr_msg_cb
  <2> QED BY <1>0, <1>6, <2>2 DEF dr_msg_cb, CleanInv
<1>7. ASSUME Quiet PROVE CleanInv'
  <2>1. \A r \in Record : mem'[r] = "unused" <=> mem[r] = "unused"
    BY <1>7 DEF Quiet
  <2>2. UNCHANGED <<topics, name, transferred, failed, opaque>>
    BY <1>7 DEF Quiet
  <2>3. \A m \in Msg : opaque[m] # None =>
          opaque[m] \in Record /\ mem[opaque[m]] # "unused"
    BY <1>0 DEF CleanInv
  <2> QED BY <1>0, <2>1, <2>2, <2>3 DEF CleanInv
<1>8. ASSUME ~Quiet PROVE CleanInv'
  <2>1. \/ \E s \in Session :
             \/ kafka_table_connect(s)
             \/ \E r \in Record : kafka_table_create(s, r)
             \/ \E m \in Msg : tek_kafka_topic_feed(s, m)
             \/ kafka_table_remove_locked(s)
             \/ kafka_table_dismiss_all_done(s)
        \/ \E th \in Thread : dr_msg_cb(th)
    BY <1>8, OtherStepsAreQuiet, Zenon
  <2> QED BY <2>1, <1>1, <1>2, <1>3, <1>4, <1>5, <1>6
<1>9. CleanInv'
  BY <1>7, <1>8
<1> QED BY <1>9, ArgumentStep DEF OpenInv

(* One record at most answers a lookup, and its counters are the topic's.  *)
LEMMA FoundOnce ==
  ASSUME IndInv, NEW r \in topics
  PROVE  kafka_table_find_locked(name[r]) = {r}
  BY DEF kafka_table_find_locked, IndInv, OneRecordPerTopic

LEMMA CountInNone == ASSUME NEW c PROVE CountIn({}, c) = 0
  BY DEF CountIn

LEMMA CountInOne == ASSUME NEW r, NEW c PROVE CountIn({r}, c) = c[r]
<1> DEFINE found == CHOOSE x \in {r} : TRUE
<1>1. {r} # {} /\ \E x : x \in {r}
  OBVIOUS
<1>2. found \in {r}
  BY <1>1, Zenon
<1>3. found = r
  BY <1>2
<1>4. CountIn({r}, c) = c[found]
  BY <1>1, Zenon DEF CountIn
<1> QED BY <1>3, <1>4

(* Counters that agree on the records of the table show the same.          *)
LEMMA CountOfSame ==
  ASSUME IndInv, NEW t, NEW c, NEW d, \A r \in topics : d[r] = c[r]
  PROVE  CountOf(t, d) = CountOf(t, c)
<1>1. CASE kafka_table_find_locked(t) = {}
  BY <1>1, CountInNone DEF CountOf
<1>2. CASE kafka_table_find_locked(t) # {}
  <2>1. PICK r \in topics : name[r] = t
    BY <1>2 DEF kafka_table_find_locked
  <2>2. kafka_table_find_locked(t) = {r}
    BY <2>1, FoundOnce
  <2> QED BY <2>2, CountInOne DEF CountOf
<1> QED BY <1>1, <1>2

(* A step that changes neither the topics nor a counter of theirs leaves   *)
(* what kafka_stats() would find.                                          *)
LEMMA SameCounts ==
  ASSUME UNCHANGED <<topics, name, transferred, failed>>
  PROVE  UNCHANGED <<[t \in Topic |-> CountOf(t, transferred)],
                     [t \in Topic |-> CountOf(t, failed)]>>
<1>1. \A t : kafka_table_find_locked(t)' = kafka_table_find_locked(t)
  BY DEF kafka_table_find_locked
<1>2. \A t : /\ CountOf(t, transferred)' = CountOf(t, transferred)
             /\ CountOf(t, failed)' = CountOf(t, failed)
  BY <1>1 DEF CountOf
<1> QED BY <1>2

LEMMA SameHomes ==
  ASSUME UNCHANGED <<topics, name, opaque>>
  PROVE  UNCHANGED [m \in Msg |-> Home(m)]
  BY DEF Home

LEMMA QuietStutters ==
  ASSUME Quiet
  PROVE  UNCHANGED Service!serviceVars
<1>1. /\ UNCHANGED <<topics, name, transferred, failed, opaque>>
      /\ (producer # 0)' = (producer # 0) /\ OutQ' = OutQ
      /\ \A m \in Msg : mstate'[m] = "unused" <=> mstate[m] = "unused"
  BY DEF Quiet
<1>2. {m \in Msg : mstate[m] = "unused"}' = {m \in Msg : mstate[m] = "unused"}
  BY <1>1
<1>3. {name[r] : r \in topics}' = {name[r] : r \in topics}
  BY <1>1
<1> QED BY <1>1, <1>2, <1>3, SameCounts, SameHomes DEF Service!serviceVars

LEMMA ConnectIsService ==
  ASSUME IndInv, OpenInv, NEW s \in Session, kafka_table_connect(s)
  PROVE  Service!Connect
<1>1. /\ UNCHANGED <<topics, name, transferred, failed, opaque, mstate>>
      /\ producer = 0 /\ producer' # 0
  BY DEF kafka_table_connect, heapVars, countVars, queueVars, IndInv, TypeOK
<1>2. OutQ' = OutQ
  BY <1>1 DEF OutQ
<1> QED BY <1>1, <1>2, SameCounts, SameHomes
           DEF Service!Connect, Service!counters

LEMMA CreateIsService ==
  ASSUME IndInv, OpenInv, NEW s \in Session, NEW r \in Record,
         kafka_table_create(s, r)
  PROVE  \E t \in Topic : Service!Open(t)
<1> PICK t \in Topic : arg[s] = t
  BY DEF kafka_table_create, OpenInv
<1>1. /\ UNCHANGED <<producer, transferred, failed, opaque, mstate>>
      /\ topics' = topics \cup {r} /\ name' = [name EXCEPT ![r] = t]
      /\ mem[r] = "unused" /\ producer # 0
      /\ kafka_table_find_locked(t) = {}
  BY DEF kafka_table_create, MayCreate, countVars, queueVars
<1>2. r \notin topics /\ topics \subseteq Record /\ r \in DOMAIN name
  BY <1>1 DEF IndInv, TypeOK, HeapInv
<1>3. \A x \in topics' : name'[x] = IF x = r THEN t ELSE name[x]
  BY <1>1, <1>2 DEF IndInv, TypeOK
<1>4. OutQ' = OutQ
  BY <1>1 DEF OutQ
<1>5. t \notin {name[x] : x \in topics}
  BY <1>1 DEF kafka_table_find_locked
<1>6. {name[x] : x \in topics}' = {name[x] : x \in topics} \cup {t}
  BY <1>1, <1>2, <1>3
<1>7. [m \in Msg |-> Home(m)]' = [m \in Msg |-> Home(m)]
  <2>1. \A m \in Msg : opaque[m] # r
    BY <1>1, TableAssumption DEF OpenInv, CleanInv
  <2> QED BY <1>1, <1>2, <1>3, <2>1 DEF Home
<1>8. kafka_table_find_locked(t)' = {r}
  BY <1>1, <1>2, <1>3 DEF kafka_table_find_locked
<1>9. \A u \in Topic \ {t} :
        kafka_table_find_locked(u)' = kafka_table_find_locked(u)
  BY <1>1, <1>2, <1>3 DEF kafka_table_find_locked
<1>10. \A u \in Topic : /\ CountOf(u, transferred)' = CountOf(u, transferred)
                        /\ CountOf(u, failed)' = CountOf(u, failed)
  <2>1. transferred[r] = 0 /\ failed[r] = 0
    BY <1>1 DEF OpenInv, CleanInv
  <2>2. /\ CountOf(t, transferred)' = CountOf(t, transferred)
        /\ CountOf(t, failed)' = CountOf(t, failed)
    BY <1>1, <1>8, <2>1, CountInNone, CountInOne DEF CountOf
  <2> QED BY <1>1, <1>9, <2>2 DEF CountOf
<1>11. Service!Open(t)
  BY <1>1, <1>4, <1>5, <1>6, <1>7, <1>10 DEF Service!Open, Service!counters
<1> QED BY <1>11

LEMMA FeedIsService ==
  ASSUME IndInv, OpenInv, NEW s \in Session, NEW m \in Msg,
         tek_kafka_topic_feed(s, m)
  PROVE  \E t \in Topic : Service!Send(m, t)
<1>1. PICK r \in topics : tt[s] = r
  BY DEF tek_kafka_topic_feed, IndInv, PointerInv, InTablePCs, ReadPCs
<1>2. PICK t \in Topic : name[r] = t
  BY DEF OpenInv, CleanInv
<1>3. /\ UNCHANGED <<producer, topics, name, transferred, failed>>
      /\ mstate[m] = "unused" /\ mstate' = [mstate EXCEPT ![m] = "queued"]
      /\ opaque' = [opaque EXCEPT ![m] = r]
  BY <1>1 DEF tek_kafka_topic_feed, tableVars, heapVars, countVars
<1>4. OutQ' = OutQ \cup {m}
  BY <1>3 DEF OutQ, IndInv, TypeOK
<1>5. {x \in Msg : mstate[x] = "unused"}'
        = {x \in Msg : mstate[x] = "unused"} \ {m}
  BY <1>3 DEF IndInv, TypeOK
<1>6. [x \in Msg |-> Home(x)]' = [[x \in Msg |-> Home(x)] EXCEPT ![m] = t]
  BY <1>2, <1>3 DEF Home, IndInv, TypeOK
<1>7. {name[x] : x \in topics}' = {name[x] : x \in topics}
  BY <1>3
<1>8. Service!Send(m, t)
  BY <1>2, <1>3, <1>4, <1>5, <1>6, <1>7, SameCounts
     DEF Service!Send, Service!counters
<1> QED BY <1>8

(* One more report on a record shows in the counts of its topic alone.     *)
LEMMA OneMore ==
  ASSUME IndInv, NEW r \in topics, name[r] \in Topic, NEW c, NEW d,
         d[r] = c[r] + 1, \A x \in topics \ {r} : d[x] = c[x]
  PROVE  [t \in Topic |-> CountOf(t, d)]
           = [[t \in Topic |-> CountOf(t, c)] EXCEPT ![name[r]] = @ + 1]
<1>1. CountOf(name[r], d) = CountOf(name[r], c) + 1
  BY FoundOnce, CountInOne DEF CountOf
<1>2. ASSUME NEW t \in Topic \ {name[r]}
      PROVE  CountOf(t, d) = CountOf(t, c)
  <2>1. CASE kafka_table_find_locked(t) = {}
    BY <2>1, CountInNone DEF CountOf
  <2>2. CASE kafka_table_find_locked(t) # {}
    <3>1. PICK x \in topics : name[x] = t
      BY <2>2 DEF kafka_table_find_locked
    <3>2. kafka_table_find_locked(t) = {x} /\ x # r
      BY <1>2, <3>1, FoundOnce
    <3> QED BY <3>2, CountInOne DEF CountOf
  <2> QED BY <2>1, <2>2
<1> QED BY <1>1, <1>2

(* The callback counts for the topic of the record, if it is still open.   *)
LEMMA ReportIsService ==
  ASSUME IndInv, OpenInv, NEW th \in Thread, dr_msg_cb(th)
  PROVE  \E m \in Msg : Service!Report(m)
<1>1. PICK m \in Msg : serving[th] = m
  BY DEF dr_msg_cb, IndInv, TypeOK
<1>2. PICK r \in Record : opaque[m] = r
  BY <1>1 DEF dr_msg_cb, IndInv, TypeOK, ServeInv, HeapInv, OutQ
<1>3. /\ UNCHANGED <<producer, topics, name, opaque>>
      /\ mstate' = [mstate EXCEPT ![m] = "done"]
      /\ failed' = [failed EXCEPT ![r] = @ + FailedBy(m)]
      /\ transferred' = [transferred EXCEPT ![r] = @ + TransferredBy(m)]
  BY <1>1, <1>2 DEF dr_msg_cb, tableVars, heapVars
<1>4. /\ mstate[m] \in {"acked", "nacked"} /\ m \in OutQ
      /\ topics \subseteq Record
      /\ mstate \in [Msg -> {"unused", "queued", "acked", "nacked", "done"}]
      /\ transferred \in [Record -> Nat] /\ failed \in [Record -> Nat]
  BY <1>1 DEF dr_msg_cb, IndInv, TypeOK, ServeInv, OutQ
<1>5. OutQ' = OutQ \ {m}
  BY <1>3, <1>4 DEF OutQ
<1>6. {x \in Msg : mstate[x] = "unused"}' = {x \in Msg : mstate[x] = "unused"}
  BY <1>3, <1>4
<1>7. {name[x] : x \in topics}' = {name[x] : x \in topics}
  BY <1>3
<1>8. [x \in Msg |-> Home(x)]' = [x \in Msg |-> Home(x)]
  BY <1>3, SameHomes
<1>9. /\ [t \in Topic |-> CountOf(t, transferred)]'
           = [t \in Topic |-> CountOf(t, transferred')]
      /\ [t \in Topic |-> CountOf(t, failed)]'
           = [t \in Topic |-> CountOf(t, failed')]
  BY <1>3 DEF CountOf, kafka_table_find_locked
<1> SUFFICES Service!Report(m)
  OBVIOUS
<1>10. CASE r \notin topics
  <2>1. Home(m) = None
    BY <1>2, <1>10 DEF Home
  <2>2. \A x \in topics : /\ transferred'[x] = transferred[x]
                          /\ failed'[x] = failed[x]
    BY <1>3, <1>4, <1>10
  <2>3. /\ [t \in Topic |-> CountOf(t, transferred')]
             = [t \in Topic |-> CountOf(t, transferred)]
        /\ [t \in Topic |-> CountOf(t, failed')]
             = [t \in Topic |-> CountOf(t, failed)]
    BY <2>2, CountOfSame
  <2> QED BY <1>3, <1>4, <1>5, <1>6, <1>7, <1>8, <1>9, <2>1, <2>3
             DEF Service!Report, Service!counters
<1>11. CASE r \in topics
  <2>1. Home(m) = name[r] /\ name[r] \in Topic /\ name[r] # None
    BY <1>2, <1>11, TableAssumption DEF Home, OpenInv, CleanInv
  <2>2. CASE mstate[m] = "acked"
    <3>1. FailedBy(m) = 0 /\ TransferredBy(m) = 1
      BY <2>2 DEF FailedBy, TransferredBy
    <3>2. /\ failed' = failed
          /\ transferred'[r] = transferred[r] + 1
          /\ \A x \in topics \ {r} : transferred'[x] = transferred[x]
      BY <1>3, <1>4, <3>1
    <3>3. [t \in Topic |-> CountOf(t, transferred')]
            = [[t \in Topic |-> CountOf(t, transferred)]
                 EXCEPT ![name[r]] = @ + 1]
      BY <1>11, <2>1, <3>2, OneMore
    <3>4. UNCHANGED [t \in Topic |-> CountOf(t, failed)]
      BY <1>9, <3>2
    <3> QED BY <1>3, <1>4, <1>5, <1>6, <1>7, <1>8, <1>9, <2>1, <3>3, <3>4
               DEF Service!Report, Service!counters
  <2>3. CASE mstate[m] = "nacked"
    <3>1. FailedBy(m) = 1 /\ TransferredBy(m) = 0
      BY <2>3 DEF FailedBy, TransferredBy
    <3>2. /\ transferred' = transferred
          /\ failed'[r] = failed[r] + 1
          /\ \A x \in topics \ {r} : failed'[x] = failed[x]
      BY <1>3, <1>4, <3>1
    <3>3. [t \in Topic |-> CountOf(t, failed')]
            = [[t \in Topic |-> CountOf(t, failed)] EXCEPT ![name[r]] = @ + 1]
      BY <1>11, <2>1, <3>2, OneMore
    <3>4. UNCHANGED [t \in Topic |-> CountOf(t, transferred)]
      BY <1>9, <3>2
    <3> QED BY <1>3, <1>4, <1>5, <1>6, <1>7, <1>8, <1>9, <2>1, <3>3, <3>4
               DEF Service!Report, Service!counters
  <2> QED BY <1>4, <2>2, <2>3
<1> QED BY <1>10, <1>11

LEMMA RemoveIsService ==
  ASSUME IndInv, OpenInv, NEW s \in Session, kafka_table_remove_locked(s)
  PROVE  \E t \in Topic : Service!Close(t)
<1>1. PICK r \in topics : tt[s] = r
  BY DEF kafka_table_remove_locked, IndInv, PointerInv, InTablePCs
<1>2. PICK t \in Topic : name[r] = t
  BY DEF OpenInv, CleanInv
<1>3. /\ UNCHANGED <<producer, name, opaque, mstate, transferred, failed>>
      /\ topics' = topics \ {r}
  BY <1>1 DEF kafka_table_remove_locked, countVars, queueVars
<1>4. \A x \in topics : name[x] = t => x = r
  BY <1>2 DEF IndInv, OneRecordPerTopic
<1>5. OutQ' = OutQ
  BY <1>3 DEF OutQ
<1>6. {name[x] : x \in topics}' = {name[x] : x \in topics} \ {t}
  BY <1>2, <1>3, <1>4
<1>7. t \in {name[x] : x \in topics}
  BY <1>2
<1>8. [m \in Msg |-> Home(m)]'
        = [m \in Msg |-> IF [x \in Msg |-> Home(x)][m] = t THEN None
                         ELSE [x \in Msg |-> Home(x)][m]]
  <2>1. \A m \in Msg : Home(m)' = IF Home(m) = t THEN None ELSE Home(m)
    BY <1>2, <1>3, <1>4, TableAssumption DEF Home
  <2> QED BY <2>1
<1>9. kafka_table_find_locked(t)' = {}
  BY <1>2, <1>3, <1>4 DEF kafka_table_find_locked
<1>10. \A u \in Topic \ {t} :
         kafka_table_find_locked(u)' = kafka_table_find_locked(u)
  BY <1>2, <1>3 DEF kafka_table_find_locked
<1>11. /\ [u \in Topic |-> CountOf(u, transferred)]'
            = [[u \in Topic |-> CountOf(u, transferred)] EXCEPT ![t] = 0]
       /\ [u \in Topic |-> CountOf(u, failed)]'
            = [[u \in Topic |-> CountOf(u, failed)] EXCEPT ![t] = 0]
  <2>1. CountOf(t, transferred)' = 0 /\ CountOf(t, failed)' = 0
    BY <1>9, CountInNone DEF CountOf
  <2>2. \A u \in Topic \ {t} :
          /\ CountOf(u, transferred)' = CountOf(u, transferred)
          /\ CountOf(u, failed)' = CountOf(u, failed)
    BY <1>3, <1>10 DEF CountOf
  <2> QED BY <2>1, <2>2
<1>12. Service!Close(t)
  BY <1>3, <1>5, <1>6, <1>7, <1>8, <1>11 DEF Service!Close
<1> QED BY <1>12

LEMMA DismissAllIsService ==
  ASSUME IndInv, OpenInv, NEW s \in Session, kafka_table_dismiss_all_done(s)
  PROVE  Service!Disconnect
<1>1. /\ UNCHANGED <<name, opaque, mstate, transferred, failed>>
      /\ topics' = {} /\ producer' = 0
  BY DEF kafka_table_dismiss_all_done, countVars, queueVars
<1>2. OutQ = {} /\ OutQ' = OutQ
  BY <1>1, NotBusyMeansNothingPending DEF kafka_table_dismiss_all_done, OutQ
<1>3. \A t : kafka_table_find_locked(t)' = {}
  BY <1>1 DEF kafka_table_find_locked
<1>4. /\ [t \in Topic |-> CountOf(t, transferred)]' = Service!Zero
      /\ [t \in Topic |-> CountOf(t, failed)]' = Service!Zero
  <2>1. \A t : CountOf(t, transferred)' = 0 /\ CountOf(t, failed)' = 0
    BY <1>3, CountInNone DEF CountOf
  <2> QED BY <2>1 DEF Service!Zero
<1>5. [m \in Msg |-> Home(m)]' = [m \in Msg |-> None]
  BY <1>1 DEF Home
<1> QED BY <1>1, <1>2, <1>4, <1>5 DEF Service!Disconnect

LEMMA ServiceStep ==
  IndInv /\ OpenInv /\ [Next]_vars => [Service!Next]_(Service!serviceVars)
<1> SUFFICES ASSUME IndInv, OpenInv, [Next]_vars
             PROVE  Service!Next \/ UNCHANGED Service!serviceVars
  OBVIOUS
<1>1. ASSUME NEW s \in Session, kafka_table_connect(s)
      PROVE  Service!Next
  BY <1>1, ConnectIsService DEF Service!Next
<1>2. ASSUME NEW s \in Session, NEW r \in Record, kafka_table_create(s, r)
      PROVE  Service!Next
  BY <1>2, CreateIsService DEF Service!Next
<1>3. ASSUME NEW s \in Session, NEW m \in Msg, tek_kafka_topic_feed(s, m)
      PROVE  Service!Next
  BY <1>3, FeedIsService DEF Service!Next
<1>4. ASSUME NEW th \in Thread, dr_msg_cb(th)
      PROVE  Service!Next
  BY <1>4, ReportIsService DEF Service!Next
<1>5. ASSUME NEW s \in Session, kafka_table_remove_locked(s)
      PROVE  Service!Next
  BY <1>5, RemoveIsService DEF Service!Next
<1>6. ASSUME NEW s \in Session, kafka_table_dismiss_all_done(s)
      PROVE  Service!Next
  BY <1>6, DismissAllIsService DEF Service!Next
<1>7. ASSUME ~ Quiet
      PROVE  Service!Next
  <2>1. \/ \E s \in Session :
             \/ kafka_table_connect(s)
             \/ \E r \in Record : kafka_table_create(s, r)
             \/ \E m \in Msg : tek_kafka_topic_feed(s, m)
             \/ kafka_table_remove_locked(s)
             \/ kafka_table_dismiss_all_done(s)
        \/ \E th \in Thread : dr_msg_cb(th)
    BY <1>7, OtherStepsAreQuiet, Zenon
  <2> QED BY <2>1, <1>1, <1>2, <1>3, <1>4, <1>5, <1>6
<1> QED BY <1>7, QuietStutters

LEMMA ServiceInit == Init => Service!Init
<1> SUFFICES ASSUME Init
             PROVE  Service!Init
  OBVIOUS
<1>1. \A t : kafka_table_find_locked(t) = {}
  BY DEF Init, kafka_table_find_locked
<1>2. /\ [t \in Topic |-> CountOf(t, transferred)] = Service!Zero
      /\ [t \in Topic |-> CountOf(t, failed)] = Service!Zero
  BY <1>1, CountInNone DEF CountOf, Service!Zero
<1>3. [m \in Msg |-> Home(m)] = [m \in Msg |-> None]
  BY DEF Init, Home
<1>4. OutQ = {} /\ {m \in Msg : mstate[m] = "unused"} = Msg
  BY DEF Init, OutQ
<1> QED BY <1>2, <1>3, <1>4 DEF Init, Service!Init

(* kafka-table.c, README.md:443-444: with the lock taken and let go, the   *)
(* records parked and freed late and a teardown in four steps, every call  *)
(* takes effect at one moment, and what kafka_stats() would find of a      *)
(* topic is what was reported of the messages sent to it since it was      *)
(* opened.                                                                 *)
THEOREM TableImplementsService == Spec => ImplementsTopicService
<1>1. OpenInv /\ IndInv /\ [Next]_vars => OpenInv'
  BY OpenStep
<1>2. IndInv /\ OpenInv /\ [Next]_vars => [Service!Next]_(Service!serviceVars)
  BY ServiceStep
<1> QED BY <1>1, <1>2, Invariance, OpenInit, ServiceInit, PTL
           DEF Spec, ImplementsTopicService, Service!Spec
=============================================================================
