-------------------------- MODULE KafkaTableProofs --------------------------
(***************************************************************************)
(* IndInv is an inductive invariant of KafkaTable, for any number of       *)
(* sessions, topics, records and messages, and the safety properties of    *)
(* the table follow from it.  One lemma per conjunct of IndInv says that   *)
(* every step preserves it: a step of the lemma for each action that can   *)
(* disturb the conjunct, one for the actions that leave it alone.          *)
(***************************************************************************)
EXTENDS KafkaTableInvariant, FiniteSetTheorems, TLAPS

-----------------------------------------------------------------------------
(* The lock.                                                               *)

(* While a session is between taking and releasing ktlock for writing, no  *)
(* other session is inside a critical section.                             *)
LEMMA WriterIsAlone ==
  ASSUME LockInv, NEW s \in Session, pc[s] \in WritePCs
  PROVE  /\ readers = {}
         /\ \A u \in Session \ {s} : pc[u] \notin ReadPCs \cup WritePCs
  BY TableAssumption DEF LockInv

(* pthread_rwlock_wrlock() succeeds only while no session is inside one.   *)
LEMMA FreeLockIsHeldByNobody ==
  ASSUME LockInv, WriteLockFree
  PROVE  \A u \in Session : pc[u] \notin ReadPCs \cup WritePCs
  BY TableAssumption DEF LockInv, WriteLockFree

(* kafka_table_reap_retired_locked(), kafka_table_remove_locked() and      *)
(* kafka_table_dismiss_all() free records on this evidence: no producer,   *)
(* or an empty out queue, means that no report is outstanding.             *)
LEMMA NotBusyMeansNothingPending ==
  ASSUME IndInv, ~Busy
  PROVE  OutQ = {}
  BY DEF IndInv, ProducerInv, Busy

(* Outside kafka_table_dismiss_all() the open handles are those of the     *)
(* topics in the table.                                                    *)
LEMMA HandlesAreTopics ==
  ASSUME IndInv, NEW s \in Session,
         pc[s] \in ReadPCs \cup (WritePCs \ TornDownPCs)
  PROVE  rkt = topics
  BY WriterIsAlone
     DEF IndInv, LockInv, ProducerInv, ReadPCs, WritePCs, TornDownPCs

-----------------------------------------------------------------------------
(* Types of the values that kafka_stats() and dr_msg_cb() store.           *)

(* What a record has accepted can be counted.                              *)
LEMMA AcceptedCardinality ==
  ASSUME NEW r
  PROVE  Cardinality(Accepted(r)) \in Nat
  BY TableAssumption, FS_CardinalityType, FS_Subset DEF Accepted

(* Storing one field of a kafka_stats() result keeps its type.             *)
LEMMA StatStep ==
  ASSUME stat \in [Session -> StatResult], NEW s \in Session,
         NEW n \in Nat, NEW b \in BOOLEAN
  PROVE  /\ [stat EXCEPT ![s].asked = n] \in [Session -> StatResult]
         /\ [stat EXCEPT ![s].transferred = n] \in [Session -> StatResult]
         /\ [stat EXCEPT ![s].failed = n] \in [Session -> StatResult]
         /\ [stat EXCEPT ![s].drained = b] \in [Session -> StatResult]
<1>1. /\ [stat EXCEPT ![s].asked = n] \in [Session -> StatResult]
      /\ [stat EXCEPT ![s].transferred = n] \in [Session -> StatResult]
      /\ [stat EXCEPT ![s].failed = n] \in [Session -> StatResult]
  BY DEF StatResult
<1>2. [stat EXCEPT ![s].drained = b] \in [Session -> StatResult]
  BY DEF StatResult
<1> QED BY <1>1, <1>2

(* The zeroed result kafka_topic_get_stats() starts from.                  *)
LEMMA NoStatType == NoStat \in StatResult
  BY DEF NoStat, StatResult

(* atomic_fetch_add() on one counter.                                      *)
LEMMA CounterStep ==
  ASSUME NEW f \in [Record -> Nat], NEW r \in Record, NEW n \in Nat
  PROVE  [f EXCEPT ![r] = f[r] + n] \in [Record -> Nat]
  OBVIOUS

-----------------------------------------------------------------------------
(* Every action keeps every variable in its range.                        *)
LEMMA TypeStep == IndInv /\ [Next]_vars => TypeOK'
<1> SUFFICES ASSUME IndInv, [Next]_vars PROVE TypeOK'
  OBVIOUS
<1> USE DEF IndInv, TypeOK, PCs, ReadPCs, WritePCs, FreePCs, Goto, lockVars,
            tableVars, heapVars, countVars, queueVars, pollVars, callVars
<1>1. ASSUME NEW s \in Session, NEW r \in Record, kafka_topic_get_stats(s, r)
      PROVE  TypeOK'
  BY <1>1, AcceptedCardinality, StatStep DEF kafka_topic_get_stats
<1>2. ASSUME NEW s \in Session, tek_kafka_topic_get_stats_flushed(s)
      PROVE  TypeOK'
  BY <1>2, StatStep DEF tek_kafka_topic_get_stats_flushed
<1>3. ASSUME NEW s \in Session, tek_kafka_topic_get_stats_transferred(s)
      PROVE  TypeOK'
  <2>1. tt[s] \in Record
    BY <1>3 DEF tek_kafka_topic_get_stats_transferred, PointerInv, InTablePCs
  <2> QED BY <1>3, <2>1, StatStep DEF tek_kafka_topic_get_stats_transferred
<1>4. ASSUME NEW s \in Session, tek_kafka_topic_get_stats_failed(s)
      PROVE  TypeOK'
  <2>1. tt[s] \in Record
    BY <1>4 DEF tek_kafka_topic_get_stats_failed, PointerInv, InTablePCs
  <2> QED BY <1>4, <2>1, StatStep DEF tek_kafka_topic_get_stats_failed
<1>5. ASSUME NEW s \in Session, kafka_stats_return(s)
      PROVE  TypeOK'
  BY <1>5, NoStatType DEF kafka_stats_return
<1>6. ASSUME NEW s \in Session, kafka_table_connect(s)
      PROVE  TypeOK'
  BY <1>6 DEF kafka_table_connect
<1>7. ASSUME NEW s \in Session, NEW r \in Record, kafka_table_create(s, r)
      PROVE  TypeOK'
  BY <1>7 DEF kafka_table_create, MayCreate
<1>8. ASSUME NEW s \in Session, kafka_table_reap_retired_locked(s)
      PROVE  TypeOK'
  BY <1>8 DEF kafka_table_reap_retired_locked, FreeRecords
<1>9. ASSUME NEW s \in Session, NEW r \in Record, kafka_table_send(s, r)
      PROVE  TypeOK'
  BY <1>9 DEF kafka_table_send
<1>10. ASSUME NEW s \in Session, NEW m \in Msg, tek_kafka_topic_feed(s, m)
      PROVE  TypeOK'
  BY <1>10 DEF tek_kafka_topic_feed
<1>11. ASSUME NEW s \in Session, tek_kafka_topic_feed_error(s)
      PROVE  TypeOK'
  BY <1>11 DEF tek_kafka_topic_feed_error
<1>12. ASSUME NEW s \in Session, kafka_table_send_done(s)
      PROVE  TypeOK'
  BY <1>12 DEF kafka_table_send_done
<1>13. ASSUME NEW s \in Session, kafka_send_return(s)
      PROVE  TypeOK'
  BY <1>13 DEF kafka_send_return
<1>14. ASSUME NEW s \in Session, NEW r \in Record, kafka_table_dismiss(s, r)
      PROVE  TypeOK'
  BY <1>14 DEF kafka_table_dismiss
<1>15. ASSUME NEW s \in Session, kafka_table_remove_locked(s)
      PROVE  TypeOK'
  BY <1>15 DEF kafka_table_remove_locked
<1>16. ASSUME NEW s \in Session, kafka_table_park(s)
      PROVE  TypeOK'
  <2>1. tt[s] \in Record
    BY <1>16 DEF kafka_table_park, PointerInv
  <2>2. /\ retired' \in SUBSET Record /\ leaked' \in SUBSET Record
          /\ mem' \in [Record -> {"unused", "allocated", "freed"}]
    BY <1>16, <2>1 DEF kafka_table_park, FreeRecords
  <2> QED BY <1>16, <2>2 DEF kafka_table_park
<1>17. ASSUME NEW s \in Session, kafka_table_dismiss_all_flushed(s)
      PROVE  TypeOK'
  BY <1>17 DEF kafka_table_dismiss_all_flushed
<1>18. ASSUME NEW s \in Session, tek_kafka_producer_join(s)
      PROVE  TypeOK'
  BY <1>18 DEF tek_kafka_producer_join
<1>19. ASSUME NEW s \in Session, kafka_table_dismiss_all_done(s)
      PROVE  TypeOK'
  BY <1>19 DEF kafka_table_dismiss_all_done, FreeRecords, Disposed
<1>20. ASSUME NEW th \in Thread, dr_msg_cb(th)
      PROVE  TypeOK'
  <2> DEFINE m == serving[th]
  <2>1. opaque[m] \in Record
    BY <1>20 DEF dr_msg_cb, ServeInv, HeapInv, OutQ
  <2>2. FailedBy(m) \in Nat /\ TransferredBy(m) \in Nat
    BY DEF FailedBy, TransferredBy
  <2>3. /\ failed' = [failed EXCEPT ![opaque[m]] =
                          failed[opaque[m]] + FailedBy(m)]
          /\ transferred' = [transferred EXCEPT ![opaque[m]] =
                               transferred[opaque[m]] + TransferredBy(m)]
    BY <1>20 DEF dr_msg_cb
  <2>4. failed' \in [Record -> Nat] /\ transferred' \in [Record -> Nat]
    BY <2>1, <2>2, <2>3, CounterStep
  <2>5. /\ mstate' \in [Msg -> {"unused", "queued", "acked", "nacked", "done"}]
          /\ serving' \in [Thread -> Msg \cup {None}]
    BY <1>20 DEF dr_msg_cb
  <2> QED BY <1>20, <2>4, <2>5 DEF dr_msg_cb
<1>21. ASSUME NEW s \in Session, Begin(s)
      PROVE  TypeOK'
  BY <1>21 DEF Begin, kafka_connect_init, kafka_send_init, kafka_send_deinit,
         kafka_table_exists, kafka_stats_init, kafka_disconnect_topic,
         kafka_disconnect, kafka_module_unload
<1>22. ASSUME NEW s \in Session, Continue(s),
              \A r \in Record : ~ kafka_topic_get_stats(s, r),
              ~ tek_kafka_topic_get_stats_flushed(s),
              ~ tek_kafka_topic_get_stats_transferred(s),
              ~ tek_kafka_topic_get_stats_failed(s),
              ~ kafka_stats_return(s),
              ~ kafka_table_connect(s),
              \A r \in Record : ~ kafka_table_create(s, r),
              ~ kafka_table_reap_retired_locked(s),
              \A r \in Record : ~ kafka_table_send(s, r),
              \A m \in Msg : ~ tek_kafka_topic_feed(s, m),
              ~ tek_kafka_topic_feed_error(s),
              ~ kafka_table_send_done(s),
              ~ kafka_send_return(s),
              \A r \in Record : ~ kafka_table_dismiss(s, r),
              ~ kafka_table_remove_locked(s),
              ~ kafka_table_park(s),
              ~ kafka_table_dismiss_all_flushed(s),
              ~ tek_kafka_producer_join(s),
              ~ kafka_table_dismiss_all_done(s)
      PROVE  TypeOK'
  BY <1>22 DEF Continue, kafka_table_connect_failed, kafka_table_create_found,
         kafka_table_create_failed, kafka_table_send_unknown,
         tek_kafka_topic_feed_full, tek_kafka_topic_feed_retry,
         kafka_topic_get_stats_unknown, kafka_table_dismiss_unknown,
         kafka_table_dismiss_flushed, kafka_table_dismiss_all
<1>23. ASSUME \/ \E m \in Msg : Resolve(m)
              \/ \E th \in Thread, m \in Msg : rd_kafka_serve(th, m)
              \/ producer_thread_exit
              \/ kafka_module_load
              \/ UNCHANGED vars
      PROVE  TypeOK'
  BY <1>23 DEF Resolve, rd_kafka_resolve, rd_kafka_serve,
         producer_thread_exit, kafka_module_load, vars
<1> QED BY <1>1, <1>2, <1>3, <1>4, <1>5, <1>6, <1>7, <1>8, <1>9, <1>10, <1>11,
           <1>12, <1>13, <1>14, <1>15, <1>16, <1>17, <1>18, <1>19, <1>20,
           <1>21, <1>22, <1>23 DEF Next, Resolve, Serve

(* Taking and releasing ktlock in every function that does so.             *)
LEMMA LockStep == IndInv /\ [Next]_vars => LockInv'
<1> SUFFICES ASSUME IndInv, [Next]_vars PROVE LockInv'
  OBVIOUS
<1> USE DEF IndInv, TypeOK, LockInv, ReadPCs, WritePCs, ReadLockFree,
            WriteLockFree, Goto, lockVars, tableVars, heapVars, countVars,
            queueVars, pollVars, callVars
<1>1. ASSUME NEW s \in Session, kafka_table_create_found(s)
      PROVE  LockInv'
  BY <1>1, TableAssumption DEF kafka_table_create_found
<1>2. ASSUME NEW s \in Session, NEW r \in Record, kafka_table_create(s, r)
      PROVE  LockInv'
  BY <1>2, TableAssumption DEF kafka_table_create, MayCreate
<1>3. ASSUME NEW s \in Session, kafka_table_create_failed(s)
      PROVE  LockInv'
  BY <1>3, TableAssumption DEF kafka_table_create_failed
<1>4. ASSUME NEW s \in Session, kafka_table_reap_retired_locked(s)
      PROVE  LockInv'
  BY <1>4, TableAssumption DEF kafka_table_reap_retired_locked, FreeRecords
<1>5. ASSUME NEW s \in Session, NEW r \in Record, kafka_table_dismiss(s, r)
      PROVE  LockInv'
  BY <1>5, TableAssumption DEF kafka_table_dismiss
<1>6. ASSUME NEW s \in Session, kafka_table_dismiss_unknown(s)
      PROVE  LockInv'
  BY <1>6, TableAssumption DEF kafka_table_dismiss_unknown
<1>7. ASSUME NEW s \in Session, kafka_table_dismiss_all(s)
      PROVE  LockInv'
  BY <1>7, TableAssumption DEF kafka_table_dismiss_all
<1>8. ASSUME NEW s \in Session, kafka_table_dismiss_all_done(s)
      PROVE  LockInv'
  BY <1>8, TableAssumption DEF kafka_table_dismiss_all_done, FreeRecords,
         Disposed
<1>9. ASSUME NEW s \in Session, Begin(s)
      PROVE  LockInv'
  BY <1>9 DEF Begin, kafka_connect_init, kafka_send_init, kafka_send_deinit,
         kafka_table_exists, kafka_stats_init, kafka_disconnect_topic,
         kafka_disconnect, kafka_module_unload
<1>10. ASSUME NEW s \in Session, Continue(s),
              ~ kafka_table_create_found(s),
              \A r \in Record : ~ kafka_table_create(s, r),
              ~ kafka_table_create_failed(s),
              ~ kafka_table_reap_retired_locked(s),
              \A r \in Record : ~ kafka_table_dismiss(s, r),
              ~ kafka_table_dismiss_unknown(s),
              ~ kafka_table_dismiss_all(s),
              ~ kafka_table_dismiss_all_done(s)
      PROVE  LockInv'
  BY <1>10 DEF Continue, kafka_table_connect, kafka_table_connect_failed,
         kafka_table_send, kafka_table_send_unknown, tek_kafka_topic_feed,
         tek_kafka_topic_feed_full, tek_kafka_topic_feed_retry,
         tek_kafka_topic_feed_error, kafka_table_send_done, kafka_send_return,
         kafka_topic_get_stats, kafka_topic_get_stats_unknown,
         tek_kafka_topic_get_stats_flushed,
         tek_kafka_topic_get_stats_transferred,
         tek_kafka_topic_get_stats_failed, kafka_stats_return,
         kafka_table_dismiss_flushed, kafka_table_remove_locked,
         kafka_table_park, kafka_table_dismiss_all_flushed,
         tek_kafka_producer_join
<1>11. ASSUME \/ \E m \in Msg : Resolve(m)
              \/ \E th \in Thread, m \in Msg : rd_kafka_serve(th, m)
              \/ \E th \in Thread : dr_msg_cb(th)
              \/ producer_thread_exit
              \/ kafka_module_load
              \/ UNCHANGED vars
      PROVE  LockInv'
  BY <1>11 DEF Resolve, rd_kafka_resolve, rd_kafka_serve, dr_msg_cb, FailedBy,
         TransferredBy, producer_thread_exit, kafka_module_load, vars
<1> QED BY <1>1, <1>2, <1>3, <1>4, <1>5, <1>6, <1>7, <1>8, <1>9, <1>10, <1>11
           DEF Next, Resolve, Serve

(* Records leave the table only while no other session points to them.     *)
LEMMA PointerStep == IndInv /\ [Next]_vars => PointerInv'
<1> SUFFICES ASSUME IndInv, [Next]_vars PROVE PointerInv'
  OBVIOUS
<1> USE DEF IndInv, TypeOK, LockInv, PointerInv, InTablePCs, ReadPCs,
            WritePCs, WriteLockFree, ReadLockFree, kafka_table_find_locked,
            Goto, lockVars, tableVars, heapVars, countVars, queueVars,
            pollVars, callVars
<1>1. ASSUME NEW s \in Session, NEW r \in Record, kafka_table_create(s, r)
      PROVE  PointerInv'
  BY <1>1 DEF kafka_table_create, MayCreate
<1>2. ASSUME NEW s \in Session, kafka_table_reap_retired_locked(s)
      PROVE  PointerInv'
  BY <1>2 DEF kafka_table_reap_retired_locked, FreeRecords
<1>3. ASSUME NEW s \in Session, kafka_table_remove_locked(s)
      PROVE  PointerInv'
  <2>1. \A u \in Session \ {s} : pc[u] \notin InTablePCs \cup {"dismiss_park"}
    BY <1>3, WriterIsAlone DEF kafka_table_remove_locked
  <2>2. /\ tt[s] \in topics /\ tt[s] \notin retired \cup leaked
          /\ mem[tt[s]] = "allocated"
    BY <1>3 DEF kafka_table_remove_locked, HeapInv
  <2> QED BY <1>3, <2>1, <2>2 DEF kafka_table_remove_locked
<1>4. ASSUME NEW s \in Session, kafka_table_park(s)
      PROVE  PointerInv'
  BY <1>4 DEF kafka_table_park, FreeRecords
<1>5. ASSUME NEW s \in Session, kafka_table_dismiss_all_done(s)
      PROVE  PointerInv'
  <2>1. \A u \in Session \ {s} : pc[u] \notin InTablePCs \cup {"dismiss_park"}
    BY <1>5, WriterIsAlone DEF kafka_table_dismiss_all_done
  <2> QED BY <1>5, <2>1 DEF kafka_table_dismiss_all_done
<1>6. ASSUME NEW s \in Session, Begin(s)
      PROVE  PointerInv'
  BY <1>6 DEF Begin, kafka_connect_init, kafka_send_init, kafka_send_deinit,
         kafka_table_exists, kafka_stats_init, kafka_disconnect_topic,
         kafka_disconnect, kafka_module_unload
<1>7. ASSUME NEW s \in Session, Continue(s),
             \A r \in Record : ~ kafka_table_create(s, r),
             ~ kafka_table_reap_retired_locked(s),
             ~ kafka_table_remove_locked(s),
             ~ kafka_table_park(s),
             ~ kafka_table_dismiss_all_done(s)
      PROVE  PointerInv'
  BY <1>7 DEF Continue, kafka_table_connect, kafka_table_connect_failed,
         kafka_table_create_found, kafka_table_create_failed,
         kafka_table_send, kafka_table_send_unknown, tek_kafka_topic_feed,
         tek_kafka_topic_feed_full, tek_kafka_topic_feed_retry,
         tek_kafka_topic_feed_error, kafka_table_send_done, kafka_send_return,
         kafka_topic_get_stats, kafka_topic_get_stats_unknown,
         tek_kafka_topic_get_stats_flushed,
         tek_kafka_topic_get_stats_transferred,
         tek_kafka_topic_get_stats_failed, kafka_stats_return,
         kafka_table_dismiss, kafka_table_dismiss_unknown,
         kafka_table_dismiss_flushed, kafka_table_dismiss_all,
         kafka_table_dismiss_all_flushed, tek_kafka_producer_join
<1>8. ASSUME \/ \E m \in Msg : Resolve(m)
             \/ \E th \in Thread, m \in Msg : rd_kafka_serve(th, m)
             \/ \E th \in Thread : dr_msg_cb(th)
             \/ producer_thread_exit
             \/ kafka_module_load
             \/ UNCHANGED vars
      PROVE  PointerInv'
  BY <1>8 DEF Resolve, rd_kafka_resolve, rd_kafka_serve, dr_msg_cb, FailedBy,
         TransferredBy, producer_thread_exit, kafka_module_load, vars
<1> QED BY <1>1, <1>2, <1>3, <1>4, <1>5, <1>6, <1>7, <1>8 DEF Next, Resolve,
               Serve

(* Creating, retiring, leaking and freeing keep every allocated record in  *)
(* one place, and every outstanding report on allocated memory.            *)
LEMMA HeapStep == IndInv /\ [Next]_vars => HeapInv'
<1> SUFFICES ASSUME IndInv, [Next]_vars PROVE HeapInv'
  OBVIOUS
<1> USE DEF IndInv, TypeOK, LockInv, PointerInv, HeapInv, ProducerInv, OutQ,
            Busy, Parked, ReadPCs, WritePCs, WriteLockFree, ReadLockFree,
            kafka_table_find_locked, InTablePCs, Goto, lockVars, tableVars,
            heapVars, countVars, queueVars, pollVars, callVars
<1>1. ASSUME NEW s \in Session, NEW r \in Record, kafka_table_create(s, r)
      PROVE  HeapInv'
  BY <1>1 DEF kafka_table_create, MayCreate
<1>2. ASSUME NEW s \in Session, kafka_table_reap_retired_locked(s)
      PROVE  HeapInv'
  BY <1>2 DEF kafka_table_reap_retired_locked, FreeRecords
<1>3. ASSUME NEW s \in Session, NEW m \in Msg, tek_kafka_topic_feed(s, m)
      PROVE  HeapInv'
  BY <1>3, TableAssumption DEF tek_kafka_topic_feed
<1>4. ASSUME NEW s \in Session, kafka_table_remove_locked(s)
      PROVE  HeapInv'
  BY <1>4 DEF kafka_table_remove_locked
<1>5. ASSUME NEW s \in Session, kafka_table_park(s)
      PROVE  HeapInv'
  BY <1>5 DEF kafka_table_park, FreeRecords
<1>6. ASSUME NEW s \in Session, kafka_table_dismiss_all_done(s)
      PROVE  HeapInv'
  BY <1>6 DEF kafka_table_dismiss_all_done, FreeRecords, Disposed
<1>7. ASSUME NEW m \in Msg, NEW result \in {"acked", "nacked"},
             rd_kafka_resolve(m, result)
      PROVE  HeapInv'
  BY <1>7 DEF rd_kafka_resolve
<1>8. ASSUME NEW th \in Thread, dr_msg_cb(th)
      PROVE  HeapInv'
  BY <1>8 DEF dr_msg_cb, FailedBy, TransferredBy
<1>9. ASSUME NEW s \in Session, Begin(s)
      PROVE  HeapInv'
  BY <1>9 DEF Begin, kafka_connect_init, kafka_send_init, kafka_send_deinit,
         kafka_table_exists, kafka_stats_init, kafka_disconnect_topic,
         kafka_disconnect, kafka_module_unload
<1>10. ASSUME NEW s \in Session, Continue(s),
              \A r \in Record : ~ kafka_table_create(s, r),
              ~ kafka_table_reap_retired_locked(s),
              \A m \in Msg : ~ tek_kafka_topic_feed(s, m),
              ~ kafka_table_remove_locked(s),
              ~ kafka_table_park(s),
              ~ kafka_table_dismiss_all_done(s)
      PROVE  HeapInv'
  BY <1>10 DEF Continue, kafka_table_connect, kafka_table_connect_failed,
         kafka_table_create_found, kafka_table_create_failed,
         kafka_table_send, kafka_table_send_unknown,
         tek_kafka_topic_feed_full, tek_kafka_topic_feed_retry,
         tek_kafka_topic_feed_error, kafka_table_send_done, kafka_send_return,
         kafka_topic_get_stats, kafka_topic_get_stats_unknown,
         tek_kafka_topic_get_stats_flushed,
         tek_kafka_topic_get_stats_transferred,
         tek_kafka_topic_get_stats_failed, kafka_stats_return,
         kafka_table_dismiss, kafka_table_dismiss_unknown,
         kafka_table_dismiss_flushed, kafka_table_dismiss_all,
         kafka_table_dismiss_all_flushed, tek_kafka_producer_join
<1>11. ASSUME \/ \E th \in Thread, m \in Msg : rd_kafka_serve(th, m)
              \/ producer_thread_exit
              \/ kafka_module_load
              \/ UNCHANGED vars
      PROVE  HeapInv'
  BY <1>11 DEF rd_kafka_serve, producer_thread_exit, kafka_module_load, vars
<1> QED BY <1>1, <1>2, <1>3, <1>4, <1>5, <1>6, <1>7, <1>8, <1>9, <1>10, <1>11
           DEF Next, Resolve, Serve

(* A report is taken by one thread and counted until the callback returns. *)
LEMMA ServeStep == IndInv /\ [Next]_vars => ServeInv'
<1> SUFFICES ASSUME IndInv, [Next]_vars PROVE ServeInv'
  OBVIOUS
<1> USE DEF IndInv, TypeOK, ServeInv, Goto, lockVars, tableVars, heapVars,
            countVars, queueVars, pollVars, callVars
<1>1. ASSUME NEW s \in Session, NEW m \in Msg, tek_kafka_topic_feed(s, m)
      PROVE  ServeInv'
  BY <1>1, TableAssumption DEF tek_kafka_topic_feed
<1>2. ASSUME NEW m \in Msg, NEW result \in {"acked", "nacked"},
             rd_kafka_resolve(m, result)
      PROVE  ServeInv'
  BY <1>2 DEF rd_kafka_resolve
<1>3. ASSUME NEW th \in Thread, NEW m \in Msg, rd_kafka_serve(th, m)
      PROVE  ServeInv'
  BY <1>3 DEF rd_kafka_serve
<1>4. ASSUME NEW th \in Thread, dr_msg_cb(th)
      PROVE  ServeInv'
  BY <1>4 DEF dr_msg_cb, FailedBy, TransferredBy
<1>5. ASSUME NEW s \in Session, Begin(s)
      PROVE  ServeInv'
  BY <1>5 DEF Begin, kafka_connect_init, kafka_send_init, kafka_send_deinit,
         kafka_table_exists, kafka_stats_init, kafka_disconnect_topic,
         kafka_disconnect, kafka_module_unload
<1>6. ASSUME NEW s \in Session, Continue(s),
             \A m \in Msg : ~ tek_kafka_topic_feed(s, m)
      PROVE  ServeInv'
  BY <1>6 DEF Continue, kafka_table_connect, kafka_table_connect_failed,
         kafka_table_create_found, kafka_table_create,
         kafka_table_create_failed, kafka_table_reap_retired_locked,
         kafka_table_send, kafka_table_send_unknown,
         tek_kafka_topic_feed_full, tek_kafka_topic_feed_retry,
         tek_kafka_topic_feed_error, kafka_table_send_done, kafka_send_return,
         kafka_topic_get_stats, kafka_topic_get_stats_unknown,
         tek_kafka_topic_get_stats_flushed,
         tek_kafka_topic_get_stats_transferred,
         tek_kafka_topic_get_stats_failed, kafka_stats_return,
         kafka_table_dismiss, kafka_table_dismiss_unknown,
         kafka_table_dismiss_flushed, kafka_table_remove_locked,
         kafka_table_park, kafka_table_dismiss_all,
         kafka_table_dismiss_all_flushed, tek_kafka_producer_join,
         kafka_table_dismiss_all_done
<1>7. ASSUME \/ producer_thread_exit
             \/ kafka_module_load
             \/ UNCHANGED vars
      PROVE  ServeInv'
  BY <1>7 DEF producer_thread_exit, kafka_module_load, vars
<1> QED BY <1>1, <1>2, <1>3, <1>4, <1>5, <1>6, <1>7 DEF Next, Resolve, Serve

(* kafka_table_connect() and the steps of kafka_table_dismiss_all() in     *)
(* their order.                                                            *)
LEMMA ProducerStep == IndInv /\ [Next]_vars => ProducerInv'
<1> SUFFICES ASSUME IndInv, [Next]_vars PROVE ProducerInv'
  OBVIOUS
<1> USE DEF IndInv, TypeOK, LockInv, PointerInv, HeapInv, ProducerInv, OutQ,
            Busy, ReadPCs, WritePCs, TornDownPCs, WriteLockFree, ReadLockFree,
            kafka_table_find_locked, InTablePCs, Goto, lockVars, tableVars,
            heapVars, countVars, queueVars, pollVars, callVars
<1>1. ASSUME NEW s \in Session, kafka_table_connect(s)
      PROVE  ProducerInv'
  BY <1>1, FreeLockIsHeldByNobody DEF kafka_table_connect
<1>2. ASSUME NEW s \in Session, NEW r \in Record, kafka_table_create(s, r)
      PROVE  ProducerInv'
  BY <1>2, FreeLockIsHeldByNobody DEF kafka_table_create, MayCreate
<1>3. ASSUME NEW s \in Session, kafka_table_reap_retired_locked(s)
      PROVE  ProducerInv'
  BY <1>3 DEF kafka_table_reap_retired_locked, FreeRecords
<1>4. ASSUME NEW s \in Session, NEW m \in Msg, tek_kafka_topic_feed(s, m)
      PROVE  ProducerInv'
  BY <1>4 DEF tek_kafka_topic_feed
<1>5. ASSUME NEW s \in Session, kafka_table_remove_locked(s)
      PROVE  ProducerInv'
  BY <1>5 DEF kafka_table_remove_locked
<1>6. ASSUME NEW s \in Session, kafka_table_park(s)
      PROVE  ProducerInv'
  BY <1>6 DEF kafka_table_park, FreeRecords
<1>7. ASSUME NEW s \in Session, kafka_table_dismiss_all(s)
      PROVE  ProducerInv'
  BY <1>7 DEF kafka_table_dismiss_all
<1>8. ASSUME NEW s \in Session, kafka_table_dismiss_all_flushed(s)
      PROVE  ProducerInv'
  BY <1>8 DEF kafka_table_dismiss_all_flushed
<1>9. ASSUME NEW s \in Session, tek_kafka_producer_join(s)
      PROVE  ProducerInv'
  BY <1>9 DEF tek_kafka_producer_join
<1>10. ASSUME NEW s \in Session, kafka_table_dismiss_all_done(s)
      PROVE  ProducerInv'
  BY <1>10 DEF kafka_table_dismiss_all_done, FreeRecords, Disposed
<1>11. ASSUME NEW m \in Msg, NEW result \in {"acked", "nacked"},
             rd_kafka_resolve(m, result)
      PROVE  ProducerInv'
  BY <1>11 DEF rd_kafka_resolve
<1>12. ASSUME NEW th \in Thread, dr_msg_cb(th)
      PROVE  ProducerInv'
  BY <1>12 DEF dr_msg_cb, FailedBy, TransferredBy
<1>13. ASSUME NEW s \in Session, Begin(s)
      PROVE  ProducerInv'
  BY <1>13 DEF Begin, kafka_connect_init, kafka_send_init, kafka_send_deinit,
         kafka_table_exists, kafka_stats_init, kafka_disconnect_topic,
         kafka_disconnect, kafka_module_unload
<1>14. ASSUME NEW s \in Session, Continue(s),
              ~ kafka_table_connect(s),
              \A r \in Record : ~ kafka_table_create(s, r),
              ~ kafka_table_reap_retired_locked(s),
              \A m \in Msg : ~ tek_kafka_topic_feed(s, m),
              ~ kafka_table_remove_locked(s),
              ~ kafka_table_park(s),
              ~ kafka_table_dismiss_all(s),
              ~ kafka_table_dismiss_all_flushed(s),
              ~ tek_kafka_producer_join(s),
              ~ kafka_table_dismiss_all_done(s)
      PROVE  ProducerInv'
  BY <1>14 DEF Continue, kafka_table_connect_failed, kafka_table_create_found,
         kafka_table_create_failed, kafka_table_send,
         kafka_table_send_unknown, tek_kafka_topic_feed_full,
         tek_kafka_topic_feed_retry, tek_kafka_topic_feed_error,
         kafka_table_send_done, kafka_send_return, kafka_topic_get_stats,
         kafka_topic_get_stats_unknown, tek_kafka_topic_get_stats_flushed,
         tek_kafka_topic_get_stats_transferred,
         tek_kafka_topic_get_stats_failed, kafka_stats_return,
         kafka_table_dismiss, kafka_table_dismiss_unknown,
         kafka_table_dismiss_flushed
<1>15. ASSUME \/ \E th \in Thread, m \in Msg : rd_kafka_serve(th, m)
              \/ producer_thread_exit
              \/ kafka_module_load
              \/ UNCHANGED vars
      PROVE  ProducerInv'
  BY <1>15 DEF rd_kafka_serve, producer_thread_exit, kafka_module_load, vars
<1> QED BY <1>1, <1>2, <1>3, <1>4, <1>5, <1>6, <1>7, <1>8, <1>9, <1>10, <1>11,
           <1>12, <1>13, <1>14, <1>15 DEF Next, Resolve, Serve

(* The lookup and the insert of kafka_table_create() are under one lock,   *)
(* and no other step adds a record or renames one.                         *)
LEMMA NamesStep == IndInv /\ [Next]_vars => OneRecordPerTopic'
<1> SUFFICES ASSUME IndInv, [Next]_vars PROVE OneRecordPerTopic'
  OBVIOUS
<1> USE DEF IndInv, OneRecordPerTopic, tableVars, heapVars
<1>1. ASSUME NEW s \in Session, NEW r \in Record, kafka_table_create(s, r)
      PROVE  OneRecordPerTopic'
  BY <1>1 DEF kafka_table_create, MayCreate, kafka_table_find_locked, TypeOK,
       HeapInv
<1>2. ASSUME NEW s \in Session,
             kafka_table_remove_locked(s) \/ kafka_table_dismiss_all_done(s)
      PROVE  OneRecordPerTopic'
  BY <1>2 DEF kafka_table_remove_locked, kafka_table_dismiss_all_done
<1>3. ASSUME NEW s \in Session, Begin(s)
      PROVE  UNCHANGED <<topics, name>>
  BY <1>3 DEF Begin, kafka_connect_init, kafka_send_init, kafka_send_deinit,
         kafka_table_exists, kafka_stats_init, kafka_disconnect_topic,
         kafka_disconnect, kafka_module_unload
<1>4. ASSUME NEW s \in Session, Continue(s),
             \A r \in Record : ~ kafka_table_create(s, r),
             ~ kafka_table_remove_locked(s),
             ~ kafka_table_dismiss_all_done(s)
      PROVE  UNCHANGED <<topics, name>>
  BY <1>4 DEF Continue, kafka_table_connect, kafka_table_connect_failed,
         kafka_table_create_found, kafka_table_create_failed,
         kafka_table_reap_retired_locked, kafka_table_send,
         kafka_table_send_unknown, tek_kafka_topic_feed,
         tek_kafka_topic_feed_full, tek_kafka_topic_feed_retry,
         tek_kafka_topic_feed_error, kafka_table_send_done, kafka_send_return,
         kafka_topic_get_stats, kafka_topic_get_stats_unknown,
         tek_kafka_topic_get_stats_flushed,
         tek_kafka_topic_get_stats_transferred,
         tek_kafka_topic_get_stats_failed, kafka_stats_return,
         kafka_table_dismiss, kafka_table_dismiss_unknown,
         kafka_table_dismiss_flushed, kafka_table_park,
         kafka_table_dismiss_all, kafka_table_dismiss_all_flushed,
         tek_kafka_producer_join
<1>5. ASSUME \/ \E m \in Msg : Resolve(m)
             \/ \E th \in Thread : Serve(th)
             \/ producer_thread_exit
             \/ kafka_module_load
             \/ UNCHANGED vars
      PROVE  UNCHANGED <<topics, name>>
  BY <1>5 DEF Resolve, Serve, rd_kafka_resolve, rd_kafka_serve, dr_msg_cb,
       producer_thread_exit, kafka_module_load, vars
<1>6. CASE UNCHANGED <<topics, name>>
  BY <1>6
<1> QED BY <1>1, <1>2, <1>3, <1>4, <1>5, <1>6 DEF Next

(* The unload hook starts with no session in a call, and keeps it so.      *)
LEMMA ModuleStep == IndInv /\ [Next]_vars => ModuleInv'
<1> SUFFICES ASSUME IndInv, [Next]_vars PROVE ModuleInv'
  OBVIOUS
<1> USE DEF IndInv, TypeOK, ModuleInv, UnloadPCs, Goto, lockVars, tableVars,
            heapVars, countVars, queueVars, pollVars, callVars
<1>1. ASSUME NEW s \in Session, kafka_module_unload(s)
      PROVE  ModuleInv'
  BY <1>1 DEF kafka_module_unload
<1>2. ASSUME NEW s \in Session, kafka_table_dismiss_all(s)
      PROVE  ModuleInv'
  BY <1>2 DEF kafka_table_dismiss_all
<1>3. ASSUME NEW s \in Session, kafka_table_dismiss_all_done(s)
      PROVE  ModuleInv'
  BY <1>3 DEF kafka_table_dismiss_all_done, FreeRecords, Disposed
<1>4. ASSUME NEW s \in Session, Begin(s)
      PROVE  ModuleInv'
  BY <1>4 DEF Begin, kafka_connect_init, kafka_send_init, kafka_send_deinit,
         kafka_table_exists, kafka_stats_init, kafka_disconnect_topic,
         kafka_disconnect, kafka_module_unload
<1>5. ASSUME NEW s \in Session, Continue(s),
             ~ kafka_module_unload(s),
             ~ kafka_table_dismiss_all(s),
             ~ kafka_table_dismiss_all_done(s)
      PROVE  ModuleInv'
  BY <1>5 DEF Continue, kafka_table_connect, kafka_table_connect_failed,
         kafka_table_create_found, kafka_table_create,
         kafka_table_create_failed, kafka_table_reap_retired_locked,
         kafka_table_send, kafka_table_send_unknown, tek_kafka_topic_feed,
         tek_kafka_topic_feed_full, tek_kafka_topic_feed_retry,
         tek_kafka_topic_feed_error, kafka_table_send_done, kafka_send_return,
         kafka_topic_get_stats, kafka_topic_get_stats_unknown,
         tek_kafka_topic_get_stats_flushed,
         tek_kafka_topic_get_stats_transferred,
         tek_kafka_topic_get_stats_failed, kafka_stats_return,
         kafka_table_dismiss, kafka_table_dismiss_unknown,
         kafka_table_dismiss_flushed, kafka_table_remove_locked,
         kafka_table_park, kafka_table_dismiss_all_flushed,
         tek_kafka_producer_join
<1>6. ASSUME \/ \E m \in Msg : Resolve(m)
             \/ \E th \in Thread, m \in Msg : rd_kafka_serve(th, m)
             \/ \E th \in Thread : dr_msg_cb(th)
             \/ producer_thread_exit
             \/ kafka_module_load
             \/ UNCHANGED vars
      PROVE  ModuleInv'
  BY <1>6 DEF Resolve, rd_kafka_resolve, rd_kafka_serve, dr_msg_cb, FailedBy,
         TransferredBy, producer_thread_exit, kafka_module_load, vars
<1> QED BY <1>1, <1>2, <1>3, <1>4, <1>5, <1>6 DEF Next, Resolve, Serve

-----------------------------------------------------------------------------
(* The invariant holds when the library is loaded.                         *)
LEMMA InitIndInv == Init => IndInv
<1> SUFFICES ASSUME Init PROVE IndInv
  OBVIOUS
<1>1. TypeOK
  BY NoStatType DEF Init, TypeOK, PCs, FreePCs
<1>2. LockInv /\ PointerInv /\ ModuleInv
  BY TableAssumption DEF Init, LockInv, PointerInv, ModuleInv, ReadPCs,
       WritePCs, InTablePCs
<1>3. HeapInv /\ ServeInv /\ OneRecordPerTopic
  BY DEF Init, HeapInv, ServeInv, OneRecordPerTopic, OutQ
<1>4. ProducerInv
  BY DEF Init, ProducerInv, OutQ, TornDownPCs
<1> QED BY <1>1, <1>2, <1>3, <1>4 DEF IndInv

(* IndInv holds in every reachable state of the table.                     *)
THEOREM Invariance == Spec => []IndInv
<1>1. IndInv /\ [Next]_vars => IndInv'
  BY TypeStep, LockStep, PointerStep, HeapStep, ServeStep, ProducerStep,
     NamesStep, ModuleStep DEF IndInv
<1> QED BY InitIndInv, <1>1, PTL DEF Spec

(* Every variable of the table stays in its range.                         *)
THEOREM TypeCorrect == Spec => []TypeOK
<1>1. IndInv => TypeOK
  BY DEF IndInv
<1> QED BY Invariance, <1>1, PTL

(* However late a delivery report is served and on whichever thread, and   *)
(* whatever dismissed its topic since, the record dr_msg_cb() writes to    *)
(* has not been freed.                                                     *)
THEOREM NeverUseAfterFree == Spec => []NoUseAfterFree
<1>1. IndInv => NoUseAfterFree
  BY DEF IndInv, HeapInv, NoUseAfterFree
<1> QED BY Invariance, <1>1, PTL

(* Every record kafka_table_create() allocates stays reachable from the    *)
(* table until it is freed, or was given up in kafka_table_remove_locked().*)
THEOREM NeverLeaks == Spec => []NoLeak
<1>1. ASSUME IndInv PROVE NoLeak
  <2>1. \A r \in Record :
          mem[r] = "allocated" <=> r \in topics \cup retired \cup leaked \cup Parked
    BY <1>1 DEF IndInv, HeapInv, PointerInv, Parked
  <2>2. topics \cup retired \cup leaked \cup Parked \in SUBSET Record
    BY <1>1 DEF IndInv, TypeOK, PointerInv, Parked
  <2> QED BY <2>1, <2>2 DEF NoLeak, Parked
<1> QED BY Invariance, <1>1, PTL

(* While kafka_table_send() or kafka_topic_get_stats() holds the read      *)
(* lock, nobody takes its record, its handle or its producer away.         *)
THEOREM TopicInUseStaysIntact == Spec => []TopicInUseIsIntact
<1>1. ASSUME IndInv PROVE TopicInUseIsIntact
  <2> SUFFICES ASSUME NEW s \in readers
               PROVE  /\ tt[s] \in topics \cap rkt
                      /\ mem[tt[s]] = "allocated"
                      /\ owner[tt[s]] = producer /\ producer # 0
    BY DEF TopicInUseIsIntact
  <2>1. s \in Session /\ pc[s] \in ReadPCs
    BY <1>1 DEF IndInv, TypeOK, LockInv
  <2>2. tt[s] \in topics
    BY <1>1, <2>1 DEF IndInv, PointerInv, InTablePCs
  <2>3. rkt = topics
    BY <1>1, <2>1, HandlesAreTopics
  <2> QED BY <1>1, <2>2, <2>3 DEF IndInv, HeapInv, ProducerInv
<1> QED BY Invariance, <1>1, PTL

(* However many sessions send to the same new topic at once, the table     *)
(* holds one record for it.                                                *)
THEOREM OneRecordForEachTopic == Spec => []OneRecordPerTopic
<1>1. IndInv => OneRecordPerTopic
  BY DEF IndInv
<1> QED BY Invariance, <1>1, PTL

(* kafka_table_dismiss_all() destroys the producer with every handle       *)
(* closed and the poll thread joined, and leaves nothing behind.           *)
THEOREM TeardownLeavesNothing == Spec => []TeardownIsComplete
<1>1. IndInv => TeardownIsComplete
  BY DEF IndInv, ProducerInv, TornDownPCs, TeardownIsComplete
<1> QED BY Invariance, <1>1, PTL

(* When the destructor of the library has run, nothing can enter it.       *)
THEOREM UnloadLeavesNothing == Spec => []UnloadIsSafe
<1>1. IndInv => UnloadIsSafe
  BY DEF IndInv, ProducerInv, ModuleInv, UnloadIsSafe
<1> QED BY Invariance, <1>1, PTL
=============================================================================
