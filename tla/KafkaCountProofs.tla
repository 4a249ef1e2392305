--------------------------- MODULE KafkaCountProofs ---------------------------
(***************************************************************************)
(* Proofs about the numbers of KafkaTable: what the counters of a record,  *)
(* a kafka_stats() and a kafka_send() add up to, for any number of         *)
(* sessions, topics, records and messages.                                 *)
(***************************************************************************)
EXTENDS KafkaTableProofs

(* What a record has accepted, and what of it is still in the out queue.   *)
Pending(r) == Accepted(r) \cap OutQ

LEMMA CountsAreFinite ==
  ASSUME NEW r
  PROVE  /\ IsFiniteSet(Accepted(r)) /\ IsFiniteSet(Pending(r))
         /\ Cardinality(Accepted(r)) \in Nat /\ Cardinality(Pending(r)) \in Nat
  BY TableAssumption, FS_CardinalityType, FS_Subset DEF Accepted, Pending

LEMMA CountsAreFinitePrimed ==
  ASSUME NEW r
  PROVE  /\ IsFiniteSet(Accepted(r)') /\ IsFiniteSet(Pending(r)')
         /\ Cardinality(Accepted(r)') \in Nat /\ Cardinality(Pending(r)') \in Nat
  BY TableAssumption, FS_CardinalityType, FS_Subset DEF Accepted, Pending

(* Only producing and serving a report touch a counter, a queue or an      *)
(* opaque: kafka-engine.c:75-83,400.                                       *)
LEMMA CountFrame ==
  ASSUME IndInv, [Next]_vars,
         \A s \in Session, m \in Msg : ~ tek_kafka_topic_feed(s, m),
         \A th \in Thread : ~ dr_msg_cb(th)
  PROVE  UNCHANGED <<transferred, failed, opaque>> /\ OutQ' = OutQ
<1> USE DEF lockVars, tableVars, heapVars, countVars, queueVars, pollVars,
            callVars
<1>1. ASSUME NEW s \in Session, Begin(s)
      PROVE  UNCHANGED <<transferred, failed, opaque, mstate>>
  BY <1>1 DEF Begin, kafka_connect_init, kafka_send_init, kafka_send_deinit,
         kafka_table_exists, kafka_stats_init, kafka_disconnect_topic,
         kafka_disconnect, kafka_module_unload
<1>2. ASSUME NEW s \in Session, Continue(s)
      PROVE  UNCHANGED <<transferred, failed, opaque, mstate>>
  BY <1>2 DEF Continue, kafka_table_connect, kafka_table_connect_failed,
         kafka_table_create_found, kafka_table_create,
         kafka_table_create_failed, kafka_table_reap_retired_locked,
         kafka_table_send, kafka_table_send_unknown,
         tek_kafka_topic_feed_full, tek_kafka_topic_feed_retry,
         tek_kafka_topic_feed_error, kafka_table_send_done, kafka_send_return,
         kafka_topic_get_stats, kafka_topic_get_stats_unknown,
         tek_kafka_topic_get_stats_flushed,
         tek_kafka_topic_get_stats_transferred,
         tek_kafka_topic_get_stats_failed, kafka_stats_return,
         kafka_table_dismiss, kafka_table_dismiss_unknown,
         kafka_table_dismiss_flushed, kafka_table_remove_locked,
         kafka_table_park, kafka_table_dismiss_all,
         kafka_table_dismiss_all_flushed, tek_kafka_producer_join,
         kafka_table_dismiss_all_done
<1>3. ASSUME \/ \E th \in Thread, m \in Msg : rd_kafka_serve(th, m)
             \/ producer_thread_exit
             \/ kafka_module_load
             \/ UNCHANGED vars
      PROVE  UNCHANGED <<transferred, failed, opaque, mstate>>
  BY <1>3 DEF rd_kafka_serve, producer_thread_exit, kafka_module_load, vars
<1>4. ASSUME NEW m \in Msg, Resolve(m)
      PROVE  UNCHANGED <<transferred, failed, opaque>> /\ OutQ' = OutQ
  <2> PICK result \in {"acked", "nacked"} : rd_kafka_resolve(m, result)
    BY <1>4 DEF Resolve
  <2>1. /\ mstate[m] = "queued" /\ mstate' = [mstate EXCEPT ![m] = result]
        /\ UNCHANGED <<transferred, failed, opaque>>
    BY DEF rd_kafka_resolve
  <2>2. ASSUME NEW n \in Msg
        PROVE  n \in OutQ' <=> n \in OutQ
    BY <2>1 DEF IndInv, TypeOK, OutQ
  <2>3. OutQ \subseteq Msg /\ OutQ' \subseteq Msg
    BY DEF OutQ
  <2> QED BY <2>1, <2>2, <2>3
<1>5. UNCHANGED <<transferred, failed, opaque, mstate>> => OutQ' = OutQ
  BY DEF OutQ
<1> QED BY <1>1, <1>2, <1>3, <1>4, <1>5 DEF Next, Serve

(* rd_kafka_produce() adds one message to what the record has accepted and *)
(* one to what is pending.                                                 *)
LEMMA FeedCounts ==
  ASSUME IndInv, NEW s \in Session, NEW m \in Msg, tek_kafka_topic_feed(s, m),
         NEW r \in Record
  PROVE  LET n == IF r = tt[s] THEN 1 ELSE 0
         IN /\ Cardinality(Accepted(r)') = Cardinality(Accepted(r)) + n
            /\ Cardinality(Pending(r)') = Cardinality(Pending(r)) + n
            /\ transferred'[r] = transferred[r] /\ failed'[r] = failed[r]
<1>1. /\ mstate[m] = "unused" /\ mstate' = [mstate EXCEPT ![m] = "queued"]
      /\ opaque' = [opaque EXCEPT ![m] = tt[s]]
      /\ UNCHANGED <<transferred, failed>>
  BY DEF tek_kafka_topic_feed, countVars
<1>2. /\ opaque[m] = None /\ r # None
      /\ m \in DOMAIN mstate /\ m \in DOMAIN opaque
  BY <1>1, TableAssumption DEF IndInv, TypeOK, HeapInv
<1>3. m \notin Accepted(r) /\ m \notin OutQ
  BY <1>1, <1>2 DEF Accepted, OutQ
<1>4. OutQ' = OutQ \cup {m}
  BY <1>1, <1>2 DEF OutQ
<1>5. CASE r = tt[s]
  <2>1. Accepted(r)' = Accepted(r) \cup {m}
    BY <1>1, <1>2, <1>5 DEF Accepted
  <2>2. Pending(r)' = Pending(r) \cup {m}
    BY <2>1, <1>4 DEF Pending
  <2>3. m \notin Pending(r)
    BY <1>3 DEF Pending
  <2> QED BY <1>1, <1>3, <1>5, <2>1, <2>2, <2>3, CountsAreFinite, FS_AddElement
<1>6. CASE r # tt[s]
  <2>1. Accepted(r)' = Accepted(r)
    BY <1>1, <1>2, <1>6 DEF Accepted
  <2>2. Pending(r)' = Pending(r)
    BY <2>1, <1>3, <1>4 DEF Pending
  <2> QED BY <1>1, <1>6, <2>1, <2>2, CountsAreFinite
<1> QED BY <1>5, <1>6

(* dr_msg_cb() moves one message of its record from the queue to one of    *)
(* the two counters.                                                       *)
LEMMA ReportCounts ==
  ASSUME IndInv, NEW th \in Thread, dr_msg_cb(th), NEW r \in Record
  PROVE  LET n == IF r = opaque[serving[th]] THEN 1 ELSE 0
         IN /\ Cardinality(Accepted(r)') = Cardinality(Accepted(r))
            /\ Cardinality(Pending(r)) = Cardinality(Pending(r)') + n
            /\ transferred'[r] + failed'[r] = transferred[r] + failed[r] + n
            /\ transferred'[r] >= transferred[r] /\ failed'[r] >= failed[r]
<1> DEFINE m == serving[th]  q == opaque[m]
<1>1. /\ m # None /\ m \in Msg /\ mstate[m] \in {"acked", "nacked"}
      /\ m \in OutQ /\ q \in Record
  BY DEF dr_msg_cb, IndInv, TypeOK, ServeInv, HeapInv, OutQ
<1>2. /\ failed' = [failed EXCEPT ![q] = failed[q] + FailedBy(m)]
      /\ transferred' = [transferred EXCEPT ![q] = transferred[q] + TransferredBy(m)]
      /\ mstate' = [mstate EXCEPT ![m] = "done"]
      /\ opaque' = opaque
  BY DEF dr_msg_cb
<1>3. /\ FailedBy(m) \in Nat /\ TransferredBy(m) \in Nat
      /\ TransferredBy(m) + FailedBy(m) = 1
  BY <1>1 DEF FailedBy, TransferredBy
<1>4. /\ transferred \in [Record -> Nat] /\ failed \in [Record -> Nat]
      /\ m \in DOMAIN mstate
  BY <1>1 DEF IndInv, TypeOK
<1>5. /\ m \in Accepted(q)
      /\ \A p \in Record : p # q => m \notin Accepted(p)
  BY <1>1 DEF Accepted
<1> HIDE DEF m, q
<1>6. OutQ' = OutQ \ {m} /\ Accepted(r)' = Accepted(r)
  BY <1>2, <1>4 DEF OutQ, Accepted
<1>7. Pending(r)' = Pending(r) \ {m}
  BY <1>6 DEF Pending
<1>8. CASE r = q
  <2>1. m \in Pending(r)
    BY <1>1, <1>5, <1>8 DEF Pending
  <2>2. Cardinality(Pending(r)') = Cardinality(Pending(r)) - 1
    BY <1>7, <2>1, CountsAreFinite, FS_RemoveElement
  <2>3. /\ transferred'[r] = transferred[r] + TransferredBy(m)
        /\ failed'[r] = failed[r] + FailedBy(m)
    BY <1>2, <1>4, <1>8
  <2> QED BY <1>3, <1>4, <1>6, <1>8, <2>2, <2>3, CountsAreFinite DEF m, q
<1>9. CASE r # q
  <2>1. Pending(r)' = Pending(r)
    BY <1>5, <1>7, <1>9 DEF Pending
  <2>2. transferred'[r] = transferred[r] /\ failed'[r] = failed[r]
    BY <1>2, <1>4, <1>9
  <2> QED BY <1>4, <1>6, <1>9, <2>1, <2>2, CountsAreFinite DEF m, q
<1> QED BY <1>8, <1>9

(* Nothing is counted down.                                                *)
LEMMA CountsGrow ==
  ASSUME IndInv, [Next]_vars, NEW r \in Record
  PROVE  /\ transferred'[r] >= transferred[r] /\ failed'[r] >= failed[r]
         /\ Cardinality(Accepted(r)') >= Cardinality(Accepted(r))
<1>1. transferred[r] \in Nat /\ failed[r] \in Nat
  BY DEF IndInv, TypeOK
<1>2. CASE \E s \in Session, m \in Msg : tek_kafka_topic_feed(s, m)
  BY <1>1, <1>2, FeedCounts, CountsAreFinite
<1>3. CASE \E th \in Thread : dr_msg_cb(th)
  BY <1>1, <1>3, ReportCounts, CountsAreFinite
<1>4. CASE UNCHANGED <<transferred, failed, opaque>>
  <2>1. Accepted(r)' = Accepted(r)
    BY <1>4 DEF Accepted
  <2> QED BY <1>1, <1>4, <2>1, CountsAreFinite
<1> QED BY <1>2, <1>3, <1>4, CountFrame

(* kafka-engine.c:60-86: no step loses a message between the queue and the *)
(* counters, or counts it twice.                                           *)
LEMMA CountedOnceStep ==
  ASSUME IndInv, CountedOnce, [Next]_vars
  PROVE  CountedOnce'
<1> SUFFICES ASSUME NEW r \in Record
             PROVE  transferred'[r] + failed'[r] + Cardinality(Pending(r)')
                      = Cardinality(Accepted(r)')
  BY DEF CountedOnce, Pending
<1>1. /\ transferred[r] + failed[r] + Cardinality(Pending(r))
           = Cardinality(Accepted(r))
      /\ transferred[r] \in Nat /\ failed[r] \in Nat
  BY DEF CountedOnce, Pending, IndInv, TypeOK
<1>2. CASE \E s \in Session, m \in Msg : tek_kafka_topic_feed(s, m)
  BY <1>1, <1>2, FeedCounts, CountsAreFinite
<1>3. CASE \E th \in Thread : dr_msg_cb(th)
  <2>1. transferred'[r] \in Nat /\ failed'[r] \in Nat
    BY TypeStep DEF TypeOK
  <2> QED BY <1>1, <1>3, <2>1, ReportCounts, CountsAreFinite,
             CountsAreFinitePrimed
<1>4. CASE UNCHANGED <<transferred, failed, opaque>> /\ OutQ' = OutQ
  <2>1. Accepted(r)' = Accepted(r) /\ Pending(r)' = Pending(r)
    BY <1>4 DEF Accepted, Pending
  <2> QED BY <1>1, <1>4, <2>1
<1> QED BY <1>2, <1>3, <1>4, CountFrame

-------------------------------------------------------------------------------
(* kafka_stats() and kafka_send() in progress.  A step of another session, *)
(* or of librdkafka, leaves a session where it was.                        *)
Still(u) ==
  /\ pc'[u] = pc[u] /\ tt'[u] = tt[u]
  /\ stat'[u] = stat[u] /\ sent'[u] = sent[u]

LEMMA OnlyItsOwnSteps ==
  ASSUME IndInv, [Next]_vars, NEW u \in Session, ~ Begin(u), ~ Continue(u)
  PROVE  Still(u)
<1> USE DEF IndInv, TypeOK, Still, Goto, lockVars, tableVars, heapVars,
            countVars, queueVars, pollVars, callVars
<1>1. ASSUME NEW s \in Session \ {u}, Begin(s)
      PROVE  Still(u)
  BY <1>1 DEF Begin, kafka_connect_init, kafka_send_init, kafka_send_deinit,
         kafka_table_exists, kafka_stats_init, kafka_disconnect_topic,
         kafka_disconnect, kafka_module_unload
<1>2. ASSUME NEW s \in Session \ {u}, Continue(s)
      PROVE  Still(u)
  BY <1>2 DEF Continue, kafka_table_connect, kafka_table_connect_failed,
         kafka_table_create_found, kafka_table_create,
         kafka_table_create_failed, kafka_table_reap_retired_locked,
         kafka_table_send, kafka_table_send_unknown, tek_kafka_topic_feed,
         tek_kafka_topic_feed_full, tek_kafka_topic_feed_retry,
         tek_kafka_topic_feed_error, kafka_table_send_done, kafka_send_return,
         kafka_topic_get_stats, kafka_topic_get_stats_unknown,
         tek_kafka_topic_get_stats_flushed,
         tek_kafka_topic_get_stats_transferred,
         tek_kafka_topic_get_stats_failed, kafka_stats_return,
         kafka_table_dismiss, kafka_table_dismiss_unknown,
         kafka_table_dismiss_flushed, kafka_table_remove_locked,
         kafka_table_park, kafka_table_dismiss_all,
         kafka_table_dismiss_all_flushed, tek_kafka_producer_join,
         kafka_table_dismiss_all_done
<1>3. ASSUME \/ \E m \in Msg : Resolve(m)
             \/ \E th \in Thread, m \in Msg : rd_kafka_serve(th, m)
             \/ \E th \in Thread : dr_msg_cb(th)
             \/ producer_thread_exit
             \/ kafka_module_load
             \/ UNCHANGED vars
      PROVE  Still(u)
  BY <1>3 DEF Resolve, rd_kafka_resolve, rd_kafka_serve, dr_msg_cb,
         producer_thread_exit, kafka_module_load, vars
<1> QED BY <1>1, <1>2, <1>3 DEF Next, Serve

StatOK(u) ==
  /\ pc[u] \notin {"stats_transferred", "stats_failed", "stats_done"} =>
       stat[u].drained = FALSE
  /\ pc[u] = "stats_flush" => stat[u].asked <= Cardinality(Accepted(tt[u]))
  /\ stat[u].drained /\ pc[u] = "stats_transferred" =>
       stat[u].asked <= transferred[tt[u]] + failed[tt[u]]
  /\ stat[u].drained /\ pc[u] = "stats_failed" =>
       stat[u].asked <= stat[u].transferred + failed[tt[u]]
  /\ stat[u].drained /\ pc[u] = "stats_done" =>
       stat[u].asked <= stat[u].transferred + stat[u].failed

(* While others send and reports are served, what a session has read, and  *)
(* what it is going to read, only grows.                                   *)
LEMMA StatStill ==
  ASSUME IndInv, [Next]_vars, NEW u \in Session, StatOK(u), Still(u)
  PROVE  StatOK(u)'
<1>1. CASE pc[u] \in {"stats_flush", "stats_transferred", "stats_failed"}
  <2>0. tt[u] \in Record
    BY <1>1 DEF IndInv, TypeOK, PointerInv, InTablePCs, ReadPCs
  <2> PICK r \in Record : tt[u] = r
    BY <2>0
  <2>1. stat[u] \in StatResult
    BY DEF IndInv, TypeOK
  <2>2. /\ stat[u].asked \in Nat /\ stat[u].transferred \in Nat
        /\ transferred[r] \in Nat /\ failed[r] \in Nat
        /\ transferred'[r] \in Nat /\ failed'[r] \in Nat
    BY <2>1, TypeStep DEF IndInv, TypeOK, StatResult
  <2>3. /\ transferred'[r] >= transferred[r] /\ failed'[r] >= failed[r]
        /\ Cardinality(Accepted(r)') >= Cardinality(Accepted(r))
    BY CountsGrow
  <2>4. Cardinality(Accepted(r)) \in Nat /\ Cardinality(Accepted(r)') \in Nat
    BY CountsAreFinite, CountsAreFinitePrimed
  <2>5. tt'[u] = r /\ pc'[u] = pc[u] /\ stat'[u] = stat[u]
    BY DEF Still
  <2>6. pc[u] = "stats_flush" => stat[u].asked <= Cardinality(Accepted(r))
    BY DEF StatOK
  <2>7. /\ stat[u].drained /\ pc[u] = "stats_transferred" =>
             stat[u].asked <= transferred[r] + failed[r]
        /\ stat[u].drained /\ pc[u] = "stats_failed" =>
             stat[u].asked <= stat[u].transferred + failed[r]
        /\ pc[u] = "stats_flush" => stat[u].drained = FALSE
    BY DEF StatOK
  <2>8. Accepted(tt[u])' = Accepted(r)'
    BY <2>5 DEF Accepted
  <2> QED BY <1>1, <2>2, <2>3, <2>4, <2>5, <2>6, <2>7, <2>8 DEF StatOK
<1>2. CASE pc[u] \notin {"stats_flush", "stats_transferred", "stats_failed"}
  BY <1>2 DEF StatOK, Still
<1> QED BY <1>1, <1>2

(* The session's own steps through kafka_stats(): kafka-engine.c:366-385.  *)
LEMMA StatOwnStep ==
  ASSUME IndInv, CountedOnce, [Next]_vars, NEW u \in Session, StatOK(u),
         Begin(u) \/ Continue(u)
  PROVE  StatOK(u)'
<1> USE DEF Goto, lockVars, tableVars, heapVars, countVars, queueVars,
            pollVars, callVars
<1>0. /\ pc \in [Session -> PCs] /\ tt \in [Session -> Record \cup {None}]
      /\ stat \in [Session -> StatResult] /\ stat[u] \in StatResult
      /\ stat[u].asked \in Nat /\ stat[u].transferred \in Nat
  BY DEF IndInv, TypeOK, StatResult
<1>1. ASSUME NEW r \in Record, kafka_topic_get_stats(u, r)
      PROVE  StatOK(u)'
  <2>1. /\ tt'[u] = r /\ pc'[u] = "stats_flush"
        /\ stat'[u].asked = Cardinality(Accepted(r))
        /\ stat'[u].drained = stat[u].drained /\ stat[u].drained = FALSE
        /\ opaque' = opaque
    <3>1. /\ tt' = [tt EXCEPT ![u] = r] /\ pc' = [pc EXCEPT ![u] = "stats_flush"]
          /\ stat' = [stat EXCEPT ![u].asked = Cardinality(Accepted(r))]
          /\ opaque' = opaque /\ pc[u] = "stats"
      BY <1>1 DEF kafka_topic_get_stats
    <3>2. stat[u].drained = FALSE
      BY <3>1 DEF StatOK
    <3>3. /\ stat'[u].asked = Cardinality(Accepted(r))
          /\ stat'[u].drained = stat[u].drained
      BY <1>0, <3>1 DEF StatResult
    <3> QED BY <1>0, <3>1, <3>2, <3>3
  <2>2. Accepted(tt[u])' = Accepted(r)
    BY <2>1 DEF Accepted
  <2> QED BY <2>1, <2>2, CountsAreFinite DEF StatOK
<1>2. CASE tek_kafka_topic_get_stats_flushed(u)
  <2>1. tt[u] \in Record
    BY <1>2 DEF tek_kafka_topic_get_stats_flushed, IndInv, TypeOK, PointerInv,
           InTablePCs, ReadPCs
  <2>2. /\ tt' = tt /\ pc'[u] = "stats_transferred" /\ pc[u] = "stats_flush"
        /\ stat'[u].asked = stat[u].asked
        /\ stat'[u].drained = (OutQ = {})
        /\ transferred' = transferred /\ failed' = failed
    BY <1>0, <1>2 DEF tek_kafka_topic_get_stats_flushed, StatResult
  <2>3. OutQ = {} => Cardinality(Accepted(tt[u])) = transferred[tt[u]] + failed[tt[u]]
    <3> SUFFICES ASSUME OutQ = {}
                 PROVE  Cardinality(Accepted(tt[u]))
                          = transferred[tt[u]] + failed[tt[u]]
      OBVIOUS
    <3>1. Cardinality(Accepted(tt[u]) \cap OutQ) = 0
      <4>1. Accepted(tt[u]) \cap OutQ = {}
        OBVIOUS
      <4> QED BY <4>1, FS_EmptySet
    <3>2. transferred[tt[u]] \in Nat /\ failed[tt[u]] \in Nat
      BY <2>1 DEF IndInv, TypeOK
    <3> QED BY <2>1, <3>1, <3>2 DEF CountedOnce
  <2>4. stat[u].asked <= Cardinality(Accepted(tt[u]))
    BY <2>2 DEF StatOK
  <2> QED BY <2>2, <2>3, <2>4 DEF StatOK
<1>3. CASE tek_kafka_topic_get_stats_transferred(u)
  <2>1. /\ tt' = tt /\ pc'[u] = "stats_failed" /\ pc[u] = "stats_transferred"
        /\ stat'[u].asked = stat[u].asked
        /\ stat'[u].drained = stat[u].drained
        /\ stat'[u].transferred = transferred[tt[u]]
        /\ failed' = failed
    BY <1>0, <1>3 DEF tek_kafka_topic_get_stats_transferred, StatResult
  <2> QED BY <2>1 DEF StatOK
<1>4. CASE tek_kafka_topic_get_stats_failed(u)
  <2>1. /\ pc'[u] = "stats_done" /\ pc[u] = "stats_failed"
        /\ stat'[u].asked = stat[u].asked
        /\ stat'[u].drained = stat[u].drained
        /\ stat'[u].transferred = stat[u].transferred
        /\ stat'[u].failed = failed[tt[u]]
    BY <1>0, <1>4 DEF tek_kafka_topic_get_stats_failed, StatResult
  <2> QED BY <2>1 DEF StatOK
<1>5. CASE kafka_stats_return(u)
  <2>1. pc'[u] = "idle" /\ stat'[u] = NoStat
    BY <1>0, <1>5 DEF kafka_stats_return
  <2> QED BY <2>1 DEF StatOK, NoStat
<1>6. CASE kafka_topic_get_stats_unknown(u)
  <2>1. pc'[u] = "stats_done" /\ pc[u] = "stats" /\ stat' = stat
    BY <1>0, <1>6 DEF kafka_topic_get_stats_unknown
  <2> QED BY <2>1 DEF StatOK
<1>7. CASE Begin(u)
  <2>1. /\ stat' = stat
        /\ {pc[u], pc'[u]} \cap {"stats_flush", "stats_transferred",
                                 "stats_failed", "stats_done"} = {}
    BY <1>0, <1>7
    DEF Begin, kafka_connect_init, kafka_send_init, kafka_send_deinit,
        kafka_table_exists, kafka_stats_init, kafka_disconnect_topic,
        kafka_disconnect, kafka_module_unload
  <2> QED BY <2>1 DEF StatOK
<1>8. ASSUME Continue(u),
             \A r \in Record : ~ kafka_topic_get_stats(u, r),
             ~ tek_kafka_topic_get_stats_flushed(u),
             ~ tek_kafka_topic_get_stats_transferred(u),
             ~ tek_kafka_topic_get_stats_failed(u),
             ~ kafka_stats_return(u), ~ kafka_topic_get_stats_unknown(u)
      PROVE  StatOK(u)'
  <2>1. /\ stat' = stat
        /\ {pc[u], pc'[u]} \cap {"stats_flush", "stats_transferred",
                                 "stats_failed", "stats_done"} = {}
    BY <1>0, <1>8
    DEF Continue, kafka_table_connect, kafka_table_connect_failed,
         kafka_table_create_found, kafka_table_create,
         kafka_table_create_failed, kafka_table_reap_retired_locked,
         kafka_table_send, kafka_table_send_unknown, tek_kafka_topic_feed,
         tek_kafka_topic_feed_full, tek_kafka_topic_feed_retry,
         tek_kafka_topic_feed_error, kafka_table_send_done, kafka_send_return,
         kafka_table_dismiss, kafka_table_dismiss_unknown,
         kafka_table_dismiss_flushed, kafka_table_remove_locked,
         kafka_table_park, kafka_table_dismiss_all,
         kafka_table_dismiss_all_flushed, tek_kafka_producer_join,
         kafka_table_dismiss_all_done
  <2> QED BY <2>1 DEF StatOK
<1> QED BY <1>1, <1>2, <1>3, <1>4, <1>5, <1>6, <1>7, <1>8

LEMMA StatInvStep ==
  ASSUME IndInv, CountedOnce, StatInv, [Next]_vars
  PROVE  StatInv'
<1>1. \A u \in Session : StatOK(u)
  BY DEF StatInv, StatOK
<1>2. \A u \in Session : StatOK(u)'
  BY <1>1, OnlyItsOwnSteps, StatStill, StatOwnStep
<1> QED BY <1>2 DEF StatInv, StatOK

-------------------------------------------------------------------------------
SendOK(u) ==
  IF pc[u] \in {"poll_sent", "sent"} THEN \E m \in Msg : sent[u] = {m}
  ELSE sent[u] = {}

(* kafka-engine.c:396-431: the produce loop leaves with one message, the   *)
(* way out through an error with none.                                     *)
LEMMA SendInvStep ==
  ASSUME IndInv, SendInv, [Next]_vars
  PROVE  SendInv'
<1> SUFFICES ASSUME NEW u \in Session PROVE SendOK(u)'
  BY DEF SendInv, SendOK
<1> USE DEF Goto, lockVars, tableVars, heapVars, countVars, queueVars,
            pollVars, callVars
<1>0. /\ pc \in [Session -> PCs] /\ sent \in [Session -> SUBSET Msg]
      /\ SendOK(u)
  BY DEF IndInv, TypeOK, SendInv, SendOK
<1>1. CASE Still(u)
  BY <1>0, <1>1 DEF SendOK, Still
<1>2. CASE Begin(u)
  <2>1. /\ sent' = sent
        /\ {pc[u], pc'[u]} \cap {"poll_sent", "sent"} = {}
    BY <1>0, <1>2
    DEF Begin, kafka_connect_init, kafka_send_init, kafka_send_deinit,
        kafka_table_exists, kafka_stats_init, kafka_disconnect_topic,
        kafka_disconnect, kafka_module_unload
  <2> QED BY <1>0, <2>1 DEF SendOK
<1>3. ASSUME NEW m \in Msg, tek_kafka_topic_feed(u, m)
      PROVE  SendOK(u)'
  <2>1. sent[u] = {}
    BY <1>0, <1>3 DEF tek_kafka_topic_feed, SendOK
  <2>2. sent'[u] = sent[u] \cup {m} /\ pc'[u] = "poll_sent"
    BY <1>0, <1>3 DEF tek_kafka_topic_feed
  <2>3. sent'[u] = {m}
    BY <2>1, <2>2
  <2> QED BY <2>2, <2>3 DEF SendOK
<1>4. CASE kafka_table_send_done(u)
  BY <1>0, <1>4 DEF kafka_table_send_done, SendOK
<1>5. CASE kafka_send_return(u)
  BY <1>0, <1>5 DEF kafka_send_return, SendOK
<1>6. ASSUME Continue(u),
             \A m \in Msg : ~ tek_kafka_topic_feed(u, m),
             ~ kafka_table_send_done(u), ~ kafka_send_return(u)
      PROVE  SendOK(u)'
  <2>1. /\ sent' = sent
        /\ {pc[u], pc'[u]} \cap {"poll_sent", "sent"} = {}
    BY <1>0, <1>6
    DEF Continue, kafka_table_connect, kafka_table_connect_failed,
         kafka_table_create_found, kafka_table_create,
         kafka_table_create_failed, kafka_table_reap_retired_locked,
         kafka_table_send, kafka_table_send_unknown,
         tek_kafka_topic_feed_full, tek_kafka_topic_feed_retry,
         tek_kafka_topic_feed_error,
         kafka_topic_get_stats, kafka_topic_get_stats_unknown,
         tek_kafka_topic_get_stats_flushed,
         tek_kafka_topic_get_stats_transferred,
         tek_kafka_topic_get_stats_failed, kafka_stats_return,
         kafka_table_dismiss, kafka_table_dismiss_unknown,
         kafka_table_dismiss_flushed, kafka_table_remove_locked,
         kafka_table_park, kafka_table_dismiss_all,
         kafka_table_dismiss_all_flushed, tek_kafka_producer_join,
         kafka_table_dismiss_all_done
  <2> QED BY <1>0, <2>1 DEF SendOK
<1> QED BY <1>1, <1>2, <1>3, <1>4, <1>5, <1>6, OnlyItsOwnSteps

LEMMA CountInit == Init => CountInv
<1> SUFFICES ASSUME Init PROVE CountInv
  OBVIOUS
<1>1. CountedOnce
  <2> SUFFICES ASSUME NEW r \in Record
               PROVE  transferred[r] + failed[r] + Cardinality(Accepted(r) \cap OutQ)
                        = Cardinality(Accepted(r))
    BY DEF CountedOnce
  <2>1. Accepted(r) = {} /\ Accepted(r) \cap OutQ = {}
    BY TableAssumption DEF Init, Accepted
  <2> QED BY <2>1, FS_EmptySet DEF Init
<1>2. StatInv
  BY DEF Init, StatInv, NoStat
<1>3. SendInv
  BY DEF Init, SendInv
<1> QED BY <1>1, <1>2, <1>3 DEF CountInv

(* kafka-engine.c:60-86,366-440: the numbers the program keeps agree with  *)
(* the messages in flight in every reachable state.                        *)
THEOREM CountInvariance == Spec => []CountInv
<1>1. IndInv /\ CountInv /\ [Next]_vars => CountInv'
  BY CountedOnceStep, StatInvStep, SendInvStep DEF CountInv
<1> QED BY CountInit, <1>1, Invariance, PTL DEF Spec

(* kafka-engine.c:75-83: a message is counted once, on the record that     *)
(* accepted it, whichever thread serves its report and however late.       *)
THEOREM EachMessageCountedOnce == Spec => []CountedOnce
<1>1. CountInv => CountedOnce
  BY DEF CountInv
<1> QED BY CountInvariance, <1>1, PTL

(* kafka-engine.c:366-385: after a flush that emptied the queue, the two   *)
(* loads of kafka_stats() account for all the topic had accepted.          *)
THEOREM StatsAlwaysAccount == Spec => []StatsAccountForProduced
<1>1. ASSUME IndInv, CountInv PROVE StatsAccountForProduced
  <2>1. \A s \in Session : /\ stat[s].asked \in Nat
                           /\ stat[s].transferred + stat[s].failed \in Nat
    BY <1>1 DEF IndInv, TypeOK, StatResult
  <2> QED BY <1>1, <2>1 DEF CountInv, StatInv, StatsAccountForProduced
<1> QED BY Invariance, CountInvariance, <1>1, PTL

(* kafka-engine.c:396-423: a kafka_send() that succeeds queued one         *)
(* message, one that fails queued none.                                    *)
THEOREM SendAlwaysQueuesOne == Spec => []SendQueuesOne
<1>1. ASSUME CountInv PROVE SendQueuesOne
  BY <1>1, FS_Singleton DEF CountInv, SendInv, SendQueuesOne
<1> QED BY CountInvariance, <1>1, PTL
===============================================================================
