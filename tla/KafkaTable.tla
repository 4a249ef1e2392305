----------------------------- MODULE KafkaTable -----------------------------
(***************************************************************************)
(* The process-wide state of TrigEmit-Kafka (kafka-table.c, kafka-engine.c) *)
(* under concurrent SQL sessions: the table `kt` behind its read/write     *)
(* lock, the topic records and their memory, the one producer with its out *)
(* queue and poll thread, and the delivery report callback.                *)
(*                                                                         *)
(* A session runs one UDF at a time; pc[s] is where it is.  A step is what *)
(* the code does between two points at which another thread can interfere: *)
(* taking or releasing the lock, reading the length of the out queue, and  *)
(* entering or leaving librdkafka, which serves delivery reports on the    *)
(* calling thread.                                                         *)
(***************************************************************************)
EXTENDS Naturals, FiniteSets

CONSTANTS
  Session,      \* threads of the server that evaluate the UDFs
  Poll,         \* the poll thread of the current producer
  Topic,        \* topic names
  Record,       \* addresses malloc() can return for a tek_topic_t
  Msg,          \* messages that can ever be produced
  None,         \* NULL
  QueueMax,     \* queue.buffering.max.messages
  MaxConnects   \* bound: how many producers may be created

ASSUME TableAssumption ==
  /\ Poll \notin Session
  /\ None \notin Session \cup {Poll} \cup Topic \cup Record \cup Msg
  /\ IsFiniteSet(Msg)
  /\ QueueMax \in Nat \ {0}
  /\ MaxConnects \in Nat

VARIABLES
  writer, readers,      \* ktlock
  producer,             \* kt.producer: which connection, 0 for NULL
  connects,             \* how many producers were created so far
  topics, retired,      \* kt.topics, kt.retired
  leaked,               \* records given up by kafka_table_remove_locked()
  mem,                  \* heap state of each address
  name, owner,          \* tt->name, tt->producer
  rkt,                  \* records whose librdkafka handle is not destroyed
  transferred, failed,  \* tt->transferred, tt->failed
  mstate, opaque,       \* each message: progress, delivery report opaque
  serving,              \* the message whose callback a thread is running
  thread, running,      \* tk->thread_started and the thread, tk->running
  module,               \* whether kafka.so is mapped
  pc, arg, tt,          \* per session: position, topic argument, pointer
  sent,                 \* per session: messages this kafka_send() queued
  stat                  \* per session: what kafka_stats() has read

lockVars  == <<writer, readers>>
tableVars == <<producer, connects, topics, retired>>
heapVars  == <<leaked, mem, name, owner, rkt>>
countVars == <<transferred, failed>>
queueVars == <<mstate, opaque, serving>>
pollVars  == <<thread, running>>
callVars  == <<arg, tt, sent, stat>>
vars == <<lockVars, tableVars, heapVars, countVars, queueVars, pollVars,
          module, pc, callVars>>

Thread == Session \cup {Poll}

(* A result left uninitialised (for the mutation of NoStat).               *)
NoStatUnset == [asked |-> 0, drained |-> FALSE,
                transferred |-> None, failed |-> None]

NoStat == [asked |-> 0, drained |-> FALSE, transferred |-> 0, failed |-> 0]

StatResult ==
  [asked : Nat, drained : BOOLEAN, transferred : Nat, failed : Nat]

(* Positions at which a session holds ktlock for reading or for writing,   *)
(* and those at which it is inside rd_kafka_poll(), rd_kafka_flush() or    *)
(* rd_kafka_destroy() and so may run the delivery report callback.         *)
ReadPCs  == {"feed", "poll_full", "poll_sent",
             "stats_flush", "stats_transferred", "stats_failed"}
WritePCs == {"created", "create_failed", "dismiss_flush", "dismiss_remove",
             "dismiss_park", "dismiss_reap", "all_flush", "all_join",
             "all_destroy"}
PollPCs  == {"poll_full", "poll_sent", "stats_flush", "dismiss_flush",
             "all_flush", "all_destroy"}
FreePCs  == {"idle", "connect", "send_ready", "create", "send", "sent",
             "send_failed", "stats", "stats_done",
             "dismiss", "dismiss_all"}
PCs == ReadPCs \cup WritePCs \cup FreePCs

(***************************************************************************)
(* rd_kafka_outq_len() counts a message until its callback has returned.   *)
(***************************************************************************)
OutQ == {m \in Msg : mstate[m] \in {"queued", "acked", "nacked"}}

(* Forgets the messages whose report waits to be served (for the mutation  *)
(* of Busy).                                                               *)
BusySending == producer # 0 /\ \E m \in Msg : mstate[m] = "queued"

Busy == producer # 0 /\ OutQ # {}

kafka_table_find_locked(t) == {r \in topics : name[r] = t}

ReadLockFree == writer = None

(* Lets a writer in beside readers (for the mutation of WriteLockFree).    *)
WriteLockFreeOfWriters == writer = None

WriteLockFree == writer = None /\ readers = {}

Accepted(r) == {m \in Msg : opaque[m] = r}

FreeRecords(R) == mem' = [r \in Record |-> IF r \in R THEN "freed" ELSE mem[r]]

(* The producer is freed and the parked records are not (for the mutation  *)
(* of Disposed).                                                           *)
DisposedTopics == topics

(* What kafka_table_dismiss_all() frees.                                   *)
Disposed == topics \cup retired

Goto(s, label) == pc' = [pc EXCEPT ![s] = label]

-----------------------------------------------------------------------------
Init ==
  /\ writer = None /\ readers = {}
  /\ producer = 0 /\ connects = 0
  /\ topics = {} /\ retired = {} /\ leaked = {}
  /\ mem = [r \in Record |-> "unused"]
  /\ name = [r \in Record |-> None]
  /\ owner = [r \in Record |-> 0]
  /\ rkt = {}
  /\ transferred = [r \in Record |-> 0]
  /\ failed = [r \in Record |-> 0]
  /\ mstate = [m \in Msg |-> "unused"]
  /\ opaque = [m \in Msg |-> None]
  /\ serving = [th \in Thread |-> None]
  /\ thread = "none" /\ running = FALSE
  /\ module = "loaded"
  /\ pc = [s \in Session |-> "idle"]
  /\ arg = [s \in Session |-> None]
  /\ tt = [s \in Session |-> None]
  /\ sent = [s \in Session |-> {}]
  /\ stat = [s \in Session |-> NoStat]

-----------------------------------------------------------------------------
(***************************************************************************)
(* kafka_connect(): _init() looks, the call looks again under the lock.    *)
(* Everything between taking and releasing the lock is private to the      *)
(* session until the producer is published, so it is one step; a failure   *)
(* anywhere in it disposes what was built and leaves the table as it was.  *)
(***************************************************************************)
kafka_connect_init(s) ==
  /\ pc[s] = "idle" /\ module = "loaded"
  /\ ReadLockFree /\ producer = 0
  /\ Goto(s, "connect")
  /\ UNCHANGED <<lockVars, tableVars, heapVars, countVars, queueVars,
                 pollVars, module, callVars>>

kafka_table_connect(s) ==
  /\ pc[s] = "connect" /\ WriteLockFree
  /\ producer = 0 /\ connects < MaxConnects
  /\ connects' = connects + 1
  /\ producer' = connects + 1
  /\ thread' = "running" /\ running' = TRUE
  /\ Goto(s, "idle")
  /\ UNCHANGED <<lockVars, topics, retired, heapVars, countVars, queueVars,
                 module, callVars>>

kafka_table_connect_failed(s) ==
  /\ pc[s] = "connect" /\ WriteLockFree
  /\ Goto(s, "idle")
  /\ UNCHANGED <<lockVars, tableVars, heapVars, countVars, queueVars,
                 pollVars, module, callVars>>

-----------------------------------------------------------------------------
(***************************************************************************)
(* kafka_send(): _init() once per statement, then for every row three      *)
(* separate critical sections -- does the topic exist, create it, send.    *)
(***************************************************************************)
kafka_send_init(s) ==
  /\ pc[s] = "idle" /\ module = "loaded"
  /\ ReadLockFree /\ producer # 0
  /\ Goto(s, "send_ready")
  /\ UNCHANGED <<lockVars, tableVars, heapVars, countVars, queueVars,
                 pollVars, module, callVars>>

kafka_send_deinit(s) ==
  /\ pc[s] = "send_ready"
  /\ Goto(s, "idle")
  /\ UNCHANGED <<lockVars, tableVars, heapVars, countVars, queueVars,
                 pollVars, module, callVars>>

kafka_table_exists(s, t) ==
  /\ pc[s] = "send_ready" /\ ReadLockFree
  /\ arg' = [arg EXCEPT ![s] = t]
  /\ Goto(s, IF kafka_table_find_locked(t) = {} THEN "create" ELSE "send")
  /\ UNCHANGED <<lockVars, tableVars, heapVars, countVars, queueVars,
                 pollVars, module, tt, sent, stat>>

(* kafka_table_create() up to its `done` label; the reap there reads the   *)
(* length of the out queue afresh and is the step that releases the lock.  *)
kafka_table_create_found(s) ==
  /\ pc[s] = "create" /\ WriteLockFree
  /\ kafka_table_find_locked(arg[s]) # {}
  /\ writer' = s
  /\ Goto(s, "created")
  /\ UNCHANGED <<readers, tableVars, heapVars, countVars, queueVars,
                 pollVars, module, callVars>>

(* Trusts the lookup of kafka_table_exists() (for the mutation of          *)
(* MayCreate).                                                             *)
MayCreateUnchecked(s) == producer # 0

MayCreate(s) == kafka_table_find_locked(arg[s]) = {} /\ producer # 0

kafka_table_create(s, r) ==
  /\ pc[s] = "create" /\ WriteLockFree
  /\ MayCreate(s)
  /\ mem[r] = "unused"
  /\ writer' = s
  /\ mem' = [mem EXCEPT ![r] = "allocated"]
  /\ name' = [name EXCEPT ![r] = arg[s]]
  /\ owner' = [owner EXCEPT ![r] = producer]
  /\ rkt' = rkt \cup {r}
  /\ topics' = topics \cup {r}
  /\ Goto(s, "created")
  /\ UNCHANGED <<readers, producer, connects, retired, leaked, countVars,
                 queueVars, pollVars, module, callVars>>

(* Not connected, or the table cannot grow, or librdkafka refuses.         *)
kafka_table_create_failed(s) ==
  /\ pc[s] = "create" /\ WriteLockFree
  /\ kafka_table_find_locked(arg[s]) = {}
  /\ writer' = s
  /\ Goto(s, "create_failed")
  /\ UNCHANGED <<readers, tableVars, heapVars, countVars, queueVars,
                 pollVars, module, callVars>>

(* Frees what is parked unless the out queue still holds a message, then   *)
(* releases the lock: the end of kafka_table_create() and of               *)
(* kafka_table_dismiss().                                                  *)
kafka_table_reap_retired_locked(s) ==
  /\ pc[s] \in {"created", "create_failed", "dismiss_reap"}
  /\ LET reaped == IF Busy THEN {} ELSE retired
     IN /\ FreeRecords(reaped)
        /\ retired' = retired \ reaped
  /\ writer' = None
  /\ \/ pc[s] = "created" /\ Goto(s, "send")
     \/ pc[s] = "create_failed" /\ Goto(s, "send_failed")
     \/ pc[s] = "dismiss_reap" /\ Goto(s, "idle")
  /\ arg' = IF pc[s] = "dismiss_reap" THEN [arg EXCEPT ![s] = None] ELSE arg
  /\ UNCHANGED <<readers, producer, connects, topics, leaked, name, owner,
                 rkt, countVars, queueVars, pollVars, module, tt, sent, stat>>

(* kafka_table_send(): the pointer is looked up and used under one read    *)
(* lock.  A topic dismissed since the lookup in kafka_table_exists() or    *)
(* the insert in kafka_table_create() fails the call.                      *)
kafka_table_send(s, r) ==
  /\ pc[s] = "send" /\ ReadLockFree
  /\ r \in kafka_table_find_locked(arg[s])
  /\ readers' = readers \cup {s}
  /\ tt' = [tt EXCEPT ![s] = r]
  /\ Goto(s, "feed")
  /\ UNCHANGED <<writer, tableVars, heapVars, countVars, queueVars, pollVars,
                 module, arg, sent, stat>>

kafka_table_send_unknown(s) ==
  /\ pc[s] = "send" /\ ReadLockFree
  /\ kafka_table_find_locked(arg[s]) = {}
  /\ Goto(s, "send_failed")
  /\ UNCHANGED <<lockVars, tableVars, heapVars, countVars, queueVars,
                 pollVars, module, callVars>>

(* tek_kafka_topic_feed_key(): one turn of the produce loop.  A full queue *)
(* polls for up to 100 ms and tries again, the read lock held throughout.  *)
tek_kafka_topic_feed(s, m) ==
  /\ pc[s] = "feed"
  /\ Cardinality(OutQ) < QueueMax
  /\ mstate[m] = "unused"
  /\ mstate' = [mstate EXCEPT ![m] = "queued"]
  /\ opaque' = [opaque EXCEPT ![m] = tt[s]]
  /\ sent' = [sent EXCEPT ![s] = @ \cup {m}]
  /\ Goto(s, "poll_sent")
  /\ UNCHANGED <<lockVars, tableVars, heapVars, countVars, serving, pollVars,
                 module, arg, tt, stat>>

(* A full queue breaks the loop like a success (for the mutation of        *)
(* tek_kafka_topic_feed_full).                                             *)
tek_kafka_topic_feed_full_break(s) ==
  /\ pc[s] = "feed"
  /\ Cardinality(OutQ) >= QueueMax
  /\ Goto(s, "poll_sent")
  /\ UNCHANGED <<lockVars, tableVars, heapVars, countVars, queueVars,
                 pollVars, module, callVars>>

tek_kafka_topic_feed_full(s) ==
  /\ pc[s] = "feed"
  /\ Cardinality(OutQ) >= QueueMax
  /\ Goto(s, "poll_full")
  /\ UNCHANGED <<lockVars, tableVars, heapVars, countVars, queueVars,
                 pollVars, module, callVars>>

tek_kafka_topic_feed_retry(s) ==
  /\ pc[s] = "poll_full" /\ serving[s] = None
  /\ Goto(s, "feed")
  /\ UNCHANGED <<lockVars, tableVars, heapVars, countVars, queueVars,
                 pollVars, module, callVars>>

(* librdkafka refuses the message for any other reason.                    *)
tek_kafka_topic_feed_error(s) ==
  /\ pc[s] = "feed"
  /\ readers' = readers \ {s}
  /\ tt' = [tt EXCEPT ![s] = None]
  /\ Goto(s, "send_failed")
  /\ UNCHANGED <<writer, tableVars, heapVars, countVars, queueVars, pollVars,
                 module, arg, sent, stat>>

kafka_table_send_done(s) ==
  /\ pc[s] = "poll_sent" /\ serving[s] = None
  /\ readers' = readers \ {s}
  /\ tt' = [tt EXCEPT ![s] = None]
  /\ Goto(s, "sent")
  /\ UNCHANGED <<writer, tableVars, heapVars, countVars, queueVars, pollVars,
                 module, arg, sent, stat>>

(* The UDF hands its result to the server, which may call it for the next  *)
(* row of the statement without another _init().                           *)
kafka_send_return(s) ==
  /\ pc[s] \in {"sent", "send_failed"}
  /\ arg' = [arg EXCEPT ![s] = None]
  /\ sent' = [sent EXCEPT ![s] = {}]
  /\ Goto(s, "send_ready")
  /\ UNCHANGED <<lockVars, tableVars, heapVars, countVars, queueVars,
                 pollVars, module, tt, stat>>

-----------------------------------------------------------------------------
(***************************************************************************)
(* kafka_stats(t): flush under the read lock, then two atomic loads.  A    *)
(* literal argument must name a known topic at _init(), any other argument *)
(* is looked up only by the call.  `asked` and `drained` are history: what *)
(* the record had accepted when the call started, and whether the flush    *)
(* ended because the queue was empty rather than because its time was up.  *)
(***************************************************************************)
kafka_stats_init(s, t, literal) ==
  /\ pc[s] = "idle" /\ module = "loaded"
  /\ ReadLockFree /\ producer # 0
  /\ literal => kafka_table_find_locked(t) # {}
  /\ arg' = [arg EXCEPT ![s] = t]
  /\ Goto(s, "stats")
  /\ UNCHANGED <<lockVars, tableVars, heapVars, countVars, queueVars,
                 pollVars, module, tt, sent, stat>>

kafka_topic_get_stats(s, r) ==
  /\ pc[s] = "stats" /\ ReadLockFree
  /\ r \in kafka_table_find_locked(arg[s])
  /\ readers' = readers \cup {s}
  /\ tt' = [tt EXCEPT ![s] = r]
  /\ stat' = [stat EXCEPT ![s].asked = Cardinality(Accepted(r))]
  /\ Goto(s, "stats_flush")
  /\ UNCHANGED <<writer, tableVars, heapVars, countVars, queueVars, pollVars,
                 module, arg, sent>>

kafka_topic_get_stats_unknown(s) ==
  /\ pc[s] = "stats" /\ ReadLockFree
  /\ kafka_table_find_locked(arg[s]) = {}
  /\ Goto(s, "stats_done")
  /\ UNCHANGED <<lockVars, tableVars, heapVars, countVars, queueVars,
                 pollVars, module, callVars>>

tek_kafka_topic_get_stats_flushed(s) ==
  /\ pc[s] = "stats_flush" /\ serving[s] = None
  /\ stat' = [stat EXCEPT ![s].drained = (OutQ = {})]
  /\ Goto(s, "stats_transferred")
  /\ UNCHANGED <<lockVars, tableVars, heapVars, countVars, queueVars,
                 pollVars, module, arg, tt, sent>>

tek_kafka_topic_get_stats_transferred(s) ==
  /\ pc[s] = "stats_transferred"
  /\ stat' = [stat EXCEPT ![s].transferred = transferred[tt[s]]]
  /\ Goto(s, "stats_failed")
  /\ UNCHANGED <<lockVars, tableVars, heapVars, countVars, queueVars,
                 pollVars, module, arg, tt, sent>>

tek_kafka_topic_get_stats_failed(s) ==
  /\ pc[s] = "stats_failed"
  /\ stat' = [stat EXCEPT ![s].failed = failed[tt[s]]]
  /\ readers' = readers \ {s}
  /\ tt' = [tt EXCEPT ![s] = None]
  /\ Goto(s, "stats_done")
  /\ UNCHANGED <<writer, tableVars, heapVars, countVars, queueVars, pollVars,
                 module, arg, sent>>

kafka_stats_return(s) ==
  /\ pc[s] = "stats_done"
  /\ arg' = [arg EXCEPT ![s] = None]
  /\ stat' = [stat EXCEPT ![s] = NoStat]
  /\ Goto(s, "idle")
  /\ UNCHANGED <<lockVars, tableVars, heapVars, countVars, queueVars,
                 pollVars, module, tt, sent>>

-----------------------------------------------------------------------------
(***************************************************************************)
(* kafka_disconnect(t): flush, take the topic out, destroy its handle,     *)
(* then free the record or park it for a later reap.                       *)
(***************************************************************************)
kafka_disconnect_topic(s, t) ==
  /\ pc[s] = "idle" /\ module = "loaded"
  /\ arg' = [arg EXCEPT ![s] = t]
  /\ Goto(s, "dismiss")
  /\ UNCHANGED <<lockVars, tableVars, heapVars, countVars, queueVars,
                 pollVars, module, tt, sent, stat>>

kafka_table_dismiss(s, r) ==
  /\ pc[s] = "dismiss" /\ WriteLockFree
  /\ r \in kafka_table_find_locked(arg[s])
  /\ writer' = s
  /\ tt' = [tt EXCEPT ![s] = r]
  /\ Goto(s, "dismiss_flush")
  /\ UNCHANGED <<readers, tableVars, heapVars, countVars, queueVars,
                 pollVars, module, arg, sent, stat>>

kafka_table_dismiss_unknown(s) ==
  /\ pc[s] = "dismiss" /\ WriteLockFree
  /\ kafka_table_find_locked(arg[s]) = {}
  /\ writer' = s
  /\ Goto(s, "dismiss_reap")
  /\ UNCHANGED <<readers, tableVars, heapVars, countVars, queueVars,
                 pollVars, module, callVars>>

kafka_table_dismiss_flushed(s) ==
  /\ pc[s] = "dismiss_flush" /\ serving[s] = None
  /\ Goto(s, "dismiss_remove")
  /\ UNCHANGED <<lockVars, tableVars, heapVars, countVars, queueVars,
                 pollVars, module, callVars>>

(* The entry stays in the array (for the mutation of                       *)
(* kafka_table_remove_locked).                                             *)
kafka_table_remove_locked_listed(s) ==
  /\ pc[s] = "dismiss_remove"
  /\ rkt' = rkt \ {tt[s]}
  /\ Goto(s, "dismiss_park")
  /\ UNCHANGED <<lockVars, tableVars, leaked, mem, name, owner, countVars,
                 queueVars, pollVars, module, callVars>>

kafka_table_remove_locked(s) ==
  /\ pc[s] = "dismiss_remove"
  /\ topics' = topics \ {tt[s]}
  /\ rkt' = rkt \ {tt[s]}
  /\ Goto(s, "dismiss_park")
  /\ UNCHANGED <<lockVars, producer, connects, retired, leaked, mem, name,
                 owner, countVars, queueVars, pollVars, module, callVars>>

(* Its two outcomes while a message is in flight: room on the retired      *)
(* list, or no memory for it and the record is leaked.                     *)
kafka_table_park(s) ==
  /\ pc[s] = "dismiss_park"
  /\ \/ /\ Busy
        /\ retired' = retired \cup {tt[s]}
        /\ UNCHANGED <<mem, leaked>>
     \/ /\ Busy
        /\ leaked' = leaked \cup {tt[s]}
        /\ UNCHANGED <<mem, retired>>
     \/ /\ ~Busy
        /\ FreeRecords({tt[s]})
        /\ UNCHANGED <<retired, leaked>>
  /\ tt' = [tt EXCEPT ![s] = None]
  /\ Goto(s, "dismiss_reap")
  /\ UNCHANGED <<lockVars, producer, connects, topics, name, owner, rkt,
                 countVars, queueVars, pollVars, module, arg, sent, stat>>

-----------------------------------------------------------------------------
(***************************************************************************)
(* kafka_disconnect() and the unload hook: flush, destroy every handle,    *)
(* stop and join the poll thread, destroy the producer, free every record. *)
(***************************************************************************)
kafka_disconnect(s) ==
  /\ pc[s] = "idle" /\ module = "loaded"
  /\ Goto(s, "dismiss_all")
  /\ UNCHANGED <<lockVars, tableVars, heapVars, countVars, queueVars,
                 pollVars, module, callVars>>

(* dlclose() runs the destructor once no function of the library is in use *)
kafka_module_unload(s) ==
  /\ module = "loaded"
  /\ \A u \in Session : pc[u] = "idle"
  /\ module' = "unloading"
  /\ Goto(s, "dismiss_all")
  /\ UNCHANGED <<lockVars, tableVars, heapVars, countVars, queueVars,
                 pollVars, callVars>>

kafka_module_load ==
  /\ module = "unloaded"
  /\ module' = "loaded"
  /\ UNCHANGED <<lockVars, tableVars, heapVars, countVars, queueVars,
                 pollVars, pc, callVars>>

kafka_table_dismiss_all(s) ==
  /\ pc[s] = "dismiss_all" /\ WriteLockFree
  /\ writer' = s
  /\ Goto(s, IF producer = 0 THEN "all_destroy" ELSE "all_flush")
  /\ UNCHANGED <<readers, tableVars, heapVars, countVars, queueVars,
                 pollVars, module, callVars>>

(* The flush is over: tek_kafka_topic_dispose() on every topic, and        *)
(* tek_kafka_producer_dispose() up to pthread_join().                      *)
kafka_table_dismiss_all_flushed(s) ==
  /\ pc[s] = "all_flush" /\ serving[s] = None
  /\ rkt' = rkt \ topics
  /\ running' = FALSE
  /\ Goto(s, "all_join")
  /\ UNCHANGED <<lockVars, tableVars, leaked, mem, name, owner, countVars,
                 queueVars, thread, module, callVars>>

(* The thread is left to itself (for the mutation of                       *)
(* tek_kafka_producer_join).                                               *)
tek_kafka_producer_detach(s) ==
  /\ pc[s] = "all_join"
  /\ Goto(s, "all_destroy")
  /\ UNCHANGED <<lockVars, tableVars, heapVars, countVars, queueVars,
                 pollVars, module, callVars>>

tek_kafka_producer_join(s) ==
  /\ pc[s] = "all_join" /\ thread = "exited"
  /\ thread' = "none"
  /\ Goto(s, "all_destroy")
  /\ UNCHANGED <<lockVars, tableVars, heapVars, countVars, queueVars,
                 running, module, callVars>>

(* rd_kafka_destroy() has served every outstanding report.                 *)
kafka_table_dismiss_all_done(s) ==
  /\ pc[s] = "all_destroy" /\ serving[s] = None
  /\ ~Busy
  /\ producer' = 0
  /\ FreeRecords(Disposed)
  /\ topics' = {} /\ retired' = {}
  /\ writer' = None
  /\ module' = IF module = "unloading" THEN "unloaded" ELSE module
  /\ Goto(s, "idle")
  /\ UNCHANGED <<readers, connects, leaked, name, owner, rkt, countVars,
                 queueVars, pollVars, callVars>>

-----------------------------------------------------------------------------
(***************************************************************************)
(* librdkafka.  A message leaves the queue acknowledged or failed (at the  *)
(* latest when message.timeout.ms expires, or when the producer is         *)
(* destroyed); its report then waits for a thread inside librdkafka.       *)
(***************************************************************************)
rd_kafka_resolve(m, result) ==
  /\ mstate[m] = "queued"
  /\ mstate' = [mstate EXCEPT ![m] = result]
  /\ UNCHANGED <<lockVars, tableVars, heapVars, countVars, opaque, serving,
                 pollVars, module, pc, callVars>>

(* No poll thread serves reports (for the mutation of InPoll).             *)
InPollUnattended(th) == th # Poll /\ pc[th] \in PollPCs

InPoll(th) == IF th = Poll THEN thread = "running" ELSE pc[th] \in PollPCs

rd_kafka_serve(th, m) ==
  /\ InPoll(th) /\ serving[th] = None
  /\ mstate[m] \in {"acked", "nacked"}
  /\ \A u \in Thread : serving[u] # m
  /\ serving' = [serving EXCEPT ![th] = m]
  /\ UNCHANGED <<lockVars, tableVars, heapVars, countVars, mstate, opaque,
                 pollVars, module, pc, callVars>>

FailedBy(m) == IF mstate[m] = "nacked" THEN 1 ELSE 0

(* An increment that is not atomic loses the update of another thread that *)
(* is at the same counter (for the mutation of TransferredBy).             *)
TransferredByRacing(m) ==
  IF mstate[m] = "acked"
     /\ ~ \E th \in Thread :
            serving[th] \notin {None, m} /\ opaque[serving[th]] = opaque[m]
  THEN 1 ELSE 0

TransferredBy(m) == IF mstate[m] = "acked" THEN 1 ELSE 0

(* dr_msg_cb() on the record the message names, and its return, at which   *)
(* librdkafka destroys the message.  The counters are uint32_t: the bound  *)
(* on Msg keeps them below 2^32.                                           *)
dr_msg_cb(th) ==
  /\ serving[th] # None
  /\ LET m == serving[th]
         r == opaque[m]
     IN /\ failed' = [failed EXCEPT ![r] = @ + FailedBy(m)]
        /\ transferred' = [transferred EXCEPT ![r] = @ + TransferredBy(m)]
        /\ mstate' = [mstate EXCEPT ![m] = "done"]
  /\ serving' = [serving EXCEPT ![th] = None]
  /\ UNCHANGED <<lockVars, tableVars, heapVars, opaque, pollVars, module, pc,
                 callVars>>

(* The compiler keeps `running` in a register (for the mutation of         *)
(* producer_thread_exit).                                                  *)
producer_thread_forever == FALSE /\ UNCHANGED vars

(* producer_thread() looks at tk->running between two polls.               *)
producer_thread_exit ==
  /\ thread = "running" /\ ~running /\ serving[Poll] = None
  /\ thread' = "exited"
  /\ UNCHANGED <<lockVars, tableVars, heapVars, countVars, queueVars,
                 running, module, pc, callVars>>

-----------------------------------------------------------------------------
(* A session starts, or ends, the use of a function.                       *)
Begin(s) ==
  \/ kafka_connect_init(s)
  \/ kafka_send_init(s)
  \/ kafka_send_deinit(s)
  \/ \E t \in Topic : kafka_table_exists(s, t)
  \/ \E t \in Topic, literal \in BOOLEAN : kafka_stats_init(s, t, literal)
  \/ \E t \in Topic : kafka_disconnect_topic(s, t)
  \/ kafka_disconnect(s)
  \/ kafka_module_unload(s)

(* A session goes on with the call it is in.                               *)
Continue(s) ==
  \/ kafka_table_connect(s)
  \/ kafka_table_connect_failed(s)
  \/ kafka_table_create_found(s)
  \/ \E r \in Record : kafka_table_create(s, r)
  \/ kafka_table_create_failed(s)
  \/ kafka_table_reap_retired_locked(s)
  \/ \E r \in Record : kafka_table_send(s, r)
  \/ kafka_table_send_unknown(s)
  \/ \E m \in Msg : tek_kafka_topic_feed(s, m)
  \/ tek_kafka_topic_feed_full(s)
  \/ tek_kafka_topic_feed_retry(s)
  \/ tek_kafka_topic_feed_error(s)
  \/ kafka_table_send_done(s)
  \/ kafka_send_return(s)
  \/ \E r \in Record : kafka_topic_get_stats(s, r)
  \/ kafka_topic_get_stats_unknown(s)
  \/ tek_kafka_topic_get_stats_flushed(s)
  \/ tek_kafka_topic_get_stats_transferred(s)
  \/ tek_kafka_topic_get_stats_failed(s)
  \/ kafka_stats_return(s)
  \/ \E r \in Record : kafka_table_dismiss(s, r)
  \/ kafka_table_dismiss_unknown(s)
  \/ kafka_table_dismiss_flushed(s)
  \/ kafka_table_remove_locked(s)
  \/ kafka_table_park(s)
  \/ kafka_table_dismiss_all(s)
  \/ kafka_table_dismiss_all_flushed(s)
  \/ tek_kafka_producer_join(s)
  \/ kafka_table_dismiss_all_done(s)

Resolve(m) == \E result \in {"acked", "nacked"} : rd_kafka_resolve(m, result)

Serve(th) == dr_msg_cb(th) \/ \E m \in Msg : rd_kafka_serve(th, m)

Next ==
  \/ \E s \in Session : Begin(s) \/ Continue(s)
  \/ \E m \in Msg : Resolve(m)
  \/ \E th \in Thread : Serve(th)
  \/ producer_thread_exit
  \/ kafka_module_load

Spec == Init /\ [][Next]_vars

(* Threads that run keep running; a call in progress goes on, taking the   *)
(* lock only if it stays available (PTHREAD_RWLOCK_INITIALIZER promises no *)
(* more: glibc prefers readers); librdkafka resolves every message.        *)
(* Nobody is obliged to start a call.                                      *)
Fairness ==
  /\ \A s \in Session : WF_vars(Continue(s)) /\ WF_vars(Serve(s))
  /\ WF_vars(Serve(Poll)) /\ WF_vars(producer_thread_exit)
  /\ \A m \in Msg : WF_vars(Resolve(m))

FairSpec == Spec /\ Fairness

(* More than the platform promises: a session that waits for the write     *)
(* lock gets it if the lock is free again and again.                       *)
PatientSpec == FairSpec /\ \A s \in Session : SF_vars(kafka_table_dismiss_all(s))

-----------------------------------------------------------------------------
(* The state space: every variable in its range.                           *)
TypeOK ==
  /\ writer \in Session \cup {None}
  /\ readers \in SUBSET Session
  /\ producer \in Nat /\ connects \in Nat
  /\ topics \in SUBSET Record /\ retired \in SUBSET Record
  /\ leaked \in SUBSET Record /\ rkt \in SUBSET Record
  /\ mem \in [Record -> {"unused", "allocated", "freed"}]
  /\ name \in [Record -> Topic \cup {None}]
  /\ owner \in [Record -> Nat]
  /\ transferred \in [Record -> Nat] /\ failed \in [Record -> Nat]
  /\ mstate \in [Msg -> {"unused", "queued", "acked", "nacked", "done"}]
  /\ opaque \in [Msg -> Record \cup {None}]
  /\ serving \in [Thread -> Msg \cup {None}]
  /\ thread \in {"none", "running", "exited"} /\ running \in BOOLEAN
  /\ module \in {"loaded", "unloading", "unloaded"}
  /\ pc \in [Session -> PCs]
  /\ arg \in [Session -> Topic \cup {None}]
  /\ tt \in [Session -> Record \cup {None}]
  /\ sent \in [Session -> SUBSET Msg]
  /\ stat \in [Session -> StatResult]

(* No delivery report can reach freed memory, whichever thread serves it   *)
(* and however late: a record named by a message that still awaits its     *)
(* report is allocated.  kafka_table_reap_retired_locked(),                *)
(* kafka_table_remove_locked() and kafka_table_dismiss_all() free only on  *)
(* the evidence of an empty queue or a destroyed producer.                 *)
NoUseAfterFree == \A m \in OutQ : mem[opaque[m]] = "allocated"

(* A session inside kafka_table_send() or kafka_topic_get_stats() works on *)
(* a record that is in the table, whose librdkafka handle is open, and     *)
(* whose borrowed producer pointer is the producer of the table.           *)
TopicInUseIsIntact ==
  \A s \in readers :
    /\ tt[s] \in topics \cap rkt
    /\ mem[tt[s]] = "allocated"
    /\ owner[tt[s]] = producer /\ producer # 0

(* Two sessions racing to send to the same new topic leave one record.     *)
OneRecordPerTopic ==
  \A r1, r2 \in topics : name[r1] = name[r2] => r1 = r2

(* What kafka_table_dismiss_all() leaves behind and in which order it      *)
(* goes: without a producer there is no topic, no parked record, no        *)
(* message, no poll thread; while rd_kafka_destroy() runs every topic      *)
(* handle is closed and the poll thread joined.                            *)
TeardownIsComplete ==
  /\ producer = 0 => /\ topics = {} /\ retired = {} /\ rkt = {}
                     /\ OutQ = {} /\ thread = "none"
  /\ \A s \in Session : pc[s] = "all_destroy" => rkt = {} /\ thread = "none"

(* The record that a dismissing session has taken out of the table.        *)
Parked == {tt[s] : s \in {u \in Session : pc[u] = "dismiss_park"}}

(* Every record is reachable from the table, was given up on a failed      *)
(* allocation, or has been freed; what a dismissing session has just taken *)
(* out is in its hands.                                                    *)
NoLeak ==
  {r \in Record : mem[r] = "allocated"} =
    topics \cup retired \cup leaked \cup Parked

(* A message is counted once, on the record that accepted it, also when    *)
(* that record has been dismissed since and the topic created again.       *)
CountedOnce ==
  \A r \in Record :
    transferred[r] + failed[r] + Cardinality(Accepted(r) \cap OutQ)
      = Cardinality(Accepted(r))

(* kafka_stats(): when its flush ended on an empty queue, the counters it  *)
(* returns account for everything the topic had accepted when it was asked *)
(* -- the two loads are not a snapshot, and senders go on meanwhile.       *)
StatsAccountForProduced ==
  \A s \in Session :
    pc[s] = "stats_done" /\ stat[s].drained
      => stat[s].transferred + stat[s].failed >= stat[s].asked

(* kafka_send() succeeds having queued one message, through however many   *)
(* retries on a full queue, and fails having queued none.                  *)
SendQueuesOne ==
  \A s \in Session :
    /\ pc[s] = "sent" => Cardinality(sent[s]) = 1
    /\ pc[s] = "send_failed" => sent[s] = {}

(* The library is unmapped with nothing left that could enter it: no       *)
(* thread, no report to serve, no session in a call.                       *)
UnloadIsSafe ==
  module = "unloaded" =>
    /\ thread = "none" /\ OutQ = {} /\ producer = 0
    /\ \A s \in Session : pc[s] = "idle"

(* Holding the write lock ends: the flush gives up, the poll thread sees   *)
(* `running` and exits, rd_kafka_destroy() runs out of reports.            *)
WriteLockReleased == \A s \in Session : writer = s ~> writer # s

(* Every message is eventually reported to the callback.                   *)
EveryMessageReported ==
  \A m \in Msg : mstate[m] = "queued" ~> mstate[m] = "done"

(* A sender that found the queue full leaves the produce loop once the     *)
(* other sessions stop producing.                                          *)
FullQueueSenderReturns ==
  \A s \in Session : pc[s] = "poll_full" ~> pc[s] \in {"sent", "send_failed"}

(* README.md:425-427: teardown waits for queued messages, one flush bounded *)
(* by KAFKA_FLUSH_TIMEOUT_MS.  So a session that asked for it comes to its *)
(* flush: the write lock goes to it or to another session that asked.      *)
(* Senders whose read locks overlap keep kafka_table_dismiss_all() out,    *)
(* even under PatientSpec.                                                 *)
TeardownReachesItsFlush ==
  \A s \in Session : pc[s] = "dismiss_all" ~> writer # None

(* kafka-engine.h:70-76: the callback runs on the poll thread while the    *)
(* producer is live, and on the disposing thread only after that thread    *)
(* has been joined; the two never overlap.                                 *)
CallbackOffPollThreadOnlyAfterJoin ==
  \A s \in Session :
    serving[s] # None => pc[s] = "all_destroy" /\ thread = "none"

-----------------------------------------------------------------------------
(* The record of an address, as TopicLifecycle sees it.                    *)
Life(r) ==
  IF mem[r] # "allocated" THEN mem[r]
  ELSE IF r \in rkt THEN "open" ELSE "closed"

Lifecycle == INSTANCE TopicLifecycle
               WITH life <- [r \in Record |-> Life(r)], pending <- OutQ

(* The table with its lock, its retired list and its test of the out queue *)
(* keeps the promise of TopicLifecycle.                                    *)
ImplementsTopicLifecycle == Lifecycle!Spec

Sets == INSTANCE RecordSets
  WITH inUse <- topics \cup Parked, retiredSet <- retired, givenUp <- leaked

(* kafka-table.c:78-131,491-536: whatever the sessions interleave, a       *)
(* record is in the table, parked or given up, in one of them only, and    *)
(* goes from none but to be freed: the promise the two arrays keep slot by *)
(* slot (PointerArray).                                                    *)
ImplementsRecordSets == Sets!Spec

(* What kafka_stats() would find in one of the counters, of the record     *)
(* that the lookup finds, and of a topic.                                  *)
CountIn(R, counter) == IF R = {} THEN 0 ELSE counter[CHOOSE r \in R : TRUE]

CountOf(t, counter) == CountIn(kafka_table_find_locked(t), counter)

(* The topic a message counts for.                                         *)
Home(m) == IF opaque[m] \in topics THEN name[opaque[m]] ELSE None

Service == INSTANCE TopicService
  WITH connected <- producer # 0,
       open <- {name[r] : r \in topics},
       fresh <- {m \in Msg : mstate[m] = "unused"},
       pending <- OutQ,
       home <- [m \in Msg |-> Home(m)],
       good <- [t \in Topic |-> CountOf(t, transferred)],
       bad <- [t \in Topic |-> CountOf(t, failed)]

(* README.md:443-444: the counters kafka_stats() returns account for what  *)
(* was produced.  With its lock taken and let go, its records dismissed,   *)
(* parked and freed while reports are still due, and a teardown in four    *)
(* steps, the table behaves as if every call took effect at once.          *)
ImplementsTopicService == Service!Spec
=============================================================================
