------------------------ MODULE KafkaTableInvariant ------------------------
(***************************************************************************)
(* What is true of KafkaTable between any two steps, strong enough to be   *)
(* preserved by every step: the inductive invariant from which the safety  *)
(* properties of the table follow (KafkaTableProofs).                      *)
(***************************************************************************)
EXTENDS KafkaTable

(* Positions at which a session holds a pointer to a record of the table,  *)
(* and those of kafka_table_dismiss_all() after the handles are destroyed. *)
InTablePCs  == ReadPCs \cup {"dismiss_flush", "dismiss_remove"}
TornDownPCs == {"all_join", "all_destroy"}
UnloadPCs   == {"dismiss_all", "all_flush", "all_join", "all_destroy"}

(* ktlock is held by those who are between taking and releasing it.        *)
LockInv ==
  /\ \A s \in Session : s \in readers <=> pc[s] \in ReadPCs
  /\ \A s \in Session : writer = s <=> pc[s] \in WritePCs
  /\ writer # None => readers = {}

(* A pointer held under the lock points into the table, and the one that   *)
(* kafka_table_remove_locked() has taken out points nowhere else.          *)
PointerInv ==
  /\ \A s \in Session : pc[s] \in InTablePCs => tt[s] \in topics
  /\ \A s \in Session : pc[s] = "dismiss_park" =>
       /\ tt[s] \in Record /\ mem[tt[s]] = "allocated"
       /\ tt[s] \notin topics \cup retired \cup leaked

(* Allocated records are in exactly one place, and a message names one.    *)
HeapInv ==
  /\ \A r \in topics \cup retired \cup leaked : mem[r] = "allocated"
  /\ \A r \in Record :
       mem[r] = "allocated" => r \in topics \cup retired \cup leaked \cup Parked
  /\ topics \cap retired = {} /\ topics \cap leaked = {}
  /\ retired \cap leaked = {}
  /\ \A m \in OutQ : opaque[m] \in Record /\ mem[opaque[m]] = "allocated"
  /\ \A m \in Msg : mstate[m] = "unused" => opaque[m] = None

(* A report is served by one thread, while librdkafka still counts it.     *)
ServeInv ==
  /\ \A th \in Thread :
       serving[th] # None => mstate[serving[th]] \in {"acked", "nacked"}
  /\ \A th, u \in Thread :
       serving[th] # None /\ serving[th] = serving[u] => th = u

(* What exists without a producer, and how far a teardown has come.        *)
ProducerInv ==
  /\ producer = 0 => topics = {} /\ retired = {} /\ OutQ = {} /\ thread = "none"
  /\ \A r \in topics : owner[r] = producer
  /\ rkt \subseteq topics
  /\ \A s \in Session : pc[s] \in TornDownPCs => rkt = {}
  /\ (\A s \in Session : pc[s] \notin TornDownPCs) => rkt = topics
  /\ \A s \in Session : pc[s] \in {"all_flush", "all_join"} => producer # 0
  /\ \A s \in Session : pc[s] = "all_destroy" => thread = "none"

(* The unload hook runs alone, and nothing runs after it.                  *)
ModuleInv ==
  /\ module = "unloading" =>
       \E s \in Session : /\ pc[s] \in UnloadPCs
                          /\ \A u \in Session \ {s} : pc[u] = "idle"
  /\ module = "unloaded" => producer = 0 /\ \A s \in Session : pc[s] = "idle"

(* The conjunction that every action of kafka-table.c and kafka-engine.c   *)
(* preserves: who holds the lock, what the pointers point to, where the    *)
(* records are, what a teardown has left.                                  *)
IndInv ==
  /\ TypeOK
  /\ LockInv /\ PointerInv /\ HeapInv /\ ServeInv /\ ProducerInv
  /\ OneRecordPerTopic
  /\ ModuleInv

-----------------------------------------------------------------------------
(* What a kafka_stats() in progress knows of its topic.                    *)
StatInv ==
  \A s \in Session :
    /\ pc[s] \notin {"stats_transferred", "stats_failed", "stats_done"} =>
         stat[s].drained = FALSE
    /\ pc[s] = "stats_flush" => stat[s].asked <= Cardinality(Accepted(tt[s]))
    /\ stat[s].drained /\ pc[s] = "stats_transferred" =>
         stat[s].asked <= transferred[tt[s]] + failed[tt[s]]
    /\ stat[s].drained /\ pc[s] = "stats_failed" =>
         stat[s].asked <= stat[s].transferred + failed[tt[s]]
    /\ stat[s].drained /\ pc[s] = "stats_done" =>
         stat[s].asked <= stat[s].transferred + stat[s].failed

(* A kafka_send() has queued its message when it leaves the produce loop.  *)
SendInv ==
  \A s \in Session :
    IF pc[s] \in {"poll_sent", "sent"} THEN \E m \in Msg : sent[s] = {m}
    ELSE sent[s] = {}

(* What the counters, kafka_stats() and kafka_send() add up to; inductive  *)
(* beside IndInv.                                                          *)
CountInv == CountedOnce /\ StatInv /\ SendInv
(* A topic in the table has a name; memory that no topic has used yet has  *)
(* counters of zero (memset() in tek_kafka_topic_init()), and no message   *)
(* names it.                                                               *)
CleanInv ==
  /\ \A r \in topics : name[r] \in Topic
  /\ \A r \in Record :
       mem[r] = "unused" => transferred[r] = 0 /\ failed[r] = 0
  /\ \A m \in Msg : opaque[m] # None => mem[opaque[m]] # "unused"

(* What a topic shows of itself when it is opened; inductive beside IndInv *)
OpenInv ==
  /\ \A s \in Session : pc[s] = "create" => arg[s] \in Topic
  /\ CleanInv
=============================================================================
