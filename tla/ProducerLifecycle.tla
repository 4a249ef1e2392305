-------------------------- MODULE ProducerLifecycle --------------------------
(***************************************************************************)
(* How kafka_table_connect() builds a producer and a teardown takes it     *)
(* apart (kafka-table.c, kafka-engine.c): every call of theirs that can    *)
(* fail is a step, and the poll thread runs beside them.  Calls that       *)
(* change the parameters are those of KafkaParams, and so is the promise:  *)
(* seen through Atomic, building a producer is one step.                   *)
(***************************************************************************)
EXTENDS Naturals, Sequences

CONSTANTS Session, Name, Value, Accepted, Setting, SettingOf, Default,
          Bootstrap, None    \* as in KafkaParams

VARIABLES
  params, pc, module,   \* as in KafkaParams
  holder, at,           \* who holds ktlock across steps, and where it is
  tk,                   \* the producer: its fields that are not zero
  list,                 \* the string tk->brokers points to
  published,            \* kt.producer # NULL
  next,                 \* which parameter kafka_table_connect() is at
  settings,             \* what the configuration object contains
  alive,                \* what is allocated, open or running
  thread                \* where the poll thread is

engine ==
  <<holder, at, tk, list, published, next, settings, alive, thread>>
outside == <<params, pc, module>>
built == <<list, published, next, settings>>
vars == <<outside, engine>>

Object == {"tk", "brokers", "conf", "rk", "thread"}

(* The fields of tek_kafka_t; "tk" is the record itself, so that {} is     *)
(* NULL and {"tk"} what memset() makes.                                    *)
Field == {"tk", "brokers", "conf", "rk", "running", "thread_started"}

ASSUME LifecycleAssumption ==
  /\ SettingOf \in [Name -> Setting]
  /\ Default \in [Setting -> Value]
  /\ Bootstrap \in Setting
  /\ None \notin Session \cup [Setting -> Value]

Unlocked == holder = None

Release == holder' = None /\ at' = "none"

-----------------------------------------------------------------------------
(***************************************************************************)
(* Building takes effect when kt.producer is set, unloading when the       *)
(* first critical section of kafka_table_shutdown() ends.                  *)
(***************************************************************************)
Atomic == INSTANCE KafkaParams
            WITH conf <- IF published THEN settings ELSE None,
                 brokers <- IF published THEN list ELSE None,
                 module <- IF module = "unloading" THEN "loaded"
                           ELSE IF module = "clearing" THEN "unloading"
                           ELSE module

Init ==
  /\ params = <<>> /\ pc = [s \in Session |-> "idle"] /\ module = "loaded"
  /\ holder = None /\ at = "none"
  /\ tk = {} /\ list = None /\ published = FALSE
  /\ next = 1 /\ settings = Default
  /\ alive = {} /\ thread = "none"

(* The calls that take and release the lock within a step.  A statement    *)
(* that is inside a critical section does not end.                         *)
Call(s) ==
  /\ UNCHANGED <<engine, module>>
  /\ \/ /\ Unlocked /\ module = "loaded"
        /\ \/ Atomic!kafka_connection_param_init(s)
           \/ Atomic!kafka_connect_init(s)
     \/ /\ Unlocked
        /\ \E n \in Name :
             \/ Atomic!kafka_table_unset_param(s, n)
             \/ \E v \in Value : Atomic!kafka_table_set_param(s, n, v)
     \/ holder # s /\ Atomic!deinit(s)

-----------------------------------------------------------------------------
(***************************************************************************)
(* kafka_table_connect().  The first malloc() failing leaves nothing       *)
(* behind and is no step; of strdup() and rd_kafka_conf_new() either may   *)
(* fail, and both are always tried.                                        *)
(***************************************************************************)
tek_kafka_producer_create(s, b, got) ==
  /\ pc[s] = "connect" /\ Unlocked
  /\ ~published
  /\ holder' = s
  /\ tk' = {"tk"} \cup got
  /\ list' = b
  /\ alive' = alive \cup {"tk"} \cup got
  /\ at' = IF got = {"brokers", "conf"} THEN "defaults" ELSE "dispose"
  /\ UNCHANGED <<outside, published, next, settings, thread>>

(* Whatever librdkafka took when a parameter was set, it may refuse now:   *)
(* any failure disposes what has been built.                               *)
kafka_conf_set_refused(s) ==
  /\ holder = s
  /\ at = "defaults" \/ (at = "params" /\ next \in DOMAIN params)
  /\ at' = "dispose"
  /\ UNCHANGED <<outside, holder, tk, built, alive, thread>>

kafka_conf_set_defaults(s) ==
  /\ holder = s /\ at = "defaults"
  /\ settings' = [Default EXCEPT ![Bootstrap] = list]
  /\ next' = 1
  /\ at' = "params"
  /\ UNCHANGED <<outside, holder, tk, list, published, alive, thread>>

(* The first value of a setting stands (for the mutation of Overridden).   *)
OverriddenOnce(p) ==
  IF settings[SettingOf[p.name]] # Default[SettingOf[p.name]] THEN settings
  ELSE [settings EXCEPT ![SettingOf[p.name]] = p.value]

(* One turn of the loop over kt.params.                                    *)
Overridden(p) == [settings EXCEPT ![SettingOf[p.name]] = p.value]

tek_kafka_producer_set_param(s) ==
  /\ holder = s /\ at = "params"
  /\ next \in DOMAIN params
  /\ <<params[next].name, params[next].value>> \in Accepted
  /\ settings' = Overridden(params[next])
  /\ next' = next + 1
  /\ UNCHANGED <<outside, holder, at, tk, list, published, alive, thread>>

(* The pointer to the configuration librdkafka took over stays (for the    *)
(* mutation of rd_kafka_new).                                              *)
rd_kafka_new_keeping(s) ==
  /\ holder = s /\ at = "params" /\ next > Len(params)
  /\ tk' = tk \cup {"rk", "running"}
  /\ alive' = alive \cup {"rk"}
  /\ at' = "thread"
  /\ UNCHANGED <<outside, holder, built, thread>>

(* tek_kafka_producer_run(): librdkafka takes the configuration over only  *)
(* when it succeeds.                                                       *)
rd_kafka_new(s) ==
  /\ holder = s /\ at = "params" /\ next > Len(params)
  /\ tk' = (tk \ {"conf"}) \cup {"rk", "running"}
  /\ alive' = alive \cup {"rk"}
  /\ at' = "thread"
  /\ UNCHANGED <<outside, holder, built, thread>>

rd_kafka_new_refused(s) ==
  /\ holder = s /\ at = "params" /\ next > Len(params)
  /\ tk' = tk \ {"conf"}
  /\ alive' = alive \ {"conf"}
  /\ at' = "dispose"
  /\ UNCHANGED <<outside, holder, built, thread>>

(* The poll thread runs, and the producer is published.                    *)
producer_thread_start(s) ==
  /\ holder = s /\ at = "thread"
  /\ thread' = "look"
  /\ alive' = alive \cup {"thread"}
  /\ tk' = tk \cup {"thread_started"}
  /\ published' = TRUE
  /\ Release
  /\ UNCHANGED <<outside, list, next, settings>>

(* thread_started is set before pthread_create() has succeeded (for the    *)
(* mutation of pthread_create_failed).                                     *)
pthread_create_failed_started(s) ==
  /\ holder = s /\ at = "thread"
  /\ tk' = (tk \ {"running"}) \cup {"thread_started"}
  /\ at' = "dispose"
  /\ UNCHANGED <<outside, holder, built, alive, thread>>

(* The failure is not returned (for the mutation of pthread_create_failed). *)
pthread_create_failed_unseen(s) ==
  /\ holder = s /\ at = "thread"
  /\ tk' = tk \ {"running"}
  /\ published' = TRUE
  /\ Release
  /\ UNCHANGED <<outside, list, next, settings, alive, thread>>

pthread_create_failed(s) ==
  /\ holder = s /\ at = "thread"
  /\ tk' = tk \ {"running"}
  /\ at' = "dispose"
  /\ UNCHANGED <<outside, holder, built, alive, thread>>

-----------------------------------------------------------------------------
(***************************************************************************)
(* kafka_table_dismiss_all(), from kafka_disconnect() or from the library  *)
(* destructor; the flush and the topics are KafkaTable's.                  *)
(***************************************************************************)
kafka_table_dismiss_all(s) ==
  /\ pc[s] = "idle" /\ module = "loaded" /\ Unlocked
  /\ published
  /\ holder' = s /\ at' = "dispose"
  /\ UNCHANGED <<outside, tk, built, alive, thread>>

kafka_module_unload(s) ==
  /\ module = "loaded" /\ \A u \in Session : pc[u] = "idle"
  /\ Unlocked
  /\ module' = "unloading"
  /\ holder' = s
  /\ at' = IF published THEN "dispose" ELSE "destroy"
  /\ UNCHANGED <<params, pc, tk, built, alive, thread>>

(* The poll thread is not told (for the mutation of                        *)
(* tek_kafka_producer_stop).                                               *)
tek_kafka_producer_stop_silently(s) ==
  /\ holder = s /\ at = "dispose"
  /\ at' = IF "thread_started" \in tk THEN "join" ELSE "destroy"
  /\ UNCHANGED <<outside, holder, tk, built, alive, thread>>

(* tek_kafka_producer_dispose(), which waits only for a thread that was    *)
(* started.                                                                *)
tek_kafka_producer_stop(s) ==
  /\ holder = s /\ at = "dispose"
  /\ tk' = tk \ {"running"}
  /\ at' = IF "thread_started" \in tk THEN "join" ELSE "destroy"
  /\ UNCHANGED <<outside, holder, built, alive, thread>>

(* Goes on without waiting (for the mutation of pthread_join).             *)
pthread_detach(s) ==
  /\ holder = s /\ at = "join"
  /\ tk' = tk \ {"thread_started"}
  /\ at' = "destroy"
  /\ UNCHANGED <<outside, holder, built, alive, thread>>

pthread_join(s) ==
  /\ holder = s /\ at = "join" /\ thread = "exited"
  /\ thread' = "none"
  /\ alive' = alive \ {"thread"}
  /\ tk' = tk \ {"thread_started"}
  /\ at' = "destroy"
  /\ UNCHANGED <<outside, holder, built>>

(* What the fields name is destroyed, the record last.  rd_kafka_destroy() *)
(* takes the configuration it took over with it.  A teardown sets          *)
(* kt.producer to NULL; a failed connect never had it set.                 *)
Named == (tk \cap Object) \cup IF "rk" \in tk THEN {"conf"} ELSE {}

tek_kafka_producer_dispose(s) ==
  /\ holder = s /\ at = "destroy"
  /\ alive' = alive \ Named
  /\ tk' = {} /\ list' = None
  /\ published' = FALSE
  /\ module' = IF module = "unloading" THEN "clearing" ELSE module
  /\ Release
  /\ UNCHANGED <<params, pc, next, settings, thread>>

(* The second critical section of kafka_table_shutdown(), and dlopen().    *)
kafka_table_clear_params_locked ==
  /\ module = "clearing" /\ Unlocked
  /\ params' = <<>>
  /\ module' = "unloaded"
  /\ UNCHANGED <<pc, engine>>

kafka_module_load ==
  /\ module = "unloaded"
  /\ module' = "loaded"
  /\ UNCHANGED <<params, pc, engine>>

-----------------------------------------------------------------------------
(* producer_thread(): it looks at tk->running between two polls.           *)
producer_thread_look ==
  /\ thread = "look"
  /\ thread' = IF "running" \in tk THEN "poll" ELSE "exited"
  /\ UNCHANGED <<outside, holder, at, tk, built, alive>>

producer_thread_poll ==
  /\ thread = "poll"
  /\ thread' = "look"
  /\ UNCHANGED <<outside, holder, at, tk, built, alive>>

-----------------------------------------------------------------------------
(* The holder of the lock goes on.                                         *)
Work(s) ==
  \/ kafka_conf_set_refused(s)
  \/ kafka_conf_set_defaults(s)
  \/ tek_kafka_producer_set_param(s)
  \/ rd_kafka_new(s)
  \/ rd_kafka_new_refused(s)
  \/ producer_thread_start(s)
  \/ pthread_create_failed(s)
  \/ tek_kafka_producer_stop(s)
  \/ pthread_join(s)
  \/ tek_kafka_producer_dispose(s)

Poll == producer_thread_look \/ producer_thread_poll

Next ==
  \/ \E s \in Session :
       \/ Call(s)
       \/ \E b \in Value, got \in SUBSET {"brokers", "conf"} :
            tek_kafka_producer_create(s, b, got)
       \/ kafka_table_dismiss_all(s)
       \/ kafka_module_unload(s)
       \/ Work(s)
  \/ kafka_table_clear_params_locked
  \/ kafka_module_load
  \/ Poll

Spec == Init /\ [][Next]_vars

(* Who holds the lock and the poll thread go on; nobody has to call.       *)
FairSpec == Spec /\ WF_vars(Poll) /\ \A s \in Session : WF_vars(Work(s))

-----------------------------------------------------------------------------
(* The state space: every variable in its range.                           *)
TypeOK ==
  /\ params \in Seq(Atomic!Param)
  /\ pc \in [Session -> {"idle", "param", "connect"}]
  /\ module \in {"loaded", "unloading", "clearing", "unloaded"}
  /\ holder \in Session \cup {None}
  /\ at \in {"none", "defaults", "params", "thread", "dispose", "join",
             "destroy"}
  /\ tk \in SUBSET Field
  /\ list \in Value \cup {None}
  /\ published \in BOOLEAN
  /\ next \in Nat \ {0}
  /\ settings \in [Setting -> Value]
  /\ alive \in SUBSET Object
  /\ thread \in {"none", "look", "poll", "exited"}

(* kafka-engine.c:215-222,286: whichever call failed, what was allocated   *)
(* is exactly what dispose() will find through the fields, and the         *)
(* configuration is not found twice: nothing is lost, destroyed twice or,  *)
(* like a thread that never started, waited for without being there.       *)
OneOwner ==
  /\ alive = Named \cup IF "thread_started" \in tk THEN {"thread"} ELSE {}
  /\ ~({"conf", "rk"} \subseteq tk)

(* kafka-engine.c:183-188: producer_thread() reads tk->running and polls   *)
(* tk->rk until it has seen running cleared; neither goes away before.     *)
PollThreadIsSafe ==
  thread \in {"look", "poll"} => {"tk", "rk", "conf"} \subseteq alive

(* kafka-table.c:292: a producer other sessions can see has a handle and   *)
(* a poll thread that goes on: they use tk->rk without asking.             *)
PublishedIsComplete ==
  published /\ Unlocked =>
    /\ {"tk", "rk", "running", "thread_started"} \subseteq tk
    /\ thread \in {"look", "poll"}

(* kafka-table.c:263,495: whichever call fails, and wherever the poll      *)
(* thread is, kafka_connect() and every teardown end and let the lock go.  *)
LockReleased == holder # None ~> holder = None

-----------------------------------------------------------------------------
(***************************************************************************)
(* The inductive invariant.  How far a connect or a teardown has come is   *)
(* visible in the producer it works on, and what it builds is what the     *)
(* parameters looked at so far make of the defaults (kafka-table.c:280).   *)
(***************************************************************************)
Before(k, x) == {i \in Atomic!Assigned(params, x) : i < k}

ConfiguredUpTo(k) ==
  [x \in Setting |->
     IF Before(k, x) # {} THEN params[Atomic!LastOf(Before(k, x))].value
     ELSE IF x = Bootstrap THEN list ELSE Default[x]]

Building ==
  /\ ~published /\ module = "loaded" /\ pc[holder] = "connect"
  /\ {"tk", "brokers"} \subseteq tk /\ "thread_started" \notin tk
  /\ list \in Value

TearingDown ==
  /\ published => "tk" \in tk
  /\ "tk" \notin tk => tk = {} /\ module = "unloading" /\ at = "destroy"
  /\ \/ module = "unloading"
     \/ /\ module = "loaded"
        /\ pc[holder] = IF published THEN "idle" ELSE "connect"
  /\ at # "dispose" => "running" \notin tk

StageInv ==
  /\ at = "none" <=> Unlocked
  /\ Unlocked /\ ~published => tk = {}
  /\ at \in {"defaults", "params", "thread"} => Building
  /\ at \in {"defaults", "params"} => "conf" \in tk /\ "running" \notin tk
  /\ at = "params" => /\ next <= Len(params) + 1
                      /\ settings = ConfiguredUpTo(next)
  /\ at = "thread" => /\ {"rk", "running"} \subseteq tk
                      /\ settings = Atomic!Configured(params, list)
  /\ at \in {"params", "thread"} =>
       \A i \in DOMAIN params :
         (at = "params" => i < next) =>
           <<params[i].name, params[i].value>> \in Accepted
  /\ at \in {"dispose", "join", "destroy"} => TearingDown
  /\ at = "join" => "thread_started" \in tk
  /\ at = "destroy" => "thread_started" \notin tk
  /\ module = "unloading" => at \in {"dispose", "join", "destroy"}
  /\ module # "loaded" => \A s \in Session : pc[s] = "idle"
  /\ module \in {"clearing", "unloaded"} => Unlocked /\ ~published

ThreadInv ==
  /\ thread # "none" <=> "thread_started" \in tk
  /\ "thread_started" \in tk => {"tk", "rk"} \subseteq tk
  /\ thread = "exited" => "running" \notin tk

IndInv ==
  TypeOK /\ StageInv /\ ThreadInv /\ OneOwner /\ PublishedIsComplete

(* Whatever fails, kafka_connect() is the one step of KafkaParams or none: *)
(* the loop over kt.params ends with the settings it promises, a failure   *)
(* leaves parameters and connection alone, a teardown clears both.         *)
ImplementsKafkaParams == Atomic!Spec
=============================================================================
