# TLA+ verification of TrigEmit-Kafka

TrigEmit-Kafka is a library of user-defined functions (UDFs) that MariaDB loads
into its server process so that SQL, typically a trigger, can publish to Kafka.
Every session of the server is a thread that may be inside the library at any
moment; librdkafka adds its own threads and calls back into the library. This
directory models that system in TLA+, checks it with TLC on small instances and
proves its main safety properties with TLAPS for every size.

Line numbers below refer to the repository's root (`kafka-table.c:113` and so on).

## Inventory

| Component | State it keeps | Operations | Modelled by |
|---|---|---|---|
| Topic table (`kafka-table.c`) | `ktlock`; `kt.producer`, `kt.topics`, `kt.retired` | exists, create, send, dismiss, dismiss_all, stats, shutdown | `KafkaTable`; slots and capacities in `PointerArray` |
| Connection parameters (`kafka-table.c`, `kafka-cmd-param.c`) | `kt.params` | validate, set, unset, apply at connect, clear | `KafkaParams` |
| Producer (`kafka-engine.c`) | `rk`, `conf`, `brokers`, poll thread, `running`, out queue | create, set_param, run, flush, dispose | `KafkaTable` once it runs, `ProducerLifecycle` from its first `malloc()` to its last `free()` |
| Topic record (`kafka-engine.c`) | `name`, `rkt`, borrowed `producer`, `transferred`, `failed` | create, feed, get_stats, dispose, free | `KafkaTable` |
| Delivery report callback (`dr_msg_cb`) | the counters of the record the message names | one call per message | `KafkaTable` |
| Delivery failure log | `last_err`, `last_log_time`, `suppressed` | failure, recovery, last word | `DeliveryLog` |
| UDFs (`kafka-cmd-*.c`) | nothing beyond a call | `_init`, call, `_deinit` | the session's position `pc[s]` |
| `kafka_info()` (`kafka-cmd-info.c`, `kafka-table.c`) | its result buffer `initid->ptr` | `_init`, get_brokers, describe_params, print, `_deinit` | `KafkaInfo` |
| Library load and unload | static data, destructor | `kafka_module_unload` | `KafkaTable`, `KafkaParams`, `ProducerLifecycle` |
| Build, packaging, SQL scripts, tests | | | not modelled, see below |

**Interaction.** UDFs call the table; the table holds `ktlock` and calls the
engine; the engine calls librdkafka. librdkafka calls `dr_msg_cb()` on whichever
thread is inside `rd_kafka_poll()`, `rd_kafka_flush()` or `rd_kafka_destroy()`:
the poll thread, a sender, a session asking for statistics, a session that
tears something down. The callback takes no lock. It reaches a topic record
through a pointer stored with the message, possibly long after the topic was
dismissed. This is what makes the program hard:

* *memory*: a record may be freed only when no message names it. The code
  decides this by looking at the length of librdkafka's queue under the write
  lock, and otherwise parks the record on `kt.retired`;
* *interleaving*: `kafka_send()` is three critical sections (exists, create,
  send), and every `_init()` looks at state that has changed by the time of the
  call;
* *order of teardown*: flush, close handles, stop and join the poll thread,
  destroy the producer, free records, and all that before the library is unmapped;
* *waiting*: flush, poll and join happen with the lock held;
* *partial failure*: building a producer is a dozen calls that can fail, and
  ownership of the configuration changes hands in the middle of them;
* *two looks*: `kafka_info()` takes the lock twice for one answer;
* *plain fields*: the throttle of the failure log is not synchronised.

**What makes each part correct.** The table: no access to freed memory, no lost
record, one record for each topic, nothing left after teardown, no slot outside
the memory written. The producer: whichever call fails, everything has one
owner; the poll thread ends before its producer does; every message is reported.
The counters: each message is counted once, on the record that accepted it. The
calls: a successful `kafka_send()` queued one message, `kafka_stats()` accounts
for what was produced. The parameters: a map from names to values, frozen while
connected and honoured by every producer. `kafka_info()`: one connection as long
as it is not ended between the two looks, in a text that fits. The failure log:
no failure forgotten and no change of state hidden, unless two visits of the
callback overlap. `PROJECT.json` lists every hazard with its line and the properties aimed
at it.

## Modules

| Module | What it is |
|---|---|
| `KafkaTable` | the table, the producer, the poll thread, the callback and the sessions |
| `TopicLifecycle` | abstract: the life of a topic record |
| `TopicService` | abstract: what SQL sees of topics, messages and counts, each call taking effect at one moment |
| `KafkaTableInvariant` | the inductive invariant of `KafkaTable` |
| `KafkaTableProofs`, `KafkaCountProofs`, `KafkaTableRefinement` | theorems about `KafkaTable` |
| `PointerArray` | the arrays `kt.topics` and `kt.retired`, slot by slot |
| `RecordSets` | abstract: the sets of records in use, retired and given up; implemented by `PointerArray` and by `KafkaTable` |
| `PointerArrayProofs` | theorems about it |
| `DeliveryLog` | the throttle of one topic record |
| `DeliveryLogProofs` | theorems about it |
| `KafkaParams` | the parameter array, each call one step |
| `ParamMap` | abstract: a map from names to values |
| `KafkaParamsProofs` | theorems about it |
| `ProducerLifecycle` | composes with `KafkaParams`: connect and teardown, call by call, beside the poll thread |
| `ProducerLifecycleProofs` | theorems about it |
| `KafkaInfo` | extends `KafkaParams`: `kafka_info()` beside its calls |
| `KafkaInfoProofs` | theorems about it |
| `MCKafkaTable`, `MCDeliveryLog`, `MCKafkaParams`, `MCProducerLifecycle`, `MCKafkaInfo`, `MCPointerArray` | model values for TLC |

Mutated forms of definitions stand beside the originals, each marked "for the
mutation of ...". Nothing in a specification uses them; `PROJECT.json` says
which property finds which of them.

### KafkaTable

A session runs one UDF at a time and `pc[s]` says where it is. A step is what
the code does between two points at which another thread can interfere: taking
or releasing the lock, reading the length of the out queue, entering or leaving
librdkafka. `ReadPCs` and `WritePCs` are the positions that hold the lock.

| TLA+ | Code |
|---|---|
| `kafka_connect_init`, `kafka_table_connect` | the look at `_init()` and the look again under the write lock |
| `kafka_table_exists`, `kafka_table_create*`, `kafka_table_send` | the three sections of `kafka_send()` |
| `tek_kafka_topic_feed*` | the produce loop, with its poll and retry on a full queue |
| `kafka_topic_get_stats`, `tek_kafka_topic_get_stats_*` | flush, then two separate atomic loads |
| `kafka_table_dismiss*`, `kafka_table_remove_locked`, `kafka_table_park` | `kafka_disconnect(topic)`: flush, remove, then free, park or leak |
| `kafka_table_reap_retired_locked` | the reap that ends create and dismiss and releases the lock |
| `kafka_table_dismiss_all*`, `tek_kafka_producer_join` | `kafka_disconnect()` and the unload hook |
| `rd_kafka_resolve`, `rd_kafka_serve`, `dr_msg_cb` | a message is delivered or fails; a thread inside librdkafka takes its report; the callback runs and returns |
| `producer_thread_exit` | the poll thread sees `running` cleared |

Three abstract specifications are implemented by this one. `TopicLifecycle` is
about memory (`Life` is the mapping). `RecordSets` is about where a record is:
what a dismissing session has in its hands (`Parked`) counts as in use until
`kafka_table_park()` decides about it. `TopicService` is about what SQL sees: a
topic opens when its record enters the table and closes when it leaves, a
message goes to an open topic and is reported once, `CountOf` is what
`kafka_stats()` would find, `Home` the topic a message counts for. A topic that
is dismissed and opened again starts at zero and is not charged for reports on
messages sent before; a connection ends with no message pending.

A record's address goes from `unused` to `allocated` to `freed` and is not used
again, so any later use of the old pointer is visible. `asked`, `drained`,
`sent` and `connects` are history or bounds, not variables of the program.

External facts the model rests on, none of them visible in this repository:
`rd_kafka_outq_len()` counts a message until its callback has returned;
`rd_kafka_destroy()` serves every outstanding report before it returns (the code
says so at `kafka-engine.c:276-280`); `dlclose()` runs only while no session is
in a function of the library. A produce call may be refused for any reason, an
allocation may fail wherever the code tests for it, and a flush may end with
messages still queued.

### DeliveryLog

One record and its throttle, one visit to the plain fields per step. `told`
counts the failures that the lines written so far account for, `line` is the
latest line. Any number of threads may be in the callback, as the code permits
(`table_callback`), although the comment at `kafka-engine.h:70-76` assumes one
at a time. The session that closes the record runs beside them. The clock goes
forward, and like any wall clock it may be set back.

The plain fields are right while visits to them follow one another, and may go
wrong when two overlap. The history `visits` says which of the two has been the
case: `serial` until the first overlap, then `overlap`, `alone` from the next
visit that begins when no other is under way, and `mended` once such a visit
has printed a line and stored the fields; a further overlap begins this again.
`missed` is by how much the account was wrong at that moment, one way or the
other. The properties hold when `InSync`, that is `serial` or `mended`: an
overlap may lose failures, count some twice and confuse the throttle, and one
line of a visit that has the record to itself puts everything right but for
what was miscounted by then.

### KafkaParams

No callback runs in these functions, so a critical section is one step. The
array is a sequence, searched, overwritten in place, extended, and shortened by
moving the last entry into the hole. `Configured` is what
`kafka_table_connect()` builds: the defaults, then the parameters in the order
of the array, the last assignment to a setting standing. `SettingOf` says which
librdkafka setting a name stands for; several names may share one. librdkafka
itself answers for `acks` with the name `request.required.acks`
(`README.md:328-330`). `Accepted` is what `rd_kafka_conf_set()` takes. Failing
for want of memory, or in `rd_kafka_new()`, leaves everything as it was and is
no step at all; that this is true of the code is what `ProducerLifecycle` shows.

### ProducerLifecycle

What `KafkaParams` has as one step, here step by step: `holder` is the session
that keeps `ktlock` across them, `at` where it is. `tk` is the set of fields of
`tek_kafka_t` that are not zero and `alive` the set of things that exist, so
that "dispose frees what is ours" is a relation between the two.

| TLA+ | Code |
|---|---|
| `tek_kafka_producer_create` | `malloc()`, `strdup()`, `rd_kafka_conf_new()`; `got` says which of the last two succeeded |
| `kafka_conf_set_defaults`, `tek_kafka_producer_set_param` | the six defaults; one turn of the loop at `kafka-table.c:280` |
| `kafka_conf_set_refused` | any `rd_kafka_conf_set()` failing, defaults and parameters alike |
| `rd_kafka_new`, `rd_kafka_new_refused` | the configuration changes hands on success only |
| `producer_thread_start`, `pthread_create_failed` | `pthread_create()`, and `kt.producer = tk` on success |
| `tek_kafka_producer_stop`, `pthread_join`, `tek_kafka_producer_dispose` | dispose, from a failed connect and from a teardown alike |
| `producer_thread_look`, `producer_thread_poll` | the loop of the poll thread |
| `kafka_table_dismiss_all`, `kafka_module_unload`, `kafka_table_clear_params_locked` | the three who tear down; the two sections of `kafka_table_shutdown()` |

The calls about parameters are those of `KafkaParams`, taken over through the
instance `Atomic`. The refinement mapping of that instance is also the promise:
with "connected" meaning that `kt.producer` is set, every step here is one of
`KafkaParams` or none, `ImplementsKafkaParams`.

### KafkaInfo

Extends `KafkaParams` with sessions that call `kafka_info()`: a look at the
brokers, then a walk over the array that keeps the read lock (so no call that
changes parameters or connection is taken while a session is in the loop), then
the printing. A text is its length: `LineLen` and `HeadLen` are arbitrary, `Digits` is what the
count prints as, and `Stored` is `snprintf()`, which returns what it would have
written and writes what fits. It may also fail, which ends the loop
(`describe_failed`) or leaves a result of length 0 (`kafka_info_unprinted`).
`buflen - used` is computed modulo `SizeMod`, as `size_t` is: were
the loop to go on with `used` past the end, `Room` would be huge.

`kafka_info()` shows the argument of `kafka_connect()` as "Brokers:", also when
a parameter that names `bootstrap.servers` has replaced it, and it may show the
brokers of a connection together with parameters changed after that connection
ended between its two looks, those of the next connection among them.
`InfoIsConsistent` says that such a disconnect is the only way the two can
disagree.

### PointerArray

Each of the two arrays is what `realloc()` gave (`slot`), what the table
believes it has (`capacity`) and what it uses (`count`). `kafka_table_grow()`
doubles in `size_t` and fails when `realloc()` does: `MayGrow` leaves
`realloc()` no more than `PtrMax` bytes, as glibc does with `PTRDIFF_MAX`, and
it may fail at any size. A reap keeps the memory, a teardown drops it, a failed
create leaves the grown array behind. Everything runs under the write lock, so
one action is one call. `stray` records a write to a slot that is not there.
When a message is in flight is `KafkaTable`'s question; here it is a choice.

## Runs

| Run | Instance | Shows |
|---|---|---|
| `table_core` | 2 sessions, 1 topic, 2 records, 3 messages, 2 connections, queue of 2 | no use after free, no leak, complete teardown, safe unload; the inductive invariant of the counts; each message counted once; a successful `kafka_send()` queued exactly one message; `kafka_stats()` accounts for what was produced when its flush drained the queue; implements `TopicLifecycle` |
| `table_sessions` | 3 sessions, 2 topics, 2 records, 1 message, 2 connections | the inductive invariant; a topic in use stays intact; one record per topic; implements `RecordSets` and `TopicService` |
| `table_live` | 2 sessions, 2 messages, queue of 1 | the write lock is released, every message is reported, a sender leaves the full-queue loop |
| `table_starve` | 3 sessions | *violation*: teardown may wait for ever for the write lock |
| `table_callback` | 2 sessions | *violation*: the callback runs off the poll thread while that thread lives |
| `log_serial` | 2 threads, 2 errors, 4 reports, interval of 2, 2 ticks, a clock that may be set back | until two visits of the callback overlap, and again after the first line of a visit of its own, the throttle loses nothing, hides no change of state and holds back exactly the young repeats |
| `log_spacing` | 1 thread, 2 errors, 5 reports, interval of 2, 5 ticks | *violation*: one error printed twice within the interval |
| `log_last_word` | as `log_spacing` | *violation*: failures lost with the record |
| `params_map` | 2 sessions, one of them calling `kafka_info()`; 3 names (2 of one setting), 2 values; buffers of 5 and 10 | the array stays a map, is frozen while connected, implements `ParamMap`; removing a parameter changes another setting only through an alias, and to what; `kafka_info()` shows one connection unless it ended between the looks, and exactly the list that fits, inside its buffers |
| `params_order` | 2 sessions, 3 names (2 of one setting), 2 values | *violation*: removing one parameter changes another setting |
| `producer_lifecycle` | 2 sessions, 3 names (2 of one setting, 1 the broker list), 2 values | one owner for everything, the poll thread never outlives its producer, a published producer is whole, the lock is released, implements `KafkaParams` |
| `pointer_array` | 5 records, 1 initial slot of 2 bytes, 15 bytes of memory, `size_t` of 5 bits | slots and capacities agree, nothing outside the memory is written, implements `RecordSets` |

**Bounds.** Two sessions are the fewest that race, three are needed for two
readers that overlap while a third waits to write, and for two creators beside
a session that dismisses. Two records let a topic be dismissed with a message
in flight and created again; three messages put one on each record and one
more behind them. `MaxConnects` of 2 covers a reconnect, and would show a second producer put in
the place of the first. A queue of 2 holds the
reports of two records side by side and is full for the third message. Three
names give an alias pair and the broker list, which can stand before, between
or behind the pair and be removed there. One line
of `kafka_info()` fits its buffer, two fill it exactly or are cut, a third must
not be tried; under the long head the result is cut, under the others not. In
`producer_lifecycle` one value is refused by librdkafka, and any number of
connects, failures, teardowns and reloads may follow each other. Five records
make an array grow from 1 to 2 and 4 slots and fail to reach 8, with some of
them parked or leaked. Of four reports in `log_serial` two may overlap, a third print a line of its
own and a fourth be held back or not by what that left; or all four follow one
another: a failure, a repeat, another kind, a recovery. Two ticks reach the end
of the interval exactly, and the clock can be set back from each. The two runs
that look for a counterexample in the log have one thread, so that the
counterexample owes nothing to an overlap. The proofs below do not depend on any of these. `table_core`,
`table_sessions`, `log_serial` and `pointer_array` use symmetry between the elements of each set, which is sound
because nothing in the model or in the properties tells two elements apart;
the runs under fairness do not use it.

The model has no deadlock in any run, so TLC's deadlock check is left on
everywhere: a session may always begin, the clock's bound leaves the record's
life going round, and a set parameter can be set again.

**Fairness.** `FairSpec` says that threads which run keep running: a session in
a call goes on (`WF` on `Continue(s)` and `Serve(s)`), the poll thread serves
and looks at `running`, and librdkafka resolves every message, at the latest
when `message.timeout.ms` expires. In `ProducerLifecycle` the holder of the
lock (`Work`) and the poll thread (`Poll`) go on; one call may fail or succeed
each time. No session is obliged to start a call. The
lock promises no more than weak fairness: `PTHREAD_RWLOCK_INITIALIZER` of glibc
prefers readers. `PatientSpec`, used only by `table_starve`, grants
`kafka_table_dismiss_all()` the lock if it is free again and again, so that the
counterexample rests on overlapping readers alone.

## Where the code and its documents disagree

* **Teardown is not bounded by the flush timeout** (`table_starve`). It first
  waits for the write lock, which overlapping readers may keep for ever.
  `README.md:425-427` and `config.h.in:48-50` promise a bound.
* **The callback overlaps** (`table_callback`). `kafka-engine.h:70-76` says it
  runs on the poll thread until that thread is joined; senders, statistics and
  flushes run it too. The fields of the throttle are then raced for: in
  `DeliveryLog` two visits that overlap can leave `told + suppressed` short of
  the failures received, that is, held back failures are dropped, which
  `config.h.in:44-45` excludes. What `log_serial` and the proofs show is how
  long the damage lasts: until the next line of a visit of its own.
* **The interval is not the shortest between equal lines** (`log_spacing`), as
  `config.h.in:41-42` has it: a success or another error in between defeats it.
* **The last word is not the last** (`log_last_word`): reports still come after
  `tek_kafka_topic_dispose()` spoke, and `kafka-engine.c:344-345` wants them not
  lost.
* **The order of parameters is significant** (`params_order`) when two names
  stand for one setting, whatever `kafka-table.c:577` says.

One more is a matter of comments only: `kafka-cmd-disconnect.c:35-36` says that a
disconnect clears the parameters. The code keeps them, as `README.md:412-418` and
`kafka-table.c:533-537` say.

## Proofs

Theorems hold for all finite or infinite sets of sessions, topics, records and
names, under the named assumptions on constants only: `TableAssumption`
(`None` and `Poll` are distinct from what they are mixed with, messages are
finitely many, the queue holds at least one), `DeliveryLogAssumption`,
`ParamsAssumption`, `LifecycleAssumption`, `InfoAssumption` (lengths are natural
numbers, `size_t` is wider than the buffer) and `ArrayAssumption` (`size_t`
counts more than twice the bytes `realloc()` ever gives).

**The table** (`KafkaTableProofs`). No safety property of the table is
inductive by itself. `IndInv` adds what makes them so:

* `LockInv`: the holders of the lock are exactly the sessions at `ReadPCs` and
  `WritePCs`, and a writer excludes readers;
* `PointerInv`: a pointer held under the lock is in the table, and the pointer
  of a session that is removing a record is nowhere else;
* `HeapInv`: an allocated record is in the table, parked, leaked on purpose or
  in the hands of one session, and a message that awaits its report names an
  allocated record;
* `ServeInv`: a report is served by one thread, and counted until it returns;
* `ProducerInv`: without a producer there is nothing, and how far a teardown
  has come is visible in the handles and the poll thread;
* `ModuleInv`: the unload hook runs alone.

`Invariance` shows that `Init` establishes it and that every action preserves
it, one step of the proof for each action. `NeverUseAfterFree`, `NeverLeaks`,
`TopicInUseStaysIntact`, `OneRecordForEachTopic`, `TeardownLeavesNothing`,
`UnloadLeavesNothing` and `TypeCorrect` are its consequences. The heart is
`HeapInv`: freeing rests on `Busy`, the length of the queue read under the
write lock, when no sender can add to it and a report that is being served
still counts.

`KafkaTableRefinement` proves the three refinements, step by step:

* `TableImplementsLifecycle`: with the mapping `Life` every step of the table is
  one step of `TopicLifecycle` or none.
* `TableImplementsRecordSets`: likewise for `RecordSets`. The write lock makes
  the record that is being removed the only one (`OneWriter`, `NobodyParks`), so
  it goes from the table through one session's hands to one place.
* `TableImplementsService`: the steps that SQL can see are the connect, the
  insert of a new record, the accepted message, the report, the removal and the
  end of a teardown (`OtherStepsAreQuiet`), each the one of `TopicService`. It
  needs `OpenInv` beside `IndInv`: memory no topic has used yet has counters of
  zero and no message that names it, so a topic opens at zero; and
  `OneRecordPerTopic`, so that a lookup finds one record (`FoundOnce`) and a
  report shows in one count (`OneMore`). TLC checked `OpenInv` on the instance of
  `table_sessions` before it was proved.

**The counts** (`KafkaCountProofs`). `CountInv` stands beside `IndInv`:
`CountedOnce` itself; `StatInv`, which follows a `kafka_stats()` through its
flush and its two loads (what it asked about is covered by the counters it has
read and those it has still to read); and `SendInv`, that a sender past the
produce loop has queued one message. `CountedOnce` is preserved because a report
is served by one thread (`ServeInv`) and a record's address is not reused, so a
report moves one message from pending to counted: an argument about
cardinalities, with the theorems of `FiniteSetTheorems` about adding and removing
one element. The loads of `kafka_stats()` rest on the counters never going down
and on the record staying in the table under the read lock.

**The slots** (`PointerArrayProofs`). `GrowsExactly` is the arithmetic: as long
as an array's bytes are what `realloc()` gave, twice as many cannot wrap in
`size_t`, so the capacity is always the memory. The code has no test for that
overflow and needs none. `AppendAdds` and `WithoutRemoves` say what the two
writes do to the set an array holds; `ArraysImplementSets` follows.

**The failure log** (`DeliveryLogProofs`). The theorems hold for any set of
threads. `VisitsInv` says that unless `visits` is `overlap` at most one thread is
in the callback, so each visit sees the fields as the one before left them
(`OthersIdle`). `AloneInv` is what such a visit knows; `FieldsInv` ties the C
fields to the latest line except between a line and the assignments that follow
it; `AccountInv` says where each failure is at each position of the callback.
`ReportIndInv` is the moment a report comes in, when all of this may cease to
hold; `StoreIndInv` the assignments after a line, which bring it back.

**The parameters** (`KafkaParamsProofs`). `IndInv` is made of the properties
themselves. `ReplaceKeeps`, `AppendKeeps` and `WithoutKeeps` state the three
ways the array changes; `ParamsImplementMap` is the refinement of `ParamMap`.
Which of several entries for a setting takes effect is the last one, and that
there is a last one is an induction over the array's length: the library's
induction theorems cannot be instantiated by the provers, but an induction
over a *set* of numbers can be stated and proved from the least element of its
complement (`NatLeast`, `NatSetInduction`), and `GreatestExists` follows.

`OrderMattersToAliasesOnly` is the other side of the run `params_order`. It
assumes nothing of the names: when an entry is removed, every other setting of
the next producer stays as it was, except where the last entry, which moves
into the hole, gave the setting its value and an alias of it stands between the
hole and the end; then the last such alias takes effect
(`RemovalYieldsToAliases`). So the comment at `kafka-table.c:577` is right where
no such alias stands, and wrong wherever one stands with another value.
`FillingYields` has the comparison of the two arrays.

**The producer** (`ProducerLifecycleProofs`). `StageInv` says what each position
of a connect or teardown implies about the fields of `tk`, `ThreadInv` what
`thread_started` says about the thread; with `OneOwner` they are inductive. The
heart is the loop over the parameters: at turn `next` the settings are
`ConfiguredUpTo(next)`, an assignment by an assignment (`ConfiguredStep`), and at
its end `Configured`, which is the refinement's step (`LifecycleImplementsParams`).
`LifecycleImplementsMap` chains it with the refinement of `ParamMap`, and
`PublishedIsConfigured` says what it comes to: the settings of a producer others
can reach are those the whole list asks for. Both assume `ParamsAssumption` of
`KafkaParams` for the constants they share.

**`kafka_info()`** (`KafkaInfoProofs`). `InfoRefinesParams` says that the
parameters and the connection move as they do without it, so that `IndInv` of
`KafkaParams` is available. `InfoInv` follows the loop (`LoopOK`); `LineFits` is
its one turn, with the subtraction in `size_t`. `ConnectedStaysPut`, that no call changes what is shown
while the connection lasts, gives `InfoStaysConsistent`.

`InfoIsWhatFits` is functional correctness: `LoopOK` says that at every turn
`used` is the length of the lines passed (`LengthUpTo`) and `params[]` holds what
fits of them. When the loop stops early the buffer is full; the lengths only grow
(`LengthUpToGrows`, by `NatSetInduction`), so what fits of the first lines is what
fits of all of them (`LoopEnds`). `InfoChangesNothing` says that with
`kafka_info()` the module still behaves as `KafkaParams`, and `InfoKeepsParams`
draws the conclusions.

**Only model-checked**: everything under fairness (`WriteLockReleased`,
`LockReleased`, `EveryMessageReported`, `FullQueueSenderReturns`), liveness and
`ENABLED` being out of the prover's reach. Every safety property and every
refinement that a passing run checks is proved as well. That TLC finds no
deadlock is checked and not proved.

## Not modelled, and why

* Argument checks of the UDFs end a call before it touches shared state: a row
  of `kafka_send()` they refuse is no step, and a topic name `kafka_stats()`
  refuses is looked up as the empty name, which no topic has.
  Lengths, text and coding of names, values and results are abstract, the
  lengths in `kafka_info()` apart.
* `kafka_table_grow()` for `kt.params`: it is the same function; the array is a
  sequence in `KafkaParams`, and `PointerArray` has the two arrays of records.
* A report without a record (`kafka-engine.c:71`): every produce names one.
* The counters are naturals; what a counter that wrapped at 2^32 means, nothing
  in the repository says.
* Time has no length in `KafkaTable`: a flush may end at any moment, so that
  everything shown holds for every timeout, and no bound in seconds is shown.
* Build files, packaging, SQL scripts and the test suite.

## Plan

Done: the core (`KafkaTable`, its invariant, proofs and refinement),
`DeliveryLog` and `KafkaParams` with their proofs, then `ProducerLifecycle`,
`KafkaInfo`, `PointerArray` with `RecordSets`, the proofs about counting,
`TopicService`, and `RecordSets` as what `PointerArray` and `KafkaTable` have in
common.

Left, in this order:

1. `TeardownTime`: a clock for the flush, the join and the destroy, to say how
   long a holder of the write lock keeps it.
2. What a call returns in `TopicService`: `StatsAccountForProduced` and
   `SendQueuesOne` stated of the service's answers.
