----------------------------- MODULE DeliveryLog -----------------------------
(***************************************************************************)
(* The delivery failure log of one topic record (kafka-engine.c): what     *)
(* dr_msg_cb() prints, what the throttle holds back, and the last word of  *)
(* tek_kafka_topic_dispose().                                              *)
(*                                                                         *)
(* The fields last_err, last_log_time and suppressed are plain C fields.   *)
(* A step is one visit to them, so that threads serving reports at the     *)
(* same time interleave between the visits; the race has more outcomes     *)
(* than these in C, never fewer.                                           *)
(***************************************************************************)
EXTENDS Integers

CONSTANTS
  Thread,       \* threads that run the callback for this record
  Err,          \* error codes of a failed delivery
  NoError,      \* RD_KAFKA_RESP_ERR_NO_ERROR
  Interval,     \* KAFKA_ERROR_LOG_INTERVAL_S
  MaxTime,      \* bound: how far the clock goes
  MaxReports    \* bound: how many reports one record receives

ASSUME DeliveryLogAssumption ==
  /\ NoError \notin Err
  /\ Interval \in Nat \ {0}
  /\ MaxTime \in Nat /\ MaxReports \in Nat

VARIABLES
  now,                                  \* time(NULL)
  last_err, last_log_time, suppressed,  \* tt
  life,         \* of the record: "none", "live", "closing", "closed"
  pc,           \* per thread: where it is in the callback
  err,          \* per thread: rkmessage->err
  at,           \* per thread: `now` of log_delivery_failure()
  seen,         \* per thread: the value of suppressed it is incrementing
  reports,      \* how many reports the record has received
  failures,     \* history: how many of them were failures
  told,         \* history: how many failures the lines so far account for
  latest,       \* history: the result of the latest report
  line,         \* history: the latest line about this record
  lineAt,       \* history: when each error was last printed
  visits,       \* history: how the visits of the callback met, see below
  missed        \* history: by how much an overlap left the count wrong

throttle == <<last_err, last_log_time, suppressed>>
local    == <<err, at, seen>>
heard    == <<reports, failures, latest>>
written  == <<told, line, lineAt>>
meeting  == <<visits, missed>>
vars == <<now, throttle, life, pc, local, heard, written, meeting>>

Result == Err \cup {NoError}
Long == 0 - Interval           \* so long ago that it does not matter
NoLine == [err |-> NoError, at |-> Long]
Line == [err : Result, at : Int]

(* librdkafka serves reports on whatever thread polls, flushes or destroys *)
(* the handle, so visits to a record may overlap and the plain fields go   *)
(* wrong.  "serial": none has overlapped another since the record was      *)
(* created; "overlap": two have; "alone": since then one began when no     *)
(* other was under way; "mended": such a visit has printed a line and      *)
(* stored the fields.                                                      *)
Visits == {"serial", "overlap", "alone", "mended"}
InSync == visits \in {"serial", "mended"}

Idle == \A th \in Thread : pc[th] = "idle"

(* A visit that had the record to itself stored what its line says.        *)
Mend ==
  /\ visits' = IF visits = "alone" THEN "mended" ELSE visits
  /\ missed' = IF visits = "alone" THEN failures - told ELSE missed

Goto(th, label) == pc' = [pc EXCEPT ![th] = label]

-----------------------------------------------------------------------------
Init ==
  /\ now = 0
  /\ last_err = NoError /\ last_log_time = 0 /\ suppressed = 0
  /\ life = "none"
  /\ pc = [th \in Thread |-> "idle"]
  /\ err = [th \in Thread |-> NoError]
  /\ at = [th \in Thread |-> 0]
  /\ seen = [th \in Thread |-> 0]
  /\ reports = 0 /\ failures = 0 /\ latest = NoError
  /\ told = 0 /\ line = NoLine /\ lineAt = [e \in Err |-> Long]
  /\ visits = "serial" /\ missed = 0

Tick ==
  /\ now < MaxTime
  /\ now' = now + 1
  /\ UNCHANGED <<throttle, life, pc, local, heard, written, meeting>>

(* time() is the wall clock, which may be set back.                        *)
SetBack ==
  /\ \E t \in 0..MaxTime : t < now /\ now' = t
  /\ UNCHANGED <<throttle, life, pc, local, heard, written, meeting>>

(* memset() gives a new record an empty throttle.                          *)
tek_kafka_topic_create ==
  /\ life = "none"
  /\ life' = "live"
  /\ last_err' = NoError /\ last_log_time' = 0 /\ suppressed' = 0
  /\ reports' = 0 /\ failures' = 0 /\ latest' = NoError
  /\ told' = 0 /\ line' = NoLine /\ lineAt' = [e \in Err |-> Long]
  /\ visits' = "serial" /\ missed' = 0
  /\ UNCHANGED <<now, pc, local>>

(* A report reaches dr_msg_cb().  Records that are closed still get them:  *)
(* a retired record, or any record while rd_kafka_destroy() runs.  A freed *)
(* one gets none.                                                          *)
dr_msg_cb(th, e) ==
  /\ life # "none" /\ pc[th] = "idle"
  /\ reports < MaxReports
  /\ reports' = reports + 1
  /\ failures' = IF e = NoError THEN failures ELSE failures + 1
  /\ latest' = e
  /\ err' = [err EXCEPT ![th] = e]
  /\ at' = [at EXCEPT ![th] = now]
  /\ Goto(th, IF e = NoError THEN "delivered" ELSE "failed")
  /\ visits' = IF ~Idle THEN "overlap"
               ELSE IF visits = "overlap" THEN "alone" ELSE visits
  /\ UNCHANGED <<now, throttle, life, seen, written, missed>>

(* Forgets to compare the error (for the mutation of Throttled).           *)
ThrottledWhatever(th) ==
  last_err # NoError /\ at[th] - last_log_time < Interval

(* Holds back one tick longer (for the mutation of Throttled).             *)
ThrottledLonger(th) ==
  err[th] = last_err /\ at[th] - last_log_time <= Interval

(* A repeat of the last error, and its line is young.                      *)
Throttled(th) == err[th] = last_err /\ at[th] - last_log_time < Interval

log_delivery_failure(th) ==
  /\ pc[th] = "failed"
  /\ Goto(th, IF Throttled(th) THEN "suppress" ELSE "print")
  /\ UNCHANGED <<now, throttle, life, local, heard, written, meeting>>

(* tt->suppressed++ is a load and a store.                                 *)
suppressed_load(th) ==
  /\ pc[th] = "suppress"
  /\ seen' = [seen EXCEPT ![th] = suppressed]
  /\ Goto(th, "increment")
  /\ UNCHANGED <<now, throttle, life, err, at, heard, written, meeting>>

suppressed_store(th) ==
  /\ pc[th] = "increment"
  /\ suppressed' = seen[th] + 1
  /\ Goto(th, "idle")
  /\ UNCHANGED <<now, last_err, last_log_time, life, local, heard, written,
                 meeting>>

(* The line names this failure and counts those held back before it.       *)
log_delivery_failure_print(th) ==
  /\ pc[th] = "print"
  /\ told' = told + suppressed + 1
  /\ line' = [err |-> err[th], at |-> at[th]]
  /\ lineAt' = [lineAt EXCEPT ![err[th]] = at[th]]
  /\ Goto(th, "printed")
  /\ UNCHANGED <<now, throttle, life, local, heard, meeting>>

(* The held back failures are told once more with the next line (for the   *)
(* mutation of log_delivery_failure_store).                                *)
log_delivery_failure_store_no_reset(th) ==
  /\ pc[th] = "printed"
  /\ last_err' = err[th]
  /\ last_log_time' = at[th]
  /\ Goto(th, "idle")
  /\ Mend
  /\ UNCHANGED <<now, suppressed, life, local, heard, written>>

log_delivery_failure_store(th) ==
  /\ pc[th] = "printed"
  /\ last_err' = err[th]
  /\ last_log_time' = at[th]
  /\ suppressed' = 0
  /\ Goto(th, "idle")
  /\ Mend
  /\ UNCHANGED <<now, life, local, heard, written>>

(* A success is worth a line only after a failure.                         *)
log_delivery_recovered(th) ==
  /\ pc[th] = "delivered"
  /\ IF last_err = NoError
     THEN Goto(th, "idle") /\ UNCHANGED <<told, line>>
     ELSE /\ told' = told + suppressed
          /\ line' = [err |-> NoError, at |-> at[th]]
          /\ Goto(th, "recovered")
  /\ UNCHANGED <<now, throttle, life, local, heard, lineAt, meeting>>

log_delivery_recovered_store(th) ==
  /\ pc[th] = "recovered"
  /\ last_err' = NoError /\ last_log_time' = 0 /\ suppressed' = 0
  /\ Goto(th, "idle")
  /\ Mend
  /\ UNCHANGED <<now, life, local, heard, written>>

-----------------------------------------------------------------------------
(* The session that takes the record out of the table prints what is held  *)
(* back and clears it, beside whoever serves reports meanwhile.            *)
tek_kafka_topic_dispose ==
  /\ life = "live"
  /\ IF suppressed > 0
     THEN life' = "closing" /\ told' = told + suppressed
     ELSE life' = "closed" /\ UNCHANGED told
  /\ UNCHANGED <<now, throttle, pc, local, heard, line, lineAt, meeting>>

tek_kafka_topic_dispose_clear ==
  /\ life = "closing"
  /\ suppressed' = 0
  /\ life' = "closed"
  /\ UNCHANGED <<now, last_err, last_log_time, pc, local, heard, written,
                 meeting>>

(* No report is outstanding any more: NoUseAfterFree of KafkaTable.        *)
tek_kafka_topic_free ==
  /\ life = "closed" /\ Idle
  /\ life' = "none"
  /\ UNCHANGED <<now, throttle, pc, local, heard, written, meeting>>

-----------------------------------------------------------------------------
Callback(th) ==
  \/ \E e \in Result : dr_msg_cb(th, e)
  \/ log_delivery_failure(th)
  \/ suppressed_load(th)
  \/ suppressed_store(th)
  \/ log_delivery_failure_print(th)
  \/ log_delivery_failure_store(th)
  \/ log_delivery_recovered(th)
  \/ log_delivery_recovered_store(th)

Next ==
  \/ Tick
  \/ SetBack
  \/ tek_kafka_topic_create
  \/ \E th \in Thread : Callback(th)
  \/ tek_kafka_topic_dispose
  \/ tek_kafka_topic_dispose_clear
  \/ tek_kafka_topic_free

Spec == Init /\ [][Next]_vars
-----------------------------------------------------------------------------
Mid == {"failed", "suppress", "increment", "print"}
PCs == {"idle", "delivered", "printed", "recovered"} \cup Mid

(* The state space: every variable in its range.                           *)
TypeOK ==
  /\ now \in Nat
  /\ last_err \in Result /\ last_log_time \in Nat /\ suppressed \in Nat
  /\ life \in {"none", "live", "closing", "closed"}
  /\ pc \in [Thread -> PCs]
  /\ err \in [Thread -> Result]
  /\ at \in [Thread -> Nat] /\ seen \in [Thread -> Nat]
  /\ reports \in Nat /\ failures \in Nat /\ told \in Nat
  /\ latest \in Result
  /\ line \in Line /\ lineAt \in [Err -> Int]
  /\ visits \in Visits /\ missed \in Int

(* config.h.in:44-45: "Failures in between are counted and reported in the *)
(* next line rather than dropped".  While the record is in the table and   *)
(* no report is being served, every failure has been told or is held back, *)
(* however many threads serve reports, until two visits overlap; and from  *)
(* the first line of a visit that overlaps no other, no more are lost.     *)
FailuresAccountedFor ==
  life = "live" /\ Idle =>
    /\ visits = "serial" => told + suppressed = failures
    /\ visits = "mended" => told + suppressed + missed = failures

(* The latest line says how deliveries stand: a failure of another kind is *)
(* never held back behind a line about the last one, and the end of an     *)
(* outage is always marked (log_delivery_recovered()).  Visits that        *)
(* overlap may break this, and one line of a later visit restores it.      *)
LogShowsTheState == Idle /\ InSync => line.err = latest

(* The throttle fields agree with what the log really shows: a failure is  *)
(* held back exactly when the latest line is about the same error and is   *)
(* less than Interval old, through recoveries, changes of error, a clock   *)
(* that was set back (which makes the line younger than it is) and visits  *)
(* that overlapped before the latest line.                                 *)
ThrottleFollowsTheLog ==
  InSync =>
    \A th \in Thread :
      pc[th] \in {"suppress", "print"} =>
        (pc[th] = "suppress" <=>
           line.err = err[th] /\ at[th] - line.at < Interval)

(* config.h.in:41-42: the interval is the shortest "between two            *)
(* delivery-failure log lines for the same topic reporting the same        *)
(* error".  Another error, or one success, in between defeats it.          *)
OneLinePerInterval ==
  \A th \in Thread :
    pc[th] = "print" => at[th] - lineAt[err[th]] >= Interval

(* kafka-engine.c:344-345: the throttle "may still be holding failures     *)
(* that were never printed. Report them rather than lose them".  Failures  *)
(* held back after tek_kafka_topic_dispose() spoke go with the record.     *)
LastWordIsComplete == life = "none" => told = failures
-----------------------------------------------------------------------------
(* Unless visits overlap, at most one is under way.                        *)
VisitsInv ==
  visits # "overlap" =>
    \A a, b \in Thread : pc[a] # "idle" /\ pc[b] # "idle" => a = b

(* Once in sync, the fields of the record and the log agree except between *)
(* a line and the assignments that follow it.                              *)
FieldsInv ==
  InSync /\ (\A th \in Thread : pc[th] \notin {"printed", "recovered"}) =>
    /\ last_err = line.err
    /\ last_err # NoError => last_log_time = line.at

(* What a thread in the callback knows, whatever the others do.            *)
CallbackInv ==
  \A th \in Thread :
    /\ pc[th] \in Mid \cup {"printed"} => err[th] \in Err
    /\ pc[th] \in {"delivered", "recovered"} => err[th] = NoError
    /\ pc[th] # "idle" => life # "none"

(* What it knows while it has the record to itself.                        *)
AloneInv ==
  visits # "overlap" =>
    \A th \in Thread :
      /\ pc[th] # "idle" => latest = err[th]
      /\ pc[th] \in {"suppress", "increment"} => Throttled(th)
      /\ pc[th] = "print" => ~Throttled(th)
      /\ pc[th] = "printed" => line = [err |-> err[th], at |-> at[th]]
      /\ pc[th] = "recovered" => line.err = NoError

(* Where each failure is while the record is in the table.                 *)
AccountInv ==
  /\ visits = "serial" => missed = 0
  /\ life = "live" /\ InSync =>
       /\ Idle => told + suppressed + missed = failures
       /\ \A th \in Thread :
            /\ pc[th] = "delivered" => told + suppressed + missed = failures
            /\ pc[th] \in Mid => told + suppressed + missed + 1 = failures
            /\ pc[th] \in {"printed", "recovered"} => told + missed = failures
            /\ pc[th] = "increment" => seen[th] = suppressed

(* The inductive invariant, for any number of threads.                     *)
IndInv ==
  /\ TypeOK /\ VisitsInv /\ FieldsInv /\ CallbackInv /\ AloneInv
  /\ AccountInv /\ LogShowsTheState
=============================================================================
