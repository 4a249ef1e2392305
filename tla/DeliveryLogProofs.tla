-------------------------- MODULE DeliveryLogProofs --------------------------
(***************************************************************************)
(* What the throttle of the failure log keeps, proved for every set of     *)
(* threads that serve reports, every set of errors, every interval and     *)
(* every bound.                                                            *)
(***************************************************************************)
EXTENDS DeliveryLog, TLAPS

(* A new record has nothing to tell.                                       *)
LEMMA InitIndInv == Init => IndInv
  <1> SUFFICES ASSUME Init PROVE IndInv
    OBVIOUS
  <1> USE DeliveryLogAssumption DEF Init, Result, Long, NoLine
  <1>1. TypeOK
    BY DEF TypeOK, PCs, Mid, Line, Visits
  <1>2. VisitsInv /\ FieldsInv /\ CallbackInv /\ AloneInv
    BY DEF VisitsInv, FieldsInv, CallbackInv, AloneInv, Mid
  <1>3. AccountInv /\ LogShowsTheState
    BY DEF AccountInv, LogShowsTheState, Mid, Idle
  <1> QED
    BY <1>1, <1>2, <1>3 DEF IndInv

(* A report that finds the record idle has it to itself; one that does not *)
(* ends whatever was known of it.                                          *)
LEMMA ReportIndInv ==
  ASSUME IndInv, NEW th \in Thread, NEW e \in Result, dr_msg_cb(th, e)
  PROVE  IndInv'
  <1> USE DeliveryLogAssumption DEF IndInv, dr_msg_cb, Goto
  <1>1. TypeOK'
    BY DEF TypeOK, PCs, Mid, Visits, throttle, written
  <1>2. CallbackInv'
    BY DEF CallbackInv, TypeOK, Mid, Result
  <1>3. CASE ~Idle
    <2>1. visits' = "overlap"
      BY <1>3
    <2>2. VisitsInv' /\ FieldsInv' /\ AloneInv' /\ AccountInv' /\ LogShowsTheState'
      BY <2>1 DEF VisitsInv, FieldsInv, AloneInv, AccountInv, LogShowsTheState, InSync
    <2> QED
      BY <1>1, <1>2, <2>2
  <1>4. CASE Idle
    <2>1. /\ visits' # "overlap"
          /\ InSync' = InSync /\ (InSync => visits' = visits)
          /\ visits' = "serial" => visits = "serial"
      BY <1>4 DEF InSync, TypeOK, Visits
    <2>2. \A u \in Thread : pc[u] = "idle"
      BY <1>4 DEF Idle
    <2>3. pc'[th] \in {"delivered", "failed"} /\ pc'[th] # "idle"
      BY DEF TypeOK
    <2>4. \A u \in Thread : u # th => pc'[u] = "idle"
      BY <2>2 DEF TypeOK
    <2>5. VisitsInv'
      BY <2>4 DEF VisitsInv
    <2>6. FieldsInv'
      BY <2>1, <2>2 DEF FieldsInv, throttle, written
    <2>7. AloneInv'
      BY <2>3, <2>4 DEF AloneInv, TypeOK
    <2>8. AccountInv'
      BY <1>4, <2>1, <2>3, <2>4 DEF AccountInv, TypeOK, throttle, written, Idle, Mid
    <2>9. LogShowsTheState'
      BY <2>3 DEF LogShowsTheState, Idle
    <2> QED
      BY <1>1, <1>2, <2>5, <2>6, <2>7, <2>8, <2>9
  <1> QED
    BY <1>3, <1>4

(* A visit that overlaps no other finds every other thread idle.           *)
LEMMA OthersIdle ==
  ASSUME IndInv, visits # "overlap", NEW th \in Thread, pc[th] # "idle"
  PROVE  \A u \in Thread : u # th => pc[u] = "idle"
  BY DEF IndInv, VisitsInv

(* The visits of the callback that leave the history of overlaps alone.    *)
LEMMA VisitIndInv ==
  ASSUME IndInv, NEW th \in Thread,
         \/ log_delivery_failure(th) \/ suppressed_load(th)
         \/ suppressed_store(th) \/ log_delivery_failure_print(th)
         \/ log_delivery_recovered(th)
  PROVE  IndInv'
  <1> USE DeliveryLogAssumption
  <1> USE DEF IndInv, Goto, throttle, local, heard, written, meeting
  <1>0. pc[th] # "idle" /\ UNCHANGED <<life, visits, missed>>
    BY DEF log_delivery_failure, suppressed_load, suppressed_store,
         log_delivery_failure_print, log_delivery_recovered
  <1>1. TypeOK'
    <2>1. CASE log_delivery_failure(th) \/ suppressed_load(th)
      BY <2>1 DEF log_delivery_failure, suppressed_load, TypeOK, PCs, Mid
    <2>2. CASE suppressed_store(th)
      BY <2>2 DEF suppressed_store, TypeOK, PCs
    <2>3. CASE log_delivery_failure_print(th)
      BY <2>3 DEF log_delivery_failure_print, TypeOK, PCs, Line, CallbackInv, Mid, Result
    <2>4. CASE log_delivery_recovered(th)
      BY <2>4 DEF log_delivery_recovered, TypeOK, PCs, Line, Result
    <2> QED
      BY <2>1, <2>2, <2>3, <2>4
  <1>2. CallbackInv'
    BY <1>0 DEF CallbackInv, TypeOK, Mid, log_delivery_failure, suppressed_load,
         suppressed_store, log_delivery_failure_print, log_delivery_recovered
  <1>3. VisitsInv'
    <2>1. \A u \in Thread : pc'[u] # "idle" => pc[u] # "idle"
      BY <1>0 DEF TypeOK, log_delivery_failure, suppressed_load,
           suppressed_store, log_delivery_failure_print, log_delivery_recovered
    <2> QED
      BY <1>0, <2>1 DEF VisitsInv
  <1>4. CASE visits = "overlap"
    <2>1. FieldsInv' /\ AloneInv' /\ AccountInv' /\ LogShowsTheState'
      BY <1>0, <1>4 DEF FieldsInv, AloneInv, AccountInv, LogShowsTheState, InSync
    <2> QED
      BY <1>1, <1>2, <1>3, <2>1
  <1>5. CASE visits # "overlap"
    <2>0. \A u \in Thread : u # th => pc[u] = "idle"
      BY <1>0, <1>5, OthersIdle
    <2>I. InSync' = InSync
      BY <1>0 DEF InSync
    <2> USE <1>0, <2>0, <2>I
    <2>1. CASE log_delivery_failure(th)
      <3> USE <2>1 DEF log_delivery_failure
      <3>1. FieldsInv'
        BY DEF FieldsInv, AloneInv, TypeOK
      <3>2. AloneInv'
        BY <1>5 DEF AloneInv, CallbackInv, TypeOK, Throttled, Mid
      <3>3. AccountInv'
        BY DEF AccountInv, Idle, TypeOK, Mid
      <3>4. LogShowsTheState'
        BY <1>5 DEF AloneInv, CallbackInv, FieldsInv, LogShowsTheState, Idle, TypeOK,
             Throttled
      <3> QED
        BY <1>1, <1>2, <1>3, <3>1, <3>2, <3>3, <3>4
    <2>2. CASE suppressed_load(th)
      <3> USE <2>2 DEF suppressed_load
      <3>1. FieldsInv'
        BY DEF FieldsInv, AloneInv, TypeOK
      <3>2. AloneInv'
        BY <1>5 DEF AloneInv, CallbackInv, TypeOK, Throttled, Mid
      <3>3. AccountInv'
        BY DEF AccountInv, Idle, TypeOK, Mid
      <3>4. LogShowsTheState'
        BY <1>5 DEF AloneInv, CallbackInv, FieldsInv, LogShowsTheState, Idle, TypeOK,
             Throttled
      <3> QED
        BY <1>1, <1>2, <1>3, <3>1, <3>2, <3>3, <3>4
    <2>3. CASE suppressed_store(th)
      <3> USE <2>3 DEF suppressed_store
      <3>1. FieldsInv'
        BY DEF FieldsInv, AloneInv, TypeOK
      <3>2. AloneInv'
        BY <1>5 DEF AloneInv, CallbackInv, TypeOK, Throttled, Mid
      <3>3. AccountInv'
        BY DEF AccountInv, Idle, TypeOK, Mid
      <3>4. LogShowsTheState'
        BY <1>5 DEF AloneInv, CallbackInv, FieldsInv, LogShowsTheState, Idle, TypeOK,
             Throttled
      <3> QED
        BY <1>1, <1>2, <1>3, <3>1, <3>2, <3>3, <3>4
    <2>4. CASE log_delivery_failure_print(th)
      <3> USE <2>4 DEF log_delivery_failure_print
      <3>1. FieldsInv'
        BY DEF FieldsInv, AloneInv, TypeOK
      <3>2. AloneInv'
        BY <1>5 DEF AloneInv, CallbackInv, TypeOK, Throttled, Mid
      <3>3. AccountInv'
        BY DEF AccountInv, Idle, TypeOK, Mid
      <3>4. LogShowsTheState'
        BY <1>5 DEF AloneInv, CallbackInv, FieldsInv, LogShowsTheState, Idle, TypeOK,
             Throttled
      <3> QED
        BY <1>1, <1>2, <1>3, <3>1, <3>2, <3>3, <3>4
    <2>5. CASE log_delivery_recovered(th)
      <3> USE <2>5 DEF log_delivery_recovered
      <3>1. FieldsInv'
        BY DEF FieldsInv, AloneInv, TypeOK
      <3>2. AloneInv'
        BY <1>5 DEF AloneInv, CallbackInv, TypeOK, Throttled, Mid
      <3>3. AccountInv'
        BY DEF AccountInv, Idle, TypeOK, Mid
      <3>4. LogShowsTheState'
        BY <1>5 DEF AloneInv, CallbackInv, FieldsInv, LogShowsTheState, Idle, TypeOK,
             Throttled
      <3> QED
        BY <1>1, <1>2, <1>3, <3>1, <3>2, <3>3, <3>4
    <2> QED
      BY <2>1, <2>2, <2>3, <2>4, <2>5
  <1> QED
    BY <1>4, <1>5

(* The assignments after a line: they end the visit, and bring fields and  *)
(* log together if it had the record to itself.                            *)
LEMMA StoreIndInv ==
  ASSUME IndInv, NEW th \in Thread,
         log_delivery_failure_store(th) \/ log_delivery_recovered_store(th)
  PROVE  IndInv'
  <1> USE DeliveryLogAssumption
  <1> USE DEF IndInv, Goto, Mend, local, heard, written,
              log_delivery_failure_store, log_delivery_recovered_store
  <1>0. pc[th] \in {"printed", "recovered"} /\ life' = life
    OBVIOUS
  <1>1. TypeOK'
    BY DEF TypeOK, PCs, Visits, Result
  <1>2. CallbackInv'
    BY <1>0 DEF CallbackInv, TypeOK, Mid
  <1>3. VisitsInv'
    <2>1. \A u \in Thread : pc'[u] # "idle" => pc[u] # "idle"
      BY <1>0 DEF TypeOK
    <2> QED
      BY <2>1 DEF VisitsInv
  <1>4. CASE visits = "overlap"
    <2>0. visits' = "overlap"
      BY <1>4
    <2>1. FieldsInv' /\ AloneInv' /\ AccountInv' /\ LogShowsTheState'
      BY <2>0 DEF FieldsInv, AloneInv, AccountInv, LogShowsTheState, InSync
    <2> QED
      BY <1>1, <1>2, <1>3, <2>1
  <1>5. CASE visits # "overlap"
    <2>0. \A u \in Thread : u # th => pc[u] = "idle"
      BY <1>0, <1>5, OthersIdle
    <2>1. \A u \in Thread : pc'[u] = "idle"
      BY <2>0 DEF TypeOK
    <2>2. /\ line.err = latest
          /\ last_err' = line.err
          /\ last_err' # NoError => last_log_time' = line.at
          /\ suppressed' = 0
      BY <1>5 DEF AloneInv, CallbackInv, TypeOK
    <2>3. FieldsInv' /\ LogShowsTheState'
      BY <2>2 DEF FieldsInv, LogShowsTheState
    <2>4. AloneInv'
      BY <2>1 DEF AloneInv
    <2>5. AccountInv'
      BY <1>0, <1>5, <2>1, <2>2 DEF AccountInv, TypeOK, Visits, InSync, Mid
    <2> QED
      BY <1>1, <1>2, <1>3, <2>3, <2>4, <2>5
  <1> QED
    BY <1>4, <1>5

(* Every visit of the callback, and of the session that closes the record, *)
(* keeps the account.                                                      *)
LEMMA NextIndInv == ASSUME IndInv, [Next]_vars PROVE IndInv'
  <1> USE DeliveryLogAssumption
  <1> USE DEF IndInv, throttle, local, heard, written, meeting
  <1>1. CASE Tick \/ SetBack
    <2>1. TypeOK'
      BY <1>1 DEF Tick, SetBack, TypeOK
    <2>2. VisitsInv' /\ FieldsInv' /\ CallbackInv' /\ AloneInv'
      BY <1>1 DEF Tick, SetBack, VisitsInv, FieldsInv, CallbackInv, AloneInv,
           InSync, Throttled
    <2>3. AccountInv' /\ LogShowsTheState'
      BY <1>1 DEF Tick, SetBack, AccountInv, LogShowsTheState, InSync, Idle
    <2> QED
      BY <2>1, <2>2, <2>3
  <1>2. CASE tek_kafka_topic_create
    <2> USE <1>2 DEF tek_kafka_topic_create, Long, NoLine
    <2>1. TypeOK'
      BY DEF TypeOK, Result, Line, Visits
    <2>2. \A th \in Thread : pc[th] = "idle"
      BY DEF CallbackInv, TypeOK
    <2>3. VisitsInv' /\ FieldsInv' /\ CallbackInv' /\ AloneInv'
      BY <2>2 DEF VisitsInv, FieldsInv, CallbackInv, AloneInv, Mid
    <2>4. AccountInv' /\ LogShowsTheState'
      BY <2>2 DEF AccountInv, LogShowsTheState, Idle, Mid
    <2> QED
      BY <2>1, <2>3, <2>4
  <1>3. ASSUME NEW th \in Thread, Callback(th) PROVE IndInv'
    BY <1>3, ReportIndInv, VisitIndInv, StoreIndInv DEF Callback
  <1>4. CASE tek_kafka_topic_dispose \/ tek_kafka_topic_dispose_clear
    <2> USE <1>4 DEF tek_kafka_topic_dispose, tek_kafka_topic_dispose_clear
    <2>1. TypeOK'
      BY DEF TypeOK
    <2>2. VisitsInv' /\ FieldsInv' /\ CallbackInv' /\ AloneInv'
      BY DEF VisitsInv, FieldsInv, CallbackInv, AloneInv, InSync, Throttled
    <2>3. AccountInv' /\ LogShowsTheState'
      BY DEF AccountInv, LogShowsTheState, InSync, Idle
    <2> QED
      BY <2>1, <2>2, <2>3
  <1>5. CASE tek_kafka_topic_free
    <2> USE <1>5 DEF tek_kafka_topic_free
    <2>1. TypeOK'
      BY DEF TypeOK
    <2>2. VisitsInv' /\ FieldsInv' /\ CallbackInv' /\ AloneInv'
      BY DEF VisitsInv, FieldsInv, CallbackInv, AloneInv, InSync, Idle, Throttled,
             Mid
    <2>3. AccountInv' /\ LogShowsTheState'
      BY DEF AccountInv, LogShowsTheState, InSync, Idle
    <2> QED
      BY <2>1, <2>2, <2>3
  <1>6. CASE UNCHANGED vars
    <2> USE <1>6 DEF vars
    <2>1. TypeOK'
      BY DEF TypeOK
    <2>2. VisitsInv' /\ FieldsInv' /\ CallbackInv' /\ AloneInv'
      BY DEF VisitsInv, FieldsInv, CallbackInv, AloneInv, InSync, Throttled
    <2>3. AccountInv' /\ LogShowsTheState'
      BY DEF AccountInv, LogShowsTheState, InSync, Idle
    <2> QED
      BY <2>1, <2>2, <2>3
  <1> QED
    BY <1>1, <1>2, <1>3, <1>4, <1>5, <1>6 DEF Next

(* Whatever threads serve the reports: the throttle fields, the log and    *)
(* the count of failures agree until two visits overlap, and again from    *)
(* the first line that a visit of its own prints after that.               *)
THEOREM ThrottleInvariance == Spec => []IndInv
  <1>1. Init => IndInv
    BY InitIndInv
  <1>2. IndInv /\ [Next]_vars => IndInv'
    BY NextIndInv
  <1> QED
    BY <1>1, <1>2, PTL DEF Spec

(* While the record is in the table no failure is lost between the lines   *)
(* of log_delivery_failure() and log_delivery_recovered(): each is told or *)
(* held back.  What overlapping visits miss is all that is ever missing.   *)
THEOREM EveryFailureAccountedFor == Spec => []FailuresAccountedFor
  <1>1. IndInv => FailuresAccountedFor
    <2> SUFFICES ASSUME IndInv, life = "live", Idle
                 PROVE  /\ visits = "serial" => told + suppressed = failures
                        /\ visits = "mended" => told + suppressed + missed = failures
      BY DEF FailuresAccountedFor
    <2> QED
      BY DEF IndInv, AccountInv, TypeOK, InSync
  <1> QED
    BY <1>1, ThrottleInvariance, PTL

(* The latest line names the result of the latest report, and one line     *)
(* restores that after visits that overlapped.                             *)
THEOREM LogAlwaysShowsTheState == Spec => []LogShowsTheState
  <1>1. IndInv => LogShowsTheState
    BY DEF IndInv
  <1> QED
    BY <1>1, ThrottleInvariance, PTL

(* log_delivery_failure() holds back exactly the repeats of the latest     *)
(* line while that line is young, and one line restores that too.          *)
THEOREM ThrottleAlwaysFollowsTheLog == Spec => []ThrottleFollowsTheLog
  <1>1. ASSUME IndInv PROVE ThrottleFollowsTheLog
    <2> SUFFICES ASSUME InSync, NEW th \in Thread, pc[th] \in {"suppress", "print"}
                 PROVE  pc[th] = "suppress" <=>
                          line.err = err[th] /\ at[th] - line.at < Interval
      BY DEF ThrottleFollowsTheLog
    <2>0. visits # "overlap"
      BY DEF InSync
    <2>1. \A u \in Thread : pc[u] \notin {"printed", "recovered"}
      BY <1>1, <2>0, OthersIdle
    <2>2. last_err = line.err /\ (last_err # NoError => last_log_time = line.at)
      BY <1>1, <2>1 DEF IndInv, FieldsInv
    <2>3. err[th] \in Err /\ err[th] # NoError
      BY <1>1, DeliveryLogAssumption DEF IndInv, CallbackInv, Mid
    <2>4. /\ pc[th] = "suppress" => Throttled(th)
          /\ pc[th] = "print" => ~Throttled(th)
      BY <1>1, <2>0 DEF IndInv, AloneInv
    <2> QED
      BY <2>2, <2>3, <2>4 DEF Throttled
  <1> QED
    BY <1>1, ThrottleInvariance, PTL
=============================================================================
