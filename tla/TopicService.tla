----------------------------- MODULE TopicService -----------------------------
(***************************************************************************)
(* What the SQL functions promise about topics and messages, each call     *)
(* taking effect at one moment.  A topic is open only while connected; a   *)
(* message goes to an open topic and is reported once, before the          *)
(* connection it was sent over ends; kafka_stats() counts, of each open    *)
(* topic, the reports on what was sent to it since it was opened.          *)
(***************************************************************************)
EXTENDS Naturals

CONSTANTS
  Topic,     \* topic names
  Msg,       \* messages
  None       \* no topic

VARIABLES
  connected,
  open,      \* the topics that are open
  fresh,     \* messages not sent yet
  pending,   \* messages sent and not reported yet
  home,      \* the open topic a message counts for
  good, bad  \* of each topic: how many were delivered, and how many failed

serviceVars == <<connected, open, fresh, pending, home, good, bad>>
counters == <<good, bad>>

Zero == [t \in Topic |-> 0]

Init ==
  /\ connected = FALSE /\ open = {}
  /\ fresh = Msg /\ pending = {} /\ home = [m \in Msg |-> None]
  /\ good = Zero /\ bad = Zero

Connect ==
  /\ ~connected
  /\ connected' = TRUE
  /\ UNCHANGED <<open, fresh, pending, home, counters>>

Open(t) ==
  /\ connected /\ t \notin open
  /\ open' = open \cup {t}
  /\ UNCHANGED <<connected, fresh, pending, home, counters>>

Send(m, t) ==
  /\ t \in open /\ m \in fresh
  /\ fresh' = fresh \ {m}
  /\ pending' = pending \cup {m}
  /\ home' = [home EXCEPT ![m] = t]
  /\ UNCHANGED <<connected, open, counters>>

(* A message whose topic was closed meanwhile counts for none.             *)
Report(m) ==
  /\ m \in pending
  /\ pending' = pending \ {m}
  /\ IF home[m] = None THEN UNCHANGED counters
     ELSE \/ good' = [good EXCEPT ![home[m]] = @ + 1] /\ UNCHANGED bad
          \/ bad' = [bad EXCEPT ![home[m]] = @ + 1] /\ UNCHANGED good
  /\ UNCHANGED <<connected, open, fresh, home>>

Close(t) ==
  /\ t \in open
  /\ open' = open \ {t}
  /\ home' = [m \in Msg |-> IF home[m] = t THEN None ELSE home[m]]
  /\ good' = [good EXCEPT ![t] = 0] /\ bad' = [bad EXCEPT ![t] = 0]
  /\ UNCHANGED <<connected, fresh, pending>>

Disconnect ==
  /\ pending = {}
  /\ connected' = FALSE /\ open' = {}
  /\ home' = [m \in Msg |-> None]
  /\ good' = Zero /\ bad' = Zero
  /\ UNCHANGED <<fresh, pending>>

Next ==
  \/ Connect \/ Disconnect
  \/ \E t \in Topic : Open(t) \/ Close(t) \/ \E m \in Msg : Send(m, t)
  \/ \E m \in Msg : Report(m)

Spec == Init /\ [][Next]_serviceVars
=============================================================================
