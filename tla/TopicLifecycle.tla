--------------------------- MODULE TopicLifecycle ---------------------------
(***************************************************************************)
(* What the topic table promises about the memory of a topic record,       *)
(* whatever lock, lists and queue length the code uses to keep the promise *)
(* (kafka-table.h:42-47, kafka-engine.h:101-109).  A record is opened,     *)
(* accepts messages while it is open, is closed, and is freed only when no *)
(* message that awaits its delivery report names it.                       *)
(***************************************************************************)
CONSTANTS
  Record,   \* addresses of topic records
  Msg,      \* messages
  None      \* NULL

VARIABLES
  life,     \* each record: "unused", "open", "closed" or "freed"
  opaque,   \* the record each accepted message names
  pending   \* messages that await their delivery report

lifeVars == <<life, opaque, pending>>

Init ==
  /\ life = [r \in Record |-> "unused"]
  /\ opaque = [m \in Msg |-> None]
  /\ pending = {}

Open(r) ==
  /\ life[r] = "unused"
  /\ life' = [life EXCEPT ![r] = "open"]
  /\ UNCHANGED <<opaque, pending>>

Accept(m, r) ==
  /\ life[r] = "open" /\ opaque[m] = None
  /\ opaque' = [opaque EXCEPT ![m] = r]
  /\ pending' = pending \cup {m}
  /\ UNCHANGED life

Report(m) ==
  /\ m \in pending
  /\ life[opaque[m]] \in {"open", "closed"}
  /\ pending' = pending \ {m}
  /\ UNCHANGED <<life, opaque>>

Close(R) ==
  /\ \A r \in R : life[r] = "open"
  /\ life' = [r \in Record |-> IF r \in R THEN "closed" ELSE life[r]]
  /\ UNCHANGED <<opaque, pending>>

Free(R) ==
  /\ \A r \in R : life[r] = "closed"
  /\ \A m \in pending : opaque[m] \notin R
  /\ life' = [r \in Record |-> IF r \in R THEN "freed" ELSE life[r]]
  /\ UNCHANGED <<opaque, pending>>

Next ==
  \/ \E r \in Record : Open(r)
  \/ \E m \in Msg, r \in Record : Accept(m, r)
  \/ \E m \in Msg : Report(m)
  \/ \E R \in SUBSET Record : Close(R) \/ Free(R)

Spec == Init /\ [][Next]_lifeVars
=============================================================================
