------------------------------ MODULE KafkaInfo ------------------------------
(***************************************************************************)
(* kafka_info() beside the calls of KafkaParams: its two looks under the   *)
(* read lock, and the bounded text it makes of what it saw.  A text is its *)
(* length.  While describe_params() walks the array no writer enters.      *)
(***************************************************************************)
EXTENDS KafkaParams, FiniteSets

CONSTANTS
  Reader,         \* the sessions that call kafka_info()
  LineLen(_),     \* length of the line of an entry, a secret shown as stars
  HeadLen(_),     \* length of the lines above, for a broker list, no count
  ParamsMax,      \* KAFKA_INFO_MAX_LEN / 2
  InfoMax,        \* KAFKA_INFO_MAX_LEN
  SizeMod         \* size_t is computed modulo this

ASSUME InfoAssumption ==
  /\ Reader \subseteq Session
  /\ ParamsMax \in Nat \ {0} /\ InfoMax \in Nat \ {0}
  /\ SizeMod \in Nat /\ SizeMod > 2 * ParamsMax
  /\ \A p \in [name : Name, value : Value] : LineLen(p) \in Nat
  /\ \A b \in Value \cup {None} : HeadLen(b) \in Nat

VARIABLES
  ipc,     \* per session: where it is in kafka_info()
  frame,   \* per session: its locals
  out      \* per session: the text behind initid->ptr, and *length

info == <<ipc, frame, out>>
infoVars == <<vars, info>>

(* brokers is None for "Not connected"; i, used and what params[] holds    *)
(* are those of kafka_table_describe_params().  torn is a history: whether *)
(* a disconnect came since the look at the brokers.                        *)
FrameWith(b) == [brokers |-> b, torn |-> FALSE, i |-> 1, used |-> 0,
                 held |-> 0, nparams |-> 0]

Frame == FrameWith(None)

NoText == [written |-> 0, length |-> 0]

Shortest(m, n) == IF m <= n THEN m ELSE n

(* What an int prints as.                                                  *)
Digits(n) == 1 + Cardinality({k \in 1 .. 9 : 10 ^ k <= n})

(* snprintf() of n characters into room bytes: what fits, and a NUL.       *)
Stored(n, room) == IF room = 0 THEN 0 ELSE Shortest(n, room - 1)

-----------------------------------------------------------------------------
InfoInit ==
  /\ Init
  /\ ipc = [s \in Reader |-> "idle"]
  /\ frame = [s \in Reader |-> Frame]
  /\ out = [s \in Reader |-> NoText]

From(s, here, there) ==
  ipc[s] = here /\ ipc' = [ipc EXCEPT ![s] = there] /\ UNCHANGED vars

(* malloc() failing refuses the call.                                      *)
kafka_info_init(s) ==
  /\ From(s, "idle", "ready") /\ module = "loaded"
  /\ UNCHANGED <<frame, out>>

kafka_table_get_brokers(s) ==
  /\ From(s, "ready", "between")
  /\ frame' = [frame EXCEPT ![s] = FrameWith(brokers)]
  /\ UNCHANGED out

kafka_table_describe_params(s) ==
  /\ From(s, "between", "loop")
  /\ UNCHANGED <<frame, out>>

(* Walks on with the buffer full (for the mutation of MoreLines).          *)
MoreLinesWhatever(f) == f.i \in DOMAIN params

MoreLines(f) == f.i \in DOMAIN params /\ f.used + 1 < ParamsMax

(* buflen - used, in size_t.                                               *)
Room(f) == (ParamsMax + SizeMod - f.used) % SizeMod

describe_line(s) ==
  LET f == frame[s]
      n == LineLen(params[f.i])
  IN /\ From(s, "loop", "loop") /\ MoreLines(f)
     /\ frame' = [frame EXCEPT ![s].i = f.i + 1,
                               ![s].used = f.used + n,
                               ![s].held = f.used + Stored(n, Room(f))]
     /\ UNCHANGED out

describe_count(s) ==
  /\ From(s, "loop", "print") /\ ~MoreLines(frame[s])
  /\ frame' = [frame EXCEPT ![s].nparams = Len(params)]
  /\ UNCHANGED out

(* snprintf() failed on a line: the loop ends there, and params[] is told  *)
(* with whatever of the line it holds.                                     *)
describe_failed(s) ==
  LET f == frame[s]
  IN /\ From(s, "loop", "print") /\ MoreLines(f)
     /\ \E h \in f.held .. ParamsMax - 1 :
          frame' = [frame EXCEPT ![s].held = h, ![s].nparams = Len(params)]
     /\ UNCHANGED out

Clamped(n) == IF n >= InfoMax THEN InfoMax - 1 ELSE n

kafka_info(s) ==
  LET f == frame[s]
      n == HeadLen(f.brokers) + Digits(f.nparams) + f.held
  IN /\ From(s, "print", "ready")
     /\ out' = [out EXCEPT ![s] = [written |-> Stored(n, InfoMax),
                                   length |-> Clamped(n)]]
     /\ frame' = [frame EXCEPT ![s] = Frame]

(* snprintf() failed on the whole: none of the text counts.                *)
kafka_info_unprinted(s) ==
  /\ From(s, "print", "ready")
  /\ out' = [out EXCEPT ![s] = NoText]
  /\ frame' = [frame EXCEPT ![s] = Frame]

kafka_info_deinit(s) ==
  /\ From(s, "ready", "idle")
  /\ out' = [out EXCEPT ![s] = NoText]
  /\ UNCHANGED frame

-----------------------------------------------------------------------------
(* A session inside kafka_info() makes no other call; who changes what the *)
(* lock protects waits for the readers.                                    *)
OtherCall(s) ==
  /\ s \in Reader => ipc[s] \in {"idle", "ready"}
  /\ Call(s)
  /\ (\E r \in Reader : ipc[r] = "loop") =>
       (params' = params /\ conf' = conf)
  /\ frame' = [r \in Reader |->
                 [frame[r] EXCEPT !.torn =
                    @ \/ (ipc[r] # "idle" /\ conf # None /\ conf' = None)]]
  /\ UNCHANGED <<ipc, out>>

(* The library stays while a statement uses it.                            *)
LibraryStep ==
  /\ Library
  /\ \A s \in Reader : ipc[s] = "idle"
  /\ UNCHANGED info

InfoStep(s) ==
  \/ kafka_info_init(s)
  \/ kafka_table_get_brokers(s)
  \/ kafka_table_describe_params(s)
  \/ describe_line(s)
  \/ describe_failed(s)
  \/ describe_count(s)
  \/ kafka_info(s)
  \/ kafka_info_unprinted(s)
  \/ kafka_info_deinit(s)

InfoNext ==
  \/ \E s \in Session : OtherCall(s)
  \/ LibraryStep
  \/ \E s \in Reader : InfoStep(s)

InfoSpec == InfoInit /\ [][InfoNext]_infoVars

-----------------------------------------------------------------------------
(* Length of the first lines of a list, were there room for them.          *)
LengthUpTo(ps) ==
  LET sum[i \in 0 .. Len(ps)] ==
        IF i = 0 THEN 0 ELSE sum[i - 1] + LineLen(ps[i])
  IN sum

WholeLength == LengthUpTo(params)[Len(params)]

(* kafka-table.c:345-353: when the loop has come to its end, params[]      *)
(* holds as much of the list as it has room for, cut in the middle of a    *)
(* line or not.                                                            *)
TextIsWhatFits ==
  \A s \in Reader :
    ipc[s] = "loop" /\ ~MoreLines(frame[s]) =>
      frame[s].held = Shortest(WholeLength, ParamsMax - 1)

(* kafka-table.c:342-353, kafka-cmd-info.c:67-76: `used` counts what       *)
(* snprintf() would have written; however long the lines, none is written  *)
(* past params[], and the length returned never reaches past the text in   *)
(* the buffer of the result.                                               *)
StaysInBuffer ==
  \A s \in Reader :
    /\ ipc[s] \in {"loop", "print"} => frame[s].held < ParamsMax
    /\ out[s].length <= out[s].written /\ out[s].written < InfoMax

(* kafka-cmd-info.c:59-65: the two looks take the lock twice; what is      *)
(* shown is one connection and what it was made from unless a disconnect   *)
(* came in between, whatever else other sessions called.  After one the    *)
(* parameters may be those of the next connection.                         *)
InfoIsConsistent ==
  \A s \in Reader :
    LET f == frame[s] IN
      ipc[s] \in {"between", "loop", "print"} /\ f.brokers # None /\ ~f.torn =>
        brokers = f.brokers /\ conf = Configured(params, f.brokers)
-----------------------------------------------------------------------------
InfoPCs == {"idle", "ready", "between", "loop", "print"}

FrameOK(f) ==
  /\ f = [brokers |-> f.brokers, torn |-> f.torn, i |-> f.i, used |-> f.used,
          held |-> f.held, nparams |-> f.nparams]
  /\ f.brokers \in Value \cup {None} /\ f.torn \in BOOLEAN
  /\ f.used \in Nat /\ f.held \in Nat /\ f.nparams \in Nat

(* Inside the loop `used` is the length of the lines it has passed, and    *)
(* params[] holds what fits of them.                                       *)
LoopOK(f) ==
  /\ f.i \in 1 .. Len(params) + 1
  /\ f.used = LengthUpTo(params)[f.i - 1]
  /\ f.held = Shortest(f.used, ParamsMax - 1)

(* What a kafka_info() in progress relies on; inductive beside IndInv.     *)
InfoInv ==
  /\ DOMAIN ipc = Reader /\ DOMAIN frame = Reader /\ DOMAIN out = Reader
  /\ \A s \in Reader : ipc[s] \in InfoPCs /\ FrameOK(frame[s])
  /\ conf = None <=> brokers = None
  /\ \A s \in Reader :
       /\ ipc[s] \in {"idle", "ready", "between"} =>
            frame[s].i = 1 /\ frame[s].used = 0 /\ frame[s].held = 0
       /\ ipc[s] = "loop" => LoopOK(frame[s])
  /\ InfoIsConsistent /\ StaysInBuffer /\ TextIsWhatFits
=============================================================================
