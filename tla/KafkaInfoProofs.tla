--------------------------- MODULE KafkaInfoProofs ---------------------------
(***************************************************************************)
(* Proofs about kafka_info(): whatever other sessions call meanwhile, it   *)
(* shows one connection, as much of it as fits and no more, for any number *)
(* of sessions and parameters and any lengths.                             *)
(***************************************************************************)
EXTENDS KafkaInfo, KafkaParamsProofs, FiniteSetTheorems

(* Beside kafka_info() the parameters and the connection move as they do   *)
(* without it.                                                             *)
LEMMA InfoRefinesParams == [InfoNext]_infoVars => [Next]_vars
  BY DEF InfoNext, OtherCall, LibraryStep, InfoStep, kafka_info_init,
         kafka_table_get_brokers, kafka_table_describe_params, describe_line,
         describe_failed, describe_count, kafka_info, kafka_info_unprinted,
         kafka_info_deinit, From, Next, infoVars

(* What a call that leaves the connection up may change: nothing that      *)
(* kafka_info() shows.                                                     *)
LEMMA ConnectedStaysPut ==
  ASSUME NEW s \in Session, Call(s), conf # None, conf' # None
  PROVE  UNCHANGED <<params, conf, brokers>>
  <1>1. ASSUME \/ kafka_connection_param_init(s)
               \/ kafka_connect_init(s) \/ deinit(s)
        PROVE  UNCHANGED <<params, conf, brokers>>
    BY <1>1 DEF kafka_connection_param_init, kafka_connect_init, deinit
  <1>2. ~ \E n \in Name, v \in Value : kafka_table_set_param(s, n, v)
    BY DEF kafka_table_set_param, set_param_replace, set_param_append, MaySet
  <1>3. ~ \E n \in Name : kafka_table_unset_param(s, n)
    BY DEF kafka_table_unset_param
  <1>4. ~ \E b \in Value : kafka_table_connect(s, b)
    BY DEF kafka_table_connect
  <1>5. ~ kafka_disconnect(s)
    BY DEF kafka_disconnect
  <1> QED BY <1>1, <1>2, <1>3, <1>4, <1>5 DEF Call

(* kafka_connect() sets the brokers and the producer, a disconnect clears  *)
(* both.                                                                   *)
LEMMA BrokersOfTheProducer ==
  ASSUME IndInv, [Next]_vars, conf = None <=> brokers = None
  PROVE  conf' = None <=> brokers' = None
  <1>1. ASSUME NEW s \in Session, NEW b \in Value, kafka_table_connect(s, b)
        PROVE  conf' # None /\ brokers' # None
    <2>1. Configured(params, b) \in [Setting -> Value]
      BY ConfiguredType DEF IndInv
    <2> QED BY <1>1, <2>1, ParamsAssumption DEF kafka_table_connect
  <1>2. CASE \E s \in Session, b \in Value : kafka_table_connect(s, b)
    BY <1>1, <1>2
  <1>3. ASSUME NEW s \in Session, Call(s),
               ~ \E b \in Value : kafka_table_connect(s, b)
        PROVE  UNCHANGED <<conf, brokers>> \/ (conf' = None /\ brokers' = None)
    <2>1. ASSUME NEW n \in Name, NEW v \in Value, kafka_table_set_param(s, n, v)
          PROVE  UNCHANGED <<conf, brokers>>
      BY <2>1 DEF kafka_table_set_param, set_param_replace, set_param_append
    <2>2. ASSUME NEW n \in Name, kafka_table_unset_param(s, n)
          PROVE  UNCHANGED <<conf, brokers>>
      BY <2>2 DEF kafka_table_unset_param
    <2>3. ASSUME \/ kafka_connection_param_init(s)
                 \/ kafka_connect_init(s) \/ deinit(s)
          PROVE  UNCHANGED <<conf, brokers>>
      BY <2>3 DEF kafka_connection_param_init, kafka_connect_init, deinit
    <2>4. ASSUME kafka_disconnect(s)
          PROVE  conf' = None /\ brokers' = None
      BY <2>4 DEF kafka_disconnect
    <2> QED BY <1>3, <2>1, <2>2, <2>3, <2>4 DEF Call
  <1>4. ASSUME Library \/ UNCHANGED vars
        PROVE  UNCHANGED <<conf, brokers>> \/ (conf' = None /\ brokers' = None)
    BY <1>4 DEF Library, vars, kafka_table_shutdown,
                kafka_table_clear_params_locked, kafka_module_load
  <1> QED BY <1>2, <1>3, <1>4 DEF Next

-------------------------------------------------------------------------------
(* A running total exists: kafka-table.c:352.                              *)
LEMMA TotalsExist ==
  ASSUME NEW g, NEW n \in Nat
  PROVE  \E sum : sum = [i \in 0 .. n |-> IF i = 0 THEN 0 ELSE sum[i - 1] + g[i]]
  <1> DEFINE Totals(f, m) ==
               f = [i \in 0 .. m |-> IF i = 0 THEN 0 ELSE f[i - 1] + g[i]]
             S == {m \in Nat : \E f : Totals(f, m)}
  <1>1. 0 \in S
    <2> DEFINE f == [i \in 0 .. 0 |-> 0]
    <2>1. Totals(f, 0)
      OBVIOUS
    <2> QED BY <2>1
  <1>2. ASSUME NEW m \in S PROVE m + 1 \in S
    <2>1. PICK f : Totals(f, m)
      OBVIOUS
    <2> DEFINE h == [i \in 0 .. m + 1 |-> IF i = m + 1 THEN f[m] + g[m + 1] ELSE f[i]]
               e == [i \in 0 .. m + 1 |-> IF i = 0 THEN 0 ELSE h[i - 1] + g[i]]
    <2>2. ASSUME NEW i \in 0 .. m + 1 PROVE h[i] = e[i]
      <3>1. CASE i = m + 1
        <4>1. m \in 0 .. m + 1 /\ m # m + 1 /\ m + 1 # 0
          OBVIOUS
        <4>2. h[m] = f[m] /\ h[m + 1] = f[m] + g[m + 1]
          BY <4>1
        <4>3. e[m + 1] = h[m] + g[m + 1]
          BY <4>1, <3>1
        <4> QED BY <3>1, <4>2, <4>3
      <3>2. CASE i # m + 1 /\ i # 0
        <4>1. i \in 0 .. m /\ i - 1 \in 0 .. m /\ i - 1 \in 0 .. m + 1 /\ i - 1 # m + 1
          BY <3>2
        <4>2. h[i] = f[i] /\ h[i - 1] = f[i - 1]
          BY <3>2, <4>1
        <4>3. e[i] = h[i - 1] + g[i]
          BY <3>2
        <4>4. f[i] = f[i - 1] + g[i]
          BY <2>1, <3>2, <4>1
        <4> QED BY <4>2, <4>3, <4>4
      <3>3. CASE i = 0
        <4>1. h[0] = f[0] /\ 0 \in 0 .. m
          BY <3>3
        <4>2. f[0] = 0
          BY <2>1, <4>1
        <4>3. e[0] = 0
          BY <3>3
        <4> QED BY <3>3, <4>1, <4>2, <4>3
      <3> QED BY <3>1, <3>2, <3>3
    <2>3. h = e
      BY <2>2
    <2>4. Totals(h, m + 1)
      BY <2>3
    <2> HIDE DEF h
    <2> QED BY <2>4
  <1> HIDE DEF S
  <1>3. S = Nat
    BY <1>1, <1>2, NatSetInduction DEF S
  <1> QED BY <1>3 DEF S

(* What the text of the first lines adds up to.                            *)
LEMMA LengthUpToAdds ==
  ASSUME NEW ps \in Seq(Param)
  PROVE  /\ LengthUpTo(ps)[0] = 0
         /\ \A i \in 1 .. Len(ps) :
              LengthUpTo(ps)[i] = LengthUpTo(ps)[i - 1] + LineLen(ps[i])
  <1> DEFINE g == [i \in 1 .. Len(ps) |-> LineLen(ps[i])]
             L == LengthUpTo(ps)
             n == Len(ps)
  <1>1. L = CHOOSE f : f = [i \in 0 .. Len(ps) |->
                               IF i = 0 THEN 0 ELSE f[i - 1] + LineLen(ps[i])]
    BY DEF LengthUpTo
  <1>2. n \in Nat
    OBVIOUS
  <1> HIDE DEF g, L
  <1>3. PICK f : f = [i \in 0 .. n |-> IF i = 0 THEN 0 ELSE f[i - 1] + g[i]]
    BY <1>2, TotalsExist
  <1>4. f = [i \in 0 .. n |-> IF i = 0 THEN 0 ELSE f[i - 1] + LineLen(ps[i])]
    BY <1>3, <1>2 DEF g
  <1>5. L = [i \in 0 .. n |-> IF i = 0 THEN 0 ELSE L[i - 1] + LineLen(ps[i])]
    BY <1>1, <1>4
  <1> QED BY <1>2, <1>5 DEF L

(* The whole list is at least as long as its first lines.                  *)
LEMMA LengthUpToGrows ==
  ASSUME NEW ps \in Seq(Param)
  PROVE  \A j \in 0 .. Len(ps) :
           /\ LengthUpTo(ps)[j] \in Nat
           /\ LengthUpTo(ps)[j] <= LengthUpTo(ps)[Len(ps)]
  <1> DEFINE L == LengthUpTo(ps)
             n == Len(ps)
             S == {j \in Nat : j <= n => L[j] \in Nat}
             G == {d \in Nat : d <= n => L[n - d] <= L[n]}
  <1>1. /\ n \in Nat /\ L[0] = 0
        /\ \A i \in 1 .. n : L[i] = L[i - 1] + LineLen(ps[i])
    BY LengthUpToAdds
  <1>2. \A i \in 1 .. n : LineLen(ps[i]) \in Nat
    <2> TAKE i \in 1 .. n
    <2>1. ps[i] \in Param
      OBVIOUS
    <2> QED BY <2>1, InfoAssumption DEF Param
  <1> HIDE DEF L, n
  <1>3. S = Nat
    <2>1. 0 \in S
      BY <1>1
    <2>2. ASSUME NEW j \in S PROVE j + 1 \in S
      <3> SUFFICES ASSUME j + 1 <= n PROVE L[j + 1] \in Nat
        OBVIOUS
      <3>1. j + 1 \in 1 .. n /\ (j + 1) - 1 = j /\ j <= n
        BY <1>1
      <3>2. L[j] \in Nat /\ L[j + 1] = L[j] + LineLen(ps[j + 1])
        BY <1>1, <3>1
      <3> QED BY <1>2, <3>1, <3>2
    <2> HIDE DEF S
    <2> QED BY <2>1, <2>2, NatSetInduction DEF S
  <1>4. G = Nat
    <2>1. 0 \in G
      <3>1. L[n] \in Nat /\ n - 0 = n
        BY <1>1, <1>3
      <3> QED BY <3>1
    <2>2. ASSUME NEW d \in G PROVE d + 1 \in G
      <3> SUFFICES ASSUME d + 1 <= n PROVE L[n - (d + 1)] <= L[n]
        OBVIOUS
      <3> DEFINE i == n - d
      <3>1. i \in 1 .. n /\ i - 1 = n - (d + 1) /\ i - 1 \in Nat /\ i - 1 <= n /\ d <= n
        BY <1>1
      <3>2. L[i] <= L[n] /\ L[i] = L[i - 1] + LineLen(ps[i])
        BY <1>1, <3>1
      <3> HIDE DEF i
      <3>3. L[i - 1] \in Nat /\ LineLen(ps[i]) \in Nat /\ L[n] \in Nat
        <4>1. \A j \in Nat : j <= n => L[j] \in Nat
          BY <1>3
        <4> HIDE DEF S
        <4> QED BY <1>1, <1>2, <3>1, <4>1
      <3>4. L[i - 1] <= L[n]
        BY <3>2, <3>3
      <3>5. L[n - (d + 1)] = L[i - 1]
        BY <3>1
      <3> QED BY <3>4, <3>5
    <2> HIDE DEF G
    <2> QED BY <2>1, <2>2, NatSetInduction DEF G
  <1>5. ASSUME NEW j \in 0 .. n PROVE L[j] \in Nat /\ L[j] <= L[n]
    <2>1. j \in Nat /\ j <= n /\ n - j \in Nat /\ n - j <= n /\ n - (n - j) = j
      BY <1>1
    <2> QED BY <1>3, <1>4, <2>1
  <1> QED BY <1>5 DEF L, n

(* One turn of the loop of kafka_table_describe_params(): snprintf() gets  *)
(* the room that is left, kafka-table.c:345-353.                           *)
LEMMA LineFits ==
  ASSUME NEW f, f.used \in Nat, NEW n \in Nat, f.used + 1 < ParamsMax
  PROVE  f.used + Stored(n, Room(f)) = Shortest(f.used + n, ParamsMax - 1)
  <1>1. /\ ParamsMax \in Nat /\ SizeMod \in Nat /\ SizeMod > 2 * ParamsMax
        /\ f.used \in Nat
    BY InfoAssumption
  <1> DEFINE room == ParamsMax - f.used
  <1>2. room \in Nat /\ room > 0 /\ room < SizeMod
    BY <1>1
  <1>3. (room + SizeMod) % SizeMod = room
    BY <1>1, <1>2
  <1>4. Room(f) = room
    <2>1. ParamsMax + SizeMod - f.used = room + SizeMod
      BY <1>1
    <2> QED BY <2>1, <1>3 DEF Room
  <1>5. Stored(n, room) = IF n <= room - 1 THEN n ELSE room - 1
    BY <1>2 DEF Stored, Shortest
  <1> QED BY <1>1, <1>4, <1>5 DEF Shortest

(* When the loop has ended, what it passed is the whole list or fills      *)
(* params[].                                                               *)
LEMMA LoopEnds ==
  ASSUME NEW ps \in Seq(Param), NEW f,
         f.i \in 1 .. Len(ps) + 1,
         f.used = LengthUpTo(ps)[f.i - 1],
         f.held = Shortest(f.used, ParamsMax - 1),
         ~(f.i \in DOMAIN ps /\ f.used + 1 < ParamsMax)
  PROVE  f.held = Shortest(LengthUpTo(ps)[Len(ps)], ParamsMax - 1)
  <1> DEFINE n == Len(ps)  whole == LengthUpTo(ps)[n]
  <1>1. n \in Nat /\ DOMAIN ps = 1 .. n /\ ParamsMax \in Nat
    BY InfoAssumption
  <1>2. f.i - 1 \in 0 .. n /\ n \in 0 .. n
    BY <1>1
  <1>3. f.used \in Nat /\ whole \in Nat /\ f.used <= whole
    BY <1>2, LengthUpToGrows
  <1>4. CASE f.i = n + 1
    <2>1. f.i - 1 = n
      BY <1>1, <1>4
    <2> QED BY <2>1
  <1>5. CASE f.i # n + 1
    <2>1. f.i \in DOMAIN ps
      BY <1>1, <1>5
    <2>2. f.used + 1 >= ParamsMax
      BY <2>1, <1>1, <1>3
    <2> HIDE DEF whole
    <2>3. Shortest(f.used, ParamsMax - 1) = Shortest(whole, ParamsMax - 1)
      BY <2>2, <1>1, <1>3 DEF Shortest
    <2> QED BY <2>3 DEF whole
  <1> QED BY <1>4, <1>5

(* The number of parameters has a printed length.                          *)
LEMMA DigitsType == ASSUME NEW n PROVE Digits(n) \in Nat
  <1> DEFINE K == {k \in 1 .. 9 : 10 ^ k <= n}
  <1>1. IsFiniteSet(1 .. 9)
    <2>1. 1 \in Int /\ 9 \in Int
      OBVIOUS
    <2> QED BY <2>1, FS_Interval, Zenon
  <1>2. IsFiniteSet(K)
    BY <1>1, FS_Subset
  <1>3. Cardinality(K) \in Nat
    BY <1>2, FS_CardinalityType
  <1> HIDE DEF K
  <1>4. 1 + Cardinality(K) \in Nat
    BY <1>3
  <1> QED BY <1>4 DEF Digits, K

(* The length kafka_info() returns is clamped to what snprintf() stored,   *)
(* kafka-cmd-info.c:69-76.                                                 *)
LEMMA ClampIsStored ==
  ASSUME NEW n \in Nat
  PROVE  /\ Clamped(n) = Stored(n, InfoMax) /\ Clamped(n) \in Nat
         /\ Stored(n, InfoMax) < InfoMax
  BY InfoAssumption DEF Clamped, Stored, Shortest

-------------------------------------------------------------------------------
(* The locals of one session between two steps.                            *)
ReaderOK(s) ==
  /\ ipc[s] \in InfoPCs /\ FrameOK(frame[s])
  /\ ipc[s] \in {"idle", "ready", "between"} =>
       frame[s].i = 1 /\ frame[s].used = 0 /\ frame[s].held = 0
  /\ ipc[s] = "loop" => LoopOK(frame[s])
  /\ ipc[s] \in {"loop", "print"} => frame[s].held < ParamsMax
  /\ ipc[s] \in {"between", "loop", "print"}
       /\ frame[s].brokers # None /\ ~frame[s].torn =>
     brokers = frame[s].brokers /\ conf = Configured(params, frame[s].brokers)
  /\ out[s].length <= out[s].written /\ out[s].written < InfoMax

ReadersOK ==
  /\ DOMAIN ipc = Reader /\ DOMAIN frame = Reader /\ DOMAIN out = Reader
  /\ conf = None <=> brokers = None
  /\ \A s \in Reader : ReaderOK(s)

(* The invariant, session by session.                                      *)
LEMMA InfoInvParts ==
  ASSUME InfoInv
  PROVE  ReadersOK
  BY DEF InfoInv, ReadersOK, ReaderOK, InfoIsConsistent, StaysInBuffer,
         TextIsWhatFits

LEMMA InfoInvWhole ==
  ASSUME params \in Seq(Param), ReadersOK
  PROVE  InfoInv
  <1>1. TextIsWhatFits
    <2> SUFFICES ASSUME NEW s \in Reader, ipc[s] = "loop", ~MoreLines(frame[s])
                 PROVE  frame[s].held = Shortest(WholeLength, ParamsMax - 1)
      BY DEF TextIsWhatFits, ReadersOK, ReaderOK
    <2>1. LoopOK(frame[s])
      BY DEF ReadersOK, ReaderOK
    <2> QED BY <2>1, LoopEnds DEF LoopOK, MoreLines, WholeLength
  <1> QED BY <1>1 DEF InfoInv, ReadersOK, ReaderOK, InfoIsConsistent, StaysInBuffer

(* The same after a step.                                                  *)
LEMMA InfoInvNext ==
  ASSUME params' \in Seq(Param), ReadersOK'
  PROVE  InfoInv'
  <1>1. TextIsWhatFits'
    <2> SUFFICES ASSUME NEW s \in Reader, ipc'[s] = "loop", ~MoreLines(frame[s])'
                 PROVE  frame'[s].held = Shortest(WholeLength', ParamsMax - 1)
      BY DEF TextIsWhatFits, ReadersOK, ReaderOK
    <2>1. LoopOK(frame[s])'
      BY DEF ReadersOK, ReaderOK
    <2> QED BY <2>1, LoopEnds DEF LoopOK, MoreLines, WholeLength
  <1> QED BY <1>1 DEF InfoInv, ReadersOK, ReaderOK, InfoIsConsistent, StaysInBuffer

(* The locals of a new call.                                               *)
LEMMA NewFrameOK ==
  ASSUME NEW b \in Value \cup {None}
  PROVE  /\ FrameOK(FrameWith(b)) /\ FrameWith(b).brokers = b
         /\ FrameWith(b).i = 1
         /\ FrameWith(b).used = 0 /\ FrameWith(b).held = 0
  <1> DEFINE f == FrameWith(b)
  <1>1. f = [brokers |-> f.brokers, torn |-> f.torn, i |-> f.i, used |-> f.used,
             held |-> f.held, nparams |-> f.nparams]
    BY DEF FrameWith
  <1>2. f.torn \in BOOLEAN
    BY DEF FrameWith
  <1>3. f.brokers = b /\ f.i = 1 /\ f.used = 0 /\ f.held = 0 /\ f.nparams = 0
    BY DEF FrameWith
  <1> HIDE DEF f
  <1>4. f.used \in Nat /\ f.held \in Nat /\ f.nparams \in Nat
    BY <1>3
  <1>5. FrameOK(f)
    BY <1>1, <1>2, <1>3, <1>4 DEF FrameOK
  <1> QED BY <1>3, <1>5 DEF f

LEMMA InfoStarts == InfoInit => InfoInv
  <1> SUFFICES ASSUME InfoInit PROVE InfoInv
    OBVIOUS
  <1>1. /\ DOMAIN ipc = Reader /\ DOMAIN frame = Reader /\ DOMAIN out = Reader
        /\ \A s \in Reader :
             ipc[s] = "idle" /\ frame[s] = Frame /\ out[s] = NoText
    BY DEF InfoInit
  <1>2. Frame.i = 1 /\ Frame.used = 0 /\ Frame.held = 0 /\ FrameOK(Frame)
    BY NewFrameOK DEF Frame
  <1>3. NoText.length <= NoText.written /\ NoText.written < InfoMax
    BY InfoAssumption DEF NoText
  <1>4. \A s \in Reader : ReaderOK(s)
    BY <1>1, <1>2, <1>3 DEF ReaderOK, InfoPCs
  <1>5. conf = None <=> brokers = None
    BY DEF InfoInit, Init
  <1>6. params \in Seq(Param)
    BY DEF InfoInit, Init
  <1> QED BY <1>1, <1>4, <1>5, <1>6, InfoInvWhole DEF ReadersOK

(* The steps of kafka_info() itself, kafka-cmd-info.c:17-79, move the      *)
(* locals and the text of one session.                                     *)
LEMMA InfoMovesOne ==
  ASSUME InfoInv, NEW s \in Reader, InfoStep(s)
  PROVE  /\ UNCHANGED vars
         /\ DOMAIN ipc' = Reader /\ DOMAIN frame' = Reader /\ DOMAIN out' = Reader
         /\ \A r \in Reader \ {s} :
              ipc'[r] = ipc[r] /\ frame'[r] = frame[r] /\ out'[r] = out[r]
  <1>1. DOMAIN ipc = Reader /\ DOMAIN frame = Reader /\ DOMAIN out = Reader
    BY DEF InfoInv
  <1>2. UNCHANGED vars /\ \E there : ipc' = [ipc EXCEPT ![s] = there]
    BY DEF InfoStep, kafka_info_init, kafka_table_get_brokers,
           kafka_table_describe_params, describe_line, describe_failed,
           describe_count, kafka_info, kafka_info_unprinted, kafka_info_deinit, From
  <1>3. UNCHANGED frame \/ \E f : frame' = [frame EXCEPT ![s] = f]
    <2> DEFINE f == frame[s]
               n == LineLen(params[f.i])
               g == [f EXCEPT !.i = f.i + 1, !.used = f.used + n,
                              !.held = f.used + Stored(n, Room(f))]
    <2>1. describe_line(s) => frame' = [frame EXCEPT ![s] = g]
      BY <1>1 DEF describe_line
    <2>2. describe_count(s) =>
            frame' = [frame EXCEPT ![s] = [f EXCEPT !.nparams = Len(params)]]
      BY <1>1 DEF describe_count
    <2>3. kafka_table_get_brokers(s) =>
            frame' = [frame EXCEPT ![s] = FrameWith(brokers)]
      BY DEF kafka_table_get_brokers
    <2>4. kafka_info(s) \/ kafka_info_unprinted(s) =>
            frame' = [frame EXCEPT ![s] = Frame]
      BY DEF kafka_info, kafka_info_unprinted
    <2>5. kafka_info_init(s) \/ kafka_table_describe_params(s)
            \/ kafka_info_deinit(s) => UNCHANGED frame
      BY DEF kafka_info_init, kafka_table_describe_params, kafka_info_deinit
    <2>6. describe_failed(s) =>
            \E h \in f.held .. ParamsMax - 1 :
              frame' = [frame EXCEPT ![s] =
                          [f EXCEPT !.held = h, !.nparams = Len(params)]]
      BY <1>1 DEF describe_failed
    <2> HIDE DEF f, g
    <2> QED BY <2>1, <2>2, <2>3, <2>4, <2>5, <2>6 DEF InfoStep
  <1>4. UNCHANGED out \/ \E o : out' = [out EXCEPT ![s] = o]
    BY DEF InfoStep, kafka_info_init, kafka_table_get_brokers,
           kafka_table_describe_params, describe_line, describe_failed,
           describe_count, kafka_info, kafka_info_unprinted, kafka_info_deinit
  <1> QED BY <1>1, <1>2, <1>3, <1>4

LEMMA InfoOwnStep ==
  ASSUME IndInv, InfoInv, NEW s \in Reader, InfoStep(s)
  PROVE  InfoInv'
  <1>0. /\ conf = None <=> brokers = None
        /\ DOMAIN ipc = Reader /\ DOMAIN frame = Reader /\ DOMAIN out = Reader
        /\ \A r \in Reader : ReaderOK(r)
    BY InfoInvParts DEF ReadersOK
  <1>1. /\ UNCHANGED <<params, conf, brokers>>
        /\ DOMAIN ipc' = Reader /\ DOMAIN frame' = Reader /\ DOMAIN out' = Reader
        /\ \A r \in Reader \ {s} :
             ipc'[r] = ipc[r] /\ frame'[r] = frame[r] /\ out'[r] = out[r]
    BY InfoMovesOne DEF vars
  <1>2. \A r \in Reader \ {s} : ReaderOK(r)'
    BY <1>0, <1>1 DEF ReaderOK, LoopOK, FrameOK, Configured
  <1>3. params \in Seq(Param) /\ brokers \in Value \cup {None}
    BY DEF IndInv, TypeOK
  <1>4. ReaderOK(s)'
    <2> DEFINE f == frame[s]  g == frame'[s]
    <2>0. ReaderOK(s) /\ FrameOK(f)
      BY <1>0 DEF ReaderOK
    <2>1. CASE kafka_info_init(s) \/ kafka_info_deinit(s)
      <3>1. /\ frame' = frame /\ ipc[s] \in {"idle", "ready"}
            /\ ipc'[s] \in {"idle", "ready"}
        BY <1>0, <2>1 DEF kafka_info_init, kafka_info_deinit, From
      <3>2. out' = out \/ out'[s] = NoText
        BY <1>0, <2>1 DEF kafka_info_init, kafka_info_deinit
      <3>3. NoText.length <= NoText.written /\ NoText.written < InfoMax
        BY InfoAssumption DEF NoText
      <3> QED BY <2>0, <3>1, <3>2, <3>3 DEF ReaderOK, InfoPCs
    <2>2. CASE kafka_table_get_brokers(s)
      <3>1. ipc'[s] = "between" /\ g = FrameWith(brokers) /\ out' = out
        BY <1>0, <2>2 DEF kafka_table_get_brokers, From
      <3>2. /\ FrameOK(g) /\ g.i = 1 /\ g.used = 0 /\ g.held = 0
            /\ g.brokers = brokers
        BY <1>3, <3>1, NewFrameOK
      <3>3. brokers # None => conf = Configured(params, brokers)
        BY <1>0 DEF IndInv, FrozenWhileConnected
      <3> HIDE DEF g
      <3>4. FrameOK(frame[s])'
        BY <3>2 DEF FrameOK, g
      <3> QED BY <1>1, <2>0, <3>1, <3>2, <3>3, <3>4 DEF ReaderOK, InfoPCs, Configured, g
    <2>3. CASE kafka_table_describe_params(s)
      <3>1. /\ frame' = frame /\ out' = out
            /\ ipc[s] = "between" /\ ipc'[s] = "loop"
        BY <1>0, <2>3 DEF kafka_table_describe_params, From
      <3>2. f.i = 1 /\ f.used = 0 /\ f.held = 0
        BY <2>0, <3>1 DEF ReaderOK
      <3>3. LoopOK(f)
        <4>1. LengthUpTo(params)[0] = 0 /\ Len(params) \in Nat
          BY <1>3, LengthUpToAdds
        <4>2. 1 \in 1 .. Len(params) + 1 /\ Shortest(0, ParamsMax - 1) = 0
          BY <4>1, InfoAssumption DEF Shortest
        <4> QED BY <3>2, <4>1, <4>2 DEF LoopOK
      <3>4. LoopOK(frame[s])'
        BY <1>1, <3>1, <3>3 DEF LoopOK
      <3> QED BY <1>1, <2>0, <3>1, <3>2, <3>4, InfoAssumption
              DEF ReaderOK, InfoPCs, FrameOK, Configured
    <2>4. CASE describe_line(s)
      <3> DEFINE n == LineLen(params[f.i])
      <3>1. /\ ipc[s] = "loop" /\ ipc'[s] = "loop" /\ MoreLines(f)
            /\ out' = out
            /\ g = [f EXCEPT !.i = f.i + 1, !.used = f.used + n,
                             !.held = f.used + Stored(n, Room(f))]
        BY <1>0, <2>4 DEF describe_line, From
      <3>2. /\ LoopOK(f) /\ f.i \in 1 .. Len(params) /\ f.used + 1 < ParamsMax
            /\ f.used \in Nat /\ Len(params) \in Nat
        BY <1>3, <2>0, <3>1 DEF ReaderOK, MoreLines, FrameOK
      <3>3. n \in Nat
        <4>1. params[f.i] \in Param
          BY <1>3, <3>2
        <4> QED BY <4>1, InfoAssumption DEF Param
      <3>4. f.used + Stored(n, Room(f)) = Shortest(f.used + n, ParamsMax - 1)
        BY <3>2, <3>3, LineFits
      <3>5. /\ Shortest(f.used + n, ParamsMax - 1) \in Nat
            /\ Shortest(f.used + n, ParamsMax - 1) < ParamsMax
            /\ f.used + n \in Nat
        BY <3>2, <3>3, InfoAssumption DEF Shortest
      <3>6. LengthUpTo(params)[f.i] = f.used + n
        BY <1>3, <3>2, LengthUpToAdds DEF LoopOK
      <3>7. /\ FrameOK(g) /\ g.brokers = f.brokers /\ g.torn = f.torn
            /\ g.i = f.i + 1 /\ g.used = f.used + n
            /\ g.held = Shortest(f.used + n, ParamsMax - 1)
        <4> HIDE DEF n, g
        <4>1. g = [brokers |-> f.brokers, torn |-> f.torn, i |-> f.i + 1,
                   used |-> f.used + n,
                   held |-> Shortest(f.used + n, ParamsMax - 1),
                   nparams |-> f.nparams]
          BY <2>0, <3>1, <3>4 DEF FrameOK
        <4> QED BY <2>0, <3>5, <4>1 DEF FrameOK
      <3>8. LoopOK(g)
        <4>1. g.i \in 1 .. Len(params) + 1 /\ g.i - 1 = f.i
          BY <3>2, <3>7
        <4> QED BY <3>6, <3>7, <4>1 DEF LoopOK
      <3> HIDE DEF g, n
      <3>9. LoopOK(frame[s])' /\ FrameOK(frame[s])'
        BY <1>1, <3>7, <3>8 DEF LoopOK, FrameOK, g
      <3> QED BY <1>1, <2>0, <3>1, <3>5, <3>7, <3>9 DEF ReaderOK, InfoPCs, Configured, g
    <2>5. CASE describe_count(s)
      <3>1. /\ ipc[s] = "loop" /\ ipc'[s] = "print" /\ out' = out
            /\ g = [f EXCEPT !.nparams = Len(params)]
        BY <1>0, <2>5 DEF describe_count, From
      <3>2. Len(params) \in Nat
        BY <1>3
      <3>3. /\ FrameOK(g) /\ g.brokers = f.brokers /\ g.torn = f.torn
            /\ g.used = f.used /\ g.held = f.held
        <4> HIDE DEF g
        <4>1. g = [brokers |-> f.brokers, torn |-> f.torn, i |-> f.i,
                   used |-> f.used, held |-> f.held, nparams |-> Len(params)]
          BY <2>0, <3>1 DEF FrameOK
        <4> QED BY <2>0, <3>2, <4>1 DEF FrameOK
      <3> HIDE DEF g
      <3>4. FrameOK(frame[s])'
        BY <3>3 DEF FrameOK, g
      <3> QED BY <1>1, <2>0, <3>1, <3>3, <3>4 DEF ReaderOK, InfoPCs, Configured, g
    <2>6. CASE kafka_info(s)
      <3> DEFINE n == HeadLen(f.brokers) + Digits(f.nparams) + f.held
      <3>1. /\ ipc'[s] = "ready" /\ g = Frame
            /\ out'[s] = [written |-> Stored(n, InfoMax), length |-> Clamped(n)]
        BY <1>0, <2>6 DEF kafka_info, From
      <3>2. n \in Nat
        <4>1. HeadLen(f.brokers) \in Nat /\ f.held \in Nat
          BY <2>0, InfoAssumption DEF FrameOK
        <4>2. Digits(f.nparams) \in Nat
          BY DigitsType
        <4> QED BY <4>1, <4>2
      <3> HIDE DEF n
      <3>3. out'[s].length <= out'[s].written /\ out'[s].written < InfoMax
        BY <3>1, <3>2, ClampIsStored
      <3>4. FrameOK(Frame) /\ Frame.i = 1 /\ Frame.used = 0 /\ Frame.held = 0
        BY NewFrameOK DEF Frame
      <3> HIDE DEF g
      <3>5. FrameOK(frame[s])'
        BY <3>1, <3>4 DEF FrameOK, g
      <3> QED BY <3>1, <3>3, <3>4, <3>5 DEF ReaderOK, InfoPCs, g
    <2>7. CASE describe_failed(s)
      <3>1. /\ ipc[s] = "loop" /\ ipc'[s] = "print" /\ out' = out
            /\ \E h \in f.held .. ParamsMax - 1 :
                 g = [f EXCEPT !.held = h, !.nparams = Len(params)]
        BY <1>0, <2>7 DEF describe_failed, From
      <3>2. PICK h \in f.held .. ParamsMax - 1 :
              g = [f EXCEPT !.held = h, !.nparams = Len(params)]
        BY <3>1
      <3>3. Len(params) \in Nat /\ f.held \in Nat
        BY <1>3, <2>0 DEF FrameOK
      <3>4. h \in Nat /\ h < ParamsMax
        BY <3>3, InfoAssumption
      <3>5. /\ FrameOK(g) /\ g.brokers = f.brokers /\ g.torn = f.torn
            /\ g.held = h
        <4> HIDE DEF g
        <4>1. g = [brokers |-> f.brokers, torn |-> f.torn, i |-> f.i,
                   used |-> f.used, held |-> h, nparams |-> Len(params)]
          BY <2>0, <3>2 DEF FrameOK
        <4> QED BY <2>0, <3>3, <3>4, <4>1 DEF FrameOK
      <3> HIDE DEF g
      <3>6. FrameOK(frame[s])'
        BY <3>5 DEF FrameOK, g
      <3> QED BY <1>1, <2>0, <3>1, <3>4, <3>5, <3>6
              DEF ReaderOK, InfoPCs, Configured, g
    <2>8. CASE kafka_info_unprinted(s)
      <3>1. /\ ipc'[s] = "ready" /\ g = Frame
            /\ out'[s] = NoText
        BY <1>0, <2>8 DEF kafka_info_unprinted, From
      <3>2. out'[s].length <= out'[s].written /\ out'[s].written < InfoMax
        BY <3>1, InfoAssumption DEF NoText
      <3>3. FrameOK(Frame) /\ Frame.i = 1 /\ Frame.used = 0 /\ Frame.held = 0
        BY NewFrameOK DEF Frame
      <3> HIDE DEF g
      <3>4. FrameOK(frame[s])'
        BY <3>1, <3>3 DEF FrameOK, g
      <3> QED BY <3>1, <3>2, <3>3, <3>4 DEF ReaderOK, InfoPCs, g
    <2> QED BY <2>1, <2>2, <2>3, <2>4, <2>5, <2>6, <2>7, <2>8 DEF InfoStep
  <1>5. (conf = None <=> brokers = None)' /\ params' \in Seq(Param)
    BY <1>0, <1>1, <1>3
  <1> QED BY <1>1, <1>2, <1>4, <1>5, InfoInvNext DEF ReadersOK

(* The calls of the other sessions: only a disconnect can part what        *)
(* kafka_info() shows from what is there.                                  *)
LEMMA OtherCallStep ==
  ASSUME IndInv, IndInv', InfoInv, NEW s \in Session, OtherCall(s)
  PROVE  InfoInv'
  <1>0. /\ conf = None <=> brokers = None
        /\ DOMAIN ipc = Reader /\ DOMAIN frame = Reader /\ DOMAIN out = Reader
        /\ \A r \in Reader : ReaderOK(r)
    BY InfoInvParts DEF ReadersOK
  <1>1. [Next]_vars /\ Call(s) /\ ipc' = ipc /\ out' = out
    BY DEF OtherCall, Next
  <1>2. ASSUME NEW r \in Reader
        PROVE  ReaderOK(r)'
    <2> DEFINE f == frame[r]  g == frame'[r]
               torn == f.torn \/ (ipc[r] # "idle" /\ conf # None /\ conf' = None)
    <2>1. FrameOK(f) /\ ReaderOK(r)
      BY <1>0 DEF ReaderOK
    <2>2. g = [f EXCEPT !.torn = torn]
      BY DEF OtherCall
    <2>3. /\ FrameOK(g) /\ g.brokers = f.brokers
          /\ g.i = f.i /\ g.used = f.used /\ g.held = f.held
          /\ g.torn = torn
      <3>1. torn \in BOOLEAN
        BY <2>1 DEF FrameOK
      <3> HIDE DEF g, torn
      <3>2. g = [brokers |-> f.brokers, torn |-> torn, i |-> f.i,
                 used |-> f.used, held |-> f.held, nparams |-> f.nparams]
        BY <2>1, <2>2 DEF FrameOK
      <3> QED BY <2>1, <3>1, <3>2 DEF FrameOK
    <2>4. ASSUME ipc[r] \in {"between", "loop", "print"}, f.brokers # None, ~g.torn
          PROVE  brokers' = f.brokers /\ conf' = Configured(params', f.brokers)
      <3>1. ~f.torn /\ (conf = None \/ conf' # None)
        BY <2>1, <2>3, <2>4
      <3>2. brokers = f.brokers /\ conf = Configured(params, f.brokers)
        BY <2>1, <2>4, <3>1 DEF ReaderOK
      <3>3. conf # None /\ conf' # None
        BY <1>0, <2>4, <3>1, <3>2
      <3> QED BY <1>1, <3>2, <3>3, ConnectedStaysPut
    <2>5. ipc[r] = "loop" => params' = params /\ LoopOK(f)
      BY <2>1 DEF ReaderOK, OtherCall
    <2> HIDE DEF f, torn
    <2>6. FrameOK(frame[r])'
      BY <2>3 DEF FrameOK
    <2>7. ipc[r] = "loop" => LoopOK(frame[r])'
      BY <2>3, <2>5 DEF LoopOK, f
    <2> HIDE DEF g
    <2>8. (Configured(params, frame[r].brokers))' = Configured(params', g.brokers)
      BY DEF Configured, g
    <2> QED BY <1>1, <2>1, <2>3, <2>4, <2>6, <2>7, <2>8 DEF ReaderOK, f, g
  <1>3. conf' = None <=> brokers' = None
    BY <1>0, <1>1, BrokersOfTheProducer
  <1>4. DOMAIN ipc' = Reader /\ DOMAIN frame' = Reader /\ DOMAIN out' = Reader
    BY <1>0, <1>1 DEF OtherCall
  <1>5. params' \in Seq(Param)
    BY DEF IndInv, TypeOK
  <1> QED BY <1>2, <1>3, <1>4, <1>5, InfoInvNext DEF ReadersOK

(* Nothing is mapped or unmapped while a session is in kafka_info().       *)
LEMMA LibraryLeavesInfo ==
  ASSUME IndInv, IndInv', InfoInv, LibraryStep
  PROVE  InfoInv'
  <1>1. conf' = None <=> brokers' = None
    BY BrokersOfTheProducer DEF LibraryStep, InfoInv, Next
  <1>2. UNCHANGED info /\ \A s \in Reader : ipc[s] = "idle"
    BY DEF LibraryStep
  <1>3. ReadersOK
    BY InfoInvParts
  <1>4. ReadersOK'
    BY <1>1, <1>2, <1>3 DEF ReadersOK, ReaderOK, FrameOK, info
  <1>5. params' \in Seq(Param)
    BY DEF IndInv, TypeOK
  <1> QED BY <1>4, <1>5, InfoInvNext

LEMMA NobodyLeavesInfo ==
  ASSUME IndInv', InfoInv, UNCHANGED infoVars
  PROVE  InfoInv'
  <1>1. ReadersOK'
    BY InfoInvParts
       DEF infoVars, vars, info, ReadersOK, ReaderOK, LoopOK, FrameOK, Configured
  <1>2. params' \in Seq(Param)
    BY DEF IndInv, TypeOK
  <1> QED BY <1>1, <1>2, InfoInvNext

(* kafka_info() beside every other call.                                   *)
THEOREM InfoInvariance == InfoSpec => [](IndInv /\ InfoInv)
  <1>1. InfoInit => IndInv /\ InfoInv
    BY InitIndInv, InfoStarts DEF InfoInit
  <1>2. ASSUME IndInv, InfoInv, [InfoNext]_infoVars
        PROVE  IndInv' /\ InfoInv'
    <2>1. IndInv'
      BY <1>2, InfoRefinesParams, NextIndInv
    <2> QED BY <1>2, <2>1, InfoOwnStep, OtherCallStep, LibraryLeavesInfo,
               NobodyLeavesInfo DEF InfoNext
  <1> QED BY <1>1, <1>2, PTL DEF InfoSpec

(* With kafka_info() beside them the parameters and the connection behave  *)
(* as without it: what is proved of them holds of the whole.               *)
THEOREM InfoChangesNothing == InfoSpec => Spec
  <1>1. InfoInit => Init
    BY DEF InfoInit
  <1> QED BY <1>1, InfoRefinesParams, PTL DEF InfoSpec, Spec

(* README.md, "Setting the same property twice replaces the earlier        *)
(* value", and the freeze of kafka_connect(), beside kafka_info().         *)
THEOREM InfoKeepsParams ==
  InfoSpec => [](OneEntryPerName /\ FrozenWhileConnected) /\ ImplementsParamMap
  BY InfoChangesNothing, OneEntryForEachName, ParametersAreFrozen,
     ParamsImplementMap, PTL

(* kafka-cmd-info.c:59-65: brokers and parameters come from two looks      *)
(* under the lock, and belong to one connection unless it ended between.   *)
THEOREM InfoStaysConsistent == InfoSpec => []InfoIsConsistent
  <1>1. InfoInv => InfoIsConsistent
    BY DEF InfoInv
  <1> QED BY <1>1, InfoInvariance, PTL

(* kafka-table.c:342-353, kafka-cmd-info.c:67-76: params[] is never        *)
(* overrun and no byte past the text is returned, for any lengths and      *)
(* wherever snprintf() fails.                                              *)
THEOREM InfoStaysInBuffer == InfoSpec => []StaysInBuffer
  <1>1. InfoInv => StaysInBuffer
    BY DEF InfoInv
  <1> QED BY <1>1, InfoInvariance, PTL

(* kafka-table.c:345-353: for any lengths, params[] holds as much of the   *)
(* list as fits.                                                           *)
THEOREM InfoIsWhatFits == InfoSpec => []TextIsWhatFits
  <1>1. InfoInv => TextIsWhatFits
    BY DEF InfoInv
  <1> QED BY <1>1, InfoInvariance, PTL
===============================================================================
