---------------------------- MODULE MCKafkaTable ----------------------------
(* KafkaTable with its sets given as model values.                         *)
EXTENDS KafkaTableInvariant, TLC

(* Nothing tells two sessions, topics, addresses or messages apart.        *)
Symmetry ==
  Permutations(Session) \cup Permutations(Topic)
    \cup Permutations(Record) \cup Permutations(Msg)
=============================================================================
