----------------------------- MODULE MCKafkaInfo -----------------------------
(* Lengths for TLC: one line fits the buffer, two fill it to the last byte *)
(* or are cut, a third must not be tried; one head fills the result.       *)
EXTENDS MCKafkaParams, KafkaInfo

MCLineLen(p) == IF p.name = bootstrap THEN 3 ELSE 2
MCHeadLen(b) == IF b = None THEN 1 ELSE IF b = v1 THEN 2 ELSE 7
=============================================================================
