------------------------- MODULE MCProducerLifecycle -------------------------
(* Model values for TLC: two of the three names stand for one setting, as  *)
(* acks and request.required.acks do, and one names the broker list.       *)
EXTENDS ProducerLifecycle

CONSTANTS s1, s2, v1, v2, bootstrap, acks, required_acks

MCName == {bootstrap, acks, required_acks}
MCAccepted == (MCName \X {v1, v2}) \ {<<bootstrap, v2>>}
MCSettingOf == [n \in MCName |-> IF n = required_acks THEN acks ELSE n]
MCDefault == [x \in Setting |-> v1]
=============================================================================
