--------------------------- MODULE MCKafkaProducer ---------------------------
EXTENDS KafkaProducer

CONSTANTS d1, d2, s1, k1, k2, none

(* Two domains sharing a service id, two keys and the empty key; three     *)
(* publishes reach a cached builder with a key left from an earlier call.  *)
MCDomains == {d1, d2}
MCServices == {s1}
MCKeys == {k1, k2}
MCMaxPublish == 3
=============================================================================
