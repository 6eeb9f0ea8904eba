---------------------------- MODULE MCKafkaDriver ----------------------------
(* The driver on a topic of a few messages.                                *)
EXTENDS KafkaDriver
const_ImageCounts == {0, 2}
=============================================================================
