--------------------------- MODULE MCKafkaConsumer ---------------------------
(* Two topics, two brokers; -5 and -4 are offsets that SetOffset() rejects.  *)
(* The long log goes beyond the integers of KAFKA_CURRENT_OFFSET.            *)
EXTENDS KafkaConsumer
CONSTANTS t1, t2, b1, b2, g1
const_Topics    == {t1, t2}
const_Brokers   == {b1, b2}
const_Groups    == {g1}
const_Intervals == {500, 900}
const_Written   == {-5, 0, 1}
const_LogEnd    == 2
const_IntMax    == 7
const_LongLog   == 5
const_ShortInt  == 3
const_ShortWritten == {-4, 0, 2}
=============================================================================
