--------------------------- MODULE MCKafkaProducer ---------------------------
(* Packets of 1 to 5 units for a limit that starts at 2 and librdkafka caps at *)
(* 4; queues of one packet, and of two.                                        *)
EXTENDS KafkaProducer
CONSTANTS s1, s2, b1, tp
const_Senders      == {s1, s2}
const_Brokers      == {b1}
const_PacketSizes  == {1, 3, 5}
const_Written      == {1, 3}
const_QueueLengths == {1, 2}
const_One          == {1}
const_Topics       == {tp}
=============================================================================
