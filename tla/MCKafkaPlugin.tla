---------------------------- MODULE MCKafkaPlugin ----------------------------
(* A queue of one array; packets of 3 and 5 units for a limit that starts at 2 *)
(* and librdkafka caps at 4; clients write a size within the cap, and one      *)
(* beyond it.                                                                  *)
EXTENDS KafkaPlugin
CONSTANTS b1, tp
const_Senders     == {Source, Worker}
const_Brokers     == {b1}
const_PacketSizes == {3, 5}
const_Written     == {1, 6}
const_One         == {1}
const_Topics      == {tp}
=============================================================================
