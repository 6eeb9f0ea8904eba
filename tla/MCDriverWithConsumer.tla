------------------------ MODULE MCDriverWithConsumer ------------------------
(* One topic of one message and one broker, each there from the start or set   *)
(* later; one packet taken at most.  With one image asked for, the mode        *)
(* Multiple ends where Single does, and MCSpec leaves it out.                  *)
EXTENDS DriverWithConsumer
CONSTANTS t1, b1, g1
const_Topics      == {t1}
const_Brokers     == {b1}
const_Groups      == {g1}
const_Intervals   == {500}
const_ImageCounts == {1}
const_Written     == {0}

MCInit == Init /\ imageMode # "Multiple"

MCSpec == MCInit /\ [][Next]_vars /\ Fairness
=============================================================================
