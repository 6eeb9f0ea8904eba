------------------------ MODULE KafkaProducer_proofs ------------------------
(***************************************************************************)
(* Whatever number of threads send, and however their calls overlap with   *)
(* the settings, the Producer in use was created with the current conf     *)
(* once no call is in progress.  The argument: a Producer that lags behind *)
(* conf always has a thread on its way to MakeConnection().  With the      *)
(* types, where a size that is about to become the limit has been accepted *)
(* by librdkafka, the same argument shows that the status is truthful.     *)
(***************************************************************************)
EXTENDS KafkaProducer, TLAPS

PlaceOK == place \in [Threads -> Places]

\* The producer lags behind conf only while a thread is about to replace it.
Behind  == {"field", "address", "connect"}
Lagging == \E t \in Threads : place[t] \in Behind
CurrentInv == PlaceOK /\ (producer \in {conf, None} \/ Lagging)

\* There is no producer without a broker address, and no address that conf lacks.
NeedsBroker ==
  /\ brokerAddr = None => producer = None
  /\ conf.broker = None => brokerAddr = None

CurrentIInv == CurrentInv /\ NeedsBroker
-----------------------------------------------------------------------------
\* A thread that moves on to another place keeps the places well-typed and
\* leaves the other threads where they are.
LEMMA GoOther ==
  ASSUME PlaceOK, NEW t \in Threads, NEW from, NEW to, Go(t, from, to),
         to \in Places
  PROVE  /\ PlaceOK' /\ place[t] = from /\ place'[t] = to
         /\ \A u \in Threads \ {t} : place'[u] = place[u]
BY DEF PlaceOK, Go, Places

\* A step that keeps conf and producer keeps the invariant, if the thread that
\* moves does not leave the part of a call that ends in MakeConnection().
LEMMA SameProducer ==
  ASSUME CurrentIInv, UNCHANGED <<conf, producer, brokerAddr>>, NEW t \in Threads, NEW from,
         NEW to, Go(t, from, to),
         to \in Places,
         from \in Behind => to \in Behind
  PROVE  CurrentIInv'
<1>1. /\ PlaceOK' /\ place[t] = from /\ place'[t] = to
      /\ \A u \in Threads \ {t} : place'[u] = place[u]
  BY GoOther DEF CurrentIInv, CurrentInv
<1>2. Lagging => Lagging'
  BY <1>1 DEF Lagging
<1> QED
  BY <1>1, <1>2 DEF CurrentIInv, CurrentInv, NeedsBroker

\* The invariant needs nothing but the places, conf and the producer.
LEMMA SamePlaces ==
  CurrentIInv /\ UNCHANGED <<conf, producer, brokerAddr, place>> => CurrentIInv'
BY DEF CurrentIInv, CurrentInv, PlaceOK, Lagging, NeedsBroker

\* A step that changes conf leaves its thread on the way to MakeConnection(),
\* and no step takes the broker address away.
LEMMA NewConf ==
  ASSUME CurrentIInv, NEW t \in Threads, NEW from, NEW to, Go(t, from, to),
         to \in Behind, UNCHANGED <<producer, brokerAddr>>,
         conf'.broker = None => conf.broker = None
  PROVE  CurrentIInv'
<1>1. PlaceOK' /\ place'[t] = to
  BY GoOther DEF CurrentIInv, CurrentInv, Behind, Places
<1> QED
  BY <1>1 DEF CurrentIInv, CurrentInv, NeedsBroker, Lagging

\* MakeConnection() leaves the producer of the current conf, or none.
LEMMA Connected ==
  ASSUME CurrentIInv, NEW t \in Threads, MakeConnection(t)
  PROVE  CurrentIInv'
<1>1. PlaceOK' /\ UNCHANGED <<conf, brokerAddr>>
  BY GoOther DEF MakeConnection, MakeConnectionWith, CurrentIInv, CurrentInv, members,
     Places
<1>2. producer' \in {conf, None} /\ (brokerAddr = None => producer' = None)
  BY DEF MakeConnection, MakeConnectionWith, CurrentIInv, NeedsBroker
<1> QED
  BY <1>1, <1>2 DEF CurrentIInv, CurrentInv, NeedsBroker

\* CurrentIInv holds in every reachable state.
LEMMA CurrentInvariant == Spec => []CurrentIInv
<1>1. Init => CurrentIInv
  BY DEF Init, CurrentIInv, CurrentInv, PlaceOK, Places, NeedsBroker
<1>2. CurrentIInv /\ [Next]_vars => CurrentIInv'
  <2> SUFFICES ASSUME CurrentIInv, [Next]_vars PROVE CurrentIInv'
    OBVIOUS
  <2> USE DEF Places, Behind, members
  <2>1. Senders \subseteq Threads /\ Port \in Threads
    BY DEF Threads
  <2>2. ASSUME NEW t \in Senders, Send(t) \/ CheckError(t) PROVE CurrentIInv'
    BY <2>1, <2>2, SameProducer DEF Send, CheckError
  <2>3. ASSUME NEW t \in Senders, Show(t) PROVE CurrentIInv'
    BY <2>1, <2>3, SameProducer DEF Show, ShowAs
  <2>4. ASSUME NEW t \in Senders, Produce(t) PROVE CurrentIInv'
    BY <2>1, <2>4, SameProducer DEF Produce
  <2>5. CASE SetMaxMessageSize
    BY <2>1, <2>5, SameProducer DEF SetMaxMessageSize
  <2>6. ASSUME NEW new, NEW then \in Behind, Configure(new, then),
               new.broker = None => conf.broker = None
        PROVE CurrentIInv'
    <3>1. CASE Go(Port, "rest", then) /\ conf' = new
      BY <2>1, <2>6, <3>1, NewConf DEF Configure
    <3>2. CASE UNCHANGED <<place, conf>>
      BY <2>6, <3>2, SamePlaces DEF Configure
    <3> QED
      BY <2>6, <3>1, <3>2 DEF Configure
  <2>7. CASE \/ SetBrokerAddr \/ SetMessageQueueLength \/ SetMessageBufferSizeKbytes
            \/ SetStatsTimeMS
    <3>1. ASSUME NEW b \in Brokers PROVE [conf EXCEPT !.broker = b].broker = None
                                           => conf.broker = None
      BY ProducerAssumption
    <3>2. ASSUME NEW q
          PROVE  /\ [conf EXCEPT !.queue = q].broker = conf.broker
                 /\ [conf EXCEPT !.kbytes = q].broker = conf.broker
                 /\ [conf EXCEPT !.interval = q].broker = conf.broker
      OBVIOUS
    <3> QED
      BY <2>6, <2>7, <3>1, <3>2 DEF SetBrokerAddr, SetMessageQueueLength,
         SetMessageBufferSizeKbytes, SetStatsTimeMS
  <2>8. CASE GetMaxMessageSize \/ SetMember
    BY <2>8, SamePlaces DEF GetMaxMessageSize, SetMember
  <2>9. ASSUME NEW t \in Threads, SetConfMax(t) PROVE CurrentIInv'
    <3>1. CASE Go(t, "set", "field") /\ conf' = [conf EXCEPT !.max = size[t]]
      BY <2>9, <3>1, NewConf DEF SetConfMax
    <3>2. CASE Go(t, "set", "rest") /\ UNCHANGED conf
      BY <2>9, <3>2, SameProducer DEF SetConfMax
    <3> QED
      BY <2>9, <3>1, <3>2 DEF SetConfMax
  <2>10. ASSUME NEW t \in Threads, SetField(t) PROVE CurrentIInv'
    BY <2>10, SameProducer DEF SetField
  <2>11. CASE StoreAddress
    <3>1. PlaceOK' /\ place'[Port] = "connect"
      BY <2>1, <2>11, GoOther DEF StoreAddress, CurrentIInv, CurrentInv
    <3> QED
      BY <2>1, <2>11, <3>1
         DEF StoreAddress, CurrentIInv, CurrentInv, NeedsBroker, Lagging
  <2>12. CASE Background
    BY <2>12, SamePlaces DEF Background, StartThread, PollLook, Poll, PollNot, PollNull,
       Transmit, Destroy
  <2>13. CASE UNCHANGED vars
    BY <2>13, SamePlaces DEF vars
  <2> QED
    BY <2>2, <2>3, <2>4, <2>5, <2>7, <2>8, <2>9, <2>10, <2>11, <2>12, <2>13, Connected
       DEF Next, Sender, Setting
<1> QED
  BY <1>1, <1>2, PTL DEF Spec

\* Once every call has returned, the Producer in use has the current settings.
THEOREM ProducerCurrent == Spec => []ProducerIsCurrent
<1>1. CurrentIInv => ProducerIsCurrent
  BY DEF CurrentIInv, CurrentInv, Lagging, Behind, ProducerIsCurrent, AtRest
<1> QED
  BY <1>1, CurrentInvariant, PTL
-----------------------------------------------------------------------------
\* A size that a thread is about to store as the limit is one that conf took.
FieldFits == \A t \in Threads : place[t] = "field" => size[t] \in MinSize..MaxSize

TypeIInv == TypeOK /\ FieldFits

\* Every variable keeps its type: the size limit never leaves the range that
\* librdkafka accepts, whoever writes it.
LEMMA TypeInvariant == Spec => []TypeIInv
<1> USE ProducerAssumption
<1>1. Init => TypeIInv
  <2> SUFFICES ASSUME Init PROVE TypeIInv
    OBVIOUS
  <2>1. conf \in Confs /\ producer \in Confs \cup {None} /\ currentStatus \in ConStats
    BY DEF Init, InitRdKafka, ConStats
  <2>2. maxMessageSize \in MinSize..MaxSize /\ brokerAddr \in Brokers \cup {None}
    BY DEF Init, InitRdKafka, Confs
  <2> QED
    BY <2>1, <2>2 DEF Init, InitRdKafka, TypeIInv, TypeOK, FieldFits, Places
<1>2. TypeIInv /\ [Next]_vars => TypeIInv'
  <2> SUFFICES ASSUME TypeIInv, [Next]_vars PROVE TypeIInv'
    OBVIOUS
  <2> USE DEF TypeIInv, TypeOK, FieldFits, Places
  <2>1. Senders \subseteq Threads /\ Port \in Threads
    BY DEF Threads
  <2>2. ASSUME NEW t \in Senders, Send(t) \/ CheckError(t) PROVE TypeIInv'
    BY <2>1, <2>2 DEF Send, CheckError, Go, members
  <2>3. ASSUME NEW t \in Senders, Show(t) PROVE TypeIInv'
    <3>1. conf.max \in MinSize..MaxSize
      BY DEF Confs
    <3> QED
      BY <2>1, <2>3, <3>1 DEF Show, ShowAs, Go, members
  <2>4. ASSUME NEW t \in Senders, Produce(t) PROVE TypeIInv'
    BY <2>1, <2>4 DEF Produce, Go, members, ConStats
  <2>5. CASE SetMaxMessageSize
    BY <2>1, <2>5 DEF SetMaxMessageSize, Go, members
  <2>6. ASSUME NEW new \in Confs, NEW then \in {"address", "connect"}, Configure(new, then)
        PROVE  TypeIInv'
    BY <2>1, <2>6 DEF Configure, Go, members, ConStats
  <2>7. CASE \/ SetBrokerAddr \/ SetMessageQueueLength \/ SetMessageBufferSizeKbytes
            \/ SetStatsTimeMS
    <3>1. /\ \A b \in Brokers : [conf EXCEPT !.broker = b] \in Confs
          /\ \A q \in QueueLengths : [conf EXCEPT !.queue = q] \in Confs
          /\ \A k \in BufferSizes : [conf EXCEPT !.kbytes = k] \in Confs
          /\ \A i \in Intervals : [conf EXCEPT !.interval = i] \in Confs
      BY DEF Confs
    <3> QED
      BY <2>6, <2>7, <3>1 DEF SetBrokerAddr, SetMessageQueueLength,
         SetMessageBufferSizeKbytes, SetStatsTimeMS
  <2>8. CASE GetMaxMessageSize
    BY <2>8 DEF GetMaxMessageSize, members, Confs
  <2>9. CASE SetMember
    BY <2>9 DEF SetMember
  <2>10. ASSUME NEW t \in Threads, SetConfMax(t) PROVE TypeIInv'
    <3>1. size[t] \in MinSize..MaxSize => [conf EXCEPT !.max = size[t]] \in Confs
      BY DEF Confs
    <3>2. CASE size[t] \in MinSize..MaxSize
      BY <2>10, <3>1, <3>2 DEF SetConfMax, Go, members
    <3>3. CASE size[t] \notin MinSize..MaxSize
      BY <2>10, <3>3 DEF SetConfMax, Go, members, ConStats
    <3> QED
      BY <3>2, <3>3
  <2>11. ASSUME NEW t \in Threads, SetField(t) PROVE TypeIInv'
    BY <2>11 DEF SetField, Go, members
  <2>12. ASSUME NEW t \in Threads, MakeConnection(t) PROVE TypeIInv'
    BY <2>12 DEF MakeConnection, MakeConnectionWith, Go, members, ConStats
  <2>13. CASE StartThread \/ PollLook \/ PollNot \/ PollNull \/ Transmit \/ Destroy
    BY <2>13 DEF StartThread, PollLook, PollNot, PollNull, Transmit, Destroy, members,
       ConStats
  <2>14. CASE Poll
    BY <2>14 DEF Poll, StatusOf, ConStats
  <2>15. CASE UNCHANGED vars
    BY <2>15 DEF vars, members
  <2>16. CASE StoreAddress
    <3>1. conf.broker \in Brokers \cup {None}
      BY DEF Confs
    <3> QED
      BY <2>1, <2>16, <3>1 DEF StoreAddress, Go
  <2> QED
    BY <2>2, <2>3, <2>4, <2>5, <2>7, <2>8, <2>9, <2>10, <2>11, <2>12, <2>13, <2>14,
       <2>15, <2>16 DEF Next, Sender, Setting, Background
<1> QED
  BY <1>1, <1>2, PTL DEF Spec

\* KafkaProducer's variables keep their types.
THEOREM ProducerTyped == Spec => []TypeOK
BY TypeInvariant, PTL DEF TypeIInv
-----------------------------------------------------------------------------
\* Without a producer, but with a broker to connect to, the status says so unless
\* a thread is on its way to MakeConnection().
MissingShows ==
  producer = None /\ brokerAddr # None /\ ~Lagging
    => currentStatus \in {"ERROR", "DISCONNECTED"}

ConnectedHasOne == currentStatus = "CONNECTED" => producer # None

StatusIInv == MissingShows /\ ConnectedHasOne

\* The status is truthful in every reachable state: a lost producer is told
\* in the step that loses it, and CONNECTED is said by poll() of a producer only.
LEMMA StatusInvariant == Spec => []StatusIInv
<1>1. Init => StatusIInv
  BY ProducerAssumption DEF Init, InitRdKafka, Confs, StatusIInv, MissingShows,
     ConnectedHasOne
<1>2. TypeIInv /\ CurrentIInv /\ StatusIInv /\ [Next]_vars => StatusIInv'
  <2> SUFFICES ASSUME TypeIInv, CurrentIInv, StatusIInv, [Next]_vars PROVE StatusIInv'
    OBVIOUS
  <2> USE DEF StatusIInv, MissingShows, ConnectedHasOne, Places, Behind, members
  <2>1. PlaceOK /\ Senders \subseteq Threads /\ Port \in Threads
    BY DEF Threads, CurrentIInv, CurrentInv
  <2>2. ASSUME UNCHANGED <<producer, brokerAddr, currentStatus>>, NEW t \in Threads,
               NEW from, NEW to, Go(t, from, to),
               to \in Places,
               from \in Behind => to \in Behind
        PROVE  StatusIInv'
    <3>1. /\ place[t] = from /\ place'[t] = to
          /\ \A u \in Threads \ {t} : place'[u] = place[u]
      BY <2>1, <2>2, GoOther
    <3> QED
      BY <2>2, <3>1 DEF Lagging
  <2>3. ASSUME UNCHANGED <<producer, place>>, currentStatus' = "ERROR" PROVE StatusIInv'
    BY <2>3 DEF Lagging
  <2>4. ASSUME NEW t \in Threads, NEW from, NEW to, Go(t, from, to),
               to \in Behind, UNCHANGED <<producer, currentStatus>>
        PROVE  StatusIInv'
    <3>1. place'[t] = to
      BY <2>1, <2>4, GoOther
    <3> QED
      BY <2>4, <3>1 DEF Lagging
  <2>5. ASSUME NEW t \in Senders, Send(t) \/ CheckError(t) \/ Show(t) PROVE StatusIInv'
    BY <2>1, <2>2, <2>5 DEF Send, CheckError, Show, ShowAs
  <2>6. ASSUME NEW t \in Senders, Produce(t) PROVE StatusIInv'
    <3>1. CASE UNCHANGED currentStatus
      BY <2>1, <2>2, <2>6, <3>1 DEF Produce
    <3>2. CASE currentStatus' = "ERROR"
      BY <2>6, <3>2 DEF Produce
    <3> QED
      BY <2>6, <3>1, <3>2 DEF Produce
  <2>7. CASE SetMaxMessageSize
    BY <2>1, <2>2, <2>7 DEF SetMaxMessageSize
  <2>8. ASSUME NEW new, NEW then \in Behind, Configure(new, then) PROVE StatusIInv'
    BY <2>1, <2>3, <2>4, <2>8 DEF Configure
  <2>9. CASE \/ GetMaxMessageSize \/ SetMember \/ PollLook \/ PollNot \/ PollNull
            \/ Transmit \/ Destroy
    BY <2>9 DEF GetMaxMessageSize, SetMember, PollLook, PollNot, PollNull, Transmit,
       Destroy, Lagging
  <2>10. ASSUME NEW t \in Threads, SetConfMax(t) PROVE StatusIInv'
    <3>1. CASE size[t] \in MinSize..MaxSize
      BY <2>4, <2>10, <3>1 DEF SetConfMax
    <3>2. CASE size[t] \notin MinSize..MaxSize
      BY <2>10, <3>2 DEF SetConfMax
    <3> QED
      BY <3>1, <3>2
  <2>11. ASSUME NEW t \in Threads, SetField(t) \/ (t = Port /\ StoreAddress)
         PROVE  StatusIInv'
    BY <2>4, <2>11 DEF SetField, StoreAddress
  <2>12. ASSUME NEW t \in Threads, MakeConnection(t) PROVE StatusIInv'
    BY <2>12, ProducerAssumption
       DEF MakeConnection, MakeConnectionWith, TypeIInv, TypeOK
  <2>13. CASE StartThread
    BY <2>13 DEF StartThread
  <2>14. CASE Poll
    BY <2>14 DEF Poll, Lagging
  <2>15. CASE UNCHANGED vars
    BY <2>15 DEF vars, Lagging
  <2> QED
    BY <2>1, <2>5, <2>6, <2>7, <2>8, <2>9, <2>10, <2>11, <2>12, <2>13, <2>14, <2>15
       DEF Next, Sender, Setting, Background, SetBrokerAddr, SetMessageQueueLength,
       SetMessageBufferSizeKbytes, SetStatsTimeMS
<1> QED
  BY <1>1, <1>2, TypeInvariant, CurrentInvariant, PTL DEF Spec

\* Whatever the order of reconnections, errors and statistics: CONNECTED always has
\* a Producer behind it, and a failed reconnection does not look like an attempt.
THEOREM ProducerStatusTruthful == Spec => []StatusTruthful
<1>1. StatusIInv => StatusTruthful
  BY DEF StatusIInv, MissingShows, ConnectedHasOne, StatusTruthful, Lagging, Behind,
     AtRest
<1> QED
  BY <1>1, StatusInvariant, PTL
=============================================================================
