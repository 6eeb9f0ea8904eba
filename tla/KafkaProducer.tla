---------------------------- MODULE KafkaProducer ----------------------------
(***************************************************************************)
(* The KafkaProducer class of ADPluginKafka and the threads that use it at *)
(* the same time: those that send a serialised array (processCallbacks()   *)
(* gives the port lock back around SendKafkaPacket()), the asyn port       *)
(* thread that writes settings, and the class's own polling thread.        *)
(*                                                                         *)
(* brokerMutex protects the Producer pointer only: MakeConnection(), the   *)
(* end of SendKafkaPacket() and the inside of the polling loop are atomic. *)
(* conf, maxMessageSize and BrokerAddr are read and written outside of it, *)
(* so calls are cut between those accesses, and a sender's call where it   *)
(* reads errorState again.                                                 *)
(*                                                                         *)
(* librdkafka (external) is what conf accepts, whether a producer can be   *)
(* created, and a queue per producer that background threads drain.  A     *)
(* packet is its size.  The members that only repeat what conf was told    *)
(* are left out, except maxMessageSize, which SendKafkaPacket() compares,  *)
(* and BrokerAddr, which MakeConnection() tests.  The null conf that       *)
(* RdKafka::Conf::create() might return is left out too.                   *)
(***************************************************************************)
EXTENDS Integers

CONSTANTS Senders, Port,  \* the threads
          PacketSizes,    \* sizes of the serialised arrays
          WrittenSizes,   \* sizes clients write to KAFKA_MAX_MSG_SIZE
          MinSize, MaxSize,  \* the range librdkafka accepts for it
          StartSize,      \* the default of maxMessageSize
          Brokers, QueueLengths, BufferSizes, Intervals, Topics,
          FlushSettings,  \* whether, and for how long, to flush at a reconnection
          None            \* no broker, no producer

Threads == Senders \cup {Port}
Confs == [max : MinSize..MaxSize, broker : Brokers \cup {None}, queue : QueueLengths,
          kbytes : BufferSizes, interval : Intervals]

ASSUME ProducerAssumption ==
  /\ Port \notin Senders
  /\ None \notin Brokers /\ None \notin Confs
  /\ PacketSizes \cup WrittenSizes \subseteq Nat \ {0}
  /\ QueueLengths \subseteq Nat \ {0}
  /\ StartSize \in MinSize..MaxSize /\ MinSize \in Nat /\ MaxSize \in Nat

VARIABLES
  conf,           \* the librdkafka configuration
  maxMessageSize, \* the member
  brokerAddr,     \* the member BrokerAddr, None while it is empty
  errorState,
  flush,          \* doFlush and flushTimeout
  topicName,
  producer,       \* the conf the Producer was created with, or None
  queued,         \* external: packets in its queue
  currentStatus,
  unsent,         \* UnsentMessages
  place,          \* where each thread is in a call
  size,           \* the packet or setting it works on
  poll            \* where the polling thread is

members == <<brokerAddr, flush, topicName, unsent>>
vars == <<conf, maxMessageSize, errorState, members, producer, queued, currentStatus,
          place, size, poll>>

Places == {"rest", "enlarge", "set", "field", "address", "connect", "show", "produce"}
ConStats == {"CONNECTED", "CONNECTING", "DISCONNECTED", "ERROR"}

\* InitRdKafka() has configured librdkafka, or gave up before it came to the
\* settings, which then are librdkafka's own and not the members'.
InitRdKafka ==
  /\ maxMessageSize = StartSize
  /\ errorState \in BOOLEAN
  /\ conf \in {c \in Confs : IF errorState THEN c.broker = None ELSE c.max = StartSize}

\* The constructor: without a broker address, which SetBrokerAddr() does not store
\* after an error, MakeConnection() sets the status all the same.
Init ==
  /\ InitRdKafka
  /\ brokerAddr = conf.broker
  /\ flush \in FlushSettings /\ topicName \in Topics /\ unsent = 0
  /\ \/ producer = conf /\ brokerAddr # None /\ currentStatus = "CONNECTING"
     \/ /\ producer = None
        /\ currentStatus = IF brokerAddr = None THEN "CONNECTING" ELSE "ERROR"
  /\ queued = 0
  /\ place = [t \in Threads |-> "rest"] /\ size = [t \in Threads |-> 0]
  /\ poll = "off"

Running == poll \in {"rest", "polling", "refused"}
AtRest  == \A t \in Threads : place[t] = "rest"

Go(t, from, to) == place[t] = from /\ place' = [place EXCEPT ![t] = to]
-----------------------------------------------------------------------------
(* SetMaxMessageSize() and MakeConnection(), in whichever thread.          *)

\* Another sender may have given up since SendKafkaPacket() looked.
CheckError(t) ==
  /\ Running
  /\ Go(t, "enlarge", IF errorState THEN "rest" ELSE "set")
  /\ UNCHANGED <<conf, maxMessageSize, errorState, members, producer, queued,
                 currentStatus, size, poll>>

\* A sender whose packet librdkafka cannot take gives up for good.
SetConfMax(t) ==
  /\ Running
  /\ IF size[t] \in MinSize..MaxSize
     THEN /\ Go(t, "set", "field")
          /\ conf' = [conf EXCEPT !.max = size[t]]
          /\ UNCHANGED <<errorState, currentStatus>>
     ELSE /\ Go(t, "set", "rest")
          /\ errorState' = (errorState \/ t \in Senders)
          /\ currentStatus' = "ERROR"
          /\ UNCHANGED conf
  /\ UNCHANGED <<maxMessageSize, members, producer, queued, size, poll>>

SetField(t) ==
  /\ Running
  /\ Go(t, "field", "connect")
  /\ maxMessageSize' = size[t]
  /\ UNCHANGED <<conf, errorState, members, producer, queued, currentStatus,
                 size, poll>>

\* The old producer goes with all it has queued.  Without a broker address the
\* status is set all the same.  A failed creation shows as the status failed.
MakeConnectionWith(t, new, failed) ==
  /\ Running
  /\ Go(t, "connect", IF t \in Senders THEN "show" ELSE "rest")
  /\ \/ brokerAddr # None /\ producer' = new /\ queued' = 0
        /\ currentStatus' = "CONNECTING"
     \/ brokerAddr # None /\ producer' = None /\ queued' = 0
        /\ currentStatus' = failed
     \/ brokerAddr = None /\ UNCHANGED <<producer, queued>>
        /\ currentStatus' = "CONNECTING"
  /\ UNCHANGED <<conf, maxMessageSize, errorState, members, size, poll>>

\* Mutants: the size of the member is used, not that of conf; a failure to create
\* a producer shows as a connection attempt; the message size is fixed.
MakeConnectionOwnSize(t)  ==
  MakeConnectionWith(t, [conf EXCEPT !.max = maxMessageSize], "ERROR")
MakeConnectionHopeful(t)  == MakeConnectionWith(t, conf, "CONNECTING")
MakeConnectionSameSize(t) == MakeConnectionWith(t, [conf EXCEPT !.max = StartSize], "ERROR")

MakeConnection(t) == MakeConnectionWith(t, conf, "ERROR")
-----------------------------------------------------------------------------
(* SendKafkaPacket()                                                       *)

Send(t) ==
  /\ Running /\ ~errorState
  /\ \E s \in PacketSizes :
       /\ size' = [size EXCEPT ![t] = s]
       /\ Go(t, "rest", IF s > maxMessageSize THEN "enlarge" ELSE "produce")
  /\ UNCHANGED <<conf, maxMessageSize, errorState, members, producer, queued,
                 currentStatus, poll>>

\* MaxMessageSize.updateDbValue() reads the value with GetMaxMessageSize(), which
\* takes it back from conf.
ShowAs(t, value) ==
  /\ Running
  /\ Go(t, "show", "produce")
  /\ maxMessageSize' = value
  /\ UNCHANGED <<conf, errorState, members, producer, queued, currentStatus, size, poll>>

\* Mutant: the overhead is subtracted once too often.
ShowLess(t) == ShowAs(t, conf.max - 1)

Show(t) == ShowAs(t, conf.max)

Refused(t) == size[t] > producer.max \/ queued >= producer.queue

Produce(t) ==
  /\ Running
  /\ Go(t, "produce", "rest")
  /\ IF producer = None THEN UNCHANGED <<queued, currentStatus>>
     ELSE IF Refused(t) THEN currentStatus' = "ERROR" /\ UNCHANGED queued
     ELSE queued' = queued + 1 /\ UNCHANGED currentStatus
  /\ UNCHANGED <<conf, maxMessageSize, errorState, members, producer, size, poll>>

Sender == \E t \in Senders : Send(t) \/ CheckError(t) \/ Show(t) \/ Produce(t)
-----------------------------------------------------------------------------
(* Settings, written with the port lock held.                              *)

SetMaxMessageSize ==
  /\ Running /\ ~errorState
  /\ Go(Port, "rest", "set")
  /\ \E s \in WrittenSizes : size' = [size EXCEPT ![Port] = s]
  /\ UNCHANGED <<conf, maxMessageSize, errorState, members, producer, queued,
                 currentStatus, poll>>

\* conf->set(), and the rest of the setter unless conf rejects the value.
Configure(new, then) ==
  /\ Running /\ ~errorState
  /\ \/ Go(Port, "rest", then) /\ conf' = new /\ UNCHANGED currentStatus
     \/ place[Port] = "rest" /\ currentStatus' = "ERROR" /\ UNCHANGED <<place, conf>>
  /\ UNCHANGED <<maxMessageSize, errorState, members, producer, queued, size,
                 poll>>

SetBrokerAddr == \E b \in Brokers : Configure([conf EXCEPT !.broker = b], "address")
SetMessageQueueLength ==
  \E q \in QueueLengths : Configure([conf EXCEPT !.queue = q], "connect")
SetMessageBufferSizeKbytes ==
  \E k \in BufferSizes : Configure([conf EXCEPT !.kbytes = k], "connect")
SetStatsTimeMS == \E i \in Intervals : Configure([conf EXCEPT !.interval = i], "connect")

\* The rest of SetBrokerAddr(); nobody else changes the address.
StoreAddress ==
  /\ Running
  /\ Go(Port, "address", "connect")
  /\ brokerAddr' = conf.broker
  /\ UNCHANGED <<conf, maxMessageSize, errorState, flush, topicName, unsent, producer,
                 queued, currentStatus, size, poll>>

GetMaxMessageSize ==
  /\ Running /\ place[Port] = "rest"
  /\ maxMessageSize' = conf.max
  /\ UNCHANGED <<conf, errorState, members, producer, queued, currentStatus, place,
                 size, poll>>

\* AttemptFlushAtReconnect(), FlushTimeout() and SetTopic(), without the mutex.
SetMember ==
  /\ Running /\ place[Port] = "rest"
  /\ \/ flush' \in FlushSettings /\ UNCHANGED topicName
     \/ topicName' \in Topics /\ UNCHANGED flush
  /\ UNCHANGED <<conf, maxMessageSize, brokerAddr, errorState, unsent, producer, queued,
                 currentStatus, place, size, poll>>

Setting == \/ SetMaxMessageSize \/ SetBrokerAddr \/ StoreAddress
           \/ SetMessageQueueLength \/ SetMessageBufferSizeKbytes \/ SetStatsTimeMS
           \/ GetMaxMessageSize \/ SetMember
           \/ \E t \in Threads : SetConfMax(t) \/ SetField(t) \/ MakeConnection(t)
-----------------------------------------------------------------------------
(* The polling thread and librdkafka's own.                                *)

\* The plugin's constructor starts the thread before anyone else can call.  After
\* an error there is none, and the object is used without it.
StartThread ==
  /\ poll = "off"
  /\ IF errorState THEN poll' = "refused" /\ currentStatus' = "ERROR"
     ELSE poll' = "rest" /\ currentStatus' = "DISCONNECTED"
  /\ UNCHANGED <<conf, maxMessageSize, errorState, members, producer, queued, place, size>>

\* ThreadFunction() looks at Producer before it has the mutex.
PollLook ==
  /\ poll = "rest" /\ producer # None
  /\ poll' = "polling"
  /\ UNCHANGED <<conf, maxMessageSize, errorState, members, producer, queued,
                 currentStatus, place, size>>

\* ParseStatusString(): the states of the brokers that the statistics name.
StatusOf(states) ==
  IF states = {} THEN "ERROR" ELSE IF "UP" \in states THEN "CONNECTED" ELSE "DISCONNECTED"

\* poll() may call event_cb() with an error or with statistics, which may be
\* unreadable.
Poll ==
  /\ poll = "polling" /\ poll' = "rest"
  /\ producer # None
  /\ \/ /\ \E states \in SUBSET {"UP", "DOWN"} : currentStatus' = StatusOf(states)
        /\ unsent' = queued
     \/ currentStatus' \in {"DISCONNECTED", "ERROR"} /\ UNCHANGED unsent
     \/ UNCHANGED <<currentStatus, unsent>>
  /\ UNCHANGED <<conf, maxMessageSize, brokerAddr, errorState, flush, topicName, producer,
                 queued, place, size>>

\* The mutex is not to be had in time.
PollNot ==
  /\ poll = "polling" /\ poll' = "rest"
  /\ UNCHANGED <<conf, maxMessageSize, errorState, members, producer, queued,
                 currentStatus, place, size>>

\* A reconnection has failed since the look: poll() of a null Producer is the end of
\* the process.
PollNull ==
  /\ poll = "polling" /\ poll' = "crashed"
  /\ producer = None
  /\ UNCHANGED <<conf, maxMessageSize, errorState, members, producer, queued,
                 currentStatus, place, size>>

Transmit ==
  /\ poll \notin {"gone", "crashed"} /\ queued > 0
  /\ queued' = queued - 1
  /\ UNCHANGED <<conf, maxMessageSize, errorState, members, producer, currentStatus,
                 place, size, poll>>

\* The destructor joins the polling thread; nobody else uses the object by then.
Destroy ==
  /\ AtRest
  /\ poll \in {"rest", "refused"} /\ poll' = "gone"
  /\ UNCHANGED <<conf, maxMessageSize, errorState, members, producer, queued,
                 currentStatus, place, size>>

Background ==
  \/ StartThread \/ PollLook \/ Poll \/ PollNot \/ PollNull
  \/ Transmit \/ Destroy

Next == Sender \/ Setting \/ Background

Spec == Init /\ [][Next]_vars
-----------------------------------------------------------------------------
\* Every variable has its type; the size limit stays in librdkafka's range.
TypeOK ==
  /\ conf \in Confs
  /\ maxMessageSize \in MinSize..MaxSize
  /\ brokerAddr \in Brokers \cup {None}
  /\ errorState \in BOOLEAN
  /\ flush \in FlushSettings /\ topicName \in Topics /\ unsent \in Nat
  /\ producer \in Confs \cup {None}
  /\ queued \in Nat
  /\ currentStatus \in ConStats
  /\ place \in [Threads -> Places]
  /\ size \in [Threads -> PacketSizes \cup WrittenSizes \cup {0}]
  /\ poll \in {"off", "rest", "polling", "refused", "gone", "crashed"}

\* However the calls overlap, once no call is in progress the Producer in use was
\* created with the current settings: the last MakeConnection() comes after the
\* last conf->set().
ProducerIsCurrent == AtRest => producer \in {conf, None}

\* The status does not lie about the connection: CONNECTED always has a Producer
\* behind it, and a reconnection that failed does not look like an attempt.
StatusTruthful ==
  /\ currentStatus = "CONNECTED" => producer # None
  /\ AtRest /\ producer = None /\ brokerAddr # None
       => currentStatus \in {"ERROR", "DISCONNECTED"}
=============================================================================
