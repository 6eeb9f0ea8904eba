---------------------------- MODULE KafkaConsumer ----------------------------
(***************************************************************************)
(* The KafkaConsumer class of ADKafka as its two callers use it: the asyn  *)
(* port thread, whose writeOctet() and writeInt32() change the broker, the *)
(* group, the topic, the statistics interval and the offset, and           *)
(* consumeTask(), which stops and starts consumption and takes messages.   *)
(*                                                                         *)
(* The class has no lock.  Port calls exclude each other (asyn port lock), *)
(* but consumeTask() has given that lock back when it calls WaitForPkg(),  *)
(* StartConsumption() and (before its idle loop) StopConsumption().  Each  *)
(* call is therefore cut at every access to shared state.  Serialised =    *)
(* TRUE is the class without that overlap, as its unit tests use it.       *)
(*                                                                         *)
(* librdkafka (external) is reduced to one assignment of one partition: a  *)
(* topic, the next offset to deliver, and whether it is paused.  All the   *)
(* messages of a topic are there from the start: one that has not arrived  *)
(* yet is one that consume() keeps timing out on.                          *)
(***************************************************************************)
EXTENDS Integers

CONSTANTS Serialised,  \* do calls exclude each other
          Topics, Brokers, Groups, Intervals,
          LogEnd,      \* messages of each topic: offsets 0..LogEnd-1 (bound)
          Written,     \* the values clients write to KAFKA_CURRENT_OFFSET
          IntMax,      \* the largest epicsInt32
          None         \* no topic, no broker, no message, no status

\* The logical offsets of librdkafka; Stored stands for its -1000.
Beginning == -2
End       == -1
Stored    == -3

\* What event_cb() shows in KAFKA_CONNECTION_STATUS.
ConStats == {"CONNECTED", "DISCONNECTED", "ERROR"}

ASSUME ConsumerAssumption ==
  /\ Serialised \in BOOLEAN
  /\ LogEnd \in Nat /\ IntMax \in Nat /\ IntMax >= 3
  /\ Written \subseteq -(IntMax + 1)..IntMax
  /\ None \notin Topics \cup Brokers \cup ConStats

VARIABLES
  connected,   \* consumer # nullptr
  settings,    \* conf, with brokerAddr, groupName and kafka_stats_interval
  live,        \* external: the settings the consumer object was created with
  assigned,    \* external: its assignment, [topic, pos]
  paused,      \* external: is that partition paused
  topicName,
  topicOffset,
  consumptionHalted,
  startOffset, \* usedOffsetSetting of the driver
  msgOffset,   \* parameter KAFKA_CURRENT_OFFSET
  conStatus,   \* parameter KAFKA_CONNECTION_STATUS
  port,        \* where the port thread is in a call
  toWrite,     \* the value writeInt32() stores in msgOffset as it returns
  given,       \* the argument of SetOffset()
  ending,      \* it is in the destructor
  task,        \* where consumeTask() is in a call
  named,       \* the topic in its local list of partitions
  message,     \* the offset of the message it was handed
  dangling,    \* it is in consume() on an object that has been deleted
  last,        \* history: the last message delivered between two port calls and since
               \* the topic or the offset was set
  expect       \* history: the offset a client asked for and has not been given yet

kafkaVars == <<live, assigned, paused>>
taskVars  == <<task, named, message, dangling>>
callVars  == <<toWrite, given, ending>>
portVars  == <<port, callVars>>
history   == <<last, expect>>
vars == <<connected, settings, kafkaVars, topicName, topicOffset, consumptionHalted,
          startOffset, msgOffset, conStatus, portVars, taskVars, history>>

StartOffsets == {"Beginning", "End", "Stored", "Manual"}
Unassigned   == [topic |-> None, pos |-> 0]
NoMessage    == [topic |-> None, offset |-> 0]

\* static_cast<int> of a 64-bit offset.
ToInt(offset) == ((offset + IntMax + 1) % (2 * (IntMax + 1))) - (IntMax + 1)

\* Mutant: every offset is accepted.
AnyOffset(offset) == TRUE

ValidOffset(offset) == offset >= 0 \/ offset \in {Beginning, End, Stored}

\* Mutant: a new assignment ignores the offset.
PositionsStored(offset) == 0..LogEnd

\* Where a new assignment begins.  End and Stored depend on what has arrived and
\* what the broker stored; an offset beyond the log is reset by the broker.
Positions(offset) ==
  IF offset \in 0..LogEnd THEN {offset}
  ELSE IF offset = Beginning THEN {0} ELSE 0..LogEnd

Ports == {"rest", "close", "delete", "forget", "create", "show", "unassign", "assign",
          "readHalted", "pause", "store", "gone"}

Tasks == {"rest", "stopping", "pausing", "pause", "starting", "resuming", "resume",
          "calling", "consuming", "got", "report"}

AtRest == port = "rest" /\ task = "rest"

\* The constructors: everything is set up before the driver's thread exists.
Init ==
  /\ settings \in [broker : Brokers \cup {None}, group : Groups, interval : Intervals]
  /\ topicName \in Topics \cup {None}
  /\ connected \in BOOLEAN
  /\ connected => settings.broker # None
  /\ live = settings
  /\ \/ connected /\ topicName # None
        /\ \E p \in Positions(Stored) : assigned = [topic |-> topicName, pos |-> p]
     \/ ~(connected /\ topicName # None) /\ assigned = Unassigned
  /\ paused = (assigned # Unassigned)
  /\ topicOffset = Stored /\ msgOffset = Stored /\ startOffset = "Stored"
  /\ consumptionHalted = TRUE
  /\ conStatus = None
  /\ port = "rest" /\ toWrite = None /\ given = None /\ ending = FALSE
  /\ task = "rest" /\ named = None /\ message = None /\ dangling = FALSE
  /\ last = NoMessage /\ expect = None
-----------------------------------------------------------------------------
(* Calls of the port thread.                                               *)

PortCall == port = "rest" /\ (Serialised => task = "rest")

\* SetBrokerAddr(), SetGroupId(), SetStatsTimeIntervalMS(): conf->set(), then a
\* new connection; a value that librdkafka rejects changes nothing.
Configure(new) ==
  /\ PortCall
  /\ \/ settings' = new /\ port' = "close" /\ UNCHANGED conStatus
     \/ conStatus' = "ERROR" /\ UNCHANGED <<settings, port>>
  /\ UNCHANGED <<connected, kafkaVars, topicName, topicOffset, consumptionHalted,
                 startOffset, msgOffset, callVars, taskVars, history>>

SetBrokerAddr == \E b \in Brokers : Configure([settings EXCEPT !.broker = b])
SetGroupId    == \E g \in Groups : Configure([settings EXCEPT !.group = g])
SetStatsTimeIntervalMS ==
  \E i \in Intervals : Configure([settings EXCEPT !.interval = i])

SetTopic ==
  /\ PortCall
  /\ topicName' \in Topics
  /\ port' = "unassign"
  /\ last' = IF topicName' = topicName THEN last ELSE NoMessage
  /\ UNCHANGED <<connected, settings, kafkaVars, topicOffset, consumptionHalted,
                 startOffset, msgOffset, conStatus, callVars, taskVars, expect>>

\* SetOffset(), called by writeInt32(), which then stores the value after.  A
\* rejected offset does not stop it from storing.
SetOffset(offset, after) ==
  /\ PortCall
  /\ toWrite' = after
  /\ IF ValidOffset(offset)
     THEN /\ topicOffset' = offset
          /\ given' = offset
          /\ port' = "show"
          /\ last' = NoMessage
          /\ expect' = IF offset \in 0..(LogEnd - 1) THEN offset ELSE None
     ELSE /\ port' = "store"
          /\ UNCHANGED <<topicOffset, given, history>>
  /\ UNCHANGED <<connected, settings, kafkaVars, topicName, consumptionHalted,
                 msgOffset, conStatus, ending, taskVars>>

ShowOffset ==
  /\ port = "show" /\ port' = "unassign"
  /\ msgOffset' = ToInt(given)
  /\ given' = None
  /\ UNCHANGED <<connected, settings, kafkaVars, topicName, topicOffset,
                 consumptionHalted, startOffset, conStatus, toWrite, ending, taskVars,
                 history>>

\* A write of KAFKA_CURRENT_OFFSET is ignored unless the driver is in Manual.
WriteCurrentOffset ==
  /\ startOffset = "Manual"
  /\ \E value \in Written : SetOffset(value, value)
  /\ UNCHANGED startOffset

OffsetOf(m) ==
  CASE m = "Beginning" -> Beginning [] m = "End" -> End
    [] m = "Stored" -> Stored [] m = "Manual" -> msgOffset

WriteStartOffset ==
  \E m \in StartOffsets : SetOffset(OffsetOf(m), None) /\ startOffset' = m

\* What MakeConnection() and the destructor do once nothing is connected.
Rebuild == IF ending THEN "gone" ELSE IF settings.broker = None THEN "store" ELSE "create"

Close ==
  /\ port = "close"
  /\ port' = IF connected THEN "delete" ELSE Rebuild
  /\ assigned' = Unassigned /\ paused' = FALSE
  /\ UNCHANGED <<connected, settings, live, topicName, topicOffset, consumptionHalted,
                 startOffset, msgOffset, conStatus, callVars, taskVars, history>>

\* consumer->close(), then delete.  A call made in between finds what it would have
\* found before: an object with nothing assigned.
Delete ==
  /\ port = "delete" /\ port' = "forget"
  /\ dangling' = (dangling \/ task = "consuming")
  /\ UNCHANGED <<connected, settings, kafkaVars, topicName, topicOffset,
                 consumptionHalted, startOffset, msgOffset, conStatus, callVars, task,
                 named, message, history>>

Forget ==
  /\ port = "forget" /\ port' = Rebuild
  /\ connected' = FALSE
  /\ UNCHANGED <<settings, kafkaVars, topicName, topicOffset, consumptionHalted,
                 startOffset, msgOffset, conStatus, callVars, taskVars, history>>

CreateThen(next, failed) ==
  /\ port = "create"
  /\ \/ connected' = TRUE /\ live' = settings /\ port' = next
        /\ UNCHANGED conStatus
     \/ conStatus' = failed /\ port' = "store"
        /\ UNCHANGED <<connected, live>>
  /\ UNCHANGED <<settings, assigned, paused, topicName, topicOffset, consumptionHalted,
                 startOffset, msgOffset, callVars, taskVars, history>>

\* Mutants: no UpdateTopic() after a reconnection; a failure is not reported.
CreateOnly   == CreateThen("store", "ERROR")
CreateSilent == CreateThen("unassign", conStatus)

Create == CreateThen("unassign", "ERROR")

\* UpdateTopic()
Unassign ==
  /\ port = "unassign"
  /\ IF connected /\ topicName # None
     THEN port' = "assign" /\ assigned' = Unassigned /\ paused' = FALSE
     ELSE port' = "store" /\ UNCHANGED <<assigned, paused>>
  /\ UNCHANGED <<connected, settings, live, topicName, topicOffset, consumptionHalted,
                 startOffset, msgOffset, conStatus, callVars, taskVars, history>>

Assign ==
  /\ port = "assign"
  /\ \E p \in Positions(topicOffset) : assigned' = [topic |-> topicName, pos |-> p]
  /\ port' = "readHalted"
  /\ UNCHANGED <<connected, settings, live, paused, topicName, topicOffset,
                 consumptionHalted, startOffset, msgOffset, conStatus, callVars,
                 taskVars, history>>

ReadHaltedThen(next) ==
  /\ port = "readHalted" /\ port' = next
  /\ UNCHANGED <<connected, settings, kafkaVars, topicName, topicOffset,
                 consumptionHalted, startOffset, msgOffset, conStatus, callVars,
                 taskVars, history>>

\* Mutants: a new assignment is never, or always, paused.
ReadHaltedNot    == ReadHaltedThen("store")
ReadHaltedAlways == ReadHaltedThen("pause")

ReadHalted == ReadHaltedThen(IF consumptionHalted THEN "pause" ELSE "store")

PauseNew ==
  /\ port = "pause" /\ port' = "store"
  /\ paused' = TRUE
  /\ UNCHANGED <<connected, settings, live, assigned, topicName, topicOffset,
                 consumptionHalted, startOffset, msgOffset, conStatus, callVars,
                 taskVars, history>>

\* The setIntegerParam(function, value) at the end of writeInt32().
StoreWritten ==
  /\ port = "store" /\ port' = "rest"
  /\ toWrite' = None
  /\ msgOffset' = IF toWrite = None THEN msgOffset ELSE toWrite
  /\ UNCHANGED <<connected, settings, kafkaVars, topicName, topicOffset,
                 consumptionHalted, startOffset, conStatus, given, ending, taskVars,
                 history>>

\* The destructor.  It is for the owner to call it while no port call is in
\* progress; nothing here keeps it from a task that is in one of its calls.
Destroy ==
  /\ PortCall
  /\ port' = "close"
  /\ ending' = TRUE
  /\ UNCHANGED <<connected, settings, kafkaVars, topicName, topicOffset,
                 consumptionHalted, startOffset, msgOffset, conStatus, toWrite, given,
                 taskVars, history>>

Port == \/ SetBrokerAddr \/ SetGroupId \/ SetStatsTimeIntervalMS
        \/ SetTopic \/ WriteCurrentOffset \/ WriteStartOffset
        \/ Close \/ Delete \/ Forget \/ Create
        \/ ShowOffset \/ Unassign \/ Assign \/ ReadHalted \/ PauseNew
        \/ StoreWritten \/ Destroy
-----------------------------------------------------------------------------
(* Calls of consumeTask().  A call on the member object is preceded by a   *)
(* check of the pointer, not made again when the call is.                  *)

\* There is no calling an object after its destructor.
TaskCall == task = "rest" /\ port # "gone" /\ (Serialised => port = "rest")

\* The pointer that the task reads leads to an object.
ConsumerThere == connected /\ port # "forget"

\* StopConsumption() and StartConsumption(); only the task writes the flag.
SetHalted(halt) ==
  /\ TaskCall
  /\ consumptionHalted = ~halt /\ consumptionHalted' = halt
  /\ task' = IF halt THEN "stopping" ELSE "starting"
  /\ UNCHANGED <<connected, settings, kafkaVars, topicName, topicOffset, startOffset,
                 msgOffset, conStatus, portVars, named, message, dangling, history>>

StopConsumption  == SetHalted(TRUE)
StartConsumption == SetHalted(FALSE)

CheckConsumer ==
  /\ \/ task = "stopping" /\ task' = IF connected THEN "pausing" ELSE "rest"
     \/ task = "starting" /\ task' = IF connected THEN "resuming" ELSE "rest"
  /\ UNCHANGED <<connected, settings, kafkaVars, topicName, topicOffset,
                 consumptionHalted, startOffset, msgOffset, conStatus, portVars, named,
                 message, dangling, history>>

\* consumer->assignment(topics).  From an object that is gone it may get anything.
GetAssignment ==
  /\ \/ task = "pausing" /\ task' = "pause"
     \/ task = "resuming" /\ task' = "resume"
  /\ named' \in IF ConsumerThere THEN {assigned.topic} ELSE Topics \cup {None}
  /\ UNCHANGED <<connected, settings, kafkaVars, topicName, topicOffset,
                 consumptionHalted, startOffset, msgOffset, conStatus, portVars, message,
                 dangling, history>>

\* consumer->pause(topics), which pauses what is still assigned of them.
PauseNamed ==
  /\ task = "pause" /\ task' = "rest"
  /\ paused' = (paused \/ (assigned # Unassigned /\ assigned.topic = named))
  /\ named' = None
  /\ UNCHANGED <<connected, settings, live, assigned, topicName, topicOffset,
                 consumptionHalted, startOffset, msgOffset, conStatus, portVars,
                 message, dangling, history>>

ResumeNamed ==
  /\ task = "resume" /\ task' = "rest"
  /\ paused' = (paused /\ assigned.topic # named)
  /\ named' = None
  /\ UNCHANGED <<connected, settings, live, assigned, topicName, topicOffset,
                 consumptionHalted, startOffset, msgOffset, conStatus, portVars,
                 message, dangling, history>>

\* WaitForPkg(); without a consumer or a topic it returns at once.
WaitForPkg ==
  /\ TaskCall
  /\ connected /\ topicName # None
  /\ task' = "calling"
  /\ UNCHANGED <<connected, settings, kafkaVars, topicName, topicOffset,
                 consumptionHalted, startOffset, msgOffset, conStatus, portVars, named,
                 message, dangling, history>>

Consume ==
  /\ task = "calling" /\ task' = "consuming"
  /\ dangling' = ~ConsumerThere
  /\ UNCHANGED <<connected, settings, kafkaVars, topicName, topicOffset,
                 consumptionHalted, startOffset, msgOffset, conStatus, portVars, named,
                 message, history>>

\* consume() calls event_cb() with errors and statistics, a deleted object may too.
Event ==
  /\ task = "consuming"
  /\ conStatus' \in ConStats
  /\ UNCHANGED <<connected, settings, kafkaVars, topicName, topicOffset,
                 consumptionHalted, startOffset, msgOffset, portVars, taskVars, history>>

\* A timeout, an error, or the end of a call on a deleted object.
ConsumeNothing ==
  /\ task = "consuming" /\ task' = "rest"
  /\ dangling' = FALSE
  /\ UNCHANGED <<connected, settings, kafkaVars, topicName, topicOffset,
                 consumptionHalted, startOffset, msgOffset, conStatus, portVars, named,
                 message, history>>

Deliver ==
  /\ task = "consuming" /\ ~dangling
  /\ assigned # Unassigned /\ ~paused /\ assigned.pos < LogEnd
  /\ task' = "got"
  /\ message' = assigned.pos
  /\ assigned' = [assigned EXCEPT !.pos = @ + 1]
  /\ last' = IF port = "rest" THEN [topic |-> assigned.topic, offset |-> assigned.pos]
             ELSE NoMessage
  /\ expect' = IF assigned.pos = expect THEN None ELSE expect
  /\ UNCHANGED <<connected, settings, live, paused, topicName, topicOffset,
                 consumptionHalted, startOffset, msgOffset, conStatus, portVars,
                 named, dangling>>

KeepOffsetAs(offset) ==
  /\ task = "got" /\ task' = "report"
  /\ topicOffset' = offset
  /\ message' = None
  /\ UNCHANGED <<connected, settings, kafkaVars, topicName, consumptionHalted,
                 startOffset, msgOffset, conStatus, portVars, named, dangling,
                 history>>

\* Mutant: the member is not updated.
KeepOffsetNot == KeepOffsetAs(topicOffset)

KeepOffset == KeepOffsetAs(message)

ReportOffsetAs(offset) ==
  /\ task = "report" /\ task' = "rest"
  /\ msgOffset' = offset
  /\ UNCHANGED <<connected, settings, kafkaVars, topicName, topicOffset,
                 consumptionHalted, startOffset, conStatus, portVars, named, message,
                 dangling, history>>

\* Mutant: the parameter is not updated.
ReportOffsetNot == ReportOffsetAs(msgOffset)

ReportOffset == ReportOffsetAs(ToInt(topicOffset))

Task == \/ StopConsumption \/ StartConsumption
        \/ CheckConsumer \/ GetAssignment \/ PauseNamed \/ ResumeNamed
        \/ WaitForPkg \/ Consume \/ Event \/ ConsumeNothing \/ Deliver
        \/ KeepOffset \/ ReportOffset

Next == Port \/ Task

Spec == Init /\ [][Next]_vars
-----------------------------------------------------------------------------
TypeOK ==
  /\ connected \in BOOLEAN /\ consumptionHalted \in BOOLEAN
  /\ paused \in BOOLEAN /\ dangling \in BOOLEAN
  /\ settings \in [broker : Brokers \cup {None}, group : Groups, interval : Intervals]
  /\ live \in [broker : Brokers \cup {None}, group : Groups, interval : Intervals]
  /\ assigned \in [topic : Topics \cup {None}, pos : 0..LogEnd]
  /\ topicName \in Topics \cup {None}
  /\ topicOffset \in Nat \cup {Beginning, End, Stored}
  /\ startOffset \in StartOffsets
  /\ msgOffset \in -(IntMax + 1)..IntMax
  /\ conStatus \in ConStats \cup {None}
  /\ port \in Ports
  /\ toWrite \in Written \cup {None}
  /\ given \in Nat \cup {Beginning, End, Stored, None}
  /\ ending \in BOOLEAN
  /\ task \in Tasks
  /\ named \in Topics \cup {None}
  /\ message \in 0..LogEnd \cup {None}
  /\ last \in [topic : Topics \cup {None}, offset : 0..LogEnd]
  /\ expect \in 0..LogEnd \cup {None}

\* What the code relies on whenever no call of the port thread is in progress,
\* even with calls of consumeTask() overlapping: the consumer works with the
\* settings the members hold, reconnections that failed included, and is assigned
\* the topic of topicName.
PortConsistent ==
  port = "rest" /\ connected =>
    /\ live = settings
    /\ assigned.topic = topicName

\* A halt survives reconnections and topic changes, whatever they overlap with:
\* once StopConsumption() and the port call are over, a halted consumer is paused.
HaltHolds ==
  port = "rest" /\ task \notin {"stopping", "pausing", "pause"} =>
    (consumptionHalted /\ assigned # Unassigned => paused)

\* And so does a start: a consumer that is not halted is not left paused.
StartHolds == AtRest /\ ~consumptionHalted => ~paused

\* KafkaConsumer.h:188-190: while consumption is stopped WaitForPkg() returns no
\* message.  In the idle loop of consumeTask() one would abort the process.
HaltedIsSilent == [][Deliver => ~consumptionHalted]_vars

\* Between explicit changes of topic or offset no message is skipped and at most
\* the last one is delivered again, whatever reconnections happen in between.
AtLeastOnce ==
  [][Deliver /\ port = "rest" /\ last.topic = assigned.topic /\ last # NoMessage
       => assigned.pos \in {last.offset, last.offset + 1}]_vars

\* The offset a client sets is the one of the next message it gets, even if the
\* consumer reconnects or changes the topic first.
OffsetApplied ==
  [][Deliver /\ port = "rest" /\ expect # None => assigned.pos = expect]_vars

\* At rest KAFKA_CURRENT_OFFSET reads the offset in use, as an epicsInt32; the
\* values that SetOffset() rejects are the exception.
OffsetReadback ==
  AtRest /\ ValidOffset(msgOffset) => msgOffset = ToInt(topicOffset)

\* KafkaConsumer.h:162-165: WaitForPkg() works on a configured connection or
\* returns at once; it never waits on a consumer object that is gone.
ConsumerOutlivesCall == task = "consuming" => ~dangling

\* A CONNECTED status is never shown without a consumer object behind it.
ConnectedHasConsumer == AtRest /\ conStatus = "CONNECTED" => connected
=============================================================================
