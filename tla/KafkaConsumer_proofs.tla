------------------------ MODULE KafkaConsumer_proofs ------------------------
(***************************************************************************)
(* Proofs about KafkaConsumer, for any topics, brokers, groups and offsets.*)
(*                                                                         *)
(* What holds however the calls of the two threads overlap: between port   *)
(* calls a halted consumer is paused, and the consumer works with the      *)
(* members' settings and topic; every variable has its type.  The          *)
(* arguments follow the port thread through MakeConnection() and           *)
(* UpdateTopic(), and the task through StopConsumption(): what is wrong in *)
(* the middle of them is named by the place where it is put right.         *)
(*                                                                         *)
(* What holds if the calls exclude each other (Serialised): a CONNECTED    *)
(* status has a consumer behind it, a start leaves nothing paused, a       *)
(* halted consumer delivers nothing, the offset reads back, is applied,    *)
(* and survives reconnections.  Here topicOffset is the                    *)
(* key: ReadbackIInv, LastIInv and ExpectIInv relate it to what clients    *)
(* see, what was delivered last and what was asked for, and Positions()    *)
(* carries it over to each new assignment.                                 *)
(***************************************************************************)
EXTENDS KafkaConsumer, TLAPS

\* Between consumer->assign() and the end of UpdateTopic().
Assigning == port \in {"readHalted", "pause"}

\* There is an assignment only with a consumer, and UpdateTopic() only goes on
\* with one.
HasConsumer ==
  /\ assigned # Unassigned => ConsumerThere /\ port # "delete"
  /\ port = "assign" \/ Assigning => connected

\* An assignment that should be paused and is not yet has a call under way that
\* pauses it; none that resumes it is under way.
PauseComing ==
  /\ consumptionHalted /\ assigned # Unassigned /\ ~paused
       => \/ Assigning
          \/ task \in {"stopping", "pausing"}
          \/ task = "pause" /\ named = assigned.topic
  /\ task \in {"starting", "resuming", "resume"} => ~consumptionHalted

HaltIInv == HasConsumer /\ PauseComing

\* The assignment is a record, and there is none without a topic.
AssignedOK ==
  /\ assigned \in [topic : Topics \cup {None}, pos : Nat]
  /\ topicName = None => assigned = Unassigned
  /\ port = "assign" => topicName # None
  /\ topicName \in Topics \cup {None}

\* A consumer lags behind the settings or the topic only while the port thread is
\* on its way to MakeConnection() or UpdateTopic().
InStep ==
  /\ connected /\ port \notin {"close", "delete", "forget"} => live = settings
  /\ connected /\ port \notin {"close", "delete", "forget", "show", "unassign", "assign"}
       => assigned.topic = topicName

PortIInv == AssignedOK /\ InStep
-----------------------------------------------------------------------------
\* Every assignment begins at a natural number.
LEMMA PositionsNat ==
  ASSUME NEW offset PROVE Positions(offset) \subseteq Nat
BY ConsumerAssumption DEF Positions

\* The calls that change settings or topic touch nothing the halt depends on.
LEMMA PortStartsHalt ==
  ASSUME HaltIInv,
         \/ SetBrokerAddr \/ SetGroupId \/ SetStatsTimeIntervalMS
         \/ SetTopic \/ WriteCurrentOffset \/ WriteStartOffset
  PROVE  HaltIInv'
<1>1. UNCHANGED <<connected, kafkaVars, consumptionHalted, task, named>>
  BY DEF SetBrokerAddr, SetGroupId, SetStatsTimeIntervalMS, Configure, SetTopic,
         WriteCurrentOffset, WriteStartOffset, SetOffset, kafkaVars, taskVars
<1>2. port = "rest" /\ (port' = port \/ port' \in {"close", "show", "unassign", "store"})
  BY DEF SetBrokerAddr, SetGroupId, SetStatsTimeIntervalMS, Configure, SetTopic,
         WriteCurrentOffset, WriteStartOffset, SetOffset, PortCall
<1> QED
  BY <1>1, <1>2 DEF HaltIInv, HasConsumer, ConsumerThere, PauseComing, Assigning, kafkaVars

\* HaltIInv holds in every reachable state.
LEMMA HaltInvariant == Spec => []HaltIInv
<1> USE DEF HaltIInv, HasConsumer, ConsumerThere, PauseComing, Assigning
<1>1. Init => HaltIInv
  BY DEF Init
<1>2. HaltIInv /\ [Next]_vars => HaltIInv'
  <2> SUFFICES ASSUME HaltIInv, [Next]_vars PROVE HaltIInv'
    OBVIOUS
  <2>1. CASE \/ SetBrokerAddr \/ SetGroupId \/ SetStatsTimeIntervalMS
             \/ SetTopic \/ WriteCurrentOffset \/ WriteStartOffset
    BY <2>1, PortStartsHalt
  <2>2. CASE Close \/ Delete \/ Forget
    BY <2>2 DEF Close, Delete, Forget, Rebuild, kafkaVars, taskVars
  <2>3. CASE Create
    BY <2>3 DEF Create, CreateThen, taskVars
  <2>4. CASE ShowOffset \/ Unassign
    BY <2>4 DEF ShowOffset, Unassign, kafkaVars, taskVars
  <2>5. CASE Assign
    BY <2>5 DEF Assign, taskVars
  <2>6. CASE ReadHalted
    BY <2>6 DEF ReadHalted, ReadHaltedThen, kafkaVars, taskVars
  <2>7. CASE PauseNew
    BY <2>7 DEF PauseNew, taskVars
  <2>8. CASE StoreWritten \/ Destroy
    BY <2>8 DEF StoreWritten, Destroy, PortCall, kafkaVars, taskVars
  <2>9. CASE StopConsumption \/ StartConsumption
    BY <2>9 DEF StopConsumption, StartConsumption, SetHalted, TaskCall, kafkaVars,
                portVars
  <2>10. CASE CheckConsumer
    BY <2>10 DEF CheckConsumer, kafkaVars, portVars
  <2>11. CASE GetAssignment
    BY <2>11 DEF GetAssignment, kafkaVars, portVars
  <2>12. CASE PauseNamed
    BY <2>12 DEF PauseNamed, portVars
  <2>13. CASE ResumeNamed
    BY <2>13 DEF ResumeNamed, portVars
  <2>14. CASE WaitForPkg \/ Consume \/ Event \/ ConsumeNothing
    BY <2>14 DEF WaitForPkg, Consume, Event, ConsumeNothing, TaskCall, kafkaVars,
                 portVars, taskVars
  <2>15. CASE Deliver
    BY <2>15 DEF Deliver, portVars
  <2>16. CASE KeepOffset \/ ReportOffset
    BY <2>16 DEF KeepOffset, KeepOffsetAs, ReportOffset, ReportOffsetAs, kafkaVars,
                 portVars
  <2>17. CASE UNCHANGED vars
    BY <2>17 DEF vars, kafkaVars, portVars, taskVars
  <2> QED
    BY <2>1, <2>2, <2>3, <2>4, <2>5, <2>6, <2>7, <2>8, <2>9, <2>10, <2>11, <2>12,
       <2>13, <2>14, <2>15, <2>16, <2>17 DEF Next, Port, Task
<1> QED
  BY <1>1, <1>2, PTL DEF Spec

\* Whatever reconnections and topic changes overlap with StopConsumption(), once
\* the calls are over a halted consumer is paused.
THEOREM HaltIsKept == Spec => []HaltHolds
<1>1. HaltIInv => HaltHolds
  BY DEF HaltIInv, PauseComing, Assigning, HaltHolds
<1> QED
  BY <1>1, HaltInvariant, PTL
-----------------------------------------------------------------------------
\* The steps that leave the assignment and the topic to a later one.
LEMMA PortSteps ==
  ASSUME PortIInv,
         \/ SetBrokerAddr \/ SetGroupId \/ SetStatsTimeIntervalMS
         \/ SetTopic \/ WriteCurrentOffset \/ WriteStartOffset
         \/ ShowOffset \/ ReadHalted \/ PauseNew \/ StoreWritten \/ Destroy
  PROVE  PortIInv'
<1> USE DEF PortIInv, AssignedOK, InStep
<1>1. CASE SetBrokerAddr \/ SetGroupId \/ SetStatsTimeIntervalMS
  BY <1>1 DEF SetBrokerAddr, SetGroupId, SetStatsTimeIntervalMS, Configure, PortCall,
              kafkaVars
<1>2. CASE SetTopic
  BY <1>2, ConsumerAssumption DEF SetTopic, PortCall, kafkaVars
<1>3. CASE WriteCurrentOffset \/ WriteStartOffset
  BY <1>3 DEF WriteCurrentOffset, WriteStartOffset, SetOffset, PortCall, kafkaVars
<1>4. CASE ReadHalted
  BY <1>4 DEF ReadHalted, ReadHaltedThen, kafkaVars
<1>5. CASE PauseNew
  BY <1>5 DEF PauseNew
<1>6. CASE ShowOffset \/ StoreWritten \/ Destroy
  BY <1>6 DEF ShowOffset, StoreWritten, Destroy, PortCall, kafkaVars
<1> QED
  BY <1>1, <1>2, <1>3, <1>4, <1>5, <1>6

\* PortIInv holds in every reachable state.
LEMMA PortInvariant == Spec => []PortIInv
<1> USE DEF PortIInv, AssignedOK, InStep
<1>1. Init => PortIInv
  <2> SUFFICES ASSUME Init PROVE PortIInv
    OBVIOUS
  <2>1. AssignedOK /\ (connected => assigned.topic = topicName)
    BY PositionsNat DEF Init, Unassigned
  <2> QED
    BY <2>1 DEF Init
<1>2. PortIInv /\ [Next]_vars => PortIInv'
  <2> SUFFICES ASSUME PortIInv, [Next]_vars PROVE PortIInv'
    OBVIOUS
  <2>1. Unassigned \in [topic : Topics \cup {None}, pos : Nat] /\ Unassigned.topic = None
    BY DEF Unassigned
  <2>2. CASE \/ SetBrokerAddr \/ SetGroupId \/ SetStatsTimeIntervalMS
             \/ SetTopic \/ WriteCurrentOffset \/ WriteStartOffset
             \/ ShowOffset \/ ReadHalted \/ PauseNew \/ StoreWritten \/ Destroy
    BY <2>2, PortSteps
  <2>3. CASE Close \/ Delete \/ Forget
    BY <2>1, <2>3 DEF Close, Delete, Forget, Rebuild, kafkaVars
  <2>4. CASE Create
    BY <2>4 DEF Create, CreateThen
  <2>5. CASE Unassign
    BY <2>1, <2>5 DEF Unassign
  <2>6. CASE Assign
    BY <2>6, PositionsNat DEF Assign
  <2>7. CASE Deliver
    <3>1. assigned' \in [topic : Topics \cup {None}, pos : Nat]
          /\ assigned'.topic = assigned.topic
      BY <2>7 DEF Deliver
    <3> QED
      BY <2>7, <3>1 DEF Deliver, portVars
  <2>8. CASE StopConsumption \/ StartConsumption \/ CheckConsumer \/ GetAssignment
    BY <2>8 DEF StopConsumption, StartConsumption, SetHalted, CheckConsumer,
                GetAssignment, kafkaVars, portVars
  <2>9. CASE PauseNamed \/ ResumeNamed
    BY <2>9 DEF PauseNamed, ResumeNamed, portVars
  <2>10. CASE \/ WaitForPkg \/ Consume \/ Event \/ ConsumeNothing
              \/ KeepOffset \/ ReportOffset
    BY <2>10 DEF WaitForPkg, Consume, Event, ConsumeNothing, KeepOffset, KeepOffsetAs,
                 ReportOffset, ReportOffsetAs, kafkaVars, portVars
  <2>11. CASE UNCHANGED vars
    BY <2>11 DEF vars, kafkaVars, portVars
  <2> QED
    BY <2>2, <2>3, <2>4, <2>5, <2>6, <2>7, <2>8, <2>9, <2>10, <2>11
       DEF Next, Port, Task
<1> QED
  BY <1>1, <1>2, PTL DEF Spec

\* Between port calls a connected consumer works with the settings and the topic
\* that the members hold, failed reconnections and overlapping calls included.
THEOREM PortIsConsistent == Spec => []PortConsistent
<1>1. PortIInv => PortConsistent
  BY DEF PortIInv, InStep, PortConsistent
<1> QED
  BY <1>1, PortInvariant, PTL
-----------------------------------------------------------------------------
\* The message handed to the task is an offset of the log.
Handed == task = "got" => message \in 0..LogEnd

\* SetOffset() only goes on with an offset.
GivenOffset == port = "show" => given \in Nat \cup {Beginning, End, Stored}

TypeIInv == TypeOK /\ Handed /\ GivenOffset

\* Every assignment begins within the log.
LEMMA PositionsInLog ==
  ASSUME NEW offset PROVE Positions(offset) \subseteq 0..LogEnd
BY ConsumerAssumption DEF Positions

\* The cast to int wraps around into the range of an epicsInt32.
LEMMA ToIntRange ==
  ASSUME NEW offset \in Int PROVE ToInt(offset) \in -(IntMax + 1)..IntMax
<1> DEFINE width == 2 * (IntMax + 1)
<1>1. width \in Nat /\ width > 0
  BY ConsumerAssumption
<1>2. (offset + IntMax + 1) % width \in 0..(width - 1)
  BY <1>1, ConsumerAssumption
<1> QED
  BY <1>2, ConsumerAssumption DEF ToInt

\* And leaves the values of that range alone.
LEMMA ToIntIdentity ==
  ASSUME NEW offset \in -(IntMax + 1)..IntMax PROVE ToInt(offset) = offset
<1> DEFINE width == 2 * (IntMax + 1)
           shifted == offset + IntMax + 1
<1>1. width \in Nat /\ width > 0 /\ shifted \in 0..(width - 1)
  BY ConsumerAssumption
<1>2. \A a, b \in Nat : b > 0 /\ a < b => a % b = a
  OBVIOUS
<1>3. shifted % width = shifted
  BY <1>1, <1>2
<1> QED
  BY <1>3, ConsumerAssumption DEF ToInt

\* The calls that begin in the port thread keep the types.
LEMMA PortStartsTyped ==
  ASSUME TypeIInv,
         \/ SetBrokerAddr \/ SetGroupId \/ SetStatsTimeIntervalMS
         \/ SetTopic \/ WriteCurrentOffset \/ WriteStartOffset
  PROVE  TypeIInv'
<1> USE DEF TypeIInv, TypeOK, Handed, GivenOffset, Ports, kafkaVars, taskVars, callVars,
        history
<1>1. ASSUME NEW new \in [broker : Brokers \cup {None}, group : Groups,
                          interval : Intervals],
             Configure(new)
      PROVE  TypeIInv'
  BY <1>1 DEF Configure, PortCall, ConStats
<1>2. CASE SetBrokerAddr
  <2>1. PICK b \in Brokers : Configure([settings EXCEPT !.broker = b])
    BY <1>2 DEF SetBrokerAddr
  <2> QED
    BY <1>1, <2>1
<1>3. CASE SetGroupId
  <2>1. PICK g \in Groups : Configure([settings EXCEPT !.group = g])
    BY <1>3 DEF SetGroupId
  <2> QED
    BY <1>1, <2>1
<1>4. CASE SetStatsTimeIntervalMS
  <2>1. PICK i \in Intervals : Configure([settings EXCEPT !.interval = i])
    BY <1>4 DEF SetStatsTimeIntervalMS
  <2> QED
    BY <1>1, <2>1
<1>5. CASE SetTopic
  BY <1>5, ConsumerAssumption DEF SetTopic, PortCall, NoMessage
<1>6. ASSUME NEW offset \in Int, NEW after \in Written \cup {None},
             SetOffset(offset, after), startOffset' \in StartOffsets
      PROVE  TypeIInv'
  <2>1. CASE ValidOffset(offset)
    <3>1. given' \in Nat \cup {Beginning, End, Stored}
      BY <1>6, <2>1 DEF SetOffset, ValidOffset
    <3>2. expect' \in 0..LogEnd \cup {None}
      BY <1>6, <2>1, ConsumerAssumption DEF SetOffset
    <3>3. topicOffset' \in Nat \cup {Beginning, End, Stored}
      BY <1>6, <2>1 DEF SetOffset, ValidOffset
    <3> QED
      BY <1>6, <2>1, <3>1, <3>2, <3>3, ConsumerAssumption DEF SetOffset, PortCall, NoMessage
  <2>2. CASE ~ValidOffset(offset)
    BY <1>6, <2>2 DEF SetOffset
  <2> QED
    BY <2>1, <2>2
<1>7. CASE WriteCurrentOffset
  BY <1>6, <1>7, ConsumerAssumption DEF WriteCurrentOffset
<1>8. CASE WriteStartOffset
  <2>1. \A m \in StartOffsets : OffsetOf(m) \in Int
    BY ConsumerAssumption DEF StartOffsets, OffsetOf, Beginning, End, Stored
  <2> QED
    BY <1>6, <1>8, <2>1 DEF WriteStartOffset
<1> QED
  BY <1>2, <1>3, <1>4, <1>5, <1>7, <1>8

\* And so does every other step.
LEMMA TypeInvariant == Spec => []TypeIInv
<1> USE DEF TypeIInv, TypeOK, Handed, GivenOffset, Ports, Tasks
<1>1. Init => TypeIInv
  <2> SUFFICES ASSUME Init PROVE TypeIInv
    OBVIOUS
  <2>1. 0 \in 0..LogEnd /\ Stored \in -(IntMax + 1)..IntMax
    BY ConsumerAssumption DEF Stored
  <2>2. assigned \in [topic : Topics \cup {None}, pos : 0..LogEnd]
    BY <2>1, PositionsInLog DEF Init, Unassigned
  <2> QED
    BY <2>1, <2>2 DEF Init, StartOffsets, NoMessage
<1>2. TypeIInv /\ [Next]_vars => TypeIInv'
  <2> SUFFICES ASSUME TypeIInv, [Next]_vars PROVE TypeIInv'
    OBVIOUS
  <2> USE DEF kafkaVars, taskVars, callVars, portVars, history
  <2>1. Unassigned \in [topic : Topics \cup {None}, pos : 0..LogEnd]
    BY ConsumerAssumption DEF Unassigned
  <2>2. CASE \/ SetBrokerAddr \/ SetGroupId \/ SetStatsTimeIntervalMS
             \/ SetTopic \/ WriteCurrentOffset \/ WriteStartOffset
    BY <2>2, PortStartsTyped
  <2>3. CASE Close \/ Delete \/ Forget
    <3>1. assigned' \in [topic : Topics \cup {None}, pos : 0..LogEnd]
      BY <2>1, <2>3 DEF Close, Delete, Forget
    <3>2. /\ connected' \in BOOLEAN /\ consumptionHalted' \in BOOLEAN
          /\ paused' \in BOOLEAN /\ dangling' \in BOOLEAN /\ ending' \in BOOLEAN
      BY <2>3 DEF Close, Delete, Forget
    <3>3. port' \in Ports \ {"show"}
      BY <2>3 DEF Close, Delete, Forget, Rebuild
    <3> QED
      BY <2>3, <3>1, <3>2, <3>3 DEF Close, Delete, Forget
  <2>4. CASE Create
    <3>1. /\ connected' \in BOOLEAN /\ consumptionHalted' \in BOOLEAN
          /\ paused' \in BOOLEAN /\ dangling' \in BOOLEAN
      BY <2>4 DEF Create, CreateThen
    <3>2. live' \in [broker : Brokers \cup {None}, group : Groups, interval : Intervals]
      BY <2>4 DEF Create, CreateThen
    <3> QED
      BY <2>4, <3>1, <3>2 DEF Create, CreateThen, ConStats
  <2>5. CASE Unassign
    <3>1. assigned' \in [topic : Topics \cup {None}, pos : 0..LogEnd]
      BY <2>1, <2>5 DEF Unassign
    <3>2. /\ connected' \in BOOLEAN /\ consumptionHalted' \in BOOLEAN
          /\ paused' \in BOOLEAN /\ dangling' \in BOOLEAN
      BY <2>5 DEF Unassign
    <3> QED
      BY <2>5, <3>1, <3>2 DEF Unassign
  <2>6. CASE Assign
    BY <2>6, PositionsInLog DEF Assign
  <2>7. CASE ReadHalted
    BY <2>7 DEF ReadHalted, ReadHaltedThen
  <2>8. CASE PauseNew
    BY <2>8 DEF PauseNew
  <2>9. CASE ShowOffset
    <3>1. given \in Int
      BY <2>9 DEF ShowOffset, Beginning, End, Stored
    <3> QED
      BY <2>9, <3>1, ToIntRange DEF ShowOffset
  <2>10. CASE StoreWritten \/ Destroy
    <3>1. CASE StoreWritten
      <4>1. msgOffset' \in -(IntMax + 1)..IntMax
        BY <3>1, ConsumerAssumption DEF StoreWritten
      <4>2. /\ connected' \in BOOLEAN /\ consumptionHalted' \in BOOLEAN
            /\ paused' \in BOOLEAN /\ dangling' \in BOOLEAN /\ ending' \in BOOLEAN
        BY <3>1 DEF StoreWritten
      <4> QED
        BY <3>1, <4>1, <4>2 DEF StoreWritten
    <3>2. CASE Destroy
      BY <3>2 DEF Destroy, PortCall
    <3> QED
      BY <2>10, <3>1, <3>2
  <2>11. CASE StopConsumption \/ StartConsumption \/ CheckConsumer \/ GetAssignment
    <3>1. CASE StopConsumption \/ StartConsumption
      <4>1. /\ connected' \in BOOLEAN /\ consumptionHalted' \in BOOLEAN
            /\ paused' \in BOOLEAN /\ dangling' \in BOOLEAN /\ ending' \in BOOLEAN
        BY <3>1 DEF StopConsumption, StartConsumption, SetHalted
      <4> QED
        BY <3>1, <4>1 DEF StopConsumption, StartConsumption, SetHalted
    <3>2. CASE CheckConsumer
      BY <3>2 DEF CheckConsumer
    <3>3. CASE GetAssignment
      <4>1. named' \in Topics \cup {None}
        BY <3>3 DEF GetAssignment
      <4> QED
        BY <3>3, <4>1 DEF GetAssignment
    <3> QED
      BY <2>11, <3>1, <3>2, <3>3
  <2>12. CASE PauseNamed \/ ResumeNamed
    <3>1. paused' \in BOOLEAN
      BY <2>12 DEF PauseNamed, ResumeNamed
    <3> QED
      BY <2>12, <3>1 DEF PauseNamed, ResumeNamed
  <2>13. CASE WaitForPkg \/ Consume \/ Event \/ ConsumeNothing
    <3>1. dangling' \in BOOLEAN
      BY <2>13 DEF WaitForPkg, Consume, ConsumerThere, Event, ConsumeNothing
    <3> QED
      BY <2>13, <3>1 DEF WaitForPkg, Consume, Event, ConsumeNothing
  <2>14. CASE Deliver
    <3>1. assigned.pos \in 0..LogEnd /\ assigned.pos + 1 \in 0..LogEnd
      BY <2>14, ConsumerAssumption DEF Deliver
    <3>2. /\ assigned' \in [topic : Topics \cup {None}, pos : 0..LogEnd]
          /\ last' \in [topic : Topics \cup {None}, offset : 0..LogEnd]
      BY <2>14, <3>1, ConsumerAssumption DEF Deliver, NoMessage
    <3> QED
      BY <2>14, <3>1, <3>2 DEF Deliver
  <2>15. CASE KeepOffset
    BY <2>15 DEF KeepOffset, KeepOffsetAs
  <2>16. CASE ReportOffset
    <3>1. topicOffset \in Int
      BY DEF Beginning, End, Stored
    <3> QED
      BY <2>16, <3>1, ToIntRange DEF ReportOffset, ReportOffsetAs
  <2>17. CASE UNCHANGED vars
    BY <2>17 DEF vars
  <2> QED
    BY <2>2, <2>3, <2>4, <2>5, <2>6, <2>7, <2>8, <2>9, <2>10, <2>11, <2>12, <2>13,
       <2>14, <2>15, <2>16, <2>17 DEF Next, Port, Task
<1> QED
  BY <1>1, <1>2, PTL DEF Spec

\* Every variable keeps its type, in particular what is shown to clients that of an
\* epicsInt32 and the position of the consumer within the log, for calls that
\* overlap in any way.
THEOREM ConsumerTyped == Spec => []TypeOK
<1>1. TypeIInv => TypeOK
  BY DEF TypeIInv
<1> QED
  BY <1>1, TypeInvariant, PTL
-----------------------------------------------------------------------------
(* Calls that exclude each other.                                          *)

\* Serialised calls do exclude each other.
Exclusive == Serialised => port = "rest" \/ task = "rest"

\* A call of the one thread begins only while the other is at rest.
LEMMA CallsExclude == Spec => []Exclusive
<1> USE DEF Exclusive
<1>1. Init => Exclusive
  BY DEF Init
<1>2. Exclusive /\ [Next]_vars => Exclusive'
  <2> SUFFICES ASSUME Exclusive, [Next]_vars, Serialised PROVE port' = "rest" \/ task' = "rest"
    OBVIOUS
  <2> USE DEF taskVars, portVars
  <2>1. CASE SetBrokerAddr \/ SetGroupId \/ SetStatsTimeIntervalMS
    BY <2>1 DEF SetBrokerAddr, SetGroupId, SetStatsTimeIntervalMS, Configure, PortCall
  <2>2. CASE SetTopic \/ WriteCurrentOffset \/ WriteStartOffset
    BY <2>2 DEF SetTopic, WriteCurrentOffset, WriteStartOffset, SetOffset, PortCall
  <2>3. CASE \/ Close \/ Delete \/ Forget \/ Create \/ ShowOffset \/ Unassign \/ Assign
             \/ ReadHalted \/ PauseNew \/ StoreWritten
    BY <2>3 DEF Close, Delete, Forget, Create, CreateThen, ShowOffset, Unassign, Assign,
                ReadHalted, ReadHaltedThen, PauseNew, StoreWritten
  <2>4. CASE Destroy
    BY <2>4 DEF Destroy, PortCall
  <2>5. CASE StopConsumption \/ StartConsumption \/ WaitForPkg
    BY <2>5 DEF StopConsumption, StartConsumption, SetHalted, WaitForPkg, TaskCall
  <2>6. CASE \/ CheckConsumer \/ GetAssignment \/ PauseNamed \/ ResumeNamed
             \/ Consume \/ Event \/ ConsumeNothing
             \/ Deliver \/ KeepOffset \/ ReportOffset
    BY <2>6 DEF CheckConsumer, GetAssignment, PauseNamed, ResumeNamed, Consume, Event,
                ConsumeNothing, Deliver, KeepOffset, KeepOffsetAs, ReportOffset,
                ReportOffsetAs
  <2>7. CASE UNCHANGED vars
    BY <2>7 DEF vars
  <2> QED
    BY <2>1, <2>2, <2>3, <2>4, <2>5, <2>6, <2>7 DEF Next, Port, Task
<1> QED
  BY <1>1, <1>2, PTL DEF Spec

\* A consumer object has a broker.  If calls exclude each other, WaitForPkg() is in
\* a consumer that is there, and the only reconnection that shows CONNECTED without
\* one is still under way.
StatusKnown ==
  /\ connected \/ port = "create" => settings.broker # None
  /\ Serialised =>
       /\ task \in {"calling", "consuming"} => connected
       /\ conStatus = "CONNECTED" => connected \/ port \in {"create", "gone"}

\* The calls that begin in the port thread do not disturb it.
LEMMA PortStartsKnown ==
  ASSUME StatusKnown, TypeOK,
         \/ SetBrokerAddr \/ SetGroupId \/ SetStatsTimeIntervalMS
         \/ SetTopic \/ WriteCurrentOffset \/ WriteStartOffset
  PROVE  StatusKnown'
<1> USE DEF StatusKnown, taskVars
<1>1. ASSUME NEW new, Configure(new), settings.broker # None => new.broker # None
      PROVE  StatusKnown'
  BY <1>1 DEF Configure, PortCall
<1>2. CASE SetBrokerAddr
  <2>1. PICK b \in Brokers : Configure([settings EXCEPT !.broker = b])
    BY <1>2 DEF SetBrokerAddr
  <2>2. [settings EXCEPT !.broker = b].broker # None
    BY ConsumerAssumption DEF TypeOK
  <2> QED
    BY <1>1, <2>1, <2>2
<1>3. CASE SetGroupId
  <2>1. PICK g \in Groups : Configure([settings EXCEPT !.group = g])
    BY <1>3 DEF SetGroupId
  <2>2. [settings EXCEPT !.group = g].broker = settings.broker
    BY DEF TypeOK
  <2> QED
    BY <1>1, <2>1, <2>2
<1>4. CASE SetStatsTimeIntervalMS
  <2>1. PICK i \in Intervals : Configure([settings EXCEPT !.interval = i])
    BY <1>4 DEF SetStatsTimeIntervalMS
  <2>2. [settings EXCEPT !.interval = i].broker = settings.broker
    BY DEF TypeOK
  <2> QED
    BY <1>1, <2>1, <2>2
<1>5. CASE SetTopic
  BY <1>5 DEF SetTopic, PortCall
<1>6. CASE WriteCurrentOffset \/ WriteStartOffset
  BY <1>6 DEF WriteCurrentOffset, WriteStartOffset, SetOffset, PortCall
<1> QED
  BY <1>2, <1>3, <1>4, <1>5, <1>6

\* StatusKnown holds in every reachable state.
LEMMA StatusInvariant == Spec => []StatusKnown
<1> USE DEF StatusKnown
<1>1. Init => StatusKnown
  <2> SUFFICES ASSUME Init PROVE StatusKnown
    OBVIOUS
  <2>1. conStatus # "CONNECTED"
    BY ConsumerAssumption DEF Init, ConStats
  <2> QED
    BY <2>1 DEF Init
<1>2. StatusKnown /\ TypeOK /\ Exclusive /\ [Next]_vars => StatusKnown'
  <2> SUFFICES ASSUME StatusKnown, TypeOK, Exclusive, [Next]_vars PROVE StatusKnown'
    OBVIOUS
  <2> USE DEF Exclusive, taskVars, portVars
  <2>1. CASE \/ SetBrokerAddr \/ SetGroupId \/ SetStatsTimeIntervalMS
             \/ SetTopic \/ WriteCurrentOffset \/ WriteStartOffset
    BY <2>1, PortStartsKnown
  <2>2. CASE Close \/ Delete \/ Forget
    BY <2>2 DEF Close, Delete, Forget, Rebuild
  <2>3. CASE Create
    BY <2>3 DEF Create, CreateThen
  <2>4. CASE \/ ShowOffset \/ Unassign \/ Assign \/ ReadHalted \/ PauseNew
             \/ StoreWritten
    BY <2>4 DEF ShowOffset, Unassign, Assign, ReadHalted, ReadHaltedThen, PauseNew,
                StoreWritten
  <2>5. CASE Destroy
    BY <2>5 DEF Destroy, PortCall
  <2>6. CASE StopConsumption \/ StartConsumption
    BY <2>6 DEF StopConsumption, StartConsumption, SetHalted, TaskCall
  <2>7. CASE CheckConsumer \/ GetAssignment \/ PauseNamed \/ ResumeNamed \/ ConsumeNothing
    BY <2>7 DEF CheckConsumer, GetAssignment, PauseNamed, ResumeNamed, ConsumeNothing
  <2>8. CASE WaitForPkg \/ Consume
    BY <2>8 DEF WaitForPkg, Consume, TaskCall
  <2>9. CASE Event
    BY <2>9 DEF Event
  <2>10. CASE Deliver \/ KeepOffset \/ ReportOffset
    BY <2>10 DEF Deliver, KeepOffset, KeepOffsetAs, ReportOffset, ReportOffsetAs
  <2>11. CASE UNCHANGED vars
    BY <2>11 DEF vars
  <2> QED
    BY <2>1, <2>2, <2>3, <2>4, <2>5, <2>6, <2>7, <2>8, <2>9, <2>10, <2>11
       DEF Next, Port, Task
<1> QED
  BY <1>1, <1>2, ConsumerTyped, CallsExclude, PTL DEF Spec

\* Whatever reconnections fail and whichever events come in between them, CONNECTED
\* is not shown at rest without a consumer object.
THEOREM StatusIsConnected ==
  ASSUME Serialised
  PROVE  Spec => []ConnectedHasConsumer
<1>1. StatusKnown => ConnectedHasConsumer
  BY DEF StatusKnown, AtRest, ConnectedHasConsumer
<1> QED
  BY <1>1, StatusInvariant, PTL
-----------------------------------------------------------------------------
\* What is paused and should not be has a StartConsumption() under way, and a
\* call that pauses is one of a halted consumer.
StartComing ==
  Serialised =>
    /\ paused => ConsumerThere /\ port # "delete"
    /\ port = "pause" \/ task \in {"stopping", "pausing", "pause"} => consumptionHalted
    /\ paused /\ ~consumptionHalted =>
         task \in {"starting", "resuming"} \/ (task = "resume" /\ named = assigned.topic)

\* StartComing holds in every reachable state.
LEMMA StartInvariant == Spec => []StartComing
<1> USE DEF StartComing, ConsumerThere
<1>1. Init => StartComing
  BY DEF Init
<1>2. StartComing /\ HasConsumer /\ TypeOK /\ Exclusive /\ [Next]_vars => StartComing'
  <2> SUFFICES ASSUME StartComing, HasConsumer, TypeOK, Exclusive, [Next]_vars, Serialised
               PROVE  StartComing'
    OBVIOUS
  <2> USE DEF kafkaVars, taskVars, portVars, Exclusive, HasConsumer, Assigning
  <2>1. CASE SetBrokerAddr \/ SetGroupId \/ SetStatsTimeIntervalMS
    BY <2>1 DEF SetBrokerAddr, SetGroupId, SetStatsTimeIntervalMS, Configure, PortCall
  <2>2. CASE SetTopic \/ WriteCurrentOffset \/ WriteStartOffset
    BY <2>2 DEF SetTopic, WriteCurrentOffset, WriteStartOffset, SetOffset, PortCall
  <2>3. CASE Close \/ Delete \/ Forget \/ Unassign
    BY <2>3 DEF Close, Delete, Forget, Rebuild, Unassign
  <2>4. CASE Create \/ ShowOffset \/ Assign \/ StoreWritten
    BY <2>4 DEF Create, CreateThen, ShowOffset, Assign, StoreWritten
  <2>5. CASE ReadHalted
    BY <2>5 DEF ReadHalted, ReadHaltedThen, TypeOK
  <2>6. CASE PauseNew
    BY <2>6 DEF PauseNew
  <2>7. CASE Destroy
    BY <2>7 DEF Destroy, PortCall
  <2>8. CASE StopConsumption
    BY <2>8 DEF StopConsumption, SetHalted, TaskCall
  <2>9. CASE StartConsumption
    BY <2>9 DEF StartConsumption, SetHalted, TaskCall
  <2>10. CASE CheckConsumer \/ GetAssignment
    BY <2>10 DEF CheckConsumer, GetAssignment
  <2>11. CASE PauseNamed
    BY <2>11 DEF PauseNamed, TypeOK
  <2>12. CASE ResumeNamed
    BY <2>12 DEF ResumeNamed, TypeOK
  <2>13. CASE WaitForPkg \/ Consume \/ Event \/ ConsumeNothing
    BY <2>13 DEF WaitForPkg, Consume, Event, ConsumeNothing, TaskCall
  <2>14. CASE Deliver \/ KeepOffset \/ ReportOffset
    BY <2>14 DEF Deliver, KeepOffset, KeepOffsetAs, ReportOffset, ReportOffsetAs
  <2>15. CASE UNCHANGED vars
    BY <2>15 DEF vars
  <2> QED
    BY <2>1, <2>2, <2>3, <2>4, <2>5, <2>6, <2>7, <2>8, <2>9, <2>10, <2>11, <2>12,
       <2>13, <2>14, <2>15 DEF Next, Port, Task
<1>3. HaltIInv => HasConsumer
  BY DEF HaltIInv
<1> QED
  BY <1>1, <1>2, <1>3, HaltInvariant, ConsumerTyped, CallsExclude, PTL DEF Spec

\* A start survives reconnections and topic changes: when no call is in progress, a
\* consumer that is not halted is not left paused.
THEOREM StartIsKept ==
  ASSUME Serialised
  PROVE  Spec => []StartHolds
<1>1. StartComing => StartHolds
  BY DEF StartComing, AtRest, StartHolds
<1> QED
  BY <1>1, StartInvariant, PTL

\* A halted consumer delivers nothing, whichever of connection, topic and offset
\* was changed since it was halted.
THEOREM HaltIsSilent ==
  ASSUME Serialised
  PROVE  Spec => HaltedIsSilent
<1>1. HaltIInv /\ Exclusive /\ [Next]_vars => [Deliver => ~consumptionHalted]_vars
  BY DEF HaltIInv, PauseComing, Assigning, Exclusive, Deliver
<1> QED
  BY <1>1, HaltInvariant, CallsExclude, PTL DEF Spec, HaltedIsSilent
-----------------------------------------------------------------------------
\* The offset: how topicOffset relates to the parameter that clients read, and to
\* the value that a call of writeInt32() has yet to store in it.
ReadbackIInv ==
  Serialised =>
    /\ task # "report" /\ port # "show" /\ ValidOffset(msgOffset)
         => msgOffset = ToInt(topicOffset)
    /\ port = "show" => given = topicOffset
    /\ toWrite # None /\ ValidOffset(toWrite) => toWrite = ToInt(topicOffset)
    /\ port = "rest" => toWrite = None

\* A write of an accepted offset brings all three to the same value, a write of a
\* rejected one leaves a value that is not an offset.
LEMMA SetOffsetReadback ==
  ASSUME ReadbackIInv, Exclusive, Serialised,
         NEW offset, NEW after, SetOffset(offset, after),
         after = None \/ (after = offset /\ offset \in -(IntMax + 1)..IntMax)
  PROVE  ReadbackIInv'
<1> USE DEF ReadbackIInv
<1>1. /\ port = "rest" /\ task = "rest" /\ task' = "rest"
      /\ port' = IF ValidOffset(offset) THEN "show" ELSE "store"
  BY DEF SetOffset, PortCall, taskVars
<1>2. CASE ValidOffset(offset)
  <2>1. topicOffset' = offset /\ given' = offset /\ toWrite' = after
    BY <1>2 DEF SetOffset
  <2>2. after # None => after = ToInt(offset)
    BY ToIntIdentity
  <2> QED
    BY <1>1, <1>2, <2>1, <2>2
<1>3. CASE ~ValidOffset(offset)
  <2>1. UNCHANGED <<topicOffset, msgOffset>> /\ toWrite' = after
    BY <1>3 DEF SetOffset
  <2>2. after # None => ~ValidOffset(after)
    BY <1>3
  <2> QED
    BY <1>1, <1>3, <2>1, <2>2
<1> QED
  BY <1>2, <1>3

\* ReadbackIInv holds in every reachable state.
LEMMA ReadbackInvariant == Spec => []ReadbackIInv
<1> USE DEF ReadbackIInv
<1>1. Init => ReadbackIInv
  <2>1. ToInt(Stored) = Stored
    BY ToIntIdentity, ConsumerAssumption DEF Stored
  <2> QED
    BY <2>1 DEF Init
<1>2. ReadbackIInv /\ Exclusive /\ [Next]_vars => ReadbackIInv'
  <2> SUFFICES ASSUME ReadbackIInv, Exclusive, [Next]_vars, Serialised PROVE ReadbackIInv'
    OBVIOUS
  <2> USE DEF Exclusive, taskVars, callVars, portVars
  <2>1. CASE SetBrokerAddr \/ SetGroupId \/ SetStatsTimeIntervalMS \/ SetTopic
    BY <2>1 DEF SetBrokerAddr, SetGroupId, SetStatsTimeIntervalMS, SetTopic, Configure,
                PortCall
  <2>2. CASE WriteCurrentOffset
    BY <2>2, SetOffsetReadback, ConsumerAssumption DEF WriteCurrentOffset
  <2>3. CASE WriteStartOffset
    BY <2>3, SetOffsetReadback DEF WriteStartOffset
  <2>4. CASE \/ Close \/ Delete \/ Forget \/ Create
             \/ Unassign \/ Assign \/ ReadHalted \/ PauseNew
    BY <2>4 DEF Close, Delete, Forget, Rebuild, Create, CreateThen, Unassign, Assign,
                ReadHalted, ReadHaltedThen, PauseNew
  <2>5. CASE ShowOffset
    BY <2>5 DEF ShowOffset
  <2>6. CASE StoreWritten
    BY <2>6 DEF StoreWritten
  <2>7. CASE Destroy
    BY <2>7 DEF Destroy, PortCall
  <2>8. CASE StopConsumption \/ StartConsumption \/ WaitForPkg
    BY <2>8 DEF StopConsumption, StartConsumption, SetHalted, WaitForPkg, TaskCall
  <2>9. CASE \/ CheckConsumer \/ GetAssignment \/ PauseNamed \/ ResumeNamed
             \/ Consume \/ Event \/ ConsumeNothing \/ Deliver
    BY <2>9 DEF CheckConsumer, GetAssignment, PauseNamed, ResumeNamed, Consume, Event,
                ConsumeNothing, Deliver
  <2>10. CASE KeepOffset
    BY <2>10 DEF KeepOffset, KeepOffsetAs
  <2>11. CASE ReportOffset
    BY <2>11 DEF ReportOffset, ReportOffsetAs
  <2>12. CASE UNCHANGED vars
    BY <2>12 DEF vars
  <2> QED
    BY <2>1, <2>2, <2>3, <2>4, <2>5, <2>6, <2>7, <2>8, <2>9, <2>10, <2>11, <2>12
       DEF Next, Port, Task
<1> QED
  BY <1>1, <1>2, CallsExclude, PTL DEF Spec

\* At rest KAFKA_CURRENT_OFFSET reads the offset in use, cut to an epicsInt32, for
\* any offset and any size of that integer.
THEOREM OffsetIsReadBack ==
  ASSUME Serialised
  PROVE  Spec => []OffsetReadback
<1>1. ReadbackIInv => OffsetReadback
  BY DEF ReadbackIInv, AtRest, OffsetReadback
<1> QED
  BY <1>1, ReadbackInvariant, PTL
-----------------------------------------------------------------------------
\* The message delivered last, as long as neither topic nor offset was set: the
\* task has brought its offset into topicOffset or still has it in hand, and an
\* assignment goes on behind it, or begins with it once more.
LastIInv ==
  Serialised /\ last # NoMessage =>
    /\ last.topic = topicName
    /\ task = "got" => message = last.offset
    /\ task # "got" => topicOffset = last.offset
    /\ assigned # Unassigned /\ assigned.topic = topicName
         => assigned.pos \in {last.offset, last.offset + 1}

\* LastIInv holds in every reachable state.
LEMMA LastInvariant == Spec => []LastIInv
<1> USE DEF LastIInv
<1>1. Init => LastIInv
  BY DEF Init
<1>2. /\ LastIInv /\ TypeOK /\ Exclusive /\ HasConsumer /\ PortIInv
      /\ [Next]_vars
      => LastIInv'
  <2> SUFFICES ASSUME LastIInv, TypeOK, Exclusive, HasConsumer, PortIInv,
                      [Next]_vars, Serialised
               PROVE  LastIInv'
    OBVIOUS
  <2> USE DEF Exclusive, kafkaVars, taskVars, portVars, history
  <2>1. CASE SetBrokerAddr \/ SetGroupId \/ SetStatsTimeIntervalMS
    BY <2>1 DEF SetBrokerAddr, SetGroupId, SetStatsTimeIntervalMS, Configure
  <2>2. CASE SetTopic
    BY <2>2 DEF SetTopic
  <2>3. CASE WriteCurrentOffset \/ WriteStartOffset
    BY <2>3 DEF WriteCurrentOffset, WriteStartOffset, SetOffset
  <2>4. CASE Close \/ Delete \/ Forget \/ Unassign \/ Destroy
    BY <2>4 DEF Close, Delete, Forget, Unassign, Destroy
  <2>5. CASE Create \/ ShowOffset \/ ReadHalted \/ PauseNew \/ StoreWritten
    BY <2>5 DEF Create, CreateThen, ShowOffset, ReadHalted, ReadHaltedThen, PauseNew,
                StoreWritten
  <2>6. CASE Assign
    <3>1. PICK p \in Positions(topicOffset) : assigned' = [topic |-> topicName, pos |-> p]
      BY <2>6 DEF Assign
    <3>2. task = "rest" /\ UNCHANGED <<topicName, topicOffset, task, message, last>>
      BY <2>6 DEF Assign
    <3>3. last # NoMessage => topicOffset \in 0..LogEnd /\ p = last.offset
      BY <3>1, <3>2 DEF Positions, TypeOK
    <3>4. assigned'.pos = p
      BY <3>1
    <3> QED
      BY <3>2, <3>3, <3>4
  <2>7. CASE StopConsumption \/ StartConsumption \/ WaitForPkg
    BY <2>7 DEF StopConsumption, StartConsumption, SetHalted, WaitForPkg, TaskCall
  <2>8. CASE \/ CheckConsumer \/ GetAssignment \/ PauseNamed \/ ResumeNamed
             \/ Consume \/ Event \/ ConsumeNothing
    BY <2>8 DEF CheckConsumer, GetAssignment, PauseNamed, ResumeNamed, Consume, Event,
                ConsumeNothing
  <2>9. CASE Deliver
    <3>1. port = "rest" /\ assigned.topic = topicName
      BY <2>9 DEF Deliver, HasConsumer, ConsumerThere, PortIInv, InStep
    <3>2. /\ task' = "got" /\ message' = assigned.pos /\ topicName' = topicName
          /\ assigned' = [assigned EXCEPT !.pos = @ + 1]
          /\ last' = [topic |-> assigned.topic, offset |-> assigned.pos]
      BY <2>9, <3>1 DEF Deliver
    <3>3. assigned'.pos = assigned.pos + 1
      BY <3>2 DEF TypeOK
    <3> QED
      BY <3>1, <3>2, <3>3
  <2>10. CASE KeepOffset
    BY <2>10 DEF KeepOffset, KeepOffsetAs
  <2>11. CASE ReportOffset
    BY <2>11 DEF ReportOffset, ReportOffsetAs
  <2>12. CASE UNCHANGED vars
    BY <2>12 DEF vars
  <2> QED
    BY <2>1, <2>2, <2>3, <2>4, <2>5, <2>6, <2>7, <2>8, <2>9, <2>10, <2>11, <2>12
       DEF Next, Port, Task
<1>3. HaltIInv => HasConsumer
  BY DEF HaltIInv
<1> QED
  BY <1>1, <1>2, <1>3, ConsumerTyped, CallsExclude, HaltInvariant, PortInvariant, PTL
     DEF Spec

\* As long as neither topic nor offset is set, no message is skipped and none but
\* the last is delivered again, however often the consumer reconnects.
THEOREM NothingIsSkipped ==
  ASSUME Serialised
  PROVE  Spec => AtLeastOnce
<1>1. LastIInv /\ HasConsumer /\ PortIInv /\ [Next]_vars
      => [Deliver /\ port = "rest" /\ last.topic = assigned.topic /\ last # NoMessage
            => assigned.pos \in {last.offset, last.offset + 1}]_vars
  BY DEF LastIInv, HasConsumer, ConsumerThere, PortIInv, InStep, Deliver
<1>2. HaltIInv => HasConsumer
  BY DEF HaltIInv
<1> QED
  BY <1>1, <1>2, LastInvariant, HaltInvariant, PortInvariant, PTL DEF Spec, AtLeastOnce
-----------------------------------------------------------------------------
\* The offset that was asked for is the one every assignment begins at, until the
\* message there is delivered.
ExpectIInv ==
  Serialised /\ expect # None =>
    /\ task # "got"
    /\ topicOffset = expect /\ expect \in 0..(LogEnd - 1)
    /\ assigned # Unassigned /\ port \notin {"show", "unassign"} => assigned.pos = expect

\* ExpectIInv holds in every reachable state.
LEMMA ExpectInvariant == Spec => []ExpectIInv
<1> USE DEF ExpectIInv
<1>1. Init => ExpectIInv
  BY DEF Init
<1>2. /\ ExpectIInv /\ Exclusive /\ HasConsumer /\ PortIInv /\ [Next]_vars
      => ExpectIInv'
  <2> SUFFICES ASSUME ExpectIInv, Exclusive, HasConsumer, PortIInv, [Next]_vars,
                      Serialised
               PROVE  ExpectIInv'
    OBVIOUS
  <2> USE DEF Exclusive, kafkaVars, taskVars, portVars, history
  <2>1. CASE SetBrokerAddr \/ SetGroupId \/ SetStatsTimeIntervalMS
    BY <2>1 DEF SetBrokerAddr, SetGroupId, SetStatsTimeIntervalMS, Configure, PortCall
  <2>2. CASE SetTopic
    BY <2>2 DEF SetTopic
  <2>3. CASE WriteCurrentOffset \/ WriteStartOffset
    <3>1. ASSUME NEW offset, NEW after, SetOffset(offset, after)
          PROVE  ExpectIInv'
      BY <3>1 DEF SetOffset, PortCall
    <3> QED
      BY <2>3, <3>1 DEF WriteCurrentOffset, WriteStartOffset
  <2>4. CASE Close \/ Delete \/ Forget \/ Destroy
    BY <2>4 DEF Close, Delete, Forget, Destroy, PortCall
  <2>5. CASE Create \/ ShowOffset
    BY <2>5 DEF Create, CreateThen, ShowOffset
  <2>6. CASE Unassign
    BY <2>6 DEF Unassign, HasConsumer, ConsumerThere, PortIInv, AssignedOK
  <2>7. CASE Assign
    <3>1. PICK p \in Positions(topicOffset) : assigned' = [topic |-> topicName, pos |-> p]
      BY <2>7 DEF Assign
    <3>2. UNCHANGED <<topicOffset, task, expect>>
      BY <2>7 DEF Assign
    <3>3. expect # None => p = expect
      BY <3>1, ConsumerAssumption DEF Positions
    <3>4. assigned'.pos = p
      BY <3>1
    <3> QED
      BY <3>2, <3>3, <3>4
  <2>8. CASE ReadHalted \/ PauseNew \/ StoreWritten
    BY <2>8 DEF ReadHalted, ReadHaltedThen, PauseNew, StoreWritten
  <2>9. CASE StopConsumption \/ StartConsumption \/ WaitForPkg
    BY <2>9 DEF StopConsumption, StartConsumption, SetHalted, WaitForPkg
  <2>10. CASE \/ CheckConsumer \/ GetAssignment \/ PauseNamed \/ ResumeNamed
              \/ Consume \/ Event \/ ConsumeNothing
    BY <2>10 DEF CheckConsumer, GetAssignment, PauseNamed, ResumeNamed, Consume, Event,
                 ConsumeNothing
  <2>11. CASE Deliver
    BY <2>11 DEF Deliver
  <2>12. CASE KeepOffset
    BY <2>12 DEF KeepOffset, KeepOffsetAs
  <2>13. CASE ReportOffset
    BY <2>13 DEF ReportOffset, ReportOffsetAs
  <2>14. CASE UNCHANGED vars
    BY <2>14 DEF vars
  <2> QED
    BY <2>1, <2>2, <2>3, <2>4, <2>5, <2>6, <2>7, <2>8, <2>9, <2>10, <2>11, <2>12,
       <2>13, <2>14 DEF Next, Port, Task
<1>3. HaltIInv => HasConsumer
  BY DEF HaltIInv
<1> QED
  BY <1>1, <1>2, <1>3, CallsExclude, HaltInvariant, PortInvariant, PTL DEF Spec

\* The offset a client sets is the one of the next message, even if the consumer
\* reconnects or changes the topic first.
THEOREM OffsetIsApplied ==
  ASSUME Serialised
  PROVE  Spec => OffsetApplied
<1>1. ExpectIInv /\ [Next]_vars
      => [Deliver /\ port = "rest" /\ expect # None => assigned.pos = expect]_vars
  BY DEF ExpectIInv, Deliver
<1> QED
  BY <1>1, ExpectInvariant, PTL DEF Spec, OffsetApplied
-----------------------------------------------------------------------------
\* Only a call of the port thread deletes a consumer object, and only while the
\* task is at rest if calls exclude each other.
LEMMA NeverDangling == Spec => [](Serialised => ~dangling)
<1>1. Init => (Serialised => ~dangling)
  BY DEF Init
<1>2. /\ (Serialised => ~dangling) /\ Exclusive /\ StatusKnown /\ [Next]_vars
      => (Serialised => ~dangling)'
  <2> SUFFICES ASSUME Serialised, ~dangling, Exclusive, StatusKnown, [Next]_vars
               PROVE  ~dangling'
    OBVIOUS
  <2> USE DEF taskVars, Exclusive
  <2>1. CASE Delete
    BY <2>1 DEF Delete
  <2>2. CASE Port
    BY <2>1, <2>2 DEF Port, SetBrokerAddr, SetGroupId, SetStatsTimeIntervalMS, Configure,
       SetTopic, WriteCurrentOffset, WriteStartOffset, SetOffset, Close, Forget, Create,
       CreateThen, ShowOffset, Unassign, Assign, ReadHalted, ReadHaltedThen, PauseNew,
       StoreWritten, Destroy
  <2>3. CASE Consume
    BY <2>3 DEF Consume, ConsumerThere, StatusKnown
  <2>4. CASE Task
    BY <2>3, <2>4 DEF Task, StopConsumption, StartConsumption, SetHalted, CheckConsumer,
       GetAssignment, PauseNamed, ResumeNamed, WaitForPkg, Event, ConsumeNothing, Deliver,
       KeepOffset, KeepOffsetAs, ReportOffset, ReportOffsetAs
  <2>5. CASE UNCHANGED vars
    BY <2>5 DEF vars
  <2> QED
    BY <2>2, <2>4, <2>5 DEF Next
<1> QED
  BY <1>1, <1>2, CallsExclude, StatusInvariant, PTL DEF Spec

\* WaitForPkg() never waits on an object that is gone, if port calls wait for it to
\* return: what breaks the promise of KafkaConsumer.h:162-165 is their overlap.
THEOREM SerialCallsAreSafe ==
  ASSUME Serialised
  PROVE  Spec => []ConsumerOutlivesCall
<1>1. (Serialised => ~dangling) => ConsumerOutlivesCall
  BY DEF ConsumerOutlivesCall
<1> QED
  BY <1>1, NeverDangling, PTL
=============================================================================
