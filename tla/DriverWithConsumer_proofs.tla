---------------------- MODULE DriverWithConsumer_proofs ----------------------
(***************************************************************************)
(* Proofs about the driver joined with its consumer, for any topics,       *)
(* brokers, offsets and numbers of packets.                                *)
(*                                                                         *)
(* Every step of the composition is a step of KafkaDriver or leaves its    *)
(* variables alone, and likewise for KafkaConsumer.  What is proved of     *)
(* either part for all its behaviours therefore holds here, where the one  *)
(* makes the calls of the other.  Two facts are about both: where a packet *)
(* can come from in the idle loop, and that the thread is gone before the  *)
(* consumer is.                                                            *)
(*                                                                         *)
(* DP and CP are D and C once more, with the theorems about them.          *)
(***************************************************************************)
EXTENDS DriverWithConsumer, TLAPS

DP == INSTANCE KafkaDriver_proofs WITH halted <- consumptionHalted, nextMsg <- taken
CP == INSTANCE KafkaConsumer_proofs WITH Serialised <- FALSE

\* The thread signals its end on the way out only, the consumer is destroyed after
\* ~KafkaDriver() has seen that, and a task that leaves has no call under way.
LeavesFirst ==
  /\ threadExitEvent \/ dtor = "done" => pc = "exited"
  /\ ending => dtor = "done"
  /\ pc \in {"exiting", "exited"} => task = "rest"
-----------------------------------------------------------------------------
\* D and DP are the same driver.
LEMMA SameDriver == D!Init /\ [][D!Next]_(D!vars) => DP!Safety
<1> USE DEF D!Init, DP!Init, D!vars, DP!vars, D!taskVars, DP!taskVars, D!eventVars,
             DP!eventVars, D!settings, DP!settings, D!paramVars, DP!paramVars,
             D!kafkaVars, DP!kafkaVars, D!history, DP!history, D!Modes, DP!Modes,
             D!Locked, DP!Locked
<1>1. D!Init => DP!Init
  OBVIOUS
<1>2. [D!Next]_(D!vars) => [DP!Next]_(DP!vars)
  BY DEF D!Next, DP!Next, D!Client, DP!Client, D!Destructor, DP!Destructor, D!Task,
             DP!Task, D!WriteStart, DP!WriteStart, D!WriteStop, DP!WriteStop,
             D!WriteSetting, DP!WriteSetting, D!ClientCanWrite, DP!ClientCanWrite,
             D!DtorClearFlag, DP!DtorClearFlag, D!DtorSignal, DP!DtorSignal,
             D!DtorReturn, DP!DtorReturn, D!Begin, DP!Begin, D!LoopExit, DP!LoopExit,
             D!LoopExitTo, DP!LoopExitTo, D!LoopIdle, DP!LoopIdle, D!LoopAcquiring,
             DP!LoopAcquiring, D!Halt, DP!Halt, D!HaltWith, DP!HaltWith, D!IdleWait,
             DP!IdleWait, D!IdleWaitWith, DP!IdleWaitWith, D!IdlePoll, DP!IdlePoll, D!Resume, DP!Resume, D!Arm, DP!Arm,
             D!ArmWith, DP!ArmWith, D!Pass, DP!Pass, D!PassWith, DP!PassWith,
             D!FetchNothing, DP!FetchNothing, D!FetchDiscard, DP!FetchDiscard,
             D!FetchImage, DP!FetchImage, D!MessageReady, DP!MessageReady, D!Publish,
             DP!Publish, D!FinishLast, DP!FinishLast, D!FinishImage, DP!FinishImage,
             D!AcquisitionDone, DP!AcquisitionDone, D!Exit, DP!Exit, D!Goto, DP!Goto,
             D!StoppedStatus, DP!StoppedStatus
<1> QED
  BY <1>1, <1>2, PTL DEF DP!Safety

\* C and CP are the same consumer.
LEMMA SameConsumer == C!Spec => CP!Spec
<1> USE DEF C!Init, CP!Init, C!Positions, CP!Positions, C!vars, CP!vars, C!kafkaVars,
             CP!kafkaVars, C!taskVars, CP!taskVars, C!callVars, CP!callVars,
             C!portVars, CP!portVars,
             C!history, CP!history, C!Unassigned, CP!Unassigned, C!NoMessage,
             CP!NoMessage, C!StartOffsets,
             CP!StartOffsets, C!ConStats, CP!ConStats, C!Beginning, CP!Beginning,
             C!End, CP!End, C!Stored, CP!Stored
<1>1. C!Init => CP!Init
  OBVIOUS
<1>2. [C!Next]_(C!vars) => [CP!Next]_(CP!vars)
  BY DEF C!Next, CP!Next, C!Port, CP!Port, C!Task, CP!Task, C!SetBrokerAddr,
             CP!SetBrokerAddr, C!SetGroupId, CP!SetGroupId, C!SetStatsTimeIntervalMS,
             CP!SetStatsTimeIntervalMS, C!Configure, CP!Configure, C!SetTopic,
             CP!SetTopic, C!WriteCurrentOffset, CP!WriteCurrentOffset,
             C!WriteStartOffset, CP!WriteStartOffset, C!SetOffset, CP!SetOffset,
             C!OffsetOf, CP!OffsetOf, C!PortCall, CP!PortCall, C!Close, CP!Close,
             C!Delete, CP!Delete, C!Forget, CP!Forget, C!Rebuild, CP!Rebuild,
             C!ShowOffset, CP!ShowOffset, C!ConsumerThere, CP!ConsumerThere,
             C!Create, CP!Create, C!CreateThen, CP!CreateThen, C!Unassign,
             CP!Unassign, C!Assign, CP!Assign, C!ReadHalted, CP!ReadHalted,
             C!ReadHaltedThen, CP!ReadHaltedThen, C!PauseNew, CP!PauseNew,
             C!StoreWritten, CP!StoreWritten, C!Destroy, CP!Destroy, C!StopConsumption, CP!StopConsumption, C!StartConsumption,
             CP!StartConsumption, C!SetHalted, CP!SetHalted, C!TaskCall, CP!TaskCall,
             C!CheckConsumer, CP!CheckConsumer, C!GetAssignment, CP!GetAssignment,
             C!PauseNamed, CP!PauseNamed, C!ResumeNamed, CP!ResumeNamed,
             C!WaitForPkg, CP!WaitForPkg, C!Consume, CP!Consume, C!Event, CP!Event, C!ConsumeNothing,
             CP!ConsumeNothing, C!Deliver, CP!Deliver, C!KeepOffset, CP!KeepOffset,
             C!KeepOffsetAs, CP!KeepOffsetAs, C!ReportOffset, CP!ReportOffset,
             C!ReportOffsetAs, CP!ReportOffsetAs, C!Positions, CP!Positions,
             C!ValidOffset, CP!ValidOffset, C!ToInt, CP!ToInt
<1> QED
  BY <1>1, <1>2, PTL DEF C!Spec, CP!Spec
-----------------------------------------------------------------------------
\* A step of the composition is one of the driver, or none of its business.
LEMMA StepOfDriver ==
  ASSUME [Next]_vars
  PROVE  [D!Next]_(D!vars)
<1> USE DEF D!vars, D!taskVars, D!eventVars, D!settings, D!paramVars, D!kafkaVars,
            D!history, driverVars
<1>1. CASE Client
  BY <1>1 DEF Client, D!Next, D!Client
<1>2. CASE PortCall
  BY <1>2 DEF PortCall, C!SetBrokerAddr, C!SetTopic, C!Configure
<1>3. CASE PortStep
  BY <1>3 DEF PortStep, C!Close, C!Delete, C!Forget, C!Create, C!CreateThen, C!Unassign,
              C!Assign, C!ReadHalted, C!ReadHaltedThen, C!PauseNew, C!StoreWritten
<1>4. CASE Destructor
  BY <1>4 DEF Destructor, Destroy, D!Next, C!Destroy
<1>5. CASE TaskAlone
  BY <1>5 DEF TaskAlone, D!Next, D!Task
<1>6. CASE TaskSwitches
  BY <1>6 DEF TaskSwitches, D!Next, D!Task
<1>7. CASE WaitForPkg
  BY <1>7 DEF WaitForPkg, C!WaitForPkg, consumerVars
<1>8. CASE ReturnPacket
  BY <1>8 DEF ReturnPacket, C!Consume, C!ConsumeNothing, C!Deliver, C!KeepOffset,
              C!KeepOffsetAs, C!ReportOffset, C!ReportOffsetAs
<1>9. CASE TaskReceives
  BY <1>9 DEF TaskReceives, D!Next, D!Task
<1>10. CASE ConsumerCall /\ UNCHANGED <<driverVars, fetched>>
  BY <1>10 DEF ConsumerCall, C!CheckConsumer, C!GetAssignment, C!PauseNamed, C!ResumeNamed
<1>11. CASE UNCHANGED vars
  BY <1>11 DEF vars, consumerVars
<1> QED
  BY <1>1, <1>2, <1>3, <1>4, <1>5, <1>6, <1>7, <1>8, <1>9, <1>10, <1>11 DEF Next, Task

\* And one of the consumer, or none of its business.
LEMMA StepOfConsumer ==
  ASSUME [Next]_vars
  PROVE  [C!Next]_(C!vars)
<1> USE DEF C!vars, C!kafkaVars, C!taskVars, C!callVars, C!portVars, C!history, consumerVars
<1>1. CASE Client \/ TaskAlone \/ TaskReceives
  BY <1>1 DEF Client, TaskAlone, TaskReceives
<1>2. CASE PortCall
  BY <1>2 DEF PortCall, C!Next, C!Port
<1>3. CASE PortStep
  BY <1>3 DEF PortStep, C!Next, C!Port
<1>4. CASE Destructor
  BY <1>4 DEF Destructor, Destroy, C!Next, C!Port
<1>5. CASE TaskSwitches
  BY <1>5 DEF TaskSwitches, Halts, C!Next, C!Task
<1>6. CASE WaitForPkg
  BY <1>6 DEF WaitForPkg, C!Next, C!Task
<1>7. CASE ReturnPacket
  BY <1>7 DEF ReturnPacket, C!Next, C!Task
<1>8. CASE ConsumerCall /\ UNCHANGED <<driverVars, fetched>>
  BY <1>8 DEF ConsumerCall, C!Next, C!Task
<1>9. CASE UNCHANGED vars
  BY <1>9 DEF vars
<1> QED
  BY <1>1, <1>2, <1>3, <1>4, <1>5, <1>6, <1>7, <1>8, <1>9 DEF Next, Task

\* The composition is a driver, as far as its steps go, and a consumer: the calls
\* that consumeTask() makes are calls that KafkaConsumer allows, and what they do
\* to consumptionHalted is what KafkaDriver says of them.
THEOREM CompositionImplementsParts ==
  Spec => /\ D!Init /\ [][D!Next]_(D!vars)
          /\ C!Spec
<1>1. Init => D!Init /\ C!Init
  BY DEF Init
<1>2. [Next]_vars => [D!Next]_(D!vars)
  BY StepOfDriver
<1>3. [Next]_vars => [C!Next]_(C!vars)
  BY StepOfConsumer
<1> QED
  BY <1>1, <1>2, <1>3, PTL DEF Spec, C!Spec
-----------------------------------------------------------------------------
\* The consumer keeps its types, works with the settings and the topic its members
\* hold, and is paused while it is halted, under the calls of the driver.
THEOREM ConsumerStaysSound == Spec => []ConsumerIsSound
<1>1. Spec => CP!Spec
  BY CompositionImplementsParts, SameConsumer
<1>2. CP!Spec => []CP!TypeOK
  BY CP!ConsumerTyped, CompositionAssumption DEF CP!ConStats
<1>3. CP!Spec => []CP!PortConsistent
  BY CP!PortIsConsistent, CompositionAssumption DEF CP!ConStats
<1>4. CP!Spec => []CP!HaltHolds
  BY CP!HaltIsKept, CompositionAssumption DEF CP!ConStats
<1>5. CP!TypeOK => C!TypeOK
  BY DEF C!TypeOK, CP!TypeOK, C!Ports, CP!Ports, C!Tasks, CP!Tasks, C!StartOffsets,
         CP!StartOffsets, C!ConStats, CP!ConStats, C!Beginning, CP!Beginning, C!End,
         CP!End, C!Stored, CP!Stored
<1>6. CP!PortConsistent => C!PortConsistent
  BY DEF C!PortConsistent, CP!PortConsistent
<1>7. CP!HaltHolds => C!HaltHolds
  BY DEF C!HaltHolds, CP!HaltHolds, C!Unassigned, CP!Unassigned
<1>8. CP!TypeOK /\ CP!PortConsistent /\ CP!HaltHolds => ConsumerIsSound
  BY <1>5, <1>6, <1>7 DEF ConsumerIsSound
<1> QED
  BY <1>1, <1>2, <1>3, <1>4, <1>8, PTL

\* What the task promises to clients it promises with its consumer too: a stop is
\* not lost and prompt, every packet is counted, the status is true at rest, and
\* the idle loop is entered with consumption halted.
THEOREM DriverStaysSound ==
  Spec => [](/\ D!StopNeverLost /\ D!StopIsPrompt
             /\ D!CountsEveryImage /\ D!StatusSettled
             /\ D!IdleIsHalted)
<1>1. Spec => DP!Safety
  BY CompositionImplementsParts, SameDriver
<1>2. DP!Safety => []DP!DriverSound
  BY DP!DriverIsSound, CompositionAssumption
<1>3. DP!DriverSound => /\ D!StopNeverLost /\ D!StopIsPrompt
                        /\ D!CountsEveryImage /\ D!StatusSettled
                        /\ D!IdleIsHalted
  BY DEF DP!DriverSound, D!StopNeverLost, DP!StopNeverLost, D!Engaged, DP!Engaged,
         D!StopIsPrompt, DP!StopIsPrompt, D!CountsEveryImage, DP!CountsEveryImage,
         D!StatusSettled, DP!StatusSettled, D!IdleIsHalted, DP!IdleIsHalted,
         D!IdleLoop, DP!IdleLoop
<1> QED
  BY <1>1, <1>2, <1>3, PTL

\* And it implements the abstract control, with the packets of a real consumer.
THEOREM CompositionImplementsControl == Spec => DP!ImplementsControl
<1>1. Spec => DP!Safety
  BY CompositionImplementsParts, SameDriver
<1>2. DP!Safety => DP!ImplementsControl
  BY DP!ControlRefined, CompositionAssumption
<1> QED
  BY <1>1, <1>2
-----------------------------------------------------------------------------
\* LeavesFirst holds in every reachable state.
LEMMA LeavingInvariant == Spec => []LeavesFirst
<1> USE DEF LeavesFirst
<1>1. Init => LeavesFirst
  BY DEF Init, D!Init, C!Init
<1>2. LeavesFirst /\ [Next]_vars => LeavesFirst'
  <2> SUFFICES ASSUME LeavesFirst, [Next]_vars PROVE LeavesFirst'
    OBVIOUS
  <2> USE DEF driverVars, consumerVars, D!taskVars, D!eventVars, D!Goto
  <2>1. CASE Client
    BY <2>1 DEF Client, D!WriteStart, D!WriteStop
  <2>2. CASE PortCall
    BY <2>2 DEF PortCall, C!SetBrokerAddr, C!SetTopic, C!Configure, C!PortCall,
                C!callVars, C!taskVars
  <2>3. CASE PortStep
    BY <2>3 DEF PortStep, C!Close, C!Delete, C!Forget, C!Create, C!CreateThen,
                C!Unassign, C!Assign, C!ReadHalted, C!ReadHaltedThen, C!PauseNew,
                C!StoreWritten, C!callVars, C!taskVars
  <2>4. CASE Destroy
    BY <2>4 DEF Destroy, C!Destroy, C!taskVars
  <2>5. CASE D!Destructor /\ UNCHANGED <<consumerVars, fetched>>
    BY <2>5 DEF D!Destructor, D!DtorClearFlag, D!DtorSignal, D!DtorReturn
  <2>6. CASE TaskAlone
    BY <2>6 DEF TaskAlone, D!LoopExit, D!LoopExitTo, D!LoopIdle, D!LoopAcquiring, D!Pass,
                D!PassWith, D!IdleWait, D!IdleWaitWith, D!Exit, D!Begin, D!Arm, D!ArmWith, D!Publish
  <2>7. CASE TaskSwitches
    <3>1. pc \in {"halt", "resume", "finish"} /\ pc' \in {"idleWait", "arm", "top"}
      BY <2>7 DEF TaskSwitches, D!Halt, D!HaltWith, D!Resume, D!FinishLast, D!FinishImage
    <3>2. UNCHANGED <<threadExitEvent, dtor>>
      BY <2>7 DEF TaskSwitches, D!Halt, D!HaltWith, D!Resume, D!FinishLast, D!FinishImage
    <3>3. UNCHANGED ending
      BY <2>7 DEF TaskSwitches, Halts, C!StopConsumption, C!StartConsumption, C!SetHalted,
                  C!callVars, C!portVars
    <3> QED
      BY <3>1, <3>2, <3>3
  <2>8. CASE WaitForPkg
    BY <2>8 DEF WaitForPkg, C!WaitForPkg, C!callVars, C!portVars
  <2>9. CASE ReturnPacket \/ (ConsumerCall /\ UNCHANGED <<driverVars, fetched>>)
    BY <2>9 DEF ReturnPacket, ConsumerCall, C!Consume, C!ConsumeNothing, C!Deliver,
                C!KeepOffset, C!KeepOffsetAs, C!ReportOffset, C!ReportOffsetAs,
                C!CheckConsumer, C!GetAssignment, C!PauseNamed, C!ResumeNamed,
                C!callVars, C!portVars
  <2>10. CASE TaskReceives
    BY <2>10 DEF TaskReceives, D!IdlePoll, D!FetchNothing, D!FetchImage, D!FetchDiscard
  <2>11. CASE UNCHANGED vars
    BY <2>11 DEF vars
  <2> QED
    BY <2>1, <2>2, <2>3, <2>4, <2>5, <2>6, <2>7, <2>8, <2>9, <2>10, <2>11
       DEF Next, Destructor, Task
<1> QED
  BY <1>1, <1>2, PTL DEF Spec

\* The consumer is never destroyed under the thread: by then the thread has left
\* its loop and has no call on the consumer under way.
THEOREM ConsumerOutlivesThread == Spec => []OutlivesThread
<1>1. LeavesFirst => OutlivesThread
  BY DEF LeavesFirst, OutlivesThread
<1> QED
  BY <1>1, LeavingInvariant, PTL

\* A packet reaches the idle loop only through a port call that is between its
\* assign() and its pause(): everywhere else a halted consumer is paused.
THEOREM AbortsOnlyInUpdate == Spec => AbortOnlyInUpdate
<1>1. Spec => CP!Spec
  BY CompositionImplementsParts, SameConsumer
<1>2. CP!Spec => []CP!HaltIInv
  BY CP!HaltInvariant, CompositionAssumption DEF CP!ConStats
<1>3. CP!HaltIInv /\ D!IdleIsHalted /\ [Next]_vars
      => [C!Deliver /\ pc = "idlePoll" => port \in {"readHalted", "pause"}]_vars
  BY DEF CP!HaltIInv, CP!PauseComing, CP!Assigning, D!IdleIsHalted, D!IdleLoop,
         C!Deliver, C!Unassigned, CP!Unassigned
<1> QED
  BY <1>1, <1>2, <1>3, DriverStaysSound, PTL DEF Spec, AbortOnlyInUpdate
=============================================================================
