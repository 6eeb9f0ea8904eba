-------------------------- MODULE DriverWithConsumer --------------------------
(***************************************************************************)
(* KafkaDriver and the KafkaConsumer it owns, joined where the code joins  *)
(* them: consumeTask() starts and stops consumption and waits for packets, *)
(* writes of the broker and the topic are calls of the port thread, and    *)
(* the port lock decides which of those may overlap.  A call of the task   *)
(* on the consumer begins in one step and ends in the step in which the    *)
(* consumer's "task" is back at rest; until then the task stands still.    *)
(*                                                                         *)
(* What a packet is worth to each side is the same thing here: nextMsg of  *)
(* KafkaDriver is the number of packets taken, halted is the member        *)
(* consumptionHalted, and an idle poll that is handed one aborts.          *)
(*                                                                         *)
(* SetBrokerAddr and SetTopic stand for the port calls: the others take    *)
(* the same two ways, through MakeConnection() and UpdateTopic().  Events  *)
(* of librdkafka, which change the status shown alone, are left out.       *)
(***************************************************************************)
EXTENDS Integers

CONSTANTS MaxMessages,  \* packets that are ever taken (bound)
          ImageCounts,
          Topics, Brokers, Groups, Intervals, LogEnd, Written, IntMax, None

ASSUME CompositionAssumption ==
  /\ MaxMessages \in Nat
  /\ ImageCounts # {} /\ ImageCounts \subseteq Nat
  /\ LogEnd \in Nat /\ IntMax \in Nat /\ IntMax >= 3
  /\ Written \subseteq -(IntMax + 1)..IntMax
  /\ None \notin Topics \cup Brokers \cup {"CONNECTED", "DISCONNECTED", "ERROR"}

VARIABLES
  pc, acquire, woken, mode, keepThreadAlive, startEvent, stopEvent, threadExitEvent,
  adAcquire, adStatus, imageMode, numImages, counter, arrayCallbacks,
  dtor, runStart, late, stopped,
  connected, settings, live, assigned, paused, topicName, topicOffset,
  consumptionHalted, startOffset, msgOffset, conStatus, port, toWrite, given, ending,
  task, named, message, dangling, last, expect,
  taken,    \* packets that consumeTask() has taken
  fetched   \* its WaitForPkg(): not called, waiting, or what it returned

D == INSTANCE KafkaDriver WITH halted <- consumptionHalted, nextMsg <- taken
C == INSTANCE KafkaConsumer WITH Serialised <- FALSE

\* The variables of the driver, but for the one it shares, and of the consumer.
driverVars == <<pc, acquire, woken, mode, keepThreadAlive, startEvent, stopEvent,
                threadExitEvent, adAcquire, adStatus, imageMode, numImages, counter,
                arrayCallbacks, dtor, runStart, late, stopped, taken>>
consumerVars == <<connected, settings, live, assigned, paused, topicName, topicOffset,
                  consumptionHalted, startOffset, msgOffset, conStatus, port, toWrite,
                  given, ending, task, named, message, dangling, last, expect>>
vars == <<driverVars, consumerVars, fetched>>

Init == D!Init /\ C!Init /\ fetched = "no"

Aborted == pc = "idlePoll" /\ fetched = "message"

\* The asyn port lock is not held by a port call.
PortFree == port = "rest"
-----------------------------------------------------------------------------
(* Calls under the port lock.                                              *)

Client ==
  /\ ~Aborted /\ PortFree
  /\ D!WriteStart \/ D!WriteStop
  /\ UNCHANGED <<consumerVars, fetched>>

PortCall ==
  /\ ~Aborted /\ D!ClientCanWrite
  /\ C!SetBrokerAddr \/ C!SetTopic
  /\ UNCHANGED <<driverVars, fetched>>

PortStep ==
  /\ ~Aborted
  /\ \/ C!Close \/ C!Delete \/ C!Forget \/ C!Create
     \/ C!Unassign \/ C!Assign \/ C!ReadHalted \/ C!PauseNew \/ C!StoreWritten
  /\ UNCHANGED <<driverVars, fetched>>

\* The members of the driver, the consumer among them, go after ~KafkaDriver(),
\* whose own steps take no lock.
Destroy ==
  /\ dtor = "done"
  /\ C!Destroy
  /\ UNCHANGED <<driverVars, fetched>>

Destructor ==
  \/ /\ ~Aborted
     /\ D!Destructor
     /\ UNCHANGED <<consumerVars, fetched>>
  \/ Destroy
-----------------------------------------------------------------------------
(* consumeTask()                                                           *)

\* Steps that do not call the consumer; those that enter a locked part of the
\* code have to wait for the port call in progress.
TaskAlone ==
  /\ ~Aborted /\ task = "rest"
  /\ \/ D!LoopExit \/ D!LoopIdle \/ D!LoopAcquiring \/ D!Pass \/ D!IdleWait \/ D!Exit
     \/ PortFree /\ (D!Begin \/ D!Arm \/ D!Publish)
  /\ UNCHANGED <<consumerVars, fetched>>

\* StopConsumption() and StartConsumption() do nothing when there is nothing to do.
Halts(stop) ==
  IF consumptionHalted = stop THEN task = "rest" /\ UNCHANGED consumerVars
  ELSE IF stop THEN C!StopConsumption ELSE C!StartConsumption

TaskSwitches ==
  /\ ~Aborted
  /\ \/ D!Halt /\ Halts(TRUE)
     \/ D!Resume /\ Halts(FALSE)
     \/ D!FinishLast /\ Halts(TRUE)
     \/ D!FinishImage /\ Halts(stopEvent)
  /\ UNCHANGED fetched

\* WaitForPkg(), which returns at once without a consumer or a topic.
WaitForPkg ==
  /\ pc \in {"fetch", "idlePoll"} /\ fetched = "no"
  /\ \/ C!WaitForPkg /\ fetched' = "waiting"
     \/ /\ task = "rest" /\ ~(connected /\ topicName # None)
        /\ fetched' = "nothing"
        /\ UNCHANGED consumerVars
  /\ UNCHANGED driverVars

ReturnPacket ==
  \/ C!Consume /\ UNCHANGED <<driverVars, fetched>>
  \/ C!ConsumeNothing /\ fetched' = "nothing" /\ UNCHANGED driverVars
  \/ C!Deliver /\ taken < MaxMessages /\ UNCHANGED <<driverVars, fetched>>
  \/ C!KeepOffset /\ UNCHANGED <<driverVars, fetched>>
  \/ C!ReportOffset /\ fetched' = "message" /\ UNCHANGED driverVars

\* What consumeTask() does with the result.
TaskReceives ==
  /\ \/ fetched = "nothing" /\ D!IdlePoll
     \/ fetched = "nothing" /\ PortFree /\ D!FetchNothing
     \/ fetched = "message" /\ PortFree /\ (D!FetchImage \/ D!FetchDiscard)
  /\ fetched' = "no"
  /\ UNCHANGED consumerVars

\* The rest of StopConsumption() and StartConsumption().
ConsumerCall == C!CheckConsumer \/ C!GetAssignment \/ C!PauseNamed \/ C!ResumeNamed

Task ==
  \/ TaskAlone \/ TaskSwitches \/ WaitForPkg \/ ReturnPacket \/ TaskReceives
  \/ ConsumerCall /\ UNCHANGED <<driverVars, fetched>>
-----------------------------------------------------------------------------
Next == Client \/ PortCall \/ PortStep \/ Destructor \/ Task

\* The task's thread keeps running, consume() has a timeout, and a port call or a
\* destructor that has begun goes on.  Nobody owes a call.
Fairness ==
  /\ WF_vars(Task) /\ WF_vars(PortStep)
  /\ WF_vars(Destructor /\ dtor # "none")

Spec == Init /\ [][Next]_vars /\ Fairness
-----------------------------------------------------------------------------
\* The invariants of the consumer that KafkaConsumer shows for calls in any order,
\* and those of the task, for the calls that the driver really makes.
ConsumerIsSound == C!TypeOK /\ C!PortConsistent /\ C!HaltHolds

\* A packet can reach the idle loop, and so the abort() there, in one way only:
\* through a port call that is between its assign() and its pause().
AbortOnlyInUpdate ==
  [][C!Deliver /\ pc = "idlePoll" => port \in {"readHalted", "pause"}]_vars

\* ~KafkaDriver() has waited for the thread, so that the consumer is never
\* destroyed under it, in the middle of a call or before one.
OutlivesThread == ending => pc = "exited" /\ task = "rest"

\* A stop reaches Kafka: after one that found its start taken, if clients then
\* leave the driver alone, consumption is switched off for good, in the
\* consumer object too, whatever reconnections had been under way.
StopSilences ==
  (<>[](stopped /\ dtor = "none" /\ PortFree))
    => <>[](Aborted \/ (consumptionHalted /\ (paused \/ assigned.topic = None)))

\* A destructor that was called after the thread had started gets to the end of
\* the consumer's, although the thread may be waiting for a packet.  Nothing undoes
\* the condition, so the two sides may be said to hold for good.
ShutsDown ==
  (<>[](dtor \in {"wait", "done"} /\ pc # "start" /\ ~keepThreadAlive))
    => <>[](port = "gone" \/ Aborted)

\* KafkaDriver.cpp:281 says of the abort() in the idle loop: "This should never
\* happen".
NoAbort == ~Aborted
=============================================================================
