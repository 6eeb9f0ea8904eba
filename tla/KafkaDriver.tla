----------------------------- MODULE KafkaDriver -----------------------------
(***************************************************************************)
(* The acquisition control of the ADKafka areaDetector driver: the         *)
(* consumeTask() thread, the writeInt32() calls of channel access clients  *)
(* and the destructor.                                                     *)
(*                                                                         *)
(* writeInt32() runs with the asyn port lock held.  consumeTask() gives    *)
(* the lock back in three places only: in its idle loop, around            *)
(* consumer.WaitForPkg() and around doCallbacksGenericPointer().  A step   *)
(* of the task is the code between two of those places, cut where the      *)
(* source loops or joins; pc \in Locked marks the cuts inside a critical   *)
(* section, where no client can run.  The destructor takes no lock.        *)
(*                                                                         *)
(* start/stop/exit events are epicsEvents: binary semaphores.  The Kafka   *)
(* log is abstracted to the offset of the next message (see KafkaConsumer  *)
(* for the consumer object itself).                                        *)
(***************************************************************************)
EXTENDS Integers

CONSTANTS MaxMessages,  \* number of messages that ever reach the topic (bound)
          ImageCounts   \* the values clients write to ADNumImages

ASSUME DriverAssumption ==
  /\ MaxMessages \in Nat
  /\ ImageCounts # {}
  /\ ImageCounts \subseteq Nat

VARIABLES
  pc,               \* where consumeTask() is
  acquire,          \* its local flag: acquiring
  woken,            \* its local status: did the wait in the idle loop see a start event
  mode,             \* its local copy of ADImageMode, read once per pass
  keepThreadAlive,
  startEvent, stopEvent, threadExitEvent,
  adAcquire,        \* parameter ADAcquire, as clients read and write it
  adStatus,         \* parameter ADStatus
  imageMode,        \* parameter ADImageMode
  numImages,        \* parameter ADNumImages
  counter,          \* parameter ADNumImagesCounter
  arrayCallbacks,   \* parameter NDArrayCallbacks
  halted,           \* consumer.consumptionHalted
  nextMsg,          \* offset of the next message WaitForPkg() can return
  dtor,             \* progress of ~KafkaDriver()
  runStart,         \* history: nextMsg when the current acquisition began
  late,             \* history: images published since the client's last stop request
  stopped           \* history: the last request of a client was a stop, and it found
                    \* the start event it cancels already taken by the task

taskVars   == <<pc, acquire, woken, mode>>
eventVars  == <<startEvent, stopEvent, threadExitEvent>>
settings   == <<imageMode, numImages, arrayCallbacks>>
paramVars  == <<adAcquire, adStatus, counter>>
kafkaVars  == <<halted, nextMsg>>
history    == <<runStart, late, stopped>>
vars == <<taskVars, keepThreadAlive, eventVars, settings, paramVars, kafkaVars,
          dtor, history>>

Modes    == {"Single", "Multiple", "Continuous"}
Statuses == {"Idle", "Acquire", "Aborted", "Readout", "Waiting"}
Locked   == {"top", "pass", "finish"}
IdleLoop == {"idleWait", "idlePoll"}
Places   == Locked \cup IdleLoop \cup
            {"start", "halt", "resume", "arm", "fetch", "publish", "exiting", "exited"}

\* Mutant: the status that writeInt32() left behind stays.
StoppedStatusKept(m) == "Acquire"

\* The status of an acquisition that a stop event ended.
StoppedStatus(m) == IF m = "Continuous" THEN "Idle" ELSE "Aborted"

Init ==
  /\ pc = "start" /\ acquire = FALSE /\ woken = FALSE
  /\ mode = "Continuous"
  /\ keepThreadAlive = FALSE
  /\ startEvent = FALSE /\ stopEvent = FALSE /\ threadExitEvent = FALSE
  /\ adAcquire = FALSE /\ adStatus = "Idle"
  /\ imageMode \in Modes
  /\ numImages \in ImageCounts
  /\ counter = 0
  /\ arrayCallbacks = TRUE
  /\ halted = TRUE
  /\ nextMsg = 0
  /\ dtor = "none"
  /\ runStart = 0 /\ late = 0 /\ stopped = FALSE
-----------------------------------------------------------------------------
(* Clients: writeInt32() under the port lock.  A write of ADAcquire that    *)
(* does not change it stores the same value and signals nothing.           *)

ClientCanWrite == pc \notin Locked /\ dtor = "none"

WriteStart ==
  /\ ClientCanWrite
  /\ ~adAcquire
  /\ adAcquire' = TRUE
  /\ startEvent' = TRUE
  /\ late' = 0
  /\ stopped' = FALSE
  /\ UNCHANGED <<taskVars, keepThreadAlive, stopEvent, threadExitEvent, settings,
                 adStatus, counter, kafkaVars, dtor, runStart>>

\* The Idle or Aborted status set first is overwritten by ADStatusAcquire.
WriteStop ==
  /\ ClientCanWrite
  /\ adAcquire
  /\ adAcquire' = FALSE
  /\ adStatus' = "Acquire"
  /\ stopEvent' = TRUE
  /\ stopped' = ~startEvent
  /\ UNCHANGED <<taskVars, keepThreadAlive, startEvent, threadExitEvent, settings,
                 counter, kafkaVars, dtor, runStart, late>>

WriteSetting ==
  /\ ClientCanWrite
  /\ \/ imageMode' \in Modes /\ UNCHANGED <<numImages, arrayCallbacks>>
     \/ numImages' \in ImageCounts /\ UNCHANGED <<imageMode, arrayCallbacks>>
     \/ arrayCallbacks' \in BOOLEAN /\ UNCHANGED <<imageMode, numImages>>
  /\ UNCHANGED <<taskVars, keepThreadAlive, eventVars, paramVars, kafkaVars, dtor,
                 history>>

Client == WriteStart \/ WriteStop \/ WriteSetting
-----------------------------------------------------------------------------
(* The destructor: no lock, and not atomic.                                *)

DtorClearFlag ==
  /\ dtor = "none"
  /\ dtor' = "signal"
  /\ keepThreadAlive' = FALSE
  /\ UNCHANGED <<taskVars, eventVars, settings, paramVars, kafkaVars, history>>

DtorSignal ==
  /\ dtor = "signal"
  /\ dtor' = "wait"
  /\ startEvent' = TRUE
  /\ UNCHANGED <<taskVars, keepThreadAlive, stopEvent, threadExitEvent, settings,
                 paramVars, kafkaVars, history>>

\* Mutant: the destructor does not wait for the thread.
DtorReturnEarly ==
  /\ dtor = "wait"
  /\ dtor' = "done"
  /\ UNCHANGED <<taskVars, keepThreadAlive, eventVars, settings, paramVars, kafkaVars,
                 history>>

DtorReturn ==
  /\ dtor = "wait"
  /\ threadExitEvent
  /\ dtor' = "done"
  /\ threadExitEvent' = FALSE
  /\ UNCHANGED <<taskVars, keepThreadAlive, startEvent, stopEvent, settings,
                 paramVars, kafkaVars, history>>

Destructor == DtorClearFlag \/ DtorSignal \/ DtorReturn
-----------------------------------------------------------------------------
(* consumeTask()                                                           *)

Goto(from, to) == pc = from /\ pc' = to

Begin ==
  /\ Goto("start", "top")
  /\ keepThreadAlive' = TRUE
  /\ UNCHANGED <<acquire, woken, mode, eventVars, settings, paramVars, kafkaVars,
                 dtor, history>>

LoopExitTo(place) ==
  /\ Goto("top", place)
  /\ ~keepThreadAlive
  /\ UNCHANGED <<acquire, woken, mode, keepThreadAlive, eventVars, settings,
                 paramVars, kafkaVars, dtor, history>>

\* Mutant: the exit event is signalled on the way out of the idle loop only.
LoopExitSilently == LoopExitTo("exited")

LoopExit == LoopExitTo("exiting")

LoopIdle ==
  /\ Goto("top", "halt")
  /\ keepThreadAlive /\ ~acquire
  /\ UNCHANGED <<acquire, woken, mode, keepThreadAlive, eventVars, settings,
                 paramVars, kafkaVars, dtor, history>>

LoopAcquiring ==
  /\ Goto("top", "pass")
  /\ keepThreadAlive /\ acquire
  /\ UNCHANGED <<acquire, woken, mode, keepThreadAlive, eventVars, settings,
                 paramVars, kafkaVars, dtor, history>>

HaltWith(stop) ==
  /\ Goto("halt", "idleWait")
  /\ halted' = stop
  /\ UNCHANGED <<acquire, woken, mode, keepThreadAlive, eventVars, settings,
                 paramVars, nextMsg, dtor, history>>

\* Mutant: no StopConsumption() in front of the idle loop.
HaltNothing == HaltWith(halted)

Halt == HaltWith(TRUE)

\* epicsEventWaitWithTimeout(): the event if it is there, a timeout if not.
IdleWaitWith(started) ==
  /\ pc = "idleWait"
  /\ pc' = IF keepThreadAlive THEN "idlePoll" ELSE "exiting"
  /\ woken' = started
  /\ startEvent' = FALSE
  /\ UNCHANGED <<acquire, mode, keepThreadAlive, stopEvent, threadExitEvent,
                 settings, paramVars, kafkaVars, dtor, history>>

\* Mutant: a wait that timed out counts as a start.
IdleWaitTimedOut == IdleWaitWith(TRUE)

IdleWait == IdleWaitWith(startEvent)

\* WaitForPkg(50) serves the connection statistics.  A message here aborts the
\* process: IdleIsHalted says that the consumer has none to give.
IdlePoll ==
  /\ pc = "idlePoll"
  /\ pc' = IF woken THEN "resume" ELSE "idleWait"
  /\ UNCHANGED <<acquire, woken, mode, keepThreadAlive, eventVars, settings,
                 paramVars, kafkaVars, dtor, history>>

Resume ==
  /\ Goto("resume", "arm")
  /\ halted' = FALSE
  /\ UNCHANGED <<acquire, woken, mode, keepThreadAlive, eventVars, settings,
                 paramVars, nextMsg, dtor, history>>

ArmWith(count, stop) ==
  /\ Goto("arm", "pass")
  /\ acquire' = TRUE
  /\ counter' = count
  /\ stopEvent' = stop
  /\ runStart' = nextMsg
  /\ UNCHANGED <<woken, mode, keepThreadAlive, startEvent, threadExitEvent, settings,
                 adAcquire, adStatus, kafkaVars, dtor, late, stopped>>

\* Mutants: arming drains the stop event, keeps the counter, counts from one.
ArmDraining   == ArmWith(0, FALSE)
ArmCountingOn == ArmWith(counter, stopEvent)
ArmFromOne    == ArmWith(1, stopEvent)

Arm == ArmWith(0, stopEvent)

\* The head of a pass: read the mode, take a pending stop event.
PassWith(acquiring, stop) ==
  /\ Goto("pass", "fetch")
  /\ mode' = imageMode
  /\ acquire' = acquiring
  /\ stopEvent' = stop
  /\ adStatus' = IF acquiring THEN "Acquire" ELSE StoppedStatus(imageMode)
  /\ UNCHANGED <<woken, keepThreadAlive, startEvent, threadExitEvent, settings,
                 adAcquire, counter, kafkaVars, dtor, history>>

\* Mutants: the stop event is taken and forgotten, or not looked at.
PassForgetful == PassWith(acquire, FALSE)
PassBlind     == PassWith(acquire, stopEvent)

Pass == PassWith(~stopEvent, FALSE)

FetchNothing ==
  /\ Goto("fetch", "top")
  /\ UNCHANGED <<acquire, woken, mode, keepThreadAlive, eventVars, settings,
                 paramVars, kafkaVars, dtor, history>>

MessageReady == ~halted /\ nextMsg < MaxMessages

\* A message that arrives in the pass that took the stop event is dropped.
FetchDiscard ==
  /\ Goto("fetch", "top")
  /\ MessageReady /\ ~acquire
  /\ nextMsg' = nextMsg + 1
  /\ UNCHANGED <<acquire, woken, mode, keepThreadAlive, eventVars, settings,
                 paramVars, halted, dtor, history>>

FetchImage ==
  /\ pc = "fetch"
  /\ MessageReady /\ acquire
  /\ nextMsg' = nextMsg + 1
  /\ adStatus' = "Readout"
  /\ counter' = counter + 1
  /\ pc' = IF arrayCallbacks THEN "publish" ELSE "finish"
  /\ UNCHANGED <<acquire, woken, mode, keepThreadAlive, eventVars, settings,
                 adAcquire, halted, dtor, history>>

\* doCallbacksGenericPointer(), with the lock released.
Publish ==
  /\ Goto("publish", "finish")
  /\ late' = IF adAcquire THEN late ELSE late + 1
  /\ UNCHANGED <<acquire, woken, mode, keepThreadAlive, eventVars, settings,
                 paramVars, kafkaVars, dtor, runStart, stopped>>

AcquisitionDone ==
  \/ mode = "Single"
  \/ mode = "Multiple" /\ counter >= numImages

FinishLast ==
  /\ Goto("finish", "top")
  /\ AcquisitionDone
  /\ acquire' = FALSE
  /\ halted' = TRUE
  /\ adAcquire' = FALSE
  /\ adStatus' = "Idle"
  /\ UNCHANGED <<woken, mode, keepThreadAlive, eventVars, settings, counter,
                 nextMsg, dtor, history>>

FinishImage ==
  /\ Goto("finish", "top")
  /\ ~AcquisitionDone
  /\ stopEvent' = FALSE
  /\ acquire' = ~stopEvent
  /\ halted' = stopEvent
  /\ adStatus' = IF stopEvent THEN StoppedStatus(mode) ELSE "Waiting"
  /\ UNCHANGED <<woken, mode, keepThreadAlive, startEvent, threadExitEvent,
                 settings, adAcquire, counter, nextMsg, dtor, history>>

Exit ==
  /\ Goto("exiting", "exited")
  /\ threadExitEvent' = TRUE
  /\ UNCHANGED <<acquire, woken, mode, keepThreadAlive, startEvent, stopEvent,
                 settings, paramVars, kafkaVars, dtor, history>>

Task ==
  \/ Begin \/ LoopExit \/ LoopIdle \/ LoopAcquiring
  \/ Halt \/ IdleWait \/ IdlePoll \/ Resume \/ Arm
  \/ Pass \/ FetchNothing \/ FetchDiscard \/ FetchImage
  \/ Publish \/ FinishLast \/ FinishImage
  \/ Exit
-----------------------------------------------------------------------------
Next == Client \/ Destructor \/ Task

\* The operating system keeps running the task's thread, every wait of which
\* has a timeout, and a destructor that has begun; clients owe nothing.
Fairness == WF_vars(Task) /\ WF_vars(DtorSignal) /\ WF_vars(DtorReturn)

Spec == Init /\ [][Next]_vars /\ Fairness
-----------------------------------------------------------------------------
FlagTypeOK ==
  /\ acquire \in BOOLEAN /\ woken \in BOOLEAN
  /\ keepThreadAlive \in BOOLEAN
  /\ startEvent \in BOOLEAN /\ stopEvent \in BOOLEAN /\ threadExitEvent \in BOOLEAN
  /\ adAcquire \in BOOLEAN
  /\ arrayCallbacks \in BOOLEAN
  /\ halted \in BOOLEAN
  /\ stopped \in BOOLEAN

StateTypeOK ==
  /\ pc \in Places
  /\ mode \in Modes
  /\ adStatus \in Statuses
  /\ imageMode \in Modes
  /\ numImages \in ImageCounts
  /\ dtor \in {"none", "signal", "wait", "done"}

CountTypeOK ==
  /\ counter \in 0..MaxMessages
  /\ nextMsg \in 0..MaxMessages
  /\ runStart \in 0..MaxMessages
  /\ late \in Nat

\* Every variable has its type; the image counter never exceeds the topic.
TypeOK == FlagTypeOK /\ StateTypeOK /\ CountTypeOK

\* The task is acquiring, or past the wait that lets it start to.
Engaged == acquire \/ pc \in {"resume", "arm"} \/ (pc = "idlePoll" /\ woken)

\* A stop request that cancels a start the task has already taken is never lost:
\* until a client writes ADAcquire = 1 again, a task that is acquiring or on its
\* way to it has a stop event pending, which its next TryWait takes.  The event
\* must survive the task's own stops and restarts in between.
StopNeverLost == dtor = "none" /\ stopped /\ Engaged => stopEvent

\* Such a stop is prompt: after it, the driver publishes at most the one image
\* it was already waiting for or working on.
StopIsPrompt == dtor = "none" /\ stopped => late <= 1

\* What KafkaDriver.cpp:140-141 says of a write of ADAcquire = 0, without the
\* proviso that the start was taken: the command stops the acquisition, so the
\* task does not acquire with ADAcquire = 0 and no stop event on its way.
StopIsObeyed == dtor = "none" /\ ~adAcquire /\ acquire => stopEvent

\* The abort() in the idle loop is unreachable for this thread alone: every path
\* of consumeTask() into the idle loop has halted consumption first.
IdleIsHalted == pc \in IdleLoop => halted

\* While acquiring, ADNumImagesCounter counts every message taken from the topic
\* since the start; once stopped, at most one message was taken and dropped.
CountsEveryImage ==
  /\ acquire => nextMsg = runStart + counter
  /\ nextMsg - runStart - counter \in 0..1

\* ADStatus tells the truth at rest: in the idle loop, with no stop event
\* pending, ADStatus is Idle or Aborted and not the Acquire that writeInt32()
\* leaves behind on a stop.
StatusSettled == pc \in IdleLoop /\ ~stopEvent => adStatus \in {"Idle", "Aborted"}

\* The refinement mapping.  The stages of AcquisitionControl are those of a pass;
\* a start counts as requested while its event is pending, and once the task has
\* taken the event until it arms.
Stage ==
  CASE pc \in {"exiting", "exited"} -> "gone"
    [] acquire /\ pc \in {"top", "pass"} -> "deciding"
    [] acquire /\ pc = "fetch" -> "waiting"
    [] acquire /\ pc \in {"publish", "finish"} -> "delivering"
    [] ~acquire /\ pc = "fetch" -> "draining"
    [] OTHER -> "idle"

Requests ==
  (IF startEvent THEN 1 ELSE 0) +
  (IF pc \in {"resume", "arm"} \/ (pc = "idlePoll" /\ woken) THEN 1 ELSE 0)

Control == INSTANCE AcquisitionControl WITH
  stage <- Stage, wanted <- adAcquire, requests <- Requests, asked <- stopEvent,
  owner <- dtor, taken <- nextMsg, count <- counter

\* Every step of the driver is a step of AcquisitionControl.  Whatever clients do
\* meanwhile, a stop that is pending when a pass decides is obeyed there, and used
\* up by that alone.  Every acquisition uses up a request, and only a write of
\* ADAcquire = 1 or the destructor makes one: a wait of the idle loop that times
\* out does not.  No message is taken unseen, and the destructor does not return
\* before the thread has left its loop.
ImplementsControl == Control!Safety

\* And it does not stop halfway: a pending stop ends the acquisition it finds
\* whatever the broker does, and a start that was requested begins, or the
\* driver is destroyed.
ServesRequests == Control!StopServed /\ Control!StartServed

\* The destructor returns, unless it ran before the task's thread had started
\* and the thread then set keepThreadAlive again.
DestructorReturns ==
  (dtor = "wait" /\ pc # "start" /\ ~keepThreadAlive) ~> (dtor = "done")

\* What KafkaDriver.cpp:134-136 says of a write of ADAcquire = 1: it wakes the
\* consumer task, which then generates images.  So when ADAcquire is 1 and the
\* task is about to wait in its idle loop, a start event is there to be taken.
AcquireMeansRunning ==
  dtor = "none" /\ pc = "idleWait" /\ adAcquire => startEvent
=============================================================================
