------------------------- MODULE KafkaDriver_proofs -------------------------
(***************************************************************************)
(* Proofs about KafkaDriver, for every length of the topic and every set   *)
(* of image counts.                                                        *)
(*                                                                         *)
(* The counter stays in its range only because it counts messages of the   *)
(* topic, so typing and CountsEveryImage are proved together (CountInv).   *)
(*                                                                         *)
(* The argument for the stop: while the last request of a client is a stop *)
(* that cancels a start already taken, no start event can be pending       *)
(* (StopCancels), so the task cannot be set off again, and the event stays *)
(* until the task takes it (StopNeverLost).  Lagging bounds what is still  *)
(* published: once an image has been published after the stop, the task is *)
(* at the end of that pass with the stop event before it, or no longer     *)
(* acquiring and not on its way to it.                                     *)
(*                                                                         *)
(* The argument for the status: only a task that is acquiring sets one     *)
(* that is not at rest, and whatever ends the acquisition settles it; the  *)
(* Acquire of writeInt32() comes with a stop event (Settled).              *)
(***************************************************************************)
EXTENDS KafkaDriver, TLAPS

\* A pass begins acquiring, and only an acquiring task handles an image.
InPass == pc \in {"pass", "publish", "finish"} => acquire

\* No message has been dropped when the task is about to fetch one.
FetchExact == pc = "fetch" => nextMsg = runStart + counter

CountInv == CountTypeOK /\ InPass /\ FetchExact /\ CountsEveryImage

\* A start that the client has cancelled after the task took it is not pending.
StopCancels == dtor = "none" /\ stopped => ~startEvent /\ ~adAcquire

\* Nothing is published late while ADAcquire is 1.
NothingLate == adAcquire => late = 0

\* Where the task is once one image was published after the stop.
Lagging ==
  dtor = "none" /\ stopped =>
    \/ late = 0
    \/ late = 1 /\ pc = "finish" /\ stopEvent
    \/ late = 1 /\ ~acquire /\ ~Engaged /\ pc # "publish"

StopInv == StopCancels /\ NothingLate /\ StopNeverLost /\ Lagging

\* A status that is not at rest has an acquisition behind it, or a stop event.
Settled == ~acquire /\ ~stopEvent => adStatus \in {"Idle", "Aborted"}

\* From the end of one acquisition to the beginning of the next.
Resting == pc \in IdleLoop \cup {"halt", "resume", "arm"} => ~acquire

StatusInv == Settled /\ Resting

\* The specification without its fairness.  What is proved needs no more, so it
\* holds of every driver that takes the steps of Next, as DriverWithConsumer does.
Safety == Init /\ [][Next]_vars

\* What the driver promises of a state, in one formula.
DriverSound ==
  /\ TypeOK /\ IdleIsHalted
  /\ StopNeverLost /\ StopIsPrompt
  /\ CountsEveryImage /\ StatusSettled

\* Every driver of the specification is one of these.
LEMMA SpecIsSafe == Spec => Safety
BY DEF Spec, Safety
-----------------------------------------------------------------------------
\* The flags and events stay Boolean.
LEMMA FlagsTyped == Safety => []FlagTypeOK
<1> USE DEF FlagTypeOK
<1>1. Init => FlagTypeOK
  BY DEF Init
<1>2. FlagTypeOK /\ [Next]_vars => FlagTypeOK'
  <2> SUFFICES ASSUME FlagTypeOK, [Next]_vars PROVE FlagTypeOK'
    OBVIOUS
  <2> USE DEF taskVars, eventVars, settings, paramVars, kafkaVars, history
  <2>1. CASE Client
    <3>1. CASE WriteStart
      BY <3>1 DEF WriteStart
    <3>2. CASE WriteStop
      BY <3>2 DEF WriteStop
    <3>3. CASE WriteSetting
      BY <3>3 DEF WriteSetting
    <3> QED
      BY <2>1, <3>1, <3>2, <3>3 DEF Client
  <2>2. CASE Destructor
    <3>1. CASE DtorClearFlag
      BY <3>1 DEF DtorClearFlag
    <3>2. CASE DtorSignal
      BY <3>2 DEF DtorSignal
    <3>3. CASE DtorReturn
      BY <3>3 DEF DtorReturn
    <3> QED
      BY <2>2, <3>1, <3>2, <3>3 DEF Destructor
  <2>3. CASE Task
    <3> USE DEF Goto
    <3>1. CASE Begin
      BY <3>1 DEF Begin
    <3>2. CASE LoopExit
      BY <3>2 DEF LoopExit, LoopExitTo
    <3>3. CASE LoopIdle
      BY <3>3 DEF LoopIdle
    <3>4. CASE LoopAcquiring
      BY <3>4 DEF LoopAcquiring
    <3>5. CASE Halt
      BY <3>5 DEF Halt, HaltWith
    <3>6. CASE IdleWait
      BY <3>6 DEF IdleWait, IdleWaitWith
    <3>7. CASE IdlePoll
      BY <3>7 DEF IdlePoll
    <3>8. CASE Resume
      BY <3>8 DEF Resume
    <3>9. CASE Arm
      BY <3>9 DEF Arm, ArmWith
    <3>10. CASE Pass
      BY <3>10 DEF Pass, PassWith
    <3>11. CASE FetchNothing
      BY <3>11 DEF FetchNothing
    <3>12. CASE FetchDiscard
      BY <3>12 DEF FetchDiscard
    <3>13. CASE FetchImage
      BY <3>13 DEF FetchImage
    <3>14. CASE Publish
      BY <3>14 DEF Publish
    <3>15. CASE FinishLast
      BY <3>15 DEF FinishLast
    <3>16. CASE FinishImage
      BY <3>16 DEF FinishImage
    <3>17. CASE Exit
      BY <3>17 DEF Exit
    <3> QED
      BY <2>3, <3>1, <3>2, <3>3, <3>4, <3>5, <3>6, <3>7, <3>8, <3>9, <3>10, <3>11,
         <3>12, <3>13, <3>14, <3>15, <3>16, <3>17 DEF Task
  <2>4. CASE UNCHANGED vars
    BY <2>4 DEF vars
  <2> QED
    BY <2>1, <2>2, <2>3, <2>4 DEF Next
<1> QED
  BY <1>1, <1>2, PTL DEF Safety

\* The places, modes and statuses stay in their sets.
LEMMA StatesTyped == Safety => []StateTypeOK
<1> USE DEF StateTypeOK, Places, Locked, IdleLoop, Modes, Statuses
<1>1. Init => StateTypeOK
  BY DEF Init
<1>2. StateTypeOK /\ [Next]_vars => StateTypeOK'
  <2> SUFFICES ASSUME StateTypeOK, [Next]_vars PROVE StateTypeOK'
    OBVIOUS
  <2> USE DEF taskVars, eventVars, settings, paramVars, kafkaVars, history
  <2>1. CASE Client
    <3>1. CASE WriteStart
      BY <3>1 DEF WriteStart
    <3>2. CASE WriteStop
      BY <3>2 DEF WriteStop
    <3>3. CASE WriteSetting
      BY <3>3 DEF WriteSetting
    <3> QED
      BY <2>1, <3>1, <3>2, <3>3 DEF Client
  <2>2. CASE Destructor
    <3>1. CASE DtorClearFlag
      BY <3>1 DEF DtorClearFlag
    <3>2. CASE DtorSignal
      BY <3>2 DEF DtorSignal
    <3>3. CASE DtorReturn
      BY <3>3 DEF DtorReturn
    <3> QED
      BY <2>2, <3>1, <3>2, <3>3 DEF Destructor
  <2>3. CASE Task
    <3> USE DEF Goto
    <3>1. CASE Begin
      BY <3>1 DEF Begin
    <3>2. CASE LoopExit
      BY <3>2 DEF LoopExit, LoopExitTo
    <3>3. CASE LoopIdle
      BY <3>3 DEF LoopIdle
    <3>4. CASE LoopAcquiring
      BY <3>4 DEF LoopAcquiring
    <3>5. CASE Halt
      BY <3>5 DEF Halt, HaltWith
    <3>6. CASE IdleWait
      BY <3>6 DEF IdleWait, IdleWaitWith
    <3>7. CASE IdlePoll
      BY <3>7 DEF IdlePoll
    <3>8. CASE Resume
      BY <3>8 DEF Resume
    <3>9. CASE Arm
      BY <3>9 DEF Arm, ArmWith
    <3>10. CASE Pass
      BY <3>10 DEF Pass, PassWith, StoppedStatus
    <3>11. CASE FetchNothing
      BY <3>11 DEF FetchNothing
    <3>12. CASE FetchDiscard
      BY <3>12 DEF FetchDiscard
    <3>13. CASE FetchImage
      BY <3>13 DEF FetchImage
    <3>14. CASE Publish
      BY <3>14 DEF Publish
    <3>15. CASE FinishLast
      BY <3>15 DEF FinishLast
    <3>16. CASE FinishImage
      BY <3>16 DEF FinishImage, StoppedStatus
    <3>17. CASE Exit
      BY <3>17 DEF Exit
    <3> QED
      BY <2>3, <3>1, <3>2, <3>3, <3>4, <3>5, <3>6, <3>7, <3>8, <3>9, <3>10, <3>11,
         <3>12, <3>13, <3>14, <3>15, <3>16, <3>17 DEF Task
  <2>4. CASE UNCHANGED vars
    BY <2>4 DEF vars
  <2> QED
    BY <2>1, <2>2, <2>3, <2>4 DEF Next
<1> QED
  BY <1>1, <1>2, PTL DEF Safety

\* Only FetchImage and FetchDiscard take a message, and a discard leaves a task
\* that is no longer acquiring: the count is exact until then.
LEMMA CountInvariant == Safety => []CountInv
<1> USE DEF CountInv, CountTypeOK, InPass, FetchExact, CountsEveryImage
<1>1. Init => CountInv
  <2> SUFFICES ASSUME Init PROVE CountInv
    OBVIOUS
  <2>1. 0 \in 0..MaxMessages
    BY DriverAssumption
  <2> QED
    BY <2>1 DEF Init
<1>2. CountInv /\ FlagTypeOK /\ [Next]_vars => CountInv'
  <2> SUFFICES ASSUME CountInv, FlagTypeOK, [Next]_vars PROVE CountInv'
    OBVIOUS
  <2> USE DEF paramVars, kafkaVars, history
  <2>1. CASE Client
    BY <2>1 DEF Client, WriteStart, WriteStop, WriteSetting, taskVars
  <2>2. CASE Destructor
    BY <2>2 DEF Destructor, DtorClearFlag, DtorSignal, DtorReturn, taskVars
  <2>3. CASE Begin \/ LoopExit \/ LoopIdle \/ LoopAcquiring
    BY <2>3 DEF Begin, LoopExit, LoopExitTo, LoopIdle, LoopAcquiring, Goto
  <2>4. CASE Halt \/ IdleWait \/ IdlePoll \/ Resume
    BY <2>4 DEF Halt, HaltWith, IdleWait, IdleWaitWith, IdlePoll, Resume, Goto
  <2>5. CASE Arm
    BY <2>5, DriverAssumption DEF Arm, ArmWith, Goto
  <2>6. CASE Pass
    BY <2>6 DEF Pass, PassWith, Goto
  <2>7. CASE FetchNothing
    BY <2>7 DEF FetchNothing, Goto
  <2>8. CASE FetchDiscard
    BY <2>8, DriverAssumption DEF FetchDiscard, MessageReady, Goto
  <2>9. CASE FetchImage
    BY <2>9, DriverAssumption DEF FetchImage, MessageReady
  <2>10. CASE Publish
    BY <2>10 DEF Publish, Goto
  <2>11. CASE FinishLast \/ FinishImage
    BY <2>11 DEF FinishLast, FinishImage, Goto
  <2>12. CASE Exit
    BY <2>12 DEF Exit, Goto
  <2>13. CASE UNCHANGED vars
    BY <2>13 DEF vars, taskVars
  <2> QED
    BY <2>1, <2>2, <2>3, <2>4, <2>5, <2>6, <2>7, <2>8, <2>9, <2>10, <2>11, <2>12,
       <2>13 DEF Next, Task
<1> QED
  BY <1>1, <1>2, FlagsTyped, PTL DEF Safety

\* Every variable of the driver keeps its type; the image counter in particular
\* never exceeds the number of messages of the topic.
THEOREM TypeCorrect == Spec => []TypeOK
<1>1. FlagTypeOK /\ StateTypeOK /\ CountInv => TypeOK
  BY DEF TypeOK, CountInv
<1> QED
  BY <1>1, SpecIsSafe, FlagsTyped, StatesTyped, CountInvariant, PTL

\* ADNumImagesCounter counts every message taken since the start, for any topic.
THEOREM ImagesCounted == Spec => []CountsEveryImage
<1>1. CountInv => CountsEveryImage
  BY DEF CountInv
<1> QED
  BY <1>1, SpecIsSafe, CountInvariant, PTL
-----------------------------------------------------------------------------
\* The idle loop is entered through Halt alone, and left before consumption is
\* resumed.
LEMMA IdleInvariant == Safety => []IdleIsHalted
<1> USE DEF IdleIsHalted, IdleLoop
<1>1. Init => IdleIsHalted
  BY DEF Init
<1>2. IdleIsHalted /\ [Next]_vars => IdleIsHalted'
  <2> SUFFICES ASSUME IdleIsHalted, [Next]_vars PROVE IdleIsHalted'
    OBVIOUS
  <2> USE DEF kafkaVars
  <2>1. CASE Client \/ Destructor
    BY <2>1 DEF Client, WriteStart, WriteStop, WriteSetting, Destructor,
       DtorClearFlag, DtorSignal, DtorReturn, taskVars
  <2>2. CASE Begin \/ LoopExit \/ LoopIdle \/ LoopAcquiring
    BY <2>2 DEF Begin, LoopExit, LoopExitTo, LoopIdle, LoopAcquiring, Goto
  <2>3. CASE Halt
    BY <2>3 DEF Halt, HaltWith
  <2>4. CASE IdleWait \/ IdlePoll
    BY <2>4 DEF IdleWait, IdleWaitWith, IdlePoll
  <2>5. CASE Resume \/ Arm \/ Pass
    BY <2>5 DEF Resume, Arm, ArmWith, Pass, PassWith, Goto
  <2>6. CASE FetchNothing \/ FetchDiscard \/ FetchImage \/ Publish
    BY <2>6 DEF FetchNothing, FetchDiscard, FetchImage, Publish, Goto
  <2>7. CASE FinishLast \/ FinishImage \/ Exit
    BY <2>7 DEF FinishLast, FinishImage, Exit, Goto
  <2>8. CASE UNCHANGED vars
    BY <2>8 DEF vars, taskVars
  <2> QED
    BY <2>1, <2>2, <2>3, <2>4, <2>5, <2>6, <2>7, <2>8 DEF Next, Task
<1> QED
  BY <1>1, <1>2, PTL DEF Safety

\* So the abort() in the idle loop is not reached by this thread alone.
THEOREM IdleHalted == Spec => []IdleIsHalted
BY SpecIsSafe, IdleInvariant, PTL
-----------------------------------------------------------------------------
\* The stop invariant survives every step: a client's write re-establishes it, the
\* task takes the stop event only together with its acquire flag.
LEMMA StopInvariant == Safety => []StopInv
<1> USE DEF StopInv, StopCancels, NothingLate, StopNeverLost, Lagging, Engaged
<1>1. Init => StopInv
  BY DEF Init
<1>2. StopInv /\ InPass /\ CountTypeOK /\ FlagTypeOK /\ [Next]_vars => StopInv'
  <2> SUFFICES ASSUME StopInv, InPass, CountTypeOK, FlagTypeOK, [Next]_vars
               PROVE StopInv'
    OBVIOUS
  <2> USE DEF paramVars, eventVars, history, InPass, CountTypeOK, FlagTypeOK
  <2>1. CASE WriteStart
    BY <2>1 DEF WriteStart
  <2>2. CASE WriteStop
    BY <2>2 DEF WriteStop, taskVars
  <2>3. CASE WriteSetting
    BY <2>3 DEF WriteSetting, taskVars
  <2>4. CASE Destructor
    BY <2>4 DEF Destructor, DtorClearFlag, DtorSignal, DtorReturn, taskVars
  <2>5. CASE Begin \/ LoopExit \/ LoopIdle \/ LoopAcquiring
    BY <2>5 DEF Begin, LoopExit, LoopExitTo, LoopIdle, LoopAcquiring, Goto
  <2>6. CASE Halt
    BY <2>6 DEF Halt, HaltWith, Goto
  <2>7. CASE IdleWait
    BY <2>7 DEF IdleWait, IdleWaitWith
  <2>8. CASE IdlePoll
    BY <2>8 DEF IdlePoll
  <2>9. CASE Resume
    BY <2>9 DEF Resume, Goto
  <2>10. CASE Arm
    BY <2>10 DEF Arm, ArmWith, Goto
  <2>11. CASE Pass
    BY <2>11 DEF Pass, PassWith, Goto
  <2>12. CASE FetchNothing \/ FetchDiscard
    BY <2>12 DEF FetchNothing, FetchDiscard, Goto
  <2>13. CASE FetchImage
    BY <2>13 DEF FetchImage
  <2>14. CASE Publish
    BY <2>14 DEF Publish, Goto
  <2>15. CASE FinishLast
    BY <2>15 DEF FinishLast, Goto
  <2>16. CASE FinishImage
    BY <2>16 DEF FinishImage, Goto
  <2>17. CASE Exit
    BY <2>17 DEF Exit, Goto
  <2>18. CASE UNCHANGED vars
    BY <2>18 DEF vars, taskVars
  <2> QED
    BY <2>1, <2>2, <2>3, <2>4, <2>5, <2>6, <2>7, <2>8, <2>9, <2>10, <2>11, <2>12,
       <2>13, <2>14, <2>15, <2>16, <2>17, <2>18 DEF Next, Client, Task
<1>3. CountInv => InPass /\ CountTypeOK
  BY DEF CountInv
<1> QED
  BY <1>1, <1>2, <1>3, FlagsTyped, CountInvariant, PTL DEF Safety

\* A stop of a start the task has taken is never lost, whatever the interleaving.
THEOREM StopSafe == Spec => []StopNeverLost
<1>1. StopInv => StopNeverLost
  BY DEF StopInv
<1> QED
  BY <1>1, SpecIsSafe, StopInvariant, PTL

\* After such a stop at most one image is published before the next start.
THEOREM StopPrompt == Spec => []StopIsPrompt
<1>1. StopInv => StopIsPrompt
  BY DEF StopInv, Lagging, StopIsPrompt
<1> QED
  BY <1>1, SpecIsSafe, StopInvariant, PTL
-----------------------------------------------------------------------------
\* The status settles with the acquisition: in the step that ends it, stop or not.
LEMMA StatusInvariant == Safety => []StatusInv
<1> USE DEF StatusInv, Settled, Resting, IdleLoop
<1>1. Init => StatusInv
  BY DEF Init
<1>2. StatusInv /\ InPass /\ FlagTypeOK /\ [Next]_vars => StatusInv'
  <2> SUFFICES ASSUME StatusInv, InPass, FlagTypeOK, [Next]_vars PROVE StatusInv'
    OBVIOUS
  <2> USE DEF paramVars, eventVars, InPass, FlagTypeOK
  <2>1. CASE Client
    BY <2>1 DEF Client, WriteStart, WriteStop, WriteSetting, taskVars
  <2>2. CASE Destructor
    BY <2>2 DEF Destructor, DtorClearFlag, DtorSignal, DtorReturn, taskVars
  <2>3. CASE Begin \/ LoopExit \/ LoopIdle \/ LoopAcquiring
    BY <2>3 DEF Begin, LoopExit, LoopExitTo, LoopIdle, LoopAcquiring, Goto
  <2>4. CASE Halt \/ IdleWait \/ IdlePoll \/ Resume
    BY <2>4 DEF Halt, HaltWith, IdleWait, IdleWaitWith, IdlePoll, Resume, Goto
  <2>5. CASE Arm
    BY <2>5 DEF Arm, ArmWith, Goto
  <2>6. CASE Pass
    BY <2>6 DEF Pass, PassWith, StoppedStatus, Goto
  <2>7. CASE FetchNothing \/ FetchDiscard
    BY <2>7 DEF FetchNothing, FetchDiscard, Goto
  <2>8. CASE FetchImage
    BY <2>8 DEF FetchImage
  <2>9. CASE Publish \/ Exit
    BY <2>9 DEF Publish, Exit, Goto
  <2>10. CASE FinishLast
    BY <2>10 DEF FinishLast, Goto
  <2>11. CASE FinishImage
    BY <2>11 DEF FinishImage, StoppedStatus, Goto
  <2>12. CASE UNCHANGED vars
    BY <2>12 DEF vars, taskVars
  <2> QED
    BY <2>1, <2>2, <2>3, <2>4, <2>5, <2>6, <2>7, <2>8, <2>9, <2>10, <2>11, <2>12
       DEF Next, Task
<1>3. CountInv => InPass
  BY DEF CountInv
<1> QED
  BY <1>1, <1>2, <1>3, FlagsTyped, CountInvariant, PTL DEF Safety

\* In the idle loop, with no stop event pending, ADStatus is Idle or Aborted: the
\* Acquire that a stop leaves behind does not stay, however often clients stop
\* and start meanwhile.
THEOREM StatusAtRest == Spec => []StatusSettled
<1>1. StatusInv => StatusSettled
  BY DEF StatusInv, Settled, Resting, StatusSettled
<1> QED
  BY <1>1, SpecIsSafe, StatusInvariant, PTL
-----------------------------------------------------------------------------
\* All of it together, fair or not.
LEMMA DriverIsSound == Safety => []DriverSound
<1>1. FlagTypeOK /\ StateTypeOK /\ CountInv => TypeOK /\ CountsEveryImage
  BY DEF TypeOK, CountInv
<1>2. StopInv => StopNeverLost /\ StopIsPrompt
  BY DEF StopInv, Lagging, StopIsPrompt
<1>3. StatusInv => StatusSettled
  BY DEF StatusInv, Settled, Resting, StatusSettled
<1>4. /\ FlagTypeOK /\ StateTypeOK /\ CountInv
      /\ StopInv /\ StatusInv /\ IdleIsHalted
      => DriverSound
  BY <1>1, <1>2, <1>3 DEF DriverSound
<1> QED
  BY <1>4, FlagsTyped, StatesTyped, CountInvariant, StopInvariant, StatusInvariant,
     IdleInvariant, PTL
-----------------------------------------------------------------------------
\* What the refinement needs to know of a state.
StartsIdle == pc = "start" => ~acquire

\* The thread leaves its loop because the destructor has begun, and says so last.
LeavesOnOrder == ~keepThreadAlive /\ pc # "start" => dtor # "none"
ExitIsTold    == threadExitEvent => pc = "exited"

ThreadInv == StartsIdle /\ LeavesOnOrder /\ ExitIsTold

ControlInv ==
  /\ ThreadInv /\ InPass /\ CountTypeOK
  /\ startEvent \in BOOLEAN /\ stopEvent \in BOOLEAN

\* The thread begins without an acquisition and never begins again, it leaves only
\* once the destructor has begun, and the exit event is signalled at its very end.
LEMMA ThreadInvariant == Safety => []ThreadInv
<1> USE DEF ThreadInv, StartsIdle, LeavesOnOrder, ExitIsTold
<1>1. Init => ThreadInv
  BY DEF Init
<1>2. ThreadInv /\ [Next]_vars => ThreadInv'
  <2> SUFFICES ASSUME ThreadInv, [Next]_vars PROVE ThreadInv'
    OBVIOUS
  <2> USE DEF Goto, taskVars, eventVars
  <2>1. CASE Client \/ UNCHANGED vars
    BY <2>1 DEF Client, WriteStart, WriteStop, WriteSetting, vars
  <2>2. CASE Destructor
    BY <2>2 DEF Destructor, DtorClearFlag, DtorSignal, DtorReturn
  <2>3. CASE Begin \/ LoopExit \/ LoopIdle \/ LoopAcquiring
    BY <2>3 DEF Begin, LoopExit, LoopExitTo, LoopIdle, LoopAcquiring
  <2>4. CASE Halt \/ IdleWait \/ IdlePoll \/ Resume \/ Arm \/ Pass
    BY <2>4 DEF Halt, HaltWith, IdleWait, IdleWaitWith, IdlePoll, Resume, Arm, ArmWith,
                Pass, PassWith
  <2>5. CASE FetchNothing \/ FetchDiscard \/ FetchImage \/ Publish
    BY <2>5 DEF FetchNothing, FetchDiscard, FetchImage, Publish
  <2>6. CASE FinishLast \/ FinishImage \/ Exit
    BY <2>6 DEF FinishLast, FinishImage, Exit
  <2> QED
    BY <2>1, <2>2, <2>3, <2>4, <2>5, <2>6 DEF Next, Task
<1> QED
  BY <1>1, <1>2, PTL DEF Safety

\* A step of the driver is a step of the abstract control, or none of its business.
LEMMA StepOfControl ==
  ASSUME ControlInv, [Next]_vars
  PROVE  [Control!Next]_(Control!vars)
<1> USE DEF ControlInv, ThreadInv, StartsIdle, LeavesOnOrder, ExitIsTold, InPass, CountTypeOK, Control!vars, Control!Go, Stage, Requests,
        taskVars, eventVars, paramVars, kafkaVars, Goto
<1>1. CASE WriteStart
  <2>1. Control!AskStart
    BY <1>1 DEF WriteStart, ClientCanWrite, Control!AskStart, Control!Request
  <2> QED
    BY <2>1 DEF Control!Next
<1>2. CASE WriteStop
  <2>1. Control!AskStop
    BY <1>2 DEF WriteStop, ClientCanWrite, Control!AskStop
  <2> QED
    BY <2>1 DEF Control!Next
<1>3. CASE Destructor
  <2>1. CASE DtorClearFlag
    <3>1. Control!Abandon
      BY <2>1 DEF DtorClearFlag, Control!Abandon
    <3> QED
      BY <3>1 DEF Control!Next
  <2>2. CASE DtorSignal
    <3>1. Control!Signal
      BY <2>2 DEF DtorSignal, Control!Signal, Control!Request
    <3> QED
      BY <3>1 DEF Control!Next
  <2>3. CASE DtorReturn
    <3>1. Control!Return
      BY <2>3 DEF DtorReturn, Control!Return
    <3> QED
      BY <3>1 DEF Control!Next
  <2> QED
    BY <1>3, <2>1, <2>2, <2>3 DEF Destructor
<1>4. CASE WriteSetting \/ Begin \/ LoopIdle \/ LoopAcquiring \/ Halt
  BY <1>4 DEF WriteSetting, Begin, LoopIdle, LoopAcquiring, Halt, HaltWith
<1>5. CASE LoopExit
  <2>1. Control!Leave
    BY <1>5 DEF LoopExit, LoopExitTo, Control!Leave
  <2> QED
    BY <2>1 DEF Control!Next
<1>6. CASE IdleWait
  <2>1. CASE keepThreadAlive
    BY <1>6, <2>1 DEF IdleWait, IdleWaitWith
  <2>2. CASE ~keepThreadAlive
    <3>1. Control!Leave
      BY <1>6, <2>2 DEF IdleWait, IdleWaitWith, Control!Leave
    <3> QED
      BY <3>1 DEF Control!Next
  <2> QED
    BY <2>1, <2>2
<1>7. CASE IdlePoll \/ Resume
  BY <1>7 DEF IdlePoll, Resume
<1>8. CASE Arm
  <2>1. Control!Start
    BY <1>8 DEF Arm, ArmWith, Control!Start
  <2> QED
    BY <2>1 DEF Control!Next
<1>9. CASE Pass
  <2>1. CASE stopEvent
    <3>1. Control!Obey
      BY <1>9, <2>1 DEF Pass, PassWith, Control!Obey
    <3> QED
      BY <3>1 DEF Control!Next
  <2>2. CASE ~stopEvent
    <3>1. Control!Wait
      BY <1>9, <2>2 DEF Pass, PassWith, Control!Wait
    <3> QED
      BY <3>1 DEF Control!Next
  <2> QED
    BY <2>1, <2>2
<1>10. CASE FetchNothing
  <2>1. CASE acquire
    <3>1. Control!WaitInVain
      BY <1>10, <2>1 DEF FetchNothing, Control!WaitInVain
    <3> QED
      BY <3>1 DEF Control!Next
  <2>2. CASE ~acquire
    <3>1. Control!Drain
      BY <1>10, <2>2 DEF FetchNothing, Control!Drain
    <3> QED
      BY <3>1 DEF Control!Next
  <2> QED
    BY <2>1, <2>2
<1>11. CASE FetchDiscard
  <2>1. Control!Drain
    BY <1>11 DEF FetchDiscard, Control!Drain
  <2> QED
    BY <2>1 DEF Control!Next
<1>12. CASE FetchImage
  <2>1. Control!Take
    BY <1>12 DEF FetchImage, Control!Take
  <2> QED
    BY <2>1 DEF Control!Next
<1>13. CASE Publish
  BY <1>13 DEF Publish
<1>14. CASE FinishLast
  <2>1. Control!Complete
    BY <1>14 DEF FinishLast, Control!Complete
  <2> QED
    BY <2>1 DEF Control!Next
<1>15. CASE FinishImage
  <2>1. CASE stopEvent
    <3>1. Control!ObeyAfter
      BY <1>15, <2>1 DEF FinishImage, Control!ObeyAfter
    <3> QED
      BY <3>1 DEF Control!Next
  <2>2. CASE ~stopEvent
    <3>1. Control!Continue
      BY <1>15, <2>2 DEF FinishImage, Control!Continue
    <3> QED
      BY <3>1 DEF Control!Next
  <2> QED
    BY <2>1, <2>2
<1>16. CASE Exit
  BY <1>16 DEF Exit
<1>17. CASE UNCHANGED vars
  BY <1>17 DEF vars
<1> QED
  BY <1>1, <1>2, <1>3, <1>4, <1>5, <1>6, <1>7, <1>8, <1>9, <1>10, <1>11, <1>12, <1>13,
     <1>14, <1>15, <1>16, <1>17 DEF Next, Client, Task

\* So a driver is the abstract control, fair or not.
LEMMA ControlRefined == Safety => ImplementsControl
<1>1. Init => Control!Init
  BY DEF Init, Control!Init, Stage, Requests
<1>2. FlagTypeOK /\ CountInv /\ ThreadInv => ControlInv
  BY DEF FlagTypeOK, CountInv, ControlInv
<1>3. ControlInv /\ [Next]_vars => [Control!Next]_(Control!vars)
  BY StepOfControl
<1> QED
  BY <1>1, <1>2, <1>3, FlagsTyped, CountInvariant, ThreadInvariant, PTL
     DEF Safety, ImplementsControl, Control!Safety

\* The driver implements the abstract control: for any number of messages and
\* image counts, whatever clients and the destructor do meanwhile.
THEOREM ControlImplemented == Spec => ImplementsControl
BY SpecIsSafe, ControlRefined
=============================================================================
