----------------------------- MODULE KafkaPlugin -----------------------------
(***************************************************************************)
(* The KafkaPlugin class of ADPluginKafka: processCallbacks() with its one *)
(* serializer and the count of dropped arrays, writes of a parameter that  *)
(* a setter may reject, and what the parameter library then shows.  It     *)
(* extends KafkaProducer, whose actions are the inside of                  *)
(* SendKafkaPacket() and of the setters.                                   *)
(*                                                                         *)
(* The port lock is held while an array is packed and while its result is  *)
(* counted, and given back in between; a write holds it to its end.        *)
(*                                                                         *)
(* NDPluginDriver (external) calls processCallbacks() in the thread of the *)
(* array source when callbacks are blocking, and otherwise queues arrays   *)
(* for the one thread of the plugin, or drops them when the queue is full. *)
(***************************************************************************)
EXTENDS KafkaProducer, Sequences, FiniteSets

CONSTANTS Source, Worker,  \* the thread of the array source, that of the plugin
          QueueSize,       \* arrays that the plugin's queue holds
          MaxArrays        \* arrays that the source ever publishes (bound)

ASSUME PluginAssumption ==
  /\ Senders = {Source, Worker} /\ Source # Worker
  /\ QueueSize \in Nat \ {0} /\ MaxArrays \in Nat
  /\ None \notin [value : WrittenSizes, taken : BOOLEAN]

VARIABLES
  blocking,  \* parameter NDPluginDriverBlockingCallbacks
  arrived,   \* arrays published so far; an array is its number
  queue,     \* external: arrays that wait for the plugin's thread
  step,      \* where each sender is in processCallbacks()
  array,     \* the array that it works on
  buffer,    \* the array that is in the serializer's buffer
  dropped,   \* parameter NDPluginDriverDroppedArrays
  writing,   \* what writeInt32() stores as it returns, and whether it was taken
  shown,     \* KAFKA_MAX_MSG_SIZE in the parameter library
  accepted,  \* history: packets that librdkafka took
  alone,     \* history: the size limit has been left to one thread at a time
  rejected   \* history: shown is a value that a setter rejected

arrays == <<blocking, arrived, queue, array, buffer>>
shows  == <<writing, shown, rejected>>
pluginVars == <<arrays, step, dropped, shows, accepted, alone>>

\* A producer that could not set up librdkafka takes no packet and no setting: that
\* start is left to KafkaProducer.
PluginInit ==
  /\ Init /\ ~errorState
  /\ blocking \in BOOLEAN
  /\ arrived = 0 /\ queue = <<>>
  /\ step = [t \in Senders |-> "idle"] /\ array = [t \in Senders |-> 0]
  /\ buffer = 0 /\ dropped = 0 /\ accepted = 0
  /\ writing = None /\ shown = StartSize
  /\ alone = TRUE /\ rejected = FALSE

PortFree == place[Port] = "rest" /\ writing = None
Using(t) == step[t] \in {"packed", "sending"}
Move(t, from, to) == step[t] = from /\ step' = [step EXCEPT ![t] = to]
-----------------------------------------------------------------------------
(* processCallbacks()                                                      *)

\* SerializeData() into the one buffer, under the port lock.
Pack(t, a) ==
  /\ Running /\ PortFree
  /\ Move(t, "idle", "packed")
  /\ array' = [array EXCEPT ![t] = a]
  /\ buffer' = a
  /\ alone' = (alone /\ ~\E u \in Senders \ {t} : Using(u))
  /\ UNCHANGED <<vars, blocking, dropped, shows, accepted>>

ArriveBlocking ==
  /\ blocking /\ arrived < MaxArrays
  /\ arrived' = arrived + 1
  /\ Pack(Source, arrived + 1)
  /\ UNCHANGED queue

ArriveQueued ==
  /\ Running /\ PortFree
  /\ ~blocking /\ step[Source] = "idle" /\ arrived < MaxArrays
  /\ arrived' = arrived + 1
  /\ IF Len(queue) < QueueSize
     THEN queue' = Append(queue, arrived + 1) /\ UNCHANGED dropped
     ELSE dropped' = dropped + 1 /\ UNCHANGED queue
  /\ UNCHANGED <<vars, blocking, step, array, buffer, shows, accepted, alone>>

TakeQueued ==
  /\ queue # <<>> /\ queue' = Tail(queue)
  /\ Pack(Worker, Head(queue))
  /\ UNCHANGED arrived

\* SendKafkaPacket() with the lock given back.
CallSend(t) ==
  /\ Move(t, "packed", "sending")
  /\ Send(t)
  /\ UNCHANGED <<arrays, dropped, shows, accepted, alone>>

SendRefused(t) ==
  /\ Move(t, "packed", "failed")
  /\ errorState
  /\ UNCHANGED <<vars, arrays, dropped, shows, accepted, alone>>

Enlarge(t) ==
  /\ CheckError(t) \/ SetConfMax(t)
  /\ step' = [step EXCEPT ![t] = IF place'[t] = "rest" THEN "failed" ELSE @]
  /\ UNCHANGED <<arrays, dropped, shows, accepted, alone>>

Reconnect(t) ==
  /\ SetField(t) \/ MakeConnection(t)
  /\ UNCHANGED pluginVars

\* updateDbValue(): the parameter library gets the value, without the port lock.
ShowSizeAs(t, value, bad) ==
  /\ Show(t)
  /\ shown' = value /\ rejected' = bad
  /\ UNCHANGED <<arrays, step, dropped, writing, accepted, alone>>

\* Mutant: the parameter library is not told.
ShowSizeNot(t) == ShowSizeAs(t, shown, rejected)

ShowSize(t) == ShowSizeAs(t, conf.max, FALSE)

HandOver(t) ==
  LET taken == producer # None /\ ~Refused(t) IN
  /\ Produce(t)
  /\ Move(t, "sending", IF taken THEN "sent" ELSE "failed")
  /\ accepted' = IF taken THEN accepted + 1 ELSE accepted
  /\ UNCHANGED <<arrays, dropped, shows, alone>>

ReturnCounting(t, drops, results) ==
  /\ PortFree
  /\ step[t] \in results /\ step' = [step EXCEPT ![t] = "idle"]
  /\ dropped' = dropped + drops
  /\ UNCHANGED <<vars, arrays, shows, accepted, alone>>

\* Mutants: a drop is counted twice, or not at all; the lock is not taken again
\* after a failure.
ReturnTwice(t)    == ReturnCounting(t, IF step[t] = "failed" THEN 2 ELSE 0, {"sent", "failed"})
ReturnSilently(t) == ReturnCounting(t, 0, {"sent", "failed"})
ReturnStuck(t)    == ReturnCounting(t, 0, {"sent"})

Return(t) == ReturnCounting(t, IF step[t] = "failed" THEN 1 ELSE 0, {"sent", "failed"})

Process(t) ==
  \/ CallSend(t) \/ SendRefused(t) \/ Enlarge(t) \/ Reconnect(t) \/ ShowSize(t)
  \/ HandOver(t) \/ Return(t)
-----------------------------------------------------------------------------
(* Writes, with the port lock held.                                        *)

\* writeInt32() of KAFKA_MAX_MSG_SIZE.
WriteMaxSize ==
  /\ PortFree
  /\ SetMaxMessageSize
  /\ writing' = [value |-> size'[Port], taken |-> TRUE]
  /\ UNCHANGED <<arrays, step, dropped, shown, rejected, accepted, alone>>

WriteRefused ==
  /\ Running /\ PortFree /\ errorState
  /\ writing' \in [value : WrittenSizes, taken : {FALSE}]
  /\ UNCHANGED <<vars, arrays, step, dropped, shown, rejected, accepted, alone>>

WriteStep ==
  /\ SetConfMax(Port) \/ SetField(Port) \/ StoreAddress \/ MakeConnection(Port)
  /\ writing' = IF place[Port] = "set" /\ place'[Port] = "rest" /\ writing # None
                THEN [writing EXCEPT !.taken = FALSE] ELSE writing
  /\ alone' = (alone /\ ~(place'[Port] = "field" /\ \E u \in Senders : Using(u)))
  /\ UNCHANGED <<arrays, step, dropped, shown, rejected, accepted>>

\* Whether or not the setter took the value: for one that it rejects the base
\* class is asked, which knows nothing against it.
StoreWritten ==
  /\ place[Port] = "rest" /\ writing # None
  /\ shown' = writing.value /\ rejected' = ~writing.taken
  /\ writing' = None
  /\ UNCHANGED <<vars, arrays, step, dropped, accepted, alone>>

\* Writes and reads of the other parameters.
OtherCall ==
  /\ PortFree
  /\ \/ SetBrokerAddr \/ SetMessageQueueLength \/ SetMessageBufferSizeKbytes
     \/ SetStatsTimeMS \/ SetMember \/ GetMaxMessageSize
  /\ UNCHANGED pluginVars

SwitchBlocking ==
  /\ PortFree
  /\ blocking' \in BOOLEAN
  /\ UNCHANGED <<vars, arrived, queue, step, array, buffer, dropped, shows, accepted,
                 alone>>

Client == WriteMaxSize \/ WriteRefused \/ OtherCall \/ SwitchBlocking
-----------------------------------------------------------------------------
\* The polling thread is started and then left to KafkaProducer: nothing here
\* depends on the status and the count of packets that it updates, and a crash of
\* it is the end of everything here.
Others ==
  /\ StartThread \/ Transmit
  /\ UNCHANGED pluginVars

PluginNext ==
  \/ ArriveBlocking \/ ArriveQueued \/ TakeQueued
  \/ \E t \in Senders : Process(t)
  \/ Client \/ WriteStep \/ StoreWritten
  \/ Others

\* The threads of the plugin and of the source keep running, and so does a write
\* that has begun.  brokerMutex is held for a moment only.
PluginFairness ==
  /\ \A t \in Senders : WF_<<vars, pluginVars>>(Process(t))
  /\ WF_<<vars, pluginVars>>(TakeQueued)
  /\ WF_<<vars, pluginVars>>(WriteStep \/ StoreWritten)

PluginSpec == PluginInit /\ [][PluginNext]_<<vars, pluginVars>> /\ PluginFairness
-----------------------------------------------------------------------------
\* Every variable of the plugin has its type; its queue keeps its length.
PluginTypeOK ==
  /\ blocking \in BOOLEAN /\ alone \in BOOLEAN /\ rejected \in BOOLEAN
  /\ arrived \in 0..MaxArrays /\ dropped \in 0..MaxArrays /\ accepted \in 0..MaxArrays
  /\ queue \in Seq(1..MaxArrays) /\ Len(queue) <= QueueSize
  /\ step \in [Senders -> {"idle", "packed", "sending", "sent", "failed"}]
  /\ array \in [Senders -> 0..MaxArrays] /\ buffer \in 0..MaxArrays
  /\ writing \in [value : WrittenSizes, taken : BOOLEAN] \cup {None}
  /\ shown \in WrittenSizes \cup MinSize..MaxSize

\* ADPluginKafka_README.md:36: DroppedArrays counts what did not get through.  An
\* array that arrived is queued, in a sender's hands, taken by librdkafka or
\* counted as dropped, whatever it failed of and whichever thread carried it.
DropsCounted ==
  arrived = accepted + dropped + Len(queue)
            + Cardinality({t \in Senders : Using(t) \/ step[t] = "failed"})

\* maxMessageSize is what librdkafka was told whenever no call is in progress, if
\* no two threads that set it overlapped.
SizeInStep == alone /\ AtRest => maxMessageSize = conf.max

\* ADPluginKafka_README.md:34: the maximum message size is raised as messages
\* exceed it, so that a packet is never refused for its size: not across failed
\* reconnections and changes of all settings, as long as no two threads overlap.
SizeAccepted ==
  [][\A t \in Senders : HandOver(t) /\ producer # None /\ alone => size[t] <= producer.max
    ]_<<vars, pluginVars>>

\* KAFKA_MAX_MSG_SIZE shows the limit in use, although it is updated from the
\* senders' threads without the port lock, until a client writes a value that is
\* rejected: that one is shown until the limit is next raised.
SizeShown == alone /\ AtRest /\ writing = None /\ ~rejected => shown = conf.max

\* Nothing waits for ever: unless clients keep the port locked, every array that
\* arrived ends up with librdkafka or in the count of dropped ones.
EveryArrayHandled ==
  (<>[]PortFree) => <>[](queue = <<>> /\ \A t \in Senders : step[t] = "idle")

\* NDArraySerializer.h:36-38: the pointer to the serialized data is only valid
\* until SerializeData() is called again.  So from packing to produce() the buffer
\* holds the array of the sender that uses it.
BufferIsOwn == \A t \in Senders : Using(t) => buffer = array[t]
=============================================================================
