------------------------- MODULE KafkaPlugin_proofs -------------------------
(***************************************************************************)
(* Every step of the plugin is a step of KafkaProducer or leaves it alone, *)
(* so that what is proved of the producer holds inside the plugin.  On     *)
(* that basis: no array is lost from the count, whatever it failed of, and *)
(* the size limit stays in step with librdkafka, as long as no two threads *)
(* set it at a time; and one thread at a time finds its own array in the   *)
(* serializer's buffer.                                                    *)
(***************************************************************************)
EXTENDS KafkaPlugin, KafkaProducer_proofs, FiniteSetTheorems, SequenceTheorems

\* What the plugin does between two steps of the producer leaves all of the
\* producer's variables alone.
LEMMA PluginStep == [PluginNext]_<<vars, pluginVars>> => [Next]_vars
<1> SUFFICES ASSUME PluginNext PROVE [Next]_vars
  OBVIOUS
<1> USE DEF Next, Sender, Setting, Background
<1>1. Senders \subseteq Threads /\ Port \in Threads
  BY DEF Threads
<1>2. CASE ArriveBlocking \/ ArriveQueued \/ TakeQueued
  BY <1>2 DEF ArriveBlocking, ArriveQueued, TakeQueued, Pack
<1>3. ASSUME NEW t \in Senders, Process(t) PROVE [Next]_vars
  <2>1. CASE CallSend(t)
    BY <2>1 DEF CallSend
  <2>2. CASE SendRefused(t) \/ Return(t)
    BY <2>2 DEF SendRefused, Return, ReturnCounting
  <2>3. CASE Enlarge(t)
    BY <1>1, <2>3 DEF Enlarge
  <2>4. CASE Reconnect(t)
    BY <1>1, <2>4 DEF Reconnect
  <2>5. CASE ShowSize(t)
    BY <2>5 DEF ShowSize, ShowSizeAs
  <2>6. CASE HandOver(t)
    BY <2>6 DEF HandOver
  <2> QED
    BY <1>3, <2>1, <2>2, <2>3, <2>4, <2>5, <2>6 DEF Process
<1>4. CASE Client
  BY <1>4 DEF Client, WriteMaxSize, WriteRefused, OtherCall, SwitchBlocking
<1>5. CASE WriteStep
  BY <1>1, <1>5 DEF WriteStep
<1>6. CASE StoreWritten
  BY <1>6 DEF StoreWritten
<1>7. CASE Others
  BY <1>7 DEF Others
<1> QED
  BY <1>2, <1>3, <1>4, <1>5, <1>6, <1>7 DEF PluginNext

\* The plugin uses the producer as KafkaProducer says its callers do: everything
\* that holds of the producer alone holds within the plugin.
THEOREM PluginImplementsProducer == PluginSpec => Spec
<1>1. PluginInit => Init
  BY DEF PluginInit
<1> QED
  BY <1>1, PluginStep, PTL DEF PluginSpec, Spec

\* Inside the plugin too the Producer in use has the current settings once every
\* call has returned, and the status is truthful.
THEOREM PluginProducerSound == PluginSpec => [](ProducerIsCurrent /\ StatusTruthful)
BY PluginImplementsProducer, ProducerCurrent, ProducerStatusTruthful, PTL
-----------------------------------------------------------------------------
Steps == {"idle", "packed", "sending", "sent", "failed"}

\* Whatever step a sender takes, it is inside SendKafkaPacket() exactly when
\* processCallbacks() has called it and it has not returned.
StepsMatch ==
  /\ step \in [Senders -> Steps]
  /\ \A t \in Senders : step[t] = "sending" <=> place[t] # "rest"

\* The senders whose array is neither with librdkafka nor counted as dropped.
Hands == {t \in Senders : Using(t) \/ step[t] = "failed"}

\* The arrays, as they are known before the count is.
ArraysOK ==
  /\ arrived \in 0..MaxArrays /\ dropped \in Nat /\ accepted \in Nat
  /\ queue \in Seq(1..MaxArrays) /\ Len(queue) <= QueueSize
  /\ array \in [Senders -> 0..MaxArrays] /\ buffer \in 0..MaxArrays

DropsIInv == StepsMatch /\ ArraysOK /\ DropsCounted

\* The senders are finitely many, and so are those with an array in their hands.
LEMMA HandsFinite ==
  /\ Hands \in SUBSET Senders
  /\ IsFiniteSet(Hands) /\ Cardinality(Hands) \in Nat
<1>1. IsFiniteSet({}) /\ IsFiniteSet({} \cup {Source})
  BY FS_EmptySet, FS_AddElement
<1>2. IsFiniteSet(({} \cup {Source}) \cup {Worker})
  BY <1>1, FS_AddElement
<1>3. IsFiniteSet(Senders)
  <2>1. Senders = ({} \cup {Source}) \cup {Worker}
    BY PluginAssumption
  <2> QED
    BY <1>2, <2>1
<1>4. Hands \in SUBSET Senders
  BY DEF Hands
<1> QED
  BY <1>3, <1>4, FS_Subset, FS_CardinalityType

\* A sender that gets an array, one that is rid of it, and a step that does neither.
LEMMA HandsChange ==
  ASSUME step \in [Senders -> Steps], NEW t \in Senders, NEW to \in Steps,
         step' = [step EXCEPT ![t] = to]
  PROVE  /\ t \notin Hands /\ to \in {"packed", "sending", "failed"}
              => Cardinality(Hands') = Cardinality(Hands) + 1
         /\ t \in Hands /\ to \in {"idle", "sent"}
              => Cardinality(Hands') = Cardinality(Hands) - 1
         /\ (t \in Hands <=> to \in {"packed", "sending", "failed"})
              => Cardinality(Hands') = Cardinality(Hands)
<1>1. CASE to \in {"packed", "sending", "failed"}
  <2>1. Hands' = Hands \cup {t}
    BY <1>1 DEF Hands, Using, Steps
  <2>2. t \in Hands => Hands \cup {t} = Hands
    OBVIOUS
  <2> QED
    BY <1>1, <2>1, <2>2, HandsFinite, FS_AddElement
<1>2. CASE to \in {"idle", "sent"}
  <2>1. Hands' = Hands \ {t}
    BY <1>2 DEF Hands, Using, Steps
  <2>2. t \notin Hands => Hands \ {t} = Hands
    OBVIOUS
  <2> QED
    BY <1>2, <2>1, <2>2, HandsFinite, FS_RemoveElement
<1> QED
  BY <1>1, <1>2 DEF Steps

\* No step separates the step of processCallbacks() from what the producer does.
LEMMA StepsMatchStep ==
  ASSUME TypeIInv, StepsMatch, [PluginNext]_<<vars, pluginVars>>
  PROVE  StepsMatch'
<1> USE DEF StepsMatch, Steps, Places
<1>1. /\ place \in [Threads -> Places]
      /\ Senders \subseteq Threads /\ Port \in Threads /\ Port \notin Senders
  BY ProducerAssumption DEF TypeIInv, TypeOK, Threads
<1>2. ASSUME UNCHANGED <<place, step>> PROVE StepsMatch'
  BY <1>2
<1>3. ASSUME UNCHANGED place, NEW t \in Senders, step[t] # "sending",
             NEW to \in Steps \ {"sending"}, step' = [step EXCEPT ![t] = to]
      PROVE  StepsMatch'
  BY <1>3
<1>4. ASSUME NEW t \in Senders, NEW from, NEW to, Go(t, from, to),
             from # "rest", to # "rest", UNCHANGED step
      PROVE  StepsMatch'
  BY <1>1, <1>4 DEF Go
<1>5. ASSUME UNCHANGED step, NEW from, NEW to, Go(Port, from, to) PROVE StepsMatch'
  BY <1>1, <1>5 DEF Go
<1>6. CASE ArriveBlocking \/ TakeQueued
  BY <1>3, <1>6, PluginAssumption DEF ArriveBlocking, TakeQueued, Pack, Move, vars
<1>7. CASE ArriveQueued
  BY <1>2, <1>7 DEF ArriveQueued, vars
<1>8. ASSUME NEW t \in Senders, Process(t) PROVE StepsMatch'
  <2>1. CASE CallSend(t)
    BY <1>1, <2>1 DEF CallSend, Send, Go, Move
  <2>2. CASE SendRefused(t)
    BY <1>3, <2>2 DEF SendRefused, Move, vars
  <2>3. CASE Return(t)
    BY <1>3, <2>3 DEF Return, ReturnCounting, vars
  <2>4. CASE Enlarge(t)
    BY <1>1, <2>4 DEF Enlarge, CheckError, SetConfMax, Go
  <2>5. CASE Reconnect(t)
    BY <1>4, <2>5 DEF Reconnect, SetField, MakeConnection, MakeConnectionWith, pluginVars
  <2>6. CASE ShowSize(t)
    BY <1>4, <2>6 DEF ShowSize, ShowSizeAs, Show, ShowAs
  <2>7. CASE HandOver(t)
    BY <1>1, <2>7 DEF HandOver, Produce, Go, Move
  <2> QED
    BY <1>8, <2>1, <2>2, <2>3, <2>4, <2>5, <2>6, <2>7 DEF Process
<1>9. CASE WriteMaxSize
  BY <1>5, <1>9 DEF WriteMaxSize, SetMaxMessageSize
<1>10. CASE WriteRefused \/ StoreWritten \/ SwitchBlocking \/ Others
  BY <1>2, <1>10 DEF WriteRefused, StoreWritten, SwitchBlocking, Others, StartThread,
     Transmit, vars, pluginVars
<1>11. CASE OtherCall
  BY <1>2, <1>5, <1>11 DEF OtherCall, SetBrokerAddr, SetMessageQueueLength,
     SetMessageBufferSizeKbytes, SetStatsTimeMS, Configure, SetMember, GetMaxMessageSize,
     pluginVars
<1>12. CASE WriteStep
  BY <1>5, <1>12 DEF WriteStep, SetConfMax, SetField, StoreAddress, MakeConnection,
     MakeConnectionWith
<1>13. CASE UNCHANGED <<vars, pluginVars>>
  BY <1>2, <1>13 DEF vars, pluginVars
<1> QED
  BY <1>6, <1>7, <1>8, <1>9, <1>10, <1>11, <1>12, <1>13 DEF PluginNext, Client

\* Pack() puts an array into the hands of a sender that had none.
LEMMA PackCounts ==
  ASSUME StepsMatch, NEW t \in Senders, NEW a \in 0..MaxArrays, Pack(t, a),
         ArraysOK
  PROVE  /\ Cardinality(Hands') = Cardinality(Hands) + 1
         /\ UNCHANGED <<dropped, accepted>>
         /\ array' \in [Senders -> 0..MaxArrays] /\ buffer' \in 0..MaxArrays
<1>1. t \notin Hands
  BY DEF Pack, Move, Hands, Using
<1> QED
  BY <1>1, HandsChange DEF Pack, Move, StepsMatch, Steps, ArraysOK

\* The count holds and the arrays keep their types in every step.
LEMMA DropsStep ==
  ASSUME TypeIInv, DropsIInv, [PluginNext]_<<vars, pluginVars>>
  PROVE  DropsIInv'
<1> USE PluginAssumption DEF DropsIInv, ArraysOK, arrays
<1>1. StepsMatch'
  BY StepsMatchStep
<1>2. /\ arrived = accepted + dropped + Len(queue) + Cardinality(Hands)
      /\ Cardinality(Hands) \in Nat /\ Len(queue) \in Nat
  BY HandsFinite, LenProperties DEF DropsCounted, Hands
<1>3. ASSUME ArraysOK',
             arrived' = accepted' + dropped' + Len(queue') + Cardinality(Hands')
      PROVE  DropsIInv'
  BY <1>1, <1>3 DEF DropsCounted, Hands
<1>4. UNCHANGED step => UNCHANGED Hands
  BY DEF Hands, Using
<1>5. ASSUME UNCHANGED <<arrays, step, dropped, accepted>> PROVE DropsIInv'
  BY <1>2, <1>3, <1>4, <1>5
<1>6. CASE ArriveBlocking
  <2>1. Source \in Senders /\ arrived' = arrived + 1 /\ arrived + 1 \in 0..MaxArrays
        /\ Pack(Source, arrived + 1) /\ UNCHANGED queue
    BY <1>6 DEF ArriveBlocking
  <2>2. /\ Cardinality(Hands') = Cardinality(Hands) + 1
        /\ UNCHANGED <<dropped, accepted>>
        /\ array' \in [Senders -> 0..MaxArrays] /\ buffer' \in 0..MaxArrays
    BY <2>1, PackCounts
  <2> QED
    BY <1>2, <1>3, <2>1, <2>2
<1>7. CASE ArriveQueued
  <2>1. UNCHANGED Hands
    BY <1>4, <1>7 DEF ArriveQueued
  <2>2. CASE Len(queue) < QueueSize
    <3>1. arrived + 1 \in 1..MaxArrays /\ queue' = Append(queue, arrived + 1)
      BY <1>7, <2>2 DEF ArriveQueued
    <3>2. queue' \in Seq(1..MaxArrays) /\ Len(queue') = Len(queue) + 1
      BY <3>1, AppendProperties
    <3> QED
      BY <1>2, <1>3, <1>7, <2>1, <2>2, <3>2 DEF ArriveQueued
  <2>3. CASE ~(Len(queue) < QueueSize)
    BY <1>2, <1>3, <1>7, <2>1, <2>3 DEF ArriveQueued
  <2> QED
    BY <2>2, <2>3
<1>8. CASE TakeQueued
  <2>1. /\ Head(queue) \in 1..MaxArrays
        /\ queue' \in Seq(1..MaxArrays) /\ Len(queue') = Len(queue) - 1
    BY <1>8, HeadTailProperties DEF TakeQueued
  <2>2. Worker \in Senders /\ Head(queue) \in 0..MaxArrays
        /\ Pack(Worker, Head(queue)) /\ UNCHANGED arrived
    BY <1>8, <2>1 DEF TakeQueued
  <2>3. /\ Cardinality(Hands') = Cardinality(Hands) + 1
        /\ UNCHANGED <<dropped, accepted>>
        /\ array' \in [Senders -> 0..MaxArrays] /\ buffer' \in 0..MaxArrays
    BY <2>2, PackCounts
  <2>4. ArraysOK'
    BY <1>2, <2>1, <2>2, <2>3
  <2>5. arrived' = accepted' + dropped' + Len(queue') + Cardinality(Hands')
    BY <1>2, <2>1, <2>2, <2>3
  <2> QED
    BY <1>3, <2>4, <2>5
<1>9. ASSUME NEW t \in Senders, Process(t) PROVE DropsIInv'
  <2> USE DEF StepsMatch, Steps
  <2>1. CASE CallSend(t)
    <3>1. t \in Hands
      BY <2>1 DEF CallSend, Move, Hands, Using
    <3> QED
      BY <1>2, <1>3, <2>1, <3>1, HandsChange DEF CallSend, Move
  <2>2. CASE SendRefused(t)
    <3>1. t \in Hands
      BY <2>2 DEF SendRefused, Move, Hands, Using
    <3> QED
      BY <1>2, <1>3, <2>2, <3>1, HandsChange DEF SendRefused, Move
  <2>3. CASE Return(t)
    <3>1. t \in Hands <=> step[t] = "failed"
      BY <2>3 DEF Return, ReturnCounting, Hands, Using
    <3>2. CASE step[t] = "failed"
      <4>1. step' = [step EXCEPT ![t] = "idle"] /\ dropped' = dropped + 1
            /\ UNCHANGED <<arrays, accepted>>
        BY <2>3, <3>2 DEF Return, ReturnCounting
      <4>2. Cardinality(Hands') = Cardinality(Hands) - 1
        BY <3>1, <3>2, <4>1, HandsChange
      <4> QED
        BY <1>2, <1>3, <4>1, <4>2
    <3>3. CASE step[t] # "failed"
      <4>1. step' = [step EXCEPT ![t] = "idle"] /\ dropped' = dropped + 0
            /\ UNCHANGED <<arrays, accepted>>
        BY <2>3, <3>3 DEF Return, ReturnCounting
      <4>2. Cardinality(Hands') = Cardinality(Hands)
        BY <3>1, <3>3, <4>1, HandsChange
      <4> QED
        BY <1>2, <1>3, <4>1, <4>2
    <3> QED
      BY <3>2, <3>3
  <2>4. CASE Enlarge(t)
    <3>1. t \in Hands
      BY <2>4 DEF Enlarge, CheckError, SetConfMax, Go, Hands, Using
    <3>2. CASE place'[t] = "rest"
      BY <1>2, <1>3, <2>4, <3>1, <3>2, HandsChange DEF Enlarge
    <3>3. CASE place'[t] # "rest"
      <4>1. UNCHANGED step
        BY <2>4, <3>3 DEF Enlarge
      <4> QED
        BY <1>5, <2>4, <4>1 DEF Enlarge
    <3> QED
      BY <3>2, <3>3
  <2>5. CASE Reconnect(t) \/ ShowSize(t)
    BY <1>5, <2>5 DEF Reconnect, ShowSize, ShowSizeAs, pluginVars
  <2>6. CASE HandOver(t)
    <3>1. t \in Hands
      BY <2>6 DEF HandOver, Move, Hands, Using
    <3>2. CASE producer # None /\ ~Refused(t)
      <4>1. step' = [step EXCEPT ![t] = "sent"] /\ accepted' = accepted + 1
            /\ UNCHANGED <<arrays, dropped>>
        BY <2>6, <3>2 DEF HandOver, Move
      <4>2. Cardinality(Hands') = Cardinality(Hands) - 1
        BY <3>1, <4>1, HandsChange
      <4> QED
        BY <1>2, <1>3, <4>1, <4>2
    <3>3. CASE ~(producer # None /\ ~Refused(t))
      <4>1. step' = [step EXCEPT ![t] = "failed"] /\ UNCHANGED <<arrays, dropped, accepted>>
        BY <2>6, <3>3 DEF HandOver, Move
      <4>2. Cardinality(Hands') = Cardinality(Hands)
        BY <3>1, <4>1, HandsChange
      <4> QED
        BY <1>2, <1>3, <4>1, <4>2
    <3> QED
      BY <3>2, <3>3
  <2> QED
    BY <1>9, <2>1, <2>2, <2>3, <2>4, <2>5, <2>6 DEF Process
<1>10. CASE SwitchBlocking
  BY <1>2, <1>3, <1>4, <1>10 DEF SwitchBlocking
<1>11. CASE \/ WriteMaxSize \/ WriteRefused \/ OtherCall \/ WriteStep \/ StoreWritten
            \/ Others \/ UNCHANGED <<vars, pluginVars>>
  BY <1>5, <1>11 DEF WriteMaxSize, WriteRefused, OtherCall, WriteStep, StoreWritten,
     Others, pluginVars
<1> QED
  BY <1>6, <1>7, <1>8, <1>9, <1>10, <1>11 DEF PluginNext, Client

\* The typed arrays and their count are an invariant of the plugin.
LEMMA DropsInvariant == PluginSpec => [](TypeIInv /\ DropsIInv)
<1>1. PluginInit => DropsIInv
  <2> SUFFICES ASSUME PluginInit PROVE DropsIInv
    OBVIOUS
  <2>1. Hands = {} /\ StepsMatch
    BY ProducerAssumption
       DEF PluginInit, Init, Hands, Using, StepsMatch, Steps, Threads
  <2>2. queue \in Seq(1..MaxArrays) /\ Len(queue) = 0
    BY EmptySeq DEF PluginInit
  <2>3. /\ arrived = 0 /\ dropped = 0 /\ accepted = 0
        /\ array \in [Senders -> 0..MaxArrays] /\ buffer \in 0..MaxArrays
    BY PluginAssumption DEF PluginInit
  <2>4. arrived = accepted + dropped + Len(queue) + Cardinality(Hands)
    BY <2>1, <2>2, <2>3, FS_EmptySet
  <2> QED
    BY <2>1, <2>2, <2>3, <2>4, PluginAssumption
       DEF DropsIInv, ArraysOK, DropsCounted, Hands
<1>2. PluginSpec => []TypeIInv
  BY PluginImplementsProducer, TypeInvariant, PTL
<1> QED
  BY <1>1, <1>2, DropsStep, PTL DEF PluginSpec

\* Whatever an array failed of and whichever thread carried it: it is queued, in
\* a sender's hands, with librdkafka or counted as dropped, and only one of these.
THEOREM PluginDropsCounted == PluginSpec => []DropsCounted
BY DropsInvariant, PTL DEF DropsIInv
-----------------------------------------------------------------------------
\* The parameters and what a write stores, and the parts that are Boolean.
ShowsOK ==
  /\ blocking \in BOOLEAN /\ alone \in BOOLEAN /\ rejected \in BOOLEAN
  /\ writing \in [value : WrittenSizes, taken : BOOLEAN] \cup {None}
  /\ shown \in WrittenSizes \cup MinSize..MaxSize

\* Values keep their types on the way into the parameter library.
LEMMA ShowsStep ==
  ASSUME TypeIInv, ShowsOK, [PluginNext]_<<vars, pluginVars>>
  PROVE  ShowsOK'
<1> USE DEF ShowsOK
<1>1. conf.max \in MinSize..MaxSize /\ Port \in Threads
  BY DEF TypeIInv, TypeOK, Confs, Threads
<1>2. CASE ArriveBlocking \/ ArriveQueued \/ TakeQueued
  BY <1>2 DEF ArriveBlocking, ArriveQueued, TakeQueued, Pack, shows
<1>3. ASSUME NEW t \in Senders, Process(t) PROVE ShowsOK'
  <2>1. CASE ShowSize(t)
    BY <1>1, <2>1 DEF ShowSize, ShowSizeAs, arrays
  <2>2. CASE CallSend(t) \/ SendRefused(t) \/ Enlarge(t) \/ HandOver(t) \/ Return(t)
    BY <2>2 DEF CallSend, SendRefused, Enlarge, HandOver, Return, ReturnCounting, arrays,
       shows
  <2>3. CASE Reconnect(t)
    BY <2>3 DEF Reconnect, pluginVars, arrays, shows
  <2> QED
    BY <1>3, <2>1, <2>2, <2>3 DEF Process
<1>4. CASE WriteMaxSize
  <2>1. size'[Port] \in WrittenSizes
    BY <1>1, <1>4 DEF WriteMaxSize, SetMaxMessageSize, TypeIInv, TypeOK
  <2> QED
    BY <1>4, <2>1 DEF WriteMaxSize, arrays
<1>5. CASE WriteRefused \/ StoreWritten
  BY <1>5, PluginAssumption DEF WriteRefused, StoreWritten, arrays
<1>6. CASE OtherCall \/ SwitchBlocking \/ Others
  BY <1>6 DEF OtherCall, SwitchBlocking, Others, pluginVars, arrays, shows
<1>7. CASE WriteStep
  <2>1. alone' \in BOOLEAN /\ UNCHANGED <<blocking, rejected, shown>>
    BY <1>7 DEF WriteStep, arrays
  <2>2. writing # None => [writing EXCEPT !.taken = FALSE]
                            \in [value : WrittenSizes, taken : BOOLEAN]
    OBVIOUS
  <2> QED
    BY <1>7, <2>1, <2>2 DEF WriteStep
<1>8. CASE UNCHANGED <<vars, pluginVars>>
  BY <1>8 DEF pluginVars, arrays, shows
<1> QED
  BY <1>2, <1>3, <1>4, <1>5, <1>6, <1>7, <1>8 DEF PluginNext, Client

\* The plugin's variables keep their types; its queue keeps its length, and the
\* counts never exceed the number of arrays.
LEMMA ShowsInvariant == PluginSpec => []ShowsOK
<1>1. PluginInit => ShowsOK
  BY ProducerAssumption DEF PluginInit, ShowsOK
<1> QED
  BY <1>1, ShowsStep, DropsInvariant, PTL DEF PluginSpec

\* All variables of the plugin have their types.
THEOREM PluginTyped == PluginSpec => []PluginTypeOK
<1>1. DropsIInv /\ ShowsOK => PluginTypeOK
  <2> SUFFICES ASSUME DropsIInv, ShowsOK PROVE PluginTypeOK
    OBVIOUS
  <2>1. /\ arrived = accepted + dropped + Len(queue) + Cardinality(Hands)
        /\ Cardinality(Hands) \in Nat /\ Len(queue) \in Nat
    BY HandsFinite, LenProperties DEF DropsIInv, ArraysOK, DropsCounted, Hands
  <2>2. dropped \in 0..MaxArrays /\ accepted \in 0..MaxArrays
    BY <2>1, PluginAssumption DEF DropsIInv, ArraysOK
  <2> QED
    BY <2>2 DEF PluginTypeOK, DropsIInv, ArraysOK, StepsMatch, Steps, ShowsOK
<1> QED
  BY <1>1, DropsInvariant, ShowsInvariant, PTL
-----------------------------------------------------------------------------
\* A thread that may be setting the size limit, or whose packet depends on it.
Busy(t) == IF t \in Senders THEN Using(t) ELSE place[t] = "field"

\* librdkafka has taken the size that a client wrote.
Taken == writing # None /\ writing.taken /\ place[Port] # "set"

WritingOK ==
  place[Port] \in {"set", "field"}
    => writing # None /\ writing.taken /\ writing.value = size[Port]

OneBusy   == \A t, u \in Threads : Busy(t) /\ Busy(u) => t = u
NoneUsing == Taken => \A t \in Senders : ~Using(t)
TakenSet  == Taken => conf.max = writing.value
Fits ==
  /\ \A t \in Threads : place[t] = "field" => conf.max = size[t]
  /\ \A t \in Senders : /\ place[t] \in {"connect", "show"} => conf.max = size[t]
                        /\ place[t] = "produce" => size[t] <= conf.max
LimitSet  == maxMessageSize = conf.max \/ \E t \in Threads : place[t] = "field"
ShownSet ==
  ~rejected /\ ~Taken
    => \/ shown = conf.max
       \/ \E t \in Senders : place[t] \in {"field", "connect", "show"}
ProducerSet ==
  producer # None
    => \/ producer.max = conf.max
       \/ \E t \in Senders : place[t] \in {"field", "connect"}
       \/ Taken /\ place[Port] \in {"field", "connect"}

AloneInv ==
  /\ OneBusy /\ NoneUsing /\ TakenSet /\ Fits
  /\ LimitSet /\ ShownSet /\ ProducerSet

\* While the limit is left to one thread at a time, that thread is the only one
\* that lags behind conf.max, and it is on its way to catch up.
SizeIInv == WritingOK /\ (alone => AloneInv)

\* A step that leaves all of this alone, or only gives a sender less to do.
LEMMA SizeSame ==
  ASSUME SizeIInv, UNCHANGED <<conf, maxMessageSize, producer, place, size, writing,
                               shown, rejected, alone>>,
         \A t \in Senders : Using(t)' => Using(t)
  PROVE  SizeIInv'
BY DEF SizeIInv, WritingOK, AloneInv, OneBusy, NoneUsing, TakenSet, Fits, LimitSet,
   ShownSet, ProducerSet, Busy, Taken

\* What a sender does within SendKafkaPacket() keeps the limit in step.
LEMMA SizeSender ==
  ASSUME TypeIInv, NeedsBroker, StepsMatch, SizeIInv, NEW t \in Senders, Process(t)
  PROVE  SizeIInv'
<1> USE DEF SizeIInv, AloneInv, Steps, Places
<1>1. /\ place \in [Threads -> Places]
      /\ size \in [Threads -> PacketSizes \cup WrittenSizes \cup {0}]
      /\ step \in [Senders -> Steps]
      /\ t \in Threads /\ Senders \subseteq Threads /\ Port \in Threads
      /\ Port \notin Senders /\ t # Port
  BY ProducerAssumption DEF TypeIInv, TypeOK, Threads, StepsMatch
<1>2. \A u \in Senders : place[u] # "rest" => Using(u)
  BY DEF StepsMatch, Using
<1>3. ASSUME alone, Using(t)
      PROVE  /\ ~Taken /\ \A u \in Threads \ {t} : ~Busy(u)
             /\ \A u \in Threads \ {t} : place[u] # "field"
             /\ \A u \in Senders \ {t} : place[u] = "rest"
  BY <1>1, <1>2, <1>3 DEF OneBusy, NoneUsing, Busy
<1>4. CASE SendRefused(t)
  BY <1>1, <1>4, SizeSame DEF SendRefused, Move, vars, shows, Using
<1>5. CASE Return(t)
  BY <1>1, <1>5, SizeSame DEF Return, ReturnCounting, vars, shows, Using
<1>6. ASSUME place' = [place EXCEPT ![t] = place'[t]],
             UNCHANGED <<writing, alone>>,
             \A u \in Threads \ {t} : size'[u] = size[u],
             alone => AloneInv'
      PROVE  SizeIInv'
  BY <1>1, <1>6 DEF WritingOK
<1>7. CASE CallSend(t)
  <2>1. /\ Using(t) /\ UNCHANGED <<shows, alone, conf, maxMessageSize, producer>>
        /\ place[t] = "rest" /\ \A u \in Senders : Using(u)' = Using(u)
    BY <1>1, <1>7 DEF CallSend, Move, Send, Go, Using
  <2>2. /\ place' = [place EXCEPT ![t] = place'[t]]
        /\ \A u \in Threads \ {t} : size'[u] = size[u]
        /\ \/ place'[t] = "enlarge"
           \/ place'[t] = "produce" /\ size'[t] <= maxMessageSize
    <3>1. PICK s \in PacketSizes :
            /\ size' = [size EXCEPT ![t] = s]
            /\ Go(t, "rest", IF s > maxMessageSize THEN "enlarge" ELSE "produce")
      BY <1>7 DEF CallSend, Send
    <3>2. s \in Int /\ maxMessageSize \in Int
      BY ProducerAssumption DEF TypeIInv, TypeOK
    <3> QED
      BY <1>1, <3>1, <3>2 DEF Go
  <2>3. ASSUME alone PROVE AloneInv'
    <3>1. maxMessageSize = conf.max
      BY <1>3, <2>1, <2>3 DEF LimitSet
    <3> QED
      BY <1>1, <1>3, <2>1, <2>2, <2>3, <3>1
         DEF OneBusy, NoneUsing, TakenSet, Fits, LimitSet, ShownSet, ProducerSet, Busy,
             Taken, shows
  <2> QED
    BY <1>6, <2>1, <2>2, <2>3 DEF shows
<1>8. CASE Enlarge(t)
  <2>1. /\ Using(t) /\ UNCHANGED <<shows, alone, maxMessageSize, producer, size>>
        /\ place[t] \in {"enlarge", "set"} /\ place' = [place EXCEPT ![t] = place'[t]]
        /\ \A u \in Senders \ {t} : Using(u)' = Using(u)
    BY <1>1, <1>2, <1>8 DEF Enlarge, CheckError, SetConfMax, Go, Using
  <2>2. \/ place'[t] = "field" /\ conf' = [conf EXCEPT !.max = size[t]] /\ Using(t)'
        \/ place'[t] \in {"set", "rest"} /\ UNCHANGED conf
    BY <1>1, <1>8, <2>1 DEF Enlarge, CheckError, SetConfMax, Go, Using
  <2>3. conf' = [conf EXCEPT !.max = size[t]] => conf'.max = size[t]
    BY DEF TypeIInv, TypeOK, Confs
  <2>4. ASSUME alone PROVE AloneInv'
    BY <1>1, <1>3, <2>1, <2>2, <2>3, <2>4
       DEF OneBusy, NoneUsing, TakenSet, Fits, LimitSet, ShownSet, ProducerSet, Busy,
           Taken, shows
  <2> QED
    BY <1>6, <2>1, <2>4 DEF shows
<1>9. CASE Reconnect(t)
  <2>1. /\ Using(t) /\ UNCHANGED <<step, shows, alone, conf, size>>
        /\ place' = [place EXCEPT ![t] = place'[t]]
        /\ \/ /\ place[t] = "field" /\ place'[t] = "connect"
              /\ maxMessageSize' = size[t] /\ UNCHANGED producer
           \/ /\ place[t] = "connect" /\ place'[t] = "show" /\ UNCHANGED maxMessageSize
              /\ \/ producer' \in {conf, None}
                 \/ producer' = producer /\ brokerAddr = None
    BY <1>1, <1>2, <1>9 DEF Reconnect, pluginVars, SetField, MakeConnection,
       MakeConnectionWith, Go
  <2>2. \A u \in Senders : Using(u)' = Using(u)
    BY <2>1 DEF Using
  <2>3. ASSUME alone PROVE AloneInv'
    BY <1>1, <1>3, <2>1, <2>2, <2>3
       DEF OneBusy, NoneUsing, TakenSet, Fits, LimitSet, ShownSet, ProducerSet, Busy,
           Taken, shows, NeedsBroker
  <2> QED
    BY <1>6, <2>1, <2>3 DEF shows
<1>10. CASE ShowSize(t)
  <2>1. /\ UNCHANGED <<step, writing, alone, conf, size, producer>>
        /\ place' = [place EXCEPT ![t] = place'[t]]
        /\ place[t] = "show" /\ place'[t] = "produce" /\ Using(t)
        /\ maxMessageSize' = conf.max /\ shown' = conf.max /\ ~rejected'
    BY <1>1, <1>2, <1>10 DEF ShowSize, ShowSizeAs, Show, ShowAs, Go
  <2>2. \A u \in Senders : Using(u)' = Using(u)
    BY <2>1 DEF Using
  <2>3. conf.max \in Int
    BY ProducerAssumption DEF TypeIInv, TypeOK, Confs
  <2>4. ASSUME alone PROVE AloneInv'
    BY <1>1, <1>3, <2>1, <2>2, <2>3, <2>4
       DEF OneBusy, NoneUsing, TakenSet, Fits, LimitSet, ShownSet, ProducerSet, Busy, Taken
  <2> QED
    BY <1>6, <2>1, <2>4
<1>11. CASE HandOver(t)
  <2>1. /\ UNCHANGED <<shows, alone, conf, maxMessageSize, size, producer>>
        /\ place' = [place EXCEPT ![t] = place'[t]]
        /\ place[t] = "produce" /\ place'[t] = "rest" /\ Using(t)
        /\ \A u \in Senders \ {t} : Using(u)' = Using(u)
    BY <1>1, <1>2, <1>11 DEF HandOver, Produce, Go, Move, Using
  <2>2. ASSUME alone PROVE AloneInv'
    BY <1>1, <1>3, <2>1, <2>2
       DEF OneBusy, NoneUsing, TakenSet, Fits, LimitSet, ShownSet, ProducerSet, Busy,
           Taken, shows
  <2> QED
    BY <1>6, <2>1, <2>2 DEF shows
<1> QED
  BY <1>4, <1>5, <1>7, <1>8, <1>9, <1>10, <1>11 DEF Process

\* A write of KAFKA_MAX_MSG_SIZE and the other settings keep it in step.
LEMMA SizePort ==
  ASSUME TypeIInv, NeedsBroker, StepsMatch, ShowsOK, SizeIInv,
         Client \/ WriteStep \/ StoreWritten
  PROVE  SizeIInv'
<1> USE DEF SizeIInv, AloneInv, WritingOK, Places, members
<1>1. /\ place \in [Threads -> Places]
      /\ size \in [Threads -> PacketSizes \cup WrittenSizes \cup {0}]
      /\ Senders \subseteq Threads /\ Port \in Threads /\ Port \notin Senders
      /\ Threads = Senders \cup {Port}
  BY ProducerAssumption DEF TypeIInv, TypeOK, Threads
<1>2. \A u \in Senders : place[u] # "rest" => Using(u)
  BY DEF StepsMatch, Using
<1>3. UNCHANGED step => \A u \in Senders : Using(u)' = Using(u)
  BY DEF Using
<1>4. CASE WriteMaxSize
  <2>1. /\ place[Port] = "rest" /\ place' = [place EXCEPT ![Port] = "set"]
        /\ writing = None /\ writing' # None /\ writing'.taken /\ writing'.value = size'[Port]
        /\ \A u \in Threads \ {Port} : size'[u] = size[u]
        /\ UNCHANGED <<step, shown, rejected, alone, conf, maxMessageSize, producer>>
    <3>1. PICK s \in WrittenSizes : size' = [size EXCEPT ![Port] = s]
      BY <1>4 DEF WriteMaxSize, SetMaxMessageSize
    <3>2. size'[Port] = s /\ \A u \in Threads \ {Port} : size'[u] = size[u]
      BY <1>1, <3>1
    <3>3. writing' \in [value : WrittenSizes, taken : BOOLEAN]
          /\ writing'.taken /\ writing'.value = size'[Port]
      BY <1>4, <3>2 DEF WriteMaxSize
    <3> QED
      BY <1>4, <3>2, <3>3, PluginAssumption
         DEF WriteMaxSize, SetMaxMessageSize, PortFree, Go
  <2>2. ASSUME alone PROVE AloneInv'
    BY <1>1, <1>3, <2>1, <2>2
       DEF OneBusy, NoneUsing, TakenSet, Fits, LimitSet, ShownSet, ProducerSet, Busy, Taken
  <2> QED
    BY <1>1, <2>1, <2>2
<1>5. CASE WriteRefused
  <2>1. /\ place[Port] = "rest" /\ ~writing'.taken /\ writing = None
        /\ UNCHANGED <<vars, step, shown, rejected, alone>>
    BY <1>5 DEF WriteRefused, PortFree
  <2>2. ASSUME alone PROVE AloneInv'
    BY <1>3, <2>1, <2>2
       DEF OneBusy, NoneUsing, TakenSet, Fits, LimitSet, ShownSet, ProducerSet, Busy,
           Taken, vars
  <2> QED
    BY <2>1, <2>2 DEF vars
<1>6. CASE StoreWritten
  <2>1. /\ place[Port] = "rest" /\ writing # None /\ writing' = None
        /\ shown' = writing.value /\ rejected' = ~writing.taken
        /\ UNCHANGED <<vars, step, alone>>
    BY <1>6 DEF StoreWritten
  <2>2. ASSUME alone PROVE AloneInv'
    BY <1>3, <2>1, <2>2
       DEF OneBusy, NoneUsing, TakenSet, Fits, LimitSet, ShownSet, ProducerSet, Busy,
           Taken, vars
  <2> QED
    BY <2>1, <2>2 DEF vars
<1>7. CASE OtherCall
  <2>1. /\ PortFree /\ UNCHANGED <<step, writing, shown, rejected, alone, producer, size>>
        /\ conf'.max = conf.max
        /\ \/ UNCHANGED <<place, maxMessageSize>>
           \/ /\ UNCHANGED maxMessageSize
              /\ place' \in {[place EXCEPT ![Port] = p] : p \in {"address", "connect"}}
           \/ UNCHANGED place /\ maxMessageSize' = conf.max
    <3>1. /\ \A b \in Brokers : [conf EXCEPT !.broker = b].max = conf.max
          /\ \A q \in QueueLengths : [conf EXCEPT !.queue = q].max = conf.max
          /\ \A k \in BufferSizes : [conf EXCEPT !.kbytes = k].max = conf.max
          /\ \A i \in Intervals : [conf EXCEPT !.interval = i].max = conf.max
      OBVIOUS
    <3>2. ASSUME NEW new, NEW then, Configure(new, then), new.max = conf.max
          PROVE  /\ conf'.max = conf.max /\ UNCHANGED <<producer, size, maxMessageSize>>
                 /\ UNCHANGED place \/ place' = [place EXCEPT ![Port] = then]
      BY <3>2 DEF Configure, Go
    <3>3. CASE SetBrokerAddr \/ SetMessageQueueLength \/ SetMessageBufferSizeKbytes
               \/ SetStatsTimeMS
      BY <1>7, <3>1, <3>2, <3>3 DEF OtherCall, SetBrokerAddr, SetMessageQueueLength,
         SetMessageBufferSizeKbytes, SetStatsTimeMS, pluginVars, shows
    <3>4. CASE SetMember \/ GetMaxMessageSize
      BY <1>7, <3>4 DEF OtherCall, SetMember, GetMaxMessageSize, pluginVars, shows
    <3> QED
      BY <1>7, <3>3, <3>4 DEF OtherCall
  <2>2. ASSUME alone PROVE AloneInv'
    BY <1>1, <1>3, <2>1, <2>2
       DEF OneBusy, NoneUsing, TakenSet, Fits, LimitSet, ShownSet, ProducerSet, Busy,
           Taken, PortFree
  <2> QED
    BY <1>1, <2>1, <2>2 DEF PortFree
<1>8. CASE SwitchBlocking
  BY <1>8, SizeSame DEF SwitchBlocking, vars, shows, Using
<1>9. CASE WriteStep /\ SetConfMax(Port)
  <2>1. /\ UNCHANGED <<step, shown, rejected, maxMessageSize, producer, size>>
        /\ place[Port] = "set" /\ place' = [place EXCEPT ![Port] = place'[Port]]
    BY <1>1, <1>9 DEF WriteStep, SetConfMax, Go
  <2>2. \/ /\ place'[Port] = "field" /\ conf' = [conf EXCEPT !.max = size[Port]]
           /\ writing' = writing
           /\ alone' => alone /\ \A u \in Senders : ~Using(u)
        \/ /\ place'[Port] = "rest" /\ conf' = conf
           /\ writing' = [writing EXCEPT !.taken = FALSE]
           /\ alone' = alone
    <3>1. alone' = (alone /\ ~(place'[Port] = "field" /\ \E u \in Senders : Using(u)))
      BY <1>9 DEF WriteStep
    <3>2. writing' = IF place'[Port] = "rest" THEN [writing EXCEPT !.taken = FALSE] ELSE writing
      BY <1>9, <2>1 DEF WriteStep
    <3>3. \/ place'[Port] = "field" /\ conf' = [conf EXCEPT !.max = size[Port]]
          \/ place'[Port] = "rest" /\ conf' = conf
      BY <1>1, <1>9 DEF SetConfMax, Go
    <3> QED
      BY <3>1, <3>2, <3>3 DEF ShowsOK
  <2>3. conf' = [conf EXCEPT !.max = size[Port]] => conf'.max = size[Port]
    BY DEF TypeIInv, TypeOK, Confs
  <2>4. writing' = [writing EXCEPT !.taken = FALSE] => ~writing'.taken
    BY <2>1 DEF ShowsOK
  <2>5. ASSUME alone' PROVE AloneInv'
    <3>1. alone
      BY <2>2, <2>5
    <3>2. CASE place'[Port] = "field"
      BY <1>1, <1>2, <1>3, <2>1, <2>2, <2>3, <2>5, <3>1, <3>2
         DEF OneBusy, NoneUsing, TakenSet, Fits, LimitSet, ShownSet, ProducerSet, Busy,
             Taken
    <3>3. CASE place'[Port] = "rest"
      BY <1>1, <1>3, <2>1, <2>2, <2>4, <3>1, <3>3
         DEF OneBusy, NoneUsing, TakenSet, Fits, LimitSet, ShownSet, ProducerSet, Busy,
             Taken
    <3> QED
      BY <2>2, <3>2, <3>3
  <2> QED
    BY <1>1, <2>1, <2>2, <2>5
<1>10. CASE WriteStep /\ (SetField(Port) \/ StoreAddress \/ MakeConnection(Port))
  <2>1. /\ UNCHANGED <<step, shown, rejected, writing, alone, conf, size>>
        /\ place' = [place EXCEPT ![Port] = place'[Port]]
        /\ \/ /\ place[Port] = "field" /\ place'[Port] = "connect"
              /\ maxMessageSize' = size[Port] /\ UNCHANGED producer
           \/ /\ place[Port] = "address" /\ place'[Port] = "connect"
              /\ UNCHANGED <<maxMessageSize, producer>>
           \/ /\ place[Port] = "connect" /\ place'[Port] = "rest"
              /\ UNCHANGED maxMessageSize
              /\ \/ producer' \in {conf, None}
                 \/ producer' = producer /\ brokerAddr = None
    BY <1>1, <1>10 DEF WriteStep, SetField, StoreAddress, MakeConnection,
       MakeConnectionWith, Go, ShowsOK
  <2>2. ASSUME alone PROVE AloneInv'
    BY <1>1, <1>2, <1>3, <2>1, <2>2
       DEF OneBusy, NoneUsing, TakenSet, Fits, LimitSet, ShownSet, ProducerSet, Busy,
           Taken, NeedsBroker
  <2> QED
    BY <1>1, <2>1, <2>2
<1> QED
  BY <1>4, <1>5, <1>6, <1>7, <1>8, <1>9, <1>10 DEF Client, WriteStep

\* Whatever the plugin does, the thread that lags behind is one alone.
LEMMA SizeStep ==
  ASSUME TypeIInv, NeedsBroker, StepsMatch, ShowsOK, SizeIInv,
         [PluginNext]_<<vars, pluginVars>>
  PROVE  SizeIInv'
<1>1. ASSUME NEW t \in Senders, NEW a, Pack(t, a) PROVE SizeIInv'
  <2>1. /\ UNCHANGED <<vars, shows>> /\ place[Port] = "rest" /\ writing = None
        /\ alone' => alone /\ \A u \in Senders \ {t} : ~Using(u)
        /\ \A u \in Senders \ {t} : Using(u)' = Using(u)
        /\ Threads = Senders \cup {Port} /\ Port \notin Senders
    BY <1>1, ProducerAssumption DEF Pack, Move, PortFree, StepsMatch, Using, Threads
  <2> QED
    BY <1>1, <2>1
       DEF SizeIInv, WritingOK, AloneInv, OneBusy, NoneUsing, TakenSet, Fits, LimitSet,
           ShownSet, ProducerSet, Busy, Taken, vars, shows
<1>2. CASE ArriveBlocking \/ TakeQueued
  BY <1>1, <1>2, PluginAssumption DEF ArriveBlocking, TakeQueued
<1>3. CASE ArriveQueued \/ Others \/ UNCHANGED <<vars, pluginVars>>
  BY <1>3, SizeSame DEF ArriveQueued, Others, StartThread, Transmit, vars, pluginVars,
     shows, Using
<1> QED
  BY <1>2, <1>3, SizeSender, SizePort DEF PluginNext

\* The size limit's invariant holds in every reachable state.
LEMMA SizeInvariant == PluginSpec => [](TypeIInv /\ StepsMatch /\ SizeIInv)
<1>1. PluginInit => SizeIInv
  <2> SUFFICES ASSUME PluginInit PROVE SizeIInv
    OBVIOUS
  <2> QED
    BY ProducerAssumption, PluginAssumption
       DEF PluginInit, Init, InitRdKafka, SizeIInv, WritingOK, AloneInv, OneBusy,
           NoneUsing, TakenSet,
           Fits, LimitSet, ShownSet, ProducerSet, Busy, Taken, Using, Threads
<1>2. PluginSpec => []NeedsBroker
  BY PluginImplementsProducer, CurrentInvariant, PTL DEF CurrentIInv
<1>3. PluginSpec => []StepsMatch
  BY DropsInvariant, PTL DEF DropsIInv
<1> QED
  BY <1>1, <1>2, <1>3, SizeStep, DropsInvariant, ShowsInvariant, PTL DEF PluginSpec

\* With no two threads at it, SendKafkaPacket() compares with what librdkafka was
\* told: the member and conf agree whenever no call is in progress.
THEOREM PluginSizeInStep == PluginSpec => []SizeInStep
<1>1. SizeIInv => SizeInStep
  BY DEF SizeIInv, AloneInv, LimitSet, SizeInStep, AtRest
<1> QED
  BY <1>1, SizeInvariant, PTL

\* And KAFKA_MAX_MSG_SIZE shows it, unless a rejected value is what it shows.
THEOREM PluginSizeShown == PluginSpec => []SizeShown
<1>1. SizeIInv => SizeShown
  BY DEF SizeIInv, AloneInv, ShownSet, SizeShown, AtRest, Taken, Threads
<1> QED
  BY <1>1, SizeInvariant, PTL

\* A packet that is handed to librdkafka fits the producer it is handed to, however
\* often the settings changed and reconnections failed on its way.
THEOREM PluginSizeAccepted == PluginSpec => SizeAccepted
<1>1. TypeIInv /\ StepsMatch /\ SizeIInv
        => \A t \in Senders :
             HandOver(t) /\ producer # None /\ alone => size[t] <= producer.max
  <2> SUFFICES ASSUME TypeIInv, StepsMatch, SizeIInv, NEW t \in Senders, HandOver(t),
                      producer # None, alone
               PROVE  size[t] <= producer.max
    OBVIOUS
  <2>1. place[t] = "produce" /\ Using(t)
    BY DEF HandOver, Produce, Go, Move, Using
  <2>2. size[t] <= conf.max /\ ~Taken
    BY <2>1 DEF SizeIInv, AloneInv, Fits, NoneUsing
  <2>3. \A u \in Senders : place[u] \notin {"field", "connect"}
    BY <2>1 DEF SizeIInv, AloneInv, OneBusy, Busy, Using, StepsMatch, Threads
  <2> QED
    BY <2>2, <2>3 DEF SizeIInv, AloneInv, ProducerSet
<1> QED
  BY <1>1, SizeInvariant, PTL DEF SizeAccepted, PluginSpec
-----------------------------------------------------------------------------
\* While senders have not overlapped, at most one uses the buffer, and it is its own.
BufferIInv ==
  alone => /\ BufferIsOwn
           /\ \A t, u \in Senders : Using(t) /\ Using(u) => t = u

\* The buffer changes hands in Pack() only, which notices an overlap.
LEMMA BufferStep ==
  ASSUME StepsMatch, ArraysOK, BufferIInv, [PluginNext]_<<vars, pluginVars>>
  PROVE  BufferIInv'
<1> USE DEF BufferIInv, BufferIsOwn
<1>1. ASSUME UNCHANGED <<array, buffer>>, alone' => alone,
             \A t \in Senders : Using(t)' => Using(t)
      PROVE  BufferIInv'
  BY <1>1
<1>2. ASSUME NEW t \in Senders, NEW a, Pack(t, a) PROVE BufferIInv'
  <2>1. /\ array' = [array EXCEPT ![t] = a] /\ buffer' = a
        /\ alone' => alone /\ \A u \in Senders \ {t} : ~Using(u)
        /\ \A u \in Senders \ {t} : Using(u)' = Using(u)
    BY <1>2 DEF Pack, Move, StepsMatch, Using
  <2> QED
    BY <2>1 DEF ArraysOK
<1>3. CASE ArriveBlocking \/ TakeQueued
  BY <1>2, <1>3, PluginAssumption DEF ArriveBlocking, TakeQueued
<1>4. CASE ArriveQueued \/ Client \/ StoreWritten \/ Others \/ UNCHANGED <<vars, pluginVars>>
  BY <1>1, <1>4 DEF ArriveQueued, Client, WriteMaxSize, WriteRefused, OtherCall,
     SwitchBlocking, StoreWritten, Others, pluginVars, arrays, Using
<1>5. CASE WriteStep
  BY <1>1, <1>5 DEF WriteStep, arrays, Using
<1>6. ASSUME NEW t \in Senders, Process(t) PROVE BufferIInv'
  <2>1. UNCHANGED <<array, buffer, alone>>
    BY <1>6 DEF Process, CallSend, SendRefused, Enlarge, Reconnect, ShowSize, ShowSizeAs,
       HandOver, Return, ReturnCounting, arrays, pluginVars
  <2>2. \A u \in Senders : Using(u)' => Using(u)
    <3>1. CASE CallSend(t) \/ SendRefused(t) \/ HandOver(t)
      BY <3>1 DEF CallSend, SendRefused, HandOver, Move, Using, StepsMatch
    <3>2. CASE Enlarge(t)
      BY <3>2 DEF Enlarge, Using, StepsMatch
    <3>3. CASE Reconnect(t) \/ ShowSize(t)
      BY <3>3 DEF Reconnect, ShowSize, ShowSizeAs, pluginVars, Using
    <3>4. CASE Return(t)
      BY <3>4 DEF Return, ReturnCounting, Using, StepsMatch
    <3> QED
      BY <1>6, <3>1, <3>2, <3>3, <3>4 DEF Process
  <2> QED
    BY <1>1, <2>1, <2>2
<1> QED
  BY <1>3, <1>4, <1>5, <1>6 DEF PluginNext

\* The contract of NDArraySerializer.h:36-38 is broken by an overlap of the source's
\* thread with the plugin's and by nothing else: until the first one, every sender
\* hands on the array that it packed.
THEOREM PluginBufferOwn == PluginSpec => [](alone => BufferIsOwn)
<1>1. PluginInit => BufferIInv
  BY DEF PluginInit, BufferIInv, BufferIsOwn, Using
<1>2. PluginSpec => [](StepsMatch /\ ArraysOK)
  BY DropsInvariant, PTL DEF DropsIInv
<1>3. BufferIInv => (alone => BufferIsOwn)
  BY DEF BufferIInv
<1> QED
  BY <1>1, <1>2, <1>3, BufferStep, PTL DEF PluginSpec
=============================================================================
