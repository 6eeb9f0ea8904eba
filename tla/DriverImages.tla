----------------------------- MODULE DriverImages -----------------------------
(***************************************************************************)
(* The life of an image in the ADKafka driver: consumeTask() releases the  *)
(* image of the last packet, takes a new one from the pool, copies the     *)
(* packet into it and hands it to the plugins, which keep a reference for  *)
(* as long as they work on it, also while the next packets arrive.         *)
(*                                                                         *)
(* NDArrayPool and the plugins are external: reference counts, a limit on  *)
(* memory (in images of one size), and a bounded queue in each plugin that *)
(* drops what it cannot hold.  When the driver acquires, and which packets *)
(* it publishes, is in KafkaDriver: here it publishes any.                 *)
(***************************************************************************)
EXTENDS NDArrayFormat, FiniteSets

CONSTANTS Buffers,   \* images
          Plugins,
          Capacity,  \* images that one plugin holds, in work and in its queue
          Arrays,    \* the arrays that are sent
          Encode(_), \* how they are sent
          None

ASSUME ImagesAssumption ==
  /\ IsFiniteSet(Buffers) /\ None \notin Buffers
  /\ IsFiniteSet(Plugins) /\ Capacity \in Nat \ {0}

VARIABLES
  pool,      \* external: the images that the pool's memory is enough for
  place,     \* where consumeTask() is with an image
  pImage,    \* the image it has a reference to
  refCount,  \* external: references to each image of the pool
  content,   \* what is in each image
  pending,   \* plugins that doCallbacksGenericPointer() has yet to call
  holds,     \* external: the images each plugin holds
  sent,      \* history: the array that was sent as the one in pImage
  heldAs     \* history: the same for the images that plugins hold

vars == <<pool, place, pImage, refCount, content, pending, holds, sent, heldAs>>

Init ==
  /\ pool \in SUBSET Buffers \ {{}}
  /\ place = "fetch" /\ pImage = None
  /\ refCount = [b \in Buffers |-> 0]
  /\ content = [b \in Buffers |-> None]
  /\ pending = {} /\ sent = None
  /\ holds = [p \in Plugins |-> <<>>] /\ heldAs = [p \in Plugins |-> <<>>]
-----------------------------------------------------------------------------
Released == IF pImage = None THEN refCount ELSE [refCount EXCEPT ![pImage] = @ - 1]
Free(refs) == {b \in pool : refs[b] = 0}

\* NDArrayPool::alloc() finds an image among those that are free, or returns a
\* null pointer, which is used all the same.
ReceiveInto(refs, candidates) ==
  /\ place = "fetch"
  /\ \/ /\ candidates = {}
        /\ place' = "crashed"
        /\ UNCHANGED <<pImage, refCount, content, pending, holds, sent, heldAs>>
     \/ \E b \in candidates, a \in Arrays :
          /\ pImage' = b
          /\ refCount' = [refs EXCEPT ![b] = @ + 1]
          /\ content' = [content EXCEPT ![b] = DeSerializeData(Encode(a))]
          /\ sent' = a
          /\ \/ place' = "publish" /\ pending' = Plugins
             \/ UNCHANGED <<place, pending>>
          /\ UNCHANGED <<holds, heldAs>>
  /\ UNCHANGED pool

\* Mutants: the last image is never released, or released for the plugin too, or
\* only after the allocation, or used again as if nobody else had it.
ReceiveKeeping  == ReceiveInto(refCount, Free(refCount))
ReceiveTwice    ==
  ReceiveInto(IF pImage = None THEN refCount ELSE [Released EXCEPT ![pImage] = @ - 1],
              Free(Released))
ReceiveLate     == ReceiveInto(Released, Free(refCount))
ReceiveInPlace  ==
  ReceiveInto(Released, IF pImage = None THEN Free(Released) ELSE {pImage})

Receive == ReceiveInto(Released, Free(Released))

\* doCallbacksGenericPointer(): a plugin queues the image, or drops it.
CallPlugin(p) ==
  /\ place = "publish" /\ p \in pending
  /\ pending' = pending \ {p}
  /\ IF Len(holds[p]) < Capacity
     THEN /\ holds' = [holds EXCEPT ![p] = Append(@, pImage)]
          /\ heldAs' = [heldAs EXCEPT ![p] = Append(@, sent)]
          /\ refCount' = [refCount EXCEPT ![pImage] = @ + 1]
     ELSE UNCHANGED <<holds, heldAs, refCount>>
  /\ UNCHANGED <<pool, place, pImage, content, sent>>

Published ==
  /\ place = "publish" /\ pending = {}
  /\ place' = "fetch"
  /\ UNCHANGED <<pool, pImage, refCount, content, pending, holds, sent, heldAs>>

\* A plugin is done with the oldest image it holds.
PluginRelease(p) ==
  /\ holds[p] # <<>>
  /\ refCount' = [refCount EXCEPT ![Head(holds[p])] = @ - 1]
  /\ holds' = [holds EXCEPT ![p] = Tail(@)]
  /\ heldAs' = [heldAs EXCEPT ![p] = Tail(@)]
  /\ UNCHANGED <<pool, place, pImage, content, pending, sent>>

\* The thread ends without releasing the image.
Exit ==
  /\ place = "fetch" /\ place' = "exited"
  /\ UNCHANGED <<pool, pImage, refCount, content, pending, holds, sent, heldAs>>

Next ==
  \/ Receive \/ Published \/ Exit
  \/ \E p \in Plugins : CallPlugin(p) \/ PluginRelease(p)

Spec == Init /\ [][Next]_vars
-----------------------------------------------------------------------------
\* The places in the plugins at which an image is held, <<plugin, position>>.
Slots(b) == {s \in Plugins \X (1..Capacity) : /\ s[2] <= Len(holds[s[1]])
                                              /\ holds[s[1]][s[2]] = b}

References(b) == (IF pImage = b THEN 1 ELSE 0) + Cardinality(Slots(b))

\* Every variable has its type; reference counts are never negative and never
\* above the number of those who can have a reference.
TypeOK ==
  /\ place \in {"fetch", "publish", "crashed", "exited"}
  /\ pool \subseteq Buffers /\ pImage \in pool \cup {None}
  /\ refCount \in [Buffers -> 0..(1 + Capacity * Cardinality(Plugins))]
  /\ pending \subseteq Plugins
  /\ holds \in [Plugins -> Seq(pool)] /\ sent \in Arrays \cup {None}
  /\ \A p \in Plugins : Len(holds[p]) <= Capacity /\ Len(heldAs[p]) = Len(holds[p])

\* No image is lost to the pool and none is given back while someone uses it,
\* over any number of packets, published or not, taken or dropped by a plugin.
RefsMatch == \A b \in Buffers : refCount[b] = References(b)

\* What the task and the plugins have in hand is the array that was sent, in type,
\* attributes and data, and stays so while further packets arrive.
ImageIsAsSent ==
  /\ pImage # None => content[pImage] = sent
  /\ \A p \in Plugins : \A i \in 1..Len(holds[p]) : content[holds[p][i]] = heldAs[p][i]

\* KafkaDriver.cpp:331: "Make sure that there is actual a free NDArray".  There is,
\* if the memory is enough for one image more than the plugins can hold together,
\* because the last one is released first; with less the process may crash.
PoolSuffices ==
  Cardinality(pool) > Capacity * Cardinality(Plugins) => place # "crashed"
=============================================================================
