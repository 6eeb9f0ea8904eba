------------------------ MODULE DriverImages_proofs ------------------------
(***************************************************************************)
(* What an array goes through in the driver, for any number of images,     *)
(* plugins and arrays.  First the format: what CreateNDArray() writes is   *)
(* read back unchanged, and what the plugin writes never is.  Then the     *)
(* life of an image: its reference count is the number of those who have   *)
(* it, so that an image is written to only when nobody does, and there is  *)
(* a free one as long as the pool is larger than what the plugins hold.    *)
(***************************************************************************)
EXTENDS DriverImages, TLAPS, FiniteSetTheorems, FunctionTheorems,
        SequenceTheorems

\* The types for which both sides have a code.
DriverTypes == {"NDInt8", "NDUInt8", "NDInt16", "NDUInt16", "NDInt32", "NDUInt32",
                "NDFloat32", "NDFloat64"}
DriverAttrTypes ==
  {"NDAttrInt8", "NDAttrUInt8", "NDAttrInt16", "NDAttrUInt16", "NDAttrInt32",
   "NDAttrUInt32", "NDAttrFloat32", "NDAttrFloat64", "NDAttrString"}

\* No two types of the driver's schema have the same code.
LEMMA CodesDistinct ==
  ASSUME NEW m \in DOMAIN NDCode, NEW n \in DOMAIN NDCode, NDCode[m] = NDCode[n]
  PROVE  m = n
BY DEF NDCode

\* A code of the schema is read as the type that the table gives it.
LEMMA SwitchReads ==
  ASSUME NEW types, DOMAIN types \subseteq DOMAIN NDCode, NEW n \in DOMAIN types,
         NEW default
  PROVE  Switch(types, NDCode[n], default) = types[n]
<1>1. {m \in DOMAIN types : NDCode[m] = NDCode[n]} = {n}
  BY CodesDistinct
<1> QED
  BY <1>1 DEF Switch

\* The type code of an array is read as the type it was written for.
LEMMA TypeRoundTrip ==
  ASSUME NEW type \in DriverTypes
  PROVE  GetND_DType(NDCode[GetFB_DType[type]]) = type
<1>1. /\ GetFB_DType[type] \in DOMAIN ND_DTypes
      /\ ND_DTypes[GetFB_DType[type]] = type
  BY DEF DriverTypes, GetFB_DType, ND_DTypes, ND_DTypesWith
<1>2. DOMAIN ND_DTypes \subseteq DOMAIN NDCode
  BY DEF ND_DTypes, ND_DTypesWith, NDCode
<1> QED
  BY <1>1, <1>2, SwitchReads DEF GetND_DType

\* And so is that of an attribute.
LEMMA AttrTypeRoundTrip ==
  ASSUME NEW type \in DriverAttrTypes
  PROVE  GetND_AttrDType(NDCode[GetFB_AttrDType[type]]) = type
<1>1. /\ GetFB_AttrDType[type] \in DOMAIN ND_AttrDTypes
      /\ ND_AttrDTypes[GetFB_AttrDType[type]] = type
  BY DEF DriverAttrTypes, GetFB_AttrDType, ND_AttrDTypes
<1>2. DOMAIN ND_AttrDTypes \subseteq DOMAIN NDCode
  BY DEF ND_AttrDTypes, NDCode
<1> QED
  BY <1>1, <1>2, SwitchReads DEF GetND_AttrDType

\* The arrays that the driver's schema can carry, over any set of values.
DriverArrays(Values) ==
  [id : Values, time : Values, ts : Values, dims : Values, type : DriverTypes,
   data : Values,
   attrs : Seq([name : Values, type : DriverAttrTypes, value : Values])]

\* What CreateNDArray() writes, the driver reads back as it was, whatever the values
\* and the attributes are.
THEOREM FormatRoundTrip ==
  ASSUME NEW Values, NEW a \in DriverArrays(Values)
  PROVE  DeSerializeData(WriteNDArray(a)) = a
<1> DEFINE packet == WriteNDArray(a)
           Attrs  == [name : Values, type : DriverAttrTypes, value : Values]
<1>1. /\ packet[1] = Field("int32", a.id) /\ packet[2] = Field("double", a.time)
      /\ packet[3] = Field("epicsTimeStamp", a.ts) /\ packet[4] = Field("dims", a.dims)
      /\ packet[5] = Field("code", NDCode[GetFB_DType[a.type]])
      /\ packet[6] = Field("bytes", a.data)
      /\ packet[7] = Field("attributes", Attributes(a, NDCode))
  BY DEF WriteNDArray
<1>2. /\ Read(packet, 1, "int32") = a.id /\ Read(packet, 2, "double") = a.time
      /\ Read(packet, 3, "epicsTimeStamp") = a.ts /\ Read(packet, 4, "dims") = a.dims
      /\ Read(packet, 5, "code") = NDCode[GetFB_DType[a.type]]
      /\ Read(packet, 6, "bytes") = a.data
      /\ Read(packet, 7, "attributes") = Attributes(a, NDCode)
  <2> HIDE DEF packet
  <2> QED
    BY <1>1 DEF Read, Field
<1>3. GetND_DType(NDCode[GetFB_DType[a.type]]) = a.type
  BY TypeRoundTrip DEF DriverArrays
<1>4. a.attrs \in [1..Len(a.attrs) -> Attrs] /\ DOMAIN a.attrs = 1..Len(a.attrs)
  BY LenProperties DEF DriverArrays
<1>5. ASSUME NEW i \in DOMAIN a.attrs
      PROVE  [Attributes(a, NDCode)[i] EXCEPT !.type = GetND_AttrDType(@)] = a.attrs[i]
  <2>1. a.attrs[i] \in Attrs
    BY <1>4
  <2>2. Attributes(a, NDCode)[i]
          = [a.attrs[i] EXCEPT !.type = NDCode[GetFB_AttrDType[a.attrs[i].type]]]
    BY <1>4 DEF Attributes
  <2>3. GetND_AttrDType(NDCode[GetFB_AttrDType[a.attrs[i].type]]) = a.attrs[i].type
    BY <2>1, AttrTypeRoundTrip
  <2> QED
    BY <2>1, <2>2, <2>3
<1>6. DOMAIN Attributes(a, NDCode) = DOMAIN a.attrs
  BY <1>4 DEF Attributes
<1>7. [i \in DOMAIN Attributes(a, NDCode) |->
         [Attributes(a, NDCode)[i] EXCEPT !.type = GetND_AttrDType(@)]] = a.attrs
  BY <1>4, <1>5, <1>6
<1>8. DeSerializeData(packet)
        = [id |-> a.id, time |-> a.time, ts |-> a.ts, dims |-> a.dims, type |-> a.type,
           data |-> a.data, attrs |-> a.attrs]
  <2> HIDE DEF packet
  <2> QED
    BY <1>2, <1>3, <1>7 DEF DeSerializeData
<1> QED
  BY <1>8 DEF DriverArrays

\* What the plugin writes, the driver does not: the first three fields of the
\* schemas are of different kinds, whatever the array is.
THEOREM SchemasDiffer ==
  ASSUME NEW a
  PROVE  LET image == DeSerializeData(SerializeData(a)) IN
         image.id = Garbage /\ image.time = Garbage /\ image.ts = Garbage
<1> DEFINE packet == SerializeData(a)
<1>1. /\ packet[1] = Field("string", SourceName) /\ packet[2] = Field("int32", a.id)
      /\ packet[3] = Field("uint64", epicsTimeToNsec(a.ts))
  BY DEF SerializeData
<1>2. /\ Read(packet, 1, "int32") = Garbage /\ Read(packet, 2, "double") = Garbage
      /\ Read(packet, 3, "epicsTimeStamp") = Garbage
  <2> HIDE DEF packet
  <2> QED
    BY <1>1 DEF Read, Field
<1>3. /\ DeSerializeData(packet).id = Read(packet, 1, "int32")
      /\ DeSerializeData(packet).time = Read(packet, 2, "double")
      /\ DeSerializeData(packet).ts = Read(packet, 3, "epicsTimeStamp")
  BY DEF DeSerializeData
<1> QED
  BY <1>2, <1>3
-----------------------------------------------------------------------------
\* Types of everything but the reference counts.
HoldsOK ==
  /\ place \in {"fetch", "publish", "crashed", "exited"}
  /\ pool \subseteq Buffers /\ pImage \in pool \cup {None}
  /\ pending \subseteq Plugins /\ sent \in Arrays \cup {None}
  /\ holds \in [Plugins -> Seq(pool)] /\ heldAs \in [Plugins -> Seq(Arrays \cup {None})]
  /\ \A p \in Plugins : Len(holds[p]) <= Capacity /\ Len(heldAs[p]) = Len(holds[p])
  /\ place = "publish" => pImage # None

RefsIInv == HoldsOK /\ refCount \in [Buffers -> Int] /\ RefsMatch

\* The places in which plugins hold images are finitely many.
LEMMA SlotsFinite ==
  ASSUME NEW b
  PROVE  /\ IsFiniteSet(Slots(b)) /\ Cardinality(Slots(b)) \in Nat
         /\ Cardinality(Slots(b)) <= Capacity * Cardinality(Plugins)
         /\ IsFiniteSet(Plugins \X (1..Capacity)) /\ Cardinality(Plugins) \in Nat
         /\ Cardinality(Plugins \X (1..Capacity)) = Capacity * Cardinality(Plugins)
<1>1. IsFiniteSet(1..Capacity) /\ Cardinality(1..Capacity) = Capacity
  BY FS_Interval, ImagesAssumption
<1>2. /\ IsFiniteSet(Plugins \X (1..Capacity)) /\ Cardinality(Plugins) \in Nat
      /\ Cardinality(Plugins \X (1..Capacity)) = Cardinality(Plugins) * Capacity
  BY <1>1, FS_Product, FS_CardinalityType, ImagesAssumption
<1>3. Cardinality(Plugins) * Capacity = Capacity * Cardinality(Plugins)
  BY <1>2, ImagesAssumption
<1>4. Slots(b) \in SUBSET (Plugins \X (1..Capacity))
  BY DEF Slots
<1> QED
  BY <1>2, <1>3, <1>4, FS_Subset, FS_CardinalityType

\* A plugin that takes an image has it in one place more, and no other image.
LEMMA SlotsAdded ==
  ASSUME HoldsOK, NEW p \in Plugins, NEW image \in pool, NEW b,
         Len(holds[p]) < Capacity, holds' = [holds EXCEPT ![p] = Append(@, image)]
  PROVE  Cardinality(Slots(b)') = Cardinality(Slots(b)) + IF b = image THEN 1 ELSE 0
<1> DEFINE end == <<p, Len(holds[p]) + 1>>
<1>1. holds[p] \in Seq(pool) /\ Len(holds[p]) \in Nat
  BY LenProperties DEF HoldsOK
<1>2. /\ Len(holds'[p]) = Len(holds[p]) + 1
      /\ \A i \in 1..Len(holds[p]) : holds'[p][i] = holds[p][i]
      /\ holds'[p][Len(holds[p]) + 1] = image
      /\ \A q \in Plugins \ {p} : holds'[q] = holds[q]
  <2>1. holds'[p] = Append(holds[p], image)
    BY DEF HoldsOK
  <2> QED
    BY <1>1, <2>1, AppendProperties DEF HoldsOK
<1>3. end \in Plugins \X (1..Capacity) /\ end \notin Slots(b)
  BY <1>1, ImagesAssumption DEF Slots
<1>4. ASSUME NEW s \in (Plugins \X (1..Capacity)) \ {end}
      PROVE  s \in Slots(b)' <=> s \in Slots(b)
  <2>1. s = <<s[1], s[2]>> /\ s[1] \in Plugins /\ s[2] \in Nat \ {0}
    OBVIOUS
  <2>2. CASE s[1] = p
    BY <1>1, <1>2, <1>4, <2>1, <2>2 DEF Slots
  <2>3. CASE s[1] # p
    BY <1>2, <2>1, <2>3 DEF Slots
  <2> QED
    BY <2>2, <2>3
<1>5. end \in Slots(b)' <=> b = image
  BY <1>1, <1>2, <1>3 DEF Slots
<1>6. /\ b = image => Slots(b)' = Slots(b) \cup {end}
      /\ b # image => Slots(b)' = Slots(b)
  <2>1. Slots(b) \subseteq Plugins \X (1..Capacity)
        /\ Slots(b)' \subseteq Plugins \X (1..Capacity)
    BY DEF Slots
  <2> HIDE DEF end
  <2>2. ASSUME NEW s
        PROVE  s \in Slots(b)' <=> s \in Slots(b) \/ (b = image /\ s = end)
    BY <1>3, <1>4, <1>5, <2>1
  <2> QED
    BY <2>2
<1> HIDE DEF end
<1> QED
  BY <1>3, <1>6, SlotsFinite, FS_AddElement

\* A plugin that is done with its oldest image has it in one place less; the others
\* that it holds move up by one.
LEMMA SlotsRemoved ==
  ASSUME HoldsOK, NEW p \in Plugins, holds[p] # <<>>, NEW b,
         holds' = [holds EXCEPT ![p] = Tail(@)]
  PROVE  Cardinality(Slots(b)')
           = Cardinality(Slots(b)) - IF b = Head(holds[p]) THEN 1 ELSE 0
<1> DEFINE first == <<p, 1>>
           Rest  == Slots(b) \ {first}
           shift == [s \in Rest |-> IF s[1] = p THEN <<p, s[2] - 1>> ELSE s]
<1>1. /\ holds[p] \in Seq(pool) /\ Len(holds[p]) \in Nat \ {0}
      /\ Len(holds[p]) <= Capacity /\ Capacity \in Nat
  BY LenProperties, HeadTailProperties, ImagesAssumption DEF HoldsOK
<1>2. /\ Len(holds'[p]) = Len(holds[p]) - 1
      /\ \A i \in 1..Len(holds'[p]) : holds'[p][i] = holds[p][i + 1]
      /\ holds[p][1] = Head(holds[p])
      /\ \A q \in Plugins \ {p} : holds'[q] = holds[q]
  <2>1. holds'[p] = Tail(holds[p])
    BY DEF HoldsOK
  <2> QED
    BY <1>1, <2>1, HeadTailProperties DEF HoldsOK
<1>3. first \in Slots(b) <=> b = Head(holds[p])
  BY <1>1, <1>2 DEF Slots
<1>4. ASSUME NEW s \in Plugins \X (1..Capacity)
      PROVE  s = <<s[1], s[2]>> /\ s[1] \in Plugins /\ s[2] \in 1..Capacity
  OBVIOUS
<1>5. ASSUME NEW s \in Rest PROVE shift[s] \in Slots(b)'
  <2>1. CASE s[1] = p
    <3>1. s[2] \in 2..Len(holds[p]) /\ holds[p][s[2]] = b
      BY <1>1, <1>4, <2>1 DEF Slots
    <3>2. s[2] - 1 \in 1..Len(holds'[p]) /\ s[2] - 1 \in 1..Capacity
          /\ holds'[p][s[2] - 1] = b
      BY <1>1, <1>2, <3>1
    <3>3. shift[s] = <<p, s[2] - 1>>
      BY <2>1
    <3>4. <<p, s[2] - 1>> \in Slots(b)'
      BY <3>2 DEF Slots
    <3> QED
      BY <3>3, <3>4
  <2>2. CASE s[1] # p
    BY <1>2, <1>4, <2>2 DEF Slots
  <2> QED
    BY <2>1, <2>2
<1>6. ASSUME NEW s \in Rest, NEW u \in Rest, shift[s] = shift[u] PROVE s = u
  <2>1. /\ s = <<s[1], s[2]>> /\ u = <<u[1], u[2]>>
        /\ s[2] \in Int /\ u[2] \in Int
    BY <1>4 DEF Slots
  <2> QED
    BY <1>6, <2>1
<1>7. ASSUME NEW u \in Slots(b)' PROVE \E s \in Rest : shift[s] = u
  <2>1. /\ u = <<u[1], u[2]>> /\ u[1] \in Plugins /\ u[2] \in 1..Capacity
        /\ u[2] <= Len(holds'[u[1]]) /\ holds'[u[1]][u[2]] = b
    BY <1>4 DEF Slots
  <2>2. CASE u[1] = p
    <3>1. /\ u[2] + 1 \in 2..Len(holds[p]) /\ holds[p][u[2] + 1] = b
      BY <1>1, <1>2, <2>1, <2>2
    <3>2. <<p, u[2] + 1>> \in Rest
      BY <1>1, <3>1 DEF Slots
    <3>3. shift[<<p, u[2] + 1>>] = u
      BY <2>1, <2>2, <3>2
    <3> QED
      BY <3>2, <3>3
  <2>3. CASE u[1] # p
    <3>1. u \in Rest /\ shift[u] = u
      BY <1>2, <2>1, <2>3 DEF Slots
    <3> QED
      BY <3>1
  <2> QED
    BY <2>2, <2>3
<1>8. ExistsBijection(Rest, Slots(b)')
  <2>1. shift \in [Rest -> Slots(b)']
    BY <1>5
  <2>2. shift \in Bijection(Rest, Slots(b)')
    <3> HIDE DEF shift, Rest
    <3>1. /\ \A s, u \in Rest : shift[s] = shift[u] => s = u
          /\ \A u \in Slots(b)' : \E s \in Rest : shift[s] = u
      BY <1>6, <1>7
    <3> QED
      BY <2>1, <3>1, Fun_IsBij
  <2> QED
    BY <2>2 DEF ExistsBijection
<1>9. /\ IsFiniteSet(Rest)
      /\ Cardinality(Rest) = Cardinality(Slots(b)) - IF b = Head(holds[p]) THEN 1 ELSE 0
  <2> HIDE DEF first
  <2>1. IsFiniteSet(Slots(b)) /\ Cardinality(Slots(b)) \in Nat
    BY SlotsFinite
  <2>2. /\ IsFiniteSet(Slots(b) \ {first})
        /\ Cardinality(Slots(b) \ {first})
             = IF first \in Slots(b) THEN Cardinality(Slots(b)) - 1
               ELSE Cardinality(Slots(b))
    BY <2>1, FS_RemoveElement
  <2> QED
    BY <1>3, <2>1, <2>2
<1> HIDE DEF Rest
<1> QED
  BY <1>8, <1>9, FS_Bijection
-----------------------------------------------------------------------------
\* The count without the last packet's image is what the plugins hold.
LEMMA ReleasedCounts ==
  ASSUME RefsIInv
  PROVE  /\ Released \in [Buffers -> Int]
         /\ \A b \in Buffers : Released[b] = Cardinality(Slots(b))
<1>1. ASSUME NEW b \in Buffers
      PROVE  /\ refCount[b] = (IF pImage = b THEN 1 ELSE 0) + Cardinality(Slots(b))
             /\ Cardinality(Slots(b)) \in Nat
  BY SlotsFinite DEF RefsIInv, RefsMatch, References
<1>2. Released \in [Buffers -> Int]
  <2>1. CASE pImage = None
    BY <2>1 DEF Released, RefsIInv
  <2>2. CASE pImage \in Buffers
    BY <2>2, ImagesAssumption DEF Released, RefsIInv
  <2> QED
    BY <2>1, <2>2 DEF RefsIInv, HoldsOK
<1>3. ASSUME NEW b \in Buffers
      PROVE  Released[b] = refCount[b] - IF pImage = b THEN 1 ELSE 0
  BY ImagesAssumption DEF Released, RefsIInv
<1> QED
  BY <1>1, <1>2, <1>3

\* An image that is free is held by no plugin.
LEMMA FreeIsUnheld ==
  ASSUME RefsIInv, NEW b \in Free(Released)
  PROVE  /\ b \in pool /\ b \in Buffers
         /\ \A p \in Plugins : \A i \in 1..Len(holds[p]) : holds[p][i] # b
<1>1. b \in pool /\ b \in Buffers /\ Slots(b) = {}
  BY ReleasedCounts, SlotsFinite, FS_EmptySet DEF Free, RefsIInv, HoldsOK
<1>2. ASSUME NEW p \in Plugins, NEW i \in 1..Len(holds[p])
      PROVE  holds[p][i] # b
  <2>1. i \in 1..Capacity
    BY LenProperties, ImagesAssumption DEF RefsIInv, HoldsOK
  <2>2. <<p, i>> \notin Slots(b)
    BY <1>1
  <2> QED
    BY <2>1, <2>2 DEF Slots
<1> QED
  BY <1>1, <1>2

\* A packet gets an image that nobody has, and the last one's is given back.
LEMMA ReceiveCounts ==
  ASSUME RefsIInv, Receive
  PROVE  RefsIInv'
<1> USE DEF RefsIInv, HoldsOK
<1>1. \A b : Slots(b)' = Slots(b)
  BY DEF Receive, ReceiveInto, Slots
<1>2. CASE UNCHANGED <<pImage, refCount, content, pending, holds, sent, heldAs>>
            /\ place' = "crashed"
  BY <1>1, <1>2 DEF Receive, ReceiveInto, RefsMatch, References
<1>3. ASSUME NEW b \in Free(Released), NEW a \in Arrays,
             pImage' = b, refCount' = [Released EXCEPT ![b] = @ + 1], sent' = a,
             \/ place' = "publish" /\ pending' = Plugins
             \/ UNCHANGED <<place, pending>>,
             UNCHANGED <<pool, holds, heldAs>>
      PROVE  RefsIInv'
  <2>1. b \in pool /\ b \in Buffers
    BY FreeIsUnheld
  <2>2. b # None
    BY <2>1, ImagesAssumption
  <2>3. HoldsOK'
    BY <1>3, <2>1, <2>2
  <2>4. refCount' \in [Buffers -> Int]
    BY <1>3, <2>1, ReleasedCounts
  <2>5. ASSUME NEW c \in Buffers PROVE refCount'[c] = References(c)'
    <3>1. refCount'[c] = Cardinality(Slots(c)) + IF c = b THEN 1 ELSE 0
      BY <1>3, <2>1, ReleasedCounts, SlotsFinite
    <3>2. References(c)' = (IF b = c THEN 1 ELSE 0) + Cardinality(Slots(c))
      BY <1>1, <1>3 DEF References
    <3> QED
      BY <3>1, <3>2, SlotsFinite
  <2> QED
    BY <2>3, <2>4, <2>5 DEF RefsMatch
<1> QED
  BY <1>2, <1>3 DEF Receive, ReceiveInto

\* A plugin that takes or drops an image, and one that is done with one.
LEMMA PluginCounts ==
  ASSUME RefsIInv, NEW p \in Plugins, CallPlugin(p) \/ PluginRelease(p)
  PROVE  RefsIInv'
<1>1. \A b \in Buffers : /\ refCount[b] = (IF pImage = b THEN 1 ELSE 0) + Cardinality(Slots(b))
                         /\ Cardinality(Slots(b)) \in Nat /\ refCount[b] \in Int
  BY SlotsFinite DEF RefsIInv, RefsMatch, References
<1>2. CASE CallPlugin(p) /\ Len(holds[p]) < Capacity
  <2>1. /\ pImage \in pool /\ pImage \in Buffers /\ pImage' = pImage
        /\ holds' = [holds EXCEPT ![p] = Append(@, pImage)]
        /\ heldAs' = [heldAs EXCEPT ![p] = Append(@, sent)]
        /\ refCount' = [refCount EXCEPT ![pImage] = @ + 1]
    BY <1>2 DEF CallPlugin, RefsIInv, HoldsOK
  <2>2. ASSUME NEW b \in Buffers
        PROVE  Cardinality(Slots(b)') = Cardinality(Slots(b)) + IF b = pImage THEN 1 ELSE 0
    BY <1>2, <2>1, SlotsAdded DEF RefsIInv
  <2>3. HoldsOK'
    <3>1. /\ Append(holds[p], pImage) \in Seq(pool)
          /\ Len(Append(holds[p], pImage)) = Len(holds[p]) + 1
          /\ Append(heldAs[p], sent) \in Seq(Arrays \cup {None})
          /\ Len(Append(heldAs[p], sent)) = Len(heldAs[p]) + 1
          /\ Len(holds[p]) \in Nat
      BY <2>1, AppendProperties, LenProperties DEF RefsIInv, HoldsOK
    <3> QED
      BY <1>2, <2>1, <3>1, ImagesAssumption DEF CallPlugin, RefsIInv, HoldsOK
  <2>4. refCount' \in [Buffers -> Int]
    BY <2>1 DEF RefsIInv
  <2>5. \A b \in Buffers : refCount'[b] = References(b)'
    BY <1>1, <2>1, <2>2 DEF References, RefsIInv
  <2> QED
    BY <2>3, <2>4, <2>5 DEF RefsIInv, RefsMatch
<1>3. CASE CallPlugin(p) /\ ~(Len(holds[p]) < Capacity)
  BY <1>3 DEF CallPlugin, RefsIInv, HoldsOK, RefsMatch, References, Slots
<1>4. CASE PluginRelease(p)
  <2>1. /\ holds[p] # <<>> /\ pImage' = pImage
        /\ holds' = [holds EXCEPT ![p] = Tail(@)]
        /\ heldAs' = [heldAs EXCEPT ![p] = Tail(@)]
        /\ refCount' = [refCount EXCEPT ![Head(holds[p])] = @ - 1]
    BY <1>4 DEF PluginRelease
  <2>2. /\ Tail(holds[p]) \in Seq(pool) /\ Len(Tail(holds[p])) = Len(holds[p]) - 1
        /\ Tail(heldAs[p]) \in Seq(Arrays \cup {None})
        /\ Len(Tail(heldAs[p])) = Len(heldAs[p]) - 1
        /\ Head(holds[p]) \in Buffers /\ Len(holds[p]) \in Nat
    <3>1. holds[p] \in Seq(pool) /\ heldAs[p] \in Seq(Arrays \cup {None})
          /\ Len(heldAs[p]) = Len(holds[p])
      BY DEF RefsIInv, HoldsOK
    <3>2. heldAs[p] # <<>>
      BY <2>1, <3>1, EmptySeq, LenProperties
    <3> QED
      BY <2>1, <3>1, <3>2, HeadTailProperties, LenProperties DEF RefsIInv, HoldsOK
  <2>3. HoldsOK'
    <3>1. /\ holds' \in [Plugins -> Seq(pool)]
          /\ heldAs' \in [Plugins -> Seq(Arrays \cup {None})]
          /\ \A q \in Plugins : holds'[q] = IF q = p THEN Tail(holds[p]) ELSE holds[q]
          /\ \A q \in Plugins : heldAs'[q] = IF q = p THEN Tail(heldAs[p]) ELSE heldAs[q]
      BY <2>1, <2>2 DEF RefsIInv, HoldsOK
    <3>2. ASSUME NEW q \in Plugins
          PROVE  Len(holds'[q]) <= Capacity /\ Len(heldAs'[q]) = Len(holds'[q])
      <4>1. Len(holds[q]) <= Capacity /\ Len(heldAs[q]) = Len(holds[q])
            /\ Len(holds[p]) <= Capacity /\ Len(heldAs[p]) = Len(holds[p])
        BY DEF RefsIInv, HoldsOK
      <4>2. CASE q = p
        BY <2>2, <3>1, <4>1, <4>2, ImagesAssumption
      <4>3. CASE q # p
        BY <3>1, <4>1, <4>3
      <4> QED
        BY <4>2, <4>3
    <3> QED
      BY <1>4, <3>1, <3>2 DEF PluginRelease, RefsIInv, HoldsOK
  <2>4. ASSUME NEW b \in Buffers
        PROVE  Cardinality(Slots(b)')
                 = Cardinality(Slots(b)) - IF b = Head(holds[p]) THEN 1 ELSE 0
    BY <2>1, SlotsRemoved DEF RefsIInv
  <2>5. refCount' \in [Buffers -> Int]
    BY <2>1, <2>2 DEF RefsIInv
  <2>6. \A b \in Buffers : refCount'[b] = References(b)'
    BY <1>1, <2>1, <2>2, <2>4 DEF References, RefsIInv
  <2> QED
    BY <2>3, <2>5, <2>6 DEF RefsIInv, RefsMatch
<1> QED
  BY <1>2, <1>3, <1>4

\* The reference counts are right in every reachable state.
LEMMA RefsInvariant == Spec => []RefsIInv
<1>1. Init => RefsIInv
  <2> SUFFICES ASSUME Init PROVE RefsIInv
    OBVIOUS
  <2>1. <<>> \in Seq(pool) /\ <<>> \in Seq(Arrays \cup {None}) /\ Len(<<>>) = 0
    BY EmptySeq
  <2>2. HoldsOK
    BY <2>1, ImagesAssumption DEF Init, HoldsOK
  <2>3. \A b \in Buffers : Slots(b) = {} /\ pImage # b
    BY <2>1, ImagesAssumption DEF Init, Slots
  <2>4. \A b \in Buffers : References(b) = 0
    BY <2>3, FS_EmptySet DEF References
  <2> QED
    BY <2>2, <2>4 DEF Init, RefsIInv, RefsMatch
<1>2. RefsIInv /\ [Next]_vars => RefsIInv'
  <2> SUFFICES ASSUME RefsIInv, [Next]_vars PROVE RefsIInv'
    OBVIOUS
  <2>1. CASE Published \/ Exit \/ UNCHANGED vars
    <3>1. /\ UNCHANGED <<pool, pImage, refCount, content, pending, holds, sent, heldAs>>
          /\ place' \in {"fetch", "exited", place}
      BY <2>1 DEF Published, Exit, vars
    <3>2. HoldsOK'
      BY <3>1 DEF RefsIInv, HoldsOK
    <3>3. \A b : References(b)' = References(b)
      BY <3>1 DEF References, Slots
    <3> QED
      BY <3>1, <3>2, <3>3 DEF RefsIInv, RefsMatch
  <2> QED
    BY <2>1, ReceiveCounts, PluginCounts DEF Next
<1> QED
  BY <1>1, <1>2, PTL DEF Spec

\* No image is lost to the pool and none is given back while someone uses it, over
\* any number of packets and plugins, taken or dropped.
THEOREM ImagesCounted == Spec => []RefsMatch
BY RefsInvariant, PTL DEF RefsIInv

\* Every variable has its type: the count is never negative, and never above the
\* number of those who can have a reference.
THEOREM ImagesTyped == Spec => []TypeOK
<1>1. RefsIInv => TypeOK
  <2> SUFFICES ASSUME RefsIInv PROVE TypeOK
    OBVIOUS
  <2>1. ASSUME NEW b \in Buffers
        PROVE  refCount[b] \in 0..(1 + Capacity * Cardinality(Plugins))
    <3> DEFINE most == Capacity * Cardinality(Plugins)
    <3>1. /\ Cardinality(Slots(b)) \in Nat /\ most \in Nat
          /\ Cardinality(Slots(b)) <= most
      BY SlotsFinite, ImagesAssumption
    <3>2. refCount[b] = (IF pImage = b THEN 1 ELSE 0) + Cardinality(Slots(b))
      BY DEF RefsIInv, RefsMatch, References
    <3> HIDE DEF most
    <3>3. refCount[b] \in 0..(1 + most)
      BY <3>1, <3>2
    <3> QED
      BY <3>3 DEF most
  <2> QED
    BY <2>1 DEF RefsIInv, HoldsOK, TypeOK
<1> QED
  BY <1>1, RefsInvariant, PTL
-----------------------------------------------------------------------------
\* If no image is free, each is in a place of its own in some plugin's hands.
LEMMA AllHeld ==
  ASSUME RefsIInv, Free(Released) = {}
  PROVE  Cardinality(pool) <= Capacity * Cardinality(Plugins)
<1> DEFINE placeOf == [b \in pool |-> CHOOSE s \in Plugins \X (1..Capacity) : s \in Slots(b)]
<1>1. ASSUME NEW b \in pool
      PROVE  placeOf[b] \in Plugins \X (1..Capacity) /\ placeOf[b] \in Slots(b)
  <2>1. b \in Buffers /\ Released[b] # 0
    BY DEF Free, RefsIInv, HoldsOK
  <2>2. Slots(b) # {}
    BY <2>1, ReleasedCounts, FS_EmptySet
  <2>3. \E s \in Plugins \X (1..Capacity) : s \in Slots(b)
    BY <2>2 DEF Slots
  <2> QED
    BY <2>3
<1>2. ASSUME NEW b \in pool, NEW c \in pool, placeOf[b] = placeOf[c] PROVE b = c
  BY <1>1, <1>2 DEF Slots
<1>3. placeOf \in [pool -> Plugins \X (1..Capacity)]
  BY <1>1
<1> HIDE DEF placeOf
<1>4. \A b, c \in pool : placeOf[b] = placeOf[c] => b = c
  BY <1>2
<1>5. placeOf \in Injection(pool, Plugins \X (1..Capacity))
  BY <1>3, <1>4, Fun_IsInj
<1>6. IsFiniteSet(Plugins \X (1..Capacity))
      /\ Cardinality(Plugins \X (1..Capacity)) = Capacity * Cardinality(Plugins)
  BY SlotsFinite
<1> QED
  BY <1>5, <1>6, FS_Injection

\* With memory for one image more than the plugins can hold together, there is
\* always an image for the next packet: the process does not use a null pointer.
THEOREM PoolIsEnough == Spec => []PoolSuffices
<1>1. Init => PoolSuffices
  BY DEF Init, PoolSuffices
<1>2. RefsIInv /\ PoolSuffices /\ [Next]_vars => PoolSuffices'
  <2> SUFFICES ASSUME RefsIInv, PoolSuffices, [Next]_vars PROVE PoolSuffices'
    OBVIOUS
  <2> DEFINE most == Capacity * Cardinality(Plugins)
  <2>1. Cardinality(pool) \in Nat /\ most \in Nat
    <3>1. IsFiniteSet(pool)
      BY FS_Subset, ImagesAssumption DEF RefsIInv, HoldsOK
    <3> QED
      BY <3>1, FS_CardinalityType, SlotsFinite, ImagesAssumption
  <2>2. UNCHANGED pool
    BY DEF Next, Receive, ReceiveInto, Published, Exit, CallPlugin, PluginRelease, vars
  <2>3. CASE Receive
    <3>1. CASE Free(Released) = {}
      <4>1. Cardinality(pool) <= most
        BY <3>1, AllHeld
      <4> HIDE DEF most
      <4>2. ~(Cardinality(pool) > most)
        BY <2>1, <4>1
      <4> QED
        BY <2>2, <4>2 DEF PoolSuffices, most
    <3>2. CASE Free(Released) # {}
      BY <2>3, <3>2 DEF Receive, ReceiveInto, PoolSuffices
    <3> QED
      BY <3>1, <3>2
  <2>4. CASE \/ Published \/ Exit \/ UNCHANGED vars
             \/ \E p \in Plugins : CallPlugin(p) \/ PluginRelease(p)
    BY <2>4 DEF Published, Exit, CallPlugin, PluginRelease, vars, PoolSuffices
  <2> QED
    BY <2>3, <2>4 DEF Next
<1> QED
  BY <1>1, <1>2, RefsInvariant, PTL DEF Spec
-----------------------------------------------------------------------------
\* If the format carries every array that is sent, then what the task and the
\* plugins have in hand is what was sent, and stays so while further packets come.
THEOREM ImagesAreAsSent ==
  ASSUME \A a \in Arrays : DeSerializeData(Encode(a)) = a
  PROVE  Spec => []ImageIsAsSent
<1> DEFINE IInv == ImageIsAsSent /\ DOMAIN content = Buffers
<1>1. Init => IInv
  BY EmptySeq DEF Init, ImageIsAsSent
<1>2. RefsIInv /\ IInv /\ [Next]_vars => IInv'
  <2> SUFFICES ASSUME RefsIInv, IInv, [Next]_vars PROVE IInv'
    OBVIOUS
  <2> USE DEF ImageIsAsSent
  <2>1. CASE Receive
    <3>1. ASSUME NEW b \in Free(Released), NEW a \in Arrays,
                 pImage' = b, sent' = a, UNCHANGED <<holds, heldAs>>,
                 content' = [content EXCEPT ![b] = DeSerializeData(Encode(a))]
          PROVE  IInv'
      <4>1. /\ b \in Buffers
            /\ \A p \in Plugins : \A i \in 1..Len(holds[p]) : holds[p][i] # b
        BY FreeIsUnheld
      <4>2. content'[b] = a /\ \A c \in Buffers \ {b} : content'[c] = content[c]
        BY <3>1, <4>1
      <4>3. \A p \in Plugins : \A i \in 1..Len(holds[p]) : holds[p][i] \in Buffers
        BY LenProperties DEF RefsIInv, HoldsOK
      <4> QED
        BY <3>1, <4>1, <4>2, <4>3
    <3> QED
      BY <2>1, <3>1 DEF Receive, ReceiveInto
  <2>2. ASSUME NEW p \in Plugins, CallPlugin(p) PROVE IInv'
    <3>1. CASE Len(holds[p]) < Capacity
      <4>1. /\ holds[p] \in Seq(pool) /\ heldAs[p] \in Seq(Arrays \cup {None})
            /\ Len(heldAs[p]) = Len(holds[p]) /\ Len(holds[p]) \in Nat
            /\ pImage \in pool /\ pImage # None /\ sent \in Arrays \cup {None}
        BY <2>2, LenProperties, ImagesAssumption DEF CallPlugin, RefsIInv, HoldsOK
      <4>2. /\ \A q \in Plugins : holds'[q] = IF q = p THEN Append(holds[p], pImage) ELSE holds[q]
            /\ \A q \in Plugins : heldAs'[q] = IF q = p THEN Append(heldAs[p], sent) ELSE heldAs[q]
            /\ UNCHANGED <<content, pImage, sent>>
        BY <2>2, <3>1 DEF CallPlugin, RefsIInv, HoldsOK
      <4>3. ASSUME NEW i \in 1..Len(Append(holds[p], pImage))
            PROVE  content[Append(holds[p], pImage)[i]] = Append(heldAs[p], sent)[i]
        BY <4>1, AppendProperties
      <4>4. ASSUME NEW q \in Plugins, NEW i \in 1..Len(holds'[q])
            PROVE  content'[holds'[q][i]] = heldAs'[q][i]
        <5>1. CASE q = p
          BY <4>2, <4>3, <4>4, <5>1
        <5>2. CASE q # p
          BY <4>2, <4>4, <5>2
        <5> QED
          BY <5>1, <5>2
      <4> QED
        BY <4>1, <4>2, <4>4
    <3>2. CASE ~(Len(holds[p]) < Capacity)
      BY <2>2, <3>2 DEF CallPlugin
    <3> QED
      BY <3>1, <3>2
  <2>3. ASSUME NEW p \in Plugins, PluginRelease(p) PROVE IInv'
    <3>1. /\ holds[p] \in Seq(pool) /\ heldAs[p] \in Seq(Arrays \cup {None})
          /\ Len(heldAs[p]) = Len(holds[p]) /\ Len(holds[p]) \in Nat
          /\ holds[p] # <<>> /\ heldAs[p] # <<>>
      BY <2>3, LenProperties, EmptySeq DEF PluginRelease, RefsIInv, HoldsOK
    <3>2. /\ \A q \in Plugins : holds'[q] = IF q = p THEN Tail(holds[p]) ELSE holds[q]
          /\ \A q \in Plugins : heldAs'[q] = IF q = p THEN Tail(heldAs[p]) ELSE heldAs[q]
          /\ UNCHANGED <<content, pImage, sent>>
      BY <2>3 DEF PluginRelease, RefsIInv, HoldsOK
    <3>3. ASSUME NEW i \in 1..Len(Tail(holds[p]))
          PROVE  content[Tail(holds[p])[i]] = Tail(heldAs[p])[i]
      <4>1. /\ Len(Tail(holds[p])) = Len(holds[p]) - 1
            /\ i + 1 \in 1..Len(holds[p])
            /\ Tail(holds[p])[i] = holds[p][i + 1] /\ Tail(heldAs[p])[i] = heldAs[p][i + 1]
        BY <3>1, HeadTailProperties
      <4> QED
        BY <4>1
    <3>4. ASSUME NEW q \in Plugins, NEW i \in 1..Len(holds'[q])
          PROVE  content'[holds'[q][i]] = heldAs'[q][i]
      <4>1. CASE q = p
        BY <3>2, <3>3, <3>4, <4>1
      <4>2. CASE q # p
        BY <3>2, <3>4, <4>2
      <4> QED
        BY <4>1, <4>2
    <3> QED
      BY <3>1, <3>2, <3>4
  <2>4. CASE Published \/ Exit \/ UNCHANGED vars
    BY <2>4 DEF Published, Exit, vars
  <2> QED
    BY <2>1, <2>2, <2>3, <2>4 DEF Next
<1> QED
  BY <1>1, <1>2, RefsInvariant, PTL DEF Spec

\* That is so for all arrays of the types the driver knows, sent in its own schema.
THEOREM OwnImagesAreAsSent ==
  ASSUME NEW Values, Arrays \subseteq DriverArrays(Values),
         \A a \in Arrays : Encode(a) = WriteNDArray(a)
  PROVE  Spec => []ImageIsAsSent
<1>1. \A a \in Arrays : DeSerializeData(Encode(a)) = a
  BY FormatRoundTrip
<1> QED
  BY <1>1, ImagesAreAsSent
=============================================================================
