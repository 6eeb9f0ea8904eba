---------------------------- MODULE NDArrayFormat ----------------------------
(***************************************************************************)
(* How an NDArray travels: SerializeData() of ADPluginKafka writes it in   *)
(* the ADArray schema, DeSerializeData() of ADKafka reads it in the        *)
(* NDArray schema.  Both are flatbuffer tables, that is to say sequences   *)
(* of fields, each at the offset its schema numbers it with (4, 6, 8...);  *)
(* reading a field does not check what was written there.                  *)
(*                                                                         *)
(* An array is [id, time, ts, dims, type, data, attrs]: time its double    *)
(* timeStamp, ts its epicsTS, data the bytes of pData, and attrs the       *)
(* sequence of its attributes, each [name, type, value].                   *)
(***************************************************************************)
EXTENDS Integers, Sequences

CONSTANTS SourceName,   \* the name the plugin gives its source
          EpochDiff,    \* seconds from 1970 to 1990, scaled down
          NSecPerSec,   \* nanoseconds in a second, scaled down
          Garbage       \* what a field of another kind is read as

\* The data type enumerations of the two schemas: NDArray has no 64-bit integers.
ADCode == [int8 |-> 0, uint8 |-> 1, int16 |-> 2, uint16 |-> 3, int32 |-> 4,
           uint32 |-> 5, int64 |-> 6, uint64 |-> 7, float32 |-> 8, float64 |-> 9,
           c_string |-> 10]
NDCode == [int8 |-> 0, uint8 |-> 1, int16 |-> 2, uint16 |-> 3, int32 |-> 4,
           uint32 |-> 5, float32 |-> 6, float64 |-> 7, c_string |-> 8]

Field(kind, value) == [kind |-> kind, value |-> value]
-----------------------------------------------------------------------------
(* The plugin                                                              *)

GetFB_DType == [NDInt8 |-> "int8", NDUInt8 |-> "uint8", NDInt16 |-> "int16",
  NDUInt16 |-> "uint16", NDInt32 |-> "int32", NDUInt32 |-> "uint32",
  NDInt64 |-> "int64", NDUInt64 |-> "uint64", NDFloat32 |-> "float32",
  NDFloat64 |-> "float64"]

GetFB_AttrDType == [NDAttrInt8 |-> "int8", NDAttrUInt8 |-> "uint8",
  NDAttrInt16 |-> "int16", NDAttrUInt16 |-> "uint16", NDAttrInt32 |-> "int32",
  NDAttrUInt32 |-> "uint32", NDAttrInt64 |-> "int64", NDAttrUInt64 |-> "uint64",
  NDAttrFloat32 |-> "float32", NDAttrFloat64 |-> "float64",
  NDAttrString |-> "c_string"]

epicsTimeToNsec(ts) == (ts.sec + EpochDiff) * NSecPerSec + ts.nsec

\* An attribute table has the same fields in both schemas.
Attributes(a, code) ==
  [i \in DOMAIN a.attrs |-> [a.attrs[i] EXCEPT !.type = code[GetFB_AttrDType[@]]]]

SerializeData(a) ==
  << Field("string", SourceName), Field("int32", a.id),
     Field("uint64", epicsTimeToNsec(a.ts)), Field("dims", a.dims),
     Field("code", ADCode[GetFB_DType[a.type]]), Field("bytes", a.data),
     Field("attributes", Attributes(a, ADCode)) >>

\* CreateNDArray() of the driver's schema, with an array as the driver knows it.
WriteNDArray(a) ==
  << Field("int32", a.id), Field("double", a.time), Field("epicsTimeStamp", a.ts),
     Field("dims", a.dims), Field("code", NDCode[GetFB_DType[a.type]]),
     Field("bytes", a.data), Field("attributes", Attributes(a, NDCode)) >>
-----------------------------------------------------------------------------
(* The driver                                                              *)

Read(packet, field, kind) ==
  IF packet[field].kind = kind THEN packet[field].value ELSE Garbage

ND_DTypesWith(uint32) == [int8 |-> "NDInt8", uint8 |-> "NDUInt8", int16 |-> "NDInt16",
  uint16 |-> "NDUInt16", int32 |-> "NDInt32", uint32 |-> uint32,
  float32 |-> "NDFloat32", float64 |-> "NDFloat64"]

\* Mutant: a type that is copied and not adapted.
ND_DTypesSigned == ND_DTypesWith("NDInt32")

ND_DTypes == ND_DTypesWith("NDUInt32")

ND_AttrDTypes == [int8 |-> "NDAttrInt8", uint8 |-> "NDAttrUInt8",
  int16 |-> "NDAttrInt16", uint16 |-> "NDAttrUInt16", int32 |-> "NDAttrInt32",
  uint32 |-> "NDAttrUInt32", float32 |-> "NDAttrFloat32",
  float64 |-> "NDAttrFloat64", c_string |-> "NDAttrString"]

\* The switch over a code; one that is not among its cases is taken for default
\* where assertions are off (where they are on, the process stops).
Switch(types, code, default) ==
  LET names == {n \in DOMAIN types : NDCode[n] = code}
  IN IF names = {} THEN default ELSE types[CHOOSE n \in names : TRUE]

GetND_DType(code)     == Switch(ND_DTypes, code, "NDInt8")
GetND_AttrDType(code) == Switch(ND_AttrDTypes, code, "NDAttrInt8")

DeSerializeData(packet) ==
  [id    |-> Read(packet, 1, "int32"),
   time  |-> Read(packet, 2, "double"),
   ts    |-> Read(packet, 3, "epicsTimeStamp"),
   dims  |-> Read(packet, 4, "dims"),
   type  |-> GetND_DType(Read(packet, 5, "code")),
   data  |-> Read(packet, 6, "bytes"),
   attrs |-> LET attrs == Read(packet, 7, "attributes") IN
             [i \in DOMAIN attrs |->
                [attrs[i] EXCEPT !.type = GetND_AttrDType(@)]]]
=============================================================================
