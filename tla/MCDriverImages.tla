---------------------------- MODULE MCDriverImages ----------------------------
(* Two plugins that hold one image each, memory for one to three images, and   *)
(* arrays of three types, one of which has attributes.                         *)
EXTENDS DriverImages, TLC
CONSTANTS p1, p2, i1, i2, i3
const_Buffers == {i1, i2, i3}
const_Plugins == {p1, p2}

Plain(id, type) ==
  [id |-> id, time |-> 7, ts |-> [sec |-> id, nsec |-> 2], dims |-> <<2, id>>,
   type |-> type, data |-> <<"data", id>>, attrs |-> <<>>]
Attribute(name, type) == [name |-> name, type |-> type, value |-> 5]

const_Arrays ==
  {Plain(1, "NDUInt32"), Plain(2, "NDFloat64"),
   [Plain(3, "NDInt8") EXCEPT !.attrs =
      <<Attribute("gain", "NDAttrFloat32"), Attribute("name", "NDAttrString")>>]}

const_Own(a)    == WriteNDArray(a)
const_Plugin(a) == SerializeData(a)
Symmetry == Permutations(const_Buffers) \cup Permutations(const_Plugins)
=============================================================================
