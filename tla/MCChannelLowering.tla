-------------------------- MODULE MCChannelLowering --------------------------
(* Element types of a channel, with sizes in bytes as on a 64-bit target *)
(* and values within the model's quarter widths.                          *)
EXTENDS ChannelLowering

Int8    == [size |-> 1, aggregate |-> FALSE, kind |-> "int"]
Uint8   == [size |-> 1, aggregate |-> FALSE, kind |-> "uint"]
Int32   == [size |-> 4, aggregate |-> FALSE, kind |-> "int"]
Int64   == [size |-> 8, aggregate |-> FALSE, kind |-> "int"]
Bool    == [size |-> 1, aggregate |-> FALSE, kind |-> "bool"]
Ptr     == [size |-> 8, aggregate |-> FALSE, kind |-> "ptr"]
Float32 == [size |-> 4, aggregate |-> FALSE, kind |-> "float"]
Float64 == [size |-> 8, aggregate |-> FALSE, kind |-> "float"]
Complex64 == [size |-> 8, aggregate |-> FALSE, kind |-> "complex"]
Array2  == [size |-> 8, aggregate |-> TRUE, kind |-> "array"]
Struct3 == [size |-> 24, aggregate |-> TRUE, kind |-> "struct"]

IntElems   == {Int8, Uint8, Int32, Int64, Bool, Ptr, Array2, Struct3}
FloatElems == {Float32, Float64, Complex64}

MCVals ==
  [e \in IntElems \cup FloatElems |->
     CASE e = Int8    -> {-2, -1, 1}
       [] e = Uint8   -> {0, 3}
       [] e = Int32   -> {-128, 127}
       [] e = Int64   -> {-32768, -1, 32767}
       [] e = Bool    -> {0, 1}
       [] e = Ptr     -> {0, 40000}
       [] e = Float32 -> {<<5, 2>>, <<3, 1>>}
       [] e = Float64 -> {<<1, 2>>, <<-7, 4>>}
       [] e = Complex64 -> {<<<<3, 1>>, <<1, 1>>>>}
       [] e = Array2  -> {"a1", "a2"}
       [] e = Struct3 -> {"s1", "s2"}]

AllModes == [blocking : BOOLEAN, sel : BOOLEAN]
=============================================================================
