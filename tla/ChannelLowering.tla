--------------------------- MODULE ChannelLowering ---------------------------
(***************************************************************************)
(* Lowering of channel send and receive (Gogo::send_on_channel and        *)
(* Gogo::receive_from_channel), composed with a buffered channel of the  *)
(* runtime that carries what the lowered calls pass.                      *)
(*                                                                         *)
(* A value whose type is at most 8 bytes and not an aggregate goes by the *)
(* "small" protocol: the sender converts it to the uint64 carrier with    *)
(* convert_to_integer, and the receiver converts the uint64 result to the *)
(* unsigned integer type of the element's mode size and then to the       *)
(* element type with fold_convert.  Any other value goes by the "big"     *)
(* protocol: its bytes are copied through a pointer.                      *)
(*                                                                         *)
(* Widths: TLC's integers are 32-bit, so every width is a quarter of the  *)
(* real one: the carrier has CarrierW = 16 bits and an element of n bytes *)
(* has 2*n bits.  The conversions are the same at every width.            *)
(* Floating-point values are rationals <<num, den>>.                       *)
(***************************************************************************)
EXTENDS Integers, Sequences, FiniteSets

CONSTANTS
  Elems,        \* element types: [size, aggregate, kind]
  Vals,         \* Vals[e]: the values of element type e a program sends
  Modes,        \* the (blocking, for_select) pairs of the send sites
  Cap,          \* buffer capacity of the channel (runtime)
  MaxSends,     \* bound on the sends of a behaviour
  Garbage       \* a value read in the representation of the other protocol

ASSUME Cap \in Nat \ {0} /\ MaxSends \in Nat
ASSUME Modes \subseteq [blocking : BOOLEAN, sel : BOOLEAN]

CarrierW == 16
W(e) == 2 * e.size

VARIABLES
  elem,         \* the element type of the channel
  buf,          \* the runtime's buffer of transfers
  sent,         \* the values whose send completed, in order
  got,          \* the values the receiver obtained, in order
  nsend,        \* sends performed
  ice           \* the compiler stopped on an internal assertion

vars == <<elem, buf, sent, got, nsend, ice>>

-----------------------------------------------------------------------------
\* Rational helpers for float and complex values.
Trunc(r) == IF r[1] >= 0 THEN r[1] \div r[2] ELSE -((-r[1]) \div r[2])
Rat(n) == <<n, 1>>

\* Mutant: the receiver takes the small protocol only below 8 bytes.
RecvIsSmallStrict(e) == e.size < 8 /\ ~e.aggregate

(* int_size_in_bytes (type) <= 8 && !AGGREGATE_TYPE_P (type)             *)
IsSmall(e) == e.size <= 8 /\ ~e.aggregate
RecvIsSmall(e) == IsSmall(e)

(* convert_to_integer (uint64_type_node, val): integers and pointers are  *)
(* extended (by sign for signed types) and reduced modulo 2^64; a float   *)
(* is truncated toward zero; a complex value contributes its real part.   *)
ToCarrier(e, v) ==
  CASE e.kind \in {"int", "uint", "ptr", "bool"} -> v % (2^CarrierW)
    [] e.kind = "float"   -> Trunc(v) % (2^CarrierW)
    [] e.kind = "complex" -> Trunc(v[1]) % (2^CarrierW)

(* fold_convert (type, fold_convert (uintN, call)), N the mode bitsize:   *)
(* truncation to N bits, then reinterpretation for integer types, a      *)
(* non-zero test for bool, and a value conversion for float and complex.  *)
FromCarrier(e, c) ==
  LET u == c % (2^W(e)) IN
  CASE e.kind = "int"     -> IF u >= 2^(W(e) - 1) THEN u - 2^W(e) ELSE u
    [] e.kind \in {"uint", "ptr"} -> u
    [] e.kind = "bool"    -> IF u # 0 THEN 1 ELSE 0
    [] e.kind = "float"   -> Rat(u)
    [] e.kind = "complex" -> <<Rat(u), Rat(0)>>

\* Equality of element values (rationals compared by cross products).
SameRat(a, b) == a[1] * b[2] = b[1] * a[2]
Same(e, a, b) ==
  CASE a = Garbage \/ b = Garbage -> FALSE
    [] e.kind = "float"   -> SameRat(a, b)
    [] e.kind = "complex" -> SameRat(a[1], b[1]) /\ SameRat(a[2], b[2])
    [] OTHER              -> a = b

(* What send_on_channel passes to the runtime for value v.                *)
Transfer(e, v) ==
  IF IsSmall(e) THEN [proto |-> "small", data |-> ToCarrier(e, v)]
  ELSE [proto |-> "big", data |-> v]

(* What receive_from_channel makes of a transfer; one made by the other  *)
(* protocol is read as the wrong representation.                          *)
Received(e, x) ==
  IF RecvIsSmall(e)
  THEN IF x.proto = "small" THEN FromCarrier(e, x.data) ELSE Garbage
  ELSE IF x.proto = "big" THEN x.data ELSE Garbage

Init ==
  /\ elem \in Elems
  /\ buf = <<>>
  /\ sent = <<>>
  /\ got = <<>>
  /\ nsend = 0
  /\ ice = FALSE

-----------------------------------------------------------------------------
\* Mutant: a non-blocking send enqueues even when the buffer is full.
SendNoFullCheck ==
  /\ ~ice
  /\ nsend < MaxSends
  /\ \E m \in Modes, v \in Vals[elem] :
       /\ ~(~m.blocking /\ m.sel)
       /\ m.blocking => Len(buf) < Cap
       /\ nsend' = nsend + 1
       /\ buf' = Append(buf, Transfer(elem, v))
       /\ sent' = Append(sent, v)
  /\ UNCHANGED <<elem, got, ice>>

(* A send site: blocking sends wait for room (void result); non-blocking  *)
(* ones return false when the buffer is full.                             *)
Send ==
  /\ ~ice
  /\ nsend < MaxSends
  /\ \E m \in Modes, v \in Vals[elem] :
       /\ ~(~m.blocking /\ m.sel)
       /\ m.blocking => Len(buf) < Cap
       /\ nsend' = nsend + 1
       /\ IF Len(buf) < Cap
          THEN /\ buf' = Append(buf, Transfer(elem, v))
               /\ sent' = Append(sent, v)
          ELSE UNCHANGED <<buf, sent>>
  /\ UNCHANGED <<elem, got, ice>>

(* A non-blocking send chosen in a select trips gcc_assert (!for_select). *)
SendNonBlockingInSelect ==
  /\ ~ice
  /\ nsend < MaxSends
  /\ [blocking |-> FALSE, sel |-> TRUE] \in Modes
  /\ ice' = TRUE
  /\ UNCHANGED <<elem, buf, sent, got, nsend>>

(* A receive (blocking, in or out of a select) takes the oldest transfer. *)
Receive ==
  /\ ~ice
  /\ buf # <<>>
  /\ got' = Append(got, Received(elem, Head(buf)))
  /\ buf' = Tail(buf)
  /\ UNCHANGED <<elem, sent, nsend, ice>>

Next == Send \/ SendNonBlockingInSelect \/ Receive

Spec == Init /\ [][Next]_vars

-----------------------------------------------------------------------------
TypeOK ==
  /\ elem \in Elems
  /\ buf \in Seq([proto : {"small", "big"}, data : Int \cup Vals[elem]])
  /\ Len(buf) <= Cap
  /\ nsend \in 0..MaxSends
  /\ ice \in BOOLEAN

(* Every value the receiver obtains equals the value sent at the same    *)
(* position: the conversion of send_on_channel to the uint64 carrier and *)
(* the conversion back in receive_from_channel are inverse for the       *)
(* channel's element type, and both sides pick the same protocol.        *)
RoundTrip ==
  /\ Len(got) <= Len(sent)
  /\ \A i \in 1..Len(got) : Same(elem, got[i], sent[i])

=============================================================================
