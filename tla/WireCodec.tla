------------------------------ MODULE WireCodec ------------------------------
(***************************************************************************)
(* The 20-byte header of a frame: how the sender lays it out, what the     *)
(* receiver accepts, and what it reads back.                               *)
(*                                                                         *)
(* The header is a record of its fields in the order of their offsets;     *)
(* every field of more than one byte is a tuple of bytes, the most         *)
(* significant first.                                                      *)
(***************************************************************************)
EXTENDS Integers

Magic == <<69, 85, 68, 83>>
Versions == {2, 3}
Cancellable == 3

Types == [request |-> 1, response |-> 2, streamRequest |-> 3, streamRequestChunk |-> 4,
          streamRequestEnd |-> 5, streamResponse |-> 6, streamResponseChunk |-> 7,
          streamResponseEnd |-> 8, cancelRequest |-> 9]

CarriesFd == 1
CarriesHandle == 2

U32 == {v \in Nat : v < 256 * 256 * 256 * 256}
U16 == {v \in Nat : v < 256 * 256}

PutU32(v) == <<(v \div (256 * 256 * 256)) % 256, (v \div (256 * 256)) % 256, (v \div 256) % 256, v % 256>>

GetU32(b) == b[1] * (256 * 256 * 256) + b[2] * (256 * 256) + b[3] * 256 + b[4]

EncodeHeader(type, id, arg1, arg2, flags, version) ==
    [magic |-> Magic, version |-> version, type |-> type,
     flags |-> <<(flags \div 256) % 256, flags % 256>>,
     id |-> PutU32(id), arg1 |-> PutU32(arg1), arg2 |-> PutU32(arg2)]

Flags(h) == h.flags[1] * 256 + h.flags[2]

\* The checks of decode_header, in its order; a header that fails one is refused.
Accepts(h) ==
    /\ h.magic = Magic
    /\ h.version \in Versions
    /\ Flags(h) \in 0..(CarriesFd + CarriesHandle)
    /\ h.type \in 1..9
    /\ Flags(h) # 0 => /\ Flags(h) # CarriesFd + CarriesHandle
                       /\ h.type = Types.request /\ GetU32(h.id) = 0
    /\ h.type = Types.cancelRequest =>
          /\ h.version = Cancellable /\ GetU32(h.id) # 0 /\ Flags(h) = 0
          /\ GetU32(h.arg1) = 0 /\ GetU32(h.arg2) = 0

DecodeHeader(h) ==
    [type |-> h.type, id |-> GetU32(h.id), arg1 |-> GetU32(h.arg1), arg2 |-> GetU32(h.arg2),
     flags |-> Flags(h), version |-> h.version]
=============================================================================
