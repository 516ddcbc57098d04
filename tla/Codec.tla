-------------------------------- MODULE Codec --------------------------------
(***************************************************************************)
(* The conversions of package oscar, on sequences of bytes: the FLAP frame *)
(* around every message, the SNAC header inside a frame, and the TLV, the  *)
(* type-length-value triple most payloads are made of.  Lengths are 16     *)
(* bits wide, as in the code.                                              *)
(***************************************************************************)
EXTENDS Integers, Sequences, FiniteSetsExt

Byte == 0..255
Word == 65536       \* a uint16 is a number below this

Mark == 42          \* 0x2a, the first byte of every FLAP
HeaderLen == 6      \* mark, channel, sequence number, data length
SnacHeaderLen == 10

\* A conversion that may fail yields <<result>>, or NoResult for an error.
NoResult == <<>>

PutUint16(n) == <<n \div 256, n % 256>>
Uint16(b) == b[1] * 256 + b[2]

From(b, n) == SubSeq(b, n, Len(b))

-----------------------------------------------------------------------------

\* Fails for data whose length is not a uint16.
MarshalFLAP(flap) ==
    LET dataLength == Len(flap.data) % Word IN
        IF Len(flap.data) # dataLength
        THEN NoResult
        ELSE << <<Mark, flap.channel>> \o PutUint16(flap.seq)
                                       \o PutUint16(dataLength) \o flap.data >>

UnmarshalFLAP(b) ==
    IF Len(b) < HeaderLen \/ b[1] # Mark
    THEN NoResult
    ELSE << [channel |-> b[2], seq |-> Uint16(SubSeq(b, 3, 4)),
             data |-> From(b, HeaderLen + 1)] >>

\* The length of the frame at the head of a buffer that holds a header.
FlapLength(b) == Uint16(SubSeq(b, 5, 6)) + HeaderLen

\* A SNAC can be read from any data that holds its header.
SNACReadable(data) == Len(data) >= SnacHeaderLen

-----------------------------------------------------------------------------

\* NewTLV keeps the low 16 bits of the length, and MarshalBinary adds the four
\* bytes of type and length in 16 bits: it indexes past its buffer when the
\* sum wraps, which is a panic.
TLVAllocated(n) == (4 + (n % Word)) % Word
TLVPanics(n) == TLVAllocated(n) < 4

MarshalTLV(type, data) == PutUint16(type) \o PutUint16(Len(data) % Word) \o data

\* Mutant: the data are taken from inside the header.
UnmarshalTLVEarly(b) ==
    IF Len(b) < 4 \/ Len(b) < 4 + Uint16(SubSeq(b, 3, 4))
    THEN NoResult
    ELSE << [type |-> Uint16(b), data |-> SubSeq(b, 4, 3 + Uint16(SubSeq(b, 3, 4)))] >>

UnmarshalTLV(b) ==
    IF Len(b) < 4 \/ Len(b) < 4 + Uint16(SubSeq(b, 3, 4))
    THEN NoResult
    ELSE << [type |-> Uint16(b), data |-> SubSeq(b, 5, 4 + Uint16(SubSeq(b, 3, 4)))] >>

\* The TLVs of b from the n-th byte on, if more has those of later places.
TLVsAt(b, n, more) ==
    IF n > Len(b) THEN << <<>> >>
    ELSE LET tlv == UnmarshalTLV(From(b, n)) IN
         IF tlv = NoResult THEN NoResult
         ELSE LET rest == more[n + 4 + Len(tlv[1].data)] IN
              IF rest = NoResult THEN NoResult ELSE << tlv \o rest[1] >>

\* One after the other until nothing is left; one that fails fails all.
UnmarshalTLVs(b) ==
    LET from[n \in 1..Len(b) + 1] == TLVsAt(b, n, from) IN from[1]

\* The first of that type, if there is one.
FindTLV(tlvs, type) ==
    LET places == {i \in DOMAIN tlvs : tlvs[i].type = type} IN
    IF places = {} THEN NoResult ELSE << tlvs[Min(places)] >>

=============================================================================
