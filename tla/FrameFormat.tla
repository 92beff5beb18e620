---------------------------- MODULE FrameFormat ----------------------------
(***************************************************************************)
(* The bytes of a frame: frame_init, frame_serialize, frame_deserialize    *)
(* and the checksum.  FrameStream takes from here that the receiver knows  *)
(* a good frame from a corrupt one; Frames takes that a frame arrives with *)
(* the origin and the destination it was sent with.                        *)
(***************************************************************************)
EXTENDS FrameStream, SequencesExt

CONSTANTS
    ByteValues,     \* 256 in the code
    FieldLen,       \* FRAME_ORIGIN_LEN and FRAME_DEST_LEN (20)
    MaxData,        \* FRAME_MAX_DATA (275)
    MaxText         \* bound on the names tried; REALM_NAME_MAX - 1 is 63

ASSUME FormatAssumption ==
    /\ ByteValues \in Nat /\ ByteValues > 2
    /\ FieldLen \in Nat \ {0}
    /\ MaxData \in Nat /\ MaxData < ByteValues * ByteValues
    /\ MaxText \in Nat

Octet == 0..(ByteValues - 1)
NUL == 0
Space == 1      \* every other byte is a letter

Texts == BoundedSeq(Octet \ {NUL}, MaxText)

\* What a caller hands to frame_init, and the data it then copies in.
Message == [type        : Octet,
            origin      : Texts,
            destination : Texts,
            data        : BoundedSeq(Octet, MaxData)]

----------------------------------------------------------------------------
(* frame_serialize                                                         *)

\* Mutant of Padded: the last byte of a field is kept for its NUL.
PaddedTerminated(text) ==
    [i \in 1..FieldLen |-> IF i <= Len(text) /\ i < FieldLen
                           THEN text[i] ELSE NUL]

\* frame_store_field cuts a name to the field, frame_copy_field_padded
\* fills it up; a name as long as the field has no NUL.
Padded(text) ==
    [i \in 1..FieldLen |-> IF i <= Len(text) THEN text[i] ELSE NUL]

TwoBytes(n) == <<n \div ByteValues, n % ByteValues>>

DataAt == 1 + 2 * FieldLen + 2      \* offset of the data

SumOfBytes(bytes) ==
    LET upTo[i \in 0..Len(bytes)] ==
            IF i = 0 THEN 0 ELSE upTo[i - 1] + bytes[i]
    IN  upTo[Len(bytes)]

\* Mutant of Checksum: the header is left out.
ChecksumOfData(bytes) ==
    SumOfBytes(SubSeq(bytes, DataAt + 1, Len(bytes)))
    % (ByteValues * ByteValues)

\* frame_compute_checksum_bytes: the sum of the bytes, modulo 65536.
Checksum(bytes) == SumOfBytes(bytes) % (ByteValues * ByteValues)

Body(message) ==
    <<message.type>>
    \o Padded(message.origin) \o Padded(message.destination)
    \o TwoBytes(Len(message.data)) \o message.data
    \o [i \in 1..(MaxData - Len(message.data)) |-> NUL]

Serialize(message) == Body(message) \o TwoBytes(Checksum(Body(message)))

----------------------------------------------------------------------------
(* frame_deserialize, of as many bytes as a frame has                      *)

\* frame_extract_field drops the spaces at the end, over the NULs, and the
\* name then ends at its first NUL.
FieldText(bytes) ==
    LET kept == {i \in DOMAIN bytes :
                    /\ \A j \in 1..i : bytes[j] # NUL
                    /\ \E j \in i..Len(bytes) : bytes[j] \notin {NUL, Space}}
    IN  SubSeq(bytes, 1, Cardinality(kept))

Number(bytes) == bytes[1] * ByteValues + bytes[2]

ChecksumAt == DataAt + MaxData      \* 318

DataLength(bytes) == Number(SubSeq(bytes, DataAt - 1, DataAt))

ParseResult(bytes) ==
    IF DataLength(bytes) > MaxData THEN "INVALID"
    ELSE IF Number(SubSeq(bytes, ChecksumAt + 1, ChecksumAt + 2))
            # Checksum(SubSeq(bytes, 1, ChecksumAt)) THEN "BAD_CHECKSUM"
    ELSE "OK"

Parsed(bytes) ==
    [type        |-> bytes[1],
     origin      |-> FieldText(SubSeq(bytes, 2, 1 + FieldLen)),
     destination |-> FieldText(SubSeq(bytes, 2 + FieldLen, 1 + 2 * FieldLen)),
     data        |-> SubSeq(bytes, DataAt + 1, DataAt + DataLength(bytes))]

----------------------------------------------------------------------------
(* The frames of FrameStream, with their bytes                             *)

\* Frame f may carry every message of one type; a corrupt frame arrives with
\* any one of its bytes wrong.
Carries(f) == {message \in Message : message.type = f % ByteValues}

Arriving(f, message) ==
    LET bytes == Serialize(message)
    IN  IF f \notin Corrupt THEN {bytes}
        ELSE {[bytes EXCEPT ![i] = wrong] :
                i \in DOMAIN bytes, wrong \in Octet} \ {bytes}

\* The frames that the parser accepts just when IsFrame says so, whatever
\* they carry and whichever byte is wrong.
ParsedAsFrames ==
    {f \in 1..MaxFrames :
        \A message \in Carries(f) : \A bytes \in Arriving(f, message) :
            ParseResult(bytes) = "OK" <=> IsFrame(Bytes(f))}

\* The names that fit a field and do not end in a space.
Carried(text) ==
    /\ Len(text) <= FieldLen
    /\ text # <<>> => text[Len(text)] # Space

\* The frames whose type and data always arrive as they were sent, and whose
\* names do so exactly when they can be carried.
ReadAsWritten ==
    {f \in 1..MaxFrames :
        \A message \in Carries(f) :
            LET frame == Parsed(Serialize(message))
            IN  /\ frame.type = message.type
                /\ frame.data = message.data
                /\ frame.origin = message.origin
                   <=> Carried(message.origin)
                /\ frame.destination = message.destination
                   <=> Carried(message.destination)}

----------------------------------------------------------------------------
(* Properties                                                              *)

\* Every frame on its way is told from a corrupt one by its checksum and
\* length alone, as FrameStream assumes: a good frame is accepted, and one
\* wrong byte, wherever it is and though the sum wraps, is refused.
ChecksumTells ==
    \A i \in DOMAIN accepted : accepted[i] \in ParsedAsFrames

\* A frame that is handled says what the sender wrote in it, and its names
\* arrive exactly when they fit their field and do not end in a space: a
\* realm whose name is longer is out of reach.
HandledAsSent ==
    \A i \in DOMAIN delivered : delivered[i] \in ReadAsWritten

=============================================================================
