------------------------- MODULE FrameStream_proofs -------------------------
(***************************************************************************)
(* For every frame size and wire capacity: the types and the bound on the  *)
(* receive buffer, whatever is corrupt; and, when at most the last frame   *)
(* is corrupt, that the stream implements FrameChannel and hands over a    *)
(* beginning of what was taken.                                            *)
(***************************************************************************)
EXTENDS FrameStream, SequenceTheorems, WellFoundedInduction, TLAPS

-----------------------------------------------------------------------------
(* Cutting sequences                                                       *)

LEMMA TakeType ==
    ASSUME NEW T, NEW s \in Seq(T), NEW n \in 0..Len(s)
    PROVE  Take(s, n) \in Seq(T) /\ Len(Take(s, n)) = n
<1>1. Len(s) \in Nat /\ DOMAIN s = 1..Len(s) /\ n \in Nat /\ n <= Len(s)
  BY LenProperties
<1>2. \A i \in 1..n : s[i] \in T
  BY <1>1, ElementOfSeq
<1>3. SubSeq(s, 1, n) = [i \in 1..n |-> s[i]]
  BY <1>1, SubSeqProperties
<1>4. [i \in 1..n |-> s[i]] \in Seq(T)
  BY <1>1, <1>2, IsASeq
<1>5. Len([i \in 1..n |-> s[i]]) = n
  BY <1>1, <1>4, LenProperties
<1> QED
  BY <1>3, <1>4, <1>5 DEF Take

LEMMA DropType ==
    ASSUME NEW T, NEW s \in Seq(T), NEW n \in 0..Len(s)
    PROVE  Drop(s, n) \in Seq(T) /\ Len(Drop(s, n)) = Len(s) - n
<1> DEFINE m == Len(s) - n
           t == [i \in 1..m |-> s[n + i]]
<1>1. Len(s) \in Nat /\ DOMAIN s = 1..Len(s) /\ n \in Nat /\ n <= Len(s)
  BY LenProperties
<1>2. m \in Nat
  BY <1>1
<1>3. \A i \in 1..m : s[n + i] \in T
  BY <1>1, ElementOfSeq
<1>4. t \in Seq(T)
  BY <1>2, <1>3, IsASeq
<1>5. Len(t) = m
  BY <1>2, <1>4, LenProperties
<1>6. SubSeq(s, n + 1, Len(s)) = t
  BY <1>1, SubSeqProperties
<1> QED
  BY <1>4, <1>5, <1>6 DEF Drop

LEMMA BytesType ==
    ASSUME NEW f \in 1..MaxFrames
    PROVE  Bytes(f) \in Seq(Byte) /\ Len(Bytes(f)) = FrameSize
<1>1. FrameSize \in Nat
  BY StreamAssumption
<1>2. Bytes(f) \in Seq(Byte)
  BY <1>1, IsASeq DEF Bytes, Byte
<1>3. DOMAIN Bytes(f) = 1..FrameSize
  BY DEF Bytes
<1> QED
  BY <1>1, <1>2, <1>3, LenProperties

LEMMA CutInside ==
    ASSUME NEW S, NEW s \in Seq(S), NEW t \in Seq(S), NEW m \in Nat,
           NEW n \in Nat, 1 <= m, n <= Len(s)
    PROVE  SubSeq(s \o t, m, n) = SubSeq(s, m, n)
<1>1. Len(s) \in Nat
  OBVIOUS
<1>2. CASE n < m
  BY <1>2, SubSeqEmpty
<1>3. CASE m <= n
  <2>1. m \in 1..Len(s) /\ n \in 1..Len(s)
    BY <1>1, <1>3
  <2> QED
    BY <2>1, SubSeqOfConcat1
<1> QED
  BY <1>2, <1>3

LEMMA CutBehind ==
    ASSUME NEW S, NEW s \in Seq(S), NEW t \in Seq(S)
    PROVE  SubSeq(s \o t, Len(s) + 1, Len(s) + Len(t)) = t
<1>1. Len(s) \in Nat /\ Len(t) \in Nat
  OBVIOUS
<1>2. CASE Len(t) = 0
  <2>1. t = <<>>
    BY <1>2, EmptySeq
  <2>2. SubSeq(s \o t, Len(s) + 1, Len(s) + Len(t)) = <<>>
    BY <1>1, <1>2, SubSeqEmpty
  <2> QED
    BY <2>1, <2>2
<1>3. CASE Len(t) # 0
  <2> DEFINE m == Len(s) + 1
             n == Len(s) + Len(t)
  <2>1. /\ m \in (Len(s) + 1)..(Len(s) + Len(t))
        /\ n \in (Len(s) + 1)..(Len(s) + Len(t))
        /\ m - Len(s) = 1 /\ n - Len(s) = Len(t)
    BY <1>1, <1>3
  <2> HIDE DEF m, n
  <2>2. SubSeq(s \o t, m, n) = SubSeq(t, 1, Len(t))
    BY <2>1, SubSeqOfConcat2
  <2>3. SubSeq(t, 1, Len(t)) = t
    BY SubSeqFull
  <2> QED
    BY <2>2, <2>3 DEF m, n
<1> QED
  BY <1>2, <1>3

-----------------------------------------------------------------------------
(* Induction                                                                *)

\* Induction over the natural numbers, in the form of a set.
LEMMA NatSetInduction ==
    ASSUME NEW T \in SUBSET Nat, 0 \in T, \A n \in T : n + 1 \in T
    PROVE  T = Nat
<1> DEFINE R == {ss \in Nat \X Nat : ss[1] < ss[2]}
           U == Nat \ T
<1>1. IsWellFoundedOn(R, Nat)
  BY NatLessThanWellFounded DEF OpToRel
<1>2. ASSUME U # {}
      PROVE  FALSE
  <2>1. PICK m \in U : \A k \in U : ~ (<<k, m>> \in R)
    <3>1. U \in SUBSET Nat
      OBVIOUS
    <3> HIDE DEF R, U
    <3> QED
      BY <1>1, <1>2, <3>1, WFMin
  <2>2. m - 1 \in Nat /\ m - 1 < m
    OBVIOUS
  <2>3. m - 1 \in T
    BY <2>1, <2>2
  <2>4. (m - 1) + 1 \in T /\ (m - 1) + 1 = m
    BY <2>3
  <2> QED
    BY <2>4
<1> QED
  BY <1>2

-----------------------------------------------------------------------------
(* Extraction                                                              *)

\* Division, for a buffer shorter than two frames.
LEMMA OneFrameAtMost ==
    ASSUME NEW n \in Nat, NEW size \in Nat \ {0}, n < 2 * size
    PROVE  n \div size = IF n < size THEN 0 ELSE 1
<1>1. CASE n < size
  BY <1>1
<1>2. CASE ~(n < size)
  BY <1>2
<1> QED
  BY <1>1, <1>2

\* From less than two frames' worth of bytes at most one frame is taken, and
\* less than a frame's worth stays.
LEMMA ExtractionBound ==
    ASSUME NEW buffer \in Seq(Byte), Len(buffer) < 2 * FrameSize
    PROVE  /\ Unread(buffer) \in Seq(Byte)
           /\ Len(Unread(buffer)) < FrameSize
           /\ Found(buffer) \in Seq(1..MaxFrames)
<1> DEFINE n == Extracted(buffer)
           w == Whole(buffer)
<1>1. Len(buffer) \in Nat /\ FrameSize \in Nat \ {0}
  BY LenProperties, StreamAssumption
<1>2. w = IF Len(buffer) < FrameSize THEN 0 ELSE 1
  BY <1>1, OneFrameAtMost DEF Whole
<1>3. \E m \in 0..w : /\ \A k \in 1..m : IsFrame(Chunk(buffer, k))
                      /\ m < w => ~IsFrame(Chunk(buffer, m + 1))
  <2>1. CASE w = 0
    BY <2>1
  <2>2. CASE w = 1 /\ IsFrame(Chunk(buffer, 1))
    <3>1. \A k \in 1..1 : IsFrame(Chunk(buffer, k))
      BY <2>2
    <3> QED
      BY <2>2, <3>1
  <2>3. CASE w = 1 /\ ~IsFrame(Chunk(buffer, 1))
    <3>1. ~IsFrame(Chunk(buffer, 0 + 1))
      BY <2>3
    <3> QED
      BY <2>3, <3>1
  <2> QED
    BY <1>2, <2>1, <2>2, <2>3
<1>4. /\ n \in 0..w
      /\ \A k \in 1..n : IsFrame(Chunk(buffer, k))
  BY <1>3 DEF Extracted
<1>5. /\ Unread(buffer) \in Seq(Byte)
      /\ Len(Unread(buffer)) < FrameSize
  <2>1. CASE n = w
    <3>1. Unread(buffer) = Drop(buffer, w * FrameSize)
      BY <2>1 DEF Unread
    <3>2. CASE w = 0
      <4>1. w * FrameSize = 0
        BY <1>1, <3>2
      <4>2. Unread(buffer) = Drop(buffer, 0)
        BY <3>1, <4>1
      <4>3. Len(buffer) < FrameSize
        BY <1>2, <3>2
      <4>4. 0 \in 0..Len(buffer)
        BY <1>1
      <4>5. Drop(buffer, 0) \in Seq(Byte) /\ Len(Drop(buffer, 0)) = Len(buffer) - 0
        BY <4>4, DropType
      <4> QED
        BY <1>1, <4>2, <4>3, <4>5
    <3>3. CASE w = 1
      <4>1. w * FrameSize = FrameSize
        BY <1>1, <3>3
      <4>2. Unread(buffer) = Drop(buffer, FrameSize)
        BY <3>1, <4>1
      <4>3. FrameSize \in 0..Len(buffer)
        BY <1>1, <1>2, <3>3
      <4>4. /\ Drop(buffer, FrameSize) \in Seq(Byte)
            /\ Len(Drop(buffer, FrameSize)) = Len(buffer) - FrameSize
        BY <4>3, DropType
      <4> QED
        BY <1>1, <4>2, <4>4
    <3> QED
      BY <1>2, <3>2, <3>3
  <2>2. CASE n # w
    <3>1. Unread(buffer) = <<>>
      BY <2>2 DEF Unread
    <3> QED
      BY <1>1, <3>1, EmptySeq
  <2> QED
    BY <2>1, <2>2
<1>6. Found(buffer) \in Seq(1..MaxFrames)
  <2>1. ASSUME NEW k \in 1..n
        PROVE  Chunk(buffer, k)[1][1] \in 1..MaxFrames
    <3>1. PICK f \in 1..MaxFrames : Chunk(buffer, k) = Bytes(f)
      BY <1>4 DEF IsFrame
    <3>2. Chunk(buffer, k)[1] = Bytes(f)[1]
      BY <3>1
    <3>3. Bytes(f)[1] = <<f, 1>>
      <4>1. 1 \in 1..FrameSize
        BY <1>1
      <4> QED
        BY <4>1, Zenon DEF Bytes
    <3>4. Chunk(buffer, k)[1][1] = f
      BY <3>2, <3>3
    <3> QED
      BY <3>4
  <2>2. n \in Nat
    BY <1>2, <1>4
  <2> HIDE DEF n
  <2>3. [k \in 1..n |-> Chunk(buffer, k)[1][1]] \in Seq(1..MaxFrames)
    BY <2>1, <2>2, IsASeq
  <2> QED
    BY <2>3 DEF Found, n
<1> QED
  BY <1>5, <1>6

-----------------------------------------------------------------------------
(* The inductive invariant                                                 *)

StreamInv == StreamTypeOK /\ RecvBufferBounded

LEMMA FlushType ==
    ASSUME StreamInv, Flush
    PROVE  StreamInv'
<1>1. PICK n \in 1..Len(sendBuffer) :
        /\ n <= Room
        /\ wire' = wire \/ wire' = wire \o Take(sendBuffer, n)
        /\ sendBuffer' = Drop(sendBuffer, n)
  BY DEF Flush, OnWire
<1>2. /\ sendBuffer \in Seq(Byte) /\ wire \in Seq(Byte)
      /\ Len(sendBuffer) \in Nat /\ Len(wire) \in Nat
      /\ Len(sendBuffer) <= Capacity /\ Len(wire) <= WireCapacity
      /\ WireCapacity \in Nat /\ Capacity \in Nat
  BY LenProperties, StreamAssumption DEF StreamInv, StreamTypeOK, Capacity
<1>3. n \in 0..Len(sendBuffer) /\ n \in Nat /\ n <= WireCapacity - Len(wire)
  BY <1>1, <1>2 DEF Room
<1>4. /\ Take(sendBuffer, n) \in Seq(Byte) /\ Len(Take(sendBuffer, n)) = n
      /\ Drop(sendBuffer, n) \in Seq(Byte)
      /\ Len(Drop(sendBuffer, n)) = Len(sendBuffer) - n
  BY <1>2, <1>3, TakeType, DropType
<1> DEFINE longer == wire \o Take(sendBuffer, n)
<1>5. longer \in Seq(Byte) /\ Len(longer) = Len(wire) + n
  BY <1>2, <1>4, ConcatProperties
<1> HIDE DEF longer
<1>6. wire' \in Seq(Byte) /\ Len(wire') <= WireCapacity
  <2>1. Len(longer) <= WireCapacity
    BY <1>2, <1>3, <1>5
  <2>2. wire' = wire \/ wire' = longer
    BY <1>1 DEF longer
  <2> QED
    BY <1>2, <1>5, <2>1, <2>2
<1>7. sendBuffer' \in Seq(Byte) /\ Len(sendBuffer') <= Capacity
  BY <1>1, <1>2, <1>3, <1>4
<1> QED
  BY <1>6, <1>7
  DEF Flush, StreamInv, StreamTypeOK, RecvBufferBounded, receiver

LEMMA SendFrameType ==
    ASSUME StreamInv, SendFrame
    PROVE  StreamInv'
<1> DEFINE f == offered + 1
<1>1. /\ sendBuffer \in Seq(Byte) /\ wire \in Seq(Byte)
      /\ Len(sendBuffer) \in Nat /\ Len(wire) \in Nat
      /\ Len(sendBuffer) <= Capacity /\ Len(wire) <= WireCapacity
      /\ WireCapacity \in Nat /\ FrameSize \in Nat \ {0}
      /\ MaxFrames \in Nat /\ offered \in 0..MaxFrames /\ offered < MaxFrames
  BY LenProperties, StreamAssumption
  DEF StreamInv, StreamTypeOK, SendFrame
<1>2. f \in 1..MaxFrames /\ offered' \in 0..MaxFrames
  BY <1>1 DEF SendFrame
<1>3. Bytes(f) \in Seq(Byte) /\ Len(Bytes(f)) = FrameSize
  BY <1>2, BytesType
<1>4. Queued(f)
  BY DEF SendFrame
<1> HIDE DEF f
<1>5. accepted' \in Seq(1..MaxFrames)
  <2>1. accepted \in Seq(1..MaxFrames)
    BY DEF StreamInv, StreamTypeOK
  <2>2. Append(accepted, f) \in Seq(1..MaxFrames)
    BY <1>2, <2>1, AppendProperties
  <2>3. accepted' = accepted \/ accepted' = Append(accepted, f)
    BY <1>4 DEF Queued
  <2> QED
    BY <2>1, <2>2, <2>3
<1>6. /\ sendBuffer' \in Seq(Byte) /\ Len(sendBuffer') <= Capacity
      /\ wire' \in Seq(Byte) /\ Len(wire') <= WireCapacity
  <2>1. CASE UNCHANGED wire /\ UNCHANGED sendBuffer
    BY <1>1, <2>1
  <2>2. CASE /\ UNCHANGED wire
             /\ Fits(sendBuffer, Bytes(f))
             /\ sendBuffer' = sendBuffer \o Bytes(f)
    <3>1. /\ sendBuffer' \in Seq(Byte)
          /\ Len(sendBuffer') = Len(sendBuffer) + Len(Bytes(f))
      BY <1>1, <1>3, <2>2, ConcatProperties
    <3>2. Len(sendBuffer') <= Capacity
      BY <2>2, <3>1 DEF Fits
    <3> QED
      BY <1>1, <2>2, <3>1, <3>2
  <2>3. ASSUME NEW n \in 0..FrameSize,
               n <= Room,
               wire' = wire \/ wire' = wire \o Take(Bytes(f), n),
               sendBuffer' = Drop(Bytes(f), n)
        PROVE  /\ sendBuffer' \in Seq(Byte) /\ Len(sendBuffer') <= Capacity
               /\ wire' \in Seq(Byte) /\ Len(wire') <= WireCapacity
    <3>1. /\ n \in Nat /\ n <= FrameSize /\ n <= WireCapacity - Len(wire)
          /\ n \in 0..Len(Bytes(f))
      BY <1>1, <1>3, <2>3 DEF Room
    <3>2. /\ Take(Bytes(f), n) \in Seq(Byte) /\ Len(Take(Bytes(f), n)) = n
          /\ Drop(Bytes(f), n) \in Seq(Byte)
          /\ Len(Drop(Bytes(f), n)) = FrameSize - n
      BY <1>3, <3>1, TakeType, DropType
    <3> DEFINE longer == wire \o Take(Bytes(f), n)
    <3>3. longer \in Seq(Byte) /\ Len(longer) = Len(wire) + n
      BY <1>1, <3>2, ConcatProperties
    <3> HIDE DEF longer
    <3>4. wire' \in Seq(Byte) /\ Len(wire') <= WireCapacity
      <4>1. Len(longer) <= WireCapacity
        BY <1>1, <3>1, <3>3
      <4>2. wire' = wire \/ wire' = longer
        BY <2>3 DEF longer
      <4> QED
        BY <1>1, <3>3, <4>1, <4>2
    <3>5. Len(sendBuffer') = FrameSize - n /\ sendBuffer' \in Seq(Byte)
      BY <2>3, <3>2
    <3>6. Len(sendBuffer') <= Capacity
      BY <1>1, <3>1, <3>5 DEF Capacity
    <3> QED
      BY <3>4, <3>5, <3>6
  <2> QED
    BY <1>4, <2>1, <2>2, <2>3 DEF Queued, OnWire
<1> QED
  BY <1>2, <1>5, <1>6
  DEF SendFrame, StreamInv, StreamTypeOK, RecvBufferBounded, receiver

LEMMA ReadType ==
    ASSUME StreamInv, Read
    PROVE  StreamInv'
<1>1. PICK n \in 1..FrameSize :
        /\ n <= Len(wire)
        /\ wire' = Drop(wire, n)
        /\ IF Fits(recvBuffer, Take(wire, n))
           THEN /\ delivered' = delivered \o Found(recvBuffer \o Take(wire, n))
                /\ recvBuffer' = Unread(recvBuffer \o Take(wire, n))
           ELSE recvBuffer' = <<>> /\ UNCHANGED delivered
  BY DEF Read
<1>2. /\ recvBuffer \in Seq(Byte) /\ wire \in Seq(Byte)
      /\ Len(recvBuffer) \in Nat /\ Len(wire) \in Nat
      /\ Len(recvBuffer) < FrameSize /\ Len(wire) <= WireCapacity
      /\ WireCapacity \in Nat /\ FrameSize \in Nat \ {0}
      /\ delivered \in Seq(1..MaxFrames)
  BY LenProperties, StreamAssumption
  DEF StreamInv, StreamTypeOK, RecvBufferBounded
<1>3. n \in Nat /\ n <= FrameSize /\ n \in 0..Len(wire)
  BY <1>1, <1>2
<1> DEFINE taken == Take(wire, n)
           buffer == recvBuffer \o taken
<1>4. /\ taken \in Seq(Byte) /\ Len(taken) = n
      /\ Drop(wire, n) \in Seq(Byte) /\ Len(Drop(wire, n)) = Len(wire) - n
  BY <1>2, <1>3, TakeType, DropType
<1>5. wire' \in Seq(Byte) /\ Len(wire') <= WireCapacity
  BY <1>1, <1>2, <1>3, <1>4
<1>6. buffer \in Seq(Byte) /\ Len(buffer) = Len(recvBuffer) + n
  BY <1>2, <1>4, ConcatProperties
<1>7. Len(buffer) < 2 * FrameSize
  BY <1>2, <1>3, <1>6
<1> HIDE DEF taken, buffer
<1>8. /\ Unread(buffer) \in Seq(Byte)
      /\ Len(Unread(buffer)) < FrameSize
      /\ Found(buffer) \in Seq(1..MaxFrames)
  BY <1>6, <1>7, ExtractionBound
<1>9. delivered \o Found(buffer) \in Seq(1..MaxFrames)
  BY <1>2, <1>8, ConcatProperties
<1>10. /\ recvBuffer' \in Seq(Byte) /\ Len(recvBuffer') < FrameSize
       /\ delivered' \in Seq(1..MaxFrames)
  <2>1. CASE recvBuffer' = Unread(buffer) /\ delivered' = delivered \o Found(buffer)
    BY <1>8, <1>9, <2>1
  <2>2. CASE recvBuffer' = <<>> /\ UNCHANGED delivered
    BY <1>2, <2>2, EmptySeq
  <2> QED
    BY <1>1, <2>1, <2>2 DEF buffer, taken
<1> QED
  BY <1>5, <1>10
  DEF Read, StreamInv, StreamTypeOK, RecvBufferBounded, sender

LEMMA ClosedType ==
    ASSUME StreamInv, CloseSender \/ EndOfFile \/ Hangup
    PROVE  StreamInv'
<1>1. /\ <<>> \in Seq(Byte) /\ Len(<<>>) = 0
      /\ FrameSize \in Nat \ {0} /\ WireCapacity \in Nat /\ Capacity \in Nat
  BY EmptySeq, StreamAssumption DEF Capacity
<1>2. /\ sendBuffer' = sendBuffer \/ sendBuffer' = <<>>
      /\ wire' = wire \/ wire' = <<>>
      /\ recvBuffer' = recvBuffer \/ recvBuffer' = <<>>
  BY DEF CloseSender, EndOfFile, Hangup, sender, receiver
<1>3. /\ senderOpen' = senderOpen \/ senderOpen' = FALSE
      /\ receiverOpen' = receiverOpen \/ receiverOpen' = FALSE
  BY DEF CloseSender, EndOfFile, Hangup, sender, receiver
<1>4. UNCHANGED <<offered, accepted, delivered>>
  BY DEF CloseSender, EndOfFile, Hangup, sender, receiver
<1>5. /\ sendBuffer' \in Seq(Byte) /\ Len(sendBuffer') <= Capacity
      /\ wire' \in Seq(Byte) /\ Len(wire') <= WireCapacity
      /\ recvBuffer' \in Seq(Byte) /\ Len(recvBuffer') < FrameSize
  <2>1. /\ sendBuffer \in Seq(Byte) /\ Len(sendBuffer) <= Capacity
        /\ wire \in Seq(Byte) /\ Len(wire) <= WireCapacity
        /\ recvBuffer \in Seq(Byte) /\ Len(recvBuffer) < FrameSize
    BY DEF StreamInv, StreamTypeOK, RecvBufferBounded
  <2>2. 0 <= Capacity /\ 0 <= WireCapacity /\ 0 < FrameSize
    BY <1>1
  <2> QED
    BY <1>1, <1>2, <2>1, <2>2
<1>6. senderOpen' \in BOOLEAN /\ receiverOpen' \in BOOLEAN
  BY <1>3 DEF StreamInv, StreamTypeOK
<1> QED
  BY <1>4, <1>5, <1>6 DEF StreamInv, StreamTypeOK, RecvBufferBounded

LEMMA StreamStart == Init => StreamInv
<1>1. /\ <<>> \in Seq(Byte) /\ <<>> \in Seq(1..MaxFrames) /\ Len(<<>>) = 0
      /\ FrameSize \in Nat \ {0} /\ WireCapacity \in Nat /\ Capacity \in Nat
      /\ MaxFrames \in Nat
  BY EmptySeq, StreamAssumption DEF Capacity
<1> QED
  BY <1>1 DEF Init, StreamInv, StreamTypeOK, RecvBufferBounded

LEMMA StreamNext == StreamInv /\ [Next]_vars => StreamInv'
<1> SUFFICES ASSUME StreamInv, [Next]_vars PROVE StreamInv'
  OBVIOUS
<1>1. CASE SendFrame
  BY <1>1, SendFrameType
<1>2. CASE Flush
  BY <1>2, FlushType
<1>3. CASE CloseSender \/ EndOfFile \/ Hangup
  BY <1>3, ClosedType
<1>4. CASE Read
  BY <1>4, ReadType
<1>5. CASE UNCHANGED vars
  BY <1>5
  DEF vars, sender, receiver, StreamInv, StreamTypeOK, RecvBufferBounded
<1> QED
  BY <1>1, <1>2, <1>3, <1>4, <1>5 DEF Next

\* The send buffer never exceeds FRAME_BUFFER_CAPACITY, and what is handed to
\* the frame handler is a frame that was sent, however the kernel cuts the
\* stream and whichever frames are corrupt.
THEOREM StreamTypeCorrect == Spec => []StreamTypeOK
<1>1. StreamInv => StreamTypeOK
  BY DEF StreamInv
<1> QED
  BY <1>1, StreamStart, StreamNext, PTL DEF Spec

\* The receive buffer never holds a whole frame between two reads, so that
\* frame_buffer_append never fails in maester_receive_placeholder.
THEOREM ReceiveBufferNeverOverflows == Spec => []RecvBufferBounded
<1>1. StreamInv => RecvBufferBounded
  BY DEF StreamInv
<1> QED
  BY <1>1, StreamStart, StreamNext, PTL DEF Spec

-----------------------------------------------------------------------------
(* The frames in a piece of the stream                                     *)

Collects(s, n, f) ==
    f = [i \in 0..n |-> IF i = 0 THEN <<>>
                        ELSE IF s[i][2] = FrameSize
                             THEN Append(f[i - 1], s[i][1])
                             ELSE f[i - 1]]

LEMMA CollectionExists ==
    ASSUME NEW s, NEW n \in Nat
    PROVE  \E f : Collects(s, n, f)
<1> DEFINE T == {k \in Nat : \E f : Collects(s, k, f)}
           Next1(x, i) == IF s[i][2] = FrameSize THEN Append(x, s[i][1]) ELSE x
<1>1. 0 \in T
  <2> DEFINE f == [i \in 0..0 |-> <<>>]
  <2>1. f = [i \in 0..0 |-> IF i = 0 THEN <<>> ELSE Next1(f[i - 1], i)]
    <3>1. \A i \in 0..0 : <<>> = IF i = 0 THEN <<>> ELSE Next1(f[i - 1], i)
      OBVIOUS
    <3> QED
      BY <3>1
  <2> HIDE DEF f
  <2>2. Collects(s, 0, f)
    BY <2>1, Zenon DEF Collects
  <2> QED
    BY <2>2
<1>2. ASSUME NEW k \in T
      PROVE  k + 1 \in T
  <2>1. PICK f : Collects(s, k, f)
    OBVIOUS
  <2>2. \A i \in 0..k : f[i] = IF i = 0 THEN <<>> ELSE Next1(f[i - 1], i)
    BY <2>1, Zenon DEF Collects
  <2> HIDE DEF Next1
  <2> DEFINE g == [i \in 0..(k + 1) |-> IF i = k + 1 THEN Next1(f[k], k + 1)
                                       ELSE f[i]]
  <2>3. /\ \A i \in 0..k : g[i] = f[i]
        /\ g[k + 1] = Next1(f[k], k + 1)
        /\ g = [i \in 0..(k + 1) |-> g[i]]
    OBVIOUS
  <2> HIDE DEF g
  <2>4. \A i \in 0..(k + 1) : g[i] = IF i = 0 THEN <<>> ELSE Next1(g[i - 1], i)
    <3> SUFFICES ASSUME NEW i \in 0..(k + 1)
                 PROVE  g[i] = IF i = 0 THEN <<>> ELSE Next1(g[i - 1], i)
      OBVIOUS
    <3>1. CASE i = 0
      <4>1. i \in 0..k
        BY <3>1
      <4>2. g[i] = f[i] /\ f[i] = <<>>
        BY <2>2, <2>3, <3>1, <4>1, Zenon
      <4> QED
        BY <3>1, <4>2
    <3>2. CASE i \in 1..k
      <4>1. i - 1 \in 0..k /\ i \in 0..k /\ i # 0
        BY <3>2
      <4>2. f[i] = Next1(f[i - 1], i)
        BY <2>2, <4>1, Zenon
      <4>3. g[i] = f[i] /\ g[i - 1] = f[i - 1]
        BY <2>3, <4>1, Zenon
      <4> QED
        BY <4>1, <4>2, <4>3, Zenon
    <3>3. CASE i = k + 1
      <4>1. i - 1 = k /\ i # 0 /\ k \in 0..k
        BY <3>3
      <4> QED
        BY <2>3, <3>3, <4>1
    <3> QED
      BY <3>1, <3>2, <3>3
  <2>5. g = [i \in 0..(k + 1) |-> IF i = 0 THEN <<>> ELSE Next1(g[i - 1], i)]
    BY <2>3, <2>4
  <2>6. Collects(s, k + 1, g)
    BY <2>5, Zenon DEF Collects, Next1
  <2>7. k + 1 \in Nat
    OBVIOUS
  <2> QED
    BY <2>6, <2>7
<1>3. T \in SUBSET Nat
  OBVIOUS
<1> HIDE DEF T
<1>4. T = Nat
  BY <1>1, <1>2, <1>3, NatSetInduction
<1> QED
  BY <1>4 DEF T

\* The frames of a piece are the last of those of its beginnings.
LEMMA FramesInFacts ==
    ASSUME NEW s \in Seq(Byte)
    PROVE  \E f : /\ f[0] = <<>>
                  /\ \A i \in 1..Len(s) :
                        f[i] = IF s[i][2] = FrameSize
                               THEN Append(f[i - 1], s[i][1]) ELSE f[i - 1]
                  /\ \A i \in 0..Len(s) : f[i] \in Seq(1..MaxFrames)
                  /\ FramesIn(s) = f[Len(s)]
<1> DEFINE f == CHOOSE g : Collects(s, Len(s), g)
<1>1. Len(s) \in Nat
  OBVIOUS
<1>2. Collects(s, Len(s), f)
  BY <1>1, CollectionExists
<1>3. FramesIn(s) = f[Len(s)]
  BY Zenon DEF FramesIn, Collects
<1> HIDE DEF f
<1>4. \A i \in 0..Len(s) :
        f[i] = IF i = 0 THEN <<>>
               ELSE IF s[i][2] = FrameSize
                    THEN Append(f[i - 1], s[i][1]) ELSE f[i - 1]
  BY <1>2, Zenon DEF Collects
<1>5. f[0] = <<>>
  <2>1. 0 \in 0..Len(s)
    BY <1>1
  <2> QED
    BY <1>4, <2>1, Zenon
<1>6. ASSUME NEW i \in 1..Len(s)
      PROVE  f[i] = IF s[i][2] = FrameSize
                    THEN Append(f[i - 1], s[i][1]) ELSE f[i - 1]
  <2>1. i \in 0..Len(s) /\ i # 0
    BY <1>1
  <2> QED
    BY <1>4, <2>1, Zenon
<1>7. \A i \in 0..Len(s) : f[i] \in Seq(1..MaxFrames)
  <2> DEFINE T == {n \in Nat : n <= Len(s) => f[n] \in Seq(1..MaxFrames)}
  <2>1. 0 \in T /\ T \in SUBSET Nat
    BY <1>5, EmptySeq
  <2>2. ASSUME NEW n \in T
        PROVE  n + 1 \in T
    <3> SUFFICES ASSUME n + 1 <= Len(s) PROVE f[n + 1] \in Seq(1..MaxFrames)
      OBVIOUS
    <3> DEFINE j == n + 1
    <3>1. j \in 1..Len(s) /\ j - 1 = n /\ f[n] \in Seq(1..MaxFrames)
      BY <1>1
    <3> HIDE DEF j
    <3>2. s[j] \in Byte
      BY <3>1, ElementOfSeq
    <3>3. s[j][1] \in 1..MaxFrames
      BY <3>2 DEF Byte
    <3>4. f[j] = IF s[j][2] = FrameSize THEN Append(f[n], s[j][1]) ELSE f[n]
      BY <1>6, <3>1
    <3>5. Append(f[n], s[j][1]) \in Seq(1..MaxFrames)
      BY <3>1, <3>3, AppendProperties
    <3>6. f[j] \in Seq(1..MaxFrames)
      BY <3>1, <3>4, <3>5
    <3> QED
      BY <3>6 DEF j
  <2> HIDE DEF T
  <2>3. T = Nat
    BY <2>1, <2>2, NatSetInduction
  <2> QED
    BY <1>1, <2>3 DEF T
<1> QED
  BY <1>3, <1>5, <1>6, <1>7

LEMMA FramesInType ==
    ASSUME NEW s \in Seq(Byte)
    PROVE  FramesIn(s) \in Seq(1..MaxFrames)
<1>1. PICK f : /\ \A i \in 0..Len(s) : f[i] \in Seq(1..MaxFrames)
               /\ FramesIn(s) = f[Len(s)]
  BY FramesInFacts, Zenon
<1>2. Len(s) \in 0..Len(s)
  OBVIOUS
<1> QED
  BY <1>1, <1>2, Zenon

LEMMA FramesInNone == FramesIn(<<>>) = <<>>
<1>1. <<>> \in Seq(Byte) /\ Len(<<>>) = 0
  BY EmptySeq
<1>2. PICK f : f[0] = <<>> /\ FramesIn(<<>>) = f[Len(<<>>)]
  BY <1>1, FramesInFacts
<1> QED
  BY <1>1, <1>2

\* The frames of two pieces are those of the one and then of the other.
LEMMA FramesInJoined ==
    ASSUME NEW s \in Seq(Byte), NEW t \in Seq(Byte)
    PROVE  FramesIn(s \o t) = FramesIn(s) \o FramesIn(t)
<1> DEFINE u == s \o t
           M == Len(s)
           N == Len(t)
           Fr == 1..MaxFrames
<1>1. /\ M \in Nat /\ N \in Nat
      /\ u \in Seq(Byte) /\ Len(u) = M + N
      /\ \A i \in 1..(M + N) : u[i] = IF i <= M THEN s[i] ELSE t[i - M]
  BY ConcatProperties
<1>2. PICK f : /\ f[0] = <<>>
               /\ \A i \in 1..M :
                     f[i] = IF s[i][2] = FrameSize
                            THEN Append(f[i - 1], s[i][1]) ELSE f[i - 1]
               /\ \A i \in 0..M : f[i] \in Seq(Fr)
               /\ FramesIn(s) = f[M]
  BY FramesInFacts, Zenon
<1>3. PICK g : /\ g[0] = <<>>
               /\ \A i \in 1..N :
                     g[i] = IF t[i][2] = FrameSize
                            THEN Append(g[i - 1], t[i][1]) ELSE g[i - 1]
               /\ \A i \in 0..N : g[i] \in Seq(Fr)
               /\ FramesIn(t) = g[N]
  BY FramesInFacts, Zenon
<1>4. PICK h : /\ h[0] = <<>>
               /\ \A i \in 1..Len(u) :
                     h[i] = IF u[i][2] = FrameSize
                            THEN Append(h[i - 1], u[i][1]) ELSE h[i - 1]
               /\ FramesIn(u) = h[Len(u)]
  BY <1>1, FramesInFacts, Zenon
<1>5. \A i \in 1..N : t[i] \in Byte
  BY ElementOfSeq
<1> HIDE DEF u, M, N, Fr
<1>6. \A n \in Nat : n <= M => h[n] = f[n]
  <2> DEFINE T == {n \in Nat : n <= M => h[n] = f[n]}
  <2>1. 0 \in T /\ T \in SUBSET Nat
    BY <1>2, <1>4
  <2>2. ASSUME NEW n \in T
        PROVE  n + 1 \in T
    <3> SUFFICES ASSUME n + 1 <= M PROVE h[n + 1] = f[n + 1]
      OBVIOUS
    <3> DEFINE j == n + 1
    <3>1. /\ j \in 1..M /\ j - 1 = n /\ h[n] = f[n]
          /\ j \in 1..(M + N) /\ j <= M
      BY <1>1
    <3> HIDE DEF j
    <3>2. u[j] = s[j] /\ j \in 1..Len(u)
      BY <1>1, <3>1
    <3>3. f[j] = IF s[j][2] = FrameSize THEN Append(f[n], s[j][1]) ELSE f[n]
      BY <1>2, <3>1
    <3>4. h[j] = IF u[j][2] = FrameSize THEN Append(h[n], u[j][1]) ELSE h[n]
      BY <1>4, <3>1, <3>2
    <3>5. h[j] = f[j]
      BY <3>1, <3>2, <3>3, <3>4, Zenon
    <3> QED
      BY <3>5 DEF j
  <2> HIDE DEF T
  <2>3. T = Nat
    BY <2>1, <2>2, NatSetInduction
  <2> QED
    BY <2>3 DEF T
<1>7. f[M] \in Seq(Fr) /\ h[M] = f[M]
  BY <1>1, <1>2, <1>6
<1> DEFINE Both(n) == f[M] \o g[n]
<1>8. \A n \in Nat : n <= N => h[M + n] = Both(n)
  <2> DEFINE T == {n \in Nat : n <= N => h[M + n] = Both(n)}
  <2>1. 0 \in T /\ T \in SUBSET Nat
    <3>1. M + 0 = M /\ g[0] = <<>> /\ f[M] \o <<>> = f[M]
      BY <1>1, <1>3, <1>7, ConcatEmptySeq
    <3>2. h[M + 0] = Both(0)
      BY <1>7, <3>1
    <3> HIDE DEF Both
    <3> QED
      BY <3>2
  <2> HIDE DEF Both
  <2>2. ASSUME NEW n \in T
        PROVE  n + 1 \in T
    <3> SUFFICES ASSUME n + 1 <= N PROVE h[M + (n + 1)] = Both(n + 1)
      OBVIOUS
    <3> DEFINE j == n + 1
               k == M + n
    <3>1. /\ j \in 1..N /\ j - 1 = n /\ n \in 0..N
          /\ h[k] = Both(n)
          /\ M + j \in 1..(M + N) /\ ~(M + j <= M) /\ (M + j) - M = j
          /\ (M + j) - 1 = k
      BY <1>1
    <3> HIDE DEF j, k, T
    <3>2. u[M + j] = t[j] /\ M + j \in 1..Len(u)
      BY <1>1, <3>1
    <3>3. g[j] = IF t[j][2] = FrameSize THEN Append(g[n], t[j][1]) ELSE g[n]
      BY <1>3, <3>1
    <3>4. h[M + j] = IF u[M + j][2] = FrameSize
                     THEN Append(h[k], u[M + j][1]) ELSE h[k]
      BY <1>4, <3>1, <3>2
    <3>5. g[n] \in Seq(Fr) /\ t[j][1] \in Fr
      BY <1>3, <1>5, <3>1 DEF Byte, Fr
    <3> DEFINE e == t[j][1]
               x == f[M]
               y == g[n]
    <3>6. Append(x \o y, e) = x \o Append(y, e)
      <4>1. x \in Seq(Fr) /\ y \in Seq(Fr) /\ e \in Fr
        BY <1>7, <3>5
      <4> HIDE DEF x, y, e
      <4>2. <<e>> \in Seq(Fr) /\ x \o y \in Seq(Fr)
        BY <4>1, ConcatProperties
      <4>3. Append(x \o y, e) = (x \o y) \o <<e>>
        BY <4>1, <4>2, AppendIsConcat
      <4>4. Append(y, e) = y \o <<e>>
        BY <4>1, AppendIsConcat
      <4>5. (x \o y) \o <<e>> = x \o (y \o <<e>>)
        BY <4>1, <4>2, ConcatAssociative
      <4> QED
        BY <4>3, <4>4, <4>5
    <3>7. h[M + j] = Both(j)
      <4>1. CASE t[j][2] = FrameSize
        <5>1. g[j] = Append(y, e) /\ h[M + j] = Append(x \o y, e)
          BY <3>1, <3>2, <3>3, <3>4, <4>1 DEF Both
        <5> QED
          BY <3>6, <5>1, Zenon DEF Both
      <4>2. CASE t[j][2] # FrameSize
        <5>1. g[j] = y /\ h[M + j] = x \o y
          BY <3>1, <3>2, <3>3, <3>4, <4>2 DEF Both
        <5> QED
          BY <5>1, Zenon DEF Both
      <4> QED
        BY <4>1, <4>2
    <3> QED
      BY <3>7 DEF j
  <2> HIDE DEF T
  <2>3. T = Nat
    BY <2>1, <2>2, NatSetInduction
  <2> QED
    BY <2>3 DEF T
<1>9. h[M + N] = f[M] \o g[N]
  <2> HIDE DEF Both
  <2>1. h[M + N] = Both(N)
    BY <1>1, <1>8
  <2> QED
    BY <2>1, Zenon DEF Both
<1>10. FramesIn(u) = FramesIn(s) \o FramesIn(t)
  BY <1>1, <1>2, <1>3, <1>4, <1>9
<1> QED
  BY <1>10 DEF u

LEMMA FramesInOne ==
    ASSUME NEW f \in 1..MaxFrames
    PROVE  FramesIn(Bytes(f)) = <<f>>
<1>1. /\ Bytes(f) \in Seq(Byte) /\ Len(Bytes(f)) = FrameSize
      /\ FrameSize \in Nat \ {0}
  BY BytesType, StreamAssumption
<1>2. PICK h : /\ h[0] = <<>>
               /\ \A i \in 1..FrameSize :
                     h[i] = IF Bytes(f)[i][2] = FrameSize
                            THEN Append(h[i - 1], Bytes(f)[i][1]) ELSE h[i - 1]
               /\ FramesIn(Bytes(f)) = h[FrameSize]
  BY <1>1, FramesInFacts
<1>3. \A i \in 1..FrameSize : Bytes(f)[i] = <<f, i>>
  BY DEF Bytes
<1> DEFINE T == {n \in Nat : n < FrameSize => h[n] = <<>>}
<1>4. 0 \in T /\ T \in SUBSET Nat
  BY <1>2
<1>5. ASSUME NEW n \in T
      PROVE  n + 1 \in T
  <2> SUFFICES ASSUME n + 1 < FrameSize PROVE h[n + 1] = <<>>
    OBVIOUS
  <2> DEFINE j == n + 1
  <2>1. j \in 1..FrameSize /\ j - 1 = n /\ j # FrameSize /\ h[n] = <<>>
    BY <1>1
  <2> HIDE DEF j, T
  <2>2. Bytes(f)[j][2] = j
    BY <1>3, <2>1
  <2>3. h[j] = <<>>
    BY <1>2, <2>1, <2>2
  <2> QED
    BY <2>3 DEF j
<1> HIDE DEF T
<1>6. T = Nat
  BY <1>4, <1>5, NatSetInduction
<1>7. h[FrameSize - 1] = <<>>
  BY <1>1, <1>6 DEF T
<1>8. FrameSize \in 1..FrameSize /\ Bytes(f)[FrameSize] = <<f, FrameSize>>
  BY <1>1, <1>3
<1>9. h[FrameSize] = Append(<<>>, f)
  <2>1. Bytes(f)[FrameSize][1] = f /\ Bytes(f)[FrameSize][2] = FrameSize
    BY <1>8
  <2> QED
    BY <1>2, <1>7, <1>8, <2>1, Zenon
<1>10. Append(<<>>, f) = <<f>>
  OBVIOUS
<1> QED
  BY <1>2, <1>9, <1>10

-----------------------------------------------------------------------------
(* Frames one after the other                                              *)

\* The bytes of frames in a growing order, from the first byte of one, each
\* complete but perhaps the last.
Aligned(bytes) ==
    /\ bytes # <<>> => bytes[1][2] = 1
    /\ \A i \in 1..(Len(bytes) - 1) :
        IF bytes[i][2] = FrameSize
        THEN bytes[i + 1][2] = 1 /\ bytes[i + 1][1] > bytes[i][1]
        ELSE bytes[i + 1] = <<bytes[i][1], bytes[i][2] + 1>>

\* The last frame is complete too.
Complete(bytes) == bytes # <<>> => bytes[Len(bytes)][2] = FrameSize

LEMMA ByteFacts ==
    ASSUME NEW s \in Seq(Byte), NEW i \in 1..Len(s)
    PROVE  /\ s[i][1] \in 1..MaxFrames /\ s[i][2] \in 1..FrameSize
           /\ s[i] = <<s[i][1], s[i][2]>>
<1>1. s[i] \in (1..MaxFrames) \X (1..FrameSize)
  BY ElementOfSeq DEF Byte
<1> QED
  BY <1>1

LEMMA EmptyOrNot ==
    ASSUME NEW S, NEW s \in Seq(S)
    PROVE  Len(s) \in Nat /\ (s # <<>> <=> Len(s) >= 1)
<1>1. Len(s) \in Nat /\ Len(<<>>) = 0
  OBVIOUS
<1>2. s # <<>> => Len(s) \in Nat \ {0}
  BY EmptySeq
<1> QED
  BY <1>1, <1>2

\* A whole frame's worth of bytes at the beginning is the first frame.
LEMMA FirstFrame ==
    ASSUME NEW s \in Seq(Byte), Aligned(s), Len(s) >= FrameSize
    PROVE  s[1][1] \in 1..MaxFrames /\ Take(s, FrameSize) = Bytes(s[1][1])
<1> DEFINE f == s[1][1]
<1>1. /\ FrameSize \in Nat \ {0} /\ Len(s) \in Nat /\ FrameSize \in 0..Len(s)
      /\ 1 \in 1..Len(s) /\ s # <<>>
  BY StreamAssumption, EmptyOrNot
<1>2. f \in 1..MaxFrames /\ s[1] = <<f, 1>>
  BY <1>1, ByteFacts DEF Aligned
<1> HIDE DEF f
<1> DEFINE T == {n \in Nat : n < FrameSize => s[n + 1] = <<f, n + 1>>}
<1>3. 0 \in T /\ T \in SUBSET Nat
  BY <1>2
<1>4. ASSUME NEW n \in T
      PROVE  n + 1 \in T
  <2> SUFFICES ASSUME n + 1 < FrameSize
               PROVE  s[(n + 1) + 1] = <<f, (n + 1) + 1>>
    OBVIOUS
  <2> DEFINE j == n + 1
  <2>1. j \in 1..(Len(s) - 1) /\ j \in Nat /\ j # FrameSize /\ s[j] = <<f, j>>
    BY <1>1
  <2> HIDE DEF j, T
  <2>2. s[j + 1] = <<s[j][1], s[j][2] + 1>>
    BY <2>1 DEF Aligned
  <2>3. s[j + 1] = <<f, j + 1>>
    BY <2>1, <2>2
  <2> QED
    BY <2>3 DEF j
<1> HIDE DEF T
<1>5. T = Nat
  BY <1>3, <1>4, NatSetInduction
<1>6. \A i \in 1..FrameSize : s[i] = <<f, i>>
  <2> SUFFICES ASSUME NEW i \in 1..FrameSize PROVE s[i] = <<f, i>>
    OBVIOUS
  <2>1. i - 1 \in T /\ i - 1 < FrameSize /\ (i - 1) + 1 = i
    BY <1>1, <1>5
  <2> QED
    BY <2>1 DEF T
<1>7. /\ Take(s, FrameSize) \in Seq(Byte)
      /\ Len(Take(s, FrameSize)) = FrameSize
      /\ \A i \in 1..FrameSize : Take(s, FrameSize)[i] = s[i]
  <2>1. Take(s, FrameSize) \in Seq(Byte) /\ Len(Take(s, FrameSize)) = FrameSize
    BY <1>1, TakeType
  <2>2. \A i \in 1..FrameSize : SubSeq(s, 1, FrameSize)[i] = s[i]
    BY <1>1
  <2> QED
    BY <2>1, <2>2 DEF Take
<1>8. Bytes(f) \in Seq(Byte) /\ Len(Bytes(f)) = FrameSize
  BY <1>2, BytesType
<1>9. \A i \in 1..FrameSize : Bytes(f)[i] = <<f, i>>
  BY DEF Bytes
<1>10. Take(s, FrameSize) = Bytes(f)
  <2> DEFINE t == Take(s, FrameSize)
             b == Bytes(f)
  <2>1. Len(t) = Len(b) /\ \A i \in 1..Len(t) : t[i] = b[i]
    BY <1>6, <1>7, <1>8, <1>9
  <2>2. t \in Seq(Byte) /\ b \in Seq(Byte)
    BY <1>7, <1>8
  <2> HIDE DEF t, b
  <2>3. t = b
    BY <2>1, <2>2, SeqEqual
  <2> QED
    BY <2>3 DEF t, b
<1> QED
  BY <1>2, <1>10 DEF f

LEMMA AlignedBytes ==
    ASSUME NEW f \in 1..MaxFrames
    PROVE  /\ Aligned(Bytes(f)) /\ Complete(Bytes(f))
           /\ \A i \in 1..FrameSize : Bytes(f)[i] = <<f, i>>
<1>1. /\ Bytes(f) \in Seq(Byte) /\ Len(Bytes(f)) = FrameSize
      /\ FrameSize \in Nat \ {0}
  BY BytesType, StreamAssumption
<1>2. \A i \in 1..FrameSize : Bytes(f)[i] = <<f, i>>
  BY DEF Bytes
<1>3. /\ 1 \in 1..FrameSize /\ FrameSize \in 1..FrameSize
      /\ \A i \in 1..(FrameSize - 1) :
            i \in 1..FrameSize /\ i + 1 \in 1..FrameSize /\ i # FrameSize
  BY <1>1
<1>4. Bytes(f)[1][2] = 1 /\ Bytes(f)[FrameSize][2] = FrameSize
  BY <1>2, <1>3
<1>5. \A i \in 1..(FrameSize - 1) :
        /\ Bytes(f)[i][2] # FrameSize
        /\ Bytes(f)[i + 1] = <<Bytes(f)[i][1], Bytes(f)[i][2] + 1>>
  BY <1>2, <1>3
<1> QED
  BY <1>1, <1>2, <1>4, <1>5, Zenon DEF Aligned, Complete

\* Either part of an aligned stream is aligned when it is cut behind a frame,
\* and the first part wherever it is cut.
LEMMA AlignedParts ==
    ASSUME NEW s \in Seq(Byte), NEW t \in Seq(Byte), Aligned(s \o t)
    PROVE  /\ Aligned(s)
           /\ Complete(s) =>
                /\ Aligned(t)
                /\ s # <<>> /\ t # <<>> => t[1][1] > s[Len(s)][1]
<1> DEFINE u == s \o t
           m == Len(s)
           n == Len(t)
<1>1. /\ m \in Nat /\ n \in Nat /\ u \in Seq(Byte) /\ Len(u) = m + n
      /\ \A i \in 1..(m + n) : u[i] = IF i <= m THEN s[i] ELSE t[i - m]
  BY ConcatProperties
<1>2. /\ s # <<>> <=> m >= 1
      /\ t # <<>> <=> n >= 1
      /\ u # <<>> <=> Len(u) >= 1
  BY <1>1, EmptyOrNot
<1>3. /\ u # <<>> => u[1][2] = 1
      /\ \A i \in 1..(Len(u) - 1) :
          IF u[i][2] = FrameSize
          THEN u[i + 1][2] = 1 /\ u[i + 1][1] > u[i][1]
          ELSE u[i + 1] = <<u[i][1], u[i][2] + 1>>
  BY Zenon DEF Aligned
<1> HIDE DEF u
<1>4. \A i \in 1..m : u[i] = s[i]
  BY <1>1
<1>5. \A i \in 1..n : u[m + i] = t[i]
  <2> SUFFICES ASSUME NEW i \in 1..n PROVE u[m + i] = t[i]
    OBVIOUS
  <2>1. m + i \in 1..(m + n) /\ ~(m + i <= m) /\ (m + i) - m = i
    BY <1>1
  <2> HIDE DEF m, n
  <2> QED
    BY <1>1, <2>1
<1>6. Aligned(s)
  <2>1. s # <<>> => s[1][2] = 1
    <3> SUFFICES ASSUME s # <<>> PROVE s[1][2] = 1
      OBVIOUS
    <3>1. 1 \in 1..m /\ u # <<>>
      BY <1>1, <1>2
    <3> QED
      BY <1>3, <1>4, <3>1
  <2>2. ASSUME NEW i \in 1..(m - 1)
        PROVE  IF s[i][2] = FrameSize
               THEN s[i + 1][2] = 1 /\ s[i + 1][1] > s[i][1]
               ELSE s[i + 1] = <<s[i][1], s[i][2] + 1>>
    <3>1. i \in 1..m /\ i + 1 \in 1..m /\ i \in 1..(Len(u) - 1)
      BY <1>1
    <3>2. u[i] = s[i] /\ u[i + 1] = s[i + 1]
      BY <1>4, <3>1
    <3>3. IF u[i][2] = FrameSize
          THEN u[i + 1][2] = 1 /\ u[i + 1][1] > u[i][1]
          ELSE u[i + 1] = <<u[i][1], u[i][2] + 1>>
      BY <1>3, <3>1
    <3> QED
      BY <3>2, <3>3, Zenon
  <2> QED
    BY <2>1, <2>2, Zenon DEF Aligned
<1>7. ASSUME Complete(s)
      PROVE  s # <<>> /\ t # <<>> => t[1][2] = 1 /\ t[1][1] > s[m][1]
  <2> SUFFICES ASSUME s # <<>>, t # <<>>
               PROVE  t[1][2] = 1 /\ t[1][1] > s[m][1]
    OBVIOUS
  <2>1. m \in 1..m /\ 1 \in 1..n /\ m \in 1..(Len(u) - 1)
    BY <1>1, <1>2
  <2>2. u[m] = s[m] /\ u[m + 1] = t[1]
    BY <1>4, <1>5, <2>1
  <2>3. s[m][2] = FrameSize
    BY <1>7 DEF Complete
  <2>4. u[m + 1][2] = 1 /\ u[m + 1][1] > u[m][1]
    BY <1>3, <2>1, <2>2, <2>3
  <2> QED
    BY <2>2, <2>4
<1>8. ASSUME Complete(s)
      PROVE  Aligned(t)
  <2>1. t # <<>> => t[1][2] = 1
    <3>1. CASE s = <<>>
      <4> SUFFICES ASSUME t # <<>> PROVE t[1][2] = 1
        OBVIOUS
      <4>1. m = 0 /\ 1 \in 1..n /\ u # <<>>
        BY <1>1, <1>2, <3>1
      <4>2. u[1] = t[1]
        BY <1>5, <4>1
      <4> QED
        BY <1>3, <4>1, <4>2
    <3>2. CASE s # <<>>
      BY <1>7, <1>8, <3>2
    <3> QED
      BY <3>1, <3>2
  <2>2. ASSUME NEW i \in 1..(n - 1)
        PROVE  IF t[i][2] = FrameSize
               THEN t[i + 1][2] = 1 /\ t[i + 1][1] > t[i][1]
               ELSE t[i + 1] = <<t[i][1], t[i][2] + 1>>
    <3> DEFINE k == m + i
    <3>1. /\ i \in 1..n /\ i + 1 \in 1..n /\ k \in 1..(Len(u) - 1)
          /\ m + (i + 1) = k + 1
      BY <1>1
    <3>2. u[k] = t[i] /\ u[k + 1] = t[i + 1]
      BY <1>5, <3>1
    <3> HIDE DEF k
    <3>3. IF u[k][2] = FrameSize
          THEN u[k + 1][2] = 1 /\ u[k + 1][1] > u[k][1]
          ELSE u[k + 1] = <<u[k][1], u[k][2] + 1>>
      BY <1>3, <3>1
    <3> QED
      BY <3>2, <3>3, Zenon
  <2> QED
    BY <2>1, <2>2, Zenon DEF Aligned
<1> QED
  BY <1>6, <1>7, <1>8

LEMMA AlignedJoined ==
    ASSUME NEW s \in Seq(Byte), NEW t \in Seq(Byte),
           Aligned(s), Complete(s), Aligned(t), Complete(t),
           s # <<>> /\ t # <<>> => t[1][1] > s[Len(s)][1]
    PROVE  Aligned(s \o t) /\ Complete(s \o t)
<1> DEFINE u == s \o t
           m == Len(s)
           n == Len(t)
<1>1. /\ m \in Nat /\ n \in Nat /\ u \in Seq(Byte) /\ Len(u) = m + n
      /\ \A i \in 1..(m + n) : u[i] = IF i <= m THEN s[i] ELSE t[i - m]
  BY ConcatProperties
<1>2. /\ s # <<>> <=> m >= 1
      /\ t # <<>> <=> n >= 1
      /\ u # <<>> <=> Len(u) >= 1
  BY <1>1, EmptyOrNot
<1> HIDE DEF u
<1>3. \A i \in 1..m : u[i] = s[i]
  BY <1>1
<1>4. \A i \in 1..n : u[m + i] = t[i]
  <2> SUFFICES ASSUME NEW i \in 1..n PROVE u[m + i] = t[i]
    OBVIOUS
  <2>1. m + i \in 1..(m + n) /\ ~(m + i <= m) /\ (m + i) - m = i
    BY <1>1
  <2> HIDE DEF m, n
  <2> QED
    BY <1>1, <2>1
<1>5. u # <<>> => u[1][2] = 1
  <2>1. CASE s # <<>>
    <3>1. 1 \in 1..m
      BY <1>1, <1>2, <2>1
    <3> QED
      BY <1>3, <2>1, <3>1 DEF Aligned
  <2>2. CASE s = <<>> /\ t # <<>>
    <3>1. m = 0 /\ 1 \in 1..n
      BY <1>1, <1>2, <2>2
    <3>2. u[1] = t[1]
      BY <1>4, <3>1
    <3> QED
      BY <2>2, <3>2 DEF Aligned
  <2>3. CASE s = <<>> /\ t = <<>>
    BY <1>1, <1>2, <2>3
  <2> QED
    BY <2>1, <2>2, <2>3
<1>6. ASSUME NEW i \in 1..(Len(u) - 1)
      PROVE  IF u[i][2] = FrameSize
             THEN u[i + 1][2] = 1 /\ u[i + 1][1] > u[i][1]
             ELSE u[i + 1] = <<u[i][1], u[i][2] + 1>>
  <2>1. CASE i < m
    <3>1. i \in 1..m /\ i + 1 \in 1..m /\ i \in 1..(m - 1)
      BY <1>1, <2>1
    <3>2. u[i] = s[i] /\ u[i + 1] = s[i + 1]
      BY <1>3, <3>1
    <3>3. IF s[i][2] = FrameSize
          THEN s[i + 1][2] = 1 /\ s[i + 1][1] > s[i][1]
          ELSE s[i + 1] = <<s[i][1], s[i][2] + 1>>
      BY <3>1 DEF Aligned
    <3> QED
      BY <3>2, <3>3, Zenon
  <2>2. CASE i = m
    <3>1. i \in 1..m /\ 1 \in 1..n /\ s # <<>> /\ t # <<>>
      BY <1>1, <1>2, <2>2
    <3>2. u[i] = s[m] /\ u[i + 1] = t[1]
      BY <1>3, <1>4, <2>2, <3>1
    <3>3. s[m][2] = FrameSize /\ t[1][2] = 1 /\ t[1][1] > s[m][1]
      BY <3>1 DEF Aligned, Complete
    <3> QED
      BY <3>2, <3>3, Zenon
  <2>3. CASE i > m
    <3> DEFINE k == i - m
    <3>1. /\ k \in 1..n /\ k + 1 \in 1..n /\ k \in 1..(n - 1)
          /\ m + k = i /\ m + (k + 1) = i + 1
      BY <1>1, <2>3
    <3>2. u[i] = t[k] /\ u[i + 1] = t[k + 1]
      <4> HIDE DEF k
      <4> QED
        BY <1>4, <3>1
    <3> HIDE DEF k
    <3>3. IF t[k][2] = FrameSize
          THEN t[k + 1][2] = 1 /\ t[k + 1][1] > t[k][1]
          ELSE t[k + 1] = <<t[k][1], t[k][2] + 1>>
      BY <3>1 DEF Aligned
    <3> QED
      BY <3>2, <3>3, Zenon
  <2> QED
    BY <1>1, <2>1, <2>2, <2>3
<1>7. u # <<>> => u[Len(u)][2] = FrameSize
  <2> SUFFICES ASSUME u # <<>> PROVE u[Len(u)][2] = FrameSize
    OBVIOUS
  <2>1. CASE t # <<>>
    <3>1. n \in 1..n
      BY <1>1, <1>2, <2>1
    <3>2. u[m + n] = t[n]
      BY <1>4, <3>1
    <3> QED
      BY <1>1, <2>1, <3>2 DEF Complete
  <2>2. CASE t = <<>>
    <3>1. n = 0 /\ m \in 1..m /\ s # <<>> /\ Len(u) = m
      BY <1>1, <1>2, <2>2
    <3>2. u[m] = s[m]
      BY <1>3, <3>1
    <3> QED
      BY <3>1, <3>2 DEF Complete
  <2> QED
    BY <2>1, <2>2
<1> QED
  BY <1>5, <1>6, <1>7, Zenon DEF Aligned, Complete, u

-----------------------------------------------------------------------------
(* The channel                                                             *)

LEMMA SplitSeq ==
    ASSUME NEW T, NEW s \in Seq(T), NEW n \in 0..Len(s)
    PROVE  Take(s, n) \o Drop(s, n) = s
<1>1. /\ Len(s) \in Nat /\ 1 \in 1..(Len(s) + 1) /\ n \in (1 - 1)..Len(s)
      /\ Len(s) \in n..Len(s)
  OBVIOUS
<1>2. SubSeq(s, 1, n) \o SubSeq(s, n + 1, Len(s)) = SubSeq(s, 1, Len(s))
  BY <1>1, ConcatAdjacentSubSeq
<1>3. SubSeq(s, 1, Len(s)) = s
  BY SubSeqFull
<1> QED
  BY <1>2, <1>3 DEF Take, Drop

LEMMA Regroup ==
    ASSUME NEW s \in Seq(Byte), NEW t \in Seq(Byte), NEW u \in Seq(Byte)
    PROVE  s \o (t \o u) = (s \o t) \o u
<1>1. (s \o t) \o u = s \o (t \o u)
  BY ConcatAssociative
<1> QED
  BY <1>1

LEMMA FramesRegroup ==
    ASSUME NEW s \in Seq(1..MaxFrames), NEW t \in Seq(1..MaxFrames),
           NEW u \in Seq(1..MaxFrames)
    PROVE  s \o (t \o u) = (s \o t) \o u
<1>1. (s \o t) \o u = s \o (t \o u)
  BY ConcatAssociative
<1> QED
  BY <1>1

\* What the extraction loop makes of less than two frames' worth of bytes.
LEMMA ExtractionResult ==
    ASSUME NEW buffer \in Seq(Byte), Len(buffer) < 2 * FrameSize
    PROVE  /\ Len(buffer) < FrameSize =>
                Found(buffer) = <<>> /\ Unread(buffer) = buffer
           /\ Len(buffer) >= FrameSize /\ IsFrame(Take(buffer, FrameSize)) =>
                /\ Found(buffer) = <<Take(buffer, FrameSize)[1][1]>>
                /\ Unread(buffer) = Drop(buffer, FrameSize)
           /\ Len(buffer) >= FrameSize /\ ~IsFrame(Take(buffer, FrameSize)) =>
                Found(buffer) = <<>> /\ Unread(buffer) = <<>>
<1> DEFINE n == Extracted(buffer)
           w == Whole(buffer)
<1>1. Len(buffer) \in Nat /\ FrameSize \in Nat \ {0}
  BY LenProperties, StreamAssumption
<1>2. w = IF Len(buffer) < FrameSize THEN 0 ELSE 1
  BY <1>1, OneFrameAtMost DEF Whole
<1>3. Chunk(buffer, 1) = Take(buffer, FrameSize)
  BY <1>1 DEF Chunk, Take
<1>4. \E m \in 0..w : /\ \A k \in 1..m : IsFrame(Chunk(buffer, k))
                      /\ m < w => ~IsFrame(Chunk(buffer, m + 1))
  <2>1. CASE w = 0
    BY <2>1
  <2>2. CASE w = 1 /\ IsFrame(Chunk(buffer, 1))
    <3>1. \A k \in 1..1 : IsFrame(Chunk(buffer, k))
      BY <2>2
    <3> QED
      BY <2>2, <3>1
  <2>3. CASE w = 1 /\ ~IsFrame(Chunk(buffer, 1))
    <3>1. ~IsFrame(Chunk(buffer, 0 + 1))
      BY <2>3
    <3> QED
      BY <2>3, <3>1
  <2> QED
    BY <1>2, <2>1, <2>2, <2>3
<1>5. /\ n \in 0..w
      /\ \A k \in 1..n : IsFrame(Chunk(buffer, k))
      /\ n < w => ~IsFrame(Chunk(buffer, n + 1))
  BY <1>4 DEF Extracted
<1>6. /\ Found(buffer) = [k \in 1..n |-> Chunk(buffer, k)[1][1]]
      /\ Unread(buffer) = IF n = w THEN Drop(buffer, n * FrameSize) ELSE <<>>
  BY DEF Found, Unread
<1> HIDE DEF n, w
<1>7. n = 0 => Found(buffer) = <<>>
  BY <1>6
<1>8. ASSUME Len(buffer) < FrameSize
      PROVE  Found(buffer) = <<>> /\ Unread(buffer) = buffer
  <2>1. w = 0 /\ n = 0
    BY <1>2, <1>5, <1>8
  <2>2. n * FrameSize = 0
    BY <1>1, <2>1
  <2>3. Unread(buffer) = SubSeq(buffer, 1, Len(buffer))
    BY <1>6, <2>1, <2>2 DEF Drop
  <2>4. SubSeq(buffer, 1, Len(buffer)) = buffer
    BY SubSeqFull
  <2> QED
    BY <1>7, <2>1, <2>3, <2>4
<1>9. ASSUME Len(buffer) >= FrameSize, IsFrame(Take(buffer, FrameSize))
      PROVE  /\ Found(buffer) = <<Take(buffer, FrameSize)[1][1]>>
             /\ Unread(buffer) = Drop(buffer, FrameSize)
  <2>1. w = 1 /\ n = 1
    <3>1. w = 1
      BY <1>1, <1>2, <1>9
    <3>2. CASE n = 0
      <4>1. ~IsFrame(Chunk(buffer, 1))
        BY <1>5, <3>1, <3>2
      <4> QED
        BY <1>3, <1>9, <4>1
    <3> QED
      BY <1>5, <3>1, <3>2
  <2>2. n * FrameSize = FrameSize
    BY <1>1, <2>1
  <2>3. Unread(buffer) = Drop(buffer, FrameSize)
    BY <1>6, <2>1, <2>2
  <2>4. Found(buffer) = [k \in 1..1 |-> Chunk(buffer, k)[1][1]]
    BY <1>6, <2>1
  <2>5. Found(buffer) = <<Chunk(buffer, 1)[1][1]>>
    BY <2>4
  <2> QED
    BY <1>3, <2>3, <2>5
<1>10. ASSUME Len(buffer) >= FrameSize, ~IsFrame(Take(buffer, FrameSize))
       PROVE  Found(buffer) = <<>> /\ Unread(buffer) = <<>>
  <2>1. w = 1
    BY <1>1, <1>2, <1>10
  <2>2. n = 0
    <3>1. CASE n = 1
      <4>1. IsFrame(Chunk(buffer, 1))
        BY <1>5, <3>1
      <4> QED
        BY <1>3, <1>10, <4>1
    <3> QED
      BY <1>5, <2>1, <3>1
  <2> QED
    BY <1>6, <1>7, <2>1, <2>2
<1> QED
  BY <1>8, <1>9, <1>10

\* What is in flight is the frames that were taken, one after the other; only
\* a sender that closes leaves one of them incomplete.
ChannelInv ==
    /\ Aligned(InFlight)
    /\ senderOpen => Complete(InFlight)
    /\ ~senderOpen => sendBuffer = <<>>
    /\ \A i \in 1..Len(InFlight) : InFlight[i][1] <= offered

LEMMA FlightType ==
    ASSUME StreamInv
    PROVE  /\ sendBuffer \in Seq(Byte) /\ wire \in Seq(Byte)
           /\ recvBuffer \in Seq(Byte) /\ InFlight \in Seq(Byte)
           /\ receiverOpen => /\ InFlight = (recvBuffer \o wire) \o sendBuffer
                              /\ InFlight = recvBuffer \o (wire \o sendBuffer)
           /\ ~receiverOpen => InFlight = <<>>
<1>1. sendBuffer \in Seq(Byte) /\ wire \in Seq(Byte) /\ recvBuffer \in Seq(Byte)
  BY DEF StreamInv, StreamTypeOK
<1>2. recvBuffer \o wire \in Seq(Byte)
  BY <1>1, ConcatProperties
<1>3. (recvBuffer \o wire) \o sendBuffer \in Seq(Byte)
  BY <1>1, <1>2, ConcatProperties
<1>4. (recvBuffer \o wire) \o sendBuffer = recvBuffer \o (wire \o sendBuffer)
  BY <1>1, ConcatAssociative
<1>5. <<>> \in Seq(Byte)
  BY EmptySeq
<1> QED
  BY <1>1, <1>3, <1>4, <1>5, Zenon DEF InFlight

\* maester_send_frame puts the whole frame behind those in flight, wherever
\* its bytes go, or nothing.
LEMMA SendFrameFlight ==
    ASSUME StreamInv, SendFrame, receiverOpen
    PROVE  \/ InFlight' = InFlight /\ accepted' = accepted
           \/ /\ InFlight' = InFlight \o Bytes(offered + 1)
              /\ accepted' = Append(accepted, offered + 1)
<1> DEFINE b == Bytes(offered + 1)
           front == recvBuffer \o wire
<1>1. /\ sendBuffer \in Seq(Byte) /\ wire \in Seq(Byte)
      /\ recvBuffer \in Seq(Byte) /\ InFlight = front \o sendBuffer
      /\ front \in Seq(Byte)
  BY FlightType, ConcatProperties
<1>2. b \in Seq(Byte) /\ Len(b) = FrameSize /\ FrameSize \in Nat
  <2>1. offered + 1 \in 1..MaxFrames
    BY StreamAssumption DEF SendFrame, StreamInv, StreamTypeOK
  <2> QED
    BY <2>1, BytesType, StreamAssumption
<1>3. recvBuffer' = recvBuffer /\ InFlight' = (recvBuffer' \o wire') \o sendBuffer'
  BY DEF SendFrame, receiver, InFlight
<1>4. Queued(offered + 1)
  BY DEF SendFrame
<1> HIDE DEF b
<1>5. ASSUME wire' = wire, sendBuffer' = sendBuffer
      PROVE  InFlight' = InFlight
  <2>1. InFlight' = front \o sendBuffer
    BY <1>3, <1>5
  <2> QED
    BY <1>1, <2>1
<1>6. ASSUME wire' = wire, sendBuffer' = sendBuffer \o b
      PROVE  InFlight' = InFlight \o b
  <2>1. InFlight' = front \o (sendBuffer \o b)
    BY <1>3, <1>6
  <2> HIDE DEF front
  <2>2. front \o (sendBuffer \o b) = (front \o sendBuffer) \o b
    <3>1. front \in Seq(Byte) /\ sendBuffer \in Seq(Byte) /\ b \in Seq(Byte)
      BY <1>1, <1>2
    <3> QED
      BY <3>1, Regroup
  <2> QED
    BY <1>1, <2>1, <2>2 DEF b
<1>7. ASSUME NEW n \in 0..FrameSize, sendBuffer = <<>>,
             wire' = wire \o Take(b, n), sendBuffer' = Drop(b, n)
      PROVE  InFlight' = InFlight \o b
  <2>1. n \in 0..Len(b)
    BY <1>2
  <2> DEFINE t == Take(b, n)
             d == Drop(b, n)
  <2>2. t \in Seq(Byte) /\ d \in Seq(Byte) /\ t \o d = b
    BY <1>2, <2>1, TakeType, DropType, SplitSeq
  <2> HIDE DEF t, d
  <2>3. InFlight' = (recvBuffer \o (wire \o t)) \o d
    BY <1>3, <1>7 DEF t, d
  <2>4. recvBuffer \o (wire \o t) = front \o t
    <3>1. recvBuffer \in Seq(Byte) /\ wire \in Seq(Byte) /\ t \in Seq(Byte)
      BY <1>1, <2>2
    <3> QED
      BY <3>1, Regroup
  <2>5. InFlight = front
    BY <1>1, <1>7, ConcatEmptySeq
  <2> HIDE DEF front
  <2>6. (front \o t) \o d = front \o (t \o d)
    <3>1. front \in Seq(Byte) /\ t \in Seq(Byte) /\ d \in Seq(Byte)
      BY <1>1, <2>2
    <3> QED
      BY <3>1, Regroup
  <2> QED
    BY <2>2, <2>3, <2>4, <2>5, <2>6
<1>8. CASE /\ sendBuffer # <<>>
           /\ UNCHANGED wire
           /\ IF Fits(sendBuffer, b)
              THEN /\ sendBuffer' = sendBuffer \o b
                   /\ accepted' = Append(accepted, offered + 1)
              ELSE UNCHANGED <<sendBuffer, accepted>>
  BY <1>5, <1>6, <1>8 DEF b
<1>9. CASE /\ sendBuffer = <<>>
           /\ \E n \in 0..FrameSize :
                /\ n <= Room
                /\ wire' = wire \o Take(b, n)
                /\ sendBuffer' = Drop(b, n)
           /\ accepted' = Append(accepted, offered + 1)
  BY <1>7, <1>9 DEF b
<1> QED
  BY <1>4, <1>8, <1>9, Zenon DEF Queued, OnWire, b

LEMMA FlushFlight ==
    ASSUME StreamInv, Flush
    PROVE  InFlight' = InFlight
<1>0. CASE ~receiverOpen
  BY <1>0 DEF Flush, receiver, InFlight
<1> SUFFICES ASSUME receiverOpen PROVE InFlight' = InFlight
  BY <1>0
<1> DEFINE front == recvBuffer \o wire
<1>1. PICK n \in 1..Len(sendBuffer) :
        /\ wire' = wire \o Take(sendBuffer, n)
        /\ sendBuffer' = Drop(sendBuffer, n)
  BY DEF Flush, OnWire
<1>2. /\ sendBuffer \in Seq(Byte) /\ wire \in Seq(Byte)
      /\ recvBuffer \in Seq(Byte) /\ InFlight = front \o sendBuffer
      /\ front \in Seq(Byte)
  BY FlightType, ConcatProperties
<1>3. recvBuffer' = recvBuffer /\ InFlight' = (recvBuffer' \o wire') \o sendBuffer'
  BY DEF Flush, receiver, InFlight
<1> DEFINE t == Take(sendBuffer, n)
           d == Drop(sendBuffer, n)
<1>4. t \in Seq(Byte) /\ d \in Seq(Byte) /\ t \o d = sendBuffer
  <2>1. n \in 0..Len(sendBuffer)
    BY <1>2
  <2> QED
    BY <1>2, <2>1, TakeType, DropType, SplitSeq
<1>5. InFlight' = (recvBuffer \o (wire \o t)) \o d
  BY <1>1, <1>3
<1> HIDE DEF t, d
<1>6. recvBuffer \o (wire \o t) = front \o t
  <2>1. recvBuffer \in Seq(Byte) /\ wire \in Seq(Byte) /\ t \in Seq(Byte)
    BY <1>2, <1>4
  <2> QED
    BY <2>1, Regroup
<1> HIDE DEF front
<1>7. (front \o t) \o d = front \o (t \o d)
  <2>1. front \in Seq(Byte) /\ t \in Seq(Byte) /\ d \in Seq(Byte)
    BY <1>2, <1>4
  <2> QED
    BY <2>1, Regroup
<1> QED
  BY <1>2, <1>4, <1>5, <1>6, <1>7

\* A read cuts what is in flight into the bytes it parses and the rest.
LEMMA ReadFlight ==
    ASSUME StreamInv, Read
    PROVE  \E buffer, rest \in Seq(Byte) :
              /\ Len(buffer) < 2 * FrameSize
              /\ InFlight = buffer \o rest
              /\ InFlight' = Unread(buffer) \o rest
              /\ delivered' = delivered \o Found(buffer)
<1>1. PICK n \in 1..FrameSize :
        /\ n <= Len(wire)
        /\ wire' = Drop(wire, n)
        /\ IF Fits(recvBuffer, Take(wire, n))
           THEN /\ delivered' = delivered \o Found(recvBuffer \o Take(wire, n))
                /\ recvBuffer' = Unread(recvBuffer \o Take(wire, n))
           ELSE recvBuffer' = <<>> /\ UNCHANGED delivered
  BY DEF Read
<1>2. /\ sendBuffer \in Seq(Byte) /\ wire \in Seq(Byte)
      /\ recvBuffer \in Seq(Byte) /\ Len(recvBuffer) < FrameSize
      /\ Len(recvBuffer) \in Nat /\ Len(wire) \in Nat
      /\ FrameSize \in Nat \ {0}
      /\ InFlight = recvBuffer \o (wire \o sendBuffer)
  BY FlightType, LenProperties, StreamAssumption
  DEF StreamInv, RecvBufferBounded, Read
<1>3. n \in Nat /\ n <= FrameSize /\ n \in 0..Len(wire)
  BY <1>1, <1>2
<1> DEFINE t == Take(wire, n)
           d == Drop(wire, n)
           buffer == recvBuffer \o t
           rest == d \o sendBuffer
<1>4. t \in Seq(Byte) /\ Len(t) = n /\ d \in Seq(Byte) /\ t \o d = wire
  BY <1>2, <1>3, TakeType, DropType, SplitSeq
<1>5. Fits(recvBuffer, t)
  BY <1>2, <1>3, <1>4 DEF Fits, Capacity
<1>6. /\ delivered' = delivered \o Found(buffer)
      /\ recvBuffer' = Unread(buffer) /\ wire' = d
  BY <1>1, <1>5
<1>7. InFlight' = (recvBuffer' \o wire') \o sendBuffer
  BY DEF Read, sender, InFlight
<1> HIDE DEF t, d
<1>8. /\ buffer \in Seq(Byte) /\ Len(buffer) = Len(recvBuffer) + n
      /\ rest \in Seq(Byte)
  BY <1>2, <1>4, ConcatProperties
<1>9. Len(buffer) < 2 * FrameSize
  BY <1>2, <1>3, <1>8
<1>10. InFlight = buffer \o rest
  <2>1. wire \o sendBuffer = t \o rest
    <3>1. t \in Seq(Byte) /\ d \in Seq(Byte) /\ sendBuffer \in Seq(Byte)
      BY <1>2, <1>4
    <3>2. t \o (d \o sendBuffer) = (t \o d) \o sendBuffer
      BY <3>1, Regroup
    <3> QED
      BY <1>4, <3>2
  <2>2. InFlight = recvBuffer \o (t \o rest)
    BY <1>2, <2>1
  <2> HIDE DEF rest
  <2>3. recvBuffer \o (t \o rest) = buffer \o rest
    <3>1. recvBuffer \in Seq(Byte) /\ t \in Seq(Byte) /\ rest \in Seq(Byte)
      BY <1>2, <1>4, <1>8
    <3> QED
      BY <3>1, Regroup
  <2> QED
    BY <2>2, <2>3
<1>11. InFlight' = Unread(buffer) \o rest
  <2>1. InFlight' = (Unread(buffer) \o d) \o sendBuffer
    BY <1>6, <1>7
  <2>2. Unread(buffer) \in Seq(Byte)
    BY <1>8, <1>9, ExtractionBound
  <2> HIDE DEF buffer
  <2>3. (Unread(buffer) \o d) \o sendBuffer = Unread(buffer) \o rest
    <3>1. /\ Unread(buffer) \in Seq(Byte)
          /\ d \in Seq(Byte) /\ sendBuffer \in Seq(Byte)
      BY <1>2, <1>4, <2>2
    <3> QED
      BY <3>1, Regroup
  <2> QED
    BY <2>1, <2>3
<1> HIDE DEF buffer, rest
<1> QED
  BY <1>6, <1>8, <1>9, <1>10, <1>11

LEMMA ClosedFlight ==
    ASSUME StreamInv, ChannelInv, CloseSender \/ EndOfFile \/ Hangup
    PROVE  /\ \E rest \in Seq(Byte) : InFlight = InFlight' \o rest
           /\ InFlight' \in Seq(Byte)
           /\ senderOpen' => InFlight' = <<>> /\ ~receiverOpen'
           /\ ~senderOpen' => sendBuffer' = <<>>
           /\ UNCHANGED <<offered, delivered, accepted>>
<1>1. /\ sendBuffer \in Seq(Byte) /\ wire \in Seq(Byte)
      /\ recvBuffer \in Seq(Byte) /\ recvBuffer \o wire \in Seq(Byte)
      /\ InFlight \in Seq(Byte)
      /\ receiverOpen => InFlight = (recvBuffer \o wire) \o sendBuffer
  BY FlightType, ConcatProperties
<1>2. <<>> \in Seq(Byte) /\ InFlight = <<>> \o InFlight
  BY <1>1, EmptySeq, ConcatEmptySeq
<1>3. CASE CloseSender /\ receiverOpen
  <2>1. /\ recvBuffer' = recvBuffer /\ wire' = wire /\ sendBuffer' = <<>>
        /\ senderOpen' = FALSE /\ receiverOpen'
        /\ UNCHANGED <<offered, delivered, accepted>>
    BY <1>3 DEF CloseSender, receiver
  <2>2. InFlight' = (recvBuffer \o wire) \o <<>>
    BY <2>1 DEF InFlight
  <2>3. InFlight' = recvBuffer \o wire
    BY <1>1, <2>2, ConcatEmptySeq
  <2> QED
    BY <1>1, <1>3, <2>1, <2>3
<1>4. CASE EndOfFile \/ Hangup \/ (CloseSender /\ ~receiverOpen)
  <2>1. /\ ~receiverOpen' /\ UNCHANGED <<offered, delivered, accepted>>
        /\ ~senderOpen' => sendBuffer' = <<>>
    <3>1. CASE EndOfFile
      BY <3>1 DEF EndOfFile, sender, ChannelInv
    <3>2. CASE Hangup
      BY <3>2 DEF Hangup, sender, ChannelInv
    <3>3. CASE CloseSender /\ ~receiverOpen
      BY <3>3 DEF CloseSender, receiver
    <3> QED
      BY <1>4, <3>1, <3>2, <3>3
  <2>2. InFlight' = <<>>
    BY <2>1 DEF InFlight
  <2> QED
    BY <1>1, <1>2, <2>1, <2>2
<1> QED
  BY <1>3, <1>4

LEMMA BoundedParts ==
    ASSUME NEW s \in Seq(Byte), NEW t \in Seq(Byte), NEW k \in Nat,
           \A i \in 1..Len(s \o t) : (s \o t)[i][1] <= k
    PROVE  /\ \A i \in 1..Len(s) : s[i][1] <= k
           /\ \A i \in 1..Len(t) : t[i][1] <= k
           /\ Complete(s \o t) => Complete(t)
<1> DEFINE u == s \o t
           m == Len(s)
           n == Len(t)
<1>1. /\ m \in Nat /\ n \in Nat /\ u \in Seq(Byte) /\ Len(u) = m + n
      /\ \A i \in 1..(m + n) : u[i] = IF i <= m THEN s[i] ELSE t[i - m]
      /\ \A i \in 1..Len(u) : u[i][1] <= k
  BY ConcatProperties
<1>2. (t # <<>> <=> n >= 1) /\ (u # <<>> <=> Len(u) >= 1)
  BY <1>1, EmptyOrNot
<1> HIDE DEF u
<1>3. \A i \in 1..m : s[i][1] <= k
  <2> SUFFICES ASSUME NEW i \in 1..m PROVE s[i][1] <= k
    OBVIOUS
  <2>1. i \in 1..(m + n) /\ i <= m /\ i \in 1..Len(u)
    BY <1>1
  <2>2. u[i] = s[i] /\ u[i][1] <= k
    BY <1>1, <2>1
  <2> QED
    BY <2>2
<1>4. \A i \in 1..n : u[m + i] = t[i] /\ m + i \in 1..Len(u)
  <2> SUFFICES ASSUME NEW i \in 1..n
               PROVE  u[m + i] = t[i] /\ m + i \in 1..Len(u)
    OBVIOUS
  <2>1. m + i \in 1..(m + n) /\ ~(m + i <= m) /\ (m + i) - m = i
    BY <1>1
  <2> HIDE DEF m, n
  <2> QED
    BY <1>1, <2>1
<1>5. \A i \in 1..n : t[i][1] <= k
  BY <1>1, <1>4
<1>6. Complete(u) => Complete(t)
  <2> SUFFICES ASSUME Complete(u), t # <<>> PROVE t[n][2] = FrameSize
    BY DEF Complete
  <2>1. n \in 1..n /\ u # <<>>
    BY <1>1, <1>2
  <2>2. u[m + n] = t[n] /\ u[Len(u)][2] = FrameSize
    BY <1>4, <2>1 DEF Complete
  <2> QED
    BY <1>1, <2>2
<1> QED
  BY <1>3, <1>5, <1>6 DEF u

\* FrameStream's parser: the bytes of a frame are a frame exactly when they
\* are not corrupt, for two frames share no byte.
LEMMA FrameIsFrame ==
    ASSUME NEW f \in 1..MaxFrames
    PROVE  IsFrame(Bytes(f)) <=> f \notin Corrupt
<1>1. ASSUME NEW g \in 1..MaxFrames, Bytes(g) = Bytes(f)
      PROVE  g = f
  <2>1. 1 \in 1..FrameSize
    BY StreamAssumption
  <2>2. Bytes(g)[1] = <<g, 1>> /\ Bytes(f)[1] = <<f, 1>>
    BY <2>1 DEF Bytes
  <2>3. <<g, 1>> = <<f, 1>>
    BY <1>1, <2>2
  <2> QED
    BY <2>3
<1> QED
  BY <1>1, Zenon DEF IsFrame

\* The first part of a joined sequence, and the second.
LEMMA JoinedParts ==
    ASSUME NEW S, NEW s \in Seq(S), NEW t \in Seq(S)
    PROVE  /\ SubSeq(s \o t, 1, Len(s)) = s
           /\ SubSeq(s \o t, Len(s) + 1, Len(s \o t)) = t
           /\ Len(s) \in 0..Len(s \o t)
<1>1. /\ Len(s) \in Nat /\ Len(t) \in Nat /\ Len(s \o t) = Len(s) + Len(t)
      /\ SubSeq(s, 1, Len(s)) = s
  BY SubSeqFull
<1>2. SubSeq(s \o t, 1, Len(s)) = SubSeq(s, 1, Len(s))
  BY <1>1, CutInside
<1>3. SubSeq(s \o t, Len(s) + 1, Len(s) + Len(t)) = t
  BY CutBehind
<1> QED
  BY <1>1, <1>2, <1>3

\* A frame behind those in flight, or nothing new.
LEMMA SendFrameChannel ==
    ASSUME StreamInv, ChannelInv, SendFrame
    PROVE  /\ ChannelInv' /\ [Channel!ChannelNext]_(Channel!channel)
           /\ \/ FramesIn(InFlight)' = FramesIn(InFlight)
                 /\ accepted' = accepted
              \/ /\ receiverOpen
                 /\ FramesIn(InFlight)' = Append(FramesIn(InFlight), offered + 1)
                 /\ accepted' = Append(accepted, offered + 1)
              \/ /\ ~receiverOpen
                 /\ FramesIn(InFlight)' = FramesIn(InFlight)
                 /\ accepted' = Append(accepted, offered + 1)
<1> DEFINE f == offered + 1
<1>1. /\ f \in 1..MaxFrames /\ offered \in Nat /\ offered' = f
      /\ senderOpen /\ senderOpen' /\ UNCHANGED delivered
  BY StreamAssumption
  DEF SendFrame, StreamInv, StreamTypeOK, receiver
<1>2. InFlight \in Seq(Byte)
  BY FlightType
<1>3. /\ Aligned(InFlight) /\ Complete(InFlight)
      /\ \A i \in 1..Len(InFlight) : InFlight[i][1] <= offered
  BY <1>1 DEF ChannelInv
<1>4. CASE /\ InFlight' = InFlight
           /\ \/ accepted' = accepted
              \/ ~receiverOpen /\ accepted' = Append(accepted, f)
  <2>1. \A i \in 1..Len(InFlight) : InFlight[i][1] <= offered + 1
    <3> SUFFICES ASSUME NEW i \in 1..Len(InFlight)
                 PROVE  InFlight[i][1] <= offered + 1
      OBVIOUS
    <3>1. InFlight[i][1] \in Nat /\ InFlight[i][1] <= offered
      BY <1>2, <1>3, ByteFacts
    <3> QED
      BY <1>1, <3>1
  <2>2. ChannelInv'
    <3> HIDE DEF f
    <3> QED
      BY <1>1, <1>3, <1>4, <2>1 DEF ChannelInv, Aligned, Complete, f
  <2>3. FramesIn(InFlight)' = FramesIn(InFlight)
    BY <1>4 DEF FramesIn
  <2> QED
    BY <1>1, <1>4, <2>2, <2>3 DEF Channel!channel
<1>5. CASE /\ receiverOpen
           /\ InFlight' = InFlight \o Bytes(f)
           /\ accepted' = Append(accepted, f)
  <2>1. /\ Bytes(f) \in Seq(Byte) /\ Len(Bytes(f)) = FrameSize
        /\ FrameSize \in Nat \ {0}
        /\ Aligned(Bytes(f)) /\ Complete(Bytes(f))
        /\ \A i \in 1..FrameSize : Bytes(f)[i] = <<f, i>>
    BY <1>1, BytesType, AlignedBytes, StreamAssumption
  <2> DEFINE b == Bytes(f)
             s == InFlight
  <2>2. s # <<>> => b[1][1] > s[Len(s)][1]
    <3> SUFFICES ASSUME s # <<>> PROVE b[1][1] > s[Len(s)][1]
      OBVIOUS
    <3>1. Len(s) \in 1..Len(s) /\ 1 \in 1..FrameSize
      BY <1>2, <2>1, EmptyOrNot
    <3>2. b[1][1] = f
      BY <2>1, <3>1
    <3>3. s[Len(s)][1] \in Nat /\ s[Len(s)][1] <= offered
      BY <1>2, <1>3, <3>1, ByteFacts
    <3> QED
      BY <1>1, <3>2, <3>3
  <2> HIDE DEF f, b
  <2>3. Aligned(s \o b) /\ Complete(s \o b)
    BY <1>2, <1>3, <2>1, <2>2, AlignedJoined DEF b
  <2>4. \A i \in 1..Len(s \o b) : (s \o b)[i][1] <= f
    <3>1. /\ Len(s \o b) = Len(s) + FrameSize /\ Len(s) \in Nat
          /\ \A i \in 1..(Len(s) + FrameSize) :
                (s \o b)[i] = IF i <= Len(s) THEN s[i] ELSE b[i - Len(s)]
      <4>1. s \in Seq(Byte) /\ b \in Seq(Byte) /\ Len(b) = FrameSize
        BY <1>2, <2>1 DEF b
      <4> HIDE DEF s
      <4>2. /\ Len(s \o b) = Len(s) + Len(b)
            /\ \A i \in 1..(Len(s) + Len(b)) :
                  (s \o b)[i] = IF i <= Len(s) THEN s[i] ELSE b[i - Len(s)]
        BY <4>1, ConcatProperties
      <4>3. Len(s) \in Nat
        BY <4>1, LenProperties
      <4> QED
        BY <4>1, <4>2, <4>3, Zenon
    <3> SUFFICES ASSUME NEW i \in 1..(Len(s) + FrameSize)
                 PROVE  (s \o b)[i][1] <= f
      BY <3>1
    <3>2. CASE i <= Len(s)
      <4>1. i \in 1..Len(s)
        BY <3>1, <3>2
      <4>2. s[i][1] \in Nat /\ s[i][1] <= offered /\ (s \o b)[i] = s[i]
        BY <1>2, <1>3, <3>1, <3>2, <4>1, ByteFacts
      <4>3. s[i][1] <= f
        BY <1>1, <4>2 DEF f
      <4> QED
        BY <4>2, <4>3
    <3>3. CASE ~(i <= Len(s))
      <4>1. i - Len(s) \in 1..FrameSize
        BY <2>1, <3>1, <3>3
      <4>2. (s \o b)[i] = <<f, i - Len(s)>>
        BY <2>1, <3>1, <3>3, <4>1 DEF b
      <4> QED
        BY <1>1, <4>2
    <3> QED
      BY <3>2, <3>3
  <2>5. ChannelInv'
    BY <1>1, <1>5, <2>3, <2>4 DEF ChannelInv, Aligned, Complete, b
  <2>6. FramesIn(s \o b) = Append(FramesIn(s), f)
    <3>1. FramesIn(s \o b) = FramesIn(s) \o FramesIn(b)
      BY <1>2, <2>1, FramesInJoined DEF b
    <3>2. FramesIn(b) = <<f>>
      BY <1>1, FramesInOne DEF b
    <3>3. FramesIn(s) \in Seq(1..MaxFrames)
      BY <1>2, FramesInType
    <3>4. Append(FramesIn(s), f) = FramesIn(s) \o <<f>>
      BY <1>1, <3>3, AppendIsConcat
    <3> QED
      BY <3>1, <3>2, <3>4
  <2>7. FramesIn(InFlight)' = Append(FramesIn(InFlight), f)
    <3>1. FramesIn(InFlight)' = FramesIn(s \o b)
      BY <1>5 DEF FramesIn, b
    <3> QED
      BY <2>6, <3>1
  <2>8. Channel!Put(f)
    BY <1>1, <2>7 DEF Channel!Put
  <2>9. Channel!ChannelNext
    BY <1>1, <2>8 DEF Channel!ChannelNext
  <2> QED
    BY <1>5, <2>5, <2>7, <2>9 DEF f
<1>6. ASSUME ~receiverOpen
      PROVE  /\ InFlight' = InFlight
             /\ accepted' = accepted \/ accepted' = Append(accepted, f)
  BY <1>6 DEF SendFrame, Queued, receiver, InFlight
<1> QED
  BY <1>4, <1>5, <1>6, SendFrameFlight

\* One read delivers the first frame in flight, or no frame.  The corrupt
\* frame, which is the last, takes nothing with it.
LEMMA ReadChannel ==
    ASSUME StreamInv, ChannelInv, Corrupt \subseteq {MaxFrames}, Read
    PROVE  /\ ChannelInv' /\ [Channel!ChannelNext]_(Channel!channel)
           /\ \/ delivered' \o FramesIn(InFlight)'
                   = delivered \o FramesIn(InFlight)
              \/ /\ offered = MaxFrames
                 /\ delivered' = delivered /\ FramesIn(InFlight)' = <<>>
<1>1. /\ UNCHANGED <<senderOpen, sendBuffer, offered>>
      /\ offered \in Nat /\ offered <= MaxFrames /\ MaxFrames \in Nat
      /\ FrameSize \in Nat \ {0}
  BY StreamAssumption DEF Read, sender, StreamInv, StreamTypeOK
<1>2. PICK buffer \in Seq(Byte), rest \in Seq(Byte) :
         /\ Len(buffer) < 2 * FrameSize
         /\ InFlight = buffer \o rest
         /\ InFlight' = Unread(buffer) \o rest
         /\ delivered' = delivered \o Found(buffer)
  BY ReadFlight
<1>3. delivered \in Seq(1..MaxFrames) /\ delivered \o <<>> = delivered
  BY ConcatEmptySeq DEF StreamInv, StreamTypeOK
<1>4. /\ Aligned(InFlight)
      /\ senderOpen => Complete(InFlight)
      /\ ~senderOpen => sendBuffer = <<>>
      /\ \A i \in 1..Len(InFlight) : InFlight[i][1] <= offered
  BY DEF ChannelInv
<1>5. CASE Len(buffer) < FrameSize
  <2>1. Found(buffer) = <<>> /\ Unread(buffer) = buffer
    BY <1>2, <1>5, ExtractionResult
  <2>2. InFlight' = InFlight /\ delivered' = delivered
    BY <1>2, <1>3, <2>1
  <2>3. ChannelInv'
    BY <1>1, <1>4, <2>2 DEF ChannelInv, Aligned, Complete
  <2>4. FramesIn(InFlight)' = FramesIn(InFlight)
    BY <2>2 DEF FramesIn
  <2> QED
    BY <2>2, <2>3, <2>4 DEF Channel!channel
<1>6. CASE Len(buffer) >= FrameSize
  <2> DEFINE head == Take(buffer, FrameSize)
             tail == Drop(buffer, FrameSize)
             left == tail \o rest
             f == buffer[1][1]
  <2>1. /\ head \in Seq(Byte) /\ Len(head) = FrameSize
        /\ tail \in Seq(Byte) /\ head \o tail = buffer
    <3>1. FrameSize \in 0..Len(buffer)
      BY <1>1, <1>2, <1>6
    <3> QED
      BY <1>2, <3>1, TakeType, DropType, SplitSeq
  <2>2. f \in 1..MaxFrames /\ head = Bytes(f)
    <3>1. Aligned(buffer)
      BY <1>2, <1>4, AlignedParts
    <3> QED
      BY <1>2, <1>6, <3>1, FirstFrame
  <2>3. /\ Complete(head) /\ head # <<>>
        /\ head[1] = <<f, 1>> /\ head[FrameSize] = <<f, FrameSize>>
    <3>1. 1 \in 1..FrameSize /\ FrameSize \in 1..FrameSize
      BY <1>1
    <3>2. Complete(Bytes(f)) /\ \A i \in 1..FrameSize : Bytes(f)[i] = <<f, i>>
      BY <2>2, AlignedBytes
    <3>3. head # <<>>
      BY <1>1, <2>1, EmptyOrNot
    <3> QED
      BY <2>2, <3>1, <3>2, <3>3, Zenon
  <2> HIDE DEF head, tail, f
  <2>4. left \in Seq(Byte) /\ InFlight = head \o left
    <3>1. left \in Seq(Byte)
      BY <1>2, <2>1, ConcatProperties
    <3>2. head \o (tail \o rest) = (head \o tail) \o rest
      <4>1. head \in Seq(Byte) /\ tail \in Seq(Byte) /\ rest \in Seq(Byte)
        BY <1>2, <2>1
      <4> QED
        BY <4>1, Regroup
    <3> QED
      BY <1>2, <2>1, <3>1, <3>2
  <2>5. /\ Aligned(left)
        /\ left # <<>> => left[1][1] > f
        /\ senderOpen => Complete(left)
        /\ \A i \in 1..Len(left) : left[i][1] <= offered
    <3> HIDE DEF left
    <3>1. /\ Aligned(head \o left)
          /\ senderOpen => Complete(head \o left)
          /\ \A i \in 1..Len(head \o left) : (head \o left)[i][1] <= offered
      BY <1>4, <2>4, Zenon
    <3>2. /\ Aligned(left)
          /\ left # <<>> => left[1][1] > head[Len(head)][1]
      BY <2>1, <2>3, <2>4, <3>1, AlignedParts
    <3>3. /\ \A i \in 1..Len(left) : left[i][1] <= offered
          /\ Complete(head \o left) => Complete(left)
      BY <1>1, <2>1, <2>4, <3>1, BoundedParts
    <3> QED
      BY <2>1, <2>3, <3>1, <3>2, <3>3
  <2> DEFINE queue == FramesIn(InFlight)
  <2>6. queue = <<f>> \o FramesIn(left)
    <3>1. FramesIn(head \o left) = FramesIn(head) \o FramesIn(left)
      <4> HIDE DEF left
      <4> QED
        BY <2>1, <2>4, FramesInJoined
    <3>2. FramesIn(head) = <<f>>
      BY <2>2, FramesInOne
    <3> QED
      BY <2>4, <3>1, <3>2
  <2>7. <<f>> \in Seq(1..MaxFrames) /\ FramesIn(left) \in Seq(1..MaxFrames)
    <3> HIDE DEF left
    <3> QED
      BY <2>2, <2>4, FramesInType
  <2>8. CASE f \notin Corrupt
    <3>1. Found(buffer) = <<f>> /\ Unread(buffer) = tail
      <4>1. IsFrame(head)
        BY <2>2, <2>8, FrameIsFrame
      <4>2. /\ Found(buffer) = <<head[1][1]>>
            /\ Unread(buffer) = tail
        BY <1>2, <1>6, <4>1, ExtractionResult DEF head, tail
      <4> QED
        BY <2>3, <4>2
    <3>2. InFlight' = left /\ delivered' = delivered \o <<f>>
      BY <1>2, <3>1
    <3>3. ChannelInv'
      <4> HIDE DEF left
      <4> QED
        BY <1>1, <1>4, <2>5, <3>2 DEF ChannelInv, Aligned, Complete
    <3>4. Channel!Deliver
      <4> DEFINE q == FramesIn(left)
      <4>1. /\ SubSeq(queue, 1, Len(<<f>>)) = <<f>>
            /\ SubSeq(queue, Len(<<f>>) + 1, Len(queue)) = q
            /\ Len(<<f>>) \in 0..Len(queue) /\ Len(queue) \in Nat
        <5> HIDE DEF q
        <5>1. <<f>> \in Seq(1..MaxFrames) /\ q \in Seq(1..MaxFrames)
          BY <2>7 DEF q
        <5>2. /\ SubSeq(<<f>> \o q, 1, Len(<<f>>)) = <<f>>
              /\ SubSeq(<<f>> \o q, Len(<<f>>) + 1, Len(<<f>> \o q)) = q
              /\ Len(<<f>>) \in 0..Len(<<f>> \o q)
          BY <5>1, JoinedParts, Zenon
        <5>3. <<f>> \o q \in Seq(1..MaxFrames)
          BY <5>1, ConcatProperties
        <5>4. queue = <<f>> \o q
          BY <2>6 DEF q
        <5> HIDE DEF queue
        <5>5. Len(queue) \in Nat
          BY <5>3, <5>4, LenProperties
        <5> QED
          BY <5>2, <5>4, <5>5, Zenon
      <4>2. Len(<<f>>) = 1
        OBVIOUS
      <4>3. /\ SubSeq(queue, 1, 1) = <<f>>
            /\ SubSeq(queue, 1 + 1, Len(queue)) = q
            /\ 1 \in 1..Len(queue)
        BY <4>1, <4>2
      <4>4. /\ FramesIn(InFlight)' = q
            /\ delivered' = delivered \o <<f>>
        BY <3>2 DEF FramesIn
      <4> HIDE DEF q, queue
      <4>5. \E n \in 1..Len(queue) :
              /\ delivered' = delivered \o SubSeq(queue, 1, n)
              /\ FramesIn(InFlight)' = SubSeq(queue, n + 1, Len(queue))
        BY <4>3, <4>4
      <4> QED
        BY <4>5 DEF Channel!Deliver, queue
    <3>5. delivered' \o FramesIn(InFlight)' = delivered \o queue
      <4> DEFINE q == FramesIn(left)
      <4>1. FramesIn(InFlight)' = q
        BY <3>2 DEF FramesIn
      <4>2. <<f>> \in Seq(1..MaxFrames) /\ q \in Seq(1..MaxFrames)
        BY <2>7
      <4>3. queue = <<f>> \o q
        BY <2>6
      <4> HIDE DEF q, queue
      <4>4. delivered \o (<<f>> \o q) = (delivered \o <<f>>) \o q
        <5>1. /\ delivered \in Seq(1..MaxFrames)
              /\ <<f>> \in Seq(1..MaxFrames) /\ q \in Seq(1..MaxFrames)
          BY <1>3, <4>2
        <5> QED
          BY <5>1, FramesRegroup
      <4> QED
        BY <3>2, <4>1, <4>3, <4>4, Zenon
    <3> QED
      BY <3>3, <3>4, <3>5 DEF Channel!ChannelNext
  <2>9. CASE f \in Corrupt
    <3>1. f = MaxFrames
      BY <2>9
    <3>2. Found(buffer) = <<>> /\ Unread(buffer) = <<>>
      <4>1. ~IsFrame(head)
        BY <2>2, <2>9, FrameIsFrame
      <4> QED
        BY <1>2, <1>6, <4>1, ExtractionResult DEF head
    <3>3. left = <<>>
      <4> HIDE DEF left
      <4> SUFFICES ASSUME left # <<>> PROVE FALSE
        OBVIOUS
      <4>1. 1 \in 1..Len(left)
        BY <2>4, EmptyOrNot
      <4>2. left[1][1] \in 1..MaxFrames
        BY <2>4, <4>1, ByteFacts
      <4> QED
        BY <1>1, <2>5, <3>1, <4>2
    <3>4. rest = <<>>
      BY <1>2, <2>1, <3>3, ConcatEqualIffEmpty
    <3>5. InFlight' = <<>> /\ delivered' = delivered
      BY <1>2, <1>3, <3>2, <3>4, ConcatEmptySeq
    <3>6. ChannelInv'
      <4>1. Len(<<>>) = 0
        OBVIOUS
      <4> QED
        BY <1>1, <1>4, <3>5, <4>1 DEF ChannelInv, Aligned, Complete
    <3>7. FramesIn(InFlight)' = <<>>
      <4>1. FramesIn(InFlight)' = FramesIn(<<>>)
        BY <3>5 DEF FramesIn
      <4> QED
        BY <4>1, FramesInNone
    <3>8. offered = MaxFrames
      <4>1. Len(head \o left) >= 1 /\ (head \o left)[1] = head[1]
        BY <1>1, <2>1, <2>4, ConcatProperties
      <4>2. InFlight[1] = <<f, 1>> /\ 1 \in 1..Len(InFlight)
        BY <2>3, <2>4, <4>1
      <4>3. f <= offered
        BY <1>4, <4>2
      <4> QED
        BY <1>1, <3>1, <4>3
    <3>9. Channel!LoseTail
      <4>1. Len(queue) \in Nat
        BY <2>6, <2>7, ConcatProperties
      <4>2. SubSeq(queue, 1, 0) = <<>> /\ 0 \in 0..Len(queue)
        BY <4>1, SubSeqEmpty
      <4> HIDE DEF queue
      <4>3. \E n \in 0..Len(queue) : FramesIn(InFlight)' = SubSeq(queue, 1, n)
        BY <3>7, <4>2
      <4> QED
        BY <3>5, <4>3 DEF Channel!LoseTail, queue
    <3> QED
      BY <3>5, <3>6, <3>7, <3>8, <3>9 DEF Channel!ChannelNext
  <2> QED
    BY <2>8, <2>9
<1>7. Len(buffer) < FrameSize \/ Len(buffer) >= FrameSize
  BY <1>1, <1>2
<1> QED
  BY <1>5, <1>6, <1>7, Zenon

LEMMA ClosedChannel ==
    ASSUME StreamInv, ChannelInv, CloseSender \/ EndOfFile \/ Hangup
    PROVE  /\ ChannelInv' /\ [Channel!ChannelNext]_(Channel!channel)
           /\ \E lost \in Seq(1..MaxFrames) :
                FramesIn(InFlight) = FramesIn(InFlight)' \o lost
           /\ FramesIn(InFlight)' \in Seq(1..MaxFrames)
<1>1. PICK rest \in Seq(Byte) : InFlight = InFlight' \o rest
  BY ClosedFlight
<1>2. /\ InFlight' \in Seq(Byte)
      /\ senderOpen' => InFlight' = <<>>
      /\ ~senderOpen' => sendBuffer' = <<>>
      /\ UNCHANGED <<offered, delivered>>
  BY ClosedFlight
<1>3. offered \in Nat
  BY DEF StreamInv, StreamTypeOK
<1> DEFINE s == InFlight'
<1>4. /\ Aligned(s \o rest)
      /\ \A i \in 1..Len(s \o rest) : (s \o rest)[i][1] <= offered
  BY <1>1, Zenon DEF ChannelInv
<1> HIDE DEF s
<1>5. s \in Seq(Byte)
  BY <1>2 DEF s
<1>6. Aligned(s) /\ \A i \in 1..Len(s) : s[i][1] <= offered
  BY <1>3, <1>4, <1>5, AlignedParts, BoundedParts
<1>7. ChannelInv'
  BY <1>2, <1>6 DEF s, ChannelInv, Aligned, Complete
<1> DEFINE queue == FramesIn(InFlight)
<1>8. queue = FramesIn(s) \o FramesIn(rest)
  BY <1>1, <1>5, FramesInJoined DEF s
<1>9. FramesIn(s) \in Seq(1..MaxFrames) /\ FramesIn(rest) \in Seq(1..MaxFrames)
  BY <1>5, FramesInType
<1>10. /\ SubSeq(queue, 1, Len(FramesIn(s))) = FramesIn(s)
       /\ Len(FramesIn(s)) \in 0..Len(queue)
  BY <1>8, <1>9, JoinedParts
<1>11. FramesIn(InFlight)' = FramesIn(s)
  BY DEF s, FramesIn
<1> HIDE DEF queue
<1>12. \E n \in 0..Len(queue) : FramesIn(InFlight)' = SubSeq(queue, 1, n)
  BY <1>10, <1>11
<1>13. Channel!LoseTail
  BY <1>2, <1>12 DEF Channel!LoseTail, queue
<1> QED
  BY <1>7, <1>8, <1>9, <1>11, <1>13 DEF Channel!ChannelNext, queue

LEMMA ChannelStart == Init => ChannelInv /\ Channel!ChannelInit
<1> SUFFICES ASSUME Init PROVE ChannelInv /\ Channel!ChannelInit
  OBVIOUS
<1>1. <<>> \in Seq(Byte) /\ <<>> \o <<>> = <<>> /\ Len(<<>>) = 0
  BY EmptySeq, ConcatEmptySeq
<1>2. InFlight = <<>> /\ senderOpen = TRUE /\ delivered = <<>>
  BY <1>1 DEF Init, InFlight
<1>3. ChannelInv
  BY <1>1, <1>2 DEF ChannelInv, Aligned, Complete
<1>4. FramesIn(InFlight) = <<>>
  BY <1>2, FramesInNone
<1> QED
  BY <1>2, <1>3, <1>4 DEF Channel!ChannelInit

LEMMA ChannelStep ==
    ASSUME StreamInv, ChannelInv, Corrupt \subseteq {MaxFrames}, [Next]_vars
    PROVE  ChannelInv' /\ [Channel!ChannelNext]_(Channel!channel)
<1>1. CASE SendFrame
  BY <1>1, SendFrameChannel
<1>2. CASE Flush
  <2>1. /\ InFlight' = InFlight
        /\ UNCHANGED <<senderOpen, offered, delivered>> /\ senderOpen
    BY <1>2, FlushFlight DEF Flush, receiver
  <2>2. ChannelInv'
    BY <2>1 DEF ChannelInv, Aligned, Complete
  <2> QED
    BY <2>1, <2>2 DEF Channel!channel
<1>3. CASE CloseSender \/ EndOfFile \/ Hangup
  BY <1>3, ClosedChannel
<1>4. CASE Read
  BY <1>4, ReadChannel
<1>5. CASE UNCHANGED vars
  <2>1. /\ InFlight' = InFlight
        /\ UNCHANGED <<senderOpen, offered, delivered, sendBuffer>>
    BY <1>5 DEF vars, sender, receiver, InFlight
  <2>2. ChannelInv'
    BY <2>1 DEF ChannelInv, Aligned, Complete
  <2> QED
    BY <2>1, <2>2 DEF Channel!channel
<1> QED
  BY <1>1, <1>2, <1>3, <1>4, <1>5 DEF Next

\* Bytes that are sent in pieces, wait in two buffers and are cut anywhere
\* come out as the frames that went in: whole, once, in order, and from the
\* oldest to the last that is not lost, when at most the last frame is
\* corrupt.  This code sends no corrupt frame.
THEOREM StreamKeepsTheChannel ==
    ASSUME Corrupt \subseteq {MaxFrames}
    PROVE  Spec => KeepsTheChannel
<1> DEFINE Inv == StreamInv /\ ChannelInv
<1>1. Init => Inv /\ Channel!ChannelInit
  BY StreamStart, ChannelStart
<1>2. Inv /\ [Next]_vars => Inv' /\ [Channel!ChannelNext]_(Channel!channel)
  BY StreamNext, ChannelStep
<1> QED
  BY <1>1, <1>2, PTL DEF Spec, KeepsTheChannel, Channel!ChannelSpec

-----------------------------------------------------------------------------
(* What was taken and what has arrived                                     *)

\* What was taken is what has arrived, then what is in flight, then what was
\* lost; nothing is lost while both ends are open and frames may come.
HistoryInv ==
    \E lost \in Seq(1..MaxFrames) :
        /\ accepted = (delivered \o FramesIn(InFlight)) \o lost
        /\ senderOpen /\ receiverOpen /\ offered < MaxFrames => lost = <<>>

LEMMA HistoryStep ==
    ASSUME StreamInv, ChannelInv, HistoryInv, Corrupt \subseteq {MaxFrames},
           [Next]_vars
    PROVE  HistoryInv'
<1> DEFINE F == 1..MaxFrames
           q == FramesIn(InFlight)
           r == FramesIn(InFlight)'
           d == delivered
<1>1. PICK lost \in Seq(F) :
        /\ accepted = (d \o q) \o lost
        /\ senderOpen /\ receiverOpen /\ offered < MaxFrames => lost = <<>>
  BY DEF HistoryInv
<1>2. /\ q \in Seq(F) /\ d \in Seq(F) /\ d \o q \in Seq(F) /\ <<>> \in Seq(F)
      /\ offered \in Nat /\ MaxFrames \in Nat
  <2>1. q \in Seq(F)
    BY FlightType, FramesInType
  <2>2. d \in Seq(F) /\ offered \in Nat
    BY DEF StreamInv, StreamTypeOK
  <2> HIDE DEF q, d
  <2> QED
    BY <2>1, <2>2, ConcatProperties, EmptySeq, StreamAssumption
<1> HIDE DEF q, F
<1>3. ASSUME NEW new \in Seq(F),
             accepted' = (delivered' \o r) \o new,
             senderOpen' /\ receiverOpen' /\ offered' < MaxFrames => new = <<>>
      PROVE  HistoryInv'
  BY <1>3 DEF HistoryInv, F, FramesIn
<1>4. CASE SendFrame
  <2> DEFINE f == offered + 1
  <2>1. /\ senderOpen /\ offered < MaxFrames /\ offered' = f /\ delivered' = d
        /\ f \in F /\ receiverOpen' = receiverOpen
    BY <1>2, <1>4 DEF SendFrame, receiver, F
  <2>2. receiverOpen => lost = <<>> /\ accepted = d \o q
    BY <1>1, <1>2, <2>1, ConcatEmptySeq
  <2> HIDE DEF d, r
  <2>3. CASE r = q /\ accepted' = accepted
    <3>1. accepted' = (delivered' \o r) \o lost
      BY <1>1, <2>1, <2>3
    <3> QED
      BY <1>3, <2>1, <2>2, <3>1
  <2>4. CASE /\ receiverOpen
             /\ r = Append(q, f)
             /\ accepted' = Append(accepted, f)
    <3> HIDE DEF f
    <3>1. Append(q, f) = q \o <<f>> /\ Append(d \o q, f) = (d \o q) \o <<f>>
      BY <1>2, <2>1, AppendIsConcat
    <3>2. <<f>> \in Seq(F)
      BY <2>1
    <3>3. d \o (q \o <<f>>) = (d \o q) \o <<f>>
      <4>1. d \in Seq(F) /\ q \in Seq(F) /\ <<f>> \in Seq(F)
        BY <1>2, <3>2
      <4> QED
        BY <4>1, FramesRegroup DEF F
    <3>4. accepted' = delivered' \o r
      BY <2>1, <2>2, <2>4, <3>1, <3>3, Zenon
    <3>5. r \in Seq(F)
      BY <1>2, <2>1, <2>4, AppendProperties
    <3>6. delivered' \o r \in Seq(F)
      BY <1>2, <2>1, <3>5, ConcatProperties
    <3>7. accepted' = (delivered' \o r) \o lost
      BY <2>2, <2>4, <3>4, <3>6, ConcatEmptySeq
    <3> QED
      BY <1>3, <2>2, <2>4, <3>7
  <2>5. CASE /\ ~receiverOpen
             /\ r = q
             /\ accepted' = Append(accepted, f)
    <3> DEFINE new == Append(lost, f)
               old == d \o q
    <3>1. f \in F /\ old \in Seq(F) /\ accepted = old \o lost
      BY <1>1, <1>2, <2>1
    <3> HIDE DEF f, old
    <3>2. /\ new \in Seq(F) /\ <<f>> \in Seq(F) /\ old \o lost \in Seq(F)
          /\ new = lost \o <<f>>
      BY <3>1, AppendProperties, AppendIsConcat, ConcatProperties
    <3>3. Append(old \o lost, f) = (old \o lost) \o <<f>>
      BY <3>1, <3>2, AppendIsConcat
    <3>4. old \o (lost \o <<f>>) = (old \o lost) \o <<f>>
      BY <3>1, <3>2, FramesRegroup DEF F
    <3>5. accepted' = (delivered' \o r) \o new
      BY <2>1, <2>5, <3>1, <3>2, <3>3, <3>4, Zenon DEF old
    <3> HIDE DEF new
    <3> QED
      BY <1>3, <2>1, <2>5, <3>2, <3>5
  <2>6. \/ r = q /\ accepted' = accepted
        \/ receiverOpen /\ r = Append(q, f) /\ accepted' = Append(accepted, f)
        \/ ~receiverOpen /\ r = q /\ accepted' = Append(accepted, f)
    BY <1>4, SendFrameChannel, Zenon DEF q, r
  <2> QED
    BY <2>3, <2>4, <2>5, <2>6
<1>5. CASE Read
  <2>1. UNCHANGED <<senderOpen, receiverOpen, offered, accepted>>
    BY <1>5 DEF Read, sender
  <2>2. CASE delivered' \o r = d \o q
    <3>1. accepted' = (delivered' \o r) \o lost
      BY <1>1, <2>1, <2>2, Zenon
    <3> QED
      BY <1>1, <1>3, <2>1, <3>1
  <2>3. CASE offered = MaxFrames /\ delivered' = d /\ r = <<>>
    <3> HIDE DEF d, r
    <3>1. delivered' \o r = d
      BY <1>2, <2>3, ConcatEmptySeq
    <3>2. d \o (q \o lost) = (d \o q) \o lost
      <4>1. d \in Seq(F) /\ q \in Seq(F) /\ lost \in Seq(F)
        BY <1>2
      <4> QED
        BY <4>1, FramesRegroup DEF F
    <3>3. accepted' = (delivered' \o r) \o (q \o lost)
      BY <1>1, <2>1, <3>1, <3>2, Zenon
    <3>4. q \o lost \in Seq(F)
      BY <1>2, ConcatProperties
    <3>5. ~(offered' < MaxFrames)
      BY <1>2, <2>1, <2>3
    <3> QED
      BY <1>3, <3>3, <3>4, <3>5, Zenon
  <2> QED
    BY <1>5, <2>2, <2>3, ReadChannel, Zenon DEF q, r
<1>6. CASE CloseSender \/ EndOfFile \/ Hangup
  <2>1. /\ ~(senderOpen' /\ receiverOpen')
        /\ delivered' = d /\ accepted' = accepted
    BY <1>6, ClosedFlight
  <2>2. PICK cut \in Seq(F) : q = r \o cut
    BY <1>6, ClosedChannel, Zenon DEF q, r, F
  <2>3. r \in Seq(F)
    BY <1>6, ClosedChannel, Zenon DEF r, F
  <2> HIDE DEF d, r
  <2>4. d \o r \in Seq(F) /\ cut \o lost \in Seq(F)
    BY <1>2, <2>3, ConcatProperties
  <2>5. d \in Seq(F) /\ cut \in Seq(F) /\ lost \in Seq(F)
    BY <1>2
  <2>6. d \o (r \o cut) = (d \o r) \o cut
    <3>1. d \in Seq(F) /\ r \in Seq(F) /\ cut \in Seq(F)
      BY <2>3, <2>5
    <3> QED
      BY <3>1, FramesRegroup DEF F
  <2>7. (d \o r) \o (cut \o lost) = ((d \o r) \o cut) \o lost
    <3>1. d \o r \in Seq(F) /\ cut \in Seq(F) /\ lost \in Seq(F)
      BY <2>4, <2>5
    <3> QED
      BY <3>1, FramesRegroup DEF F
  <2>8. accepted' = (delivered' \o r) \o (cut \o lost)
    BY <1>1, <2>1, <2>2, <2>6, <2>7, Zenon
  <2> QED
    BY <1>3, <2>1, <2>4, <2>8
<1>7. CASE Flush \/ UNCHANGED vars
  <2>1. /\ InFlight' = InFlight
        /\ UNCHANGED <<senderOpen, receiverOpen>>
        /\ UNCHANGED <<offered, accepted, delivered>>
    <3>1. CASE Flush
      BY <3>1, FlushFlight DEF Flush, receiver
    <3>2. CASE UNCHANGED vars
      BY <3>2 DEF vars, sender, receiver, InFlight
    <3> QED
      BY <1>7, <3>1, <3>2
  <2>2. r = q
    BY <2>1 DEF q, FramesIn
  <2>3. accepted' = (delivered' \o r) \o lost
    BY <1>1, <2>1, <2>2, Zenon
  <2> QED
    BY <1>1, <1>3, <2>1, <2>3
<1> QED
  BY <1>4, <1>5, <1>6, <1>7 DEF Next

LEMMA HistoryStart == Init => HistoryInv
<1> SUFFICES ASSUME Init PROVE HistoryInv
  OBVIOUS
<1>1. <<>> \in Seq(Byte) /\ <<>> \in Seq(1..MaxFrames) /\ <<>> \o <<>> = <<>>
  BY EmptySeq, ConcatEmptySeq
<1>2. InFlight = <<>> /\ delivered = <<>> /\ accepted = <<>>
  BY <1>1 DEF Init, InFlight
<1>3. FramesIn(InFlight) = <<>>
  BY <1>2, FramesInNone
<1>4. accepted = (delivered \o FramesIn(InFlight)) \o <<>>
  BY <1>1, <1>2, <1>3
<1> QED
  BY <1>1, <1>4 DEF HistoryInv

LEMMA HistoryMeans == StreamInv /\ HistoryInv => ArrivedAsAccepted
<1> SUFFICES ASSUME StreamInv, HistoryInv PROVE ArrivedAsAccepted
  OBVIOUS
<1> DEFINE F == 1..MaxFrames
           q == FramesIn(InFlight)
<1>1. PICK lost \in Seq(F) : accepted = (delivered \o q) \o lost
  BY DEF HistoryInv
<1>2. q \in Seq(F) /\ delivered \in Seq(F)
  BY FlightType, FramesInType DEF StreamInv, StreamTypeOK
<1> HIDE DEF q, F
<1>3. delivered \o (q \o lost) = (delivered \o q) \o lost
  <2>1. delivered \in Seq(F) /\ q \in Seq(F) /\ lost \in Seq(F)
    BY <1>2
  <2> QED
    BY <2>1, FramesRegroup DEF F
<1>4. q \o lost \in Seq(F)
  BY <1>2, ConcatProperties
<1> DEFINE t == q \o lost
<1>5. accepted = delivered \o t /\ t \in Seq(F)
  BY <1>1, <1>3, <1>4
<1> HIDE DEF t
<1>6. /\ SubSeq(delivered \o t, 1, Len(delivered)) = delivered
      /\ Len(delivered) \in 0..Len(delivered \o t)
  <2>1. delivered \in Seq(F) /\ t \in Seq(F)
    BY <1>2, <1>5
  <2> QED
    BY <2>1, JoinedParts
<1>7. accepted \in Seq(F)
  BY <1>2, <1>5, ConcatProperties
<1>8. Len(accepted) \in Nat
  BY <1>7, LenProperties
<1> QED
  BY <1>5, <1>6, <1>8 DEF ArrivedAsAccepted, Take

\* What maester_send_frame took and no other frame arrives, once each and in
\* order, up to the first that is lost, when at most the last frame is
\* corrupt: a refused frame leaves nothing behind.
THEOREM FramesArriveAsAccepted ==
    ASSUME Corrupt \subseteq {MaxFrames}
    PROVE  Spec => []ArrivedAsAccepted
<1> DEFINE Inv == StreamInv /\ ChannelInv /\ HistoryInv
<1>1. Init => Inv
  BY StreamStart, ChannelStart, HistoryStart
<1>2. Inv /\ [Next]_vars => Inv'
  BY StreamNext, ChannelStep, HistoryStep
<1>3. Inv => ArrivedAsAccepted
  BY HistoryMeans
<1> QED
  BY <1>1, <1>2, <1>3, PTL DEF Spec

=============================================================================
