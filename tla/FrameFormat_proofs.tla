------------------------- MODULE FrameFormat_proofs -------------------------
(***************************************************************************)
(* For every size of the fields, the data and the byte: the checksum tells *)
(* a frame from the same frame with one byte wrong, and what is parsed is  *)
(* what was serialized.                                                    *)
(***************************************************************************)
EXTENDS FrameFormat, FrameStream_proofs, FiniteSetTheorems

-----------------------------------------------------------------------------
(* Numbers                                                                 *)

\* One summand in the place of another.
LEMMA Exchanged ==
    ASSUME NEW a \in Int, NEW b \in Nat, NEW c \in Nat
    PROVE  a + c = (a + b) + (c - b) /\ a + b \in Int
OBVIOUS

LEMMA ProductGrows ==
    ASSUME NEW a \in Nat, NEW b \in Nat, NEW c \in Nat, a <= b
    PROVE  c * a <= c * b
<1>1. PICK d \in Nat : b = a + d
  <2>1. b - a \in Nat /\ b = a + (b - a)
    OBVIOUS
  <2> QED
    BY <2>1
<1>2. c * b = c * a + c * d
  BY <1>1
<1>3. c * a \in Nat /\ c * d \in Nat
  OBVIOUS
<1> QED
  BY <1>2, <1>3

\* Two numbers less than a word apart have different residues.
LEMMA CloseResidues ==
    ASSUME NEW w \in Nat, NEW x \in Nat, NEW y \in Nat, x < y, y < x + w
    PROVE  x % w # y % w
<1> SUFFICES ASSUME x % w = y % w PROVE FALSE
  OBVIOUS
<1> DEFINE p == x \div w
           q == y \div w
           m == x % w
<1>1. /\ p \in Nat /\ q \in Nat /\ m \in 0..(w - 1)
      /\ x = w * p + m /\ y = w * q + m
  OBVIOUS
<1> HIDE DEF p, q, m
<1>2. w * p < w * q /\ w * q < w * p + w
  BY <1>1
<1>3. CASE q <= p
  BY <1>1, <1>2, <1>3, ProductGrows
<1>4. CASE q >= p + 1
  <2>1. w * (p + 1) <= w * q
    BY <1>1, <1>4, ProductGrows
  <2>2. w * (p + 1) = w * p + w
    BY <1>1
  <2> QED
    BY <1>1, <1>2, <2>1, <2>2
<1> QED
  BY <1>1, <1>3, <1>4

Word == ByteValues * ByteValues

LEMMA WordFacts ==
    /\ ByteValues \in Nat /\ ByteValues > 2 /\ Word \in Nat
    /\ ByteValues <= Word /\ MaxData \in Nat /\ MaxData < Word
    /\ FieldLen \in Nat /\ FieldLen > 0
<1>1. /\ ByteValues \in Nat /\ ByteValues > 2 /\ Word \in Nat
      /\ MaxData \in Nat /\ MaxData < Word /\ FieldLen \in Nat /\ FieldLen > 0
  BY FormatAssumption DEF Word
<1>2. ByteValues * 1 <= ByteValues * ByteValues
  BY <1>1, ProductGrows
<1> QED
  BY <1>1, <1>2 DEF Word

LEMMA TwoBytesFacts ==
    ASSUME NEW n \in Nat, n < Word
    PROVE  /\ TwoBytes(n) \in Seq(Octet) /\ Len(TwoBytes(n)) = 2
           /\ Number(TwoBytes(n)) = n
<1> DEFINE q == n \div ByteValues
           r == n % ByteValues
<1>1. ByteValues \in Nat /\ ByteValues > 2 /\ Word \in Nat
  BY WordFacts
<1>2. q \in Nat /\ r \in 0..(ByteValues - 1) /\ n = ByteValues * q + r
  BY <1>1
<1>3. TwoBytes(n) = <<q, r>>
  BY DEF TwoBytes
<1> HIDE DEF q, r
<1>4. q < ByteValues
  <2> SUFFICES ASSUME ByteValues <= q PROVE FALSE
    BY <1>1, <1>2
  <2>1. ByteValues * ByteValues <= ByteValues * q
    BY <1>1, <1>2, ProductGrows
  <2> QED
    BY <1>1, <1>2, <2>1 DEF Word
<1>5. q \in Octet /\ r \in Octet
  BY <1>1, <1>2, <1>4 DEF Octet
<1>6. <<q, r>> \in Seq(Octet) /\ Len(<<q, r>>) = 2
  BY <1>5
<1>7. Number(<<q, r>>) = q * ByteValues + r
  BY DEF Number
<1>8. q * ByteValues = ByteValues * q
  BY <1>1, <1>2
<1> QED
  BY <1>2, <1>3, <1>6, <1>7, <1>8

-----------------------------------------------------------------------------
(* The sum of the bytes                                                    *)

Sums(s, n, f) ==
    f = [i \in 0..n |-> IF i = 0 THEN 0 ELSE f[i - 1] + s[i]]

LEMMA SumsExist ==
    ASSUME NEW s, NEW n \in Nat
    PROVE  \E f : Sums(s, n, f)
<1> DEFINE T == {k \in Nat : \E f : Sums(s, k, f)}
<1>1. 0 \in T
  <2> DEFINE f == [i \in 0..0 |-> 0]
  <2>1. \A i \in 0..0 : 0 = IF i = 0 THEN 0 ELSE f[i - 1] + s[i]
    OBVIOUS
  <2>2. f = [i \in 0..0 |-> IF i = 0 THEN 0 ELSE f[i - 1] + s[i]]
    BY <2>1
  <2> HIDE DEF f
  <2>3. Sums(s, 0, f)
    BY <2>2, Zenon DEF Sums
  <2> QED
    BY <2>3
<1>2. ASSUME NEW k \in T
      PROVE  k + 1 \in T
  <2>1. PICK f : Sums(s, k, f)
    OBVIOUS
  <2>2. \A i \in 0..k : f[i] = IF i = 0 THEN 0 ELSE f[i - 1] + s[i]
    BY <2>1, Zenon DEF Sums
  <2> DEFINE g == [i \in 0..(k + 1) |-> IF i = k + 1 THEN f[k] + s[k + 1]
                                       ELSE f[i]]
  <2>3. /\ \A i \in 0..k : g[i] = f[i]
        /\ g[k + 1] = f[k] + s[k + 1]
        /\ g = [i \in 0..(k + 1) |-> g[i]]
    OBVIOUS
  <2> HIDE DEF g
  <2>4. \A i \in 0..(k + 1) : g[i] = IF i = 0 THEN 0 ELSE g[i - 1] + s[i]
    <3> SUFFICES ASSUME NEW i \in 0..(k + 1)
                 PROVE  g[i] = IF i = 0 THEN 0 ELSE g[i - 1] + s[i]
      OBVIOUS
    <3>1. CASE i = 0
      <4>1. i \in 0..k
        BY <3>1
      <4>2. g[i] = f[i] /\ f[i] = 0
        BY <2>2, <2>3, <3>1, <4>1, Zenon
      <4> QED
        BY <3>1, <4>2
    <3>2. CASE i \in 1..k
      <4>1. i - 1 \in 0..k /\ i \in 0..k /\ i # 0
        BY <3>2
      <4> QED
        BY <2>2, <2>3, <4>1
    <3>3. CASE i = k + 1
      <4>1. i - 1 = k /\ i # 0 /\ k \in 0..k
        BY <3>3
      <4> QED
        BY <2>3, <3>3, <4>1
    <3> QED
      BY <3>1, <3>2, <3>3
  <2>5. g = [i \in 0..(k + 1) |-> IF i = 0 THEN 0 ELSE g[i - 1] + s[i]]
    BY <2>3, <2>4
  <2>6. Sums(s, k + 1, g)
    BY <2>5, Zenon DEF Sums
  <2>7. k + 1 \in Nat
    OBVIOUS
  <2> QED
    BY <2>6, <2>7
<1>3. T \in SUBSET Nat
  OBVIOUS
<1> HIDE DEF T
<1>4. T = Nat
  BY <1>1, <1>2, <1>3, NatSetInduction
<1> QED
  BY <1>4 DEF T

\* The sum is the last of the partial sums.
LEMMA SumOfBytesFacts ==
    ASSUME NEW s \in Seq(Nat)
    PROVE  \E f : /\ f[0] = 0
                  /\ \A i \in 1..Len(s) : f[i] = f[i - 1] + s[i]
                  /\ SumOfBytes(s) = f[Len(s)]
<1> DEFINE f == CHOOSE g : Sums(s, Len(s), g)
<1>1. Len(s) \in Nat
  OBVIOUS
<1>2. Sums(s, Len(s), f)
  BY <1>1, SumsExist
<1>3. SumOfBytes(s) = f[Len(s)]
  BY DEF SumOfBytes, Sums
<1> HIDE DEF f
<1>4. \A i \in 0..Len(s) : f[i] = IF i = 0 THEN 0 ELSE f[i - 1] + s[i]
  BY <1>2, Zenon DEF Sums
<1>5. f[0] = 0 /\ \A i \in 1..Len(s) : f[i] = f[i - 1] + s[i]
  BY <1>1, <1>4
<1> QED
  BY <1>3, <1>5

LEMMA SumIsNat ==
    ASSUME NEW s \in Seq(Nat)
    PROVE  SumOfBytes(s) \in Nat
<1>1. PICK f : /\ f[0] = 0
               /\ \A i \in 1..Len(s) : f[i] = f[i - 1] + s[i]
               /\ SumOfBytes(s) = f[Len(s)]
  BY SumOfBytesFacts
<1> DEFINE T == {n \in Nat : n <= Len(s) => f[n] \in Nat}
<1>2. Len(s) \in Nat /\ \A i \in 1..Len(s) : s[i] \in Nat
  BY ElementOfSeq
<1>3. 0 \in T /\ T \in SUBSET Nat
  BY <1>1
<1>4. ASSUME NEW n \in T
      PROVE  n + 1 \in T
  <2> SUFFICES ASSUME n + 1 <= Len(s) PROVE f[n + 1] \in Nat
    OBVIOUS
  <2>1. n + 1 \in 1..Len(s) /\ (n + 1) - 1 = n /\ f[n] \in Nat
    BY <1>2
  <2> QED
    BY <1>1, <1>2, <2>1
<1> HIDE DEF T
<1>5. T = Nat
  BY <1>3, <1>4, NatSetInduction
<1> QED
  BY <1>1, <1>2, <1>5 DEF T

\* One other byte changes the sum by the difference.
LEMMA SumOfChanged ==
    ASSUME NEW s \in Seq(Nat), NEW t \in Seq(Nat), Len(t) = Len(s),
           NEW k \in 1..Len(s), \A i \in 1..Len(s) : i # k => t[i] = s[i]
    PROVE  SumOfBytes(t) = SumOfBytes(s) + (t[k] - s[k])
<1>1. PICK f : /\ f[0] = 0
               /\ \A i \in 1..Len(s) : f[i] = f[i - 1] + s[i]
               /\ SumOfBytes(s) = f[Len(s)]
  BY SumOfBytesFacts
<1>2. PICK g : /\ g[0] = 0
               /\ \A i \in 1..Len(s) : g[i] = g[i - 1] + t[i]
               /\ SumOfBytes(t) = g[Len(s)]
  BY SumOfBytesFacts
<1>3. /\ Len(s) \in Nat /\ k \in Nat
      /\ \A i \in 1..Len(s) : s[i] \in Nat /\ t[i] \in Nat
  BY ElementOfSeq
<1> DEFINE d == t[k] - s[k]
           T == {n \in Nat : n <= Len(s) =>
                    /\ f[n] \in Int
                    /\ g[n] = IF n < k THEN f[n] ELSE f[n] + d}
<1>4. 0 \in T /\ T \in SUBSET Nat
  BY <1>1, <1>2, <1>3
<1>5. ASSUME NEW n \in T
      PROVE  n + 1 \in T
  <2> SUFFICES ASSUME n + 1 <= Len(s)
               PROVE  /\ f[n + 1] \in Int
                      /\ g[n + 1] = IF n + 1 < k THEN f[n + 1] ELSE f[n + 1] + d
    OBVIOUS
  <2>1. /\ n + 1 \in 1..Len(s) /\ (n + 1) - 1 = n /\ f[n] \in Int
        /\ g[n] = IF n < k THEN f[n] ELSE f[n] + d
    BY <1>3
  <2>2. f[n + 1] = f[n] + s[n + 1] /\ g[n + 1] = g[n] + t[n + 1]
    BY <1>1, <1>2, <2>1
  <2>3. s[n + 1] \in Nat /\ t[n + 1] \in Nat /\ s[k] \in Nat /\ t[k] \in Nat
    BY <1>3, <2>1
  <2>4. CASE n + 1 = k
    <3>1. n < k /\ g[n] = f[n] /\ ~(n + 1 < k)
      BY <1>3, <2>1, <2>4
    <3>2. f[n + 1] = f[n] + s[k] /\ g[n + 1] = f[n] + t[k]
      BY <2>2, <2>4, <3>1
    <3>3. f[n] \in Int /\ s[k] \in Nat /\ t[k] \in Nat
      BY <2>1, <2>3
    <3>4. f[n] + t[k] = (f[n] + s[k]) + d /\ f[n] + s[k] \in Int
      BY <3>3, Exchanged
    <3> HIDE DEF d, T
    <3> QED
      BY <3>1, <3>2, <3>4
  <2>5. CASE n + 1 # k
    <3>1. t[n + 1] = s[n + 1]
      BY <2>1, <2>5
    <3>2. n < k <=> n + 1 < k
      BY <1>3, <2>5
    <3>3. d \in Int /\ n \in Nat /\ k \in Nat
      BY <1>3, <2>3
    <3> HIDE DEF d, T
    <3>4. CASE n < k
      BY <2>1, <2>2, <2>3, <3>1, <3>2, <3>4
    <3>5. CASE ~(n < k)
      <4>1. g[n] = f[n] + d /\ ~(n + 1 < k)
        BY <2>1, <3>2, <3>5
      <4>2. g[n + 1] = (f[n] + d) + s[n + 1] /\ f[n + 1] = f[n] + s[n + 1]
        BY <2>2, <3>1, <4>1
      <4>3. f[n] \in Int /\ s[n + 1] \in Int /\ d \in Int
        BY <2>1, <2>3, <3>3
      <4>4. f[n + 1] \in Int
        BY <4>2, <4>3
      <4>5. (f[n] + d) + s[n + 1] = (f[n] + s[n + 1]) + d
        BY <4>3
      <4>6. g[n + 1] = f[n + 1] + d
        BY <4>2, <4>5, Zenon
      <4> QED
        BY <4>1, <4>4, <4>6
    <3> QED
      BY <3>4, <3>5
  <2> QED
    BY <2>4, <2>5
<1> HIDE DEF T
<1>6. T = Nat
  BY <1>4, <1>5, NatSetInduction
<1> HIDE DEF d
<1>7. g[Len(s)] = f[Len(s)] + d
  <2>1. Len(s) \in T /\ Len(s) <= Len(s) /\ ~(Len(s) < k)
    BY <1>3, <1>6
  <2> QED
    BY <2>1 DEF T
<1>8. SumOfBytes(t) = SumOfBytes(s) + d
  BY <1>1, <1>2, <1>7, Zenon
<1> QED
  BY <1>8 DEF d

\* The checksum of bytes of which one is wrong is another one.
LEMMA ChecksumOfChanged ==
    ASSUME NEW s \in Seq(Octet), NEW t \in Seq(Octet), Len(t) = Len(s),
           NEW k \in 1..Len(s), \A i \in 1..Len(s) : i # k => t[i] = s[i],
           t[k] # s[k]
    PROVE  Checksum(t) # Checksum(s)
<1>1. ByteValues \in Nat /\ Word \in Nat /\ ByteValues <= Word
  BY WordFacts
<1>2. s \in Seq(Nat) /\ t \in Seq(Nat)
  <2>1. Octet \subseteq Nat
    BY <1>1 DEF Octet
  <2> QED
    BY <2>1, SeqMonotonic
<1>3. s[k] \in 0..(ByteValues - 1) /\ t[k] \in 0..(ByteValues - 1)
  BY ElementOfSeq DEF Octet
<1> DEFINE x == SumOfBytes(s)
           y == SumOfBytes(t)
<1>4. x \in Nat /\ y \in Nat /\ y = x + (t[k] - s[k])
  BY <1>2, SumIsNat, SumOfChanged
<1>5. Checksum(s) = x % Word /\ Checksum(t) = y % Word
  BY DEF Checksum, Word
<1> HIDE DEF x, y
<1>6. CASE t[k] > s[k]
  <2>1. x < y /\ y < x + Word
    BY <1>1, <1>3, <1>4, <1>6
  <2>2. x % Word # y % Word
    BY <1>1, <1>4, <2>1, CloseResidues
  <2> QED
    BY <1>5, <2>2
<1>7. CASE t[k] < s[k]
  <2>1. y < x /\ x < y + Word
    BY <1>1, <1>3, <1>4, <1>7
  <2>2. y % Word # x % Word
    BY <1>1, <1>4, <2>1, CloseResidues
  <2> QED
    BY <1>5, <2>2
<1> QED
  BY <1>3, <1>6, <1>7

LEMMA ChecksumType ==
    ASSUME NEW s \in Seq(Octet)
    PROVE  Checksum(s) \in Nat /\ Checksum(s) < Word
<1>1. ByteValues \in Nat /\ Word \in Nat /\ Word > 0
  BY WordFacts
<1>2. s \in Seq(Nat)
  <2>1. Octet \subseteq Nat
    BY <1>1 DEF Octet
  <2> QED
    BY <2>1, SeqMonotonic
<1>3. SumOfBytes(s) \in Nat
  BY <1>2, SumIsNat
<1>4. SumOfBytes(s) % Word \in 0..(Word - 1)
  BY <1>1, <1>3
<1> QED
  BY <1>1, <1>4 DEF Checksum, Word

-----------------------------------------------------------------------------
(* Pieces of a concatenation                                               *)

LEMMA Joined ==
    ASSUME NEW s \in Seq(Octet), NEW t \in Seq(Octet)
    PROVE  /\ s \o t \in Seq(Octet)
           /\ Len(s \o t) = Len(s) + Len(t)
           /\ Len(s) > 0 => (s \o t)[1] = s[1]
<1>1. Len(s) \in Nat /\ Len(t) \in Nat
  OBVIOUS
<1>2. /\ s \o t \in Seq(Octet)
      /\ Len(s \o t) = Len(s) + Len(t)
      /\ \A i \in 1..(Len(s) + Len(t)) :
            (s \o t)[i] = IF i <= Len(s) THEN s[i] ELSE t[i - Len(s)]
  BY ConcatProperties
<1>3. Len(s) > 0 => 1 \in 1..(Len(s) + Len(t)) /\ 1 <= Len(s)
  BY <1>1
<1> QED
  BY <1>2, <1>3

-----------------------------------------------------------------------------
(* The layout of a frame                                                   *)

LEMMA BoundedSeqFacts ==
    ASSUME NEW S, NEW n \in Nat, NEW s \in BoundedSeq(S, n)
    PROVE  s \in Seq(S) /\ Len(s) \in Nat /\ Len(s) <= n
<1>1. PICK m \in 0..n : s \in [1..m -> S]
  BY DEF BoundedSeq, SeqOf
<1>2. m \in Nat /\ m <= n
  OBVIOUS
<1>3. s \in Seq(S) /\ Len(s) = m
  BY <1>1, <1>2
<1> QED
  BY <1>2, <1>3

LEMMA MessageFacts ==
    ASSUME NEW message \in Message
    PROVE  /\ message.type \in Octet
           /\ \A text \in {message.origin, message.destination} :
                /\ text \in Seq(Octet) /\ Len(text) \in Nat
                /\ \A i \in 1..Len(text) : text[i] # NUL
           /\ message.data \in Seq(Octet)
           /\ Len(message.data) \in Nat /\ Len(message.data) <= MaxData
<1>1. MaxText \in Nat /\ MaxData \in Nat
  BY FormatAssumption
<1>2. /\ message.type \in Octet
      /\ message.origin \in Texts /\ message.destination \in Texts
      /\ message.data \in BoundedSeq(Octet, MaxData)
  BY DEF Message
<1>3. ASSUME NEW text \in Texts
      PROVE  /\ text \in Seq(Octet) /\ Len(text) \in Nat
             /\ \A i \in 1..Len(text) : text[i] # NUL
  <2>1. text \in Seq(Octet \ {NUL}) /\ Len(text) \in Nat
    BY <1>1, BoundedSeqFacts DEF Texts
  <2>2. \A i \in 1..Len(text) : text[i] \in Octet \ {NUL}
    BY <2>1, ElementOfSeq
  <2>3. text \in Seq(Octet)
    BY <2>1, SeqMonotonic
  <2> QED
    BY <2>1, <2>2, <2>3
<1>4. /\ message.data \in Seq(Octet)
      /\ Len(message.data) \in Nat /\ Len(message.data) <= MaxData
  BY <1>1, <1>2, BoundedSeqFacts
<1> QED
  BY <1>2, <1>3, <1>4

LEMMA PaddedFacts ==
    ASSUME NEW text \in Seq(Octet)
    PROVE  /\ Padded(text) \in Seq(Octet) /\ Len(Padded(text)) = FieldLen
           /\ \A i \in 1..FieldLen :
                Padded(text)[i] = IF i <= Len(text) THEN text[i] ELSE NUL
<1>1. FieldLen \in Nat /\ Len(text) \in Nat
  BY WordFacts
<1>2. NUL \in Octet
  BY WordFacts DEF NUL, Octet
<1>3. \A i \in 1..FieldLen :
        (IF i <= Len(text) THEN text[i] ELSE NUL) \in Octet
  BY <1>1, <1>2, ElementOfSeq
<1>4. Padded(text) \in Seq(Octet)
  BY <1>1, <1>3, IsASeq DEF Padded
<1>5. DOMAIN Padded(text) = 1..FieldLen
  BY DEF Padded
<1> QED
  BY <1>1, <1>4, <1>5, LenProperties DEF Padded

Fill(n) == [i \in 1..n |-> NUL]

LEMMA FillFacts ==
    ASSUME NEW n \in Nat
    PROVE  Fill(n) \in Seq(Octet) /\ Len(Fill(n)) = n
<1>1. NUL \in Octet
  BY WordFacts DEF NUL, Octet
<1>2. Fill(n) \in Seq(Octet) /\ DOMAIN Fill(n) = 1..n
  BY <1>1, IsASeq DEF Fill
<1> QED
  BY <1>2, LenProperties

\* Where the parts of a frame lie in the bytes that are summed up.
LEMMA BodyLayout ==
    ASSUME NEW message \in Message
    PROVE  LET body == Body(message)
               size == Len(message.data)
           IN  /\ body \in Seq(Octet) /\ Len(body) = ChecksumAt
               /\ body[1] = message.type
               /\ SubSeq(body, 2, 1 + FieldLen) = Padded(message.origin)
               /\ SubSeq(body, 2 + FieldLen, 1 + 2 * FieldLen)
                    = Padded(message.destination)
               /\ SubSeq(body, DataAt - 1, DataAt) = TwoBytes(size)
               /\ SubSeq(body, DataAt + 1, DataAt + size) = message.data
<1> DEFINE size == Len(message.data)
           O == Padded(message.origin)
           D == Padded(message.destination)
           L == TwoBytes(size)
           X == message.data
           F == Fill(MaxData - size)
           b1 == <<message.type>>
           b2 == b1 \o O
           b3 == b2 \o D
           b4 == b3 \o L
           b5 == b4 \o X
           body == b5 \o F
<1>1. /\ FieldLen \in Nat /\ FieldLen > 0 /\ MaxData \in Nat /\ MaxData < Word
      /\ size \in Nat /\ size <= MaxData /\ Word \in Nat
  BY WordFacts, MessageFacts
<1>2. /\ X \in Seq(Octet) /\ message.type \in Octet
      /\ O \in Seq(Octet) /\ Len(O) = FieldLen
      /\ D \in Seq(Octet) /\ Len(D) = FieldLen
  BY MessageFacts, PaddedFacts
<1>3. L \in Seq(Octet) /\ Len(L) = 2
  BY <1>1, TwoBytesFacts
<1>4. F \in Seq(Octet) /\ Len(F) = MaxData - size
  <2>1. MaxData - size \in Nat
    BY <1>1
  <2> QED
    BY <2>1, FillFacts
<1>5. b1 \in Seq(Octet) /\ Len(b1) = 1 /\ b1[1] = message.type
  BY <1>2
<1>6. Body(message) = body
  BY DEF Body, Fill
<1>7. Len(X) = size
  OBVIOUS
<1> HIDE DEF O, D, L, X, F, size, b1
<1>8. b2 \in Seq(Octet) /\ Len(b2) = 1 + FieldLen /\ b2[1] = message.type
  <2>1. /\ b1 \o O \in Seq(Octet)
        /\ Len(b1 \o O) = Len(b1) + Len(O)
        /\ Len(b1) > 0 => (b1 \o O)[1] = b1[1]
    BY <1>2, <1>5, Joined, Zenon
  <2>2. b2 = b1 \o O
    OBVIOUS
  <2> HIDE DEF b2
  <2> QED
    BY <1>1, <1>2, <1>5, <2>1, <2>2
<1> HIDE DEF b2
<1>9. /\ b3 \in Seq(Octet) /\ Len(b3) = 1 + 2 * FieldLen
      /\ b3[1] = message.type
  <2>1. /\ b2 \o D \in Seq(Octet)
        /\ Len(b2 \o D) = Len(b2) + Len(D)
        /\ Len(b2) > 0 => (b2 \o D)[1] = b2[1]
    BY <1>2, <1>8, Joined, Zenon
  <2>2. b3 = b2 \o D
    OBVIOUS
  <2> HIDE DEF b3
  <2> QED
    BY <1>1, <1>2, <1>8, <2>1, <2>2
<1> HIDE DEF b3
<1>10. /\ b4 \in Seq(Octet) /\ Len(b4) = DataAt /\ b4[1] = message.type
  <2>1. /\ b3 \o L \in Seq(Octet)
        /\ Len(b3 \o L) = Len(b3) + Len(L)
        /\ Len(b3) > 0 => (b3 \o L)[1] = b3[1]
    BY <1>3, <1>9, Joined, Zenon
  <2>2. b4 = b3 \o L
    OBVIOUS
  <2> HIDE DEF b4
  <2> QED
    BY <1>1, <1>3, <1>9, <2>1, <2>2 DEF DataAt
<1> HIDE DEF b4
<1>11. DataAt \in Nat /\ DataAt = 3 + 2 * FieldLen /\ DataAt > 1
  BY <1>1 DEF DataAt
<1>12. /\ b5 \in Seq(Octet) /\ Len(b5) = DataAt + size
       /\ b5[1] = message.type
  <2>1. /\ b4 \o X \in Seq(Octet)
        /\ Len(b4 \o X) = Len(b4) + Len(X)
        /\ Len(b4) > 0 => (b4 \o X)[1] = b4[1]
    BY <1>2, <1>10, Joined, Zenon
  <2>2. b5 = b4 \o X
    OBVIOUS
  <2> HIDE DEF b5
  <2> QED
    BY <1>1, <1>2, <1>7, <1>10, <1>11, <2>1, <2>2
<1> HIDE DEF b5
<1>13. /\ body \in Seq(Octet) /\ Len(body) = ChecksumAt
       /\ body[1] = message.type
  <2>1. /\ b5 \o F \in Seq(Octet)
        /\ Len(b5 \o F) = Len(b5) + Len(F)
        /\ Len(b5) > 0 => (b5 \o F)[1] = b5[1]
    BY <1>4, <1>12, Joined, Zenon
  <2>2. body = b5 \o F
    OBVIOUS
  <2> HIDE DEF body
  <2>3. Len(body) = (DataAt + size) + (MaxData - size) /\ Len(b5) > 0
    BY <1>1, <1>4, <1>11, <1>12, <2>1, <2>2
  <2>4. (DataAt + size) + (MaxData - size) = ChecksumAt
    BY <1>1, <1>11 DEF ChecksumAt
  <2> QED
    BY <1>12, <2>1, <2>2, <2>3, <2>4
<1> HIDE DEF body
<1>14. ASSUME NEW m \in Nat, NEW n \in Nat, 1 <= m
       PROVE
         /\ n <= DataAt + size => SubSeq(body, m, n) = SubSeq(b5, m, n)
         /\ n <= DataAt => SubSeq(body, m, n) = SubSeq(b4, m, n)
         /\ n <= 1 + 2 * FieldLen => SubSeq(body, m, n) = SubSeq(b3, m, n)
         /\ n <= 1 + FieldLen => SubSeq(body, m, n) = SubSeq(b2, m, n)
  <2>1. n <= DataAt + size => SubSeq(body, m, n) = SubSeq(b5, m, n)
    BY <1>4, <1>12, <1>14, CutInside DEF body
  <2>2. n <= DataAt => SubSeq(b5, m, n) = SubSeq(b4, m, n)
    BY <1>2, <1>10, <1>14, CutInside DEF b5
  <2>3. n <= 1 + 2 * FieldLen => SubSeq(b4, m, n) = SubSeq(b3, m, n)
    BY <1>3, <1>9, <1>14, CutInside DEF b4
  <2>4. n <= 1 + FieldLen => SubSeq(b3, m, n) = SubSeq(b2, m, n)
    BY <1>2, <1>8, <1>14, CutInside DEF b3
  <2>5. /\ n <= DataAt => n <= DataAt + size
        /\ n <= 1 + 2 * FieldLen => n <= DataAt
        /\ n <= 1 + FieldLen => n <= 1 + 2 * FieldLen
    BY <1>1, <1>11
  <2> QED
    BY <2>1, <2>2, <2>3, <2>4, <2>5
<1>15. SubSeq(body, 2, 1 + FieldLen) = O
  <2>1. SubSeq(b2, 2, 1 + FieldLen) = O
    <3>1. SubSeq(b2, Len(b1) + 1, Len(b1) + Len(O)) = O
      BY <1>2, <1>5, CutBehind DEF b2
    <3> QED
      BY <1>2, <1>5, <3>1
  <2>2. 2 \in Nat /\ 1 + FieldLen \in Nat /\ 1 <= 2
    BY <1>1
  <2>3. SubSeq(body, 2, 1 + FieldLen) = SubSeq(b2, 2, 1 + FieldLen)
    BY <1>1, <1>14, <2>2
  <2> QED
    BY <2>1, <2>3
<1>16. SubSeq(body, 2 + FieldLen, 1 + 2 * FieldLen) = D
  <2>1. SubSeq(b3, 2 + FieldLen, 1 + 2 * FieldLen) = D
    <3>1. SubSeq(b3, Len(b2) + 1, Len(b2) + Len(D)) = D
      BY <1>2, <1>8, CutBehind DEF b3
    <3>2. Len(b2) + 1 = 2 + FieldLen /\ Len(b2) + Len(D) = 1 + 2 * FieldLen
      BY <1>1, <1>2, <1>8
    <3> QED
      BY <3>1, <3>2
  <2>2. /\ 2 + FieldLen \in Nat /\ 1 + 2 * FieldLen \in Nat
        /\ 1 <= 2 + FieldLen
    BY <1>1
  <2>3. SubSeq(body, 2 + FieldLen, 1 + 2 * FieldLen)
          = SubSeq(b3, 2 + FieldLen, 1 + 2 * FieldLen)
    BY <1>1, <1>14, <2>2
  <2> QED
    BY <2>1, <2>3
<1>17. SubSeq(body, DataAt - 1, DataAt) = L
  <2>1. SubSeq(b4, DataAt - 1, DataAt) = L
    <3>1. SubSeq(b4, Len(b3) + 1, Len(b3) + Len(L)) = L
      BY <1>3, <1>9, CutBehind DEF b4
    <3>2. Len(b3) + 1 = DataAt - 1 /\ Len(b3) + Len(L) = DataAt
      BY <1>1, <1>3, <1>9, <1>11
    <3> QED
      BY <3>1, <3>2
  <2> DEFINE m == DataAt - 1
  <2>2. m \in Nat /\ DataAt \in Nat /\ 1 <= m /\ DataAt <= DataAt
    BY <1>1, <1>11
  <2> HIDE DEF m
  <2>3. SubSeq(body, m, DataAt) = SubSeq(b4, m, DataAt)
    BY <1>14, <2>2
  <2> QED
    BY <2>1, <2>3 DEF m
<1>18. SubSeq(body, DataAt + 1, DataAt + size) = X
  <2>1. SubSeq(b5, Len(b4) + 1, Len(b4) + Len(X)) = X
    BY <1>2, <1>10, CutBehind DEF b5
  <2>2. /\ DataAt + 1 \in Nat /\ DataAt + size \in Nat /\ 1 <= DataAt + 1
        /\ DataAt + size <= DataAt + size
    BY <1>1, <1>11
  <2>3. SubSeq(body, DataAt + 1, DataAt + size)
          = SubSeq(b5, DataAt + 1, DataAt + size)
    BY <1>14, <2>2
  <2> QED
    BY <1>7, <1>10, <2>1, <2>3
<1> QED
  BY <1>6, <1>13, <1>15, <1>16, <1>17, <1>18 DEF O, D, L, X, size

\* The same of the whole frame, and its last two bytes.
LEMMA SerializeLayout ==
    ASSUME NEW message \in Message
    PROVE  LET bytes == Serialize(message)
               size == Len(message.data)
           IN  /\ bytes \in Seq(Octet) /\ Len(bytes) = ChecksumAt + 2
               /\ SubSeq(bytes, 1, ChecksumAt) = Body(message)
               /\ SubSeq(bytes, ChecksumAt + 1, ChecksumAt + 2)
                    = TwoBytes(Checksum(Body(message)))
               /\ bytes[1] = message.type
               /\ SubSeq(bytes, 2, 1 + FieldLen) = Padded(message.origin)
               /\ SubSeq(bytes, 2 + FieldLen, 1 + 2 * FieldLen)
                    = Padded(message.destination)
               /\ SubSeq(bytes, DataAt - 1, DataAt) = TwoBytes(size)
               /\ SubSeq(bytes, DataAt + 1, DataAt + size) = message.data
<1> DEFINE size == Len(message.data)
           body == Body(message)
           C == TwoBytes(Checksum(body))
           bytes == Serialize(message)
<1>1. /\ FieldLen \in Nat /\ MaxData \in Nat /\ size \in Nat /\ size <= MaxData
      /\ DataAt \in Nat /\ DataAt = 3 + 2 * FieldLen
      /\ ChecksumAt \in Nat /\ ChecksumAt = DataAt + MaxData
  BY WordFacts, MessageFacts DEF DataAt, ChecksumAt
<1>2. /\ body \in Seq(Octet) /\ Len(body) = ChecksumAt
      /\ body[1] = message.type
      /\ SubSeq(body, 2, 1 + FieldLen) = Padded(message.origin)
      /\ SubSeq(body, 2 + FieldLen, 1 + 2 * FieldLen)
           = Padded(message.destination)
      /\ SubSeq(body, DataAt - 1, DataAt) = TwoBytes(size)
      /\ SubSeq(body, DataAt + 1, DataAt + size) = message.data
  BY BodyLayout
<1>3. bytes = body \o C
  BY DEF Serialize
<1> HIDE DEF body, bytes, size
<1>4. C \in Seq(Octet) /\ Len(C) = 2
  BY <1>2, ChecksumType, TwoBytesFacts
<1> HIDE DEF C
<1>5. /\ bytes \in Seq(Octet) /\ Len(bytes) = ChecksumAt + 2
      /\ bytes[1] = message.type
  <2>1. /\ body \o C \in Seq(Octet)
        /\ Len(body \o C) = Len(body) + Len(C)
        /\ Len(body) > 0 => (body \o C)[1] = body[1]
    BY <1>2, <1>4, Joined, Zenon
  <2>2. bytes = body \o C
    BY <1>3
  <2> HIDE DEF bytes
  <2> QED
    BY <1>1, <1>2, <1>4, <2>1, <2>2
<1>6. \A m, n \in Nat : 1 <= m /\ n <= ChecksumAt =>
                            SubSeq(bytes, m, n) = SubSeq(body, m, n)
  BY <1>2, <1>3, <1>4, CutInside
<1>7. SubSeq(bytes, 1, ChecksumAt) = body
  <2>1. SubSeq(body, 1, Len(body)) = body
    BY <1>2, SubSeqFull
  <2>2. SubSeq(bytes, 1, ChecksumAt) = SubSeq(body, 1, ChecksumAt)
    <3>1. 1 \in Nat /\ 1 <= 1 /\ ChecksumAt <= ChecksumAt
      BY <1>1
    <3> QED
      BY <1>1, <1>6, <3>1, Zenon
  <2> QED
    BY <1>2, <2>1, <2>2
<1>8. SubSeq(bytes, ChecksumAt + 1, ChecksumAt + 2) = C
  <2>1. SubSeq(bytes, Len(body) + 1, Len(body) + Len(C)) = C
    BY <1>2, <1>3, <1>4, CutBehind
  <2> QED
    BY <1>2, <1>4, <2>1
<1>9. /\ SubSeq(bytes, 2, 1 + FieldLen) = Padded(message.origin)
      /\ SubSeq(bytes, 2 + FieldLen, 1 + 2 * FieldLen)
           = Padded(message.destination)
  <2>1. /\ 2 \in Nat /\ 1 + FieldLen \in Nat /\ 1 <= 2
        /\ 2 + FieldLen \in Nat /\ 1 + 2 * FieldLen \in Nat
        /\ 1 <= 2 + FieldLen
        /\ 1 + FieldLen <= ChecksumAt /\ 1 + 2 * FieldLen <= ChecksumAt
    BY <1>1
  <2> QED
    BY <1>2, <1>6, <2>1
<1>10. SubSeq(bytes, DataAt - 1, DataAt) = TwoBytes(size)
  <2>1. /\ DataAt - 1 \in Nat /\ DataAt \in Nat /\ 1 <= DataAt - 1
        /\ DataAt <= ChecksumAt
    BY <1>1
  <2> QED
    BY <1>2, <1>6, <2>1
<1>11. SubSeq(bytes, DataAt + 1, DataAt + size) = message.data
  <2>1. /\ DataAt + 1 \in Nat /\ DataAt + size \in Nat /\ 1 <= DataAt + 1
        /\ DataAt + size <= ChecksumAt
    BY <1>1
  <2> QED
    BY <1>2, <1>6, <2>1
<1> QED
  BY <1>5, <1>7, <1>8, <1>9, <1>10, <1>11 DEF bytes, body, size, C

LEMMA CutFacts ==
    ASSUME NEW S, NEW s \in Seq(S), NEW m \in Nat, NEW n \in Nat,
           1 <= m, n <= Len(s), m <= n + 1
    PROVE  /\ SubSeq(s, m, n) \in Seq(S)
           /\ Len(SubSeq(s, m, n)) = n - m + 1
           /\ \A i \in 1..(n - m + 1) : SubSeq(s, m, n)[i] = s[m + i - 1]
<1>1. m \in Int /\ n \in Int /\ Len(s) \in Nat
  OBVIOUS
<1>2. \A i \in m..n : s[i] \in S
  BY <1>1, ElementOfSeq
<1>3. /\ SubSeq(s, m, n) \in Seq(S)
      /\ Len(SubSeq(s, m, n)) = IF m <= n THEN n - m + 1 ELSE 0
      /\ \A i \in 1 .. n - m + 1 : SubSeq(s, m, n)[i] = s[m + i - 1]
  BY <1>1, <1>2, SubSeqProperties
<1>4. (IF m <= n THEN n - m + 1 ELSE 0) = n - m + 1
  OBVIOUS
<1> QED
  BY <1>3, <1>4, Zenon

-----------------------------------------------------------------------------
(* Names                                                                   *)

\* A name comes out of its field as it went in exactly when it fits the
\* field and does not end in a space.
LEMMA NameInItsField ==
    ASSUME NEW text \in Seq(Octet), \A i \in 1..Len(text) : text[i] # NUL
    PROVE  FieldText(Padded(text)) = text <=> Carried(text)
<1> DEFINE p == Padded(text)
           n == Len(text)
           kept == {i \in DOMAIN p :
                      /\ \A j \in 1..i : p[j] # NUL
                      /\ \E j \in i..Len(p) : p[j] \notin {NUL, Space}}
           c == Cardinality(kept)
<1>1. /\ FieldLen \in Nat /\ n \in Nat
      /\ p \in Seq(Octet) /\ Len(p) = FieldLen /\ DOMAIN p = 1..FieldLen
      /\ \A i \in 1..FieldLen : p[i] = IF i <= n THEN text[i] ELSE NUL
  <2>1. DOMAIN p = 1..FieldLen
    BY DEF Padded
  <2> QED
    BY <2>1, WordFacts, PaddedFacts
<1>2. FieldText(p) = SubSeq(p, 1, c)
  BY DEF FieldText
<1> HIDE DEF p
<1>3. kept \subseteq 1..n /\ kept \subseteq 1..FieldLen
  <2> SUFFICES ASSUME NEW i \in kept PROVE i \in 1..n /\ i \in 1..FieldLen
    OBVIOUS
  <2>1. i \in 1..FieldLen /\ p[i] # NUL
    BY <1>1
  <2> QED
    BY <1>1, <2>1
<1>4. /\ IsFiniteSet(1..n) /\ Cardinality(1..n) = n
      /\ IsFiniteSet(1..FieldLen) /\ Cardinality(1..FieldLen) = FieldLen
  <2>1. ASSUME NEW k \in Nat
        PROVE  IsFiniteSet(1..k) /\ Cardinality(1..k) = k
    <3>1. /\ IsFiniteSet(1..k)
          /\ Cardinality(1..k) = IF 1 > k THEN 0 ELSE k - 1 + 1
      <4>1. 1 \in Int /\ k \in Int
        OBVIOUS
      <4> QED
        BY <4>1, FS_Interval, Zenon
    <3> QED
      BY <3>1
  <2> QED
    BY <1>1, <2>1
<1>5. /\ c \in Nat /\ c <= n /\ c <= FieldLen
      /\ c = n => kept = 1..n
  <2> HIDE DEF kept
  <2>1. IsFiniteSet(kept) /\ c <= n /\ (n = c => kept = 1..n)
    BY <1>3, <1>4, FS_Subset
  <2>2. c <= FieldLen
    BY <1>3, <1>4, FS_Subset
  <2> QED
    BY <2>1, <2>2, FS_CardinalityType
<1>6. /\ SubSeq(p, 1, c) \in Seq(Octet) /\ Len(SubSeq(p, 1, c)) = c
      /\ \A i \in 1..c : SubSeq(p, 1, c)[i] = p[i]
  <2> HIDE DEF c
  <2>1. /\ 1 \in Nat /\ 1 <= 1 /\ c <= Len(p) /\ 1 <= c + 1
        /\ c - 1 + 1 = c /\ \A i \in 1..c : 1 + i - 1 = i
    BY <1>1, <1>5
  <2>2. /\ SubSeq(p, 1, c) \in Seq(Octet)
        /\ Len(SubSeq(p, 1, c)) = c - 1 + 1
        /\ \A i \in 1..(c - 1 + 1) : SubSeq(p, 1, c)[i] = p[1 + i - 1]
    BY <1>1, <1>5, <2>1, CutFacts
  <2> QED
    BY <2>1, <2>2
<1>7. ASSUME FieldText(p) = text
      PROVE  Carried(text)
  <2>1. c = n
    BY <1>2, <1>6, <1>7
  <2>2. kept = 1..n /\ n <= FieldLen
    BY <1>5, <2>1
  <2>3. ASSUME text # <<>>
        PROVE  text[n] # Space
    <3>1. n > 0
      BY <1>1, <2>3, EmptySeq
    <3>2. n \in kept
      BY <1>1, <2>2, <3>1
    <3>3. PICK j \in n..FieldLen : p[j] \notin {NUL, Space}
      BY <1>1, <3>2
    <3>4. j \in 1..FieldLen /\ j <= n
      BY <1>1, <3>1, <3>3
    <3>5. j = n
      BY <1>1, <3>4
    <3>6. p[n] = text[n]
      BY <1>1, <3>4, <3>5
    <3> QED
      BY <3>3, <3>5, <3>6
  <2> QED
    BY <2>2, <2>3 DEF Carried
<1>8. ASSUME Carried(text)
      PROVE  FieldText(p) = text
  <2>1. n <= FieldLen
    BY <1>8 DEF Carried
  <2>2. \A i \in 1..n : p[i] = text[i] /\ p[i] # NUL /\ i \in 1..FieldLen
    BY <1>1, <2>1
  <2>3. \A i \in 1..n : i \in kept
    <3> SUFFICES ASSUME NEW i \in 1..n PROVE i \in kept
      OBVIOUS
    <3>1. n \in 1..n /\ text # <<>>
      BY <1>1
    <3>2. p[n] \notin {NUL, Space}
      <4>1. text[n] # Space
        BY <1>8, <3>1 DEF Carried
      <4> QED
        BY <2>2, <3>1, <4>1
    <3>3. n \in i..Len(p)
      BY <1>1, <2>1
    <3>4. \A j \in 1..i : p[j] # NUL
      BY <1>1, <2>2
    <3> QED
      BY <1>1, <2>2, <3>2, <3>3, <3>4
  <2>4. kept = 1..n
    <3> HIDE DEF kept
    <3> QED
      BY <1>3, <2>3
  <2>5. c = n
    BY <1>4, <2>4
  <2> HIDE DEF c, n, kept
  <2>6. /\ Len(SubSeq(p, 1, c)) = Len(text)
        /\ \A i \in 1..Len(SubSeq(p, 1, c)) : SubSeq(p, 1, c)[i] = text[i]
    BY <1>6, <2>2, <2>5 DEF n
  <2>7. SubSeq(p, 1, c) = text
    BY <1>6, <2>6, SeqEqual
  <2> QED
    BY <1>2, <2>7
<1> QED
  BY <1>7, <1>8 DEF p

-----------------------------------------------------------------------------
(* What the receiver makes of the bytes                                    *)

\* What was serialized is accepted, and its length is that of the data.
LEMMA GoodFrameIsAccepted ==
    ASSUME NEW message \in Message
    PROVE  /\ DataLength(Serialize(message)) = Len(message.data)
           /\ ParseResult(Serialize(message)) = "OK"
<1> DEFINE bytes == Serialize(message)
           sum == Checksum(Body(message))
           size == Len(message.data)
<1>1. /\ SubSeq(bytes, 1, ChecksumAt) = Body(message)
      /\ SubSeq(bytes, ChecksumAt + 1, ChecksumAt + 2) = TwoBytes(sum)
      /\ SubSeq(bytes, DataAt - 1, DataAt) = TwoBytes(size)
  BY SerializeLayout
<1>2. Body(message) \in Seq(Octet)
  BY BodyLayout
<1>3. sum \in Nat /\ sum < Word
  BY <1>2, ChecksumType
<1>4. /\ size \in Nat /\ size <= MaxData /\ size < Word
      /\ MaxData \in Nat
  BY WordFacts, MessageFacts
<1> HIDE DEF bytes, size
<1>5. Number(TwoBytes(sum)) = sum
  <2> HIDE DEF sum
  <2> QED
    BY <1>3, TwoBytesFacts
<1>6. Number(TwoBytes(size)) = size
  BY <1>4, TwoBytesFacts
<1>7. DataLength(bytes) = size
  BY <1>1, <1>6, Zenon DEF DataLength
<1>8. ~(DataLength(bytes) > MaxData)
  BY <1>4, <1>7
<1>9. Number(SubSeq(bytes, ChecksumAt + 1, ChecksumAt + 2))
        = Checksum(SubSeq(bytes, 1, ChecksumAt))
  BY <1>1, <1>5, Zenon
<1>10. ParseResult(bytes) = "OK"
  BY <1>8, <1>9, Zenon DEF ParseResult
<1> QED
  BY <1>7, <1>10 DEF bytes, size

\* Two bytes of which one is changed are another number.
LEMMA OtherNumber ==
    ASSUME NEW s \in Seq(Octet), NEW t \in Seq(Octet), Len(s) = 2, Len(t) = 2,
           NEW k \in 1..2, \A i \in 1..2 : i # k => t[i] = s[i], t[k] # s[k]
    PROVE  Number(t) # Number(s)
<1>1. ByteValues \in Nat /\ ByteValues > 2
  BY WordFacts
<1>2. /\ s[1] \in 0..(ByteValues - 1) /\ s[2] \in 0..(ByteValues - 1)
      /\ t[1] \in 0..(ByteValues - 1) /\ t[2] \in 0..(ByteValues - 1)
  <2>1. 1 \in 1..Len(s) /\ 2 \in 1..Len(s) /\ 1 \in 1..Len(t) /\ 2 \in 1..Len(t)
    OBVIOUS
  <2>2. s[1] \in Octet /\ s[2] \in Octet /\ t[1] \in Octet /\ t[2] \in Octet
    BY <2>1, ElementOfSeq, Zenon
  <2> QED
    BY <2>2, Zenon DEF Octet
<1>3. CASE k = 2
  <2>1. t[1] = s[1] /\ t[2] # s[2]
    BY <1>3
  <2>2. s[1] * ByteValues \in Nat
    BY <1>1, <1>2
  <2> QED
    BY <1>2, <2>1, <2>2 DEF Number
<1>4. CASE k = 1
  <2>1. t[2] = s[2] /\ t[1] # s[1]
    BY <1>4
  <2>2. ASSUME NEW a \in Nat, NEW b \in Nat, a < b
        PROVE  a * ByteValues < b * ByteValues
    <3>1. ByteValues * (a + 1) <= ByteValues * b
      BY <1>1, <2>2, ProductGrows
    <3>2. ByteValues * (a + 1) = ByteValues * a + ByteValues
      BY <1>1
    <3>3. ByteValues * a = a * ByteValues /\ ByteValues * b = b * ByteValues
      BY <1>1
    <3>4. a * ByteValues \in Nat /\ b * ByteValues \in Nat
      BY <1>1
    <3> QED
      BY <1>1, <3>1, <3>2, <3>3, <3>4
  <2>3. s[1] * ByteValues # t[1] * ByteValues
    <3>1. s[1] \in Nat /\ t[1] \in Nat
      BY <1>1, <1>2
    <3>2. s[1] < t[1] \/ t[1] < s[1]
      BY <2>1, <3>1
    <3>3. s[1] * ByteValues \in Nat /\ t[1] * ByteValues \in Nat
      BY <1>1, <3>1
    <3> QED
      BY <2>2, <3>1, <3>2, <3>3
  <2>4. s[1] * ByteValues \in Nat /\ t[1] * ByteValues \in Nat
    BY <1>1, <1>2
  <2> QED
    BY <1>2, <2>1, <2>3, <2>4 DEF Number
<1> QED
  BY <1>3, <1>4

\* One wrong byte, wherever it is, is refused: in front of the checksum it
\* changes the sum, in the checksum it changes what the sum is compared with.
LEMMA WrongByteIsRefused ==
    ASSUME NEW message \in Message, NEW i \in DOMAIN Serialize(message),
           NEW wrong \in Octet,
           [Serialize(message) EXCEPT ![i] = wrong] # Serialize(message)
    PROVE  ParseResult([Serialize(message) EXCEPT ![i] = wrong]) # "OK"
<1> DEFINE bytes == Serialize(message)
           other == [bytes EXCEPT ![i] = wrong]
           A == ChecksumAt
<1>1. /\ bytes \in Seq(Octet) /\ Len(bytes) = A + 2
      /\ SubSeq(bytes, 1, A) = Body(message)
      /\ SubSeq(bytes, A + 1, A + 2) = TwoBytes(Checksum(Body(message)))
  BY SerializeLayout
<1>2. A \in Nat
  BY WordFacts DEF ChecksumAt, DataAt
<1>3. Number(SubSeq(bytes, A + 1, A + 2)) = Checksum(SubSeq(bytes, 1, A))
  <2>1. Body(message) \in Seq(Octet)
    BY BodyLayout
  <2>2. Checksum(Body(message)) \in Nat /\ Checksum(Body(message)) < Word
    BY <2>1, ChecksumType
  <2>3. Number(TwoBytes(Checksum(Body(message)))) = Checksum(Body(message))
    BY <2>2, TwoBytesFacts
  <2> HIDE DEF bytes
  <2> QED
    BY <1>1, <2>3, Zenon
<1>4. i \in 1..(A + 2)
  <2>1. DOMAIN bytes = 1..Len(bytes)
    BY <1>1, LenProperties
  <2> QED
    BY <1>1, <2>1
<1> HIDE DEF bytes, A
<1>5. /\ other \in Seq(Octet) /\ Len(other) = A + 2
      /\ \A j \in 1..(A + 2) : other[j] = IF j = i THEN wrong ELSE bytes[j]
  <2>1. i \in 1..Len(bytes)
    BY <1>1, <1>4
  <2>2. /\ other \in Seq(Octet) /\ Len(other) = Len(bytes)
        /\ \A j \in 1..Len(bytes) : other[j] = IF j = i THEN wrong ELSE bytes[j]
    BY <1>1, <2>1, ExceptSeq
  <2> HIDE DEF other
  <2> QED
    BY <1>1, <2>2
<1>6. other[i] # bytes[i]
  <2> SUFFICES ASSUME other[i] = bytes[i] PROVE FALSE
    OBVIOUS
  <2>1. other # bytes
    BY DEF bytes
  <2> HIDE DEF other
  <2>2. Len(other) = Len(bytes) /\ \A j \in 1..Len(other) : other[j] = bytes[j]
    BY <1>1, <1>5
  <2>3. other = bytes
    BY <1>1, <1>5, <2>2, SeqEqual
  <2> QED
    BY <2>1, <2>3
<1>7. \A j \in 1..(A + 2) : j # i => other[j] = bytes[j]
  BY <1>5
<1> HIDE DEF other
<1>8. ASSUME NEW s, s \in {bytes, other}
      PROVE  /\ SubSeq(s, 1, A) \in Seq(Octet) /\ Len(SubSeq(s, 1, A)) = A
             /\ \A j \in 1..A : SubSeq(s, 1, A)[j] = s[j]
             /\ SubSeq(s, A + 1, A + 2) \in Seq(Octet)
             /\ Len(SubSeq(s, A + 1, A + 2)) = 2
             /\ \A j \in 1..2 : SubSeq(s, A + 1, A + 2)[j] = s[A + j]
  <2>1. s \in Seq(Octet) /\ Len(s) = A + 2
    BY <1>1, <1>5, <1>8
  <2>2. /\ SubSeq(s, 1, A) \in Seq(Octet) /\ Len(SubSeq(s, 1, A)) = A - 1 + 1
        /\ \A j \in 1..(A - 1 + 1) : SubSeq(s, 1, A)[j] = s[1 + j - 1]
    BY <1>2, <2>1, CutFacts
  <2> DEFINE m == A + 1
             n == A + 2
  <2>3. /\ m \in Nat /\ n \in Nat /\ 1 <= m /\ n <= Len(s) /\ m <= n + 1
        /\ n - m + 1 = 2 /\ \A j \in 1..2 : m + j - 1 = A + j
    BY <1>2, <2>1
  <2> HIDE DEF m, n
  <2>4. /\ SubSeq(s, m, n) \in Seq(Octet) /\ Len(SubSeq(s, m, n)) = n - m + 1
        /\ \A j \in 1..(n - m + 1) : SubSeq(s, m, n)[j] = s[m + j - 1]
    BY <2>1, <2>3, CutFacts
  <2>5. /\ SubSeq(s, m, n) \in Seq(Octet) /\ Len(SubSeq(s, m, n)) = 2
        /\ \A j \in 1..2 : SubSeq(s, m, n)[j] = s[A + j]
    BY <2>3, <2>4
  <2>6. /\ SubSeq(s, 1, A) \in Seq(Octet) /\ Len(SubSeq(s, 1, A)) = A
        /\ \A j \in 1..A : SubSeq(s, 1, A)[j] = s[j]
    <3>1. A - 1 + 1 = A /\ \A j \in 1..A : 1 + j - 1 = j
      BY <1>2
    <3> QED
      BY <2>2, <3>1
  <2> QED
    BY <2>5, <2>6, Zenon DEF m, n
<1>9. Number(SubSeq(other, A + 1, A + 2)) # Checksum(SubSeq(other, 1, A))
  <2> DEFINE s == SubSeq(bytes, 1, A)
             t == SubSeq(other, 1, A)
             u == SubSeq(bytes, A + 1, A + 2)
             v == SubSeq(other, A + 1, A + 2)
  <2>1. /\ s \in Seq(Octet) /\ t \in Seq(Octet) /\ Len(s) = A /\ Len(t) = A
        /\ \A j \in 1..A : s[j] = bytes[j] /\ t[j] = other[j]
        /\ u \in Seq(Octet) /\ v \in Seq(Octet) /\ Len(u) = 2 /\ Len(v) = 2
        /\ \A j \in 1..2 : u[j] = bytes[A + j] /\ v[j] = other[A + j]
        /\ Number(u) = Checksum(s)
    BY <1>3, <1>8
  <2> HIDE DEF s, t, u, v
  <2>2. CASE i <= A
    <3>1. i \in 1..A /\ \A j \in 1..A : j \in 1..(A + 2)
      BY <1>2, <1>4, <2>2
    <3>2. t[i] # s[i] /\ \A j \in 1..A : j # i => t[j] = s[j]
      BY <1>6, <1>7, <2>1, <3>1
    <3>3. Checksum(t) # Checksum(s)
      <4>1. /\ Len(t) = Len(s) /\ i \in 1..Len(s)
            /\ \A j \in 1..Len(s) : j # i => t[j] = s[j]
        BY <2>1, <3>1, <3>2
      <4> QED
        BY <2>1, <3>2, <4>1, ChecksumOfChanged
    <3>4. \A j \in 1..2 : A + j \in 1..(A + 2) /\ A + j # i
      BY <1>2, <3>1
    <3>5. Len(u) = Len(v) /\ \A j \in 1..Len(u) : u[j] = v[j]
      BY <1>7, <2>1, <3>4
    <3>6. u = v
      BY <2>1, <3>5, SeqEqual
    <3> QED
      BY <2>1, <3>3, <3>6 DEF t, v
  <2>3. CASE i > A
    <3>1. PICK k \in 1..2 : i = A + k
      <4>1. i - A \in 1..2 /\ i = A + (i - A)
        BY <1>2, <1>4, <2>3
      <4> QED
        BY <4>1
    <3>2. \A j \in 1..2 : A + j \in 1..(A + 2) /\ (A + j = i => j = k)
      BY <1>2, <3>1
    <3>3. v[k] # u[k] /\ \A j \in 1..2 : j # k => v[j] = u[j]
      BY <1>6, <1>7, <2>1, <3>1, <3>2
    <3>4. Number(v) # Number(u)
      BY <2>1, <3>3, OtherNumber
    <3>5. \A j \in 1..A : j \in 1..(A + 2) /\ j # i
      BY <1>2, <2>3
    <3>6. Len(s) = Len(t) /\ \A j \in 1..Len(s) : s[j] = t[j]
      BY <1>7, <2>1, <3>5
    <3>7. s = t
      BY <2>1, <3>6, SeqEqual
    <3> QED
      BY <2>1, <3>4, <3>7 DEF t, v
  <2> QED
    BY <1>2, <1>4, <2>2, <2>3
<1>10. ParseResult(other) # "OK"
  BY <1>9 DEF ParseResult, A
<1> QED
  BY <1>10 DEF other, bytes

-----------------------------------------------------------------------------
(* Theorems                                                                *)

LEMMA EveryFrameIsTold == ParsedAsFrames = 1..MaxFrames
<1> SUFFICES ASSUME NEW f \in 1..MaxFrames, NEW message \in Carries(f),
                    NEW bytes \in Arriving(f, message)
             PROVE  ParseResult(bytes) = "OK" <=> IsFrame(Bytes(f))
  BY DEF ParsedAsFrames
<1>1. message \in Message
  BY DEF Carries
<1>2. CASE f \notin Corrupt
  <2>1. bytes = Serialize(message)
    BY <1>2 DEF Arriving
  <2> QED
    BY <1>1, <1>2, <2>1, GoodFrameIsAccepted, FrameIsFrame
<1>3. CASE f \in Corrupt
  <2>1. PICK i \in DOMAIN Serialize(message), wrong \in Octet :
            /\ bytes = [Serialize(message) EXCEPT ![i] = wrong]
            /\ bytes # Serialize(message)
    BY <1>3 DEF Arriving
  <2>2. ParseResult(bytes) # "OK"
    BY <1>1, <2>1, WrongByteIsRefused
  <2> QED
    BY <1>3, <2>2, FrameIsFrame
<1> QED
  BY <1>2, <1>3

LEMMA EveryFrameIsRead == ReadAsWritten = 1..MaxFrames
<1> SUFFICES ASSUME NEW f \in 1..MaxFrames, NEW message \in Carries(f)
             PROVE  LET frame == Parsed(Serialize(message))
                    IN  /\ frame.type = message.type
                        /\ frame.data = message.data
                        /\ frame.origin = message.origin
                           <=> Carried(message.origin)
                        /\ frame.destination = message.destination
                           <=> Carried(message.destination)
  BY DEF ReadAsWritten
<1> DEFINE bytes == Serialize(message)
           frame == Parsed(bytes)
<1>1. message \in Message
  BY DEF Carries
<1>2. /\ bytes[1] = message.type
      /\ SubSeq(bytes, 2, 1 + FieldLen) = Padded(message.origin)
      /\ SubSeq(bytes, 2 + FieldLen, 1 + 2 * FieldLen)
           = Padded(message.destination)
      /\ SubSeq(bytes, DataAt + 1, DataAt + Len(message.data)) = message.data
      /\ DataLength(bytes) = Len(message.data)
  BY <1>1, SerializeLayout, GoodFrameIsAccepted
<1> HIDE DEF bytes
<1>3. /\ frame.type = bytes[1]
      /\ frame.origin = FieldText(SubSeq(bytes, 2, 1 + FieldLen))
      /\ frame.destination
           = FieldText(SubSeq(bytes, 2 + FieldLen, 1 + 2 * FieldLen))
      /\ frame.data = SubSeq(bytes, DataAt + 1, DataAt + DataLength(bytes))
  BY DEF Parsed
<1> HIDE DEF frame
<1>4. /\ frame.type = message.type /\ frame.data = message.data
      /\ frame.origin = FieldText(Padded(message.origin))
      /\ frame.destination = FieldText(Padded(message.destination))
  BY <1>2, <1>3, Zenon
<1>5. \A text \in {message.origin, message.destination} :
        FieldText(Padded(text)) = text <=> Carried(text)
  BY <1>1, MessageFacts, NameInItsField
<1> QED
  BY <1>4, <1>5 DEF frame, bytes

\* Whatever the frames carry and whichever of its bytes is wrong, the parser
\* accepts of the frames on their way exactly those that are not corrupt:
\* frame_deserialize can decide by the checksum and the length what
\* FrameStream takes for granted.
THEOREM ChecksumTellsFrames == Spec => []ChecksumTells
<1>1. StreamTypeOK => ChecksumTells
  <2> SUFFICES ASSUME StreamTypeOK, NEW i \in DOMAIN accepted
               PROVE  accepted[i] \in 1..MaxFrames
    BY EveryFrameIsTold DEF ChecksumTells
  <2>1. accepted \in Seq(1..MaxFrames)
    BY DEF StreamTypeOK
  <2> QED
    BY <2>1, LenProperties, ElementOfSeq
<1> QED
  BY <1>1, StreamTypeCorrect, PTL

\* What frame_deserialize reads in a frame that is handled is what
\* frame_serialize wrote: the type and the data always, a name exactly when
\* it fits its field and does not end in a space.
THEOREM FramesAreReadAsWritten == Spec => []HandledAsSent
<1>1. StreamTypeOK => HandledAsSent
  <2> SUFFICES ASSUME StreamTypeOK, NEW i \in DOMAIN delivered
               PROVE  delivered[i] \in 1..MaxFrames
    BY EveryFrameIsRead DEF HandledAsSent
  <2>1. delivered \in Seq(1..MaxFrames)
    BY DEF StreamTypeOK
  <2> QED
    BY <2>1, LenProperties, ElementOfSeq
<1> QED
  BY <1>1, StreamTypeCorrect, PTL

=============================================================================
