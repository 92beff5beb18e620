--------------------------- MODULE Lifetime_proofs ---------------------------
(***************************************************************************)
(* For any inventory, configuration files, size of the cart and width of   *)
(* int: what the cart can hold and that it is a Basket, what the stock     *)
(* database keeps through every way a life of the process may end, and     *)
(* that the list of routes made of a file means the table of Frames.       *)
(***************************************************************************)
EXTENDS Lifetime, SequenceTheorems, FiniteSetTheorems,
        WellFoundedInduction, TLAPS

----------------------------------------------------------------------------
(* The cart                                                                *)

LEMMA WrapIsAnInt ==
    ASSUME NEW n \in Int
    PROVE  Wrap(n) \in Ints
<1>1. MaxInt \in Nat /\ MaxInt > 0
  BY CartAssumption
<1> DEFINE word == 2 * (MaxInt + 1)
           m == (n + MaxInt + 1) % word
<1>2. word \in Nat /\ word > 0
  BY <1>1
<1>3. n + MaxInt + 1 \in Int
  BY <1>1
<1> HIDE DEF word
<1>4. m \in 0..(word - 1)
  BY <1>2, <1>3
<1> QED
  BY <1>1, <1>4 DEF Wrap, Ints, word

Carts == {c \in Seq(Line) : Len(c) <= MaxLines}

\* A line that can be sent as it is.
Good(line) == line.wrapped \/ line.quantity > 0

LEMMA LineFields ==
    ASSUME NEW line \in Line
    PROVE  /\ line.product \in Products /\ line.quantity \in Int
           /\ line.wrapped \in BOOLEAN
BY CartAssumption DEF Line, Ints

LEMMA ChangedLine ==
    ASSUME NEW line \in Line, NEW n \in Int
    PROVE  /\ Changed(line, n) \in Line
           /\ Good(line) /\ n > 0 => Good(Changed(line, n))
<1>1. Wrap(n) \in Ints
  BY WrapIsAnInt
<1>2. (line.wrapped \/ n # Wrap(n)) \in BOOLEAN
  OBVIOUS
<1>3. /\ Changed(line, n) \in Line
      /\ Changed(line, n).quantity = Wrap(n)
      /\ Changed(line, n).wrapped <=> (line.wrapped \/ n # Wrap(n))
  BY <1>1, <1>2 DEF Changed, Line
<1> QED
  BY <1>3 DEF Good

LEMMA NewLine ==
    ASSUME NEW product \in Products, NEW n \in Ints, n > 0
    PROVE  LET line == [product |-> product, quantity |-> n, wrapped |-> FALSE]
           IN  line \in Line /\ Good(line)
BY DEF Line, Good

\* Adding to a line or adding a line: the limit holds and the lines stay good.
LEMMA AddedCart ==
    ASSUME NEW c \in Carts, NEW product \in Products, NEW n \in Ints, n > 0
    PROVE  /\ Added(c, product, n) \in Carts
           /\ (\A i \in DOMAIN c : Good(c[i]))
                => \A i \in DOMAIN Added(c, product, n) :
                        Good(Added(c, product, n)[i])
<1>1. c \in Seq(Line) /\ Len(c) \in Nat /\ DOMAIN c = 1..Len(c)
      /\ Len(c) <= MaxLines /\ MaxLines \in Nat /\ n \in Int
  BY CartAssumption DEF Carts, Ints
<1>2. CASE LineOf(c, product) # {}
  <2> DEFINE L == LineOf(c, product)
             d == [i \in DOMAIN c |-> IF i \in L
                                      THEN Changed(c[i], c[i].quantity + n)
                                      ELSE c[i]]
  <2>1. Added(c, product, n) = d
    BY <1>2 DEF Added
  <2> HIDE DEF L
  <2>2. ASSUME NEW i \in 1..Len(c)
        PROVE  d[i] \in Line /\ (Good(c[i]) => Good(d[i]))
    <3>1. c[i] \in Line
      BY <1>1, ElementOfSeq
    <3>2. c[i].quantity \in Int /\ c[i].wrapped \in BOOLEAN
      BY <3>1, LineFields
    <3>3. CASE i \notin L
      BY <1>1, <3>1, <3>3
    <3>4. CASE i \in L
      <4>1. d[i] = Changed(c[i], c[i].quantity + n)
        BY <1>1, <3>4
      <4>2. c[i].quantity + n \in Int
        BY <1>1, <3>2
      <4>3. Changed(c[i], c[i].quantity + n) \in Line
        BY <3>1, <4>2, ChangedLine
      <4>4. CASE c[i].wrapped
        <5>1. Changed(c[i], c[i].quantity + n).wrapped
          BY <3>1, <4>4 DEF Changed, Line
        <5> QED
          BY <4>1, <4>3, <5>1 DEF Good
      <4>5. CASE c[i].quantity > 0
        BY <1>1, <3>1, <3>2, <4>1, <4>2, <4>3, <4>5, ChangedLine
      <4> QED
        BY <4>1, <4>3, <4>4, <4>5 DEF Good
    <3> QED
      BY <3>3, <3>4
  <2>3. DOMAIN d = 1..Len(c)
    BY <1>1
  <2> HIDE DEF d
  <2>4. d \in Seq(Line) /\ Len(d) = Len(c)
    <3>1. d = [i \in 1..Len(c) |-> d[i]]
      BY <2>3, <1>1 DEF d
    <3> QED
      BY <1>1, <2>2, <2>3, <3>1, IsASeq
  <2> QED
    BY <1>1, <2>1, <2>2, <2>3, <2>4 DEF Carts
<1>3. CASE LineOf(c, product) = {} /\ Len(c) < MaxLines
  <2> DEFINE line == [product |-> product, quantity |-> n, wrapped |-> FALSE]
             d == Append(c, line)
  <2>1. line \in Line /\ Good(line)
    BY NewLine
  <2>2. Added(c, product, n) = d
    BY <1>3 DEF Added
  <2> HIDE DEF line
  <2>3. /\ d \in Seq(Line) /\ Len(d) = Len(c) + 1 /\ DOMAIN d = 1..(Len(c) + 1)
        /\ \A i \in 1..Len(c) : d[i] = c[i]
        /\ d[Len(c) + 1] = line
    BY <1>1, <2>1, AppendProperties
  <2> HIDE DEF d
  <2> QED
    BY <1>1, <1>3, <2>1, <2>2, <2>3 DEF Carts
<1>4. CASE LineOf(c, product) = {} /\ ~(Len(c) < MaxLines)
  BY <1>4 DEF Added
<1> QED
  BY <1>2, <1>3, <1>4

\* Taking from a line or taking it away.
LEMMA RemovedCart ==
    ASSUME NEW c \in Carts, NEW product, NEW n \in Ints
    PROVE  /\ Removed(c, product, n) \in Carts
           /\ (\A i \in DOMAIN c : Good(c[i]))
                => \A i \in DOMAIN Removed(c, product, n) :
                        Good(Removed(c, product, n)[i])
<1>1. c \in Seq(Line) /\ Len(c) \in Nat /\ DOMAIN c = 1..Len(c)
      /\ Len(c) <= MaxLines /\ MaxLines \in Nat /\ n \in Int
  BY CartAssumption DEF Carts, Ints
<1>2. CASE LineOf(c, product) = {}
  BY <1>2 DEF Removed
<1>3. CASE LineOf(c, product) # {}
  <2> DEFINE k == CHOOSE j \in LineOf(c, product) : TRUE
             line == Changed(c[k], c[k].quantity - n)
  <2>1. k \in 1..Len(c)
    <3>1. k \in LineOf(c, product)
      BY <1>3
    <3> QED
      BY <1>1, <3>1 DEF LineOf
  <2>2. Removed(c, product, n) = IF TakesAll(c[k], n) THEN WithoutLine(c, k)
                                 ELSE [c EXCEPT ![k] = Changed(@, @.quantity - n)]
    BY <1>3 DEF Removed
  <2> HIDE DEF k
  <2>3. c[k] \in Line /\ c[k].quantity \in Int /\ c[k].wrapped \in BOOLEAN
    BY <1>1, <2>1, ElementOfSeq, LineFields
  <2>4. CASE TakesAll(c[k], n)
    <3> DEFINE d == WithoutLine(c, k)
    <3>1. Len(c) - 1 \in Nat
      BY <1>1, <2>1
    <3>2. /\ DOMAIN d = 1..(Len(c) - 1)
          /\ \A i \in 1..(Len(c) - 1) : d[i] = c[i] \/ d[i] = c[i + 1]
      BY DEF WithoutLine
    <3>3. \A i \in 1..(Len(c) - 1) : i \in 1..Len(c) /\ i + 1 \in 1..Len(c)
      BY <1>1
    <3>4. \A i \in 1..(Len(c) - 1) : d[i] \in Line
      BY <1>1, <3>2, <3>3, ElementOfSeq
    <3>5. d \in Seq(Line) /\ Len(d) = Len(c) - 1
      <4>1. d = [i \in 1..(Len(c) - 1) |-> d[i]]
        BY DEF WithoutLine
      <4> HIDE DEF d
      <4> QED
        BY <3>1, <3>2, <3>4, <4>1, IsASeq
    <3> HIDE DEF d
    <3> QED
      BY <1>1, <2>2, <2>4, <3>2, <3>3, <3>5 DEF Carts, d
  <2>5. CASE ~TakesAll(c[k], n)
    <3> DEFINE d == [c EXCEPT ![k] = line]
    <3>1. c[k].quantity - n \in Int /\ c[k].quantity - n > 0
      BY <1>1, <2>3, <2>5 DEF TakesAll
    <3>2. line \in Line
      BY <2>3, <3>1, ChangedLine
    <3>3. Good(c[k]) => Good(line)
      <4>1. CASE c[k].wrapped
        <5>1. line.wrapped
          BY <2>3, <4>1 DEF Changed, Line
        <5> QED
          BY <3>2, <5>1 DEF Good
      <4>2. CASE c[k].quantity > 0
        <5>1. Good(c[k])
          BY <4>2 DEF Good
        <5> QED
          BY <2>3, <3>1, <5>1, ChangedLine
      <4> QED
        BY <4>1, <4>2 DEF Good
    <3>4. Removed(c, product, n) = d
      BY <1>1, <2>1, <2>2, <2>5
    <3> HIDE DEF line
    <3>5. /\ d \in Seq(Line) /\ Len(d) = Len(c) /\ DOMAIN d = DOMAIN c
          /\ d[k] = line /\ \A i \in DOMAIN c : i # k => d[i] = c[i]
      BY <1>1, <2>1, <3>2, ExceptSeq
    <3> HIDE DEF d
    <3> QED
      BY <1>1, <2>1, <3>3, <3>4, <3>5 DEF Carts
  <2> QED
    BY <2>4, <2>5
<1> QED
  BY <1>2, <1>3

----------------------------------------------------------------------------
(* The cart as a basket: its lines are for different products, so that the *)
(* amount of a product is the quantity of its line.                        *)

OneLine(c) ==
    \A i, j \in DOMAIN c : c[i].product = c[j].product => i = j

With(a, product, n) ==
    [p \in DOMAIN a \cup {product} |-> IF p = product THEN n ELSE a[p]]

Without(a, product) == [p \in DOMAIN a \ {product} |-> a[p]]

SameInt(a, b) == (a - b) % (2 * (MaxInt + 1)) = 0

LEMMA AmountsFacts ==
    ASSUME NEW c, OneLine(c)
    PROVE  /\ DOMAIN Amounts(c) = {c[i].product : i \in DOMAIN c}
           /\ Amounts(c) = [p \in DOMAIN Amounts(c) |-> Amounts(c)[p]]
           /\ \A i \in DOMAIN c : /\ c[i].product \in DOMAIN Amounts(c)
                                  /\ Amounts(c)[c[i].product] = c[i].quantity
<1>1. ASSUME NEW i \in DOMAIN c
      PROVE  Amounts(c)[c[i].product] = c[i].quantity
  <2> DEFINE k == CHOOSE j \in DOMAIN c : c[j].product = c[i].product
  <2>1. k \in DOMAIN c /\ c[k].product = c[i].product
    OBVIOUS
  <2>2. k = i
    BY <2>1 DEF OneLine
  <2>3. Amounts(c)[c[i].product] = c[k].quantity
    BY DEF Amounts
  <2> QED
    BY <2>2, <2>3
<1> QED
  BY <1>1 DEF Amounts

\* The amounts of a cart are the function that agrees with every line.
LEMMA ExactAmounts ==
    ASSUME NEW c, OneLine(c), NEW f, f = [p \in DOMAIN f |-> f[p]],
           DOMAIN f = {c[i].product : i \in DOMAIN c},
           \A i \in DOMAIN c : f[c[i].product] = c[i].quantity
    PROVE  Amounts(c) = f
<1>1. DOMAIN Amounts(c) = DOMAIN f
  BY AmountsFacts
<1>2. ASSUME NEW p \in DOMAIN f
      PROVE  Amounts(c)[p] = f[p]
  <2>1. PICK i \in DOMAIN c : p = c[i].product
    OBVIOUS
  <2> QED
    BY <2>1, AmountsFacts
<1>3. Amounts(c) = [p \in DOMAIN Amounts(c) |-> Amounts(c)[p]]
  BY AmountsFacts
<1> QED
  BY <1>1, <1>2, <1>3

LEMMA MultipleMod ==
    ASSUME NEW w \in Nat, w > 0, NEW k \in Int
    PROVE  (w * k) % w = 0
<1> DEFINE m == (w * k) % w
           d == (w * k) \div w
<1>1. w * k = w * d + m /\ m \in 0..(w - 1) /\ d \in Int
  OBVIOUS
<1> HIDE DEF m, d
<1>2. w * (k - d) = m /\ k - d \in Int
  BY <1>1
<1>3. k - d = 0
  <2>1. k - d >= 1 => w * (k - d) >= w
    BY <1>1
  <2>2. k - d <= -1 => w * (k - d) <= -w
    BY <1>1
  <2> QED
    BY <1>1, <1>2, <2>1, <2>2
<1> QED
  BY <1>1, <1>2, <1>3 DEF m

\* Wrapping leaves the residue of the word.
LEMMA WrapIsSame ==
    ASSUME NEW n \in Int
    PROVE  SameInt(Wrap(n), n)
<1> DEFINE w == 2 * (MaxInt + 1)
           x == n + MaxInt + 1
           d == x \div w
<1>1. MaxInt \in Nat /\ w \in Nat /\ w > 0 /\ x \in Int
  BY CartAssumption
<1>2. Wrap(n) - n = (x % w) - x
  <2>1. x % w \in Int
    BY <1>1
  <2>2. Wrap(n) = (x % w) - (MaxInt + 1)
    BY DEF Wrap
  <2> QED
    BY <1>1, <2>1, <2>2
<1> HIDE DEF w, x
<1>3. d \in Int /\ x = w * d + (x % w) /\ x % w \in Int
  BY <1>1
<1> HIDE DEF d
<1>4. (x % w) - x = w * (-d) /\ -d \in Int
  BY <1>1, <1>3
<1>5. (w * (-d)) % w = 0
  BY <1>1, <1>4, MultipleMod
<1> QED
  BY <1>2, <1>4, <1>5 DEF SameInt, w

\* There are as many products as lines.
LEMMA AmountsCount ==
    ASSUME NEW c \in Seq(Line), OneLine(c)
    PROVE  Cardinality(DOMAIN Amounts(c)) = Len(c)
<1> DEFINE P == DOMAIN Amounts(c)
           f == [i \in 1..Len(c) |-> c[i].product]
<1>1. Len(c) \in Nat /\ DOMAIN c = 1..Len(c)
  OBVIOUS
<1>2. P = {c[i].product : i \in DOMAIN c}
  BY AmountsFacts
<1> HIDE DEF P
<1>3. f \in Bijection(1..Len(c), P)
  <2>1. f \in [1..Len(c) -> P]
    BY <1>1, <1>2
  <2>2. \A i, j \in 1..Len(c) : f[i] = f[j] => i = j
    BY <1>1 DEF OneLine
  <2>3. \A p \in P : \E i \in 1..Len(c) : f[i] = p
    BY <1>1, <1>2
  <2> HIDE DEF f
  <2> QED
    BY <2>1, <2>2, <2>3 DEF Bijection, Injection, Surjection, IsInjective
<1>4. IsFiniteSet(1..Len(c)) /\ Cardinality(1..Len(c)) = Len(c)
  BY <1>1, FS_Interval
<1>5. Cardinality(P) = Cardinality(1..Len(c))
  BY <1>3, <1>4, FS_Bijection DEF ExistsBijection
<1> QED
  BY <1>4, <1>5 DEF P

\* Searching a product: its line, or none when it has no amount.
LEMMA LineOfFacts ==
    ASSUME NEW c \in Seq(Line), OneLine(c), NEW product
    PROVE  /\ LineOf(c, product) = {i \in DOMAIN c : c[i].product = product}
           /\ LineOf(c, product) # {} <=> product \in DOMAIN Amounts(c)
<1>1. DOMAIN c = 1..Len(c)
  OBVIOUS
<1>2. LineOf(c, product) = {i \in DOMAIN c : c[i].product = product}
  BY <1>1 DEF LineOf, OneLine
<1>3. DOMAIN Amounts(c) = {c[i].product : i \in DOMAIN c}
  BY AmountsFacts
<1>4. ASSUME product \in DOMAIN Amounts(c)
      PROVE  LineOf(c, product) # {}
  <2>1. PICK i \in DOMAIN c : product = c[i].product
    BY <1>3, <1>4, Zenon
  <2> QED
    BY <1>2, <2>1, Zenon
<1>5. ASSUME LineOf(c, product) # {}
      PROVE  product \in DOMAIN Amounts(c)
  <2>1. PICK i \in DOMAIN c : product = c[i].product
    BY <1>2, <1>5, Zenon
  <2> QED
    BY <1>3, <2>1, Zenon
<1> QED
  BY <1>2, <1>4, <1>5

\* One line changes its quantity.
LEMMA ChangedAmounts ==
    ASSUME NEW c, OneLine(c), NEW k \in DOMAIN c, NEW d, NEW n,
           DOMAIN d = DOMAIN c, d[k].product = c[k].product,
           d[k].quantity = n, \A i \in DOMAIN c : i # k => d[i] = c[i]
    PROVE  /\ OneLine(d)
           /\ Amounts(d) = With(Amounts(c), c[k].product, n)
<1>1. \A i \in DOMAIN c : d[i].product = c[i].product
  OBVIOUS
<1>2. OneLine(d)
  BY <1>1 DEF OneLine
<1> DEFINE f == With(Amounts(c), c[k].product, n)
<1>3. DOMAIN f = {d[i].product : i \in DOMAIN d} /\ f = [p \in DOMAIN f |-> f[p]]
  <2>1. DOMAIN Amounts(c) = {c[i].product : i \in DOMAIN c}
    BY AmountsFacts
  <2>2. {c[i].product : i \in DOMAIN c} = {d[i].product : i \in DOMAIN d}
    BY <1>1
  <2>3. /\ DOMAIN f = DOMAIN Amounts(c) \cup {c[k].product}
        /\ f = [p \in DOMAIN f |-> f[p]]
    BY DEF With
  <2>4. c[k].product \in {c[i].product : i \in DOMAIN c}
    OBVIOUS
  <2> HIDE DEF f
  <2> QED
    BY <2>1, <2>2, <2>3, <2>4
<1>4. ASSUME NEW i \in DOMAIN d
      PROVE  f[d[i].product] = d[i].quantity
  <2>1. CASE i = k
    BY <2>1 DEF With
  <2>2. CASE i # k
    <3>1. d[i] = c[i] /\ c[i].product # c[k].product
      BY <2>2 DEF OneLine
    <3>2. /\ c[i].product \in DOMAIN Amounts(c)
          /\ Amounts(c)[c[i].product] = c[i].quantity
      BY AmountsFacts
    <3> QED
      BY <3>1, <3>2 DEF With
  <2> QED
    BY <2>1, <2>2
<1> HIDE DEF f
<1>5. Amounts(d) = f
  BY <1>2, <1>3, <1>4, ExactAmounts
<1> QED
  BY <1>2, <1>5 DEF f

\* A line for a new product is added at the end.
LEMMA AppendedAmounts ==
    ASSUME NEW c \in Seq(Line), OneLine(c), NEW line \in Line,
           line.product \notin DOMAIN Amounts(c)
    PROVE  /\ OneLine(Append(c, line))
           /\ Amounts(Append(c, line)) =
                With(Amounts(c), line.product, line.quantity)
<1> DEFINE d == Append(c, line)
           f == With(Amounts(c), line.product, line.quantity)
           l == Len(c) + 1
<1>1. /\ Len(c) \in Nat /\ DOMAIN c = 1..Len(c) /\ DOMAIN d = 1..l
      /\ \A i \in 1..Len(c) : d[i] = c[i]
      /\ d[l] = line
  BY AppendProperties
<1>2. DOMAIN d = DOMAIN c \cup {l} /\ l \notin DOMAIN c
  BY <1>1
<1> HIDE DEF d, l
<1>3. \A i \in DOMAIN c : /\ d[i] = c[i] /\ d[i].product # line.product
                          /\ d[i].product \in DOMAIN Amounts(c)
                          /\ Amounts(c)[d[i].product] = d[i].quantity
  <2> TAKE i \in DOMAIN c
  <2>1. d[i] = c[i]
    BY <1>1
  <2>2. /\ c[i].product \in DOMAIN Amounts(c)
        /\ Amounts(c)[c[i].product] = c[i].quantity
    BY AmountsFacts
  <2> QED
    BY <2>1, <2>2
<1>4. OneLine(d)
  BY <1>1, <1>2, <1>3 DEF OneLine
<1>5. DOMAIN f = {d[i].product : i \in DOMAIN d} /\ f = [p \in DOMAIN f |-> f[p]]
  <2>1. DOMAIN Amounts(c) = {c[i].product : i \in DOMAIN c}
    BY AmountsFacts
  <2>2. {c[i].product : i \in DOMAIN c} \cup {line.product}
          = {d[i].product : i \in DOMAIN d}
    <3>1. \A i \in DOMAIN c : d[i].product = c[i].product /\ i \in DOMAIN d
      BY <1>2, <1>3
    <3>2. d[l] = line /\ l \in DOMAIN d
      BY <1>1, <1>2
    <3>3. ASSUME NEW p \in {c[i].product : i \in DOMAIN c} \cup {line.product}
          PROVE  p \in {d[i].product : i \in DOMAIN d}
      BY <3>1, <3>2, Zenon
    <3>4. ASSUME NEW p \in {d[i].product : i \in DOMAIN d}
          PROVE  p \in {c[i].product : i \in DOMAIN c} \cup {line.product}
      <4>1. PICK i \in DOMAIN d : p = d[i].product
        BY <3>4, Zenon
      <4>2. i \in DOMAIN c \/ i = l
        BY <1>2
      <4> QED
        BY <3>1, <3>2, <4>1, <4>2, Zenon
    <3> QED
      BY <3>3, <3>4
  <2>3. /\ DOMAIN f = DOMAIN Amounts(c) \cup {line.product}
        /\ f = [p \in DOMAIN f |-> f[p]]
    BY DEF With
  <2> HIDE DEF f
  <2> QED
    BY <2>1, <2>2, <2>3
<1>6. \A i \in DOMAIN d : f[d[i].product] = d[i].quantity
  BY <1>1, <1>2, <1>3 DEF With
<1> HIDE DEF f
<1>7. Amounts(d) = f
  BY <1>4, <1>5, <1>6, ExactAmounts
<1> QED
  BY <1>4, <1>7 DEF d, f

\* A line is taken out and those behind it move up.
LEMMA WithoutAmounts ==
    ASSUME NEW c \in Seq(Line), OneLine(c), NEW k \in DOMAIN c
    PROVE  /\ OneLine(WithoutLine(c, k))
           /\ Amounts(WithoutLine(c, k)) = Without(Amounts(c), c[k].product)
<1> DEFINE d == WithoutLine(c, k)
           f == Without(Amounts(c), c[k].product)
           was(i) == IF i < k THEN i ELSE i + 1
<1>1. Len(c) \in Nat /\ DOMAIN c = 1..Len(c) /\ k \in 1..Len(c)
  OBVIOUS
<1>2. DOMAIN d = 1..(Len(c) - 1)
  BY DEF WithoutLine
<1>3. \A i \in DOMAIN d : /\ was(i) \in DOMAIN c /\ was(i) # k
                          /\ d[i] = c[was(i)]
  BY <1>1, <1>2 DEF WithoutLine
<1>4. \A j \in DOMAIN c : j # k => \E i \in DOMAIN d : was(i) = j
  <2> SUFFICES ASSUME NEW j \in DOMAIN c, j # k
               PROVE  \E i \in DOMAIN d : was(i) = j
    OBVIOUS
  <2>1. CASE j < k
    <3>1. j \in DOMAIN d /\ was(j) = j
      BY <1>1, <1>2, <2>1
    <3> QED
      BY <3>1
  <2>2. CASE j > k
    <3>1. j - 1 \in DOMAIN d /\ was(j - 1) = j
      BY <1>1, <1>2, <2>2
    <3> QED
      BY <3>1
  <2> QED
    BY <1>1, <2>1, <2>2
<1>5. \A i, j \in DOMAIN d : was(i) = was(j) => i = j
  BY <1>1, <1>2
<1> HIDE DEF d, was
<1>6. OneLine(d)
  BY <1>3, <1>5 DEF OneLine
<1>7. /\ DOMAIN f = {d[i].product : i \in DOMAIN d}
      /\ f = [p \in DOMAIN f |-> f[p]]
      /\ \A i \in DOMAIN d : f[d[i].product] = d[i].quantity
  <2>1. DOMAIN f = DOMAIN Amounts(c) \ {c[k].product}
        /\ f = [p \in DOMAIN f |-> f[p]]
        /\ \A p \in DOMAIN f : f[p] = Amounts(c)[p]
    BY DEF Without
  <2> HIDE DEF f
  <2>2. \A i \in DOMAIN d : /\ d[i].product \in DOMAIN f
                            /\ Amounts(c)[d[i].product] = d[i].quantity
    <3> TAKE i \in DOMAIN d
    <3>1. /\ was(i) \in DOMAIN c /\ was(i) # k /\ d[i] = c[was(i)]
      BY <1>3
    <3>2. /\ d[i].product \in DOMAIN Amounts(c)
          /\ Amounts(c)[d[i].product] = d[i].quantity
      <4>1. \A j \in DOMAIN c : /\ c[j].product \in DOMAIN Amounts(c)
                                /\ Amounts(c)[c[j].product] = c[j].quantity
        BY AmountsFacts
      <4> QED
        BY <3>1, <4>1, Zenon
    <3>3. d[i].product # c[k].product
      BY <3>1 DEF OneLine
    <3> QED
      BY <2>1, <3>2, <3>3
  <2>3. \A p \in DOMAIN f : \E i \in DOMAIN d : p = d[i].product
    <3> TAKE p \in DOMAIN f
    <3>1. PICK j \in DOMAIN c : p = c[j].product
      <4>1. p \in {c[j].product : j \in DOMAIN c}
        BY <2>1, AmountsFacts, Zenon
      <4> QED
        BY <4>1, Zenon
    <3>2. j # k
      BY <2>1, <3>1
    <3>3. PICK i \in DOMAIN d : was(i) = j
      BY <1>4, <3>2
    <3> QED
      BY <1>3, <3>1, <3>3
  <2> QED
    BY <2>1, <2>2, <2>3
<1> HIDE DEF f
<1>8. Amounts(d) = f
  BY <1>6, <1>7, ExactAmounts
<1> QED
  BY <1>6, <1>8 DEF d, f

\* add: a product of the cart gets as much more, modulo the word; a new one
\* comes in when there is room.
LEMMA AddedAmounts ==
    ASSUME NEW c \in Carts, OneLine(c), NEW product \in Products,
           NEW n \in Ints, n > 0
    PROVE  /\ OneLine(Added(c, product, n))
           /\ \/ /\ product \in DOMAIN Amounts(c)
                 /\ \E m \in Ints :
                        /\ SameInt(m, Amounts(c)[product] + n)
                        /\ Amounts(Added(c, product, n)) =
                                With(Amounts(c), product, m)
              \/ /\ product \notin DOMAIN Amounts(c)
                 /\ Amounts(Added(c, product, n)) =
                        IF Cardinality(DOMAIN Amounts(c)) < MaxLines
                        THEN With(Amounts(c), product, n) ELSE Amounts(c)
<1> DEFINE L == LineOf(c, product)
<1>1. c \in Seq(Line) /\ DOMAIN c = 1..Len(c) /\ n \in Int
  BY CartAssumption DEF Carts, Ints
<1>2. /\ L = {i \in DOMAIN c : c[i].product = product}
      /\ L # {} <=> product \in DOMAIN Amounts(c)
  BY <1>1, LineOfFacts
<1>3. Cardinality(DOMAIN Amounts(c)) = Len(c)
  BY <1>1, AmountsCount
<1> HIDE DEF L
<1>4. CASE L # {}
  <2>1. PICK k \in DOMAIN c : k \in L /\ c[k].product = product
    BY <1>2, <1>4
  <2>2. \A i \in DOMAIN c : i \in L => i = k
    BY <1>2, <2>1 DEF OneLine
  <2>3. c[k] \in Line /\ c[k].quantity \in Int
    BY <1>1, ElementOfSeq, LineFields
  <2> DEFINE sum == c[k].quantity + n
             m == Wrap(sum)
             d == [i \in DOMAIN c |-> IF i \in L
                                      THEN Changed(c[i], c[i].quantity + n)
                                      ELSE c[i]]
  <2>4. Added(c, product, n) = d
    BY <1>4 DEF Added, L
  <2>5. sum \in Int
    BY <1>1, <2>3
  <2>6. Changed(c[k], sum).product = c[k].product /\ Changed(c[k], sum).quantity = m
    BY <2>3 DEF Changed, Line
  <2>7. /\ DOMAIN d = DOMAIN c /\ d[k] = Changed(c[k], sum)
        /\ \A i \in DOMAIN c : i # k => d[i] = c[i]
    BY <2>1, <2>2
  <2>8. Amounts(c)[product] = c[k].quantity
    BY <2>1, AmountsFacts
  <2> HIDE DEF d
  <2>9. m \in Ints /\ SameInt(m, sum)
    BY <2>5, WrapIsAnInt, WrapIsSame
  <2> HIDE DEF m
  <2>10. OneLine(d) /\ Amounts(d) = With(Amounts(c), product, m)
    BY <2>1, <2>6, <2>7, ChangedAmounts
  <2> QED
    BY <1>2, <1>4, <2>4, <2>8, <2>9, <2>10
<1>5. CASE L = {} /\ Len(c) < MaxLines
  <2> DEFINE line == [product |-> product, quantity |-> n, wrapped |-> FALSE]
  <2>1. line \in Line /\ line.product = product /\ line.quantity = n
    BY DEF Line
  <2>2. Added(c, product, n) = Append(c, line)
    BY <1>5 DEF Added, L
  <2> HIDE DEF line
  <2>3. /\ OneLine(Append(c, line))
        /\ Amounts(Append(c, line)) = With(Amounts(c), product, n)
    BY <1>1, <1>2, <1>5, <2>1, AppendedAmounts
  <2> QED
    BY <1>2, <1>3, <1>5, <2>2, <2>3
<1>6. CASE L = {} /\ ~(Len(c) < MaxLines)
  <2>1. Added(c, product, n) = c
    BY <1>6 DEF Added, L
  <2> QED
    BY <1>2, <1>3, <1>6, <2>1
<1> QED
  BY <1>4, <1>5, <1>6

\* remove: what is not there stays away, and less than there is leaves the
\* rest, modulo the word.
LEMMA RemovedAmounts ==
    ASSUME NEW c \in Carts, OneLine(c), NEW product, NEW n \in Ints
    PROVE  /\ OneLine(Removed(c, product, n))
           /\ \/ /\ product \notin DOMAIN Amounts(c)
                 /\ Removed(c, product, n) = c
              \/ /\ product \in DOMAIN Amounts(c)
                 /\ n >= Amounts(c)[product]
                 /\ Amounts(Removed(c, product, n)) = Without(Amounts(c), product)
              \/ /\ product \in DOMAIN Amounts(c)
                 /\ n < Amounts(c)[product]
                 /\ \E m \in Ints :
                        /\ SameInt(m, Amounts(c)[product] - n)
                        /\ Amounts(Removed(c, product, n)) =
                                With(Amounts(c), product, m)
<1> DEFINE L == LineOf(c, product)
           k == CHOOSE j \in L : TRUE
<1>1. c \in Seq(Line) /\ DOMAIN c = 1..Len(c) /\ n \in Int
  BY CartAssumption DEF Carts, Ints
<1>2. /\ L = {i \in DOMAIN c : c[i].product = product}
      /\ L # {} <=> product \in DOMAIN Amounts(c)
  BY <1>1, LineOfFacts
<1>3. CASE L = {}
  BY <1>2, <1>3 DEF Removed
<1>4. CASE L # {}
  <2>1. Removed(c, product, n) =
            IF TakesAll(c[k], n) THEN WithoutLine(c, k)
            ELSE [c EXCEPT ![k] = Changed(@, @.quantity - n)]
    BY <1>4 DEF Removed
  <2>2. k \in L
    BY <1>4
  <2> HIDE DEF L, k
  <2>3. k \in DOMAIN c /\ c[k].product = product
    BY <1>2, <2>2
  <2>4. c[k] \in Line /\ c[k].quantity \in Int
    BY <1>1, <2>3, ElementOfSeq, LineFields
  <2>5. Amounts(c)[product] = c[k].quantity /\ product \in DOMAIN Amounts(c)
    BY <2>3, AmountsFacts
  <2>6. CASE n >= c[k].quantity
    <3>1. Removed(c, product, n) = WithoutLine(c, k)
      BY <2>1, <2>6 DEF TakesAll
    <3>2. /\ OneLine(WithoutLine(c, k))
          /\ Amounts(WithoutLine(c, k)) = Without(Amounts(c), product)
      BY <1>1, <2>3, WithoutAmounts
    <3> QED
      BY <2>5, <2>6, <3>1, <3>2
  <2>7. CASE n < c[k].quantity
    <3> DEFINE rest == c[k].quantity - n
               m == Wrap(rest)
               d == [c EXCEPT ![k] = Changed(@, @.quantity - n)]
    <3>1. Removed(c, product, n) = d
      <4>1. ~TakesAll(c[k], n)
        BY <1>1, <2>4, <2>7 DEF TakesAll
      <4> QED
        BY <2>1, <4>1
    <3>2. rest \in Int
      BY <1>1, <2>4
    <3>3. /\ Changed(c[k], rest).product = c[k].product
          /\ Changed(c[k], rest).quantity = m
      BY <2>4 DEF Changed, Line
    <3>4. /\ DOMAIN d = DOMAIN c /\ d[k] = Changed(c[k], rest)
          /\ \A i \in DOMAIN c : i # k => d[i] = c[i]
      BY <2>3
    <3> HIDE DEF d
    <3>5. m \in Ints /\ SameInt(m, rest)
      BY <3>2, WrapIsAnInt, WrapIsSame
    <3> HIDE DEF m
    <3>6. OneLine(d) /\ Amounts(d) = With(Amounts(c), product, m)
      BY <2>3, <3>3, <3>4, ChangedAmounts
    <3> QED
      BY <2>5, <2>7, <3>1, <3>5, <3>6
  <2> QED
    BY <1>1, <2>4, <2>6, <2>7
<1> QED
  BY <1>3, <1>4

----------------------------------------------------------------------------
(* The routes of the configuration: what the loop over the lines makes of  *)
(* a file, from the last line to the first.                                *)

LEMMA LeastNatural ==
    ASSUME NEW T \in SUBSET Nat, T # {}
    PROVE  \E m \in T : \A k \in T : m <= k
<1> DEFINE R == {ss \in Nat \X Nat : ss[1] < ss[2]}
<1>1. IsWellFoundedOn(R, Nat)
  BY NatLessThanWellFounded DEF OpToRel
<1>2. \E m \in T : \A k \in T : ~ (<<k, m>> \in R)
  <2> HIDE DEF R
  <2> QED
    BY <1>1, WFMin
<1>3. \A m, k \in T : ~ (<<k, m>> \in R) => m <= k
  OBVIOUS
<1> HIDE DEF R
<1> QED
  BY <1>2, <1>3

\* Induction over the natural numbers, in the form of a set.
LEMMA NatSetInduction ==
    ASSUME NEW T \in SUBSET Nat, 0 \in T, \A n \in T : n + 1 \in T
    PROVE  T = Nat
<1> DEFINE U == Nat \ T
<1>1. ASSUME U # {}
      PROVE  FALSE
  <2>1. PICK m \in U : \A k \in U : m <= k
    BY <1>1, LeastNatural
  <2>2. m - 1 \in Nat /\ m - 1 < m
    OBVIOUS
  <2>3. m - 1 \in T
    BY <2>1, <2>2
  <2>4. (m - 1) + 1 \in T /\ (m - 1) + 1 = m
    BY <2>3
  <2> QED
    BY <2>4
<1> QED
  BY <1>1

LEMMA DownwardInduction ==
    ASSUME NEW n \in Nat, NEW T, n \in T,
           \A i \in 1..(n - 1) : i + 1 \in T => i \in T
    PROVE  \A i \in 1..n : i \in T
<1> DEFINE U == {k \in Nat : k < n => n - k \in T}
<1>1. 0 \in U /\ U \in SUBSET Nat
  OBVIOUS
<1>2. \A k \in U : k + 1 \in U
  <2> SUFFICES ASSUME NEW k \in Nat, k < n => n - k \in T, k + 1 < n
               PROVE  n - (k + 1) \in T
    OBVIOUS
  <2>1. n - (k + 1) \in 1..(n - 1) /\ (n - (k + 1)) + 1 = n - k /\ k < n
    OBVIOUS
  <2> QED
    BY <2>1
<1> HIDE DEF U
<1>3. U = Nat
  BY <1>1, <1>2, NatSetInduction
<1> SUFFICES ASSUME NEW i \in 1..n PROVE i \in T
  OBVIOUS
<1>4. n - i \in U /\ n - i < n /\ n - (n - i) = i
  BY <1>3
<1> QED
  BY <1>4 DEF U

\* The routes from line i on, when from has those of the lines behind.
Collected(lines, from, i) ==
    IF ~ReadsOn(lines, i) THEN <<>>
    ELSE IF lines[i].kind = "route" THEN <<lines[i]>> \o from[i + 1]
    ELSE from[i + 1]

\* The loop has a result for every file.
LEMMA RoutesFromEveryLine ==
    ASSUME NEW lines \in Seq(Lines)
    PROVE  \E from : from = [i \in 1..(Len(lines) + 1) |->
                                Collected(lines, from, i)]
<1> DEFINE n == Len(lines) + 1
           HasFrom(k) == \E from : from = [i \in k..n |-> Collected(lines, from, i)]
           T == {k \in 1..n : HasFrom(k)}
<1>1. n \in Nat /\ n >= 1 /\ Len(lines) = n - 1
  OBVIOUS
<1>2. \A from : Collected(lines, from, n) = <<>>
  BY <1>1 DEF Collected, ReadsOn
<1> HIDE DEF n
<1>3. HasFrom(n)
  <2> DEFINE f == [i \in n..n |-> <<>>]
  <2>1. f = [i \in n..n |-> Collected(lines, f, i)]
    <3>1. \A i \in n..n : i = n
      BY <1>1
    <3>2. \A i \in n..n : <<>> = Collected(lines, f, i)
      BY <1>2, <3>1
    <3> QED
      BY <3>2
  <2> QED
    BY <2>1
<1>4. ASSUME NEW k \in 1..(n - 1), HasFrom(k + 1)
      PROVE  HasFrom(k)
  <2>1. PICK f : f = [i \in (k + 1)..n |-> Collected(lines, f, i)]
    BY <1>4
  <2> DEFINE g == [i \in k..n |-> IF i = k THEN Collected(lines, f, k) ELSE f[i]]
  <2>2. \A i \in (k + 1)..n : g[i] = f[i] /\ f[i] = Collected(lines, f, i)
    <3>1. \A i \in (k + 1)..n : i \in k..n /\ i # k
      BY <1>1
    <3>2. \A i \in (k + 1)..n : g[i] = f[i]
      BY <3>1
    <3>3. \A i \in (k + 1)..n : f[i] = Collected(lines, f, i)
      BY <2>1, Zenon
    <3> QED
      BY <3>2, <3>3
  <2>3. g[k] = Collected(lines, f, k) /\ DOMAIN g = k..n
    BY <1>1
  <2> HIDE DEF g
  <2>4. \A i \in k..n : Collected(lines, g, i) = Collected(lines, f, i)
    <3> SUFFICES ASSUME NEW i \in k..n
                 PROVE  Collected(lines, g, i) = Collected(lines, f, i)
      OBVIOUS
    <3>1. CASE i = n
      BY <1>2, <3>1
    <3>2. CASE i # n
      <4>1. i + 1 \in (k + 1)..n
        BY <1>1, <3>2
      <4> QED
        BY <2>2, <4>1 DEF Collected
    <3> QED
      BY <3>1, <3>2
  <2>5. \A i \in k..n : g[i] = Collected(lines, g, i)
    <3> SUFFICES ASSUME NEW i \in k..n PROVE g[i] = Collected(lines, g, i)
      OBVIOUS
    <3>1. i = k \/ i \in (k + 1)..n
      BY <1>1
    <3> QED
      BY <2>2, <2>3, <2>4, <3>1
  <2>6. g = [i \in k..n |-> Collected(lines, g, i)]
    <3>1. g = [i \in k..n |-> g[i]]
      BY DEF g
    <3> QED
      BY <2>5, <3>1
  <2> QED
    BY <2>6
<1>5. n \in T /\ \A i \in 1..(n - 1) : i + 1 \in T => i \in T
  BY <1>1, <1>3, <1>4
<1>6. 1 \in T
  <2> HIDE DEF T
  <2> QED
    BY <1>1, <1>5, DownwardInduction
<1> QED
  BY <1>6 DEF n

Least(S) == {i \in S : \A j \in S : i <= j}

LEMMA LeastIs ==
    ASSUME NEW S, NEW m \in S, \A i \in S : i \in Int /\ m <= i
    PROVE  Least(S) = {m}
<1>1. m \in Least(S)
  BY DEF Least
<1>2. ASSUME NEW i \in Least(S) PROVE i = m
  BY DEF Least
<1> QED
  BY <1>1, <1>2

\* The lines from i on that give a route to name.
RouteLinesFrom(lines, i, name) ==
    {j \in i..Len(lines) : lines[j].kind = "route" /\ lines[j].name = name}

\* A header and routes without an empty line.
Gapless(lines) ==
    /\ Len(lines) >= HeaderLines
    /\ \A i \in 1..Len(lines) : lines[i].kind # "blank"

\* A search that starts one element earlier.
LEMMA FindRouteFront ==
    ASSUME NEW a \in Lines, NEW s \in Seq(Lines), NEW name
    PROVE  FindRoute(<<a>> \o s, name) =
               IF a.name = name THEN {a} ELSE FindRoute(s, name)
<1> DEFINE t == <<a>> \o s
           F == {i \in DOMAIN t : t[i].name = name}
           G == {i \in DOMAIN s : s[i].name = name}
<1>1. /\ Len(s) \in Nat /\ DOMAIN s = 1..Len(s) /\ DOMAIN t = 1..(Len(s) + 1)
      /\ t[1] = a /\ \A i \in 1..Len(s) : t[i + 1] = s[i]
  <2>1. <<a>> \in Seq(Lines) /\ Len(<<a>>) = 1 /\ <<a>>[1] = a
    OBVIOUS
  <2>2. /\ Len(s) \in Nat /\ DOMAIN s = 1..Len(s)
        /\ t \in Seq(Lines) /\ Len(t) = 1 + Len(s)
        /\ \A i \in 1..(1 + Len(s)) :
               t[i] = IF i <= 1 THEN <<a>>[i] ELSE s[i - 1]
    BY <2>1, ConcatProperties
  <2> HIDE DEF t
  <2>3. DOMAIN t = 1..(Len(s) + 1)
    BY <2>2
  <2>4. t[1] = a
    BY <2>1, <2>2
  <2>5. ASSUME NEW i \in 1..Len(s) PROVE t[i + 1] = s[i]
    <3>1. i + 1 \in 1..(1 + Len(s)) /\ ~(i + 1 <= 1) /\ (i + 1) - 1 = i
      BY <2>2
    <3> QED
      BY <2>2, <3>1
  <2> QED
    BY <2>2, <2>3, <2>4, <2>5
<1> HIDE DEF t
<1>2. FindRoute(t, name) = {t[i] : i \in Least(F)}
  BY DEF FindRoute, Least
<1>3. FindRoute(s, name) = {s[i] : i \in Least(G)}
  BY DEF FindRoute, Least
<1>4. CASE a.name = name
  <2>1. 1 \in F /\ \A i \in F : i \in Int /\ 1 <= i
    BY <1>1, <1>4
  <2> HIDE DEF F
  <2>2. Least(F) = {1}
    BY <2>1, LeastIs
  <2> QED
    BY <1>1, <1>2, <1>4, <2>2 DEF t
<1>5. CASE a.name # name
  <2>1. \A i \in DOMAIN t : i \in F <=> i - 1 \in G /\ i \in 2..(Len(s) + 1)
    <3> SUFFICES ASSUME NEW i \in DOMAIN t
                 PROVE  i \in F <=> i - 1 \in G /\ i \in 2..(Len(s) + 1)
      OBVIOUS
    <3>1. CASE i = 1
      BY <1>1, <1>5, <3>1
    <3>2. CASE i # 1
      <4>1. i - 1 \in 1..Len(s) /\ (i - 1) + 1 = i /\ i \in 2..(Len(s) + 1)
        BY <1>1, <3>2
      <4>2. t[i] = s[i - 1]
        BY <1>1, <4>1
      <4> QED
        BY <1>1, <4>1, <4>2
    <3> QED
      BY <3>1, <3>2
  <2>2. F \subseteq DOMAIN t /\ G \subseteq DOMAIN s
    OBVIOUS
  <2> HIDE DEF F, G
  <2>3. \A j \in DOMAIN s : /\ j + 1 \in DOMAIN t /\ (j + 1) - 1 = j
                            /\ j \in G <=> j + 1 \in F
    BY <1>1, <2>1
  <2>4. ASSUME NEW i \in Least(F)
        PROVE  i - 1 \in Least(G) /\ t[i] = s[i - 1]
    <3>1. i \in F /\ \A k \in F : i <= k
      BY DEF Least
    <3>2. i - 1 \in G /\ i \in Int /\ (i - 1) + 1 = i
      BY <1>1, <2>1, <2>2, <3>1
    <3>3. ASSUME NEW k \in G PROVE i - 1 <= k
      <4>1. k + 1 \in F /\ k \in Int
        BY <1>1, <2>2, <2>3
      <4> QED
        BY <3>1, <3>2, <4>1
    <3> QED
      BY <1>1, <2>2, <3>2, <3>3 DEF Least
  <2>5. ASSUME NEW j \in Least(G)
        PROVE  j + 1 \in Least(F) /\ t[j + 1] = s[j]
    <3>1. j \in G /\ \A k \in G : j <= k
      BY DEF Least
    <3>2. j + 1 \in F /\ j \in Int
      BY <1>1, <2>2, <2>3, <3>1
    <3>3. ASSUME NEW k \in F PROVE j + 1 <= k
      <4>1. k - 1 \in G /\ k \in Int
        BY <1>1, <2>1, <2>2
      <4> QED
        BY <3>1, <3>2, <4>1
    <3> QED
      BY <1>1, <2>2, <3>1, <3>2, <3>3 DEF Least
  <2>6. {t[i] : i \in Least(F)} = {s[j] : j \in Least(G)}
    <3>1. ASSUME NEW x \in {t[i] : i \in Least(F)}
          PROVE  x \in {s[j] : j \in Least(G)}
      <4>1. PICK i \in Least(F) : x = t[i]
        BY <3>1, Zenon
      <4> QED
        BY <2>4, <4>1
    <3>2. ASSUME NEW x \in {s[j] : j \in Least(G)}
          PROVE  x \in {t[i] : i \in Least(F)}
      <4>1. PICK j \in Least(G) : x = s[j]
        BY <3>2, Zenon
      <4> QED
        BY <2>5, <4>1
    <3> QED
      BY <3>1, <3>2
  <2> QED
    BY <1>2, <1>3, <1>5, <2>6 DEF t
<1> QED
  BY <1>4, <1>5

\* The lines of a name, from one line earlier.
LEMMA RouteLinesFront ==
    ASSUME NEW lines \in Seq(Lines), NEW i \in 1..Len(lines), NEW name
    PROVE  Least(RouteLinesFrom(lines, i, name)) =
               IF lines[i].kind = "route" /\ lines[i].name = name THEN {i}
               ELSE Least(RouteLinesFrom(lines, i + 1, name))
<1> DEFINE F == RouteLinesFrom(lines, i, name)
           G == RouteLinesFrom(lines, i + 1, name)
<1>1. Len(lines) \in Nat
  OBVIOUS
<1>2. \A j \in F : j \in Int /\ j >= i
  BY <1>1 DEF RouteLinesFrom
<1>3. CASE lines[i].kind = "route" /\ lines[i].name = name
  <2>1. i \in F
    BY <1>1, <1>3 DEF RouteLinesFrom
  <2> HIDE DEF F
  <2>2. Least(F) = {i}
    BY <1>2, <2>1, LeastIs
  <2> QED
    BY <1>3, <2>2 DEF F
<1>4. CASE ~(lines[i].kind = "route" /\ lines[i].name = name)
  <2>1. ASSUME NEW j \in F PROVE j \in G
    <3>1. /\ j \in i..Len(lines) /\ lines[j].kind = "route"
          /\ lines[j].name = name
      BY DEF RouteLinesFrom
    <3>2. j \in (i + 1)..Len(lines)
      BY <1>1, <1>4, <3>1
    <3> QED
      BY <3>1, <3>2 DEF RouteLinesFrom
  <2>2. ASSUME NEW j \in G PROVE j \in F
    <3>1. /\ j \in (i + 1)..Len(lines) /\ lines[j].kind = "route"
          /\ lines[j].name = name
      BY DEF RouteLinesFrom
    <3>2. j \in i..Len(lines)
      BY <1>1, <3>1
    <3> QED
      BY <3>1, <3>2 DEF RouteLinesFrom
  <2> HIDE DEF F, G
  <2>3. F = G
    BY <2>1, <2>2
  <2> QED
    BY <1>4, <2>3 DEF F, G
<1> QED
  BY <1>3, <1>4

LEMMA NoRoutes ==
    ASSUME NEW lines \in Seq(Lines), Gapless(lines),
           NEW i \in 1..(Len(lines) + 1), ~ReadsOn(lines, i), NEW name
    PROVE  FindRoute(<<>>, name) = {lines[j] : j \in
                                        Least(RouteLinesFrom(lines, i, name))}
<1>1. FindRoute(<<>>, name) = {}
  BY EmptySeq DEF FindRoute
<1>2. RouteLinesFrom(lines, i, name) = {}
  <2> SUFFICES ASSUME NEW j \in RouteLinesFrom(lines, i, name) PROVE FALSE
    OBVIOUS
  <2>1. i \in 1..Len(lines)
    BY DEF RouteLinesFrom
  <2> QED
    BY <2>1 DEF ReadsOn, Gapless
<1>3. Least(RouteLinesFrom(lines, i, name)) = {}
  BY <1>2 DEF Least
<1> QED
  BY <1>1, <1>3

\* The routes that are loaded are found where their first lines are.
LEMMA LoadedRoutesFound ==
    ASSUME NEW lines \in Seq(Lines), Gapless(lines), NEW name
    PROVE  FindRoute(LoadedRoutes(lines), name) =
               {lines[j] : j \in Least(RouteLines(lines, name))}
<1> DEFINE n == Len(lines) + 1
           from == CHOOSE f : f = [i \in 1..n |-> Collected(lines, f, i)]
           Right(i) == /\ from[i] \in Seq(Lines)
                       /\ FindRoute(from[i], name) =
                              {lines[j] : j \in
                                  Least(RouteLinesFrom(lines, i, name))}
           T == {i \in 1..n : Right(i)}
<1>1. n \in Nat /\ n >= 1 /\ Len(lines) = n - 1 /\ DOMAIN lines = 1..(n - 1)
  OBVIOUS
<1>2. LoadedRoutes(lines) = from[HeaderLines + 1]
  BY DEF LoadedRoutes, Collected
<1>3. from = [i \in 1..n |-> Collected(lines, from, i)]
  <2> HIDE DEF from
  <2>1. \E f : f = [i \in 1..n |-> Collected(lines, f, i)]
    BY RoutesFromEveryLine
  <2> QED
    BY <2>1, Zenon DEF from
<1> HIDE DEF n, from
<1>4. \A i \in 1..n : from[i] = Collected(lines, from, i)
  BY <1>3, Zenon
<1>5. ASSUME NEW i \in 1..n, ~ReadsOn(lines, i)
      PROVE  Right(i)
  <2>1. from[i] = <<>>
    BY <1>4, <1>5 DEF Collected
  <2>2. FindRoute(<<>>, name) = {lines[j] : j \in
                                     Least(RouteLinesFrom(lines, i, name))}
    BY <1>5, NoRoutes DEF n
  <2> QED
    BY <2>1, <2>2, EmptySeq
<1>6. ASSUME NEW i \in 1..(n - 1), Right(i + 1), ReadsOn(lines, i)
      PROVE  Right(i)
  <2>1. i \in 1..n /\ i \in 1..Len(lines)
    BY <1>1
  <2>2. lines[i] \in Lines
    BY <2>1, ElementOfSeq
  <2>3. Least(RouteLinesFrom(lines, i, name)) =
            IF lines[i].kind = "route" /\ lines[i].name = name THEN {i}
            ELSE Least(RouteLinesFrom(lines, i + 1, name))
    BY <2>1, RouteLinesFront
  <2>4. CASE lines[i].kind = "route"
    <3>1. from[i] = <<lines[i]>> \o from[i + 1]
      BY <1>4, <1>6, <2>1, <2>4 DEF Collected
    <3>2. from[i] \in Seq(Lines)
      BY <1>6, <2>2, <3>1
    <3>3. FindRoute(from[i], name) =
              IF lines[i].name = name THEN {lines[i]}
              ELSE FindRoute(from[i + 1], name)
      <4>1. FindRoute(<<lines[i]>> \o from[i + 1], name) =
                IF lines[i].name = name THEN {lines[i]}
                ELSE FindRoute(from[i + 1], name)
        BY <1>6, <2>2, FindRouteFront
      <4> QED
        BY <3>1, <4>1, Zenon
    <3>4. CASE lines[i].name = name
      BY <2>3, <2>4, <3>2, <3>3, <3>4
    <3>5. CASE lines[i].name # name
      BY <1>6, <2>3, <3>2, <3>3, <3>5
    <3> QED
      BY <3>4, <3>5
  <2>5. CASE lines[i].kind # "route"
    <3>1. from[i] = from[i + 1]
      BY <1>4, <1>6, <2>1, <2>5 DEF Collected
    <3> QED
      BY <1>6, <2>3, <2>5, <3>1
  <2> QED
    BY <2>4, <2>5
<1>7. n \in T /\ \A i \in 1..(n - 1) : i + 1 \in T => i \in T
  <2>1. ~ReadsOn(lines, n) /\ n \in 1..n
    BY <1>1 DEF ReadsOn
  <2>2. \A i \in 1..(n - 1) : i \in 1..n
    BY <1>1
  <2> HIDE DEF Right
  <2> QED
    BY <1>5, <1>6, <2>1, <2>2
<1>8. HeaderLines + 1 \in 1..n
  BY <1>1 DEF HeaderLines, Gapless
<1>9. HeaderLines + 1 \in T
  <2> HIDE DEF T
  <2> QED
    BY <1>1, <1>7, <1>8, DownwardInduction
<1>10. RouteLinesFrom(lines, HeaderLines + 1, name) = RouteLines(lines, name)
  BY DEF RouteLinesFrom, RouteLines
<1> QED
  BY <1>2, <1>9, <1>10

\* The first line of a name is what the route of that name says.
LEMMA FirstRouteLine ==
    ASSUME NEW lines \in Seq(Lines), NEW name
    PROVE  \/ /\ RouteLines(lines, name) = {}
              /\ Least(RouteLines(lines, name)) = {}
           \/ LET first == CHOOSE i \in RouteLines(lines, name) :
                               \A j \in RouteLines(lines, name) : i <= j
              IN  /\ first \in RouteLines(lines, name)
                  /\ Least(RouteLines(lines, name)) = {first}
                  /\ first \in DOMAIN lines
                  /\ lines[first].name = name
                  /\ lines[first] \in [kind : {"route"}, name : Names,
                                       hop : Hops \cup {NoRealm}]
<1> DEFINE S == RouteLines(lines, name)
           first == CHOOSE i \in S : \A j \in S : i <= j
<1>1. S \in SUBSET Nat
  BY DEF RouteLines, HeaderLines
<1>2. \A i \in S : /\ i \in DOMAIN lines /\ lines[i].kind = "route"
                   /\ lines[i].name = name
  BY DEF RouteLines, HeaderLines
<1> HIDE DEF S
<1>3. CASE S = {}
  BY <1>3 DEF Least, S
<1>4. CASE S # {}
  <2>1. \E i \in S : \A j \in S : i <= j
    BY <1>1, <1>4, LeastNatural
  <2>2. first \in S /\ \A j \in S : first <= j
    BY <2>1
  <2> HIDE DEF first
  <2>3. Least(S) = {first}
    <3>1. \A j \in S : j \in Int /\ first <= j
      BY <1>1, <2>2
    <3> QED
      BY <2>2, <3>1, LeastIs
  <2>4. lines[first] \in Lines /\ lines[first].kind = "route"
    BY <1>2, <2>2, ElementOfSeq
  <2>5. lines[first] \in [kind : {"route"}, name : Names,
                          hop : Hops \cup {NoRealm}]
    BY <2>4 DEF Lines
  <2> QED
    BY <1>2, <2>2, <2>3, <2>5 DEF S, first
<1> QED
  BY <1>3, <1>4

\* Searching the list and asking the table come to the same.
LEMMA KnownRoute ==
    ASSUME NEW lines \in Seq(Lines), Gapless(lines), NEW name
    PROVE  LET known == Known(FindRoute(LoadedRoutes(lines), name))
               table == RouteTable(lines)
           IN  /\ known = {} <=> name \notin DOMAIN table
               /\ name \in DOMAIN table =>
                      {route.hop : route \in known} = {table[name]}
<1> DEFINE S == RouteLines(lines, name)
           first == CHOOSE i \in S : \A j \in S : i <= j
           known == Known(FindRoute(LoadedRoutes(lines), name))
           table == RouteTable(lines)
<1>1. FindRoute(LoadedRoutes(lines), name) = {lines[j] : j \in Least(S)}
  BY LoadedRoutesFound
<1>2. /\ name \in DOMAIN table <=> /\ name \in Names
                                   /\ S # {} /\ lines[first].hop # NoRealm
      /\ name \in DOMAIN table => table[name] = lines[first].hop
  BY DEF RouteTable
<1>3. \/ S = {} /\ Least(S) = {}
      \/ /\ first \in S /\ Least(S) = {first}
         /\ lines[first].name = name /\ lines[first].name \in Names
  BY FirstRouteLine
<1> HIDE DEF S, first, table
<1>4. CASE S = {} /\ Least(S) = {}
  <2>1. known = {}
    BY <1>1, <1>4 DEF Known
  <2> QED
    BY <1>2, <1>4, <2>1 DEF table
<1>5. CASE first \in S /\ Least(S) = {first} /\ name \in Names
  <2>1. FindRoute(LoadedRoutes(lines), name) = {lines[first]}
    BY <1>1, <1>5
  <2>2. known = IF lines[first].hop # NoRealm THEN {lines[first]} ELSE {}
    BY <2>1 DEF Known
  <2> HIDE DEF known
  <2> QED
    BY <1>2, <1>5, <2>2 DEF known, table
<1> QED
  BY <1>3, <1>4, <1>5

LEMMA TableIsLoaded ==
    ASSUME NEW lines \in Seq(Lines), Gapless(lines), NEW name
    PROVE  {route.hop : route \in Resolve(LoadedRoutes(lines), name)}
               = {RouteTable(lines)[n] :
                      n \in Table(lines)!ResolveRoute(
                               Me, Table(lines)!Name(name))}
<1> DEFINE known(n) == Known(FindRoute(LoadedRoutes(lines), n))
           table == RouteTable(lines)
           resolved == Resolve(LoadedRoutes(lines), name)
           taken == Table(lines)!ResolveRoute(Me, Table(lines)!Name(name))
<1>1. resolved = IF known(name) # {} THEN known(name) ELSE known(DEFAULT)
  BY DEF Resolve
<1>2. taken = IF name \in DOMAIN table THEN {name}
              ELSE {DEFAULT} \cap DOMAIN table
  BY DEF Table!ResolveRoute, Table!Name
<1>3. \A n : /\ known(n) = {} <=> n \notin DOMAIN table
             /\ n \in DOMAIN table =>
                    {route.hop : route \in known(n)} = {table[n]}
  BY KnownRoute
<1> HIDE DEF known, table, resolved, taken
<1>4. CASE name \in DOMAIN table
  <2>1. resolved = known(name) /\ taken = {name}
    BY <1>1, <1>2, <1>3, <1>4
  <2> QED
    BY <1>3, <1>4, <2>1 DEF resolved, taken, table
<1>5. CASE name \notin DOMAIN table /\ DEFAULT \in DOMAIN table
  <2>1. resolved = known(DEFAULT) /\ taken = {DEFAULT}
    BY <1>1, <1>2, <1>3, <1>5
  <2> QED
    BY <1>3, <1>5, <2>1 DEF resolved, taken, table
<1>6. CASE name \notin DOMAIN table /\ DEFAULT \notin DOMAIN table
  <2>1. resolved = {} /\ taken = {}
    BY <1>1, <1>2, <1>3, <1>6
  <2> QED
    BY <2>1 DEF resolved, taken
<1> QED
  BY <1>4, <1>5, <1>6

----------------------------------------------------------------------------
(* The types                                                               *)

LEMMA TypeInit == Init => LifetimeTypeOK
<1> SUFFICES ASSUME Init PROVE LifetimeTypeOK
  OBVIOUS
<1>1. config \in Seq(Lines) /\ stock \in Seq(Products)
      /\ cart \in Seq(Line) /\ Len(cart) <= MaxLines
  BY EmptySeq, CartAssumption DEF Init
<1>2. file \in Stock!StockFiles /\ found \in Seq(Products)
  BY LifetimeAssumption DEF Init, Stock!StockFiles
<1>3. phase \in Phases /\ lives \in 0..MaxLives /\ ending \in Endings
  BY LifetimeAssumption DEF Init, Phases, Endings
<1>4. exiting \in BOOLEAN /\ handled \in BOOLEAN
  BY DEF Init
<1> QED
  BY <1>1, <1>2, <1>3, <1>4 DEF LifetimeTypeOK

\* The end of a process leaves nothing in memory.
LEMMA EndsType ==
    ASSUME NEW how \in Endings, Ends(how)
    PROVE  /\ phase' \in Phases
           /\ config' \in Seq(Lines) /\ stock' \in Seq(Products)
           /\ cart' \in Seq(Line) /\ Len(cart') <= MaxLines
           /\ exiting' \in BOOLEAN /\ handled' \in BOOLEAN
           /\ ending' \in Endings
<1>1. \A S : <<>> \in Seq(S)
  BY EmptySeq
<1>2. Len(<<>>) <= MaxLines
  BY CartAssumption
<1> QED
  BY <1>1, <1>2 DEF Ends, Phases

LEMMA EmptyCart == <<>> \in Seq(Line) /\ Len(<<>>) <= MaxLines
BY EmptySeq, CartAssumption

LEMMA TypeNext == LifetimeTypeOK /\ [Next]_vars => LifetimeTypeOK'
<1> SUFFICES ASSUME LifetimeTypeOK, [Next]_vars PROVE LifetimeTypeOK'
  OBVIOUS
<1> USE DEF LifetimeTypeOK
<1>1. CASE Start
  BY <1>1, ConfigurationAssumption, LifetimeAssumption
     DEF Start, Phases, Endings, Stock!StockFiles
<1>2. CASE Begin
  <2>1. stock' \in Seq(Products)
    BY <1>2, EmptySeq DEF Begin, Stock!LoadOutcomes, Stock!WholeRecords,
       Stock!NullStock, Stock!StockFiles
  <2> QED
    BY <1>2, <2>1, EmptySeq DEF Begin, Phases
<1>3. CASE Refuse
  BY <1>3, EndsType DEF Refuse, Endings
<1>4. CASE Turn
  BY <1>4 DEF Turn, Phases, memory
<1>5. CASE NoCommand
  BY <1>5 DEF NoCommand, Phases, memory
<1>6. CASE LeaveLoop
  BY <1>6 DEF LeaveLoop, Phases, memory
<1>7. CASE EndUnsaved
  BY <1>7, EndsType DEF EndUnsaved, Endings
<1>8. CASE TruncateStock
  BY <1>8, EmptySeq DEF TruncateStock, Phases, memory, Stock!EmptyFile, Stock!StockFiles
<1>9. CASE WriteStock
  <2>1. file' \in Stock!StockFiles
    <3>1. CASE file' = Stock!CompleteWrite(stock)
      BY <3>1 DEF Stock!CompleteWrite, Stock!StockFiles
    <3>2. CASE file' \in Stock!ShortWrites(stock)
      <4>1. PICK n \in 0..(Len(stock) - 1), t \in BOOLEAN :
                file' = [records |-> SubSeq(stock, 1, n), torn |-> t]
        BY <3>2 DEF Stock!ShortWrites
      <4>2. SubSeq(stock, 1, n) \in Seq(Products)
        BY SubSeqProperties
      <4> QED
        BY <4>1, <4>2 DEF Stock!StockFiles
    <3> QED
      BY <1>9, <3>1, <3>2 DEF WriteStock
  <2>2. PICK how \in Endings : Ends(how)
    BY <1>9 DEF WriteStock, Endings
  <2> QED
    BY <1>9, <2>1, <2>2, EndsType DEF WriteStock
<1>10. CASE Exit
  BY <1>10 DEF Exit, Phases
<1>11. CASE StartTrade
  BY <1>11, EmptyCart DEF StartTrade, Phases
<1>12. CASE Send
  BY <1>12, EmptyCart DEF Send, Phases
<1>13. CASE Cancel
  BY <1>13, EmptyCart DEF Cancel, Phases
<1>14. ASSUME NEW p \in Products, NEW q \in Ints, Add(p, q)
       PROVE  LifetimeTypeOK'
  <2>1. cart \in Carts /\ q > 0
    BY <1>14 DEF Carts, Add
  <2>2. cart' \in Carts
    BY <1>14, <2>1, AddedCart DEF Add
  <2> QED
    BY <1>14, <2>2 DEF Add, Carts
<1>15. ASSUME NEW p \in Products, NEW q \in Ints, Remove(p, q)
       PROVE  LifetimeTypeOK'
  <2>1. cart \in Carts
    BY DEF Carts
  <2>2. cart' \in Carts
    BY <1>15, <2>1, RemovedCart DEF Remove
  <2> QED
    BY <1>15, <2>2 DEF Remove, Carts
<1>16. CASE Interrupt
  BY <1>16, EmptyCart DEF Interrupt, Phases
<1>17. CASE Killed
  BY <1>17, EndsType DEF Killed, Endings
<1>18. CASE UNCHANGED vars
  BY <1>18 DEF vars, memory
<1> QED
  BY <1>1, <1>2, <1>3, <1>4, <1>5, <1>6, <1>7, <1>8, <1>9, <1>10, <1>11,
     <1>12, <1>13, <1>14, <1>15, <1>16, <1>17, <1>18
     DEF Next, Progress, User, StaleCommand

----------------------------------------------------------------------------
(* The cart and the stock in every state                                   *)

\* The cart changes by a request of the user, or goes as a whole.
LEMMA CartNext ==
    [Next]_vars =>
        \/ cart' \in {<<>>, cart}
        \/ \E p \in Products, q \in Ints : Add(p, q) \/ Remove(p, q)
BY DEF Next, Progress, User, Start, Begin, Refuse, Turn, NoCommand, LeaveLoop,
   EndUnsaved, TruncateStock, WriteStock, Exit, StartTrade, Send, Cancel,
   StaleCommand, Interrupt, Killed, Ends, memory, vars

GoodLines == \A i \in DOMAIN cart : Good(cart[i])

LEMMA GoodLinesNext ==
    LifetimeTypeOK /\ GoodLines /\ [Next]_vars => GoodLines'
<1> SUFFICES ASSUME LifetimeTypeOK, GoodLines, [Next]_vars PROVE GoodLines'
  OBVIOUS
<1>1. CASE cart' = <<>>
  BY <1>1, EmptySeq DEF GoodLines
<1>2. CASE cart' = cart
  BY <1>2 DEF GoodLines
<1>3. ASSUME NEW p \in Products, NEW q \in Ints, Add(p, q)
      PROVE  GoodLines'
  <2>1. cart \in Carts /\ q > 0 /\ cart' = Added(cart, p, q)
    BY <1>3 DEF Carts, Add, LifetimeTypeOK
  <2> QED
    BY <2>1, AddedCart DEF GoodLines
<1>4. ASSUME NEW p \in Products, NEW q \in Ints, Remove(p, q)
      PROVE  GoodLines'
  <2>1. cart \in Carts /\ cart' = Removed(cart, p, q)
    BY <1>4 DEF Carts, Remove, LifetimeTypeOK
  <2> QED
    BY <2>1, RemovedCart DEF GoodLines
<1> QED
  BY <1>1, <1>2, <1>3, <1>4, CartNext

OneLineEach == OneLine(cart)

LEMMA OneLineNext ==
    LifetimeTypeOK /\ OneLineEach /\ [Next]_vars => OneLineEach'
<1> SUFFICES ASSUME LifetimeTypeOK, OneLineEach, [Next]_vars PROVE OneLineEach'
  OBVIOUS
<1>1. cart \in Carts /\ OneLine(cart)
  BY DEF Carts, LifetimeTypeOK, OneLineEach
<1>2. CASE cart' = <<>>
  BY <1>2, EmptySeq DEF OneLineEach, OneLine
<1>3. CASE cart' = cart
  BY <1>1, <1>3 DEF OneLineEach
<1>4. ASSUME NEW p \in Products, NEW q \in Ints, Add(p, q)
      PROVE  OneLineEach'
  BY <1>1, <1>4, AddedAmounts DEF Add, OneLineEach
<1>5. ASSUME NEW p \in Products, NEW q \in Ints, Remove(p, q)
      PROVE  OneLineEach'
  BY <1>1, <1>5, RemovedAmounts DEF Remove, OneLineEach
<1> QED
  BY <1>2, <1>3, <1>4, <1>5, CartNext

LEMMA AmountIsAnInt ==
    ASSUME NEW c \in Carts, OneLine(c), NEW p \in DOMAIN Amounts(c)
    PROVE  Amounts(c)[p] \in Int
<1>1. DOMAIN Amounts(c) = {c[i].product : i \in DOMAIN c}
  BY AmountsFacts
<1>2. PICK i \in DOMAIN c : p = c[i].product
  BY <1>1, Zenon
<1>3. Amounts(c)[p] = c[i].quantity
  BY <1>2, AmountsFacts
<1>4. c[i] \in Line
  BY ElementOfSeq DEF Carts
<1> QED
  BY <1>3, <1>4, LineFields

\* What a request does to the lines is what it does to the amounts.
LEMMA AddPuts ==
    ASSUME LifetimeTypeOK, OneLineEach, NEW p \in Products, NEW q \in Ints,
           Add(p, q)
    PROVE  Shopping!Put(p, q)
<1>1. cart \in Carts /\ OneLine(cart) /\ q > 0 /\ cart' = Added(cart, p, q)
  BY DEF Carts, LifetimeTypeOK, OneLineEach, Add
<1>2. Amounts(cart)' = Amounts(Added(cart, p, q))
  BY <1>1 DEF Amounts
<1>3. Shopping!Cardinality(DOMAIN Amounts(cart)) = Cardinality(DOMAIN Amounts(cart))
  BY DEF Shopping!Cardinality, Cardinality
<1>4. /\ \A n : Shopping!With(p, n) = With(Amounts(cart), p, n)
      /\ \A a, b : Shopping!SameInt(a, b) <=> SameInt(a, b)
      /\ Shopping!Amount = Ints
  BY DEF Shopping!With, With, Shopping!SameInt, SameInt, Shopping!Amount, Ints
<1>5. CASE p \in DOMAIN Amounts(cart)
  <2>1. PICK n \in Ints : /\ SameInt(n, Amounts(cart)[p] + q)
                          /\ Amounts(cart)' = With(Amounts(cart), p, n)
    BY <1>1, <1>2, <1>5, AddedAmounts
  <2> QED
    BY <1>1, <1>4, <1>5, <2>1 DEF Shopping!Put
<1>6. CASE p \notin DOMAIN Amounts(cart)
  <2>1. Amounts(cart)' = IF Cardinality(DOMAIN Amounts(cart)) < MaxLines
                         THEN With(Amounts(cart), p, q) ELSE Amounts(cart)
    BY <1>1, <1>2, <1>6, AddedAmounts
  <2> QED
    BY <1>1, <1>3, <1>4, <1>6, <2>1 DEF Shopping!Put
<1> QED
  BY <1>5, <1>6

LEMMA RemoveTakes ==
    ASSUME LifetimeTypeOK, OneLineEach, NEW p \in Products, NEW q \in Ints,
           Remove(p, q)
    PROVE  Shopping!Take(p, q)
<1>1. cart \in Carts /\ OneLine(cart) /\ cart' = Removed(cart, p, q)
  BY DEF Carts, LifetimeTypeOK, OneLineEach, Remove
<1>2. Amounts(cart)' = Amounts(Removed(cart, p, q))
  BY <1>1 DEF Amounts
<1>3. /\ \A n : Shopping!With(p, n) = With(Amounts(cart), p, n)
      /\ Shopping!Without(p) = Without(Amounts(cart), p)
      /\ \A a, b : Shopping!SameInt(a, b) <=> SameInt(a, b)
      /\ Shopping!Amount = Ints
  BY DEF Shopping!With, With, Shopping!Without, Without, Shopping!SameInt,
     SameInt, Shopping!Amount, Ints
<1>4. CASE p \notin DOMAIN Amounts(cart)
  <2>1. cart' = cart
    BY <1>1, <1>4, RemovedAmounts
  <2> QED
    BY <1>4, <2>1 DEF Shopping!Take, Amounts
<1>5. CASE p \in DOMAIN Amounts(cart) /\ q >= Amounts(cart)[p]
  <2>1. Amounts(cart)[p] \in Int /\ q \in Int
    BY <1>1, <1>5, AmountIsAnInt, CartAssumption DEF Ints
  <2>2. Amounts(cart)' = Without(Amounts(cart), p)
    BY <1>1, <1>2, <1>5, <2>1, RemovedAmounts
  <2> QED
    BY <1>3, <1>5, <2>2 DEF Shopping!Take
<1>6. CASE p \in DOMAIN Amounts(cart) /\ ~(q >= Amounts(cart)[p])
  <2>1. Amounts(cart)[p] \in Int /\ q \in Int
    BY <1>1, <1>6, AmountIsAnInt, CartAssumption DEF Ints
  <2>2. /\ q < Amounts(cart)[p]
        /\ \E n \in Ints : /\ SameInt(n, Amounts(cart)[p] - q)
                           /\ Amounts(cart)' = With(Amounts(cart), p, n)
    BY <1>1, <1>2, <1>6, <2>1, RemovedAmounts
  <2>3. PICK n \in Ints : /\ SameInt(n, Amounts(cart)[p] - q)
                          /\ Amounts(cart)' = With(Amounts(cart), p, n)
    BY <2>2
  <2> QED
    BY <1>3, <1>6, <2>2, <2>3 DEF Shopping!Take
<1> QED
  BY <1>4, <1>5, <1>6

LEMMA NoAmounts == DOMAIN Amounts(<<>>) = {}
BY EmptySeq DEF Amounts

LEMMA BasketStep ==
    LifetimeTypeOK /\ OneLineEach /\ [Next]_vars =>
        [Shopping!BasketNext]_(Amounts(cart))
<1> SUFFICES ASSUME LifetimeTypeOK, OneLineEach, [Next]_vars
             PROVE  [Shopping!BasketNext]_(Amounts(cart))
  OBVIOUS
<1>1. CASE cart' = <<>>
  <2>1. DOMAIN Amounts(cart)' = {}
    BY <1>1, NoAmounts
  <2> QED
    BY <2>1 DEF Shopping!BasketNext, Shopping!Empty
<1>2. CASE cart' = cart
  BY <1>2 DEF Amounts
<1>3. ASSUME NEW p \in Products, NEW q \in Ints, Add(p, q) \/ Remove(p, q)
      PROVE  Shopping!BasketNext
  <2>1. q \in Shopping!Amount
    BY DEF Shopping!Amount, Ints
  <2>2. Shopping!Put(p, q) \/ Shopping!Take(p, q)
    BY <1>3, AddPuts, RemoveTakes
  <2> QED
    BY <2>1, <2>2 DEF Shopping!BasketNext
<1> QED
  BY <1>1, <1>2, <1>3, CartNext

LEMMA BeginningItself ==
    ASSUME NEW s \in Seq(Products)
    PROVE  IsBeginning(s, s) /\ IsBeginning(<<>>, s)
<1>1. s = SubSeq(s, 1, Len(s)) /\ <<>> = SubSeq(s, 1, 0)
      /\ Len(s) \in Nat /\ Len(<<>>) = 0
  BY SubSeqFull, SubSeqEmpty, LenProperties, EmptySeq
<1> QED
  BY <1>1 DEF IsBeginning

LEMMA BeginningOfBeginning ==
    ASSUME NEW t \in Seq(Products), NEW s \in Seq(Products), IsBeginning(s, t),
           NEW n \in 0..(Len(s) - 1)
    PROVE  IsBeginning(SubSeq(s, 1, n), t)
<1>1. Len(s) \in Nat /\ Len(t) \in Nat /\ Len(s) <= Len(t)
  BY LenProperties DEF IsBeginning
<1>2. SubSeq(s, 1, n) \in Seq(Products) /\ Len(SubSeq(s, 1, n)) = n
      /\ \A i \in 1..n : SubSeq(s, 1, n)[i] = s[i]
  BY <1>1, SubSeqProperties
<1>3. SubSeq(t, 1, n) \in Seq(Products) /\ Len(SubSeq(t, 1, n)) = n
      /\ \A i \in 1..n : SubSeq(t, 1, n)[i] = t[i]
  BY <1>1, SubSeqProperties
<1>4. \A i \in 1..Len(s) : s[i] = t[i]
  <2>1. s = SubSeq(t, 1, Len(s))
    BY DEF IsBeginning
  <2>2. \A i \in 1..Len(s) : SubSeq(t, 1, Len(s))[i] = t[i]
    BY <1>1, SubSeqProperties
  <2> QED
    BY <2>1, <2>2
<1>5. SubSeq(s, 1, n) = SubSeq(t, 1, n)
  BY <1>1, <1>2, <1>3, <1>4, SeqEqual
<1> QED
  BY <1>1, <1>2, <1>5 DEF IsBeginning

\* A life that has a stock has all that its file held; it is alone with it
\* from the truncation to the write.
StockInv ==
    /\ StockIsABeginning
    /\ phase \in {"down", "starting"} => stock = <<>>
    /\ phase # "down" => ending = "none"
    /\ phase \notin {"down", "saving"} => file.records = found
    /\ phase = "saving" => stock # <<>>
    /\ stock # <<>> => stock = found
    /\ ending = "orderly" => file.records = found

LEMMA StockInit == Init => StockInv
<1> SUFFICES ASSUME Init PROVE StockInv
  OBVIOUS
<1>1. IsBeginning(Inventory, Inventory) /\ IsBeginning(<<>>, Inventory)
  BY BeginningItself, LifetimeAssumption
<1> QED
  BY <1>1 DEF Init, StockInv, StockIsABeginning

LEMMA StockNext ==
    LifetimeTypeOK /\ StockInv /\ [Next]_vars => StockInv'
<1> SUFFICES ASSUME LifetimeTypeOK, StockInv, [Next]_vars PROVE StockInv'
  OBVIOUS
<1> USE DEF StockInv, StockIsABeginning
<1>1. IsBeginning(<<>>, Inventory)
  BY BeginningItself, LifetimeAssumption
<1>2. CASE Start
  BY <1>2 DEF Start
<1>3. CASE Begin
  <2>1. stock' \in {file.records, <<>>}
    BY <1>3 DEF Begin, Stock!LoadOutcomes, Stock!WholeRecords, Stock!NullStock
  <2> QED
    BY <1>1, <1>3, <2>1 DEF Begin
<1>4. CASE Refuse
  BY <1>1, <1>4 DEF Refuse, Ends
<1>5. CASE EndUnsaved
  BY <1>1, <1>5 DEF EndUnsaved, Ends
<1>6. CASE TruncateStock
  BY <1>1, <1>6 DEF TruncateStock, memory, HasStock, Stock!NullStock,
     Stock!EmptyFile
<1>7. CASE WriteStock
  <2>1. CASE file' = Stock!CompleteWrite(stock) /\ Ends("orderly")
    <3>1. file'.records = stock /\ stock = found
      BY <1>7, <2>1 DEF WriteStock, Stock!CompleteWrite
    <3> QED
      BY <1>1, <1>7, <2>1, <3>1 DEF WriteStock, Ends
  <2>2. CASE file' \in Stock!ShortWrites(stock) /\ Ends("unsaved")
    <3>1. PICK n \in 0..(Len(stock) - 1) : file'.records = SubSeq(stock, 1, n)
      BY <2>2 DEF Stock!ShortWrites
    <3>2. IsBeginning(file'.records, Inventory)
      BY <3>1, BeginningOfBeginning, LifetimeAssumption DEF LifetimeTypeOK
    <3> QED
      BY <1>1, <1>7, <2>2, <3>2 DEF WriteStock, Ends
  <2> QED
    BY <1>7, <2>1, <2>2 DEF WriteStock
<1>8. CASE Killed
  BY <1>1, <1>8 DEF Killed, Ends
<1>9. CASE Turn \/ NoCommand \/ LeaveLoop \/ Exit \/ StartTrade \/ Send \/ Cancel
  BY <1>9 DEF Turn, NoCommand, LeaveLoop, Exit, StartTrade, Send, Cancel, memory
<1>10. CASE \E p \in Products, q \in Ints : Add(p, q) \/ Remove(p, q)
  BY <1>10 DEF Add, Remove
<1>11. CASE Interrupt
  BY <1>11 DEF Interrupt
<1>12. CASE UNCHANGED vars
  BY <1>12 DEF vars, memory
<1> QED
  BY <1>2, <1>3, <1>4, <1>5, <1>6, <1>7, <1>8, <1>9, <1>10, <1>11, <1>12
     DEF Next, Progress, User, StaleCommand

----------------------------------------------------------------------------
(* Theorems                                                                *)

\* The cart never has more lines than its array, and no record, quantity or
\* state of the process leaves its range.
THEOREM LifetimeTypeCorrect == Spec => []LifetimeTypeOK
<1>1. Init => LifetimeTypeOK
  BY TypeInit
<1>2. LifetimeTypeOK /\ [Next]_vars => LifetimeTypeOK'
  BY TypeNext
<1> QED
  BY <1>1, <1>2, PTL DEF Spec

\* A quantity that reaches the trade file is positive unless an int of its
\* line has overflowed.
THEOREM OnlyOverflowSpoils == Spec => []OnlyOverflowSpoilsLines
<1>1. Init => GoodLines
  BY EmptySeq DEF Init, GoodLines
<1>2. LifetimeTypeOK /\ GoodLines /\ [Next]_vars => GoodLines'
  BY GoodLinesNext
<1>3. GoodLines => OnlyOverflowSpoilsLines
  BY DEF GoodLines, OnlyOverflowSpoilsLines, Good
<1> QED
  BY <1>1, <1>2, <1>3, LifetimeTypeCorrect, PTL DEF Spec

LEMMA StockInvAlways == Spec => []StockInv
<1>1. Init => StockInv
  BY StockInit
<1>2. LifetimeTypeOK /\ StockInv /\ [Next]_vars => StockInv'
  BY StockNext
<1> QED
  BY <1>1, <1>2, LifetimeTypeCorrect, PTL DEF Spec

\* Whatever cuts the saving short, the database and the memory hold a
\* beginning of the first inventory.
THEOREM StockStaysABeginning == Spec => []StockIsABeginning
<1>1. StockInv => StockIsABeginning
  BY DEF StockInv
<1> QED
  BY <1>1, StockInvAlways, PTL

\* A process that reaches the end of maester_run has kept every record.
THEOREM OrderlyEndsKeep == Spec => []OrderlyEndsKeepTheStock
<1>1. StockInv => OrderlyEndsKeepTheStock
  BY DEF StockInv, OrderlyEndsKeepTheStock
<1> QED
  BY <1>1, StockInvAlways, PTL

\* The cart, with its search from the front, its lines that move up and its
\* ints that overflow, is a function from products to amounts: every request
\* changes the amount of its own product, as asked, and no other.
THEOREM CartKeepsTheBasket == Spec => CartIsABasket
<1>1. Init => OneLineEach /\ Shopping!BasketInit
  BY NoAmounts, EmptySeq DEF Init, OneLineEach, OneLine, Shopping!BasketInit
<1>2. LifetimeTypeOK /\ OneLineEach /\ [Next]_vars => OneLineEach'
  BY OneLineNext
<1>3. LifetimeTypeOK /\ OneLineEach /\ [Next]_vars =>
          [Shopping!BasketNext]_(Amounts(cart))
  BY BasketStep
<1>4. LifetimeTypeOK /\ OneLineEach /\ [Next]_vars =>
          [\A p \in Products, q \in Ints :
              /\ Add(p, q) => Shopping!Put(p, q)
              /\ Remove(p, q) => Shopping!Take(p, q)]_vars
  BY AddPuts, RemoveTakes
<1> QED
  BY <1>1, <1>2, <1>3, <1>4, LifetimeTypeCorrect, PTL
     DEF Spec, CartIsABasket, Shopping!BasketSpec

\* The loop over the lines and the two searches in the list they give lead to
\* the next hops of the route table, for every name and every file without an
\* empty line among its routes.
THEOREM RoutesAreTheTable == Spec => []LoadedRoutesAreTheTable
<1>1. LifetimeTypeOK => LoadedRoutesAreTheTable
  <2> SUFFICES ASSUME config \in Seq(Lines), HasHeader(config),
                      ~HasGap(config)
               PROVE  ReadAsMeant(config)
    BY DEF LoadedRoutesAreTheTable, LifetimeTypeOK
  <2>1. Gapless(config)
    <3>1. \A i \in 1..Len(config) :
              i \in 1..HeaderLines \/ i \in (HeaderLines + 1)..Len(config)
      BY DEF HeaderLines
    <3> QED
      BY <3>1 DEF HasHeader, HasGap, Gapless
  <2> QED
    BY <2>1, TableIsLoaded, Zenon DEF ReadAsMeant
<1> QED
  BY <1>1, LifetimeTypeCorrect, PTL

=============================================================================
