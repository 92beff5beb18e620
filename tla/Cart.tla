-------------------------------- MODULE Cart --------------------------------
(***************************************************************************)
(* The cart of the trade menu (shopping_list in trade.c): an array of      *)
(* lines, searched from the front, with quantities of type int.  Pure      *)
(* operators on one cart; Lifetime calls them.                             *)
(***************************************************************************)
EXTENDS Integers, Sequences, FiniteSets

CONSTANTS
    Products,   \* the names in the inventory
    MaxLines,   \* lines of the array (50 in the code)
    MaxInt      \* the largest int

ASSUME CartAssumption ==
    /\ MaxLines \in Nat
    /\ MaxInt \in Nat \ {0}

Ints == (-(MaxInt + 1))..MaxInt

\* Overflow of int is undefined in C; the build, without optimisation, takes
\* the result modulo the word.
Wrap(n) == ((n + MaxInt + 1) % (2 * (MaxInt + 1))) - (MaxInt + 1)

\* wrapped is history: a sum or difference of this line has overflowed.
Line == [product : Products, quantity : Ints, wrapped : BOOLEAN]

\* The line of a product: {} when the search finds nothing.
LineOf(cart, product) ==
    LET found == {i \in DOMAIN cart : cart[i].product = product}
    IN  {i \in found : \A j \in found : i <= j}

Changed(line, quantity) ==
    [line EXCEPT !.quantity = Wrap(quantity),
                 !.wrapped = @ \/ quantity # Wrap(quantity)]

\* Mutant of Added: the limit is not looked at.
AddedWithoutLimit(cart, product, quantity) ==
    IF LineOf(cart, product) # {}
    THEN [i \in DOMAIN cart |->
             IF i \in LineOf(cart, product)
             THEN Changed(cart[i], cart[i].quantity + quantity)
             ELSE cart[i]]
    ELSE Append(cart, [product |-> product, quantity |-> quantity,
                       wrapped |-> FALSE])

\* add <product> <quantity>, once the quantity is positive and the product
\* known.  More than there is in stock only earns a warning.
Added(cart, product, quantity) ==
    IF LineOf(cart, product) # {}
    THEN [i \in DOMAIN cart |->
             IF i \in LineOf(cart, product)
             THEN Changed(cart[i], cart[i].quantity + quantity)
             ELSE cart[i]]
    ELSE IF Len(cart) < MaxLines
    THEN Append(cart, [product |-> product, quantity |-> quantity,
                       wrapped |-> FALSE])
    ELSE cart

\* Mutant of WithoutLine: the line after the next takes the free place.
WithoutLineShort(cart, i) ==
    [j \in 1..(Len(cart) - 1) |-> IF j <= i THEN cart[j] ELSE cart[j + 1]]

\* The lines behind the removed one move up.
WithoutLine(cart, i) ==
    [j \in 1..(Len(cart) - 1) |-> IF j < i THEN cart[j] ELSE cart[j + 1]]

\* Mutant of TakesAll: a line taken to zero stays.
TakesMore(line, quantity) == quantity > line.quantity

TakesAll(line, quantity) == quantity >= line.quantity

\* remove <product> <quantity>, with any quantity, also a negative one.
Removed(cart, product, quantity) ==
    IF LineOf(cart, product) = {} THEN cart
    ELSE LET i == CHOOSE j \in LineOf(cart, product) : TRUE IN
         IF TakesAll(cart[i], quantity) THEN WithoutLine(cart, i)
         ELSE [cart EXCEPT ![i] = Changed(@, @.quantity - quantity)]

=============================================================================
