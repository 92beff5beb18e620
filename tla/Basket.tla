------------------------------- MODULE Basket -------------------------------
(***************************************************************************)
(* What the cart promises: for some products an amount, whatever the order *)
(* in which they were added, removed and added again.                      *)
(***************************************************************************)
EXTENDS Integers, FiniteSets

CONSTANTS Products, Limit, MaxInt

VARIABLE amounts        \* from the products in the basket to Amount

Amount == (-(MaxInt + 1))..MaxInt

\* a and b are the same int.
SameInt(a, b) == (a - b) % (2 * (MaxInt + 1)) = 0

With(product, n) ==
    [p \in DOMAIN amounts \cup {product} |->
        IF p = product THEN n ELSE amounts[p]]

Without(product) == [p \in DOMAIN amounts \ {product} |-> amounts[p]]

BasketInit == DOMAIN amounts = {}

\* A product already there gets more; a new one needs room.
Put(product, quantity) ==
    /\ quantity > 0
    /\ \/ /\ product \in DOMAIN amounts
          /\ \E n \in Amount : /\ SameInt(n, amounts[product] + quantity)
                               /\ amounts' = With(product, n)
       \/ /\ product \notin DOMAIN amounts
          /\ amounts' = IF Cardinality(DOMAIN amounts) < Limit
                        THEN With(product, quantity) ELSE amounts

Take(product, quantity) ==
    \/ product \notin DOMAIN amounts /\ UNCHANGED amounts
    \/ /\ product \in DOMAIN amounts
       /\ quantity >= amounts[product]
       /\ amounts' = Without(product)
    \/ /\ product \in DOMAIN amounts
       /\ quantity < amounts[product]
       /\ \E n \in Amount : /\ SameInt(n, amounts[product] - quantity)
                            /\ amounts' = With(product, n)

Empty == DOMAIN amounts' = {}

BasketNext ==
    \/ \E p \in Products, q \in Amount : Put(p, q) \/ Take(p, q)
    \/ Empty

BasketSpec == BasketInit /\ [][BasketNext]_amounts

=============================================================================
