----------------------------- MODULE MCLifetime -----------------------------
(***************************************************************************)
(* A small instance of Lifetime: three products, a cart of two lines, ints *)
(* of three bits, and every route section of up to three lines.            *)
(***************************************************************************)
EXTENDS Lifetime

CONSTANTS Bread, Salt, Wine, D, K, V

ThreeProducts == {Bread, Salt, Wine}
FullInventory == <<Bread, Salt, Wine>>

MCNames == {K, V, DEFAULT}
MCHops == {K, V}

RouteChoices ==
    {[kind |-> k] : k \in {"blank", "text"}}
    \cup [kind : {"route"}, name : MCNames, hop : MCHops \cup {NoRealm}]

Header == [i \in 1..HeaderLines |-> [kind |-> "text"]]

\* A good header with every short section, and one file with a gap.
ShortFiles ==
    {Header \o section :
        section \in UNION {[1..n -> RouteChoices] : n \in 0..3}}
    \cup {[Header EXCEPT ![3] = [kind |-> "blank"]]}

=============================================================================
