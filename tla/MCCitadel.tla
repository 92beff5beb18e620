----------------------------- MODULE MCCitadel -----------------------------
(***************************************************************************)
(* Small instances of Citadel for TLC: the realms Dragonstone, King's      *)
(* Landing and The Vale of the sample configurations, with their routing   *)
(* tables and with tables of other shapes.                                 *)
(***************************************************************************)
EXTENDS Citadel, TLC

CONSTANTS D, K, V       \* dragonstone.dat, kingslanding.dat, thevale.dat

Three == {D, K, V}

\* A name typed with an '&' in it, such as "The& Vale".
CONSTANT VAmp

AllNames == {D, K, V, VAmp, DEFAULT}

CleanedNames == [n \in AllNames |-> IF n = VAmp THEN V ELSE n]

\* The routes of the three files that have an address.
SampleRoutes ==
    D :> (K :> K @@ DEFAULT :> K)
    @@ K :> (D :> D @@ V :> V @@ DEFAULT :> D)
    @@ V :> (D :> D @@ K :> K @@ DEFAULT :> D)

\* A line D - K - V.  K takes every name it does not know to V, which knows
\* no other: what nobody owns ends there.
LineRoutes ==
    D :> (K :> K @@ DEFAULT :> K)
    @@ K :> (D :> D @@ DEFAULT :> V)
    @@ V :> (K :> K @@ D :> K)

OuterPledges == D :> {V} @@ K :> {} @@ V :> {D}
DMisspells == D :> {V, VAmp} @@ K :> {} @@ V :> {D}
OnlyDPledges == D :> {V} @@ K :> {} @@ V :> {}
DPledgesToBoth == D :> {K, V} @@ K :> {} @@ V :> {D}
FromDToBoth == D :> {K, V} @@ K :> {} @@ V :> {}

=============================================================================
