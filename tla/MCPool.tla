------------------------------- MODULE MCPool -------------------------------
(***************************************************************************)
(* A small instance of ConnectionPool: two next hops, and enough           *)
(* descriptors for the fifth entry that makes the array grow.              *)
(***************************************************************************)
EXTENDS ConnectionPool, TLC

CONSTANTS H1, H2

TwoHops == {H1, H2}

HopSymmetry == Permutations(TwoHops)

=============================================================================
