----------------------------- MODULE MCLocalMem -----------------------------
(***************************************************************************)
(* Instances of LocalMem for TLC.                                          *)
(***************************************************************************)
EXTENDS LocalMem, TLC

CONSTANTS u1, u2, u3, n1, n2

\* u1 and u2 use one name and size, u3 has a name of its own.
TwoAndOneNames == (u1 :> n1) @@ (u2 :> n1) @@ (u3 :> n2)
TwoAndOneSizes == (u1 :> 2) @@ (u2 :> 2) @@ (u3 :> 1)

\* Two users of one name.
EqualNames == (u1 :> n1) @@ (u2 :> n1)
EqualSizes == (u1 :> 2) @@ (u2 :> 2)

Symmetry == Permutations(Objects)
TwinSymmetry == Permutations(Objects) \cup Permutations({u1, u2})
=============================================================================
