---------------------------- MODULE MCRpcChannel ----------------------------
(***************************************************************************)
(* Instances of RpcChannel for TLC.                                        *)
(***************************************************************************)
EXTENDS RpcChannel, TLC

CONSTANTS p1, p2, p3, t1, t2, t3

\* Processes of one thread each, and a process of two threads.
OneEach == (t1 :> p1) @@ (t2 :> p2)
BothInOne == (t1 :> p1) @@ (t2 :> p1)
TwoAndOne == (t1 :> p1) @@ (t2 :> p1) @@ (t3 :> p2)
ThreeProcs == (t1 :> p1) @@ (t2 :> p2) @@ (t3 :> p3)

\* Ids that differ in the first five characters, and ids that do not.
Unlike == [p \in Procs |-> <<p, "0">>]
Alike == [p \in Procs |-> <<"12345", p>>]

Symmetry == Permutations(Conns) \cup Permutations(Handlers)
=============================================================================
