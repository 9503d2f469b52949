---------------------------- MODULE MCVidRouting ----------------------------
(***************************************************************************)
(* Instances of VidRouting for TLC: which router each thread runs in and   *)
(* which container it serves.                                              *)
(***************************************************************************)
EXTENDS VidRoutingInv, TLC

CONSTANTS r1, r2, t1, t2, t3, c1, c2

\* One router with two containers; t1 and t3 serve clients of one container.
OneRouterOf == [t \in Threads |-> r1]
OneCidOf == [t \in Threads |-> IF t = t2 THEN c2 ELSE c1]
OneNid == (r1 :> 1)

\* Two routers; r2 serves a container with the name of one of r1's.
TwoRouterOf == [t \in Threads |-> IF t = t3 THEN r2 ELSE r1]
TwoCidOf == OneCidOf
TwoNid == (r1 :> 1) @@ (r2 :> 2)

\* Bound on the two routers' instance: a router that has called vcm_disconn is
\* left alone (the instance of one router has all of that).
NoDisconn == \A r \in Routers : main[r] # "leaving"
=============================================================================
