--------------------------- MODULE MCLiteMessages ---------------------------
(***************************************************************************)
(* Instance of LiteMessages for TLC.                                       *)
(***************************************************************************)
EXTENDS LiteMessages, TLC

CONSTANTS s1, s2, s3, r1, r2, w1, w2, c1, c2

\* s1 and s3 are threads of one process.  s2, of another, passes the word of s1;
\* s3 has its own, and its first message is too big.
TwoProcesses == (s1 :> c1) @@ (s2 :> c2) @@ (s3 :> c1)
TwoShare == (s1 :> w1) @@ (s2 :> w1) @@ (s3 :> w2)
SendSizes == (s1 :> <<1>>) @@ (s2 :> <<2>>) @@ (s3 :> <<4, 3>>)
Rooms == (s1 :> 3) @@ (s2 :> 2) @@ (s3 :> 3)

\* The receive size of r2 overflows, and s2 has no room for its reply.
RecvCounts == (r1 :> 3) @@ (r2 :> 1)
RecvSizes == (r1 :> 3) @@ (r2 :> 4)
ReplySizes == (r1 :> 2) @@ (r2 :> 3)

\* Bound: an execution has a refusal, the death of the server or the plain message,
\* one of the three.
OneOfThree == refusals + plain + (IF serverUp THEN 0 ELSE 1) <= 1
=============================================================================
