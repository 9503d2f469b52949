---------------------------- MODULE VidDirectory ----------------------------
(***************************************************************************)
(* What the virtual cluster manager and the routers together promise: a    *)
(* directory of virtual node ids.  No messages, threads, locks or          *)
(* connections: an id is allocated to a router, a container of that router *)
(* takes it, and routers learn which router an id belongs to.              *)
(*                                                                         *)
(* The promise about ids can end: after Stop a router may take or learn    *)
(* anything, once per entry, and ids are still allocated once.             *)
(***************************************************************************)
EXTENDS Integers

CONSTANTS Routers, RouterNid, Cids, Ids

Unknown == -1
Keys == Ids \cup {Unknown}

VARIABLES
    up,         \* the directory keeps its promise
    table,      \* id -> node id of the router it is allocated to, or 0
    member,     \* router -> container -> its id, or 0
    known       \* router -> id -> the node id learned for it, -1, or 0

dirVars == <<up, table, member, known>>

Nobody == 0

DirInit ==
    /\ up = TRUE
    /\ table = [v \in Ids |-> Nobody]
    /\ member = [r \in Routers |-> [c \in Cids |-> Nobody]]
    /\ known = [r \in Routers |-> [v \in Keys |-> Nobody]]

\* An id is allocated once.
Allocate(r) ==
    /\ \E v \in Ids :
        /\ table[v] = Nobody
        /\ table' = [table EXCEPT ![v] = RouterNid[r]]
    /\ UNCHANGED <<up, member, known>>

Taken(v) == \E r \in Routers, c \in Cids : member[r][c] = v

\* A container takes an id of its router that no container holds, for good;
\* its router knows the id from then on, unless it believes it knows better.
Enroll(r, c) ==
    /\ member[r][c] = Nobody
    /\ \E v \in Keys :
        /\ up => v \in Ids /\ table[v] = RouterNid[r] /\ ~Taken(v)
        /\ member' = [member EXCEPT ![r][c] = v]
        /\ known' = IF known[r][v] = Nobody THEN [known EXCEPT ![r][v] = RouterNid[r]] ELSE known
    /\ UNCHANGED <<up, table>>

\* A router learns an allocated id's node id, or that the id was unknown when
\* it asked; it never asks again.
Learn(r, v) ==
    /\ known[r][v] = Nobody
    /\ \E n \in Keys :
        /\ up => n \in {table[v], Unknown}
        /\ known' = [known EXCEPT ![r][v] = n]
    /\ UNCHANGED <<up, table, member>>

Stop ==
    /\ up
    /\ up' = FALSE
    /\ UNCHANGED <<table, member, known>>

DirNext ==
    \/ \E r \in Routers : Allocate(r)
    \/ \E r \in Routers, c \in Cids : Enroll(r, c)
    \/ \E r \in Routers, v \in Ids : Learn(r, v)
    \/ Stop

DirSpec == DirInit /\ [][DirNext]_dirVars
=============================================================================
