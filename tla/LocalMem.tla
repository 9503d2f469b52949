------------------------------ MODULE LocalMem ------------------------------
(***************************************************************************)
(* Memory shared by a client and its router: alloc_shm_mem and             *)
(* free_shm_mem of router/lib/shm.cpp, called by the router's handler      *)
(* threads, and the client's half in userspace_liteapi_alloc_local_mem and *)
(* userspace_liteapi_free_local_mem (client/lib/lite-lib.c).               *)
(*                                                                         *)
(* /dev/shm is one namespace for the host.  Every system call is a step,   *)
(* since the handler threads of different clients interleave.  A user is a *)
(* client with a connection of its own; how threads share a connection is  *)
(* the subject of RpcChannel.                                              *)
(***************************************************************************)
EXTENDS Naturals, FiniteSets

CONSTANTS
    Users,      \* clients that allocate, use and free one buffer at a time
    Names,      \* names in /dev/shm
    NameOf,     \* the name a user asks for
    SizeOf,     \* the size a user asks for, in pages
    Objects,    \* bound: shared memory objects alive at the same time
    MaxFds,     \* bound: the router's limit on open descriptors
    None,       \* no object
    MapFailed   \* MAP_FAILED

ASSUME MemAssumption ==
    /\ NameOf \in [Users -> Names]
    /\ SizeOf \in [Users -> Nat \ {0}]
    /\ MaxFds \in Nat
    /\ None \notin Objects /\ MapFailed \notin Objects /\ None # MapFailed

VARIABLES
    shm,        \* /dev/shm: name -> object
    size,       \* object -> its length
    fds,        \* descriptors the router has open
    leaked,     \* objects of router mappings that nobody will unmap
    pc,         \* step of the user's call, in its process or in its handler
    fd,         \* the object behind the local variable fd of the current call
    remote,     \* the object mapped at the user's remote_addr, in the router
    local       \* the object mapped at the user's local_addr

memVars == <<shm, size, fds, leaked, pc, fd, remote, local>>

\* Mutant: the name is cut to a prefix that all users have in common.
ShmNamePrefix(u) == CHOOSE n \in Names : TRUE

\* strncpy into the request; the same string names the object on both sides.
ShmName(u) == NameOf[u]

TypeOK ==
    /\ shm \in [Names -> Objects \cup {None}]
    /\ size \in [Objects -> Nat]
    /\ fds \in 0..MaxFds
    /\ leaked \subseteq Objects
    /\ pc \in [Users -> {"idle", "open", "reopen", "ftruncate", "mmap", "client_open",
                         "client_mmap", "use", "munmap", "unlink"}]
    /\ fd \in [Users -> Objects \cup {None}]
    /\ remote \in [Users -> Objects \cup {None}]
    /\ local \in [Users -> Objects \cup {None, MapFailed}]

Init ==
    /\ shm = [n \in Names |-> None]
    /\ size = [o \in Objects |-> 0]
    /\ fds = 0
    /\ leaked = {}
    /\ pc = [u \in Users |-> "idle"]
    /\ fd = [u \in Users |-> None]
    /\ remote = [u \in Users |-> None]
    /\ local = [u \in Users |-> None]

\* An object without a name, a mapping or a descriptor in use is free.
InUse == {shm[n] : n \in Names} \cup leaked \cup {fd[u] : u \in Users}
             \cup {remote[u] : u \in Users} \cup {local[u] : u \in Users}

Goto(u, p) == pc' = [pc EXCEPT ![u] = p]

\* The call returns -1, leaving the descriptor open.
Fail(u) == Goto(u, "idle") /\ fd' = [fd EXCEPT ![u] = None]

-----------------------------------------------------------------------------
(***************************************************************************)
(* Allocation.                                                             *)
(***************************************************************************)

\* The client sends its request.
AllocLocalMem(u) ==
    /\ pc[u] = "idle"
    /\ Goto(u, "open")
    /\ UNCHANGED <<shm, size, fds, leaked, fd, remote, local>>

\* shm_open(O_CREAT | O_EXCL): a new, empty object, unless the name is taken
\* or the router has no descriptor left.
OpenExclusive(u) ==
    /\ pc[u] = "open"
    /\ \/ /\ shm[ShmName(u)] = None /\ fds < MaxFds
          /\ \E o \in Objects \ InUse :
              /\ shm' = [shm EXCEPT ![ShmName(u)] = o]
              /\ size' = [size EXCEPT ![o] = 0]
              /\ fd' = [fd EXCEPT ![u] = o]
          /\ fds' = fds + 1
          /\ Goto(u, "ftruncate")
       \/ /\ shm[ShmName(u)] # None \/ fds = MaxFds
          /\ Goto(u, "reopen")
          /\ UNCHANGED <<shm, size, fds, fd>>
    /\ UNCHANGED <<leaked, remote, local>>

\* shm_open(O_RDWR) after the first one failed, for whatever reason.
OpenExisting(u) ==
    /\ pc[u] = "reopen"
    /\ \/ /\ shm[ShmName(u)] # None /\ fds < MaxFds
          /\ fd' = [fd EXCEPT ![u] = shm[ShmName(u)]]
          /\ fds' = fds + 1
          /\ Goto(u, "ftruncate")
       \/ /\ shm[ShmName(u)] = None \/ fds = MaxFds
          /\ Fail(u)
          /\ UNCHANGED fds
    /\ UNCHANGED <<shm, size, leaked, remote, local>>

\* Mutant: ftruncate is left out.
NewLengthKept(u) == size[fd[u]]

NewLength(u) == SizeOf[u]

\* ftruncate: the object has the size the user asks for from here on,
\* whatever size it had for another user.
Ftruncate(u) ==
    /\ pc[u] = "ftruncate"
    /\ \/ size' = [size EXCEPT ![fd[u]] = NewLength(u)] /\ Goto(u, "mmap") /\ UNCHANGED fd
       \/ Fail(u) /\ UNCHANGED size
    /\ UNCHANGED <<shm, fds, leaked, remote, local>>

\* Mutant: MAP_FAILED is not tested for, as in the client.
RouterMmapUnchecked(u) ==
    /\ pc[u] = "mmap"
    /\ \E a \in {fd[u], MapFailed} : remote' = [remote EXCEPT ![u] = a]
    /\ fd' = [fd EXCEPT ![u] = None]
    /\ Goto(u, "client_open")
    /\ UNCHANGED <<shm, size, fds, leaked, local>>

\* mmap in the router; the descriptor is not closed.  The response carries
\* the address.
RouterMmap(u) ==
    /\ pc[u] = "mmap"
    /\ \/ /\ remote' = [remote EXCEPT ![u] = fd[u]]
          /\ fd' = [fd EXCEPT ![u] = None]
          /\ Goto(u, "client_open")
       \/ Fail(u) /\ UNCHANGED remote
    /\ UNCHANGED <<shm, size, fds, leaked, local>>

\* The router's mapping stays although the client will never free it.
Forget(u) ==
    /\ leaked' = leaked \cup ({remote[u]} \ {None})
    /\ remote' = [remote EXCEPT ![u] = None]

\* shm_open in the client: -1 if the name has been unlinked meanwhile, and the
\* caller never learns remote_addr.
ClientOpen(u) ==
    /\ pc[u] = "client_open"
    /\ \/ /\ shm[ShmName(u)] # None
          /\ fd' = [fd EXCEPT ![u] = shm[ShmName(u)]]
          /\ Goto(u, "client_mmap")
          /\ UNCHANGED <<leaked, remote>>
       \/ /\ shm[ShmName(u)] = None
          /\ Forget(u)
          /\ Fail(u)
    /\ UNCHANGED <<shm, size, fds, local>>

\* mmap in the client.  The test for MAP_FAILED looks at the address of the
\* variable instead of its value, so the call succeeds either way.
ClientMmap(u) ==
    /\ pc[u] = "client_mmap"
    /\ \E a \in {fd[u], MapFailed} : local' = [local EXCEPT ![u] = a]
    /\ fd' = [fd EXCEPT ![u] = None]
    /\ Goto(u, "use")
    /\ UNCHANGED <<shm, size, fds, leaked, remote>>

-----------------------------------------------------------------------------
(***************************************************************************)
(* Release.                                                                *)
(***************************************************************************)

\* The client sends its request; its own mapping is its own business.
FreeLocalMem(u) ==
    /\ pc[u] = "use"
    /\ local' = [local EXCEPT ![u] = None]
    /\ Goto(u, "munmap")
    /\ UNCHANGED <<shm, size, fds, leaked, fd, remote>>

Munmap(u) ==
    /\ pc[u] = "munmap"
    /\ remote' = [remote EXCEPT ![u] = None]
    /\ Goto(u, "unlink")
    /\ UNCHANGED <<shm, size, fds, leaked, fd, local>>

\* shm_unlink: fails, and with it the call, if the name is gone.
Unlink(u) ==
    /\ pc[u] = "unlink"
    /\ shm' = [shm EXCEPT ![ShmName(u)] = None]
    /\ Goto(u, "idle")
    /\ UNCHANGED <<size, fds, leaked, fd, remote, local>>

\* The client's process ends between two calls, or within its own half of
\* one; neither the mapping nor the name is cleaned up.  The user may come
\* back as a new process.
ClientDies(u) ==
    /\ pc[u] \in {"client_open", "client_mmap", "use"}
    /\ Forget(u)
    /\ local' = [local EXCEPT ![u] = None]
    /\ Fail(u)
    /\ UNCHANGED <<shm, size, fds>>

-----------------------------------------------------------------------------
UserStep(u) ==
    \/ AllocLocalMem(u) \/ OpenExclusive(u) \/ OpenExisting(u) \/ Ftruncate(u) \/ RouterMmap(u)
    \/ ClientOpen(u) \/ ClientMmap(u)
    \/ FreeLocalMem(u) \/ Munmap(u) \/ Unlink(u) \/ ClientDies(u)

Next == \E u \in Users : UserStep(u)

Spec == Init /\ [][Next]_memVars

-----------------------------------------------------------------------------
(***************************************************************************)
(* Properties.                                                             *)
(***************************************************************************)

\* Nobody else asks for the user's name, as in client/test_latency.c, which
\* appends the thread's number, and unlike client/test_rpc.c.
Own(u) == \A v \in Users : NameOf[v] = NameOf[u] => v = u

\* Users of one name ask for one size, as the threads of client/test_rpc.c.
OneSize(u) == \A v \in Users : NameOf[v] = NameOf[u] => SizeOf[v] = SizeOf[u]

\* While a user works with its buffer, what it writes at local_addr is what
\* the router reads at remote_addr: both are mappings of one object.
Shared(u) == pc[u] = "use" => local[u] \in {remote[u], MapFailed}

\* A user with a name of its own shares its buffer with the router, whatever
\* other users do to their names (alloc_shm_mem and the client's shm_open).
SharedMapping == \A u \in Users : Own(u) => Shared(u)

\* Nobody works on the buffer of a user with a name of its own, although an
\* object is found again by a user that died and came back (the second
\* shm_open of alloc_shm_mem).
PrivateObjects ==
    \A u, v \in Users :
        Own(u) /\ u # v /\ pc[u] = "use" /\ pc[v] = "use" => remote[u] # remote[v]

\* The buffer of a user with a name of its own has at least the size it asked
\* for, in the router and in the client: no access inside the buffer is past
\* the end of the object (ftruncate in alloc_shm_mem).
EnoughMemory ==
    \A u \in Users : Own(u) /\ pc[u] = "use" =>
        \A o \in {remote[u], local[u]} \cap Objects : size[o] >= SizeOf[u]

\* The router's half of it holds for users of one name too, if they ask for
\* one size: no other user's ftruncate or unlink takes away the memory a
\* handler thread works on, which would fault in the process that serves all.
RouterMemoryBacked ==
    \A u \in Users : OneSize(u) /\ pc[u] = "use" =>
        remote[u] \in Objects /\ size[remote[u]] >= SizeOf[u]

\* free_shm_mem's shm_unlink finds its name: with a name of its own, a user
\* whose memory has been unmapped does not get an error for the name.
UnlinkFinds ==
    \A u \in Users : Own(u) /\ pc[u] \in {"munmap", "unlink"} => shm[ShmName(u)] # None

\* "Alloc shared memory with client" (shm.cpp:5), for every user.
AlwaysShared == \A u \in Users : Shared(u)
=============================================================================
