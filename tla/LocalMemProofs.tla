--------------------------- MODULE LocalMemProofs ---------------------------
(***************************************************************************)
(* Proofs about LocalMem, for any number of users: the buffer of a user    *)
(* with a name of its own is one object, nobody else's, large enough and   *)
(* still named; and the router's memory is backed for users of one name    *)
(* that ask for one size.                                                  *)
(***************************************************************************)
EXTENDS LocalMem, TLAPS

\* The object that user u's name stands for.
Mine(u) == shm[ShmName(u)]

\* Between shm_open and shm_unlink the user's name stands for the object that
\* the router's descriptor, the router's mapping and the client's mapping
\* refer to, and from ftruncate on it has the user's size.
UserInv(u) ==
    /\ pc[u] \in {"ftruncate", "mmap", "client_open", "client_mmap", "use", "munmap", "unlink"}
          => Mine(u) \in Objects
    /\ pc[u] \in {"ftruncate", "mmap", "client_mmap"} => fd[u] = Mine(u)
    /\ pc[u] \in {"client_open", "client_mmap", "use", "munmap"} => remote[u] = Mine(u)
    /\ pc[u] \in {"mmap", "client_open", "client_mmap", "use"} => size[Mine(u)] = SizeOf[u]
    /\ pc[u] = "use" => local[u] \in {Mine(u), MapFailed}

\* No object has two names.
OneName == \A m, n \in Names : shm[m] = shm[n] /\ shm[m] # None => m = n

\* A call of user u has object o open, or the router has it mapped for u.
Holds(u, o) == fd[u] = o \/ remote[u] = o

\* An object that users hold was opened by all of them under one name; if it
\* still has a name, under that one.  An object without a name is found by
\* nobody, and one that is held is not created anew.
HeldByName ==
    \A u \in Users, o \in Objects : Holds(u, o) =>
        /\ \A n \in Names : shm[n] = o => n = ShmName(u)
        /\ \A v \in Users : Holds(v, o) => ShmName(v) = ShmName(u)

\* What the handler of user u has open or mapped, and, if users of its name
\* ask for one size, how long it is.
RouterInv(u) ==
    /\ pc[u] \in {"ftruncate", "mmap"} => fd[u] \in Objects
    /\ pc[u] \in {"client_open", "client_mmap", "use"} => remote[u] \in Objects
    /\ OneSize(u) =>
          /\ pc[u] = "mmap" => size[fd[u]] = SizeOf[u]
          /\ pc[u] \in {"client_open", "client_mmap", "use"} => size[remote[u]] = SizeOf[u]

MemInv ==
    /\ TypeOK
    /\ OneName
    /\ HeldByName
    /\ \A u \in Users : RouterInv(u)
    /\ \A u \in Users : Own(u) => UserInv(u)

\* A request carries a name of the namespace.
LEMMA NamesOfUsers == \A u \in Users : ShmName(u) \in Names
  BY MemAssumption DEF ShmName

\* Initially nobody has a buffer and no name is taken.
LEMMA InitMem == Init => MemInv
  BY MemAssumption, NamesOfUsers
     DEF Init, MemInv, TypeOK, OneName, HeldByName, Holds, RouterInv, UserInv, Mine

\* Every step of a user keeps the state well typed.
LEMMA StepTypes == ASSUME MemInv, NEW u \in Users, UserStep(u)  PROVE TypeOK'
  <1> USE MemAssumption, NamesOfUsers DEF MemInv, Goto, Fail, Forget
  <1>1. CASE AllocLocalMem(u)
    BY <1>1 DEF AllocLocalMem, TypeOK
  <1>2. CASE OpenExclusive(u)
    BY <1>2 DEF OpenExclusive, TypeOK
  <1>3. CASE OpenExisting(u)
    BY <1>3 DEF OpenExisting, TypeOK
  <1>4. CASE Ftruncate(u)
    BY <1>4 DEF Ftruncate, NewLength, TypeOK
  <1>5. CASE RouterMmap(u)
    BY <1>5 DEF RouterMmap, TypeOK
  <1>6. CASE ClientOpen(u)
    BY <1>6 DEF ClientOpen, TypeOK
  <1>7. CASE ClientMmap(u)
    BY <1>7 DEF ClientMmap, TypeOK
  <1>8. CASE FreeLocalMem(u)
    BY <1>8 DEF FreeLocalMem, TypeOK
  <1>9. CASE Munmap(u)
    BY <1>9 DEF Munmap, TypeOK
  <1>10. CASE Unlink(u)
    BY <1>10 DEF Unlink, TypeOK
  <1>11. CASE ClientDies(u)
    BY <1>11 DEF ClientDies, TypeOK
  <1> QED
    BY <1>1, <1>2, <1>3, <1>4, <1>5, <1>6, <1>7, <1>8, <1>9, <1>10, <1>11 DEF UserStep

\* A name is given to an object that has none (O_EXCL, and the object is new).
LEMMA StepOneName == ASSUME MemInv, NEW u \in Users, UserStep(u)  PROVE OneName'
  <1> USE NamesOfUsers DEF MemInv
  <1>1. CASE OpenExclusive(u)
    BY <1>1 DEF OpenExclusive, OneName, InUse, TypeOK
  <1>2. CASE Unlink(u)
    BY <1>2 DEF Unlink, OneName, TypeOK
  <1>3. CASE UNCHANGED shm
    BY <1>3 DEF OneName
  <1> QED
    BY <1>1, <1>2, <1>3 DEF UserStep, AllocLocalMem, OpenExisting, Ftruncate, RouterMmap,
        ClientOpen, ClientMmap, FreeLocalMem, Munmap, ClientDies

\* An object is opened under the name it has, and held by nobody when it is
\* created.
LEMMA StepHeld == ASSUME MemInv, NEW u \in Users, UserStep(u)  PROVE HeldByName'
  <1> USE MemAssumption, NamesOfUsers DEF MemInv, TypeOK, HeldByName, Holds, ShmName
  <1>1. CASE OpenExclusive(u)
    BY <1>1 DEF OpenExclusive, Goto, InUse
  <1>2. CASE OpenExisting(u)
    BY <1>2 DEF OpenExisting, Fail, OneName
  <1>3. CASE ClientOpen(u)
    BY <1>3 DEF ClientOpen, Fail, Forget, OneName
  <1>4. CASE RouterMmap(u)
    BY <1>4 DEF RouterMmap, Fail
  <1>5. CASE Ftruncate(u)
    BY <1>5 DEF Ftruncate, Fail
  <1>6. CASE ClientMmap(u)
    BY <1>6 DEF ClientMmap
  <1>7. CASE Munmap(u)
    BY <1>7 DEF Munmap
  <1>8. CASE Unlink(u)
    BY <1>8 DEF Unlink
  <1>9. CASE ClientDies(u)
    BY <1>9 DEF ClientDies, Fail, Forget
  <1>10. CASE AllocLocalMem(u) \/ FreeLocalMem(u)
    BY <1>10 DEF AllocLocalMem, FreeLocalMem
  <1> QED
    BY <1>1, <1>2, <1>3, <1>4, <1>5, <1>6, <1>7, <1>8, <1>9, <1>10 DEF UserStep

\* A step changes the length of an object only by creating it, while nobody
\* refers to it, or by an ftruncate to the size a holder of it asks for.
LEMMA StepLength ==
    ASSUME MemInv, NEW u \in Users, UserStep(u), NEW o \in Objects,
           o \in InUse, size'[o] # size[o]
    PROVE  Ftruncate(u) /\ fd[u] = o /\ size'[o] = SizeOf[u]
  <1>1. CASE OpenExclusive(u)
    BY <1>1 DEF OpenExclusive, MemInv, TypeOK
  <1>2. CASE Ftruncate(u)
    BY <1>2 DEF Ftruncate, NewLength, MemInv, TypeOK
  <1>3. CASE UNCHANGED size
    BY <1>3
  <1> QED
    BY <1>1, <1>2, <1>3 DEF UserStep, AllocLocalMem, OpenExisting, RouterMmap,
        ClientOpen, ClientMmap, FreeLocalMem, Munmap, Unlink, ClientDies

\* The acting user leaves everybody else's variables alone.
LEMMA StepLocal ==
    ASSUME MemInv, NEW u \in Users, UserStep(u), NEW v \in Users \ {u}
    PROVE  pc'[v] = pc[v] /\ fd'[v] = fd[v] /\ remote'[v] = remote[v] /\ local'[v] = local[v]
  BY DEF UserStep, AllocLocalMem, OpenExclusive, OpenExisting, Ftruncate, RouterMmap,
      ClientOpen, ClientMmap, FreeLocalMem, Munmap, Unlink, ClientDies, Goto, Fail, Forget,
      MemInv, TypeOK

\* What a handler relies on, for its own steps and for those of others.
LEMMA StepRouter ==
    ASSUME MemInv, NEW u \in Users, UserStep(u), NEW v \in Users  PROVE RouterInv(v)'
  <1> USE MemAssumption, NamesOfUsers DEF MemInv
  <1>1. CASE v = u
    <2> USE <1>1 DEF TypeOK, RouterInv, Goto, Fail
    <2>1. CASE OpenExclusive(u)
      BY <2>1 DEF OpenExclusive
    <2>2. CASE OpenExisting(u)
      BY <2>2 DEF OpenExisting
    <2>3. CASE Ftruncate(u)
      BY <2>3 DEF Ftruncate, NewLength, OneSize
    <2>4. CASE RouterMmap(u)
      BY <2>4 DEF RouterMmap, OneSize
    <2>5. CASE ClientOpen(u)
      BY <2>5 DEF ClientOpen, Forget, OneSize
    <2>6. CASE ClientMmap(u)
      BY <2>6 DEF ClientMmap, OneSize
    <2>7. CASE AllocLocalMem(u) \/ FreeLocalMem(u) \/ Munmap(u) \/ Unlink(u) \/ ClientDies(u)
      BY <2>7 DEF AllocLocalMem, FreeLocalMem, Munmap, Unlink, ClientDies, Forget
    <2> QED
      BY <2>1, <2>2, <2>3, <2>4, <2>5, <2>6, <2>7 DEF UserStep
  <1>2. CASE v # u
    <2>1. pc'[v] = pc[v] /\ fd'[v] = fd[v] /\ remote'[v] = remote[v]
      BY <1>2, StepLocal
    <2>2. ASSUME NEW o \in Objects, Holds(v, o), OneSize(v), size[o] = SizeOf[v]
          PROVE  size'[o] = SizeOf[v]
      <3>1. o \in InUse
        BY <2>2 DEF Holds, InUse
      <3>2. CASE size'[o] # size[o]
        <4>1. fd[u] = o /\ size'[o] = SizeOf[u]
          BY <3>1, <3>2, StepLength
        <4>2. NameOf[u] = NameOf[v]
          BY <4>1, <2>2 DEF HeldByName, Holds, ShmName
        <4> QED
          BY <4>1, <4>2, <2>2 DEF OneSize
      <3> QED
        BY <3>2, <2>2
    <2>3. OneSize(v)' <=> OneSize(v)
      BY DEF OneSize
    <2> QED
      BY <2>1, <2>2, <2>3 DEF RouterInv, Holds
  <1> QED
    BY <1>1, <1>2

\* A user's own step keeps its buffer in one object.
LEMMA StepOwn == ASSUME MemInv, NEW u \in Users, Own(u), UserStep(u)  PROVE UserInv(u)'
  <1> USE MemAssumption, NamesOfUsers DEF MemInv, Goto, Fail, TypeOK, UserInv, Mine, ShmName
  <1>1. CASE AllocLocalMem(u)
    BY <1>1 DEF AllocLocalMem
  <1>2. CASE OpenExclusive(u)
    BY <1>2 DEF OpenExclusive
  <1>3. CASE OpenExisting(u)
    BY <1>3 DEF OpenExisting
  <1>4. CASE Ftruncate(u)
    BY <1>4 DEF Ftruncate, NewLength
  <1>5. CASE RouterMmap(u)
    BY <1>5 DEF RouterMmap
  <1>6. CASE ClientOpen(u)
    BY <1>6 DEF ClientOpen, Forget
  <1>7. CASE ClientMmap(u)
    BY <1>7 DEF ClientMmap
  <1>8. CASE FreeLocalMem(u)
    BY <1>8 DEF FreeLocalMem
  <1>9. CASE Munmap(u)
    BY <1>9 DEF Munmap
  <1>10. CASE Unlink(u)
    BY <1>10 DEF Unlink
  <1>11. CASE ClientDies(u)
    BY <1>11 DEF ClientDies, Forget
  <1> QED
    BY <1>1, <1>2, <1>3, <1>4, <1>5, <1>6, <1>7, <1>8, <1>9, <1>10, <1>11 DEF UserStep

\* A step of another user leaves what a user with a name of its own relies on:
\* its name, and the length of the object behind it.
LEMMA StepOther ==
    ASSUME MemInv, NEW u \in Users, UserStep(u), NEW v \in Users \ {u}, Own(v)
    PROVE  UserInv(v)'
  <1> USE MemAssumption, NamesOfUsers DEF MemInv
  <1>1. ShmName(u) # ShmName(v) /\ ShmName(v) \in Names
    BY DEF Own, ShmName
  <1>2. Mine(v)' = Mine(v)
    BY <1>1 DEF Mine, UserStep, AllocLocalMem, OpenExclusive, OpenExisting, Ftruncate, RouterMmap,
        ClientOpen, ClientMmap, FreeLocalMem, Munmap, Unlink, ClientDies, TypeOK, ShmName
  <1>3. pc'[v] = pc[v] /\ fd'[v] = fd[v] /\ remote'[v] = remote[v] /\ local'[v] = local[v]
    BY StepLocal
  <1>4. ASSUME Mine(v) \in Objects  PROVE size'[Mine(v)] = size[Mine(v)]
    <2>1. Mine(v) \in InUse
      BY <1>1 DEF InUse, Mine
    <2>2. fd[u] # Mine(v)
      BY <1>1, <1>4 DEF HeldByName, Holds, Mine
    <2> QED
      BY <2>1, <2>2, <1>4, StepLength
  <1> QED
    BY <1>2, <1>3, <1>4 DEF UserInv

\* The inductive invariant, for any number of users and any names.
THEOREM MemInvHolds == Spec => []MemInv
  <1>1. ASSUME MemInv, [Next]_memVars  PROVE MemInv'
    <2>1. CASE UNCHANGED memVars
      BY <1>1, <2>1 DEF memVars, MemInv, TypeOK, OneName, HeldByName, Holds, RouterInv, OneSize,
          Own, UserInv, Mine, ShmName
    <2>2. ASSUME NEW u \in Users, UserStep(u)  PROVE MemInv'
      <3>1. ASSUME NEW v \in Users, Own(v)'  PROVE UserInv(v)'
        <4>1. Own(v)
          BY <3>1 DEF Own
        <4> QED
          BY <1>1, <2>2, <4>1, StepOwn, StepOther
      <3> QED
        BY <1>1, <2>2, <3>1, StepTypes, StepOneName, StepHeld, StepRouter DEF MemInv
    <2> QED
      BY <1>1, <2>1, <2>2 DEF Next
  <1> QED
    BY <1>1, InitMem, PTL DEF Spec

\* Every variable keeps its type; the router has at most as many descriptors
\* open as it may, although alloc_shm_mem closes none.
THEOREM MemTypes == Spec => []TypeOK
  <1>1. MemInv => TypeOK
    BY DEF MemInv
  <1> QED
    BY <1>1, MemInvHolds, PTL

\* What a client with a name of its own writes at local_addr is what the
\* router reads at remote_addr (alloc_shm_mem and the client's shm_open).
THEOREM MappingsAreShared == Spec => []SharedMapping
  <1>1. MemInv => SharedMapping
    BY DEF MemInv, UserInv, SharedMapping, Shared
  <1> QED
    BY <1>1, MemInvHolds, PTL

\* Nobody works on the buffer of a client with a name of its own.
THEOREM ObjectsArePrivate == Spec => []PrivateObjects
  <1>1. MemInv => PrivateObjects
    BY DEF MemInv, HeldByName, Holds, RouterInv, Own, ShmName, PrivateObjects
  <1> QED
    BY <1>1, MemInvHolds, PTL

\* A buffer in use is backed to the size its user asked for, however the
\* ftruncate calls of the router's handlers interleave.
THEOREM MemoryIsEnough == Spec => []EnoughMemory
  <1>1. MemInv => EnoughMemory
    BY MemAssumption DEF MemInv, UserInv, EnoughMemory, TypeOK
  <1> QED
    BY <1>1, MemInvHolds, PTL

\* Users of one name that ask for one size cannot take away the memory a
\* handler of the router works on, by ftruncate or by shm_unlink.
THEOREM RouterMemoryIsBacked == Spec => []RouterMemoryBacked
  <1>1. MemInv => RouterMemoryBacked
    BY MemAssumption DEF MemInv, RouterInv, RouterMemoryBacked
  <1> QED
    BY <1>1, MemInvHolds, PTL

\* free_shm_mem never fails at shm_unlink.
THEOREM NameIsThere == Spec => []UnlinkFinds
  <1>1. MemInv => UnlinkFinds
    BY MemAssumption DEF MemInv, UserInv, Mine, UnlinkFinds
  <1> QED
    BY <1>1, MemInvHolds, PTL
=============================================================================
