------------------------- MODULE LatencyTestProofs --------------------------
(***************************************************************************)
(* Proofs about LatencyTest, for any number of threads and sizes.  The     *)
(* argument is that all threads are always in one phase: the barrier lets  *)
(* them go only when it has all of them.                                   *)
(***************************************************************************)
EXTENDS LatencyTest, FiniteSetTheorems, TLAPS

(***************************************************************************)
(* The phases, each of which ends at a wait.                               *)
(***************************************************************************)
Starting == {"new", "absent", "alloc", "gone", "b1"}
Writing == {"key", "write", "b2"}
Reading == {"print_write", "read", "b3"}
Ending == {"print_read", "free", "done"}

In(phase) == \A t \in Threads : pc[t] \in phase

\* All threads are in one phase.
Together == In(Starting) \/ In(Writing) \/ In(Reading) \/ In(Ending)

\* The next thread that main creates is new, and the next one it joins exists.
MainInv ==
    /\ \A t \in Threads : t > created => pc[t] = "new"
    /\ running => joined < NrThreads

\* A test starts with the first size.
SizeInv == \A t \in Threads : pc[t] \notin {"write", "read"} => size[t] = 1

\* In the write test somebody has still to allocate the memory, or it is done;
\* after it, it is done.
KeyInv ==
    /\ In(Writing) => test_key # "unset" \/ \E t \in Threads : pc[t] = "key"
    /\ In(Reading) \/ In(Ending) => test_key # "unset"

\* A thread in the read test has results for the sizes it is through with.
ResultInv ==
    /\ \A t \in Threads, i \in Sizes :
          /\ pc[t] = "read" /\ i < size[t] => per_rps[<<i, t>>] = "read"
          /\ pc[t] = "b3" => per_rps[<<i, t>>] = "read"
    /\ In(Ending) => \A e \in Sizes \X Threads : per_rps[e] = "read"

LatencyInv ==
    /\ TypeOK
    /\ Together
    /\ waiting # Threads
    /\ MainInv
    /\ SizeInv
    /\ KeyInv
    /\ ResultInv

-----------------------------------------------------------------------------
\* The barrier is full exactly if all threads are in it.
LEMMA FullMeansAll ==
    ASSUME NEW S, S \subseteq Threads
    PROVE  Full(S) <=> S = Threads
  <1>1. IsFiniteSet(Threads) /\ Cardinality(Threads) = NrThreads
    BY ThreadsAssumption, FS_Interval DEF Threads
  <1>2. Cardinality(S) = Cardinality(Threads) => S = Threads
    BY <1>1, FS_Subset
  <1> QED  BY <1>1, <1>2 DEF Full

\* There is a thread, so no two phases are meant at the same time.
LEMMA OnePhase ==
    /\ 1 \in Threads
    /\ In(Writing) => ~In(Starting) /\ ~In(Reading) /\ ~In(Ending)
    /\ In(Reading) => ~In(Starting) /\ ~In(Ending)
    /\ In(Ending) => ~In(Starting)
  <1>1. 1 \in Threads
    BY ThreadsAssumption DEF Threads
  <1> QED  BY <1>1 DEF In, Starting, Writing, Reading, Ending

\* Initially all threads are new and the barrier is empty.
LEMMA InitLatency == Init => LatencyInv
  <1> SUFFICES ASSUME Init  PROVE LatencyInv
    OBVIOUS
  <1>1. 1 \in Threads /\ 1 \in Sizes
    BY ThreadsAssumption, SizesAssumption DEF Threads, Sizes
  <1>2. TypeOK
    BY <1>1, ThreadsAssumption DEF Init, TypeOK, Places
  <1>3. In(Starting)
    BY DEF Init, In, Starting
  <1>4. ~In(Writing) /\ ~In(Reading) /\ ~In(Ending)
    BY <1>3, OnePhase
  <1>5. MainInv /\ SizeInv /\ waiting # Threads
    BY <1>1, ThreadsAssumption DEF Init, MainInv, SizeInv
  <1>6. KeyInv /\ ResultInv
    BY <1>4 DEF Init, KeyInv, ResultInv
  <1> QED  BY <1>2, <1>3, <1>5, <1>6 DEF LatencyInv, Together

Phases == {Starting, Writing, Reading, Ending}

\* A step in which no thread leaves its phase.
Stays == \A P \in Phases, t \in Threads : pc[t] \in P => pc'[t] \in P

\* Then the phase of all threads is the one it was.
LEMMA PhaseKept ==
    ASSUME Together, Stays
    PROVE  Together' /\ \A P \in Phases : In(P)' <=> In(P)
  <1>1. 1 \in Threads
    BY ThreadsAssumption DEF Threads
  <1>2. \A P, Q \in Phases : P # Q => P \cap Q = {}
    BY DEF Phases, Starting, Writing, Reading, Ending
  <1>3. PICK P \in Phases : In(P)
    BY DEF Together, Phases
  <1>4. In(P)'
    BY <1>3 DEF In, Stays
  <1>5. \A Q \in Phases \ {P} : ~In(Q) /\ ~In(Q)'
    BY <1>1, <1>2, <1>3, <1>4 DEF In
  <1> QED  BY <1>3, <1>4, <1>5 DEF Together, Phases

\* A thread that stays in its phase, and does not wait.
LEMMA Moves ==
    ASSUME TypeOK, NEW t \in Threads, NEW place, GoTo(t, place),
           NEW P \in Phases, pc[t] \in P, place \in P
    PROVE  Stays
  <1>1. \A Q, R \in Phases : Q # R => Q \cap R = {}
    BY DEF Phases, Starting, Writing, Reading, Ending
  <1> QED  BY <1>1 DEF Stays, GoTo, TypeOK

\* pthread_create, whether it makes a thread or not.
LEMMA CreateStep == ASSUME LatencyInv, MainCreates  PROVE LatencyInv'
  <1> DEFINE t == created + 1
  <1>0. /\ t \in Threads /\ pc[t] = "new" /\ running /\ created \in Nat
    BY ThreadsAssumption DEF LatencyInv, TypeOK, MainInv, MainCreates, Threads
  <1>1. PICK place \in {"alloc", "absent"} : GoTo(t, place)
    BY DEF MainCreates
  <1>2. TypeOK'
    BY <1>0, <1>1, ThreadsAssumption DEF LatencyInv, TypeOK, MainCreates, GoTo, Places, Threads
  <1>3. Stays
    BY <1>0, <1>1, Moves DEF LatencyInv, Phases, Starting
  <1>4. Together' /\ \A P \in Phases : In(P)' <=> In(P)
    BY <1>3, PhaseKept DEF LatencyInv
  <1>5. \A u \in Threads :
           \/ pc'[u] = pc[u]
           \/ {pc[u], pc'[u]} \subseteq {"new", "alloc", "absent"}
    BY <1>0, <1>1 DEF LatencyInv, TypeOK, GoTo
  <1>6. MainInv' /\ SizeInv' /\ waiting' # Threads
    BY <1>0, <1>1, <1>5 DEF LatencyInv, MainInv, SizeInv, MainCreates, TypeOK, GoTo, Threads
  <1>7. KeyInv' /\ ResultInv'
    BY <1>4, <1>5 DEF LatencyInv, KeyInv, ResultInv, MainCreates, Phases
  <1> QED  BY <1>2, <1>4, <1>6, <1>7 DEF LatencyInv

\* pthread_join.
LEMMA JoinStep == ASSUME LatencyInv, MainJoins  PROVE LatencyInv'
  <1>1. joined + 1 \in Threads /\ joined < NrThreads
    BY ThreadsAssumption DEF LatencyInv, TypeOK, MainInv, MainJoins, Threads
  <1>2. running' \in BOOLEAN /\ (joined + 1 = NrThreads => ~running')
    BY DEF MainJoins
  <1>3. running' => joined' < NrThreads
    BY <1>1, <1>2, ThreadsAssumption DEF LatencyInv, TypeOK, MainJoins
  <1>4. TypeOK' /\ MainInv'
    BY <1>1, <1>2, <1>3, ThreadsAssumption DEF LatencyInv, TypeOK, MainInv, MainJoins, Threads
  <1>5. Stays
    BY DEF MainJoins, Stays
  <1>6. Together' /\ \A P \in Phases : In(P)' <=> In(P)
    BY <1>5, PhaseKept DEF LatencyInv
  <1> QED
    BY <1>4, <1>6 DEF LatencyInv, SizeInv, KeyInv, ResultInv, MainJoins, Phases

\* The steps of a thread that only take it on within its phase, away from the
\* places at which tests run, memory is allocated or results are printed.
LEMMA QuietStep ==
    ASSUME LatencyInv, NEW t \in Threads,
           AllocLocalMem(t) \/ PrintWrite(t) \/ PrintRead(t) \/ FreeLocalMem(t)
    PROVE  LatencyInv'
  <1>1. PICK P \in Phases, place \in Places : GoTo(t, place) /\ pc[t] \in P /\ place \in P
    BY DEF AllocLocalMem, PrintWrite, PrintRead, FreeLocalMem, At, Phases, Places,
           Starting, Writing, Reading, Ending
  <1>2. Together' /\ \A Q \in Phases : In(Q)' <=> In(Q)
    BY <1>1, Moves, PhaseKept DEF LatencyInv
  <1>3. UNCHANGED <<size, waiting, test_key, per_rps, created, joined, running>>
    BY DEF AllocLocalMem, PrintWrite, PrintRead, FreeLocalMem
  <1>4. /\ pc[t] \in {"alloc", "print_write", "print_read", "free"}
        /\ pc'[t] \in {"b1", "gone", "read", "free", "done"}
        /\ \A u \in Threads \ {t} : pc'[u] = pc[u]
        /\ pc' \in [Threads -> Places]
    BY DEF AllocLocalMem, PrintWrite, PrintRead, FreeLocalMem, At, GoTo, LatencyInv, TypeOK, Places
  <1>5. TypeOK' /\ MainInv' /\ SizeInv' /\ waiting' # Threads
    BY <1>3, <1>4 DEF LatencyInv, TypeOK, MainInv, SizeInv
  <1>6. KeyInv'
    BY <1>2, <1>3, <1>4 DEF LatencyInv, KeyInv, Phases
  <1>7. ResultInv'
    <2>1. pc'[t] = "read" => size[t] = 1
      BY <1>4 DEF LatencyInv, SizeInv
    <2>2. \A i \in Sizes : ~(i < 1)
      BY SizesAssumption DEF Sizes
    <2> QED  BY <1>2, <1>3, <1>4, <2>1, <2>2 DEF LatencyInv, ResultInv, Phases
  <1> QED  BY <1>2, <1>5, <1>6, <1>7 DEF LatencyInv

\* The end of the process keeps everything where it is.
LEMMA FaultStep == ASSUME LatencyInv, NEW t \in Threads, BufferFaults(t)  PROVE LatencyInv'
  <1>1. Together' /\ \A P \in Phases : In(P)' <=> In(P)
    BY PhaseKept DEF LatencyInv, BufferFaults, Stays
  <1>2. TypeOK' /\ MainInv'
    BY DEF LatencyInv, BufferFaults, TypeOK, MainInv
  <1> QED
    BY <1>1, <1>2 DEF LatencyInv, BufferFaults, SizeInv, KeyInv, ResultInv, Phases

\* The serial thread of the first wait has its duty behind it.
LEMMA AllocRemoteStep ==
    ASSUME LatencyInv, NEW t \in Threads, AllocRemoteMem(t)  PROVE LatencyInv'
  <1>1. GoTo(t, "write") /\ pc[t] = "key" /\ test_key' \in {"key", "error"}
    BY DEF AllocRemoteMem, At
  <1>2. Together' /\ \A P \in Phases : In(P)' <=> In(P)
    BY <1>1, Moves, PhaseKept DEF LatencyInv, Phases, Writing
  <1>3. pc' \in [Threads -> Places] /\ pc'[t] = "write" /\ \A u \in Threads \ {t} : pc'[u] = pc[u]
    BY <1>1 DEF GoTo, LatencyInv, TypeOK, Places
  <1>4. TypeOK' /\ MainInv' /\ SizeInv' /\ waiting' # Threads
    BY <1>1, <1>3 DEF LatencyInv, TypeOK, MainInv, SizeInv, AllocRemoteMem
  <1>5. KeyInv' /\ ResultInv'
    BY <1>1, <1>2, <1>3 DEF LatencyInv, KeyInv, ResultInv, AllocRemoteMem, Phases
  <1> QED  BY <1>2, <1>4, <1>5 DEF LatencyInv

\* A turn of a loop over the sizes.
LEMMA NextSizeFacts ==
    ASSUME LatencyInv, NEW t \in Threads, NEW end \in {"b2", "b3"}, NextSize(t, end)
    PROVE  /\ size' \in [Threads -> Sizes] /\ pc' \in [Threads -> Places]
           /\ \A u \in Threads \ {t} : pc'[u] = pc[u] /\ size'[u] = size[u]
           /\ \/ size'[t] = size[t] + 1 /\ pc'[t] = pc[t]
              \/ size[t] = NrSizes /\ size'[t] = 1 /\ pc'[t] = end
  BY SizesAssumption DEF LatencyInv, TypeOK, NextSize, GoTo, Places, Sizes

\* A test of one size in the write test: all threads are in that test.
LEMMA WriteStep == ASSUME LatencyInv, NEW t \in Threads, RdmaWrite(t)  PROVE LatencyInv'
  <1>1. /\ size' \in [Threads -> Sizes] /\ pc' \in [Threads -> Places] /\ pc[t] = "write"
        /\ \A u \in Threads \ {t} : pc'[u] = pc[u] /\ size'[u] = size[u]
        /\ pc'[t] = pc[t] \/ (size'[t] = 1 /\ pc'[t] = "b2")
    BY NextSizeFacts DEF RdmaWrite, At
  <1>2. Stays
    BY <1>1 DEF Stays, Phases, Starting, Writing, Reading, Ending
  <1>3. Together' /\ \A P \in Phases : In(P)' <=> In(P)
    BY <1>2, PhaseKept DEF LatencyInv
  <1>4. TypeOK'
    BY <1>1 DEF LatencyInv, TypeOK, RdmaWrite, Store
  <1>5. MainInv' /\ SizeInv' /\ waiting' # Threads
    BY <1>1 DEF LatencyInv, MainInv, SizeInv, RdmaWrite
  <1>6. In(Writing)
    BY <1>1 DEF LatencyInv, Together, In, Starting, Reading, Ending
  <1>7. ~In(Reading)' /\ ~In(Ending)' /\ \A u \in Threads : pc'[u] \in Writing
    BY <1>3, <1>6, OnePhase DEF Phases, In
  <1>8. KeyInv' /\ ResultInv'
    BY <1>1, <1>3, <1>6, <1>7 DEF LatencyInv, KeyInv, ResultInv, RdmaWrite, Writing
  <1> QED  BY <1>3, <1>4, <1>5, <1>8 DEF LatencyInv

\* A test of one size in the read test: one more result is there.
LEMMA ReadStep == ASSUME LatencyInv, NEW t \in Threads, RdmaRead(t)  PROVE LatencyInv'
  <1>1. /\ size' \in [Threads -> Sizes] /\ pc' \in [Threads -> Places] /\ pc[t] = "read"
        /\ \A u \in Threads \ {t} : pc'[u] = pc[u] /\ size'[u] = size[u]
        /\ \/ size'[t] = size[t] + 1 /\ pc'[t] = pc[t]
           \/ size[t] = NrSizes /\ size'[t] = 1 /\ pc'[t] = "b3"
    BY NextSizeFacts DEF RdmaRead, At
  <1>2. Stays
    BY <1>1 DEF Stays, Phases, Starting, Writing, Reading, Ending
  <1>3. Together' /\ \A P \in Phases : In(P)' <=> In(P)
    BY <1>2, PhaseKept DEF LatencyInv
  <1>4. TypeOK'
    BY <1>1 DEF LatencyInv, TypeOK, RdmaRead, Store
  <1>5. MainInv' /\ SizeInv' /\ waiting' # Threads
    BY <1>1 DEF LatencyInv, MainInv, SizeInv, RdmaRead
  <1>6. In(Reading)
    BY <1>1 DEF LatencyInv, Together, In, Starting, Writing, Ending
  <1>7. ~In(Ending)' /\ ~In(Writing)'
    BY <1>3, <1>6, OnePhase DEF Phases
  <1>8. KeyInv'
    BY <1>3, <1>6, <1>7 DEF LatencyInv, KeyInv, RdmaRead
  <1>9. /\ per_rps'[<<size[t], t>>] = "read"
        /\ \A e \in Sizes \X Threads : e # <<size[t], t>> => per_rps'[e] = per_rps[e]
    BY DEF LatencyInv, TypeOK, RdmaRead, Store
  <1>10. ASSUME NEW u \in Threads, NEW i \in Sizes
         PROVE  /\ pc'[u] = "read" /\ i < size'[u] => per_rps'[<<i, u>>] = "read"
                /\ pc'[u] = "b3" => per_rps'[<<i, u>>] = "read"
    <2>1. CASE u # t
      <3>1. <<i, u>> \in Sizes \X Threads /\ <<i, u>> # <<size[t], t>>
        BY <2>1
      <3> QED  BY <2>1, <3>1, <1>1, <1>9 DEF LatencyInv, ResultInv
    <2>2. CASE u = t
      <3>1. i \in Nat /\ size[t] \in Nat /\ i <= NrSizes /\ size[t] <= NrSizes /\ NrSizes \in Nat
        BY SizesAssumption DEF LatencyInv, TypeOK, Sizes
      <3>2. (pc'[t] = "read" /\ i < size'[t]) \/ pc'[t] = "b3" => i <= size[t]
        BY <3>1, <1>1
      <3>3. i < size[t] => per_rps[<<i, t>>] = "read"
        BY <1>1 DEF LatencyInv, ResultInv
      <3>4. i < size[t] => <<i, t>> # <<size[t], t>> /\ <<i, t>> \in Sizes \X Threads
        BY <3>1
      <3> QED  BY <2>2, <3>1, <3>2, <3>3, <3>4, <1>9
    <2> QED  BY <2>1, <2>2
  <1>11. ResultInv'
    BY <1>7, <1>10 DEF ResultInv
  <1> QED  BY <1>3, <1>4, <1>5, <1>8, <1>11 DEF LatencyInv

\* A thread that comes to a wait before the last one stays there.
LEMMA ArriveEarly ==
    ASSUME LatencyInv, NEW t \in Threads, Arrive(t), ~Full(waiting \cup {t})
    PROVE  LatencyInv'
  <1>1. /\ pc' = pc /\ waiting' = waiting \cup {t} /\ pc[t] \in {"b1", "b2", "b3"}
        /\ UNCHANGED <<size, test_key, per_rps, created, joined, running>>
    BY DEF Arrive
  <1>2. waiting' # Threads
    BY <1>1, FullMeansAll DEF LatencyInv, TypeOK
  <1>3. Together' /\ \A P \in Phases : In(P)' <=> In(P)
    BY <1>1, PhaseKept DEF LatencyInv, Stays
  <1>4. TypeOK' /\ MainInv' /\ SizeInv'
    BY <1>1 DEF LatencyInv, TypeOK, MainInv, SizeInv
  <1>5. KeyInv' /\ ResultInv'
    BY <1>1, <1>3 DEF LatencyInv, KeyInv, ResultInv, Phases
  <1> QED  BY <1>2, <1>3, <1>4, <1>5 DEF LatencyInv

\* The last thread to come to a wait finds all others at the same one, and all
\* go on to the next phase.
LEMMA ArriveLast ==
    ASSUME LatencyInv, NEW t \in Threads, Arrive(t), Full(waiting \cup {t})
    PROVE  LatencyInv'
  <1>1. waiting \cup {t} = Threads
    BY FullMeansAll DEF LatencyInv, TypeOK
  <1>2. PICK s \in Threads : pc' = [u \in Threads |-> AfterWait(pc[u], u = s)]
    BY <1>1 DEF Arrive
  <1>3. waiting' = {} /\ UNCHANGED <<size, test_key, per_rps, created, joined, running>>
    BY DEF Arrive
  <1>4. \A u \in Threads : pc[u] \in {"b1", "b2", "b3"}
    BY <1>1 DEF LatencyInv, TypeOK, Arrive
  <1>5. waiting' # Threads
    BY <1>3
  <1>6. \A u \in Threads : size[u] = 1
    BY <1>4 DEF LatencyInv, SizeInv
  <1>7. \A u \in Threads, i \in Sizes : ~(i < size[u])
    BY <1>6, SizesAssumption DEF Sizes
  <1>8. /\ \A u \in Threads : ~(u > created)
        /\ MainInv'
    <2>1. \A u \in Threads : ~(u > created)
      BY <1>4 DEF LatencyInv, MainInv
    <2> QED  BY <1>3, <2>1 DEF LatencyInv, MainInv
  <1>9. CASE \A u \in Threads : pc[u] = "b1"
    <2>1. pc'[s] = "key" /\ \A u \in Threads \ {s} : pc'[u] = "write"
      BY <1>2, <1>9 DEF AfterWait
    <2>2. In(Writing)' /\ ~In(Reading)' /\ ~In(Ending)'
      BY <2>1 DEF In, Writing, Reading, Ending
    <2>3. TypeOK'
      BY <1>2, <1>3, <2>1 DEF LatencyInv, TypeOK, Places
    <2>4. KeyInv' /\ ResultInv' /\ SizeInv'
      BY <1>3, <1>6, <2>1, <2>2 DEF KeyInv, ResultInv, SizeInv
    <2> QED  BY <1>5, <1>8, <2>2, <2>3, <2>4 DEF LatencyInv, Together
  <1>10. CASE \A u \in Threads : pc[u] = "b2"
    <2>1. pc'[s] = "print_write" /\ \A u \in Threads \ {s} : pc'[u] = "read"
      BY <1>2, <1>10 DEF AfterWait
    <2>2. In(Reading)' /\ ~In(Writing)' /\ ~In(Ending)'
      BY <2>1 DEF In, Writing, Reading, Ending
    <2>3. TypeOK'
      BY <1>2, <1>3, <2>1 DEF LatencyInv, TypeOK, Places
    <2>4. test_key # "unset"
      BY <1>10 DEF LatencyInv, KeyInv, In, Writing
    <2>5. KeyInv' /\ ResultInv' /\ SizeInv'
      BY <1>3, <1>6, <1>7, <2>1, <2>2, <2>4 DEF KeyInv, ResultInv, SizeInv
    <2> QED  BY <1>5, <1>8, <2>2, <2>3, <2>5 DEF LatencyInv, Together
  <1>11. CASE \A u \in Threads : pc[u] = "b3"
    <2>1. pc'[s] = "print_read" /\ \A u \in Threads \ {s} : pc'[u] = "free"
      BY <1>2, <1>11 DEF AfterWait
    <2>2. In(Ending)' /\ ~In(Writing)'
      BY <2>1 DEF In, Writing, Ending
    <2>3. TypeOK'
      BY <1>2, <1>3, <2>1 DEF LatencyInv, TypeOK, Places
    <2>4. test_key # "unset"
      BY <1>11 DEF LatencyInv, KeyInv, In, Reading
    <2>5. \A e \in Sizes \X Threads : per_rps[e] = "read"
      BY <1>11 DEF LatencyInv, ResultInv
    <2>6. KeyInv' /\ ResultInv' /\ SizeInv'
      BY <1>3, <1>6, <2>1, <2>2, <2>4, <2>5 DEF KeyInv, ResultInv, SizeInv
    <2> QED  BY <1>5, <1>8, <2>2, <2>3, <2>6 DEF LatencyInv, Together
  <1>12. (\A u \in Threads : pc[u] = "b1") \/ (\A u \in Threads : pc[u] = "b2")
            \/ (\A u \in Threads : pc[u] = "b3")
    BY <1>4 DEF LatencyInv, Together, In, Starting, Writing, Reading, Ending
  <1> QED  BY <1>9, <1>10, <1>11, <1>12

\* Every step of the process keeps the invariant.
LEMMA LatencyStep == LatencyInv /\ [Next]_vars => LatencyInv'
  <1> SUFFICES ASSUME LatencyInv, [Next]_vars  PROVE LatencyInv'
    OBVIOUS
  <1>1. ASSUME NEW t \in Threads, Arrive(t)  PROVE LatencyInv'
    BY <1>1, ArriveEarly, ArriveLast
  <1>2. CASE UNCHANGED vars
    BY <1>2 DEF vars, LatencyInv, TypeOK, Together, In, MainInv, SizeInv, KeyInv, ResultInv
  <1> QED
    BY <1>1, <1>2, CreateStep, JoinStep, QuietStep, FaultStep, AllocRemoteStep, WriteStep,
       ReadStep DEF Next

\* The inductive invariant: all threads of rdma_write_read are in one phase, with
\* what each phase has behind it.
THEOREM LatencyInvariant == Spec => []LatencyInv
  BY InitLatency, LatencyStep, PTL DEF Spec

-----------------------------------------------------------------------------
\* Every variable of test_latency.c keeps its type, and the threads blocked in
\* pthread_barrier_wait are at a wait.
THEOREM LatencyTypes == Spec => []TypeOK
  <1>1. LatencyInv => TypeOK
    BY DEF LatencyInv
  <1> QED  BY <1>1, LatencyInvariant, PTL

\* The write test and the read test of rdma_write_read never overlap, for any
\* number of threads and whichever thread of a wait is the serial one.
THEOREM LatencyPhasesApart == Spec => []PhasesApart
  <1>1. LatencyInv => PhasesApart
    BY DEF LatencyInv, Together, In, PhasesApart, Starting, Writing, Reading, Ending
  <1> QED  BY <1>1, LatencyInvariant, PTL

\* No thread reads remote memory before the serial thread has stored the key
\* that alloc_remote_mem has returned.
THEOREM LatencyReadsUseKey == Spec => []ReadsUseKey
  <1>1. LatencyInv => ReadsUseKey
    BY DEF LatencyInv, Together, In, KeyInv, ReadsUseKey, Starting, Writing, Reading, Ending
  <1> QED  BY <1>1, LatencyInvariant, PTL

\* When the read test is reported, every entry of per_rps was measured in it.
THEOREM LatencyReadReport == Spec => []ReadReport
  <1>1. LatencyInv => ReadReport
    BY DEF LatencyInv, Together, In, ResultInv, ReadReport, Starting, Writing, Reading, Ending
  <1> QED  BY <1>1, LatencyInvariant, PTL

\* The barrier blocks for ever only if main could not create a thread or a
\* thread has left before the first wait.
THEOREM LatencyStuckOnlyAfterLoss == Spec => []StuckOnlyAfterLoss
  <1>1. LatencyInv => StuckOnlyAfterLoss
    <2> SUFFICES ASSUME LatencyInv,
                        \A t \in Threads : t \in waiting \/ pc[t] \in {"gone", "absent", "done"},
                        waiting # {}, ~\E t \in Threads : pc[t] \in {"gone", "absent"}
                 PROVE  FALSE
      BY DEF StuckOnlyAfterLoss
    <2>1. PICK t \in Threads : t \in waiting /\ pc[t] \in {"b1", "b2", "b3"}
      BY DEF LatencyInv, TypeOK
    <2>2. \A u \in Threads : pc[u] # "done"
      BY <2>1 DEF LatencyInv, Together, In, Starting, Writing, Reading, Ending
    <2>3. \A u \in Threads : u \in waiting
      BY <2>2
    <2> QED  BY <2>3 DEF LatencyInv, TypeOK
  <1> QED  BY <1>1, LatencyInvariant, PTL
=============================================================================
