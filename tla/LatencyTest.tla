---------------------------- MODULE LatencyTest ----------------------------
(***************************************************************************)
(* The threads of client/test_latency.c.  main starts nr_threads threads;  *)
(* each allocates its buffer, and three waits at one barrier split what    *)
(* follows into the write test, the read test and the end.  At each wait   *)
(* one thread, the serial one, has a duty the others do not wait for:      *)
(* to allocate the remote memory all of them use, and to print the         *)
(* results all of them store in per_rps.                                   *)
(*                                                                         *)
(* The million operations of one size are one step: they read test_key and *)
(* the thread stores one number after them.  A result is the name of the   *)
(* test it was measured in.  Calls of the client library return; what they *)
(* go through is module RpcChannel.                                        *)
(***************************************************************************)
EXTENDS Naturals, FiniteSets

CONSTANTS NrThreads,  \* nr_threads
          NrSizes     \* ARRAY_SIZE(testsize)

ASSUME ThreadsAssumption == NrThreads \in Nat \ {0}
ASSUME SizesAssumption == NrSizes \in Nat \ {0}

Threads == 1 .. NrThreads
Sizes == 1 .. NrSizes

VARIABLES pc,        \* where each thread is in rdma_write_read
          size,      \* i, the index into testsize
          waiting,   \* the threads blocked in pthread_barrier_wait
          test_key,  \* the key of the remote memory
          per_rps,   \* the results, by size and thread
          created,   \* the i of main's pthread_create loop
          joined,    \* the i of main's pthread_join loop
          running    \* the process is there

vars == <<pc, size, waiting, test_key, per_rps, created, joined, running>>

(***************************************************************************)
(* The places of a thread.  "b1", "b2" and "b3" are the three waits;       *)
(* "gone" has left before them, "absent" could not be created.             *)
(***************************************************************************)
Places == {"new", "absent", "alloc", "gone", "b1", "key", "write", "b2",
           "print_write", "read", "b3", "print_read", "free", "done"}

TypeOK ==
    /\ pc \in [Threads -> Places]
    /\ size \in [Threads -> Sizes]
    /\ waiting \subseteq {t \in Threads : pc[t] \in {"b1", "b2", "b3"}}
    /\ test_key \in {"unset", "key", "error"}
    /\ per_rps \in [Sizes \X Threads -> {"unset", "write", "read"}]
    /\ created \in 0 .. NrThreads
    /\ joined \in 0 .. created
    /\ running \in BOOLEAN

Init ==
    /\ pc = [t \in Threads |-> "new"]
    /\ size = [t \in Threads |-> 1]
    /\ waiting = {}
    /\ test_key = "unset"
    /\ per_rps = [e \in Sizes \X Threads |-> "unset"]
    /\ created = 0
    /\ joined = 0
    /\ running = TRUE

At(t, place) == running /\ pc[t] = place

GoTo(t, place) == pc' = [pc EXCEPT ![t] = place]

-----------------------------------------------------------------------------
(* main.  The result of pthread_create is not looked at.                   *)
MainCreates ==
    /\ running /\ created < NrThreads
    /\ created' = created + 1
    /\ \E place \in {"alloc", "absent"} : GoTo(created + 1, place)
    /\ UNCHANGED <<size, waiting, test_key, per_rps, joined, running>>

(* The handle of a thread that was not created is not initialised: the     *)
(* join returns or the process is ended by a fault.                        *)
MainJoins ==
    /\ running /\ created = NrThreads
    /\ pc[joined + 1] \in {"done", "gone", "absent"}
    /\ joined' = joined + 1
    /\ running' \in IF joined + 1 = NrThreads THEN {FALSE}
                    ELSE IF pc[joined + 1] = "absent" THEN BOOLEAN ELSE {TRUE}
    /\ UNCHANGED <<pc, size, waiting, test_key, per_rps, created>>

-----------------------------------------------------------------------------
(* A thread whose allocation fails leaves, and no one comes to the barrier *)
(* in its place.                                                           *)
AllocLocalMem(t) ==
    /\ At(t, "alloc")
    /\ \E place \in {"b1", "gone"} : GoTo(t, place)
    /\ UNCHANGED <<size, waiting, test_key, per_rps, created, joined, running>>

(* The library reports a failing mmap as success: memset then faults.      *)
BufferFaults(t) ==
    /\ At(t, "alloc")
    /\ running' = FALSE
    /\ UNCHANGED <<pc, size, waiting, test_key, per_rps, created, joined>>

(* The duty of the serial thread after each wait, and what the others do.  *)
AfterWait(place, serial) ==
    CASE place = "b1" -> IF serial THEN "key" ELSE "write"
      [] place = "b2" -> IF serial THEN "print_write" ELSE "read"
      [] place = "b3" -> IF serial THEN "print_read" ELSE "free"

\* Mutants: the barrier is initialised with a count one too small, one too large.
FullOneEarly(threads) == Cardinality(threads) + 1 >= NrThreads
FullOneLate(threads) == Cardinality(threads) = NrThreads + 1

(* The count pthread_barrier_init was given has arrived.                   *)
Full(threads) == Cardinality(threads) = NrThreads

(* pthread_barrier_wait: the thread that completes the count releases all, *)
(* and any one of them may be the serial thread.                           *)
Arrive(t) ==
    /\ pc[t] \in {"b1", "b2", "b3"} /\ t \notin waiting
    /\ running
    /\ LET all == waiting \cup {t} IN
       IF Full(all)
       THEN /\ waiting' = {}
            /\ \E s \in all :
                 pc' = [u \in Threads |->
                          IF u \in all THEN AfterWait(pc[u], u = s) ELSE pc[u]]
       ELSE waiting' = all /\ pc' = pc
    /\ UNCHANGED <<size, test_key, per_rps, created, joined, running>>

-----------------------------------------------------------------------------
(* The serial thread: its result may be an error code, and is not checked. *)
AllocRemoteMem(t) ==
    /\ At(t, "key")
    /\ test_key' \in {"key", "error"}
    /\ GoTo(t, "write")
    /\ UNCHANGED <<size, waiting, per_rps, created, joined, running>>

\* Mutant: i <= ARRAY_SIZE(testsize).
NextSizeOneMore(t, end) ==
    IF size[t] <= NrSizes
    THEN size' = [size EXCEPT ![t] = @ + 1] /\ pc' = pc
    ELSE size' = [size EXCEPT ![t] = 1] /\ GoTo(t, end)

(* The next turn of a loop over testsize, which ends in a wait.            *)
NextSize(t, end) ==
    IF size[t] < NrSizes
    THEN size' = [size EXCEPT ![t] = @ + 1] /\ pc' = pc
    ELSE size' = [size EXCEPT ![t] = 1] /\ GoTo(t, end)

Store(t, result) == per_rps' = [per_rps EXCEPT ![<<size[t], t>>] = result]

RdmaWrite(t) ==
    /\ At(t, "write")
    /\ Store(t, "write") /\ NextSize(t, "b2")
    /\ UNCHANGED <<waiting, test_key, created, joined, running>>

RdmaRead(t) ==
    /\ At(t, "read")
    /\ Store(t, "read") /\ NextSize(t, "b3")
    /\ UNCHANGED <<waiting, test_key, created, joined, running>>

(* print_rps sums up all of per_rps, under the name of the test.           *)
PrintWrite(t) ==
    /\ At(t, "print_write") /\ GoTo(t, "read")
    /\ UNCHANGED <<size, waiting, test_key, per_rps, created, joined, running>>

PrintRead(t) ==
    /\ At(t, "print_read") /\ GoTo(t, "free")
    /\ UNCHANGED <<size, waiting, test_key, per_rps, created, joined, running>>

(* A failing free is reported and the thread ends all the same.            *)
FreeLocalMem(t) ==
    /\ At(t, "free") /\ GoTo(t, "done")
    /\ UNCHANGED <<size, waiting, test_key, per_rps, created, joined, running>>

Next ==
    \/ MainCreates \/ MainJoins
    \/ \E t \in Threads :
         \/ AllocLocalMem(t) \/ BufferFaults(t) \/ Arrive(t)
         \/ AllocRemoteMem(t) \/ RdmaWrite(t) \/ PrintWrite(t)
         \/ RdmaRead(t) \/ PrintRead(t) \/ FreeLocalMem(t)

Spec == Init /\ [][Next]_vars

-----------------------------------------------------------------------------
(* No thread is in the read test while another still writes, or has still  *)
(* to allocate the memory: the barrier separates the tests although it is  *)
(* used again at once and the serial thread lags behind.                   *)
PhasesApart ==
    \A t, u \in Threads :
        pc[t] \in {"read", "b3", "print_read", "free", "done"}
            => pc[u] \notin {"alloc", "b1", "key", "write", "b2"}

(* The read test uses what alloc_remote_mem returned: the serial thread    *)
(* has come to the second wait by then.  (The write test need not: it      *)
(* starts when the first wait ends, test_latency.c:134.)                   *)
ReadsUseKey ==
    \A t \in Threads : pc[t] = "read" => test_key # "unset"

(* The report of the read test consists of results of the read test.       *)
ReadReport ==
    (\E t \in Threads : pc[t] = "print_read")
        => \A e \in Sizes \X Threads : per_rps[e] = "read"

(* The threads wait for one another for ever only if one has left before   *)
(* the first wait or was never created.                                    *)
StuckOnlyAfterLoss ==
    /\ \A t \in Threads : t \in waiting \/ pc[t] \in {"gone", "absent", "done"}
    /\ waiting # {}
    => \E t \in Threads : pc[t] \in {"gone", "absent"}
=============================================================================
