--------------------------- MODULE VidCountProofs ---------------------------
(***************************************************************************)
(* Proof that the manager gives out at most one virtual id per container   *)
(* (OneVidPerContainer).  An id cannot be traced once its answer is lost,  *)
(* so the proof counts: every id, and every request for one that is under  *)
(* way, has been paid for by a container that will not ask again.  The     *)
(* count does not depend on the order of the manager's threads.            *)
(***************************************************************************)
EXTENDS VidRoutingProofs

\* A container as its router knows it.
PairOf(t) == <<RouterOf[t], CidOf[t]>>
Pairs == {PairOf(t) : t \in Threads}

\* Thread t has asked for an id and waits for it.
Waits(t) == pc[t] = "recv" /\ call[t].op = "join"

\* The container will not ask (again): it has its id, or waits for it, or its
\* router has lost the connection and never makes another.
Spent ==
    {p \in Pairs : \/ cid_vid_map[p[1]][p[2]] # Absent
                   \/ link[p[1]] \notin {"none", "up"}
                   \/ \E t \in Threads : PairOf(t) = p /\ Waits(t)}

\* The requests for an id that the manager has not served yet: a router and a
\* position in the queue of its connection.
Pending ==
    {p \in Routers \X Nat : /\ p[2] \in 1..Len(req[p[1]])
                            /\ req[p[1]][p[2]].func_code = "NID_VID"}

CountInv == IsFiniteSet(Pending) /\ vid + Cardinality(Pending) <= Cardinality(Spent)

\* The sets that are counted are finite.
LEMMA FiniteCounts ==
    /\ IsFiniteSet(Pairs)
    /\ \A S \in SUBSET Pairs : IsFiniteSet(S) /\ Cardinality(S) \in Nat
  <1>1. IsFiniteSet(Pairs)
    <2> DEFINE f == [t \in Threads |-> PairOf(t)]
    <2>1. f \in Surjection(Threads, Pairs)
      BY DEF Surjection, Pairs
    <2> HIDE DEF f
    <2> QED  BY <2>1, FiniteAssumption, FS_Surjection
  <1> QED  BY <1>1, FiniteAssumption, FS_Subset, FS_CardinalityType

\* The containers counted are some of these, before and after a step.
LEMMA CountedSets == Spent \in SUBSET Pairs /\ Spent' \in SUBSET Pairs
  BY DEF Spent

\* A step that gives out no id, sends no request for one and takes nothing back.
LEMMA CountKept ==
    ASSUME TypeOK, CountInv, vid' = vid, Pending' \subseteq Pending, Spent \subseteq Spent'
    PROVE  CountInv'
  <1>1. /\ IsFiniteSet(Pending) /\ IsFiniteSet(Pending')
        /\ Cardinality(Pending') <= Cardinality(Pending)
    BY FS_Subset DEF CountInv
  <1>2. Cardinality(Spent) <= Cardinality(Spent')
    BY CountedSets, FiniteCounts, FS_Subset
  <1>3. vid \in Nat /\ Cardinality(Pending) \in Nat /\ Cardinality(Pending') \in Nat
    BY <1>1, FS_CardinalityType, Constants DEF TypeOK
  <1> QED  BY <1>1, <1>2, <1>3, CountedSets, FiniteCounts DEF CountInv

\* The entries of cid_vid_map and the broken connections stay.
LEMMA SpentKept ==
    ASSUME TypeOK,
           \A r \in Routers, c \in Cids : cid_vid_map[r][c] # Absent => cid_vid_map'[r][c] # Absent,
           \A r \in Routers : link[r] \notin {"none", "up"} => link'[r] \notin {"none", "up"},
           \A t \in Threads : Waits(t) => \/ Waits(t)'
                                          \/ link'[RouterOf[t]] \notin {"none", "up"}
                                          \/ cid_vid_map'[RouterOf[t]][CidOf[t]] # Absent
    PROVE  Spent \subseteq Spent'
  <1> SUFFICES ASSUME NEW p \in Spent  PROVE p \in Spent'
    OBVIOUS
  <1>1. PICK u \in Threads : p = PairOf(u)
    BY DEF Spent, Pairs
  <1>2. p[1] = RouterOf[u] /\ p[2] = CidOf[u] /\ RouterOf[u] \in Routers /\ CidOf[u] \in Cids
    BY <1>1, Constants DEF PairOf
  <1>3. \A t \in Threads : PairOf(t) = p => RouterOf[t] = p[1] /\ CidOf[t] = p[2]
    BY DEF PairOf
  <1>4. CASE \E t \in Threads : PairOf(t) = p /\ Waits(t)
    <2>1. PICK t \in Threads : PairOf(t) = p /\ Waits(t)
      BY <1>4
    <2>2. (PairOf(t) = p)'
      BY <2>1 DEF PairOf
    <2> QED  BY <1>3, <2>1, <2>2 DEF Spent, Pairs, PairOf
  <1>5. CASE ~\E t \in Threads : PairOf(t) = p /\ Waits(t)
    BY <1>2, <1>5 DEF Spent, Pairs, PairOf
  <1> QED  BY <1>4, <1>5

\* Requests that were lost or are for something else do not count.
LEMMA PendingKept ==
    ASSUME \A r \in Routers : req'[r] = req[r] \/ req'[r] = <<>>
    PROVE  Pending' \subseteq Pending
  <1>1. \A r \in Routers : 1..Len(req'[r]) # {} => req'[r] = req[r]
    BY Queues
  <1> QED  BY <1>1 DEF Pending

\* The request at the head of a queue is taken, or its queue is lost: the
\* others move up.
LEMMA PendingMoves ==
    ASSUME TypeOK, NEW r \in Routers, req[r] # <<>>, IsFiniteSet(Pending),
           req' = [req EXCEPT ![r] = Tail(req[r])] \/ req' = [req EXCEPT ![r] = <<>>]
    PROVE  /\ IsFiniteSet(Pending')
           /\ Cardinality(Pending') <= Cardinality(Pending \ {<<r, 1>>})
  <1> DEFINE Rest == Pending \ {<<r, 1>>}
             move == [p \in Pending' |-> IF p[1] = r THEN <<r, p[2] + 1>> ELSE p]
  <1>1. req[r] \in Seq(Msgs) /\ \A q \in Routers \ {r} : req'[q] = req[q]
    BY DEF TypeOK
  <1>2. req'[r] = <<>> \/ req'[r] = Tail(req[r])
    BY DEF TypeOK
  <1>3. \A k \in Nat : k \in 1..Len(req'[r]) => k + 1 \in 1..Len(req[r]) /\ req'[r][k] = req[r][k + 1]
    <2> DEFINE s == req[r]
    <2>1. s \in Seq(Msgs) /\ s # <<>>
      BY <1>1
    <2>2. CASE req'[r] = <<>>
      <3>1. Len(req'[r]) = 0
        BY <2>2, Queues
      <3> QED  BY <3>1
    <2>3. CASE req'[r] = Tail(s)
      <3> HIDE DEF s
      <3>1. Len(Tail(s)) = Len(s) - 1 /\ Len(s) \in Nat
        BY <2>1
      <3>2. \A k \in 1..Len(Tail(s)) : Tail(s)[k] = s[k + 1] /\ k + 1 \in 1..Len(s)
        BY <2>1, <3>1
      <3>3. \A k \in Nat : k \in 1..Len(req'[r]) => k + 1 \in 1..Len(s) /\ req'[r][k] = s[k + 1]
        BY <2>3, <3>2
      <3> QED  BY <3>3 DEF s
    <2> QED  BY <1>2, <2>2, <2>3
  <1>4. ASSUME NEW p \in Pending'  PROVE move[p] \in Rest
    <2>1. /\ p \in Routers \X Nat /\ p[2] \in 1..Len(req'[p[1]])
          /\ req'[p[1]][p[2]].func_code = "NID_VID"
      BY <1>4 DEF Pending
    <2>2. CASE p[1] = r
      <3>1. p[2] \in Nat /\ p[2] \in 1..Len(req'[r]) /\ req'[r][p[2]].func_code = "NID_VID"
        BY <2>1, <2>2
      <3>2. p[2] + 1 \in 1..Len(req[r]) /\ req[r][p[2] + 1].func_code = "NID_VID"
        BY <1>3, <3>1
      <3>3. <<r, p[2] + 1>> \in Pending
        BY <3>1, <3>2 DEF Pending
      <3>4. <<r, p[2] + 1>> # <<r, 1>>
        BY <3>1
      <3> QED  BY <1>4, <2>2, <3>3, <3>4
    <2>3. CASE p[1] # r
      <3>1. req'[p[1]] = req[p[1]]
        BY <1>1, <2>1, <2>3
      <3>2. p \in Pending /\ p # <<r, 1>>
        BY <2>1, <2>3, <3>1 DEF Pending
      <3> QED  BY <1>4, <2>3, <3>2
    <2> QED  BY <2>2, <2>3
  <1>5. ASSUME NEW p \in Pending', NEW q \in Pending', move[p] = move[q]  PROVE p = q
    <2>1. /\ p \in Routers \X Nat /\ q \in Routers \X Nat
          /\ p = <<p[1], p[2]>> /\ q = <<q[1], q[2]>>
      BY <1>5 DEF Pending
    <2>2. CASE p[1] = r /\ q[1] = r
      <3>1. <<r, p[2] + 1>> = <<r, q[2] + 1>>
        BY <1>5, <2>2
      <3> QED  BY <2>1, <2>2, <3>1
    <2>3. CASE p[1] # r \/ q[1] # r
      BY <1>5, <2>1, <2>3
    <2> QED  BY <2>2, <2>3
  <1>6. move \in Injection(Pending', Rest)
    <2>1. move \in [Pending' -> Rest]
      BY <1>4
    <2> HIDE DEF move
    <2> QED  BY <1>5, <2>1 DEF Injection, IsInjective
  <1>7. IsFiniteSet(Rest)
    BY FS_RemoveElement
  <1> HIDE DEF move, Rest
  <1>8. IsFiniteSet(Pending') /\ Cardinality(Pending') <= Cardinality(Rest)
    BY <1>6, <1>7, FS_Injection
  <1> QED  BY <1>8 DEF Rest

\* ++vid: a request that was pending is served.
LEMMA ServeCount ==
    ASSUME IndInv, CountInv, NEW h \in Routers, VcmServe(h)
    PROVE  CountInv'
  <1> DEFINE r == vcm_file[h]
             Rest == Pending \ {<<r, 1>>}
  <1>1. /\ TypeOK /\ r \in Routers /\ req[r] # <<>> /\ req[r] \in Seq(Msgs)
        /\ req' = [req EXCEPT ![r] = Tail(req[r])] \/ req' = [req EXCEPT ![r] = <<>>]
    BY DEF IndInv, LinkInv, TypeOK, VcmServe, VcmLetGo, VcmHangUp
  <1>2. /\ IsFiniteSet(Pending) /\ IsFiniteSet(Pending')
        /\ Cardinality(Pending') <= Cardinality(Rest)
    BY <1>1, PendingMoves DEF CountInv
  <1>3. Spent \subseteq Spent'
    <2>1. \A q \in Routers : link[q] \notin {"none", "up"} => link'[q] \notin {"none", "up"}
      <3>1. link' = link \/ (link[r] = "up" /\ \E v \in {"eof", "reset"} : link' = [link EXCEPT ![r] = v])
        BY DEF VcmServe, VcmLetGo, VcmHangUp
      <3> QED  BY <1>1, <3>1 DEF TypeOK
    <2> QED  BY <1>1, <2>1, SpentKept DEF VcmServe, routerVars, threadVars, Waits
  <1>s. /\ Cardinality(Spent) <= Cardinality(Spent')
        /\ Cardinality(Spent) \in Nat /\ Cardinality(Spent') \in Nat /\ vid \in Nat
    BY <1>1, <1>3, CountedSets, FiniteCounts, FS_Subset, Constants DEF TypeOK
  <1>f. /\ IsFiniteSet(Rest)
        /\ Cardinality(Rest) = IF <<r, 1>> \in Pending THEN Cardinality(Pending) - 1
                                                        ELSE Cardinality(Pending)
        /\ Cardinality(Rest) \in Nat /\ Cardinality(Pending) \in Nat /\ Cardinality(Pending') \in Nat
    BY <1>2, FS_RemoveElement, FS_CardinalityType
  <1> HIDE DEF Rest
  <1>4. CASE Head(req[r]).func_code = "VID_NID"
    <2>1. vid' = vid
      BY <1>4 DEF VcmServe
    <2> QED  BY <1>2, <1>s, <1>f, <2>1 DEF CountInv
  <1>5. CASE Head(req[r]).func_code = "NID_VID"
    <2>1. vid' = vid + 1
      BY <1>5 DEF VcmServe, get_new_vid, NewVid
    <2>2. <<r, 1>> \in Pending
      <3>1. 1 \in 1..Len(req[r]) /\ req[r][1] = Head(req[r])
        BY <1>1
      <3> QED  BY <1>1, <1>5, <3>1 DEF Pending
    <2> QED  BY <1>2, <1>s, <1>f, <2>1, <2>2 DEF CountInv
  <1> QED  BY <1>4, <1>5 DEF VcmServe

\* vcm_join asks the manager: its container has not asked before.
LEMMA SendCount ==
    ASSUME IndInv, CountInv, NEW t \in Threads, HandlerSend(t)
    PROVE  CountInv'
  <1> DEFINE r == RouterOf[t]
  <1>1. /\ TypeOK /\ r \in Routers /\ CidOf[t] \in Cids
        /\ pc[t] = "call" /\ map_mutex[r] = None /\ Found(t) = Absent
        /\ vid' = vid /\ UNCHANGED <<cid_vid_map, call>> /\ pc' = [pc EXCEPT ![t] = "recv"]
    BY Constants DEF IndInv, HandlerSend, AsksManager, Enter, vcmVars
  <1>2. Spent \subseteq Spent'
    <2>1. \A q \in Routers : link[q] \notin {"none", "up"} => link'[q] \notin {"none", "up"}
      BY <1>1 DEF HandlerSend, TypeOK
    <2>2. \A u \in Threads : Waits(u) => Waits(u)'
      BY <1>1 DEF Waits, TypeOK
    <2> QED  BY <1>1, <2>1, <2>2, SpentKept
  <1>3. CASE link[r] # "up"
    <2>1. UNCHANGED req
      BY <1>3 DEF HandlerSend
    <2> QED  BY <1>1, <1>2, <2>1, PendingKept, CountKept
  <1>4. CASE link[r] = "up"
    <2> DEFINE n == Len(req[r]) + 1
    <2>1. /\ req' = [req EXCEPT ![r] = Append(@, RequestMsg(t))] /\ UNCHANGED link
          /\ req[r] \in Seq(Msgs)
      BY <1>1, <1>4 DEF HandlerSend, TypeOK
    <2>2. RequestMsg(t) \in Msgs /\ call[t].op # "get_node_id"
      BY <1>1, RequestMsgFacts DEF HandlerSend, AsksManager
    <2>3. /\ req'[r] = Append(req[r], RequestMsg(t))
          /\ \A q \in Routers \ {r} : req'[q] = req[q]
      BY <1>1, <2>1 DEF TypeOK
    <2>4. /\ n \in Nat
          /\ \A k \in 1..Len(req'[r]) : IF k = n THEN req'[r][k] = RequestMsg(t)
                                                 ELSE k \in 1..Len(req[r]) /\ req'[r][k] = req[r][k]
      BY <2>1, <2>2, <2>3
    <2> HIDE DEF n
    <2>0. \A p \in Pending' : \/ p \in Pending
                              \/ p = <<r, n>> /\ RequestMsg(t).func_code = "NID_VID"
      <3> SUFFICES ASSUME NEW p \in Pending'
                   PROVE  p \in Pending \/ (p = <<r, n>> /\ RequestMsg(t).func_code = "NID_VID")
        OBVIOUS
      <3>1. /\ p \in Routers \X Nat /\ p = <<p[1], p[2]>>
            /\ p[2] \in 1..Len(req'[p[1]]) /\ req'[p[1]][p[2]].func_code = "NID_VID"
        BY DEF Pending
      <3>2. CASE p[1] # r
        BY <2>3, <3>1, <3>2 DEF Pending
      <3>3. CASE p[1] = r
        <4>1. p[2] \in 1..Len(req'[r]) /\ req'[r][p[2]].func_code = "NID_VID"
          BY <3>1, <3>3
        <4>2. CASE p[2] = n
          <5>1. req'[r][p[2]] = RequestMsg(t)
            BY <2>4, <4>1, <4>2
          <5> QED  BY <3>1, <3>3, <4>1, <4>2, <5>1
        <4>3. CASE p[2] # n
          <5>1. p[2] \in 1..Len(req[r]) /\ req'[r][p[2]] = req[r][p[2]]
            BY <2>4, <4>1, <4>3
          <5> QED  BY <3>1, <3>3, <4>1, <5>1 DEF Pending
        <4> QED  BY <4>2, <4>3
      <3> QED  BY <3>2, <3>3
    <2>5. CASE call[t].op # "join"
      <3>1. RequestMsg(t).func_code # "NID_VID"
        BY <2>5 DEF RequestMsg, Msg
      <3>2. Pending' \subseteq Pending
        BY <2>0, <3>1
      <3> QED  BY <1>1, <1>2, <3>2, CountKept
    <2>6. CASE call[t].op = "join"
      <3>1. Pending' \subseteq Pending \cup {<<r, n>>}
        BY <2>0
      <3>2. /\ IsFiniteSet(Pending) /\ IsFiniteSet(Pending')
            /\ Cardinality(Pending') <= Cardinality(Pending) + 1
            /\ Cardinality(Pending) \in Nat /\ Cardinality(Pending') \in Nat
        <4>1. IsFiniteSet(Pending) /\ Pending' \in SUBSET (Pending \cup {<<r, n>>})
          BY <3>1 DEF CountInv
        <4>2. /\ IsFiniteSet(Pending \cup {<<r, n>>}) /\ Cardinality(Pending) \in Nat
              /\ Cardinality(Pending \cup {<<r, n>>}) \in {Cardinality(Pending), Cardinality(Pending) + 1}
          BY <4>1, FS_AddElement, FS_CardinalityType
        <4>3. IsFiniteSet(Pending') /\ Cardinality(Pending') <= Cardinality(Pending \cup {<<r, n>>})
          BY <4>1, <4>2, FS_Subset
        <4> QED  BY <4>1, <4>2, <4>3, FS_CardinalityType
      <3>3. PairOf(t) \notin Spent
        <4>1. \A u \in Threads : PairOf(u) = PairOf(t) => ~Waits(u)
          BY <1>1, Constants DEF IndInv, LockInv, PairOf, Waits
        <4>2. cid_vid_map[PairOf(t)[1]][PairOf(t)[2]] = Absent /\ link[PairOf(t)[1]] = "up"
          BY <1>1, <1>4, <2>6 DEF Found, PairOf
        <4> QED  BY <4>1, <4>2 DEF Spent
      <3>4. PairOf(t) \in Spent'
        <4>1. Waits(t)'
          BY <1>1, <2>6 DEF Waits, TypeOK
        <4>2. (PairOf(t) \in Pairs)'
          BY DEF Pairs
        <4> QED  BY <4>1, <4>2 DEF Spent, PairOf
      <3>5. Cardinality(Spent) + 1 <= Cardinality(Spent')
        <4>1. Cardinality(Spent \cup {PairOf(t)}) = Cardinality(Spent) + 1
          BY <3>3, CountedSets, FiniteCounts, FS_AddElement
        <4>2. Spent \cup {PairOf(t)} \subseteq Spent'
          BY <1>2, <3>4 DEF PairOf
        <4> QED  BY <4>1, <4>2, CountedSets, FiniteCounts, FS_Subset
      <3>6. vid \in Nat
        BY <1>1, Constants DEF TypeOK
      <3> QED  BY <1>1, <3>2, <3>5, <3>6, CountedSets, FiniteCounts DEF CountInv
    <2> QED  BY <2>5, <2>6
  <1> QED  BY <1>3, <1>4

\* The answer arrives: the container that waited has its id.
LEMMA RecvCount ==
    ASSUME IndInv, CountInv, NEW t \in Threads, HandlerRecv(t) \/ HandlerRecvEof(t)
    PROVE  CountInv'
  <1>1. PICK i \in Keys : Conclude(t, i)
    BY RecvConcludes
  <1>2. TypeOK /\ LockInv /\ pc[t] = "recv"
    BY DEF IndInv, HandlerRecv, HandlerRecvEof
  <1>3. \A q \in Routers, d \in Cids :
           cid_vid_map'[q][d] = IF call[t].op = "join" /\ q = RouterOf[t] /\ d = CidOf[t]
                                THEN i ELSE cid_vid_map[q][d]
    BY <1>1, <1>2, ConcludeFacts
  <1>4. UNCHANGED <<vid, link, req, call>> /\ pc' = [pc EXCEPT ![t] = "reply"]
    BY <1>1 DEF Conclude, Return, vcmVars, vcmThreadVars
  <1>5. \A u \in Threads \ {t} : Waits(u) => Waits(u)'
    BY <1>2, <1>4 DEF Waits, TypeOK
  <1>6. Waits(t) => cid_vid_map'[RouterOf[t]][CidOf[t]] # Absent
    BY <1>1, <1>3, Constants DEF Waits
  <1>7. \A q \in Routers, d \in Cids : cid_vid_map[q][d] # Absent => cid_vid_map'[q][d] # Absent
    BY <1>1, <1>3, Constants
  <1>8. Spent \subseteq Spent'
    BY <1>2, <1>4, <1>5, <1>6, <1>7, SpentKept
  <1> QED  BY <1>2, <1>4, <1>8, PendingKept, CountKept

\* The other steps: none makes a connection that
\* was broken whole, none gives out an id.
LEMMA OtherCount ==
    ASSUME IndInv, CountInv, Next,
           ~\E h \in Routers : VcmServe(h),
           ~\E t \in Threads : HandlerSend(t) \/ HandlerRecv(t) \/ HandlerRecvEof(t)
    PROVE  CountInv'
  <1>0. TypeOK
    BY DEF IndInv
  <1> USE DEF vcmVars, vcmThreadVars, linkVars, routerVars, threadVars
  <1>1. UNCHANGED <<vid, cid_vid_map>>
    BY DEF Next, VcmThread, VcmAccept, VcmThreadStart, VcmRecvEnter, VcmReply,
           VcmRecvFails, VcmThreadEnd, RouterMain,
           RouterConnect, RouterConnectFail, RouterJoin, RouterExit, ProcessEnds, RouterDisconn,
           LinkReset, Handler, Receive, Request, AnswerFromTable, HandlerNotConnected,
           HandlerSigpipe, HandlerSendError, HandlerRecvError, SendResponse, VcmExit
  <1>2. \A r \in Routers : req'[r] = req[r] \/ req'[r] = <<>>
    BY <1>0 DEF VcmLetGo, VcmHangUp, Next, VcmThread, VcmAccept, VcmThreadStart, VcmRecvEnter, VcmReply,
           VcmRecvFails, VcmThreadEnd, RouterMain,
           RouterConnect, RouterConnectFail, RouterJoin, RouterExit, ProcessEnds, RouterDisconn,
           LinkReset, Handler, Receive, Request, AnswerFromTable, HandlerNotConnected,
           HandlerSigpipe, HandlerSendError, HandlerRecvError, SendResponse, VcmExit, TypeOK
  <1>3. \A r \in Routers : link[r] \notin {"none", "up"} => link'[r] \notin {"none", "up"}
    <2> DEFINE Kept ==
                 \A r \in Routers : link[r] \notin {"none", "up"} => link'[r] \notin {"none", "up"}
    <2>1. ASSUME NEW q \in Routers, RouterConnect(q)  PROVE Kept
      <3>1. link[q] = "none" /\ link' = [link EXCEPT ![q] = "up"]
        BY <2>1 DEF RouterConnect, IndInv, LinkInv
      <3> QED  BY <1>0, <3>1 DEF TypeOK
    <2>2. ASSUME NEW q \in Routers, LinkReset(q) \/ ProcessEnds(q) \/ RouterDisconn(q)  PROVE Kept
      BY <1>0, <2>2 DEF LinkReset, ProcessEnds, RouterDisconn, TypeOK
    <2>3. CASE VcmExit
      BY <1>0, <2>3 DEF VcmExit, TypeOK
    <2>5. ASSUME NEW h \in Routers, VcmRecvFails(h) \/ VcmThreadEnd(h)  PROVE Kept
      BY <1>0, <2>5 DEF VcmRecvFails, VcmThreadEnd, VcmLetGo, VcmHangUp, TypeOK
    <2>4. \/ UNCHANGED link \/ VcmExit
          \/ \E h \in Routers : VcmRecvFails(h) \/ VcmThreadEnd(h)
          \/ \E q \in Routers : RouterConnect(q) \/ LinkReset(q) \/ ProcessEnds(q) \/ RouterDisconn(q)
      BY Constants DEF Next, VcmThread, VcmAccept, VcmThreadStart, VcmRecvEnter, VcmReply,
           RouterMain, RouterConnectFail, RouterJoin, RouterExit, Handler, Receive, Request,
           AnswerFromTable, HandlerNotConnected, HandlerSigpipe, HandlerSendError,
           HandlerRecvError, SendResponse
    <2> QED  BY <2>1, <2>2, <2>3, <2>4, <2>5
  <1>4. \A t \in Threads : Waits(t) => Waits(t)' \/ link'[RouterOf[t]] \notin {"none", "up"}
    <2>1. CASE UNCHANGED <<pc, call>>
      BY <2>1 DEF Waits
    <2>2. ASSUME NEW r \in Routers, ProcessEnds(r), NEW t \in Threads, Waits(t)
          PROVE  Waits(t)' \/ link'[RouterOf[t]] \notin {"none", "up"}
      BY <1>0, <2>2, Constants DEF ProcessEnds, Waits, TypeOK
    <2>3. ASSUME NEW u \in Threads,
                 Request(u) \/ AnswerFromTable(u) \/ HandlerNotConnected(u)
                            \/ HandlerSendError(u) \/ SendResponse(u)
          PROVE  \A t \in Threads : Waits(t) => Waits(t)'
      BY <1>0, <2>3 DEF Request, AnswerFromTable, HandlerNotConnected, HandlerSendError,
           SendResponse, NotConnected, AsksManager, Enter, Return, Waits, TypeOK
    <2>4. ASSUME NEW u \in Threads, HandlerRecvError(u), NEW t \in Threads, Waits(t)
          PROVE  Waits(t)' \/ link'[RouterOf[t]] \notin {"none", "up"}
      BY <1>0, <2>4 DEF HandlerRecvError, Return, Waits, TypeOK
    <2>5. \/ UNCHANGED <<pc, call>>
          \/ \E r \in Routers : ProcessEnds(r)
          \/ \E u \in Threads : Request(u) \/ AnswerFromTable(u) \/ HandlerNotConnected(u)
                                \/ HandlerSendError(u) \/ SendResponse(u)
          \/ \E u \in Threads : HandlerRecvError(u)
      BY Constants DEF Next, VcmThread, VcmAccept, VcmThreadStart, VcmRecvEnter, VcmReply,
           VcmRecvFails, VcmThreadEnd, RouterMain, RouterConnect, RouterConnectFail, RouterJoin, RouterExit,
           RouterDisconn, LinkReset, Handler, Receive, HandlerSigpipe, VcmExit
    <2> QED  BY <2>1, <2>2, <2>3, <2>4, <2>5
  <1>5. Spent \subseteq Spent'
    BY <1>0, <1>1, <1>3, <1>4, SpentKept
  <1> QED  BY <1>0, <1>1, <1>2, <1>5, PendingKept, CountKept

\* Every id given out, and every request for one, is covered by a container of
\* its own.
THEOREM CountInvHolds == Spec => []CountInv
  <1>1. ASSUME Init  PROVE CountInv
    <2>1. Pending = {} /\ vid = 0
      BY <1>1 DEF Init, Pending
    <2>2. IsFiniteSet(Pending) /\ Cardinality(Pending) = 0
      BY <2>1, FS_EmptySet
    <2> QED  BY <2>1, <2>2, CountedSets, FiniteCounts DEF CountInv
  <1>2. ASSUME IndInv, CountInv, [Next]_vars  PROVE CountInv'
    <2>1. CASE UNCHANGED vars
      <3>1. UNCHANGED <<vid, req, cid_vid_map, link, pc, call>>
        BY <2>1 DEF vars, vcmVars, vcmThreadVars, linkVars, routerVars, threadVars
      <3>2. TypeOK /\ Spent \subseteq Spent' /\ Pending' \subseteq Pending
        BY <1>2, <3>1 DEF IndInv, Spent, Pending, Pairs, PairOf, Waits
      <3> QED  BY <1>2, <3>1, <3>2, CountKept
    <2>2. CASE Next
      BY <1>2, <2>2, ServeCount, SendCount, RecvCount, OtherCount
    <2> QED  BY <1>2, <2>1, <2>2
  <1> QED  BY <1>1, <1>2, IndInvHolds, PTL DEF Spec

\* However many threads of a container join at once, and whatever answers are
\* lost, vcm_join costs the manager at most one virtual id per container.
THEOREM OneVidEach == Spec => []OneVidPerContainer
  <1>1. IndInv /\ CountInv => OneVidPerContainer
    <2> SUFFICES ASSUME IndInv, CountInv  PROVE OneVidPerContainer
      OBVIOUS
    <2>0. Cardinality(Pending) \in Nat
      BY FS_CardinalityType DEF CountInv
    <2>1. Cardinality(Spent) <= Cardinality(Pairs) /\ vid \in Nat
      BY CountedSets, FiniteCounts, FS_Subset, Constants DEF IndInv, TypeOK
    <2>2. vid <= Cardinality(Pairs)
      BY <2>0, <2>1, CountedSets, FiniteCounts DEF CountInv
    <2> QED  BY <2>2 DEF OneVidPerContainer, Pairs, PairOf
  <1> QED  BY <1>1, CountInvHolds, IndInvHolds, PTL
=============================================================================
