-------------------------- MODULE RpcChannelProofs --------------------------
(***************************************************************************)
(* Proofs about RpcChannel, for any number of processes, threads,          *)
(* connections, handlers, descriptors and calls, and in every schedule:    *)
(* the types, and that no request is in two places.  RpcHandlerProofs goes *)
(* on with what holds until the router's threads race.                     *)
(***************************************************************************)
EXTENDS RpcChannel, TLAPS

(***************************************************************************)
(* Types.                                                                  *)
(***************************************************************************)

\* What a step of rpc_handler has at hand.
ClientInv ==
    \A t \in Threads :
        /\ pc[t] \notin {"idle", "dead"} => calls[t] \in 1..MaxCalls
        /\ pc[t] = "waiting" <=> cfile[t] # None

\* A connection that the router has seen was made by a process.
OwnerInv ==
    /\ \A c \in Conns : owner[c] = None => cend[c] = "closed" /\ rend[c] = "none"
    /\ \A i \in DOMAIN backlog : owner[backlog[i]] # None
    /\ \A f \in Rfds : fdtab[f] # None => owner[fdtab[f]] # None

\* What a step of a handler has at hand.
HandlerInv ==
    \A h \in Handlers :
        /\ hpc[h] = "start" => accepted # 0
        /\ hpc[h] \in {"enter", "recv", "send"} => hcid[h] # None
        /\ hpc[h] = "recv" <=> hfile[h] # None
        /\ hpc[h] = "send" <=> hreq[h] # None

TypeInv ==
    /\ TypeOK
    /\ ClientInv
    /\ OwnerInv
    /\ HandlerInv

-----------------------------------------------------------------------------
(***************************************************************************)
(* Every request is in one place.                                          *)
(***************************************************************************)

Kinds == {"req", "serve", "rsp", "msg"}
Places == Conns \cup Handlers \cup Threads

\* Request r, or the answer to it, is under way on connection x, served by
\* handler x or returned to thread x.
At(k, x, r) ==
    \/ k = "req" /\ x \in Conns /\ \E i \in DOMAIN req[x] : req[x][i] = r
    \/ k = "serve" /\ x \in Handlers /\ hreq[x] = r
    \/ k = "rsp" /\ x \in Conns /\ \E i \in DOMAIN rsp[x] : rsp[x][i].req = r
    \/ k = "msg" /\ x \in Threads /\ rsp_msg[x] # None /\ rsp_msg[x].req = r

\* The steps of rpc_handler before the request is sent.
Before == {"check", "socket", "clear", "head", "tail", "name", "bind", "connect", "send"}

\* No request is in two places,
OnePlace ==
    \A r \in Requests, k, l \in Kinds, x, y \in Places :
        At(k, x, r) /\ At(l, y, r) => k = l /\ x = y

\* or twice in one,
OnceThere ==
    \A c \in Conns :
        /\ \A i, j \in DOMAIN req[c] : req[c][i] = req[c][j] => i = j
        /\ \A i, j \in DOMAIN rsp[c] : rsp[c][i].req = rsp[c][j].req => i = j

\* and none is there before it is sent.
SentInv ==
    \A r \in Requests, k \in Kinds, x \in Places : At(k, x, r) =>
        r[2] <= calls[r[1]] /\ (r[2] = calls[r[1]] => pc[r[1]] \notin Before)

OnceInv == OnePlace /\ OnceThere /\ SentInv

-----------------------------------------------------------------------------
(***************************************************************************)
(* Types.                                                                  *)
(***************************************************************************)

\* The values that stand for nothing can be told from the others.
LEMMA Nothing ==
    /\ None \notin Conns /\ None \notin Procs /\ None \notin Requests /\ None \notin AllCids
    /\ None \notin Names
    /\ ProcOf \in [Threads -> Procs] /\ MaxRfd \in Nat /\ MaxCalls \in Nat
    /\ CutCid \in AllCids /\ \A p \in Procs : PathCid(p) \in AllCids
  BY RpcAssumption DEF AllCids, PathCid

\* The parts of TypeOK.
ClientTypes ==
    /\ client_sock \in [Procs -> Conns \cup {None}]
    /\ cid \in [Procs -> SUBSET Parts]
    /\ path \in [Procs -> BOOLEAN]
    /\ pc \in [Threads -> {"idle", "check", "socket", "clear", "head", "tail", "name", "bind",
                           "connect", "send", "recv", "waiting", "close", "reset", "dead"}]
    /\ calls \in [Threads -> 0..MaxCalls]
    /\ rsp_msg \in [Threads -> Answers \cup {None}]
    /\ cfile \in [Threads -> Conns \cup {None}]
    /\ name \in [Threads -> Names \cup {None}]
ConnTypes ==
    /\ owner \in [Conns -> Procs \cup {None}]
    /\ cend \in [Conns -> {"new", "connected", "dropped", "closed"}]
    /\ cname \in [Conns -> Names \cup {None}]
    /\ rend \in [Conns -> {"none", "backlog", "fd", "dropped", "closed"}]
    /\ req \in [Conns -> Seq(Requests)]
    /\ rsp \in [Conns -> Seq(Answers)]
RouterTypes ==
    /\ router \in {"down", "up", "killed"}
    /\ backlog \in Seq(Conns)
    /\ accepted \in 0..MaxRfd
    /\ fdtab \in [Rfds -> Conns \cup {None}]
    /\ raced \in BOOLEAN
    /\ left \subseteq Rfds
HandlerTypes ==
    /\ hpc \in [Handlers -> {"unused", "start", "enter", "recv", "send", "close", "done"}]
    /\ hsock \in [Handlers -> 0..MaxRfd]
    /\ hcid \in [Handlers -> AllCids \cup {None}]
    /\ hfile \in [Handlers -> Conns \cup {None}]
    /\ hreq \in [Handlers -> Requests \cup {None}]

\* They make up TypeOK, and each of them depends on its own variables.
LEMMA TypeParts ==
    /\ TypeOK <=> ClientTypes /\ ConnTypes /\ RouterTypes /\ HandlerTypes
    /\ (TypeOK <=> ClientTypes /\ ConnTypes /\ RouterTypes /\ HandlerTypes)'
    /\ ClientTypes /\ UNCHANGED clientVars => ClientTypes'
    /\ ConnTypes /\ UNCHANGED connVars => ConnTypes'
    /\ RouterTypes /\ UNCHANGED routerVars => RouterTypes'
    /\ HandlerTypes /\ UNCHANGED handlerVars => HandlerTypes'
    /\ ClientInv /\ UNCHANGED clientVars => ClientInv'
    /\ OwnerInv /\ UNCHANGED connVars /\ UNCHANGED routerVars => OwnerInv'
    /\ HandlerInv /\ UNCHANGED routerVars /\ UNCHANGED handlerVars => HandlerInv'
  <1>1. /\ TypeOK <=> ClientTypes /\ ConnTypes /\ RouterTypes /\ HandlerTypes
        /\ (TypeOK <=> ClientTypes /\ ConnTypes /\ RouterTypes /\ HandlerTypes)'
    BY DEF TypeOK, ClientTypes, ConnTypes, RouterTypes, HandlerTypes
  <1>2. ClientTypes /\ UNCHANGED clientVars => ClientTypes'
    BY DEF ClientTypes, clientVars
  <1>3. ConnTypes /\ UNCHANGED connVars => ConnTypes'
    BY DEF ConnTypes, connVars
  <1>4. RouterTypes /\ UNCHANGED routerVars => RouterTypes'
    BY DEF RouterTypes, routerVars
  <1>5. HandlerTypes /\ UNCHANGED handlerVars => HandlerTypes'
    BY DEF HandlerTypes, handlerVars
  <1>6. ClientInv /\ UNCHANGED clientVars => ClientInv'
    BY DEF ClientInv, clientVars
  <1>7. OwnerInv /\ UNCHANGED connVars /\ UNCHANGED routerVars => OwnerInv'
    BY DEF OwnerInv, connVars, routerVars
  <1>8. HandlerInv /\ UNCHANGED routerVars /\ UNCHANGED handlerVars => HandlerInv'
    BY DEF HandlerInv, routerVars, handlerVars
  <1> QED  BY <1>1, <1>2, <1>3, <1>4, <1>5, <1>6, <1>7, <1>8

\* Initially there is nothing.
LEMMA InitTypes == Init => TypeInv
  <1> SUFFICES ASSUME Init  PROVE TypeInv
    OBVIOUS
  <1>1. ClientTypes /\ ClientInv
    BY Nothing DEF Init, ClientTypes, ClientInv, Parts
  <1>2. ConnTypes /\ OwnerInv
    BY Nothing DEF Init, ConnTypes, OwnerInv
  <1>3. RouterTypes
    <2>1. backlog \in Seq(Conns) /\ accepted \in 0..MaxRfd
      BY Nothing DEF Init
    <2>2. fdtab \in [Rfds -> Conns \cup {None}] /\ left \subseteq Rfds
      BY DEF Init
    <2>3. router \in {"down", "up", "killed"} /\ raced \in BOOLEAN
      BY DEF Init
    <2> QED  BY <2>1, <2>2, <2>3 DEF RouterTypes
  <1>4. HandlerTypes
    BY Nothing DEF Init, HandlerTypes
  <1>5. HandlerInv
    BY Nothing DEF Init, HandlerInv
  <1> QED  BY <1>1, <1>2, <1>3, <1>4, <1>5, TypeParts DEF TypeInv

\* Sock(t) is a connection of the process of t if the system knows it.
LEMMA SockFacts ==
    ASSUME TypeInv, NEW t \in Threads
    PROVE  /\ ProcOf[t] \in Procs /\ Sock(t) \in Conns \cup {None}
           /\ SockState(t) # "closed" => /\ Sock(t) \in Conns /\ owner[Sock(t)] = ProcOf[t]
                                         /\ cend[Sock(t)] = SockState(t)
  <1>1. ProcOf[t] \in Procs /\ Sock(t) \in Conns \cup {None}
    BY Nothing DEF Sock, TypeInv, TypeOK
  <1> QED  BY <1>1 DEF SockState

\* A step that changes no more of the connections than the client's ends of
\* those that have an owner, and what is under way.
LEMMA OwnersKept ==
    ASSUME TypeInv, UNCHANGED <<owner, rend>>, UNCHANGED routerVars,
           \A c \in Conns : owner[c] = None => cend'[c] = cend[c]
    PROVE  OwnerInv'
  BY DEF TypeInv, OwnerInv, routerVars

\* The steps of a thread before its request is sent.
LEMMA ConnectTypes ==
    ASSUME TypeInv, NEW t \in Threads,
           \/ Call(t) \/ Check(t) \/ Socket(t) \/ ClearCid(t) \/ ReadCid(t) \/ MakeName(t)
           \/ Bind(t) \/ Connect(t)
    PROVE  TypeInv'
  <1> USE TypeParts, Nothing DEF TypeInv
  <1>1. CASE Call(t)
    <2>1. ClientTypes' /\ ClientInv'
      BY <1>1 DEF Call, Goto, ClientTypes, ClientInv
    <2> QED  BY <1>1, <2>1 DEF Call
  <1>2. CASE Check(t)
    <2>1. ClientTypes' /\ ClientInv'
      BY <1>2 DEF Check, Goto, ClientTypes, ClientInv
    <2> QED  BY <1>2, <2>1 DEF Check
  <1>3. CASE Socket(t)
    <2>1. ClientTypes' /\ ClientInv'
      <3>1. PICK v \in Conns \cup {None} : client_sock' = [client_sock EXCEPT ![ProcOf[t]] = v]
        BY <1>3 DEF Socket
      <3>2. pc[t] = "socket" /\ (Goto(t, "clear") \/ Goto(t, "idle"))
               /\ UNCHANGED <<cid, path, calls, rsp_msg, cfile, name>>
        BY <1>3 DEF Socket
      <3> QED  BY <3>1, <3>2 DEF Goto, ClientTypes, ClientInv
    <2>2. UNCHANGED routerVars /\ UNCHANGED handlerVars
      BY <1>3 DEF Socket
    <2>3. CASE UNCHANGED connVars
      BY <2>1, <2>2, <2>3
    <2>4. CASE ~UNCHANGED connVars
      <3>1. PICK c \in Conns :
               /\ owner' = [owner EXCEPT ![c] = ProcOf[t]] /\ cend' = [cend EXCEPT ![c] = "new"]
               /\ rend' = [rend EXCEPT ![c] = "none"] /\ req' = [req EXCEPT ![c] = <<>>]
               /\ rsp' = [rsp EXCEPT ![c] = <<>>] /\ cname' = [cname EXCEPT ![c] = None]
        BY <1>3, <2>4 DEF Socket
      <3>2. ConnTypes'
        BY <3>1, SockFacts DEF ConnTypes
      <3>3. owner'[c] # None /\ \A d \in Conns \ {c} :
               owner'[d] = owner[d] /\ cend'[d] = cend[d] /\ rend'[d] = rend[d]
        BY <3>1, SockFacts DEF ConnTypes
      <3>4. OwnerInv'
        BY <2>2, <3>3 DEF OwnerInv, routerVars, RouterTypes
      <3> QED  BY <2>1, <2>2, <3>2, <3>4
    <2> QED  BY <2>3, <2>4
  <1>4. CASE ClearCid(t) \/ ReadCid(t) \/ MakeName(t)
    <2>1. UNCHANGED connVars /\ UNCHANGED routerVars /\ UNCHANGED handlerVars
      BY <1>4 DEF ClearCid, ReadCid, MakeName
    <2>2. CASE ClearCid(t)
      <3>1. ClientTypes' /\ ClientInv'
        BY <2>2 DEF ClearCid, Goto, ClientTypes, ClientInv
      <3> QED  BY <2>1, <3>1
    <2>3. CASE ReadCid(t)
      <3>1. cid' \in [Procs -> SUBSET Parts]
        BY <2>3 DEF ReadCid, ClientTypes, Parts
      <3>2. ClientTypes' /\ ClientInv'
        BY <2>3, <3>1 DEF ReadCid, Goto, ClientTypes, ClientInv
      <3> QED  BY <2>1, <3>2
    <2>4. CASE MakeName(t)
      <3>1. PICK n \in Names : name' = [name EXCEPT ![t] = n]
        BY <2>4 DEF MakeName, Names
      <3>2. path' \in [Procs -> BOOLEAN]
        BY <2>4 DEF MakeName, ClientTypes
      <3>3. ClientTypes' /\ ClientInv'
        BY <2>4, <3>1, <3>2 DEF MakeName, Goto, ClientTypes, ClientInv
      <3> QED  BY <2>1, <3>3
    <2> QED  BY <1>4, <2>2, <2>3, <2>4
  <1>5. CASE Bind(t)
    <2>0. name[t] \in Names \cup {None} /\ name' = [name EXCEPT ![t] = None]
      BY <1>5 DEF Bind, ClientTypes
    <2>1. ClientTypes' /\ ClientInv'
      <3>1. path' \in [Procs -> BOOLEAN]
        BY <1>5 DEF Bind, ClientTypes
      <3> QED  BY <1>5, <2>0, <3>1 DEF Bind, Goto, ClientTypes, ClientInv
    <2>2. UNCHANGED <<owner, cend, rend, req, rsp>> /\ UNCHANGED routerVars
             /\ UNCHANGED handlerVars
      BY <1>5 DEF Bind
    <2>3. \/ UNCHANGED cname
          \/ cname' = [cname EXCEPT ![Sock(t)] = name[t]]
      BY <1>5 DEF Bind
    <2>4. ConnTypes'
      BY <2>0, <2>2, <2>3 DEF ConnTypes
    <2>5. OwnerInv'
      BY <2>2, OwnersKept
    <2> QED  BY <2>1, <2>2, <2>4, <2>5
  <1>6. CASE Connect(t)
    <2>1. ClientTypes' /\ ClientInv'
      BY <1>6 DEF Connect, Goto, ClientTypes, ClientInv
    <2>2. ConnTypes' /\ RouterTypes'
      <3>1. UNCHANGED <<owner, cname, req, rsp, router, accepted, fdtab, raced, left>>
        BY <1>6 DEF Connect
      <3>2. CASE UNCHANGED <<cend, rend, backlog>>
        BY <3>1, <3>2 DEF ConnTypes, RouterTypes
      <3>3. CASE /\ SockState(t) = "new"
                 /\ cend' = [cend EXCEPT ![Sock(t)] = "connected"]
                 /\ rend' = [rend EXCEPT ![Sock(t)] = "backlog"]
                 /\ backlog' = Append(backlog, Sock(t))
        BY <3>1, <3>3, SockFacts DEF ConnTypes, RouterTypes
      <3> QED  BY <1>6, <3>2, <3>3 DEF Connect
    <2>3. OwnerInv'
      <3>1. CASE backlog' = backlog
        BY <1>6, <3>1, SockFacts DEF Connect, ConnTypes, OwnerInv
      <3>2. CASE SockState(t) = "new" /\ backlog' = Append(backlog, Sock(t))
        <4>1. \A i \in DOMAIN backlog' : \/ i \in DOMAIN backlog /\ backlog'[i] = backlog[i]
                                         \/ backlog'[i] = Sock(t)
          BY <3>2, SockFacts DEF RouterTypes
        <4>2. Sock(t) \in Conns /\ owner[Sock(t)] # None
          BY <3>2, SockFacts
        <4> QED  BY <1>6, <4>1, <4>2 DEF Connect, ConnTypes, OwnerInv
      <3> QED  BY <1>6, <3>1, <3>2 DEF Connect
    <2>4. HandlerTypes' /\ HandlerInv'
      BY <1>6 DEF Connect, HandlerInv, handlerVars
    <2> QED  BY <2>1, <2>2, <2>3, <2>4
  <1> QED  BY <1>1, <1>2, <1>3, <1>4, <1>5, <1>6

\* A process ends: its connections are closed.
LEMMA EndTypes ==
    ASSUME TypeInv, NEW p \in Procs, ProcEnds(p), UNCHANGED <<cid, path, calls, rsp_msg>>,
           UNCHANGED <<owner, cname, rend, req, rsp>>, UNCHANGED routerVars, UNCHANGED handlerVars
    PROVE  TypeInv'
  <1> USE TypeParts, Nothing DEF TypeInv
  <1>1. ClientTypes' /\ ClientInv'
    BY DEF ProcEnds, ClientTypes, ClientInv
  <1>2. ConnTypes'
    BY DEF ProcEnds, ConnTypes
  <1>3. OwnerInv'
    BY OwnersKept DEF ProcEnds, ConnTypes
  <1> QED  BY <1>1, <1>2, <1>3

\* recv returns to thread t.
LEMMA LetGoTypes ==
    ASSUME TypeInv, NEW t \in Threads, pc[t] = "waiting", LetGo(t)
    PROVE  /\ cfile[t] \in Conns /\ cfile' = [cfile EXCEPT ![t] = None]
           /\ cend' \in [Conns -> {"new", "connected", "dropped", "closed"}]
           /\ OwnerInv' /\ HandlerInv' /\ RouterTypes' /\ HandlerTypes'
           /\ UNCHANGED <<client_sock, cid, path, calls, name, owner, cname, rend>>
           /\ UNCHANGED routerVars /\ UNCHANGED handlerVars
  <1> USE TypeParts, Nothing DEF TypeInv
  <1>1. cfile[t] \in Conns
    BY DEF ClientInv, ClientTypes
  <1>2. /\ cfile' = [cfile EXCEPT ![t] = None]
        /\ UNCHANGED <<client_sock, cid, path, calls, name, owner, cname, rend>>
        /\ UNCHANGED routerVars /\ UNCHANGED handlerVars
    BY DEF LetGo
  <1>3. /\ cend' \in [Conns -> {"new", "connected", "dropped", "closed"}]
        /\ \A c \in Conns : cend[c] = "closed" => cend'[c] = "closed"
    BY <1>1 DEF LetGo, ConnTypes
  <1>4. OwnerInv'
    BY <1>2, <1>3, OwnersKept DEF OwnerInv
  <1> QED  BY <1>1, <1>2, <1>3, <1>4

\* The steps of a thread from the request to the answer, and after an error.
LEMMA AnswerTypes ==
    ASSUME TypeInv, NEW t \in Threads,
           \/ Close(t) \/ Reset(t) \/ Send(t) \/ RecvEnter(t)
           \/ RecvAnswer(t) \/ RecvEof(t) \/ RecvReset(t)
    PROVE  TypeInv'
  <1> USE TypeParts, Nothing DEF TypeInv
  <1>1. CASE Close(t)
    <2>1. ClientTypes' /\ ClientInv'
      BY <1>1 DEF Close, Goto, ClientTypes, ClientInv
    <2>2. /\ UNCHANGED <<owner, cname, rend, req, rsp>>
          /\ UNCHANGED routerVars /\ UNCHANGED handlerVars
      BY <1>1 DEF Close
    <2>3. \/ cend' = cend
          \/ /\ SockState(t) # "closed"
             /\ \E v \in {"dropped", "closed"} : cend' = [cend EXCEPT ![Sock(t)] = v]
      BY <1>1 DEF Close
    <2>4. cend' \in [Conns -> {"new", "connected", "dropped", "closed"}]
      BY <2>3, SockFacts DEF ConnTypes
    <2>5. ConnTypes'
      BY <2>2, <2>4 DEF ConnTypes
    <2>6. \A c \in Conns : owner[c] = None => cend'[c] = cend[c]
      BY <2>3, SockFacts DEF ConnTypes
    <2> QED  BY <2>1, <2>2, <2>5, <2>6, OwnersKept
  <1>2. CASE Reset(t)
    <2>1. ClientTypes' /\ ClientInv'
      BY <1>2, SockFacts DEF Reset, Goto, ClientTypes, ClientInv
    <2> QED  BY <1>2, <2>1 DEF Reset
  <1>3. CASE Send(t)
    <2>1. /\ pc[t] = "send" /\ UNCHANGED <<cid, path, calls, rsp_msg>>
          /\ UNCHANGED <<owner, cname, rend, rsp>>
          /\ UNCHANGED routerVars /\ UNCHANGED handlerVars
      BY <1>3 DEF Send
    <2>2. CASE /\ SockState(t) = "connected" /\ Goto(t, "recv")
               /\ UNCHANGED <<client_sock, cfile, name, cend>>
               /\ req' = [req EXCEPT ![Sock(t)] = Append(@, <<t, calls[t]>>)]
      <3>1. ClientTypes' /\ ClientInv'
        BY <2>1, <2>2 DEF Goto, ClientTypes, ClientInv
      <3>2. ConnTypes'
        <4>1. <<t, calls[t]>> \in Requests
          BY <2>1 DEF ClientInv, Requests
        <4> QED  BY <2>1, <2>2, <4>1, SockFacts DEF ConnTypes
      <3> QED  BY <2>1, <2>2, <3>1, <3>2, OwnersKept
    <2>3. CASE ProcEnds(ProcOf[t]) /\ UNCHANGED req
      BY <2>1, <2>3, SockFacts, EndTypes
    <2>4. CASE Goto(t, "close") /\ UNCHANGED <<client_sock, req, cfile, name, cend>>
      <3>1. ClientTypes' /\ ClientInv'
        BY <2>1, <2>4 DEF Goto, ClientTypes, ClientInv
      <3> QED  BY <2>1, <2>4, <3>1 DEF connVars
    <2> QED  BY <1>3, <2>2, <2>3, <2>4 DEF Send
  <1>4. CASE RecvEnter(t)
    <2>1. ClientTypes' /\ ClientInv'
      BY <1>4, SockFacts DEF RecvEnter, Goto, ClientTypes, ClientInv
    <2> QED  BY <1>4, <2>1 DEF RecvEnter
  <1>5. ASSUME RecvAnswer(t) \/ RecvEof(t) \/ RecvReset(t)
        PROVE  ClientInv' /\ (rsp_msg' \in [Threads -> Answers \cup {None}] => ClientTypes')
    <2>1. /\ pc[t] = "waiting" /\ LetGo(t) /\ (Goto(t, "idle") \/ Goto(t, "close"))
      BY <1>5 DEF RecvAnswer, RecvEof, RecvReset
    <2>2. cfile' = [cfile EXCEPT ![t] = None] /\ UNCHANGED <<client_sock, cid, path, calls, name>>
      BY <2>1 DEF LetGo
    <2> QED  BY <2>1, <2>2 DEF Goto, ClientTypes, ClientInv
  <1>6. CASE RecvAnswer(t)
    <2>1. cfile[t] \in Conns /\ rsp[cfile[t]] \in Seq(Answers) /\ rsp[cfile[t]] # <<>>
      BY <1>6, LetGoTypes DEF RecvAnswer, ConnTypes
    <2>2. Head(rsp[cfile[t]]) \in Answers /\ Tail(rsp[cfile[t]]) \in Seq(Answers)
      BY <2>1
    <2>3. /\ rsp_msg' = [rsp_msg EXCEPT ![t] = Head(rsp[cfile[t]])]
          /\ rsp' = [rsp EXCEPT ![cfile[t]] = Tail(rsp[cfile[t]])] /\ UNCHANGED req
          /\ pc[t] = "waiting" /\ LetGo(t)
      BY <1>6 DEF RecvAnswer
    <2>4. rsp_msg' \in [Threads -> Answers \cup {None}]
      BY <2>2, <2>3 DEF ClientTypes
    <2>5. ConnTypes'
      BY <2>1, <2>2, <2>3, LetGoTypes DEF ConnTypes
    <2> QED  BY <1>5, <1>6, <2>3, <2>4, <2>5, LetGoTypes
  <1>7. CASE RecvEof(t) \/ RecvReset(t)
    <2>1. pc[t] = "waiting" /\ LetGo(t) /\ UNCHANGED <<rsp_msg, rsp>>
             /\ (UNCHANGED req \/ req' = [req EXCEPT ![cfile[t]] = <<>>])
      BY <1>7 DEF RecvEof, RecvReset
    <2>2. ConnTypes'
      <3>1. cfile[t] \in Conns /\ <<>> \in Seq(Requests)
        BY <2>1, LetGoTypes
      <3>2. req' \in [Conns -> Seq(Requests)]
        BY <2>1, <3>1 DEF ConnTypes
      <3> QED  BY <2>1, <3>2, LetGoTypes DEF ConnTypes
    <2>3. rsp_msg' \in [Threads -> Answers \cup {None}]
      BY <2>1 DEF ClientTypes
    <2> QED  BY <1>5, <1>7, <2>1, <2>2, <2>3, LetGoTypes
  <1> QED  BY <1>1, <1>2, <1>3, <1>4, <1>6, <1>7

\* The router ends: nothing is left of it.
LEMMA RouterEndTypes ==
    ASSUME TypeInv, NEW how \in {"down", "killed"}, RouterEnds(how),
           UNCHANGED clientVars, UNCHANGED <<owner, cend, cname, req, rsp>>, UNCHANGED raced
    PROVE  TypeInv'
  <1> USE TypeParts, Nothing DEF TypeInv
  <1>1. ConnTypes' /\ RouterTypes'
    BY DEF RouterEnds, ConnTypes, RouterTypes, Rfds
  <1>2. HandlerTypes' /\ HandlerInv'
    BY DEF RouterEnds, HandlerTypes, HandlerInv
  <1>3. OwnerInv'
    BY DEF RouterEnds, OwnerInv
  <1> QED  BY <1>1, <1>2, <1>3

\* The number accept returns, and the head of the backlog.
LEMMA AcceptFacts ==
    ASSUME TypeInv, Accept
    PROVE  \/ RouterEnds("down") /\ UNCHANGED raced
           \/ \E f \in Rfds, c \in Conns :
                 /\ fdtab[f] = None /\ accepted' = f /\ fdtab' = [fdtab EXCEPT ![f] = c]
                 /\ c = backlog[1] /\ 1 \in DOMAIN backlog
                 /\ rend' = [rend EXCEPT ![c] = "fd"] /\ backlog' = Tail(backlog)
                 /\ DOMAIN backlog' = 1..(Len(backlog) - 1) /\ backlog' \in Seq(Conns)
                 /\ \A i \in DOMAIN backlog' : i + 1 \in DOMAIN backlog /\ i + 1 # 1
                                               /\ backlog'[i] = backlog[i + 1]
                 /\ \/ \E h \in Handlers :
                        hpc[h] = "unused" /\ hpc' = [hpc EXCEPT ![h] = "start"]
                        /\ UNCHANGED left
                    \/ (\A h \in Handlers : hpc[h] # "unused") /\ UNCHANGED hpc
                       /\ left' = left \cup {f}
                 /\ raced' = (raced \/ \E h \in Handlers : hpc[h] = "start")
                 /\ UNCHANGED <<router, hsock, hcid, hfile, hreq>>
  <1>1. CASE RouterEnds("down") /\ UNCHANGED raced
    BY <1>1
  <1>2. CASE ~(RouterEnds("down") /\ UNCHANGED raced)
    <2>1. PICK f \in {g \in Rfds : fdtab[g] = None} :
          /\ accepted' = f /\ fdtab' = [fdtab EXCEPT ![f] = Head(backlog)]
          /\ rend' = [rend EXCEPT ![Head(backlog)] = "fd"] /\ backlog' = Tail(backlog)
          /\ backlog # <<>>
          /\ \/ \E h \in Handlers :
                 hpc[h] = "unused" /\ hpc' = [hpc EXCEPT ![h] = "start"]
                 /\ UNCHANGED left
             \/ (\A h \in Handlers : hpc[h] # "unused") /\ UNCHANGED hpc
                /\ left' = left \cup {f}
          /\ raced' = (raced \/ \E h \in Handlers : hpc[h] = "start")
          /\ UNCHANGED <<router, hsock, hcid, hfile, hreq>>
      BY <1>2 DEF Accept
    <2>4. backlog \in Seq(Conns)
      BY DEF TypeInv, TypeOK
    <2>5. /\ Head(backlog) = backlog[1] /\ 1 \in DOMAIN backlog /\ backlog[1] \in Conns
          /\ DOMAIN Tail(backlog) = 1..(Len(backlog) - 1) /\ Tail(backlog) \in Seq(Conns)
          /\ \A i \in DOMAIN Tail(backlog) : i + 1 \in DOMAIN backlog /\ i + 1 # 1
                                             /\ Tail(backlog)[i] = backlog[i + 1]
      BY <2>1, <2>4
    <2>6. f \in Rfds /\ fdtab[f] = None
      OBVIOUS
    <2> QED  BY <2>1, <2>5, <2>6
  <1> QED  BY <1>1, <1>2

\* The steps of the router's main thread.
LEMMA MainTypes == ASSUME TypeInv, Listen \/ Stop \/ Accept  PROVE TypeInv'
  <1> USE TypeParts, Nothing DEF TypeInv
  <1>1. CASE Listen
    BY <1>1 DEF Listen, RouterTypes, OwnerInv, HandlerInv, connVars, handlerVars
  <1>2. CASE Stop
    BY <1>2, RouterEndTypes DEF Stop
  <1>3. CASE Accept
    <2>0. UNCHANGED clientVars /\ UNCHANGED <<owner, cend, cname, req, rsp>>
      BY <1>3 DEF Accept
    <2>1. CASE RouterEnds("down") /\ UNCHANGED raced
      BY <2>0, <2>1, RouterEndTypes
    <2>2. CASE ~(RouterEnds("down") /\ UNCHANGED raced)
      <3>1. PICK f \in Rfds, c \in Conns :
                 /\ accepted' = f /\ fdtab' = [fdtab EXCEPT ![f] = c]
                 /\ c = backlog[1] /\ 1 \in DOMAIN backlog
                 /\ rend' = [rend EXCEPT ![c] = "fd"] /\ backlog' \in Seq(Conns)
                 /\ \A i \in DOMAIN backlog' : i + 1 \in DOMAIN backlog
                                               /\ backlog'[i] = backlog[i + 1]
                 /\ \/ \E h \in Handlers :
                        hpc[h] = "unused" /\ hpc' = [hpc EXCEPT ![h] = "start"]
                    \/ UNCHANGED hpc
                 /\ (UNCHANGED left \/ left' = left \cup {f})
                 /\ raced' = (raced \/ \E h \in Handlers : hpc[h] = "start")
                 /\ UNCHANGED <<router, hsock, hcid, hfile, hreq>>
        BY <1>3, <2>2, AcceptFacts
      <3>2. ConnTypes'
        BY <2>0, <3>1 DEF ConnTypes
      <3>3. RouterTypes'
        BY <3>1 DEF RouterTypes, Rfds
      <3>4. OwnerInv'
        BY <2>0, <3>1 DEF OwnerInv, ConnTypes, RouterTypes
      <3>5. HandlerTypes'
        BY <3>1 DEF HandlerTypes
      <3>6. HandlerInv'
        <4>1. f # 0
          BY DEF Rfds
        <4> QED  BY <3>1, <4>1 DEF HandlerInv, HandlerTypes
      <3> QED  BY <2>0, <3>2, <3>3, <3>4, <3>5, <3>6
    <2> QED  BY <2>1, <2>2
  <1> QED  BY <1>1, <1>2, <1>3

\* recv returns to handler h: the router's end may close.
LEMMA HandlerLetsGoTypes ==
    ASSUME TypeInv, NEW h \in Handlers, hpc[h] = "recv", HandlerLetsGo(h)
    PROVE  /\ hfile[h] \in Conns /\ hfile' = [hfile EXCEPT ![h] = None]
           /\ rend' \in [Conns -> {"none", "backlog", "fd", "dropped", "closed"}]
           /\ \A c \in Conns : rend[c] = "none" => rend'[c] = "none"
  <1>1. hfile[h] \in Conns
    BY Nothing DEF TypeInv, HandlerInv, TypeOK
  <1> QED  BY <1>1 DEF HandlerLetsGo, TypeInv, TypeOK

\* The steps of a handler.
LEMMA HandlerStepTypes == ASSUME TypeInv, NEW h \in Handlers, HandlerStep(h)  PROVE TypeInv'
  <1> USE TypeParts, Nothing DEF TypeInv
  <1>0. File(h) \in Conns \cup {None} /\ (File(h) # None => hsock[h] \in Rfds)
    BY DEF File, HandlerTypes, RouterTypes, Rfds
  <1>1. CASE HandlerStart(h)
    <2>1. hpc[h] = "start" /\ accepted \in Rfds
      BY <1>1 DEF HandlerStart, HandlerInv, RouterTypes, Rfds
    <2>2. UNCHANGED clientVars /\ UNCHANGED <<owner, cend, cname, req, rsp>>
      BY <1>1 DEF HandlerStart
    <2>3. CASE /\ fdtab[accepted] # None /\ HGoto(h, "enter")
               /\ hsock' = [hsock EXCEPT ![h] = accepted]
               /\ \E i \in PathCids(fdtab[accepted]) : hcid' = [hcid EXCEPT ![h] = i]
               /\ UNCHANGED rend /\ UNCHANGED routerVars /\ UNCHANGED <<hfile, hreq>>
      <3>1. PICK i \in PathCids(fdtab[accepted]) : hcid' = [hcid EXCEPT ![h] = i]
        BY <2>3
      <3>2. owner[fdtab[accepted]] \in Procs
        BY <2>1, <2>3 DEF OwnerInv, RouterTypes, ConnTypes
      <3>3. i \in AllCids /\ i # None
        BY <3>1, <3>2 DEF PathCids
      <3>4. HandlerTypes'
        BY <2>1, <2>3, <3>1, <3>3 DEF HandlerTypes, HGoto, Rfds
      <3>5. HandlerInv'
        BY <2>1, <2>3, <3>1, <3>3 DEF HandlerTypes, HandlerInv, HGoto, routerVars
      <3> QED  BY <2>2, <2>3, <3>4, <3>5 DEF connVars
    <2>4. CASE /\ HGoto(h, "close") /\ hsock' = [hsock EXCEPT ![h] = accepted]
               /\ UNCHANGED rend /\ UNCHANGED routerVars /\ UNCHANGED <<hcid, hfile, hreq>>
      <3>1. HandlerTypes'
        BY <2>1, <2>2, <2>4 DEF HandlerTypes, HGoto, Rfds
      <3>2. HandlerInv'
        BY <2>1, <2>2, <2>4 DEF HandlerTypes, HandlerInv, HGoto, routerVars
      <3> QED  BY <2>2, <2>4, <3>1, <3>2 DEF connVars
    <2>5. CASE RouterEnds("killed") /\ UNCHANGED raced
      BY <2>2, <2>5, RouterEndTypes
    <2> QED  BY <1>1, <2>3, <2>4, <2>5 DEF HandlerStart
  <1>2. CASE HandlerRecvEnter(h)
    <2>1. HandlerTypes'
      BY <1>0, <1>2 DEF HandlerRecvEnter, HandlerTypes, HGoto
    <2>2. HandlerInv'
      BY <1>0, <1>2 DEF HandlerRecvEnter, HandlerTypes, HandlerInv, HGoto, routerVars
    <2> QED  BY <1>2, <2>1, <2>2 DEF HandlerRecvEnter
  <1>3. CASE HandlerRecv(h)
    <2>1. /\ hpc[h] = "recv" /\ req[hfile[h]] # <<>> /\ HandlerLetsGo(h) /\ HGoto(h, "send")
          /\ hreq' = [hreq EXCEPT ![h] = Head(req[hfile[h]])]
          /\ req' = [req EXCEPT ![hfile[h]] = Tail(req[hfile[h]])]
          /\ UNCHANGED clientVars /\ UNCHANGED routerVars
          /\ UNCHANGED <<owner, cend, cname, rsp, hsock, hcid>>
      BY <1>3 DEF HandlerRecv
    <2>2. hfile[h] \in Conns /\ req[hfile[h]] \in Seq(Requests)
      BY <2>1, HandlerLetsGoTypes DEF ConnTypes
    <2>3. Head(req[hfile[h]]) \in Requests /\ Tail(req[hfile[h]]) \in Seq(Requests)
      BY <2>1, <2>2
    <2>4. ConnTypes'
      BY <2>1, <2>2, <2>3, HandlerLetsGoTypes DEF ConnTypes
    <2>5. HandlerTypes'
      BY <2>1, <2>3, HandlerLetsGoTypes DEF HandlerTypes, HGoto
    <2>6. HandlerInv'
      BY <2>1, <2>3, HandlerLetsGoTypes DEF HandlerTypes, HandlerInv, HGoto, routerVars
    <2>7. OwnerInv'
      BY <2>1, HandlerLetsGoTypes DEF OwnerInv, routerVars
    <2> QED  BY <2>1, <2>4, <2>5, <2>6, <2>7
  <1>4. CASE HandlerEof(h)
    <2>1. /\ hpc[h] = "recv" /\ HandlerLetsGo(h) /\ HGoto(h, "close")
          /\ UNCHANGED clientVars /\ UNCHANGED routerVars
          /\ UNCHANGED <<owner, cend, cname, req, rsp, hsock, hcid, hreq>>
      BY <1>4 DEF HandlerEof
    <2>2. ConnTypes'
      BY <2>1, HandlerLetsGoTypes DEF ConnTypes
    <2>3. HandlerTypes'
      BY <2>1, HandlerLetsGoTypes DEF HandlerTypes, HGoto
    <2>4. HandlerInv'
      BY <2>1, HandlerLetsGoTypes DEF HandlerTypes, HandlerInv, HGoto, routerVars
    <2>5. OwnerInv'
      BY <2>1, HandlerLetsGoTypes DEF OwnerInv, routerVars
    <2> QED  BY <2>1, <2>2, <2>3, <2>4, <2>5
  <1>5. CASE HandlerSend(h)
    <2>1. hpc[h] = "send" /\ UNCHANGED clientVars /\ UNCHANGED <<owner, cend, cname, req>>
      BY <1>5 DEF HandlerSend
    <2>2. ASSUME NEW p \in {"enter", "close"}, HGoto(h, p), hreq' = [hreq EXCEPT ![h] = None],
                 UNCHANGED routerVars, UNCHANGED <<hsock, hcid, hfile>>
          PROVE  HandlerTypes' /\ HandlerInv'
      <3>1. HandlerTypes'
        BY <2>2 DEF HandlerTypes, HGoto
      <3> QED  BY <2>1, <2>2, <3>1 DEF HandlerTypes, HandlerInv, HGoto, routerVars
    <2>3. CASE /\ File(h) # None /\ rsp' = [rsp EXCEPT ![File(h)] = @ \o Answer(h)]
               /\ HGoto(h, AfterAnswer(h)) /\ hreq' = [hreq EXCEPT ![h] = None]
               /\ UNCHANGED rend /\ UNCHANGED routerVars /\ UNCHANGED <<hsock, hcid, hfile>>
      <3>1. [req |-> hreq[h], cid |-> hcid[h]] \in Answers
        BY <2>1 DEF HandlerInv, HandlerTypes, Answers
      <3>2. rsp[File(h)] \o Answer(h) \in Seq(Answers)
        BY <1>0, <2>3, <3>1 DEF ConnTypes, Answer
      <3>3. ConnTypes'
        BY <1>0, <2>1, <2>3, <3>2 DEF ConnTypes
      <3>4. OwnerInv'
        BY <2>1, <2>3, OwnersKept
      <3> QED  BY <2>1, <2>2, <2>3, <3>3, <3>4 DEF AfterAnswer
    <2>4. CASE RouterEnds("killed") /\ UNCHANGED <<raced, rsp>>
      BY <2>1, <2>4, RouterEndTypes
    <2>5. CASE /\ HGoto(h, "close") /\ hreq' = [hreq EXCEPT ![h] = None]
               /\ UNCHANGED <<rend, rsp>> /\ UNCHANGED routerVars /\ UNCHANGED <<hsock, hcid, hfile>>
      BY <2>1, <2>2, <2>5 DEF connVars
    <2> QED  BY <1>5, <2>3, <2>4, <2>5 DEF HandlerSend
  <1>6. CASE HandlerClose(h)
    <2>1. /\ hpc[h] = "close" /\ HGoto(h, "done")
          /\ UNCHANGED clientVars /\ UNCHANGED <<owner, cend, cname, req, rsp, router, backlog>>
          /\ UNCHANGED <<accepted, raced, left>>
          /\ UNCHANGED <<hsock, hcid, hfile, hreq>>
      BY <1>6 DEF HandlerClose, AfterClose
    <2>2. \/ UNCHANGED <<rend, fdtab>>
          \/ /\ File(h) \in Conns /\ hsock[h] \in Rfds /\ fdtab' = [fdtab EXCEPT ![hsock[h]] = None]
             /\ fdtab[hsock[h]] = File(h)
             /\ \E v \in {"dropped", "closed"} : rend' = [rend EXCEPT ![File(h)] = v]
      BY <1>0, <1>6 DEF HandlerClose, File
    <2>3. HandlerTypes' /\ HandlerInv'
      BY <2>1 DEF HandlerTypes, HandlerInv, HGoto
    <2>4. ConnTypes' /\ RouterTypes'
      BY <2>1, <2>2 DEF ConnTypes, RouterTypes
    <2>5. \A f \in Rfds : fdtab'[f] # None => fdtab'[f] = fdtab[f]
      BY <2>2 DEF RouterTypes
    <2>6. \A c \in Conns : owner[c] = None => rend'[c] = rend[c]
      BY <2>2 DEF ConnTypes, OwnerInv
    <2>7. OwnerInv'
      BY <2>1, <2>5, <2>6 DEF OwnerInv
    <2> QED  BY <2>1, <2>3, <2>4, <2>7
  <1> QED  BY <1>1, <1>2, <1>3, <1>4, <1>5, <1>6 DEF HandlerStep

\* Every step keeps the types.
LEMMA TypeStep == TypeInv /\ [Next]_rpcVars => TypeInv'
  <1> SUFFICES ASSUME TypeInv, [Next]_rpcVars  PROVE TypeInv'
    OBVIOUS
  <1>1. CASE UNCHANGED rpcVars
    BY <1>1, TypeParts DEF rpcVars, TypeInv
  <1>2. ASSUME NEW p \in Procs, ProcDies(p)  PROVE TypeInv'
    BY <1>2, EndTypes DEF ProcDies
  <1>3. CASE Next
    BY <1>2, <1>3, ConnectTypes, AnswerTypes, MainTypes, HandlerStepTypes DEF Next, ThreadStep
  <1> QED  BY <1>1, <1>3

\* The invariant behind the types, in every schedule.
THEOREM TypeInvHolds == Spec => []TypeInv
  BY InitTypes, TypeStep, PTL DEF Spec

\* Every variable keeps its type, in every schedule.
THEOREM RpcTypes == Spec => []TypeOK
  <1>1. TypeInv => TypeOK
    BY DEF TypeInv
  <1> QED  BY <1>1, TypeInvHolds, PTL

-----------------------------------------------------------------------------
(***************************************************************************)
(* Every request is in one place.                                          *)
(***************************************************************************)

\* What is left of a queue when its head is taken.
LEMMA TailFacts ==
    ASSUME NEW S, NEW q \in Seq(S), q # <<>>
    PROVE  /\ 1 \in DOMAIN q /\ Head(q) = q[1]
           /\ \A i \in DOMAIN Tail(q) : i \in Nat /\ i + 1 \in DOMAIN q /\ i + 1 # 1
                                        /\ Tail(q)[i] = q[i + 1]
  OBVIOUS

\* What is in a queue that one more has joined.
LEMMA JoinFacts ==
    ASSUME NEW S, NEW q \in Seq(S), NEW v \in S
    PROVE  /\ q \o <<v>> = Append(q, v)
           /\ Len(q) + 1 \notin DOMAIN q
           /\ \A i \in DOMAIN Append(q, v) :
                 \/ i \in DOMAIN q /\ Append(q, v)[i] = q[i]
                 \/ i = Len(q) + 1 /\ Append(q, v)[i] = v
           /\ \A i \in DOMAIN q : i \in DOMAIN Append(q, v) /\ Append(q, v)[i] = q[i]
           /\ Len(q) + 1 \in DOMAIN Append(q, v) /\ Append(q, v)[Len(q) + 1] = v
  <1>1. q \o <<v>> = Append(q, v)
    <2>1. <<v>> \in Seq(S) /\ Len(<<v>>) = 1 /\ <<v>>[1] = v
      OBVIOUS
    <2>2. /\ q \o <<v>> \in Seq(S) /\ Append(q, v) \in Seq(S)
          /\ Len(q \o <<v>>) = Len(q) + 1 /\ Len(Append(q, v)) = Len(q) + 1
      BY <2>1
    <2>3. \A i \in 1..(Len(q) + 1) : (q \o <<v>>)[i] = Append(q, v)[i]
      BY <2>1
    <2> QED  BY <2>2, <2>3
  <1> QED  BY <1>1

\* A request's parts.
LEMMA RequestFacts ==
    \A r \in Requests : r[1] \in Threads /\ r[2] \in 1..MaxCalls /\ r = <<r[1], r[2]>>
  BY DEF Requests

\* A step in which requests stay where they are or are lost.
LEMMA OnceKept ==
    ASSUME OnceInv, OnceThere',
           \A k \in Kinds, x \in Places, r \in Requests : At(k, x, r)' => At(k, x, r),
           \A t \in Threads : calls'[t] = calls[t] /\ (pc'[t] \in Before => pc[t] \in Before)
    PROVE  OnceInv'
  <1>1. OnePlace'
    BY DEF OnceInv, OnePlace
  <1>2. SentInv'
    BY RequestFacts DEF OnceInv, SentInv
  <1> QED  BY <1>1, <1>2 DEF OnceInv

\* A step in which one request comes to a place, and is nowhere else.
LEMMA OnceMoved ==
    ASSUME OnceInv, OnceThere', NEW m \in Kinds, NEW z \in Places, NEW n \in Requests,
           \A k \in Kinds, x \in Places, r \in Requests :
              At(k, x, r)' => (At(k, x, r) /\ r # n) \/ (k = m /\ x = z),
           \A r \in Requests : At(m, z, r)' => At(m, z, r) \/ r = n,
           \A t \in Threads : calls'[t] = calls[t] /\ (pc'[t] \in Before => pc[t] \in Before),
           n[2] <= calls[n[1]], n[2] = calls[n[1]] => pc'[n[1]] \notin Before
    PROVE  OnceInv'
  <1>1. ASSUME NEW r \in Requests, NEW k \in Kinds, NEW l \in Kinds, NEW x \in Places,
               NEW y \in Places, At(k, x, r)', At(l, y, r)'
        PROVE  k = l /\ x = y
    <2>1. CASE r = n
      BY <1>1, <2>1
    <2>2. CASE r # n
      <3>1. At(k, x, r) /\ At(l, y, r)
        BY <1>1, <2>2
      <3> QED  BY <3>1 DEF OnceInv, OnePlace
    <2> QED  BY <2>1, <2>2
  <1>2. SentInv'
    <2> SUFFICES ASSUME NEW r \in Requests, NEW k \in Kinds, NEW x \in Places, At(k, x, r)'
                 PROVE  r[2] <= calls'[r[1]] /\ (r[2] = calls'[r[1]] => pc'[r[1]] \notin Before)
      BY DEF SentInv
    <2>1. CASE r = n
      BY <2>1, RequestFacts
    <2>2. CASE r # n
      <3>1. At(k, x, r)
        BY <2>2
      <3> QED  BY <3>1, RequestFacts DEF OnceInv, SentInv
    <2> QED  BY <2>1, <2>2
  <1> QED  BY <1>1, <1>2 DEF OnceInv, OnePlace

\* A step that moves no request.
LEMMA OnceSame ==
    ASSUME OnceInv, UNCHANGED <<req, rsp, rsp_msg, hreq>>,
           \A t \in Threads : calls'[t] = calls[t] /\ (pc'[t] \in Before => pc[t] \in Before)
    PROVE  OnceInv'
  <1>1. OnceThere'
    BY DEF OnceInv, OnceThere
  <1>2. \A k \in Kinds, x \in Places, r \in Requests : At(k, x, r)' => At(k, x, r)
    BY DEF At
  <1> QED  BY <1>1, <1>2, OnceKept

\* Only a call takes a thread back to the steps before its request.
LEMMA NoWayBack ==
    ASSUME TypeInv,
           \/ \E t \in Threads : ThreadStep(t)
           \/ \E p \in Procs : ProcDies(p)
           \/ UNCHANGED clientVars
    PROVE  \A s \in Threads : calls'[s] = calls[s] /\ (pc'[s] \in Before => pc[s] \in Before)
  <1> USE DEF Before, TypeInv, TypeOK
  <1>1. CASE UNCHANGED clientVars
    BY <1>1 DEF clientVars
  <1>2. ASSUME NEW p \in Procs, ProcEnds(p)
        PROVE  \A s \in Threads : pc'[s] \in Before => pc[s] \in Before
    BY <1>2 DEF ProcEnds
  <1>3. ASSUME NEW p \in Procs, ProcDies(p)
        PROVE  \A s \in Threads : calls'[s] = calls[s] /\ (pc'[s] \in Before => pc[s] \in Before)
    BY <1>2, <1>3 DEF ProcDies
  <1>4. ASSUME NEW t \in Threads, ThreadStep(t)
        PROVE  \A s \in Threads : calls'[s] = calls[s] /\ (pc'[s] \in Before => pc[s] \in Before)
    <2> USE DEF Goto
    <2>1. CASE Check(t) \/ Socket(t) \/ ClearCid(t) \/ ReadCid(t) \/ MakeName(t)
      BY <2>1 DEF Check, Socket, ClearCid, ReadCid, MakeName
    <2>5. CASE Bind(t) \/ Connect(t)
      BY <2>5 DEF Bind, Connect
    <2>2. CASE Close(t) \/ Reset(t) \/ RecvEnter(t)
      BY <2>2 DEF Close, Reset, RecvEnter
    <2>3. CASE RecvAnswer(t) \/ RecvEof(t) \/ RecvReset(t)
      BY <2>3 DEF RecvAnswer, RecvEof, RecvReset, LetGo
    <2>4. CASE Send(t)
      <3>1. UNCHANGED calls
        BY <2>4 DEF Send
      <3>2. CASE Goto(t, "recv") \/ Goto(t, "close")
        BY <3>1, <3>2
      <3>3. CASE ProcEnds(ProcOf[t])
        BY <1>2, <3>1, <3>3, Nothing
      <3> QED  BY <2>4, <3>2, <3>3 DEF Send
    <2> QED  BY <1>4, <2>1, <2>2, <2>3, <2>4, <2>5 DEF ThreadStep
  <1> QED  BY <1>1, <1>3, <1>4

\* Call: the number of the request is new, and the answer to the last one goes.
LEMMA CallOnce == ASSUME TypeInv, OnceInv, NEW t \in Threads, Call(t)  PROVE OnceInv'
  <1>1. /\ UNCHANGED <<req, rsp, hreq>> /\ rsp_msg' = [rsp_msg EXCEPT ![t] = None]
        /\ calls' = [calls EXCEPT ![t] = @ + 1] /\ pc' = [pc EXCEPT ![t] = "check"]
    BY DEF Call, Goto, connVars, handlerVars
  <1>2. OnceThere'
    BY <1>1 DEF OnceInv, OnceThere
  <1>3. \A k \in Kinds, x \in Places, r \in Requests : At(k, x, r)' => At(k, x, r)
    BY <1>1 DEF At, TypeInv, TypeOK
  <1>4. OnePlace'
    BY <1>3 DEF OnceInv, OnePlace
  <1>5. \A s \in Threads : calls[s] \in Nat /\ IF s = t THEN calls'[s] = calls[s] + 1
                                               ELSE calls'[s] = calls[s] /\ pc'[s] = pc[s]
    BY <1>1, Nothing DEF TypeInv, TypeOK
  <1>6. SentInv'
    <2> SUFFICES ASSUME NEW r \in Requests, NEW k \in Kinds, NEW x \in Places, At(k, x, r)'
                 PROVE  r[2] <= calls'[r[1]] /\ (r[2] = calls'[r[1]] => pc'[r[1]] \notin Before)
      BY DEF SentInv
    <2>1. r[1] \in Threads /\ r[2] \in Nat /\ r[2] <= calls[r[1]]
             /\ (r[2] = calls[r[1]] => pc[r[1]] \notin Before)
      BY <1>3, RequestFacts, Nothing DEF OnceInv, SentInv
    <2> QED  BY <1>5, <2>1
  <1> QED  BY <1>2, <1>4, <1>6 DEF OnceInv

\* Socket: what was under way on the old connection of that number is gone.
LEMMA SocketOnce == ASSUME TypeInv, OnceInv, NEW t \in Threads, Socket(t)  PROVE OnceInv'
  <1>1. ThreadStep(t)
    BY DEF ThreadStep
  <1>2. \A s \in Threads : calls'[s] = calls[s] /\ (pc'[s] \in Before => pc[s] \in Before)
    BY <1>1, NoWayBack
  <1>3. UNCHANGED <<rsp_msg, hreq>> /\ \A c \in Conns :
           /\ req'[c] = req[c] \/ req'[c] = <<>>
           /\ rsp'[c] = rsp[c] \/ rsp'[c] = <<>>
    BY DEF Socket, connVars, handlerVars, TypeInv, TypeOK
  <1>4. OnceThere'
    BY <1>3 DEF OnceInv, OnceThere
  <1>5. \A k \in Kinds, x \in Places, r \in Requests : At(k, x, r)' => At(k, x, r)
    BY <1>3 DEF At
  <1> QED  BY <1>2, <1>4, <1>5, OnceKept

\* Send: the request of the call that t is in.
LEMMA SendOnce == ASSUME TypeInv, OnceInv, NEW t \in Threads, Send(t)  PROVE OnceInv'
  <1>1. \A s \in Threads : calls'[s] = calls[s] /\ (pc'[s] \in Before => pc[s] \in Before)
    BY NoWayBack DEF ThreadStep
  <1>2. UNCHANGED <<rsp, rsp_msg, hreq>>
    BY DEF Send, handlerVars
  <1>3. CASE UNCHANGED req
    BY <1>1, <1>2, <1>3, OnceSame
  <1>4. CASE ~UNCHANGED req
    <2> DEFINE c == Sock(t)
               n == <<t, calls[t]>>
    <2>1. /\ pc[t] = "send" /\ SockState(t) = "connected" /\ pc' = [pc EXCEPT ![t] = "recv"]
          /\ req' = [req EXCEPT ![c] = Append(@, n)]
      BY <1>4 DEF Send, Goto
    <2>2. c \in Conns /\ n \in Requests /\ n[1] = t /\ n[2] = calls[t]
      BY <2>1, SockFacts DEF TypeInv, ClientInv, Requests
    <2>3. \A k \in Kinds, x \in Places : ~At(k, x, n)
      BY <2>1, <2>2 DEF OnceInv, SentInv, Before
    <2>4. req[c] \in Seq(Requests) /\ req'[c] = Append(req[c], n)
             /\ \A d \in Conns \ {c} : req'[d] = req[d]
      BY <2>1, <2>2 DEF TypeInv, TypeOK
    <2> HIDE DEF c, n
    <2>5. \A d \in Conns : \A i \in DOMAIN req[d] : req[d][i] # n
      <3> SUFFICES ASSUME NEW d \in Conns, NEW i \in DOMAIN req[d], req[d][i] = n  PROVE FALSE
        OBVIOUS
      <3>1. At("req", d, n) /\ "req" \in Kinds /\ d \in Places
        BY DEF At, Kinds, Places
      <3> QED  BY <2>3, <3>1
    <2>6. OnceThere'
      <3>1. PICK q : q = Append(req[c], n)
        OBVIOUS
      <3>2. \A i \in DOMAIN q : (i \in DOMAIN req[c] /\ q[i] = req[c][i])
                               \/ (i = Len(req[c]) + 1 /\ q[i] = n)
        BY <2>2, <2>4, <3>1, JoinFacts
      <3>3. \A i, j \in DOMAIN q : q[i] = q[j] => i = j
        BY <2>2, <2>5, <3>2 DEF OnceInv, OnceThere
      <3>4. req'[c] = q
        BY <2>4, <3>1
      <3>5. ASSUME NEW d \in Conns
            PROVE  /\ \A i, j \in DOMAIN req'[d] : req'[d][i] = req'[d][j] => i = j
                   /\ \A i, j \in DOMAIN rsp[d] : rsp[d][i].req = rsp[d][j].req => i = j
        <4>1. CASE d = c
          BY <3>3, <3>4, <4>1 DEF OnceInv, OnceThere
        <4>2. CASE d # c
          BY <2>4, <4>2 DEF OnceInv, OnceThere
        <4> QED  BY <4>1, <4>2
      <3> QED  BY <1>2, <3>5 DEF OnceThere
    <2>7. \A x \in Places, r \in Requests : At("req", x, r)' => At("req", x, r) \/ (x = c /\ r = n)
      BY <2>2, <2>4, JoinFacts DEF At
    <2>8. \A k \in Kinds, x \in Places, r \in Requests :
             k # "req" => (At(k, x, r)' <=> At(k, x, r))
      BY <1>2 DEF At
    <2>9. "req" \in Kinds /\ c \in Places
      BY <2>2 DEF Kinds, Places
    <2>10. pc'[t] = "recv" /\ "recv" \notin Before
      BY <2>1 DEF TypeInv, TypeOK, Before
    <2>11. calls[t] \in Nat
      BY Nothing DEF TypeInv, TypeOK
    <2>12. \A k \in Kinds, x \in Places, r \in Requests :
              At(k, x, r)' => (At(k, x, r) /\ r # n) \/ (k = "req" /\ x = c)
      BY <2>3, <2>7, <2>8
    <2> QED  BY <1>1, <2>2, <2>6, <2>7, <2>9, <2>10, <2>11, <2>12, OnceMoved
  <1> QED  BY <1>3, <1>4

\* RecvAnswer: the first answer goes from the connection to the thread.
LEMMA AnswerOnce == ASSUME TypeInv, OnceInv, NEW t \in Threads, RecvAnswer(t)  PROVE OnceInv'
  <1> DEFINE c == cfile[t]
             a == Head(rsp[c])
  <1>1. \A s \in Threads : calls'[s] = calls[s] /\ (pc'[s] \in Before => pc[s] \in Before)
    BY NoWayBack DEF ThreadStep
  <1>2. /\ pc[t] = "waiting" /\ rsp[c] # <<>> /\ rsp_msg' = [rsp_msg EXCEPT ![t] = a]
        /\ rsp' = [rsp EXCEPT ![c] = Tail(rsp[c])] /\ UNCHANGED <<req, hreq>>
    BY DEF RecvAnswer, LetGo, handlerVars
  <1>3. c \in Conns /\ rsp[c] \in Seq(Answers)
    BY <1>2, Nothing DEF TypeInv, ClientInv, TypeOK
  <1>4. /\ rsp'[c] = Tail(rsp[c]) /\ \A d \in Conns \ {c} : rsp'[d] = rsp[d]
        /\ rsp_msg'[t] = a /\ \A s \in Threads \ {t} : rsp_msg'[s] = rsp_msg[s]
    BY <1>2, <1>3 DEF TypeInv, TypeOK
  <1>5. /\ 1 \in DOMAIN rsp[c] /\ a = rsp[c][1] /\ a.req \in Requests
        /\ \A i \in DOMAIN Tail(rsp[c]) : i \in Nat /\ i + 1 \in DOMAIN rsp[c] /\ i + 1 # 1
                                          /\ Tail(rsp[c])[i] = rsp[c][i + 1]
    <2>1. 1 \in DOMAIN rsp[c] /\ a = rsp[c][1] /\ a \in Answers
      BY <1>2, <1>3, TailFacts
    <2>2. \A i \in DOMAIN Tail(rsp[c]) : i \in Nat /\ i + 1 \in DOMAIN rsp[c] /\ i + 1 # 1
                                         /\ Tail(rsp[c])[i] = rsp[c][i + 1]
      BY <1>2, <1>3, TailFacts
    <2> QED  BY <2>1, <2>2 DEF Answers
  <1> HIDE DEF a, c
  <1>6. PICK n \in Requests : n = a.req
    BY <1>5
  <1>7. OnceThere'
    <2>1. \A i, j \in DOMAIN Tail(rsp[c]) : Tail(rsp[c])[i].req = Tail(rsp[c])[j].req => i = j
      <3> SUFFICES ASSUME NEW i \in DOMAIN Tail(rsp[c]), NEW j \in DOMAIN Tail(rsp[c]),
                          Tail(rsp[c])[i].req = Tail(rsp[c])[j].req
                   PROVE  i = j
        OBVIOUS
      <3>1. i + 1 = j + 1 /\ i \in Nat /\ j \in Nat
        BY <1>3, <1>5 DEF OnceInv, OnceThere
      <3> QED  BY <3>1
    <2> QED  BY <1>2, <1>3, <1>4, <2>1 DEF OnceInv, OnceThere
  <1>8. "rsp" \in Kinds /\ "msg" \in Kinds /\ c \in Places /\ t \in Places /\ At("rsp", c, n)
    BY <1>3, <1>5, <1>6 DEF Kinds, Places, At
  <1>9. \A k \in Kinds, x \in Places : At(k, x, n) => k = "rsp" /\ x = c
    BY <1>8 DEF OnceInv, OnePlace
  <1>10. \A x \in Places, r \in Requests : At("rsp", x, r)' => At("rsp", x, r) /\ (x = c => r # n)
    <2> SUFFICES ASSUME NEW x \in Conns, NEW r \in Requests, NEW i \in DOMAIN rsp'[x],
                        rsp'[x][i].req = r
                 PROVE  At("rsp", x, r) /\ (x = c => r # n)
      BY DEF At
    <2>1. CASE x = c
      <3>1. i \in DOMAIN Tail(rsp[c]) /\ Tail(rsp[c])[i].req = r
        BY <1>4, <2>1
      <3>2. i + 1 \in DOMAIN rsp[c] /\ i + 1 # 1 /\ rsp[c][i + 1].req = r
        BY <1>5, <3>1
      <3>3. r # n
        BY <1>3, <1>5, <1>6, <3>2 DEF OnceInv, OnceThere
      <3> QED  BY <2>1, <3>2, <3>3 DEF At
    <2>2. CASE x # c
      BY <1>4, <2>2 DEF At
    <2> QED  BY <2>1, <2>2
  <1>11. \A k \in Kinds, x \in Places, r \in Requests :
            k \in {"req", "serve"} => (At(k, x, r)' <=> At(k, x, r))
    BY <1>2 DEF At
  <1>12. \A x \in Places, r \in Requests :
            At("msg", x, r)' => (At("msg", x, r) /\ x # t) \/ (x = t /\ r = n)
    BY <1>4, <1>6 DEF At
  <1>13. \A k \in Kinds, x \in Places, r \in Requests :
            At(k, x, r)' => (At(k, x, r) /\ r # n) \/ (k = "msg" /\ x = t)
    BY <1>9, <1>10, <1>11, <1>12 DEF Kinds
  <1>14. /\ \A r \in Requests : At("msg", t, r)' => At("msg", t, r) \/ r = n
         /\ n[2] <= calls[n[1]] /\ (n[2] = calls[n[1]] => pc'[n[1]] \notin Before)
    BY <1>1, <1>8, <1>12, RequestFacts DEF OnceInv, SentInv
  <1> QED  BY <1>1, <1>7, <1>8, <1>13, <1>14, OnceMoved

\* RecvReset: the requests that were not read are gone.
LEMMA ResetOnce == ASSUME TypeInv, OnceInv, NEW t \in Threads, RecvReset(t)  PROVE OnceInv'
  <1>1. \A s \in Threads : calls'[s] = calls[s] /\ (pc'[s] \in Before => pc[s] \in Before)
    BY NoWayBack DEF ThreadStep
  <1>2. UNCHANGED <<rsp, rsp_msg, hreq>> /\ \A c \in Conns : req'[c] = req[c] \/ req'[c] = <<>>
    BY DEF RecvReset, LetGo, handlerVars, TypeInv, TypeOK
  <1>3. OnceThere'
    BY <1>2 DEF OnceInv, OnceThere
  <1>4. \A k \in Kinds, x \in Places, r \in Requests : At(k, x, r)' => At(k, x, r)
    BY <1>2 DEF At
  <1> QED  BY <1>1, <1>3, <1>4, OnceKept

\* The router ends, with the requests its handlers serve.
LEMMA RouterEndOnce ==
    ASSUME TypeInv, OnceInv, NEW how, RouterEnds(how), UNCHANGED clientVars,
           UNCHANGED <<req, rsp>>
    PROVE  OnceInv'
  <1>1. \A s \in Threads : calls'[s] = calls[s] /\ (pc'[s] \in Before => pc[s] \in Before)
    BY NoWayBack
  <1>2. UNCHANGED rsp_msg /\ \A h \in Handlers : hreq'[h] = None
    BY DEF clientVars, RouterEnds
  <1>3. OnceThere'
    BY <1>2 DEF OnceInv, OnceThere
  <1>4. \A k \in Kinds, x \in Places, r \in Requests : At(k, x, r)' => At(k, x, r)
    BY <1>2, Nothing DEF At
  <1> QED  BY <1>1, <1>3, <1>4, OnceKept

\* HandlerRecv: the first request goes from the connection to the handler.
LEMMA ServeOnce ==
    ASSUME TypeInv, OnceInv, NEW h \in Handlers, HandlerRecv(h)  PROVE OnceInv'
  <1> DEFINE c == hfile[h]
             m == Head(req[c])
  <1>1. \A s \in Threads : calls'[s] = calls[s] /\ (pc'[s] \in Before => pc[s] \in Before)
    BY NoWayBack DEF HandlerRecv
  <1>2. /\ hpc[h] = "recv" /\ req[c] # <<>> /\ hreq' = [hreq EXCEPT ![h] = m]
        /\ req' = [req EXCEPT ![c] = Tail(req[c])] /\ UNCHANGED <<rsp, rsp_msg>>
    BY DEF HandlerRecv, clientVars
  <1>3. c \in Conns /\ req[c] \in Seq(Requests)
    BY <1>2, Nothing DEF TypeInv, HandlerInv, TypeOK
  <1>4. /\ req'[c] = Tail(req[c]) /\ \A d \in Conns \ {c} : req'[d] = req[d]
        /\ hreq'[h] = m /\ \A g \in Handlers \ {h} : hreq'[g] = hreq[g]
    BY <1>2, <1>3 DEF TypeInv, TypeOK
  <1>5. /\ 1 \in DOMAIN req[c] /\ m = req[c][1] /\ m \in Requests
        /\ \A i \in DOMAIN Tail(req[c]) : i \in Nat /\ i + 1 \in DOMAIN req[c] /\ i + 1 # 1
                                          /\ Tail(req[c])[i] = req[c][i + 1]
    BY <1>2, <1>3, TailFacts
  <1> HIDE DEF m, c
  <1>6. PICK n \in Requests : n = m
    BY <1>5
  <1>7. OnceThere'
    <2>1. \A i, j \in DOMAIN Tail(req[c]) : Tail(req[c])[i] = Tail(req[c])[j] => i = j
      <3> SUFFICES ASSUME NEW i \in DOMAIN Tail(req[c]), NEW j \in DOMAIN Tail(req[c]),
                          Tail(req[c])[i] = Tail(req[c])[j]
                   PROVE  i = j
        OBVIOUS
      <3>1. i + 1 = j + 1 /\ i \in Nat /\ j \in Nat
        BY <1>3, <1>5 DEF OnceInv, OnceThere
      <3> QED  BY <3>1
    <2> QED  BY <1>2, <1>3, <1>4, <2>1 DEF OnceInv, OnceThere
  <1>8. "req" \in Kinds /\ "serve" \in Kinds /\ c \in Places /\ h \in Places /\ At("req", c, n)
    BY <1>3, <1>5, <1>6 DEF Kinds, Places, At
  <1>9. \A k \in Kinds, x \in Places : At(k, x, n) => k = "req" /\ x = c
    BY <1>8 DEF OnceInv, OnePlace
  <1>10. \A x \in Places, r \in Requests : At("req", x, r)' => At("req", x, r) /\ (x = c => r # n)
    <2> SUFFICES ASSUME NEW x \in Conns, NEW r \in Requests, NEW i \in DOMAIN req'[x],
                        req'[x][i] = r
                 PROVE  At("req", x, r) /\ (x = c => r # n)
      BY DEF At
    <2>1. CASE x = c
      <3>1. i \in DOMAIN Tail(req[c]) /\ Tail(req[c])[i] = r
        BY <1>4, <2>1
      <3>2. i + 1 \in DOMAIN req[c] /\ i + 1 # 1 /\ req[c][i + 1] = r
        BY <1>5, <3>1
      <3>3. r # n
        BY <1>3, <1>5, <1>6, <3>2 DEF OnceInv, OnceThere
      <3> QED  BY <2>1, <3>2, <3>3 DEF At
    <2>2. CASE x # c
      BY <1>4, <2>2 DEF At
    <2> QED  BY <2>1, <2>2
  <1>11. \A k \in Kinds, x \in Places, r \in Requests :
            k \in {"rsp", "msg"} => (At(k, x, r)' <=> At(k, x, r))
    BY <1>2 DEF At
  <1>12. \A x \in Places, r \in Requests :
            At("serve", x, r)' => (At("serve", x, r) /\ x # h) \/ (x = h /\ r = n)
    BY <1>4, <1>6 DEF At
  <1>13. \A k \in Kinds, x \in Places, r \in Requests :
            At(k, x, r)' => (At(k, x, r) /\ r # n) \/ (k = "serve" /\ x = h)
    BY <1>9, <1>10, <1>11, <1>12 DEF Kinds
  <1>14. /\ \A r \in Requests : At("serve", h, r)' => At("serve", h, r) \/ r = n
         /\ n[2] <= calls[n[1]] /\ (n[2] = calls[n[1]] => pc'[n[1]] \notin Before)
    BY <1>1, <1>8, <1>12, RequestFacts DEF OnceInv, SentInv
  <1> QED  BY <1>1, <1>7, <1>8, <1>13, <1>14, OnceMoved

\* HandlerSend: the answer goes to the handler's connection, or is lost.
LEMMA RespondOnce ==
    ASSUME TypeInv, OnceInv, NEW h \in Handlers, HandlerSend(h)  PROVE OnceInv'
  <1>1. /\ \A s \in Threads : calls'[s] = calls[s] /\ (pc'[s] \in Before => pc[s] \in Before)
        /\ UNCHANGED clientVars /\ UNCHANGED <<req, rsp_msg>> /\ hpc[h] = "send"
    BY NoWayBack DEF HandlerSend, clientVars
  <1>2. CASE RouterEnds("killed") /\ UNCHANGED rsp
    BY <1>1, <1>2, RouterEndOnce
  <1>3. CASE UNCHANGED rsp /\ hreq' = [hreq EXCEPT ![h] = None]
    <2>1. OnceThere'
      BY <1>1, <1>3 DEF OnceInv, OnceThere
    <2>2. \A k \in Kinds, x \in Places, r \in Requests : At(k, x, r)' => At(k, x, r)
      BY <1>1, <1>3, Nothing DEF At, TypeInv, TypeOK
    <2> QED  BY <1>1, <2>1, <2>2, OnceKept
  <1>4. CASE /\ File(h) # None /\ rsp' = [rsp EXCEPT ![File(h)] = @ \o Answer(h)]
             /\ hreq' = [hreq EXCEPT ![h] = None]
    <2> DEFINE c == File(h)
               a == [req |-> hreq[h], cid |-> hcid[h]]
    <2>1. c \in Conns /\ a \in Answers /\ rsp[c] \in Seq(Answers)
      <3>1. c \in Conns
        BY <1>4 DEF File, TypeInv, TypeOK, Rfds
      <3>2. hreq[h] \in Requests /\ hcid[h] \in AllCids
        BY <1>1 DEF TypeInv, TypeOK, HandlerInv
      <3>3. a \in Answers
        BY <3>2 DEF Answers
      <3> QED  BY <3>1, <3>3 DEF TypeInv, TypeOK
    <2>2. /\ rsp'[c] = Append(rsp[c], a) /\ \A d \in Conns \ {c} : rsp'[d] = rsp[d]
          /\ hreq'[h] = None /\ \A g \in Handlers \ {h} : hreq'[g] = hreq[g]
      BY <1>4, <2>1, JoinFacts DEF Answer, TypeInv, TypeOK
    <2>3. PICK n \in Requests : n = hreq[h] /\ n = a.req
      BY <2>1 DEF Answers
    <2> HIDE DEF a, c
    <2>4. "serve" \in Kinds /\ "rsp" \in Kinds /\ c \in Places /\ h \in Places /\ At("serve", h, n)
      BY <2>1, <2>3 DEF Kinds, Places, At
    <2>5. \A k \in Kinds, x \in Places : At(k, x, n) => k = "serve" /\ x = h
      BY <2>4 DEF OnceInv, OnePlace
    <2>6. \A i \in DOMAIN rsp[c] : rsp[c][i].req # n
      <3> SUFFICES ASSUME NEW i \in DOMAIN rsp[c], rsp[c][i].req = n  PROVE FALSE
        OBVIOUS
      <3>1. At("rsp", c, n)
        BY <2>1 DEF At
      <3> QED  BY <2>4, <2>5, <3>1
    <2>7. PICK q : q = Append(rsp[c], a)
      OBVIOUS
    <2>8. \A i \in DOMAIN q : (i \in DOMAIN rsp[c] /\ q[i] = rsp[c][i])
                              \/ (i = Len(rsp[c]) + 1 /\ q[i] = a)
      BY <2>1, <2>7, JoinFacts
    <2>9. OnceThere'
      <3>1. \A i, j \in DOMAIN q : q[i].req = q[j].req => i = j
        BY <2>1, <2>3, <2>6, <2>8 DEF OnceInv, OnceThere
      <3>2. ASSUME NEW d \in Conns
            PROVE  /\ \A i, j \in DOMAIN req[d] : req[d][i] = req[d][j] => i = j
                   /\ \A i, j \in DOMAIN rsp'[d] : rsp'[d][i].req = rsp'[d][j].req => i = j
        <4>1. CASE d = c
          <5>1. rsp'[d] = q
            BY <2>2, <2>7, <4>1
          <5> QED  BY <3>1, <5>1 DEF OnceInv, OnceThere
        <4>2. CASE d # c
          BY <2>2, <4>2 DEF OnceInv, OnceThere
        <4> QED  BY <4>1, <4>2
      <3> QED  BY <1>1, <3>2 DEF OnceThere
    <2>10. \A x \in Places, r \in Requests : At("rsp", x, r)' => At("rsp", x, r) \/ (x = c /\ r = n)
      <3> SUFFICES ASSUME NEW x \in Conns, NEW r \in Requests, NEW i \in DOMAIN rsp'[x],
                          rsp'[x][i].req = r
                   PROVE  At("rsp", x, r) \/ (x = c /\ r = n)
        BY DEF At
      <3>1. CASE x = c
        BY <2>2, <2>3, <2>7, <2>8, <3>1 DEF At
      <3>2. CASE x # c
        BY <2>2, <3>2 DEF At
      <3> QED  BY <3>1, <3>2
    <2>11. \A k \in Kinds, x \in Places, r \in Requests :
              k \in {"req", "msg"} => (At(k, x, r)' <=> At(k, x, r))
      BY <1>1 DEF At
    <2>12. \A x \in Places, r \in Requests : At("serve", x, r)' => At("serve", x, r) /\ x # h
      BY <2>2, Nothing DEF At
    <2>13. \A k \in Kinds, x \in Places, r \in Requests :
              At(k, x, r)' => (At(k, x, r) /\ r # n) \/ (k = "rsp" /\ x = c)
      BY <2>5, <2>10, <2>11, <2>12 DEF Kinds
    <2>14. n[2] <= calls[n[1]] /\ (n[2] = calls[n[1]] => pc'[n[1]] \notin Before)
      BY <1>1, <2>4, RequestFacts DEF OnceInv, SentInv
    <2> QED  BY <1>1, <2>4, <2>9, <2>10, <2>13, <2>14, OnceMoved
  <1> QED  BY <1>2, <1>3, <1>4 DEF HandlerSend

\* Initially there are no requests.
LEMMA InitOnce == Init => OnceInv
  <1> SUFFICES ASSUME Init  PROVE OnceInv
    OBVIOUS
  <1>1. \A k \in Kinds, x \in Places, r \in Requests : ~At(k, x, r)
    BY Nothing DEF Init, At
  <1>2. OnceThere
    BY DEF Init, OnceThere
  <1> QED  BY <1>1, <1>2 DEF OnceInv, OnePlace, SentInv

\* Every step keeps the requests in one place each.
LEMMA OnceStep == TypeInv /\ OnceInv /\ [Next]_rpcVars => OnceInv'
  <1> SUFFICES ASSUME TypeInv, OnceInv, [Next]_rpcVars  PROVE OnceInv'
    OBVIOUS
  <1>1. ASSUME UNCHANGED clientVars, UNCHANGED <<req, rsp, hreq>>  PROVE OnceInv'
    BY <1>1, NoWayBack, OnceSame DEF clientVars
  <1>2. CASE UNCHANGED rpcVars
    BY <1>1, <1>2 DEF rpcVars, connVars, handlerVars
  <1>3. ASSUME NEW t \in Threads, ThreadStep(t), UNCHANGED <<req, rsp, rsp_msg, hreq>>
        PROVE  OnceInv'
    BY <1>3, NoWayBack, OnceSame
  <1>4. ASSUME NEW t \in Threads,
               \/ Check(t) \/ ClearCid(t) \/ ReadCid(t) \/ MakeName(t) \/ Bind(t) \/ Connect(t)
               \/ Close(t) \/ Reset(t) \/ RecvEnter(t) \/ RecvEof(t)
        PROVE  OnceInv'
    <2>1. UNCHANGED <<req, rsp, rsp_msg, hreq>>
      BY <1>4 DEF Check, ClearCid, ReadCid, MakeName, Bind, Connect, Close, Reset, RecvEnter,
                  RecvEof, LetGo, connVars, handlerVars
    <2>2. ThreadStep(t)
      BY <1>4 DEF ThreadStep
    <2> QED  BY <1>3, <2>1, <2>2
  <1>5. ASSUME NEW p \in Procs, ProcDies(p)  PROVE OnceInv'
    BY <1>5, NoWayBack, OnceSame DEF ProcDies, handlerVars
  <1>6. CASE Listen \/ Stop \/ Accept
    <2>1. UNCHANGED clientVars /\ UNCHANGED <<req, rsp>>
      BY <1>6 DEF Listen, Stop, Accept, connVars
    <2>2. UNCHANGED hreq \/ RouterEnds("down")
      BY <1>6 DEF Listen, Stop, Accept, handlerVars
    <2> QED  BY <1>1, <2>1, <2>2, RouterEndOnce
  <1>9. ASSUME NEW h \in Handlers, HandlerStart(h)  PROVE OnceInv'
    <2>1. UNCHANGED clientVars /\ UNCHANGED <<req, rsp>> /\ (UNCHANGED hreq \/ RouterEnds("killed"))
      BY <1>9 DEF HandlerStart
    <2> QED  BY <1>1, <2>1, RouterEndOnce
  <1>7. ASSUME NEW h \in Handlers,
               HandlerRecvEnter(h) \/ HandlerEof(h) \/ HandlerClose(h)
        PROVE  OnceInv'
    BY <1>1, <1>7 DEF HandlerRecvEnter, HandlerEof, HandlerClose, connVars
  <1>8. CASE Next
    BY <1>4, <1>5, <1>6, <1>7, <1>8, <1>9, CallOnce, SocketOnce, SendOnce, AnswerOnce, ResetOnce,
       ServeOnce, RespondOnce DEF Next, ThreadStep, HandlerStep
  <1> QED  BY <1>2, <1>8

\* No request is in two places, in any schedule.
THEOREM OnceInvHolds == Spec => []OnceInv
  BY InitOnce, TypeInvHolds, OnceStep, PTL DEF Spec

\* No two calls return with the same answer.
THEOREM RpcAnsweredOnce == Spec => []AnsweredOnce
  <1>1. ASSUME TypeInv, OnceInv  PROVE AnsweredOnce
    <2> SUFFICES ASSUME NEW s \in Threads, NEW t \in Threads, s # t, rsp_msg[s] # None,
                        rsp_msg[t] # None, rsp_msg[s].req = rsp_msg[t].req
                 PROVE  FALSE
      BY DEF AnsweredOnce
    <2>1. rsp_msg[s].req \in Requests
      BY <1>1 DEF TypeInv, TypeOK, Answers
    <2>2. PICK r \in Requests : r = rsp_msg[s].req /\ r = rsp_msg[t].req
      BY <2>1
    <2>3. At("msg", s, r) /\ At("msg", t, r) /\ "msg" \in Kinds /\ s \in Places /\ t \in Places
      BY <2>2 DEF At, Kinds, Places
    <2> QED  BY <1>1, <2>3 DEF OnceInv, OnePlace
  <1>2. TypeInv /\ OnceInv => AnsweredOnce
    BY <1>1
  <1> QED  BY <1>2, TypeInvHolds, OnceInvHolds, PTL
=============================================================================
