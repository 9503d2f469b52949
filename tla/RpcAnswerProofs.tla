-------------------------- MODULE RpcAnswerProofs ---------------------------
(***************************************************************************)
(* The last proofs about RpcChannel: whose answer a call returns with,     *)
(* until the router's threads race.  It is one to a call of the same       *)
(* process, made for its container, or, if threads share the process, for  *)
(* none; if no two threads share a process, it is the answer to that very  *)
(* call.                                                                   *)
(***************************************************************************)
EXTENDS RpcHandlerProofs

(***************************************************************************)
(* The name of a socket.                                                   *)
(***************************************************************************)

\* Process p has two threads.
Shared(p) == \E s, t \in Threads : s # t /\ ProcOf[s] = p /\ ProcOf[t] = p

\* A thread alone in its process finds in the buffer what it has written,
BufInv ==
    \A t \in Threads :
        /\ pc[t] = "tail" => "head" \in cid[ProcOf[t]] \/ Shared(ProcOf[t])
        /\ pc[t] = "name" => cid[ProcOf[t]] = Parts \/ Shared(ProcOf[t])

\* so that a name is cut only where threads share a buffer.
CutInv ==
    /\ \A t \in Threads : name[t] = "cut" => Shared(ProcOf[t])
    /\ \A c \in Conns : cname[c] = "cut" => Shared(owner[c])

NameInv == BufInv /\ CutInv

\* Container i is that of process p, or none at all.
CidOk(p, i) == i = PathCid(p) \/ (i = CutCid /\ Shared(p))

\* Initially nothing is named.
LEMMA InitNames == Init => NameInv
  BY Nothing DEF Init, NameInv, BufInv, CutInv, Names

\* A step that leaves buffers and names alone and takes nobody into ReadCid or
\* MakeName.
LEMMA NamesSame ==
    ASSUME NameInv, UNCHANGED <<cid, name, cname, owner>>,
           \A t \in Threads : pc'[t] \in {"tail", "name"} => pc'[t] = pc[t]
    PROVE  NameInv'
  BY DEF NameInv, BufInv, CutInv

\* What a thread writes into the buffer of its process does not concern a
\* thread that is alone in another.
LEMMA OthersBuffer ==
    ASSUME TypeInv, NEW t \in Threads, NEW v, cid' = [cid EXCEPT ![ProcOf[t]] = v],
           NEW s \in Threads \ {t}
    PROVE  cid'[ProcOf[s]] = cid[ProcOf[s]] \/ Shared(ProcOf[s])
  BY Nothing DEF Shared, TypeInv, TypeOK

\* Every step keeps the names.
LEMMA NamesStep == TypeInv /\ NameInv /\ [Next]_rpcVars => NameInv'
  <1> SUFFICES ASSUME TypeInv, NameInv, [Next]_rpcVars  PROVE NameInv'
    OBVIOUS
  <1> USE DEF Goto, TypeInv, TypeOK
  <1>1. CASE UNCHANGED clientVars /\ UNCHANGED <<owner, cname>>
    BY <1>1, NamesSame DEF clientVars
  <1>2. CASE UNCHANGED rpcVars
    BY <1>1, <1>2 DEF rpcVars, connVars
  <1>3. CASE Listen \/ Stop \/ Accept \/ \E h \in Handlers : HandlerStep(h)
    <2>1. UNCHANGED clientVars /\ UNCHANGED <<owner, cname>>
      BY <1>3 DEF Listen, Stop, Accept, HandlerStep, HandlerStart, HandlerRecvEnter, HandlerRecv,
                  HandlerEof, HandlerSend, HandlerClose, connVars
    <2> QED  BY <1>1, <2>1
  <1>4. ASSUME NEW p \in Procs, ProcEnds(p), UNCHANGED <<cid, cname, owner>>  PROVE NameInv'
    <2>1. /\ \A t \in Threads : pc'[t] = "dead" \/ pc'[t] = pc[t]
          /\ \A t \in Threads : name'[t] = None \/ name'[t] = name[t]
      BY <1>4 DEF ProcEnds
    <2> QED  BY <1>4, <2>1, Nothing DEF NameInv, BufInv, CutInv, Names
  <1>5. ASSUME NEW p \in Procs, ProcDies(p)  PROVE NameInv'
    BY <1>4, <1>5 DEF ProcDies
  <1>6. ASSUME NEW t \in Threads,
               \/ Call(t) \/ Check(t) \/ Connect(t) \/ Close(t) \/ Reset(t) \/ RecvEnter(t)
        PROVE  NameInv'
    <2>1. UNCHANGED <<cid, name, cname, owner>>
      BY <1>6 DEF Call, Check, Connect, Close, Reset, RecvEnter, connVars
    <2>2. \A s \in Threads : pc'[s] \in {"tail", "name"} => pc'[s] = pc[s]
      BY <1>6 DEF Call, Check, Connect, Close, Reset, RecvEnter
    <2> QED  BY <2>1, <2>2, NamesSame
  <1>7. ASSUME NEW t \in Threads, RecvAnswer(t) \/ RecvEof(t) \/ RecvReset(t)  PROVE NameInv'
    <2>1. UNCHANGED <<cid, name, cname, owner>>
      BY <1>7 DEF RecvAnswer, RecvEof, RecvReset, LetGo
    <2>2. \A s \in Threads : pc'[s] \in {"tail", "name"} => pc'[s] = pc[s]
      BY <1>7 DEF RecvAnswer, RecvEof, RecvReset
    <2> QED  BY <2>1, <2>2, NamesSame
  <1>8. ASSUME NEW t \in Threads, Send(t)  PROVE NameInv'
    <2>1. UNCHANGED <<cid, cname, owner>>
      BY <1>8 DEF Send
    <2>2. CASE ProcEnds(ProcOf[t])
      BY <1>4, <2>1, <2>2, Nothing
    <2>3. CASE ~ProcEnds(ProcOf[t])
      <3>1. UNCHANGED name /\ \A s \in Threads : pc'[s] \in {"tail", "name"} => pc'[s] = pc[s]
        BY <1>8, <2>3 DEF Send
      <3> QED  BY <2>1, <3>1, NamesSame
    <2> QED  BY <2>2, <2>3
  <1>9. ASSUME NEW t \in Threads, Socket(t)  PROVE NameInv'
    <2>1. UNCHANGED <<cid, name>> /\ \A s \in Threads : pc'[s] \in {"tail", "name"} => pc'[s] = pc[s]
      BY <1>9 DEF Socket
    <2>2. CASE UNCHANGED connVars
      BY <2>1, <2>2, NamesSame DEF connVars
    <2>3. CASE ~UNCHANGED connVars
      <3>1. PICK c \in Conns :
               cname' = [cname EXCEPT ![c] = None] /\ owner' = [owner EXCEPT ![c] = ProcOf[t]]
        BY <1>9, <2>3 DEF Socket
      <3>2. \A d \in Conns : cname'[d] = "cut" => cname[d] = "cut" /\ owner'[d] = owner[d]
        BY <3>1, Nothing DEF Names
      <3> QED  BY <2>1, <3>2 DEF NameInv, BufInv, CutInv
    <2> QED  BY <2>2, <2>3
  <1>10. ASSUME NEW t \in Threads, ClearCid(t)  PROVE NameInv'
    <2>1. /\ UNCHANGED <<name, cname, owner>> /\ cid' = [cid EXCEPT ![ProcOf[t]] = {}]
          /\ pc'[t] = "head" /\ \A s \in Threads \ {t} : pc'[s] = pc[s]
      BY <1>10 DEF ClearCid, connVars
    <2>2. BufInv'
      BY <2>1, OthersBuffer DEF NameInv, BufInv
    <2> QED  BY <2>1, <2>2 DEF NameInv, CutInv
  <1>11. ASSUME NEW t \in Threads, ReadCid(t)  PROVE NameInv'
    <2>1. UNCHANGED <<name, cname, owner>> /\ \A s \in Threads \ {t} : pc'[s] = pc[s]
      BY <1>11 DEF ReadCid, connVars
    <2>2. PICK v \in {{}, {"head"}, {"tail"}} :
             /\ cid' = [cid EXCEPT ![ProcOf[t]] = @ \cup v]
             /\ pc'[t] = "tail" => v = {"head"}
             /\ pc'[t] = "name" => pc[t] = "tail" /\ v = {"tail"}
      <3>1. CASE cid' = [cid EXCEPT ![ProcOf[t]] = @ \cup {"head"}] /\ Goto(t, "tail")
        BY <3>1
      <3>2. CASE /\ pc[t] = "tail" /\ cid' = [cid EXCEPT ![ProcOf[t]] = @ \cup {"tail"}]
                 /\ Goto(t, "name")
        BY <3>2
      <3>3. CASE Goto(t, "idle") /\ UNCHANGED cid
        <4>1. cid' = [cid EXCEPT ![ProcOf[t]] = @ \cup {}] /\ pc'[t] = "idle"
          BY <3>3
        <4> QED  BY <4>1
      <3> QED  BY <1>11, <3>1, <3>2, <3>3 DEF ReadCid
    <2>3. cid'[ProcOf[t]] = cid[ProcOf[t]] \cup v /\ cid[ProcOf[t]] \subseteq Parts
      BY <2>2, Nothing
    <2>4. ASSUME NEW s \in Threads \ {t}
          PROVE  cid'[ProcOf[s]] = cid[ProcOf[s]] \/ Shared(ProcOf[s])
      BY <2>2, OthersBuffer
    <2>5. pc'[t] = "tail" => "head" \in cid'[ProcOf[t]]
      BY <2>2, <2>3
    <2>6. pc'[t] = "name" => cid'[ProcOf[t]] = Parts \/ Shared(ProcOf[t])
      BY <2>2, <2>3 DEF NameInv, BufInv, Parts
    <2>7. BufInv'
      BY <2>1, <2>4, <2>5, <2>6 DEF NameInv, BufInv
    <2> QED  BY <2>1, <2>7 DEF NameInv, CutInv
  <1>12. ASSUME NEW t \in Threads, MakeName(t)  PROVE NameInv'
    <2>1. /\ UNCHANGED <<cid, cname, owner>> /\ pc[t] = "name"
          /\ \A s \in Threads : pc'[s] \in {"tail", "name"} => pc'[s] = pc[s]
      BY <1>12 DEF MakeName, connVars
    <2>2. name' = [name EXCEPT ![t] = IF cid[ProcOf[t]] = Parts THEN "whole" ELSE "cut"]
      BY <1>12 DEF MakeName
    <2>3. \A s \in Threads : name'[s] = "cut" => Shared(ProcOf[s])
      BY <2>1, <2>2 DEF NameInv, BufInv, CutInv
    <2> QED  BY <2>1, <2>3 DEF NameInv, BufInv, CutInv
  <1>13. ASSUME NEW t \in Threads, Bind(t)  PROVE NameInv'
    <2>1. /\ UNCHANGED <<cid, owner>> /\ name' = [name EXCEPT ![t] = None]
          /\ \A s \in Threads : pc'[s] \in {"tail", "name"} => pc'[s] = pc[s]
      BY <1>13 DEF Bind
    <2>2. \/ UNCHANGED cname
          \/ SockState(t) # "closed" /\ cname' = [cname EXCEPT ![Sock(t)] = name[t]]
      BY <1>13 DEF Bind
    <2>3. \A c \in Conns : cname'[c] = "cut" => Shared(owner[c])
      BY <2>2, SockFacts DEF NameInv, CutInv
    <2>4. \A s \in Threads : name'[s] = "cut" => name[s] = "cut"
      BY <2>1, Nothing DEF Names
    <2> QED  BY <2>1, <2>3, <2>4 DEF NameInv, BufInv, CutInv
  <1>14. CASE Next
    BY <1>3, <1>5, <1>6, <1>7, <1>8, <1>9, <1>10, <1>11, <1>12, <1>13, <1>14
       DEF Next, ThreadStep
  <1> QED  BY <1>2, <1>14

\* The invariant of the names, in every schedule.
THEOREM NameInvHolds == Spec => []NameInv
  BY InitNames, TypeInvHolds, NamesStep, PTL DEF Spec

\* The container read from a name is that of the process or none.
LEMMA ReadName ==
    ASSUME NameInv, NEW c \in Conns, NEW i \in PathCids(c)  PROVE CidOk(owner[c], i)
  BY DEF NameInv, CutInv, PathCids, CidOk

-----------------------------------------------------------------------------
(***************************************************************************)
(* The container.                                                          *)
(***************************************************************************)

\* A thread waits for a connection that its process has made and that is not
\* closed meanwhile, so that its number cannot be given to another.
WaitInv ==
    \A t \in Threads : cfile[t] # None =>
        owner[cfile[t]] = ProcOf[t] /\ cend[cfile[t]] \in {"connected", "dropped"}

\* A handler serves requests of the process its connection belongs to, in the
\* name that process gave to its socket.
ServeInv ==
    \A h \in Handlers :
        /\ hpc[h] \in {"enter", "recv", "send"} => CidOk(owner[fdtab[hsock[h]]], hcid[h])
        /\ hpc[h] = "send" => ProcOf[hreq[h][1]] = owner[fdtab[hsock[h]]]

\* A connection carries requests of its process, and answers for it.
CarryInv ==
    \A c \in Conns :
        /\ \A i \in DOMAIN req[c] : ProcOf[req[c][i][1]] = owner[c]
        /\ \A i \in DOMAIN rsp[c] :
              ProcOf[rsp[c][i].req[1]] = owner[c] /\ CidOk(owner[c], rsp[c][i].cid)

\* What OwnContainer says, race or not.
AnswersHome ==
    \A t \in Threads : rsp_msg[t] # None =>
        ProcOf[rsp_msg[t].req[1]] = ProcOf[t] /\ CidOk(ProcOf[t], rsp_msg[t].cid)

ContainerInv == WaitInv /\ ServeInv /\ CarryInv /\ AnswersHome

\* Initially nobody waits, serves or is answered.
LEMMA InitContainer == Init => ContainerInv
  BY DEF Init, ContainerInv, WaitInv, ServeInv, CarryInv, AnswersHome

\* What is known of a connection that a thread waits for.
LEMMA WaitFacts ==
    ASSUME TypeInv, ContainerInv, NEW t \in Threads, cfile[t] # None
    PROVE  cfile[t] \in Conns /\ owner[cfile[t]] = ProcOf[t]
           /\ cend[cfile[t]] \in {"connected", "dropped"}
  <1>1. cfile[t] \in Conns
    BY DEF TypeInv, TypeOK
  <1> QED  BY <1>1 DEF ContainerInv, WaitInv

\* A part stays true while what it is about stays.
LEMMA ContainerParts ==
    ASSUME ContainerInv, UNCHANGED owner
    PROVE  /\ UNCHANGED <<cfile, cend>> => WaitInv'
           /\ UNCHANGED <<hpc, hsock, hcid, hreq, fdtab>> => ServeInv'
           /\ UNCHANGED <<req, rsp>> => CarryInv'
           /\ UNCHANGED rsp_msg => AnswersHome'
  <1>1. UNCHANGED <<cfile, cend>> => WaitInv'
    BY DEF ContainerInv, WaitInv
  <1>2. UNCHANGED <<hpc, hsock, hcid, hreq, fdtab>> => ServeInv'
    BY DEF ContainerInv, ServeInv
  <1>3. UNCHANGED <<req, rsp>> => CarryInv'
    BY DEF ContainerInv, CarryInv
  <1>4. UNCHANGED rsp_msg => AnswersHome'
    BY DEF ContainerInv, AnswersHome
  <1> QED  BY <1>1, <1>2, <1>3, <1>4

\* Socket: nobody waits for the connection that is made anew, and no
\* descriptor refers to it.
LEMMA SocketContainer ==
    ASSUME TypeInv, RouterInv, ContainerInv, NEW t \in Threads, Socket(t)
    PROVE  ContainerInv'
  <1>1. UNCHANGED <<cfile, rsp_msg, hpc, hsock, hcid, hreq, fdtab>>
    BY DEF Socket, routerVars, handlerVars
  <1>2. CASE UNCHANGED connVars
    BY <1>1, <1>2, ContainerParts DEF ContainerInv, connVars
  <1>3. CASE ~UNCHANGED connVars
    <2>1. PICK c \in Conns :
             /\ cend[c] = "closed" /\ rend[c] \in {"none", "closed"}
             /\ owner' = [owner EXCEPT ![c] = ProcOf[t]] /\ cend' = [cend EXCEPT ![c] = "new"]
             /\ req' = [req EXCEPT ![c] = <<>>] /\ rsp' = [rsp EXCEPT ![c] = <<>>]
      BY <1>3 DEF Socket, Free
    <2>2. /\ req'[c] = <<>> /\ rsp'[c] = <<>>
          /\ \A d \in Conns \ {c} : /\ owner'[d] = owner[d] /\ cend'[d] = cend[d]
                                    /\ req'[d] = req[d] /\ rsp'[d] = rsp[d]
      BY <2>1 DEF TypeInv, TypeOK
    <2>3. \A s \in Threads : cfile[s] # None => cfile[s] \in Conns \ {c}
      BY <2>1, WaitFacts
    <2>4. \A h \in Handlers : Active(h) => fdtab[hsock[h]] \in Conns \ {c}
      <3> SUFFICES ASSUME NEW h \in Handlers, Active(h)  PROVE fdtab[hsock[h]] \in Conns \ {c}
        OBVIOUS
      <3> QED  BY <2>1, OwnFile
    <2>5. WaitInv'
      BY <1>1, <2>2, <2>3 DEF ContainerInv, WaitInv
    <2>6. ServeInv'
      BY <1>1, <2>2, <2>4 DEF ContainerInv, ServeInv, Active
    <2>7. CarryInv'
      BY <2>2 DEF ContainerInv, CarryInv
    <2>8. AnswersHome'
      BY <1>1 DEF ContainerInv, AnswersHome
    <2> QED  BY <2>5, <2>6, <2>7, <2>8 DEF ContainerInv
  <1> QED  BY <1>2, <1>3

\* A process ends: its threads no longer wait, and only its ends are closed.
LEMMA EndWait ==
    ASSUME TypeInv, ContainerInv, NEW p \in Procs, ProcEnds(p), UNCHANGED owner
    PROVE  WaitInv'
  <1> SUFFICES ASSUME NEW t \in Threads, cfile'[t] # None
               PROVE  owner'[cfile'[t]] = ProcOf[t] /\ cend'[cfile'[t]] \in {"connected", "dropped"}
    BY DEF WaitInv
  <1>1. ProcOf[t] # p /\ cfile'[t] = cfile[t]
    BY DEF ProcEnds
  <1>2. cfile[t] \in Conns /\ owner[cfile[t]] = ProcOf[t]
           /\ cend[cfile[t]] \in {"connected", "dropped"}
    BY <1>1 DEF ContainerInv, WaitInv, TypeInv, TypeOK
  <1> QED  BY <1>1, <1>2 DEF ProcEnds

\* recv returns to a thread: the end is closed if nobody else waits for it.
LEMMA LetGoWait ==
    ASSUME TypeInv, ContainerInv, NEW t \in Threads, pc[t] = "waiting", LetGo(t)
    PROVE  WaitInv'
  <1> SUFFICES ASSUME NEW s \in Threads, cfile'[s] # None
               PROVE  owner'[cfile'[s]] = ProcOf[s] /\ cend'[cfile'[s]] \in {"connected", "dropped"}
    BY DEF WaitInv
  <1>1. cfile[t] \in Conns /\ cfile' = [cfile EXCEPT ![t] = None] /\ UNCHANGED owner
    BY LetGoTypes
  <1>2. s # t /\ cfile'[s] = cfile[s]
    BY <1>1 DEF TypeInv, TypeOK
  <1>3. cfile[s] \in Conns /\ owner[cfile[s]] = ProcOf[s]
           /\ cend[cfile[s]] \in {"connected", "dropped"}
    BY <1>2 DEF ContainerInv, WaitInv, TypeInv, TypeOK
  <1>4. cend'[cfile[s]] = cend[cfile[s]]
    BY <1>1, <1>2, <1>3 DEF LetGo, TypeInv, TypeOK
  <1> QED  BY <1>1, <1>2, <1>3, <1>4

\* The client's other steps.
LEMMA ClientContainer ==
    ASSUME TypeInv, RouterInv, ContainerInv,
           (\E t \in Threads : Call(t) \/ ThreadStep(t)) \/ (\E p \in Procs : ProcDies(p))
    PROVE  ContainerInv'
  <1>1. ASSUME NEW t \in Threads,
               Call(t) \/ Check(t) \/ ClearCid(t) \/ ReadCid(t) \/ MakeName(t) \/ Reset(t)
        PROVE  ContainerInv'
    <2>1. /\ UNCHANGED <<owner, cend, req, rsp, cfile, hpc, hsock, hcid, hreq, fdtab>>
          /\ rsp_msg' = rsp_msg \/ rsp_msg' = [rsp_msg EXCEPT ![t] = None]
      BY <1>1 DEF Call, Check, ClearCid, ReadCid, MakeName, Reset, connVars, routerVars,
                  handlerVars
    <2>2. AnswersHome'
      BY <2>1 DEF ContainerInv, AnswersHome, TypeInv, TypeOK
    <2> QED  BY <2>1, <2>2, ContainerParts DEF ContainerInv
  <1>2. ASSUME NEW t \in Threads, Bind(t) \/ Connect(t)  PROVE ContainerInv'
    <2>1. UNCHANGED <<owner, req, rsp, rsp_msg, cfile, hpc, hsock, hcid, hreq, fdtab>>
      BY <1>2 DEF Bind, Connect, routerVars, handlerVars
    <2>2. \/ UNCHANGED cend
          \/ /\ SockState(t) = "new"
             /\ \E v : cend' = [cend EXCEPT ![Sock(t)] = v]
      BY <1>2 DEF Bind, Connect
    <2>3. \A c \in Conns : cend[c] # "new" => cend'[c] = cend[c]
      BY <2>2, SockFacts DEF TypeInv, TypeOK
    <2>4. WaitInv'
      BY <2>1, <2>3, WaitFacts DEF WaitInv
    <2> QED  BY <2>1, <2>4, ContainerParts DEF ContainerInv
  <1>3. ASSUME NEW t \in Threads, Close(t)  PROVE ContainerInv'
    <2>1. UNCHANGED <<owner, req, rsp, rsp_msg, cfile, hpc, hsock, hcid, hreq, fdtab>>
      BY <1>3 DEF Close, routerVars, handlerVars
    <2>2. \/ UNCHANGED cend
          \/ /\ SockState(t) # "closed"
             /\ cend' = [cend EXCEPT ![Sock(t)] =
                          IF \E s \in Threads : cfile[s] = Sock(t) THEN "dropped" ELSE "closed"]
      BY <1>3 DEF Close
    <2>3. \A s \in Threads : cfile[s] # None =>
             cend'[cfile[s]] = cend[cfile[s]] \/ cend'[cfile[s]] = "dropped"
      BY <2>2, SockFacts DEF TypeInv, TypeOK
    <2>4. WaitInv'
      BY <2>1, <2>3 DEF ContainerInv, WaitInv
    <2> QED  BY <2>1, <2>4, ContainerParts DEF ContainerInv
  <1>4. ASSUME NEW t \in Threads, Send(t)  PROVE ContainerInv'
    <2>1. UNCHANGED <<owner, rsp, rsp_msg, hpc, hsock, hcid, hreq, fdtab>>
      BY <1>4 DEF Send, routerVars, handlerVars
    <2>2. UNCHANGED <<cend, cfile>> \/ ProcEnds(ProcOf[t])
      BY <1>4 DEF Send
    <2>3. WaitInv'
      <3>1. CASE UNCHANGED <<cend, cfile>>
        BY <2>1, <3>1, ContainerParts
      <3>2. CASE ProcEnds(ProcOf[t])
        BY <2>1, <3>2, EndWait, Nothing
      <3> QED  BY <2>2, <3>1, <3>2
    <2>4. CASE UNCHANGED req
      BY <2>1, <2>3, <2>4, ContainerParts DEF ContainerInv
    <2>5. CASE ~UNCHANGED req
      <3>1. PICK c, m : c = Sock(t) /\ m = <<t, calls[t]>>
        OBVIOUS
      <3>2. SockState(t) = "connected" /\ req' = [req EXCEPT ![c] = Append(req[c], m)]
               /\ pc[t] = "send"
        BY <1>4, <2>5, <3>1 DEF Send
      <3>3. c \in Conns /\ owner[c] = ProcOf[t]
        BY <3>1, <3>2, SockFacts
      <3>4. m \in Requests /\ m[1] = t /\ req[c] \in Seq(Requests)
        BY <3>1, <3>2, <3>3 DEF TypeInv, ClientInv, TypeOK, Requests
      <3>5. req'[c] = Append(req[c], m) /\ \A d \in Conns \ {c} : req'[d] = req[d]
        BY <3>2, <3>3 DEF TypeInv, TypeOK
      <3>6. \A i \in DOMAIN req'[c] : ProcOf[req'[c][i][1]] = owner[c]
        BY <3>3, <3>4, <3>5, JoinFacts DEF ContainerInv, CarryInv
      <3>7. CarryInv'
        BY <2>1, <3>5, <3>6 DEF ContainerInv, CarryInv
      <3> QED  BY <2>1, <2>3, <3>7, ContainerParts DEF ContainerInv
    <2> QED  BY <2>4, <2>5
  <1>5. ASSUME NEW t \in Threads, RecvEnter(t)  PROVE ContainerInv'
    <2>1. UNCHANGED <<owner, cend, req, rsp, rsp_msg, hpc, hsock, hcid, hreq, fdtab>>
      BY <1>5 DEF RecvEnter, connVars, routerVars, handlerVars
    <2>2. \/ UNCHANGED cfile
          \/ SockState(t) = "connected" /\ cfile' = [cfile EXCEPT ![t] = Sock(t)]
      BY <1>5 DEF RecvEnter
    <2>3. WaitInv'
      <3>1. CASE UNCHANGED cfile
        BY <2>1, <3>1 DEF ContainerInv, WaitInv
      <3>2. CASE SockState(t) = "connected" /\ cfile' = [cfile EXCEPT ![t] = Sock(t)]
        <4>1. owner[Sock(t)] = ProcOf[t] /\ cend[Sock(t)] = "connected"
          BY <3>2, SockFacts
        <4>2. cfile'[t] = Sock(t) /\ \A s \in Threads \ {t} : cfile'[s] = cfile[s]
          BY <3>2 DEF TypeInv, TypeOK
        <4> QED  BY <2>1, <4>1, <4>2 DEF ContainerInv, WaitInv
      <3> QED  BY <2>2, <3>1, <3>2
    <2> QED  BY <2>1, <2>3, ContainerParts DEF ContainerInv
  <1>6. ASSUME NEW t \in Threads, RecvEof(t) \/ RecvReset(t)  PROVE ContainerInv'
    <2>1. pc[t] = "waiting" /\ LetGo(t) /\ UNCHANGED <<rsp, rsp_msg>>
             /\ (req' = req \/ req' = [req EXCEPT ![cfile[t]] = <<>>])
      BY <1>6 DEF RecvEof, RecvReset
    <2>2. UNCHANGED <<owner, hpc, hsock, hcid, hreq, fdtab>>
      BY <2>1 DEF LetGo, routerVars, handlerVars
    <2>3. \A c \in Conns : req'[c] = req[c] \/ req'[c] = <<>>
      BY <2>1, LetGoTypes DEF TypeInv, TypeOK
    <2>4. CarryInv'
      BY <2>1, <2>2, <2>3 DEF ContainerInv, CarryInv
    <2> QED  BY <2>1, <2>2, <2>4, ContainerParts, LetGoWait DEF ContainerInv
  <1>7. ASSUME NEW t \in Threads, RecvAnswer(t)  PROVE ContainerInv'
    <2>1. PICK c : c = cfile[t]
      OBVIOUS
    <2>2. /\ pc[t] = "waiting" /\ LetGo(t) /\ UNCHANGED req /\ rsp[c] # <<>>
          /\ rsp_msg' = [rsp_msg EXCEPT ![t] = Head(rsp[c])]
          /\ rsp' = [rsp EXCEPT ![c] = Tail(rsp[c])]
      BY <1>7, <2>1 DEF RecvAnswer
    <2>3. UNCHANGED <<owner, hpc, hsock, hcid, hreq, fdtab>>
      BY <2>2 DEF LetGo, routerVars, handlerVars
    <2>4. c \in Conns /\ owner[c] = ProcOf[t] /\ rsp[c] \in Seq(Answers)
      <3>1. c \in Conns /\ c # None
        BY <2>1, <2>2, LetGoTypes, Nothing
      <3> QED  BY <2>1, <3>1, WaitFacts DEF TypeInv, TypeOK
    <2>5. /\ rsp'[c] = Tail(rsp[c]) /\ \A d \in Conns \ {c} : rsp'[d] = rsp[d]
          /\ rsp_msg'[t] = Head(rsp[c]) /\ \A s \in Threads \ {t} : rsp_msg'[s] = rsp_msg[s]
      BY <2>2, <2>4 DEF TypeInv, TypeOK
    <2>6. /\ 1 \in DOMAIN rsp[c] /\ Head(rsp[c]) = rsp[c][1]
          /\ \A i \in DOMAIN Tail(rsp[c]) : i + 1 \in DOMAIN rsp[c]
                                            /\ Tail(rsp[c])[i] = rsp[c][i + 1]
      BY <2>2, <2>4, TailFacts
    <2>7. CarryInv'
      BY <2>2, <2>3, <2>5, <2>6 DEF ContainerInv, CarryInv
    <2>8. AnswersHome'
      BY <2>4, <2>5, <2>6 DEF ContainerInv, CarryInv, AnswersHome
    <2> QED  BY <2>2, <2>3, <2>7, <2>8, ContainerParts, LetGoWait DEF ContainerInv
  <1>8. ASSUME NEW p \in Procs, ProcDies(p)  PROVE ContainerInv'
    <2>1. UNCHANGED <<owner, req, rsp, rsp_msg, hpc, hsock, hcid, hreq, fdtab>> /\ ProcEnds(p)
      BY <1>8 DEF ProcDies, routerVars, handlerVars
    <2> QED  BY <2>1, ContainerParts, EndWait DEF ContainerInv
  <1> QED  BY <1>1, <1>2, <1>3, <1>4, <1>5, <1>6, <1>7, <1>8, SocketContainer DEF ThreadStep

\* The router ends: nobody serves any more.
LEMMA RouterEndContainer ==
    ASSUME ContainerInv, NEW how, RouterEnds(how), UNCHANGED clientVars,
           UNCHANGED <<owner, cend, req, rsp>>
    PROVE  ContainerInv'
  <1>1. ServeInv'
    BY DEF RouterEnds, ServeInv
  <1> QED  BY <1>1, ContainerParts DEF ContainerInv, clientVars

\* Accept changes no descriptor of a handler at work.
LEMMA AcceptContainer ==
    ASSUME TypeInv, RouterInv, ContainerInv, Accept
    PROVE  ContainerInv'
  <1>1. UNCHANGED clientVars /\ UNCHANGED <<owner, cend, req, rsp>>
    BY DEF Accept
  <1>2. CASE RouterEnds("down")
    BY <1>1, <1>2, RouterEndContainer
  <1>3. CASE ~RouterEnds("down")
    <2>1. PICK f \in Rfds, c \in Conns :
             /\ fdtab[f] = None /\ fdtab' = [fdtab EXCEPT ![f] = c]
             /\ \/ \E h \in Handlers : hpc[h] = "unused" /\ hpc' = [hpc EXCEPT ![h] = "start"]
                \/ UNCHANGED hpc
             /\ UNCHANGED <<hsock, hcid, hreq>>
      BY <1>3, AcceptFacts
    <2>2. \A h \in Handlers : hpc'[h] = hpc[h] \/ hpc'[h] = "start"
      BY <2>1 DEF TypeInv, TypeOK
    <2>3. \A h \in Handlers : Active(h) => fdtab'[hsock[h]] = fdtab[hsock[h]]
      BY <2>1 DEF RouterInv, FdInv, TypeInv, TypeOK
    <2>4. ServeInv'
      BY <1>1, <2>1, <2>2, <2>3 DEF ContainerInv, ServeInv, Active
    <2> QED  BY <1>1, <2>4, ContainerParts DEF ContainerInv, clientVars
  <1> QED  BY <1>2, <1>3

\* A handler's step that leaves the others alone.
LEMMA ServeKept ==
    ASSUME TypeInv, ContainerInv, NEW h \in Handlers, UNCHANGED owner,
           \A g \in Handlers \ {h} :
              /\ hpc'[g] = hpc[g] /\ hsock'[g] = hsock[g] /\ hcid'[g] = hcid[g]
              /\ hreq'[g] = hreq[g] /\ (Active(g) => fdtab'[hsock[g]] = fdtab[hsock[g]]),
           hpc'[h] \in {"enter", "recv", "send"} => CidOk(owner'[fdtab'[hsock'[h]]], hcid'[h]),
           hpc'[h] = "send" => ProcOf[hreq'[h][1]] = owner'[fdtab'[hsock'[h]]]
    PROVE  ServeInv'
  BY DEF ContainerInv, ServeInv, Active

\* The handlers' steps.  A request is read from the connection that the handler
\* answers to.
LEMMA HandlerContainer ==
    ASSUME TypeInv, NameInv, RouterInv, ContainerInv, NEW h \in Handlers, HandlerStep(h)
    PROVE  ContainerInv'
  <1>1. CASE HandlerStart(h)
    <2>1. /\ UNCHANGED clientVars /\ UNCHANGED <<owner, cend, req, rsp, cfile, rsp_msg>>
          /\ hpc[h] = "start" /\ fdtab[accepted] \in Conns
      <3>1. hpc[h] = "start" /\ accepted \in Rfds /\ fdtab[accepted] # None
        BY <1>1 DEF HandlerStart, RouterInv, FdInv, StartInv, TypeInv, HandlerInv, TypeOK, Rfds
      <3> QED  BY <1>1, <3>1 DEF HandlerStart, clientVars, TypeInv, TypeOK
    <2>2. CASE RouterEnds("killed")
      BY <2>1, <2>2, RouterEndContainer
    <2>3. CASE ~RouterEnds("killed")
      <3>1. PICK i \in PathCids(fdtab[accepted]) : hcid' = [hcid EXCEPT ![h] = i]
        BY <1>1, <2>1, <2>3, Nothing DEF HandlerStart
      <3>2. /\ hsock' = [hsock EXCEPT ![h] = accepted] /\ hpc' = [hpc EXCEPT ![h] = "enter"]
            /\ UNCHANGED <<fdtab, hreq>>
        BY <1>1, <2>1, <2>3, Nothing DEF HandlerStart, HGoto, routerVars
      <3>3. /\ hsock'[h] = accepted /\ hpc'[h] = "enter" /\ hcid'[h] = i
            /\ \A g \in Handlers \ {h} :
                  hpc'[g] = hpc[g] /\ hsock'[g] = hsock[g] /\ hcid'[g] = hcid[g]
        BY <3>1, <3>2 DEF TypeInv, TypeOK
      <3>4. CidOk(owner[fdtab[accepted]], i)
        BY <2>1, ReadName
      <3>5. ServeInv'
        BY <2>1, <3>2, <3>3, <3>4, ServeKept
      <3> QED  BY <2>1, <3>5, ContainerParts DEF ContainerInv
    <2> QED  BY <2>2, <2>3
  <1>2. CASE HandlerRecvEnter(h)
    <2>1. /\ UNCHANGED <<owner, cend, req, rsp, cfile, rsp_msg, fdtab, hreq, hsock, hcid>>
          /\ hpc[h] = "enter" /\ \E p \in {"recv", "close"} : hpc' = [hpc EXCEPT ![h] = p]
      BY <1>2 DEF HandlerRecvEnter, HGoto, clientVars, connVars, routerVars
    <2>2. /\ hpc'[h] \in {"recv", "close"} /\ \A g \in Handlers \ {h} : hpc'[g] = hpc[g]
      BY <2>1 DEF TypeInv, TypeOK
    <2>3. CidOk(owner[fdtab[hsock[h]]], hcid[h])
      BY <2>1 DEF ContainerInv, ServeInv
    <2>4. ServeInv'
      BY <2>1, <2>2, <2>3, ServeKept
    <2> QED  BY <2>1, <2>4, ContainerParts DEF ContainerInv
  <1>3. CASE HandlerRecv(h)
    <2>1. PICK c : c = hfile[h]
      OBVIOUS
    <2>2. /\ hpc[h] = "recv" /\ req[c] # <<>> /\ HandlerLetsGo(h)
          /\ hreq' = [hreq EXCEPT ![h] = Head(req[c])]
          /\ req' = [req EXCEPT ![c] = Tail(req[c])] /\ hpc' = [hpc EXCEPT ![h] = "send"]
          /\ UNCHANGED <<owner, cend, rsp, cfile, rsp_msg, fdtab, hsock, hcid>>
      BY <1>3, <2>1 DEF HandlerRecv, HGoto, clientVars, routerVars
    <2>3. c \in Conns /\ c = fdtab[hsock[h]] /\ req[c] \in Seq(Requests)
      <3>1. c \in Conns /\ c = File(h) /\ Active(h)
        BY <2>1, <2>2, NothingDropped DEF Active
      <3> QED  BY <3>1, OwnFile DEF TypeInv, TypeOK
    <2>4. /\ req'[c] = Tail(req[c]) /\ \A d \in Conns \ {c} : req'[d] = req[d]
          /\ hreq'[h] = Head(req[c]) /\ hpc'[h] = "send"
          /\ \A g \in Handlers \ {h} : hreq'[g] = hreq[g] /\ hpc'[g] = hpc[g]
      BY <2>2, <2>3 DEF TypeInv, TypeOK
    <2>5. /\ 1 \in DOMAIN req[c] /\ Head(req[c]) = req[c][1]
          /\ \A i \in DOMAIN Tail(req[c]) : i + 1 \in DOMAIN req[c]
                                            /\ Tail(req[c])[i] = req[c][i + 1]
      BY <2>2, <2>3, TailFacts
    <2>6. CarryInv'
      BY <2>2, <2>4, <2>5 DEF ContainerInv, CarryInv
    <2>7. /\ CidOk(owner[fdtab[hsock[h]]], hcid[h])
          /\ ProcOf[hreq'[h][1]] = owner[fdtab[hsock[h]]]
      BY <2>2, <2>3, <2>4, <2>5 DEF ContainerInv, ServeInv, CarryInv
    <2>8. ServeInv'
      BY <2>2, <2>4, <2>7, ServeKept
    <2> QED  BY <2>2, <2>6, <2>8, ContainerParts DEF ContainerInv
  <1>4. CASE HandlerEof(h)
    <2>1. /\ UNCHANGED <<owner, cend, req, rsp, cfile, rsp_msg, fdtab, hreq, hsock, hcid>>
          /\ hpc' = [hpc EXCEPT ![h] = "close"]
      BY <1>4 DEF HandlerEof, HGoto, clientVars, routerVars
    <2>2. hpc'[h] = "close" /\ \A g \in Handlers \ {h} : hpc'[g] = hpc[g]
      BY <2>1 DEF TypeInv, TypeOK
    <2>3. ServeInv'
      BY <2>1, <2>2, ServeKept
    <2> QED  BY <2>1, <2>3, ContainerParts DEF ContainerInv
  <1>5. CASE HandlerSend(h)
    <2>1. /\ UNCHANGED <<owner, cend, req, cfile, rsp_msg>> /\ UNCHANGED clientVars
          /\ hpc[h] = "send" /\ Active(h)
      BY <1>5 DEF HandlerSend, clientVars, Active
    <2>2. CASE RouterEnds("killed") /\ UNCHANGED rsp
      BY <2>1, <2>2, RouterEndContainer
    <2>3. CASE ~(RouterEnds("killed") /\ UNCHANGED rsp)
      <3>1. PICK c, a : c = File(h) /\ a = [req |-> hreq[h], cid |-> hcid[h]]
        OBVIOUS
      <3>2. c \in Conns /\ c = fdtab[hsock[h]] /\ c # None
        BY <2>1, <3>1, OwnFile, Nothing
      <3>3. /\ rsp' = [rsp EXCEPT ![c] = rsp[c] \o <<a>>] /\ hpc' = [hpc EXCEPT ![h] = "enter"]
            /\ hreq' = [hreq EXCEPT ![h] = None] /\ UNCHANGED <<fdtab, hsock, hcid>>
        BY <1>5, <2>3, <3>1, <3>2 DEF HandlerSend, HGoto, AfterAnswer, Answer, routerVars
      <3>4. a \in Answers /\ rsp[c] \in Seq(Answers)
        <4>1. hreq[h] \in Requests /\ hcid[h] \in AllCids
          BY <2>1 DEF TypeInv, TypeOK, HandlerInv
        <4> QED  BY <3>1, <3>2, <4>1 DEF Answers, TypeInv, TypeOK
      <3>5. /\ rsp'[c] = Append(rsp[c], a) /\ \A d \in Conns \ {c} : rsp'[d] = rsp[d]
            /\ hpc'[h] = "enter"
            /\ \A g \in Handlers \ {h} : hreq'[g] = hreq[g] /\ hpc'[g] = hpc[g]
        BY <3>2, <3>3, <3>4, JoinFacts DEF TypeInv, TypeOK
      <3>6. /\ CidOk(owner[c], a.cid) /\ ProcOf[a.req[1]] = owner[c]
            /\ CidOk(owner[fdtab[hsock[h]]], hcid[h])
        BY <2>1, <3>1, <3>2 DEF ContainerInv, ServeInv
      <3>7. \A i \in DOMAIN rsp'[c] :
               ProcOf[rsp'[c][i].req[1]] = owner[c] /\ CidOk(owner[c], rsp'[c][i].cid)
        BY <3>2, <3>4, <3>5, <3>6, JoinFacts DEF ContainerInv, CarryInv
      <3>8. CarryInv'
        <4>1. \A d \in Conns : \A i \in DOMAIN req'[d] : ProcOf[req'[d][i][1]] = owner'[d]
          BY <2>1 DEF ContainerInv, CarryInv
        <4>2. ASSUME NEW d \in Conns \ {c}
              PROVE  \A i \in DOMAIN rsp'[d] : /\ ProcOf[rsp'[d][i].req[1]] = owner'[d]
                                              /\ CidOk(owner'[d], rsp'[d][i].cid)
          BY <2>1, <3>5, <4>2 DEF ContainerInv, CarryInv
        <4> QED  BY <2>1, <3>7, <4>1, <4>2 DEF CarryInv
      <3>9. ServeInv'
        BY <2>1, <3>3, <3>5, <3>6, ServeKept
      <3> QED  BY <2>1, <3>8, <3>9, ContainerParts DEF ContainerInv
    <2> QED  BY <2>2, <2>3
  <1>6. CASE HandlerClose(h)
    <2>1. /\ UNCHANGED <<owner, cend, req, rsp, cfile, rsp_msg, hreq, hsock, hcid>>
          /\ hpc[h] = "close" /\ hpc' = [hpc EXCEPT ![h] = "done"]
          /\ fdtab' = fdtab \/ fdtab' = [fdtab EXCEPT ![hsock[h]] = None]
      BY <1>6 DEF HandlerClose, HGoto, AfterClose, clientVars
    <2>2. hpc'[h] = "done" /\ \A g \in Handlers \ {h} : hpc'[g] = hpc[g]
      BY <2>1 DEF TypeInv, TypeOK
    <2>3. \A g \in Handlers \ {h} : Active(g) => hsock[g] \in Rfds /\ hsock[g] # hsock[h]
      BY <2>1 DEF RouterInv, FdInv, HandlersApart, Active
    <2>4. \A g \in Handlers \ {h} : Active(g) => fdtab'[hsock[g]] = fdtab[hsock[g]]
      BY <2>1, <2>3 DEF TypeInv, TypeOK
    <2>5. ServeInv'
      BY <2>1, <2>2, <2>4, ServeKept
    <2> QED  BY <2>1, <2>5, ContainerParts DEF ContainerInv
  <1> QED  BY <1>1, <1>2, <1>3, <1>4, <1>5, <1>6 DEF HandlerStep

\* Every step keeps the answers at home, until there is a race.
LEMMA ContainerStep ==
    TypeInv /\ NameInv /\ (~raced => RouterInv) /\ (~raced => ContainerInv) /\ [Next]_rpcVars
        => (~raced => ContainerInv)'
  <1> SUFFICES ASSUME TypeInv, NameInv, ~raced => RouterInv, ~raced => ContainerInv,
                      [Next]_rpcVars, ~raced'
               PROVE  ContainerInv'
    OBVIOUS
  <1>0. RouterInv /\ ContainerInv
    BY RacedStays
  <1>1. CASE UNCHANGED rpcVars
    BY <1>0, <1>1, ContainerParts
       DEF ContainerInv, rpcVars, clientVars, connVars, routerVars, handlerVars
  <1>2. CASE Listen
    BY <1>0, <1>2, ContainerParts DEF ContainerInv, Listen, clientVars, connVars, handlerVars
  <1>3. CASE Stop
    BY <1>0, <1>3, RouterEndContainer DEF Stop
  <1>4. CASE Next
    BY <1>0, <1>2, <1>3, <1>4, ClientContainer, AcceptContainer, HandlerContainer DEF Next
  <1> QED  BY <1>1, <1>4

\* The invariant of who is answered for whom.
THEOREM ContainerInvHolds == Spec => [](~raced => ContainerInv)
  <1>1. Init => (~raced => ContainerInv)
    BY InitContainer
  <1> QED  BY <1>1, TypeInvHolds, NameInvHolds, RouterInvHolds, ContainerStep, PTL DEF Spec

\* Until the router's threads race, a call of any number of threads returns with
\* an answer to its process, made for its container, or for none at all if
\* another thread shares its buffer (rpc.c:54, test_router.cpp:52-56).
THEOREM RpcOwnContainer == Spec => []OwnContainer
  <1>1. (~raced => ContainerInv) => OwnContainer
    BY DEF ContainerInv, AnswersHome, CidOk, Shared, OwnContainer
  <1> QED  BY <1>1, ContainerInvHolds, PTL

-----------------------------------------------------------------------------
(***************************************************************************)
(* The call, with one thread per process.                                  *)
(***************************************************************************)

\* No two threads share a process.
Alone == \A s, t \in Threads : ProcOf[s] = ProcOf[t] => s = t

\* The steps of rpc_handler between the request and the answer.
Busy == {"recv", "waiting"}

\* Connection c is the one client_sock of t's process stands for.
Mine(t, c) == Sock(t) = c /\ owner[c] = ProcOf[t]

\* Request r or its answer is under way on c, or a handler serves it there.
Traffic(c, r) ==
    \/ At("req", c, r)
    \/ At("rsp", c, r)
    \/ \E h \in Handlers : hreq[h] = r /\ fdtab[hsock[h]] = c

\* All the traffic on a thread's connection is its call under way,
TrafficInv ==
    \A t \in Threads, c \in Conns, r \in Requests :
        Mine(t, c) /\ Traffic(c, r) => pc[t] \in Busy /\ r = <<t, calls[t]>>

\* which is under way on that connection.
BusyInv ==
    \A t \in Threads :
        /\ pc[t] \in Busy => SockState(t) = "connected"
        /\ pc[t] = "waiting" => cfile[t] = Sock(t)

\* What OwnAnswer says, race or not.
AnswersMatch == \A t \in Threads : rsp_msg[t] # None => rsp_msg[t].req = <<t, calls[t]>>

SingleInv == TrafficInv /\ BusyInv /\ AnswersMatch

\* Initially there is no traffic and nobody calls.
LEMMA InitSingle == Init => SingleInv
  <1> SUFFICES ASSUME Init  PROVE SingleInv
    OBVIOUS
  <1>1. \A c \in Conns, r \in Requests : ~Traffic(c, r)
    BY Nothing DEF Init, Traffic, At
  <1> QED  BY <1>1 DEF Init, SingleInv, TrafficInv, BusyInv, Busy, AnswersMatch

\* What the step of another thread leaves thread s.
Spared(s) ==
    /\ pc'[s] = pc[s] /\ calls'[s] = calls[s] /\ rsp_msg'[s] = rsp_msg[s]
    /\ cfile'[s] = cfile[s] /\ Sock(s)' = Sock(s)
    /\ \A c \in Conns : owner'[c] = ProcOf[s] => owner[c] = ProcOf[s]
    /\ \A c \in Conns : owner[c] = ProcOf[s] /\ cend[c] = "connected" =>
          owner'[c] = owner[c] /\ cend'[c] = cend[c]

\* A step of thread t is looked at for t only, if the others are spared and
\* their connections get no traffic from it.
LEMMA SingleKept ==
    ASSUME TypeInv, SingleInv, NEW t \in Threads,
           \A s \in Threads \ {t} : Spared(s),
           \A s \in Threads \ {t}, c \in Conns, r \in Requests :
              owner'[c] = ProcOf[s] /\ Traffic(c, r)' => Traffic(c, r),
           \A c \in Conns, r \in Requests :
              Mine(t, c)' /\ Traffic(c, r)' => pc'[t] \in Busy /\ r = <<t, calls'[t]>>,
           pc'[t] \in Busy => SockState(t)' = "connected",
           pc'[t] = "waiting" => cfile'[t] = Sock(t)',
           rsp_msg'[t] # None => rsp_msg'[t].req = <<t, calls'[t]>>
    PROVE  SingleInv'
  <1>1. TrafficInv'
    <2> SUFFICES ASSUME NEW s \in Threads \ {t}, NEW c \in Conns, NEW r \in Requests,
                        Mine(s, c)', Traffic(c, r)'
                 PROVE  pc'[s] \in Busy /\ r = <<s, calls'[s]>>
      BY DEF TrafficInv
    <2>1. Mine(s, c) /\ Traffic(c, r)
      BY DEF Mine, Spared
    <2>2. pc[s] \in Busy /\ r = <<s, calls[s]>>
      BY <2>1 DEF SingleInv, TrafficInv
    <2> QED  BY <2>2 DEF Spared
  <1>2. BusyInv'
    <2> SUFFICES ASSUME NEW s \in Threads \ {t}
                 PROVE  /\ pc'[s] \in Busy => SockState(s)' = "connected"
                        /\ pc'[s] = "waiting" => cfile'[s] = Sock(s)'
      BY DEF BusyInv
    <2>1. pc'[s] = "waiting" => cfile'[s] = Sock(s)'
      BY DEF Spared, SingleInv, BusyInv
    <2>2. ASSUME pc'[s] \in Busy  PROVE SockState(s)' = "connected"
      <3>1. SockState(s) = "connected"
        BY <2>2 DEF Spared, SingleInv, BusyInv
      <3>2. Sock(s) \in Conns /\ owner[Sock(s)] = ProcOf[s] /\ cend[Sock(s)] = "connected"
        BY <3>1, SockFacts
      <3>3. PICK c \in Conns : c = Sock(s)
        BY <3>2
      <3>4. Sock(s)' = c /\ owner'[c] = ProcOf[s] /\ cend'[c] = "connected"
        BY <3>2, <3>3 DEF Spared
      <3> QED  BY <3>4, Nothing DEF SockState
    <2> QED  BY <2>1, <2>2
  <1>3. AnswersMatch'
    BY DEF SingleInv, AnswersMatch, Spared
  <1> QED  BY <1>1, <1>2, <1>3 DEF SingleInv

\* A step that leaves the clients alone and makes no new traffic.
LEMMA SingleSame ==
    ASSUME TypeInv, SingleInv, UNCHANGED clientVars, UNCHANGED <<owner, cend>>,
           \A c \in Conns, r \in Requests : Traffic(c, r)' => Traffic(c, r)
    PROVE  SingleInv'
  <1>1. TrafficInv'
    BY DEF SingleInv, TrafficInv, Mine, Sock, clientVars
  <1>2. BusyInv'
    BY DEF SingleInv, BusyInv, SockState, Sock, clientVars
  <1>3. AnswersMatch'
    BY DEF SingleInv, AnswersMatch, clientVars
  <1> QED  BY <1>1, <1>2, <1>3 DEF SingleInv

\* A process ends: the threads of the others are spared.
LEMMA EndSpares ==
    ASSUME Alone, TypeInv, NEW t \in Threads, ProcEnds(ProcOf[t]),
           UNCHANGED <<calls, rsp_msg, owner>>
    PROVE  \A s \in Threads \ {t} : Spared(s)
  <1> SUFFICES ASSUME NEW s \in Threads \ {t}  PROVE Spared(s)
    OBVIOUS
  <1>1. ProcOf[s] # ProcOf[t] /\ ProcOf[s] \in Procs
    BY Nothing DEF Alone
  <1>2. pc'[s] = pc[s] /\ cfile'[s] = cfile[s]
    BY <1>1 DEF ProcEnds
  <1>3. Sock(s)' = Sock(s)
    BY <1>1 DEF ProcEnds, Sock, TypeInv, TypeOK
  <1>4. \A c \in Conns : owner[c] = ProcOf[s] => cend'[c] = cend[c]
    BY <1>1 DEF ProcEnds
  <1> QED  BY <1>2, <1>3, <1>4 DEF Spared

\* A thread's step spares those of the other processes.
LEMMA ThreadSpares ==
    ASSUME Alone, TypeInv, ContainerInv, NEW t \in Threads, Call(t) \/ ThreadStep(t)
    PROVE  \A s \in Threads \ {t} : Spared(s)
  <1> SUFFICES ASSUME NEW s \in Threads \ {t}  PROVE Spared(s)
    OBVIOUS
  <1>1. ProcOf[s] # ProcOf[t] /\ ProcOf[s] \in Procs /\ ProcOf[t] \in Procs
    BY Nothing DEF Alone
  <1>2. ASSUME NEW p, NEW n, NEW v, NEW m, NEW w, Goto(t, p), calls' = [calls EXCEPT ![t] = n],
               rsp_msg' = [rsp_msg EXCEPT ![t] = m], cfile' = [cfile EXCEPT ![t] = w],
               client_sock' = [client_sock EXCEPT ![ProcOf[t]] = v]
        PROVE  /\ pc'[s] = pc[s] /\ calls'[s] = calls[s] /\ rsp_msg'[s] = rsp_msg[s]
               /\ cfile'[s] = cfile[s] /\ Sock(s)' = Sock(s)
    BY <1>1, <1>2 DEF Goto, Sock, TypeInv, TypeOK
  <1>3. /\ calls = [calls EXCEPT ![t] = calls[t]] /\ rsp_msg = [rsp_msg EXCEPT ![t] = rsp_msg[t]]
        /\ cfile = [cfile EXCEPT ![t] = cfile[t]]
        /\ client_sock = [client_sock EXCEPT ![ProcOf[t]] = client_sock[ProcOf[t]]]
    BY <1>1 DEF TypeInv, TypeOK
  <1>4. CASE \/ Call(t) \/ Check(t) \/ ClearCid(t) \/ ReadCid(t) \/ MakeName(t) \/ Reset(t)
             \/ RecvEnter(t)
    <2>1. /\ \E p : Goto(t, p)
          /\ \E n : calls' = [calls EXCEPT ![t] = n]
          /\ \E m : rsp_msg' = [rsp_msg EXCEPT ![t] = m]
          /\ \E w : cfile' = [cfile EXCEPT ![t] = w]
          /\ \E v : client_sock' = [client_sock EXCEPT ![ProcOf[t]] = v]
          /\ UNCHANGED <<owner, cend>>
      BY <1>3, <1>4 DEF Call, Check, ClearCid, ReadCid, MakeName, Reset, RecvEnter, connVars
    <2> QED  BY <1>2, <2>1 DEF Spared
  <1>5. CASE Bind(t) \/ Connect(t) \/ Close(t)
    <2>1. (\E p : Goto(t, p)) /\ UNCHANGED <<calls, rsp_msg, cfile, client_sock, owner>>
      BY <1>5 DEF Bind, Connect, Close
    <2>2. \/ UNCHANGED cend
          \/ SockState(t) # "closed" /\ \E v : cend' = [cend EXCEPT ![Sock(t)] = v]
      BY <1>5 DEF Bind, Connect, Close
    <2>3. \A c \in Conns : owner[c] = ProcOf[s] => cend'[c] = cend[c]
      BY <1>1, <2>2, SockFacts DEF TypeInv, TypeOK
    <2> QED  BY <1>2, <1>3, <2>1, <2>3 DEF Spared
  <1>6. CASE Socket(t)
    <2>1. /\ \E p : Goto(t, p)
          /\ \E v : client_sock' = [client_sock EXCEPT ![ProcOf[t]] = v]
          /\ UNCHANGED <<calls, rsp_msg, cfile>>
      BY <1>6 DEF Socket
    <2>2. \/ UNCHANGED <<owner, cend>>
          \/ \E c \in Conns : /\ cend[c] = "closed" /\ owner' = [owner EXCEPT ![c] = ProcOf[t]]
                              /\ cend' = [cend EXCEPT ![c] = "new"]
      BY <1>6 DEF Socket, Free, connVars
    <2>3. /\ \A c \in Conns : owner'[c] = ProcOf[s] => owner[c] = ProcOf[s]
          /\ \A c \in Conns : cend[c] = "connected" => owner'[c] = owner[c] /\ cend'[c] = cend[c]
      BY <1>1, <2>2 DEF TypeInv, TypeOK
    <2>4. /\ pc'[s] = pc[s] /\ calls'[s] = calls[s] /\ rsp_msg'[s] = rsp_msg[s]
          /\ cfile'[s] = cfile[s] /\ Sock(s)' = Sock(s)
      <3>1. PICK p, v : Goto(t, p) /\ client_sock' = [client_sock EXCEPT ![ProcOf[t]] = v]
        BY <2>1
      <3>2. /\ calls' = [calls EXCEPT ![t] = calls[t]]
            /\ rsp_msg' = [rsp_msg EXCEPT ![t] = rsp_msg[t]]
            /\ cfile' = [cfile EXCEPT ![t] = cfile[t]]
        BY <1>3, <2>1
      <3> QED  BY <1>2, <3>1, <3>2
    <2> QED  BY <2>3, <2>4 DEF Spared
  <1>7. CASE Send(t)
    <2>1. UNCHANGED <<calls, rsp_msg, owner>>
      BY <1>7 DEF Send
    <2>2. CASE ProcEnds(ProcOf[t])
      BY <2>1, <2>2, EndSpares
    <2>3. CASE ~ProcEnds(ProcOf[t])
      <3>1. (\E p : Goto(t, p)) /\ UNCHANGED <<client_sock, cfile, cend>>
        BY <1>7, <2>3 DEF Send
      <3> QED  BY <1>2, <1>3, <2>1, <3>1 DEF Spared
    <2> QED  BY <2>2, <2>3
  <1>8. CASE RecvAnswer(t) \/ RecvEof(t) \/ RecvReset(t)
    <2>1. /\ \E p : Goto(t, p)
          /\ \E m : rsp_msg' = [rsp_msg EXCEPT ![t] = m]
          /\ pc[t] = "waiting" /\ LetGo(t)
      BY <1>3, <1>8 DEF RecvAnswer, RecvEof, RecvReset
    <2>2. UNCHANGED <<client_sock, calls, owner>> /\ \E w : cfile' = [cfile EXCEPT ![t] = w]
      BY <2>1 DEF LetGo
    <2>3. \A c \in Conns : cend[c] = "connected" => cend'[c] = cend[c]
      BY <2>1 DEF LetGo, TypeInv, TypeOK
    <2>4. /\ pc'[s] = pc[s] /\ calls'[s] = calls[s] /\ rsp_msg'[s] = rsp_msg[s]
          /\ cfile'[s] = cfile[s] /\ Sock(s)' = Sock(s)
      <3>1. PICK p, m, w : /\ Goto(t, p) /\ rsp_msg' = [rsp_msg EXCEPT ![t] = m]
                           /\ cfile' = [cfile EXCEPT ![t] = w]
        BY <2>1, <2>2
      <3>2. /\ calls' = [calls EXCEPT ![t] = calls[t]]
            /\ client_sock' = [client_sock EXCEPT ![ProcOf[t]] = client_sock[ProcOf[t]]]
        BY <1>3, <2>2
      <3> QED  BY <1>2, <3>1, <3>2
    <2> QED  BY <2>2, <2>3, <2>4 DEF Spared
  <1> QED  BY <1>4, <1>5, <1>6, <1>7, <1>8 DEF ThreadStep

\* Taking the first of a queue leaves no more than there was.
LEMMA TrafficTaken ==
    ASSUME TypeInv, UNCHANGED <<hreq, hsock, fdtab>>,
           \A c \in Conns : \/ req'[c] = req[c] \/ req'[c] = <<>>
                            \/ req[c] # <<>> /\ req'[c] = Tail(req[c]),
           \A c \in Conns : \/ rsp'[c] = rsp[c] \/ rsp'[c] = <<>>
                            \/ rsp[c] # <<>> /\ rsp'[c] = Tail(rsp[c])
    PROVE  \A c \in Conns, r \in Requests : Traffic(c, r)' => Traffic(c, r)
  <1> SUFFICES ASSUME NEW c \in Conns, NEW r \in Requests, Traffic(c, r)'  PROVE Traffic(c, r)
    OBVIOUS
  <1>1. req[c] \in Seq(Requests) /\ rsp[c] \in Seq(Answers)
    BY DEF TypeInv, TypeOK
  <1>2. \A i \in DOMAIN req'[c] : \E j \in DOMAIN req[c] : req'[c][i] = req[c][j]
    <2>1. CASE req'[c] = req[c]
      BY <2>1
    <2>2. CASE req'[c] = <<>>
      BY <2>2
    <2>3. CASE req[c] # <<>> /\ req'[c] = Tail(req[c])
      BY <1>1, <2>3, TailFacts
    <2> QED  BY <2>1, <2>2, <2>3
  <1>3. \A i \in DOMAIN rsp'[c] : \E j \in DOMAIN rsp[c] : rsp'[c][i] = rsp[c][j]
    <2>1. CASE rsp'[c] = rsp[c]
      BY <2>1
    <2>2. CASE rsp'[c] = <<>>
      BY <2>2
    <2>3. CASE rsp[c] # <<>> /\ rsp'[c] = Tail(rsp[c])
      BY <1>1, <2>3, TailFacts
    <2> QED  BY <2>1, <2>2, <2>3
  <1>4. At("req", c, r)' => At("req", c, r)
    BY <1>2 DEF At
  <1>5. At("rsp", c, r)' => At("rsp", c, r)
    BY <1>3 DEF At
  <1> QED  BY <1>4, <1>5 DEF Traffic

\* The steps of a thread make no traffic, except Send.
LEMMA ThreadTraffic ==
    ASSUME TypeInv, NEW t \in Threads, Call(t) \/ ThreadStep(t), ~(Send(t) /\ req' # req)
    PROVE  \A c \in Conns, r \in Requests : Traffic(c, r)' => Traffic(c, r)
  <1>1. UNCHANGED <<hreq, hsock, fdtab>>
    BY DEF ThreadStep, Call, Check, Socket, ClearCid, ReadCid, MakeName, Bind, Connect, Close,
           Reset, Send, RecvEnter, RecvAnswer, RecvEof, RecvReset, LetGo, routerVars,
           handlerVars
  <1>2. CASE UNCHANGED <<req, rsp>>
    BY <1>1, <1>2, TrafficTaken
  <1>3. CASE ~UNCHANGED <<req, rsp>>
    <2>1. Socket(t) \/ RecvAnswer(t) \/ RecvReset(t)
      BY <1>3 DEF ThreadStep, Call, Check, ClearCid, ReadCid, MakeName, Bind, Connect, Close,
                  Reset, Send, RecvEnter, RecvEof, connVars
    <2>2. CASE Socket(t)
      <3>1. PICK d \in Conns : req' = [req EXCEPT ![d] = <<>>] /\ rsp' = [rsp EXCEPT ![d] = <<>>]
        BY <1>3, <2>2 DEF Socket, connVars
      <3> QED  BY <1>1, <3>1, TrafficTaken DEF TypeInv, TypeOK
    <2>3. CASE RecvAnswer(t)
      <3>1. UNCHANGED req /\ rsp' = [rsp EXCEPT ![cfile[t]] = Tail(@)] /\ rsp[cfile[t]] # <<>>
        BY <2>3 DEF RecvAnswer
      <3> QED  BY <1>1, <3>1, TrafficTaken DEF TypeInv, TypeOK
    <2>4. CASE RecvReset(t)
      <3>1. UNCHANGED rsp /\ req' = [req EXCEPT ![cfile[t]] = <<>>]
        BY <2>4 DEF RecvReset
      <3> QED  BY <1>1, <3>1, TrafficTaken DEF TypeInv, TypeOK
    <2> QED  BY <2>1, <2>2, <2>3, <2>4
  <1> QED  BY <1>2, <1>3

\* A handler that serves a request is at work, on a connection that is open.
LEMMA ServesOpen ==
    ASSUME TypeInv, RouterInv, NEW h \in Handlers, NEW r \in Requests, hreq[h] = r
    PROVE  Active(h) /\ hpc[h] = "send" /\ fdtab[hsock[h]] \in Conns
           /\ rend[fdtab[hsock[h]]] = "fd"
  <1>1. hpc[h] = "send"
    BY Nothing DEF TypeInv, HandlerInv
  <1> QED  BY <1>1, OwnFile DEF Active

\* A step of a thread that neither has a call under way nor begins one.
LEMMA QuietSingle ==
    ASSUME Alone, TypeInv, ContainerInv, SingleInv, NEW t \in Threads, Call(t) \/ ThreadStep(t),
           ~(Send(t) /\ req' # req), pc[t] \notin Busy, pc'[t] \notin Busy,
           Sock(t)' = Sock(t) \/ Sock(t)' = None, UNCHANGED owner,
           rsp_msg'[t] # None => rsp_msg'[t] = rsp_msg[t] /\ calls'[t] = calls[t]
    PROVE  SingleInv'
  <1>1. \A c \in Conns, r \in Requests : Traffic(c, r)' => Traffic(c, r)
    BY ThreadTraffic
  <1>2. \A s \in Threads \ {t} : Spared(s)
    BY ThreadSpares
  <1>3. ASSUME NEW c \in Conns, NEW r \in Requests, Mine(t, c)', Traffic(c, r)'  PROVE FALSE
    <2>1. Sock(t)' = c /\ c # None
      BY <1>3, Nothing DEF Mine
    <2>2. Mine(t, c)
      BY <1>3, <2>1 DEF Mine
    <2> QED  BY <1>1, <1>3, <2>2 DEF SingleInv, TrafficInv
  <1>4. rsp_msg'[t] # None => rsp_msg'[t].req = <<t, calls'[t]>>
    BY DEF SingleInv, AnswersMatch
  <1>5. pc'[t] # "waiting"
    BY DEF Busy
  <1> QED  BY <1>1, <1>2, <1>3, <1>4, <1>5, SingleKept

\* A process ends, and its call with it.
LEMMA EndSingle ==
    ASSUME Alone, TypeInv, SingleInv, NEW t \in Threads, ProcEnds(ProcOf[t]),
           UNCHANGED <<calls, rsp_msg, owner, req, rsp>>, UNCHANGED routerVars,
           UNCHANGED handlerVars
    PROVE  SingleInv'
  <1>1. \A c \in Conns, r \in Requests : Traffic(c, r)' => Traffic(c, r)
    BY TrafficTaken DEF routerVars, handlerVars
  <1>2. \A s \in Threads \ {t} : Spared(s)
    BY EndSpares
  <1>3. Sock(t)' = None /\ pc'[t] = "dead"
    BY Nothing DEF ProcEnds, Sock, TypeInv, TypeOK
  <1>4. \A c \in Conns : ~Mine(t, c)'
    BY <1>3, Nothing DEF Mine
  <1>5. rsp_msg'[t] # None => rsp_msg'[t].req = <<t, calls'[t]>>
    BY DEF SingleInv, AnswersMatch
  <1> QED  BY <1>1, <1>2, <1>3, <1>4, <1>5, SingleKept DEF Busy

\* Socket: the connection is new, nothing is under way on it.
LEMMA SocketSingle ==
    ASSUME Alone, TypeInv, RouterInv, ContainerInv, SingleInv, NEW t \in Threads, Socket(t)
    PROVE  SingleInv'
  <1>0. ThreadStep(t) /\ ~(Send(t) /\ req' # req)
    BY DEF ThreadStep, Socket, Send
  <1>1. /\ pc[t] = "socket" /\ pc'[t] \in {"clear", "idle"} /\ UNCHANGED <<calls, rsp_msg>>
        /\ UNCHANGED <<hreq, hsock, fdtab>>
    BY DEF Socket, Goto, TypeInv, TypeOK, routerVars, handlerVars
  <1>2. CASE UNCHANGED connVars /\ client_sock' = [client_sock EXCEPT ![ProcOf[t]] = None]
    <2>1. Sock(t)' = None /\ UNCHANGED owner
      BY <1>2, Nothing DEF Sock, TypeInv, TypeOK, connVars
    <2> QED  BY <1>0, <1>1, <2>1, QuietSingle DEF Busy
  <1>3. CASE ~(UNCHANGED connVars /\ client_sock' = [client_sock EXCEPT ![ProcOf[t]] = None])
    <2>1. PICK d \in Conns :
             /\ rend[d] \in {"none", "closed"}
             /\ client_sock' = [client_sock EXCEPT ![ProcOf[t]] = d]
             /\ req' = [req EXCEPT ![d] = <<>>] /\ rsp' = [rsp EXCEPT ![d] = <<>>]
      BY <1>3 DEF Socket, Free
    <2>2. Sock(t)' = d /\ req'[d] = <<>> /\ rsp'[d] = <<>>
      BY <2>1, Nothing DEF Sock, TypeInv, TypeOK
    <2>3. ASSUME NEW r \in Requests, Traffic(d, r)'  PROVE FALSE
      <3>1. ~At("req", d, r)' /\ ~At("rsp", d, r)'
        BY <2>2 DEF At
      <3>2. PICK h \in Handlers : hreq[h] = r /\ fdtab[hsock[h]] = d
        BY <1>1, <2>3, <3>1 DEF Traffic
      <3> QED  BY <2>1, <3>2, ServesOpen
    <2>4. \A c \in Conns, r \in Requests : Mine(t, c)' /\ Traffic(c, r)' => FALSE
      BY <2>2, <2>3 DEF Mine
    <2>5. rsp_msg'[t] # None => rsp_msg'[t].req = <<t, calls'[t]>>
      BY <1>1 DEF SingleInv, AnswersMatch
    <2>6. \A s \in Threads \ {t} : Spared(s)
      BY <1>0, ThreadSpares
    <2>7. \A c \in Conns, r \in Requests : Traffic(c, r)' => Traffic(c, r)
      BY <1>0, ThreadTraffic
    <2>8. pc'[t] \notin Busy /\ pc'[t] # "waiting"
      BY <1>1 DEF Busy
    <2> QED  BY <2>4, <2>5, <2>6, <2>7, <2>8, SingleKept
  <1> QED  BY <1>2, <1>3

\* Send: the call is the only traffic on the thread's connection.
LEMMA SendSingle ==
    ASSUME Alone, TypeInv, ContainerInv, SingleInv, NEW t \in Threads, Send(t)
    PROVE  SingleInv'
  <1>1. /\ pc[t] = "send" /\ ThreadStep(t)
        /\ UNCHANGED <<calls, rsp_msg, owner, rsp>> /\ UNCHANGED routerVars
        /\ UNCHANGED handlerVars
    BY DEF Send, ThreadStep
  <1>2. CASE UNCHANGED req /\ ProcEnds(ProcOf[t])
    BY <1>1, <1>2, EndSingle
  <1>3. CASE UNCHANGED req /\ ~ProcEnds(ProcOf[t])
    <2>1. (Goto(t, "recv") \/ Goto(t, "close")) /\ UNCHANGED client_sock
      BY <1>3 DEF Send
    <2>2. Goto(t, "close")
      <3> SUFFICES ASSUME ~(SockState(t) # "connected")  PROVE FALSE
        BY <1>3 DEF Send
      <3>1. req' = [req EXCEPT ![Sock(t)] = Append(@, <<t, calls[t]>>)] /\ Sock(t) \in Conns
        BY <1>3, SockFacts DEF Send
      <3>2. req[Sock(t)] \in Seq(Requests) /\ req'[Sock(t)] = Append(req[Sock(t)], <<t, calls[t]>>)
        BY <3>1 DEF TypeInv, TypeOK
      <3>3. Len(req'[Sock(t)]) = Len(req[Sock(t)]) + 1 /\ Len(req[Sock(t)]) \in Nat
        BY <3>2
      <3>4. Len(req'[Sock(t)]) = Len(req[Sock(t)])
        BY <1>3
      <3> QED  BY <3>3, <3>4
    <2>3. pc'[t] = "close" /\ Sock(t)' = Sock(t)
      BY <2>1, <2>2 DEF Goto, Sock, TypeInv, TypeOK
    <2> QED  BY <1>1, <1>3, <2>3, QuietSingle DEF Busy
  <1>4. CASE ~UNCHANGED req
    <2>1. PICK c, m : c = Sock(t) /\ m = <<t, calls[t]>>
      OBVIOUS
    <2>2. /\ SockState(t) = "connected" /\ req' = [req EXCEPT ![c] = Append(req[c], m)]
          /\ Goto(t, "recv") /\ UNCHANGED <<client_sock, cend>>
      BY <1>4, <2>1 DEF Send
    <2>3. c \in Conns /\ owner[c] = ProcOf[t] /\ Mine(t, c)
      BY <2>1, <2>2, SockFacts DEF Mine
    <2>4. m \in Requests /\ req[c] \in Seq(Requests)
      BY <1>1, <2>1, <2>3 DEF TypeInv, ClientInv, TypeOK, Requests
    <2>5. req'[c] = Append(req[c], m) /\ \A d \in Conns \ {c} : req'[d] = req[d]
      BY <2>2, <2>3 DEF TypeInv, TypeOK
    <2>6. \A i \in DOMAIN req'[c] :
             req'[c][i] = m \/ \E j \in DOMAIN req[c] : req'[c][i] = req[c][j]
      BY <2>4, <2>5, JoinFacts
    <2>7. UNCHANGED <<rsp, hreq, hsock, fdtab>>
      BY <1>1 DEF routerVars, handlerVars
    <2>8. \A d \in Conns, r \in Requests :
             Traffic(d, r)' => Traffic(d, r) \/ (d = c /\ r = m)
      <3> SUFFICES ASSUME NEW d \in Conns, NEW r \in Requests, Traffic(d, r)'
                   PROVE  Traffic(d, r) \/ (d = c /\ r = m)
        OBVIOUS
      <3>1. At("req", d, r)' => At("req", d, r) \/ (d = c /\ r = m)
        BY <2>5, <2>6 DEF At
      <3>2. At("rsp", d, r)' => At("rsp", d, r)
        BY <2>7 DEF At
      <3> QED  BY <2>7, <3>1, <3>2 DEF Traffic
    <2>9. \A r \in Requests : ~Traffic(c, r)
      BY <1>1, <2>3 DEF SingleInv, TrafficInv, Busy
    <2>10. pc'[t] = "recv" /\ SockState(t)' = "connected" /\ Sock(t)' = c
      BY <1>1, <2>1, <2>2 DEF Goto, SockState, Sock, TypeInv, TypeOK
    <2>11. \A d \in Conns, r \in Requests :
              Mine(t, d)' /\ Traffic(d, r)' => pc'[t] \in Busy /\ r = <<t, calls'[t]>>
      BY <1>1, <2>1, <2>8, <2>9, <2>10 DEF Mine, Busy
    <2>12. \A s \in Threads \ {t}, d \in Conns, r \in Requests :
              owner'[d] = ProcOf[s] /\ Traffic(d, r)' => Traffic(d, r)
      BY <1>1, <2>3, <2>8 DEF Alone
    <2>13. \A s \in Threads \ {t} : Spared(s)
      BY <1>1, ThreadSpares
    <2>14. rsp_msg'[t] # None => rsp_msg'[t].req = <<t, calls'[t]>>
      BY <1>1 DEF SingleInv, AnswersMatch
    <2> QED  BY <2>10, <2>11, <2>12, <2>13, <2>14, SingleKept
  <1> QED  BY <1>2, <1>3, <1>4

\* RecvEnter: the connection is still the one the request was sent on.
LEMMA EnterSingle ==
    ASSUME Alone, TypeInv, ContainerInv, SingleInv, NEW t \in Threads, RecvEnter(t)
    PROVE  SingleInv'
  <1>1. /\ pc[t] = "recv" /\ ThreadStep(t) /\ ~(Send(t) /\ req' # req)
        /\ UNCHANGED <<client_sock, calls, rsp_msg, owner, cend>>
    BY DEF RecvEnter, ThreadStep, Send, connVars
  <1>2. SockState(t) = "connected"
    BY <1>1 DEF SingleInv, BusyInv, Busy
  <1>3. cfile' = [cfile EXCEPT ![t] = Sock(t)] /\ Goto(t, "waiting")
    BY <1>2 DEF RecvEnter
  <1>4. /\ pc'[t] = "waiting" /\ cfile'[t] = Sock(t) /\ Sock(t)' = Sock(t)
        /\ SockState(t)' = "connected"
    BY <1>1, <1>2, <1>3 DEF Goto, Sock, SockState, TypeInv, TypeOK
  <1>5. \A c \in Conns, r \in Requests : Traffic(c, r)' => Traffic(c, r)
    BY <1>1, ThreadTraffic
  <1>6. \A s \in Threads \ {t} : Spared(s)
    BY <1>1, ThreadSpares
  <1>7. \A c \in Conns, r \in Requests :
           Mine(t, c)' /\ Traffic(c, r)' => pc'[t] \in Busy /\ r = <<t, calls'[t]>>
    BY <1>1, <1>4, <1>5 DEF SingleInv, TrafficInv, Mine, Busy
  <1>8. rsp_msg'[t] # None => rsp_msg'[t].req = <<t, calls'[t]>>
    BY <1>1 DEF SingleInv, AnswersMatch
  <1> QED  BY <1>4, <1>5, <1>6, <1>7, <1>8, SingleKept

\* RecvAnswer: the first answer is the one to the call, and it was the last of
\* the traffic.
LEMMA AnswerSingle ==
    ASSUME Alone, TypeInv, OnceInv, ContainerInv, SingleInv, NEW t \in Threads, RecvAnswer(t)
    PROVE  SingleInv'
  <1>1. /\ pc[t] = "waiting" /\ ThreadStep(t) /\ ~(Send(t) /\ req' # req) /\ LetGo(t)
        /\ Goto(t, "idle")
    BY DEF RecvAnswer, ThreadStep, Send
  <1>2. UNCHANGED <<client_sock, calls, owner>>
    BY <1>1 DEF LetGo
  <1>3. PICK c, n : c = cfile[t] /\ n = <<t, calls[t]>>
    OBVIOUS
  <1>4. /\ c = Sock(t) /\ c \in Conns /\ Mine(t, c) /\ rsp[c] # <<>> /\ rsp[c] \in Seq(Answers)
        /\ rsp_msg' = [rsp_msg EXCEPT ![t] = Head(rsp[c])]
    <2>1. c = Sock(t) /\ c \in Conns
      BY <1>1, <1>3, LetGoTypes DEF SingleInv, BusyInv
    <2>2. SockState(t) = "connected"
      BY <1>1 DEF SingleInv, BusyInv, Busy
    <2>3. Mine(t, c)
      BY <2>1, <2>2, SockFacts DEF Mine
    <2>4. rsp[c] # <<>> /\ rsp_msg' = [rsp_msg EXCEPT ![t] = Head(rsp[c])]
      BY <1>3 DEF RecvAnswer
    <2> QED  BY <2>1, <2>3, <2>4 DEF TypeInv, TypeOK
  <1>5. Head(rsp[c]).req = n /\ n \in Requests
    <2>1. 1 \in DOMAIN rsp[c] /\ Head(rsp[c]) = rsp[c][1] /\ Head(rsp[c]) \in Answers
      BY <1>4, TailFacts
    <2>2. PICK r \in Requests : r = Head(rsp[c]).req
      BY <2>1 DEF Answers
    <2>3. Traffic(c, r)
      BY <1>4, <2>1, <2>2 DEF Traffic, At
    <2> QED  BY <1>3, <1>4, <2>2, <2>3 DEF SingleInv, TrafficInv
  <1>6. rsp_msg'[t].req = n /\ pc'[t] = "idle" /\ Sock(t)' = c
    BY <1>1, <1>2, <1>4, <1>5 DEF Goto, Sock, TypeInv, TypeOK
  <1>7. ~Traffic(c, n)'
    <2>1. /\ UNCHANGED <<req, hreq>> /\ rsp'[c] = Tail(rsp[c])
      BY <1>1, <1>3, <1>4 DEF RecvAnswer, LetGo, handlerVars, TypeInv, TypeOK
    <2>2. /\ 1 \in DOMAIN rsp[c] /\ rsp[c][1].req = n
          /\ \A i \in DOMAIN Tail(rsp[c]) : i + 1 \in DOMAIN rsp[c] /\ i + 1 # 1
                                            /\ Tail(rsp[c])[i] = rsp[c][i + 1]
      BY <1>4, <1>5, TailFacts
    <2>3. At("rsp", c, n) /\ "rsp" \in Kinds /\ c \in Places
      BY <1>4, <2>2 DEF At, Kinds, Places
    <2>4. \A k \in Kinds, x \in Places : At(k, x, n) => k = "rsp"
      BY <1>5, <2>3 DEF OnceInv, OnePlace
    <2>5. ~At("req", c, n) /\ \A h \in Handlers : ~At("serve", h, n)
      BY <1>4, <2>4 DEF Kinds, Places
    <2>6. ~At("req", c, n)' /\ \A h \in Handlers : hreq'[h] # n
      BY <2>1, <2>5 DEF At
    <2>7. \A i \in DOMAIN Tail(rsp[c]) : Tail(rsp[c])[i].req # n
      BY <1>4, <2>2 DEF OnceInv, OnceThere
    <2>8. ~At("rsp", c, n)'
      BY <2>1, <2>7 DEF At
    <2> QED  BY <2>6, <2>8 DEF Traffic
  <1>8. \A d \in Conns, r \in Requests : Traffic(d, r)' => Traffic(d, r)
    BY <1>1, ThreadTraffic
  <1>9. \A r \in Requests : ~Traffic(c, r)'
    BY <1>3, <1>4, <1>7, <1>8 DEF SingleInv, TrafficInv
  <1>10. \A d \in Conns, r \in Requests : ~(Mine(t, d)' /\ Traffic(d, r)')
    BY <1>6, <1>9 DEF Mine
  <1>11. \A s \in Threads \ {t} : Spared(s)
    BY <1>1, ThreadSpares
  <1>12. rsp_msg'[t] # None => rsp_msg'[t].req = <<t, calls'[t]>>
    BY <1>2, <1>3, <1>6
  <1> QED  BY <1>6, <1>8, <1>10, <1>11, <1>12, SingleKept DEF Busy

\* RecvEof and RecvReset: the router's end is closed, so no handler serves it.
LEMMA BrokenSingle ==
    ASSUME Alone, TypeInv, RouterInv, ContainerInv, SingleInv, NEW t \in Threads,
           RecvEof(t) \/ RecvReset(t)
    PROVE  SingleInv'
  <1>1. /\ pc[t] = "waiting" /\ ThreadStep(t) /\ ~(Send(t) /\ req' # req) /\ LetGo(t)
        /\ \E p \in {"idle", "close"} : Goto(t, p)
    BY DEF RecvEof, RecvReset, ThreadStep, Send
  <1>2. UNCHANGED <<client_sock, calls, owner, rsp_msg, hreq, hsock, fdtab>>
    BY <1>1 DEF LetGo, RecvEof, RecvReset, routerVars, handlerVars
  <1>3. PICK c : c = cfile[t]
    OBVIOUS
  <1>4. c = Sock(t) /\ c \in Conns /\ rend[c] = "closed" /\ req'[c] = <<>> /\ rsp'[c] = <<>>
    <2>1. c = Sock(t) /\ c \in Conns
      BY <1>1, <1>3, LetGoTypes DEF SingleInv, BusyInv
    <2> QED  BY <1>3, <2>1 DEF RecvEof, RecvReset, TypeInv, TypeOK
  <1>5. ASSUME NEW r \in Requests, Traffic(c, r)'  PROVE FALSE
    <2>1. ~At("req", c, r)' /\ ~At("rsp", c, r)'
      BY <1>4 DEF At
    <2>2. PICK h \in Handlers : hreq[h] = r /\ fdtab[hsock[h]] = c
      BY <1>2, <1>5, <2>1 DEF Traffic
    <2> QED  BY <1>4, <2>2, ServesOpen
  <1>6. Sock(t)' = c /\ pc'[t] \in {"idle", "close"}
    BY <1>1, <1>2, <1>4 DEF Goto, Sock, TypeInv, TypeOK
  <1>7. \A d \in Conns, r \in Requests : ~(Mine(t, d)' /\ Traffic(d, r)')
    BY <1>5, <1>6 DEF Mine
  <1>8. \A s \in Threads \ {t} : Spared(s)
    BY <1>1, ThreadSpares
  <1>9. \A d \in Conns, r \in Requests : Traffic(d, r)' => Traffic(d, r)
    BY <1>1, ThreadTraffic
  <1>10. rsp_msg'[t] # None => rsp_msg'[t].req = <<t, calls'[t]>>
    BY <1>2 DEF SingleInv, AnswersMatch
  <1> QED  BY <1>6, <1>7, <1>8, <1>9, <1>10, SingleKept DEF Busy

\* The other steps of a thread, and the end of a process.
LEMMA ClientSingle ==
    ASSUME Alone, TypeInv, OnceInv, RouterInv, ContainerInv, SingleInv,
           (\E t \in Threads : Call(t) \/ ThreadStep(t)) \/ (\E p \in Procs : ProcDies(p))
    PROVE  SingleInv'
  <1>1. ASSUME NEW t \in Threads,
               \/ Call(t) \/ Check(t) \/ ClearCid(t) \/ ReadCid(t) \/ MakeName(t) \/ Bind(t)
               \/ Connect(t) \/ Close(t) \/ Reset(t)
        PROVE  SingleInv'
    <2>1. /\ pc[t] \notin Busy /\ UNCHANGED owner /\ ~(Send(t) /\ req' # req)
          /\ Call(t) \/ ThreadStep(t)
      BY <1>1 DEF Call, Check, ClearCid, ReadCid, MakeName, Bind, Connect, Close, Reset,
                  ThreadStep, Send, Busy, connVars
    <2>2. \E p \in {"check", "socket", "head", "tail", "name", "send", "idle", "bind", "connect",
                    "close", "reset"} :
             Goto(t, p)
      BY <1>1 DEF Call, Check, ClearCid, ReadCid, MakeName, Bind, Connect, Close, Reset
    <2>3. pc'[t] \notin Busy
      BY <2>2 DEF Goto, TypeInv, TypeOK, Busy
    <2>4. client_sock' = client_sock \/ client_sock' = [client_sock EXCEPT ![ProcOf[t]] = None]
      BY <1>1 DEF Call, Check, ClearCid, ReadCid, MakeName, Bind, Connect, Close, Reset
    <2>5. Sock(t)' = Sock(t) \/ Sock(t)' = None
      BY <2>4, Nothing DEF Sock, TypeInv, TypeOK
    <2>6. \/ UNCHANGED <<calls, rsp_msg>>
          \/ rsp_msg' = [rsp_msg EXCEPT ![t] = None]
      BY <1>1 DEF Call, Check, ClearCid, ReadCid, MakeName, Bind, Connect, Close, Reset
    <2>7. rsp_msg'[t] # None => rsp_msg'[t] = rsp_msg[t] /\ calls'[t] = calls[t]
      BY <2>6 DEF TypeInv, TypeOK
    <2> QED  BY <2>1, <2>3, <2>5, <2>7, QuietSingle
  <1>2. ASSUME NEW p \in Procs, ProcDies(p)  PROVE SingleInv'
    <2>1. PICK t \in Threads : ProcOf[t] = p
      BY <1>2 DEF ProcDies
    <2> QED  BY <1>2, <2>1, EndSingle DEF ProcDies
  <1> QED  BY <1>1, <1>2, SocketSingle, SendSingle, EnterSingle, AnswerSingle, BrokenSingle
              DEF ThreadStep

\* The router and its handlers move traffic along its connection, or lose it.
LEMMA RouterTraffic ==
    ASSUME TypeInv, RouterInv, Listen \/ Stop \/ Accept \/ \E h \in Handlers : HandlerStep(h)
    PROVE  \A c \in Conns, r \in Requests : Traffic(c, r)' => Traffic(c, r)
  <1>1. ASSUME UNCHANGED <<req, rsp, hreq>>,
               \A h \in Handlers : Active(h) => \/ fdtab'[hsock'[h]] = fdtab[hsock[h]]
                                                \/ fdtab'[hsock'[h]] = None
        PROVE  \A c \in Conns, r \in Requests : Traffic(c, r)' => Traffic(c, r)
    <2> SUFFICES ASSUME NEW c \in Conns, NEW r \in Requests, Traffic(c, r)'  PROVE Traffic(c, r)
      OBVIOUS
    <2>1. (At("req", c, r)' => At("req", c, r)) /\ (At("rsp", c, r)' => At("rsp", c, r))
      BY <1>1 DEF At
    <2>2. ASSUME NEW h \in Handlers, hreq'[h] = r, fdtab'[hsock'[h]] = c  PROVE Traffic(c, r)
      <3>1. hreq[h] = r /\ Active(h)
        BY <1>1, <2>2, ServesOpen
      <3> QED  BY <1>1, <2>2, <3>1, Nothing DEF Traffic
    <2> QED  BY <2>1, <2>2 DEF Traffic
  <1>2. ASSUME UNCHANGED <<req, rsp>>, \A h \in Handlers : hreq'[h] = None
        PROVE  \A c \in Conns, r \in Requests : Traffic(c, r)' => Traffic(c, r)
    <2> SUFFICES ASSUME NEW c \in Conns, NEW r \in Requests, Traffic(c, r)'  PROVE Traffic(c, r)
      OBVIOUS
    <2>1. (At("req", c, r)' => At("req", c, r)) /\ (At("rsp", c, r)' => At("rsp", c, r))
      BY <1>2 DEF At
    <2> QED  BY <1>2, <2>1, Nothing DEF Traffic
  <1>3. CASE Listen
    BY <1>1, <1>3 DEF Listen, connVars, handlerVars
  <1>4. CASE Stop
    BY <1>2, <1>4 DEF Stop, RouterEnds
  <1>5. CASE Accept
    <2>1. UNCHANGED <<req, rsp>>
      BY <1>5 DEF Accept
    <2>2. CASE RouterEnds("down")
      BY <1>2, <2>1, <2>2 DEF RouterEnds
    <2>3. CASE ~RouterEnds("down")
      <3>1. PICK f \in Rfds, c \in Conns :
               /\ fdtab[f] = None /\ fdtab' = [fdtab EXCEPT ![f] = c]
               /\ UNCHANGED <<hsock, hreq>>
        BY <1>5, <2>3, AcceptFacts
      <3>2. \A h \in Handlers : Active(h) => fdtab'[hsock'[h]] = fdtab[hsock[h]]
        BY <3>1 DEF RouterInv, FdInv, TypeInv, TypeOK
      <3> QED  BY <1>1, <2>1, <3>1, <3>2
    <2> QED  BY <2>2, <2>3
  <1>6. ASSUME NEW h \in Handlers,
               \/ HandlerStart(h) /\ ~RouterEnds("killed")
               \/ HandlerRecvEnter(h) \/ HandlerEof(h) \/ HandlerClose(h)
        PROVE  \A c \in Conns, r \in Requests : Traffic(c, r)' => Traffic(c, r)
    <2>1. UNCHANGED <<req, rsp, hreq>>
      BY <1>6 DEF HandlerStart, HandlerRecvEnter, HandlerEof, HandlerClose, connVars
    <2>2. \/ UNCHANGED fdtab /\ UNCHANGED hsock
          \/ UNCHANGED fdtab /\ ~Active(h) /\ hsock' = [hsock EXCEPT ![h] = accepted]
          \/ UNCHANGED hsock /\ fdtab' = [fdtab EXCEPT ![hsock[h]] = None]
      BY <1>6 DEF HandlerStart, HandlerRecvEnter, HandlerEof, HandlerClose, routerVars, Active
    <2>3. \A g \in Handlers : Active(g) => \/ fdtab'[hsock'[g]] = fdtab[hsock[g]]
                                           \/ fdtab'[hsock'[g]] = None
      BY <2>2 DEF RouterInv, FdInv, TypeInv, TypeOK
    <2> QED  BY <1>1, <2>1, <2>3
  <1>9. ASSUME NEW h \in Handlers, HandlerStart(h), RouterEnds("killed")
        PROVE  \A c \in Conns, r \in Requests : Traffic(c, r)' => Traffic(c, r)
    BY <1>2, <1>9 DEF HandlerStart, RouterEnds
  <1>7. ASSUME NEW h \in Handlers, HandlerRecv(h)
        PROVE  \A c \in Conns, r \in Requests : Traffic(c, r)' => Traffic(c, r)
    <2> SUFFICES ASSUME NEW c \in Conns, NEW r \in Requests, Traffic(c, r)'  PROVE Traffic(c, r)
      OBVIOUS
    <2>1. PICK d : d = hfile[h]
      OBVIOUS
    <2>2. /\ hpc[h] = "recv" /\ req[d] # <<>> /\ HandlerLetsGo(h)
          /\ hreq' = [hreq EXCEPT ![h] = Head(req[d])] /\ req' = [req EXCEPT ![d] = Tail(req[d])]
          /\ UNCHANGED <<rsp, fdtab, hsock>>
      BY <1>7, <2>1 DEF HandlerRecv, routerVars
    <2>3. d \in Conns /\ d = fdtab[hsock[h]] /\ req[d] \in Seq(Requests)
      <3>1. d \in Conns /\ d = File(h) /\ Active(h)
        BY <2>1, <2>2, NothingDropped DEF Active
      <3> QED  BY <3>1, OwnFile DEF TypeInv, TypeOK
    <2>4. /\ req'[d] = Tail(req[d]) /\ \A e \in Conns \ {d} : req'[e] = req[e]
          /\ hreq'[h] = Head(req[d]) /\ \A g \in Handlers \ {h} : hreq'[g] = hreq[g]
      BY <2>2, <2>3 DEF TypeInv, TypeOK
    <2>5. /\ 1 \in DOMAIN req[d] /\ Head(req[d]) = req[d][1]
          /\ \A i \in DOMAIN Tail(req[d]) : i + 1 \in DOMAIN req[d]
                                            /\ Tail(req[d])[i] = req[d][i + 1]
      BY <2>2, <2>3, TailFacts
    <2>6. At("req", c, r)' => At("req", c, r)
      <3>1. CASE c = d
        <4>1. \A i \in DOMAIN req'[c] : \E j \in DOMAIN req[c] : req'[c][i] = req[c][j]
          BY <2>4, <2>5, <3>1
        <4> QED  BY <4>1 DEF At
      <3>2. CASE c # d
        BY <2>4, <3>2 DEF At
      <3> QED  BY <3>1, <3>2
    <2>7. At("rsp", c, r)' => At("rsp", c, r)
      BY <2>2 DEF At
    <2>8. ASSUME hreq'[h] = r, fdtab'[hsock'[h]] = c  PROVE At("req", c, r)
      BY <2>2, <2>3, <2>4, <2>5, <2>8 DEF At
    <2>9. ASSUME NEW g \in Handlers, hreq'[g] = r, fdtab'[hsock'[g]] = c  PROVE Traffic(c, r)
      BY <2>2, <2>4, <2>8, <2>9 DEF Traffic
    <2> QED  BY <2>6, <2>7, <2>9 DEF Traffic
  <1>8. ASSUME NEW h \in Handlers, HandlerSend(h)
        PROVE  \A c \in Conns, r \in Requests : Traffic(c, r)' => Traffic(c, r)
    <2>1. UNCHANGED req /\ hpc[h] = "send" /\ Active(h)
      BY <1>8 DEF HandlerSend, Active
    <2>2. CASE RouterEnds("killed") /\ UNCHANGED rsp
      BY <1>2, <2>1, <2>2 DEF RouterEnds
    <2>3. CASE ~(RouterEnds("killed") /\ UNCHANGED rsp)
      <3> SUFFICES ASSUME NEW c \in Conns, NEW r \in Requests, Traffic(c, r)'
                   PROVE  Traffic(c, r)
        OBVIOUS
      <3>1. PICK d, a : d = File(h) /\ a = [req |-> hreq[h], cid |-> hcid[h]]
        OBVIOUS
      <3>2. d \in Conns /\ d = fdtab[hsock[h]] /\ d # None
        BY <2>1, <3>1, OwnFile, Nothing
      <3>3. /\ rsp' = [rsp EXCEPT ![d] = rsp[d] \o <<a>>]
            /\ hreq' = [hreq EXCEPT ![h] = None] /\ UNCHANGED <<fdtab, hsock>>
        BY <1>8, <2>3, <3>1, <3>2 DEF HandlerSend, Answer, routerVars
      <3>4. a \in Answers /\ rsp[d] \in Seq(Answers)
        <4>1. hreq[h] \in Requests /\ hcid[h] \in AllCids
          BY <2>1 DEF TypeInv, TypeOK, HandlerInv
        <4> QED  BY <3>1, <3>2, <4>1 DEF Answers, TypeInv, TypeOK
      <3>5. /\ rsp'[d] = Append(rsp[d], a) /\ \A e \in Conns \ {d} : rsp'[e] = rsp[e]
            /\ hreq'[h] = None /\ \A g \in Handlers \ {h} : hreq'[g] = hreq[g]
        <4>1. rsp[d] \o <<a>> = Append(rsp[d], a)
          BY <3>4, JoinFacts
        <4> QED  BY <3>2, <3>3, <4>1 DEF TypeInv, TypeOK
      <3>6. At("req", c, r)' => At("req", c, r)
        BY <2>1 DEF At
      <3>7. ASSUME NEW g \in Handlers, hreq'[g] = r, fdtab'[hsock'[g]] = c  PROVE Traffic(c, r)
        BY <3>3, <3>5, <3>7, Nothing DEF Traffic
      <3>8. ASSUME At("rsp", c, r)'  PROVE Traffic(c, r)
        <4>1. CASE c # d
          BY <3>5, <3>8, <4>1 DEF At, Traffic
        <4>2. CASE c = d
          <5>1. PICK i \in DOMAIN rsp'[d] : rsp'[d][i].req = r
            BY <3>8, <4>2 DEF At
          <5>2. (i \in DOMAIN rsp[d] /\ rsp'[d][i] = rsp[d][i]) \/ rsp'[d][i] = a
            BY <3>4, <3>5, <5>1, JoinFacts
          <5>3. CASE rsp'[d][i] = a
            <6>1. hreq[h] = r
              BY <3>1, <5>1, <5>3
            <6> QED  BY <3>2, <4>2, <6>1 DEF Traffic
          <5>4. CASE i \in DOMAIN rsp[d] /\ rsp'[d][i] = rsp[d][i]
            BY <3>2, <4>2, <5>1, <5>4 DEF At, Traffic
          <5> QED  BY <5>2, <5>3, <5>4
        <4> QED  BY <4>1, <4>2
      <3> QED  BY <3>6, <3>7, <3>8 DEF Traffic
    <2> QED  BY <2>2, <2>3
  <1> QED  BY <1>3, <1>4, <1>5, <1>6, <1>7, <1>8, <1>9 DEF HandlerStep

\* Every step keeps the calls apart, if threads have processes of their own and
\* until there is a race.
LEMMA SingleStep ==
    ASSUME Alone
    PROVE  TypeInv /\ OnceInv /\ (~raced => RouterInv) /\ (~raced => ContainerInv)
              /\ (~raced => SingleInv) /\ [Next]_rpcVars
              => (~raced => SingleInv)'
  <1> SUFFICES ASSUME TypeInv, OnceInv, ~raced => RouterInv, ~raced => ContainerInv,
                      ~raced => SingleInv, [Next]_rpcVars, ~raced'
               PROVE  SingleInv'
    OBVIOUS
  <1>0. RouterInv /\ ContainerInv /\ SingleInv
    BY RacedStays
  <1>1. CASE UNCHANGED rpcVars
    <2>1. UNCHANGED clientVars /\ UNCHANGED <<owner, cend, req, rsp, hreq, hsock, fdtab>>
      BY <1>1 DEF rpcVars, connVars, routerVars, handlerVars
    <2> QED  BY <1>0, <2>1, TrafficTaken, SingleSame
  <1>2. CASE Listen \/ Stop \/ Accept \/ \E h \in Handlers : HandlerStep(h)
    <2>1. UNCHANGED clientVars /\ UNCHANGED <<owner, cend>>
      BY <1>2 DEF Listen, Stop, Accept, HandlerStep, HandlerStart, HandlerRecvEnter, HandlerRecv,
                  HandlerEof, HandlerSend, HandlerClose, connVars
    <2> QED  BY <1>0, <1>2, <2>1, RouterTraffic, SingleSame
  <1>3. CASE Next
    BY <1>0, <1>2, <1>3, ClientSingle DEF Next
  <1> QED  BY <1>1, <1>3

\* The invariant of the call under way.
THEOREM SingleInvHolds == ASSUME Alone  PROVE Spec => [](~raced => SingleInv)
  <1>1. Init => (~raced => SingleInv)
    BY InitSingle
  <1> QED  BY <1>1, TypeInvHolds, OnceInvHolds, RouterInvHolds, ContainerInvHolds, SingleStep, PTL
              DEF Spec

\* With one thread per process, and until the router's threads race, a call
\* returns with the answer to it (rpc.c:133-141).
THEOREM RpcOwnAnswer == ASSUME Alone  PROVE Spec => []OwnAnswer
  <1>1. (~raced => SingleInv) => OwnAnswer
    BY DEF SingleInv, AnswersMatch, OwnAnswer
  <1> QED  BY <1>1, SingleInvHolds, PTL
=============================================================================
