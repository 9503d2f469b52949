-------------------------- MODULE RpcHandlerProofs --------------------------
(***************************************************************************)
(* More proofs about RpcChannel, on the router's side: as long as no new   *)
(* handler thread has read its argument too late, every descriptor has one *)
(* handler, the one whose connection it is.  After such a race two handlers *)
(* may serve one descriptor, and another none: that is what the run of the *)
(* accept race shows.                                                      *)
(***************************************************************************)
EXTENDS RpcChannelProofs, Integers

\* Handler h has read its argument and has not closed its descriptor.
Active(h) == hpc[h] \in {"enter", "recv", "send", "close"}

\* What OneHandler says, race or not.
HandlersApart == \A g, h \in Handlers : g # h /\ Active(g) /\ Active(h) => hsock[g] # hsock[h]

\* What AcceptedServed says, race or not.
FdsServed ==
    \A f \in Rfds : fdtab[f] # None =>
        \/ \E h \in Handlers : hsock[h] = f /\ Active(h)
        \/ accepted = f /\ \E h \in Handlers : hpc[h] = "start"
        \/ f \in left

\* At most one handler is about to start, and the descriptor it will find is
\* open and nobody's,
StartInv ==
    /\ \A g, h \in Handlers : hpc[g] = "start" /\ hpc[h] = "start" => g = h
    /\ \A h \in Handlers : hpc[h] = "start" =>
          fdtab[accepted] # None /\ \A g \in Handlers : Active(g) => hsock[g] # accepted

\* the others have an open descriptor each,
FdInv ==
    /\ StartInv
    /\ \A h \in Handlers : Active(h) => hsock[h] \in Rfds /\ fdtab[hsock[h]] # None
    /\ HandlersApart
    /\ FdsServed

\* each descriptor is that of one connection, which the router has accepted,
\* and a handler waits for its own.
ConnInv ==
    /\ \A i, j \in DOMAIN backlog : backlog[i] = backlog[j] => i = j
    /\ \A i \in DOMAIN backlog : rend[backlog[i]] = "backlog"
    /\ \A f \in Rfds : fdtab[f] # None => rend[fdtab[f]] = "fd"
    /\ \A f, g \in Rfds : fdtab[f] # None /\ fdtab[f] = fdtab[g] => f = g
    /\ \A c \in Conns : cend[c] = "new" => rend[c] = "none"
    /\ \A c \in Conns : rend[c] # "dropped"
    /\ \A h \in Handlers : hpc[h] = "recv" => hfile[h] = fdtab[hsock[h]]

RouterInv == FdInv /\ ConnInv

\* Initially there is neither descriptor nor handler.
LEMMA InitRouter == Init => RouterInv
  BY DEF Init, RouterInv, FdInv, StartInv, ConnInv, HandlersApart, FdsServed, Active

\* A step that leaves handlers and descriptors alone.
LEMMA FdSame ==
    ASSUME RouterInv, UNCHANGED <<hpc, hsock, fdtab, accepted, left>>
    PROVE  FdInv'
  BY DEF RouterInv, FdInv, StartInv, HandlersApart, FdsServed, Active

\* A step that leaves the router alone, and puts no new end on a connection
\* that it has accepted.
LEMMA ConnSame ==
    ASSUME RouterInv, UNCHANGED <<backlog, fdtab, hpc, hsock, hfile, rend>>,
           \A c \in Conns : cend'[c] = "new" => cend[c] = "new"
    PROVE  ConnInv'
  BY DEF RouterInv, ConnInv

\* The client's steps.  Socket takes a connection that the router has closed or
\* never had; Connect puts one that it never had in the backlog.
LEMMA ClientRouter ==
    ASSUME TypeInv, RouterInv,
           (\E t \in Threads : Call(t) \/ ThreadStep(t)) \/ (\E p \in Procs : ProcDies(p))
    PROVE  RouterInv'
  <1>1. FdInv'
    <2>1. UNCHANGED <<hpc, hsock, fdtab, accepted, left>>
      BY DEF ThreadStep, Call, Check, Socket, ClearCid, ReadCid, MakeName, Bind, Connect, Close,
             Reset, Send, RecvEnter, RecvAnswer, RecvEof, RecvReset, LetGo, ProcDies,
             routerVars, handlerVars
    <2> QED  BY <2>1, FdSame
  <1>2. ASSUME NEW p \in Procs, ProcEnds(p), UNCHANGED rend, UNCHANGED routerVars,
               UNCHANGED handlerVars
        PROVE  ConnInv'
    BY <1>2, ConnSame DEF ProcEnds, routerVars, handlerVars
  <1>3. ASSUME NEW p \in Procs, ProcDies(p)  PROVE ConnInv'
    BY <1>2, <1>3 DEF ProcDies
  <1>4. ASSUME NEW t \in Threads,
               \/ Call(t) \/ Check(t) \/ ClearCid(t) \/ ReadCid(t) \/ MakeName(t) \/ Reset(t)
               \/ RecvEnter(t)
        PROVE  ConnInv'
    BY <1>4, ConnSame DEF Call, Check, ClearCid, ReadCid, MakeName, Reset, RecvEnter,
                          connVars, routerVars, handlerVars
  <1>5. ASSUME NEW t \in Threads, Send(t)  PROVE ConnInv'
    <2>1. UNCHANGED rend /\ UNCHANGED routerVars /\ UNCHANGED handlerVars
      BY <1>5 DEF Send
    <2>2. UNCHANGED cend \/ ProcEnds(ProcOf[t])
      BY <1>5 DEF Send
    <2> QED  BY <1>2, <2>1, <2>2, Nothing, ConnSame DEF routerVars, handlerVars
  <1>6. ASSUME NEW t \in Threads, Close(t)  PROVE ConnInv'
    <2>1. UNCHANGED rend /\ UNCHANGED routerVars /\ UNCHANGED handlerVars
      BY <1>6 DEF Close
    <2>2. cend' = cend \/ \E v \in {"dropped", "closed"} : cend' = [cend EXCEPT ![Sock(t)] = v]
      BY <1>6 DEF Close
    <2>3. \A c \in Conns : cend'[c] = "new" => cend[c] = "new"
      BY <2>2 DEF TypeInv, TypeOK
    <2> QED  BY <2>1, <2>3, ConnSame DEF routerVars, handlerVars
  <1>7. ASSUME NEW t \in Threads, RecvAnswer(t) \/ RecvEof(t) \/ RecvReset(t)  PROVE ConnInv'
    <2>1. LetGo(t)
      BY <1>7 DEF RecvAnswer, RecvEof, RecvReset
    <2>2. UNCHANGED rend /\ UNCHANGED routerVars /\ UNCHANGED handlerVars
      BY <2>1 DEF LetGo
    <2>3. \A c \in Conns : cend'[c] = "new" => cend[c] = "new"
      BY <2>1 DEF LetGo, TypeInv, TypeOK
    <2> QED  BY <2>2, <2>3, ConnSame DEF routerVars, handlerVars
  <1>8. ASSUME NEW t \in Threads, Bind(t)  PROVE ConnInv'
    <2>1. UNCHANGED <<cend, rend>> /\ UNCHANGED routerVars /\ UNCHANGED handlerVars
      BY <1>8 DEF Bind
    <2> QED  BY <2>1, ConnSame DEF routerVars, handlerVars
  <1>9. ASSUME NEW t \in Threads, Socket(t)  PROVE ConnInv'
    <2>1. UNCHANGED routerVars /\ UNCHANGED handlerVars
      BY <1>9 DEF Socket
    <2>2. CASE UNCHANGED connVars
      BY <2>1, <2>2, ConnSame DEF connVars, routerVars, handlerVars
    <2>3. CASE ~UNCHANGED connVars
      <3>1. PICK c \in Conns :
               /\ rend[c] \in {"none", "closed"}
               /\ cend' = [cend EXCEPT ![c] = "new"] /\ rend' = [rend EXCEPT ![c] = "none"]
        BY <1>9, <2>3 DEF Socket, Free
      <3>2. /\ rend'[c] = "none" /\ \A d \in Conns \ {c} : rend'[d] = rend[d] /\ cend'[d] = cend[d]
        BY <3>1 DEF TypeInv, TypeOK
      <3>3. UNCHANGED <<backlog, fdtab, hpc, hsock, hfile>>
        BY <2>1 DEF routerVars, handlerVars
      <3>4. /\ backlog \in Seq(Conns) /\ \A i \in DOMAIN backlog : backlog[i] \in Conns \ {c}
            /\ \A f \in Rfds : fdtab[f] # None => fdtab[f] \in Conns \ {c}
        BY <3>1 DEF TypeInv, TypeOK, RouterInv, ConnInv
      <3> QED  BY <3>2, <3>3, <3>4 DEF RouterInv, ConnInv
    <2> QED  BY <2>2, <2>3
  <1>10. ASSUME NEW t \in Threads, Connect(t)  PROVE ConnInv'
    <2>1. UNCHANGED handlerVars /\ UNCHANGED fdtab
      BY <1>10 DEF Connect
    <2>2. CASE UNCHANGED <<cend, rend, backlog>>
      BY <2>1, <2>2, ConnSame DEF handlerVars
    <2>3. CASE ~UNCHANGED <<cend, rend, backlog>>
      <3>1. PICK c : c = Sock(t)
        OBVIOUS
      <3>2. /\ SockState(t) = "new" /\ cend' = [cend EXCEPT ![c] = "connected"]
            /\ rend' = [rend EXCEPT ![c] = "backlog"] /\ backlog' = Append(backlog, c)
        BY <1>10, <2>3, <3>1 DEF Connect
      <3>3. c \in Conns /\ rend[c] = "none" /\ backlog \in Seq(Conns)
        BY <3>1, <3>2, SockFacts DEF RouterInv, ConnInv, TypeInv, TypeOK
      <3>4. /\ rend'[c] = "backlog" /\ cend'[c] = "connected"
            /\ \A d \in Conns \ {c} : rend'[d] = rend[d] /\ cend'[d] = cend[d]
        BY <3>2, <3>3 DEF TypeInv, TypeOK
      <3>5. /\ \A i \in DOMAIN backlog : backlog[i] \in Conns \ {c}
            /\ \A f \in Rfds : fdtab[f] # None => fdtab[f] \in Conns \ {c}
        BY <3>3 DEF TypeInv, TypeOK, RouterInv, ConnInv
      <3>6. \A i \in DOMAIN backlog' : (i \in DOMAIN backlog /\ backlog'[i] = backlog[i])
                                       \/ (i = Len(backlog) + 1 /\ backlog'[i] = c)
        BY <3>2, <3>3, JoinFacts
      <3>7. \A i, j \in DOMAIN backlog' : backlog'[i] = backlog'[j] => i = j
        BY <3>5, <3>6 DEF RouterInv, ConnInv
      <3>8. \A i \in DOMAIN backlog' : rend'[backlog'[i]] = "backlog"
        BY <3>4, <3>5, <3>6 DEF RouterInv, ConnInv
      <3>9. \A f \in Rfds : fdtab'[f] # None => rend'[fdtab'[f]] = "fd"
        BY <2>1, <3>4, <3>5 DEF RouterInv, ConnInv
      <3>10. UNCHANGED <<fdtab, hpc, hfile, hsock>>
        BY <2>1 DEF handlerVars
      <3> QED  BY <3>4, <3>7, <3>8, <3>9, <3>10 DEF RouterInv, ConnInv
    <2> QED  BY <2>2, <2>3
  <1> QED  BY <1>1, <1>3, <1>4, <1>5, <1>6, <1>7, <1>8, <1>9, <1>10 DEF RouterInv, ThreadStep

\* The router ends, with all its handlers and descriptors.
LEMMA RouterEndRouter ==
    ASSUME TypeInv, RouterInv, NEW how, RouterEnds(how), UNCHANGED cend
    PROVE  RouterInv'
  <1>1. /\ \A h \in Handlers : hpc'[h] = "unused"
        /\ \A f \in Rfds : fdtab'[f] = None
        /\ backlog' = <<>>
        /\ \A c \in Conns : rend'[c] = IF rend[c] = "none" THEN "none" ELSE "closed"
    BY DEF RouterEnds
  <1>2. FdInv'
    BY <1>1 DEF FdInv, StartInv, HandlersApart, FdsServed, Active
  <1>3. ConnInv'
    <2>1. DOMAIN backlog' = {}
      BY <1>1
    <2> QED  BY <1>1, <2>1 DEF RouterInv, ConnInv
  <1> QED  BY <1>2, <1>3 DEF RouterInv

\* Accept: if nobody is about to start, the descriptor is the new handler's.
LEMMA AcceptRouter ==
    ASSUME TypeInv, RouterInv, Accept, ~raced'
    PROVE  RouterInv'
  <1>1. UNCHANGED cend
    BY DEF Accept
  <1>2. CASE RouterEnds("down")
    BY <1>1, <1>2, RouterEndRouter
  <1>3. CASE ~RouterEnds("down")
    <2>1. PICK f \in Rfds, c \in Conns :
                 /\ fdtab[f] = None /\ accepted' = f /\ fdtab' = [fdtab EXCEPT ![f] = c]
                 /\ c = backlog[1] /\ 1 \in DOMAIN backlog
                 /\ rend' = [rend EXCEPT ![c] = "fd"]
                 /\ \A i \in DOMAIN backlog' : i + 1 \in DOMAIN backlog /\ i + 1 # 1
                                               /\ backlog'[i] = backlog[i + 1]
                 /\ \/ \E h \in Handlers :
                        hpc[h] = "unused" /\ hpc' = [hpc EXCEPT ![h] = "start"]
                        /\ UNCHANGED left
                    \/ (\A h \in Handlers : hpc[h] # "unused") /\ UNCHANGED hpc
                       /\ left' = left \cup {f}
                 /\ raced' = (raced \/ \E h \in Handlers : hpc[h] = "start")
                 /\ UNCHANGED <<hsock, hfile>> /\ DOMAIN backlog' = 1..(Len(backlog) - 1)
      BY <1>3, AcceptFacts
    <2>0. \A h \in Handlers : hpc[h] # "start"
      BY <2>1
    <2>2. /\ fdtab'[f] = c /\ \A g \in Rfds \ {f} : fdtab'[g] = fdtab[g]
          /\ rend'[c] = "fd" /\ \A d \in Conns \ {c} : rend'[d] = rend[d]
      BY <2>1 DEF TypeInv, TypeOK
    <2>3. /\ \A h \in Handlers : hpc'[h] = hpc[h] \/ (hpc[h] = "unused" /\ hpc'[h] = "start")
          /\ \A h \in Handlers : Active(h)' <=> Active(h)
          /\ \A g, h \in Handlers : hpc'[g] = "start" /\ hpc'[h] = "start" => g = h
          /\ (\E h \in Handlers : hpc'[h] = "start") \/ f \in left'
          /\ left \subseteq left'
      BY <2>0, <2>1 DEF Active, TypeInv, TypeOK
    <2>4. \A h \in Handlers : Active(h) => hsock[h] \in Rfds \ {f}
      BY <2>1 DEF RouterInv, FdInv
    <2>5. rend[c] = "backlog" /\ cend[c] # "new"
      BY <2>1 DEF RouterInv, ConnInv
    <2>6. \A g \in Rfds : fdtab[g] # None => fdtab[g] \in Conns \ {c}
      BY <2>5 DEF RouterInv, ConnInv, TypeInv, TypeOK
    <2>7. FdInv'
      <3>1. StartInv'
        BY <2>1, <2>2, <2>3, <2>4, Nothing DEF StartInv
      <3>2. \A h \in Handlers : Active(h)' => hsock'[h] \in Rfds /\ fdtab'[hsock'[h]] # None
        BY <2>1, <2>2, <2>3, <2>4 DEF RouterInv, FdInv
      <3>3. HandlersApart'
        BY <2>1, <2>3 DEF RouterInv, FdInv, HandlersApart, Active
      <3>4. FdsServed'
        BY <2>0, <2>1, <2>2, <2>3 DEF RouterInv, FdInv, FdsServed, Active
      <3> QED  BY <3>1, <3>2, <3>3, <3>4 DEF FdInv
    <2>8. \A i \in DOMAIN backlog' : backlog'[i] \in Conns \ {c}
      BY <2>1 DEF RouterInv, ConnInv, TypeInv, TypeOK
    <2>9. \A i, j \in DOMAIN backlog' : backlog'[i] = backlog'[j] => i = j
      <3> SUFFICES ASSUME NEW i \in DOMAIN backlog', NEW j \in DOMAIN backlog',
                          backlog'[i] = backlog'[j]
                   PROVE  i = j
        OBVIOUS
      <3>1. i + 1 = j + 1
        BY <2>1 DEF RouterInv, ConnInv
      <3>2. Len(backlog) \in Nat
        BY DEF TypeInv, TypeOK
      <3>3. i \in Int /\ j \in Int
        BY <2>1, <3>2
      <3> QED  BY <3>1, <3>3
    <2>10. \A i \in DOMAIN backlog' : rend'[backlog'[i]] = "backlog"
      BY <2>1, <2>2, <2>8 DEF RouterInv, ConnInv
    <2>11. \A g \in Rfds : fdtab'[g] # None => rend'[fdtab'[g]] = "fd"
      BY <2>2, <2>6 DEF RouterInv, ConnInv
    <2>12. \A g, h \in Rfds : fdtab'[g] # None /\ fdtab'[g] = fdtab'[h] => g = h
      BY <2>2, <2>6 DEF RouterInv, ConnInv
    <2>13. \A h \in Handlers : hpc'[h] = "recv" => hfile'[h] = fdtab'[hsock'[h]]
      BY <2>1, <2>2, <2>3, <2>4 DEF RouterInv, ConnInv, Active
    <2>14. ConnInv'
      BY <1>1, <2>2, <2>5, <2>9, <2>10, <2>11, <2>12, <2>13 DEF RouterInv, ConnInv
    <2> QED  BY <2>7, <2>14 DEF RouterInv
  <1> QED  BY <1>2, <1>3

\* A handler that goes on without its descriptor being closed.
LEMMA FdKept ==
    ASSUME TypeInv, RouterInv, NEW h \in Handlers, Active(h), Active(h)',
           \A g \in Handlers \ {h} : hpc'[g] = hpc[g], UNCHANGED <<hsock, fdtab, accepted, left>>
    PROVE  FdInv'
  <1>1. /\ \A g \in Handlers : Active(g)' <=> Active(g)
        /\ \A g \in Handlers : (hpc'[g] = "start" <=> hpc[g] = "start")
                               /\ (hpc'[g] = "unused" <=> hpc[g] = "unused")
    BY DEF Active
  <1>2. StartInv'
    BY <1>1 DEF RouterInv, FdInv, StartInv
  <1>3. HandlersApart'
    BY <1>1 DEF RouterInv, FdInv, HandlersApart, Active
  <1>4. FdsServed'
    BY <1>1 DEF RouterInv, FdInv, FdsServed, Active
  <1> QED  BY <1>1, <1>2, <1>3, <1>4 DEF RouterInv, FdInv

\* The connection of a handler at work.
LEMMA OwnFile ==
    ASSUME TypeInv, RouterInv, NEW h \in Handlers, Active(h)
    PROVE  hsock[h] \in Rfds /\ File(h) = fdtab[hsock[h]] /\ File(h) \in Conns
           /\ rend[File(h)] = "fd"
  <1>1. hsock[h] \in Rfds /\ fdtab[hsock[h]] # None
    BY DEF RouterInv, FdInv
  <1>2. hsock[h] # 0
    BY <1>1 DEF Rfds
  <1> QED  BY <1>1, <1>2 DEF File, TypeInv, TypeOK, RouterInv, ConnInv

\* recv returns to a handler: no end was dropped, so none is closed.
LEMMA NothingDropped ==
    ASSUME TypeInv, RouterInv, NEW h \in Handlers, hpc[h] = "recv", HandlerLetsGo(h)
    PROVE  /\ UNCHANGED rend /\ hfile' = [hfile EXCEPT ![h] = None]
           /\ hfile[h] = File(h) /\ hfile[h] \in Conns
  <1>1. hfile[h] \in Conns
    BY HandlerLetsGoTypes
  <1>2. Active(h) /\ hfile[h] = fdtab[hsock[h]]
    BY DEF Active, RouterInv, ConnInv
  <1> QED  BY <1>1, <1>2, OwnFile DEF HandlerLetsGo, RouterInv, ConnInv

\* The handlers' steps.  Start takes the descriptor that was accepted last,
\* Close gives back its own.
LEMMA HandlerRouter ==
    ASSUME TypeInv, RouterInv, NEW h \in Handlers, HandlerStep(h)
    PROVE  RouterInv'
  <1>1. CASE HandlerStart(h)
    <2>1. hpc[h] = "start" /\ accepted \in Rfds /\ fdtab[accepted] # None
             /\ \A g \in Handlers : Active(g) => hsock[g] # accepted
      BY <1>1 DEF HandlerStart, RouterInv, FdInv, StartInv, TypeInv, HandlerInv, TypeOK, Rfds
    <2>0. CASE RouterEnds("killed") /\ UNCHANGED cend
      BY <2>0, RouterEndRouter
    <2>00. SUFFICES ASSUME ~(RouterEnds("killed") /\ UNCHANGED cend)  PROVE RouterInv'
      BY <2>0
    <2>2. /\ hsock' = [hsock EXCEPT ![h] = accepted] /\ hpc' = [hpc EXCEPT ![h] = "enter"]
          /\ UNCHANGED <<cend, rend>> /\ UNCHANGED routerVars /\ UNCHANGED hfile
      BY <1>1, <2>1, <2>00 DEF HandlerStart, HGoto
    <2>3. /\ hsock'[h] = accepted /\ \A g \in Handlers \ {h} : hsock'[g] = hsock[g]
          /\ hpc'[h] = "enter" /\ \A g \in Handlers \ {h} : hpc'[g] = hpc[g]
      BY <2>2 DEF TypeInv, TypeOK
    <2>4. UNCHANGED <<cend, rend, backlog, fdtab, accepted, left>>
      BY <2>2 DEF connVars, routerVars
    <2>5. Active(h)' /\ ~Active(h) /\ \A g \in Handlers \ {h} : Active(g)' <=> Active(g)
      BY <2>1, <2>3 DEF Active
    <2>6. \A g \in Handlers : hpc'[g] # "start"
      BY <2>1, <2>3 DEF RouterInv, FdInv, StartInv
    <2>7. StartInv'
      BY <2>6 DEF StartInv
    <2>8. \A g \in Handlers : Active(g)' => hsock'[g] \in Rfds /\ fdtab'[hsock'[g]] # None
      BY <2>1, <2>3, <2>4, <2>5 DEF RouterInv, FdInv
    <2>9. HandlersApart'
      BY <2>1, <2>3, <2>5 DEF RouterInv, FdInv, HandlersApart, Active
    <2>10. FdsServed'
      BY <2>1, <2>3, <2>4, <2>5 DEF RouterInv, FdInv, FdsServed, Active
    <2>11. ConnInv'
      BY <2>2, <2>3, <2>4 DEF RouterInv, ConnInv
    <2> QED  BY <2>7, <2>8, <2>9, <2>10, <2>11 DEF RouterInv, FdInv
  <1>2. CASE HandlerRecvEnter(h)
    <2>1. Active(h) /\ hpc[h] = "enter"
      BY <1>2 DEF HandlerRecvEnter, Active
    <2>2. /\ hpc' = [hpc EXCEPT ![h] = "recv"] /\ hfile' = [hfile EXCEPT ![h] = File(h)]
          /\ UNCHANGED connVars /\ UNCHANGED routerVars /\ UNCHANGED hsock
      BY <1>2, <2>1, OwnFile, Nothing DEF HandlerRecvEnter, HGoto
    <2>3. /\ hpc'[h] = "recv" /\ \A g \in Handlers \ {h} : hpc'[g] = hpc[g]
          /\ hfile'[h] = File(h) /\ \A g \in Handlers \ {h} : hfile'[g] = hfile[g]
      BY <2>2 DEF TypeInv, TypeOK
    <2>4. UNCHANGED <<cend, rend, backlog, fdtab, accepted, left>>
      BY <2>2 DEF connVars, routerVars
    <2>5. FdInv'
      BY <2>1, <2>2, <2>3, <2>4, FdKept DEF Active
    <2>6. ConnInv'
      BY <2>1, <2>2, <2>3, <2>4, OwnFile DEF RouterInv, ConnInv
    <2> QED  BY <2>5, <2>6 DEF RouterInv
  <1>3. CASE HandlerRecv(h) \/ HandlerEof(h)
    <2>1. PICK p \in {"send", "close"} :
             /\ hpc[h] = "recv" /\ HandlerLetsGo(h) /\ hpc' = [hpc EXCEPT ![h] = p]
             /\ UNCHANGED routerVars /\ UNCHANGED <<cend, hsock>>
      BY <1>3 DEF HandlerRecv, HandlerEof, HGoto
    <2>2. UNCHANGED rend /\ hfile' = [hfile EXCEPT ![h] = None] /\ Active(h)
      BY <2>1, NothingDropped DEF Active
    <2>3. /\ hpc'[h] = p /\ \A g \in Handlers \ {h} : hpc'[g] = hpc[g]
          /\ \A g \in Handlers \ {h} : hfile'[g] = hfile[g]
      BY <2>1, <2>2 DEF TypeInv, TypeOK
    <2>4. UNCHANGED <<backlog, fdtab, accepted, left>>
      BY <2>1 DEF routerVars
    <2>5. FdInv'
      BY <2>1, <2>2, <2>3, <2>4, FdKept DEF Active
    <2>6. ConnInv'
      BY <2>1, <2>2, <2>3, <2>4 DEF RouterInv, ConnInv
    <2> QED  BY <2>5, <2>6 DEF RouterInv
  <1>4. CASE HandlerSend(h)
    <2>1. CASE RouterEnds("killed") /\ UNCHANGED cend
      BY <2>1, RouterEndRouter
    <2>2. CASE ~(RouterEnds("killed") /\ UNCHANGED cend)
      <3>1. Active(h) /\ hpc[h] = "send"
        BY <1>4 DEF HandlerSend, Active
      <3>2. PICK p \in {"enter", "close"} :
               /\ hpc' = [hpc EXCEPT ![h] = p]
               /\ UNCHANGED routerVars /\ UNCHANGED <<cend, rend, hsock, hfile>>
        BY <1>4, <2>2 DEF HandlerSend, HGoto, AfterAnswer
      <3>3. hpc'[h] = p /\ \A g \in Handlers \ {h} : hpc'[g] = hpc[g]
        BY <3>2 DEF TypeInv, TypeOK
      <3>4. UNCHANGED <<backlog, fdtab, accepted, left>>
        BY <3>2 DEF routerVars
      <3>5. FdInv'
        BY <3>1, <3>2, <3>3, <3>4, FdKept DEF Active
      <3>6. ConnInv'
        BY <3>2, <3>3, <3>4 DEF RouterInv, ConnInv
      <3> QED  BY <3>5, <3>6 DEF RouterInv
    <2> QED  BY <2>1, <2>2
  <1>5. CASE HandlerClose(h)
    <2>1. Active(h) /\ hpc[h] = "close"
      BY <1>5 DEF HandlerClose, Active
    <2>2. PICK c, f : c = File(h) /\ f = hsock[h]
      OBVIOUS
    <2>3. f \in Rfds /\ fdtab[f] = c /\ c \in Conns /\ c # None /\ rend[c] = "fd"
      BY <2>1, <2>2, OwnFile, Nothing
    <2>4. \A g \in Handlers : hfile[g] # c
      <3> SUFFICES ASSUME NEW g \in Handlers, hfile[g] = c  PROVE FALSE
        OBVIOUS
      <3>1. hpc[g] = "recv"
        BY <2>3 DEF TypeInv, HandlerInv
      <3>2. hsock[g] \in Rfds /\ fdtab[hsock[g]] = c
        BY <3>1 DEF RouterInv, FdInv, ConnInv, Active
      <3>3. hsock[g] = f
        BY <2>3, <3>2 DEF RouterInv, ConnInv
      <3> QED  BY <2>1, <2>2, <3>1, <3>3 DEF RouterInv, FdInv, HandlersApart, Active
    <2>5. /\ hpc' = [hpc EXCEPT ![h] = "done"] /\ rend' = [rend EXCEPT ![c] = "closed"]
          /\ fdtab' = [fdtab EXCEPT ![f] = None]
          /\ UNCHANGED <<cend, backlog, accepted, left, hsock, hfile>>
      BY <1>5, <2>2, <2>3, <2>4 DEF HandlerClose, HGoto, AfterClose
    <2>6. /\ hpc'[h] = "done" /\ \A g \in Handlers \ {h} : hpc'[g] = hpc[g]
          /\ rend'[c] = "closed" /\ \A d \in Conns \ {c} : rend'[d] = rend[d]
          /\ fdtab'[f] = None /\ \A g \in Rfds \ {f} : fdtab'[g] = fdtab[g]
      BY <2>3, <2>5 DEF TypeInv, TypeOK
    <2>7. ~Active(h)' /\ \A g \in Handlers \ {h} : Active(g)' <=> Active(g)
      BY <2>6 DEF Active
    <2>8. \A g \in Handlers \ {h} : Active(g) => hsock[g] # f
      BY <2>1, <2>2 DEF RouterInv, FdInv, HandlersApart, Active
    <2>9. \A g \in Handlers : hpc'[g] = "start" => hpc[g] = "start" /\ accepted # f
      BY <2>1, <2>2, <2>6 DEF RouterInv, FdInv, StartInv
    <2>10. FdInv'
      <3>0. \A g \in Handlers : hpc[g] = "start" => accepted \in Rfds
        BY DEF TypeInv, TypeOK, HandlerInv, Rfds
      <3>1. StartInv'
        BY <2>5, <2>6, <2>7, <2>9, <3>0 DEF RouterInv, FdInv, StartInv
      <3>2. \A g \in Handlers : Active(g)' => hsock'[g] \in Rfds /\ fdtab'[hsock'[g]] # None
        BY <2>5, <2>6, <2>7, <2>8 DEF RouterInv, FdInv
      <3>3. HandlersApart'
        BY <2>5, <2>6, <2>7 DEF RouterInv, FdInv, HandlersApart, Active
      <3>4. FdsServed'
        <4> SUFFICES ASSUME NEW e \in Rfds, fdtab'[e] # None
              PROVE \/ \E g \in Handlers : hsock'[g] = e /\ Active(g)'
                    \/ accepted' = e /\ \E g \in Handlers : hpc'[g] = "start"
                    \/ e \in left'
          BY DEF FdsServed
        <4>1. e # f /\ fdtab[e] # None
          BY <2>6
        <4>2. \/ \E g \in Handlers : hsock[g] = e /\ Active(g)
              \/ accepted = e /\ \E g \in Handlers : hpc[g] = "start"
              \/ e \in left
          BY <4>1 DEF RouterInv, FdInv, FdsServed, Active
        <4> QED  BY <2>1, <2>2, <2>5, <2>6, <4>1, <4>2 DEF Active
      <3> QED  BY <3>1, <3>2, <3>3, <3>4 DEF FdInv
    <2>11. \A g \in Rfds : fdtab'[g] # None => g # f /\ fdtab'[g] = fdtab[g] /\ fdtab[g] # c
                                              /\ fdtab[g] \in Conns
      BY <2>3, <2>6 DEF RouterInv, ConnInv, TypeInv, TypeOK
    <2>12. \A i \in DOMAIN backlog : backlog[i] \in Conns \ {c}
      BY <2>3 DEF RouterInv, ConnInv, TypeInv, TypeOK
    <2>13. \A e \in Conns : cend[e] = "new" => e # c
      BY <2>3 DEF RouterInv, ConnInv
    <2>14. \A g \in Handlers : hpc'[g] = "recv" => hfile'[g] = fdtab'[hsock'[g]]
      BY <2>5, <2>6, <2>7, <2>8 DEF RouterInv, FdInv, ConnInv, Active
    <2>15. ConnInv'
      BY <2>5, <2>6, <2>11, <2>12, <2>13, <2>14 DEF RouterInv, ConnInv
    <2> QED  BY <2>10, <2>15 DEF RouterInv
  <1> QED  BY <1>1, <1>2, <1>3, <1>4, <1>5 DEF HandlerStep

\* A race is not forgotten.
LEMMA RacedStays == TypeInv /\ [Next]_rpcVars /\ ~raced' => ~raced
  <1> SUFFICES ASSUME TypeInv, [Next]_rpcVars, ~raced'  PROVE ~raced
    OBVIOUS
  <1>1. CASE UNCHANGED routerVars
    BY <1>1 DEF routerVars
  <1>2. CASE (\E t \in Threads : Call(t) \/ ThreadStep(t)) \/ (\E p \in Procs : ProcDies(p))
    <2>1. UNCHANGED routerVars \/ UNCHANGED raced
      BY <1>2 DEF ThreadStep, Call, Check, Socket, ClearCid, ReadCid, MakeName, Bind, Connect,
                  Close, Reset, Send, RecvEnter, RecvAnswer, RecvEof, RecvReset, LetGo, ProcDies
    <2> QED  BY <1>1, <2>1
  <1>3. CASE Listen \/ Stop \/ Accept
    BY <1>3, AcceptFacts DEF Listen, Stop
  <1>4. ASSUME NEW h \in Handlers, HandlerStep(h)  PROVE ~raced
    <2>1. UNCHANGED routerVars \/ UNCHANGED raced
      BY <1>4 DEF HandlerStep, HandlerStart, HandlerRecvEnter, HandlerRecv, HandlerEof,
                  HandlerSend, HandlerClose
    <2> QED  BY <1>1, <2>1
  <1> QED  BY <1>1, <1>2, <1>3, <1>4 DEF Next, rpcVars

\* Every step keeps the invariant, until there is a race.
LEMMA RouterStep == TypeInv /\ (~raced => RouterInv) /\ [Next]_rpcVars => (~raced => RouterInv)'
  <1> SUFFICES ASSUME TypeInv, ~raced => RouterInv, [Next]_rpcVars, ~raced'  PROVE RouterInv'
    OBVIOUS
  <1>0. RouterInv
    BY RacedStays
  <1>1. CASE UNCHANGED rpcVars
    BY <1>0, <1>1, FdSame, ConnSame DEF rpcVars, connVars, routerVars, handlerVars, RouterInv
  <1>2. CASE Listen
    BY <1>0, <1>2, FdSame, ConnSame DEF Listen, connVars, handlerVars, RouterInv
  <1>3. CASE Stop
    BY <1>0, <1>3, RouterEndRouter DEF Stop
  <1>4. CASE Next
    BY <1>0, <1>2, <1>3, <1>4, ClientRouter, AcceptRouter, HandlerRouter DEF Next
  <1> QED  BY <1>1, <1>4

\* The invariant of the router's descriptors and handlers.
THEOREM RouterInvHolds == Spec => [](~raced => RouterInv)
  <1>1. Init => (~raced => RouterInv)
    BY InitRouter
  <1> QED  BY <1>1, TypeInvHolds, RouterStep, PTL DEF Spec

\* Until the router's threads race, no two handlers have the same descriptor
\* (test_router.cpp:35).
THEOREM RpcOneHandler == Spec => []OneHandler
  <1>1. (~raced => RouterInv) => OneHandler
    BY DEF RouterInv, FdInv, HandlersApart, OneHandler, Active
  <1> QED  BY <1>1, RouterInvHolds, PTL

\* Until the router's threads race, an accepted connection has its handler, or
\* no thread could be created for it (test_router.cpp:369).
THEOREM RpcAcceptedServed == Spec => []AcceptedServed
  <1>1. (~raced => RouterInv) => AcceptedServed
    BY DEF RouterInv, FdInv, FdsServed, AcceptedServed, Active
  <1> QED  BY <1>1, RouterInvHolds, PTL
=============================================================================
