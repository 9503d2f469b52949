----------------------------- MODULE VidRouting -----------------------------
(***************************************************************************)
(* Virtual node identities: the virtual cluster manager (vcm/vcm.cpp), the *)
(* routers' identity tables (router/lib/routing.cpp) and the TCP           *)
(* connection each router holds to the manager.                            *)
(*                                                                         *)
(* A container (cid) joins through a handler thread of its router; the     *)
(* router asks the manager for a new virtual id (vid) and remembers it.    *)
(* Calls that name a virtual node are translated to the LITE node id (nid) *)
(* of its router, from a cache or by asking the manager.  All threads of a *)
(* router share one connection, and hold map_mutex across the round trip.  *)
(*                                                                         *)
(* A member of Routers is one router PROCESS: a router that is restarted   *)
(* is another member, possibly with the same nid.                          *)
(***************************************************************************)
EXTENDS Integers, Sequences, FiniteSets

CONSTANTS
    Routers,    \* router processes, each with one connection to the manager
    RouterNid,  \* router_nid of each router, the result of LITE's join
    Threads,    \* handler threads, one per connected client socket
    RouterOf,   \* the router a handler thread runs in
    CidOf,      \* the container id a handler thread read from the name of its
                \* peer (PathCid of RpcChannel)
    Cids,       \* container ids as routers read them
    LookupVids, \* the virtual node ids that clients' calls name
    MaxId,      \* bound: the largest node id, virtual or not
    MaxFd,      \* bound: the manager's limit on open descriptors
    None        \* "no thread", "no connection"

Ids == 1..MaxId
Fds == 1..MaxFd

ASSUME RoutingAssumption ==
    /\ MaxId \in Nat /\ MaxFd \in Nat
    /\ RouterNid \in [Routers -> Ids]
    /\ RouterOf \in [Threads -> Routers]
    /\ CidOf \in [Threads -> Cids]
    /\ LookupVids \subseteq Ids
    /\ None \notin Threads /\ None \notin Routers

\* The system has finitely many processes, and these finitely many threads.
ASSUME FiniteAssumption == IsFiniteSet(Routers) /\ IsFiniteSet(Threads)

VARIABLES
    (* the manager process *)
    vcm_up,             \* the process is alive
    vid,                \* last virtual id handed out
    vid_nid_map,        \* vid -> nid, Absent where there is no entry
    vcm_fds,            \* its descriptors -> the connection of a router
    vcm_client_sock,    \* main's client_sock: the descriptor accepted last
    vcm_pc, vcm_sock,   \* handler thread created for a connection: its step,
    vcm_file, vcm_msg,  \* its client_sock, the connection its recv waits on,
                        \* its msg
    vcm_raced,          \* history: main has accepted a connection while a new
                        \* thread had not yet read client_sock
    (* the TCP connections *)
    link, req, rsp,     \* state seen by the router; messages under way
    (* the router processes *)
    main,               \* progress of main()
    client_sock,        \* routing.cpp's static fd
    map_mutex,          \* holder of the mutex
    cid_vid_map, vid_nid_map_cache,
    (* the routers' handler threads *)
    pc, call, ret

vcmThreadVars == <<vcm_fds, vcm_client_sock, vcm_pc, vcm_sock, vcm_file, vcm_msg, vcm_raced>>
vcmVars == <<vcm_up, vid, vid_nid_map, vcmThreadVars>>
linkVars == <<link, req, rsp>>
routerVars == <<main, client_sock, map_mutex, cid_vid_map, vid_nid_map_cache>>
threadVars == <<pc, call, ret>>
vars == <<vcmVars, linkVars, routerVars, threadVars>>

(***************************************************************************)
(* Data.  Ids are small integers: -1 is the error every layer uses, and no *)
(* table ever holds 0, which stands for "no such key".  A router's tables  *)
(* have no place for errors, but an answer of the wrong kind can put one   *)
(* there, as a value and as a key.                                         *)
(***************************************************************************)
Absent == 0
Error  == -1
Closed == -1
Fd     == 1

Keys == Ids \cup {Error}

Msg(f, i) == [func_code |-> f, id |-> i]
Msgs == [func_code : {"VID_NID", "NID_VID"}, id : Keys]
NoMsg == Msg("VID_NID", Error)

Call(o, v) == [op |-> o, vid |-> v]
NoCall == Call("get_node_id", Absent)
Calls == {NoCall, Call("join", Absent)}
             \cup {Call("vid_nid", v) : v \in LookupVids}

\* Mutant: operator[] = in place of insert.
MapAssign(m, k, v) == [m EXCEPT ![k] = v]

\* unordered_map::insert leaves an existing entry alone.
MapInsert(m, k, v) == IF m[k] = Absent THEN [m EXCEPT ![k] = v] ELSE m

TypeOK ==
    /\ vcm_up \in BOOLEAN
    /\ vid \in 0..MaxId
    /\ vid_nid_map \in [Ids -> Ids \cup {Absent}]
    /\ vcm_fds \in [Fds -> Routers \cup {None}]
    /\ vcm_client_sock \in 0..MaxFd
    /\ vcm_pc \in [Routers -> {"none", "pending", "starting", "enter", "recv", "send",
                               "close", "end"}]
    /\ vcm_sock \in [Routers -> 0..MaxFd]
    /\ vcm_file \in [Routers -> Routers \cup {None}]
    /\ vcm_msg \in [Routers -> Msgs]
    /\ vcm_raced \in BOOLEAN
    /\ link \in [Routers -> {"none", "up", "eof", "dead", "reset", "closed"}]
    /\ req \in [Routers -> Seq(Msgs)]
    /\ rsp \in [Routers -> Seq(Msgs)]
    /\ main \in [Routers -> {"off", "joining", "run", "leaving", "exit"}]
    /\ client_sock \in [Routers -> {Closed, Fd}]
    /\ map_mutex \in [Routers -> Threads \cup {None}]
    /\ cid_vid_map \in [Routers -> [Cids -> Keys \cup {Absent}]]
    /\ vid_nid_map_cache \in [Routers -> [Keys -> Keys \cup {Absent}]]
    /\ pc \in [Threads -> {"idle", "call", "recv", "reply", "gone"}]
    /\ call \in [Threads -> Calls]
    /\ ret \in [Threads -> Keys]

Init ==
    /\ vcm_up = TRUE
    /\ vid = 0
    /\ vid_nid_map = [v \in Ids |-> Absent]
    /\ vcm_fds = [f \in Fds |-> None]
    /\ vcm_client_sock = 0
    /\ vcm_pc = [r \in Routers |-> "none"]
    /\ vcm_sock = [r \in Routers |-> 0]
    /\ vcm_file = [r \in Routers |-> None]
    /\ vcm_msg = [r \in Routers |-> NoMsg]
    /\ vcm_raced = FALSE
    /\ link = [r \in Routers |-> "none"]
    /\ req = [r \in Routers |-> <<>>]
    /\ rsp = [r \in Routers |-> <<>>]
    /\ main = [r \in Routers |-> "off"]
    /\ client_sock = [r \in Routers |-> Closed]
    /\ map_mutex = [r \in Routers |-> None]
    /\ cid_vid_map = [r \in Routers |-> [c \in Cids |-> Absent]]
    /\ vid_nid_map_cache = [r \in Routers |-> [v \in Keys |-> Absent]]
    /\ pc = [t \in Threads |-> "idle"]
    /\ call = [t \in Threads |-> NoCall]
    /\ ret = [t \in Threads |-> Error]

-----------------------------------------------------------------------------
(***************************************************************************)
(* The manager.                                                            *)
(***************************************************************************)

FreeFds == {f \in Fds : vcm_fds[f] = None}

\* main: accept stores the lowest free descriptor in main's own client_sock and
\* passes that variable's address to the new thread.  Without a free descriptor
\* accept fails and main exits (VcmExit).
VcmAccept(r) ==
    /\ vcm_up
    /\ vcm_pc[r] = "pending"
    /\ \E f \in FreeFds :
        /\ \A g \in FreeFds : f <= g
        /\ vcm_client_sock' = f
        /\ vcm_fds' = [vcm_fds EXCEPT ![f] = r]
    /\ vcm_raced' = (vcm_raced \/ \E h \in Routers : vcm_pc[h] = "starting")
    /\ vcm_pc' = [vcm_pc EXCEPT ![r] = "starting"]
    /\ UNCHANGED <<vcm_up, vid, vid_nid_map, vcm_sock, vcm_file, vcm_msg, linkVars,
                   routerVars, threadVars>>

VcmGoto(h, p) == vcm_pc' = [vcm_pc EXCEPT ![h] = p]

\* The connection that the thread's descriptor stands for at this moment.
Peer(h) == vcm_fds[vcm_sock[h]]

\* The new thread reads main's client_sock when it first runs, which may be
\* after main has accepted another connection.  getpeername fails on a
\* descriptor that has been closed and on a connection that has been reset.
VcmThreadStart(h) ==
    /\ vcm_up
    /\ vcm_pc[h] = "starting"
    /\ vcm_sock' = [vcm_sock EXCEPT ![h] = vcm_client_sock]
    /\ LET c == vcm_fds[vcm_client_sock] IN
       VcmGoto(h, IF c # None /\ link[c] # "reset" THEN "enter" ELSE "close")
    /\ UNCHANGED <<vcm_up, vid, vid_nid_map, vcm_fds, vcm_client_sock, vcm_file, vcm_msg,
                   vcm_raced, linkVars, routerVars, threadVars>>

\* recv is called: it waits on the connection, whatever becomes of the number.
VcmRecvEnter(h) ==
    /\ vcm_up
    /\ vcm_pc[h] = "enter"
    /\ \/ Peer(h) # None /\ VcmGoto(h, "recv") /\ vcm_file' = [vcm_file EXCEPT ![h] = Peer(h)]
       \/ Peer(h) = None /\ VcmGoto(h, "close") /\ UNCHANGED vcm_file
    /\ UNCHANGED <<vcm_up, vid, vid_nid_map, vcm_fds, vcm_client_sock, vcm_sock, vcm_msg,
                   vcm_raced, linkVars, routerVars, threadVars>>

\* The manager's end of connection c is gone, with the requests q unread.
VcmHangUp(c, q) ==
    /\ link' = IF link[c] = "up"
               THEN [link EXCEPT ![c] = IF q = <<>> THEN "eof" ELSE "reset"] ELSE link
    /\ req' = [req EXCEPT ![c] = <<>>]

\* recv returns and leaves the requests q on its connection, which ends here if
\* its descriptor has been closed meanwhile and no other thread waits on it.
VcmLetGo(h, q) ==
    LET c == vcm_file[h]
        held == (\E f \in Fds : vcm_fds[f] = c) \/ (\E g \in Routers \ {h} : vcm_file[g] = c)
    IN  /\ vcm_file' = [vcm_file EXCEPT ![h] = None]
        /\ \/ held /\ req' = [req EXCEPT ![c] = q] /\ UNCHANGED link
           \/ ~held /\ VcmHangUp(c, q)

\* Mutant: operator[] in place of find answers 0 for a missing key.
NidByVidNoFind(v) == IF v \in Ids THEN vid_nid_map[v] ELSE 0

get_nid_by_vid(v) ==
    IF v \in Ids /\ vid_nid_map[v] # Absent THEN vid_nid_map[v] ELSE Error

\* Mutant: the counter is not incremented once it has been set.
NewVidNoIncrement == IF vid = 0 THEN 1 ELSE vid

\* ++vid
NewVid == vid + 1

get_new_vid(nid) ==
    /\ vid < MaxId
    /\ vid' = NewVid
    /\ vid_nid_map' = MapInsert(vid_nid_map, NewVid, nid)

\* A handler thread receives a request and looks up or extends the table
\* under vcm_mutex; the result replaces the id in the message.
VcmServe(h) ==
    /\ vcm_up
    /\ vcm_pc[h] = "recv"
    /\ req[vcm_file[h]] # <<>>
    /\ LET m == Head(req[vcm_file[h]]) IN
        \/ /\ m.func_code = "VID_NID"
           /\ vcm_msg' = [vcm_msg EXCEPT ![h] = Msg("VID_NID", get_nid_by_vid(m.id))]
           /\ UNCHANGED <<vid, vid_nid_map>>
        \/ /\ m.func_code = "NID_VID"
           /\ get_new_vid(m.id)
           /\ vcm_msg' = [vcm_msg EXCEPT ![h] = Msg("NID_VID", NewVid)]
    /\ VcmLetGo(h, Tail(req[vcm_file[h]]))
    /\ VcmGoto(h, "send")
    /\ UNCHANGED <<vcm_up, vcm_fds, vcm_client_sock, vcm_sock, vcm_raced, rsp, routerVars, threadVars>>

\* The answer is sent to whatever the descriptor stands for by now: on a
\* connection that is gone it is lost, and the thread ends if send reports it.
\* The next recv overwrites msg, so its old content is dropped here.
VcmReply(h) ==
    /\ vcm_up
    /\ vcm_pc[h] = "send"
    /\ \/ /\ Peer(h) # None /\ link[Peer(h)] = "up"
          /\ rsp' = [rsp EXCEPT ![Peer(h)] = Append(@, vcm_msg[h])]
          /\ VcmGoto(h, "enter")
       \/ /\ Peer(h) # None /\ link[Peer(h)] \in {"closed", "reset"}
          /\ \E p \in {"enter", "close"} : VcmGoto(h, p)
          /\ UNCHANGED rsp
       \/ /\ Peer(h) = None
          /\ VcmGoto(h, "close")
          /\ UNCHANGED rsp
    /\ vcm_msg' = [vcm_msg EXCEPT ![h] = NoMsg]
    /\ UNCHANGED <<vcm_up, vid, vid_nid_map, vcm_fds, vcm_client_sock, vcm_sock, vcm_file, vcm_raced,
                   link, req, routerVars, threadVars>>

\* recv returns 0 or fails.
VcmRecvFails(h) ==
    /\ vcm_up
    /\ vcm_pc[h] = "recv"
    /\ req[vcm_file[h]] = <<>>
    /\ link[vcm_file[h]] \in {"closed", "reset"}
    /\ VcmLetGo(h, <<>>)
    /\ VcmGoto(h, "close")
    /\ UNCHANGED <<vcm_up, vid, vid_nid_map, vcm_fds, vcm_client_sock, vcm_sock, vcm_msg, vcm_raced,
                   rsp, routerVars, threadVars>>

\* close(client_sock), by number, and pthread_exit.  The connection lives on
\* while a thread waits on it.
VcmThreadEnd(h) ==
    /\ vcm_up
    /\ vcm_pc[h] = "close"
    /\ \/ /\ Peer(h) # None
          /\ \/ (\E g \in Routers : vcm_file[g] = Peer(h)) /\ UNCHANGED <<link, req>>
             \/ (\A g \in Routers : vcm_file[g] # Peer(h)) /\ VcmHangUp(Peer(h), req[Peer(h)])
       \/ Peer(h) = None /\ UNCHANGED <<link, req>>
    /\ vcm_fds' = [vcm_fds EXCEPT ![vcm_sock[h]] = None]
    /\ vcm_sock' = [vcm_sock EXCEPT ![h] = 0]
    /\ VcmGoto(h, "end")
    /\ UNCHANGED <<vcm_up, vid, vid_nid_map, vcm_client_sock, vcm_file, vcm_msg, vcm_raced,
                   rsp, routerVars, threadVars>>

\* SIGINT ends main's loop, by keepRunning or by select failing with EINTR, or
\* accept fails; main returns or exits without joining the threads, which are
\* gone.  (A send of two raced threads can end the process with SIGPIPE.)  A
\* connection with an unread request, or not yet accepted, is reset; the
\* others reach end of file once what was sent has been read.
VcmExit ==
    /\ vcm_up
    /\ vcm_up' = FALSE
    /\ link' = [r \in Routers |->
                   IF link[r] # "up" THEN link[r]
                   ELSE IF req[r] # <<>> \/ vcm_pc[r] = "pending" THEN "reset"
                   ELSE "eof"]
    /\ req' = [r \in Routers |-> <<>>]
    /\ vcm_fds' = [f \in Fds |-> None]
    /\ vcm_client_sock' = 0
    /\ vcm_pc' = [r \in Routers |-> "none"]
    /\ vcm_sock' = [r \in Routers |-> 0]
    /\ vcm_file' = [r \in Routers |-> None]
    /\ vcm_msg' = [r \in Routers |-> NoMsg]
    /\ UNCHANGED <<vid, vid_nid_map, vcm_raced, rsp, routerVars, threadVars>>

\* The network or a peer's kernel resets a connection; what was under way is
\* lost.
LinkReset(r) ==
    /\ link[r] = "up"
    /\ link' = [link EXCEPT ![r] = "reset"]
    /\ req' = [req EXCEPT ![r] = <<>>]
    /\ rsp' = [rsp EXCEPT ![r] = <<>>]
    /\ UNCHANGED <<vcmVars, routerVars, threadVars>>

-----------------------------------------------------------------------------
(***************************************************************************)
(* The router's main thread.                                               *)
(***************************************************************************)

\* close(client_sock); client_sock = -1
vcm_disconn(r) == client_sock' = [client_sock EXCEPT ![r] = Closed]

\* vcm_conn succeeds: the connection waits in the manager's backlog.
RouterConnect(r) ==
    /\ main[r] = "off"
    /\ vcm_up
    /\ main' = [main EXCEPT ![r] = "joining"]
    /\ client_sock' = [client_sock EXCEPT ![r] = Fd]
    /\ link' = [link EXCEPT ![r] = "up"]
    /\ vcm_pc' = [vcm_pc EXCEPT ![r] = "pending"]
    /\ UNCHANGED <<vcm_up, vid, vid_nid_map, vcm_fds, vcm_client_sock, vcm_sock, vcm_file,
                   vcm_msg, vcm_raced, req, rsp, map_mutex, cid_vid_map, vid_nid_map_cache, threadVars>>

\* vcm_conn fails, whether or not the manager is up: exit.
RouterConnectFail(r) ==
    /\ main[r] = "off"
    /\ main' = [main EXCEPT ![r] = "exit"]
    /\ UNCHANGED <<vcmVars, linkVars, client_sock, map_mutex, cid_vid_map,
                   vid_nid_map_cache, threadVars>>

\* LITE's join gives a node id from 1 to 10: the router serves clients.
RouterJoin(r) ==
    /\ main[r] = "joining"
    /\ main' = [main EXCEPT ![r] = "run"]
    /\ UNCHANGED <<vcmVars, linkVars, client_sock, map_mutex, cid_vid_map,
                   vid_nid_map_cache, threadVars>>

\* The end of the process: every handler thread stops where it is and the
\* kernel closes the connection; a request already sent still arrives.  The
\* tables keep their last value, so that properties speak of every id a
\* container was ever given.
ProcessEnds(r) ==
    /\ main' = [main EXCEPT ![r] = "exit"]
    /\ client_sock' = [client_sock EXCEPT ![r] = Closed]
    /\ map_mutex' = [map_mutex EXCEPT ![r] = None]
    /\ pc' = [t \in Threads |-> IF RouterOf[t] = r THEN "gone" ELSE pc[t]]
    /\ call' = [t \in Threads |-> IF RouterOf[t] = r THEN NoCall ELSE call[t]]
    /\ ret' = [t \in Threads |-> IF RouterOf[t] = r THEN Error ELSE ret[t]]
    /\ link' = [link EXCEPT ![r] = "closed"]
    /\ rsp' = [rsp EXCEPT ![r] = <<>>]
    /\ UNCHANGED <<vcmVars, req, cid_vid_map, vid_nid_map_cache>>

\* exit from main: LITE's join failed, select failed (EINTR on SIGINT), or
\* main returned after vcm_disconn.
RouterExit(r) ==
    /\ main[r] \in {"joining", "run", "leaving"}
    /\ ProcessEnds(r)

\* keepRunning is false: main calls vcm_disconn, without the mutex, while the
\* handler threads still run.  A thread already blocked in recv keeps the
\* connection open; one that has not reached recv yet does not.
RouterDisconn(r) ==
    /\ main[r] = "run"
    /\ main' = [main EXCEPT ![r] = "leaving"]
    /\ vcm_disconn(r)
    /\ \/ /\ \E t \in Threads : RouterOf[t] = r /\ pc[t] = "recv"
          /\ UNCHANGED <<link, rsp>>
       \/ /\ link' = [link EXCEPT ![r] = "closed"]
          /\ rsp' = [rsp EXCEPT ![r] = <<>>]
    /\ UNCHANGED <<vcmVars, req, map_mutex, cid_vid_map, vid_nid_map_cache, threadVars>>

-----------------------------------------------------------------------------
(***************************************************************************)
(* The router's handler threads.                                           *)
(***************************************************************************)
Serving(r) == main[r] \in {"run", "leaving"}

\* A request arrives on the client's socket: get_node_id, join, or one of
\* alloc_remote_mem, send_reply_imm_fast and query_port, which translate the
\* virtual node id they carry.
Request(t) ==
    /\ Serving(RouterOf[t])
    /\ pc[t] = "idle"
    /\ \E c \in Calls : call' = [call EXCEPT ![t] = c]
    /\ pc' = [pc EXCEPT ![t] = "call"]
    /\ UNCHANGED <<vcmVars, linkVars, routerVars, ret>>

\* Mutant: vcm_join asks the manager without a look at cid_vid_map.
FoundNoFindInJoin(t) ==
    CASE call[t].op = "vid_nid" -> vid_nid_map_cache[RouterOf[t]][call[t].vid]
      [] call[t].op = "join" -> Absent
      [] call[t].op = "get_node_id" -> cid_vid_map[RouterOf[t]][CidOf[t]]

\* The entry the call's find() looks for.
Found(t) ==
    IF call[t].op = "vid_nid"
    THEN vid_nid_map_cache[RouterOf[t]][call[t].vid]
    ELSE cid_vid_map[RouterOf[t]][CidOf[t]]

\* Mutant: the function body without its lock_guard.
EnterUnlocked(t) == pc[t] = "call"

\* lock_guard: the thread enters once the mutex is free.
Enter(t) == pc[t] = "call" /\ map_mutex[RouterOf[t]] = None

\* Mutant: an explicit unlock that one return path forgets.
ReturnLocked(t, v) ==
    /\ ret' = [ret EXCEPT ![t] = v]
    /\ pc' = [pc EXCEPT ![t] = "reply"]
    /\ map_mutex' = IF v = Error THEN map_mutex ELSE [map_mutex EXCEPT ![RouterOf[t]] = None]
    /\ UNCHANGED call

\* return v: the guard's destructor releases the mutex.
Return(t, v) ==
    /\ ret' = [ret EXCEPT ![t] = v]
    /\ pc' = [pc EXCEPT ![t] = "reply"]
    /\ map_mutex' = [map_mutex EXCEPT ![RouterOf[t]] = None]
    /\ UNCHANGED call

\* The thread has used the result (the LITE call itself is not modelled),
\* sends the response to its client and waits for the next request.
SendResponse(t) ==
    /\ pc[t] = "reply"
    /\ pc' = [pc EXCEPT ![t] = "idle"]
    /\ call' = [call EXCEPT ![t] = NoCall]
    /\ ret' = [ret EXCEPT ![t] = Error]
    /\ UNCHANGED <<vcmVars, linkVars, routerVars>>

\* The entry is there, or the call is vcm_get_node_id, which never asks the
\* manager.
AnswerFromTable(t) ==
    /\ Enter(t)
    /\ \/ Found(t) # Absent /\ Return(t, Found(t))
       \/ Found(t) = Absent /\ call[t].op = "get_node_id" /\ Return(t, Error)
    /\ UNCHANGED <<vcmVars, linkVars, main, client_sock, cid_vid_map, vid_nid_map_cache>>

\* vcm_join and vcm_vid_nid without an entry call vcm_handler.
AsksManager(t) == Enter(t) /\ call[t].op # "get_node_id" /\ Found(t) = Absent

\* Mutant: vcm_vid_nid sends the func_code of vcm_join.
RequestMsgCopied(t) ==
    Msg("NID_VID", IF call[t].op = "join" THEN RouterNid[RouterOf[t]] ELSE call[t].vid)

RequestMsg(t) ==
    IF call[t].op = "join" THEN Msg("NID_VID", RouterNid[RouterOf[t]])
                           ELSE Msg("VID_NID", call[t].vid)

NotConnected(t) == AsksManager(t) /\ client_sock[RouterOf[t]] = Closed

HandlerNotConnected(t) ==
    /\ NotConnected(t)
    /\ Return(t, Error)
    /\ UNCHANGED <<vcmVars, linkVars, main, client_sock, cid_vid_map, vid_nid_map_cache>>

\* send succeeds and the thread goes on to recv.  After the manager has
\* closed its end the message provokes a reset ("dead").
HandlerSend(t) ==
    LET r == RouterOf[t] IN
    /\ AsksManager(t)
    /\ client_sock[r] = Fd
    /\ \/ /\ link[r] = "up"
          /\ req' = [req EXCEPT ![r] = Append(@, RequestMsg(t))]
          /\ UNCHANGED link
       \/ /\ link[r] \in {"eof", "dead"}
          /\ link' = [link EXCEPT ![r] = "dead"]
          /\ UNCHANGED req
    /\ pc' = [pc EXCEPT ![t] = "recv"]
    /\ map_mutex' = [map_mutex EXCEPT ![r] = t]
    /\ UNCHANGED <<vcmVars, rsp, main, client_sock, cid_vid_map, vid_nid_map_cache, call, ret>>

\* send on a connection the manager closed and then reset raises SIGPIPE,
\* which the router does not handle.
HandlerSigpipe(t) ==
    /\ AsksManager(t)
    /\ client_sock[RouterOf[t]] = Fd
    /\ link[RouterOf[t]] = "dead"
    /\ ProcessEnds(RouterOf[t])

\* send fails: vcm_disconn, return -1.
HandlerSendError(t) ==
    /\ AsksManager(t)
    /\ client_sock[RouterOf[t]] = Fd
    /\ link[RouterOf[t]] = "reset"
    /\ vcm_disconn(RouterOf[t])
    /\ Return(t, Error)
    /\ UNCHANGED <<vcmVars, linkVars, main, cid_vid_map, vid_nid_map_cache>>

\* recv fails, on a connection that was reset or because main closed the
\* descriptor before recv was called: vcm_disconn, return -1.
HandlerRecvError(t) ==
    /\ pc[t] = "recv"
    /\ link[RouterOf[t]] \in {"reset", "closed"} /\ rsp[RouterOf[t]] = <<>>
    /\ vcm_disconn(RouterOf[t])
    /\ Return(t, Error)
    /\ UNCHANGED <<vcmVars, linkVars, main, cid_vid_map, vid_nid_map_cache>>

\* vcm_handler returned 0 with id i in the message: insert and return.
Conclude(t, i) ==
    LET r == RouterOf[t] IN
    /\ \/ /\ call[t].op = "join"
          /\ cid_vid_map' = [cid_vid_map EXCEPT ![r] = MapInsert(@, CidOf[t], i)]
          /\ vid_nid_map_cache' = [vid_nid_map_cache EXCEPT ![r] = MapInsert(@, i, RouterNid[r])]
       \/ /\ call[t].op = "vid_nid"
          /\ vid_nid_map_cache' = [vid_nid_map_cache EXCEPT ![r] = MapInsert(@, call[t].vid, i)]
          /\ UNCHANGED cid_vid_map
    /\ Return(t, i)
    /\ UNCHANGED <<vcmVars, link, req, main, client_sock>>

HandlerRecv(t) ==
    LET r == RouterOf[t] IN
    /\ pc[t] = "recv"
    /\ rsp[r] # <<>>
    /\ rsp' = [rsp EXCEPT ![r] = Tail(@)]
    /\ Conclude(t, Head(rsp[r]).id)

\* recv returns 0 at end of file, which is not below 0: vcm_handler returns
\* success and the message still holds the id that was sent.
HandlerRecvEof(t) ==
    /\ pc[t] = "recv"
    /\ rsp[RouterOf[t]] = <<>>
    /\ link[RouterOf[t]] \in {"eof", "dead"}
    /\ Conclude(t, RequestMsg(t).id)
    /\ UNCHANGED rsp

-----------------------------------------------------------------------------
VcmThread(h) ==
    \/ VcmAccept(h) \/ VcmThreadStart(h) \/ VcmRecvEnter(h) \/ VcmServe(h) \/ VcmReply(h)
    \/ VcmRecvFails(h) \/ VcmThreadEnd(h)

RouterMain(r) ==
    \/ RouterConnect(r) \/ RouterConnectFail(r) \/ RouterJoin(r)
    \/ RouterExit(r) \/ RouterDisconn(r)

Receive(t) == HandlerRecv(t) \/ HandlerRecvEof(t) \/ HandlerRecvError(t)

Handler(t) ==
    \/ Request(t) \/ AnswerFromTable(t) \/ HandlerNotConnected(t)
    \/ HandlerSend(t) \/ HandlerSigpipe(t) \/ HandlerSendError(t) \/ Receive(t)
    \/ SendResponse(t)

Next ==
    \/ \E r \in Routers : VcmThread(r) \/ RouterMain(r) \/ LinkReset(r)
    \/ \E t \in Threads : Handler(t)
    \/ VcmExit

\* Threads that can run do run: the kernel schedules the manager's main loop
\* and handler threads, and a thread whose recv can return.
Fairness ==
    /\ \A r \in Routers : WF_vars(VcmThread(r))
    /\ \A t \in Threads : WF_vars(Receive(t))

Spec == Init /\ [][Next]_vars

FairSpec == Spec /\ Fairness

-----------------------------------------------------------------------------
(***************************************************************************)
(* Properties.                                                             *)
(*                                                                         *)
(* Most of them are about an orderly manager: it is up (what a router      *)
(* records after the manager has gone is another matter, see               *)
(* HeldVidsAssigned), and each of its threads has found its own descriptor *)
(* in main's client_sock.  Nothing in vcm.cpp orders that read before the  *)
(* next accept.  After a race (vcm_raced) two threads hold one number; one *)
(* closes it, a third router's connection gets it, and the other thread    *)
(* sends an earlier router's answer there: no property of ids survives.    *)
(***************************************************************************)
Orderly == vcm_up /\ ~vcm_raced

Held(r, c) == cid_vid_map[r][c]
Joined(r, c) == Held(r, c) # Absent

\* While the manager is orderly, no two containers, of one router or of two,
\* hold the same virtual id, although answers can be lost on the way and a
\* descriptor of the manager is used for one router after another
\* (vcm.cpp get_new_vid, routing.cpp vcm_join).
UniqueVids ==
    Orderly => \A q, r \in Routers, c, d \in Cids :
                   Joined(q, c) /\ Held(q, c) = Held(r, d) => q = r /\ c = d

\* While the manager is orderly, a container's virtual id is one the manager
\* has assigned to that container's router: the answer a thread reads in
\* vcm_handler is never one meant for another thread's lookup, nor for a
\* router that had the descriptor before.
JoinedVidsAssigned ==
    Orderly => \A r \in Routers, c \in Cids :
                   Joined(r, c) => Held(r, c) \in Ids /\ vid_nid_map[Held(r, c)] = RouterNid[r]

\* While the manager is orderly, a translation a router has cached, or has
\* just returned from vcm_vid_nid, is the manager's own, or -1.
TranslationsTrue ==
    Orderly =>
        /\ \A r \in Routers, v \in Ids :
               vid_nid_map_cache[r][v] \in {Absent, Error, vid_nid_map[v]}
        /\ \A t \in Threads :
               pc[t] = "reply" /\ call[t].op = "vid_nid" => ret[t] \in {Error, vid_nid_map[call[t].vid]}

\* map_mutex is held across the round trip of vcm_handler, so at most one
\* request of a router is on its way, being served or answered, unless the
\* manager's threads have raced.
OneOutstanding ==
    ~vcm_raced =>
        \A r \in Routers :
            LET serving == {h \in Routers : vcm_pc[h] = "send" /\ Peer(h) = r}
            IN  Len(req[r]) + Len(rsp[r]) + Cardinality(serving) <= 1

\* No container costs the manager more than one virtual id, however many of
\* its threads join at once and whichever answers are lost: vcm_join checks
\* cid_vid_map and fills it under one lock, and a lost answer closes the
\* router's only connection.
OneVidPerContainer ==
    vid <= Cardinality({<<RouterOf[t], CidOf[t]>> : t \in Threads})

\* What a router has told a client once it tells every client for ever: an
\* entry of cid_vid_map or vid_nid_map_cache never changes, a cached -1
\* included (unordered_map::insert in vcm_join and vcm_vid_nid).
EntriesFinal ==
    [][\A r \in Routers :
          /\ \A c \in Cids : cid_vid_map[r][c] # Absent => cid_vid_map'[r][c] = cid_vid_map[r][c]
          /\ \A v \in Keys : vid_nid_map_cache[r][v] # Absent
                              => vid_nid_map_cache'[r][v] = vid_nid_map_cache[r][v]]_vars

\* A thread that holds map_mutex while it waits for the manager lets go of it
\* again, whatever happens to the manager and to the connection, and with it
\* every other client of that router.  For one router: with two the manager's
\* threads can race, and then nobody serves the first.
MutexReleased ==
    \A r \in Routers : (map_mutex[r] # None) ~> (map_mutex[r] = None)

\* The manager, the routers' threads and the connections together implement
\* the directory: their tables are its tables, and its promise about ids ends
\* when the manager exits or its threads race.
Directory == INSTANCE VidDirectory WITH
                 up <- Orderly, table <- vid_nid_map,
                 member <- cid_vid_map, known <- vid_nid_map_cache

ImplementsDirectory == Directory!DirSpec

-----------------------------------------------------------------------------
(***************************************************************************)
(* What a comment of the repository says of the code and the code does     *)
(* not do.                                                                 *)
(***************************************************************************)

\* routing.cpp:75, "msg: response message structure": when vcm_handler reports
\* success the message holds the manager's response, so every id recorded by
\* vcm_join is one the manager assigned, whether or not it is still up.
HeldVidsAssigned ==
    \A r \in Routers, c \in Cids : Joined(r, c) => Held(r, c) \in Ids /\ vid_nid_map[Held(r, c)] = RouterNid[r]
=============================================================================
