----------------------------- MODULE RpcChannel -----------------------------
(***************************************************************************)
(* Remote calls from client processes to their router over UNIX stream     *)
(* sockets: rpc_conn, rpc_disconn and rpc_handler of client/lib/rpc.c, as  *)
(* the wrappers of client/lib/lite-lib.c call them, and the router's       *)
(* accept loop and handler threads (router/test_router.cpp).               *)
(*                                                                         *)
(* The variables client_sock and cid of rpc.c are one per process and      *)
(* unprotected, and so is the variable client_sock of the router's main,   *)
(* whose address every new handler thread is given.  A step of this module *)
(* is one system call or one access to such a variable.                    *)
(*                                                                         *)
(* A descriptor is closed by number, a system call that waits keeps the    *)
(* file it was called on: an end of a connection is gone when neither      *)
(* refers to it.  What the router does for a request is not looked at      *)
(* here: the answer names the request and the container it was served for. *)
(***************************************************************************)
EXTENDS Naturals, Sequences, FiniteSets

CONSTANTS
    Procs,          \* client processes
    Cid,            \* the id of a process's container, which /proc/1/cpuset shows:
                    \* a pair of its first five characters and its sixth
    Threads,        \* their threads that call the library
    ProcOf,         \* the process of a thread
    Conns,          \* bound: connections alive at the same time
    Handlers,       \* bound: threads the router can create; none is joined
    MaxRfd,         \* bound: the router's limit on open descriptors
    MaxCalls,       \* bound: calls of one thread
    CutCid,         \* what the router reads for an id from the name of a socket
                    \* that has less than five characters of one: digits of a pid
    None            \* no connection, no process, no message, no name

\* A process binds its sockets to CLIENT_PATH, the characters that cid holds,
\* and its pid: a name with the whole id, or one that is cut.
Names == {"whole", "cut"}

Rfds == 1..MaxRfd
Requests == Threads \X (1..MaxCalls)

ASSUME RpcAssumption ==
    /\ ProcOf \in [Threads -> Procs]
    /\ MaxRfd \in Nat /\ MaxCalls \in Nat
    /\ DOMAIN Cid = Procs /\ \A p \in Procs : Len(Cid[p]) = 2
    /\ None \notin Conns \cup Procs \cup Requests \cup Names /\ \A p \in Procs : None # Cid[p][1]
    /\ None # CutCid

VARIABLES
    client_sock,    \* rpc.c's static variable: process -> connection, None is -1
    cid,            \* rpc.c's static buffer: the parts of it that are filled
    path,           \* does the file exist that a process binds its sockets to?
    pc,             \* thread -> step of rpc_handler
    calls,          \* thread -> calls made so far
    rsp_msg,        \* thread -> its rsp_msg; None if nothing was written to it
    cfile,          \* thread -> the connection its recv waits on
    name,           \* thread -> the name it is about to give to its socket
    owner,          \* connection -> process that created it
    cend,           \* connection -> state of the client's end
    cname,          \* connection -> the name of the client's end
    rend,           \* connection -> state of the router's end
    req, rsp,       \* connection -> bytes under way, in whole messages
    router,         \* "down", "up", or "killed" by SIGPIPE or an exception
    backlog,        \* connections the router has not accepted yet
    accepted,       \* the variable client_sock of the router's main
    fdtab,          \* the router's descriptors -> connection
    raced,          \* history: main has accepted a connection while a new thread
                    \* had not yet read its argument
    left,           \* history: descriptors for which no thread could be created
    hpc,            \* handler thread -> step
    hsock,          \* handler thread -> its descriptor
    hcid,           \* handler thread -> container it takes its client to be in
    hfile,          \* handler thread -> the connection its recv waits on
    hreq            \* handler thread -> the request it serves

clientVars == <<client_sock, cid, path, pc, calls, rsp_msg, cfile, name>>
connVars == <<owner, cend, cname, rend, req, rsp>>
routerVars == <<router, backlog, accepted, fdtab, raced, left>>
handlerVars == <<hpc, hsock, hcid, hfile, hreq>>
rpcVars == <<clientVars, connVars, routerVars, handlerVars>>

\* The buffer cid is filled one character after another, which takes two steps
\* here: it holds an id when both parts are there.
Parts == {"head", "tail"}

\* client_path.substr(8, 6), of the path a process binds its socket to:
\* CLIENT_PATH, six characters of the container's id, and the pid.  Position 8
\* is the last slash of "/var/tmp/", so five characters of the id remain.
PathCid(p) == Cid[p][1]

\* A name that is cut may still have these five.
PathCids(c) == {PathCid(owner[c])} \cup (IF cname[c] = "cut" THEN {CutCid} ELSE {})

AllCids == {PathCid(p) : p \in Procs} \cup {CutCid}

Answers == [req : Requests, cid : AllCids]

TypeOK ==
    /\ client_sock \in [Procs -> Conns \cup {None}]
    /\ cid \in [Procs -> SUBSET Parts]
    /\ path \in [Procs -> BOOLEAN]
    /\ pc \in [Threads -> {"idle", "check", "socket", "clear", "head", "tail", "name", "bind",
                           "connect", "send", "recv", "waiting", "close", "reset", "dead"}]
    /\ calls \in [Threads -> 0..MaxCalls]
    /\ rsp_msg \in [Threads -> Answers \cup {None}]
    /\ cfile \in [Threads -> Conns \cup {None}]
    /\ name \in [Threads -> Names \cup {None}]
    /\ owner \in [Conns -> Procs \cup {None}]
    /\ cend \in [Conns -> {"new", "connected", "dropped", "closed"}]
    /\ cname \in [Conns -> Names \cup {None}]
    /\ rend \in [Conns -> {"none", "backlog", "fd", "dropped", "closed"}]
    /\ req \in [Conns -> Seq(Requests)]
    /\ rsp \in [Conns -> Seq(Answers)]
    /\ router \in {"down", "up", "killed"}
    /\ backlog \in Seq(Conns)
    /\ accepted \in 0..MaxRfd
    /\ fdtab \in [Rfds -> Conns \cup {None}]
    /\ raced \in BOOLEAN
    /\ left \subseteq Rfds
    /\ hpc \in [Handlers -> {"unused", "start", "enter", "recv", "send", "close", "done"}]
    /\ hsock \in [Handlers -> 0..MaxRfd]
    /\ hcid \in [Handlers -> AllCids \cup {None}]
    /\ hfile \in [Handlers -> Conns \cup {None}]
    /\ hreq \in [Handlers -> Requests \cup {None}]

Init ==
    /\ client_sock = [p \in Procs |-> None]
    /\ cid = [p \in Procs |-> {}]
    /\ path = [p \in Procs |-> FALSE]
    /\ pc = [t \in Threads |-> "idle"]
    /\ calls = [t \in Threads |-> 0]
    /\ rsp_msg = [t \in Threads |-> None]
    /\ cfile = [t \in Threads |-> None]
    /\ name = [t \in Threads |-> None]
    /\ owner = [c \in Conns |-> None]
    /\ cend = [c \in Conns |-> "closed"]
    /\ cname = [c \in Conns |-> None]
    /\ rend = [c \in Conns |-> "none"]
    /\ req = [c \in Conns |-> <<>>]
    /\ rsp = [c \in Conns |-> <<>>]
    /\ router = "down"
    /\ backlog = <<>>
    /\ accepted = 0
    /\ fdtab = [f \in Rfds |-> None]
    /\ raced = FALSE
    /\ left = {}
    /\ hpc = [h \in Handlers |-> "unused"]
    /\ hsock = [h \in Handlers |-> 0]
    /\ hcid = [h \in Handlers |-> None]
    /\ hfile = [h \in Handlers |-> None]
    /\ hreq = [h \in Handlers |-> None]

Sock(t) == client_sock[ProcOf[t]]

Goto(t, p) == pc' = [pc EXCEPT ![t] = p]

-----------------------------------------------------------------------------
(***************************************************************************)
(* The client.                                                             *)
(***************************************************************************)

\* A wrapper of lite-lib.c is called: its rsp_msg is an uninitialised local.
Call(t) ==
    /\ pc[t] = "idle" /\ calls[t] < MaxCalls
    /\ Goto(t, "check")
    /\ calls' = [calls EXCEPT ![t] = @ + 1]
    /\ rsp_msg' = [rsp_msg EXCEPT ![t] = None]
    /\ UNCHANGED <<client_sock, cid, path, cfile, name, connVars, routerVars, handlerVars>>

\* if (client_sock == -1) rpc_conn(...)
Check(t) ==
    /\ pc[t] = "check"
    /\ Goto(t, IF Sock(t) = None THEN "socket" ELSE "send")
    /\ UNCHANGED <<client_sock, cid, path, calls, rsp_msg, cfile, name, connVars, routerVars,
                   handlerVars>>

\* A connection both ends of which are gone can be created anew.
Free(c) == cend[c] = "closed" /\ rend[c] \in {"none", "closed"}

\* client_sock = socket(...): whatever another thread has stored is lost.
Socket(t) ==
    /\ pc[t] = "socket"
    /\ \/ \E c \in Conns :
            /\ Free(c)
            /\ client_sock' = [client_sock EXCEPT ![ProcOf[t]] = c]
            /\ owner' = [owner EXCEPT ![c] = ProcOf[t]]
            /\ cend' = [cend EXCEPT ![c] = "new"]
            /\ cname' = [cname EXCEPT ![c] = None]
            /\ rend' = [rend EXCEPT ![c] = "none"]
            /\ req' = [req EXCEPT ![c] = <<>>]
            /\ rsp' = [rsp EXCEPT ![c] = <<>>]
            /\ Goto(t, "clear")
       \/ /\ client_sock' = [client_sock EXCEPT ![ProcOf[t]] = None]
          /\ Goto(t, "idle")
          /\ UNCHANGED connVars
    /\ UNCHANGED <<cid, path, calls, rsp_msg, cfile, name, routerVars, handlerVars>>

\* memset(cid, 0, sizeof(cid)), under another thread of the process that may be
\* anywhere in rpc_conn.
ClearCid(t) ==
    /\ pc[t] = "clear"
    /\ cid' = [cid EXCEPT ![ProcOf[t]] = {}]
    /\ Goto(t, "head")
    /\ UNCHANGED <<client_sock, path, calls, rsp_msg, cfile, name, connVars, routerVars,
                   handlerVars>>

\* The container's id is read from /proc/1/cpuset, into the same buffer by
\* every thread.  The three early returns leave client_sock as it is.
ReadCid(t) ==
    /\ \/ /\ pc[t] = "head"
          /\ cid' = [cid EXCEPT ![ProcOf[t]] = @ \cup {"head"}]
          /\ Goto(t, "tail")
       \/ /\ pc[t] = "tail"
          /\ cid' = [cid EXCEPT ![ProcOf[t]] = @ \cup {"tail"}]
          /\ Goto(t, "name")
       \/ /\ pc[t] \in {"head", "tail"}
          /\ Goto(t, "idle")
          /\ UNCHANGED cid
    /\ UNCHANGED <<client_sock, path, calls, rsp_msg, cfile, name, connVars, routerVars,
                   handlerVars>>

\* sprintf takes what the buffer holds by now; the file of that name is removed.
MakeName(t) ==
    /\ pc[t] = "name"
    /\ LET n == IF cid[ProcOf[t]] = Parts THEN "whole" ELSE "cut" IN
       /\ name' = [name EXCEPT ![t] = n]
       /\ path' = IF n = "whole" THEN [path EXCEPT ![ProcOf[t]] = FALSE] ELSE path
    /\ Goto(t, "bind")
    /\ UNCHANGED <<client_sock, cid, calls, rsp_msg, cfile, connVars, routerVars, handlerVars>>

\* What the system knows the number in client_sock as.
SockState(t) ==
    IF Sock(t) # None /\ owner[Sock(t)] = ProcOf[t] THEN cend[Sock(t)] ELSE "closed"

\* bind gives a name to a socket that has none, connected or not, unless
\* another thread has made the file since.  There are several cut names: that
\* the other thread has bound the same one is left open.
Bind(t) ==
    LET open == SockState(t) \in {"new", "connected"} /\ cname[Sock(t)] = None
        whole == name[t] = "whole"
    IN  /\ pc[t] = "bind"
        /\ \/ /\ open /\ (whole => ~path[ProcOf[t]])
              /\ cname' = [cname EXCEPT ![Sock(t)] = name[t]]
              /\ path' = IF whole THEN [path EXCEPT ![ProcOf[t]] = TRUE] ELSE path
              /\ Goto(t, "connect")
           \/ /\ ~open \/ (whole => path[ProcOf[t]])
              /\ Goto(t, "close")
              /\ UNCHANGED <<cname, path>>
        /\ name' = [name EXCEPT ![t] = None]
        /\ UNCHANGED <<client_sock, cid, calls, rsp_msg, cfile, owner, cend, rend, req, rsp,
                       routerVars, handlerVars>>

\* connect succeeds as soon as the connection is in the router's backlog.
Connect(t) ==
    /\ pc[t] = "connect"
    /\ \/ /\ SockState(t) = "new" /\ router = "up"
          /\ cend' = [cend EXCEPT ![Sock(t)] = "connected"]
          /\ rend' = [rend EXCEPT ![Sock(t)] = "backlog"]
          /\ backlog' = Append(backlog, Sock(t))
          /\ Goto(t, "send")
       \/ /\ SockState(t) # "new" \/ router # "up"
          /\ Goto(t, "close")
          /\ UNCHANGED <<cend, rend, backlog>>
    /\ UNCHANGED <<client_sock, cid, path, calls, rsp_msg, cfile, name, owner, cname, req, rsp,
                   router, accepted, fdtab, raced, left, handlerVars>>

\* rpc_disconn: close(client_sock).  A thread that waits in recv keeps the file.
Close(t) ==
    /\ pc[t] = "close"
    /\ cend' = IF SockState(t) \in {"new", "connected"}
               THEN [cend EXCEPT ![Sock(t)] =
                        IF \E s \in Threads : cfile[s] = Sock(t) THEN "dropped" ELSE "closed"]
               ELSE cend
    /\ Goto(t, "reset")
    /\ UNCHANGED <<client_sock, cid, path, calls, rsp_msg, cfile, name, owner, cname, rend, req,
                   rsp, routerVars, handlerVars>>

\* Mutant: 0, a valid descriptor, stands for no connection.
ResetToZero(t) ==
    /\ pc[t] = "reset"
    /\ client_sock' = [client_sock EXCEPT ![ProcOf[t]] = 0]
    /\ Goto(t, "idle")
    /\ UNCHANGED <<cid, path, calls, rsp_msg, cfile, name, connVars, routerVars, handlerVars>>

\* rpc_disconn: client_sock = -1.  rpc_handler reports -1, which no wrapper
\* looks at: the caller gets what is in rsp_msg.
Reset(t) ==
    /\ pc[t] = "reset"
    /\ client_sock' = [client_sock EXCEPT ![ProcOf[t]] = None]
    /\ Goto(t, "idle")
    /\ UNCHANGED <<cid, path, calls, rsp_msg, cfile, name, connVars, routerVars, handlerVars>>

\* All threads of the process end and its descriptors are closed.
ProcEnds(p) ==
    /\ pc' = [t \in Threads |-> IF ProcOf[t] = p THEN "dead" ELSE pc[t]]
    /\ cfile' = [t \in Threads |-> IF ProcOf[t] = p THEN None ELSE cfile[t]]
    /\ name' = [t \in Threads |-> IF ProcOf[t] = p THEN None ELSE name[t]]
    /\ cend' = [c \in Conns |-> IF owner[c] = p THEN "closed" ELSE cend[c]]
    /\ client_sock' = [client_sock EXCEPT ![p] = None]

\* send: an error on a socket that is not connected, SIGPIPE on a connection
\* that the router has closed.
Send(t) ==
    /\ pc[t] = "send"
    /\ \/ /\ SockState(t) = "connected" /\ rend[Sock(t)] # "closed"
          /\ req' = [req EXCEPT ![Sock(t)] = Append(@, <<t, calls[t]>>)]
          /\ Goto(t, "recv")
          /\ UNCHANGED <<client_sock, cfile, name, cend>>
       \/ /\ SockState(t) = "connected" /\ rend[Sock(t)] = "closed"
          /\ ProcEnds(ProcOf[t])
          /\ UNCHANGED req
       \/ /\ SockState(t) # "connected"
          /\ Goto(t, "close")
          /\ UNCHANGED <<client_sock, req, cfile, name, cend>>
    /\ UNCHANGED <<cid, path, calls, rsp_msg, owner, cname, rend, rsp, routerVars, handlerVars>>

\* recv is called with the value client_sock has now.
RecvEnter(t) ==
    /\ pc[t] = "recv"
    /\ \/ /\ SockState(t) = "connected"
          /\ cfile' = [cfile EXCEPT ![t] = Sock(t)]
          /\ Goto(t, "waiting")
       \/ /\ SockState(t) # "connected"
          /\ Goto(t, "close")
          /\ UNCHANGED cfile
    /\ UNCHANGED <<client_sock, cid, path, calls, rsp_msg, name, connVars, routerVars, handlerVars>>

\* recv returns.  The thread was the last to hold the file if another one has
\* closed the descriptor meanwhile.
LetGo(t) ==
    LET c == cfile[t] IN
    /\ cfile' = [cfile EXCEPT ![t] = None]
    /\ cend' = IF cend[c] = "dropped" /\ \A s \in Threads \ {t} : cfile[s] # c
               THEN [cend EXCEPT ![c] = "closed"] ELSE cend
    /\ UNCHANGED <<client_sock, cid, path, calls, name, owner, cname, rend, routerVars, handlerVars>>

RecvAnswer(t) ==
    /\ pc[t] = "waiting" /\ rsp[cfile[t]] # <<>>
    /\ rsp_msg' = [rsp_msg EXCEPT ![t] = Head(rsp[cfile[t]])]
    /\ rsp' = [rsp EXCEPT ![cfile[t]] = Tail(@)]
    /\ LetGo(t)
    /\ Goto(t, "idle")
    /\ UNCHANGED req

\* The router's end is gone: recv returns 0, which is not an error for
\* rpc_handler, and rsp_msg stays as it is.
RecvEof(t) ==
    /\ pc[t] = "waiting"
    /\ rsp[cfile[t]] = <<>> /\ rend[cfile[t]] = "closed" /\ req[cfile[t]] = <<>>
    /\ LetGo(t)
    /\ Goto(t, "idle")
    /\ UNCHANGED <<rsp_msg, req, rsp>>

\* The router's end was closed with requests unread: recv reports ECONNRESET,
\* once, and rpc_handler closes what client_sock refers to by then.
RecvReset(t) ==
    /\ pc[t] = "waiting"
    /\ rsp[cfile[t]] = <<>> /\ rend[cfile[t]] = "closed" /\ req[cfile[t]] # <<>>
    /\ req' = [req EXCEPT ![cfile[t]] = <<>>]
    /\ LetGo(t)
    /\ Goto(t, "close")
    /\ UNCHANGED <<rsp_msg, rsp>>

\* A client process exits or is killed, at any time.
ProcDies(p) ==
    /\ \E t \in Threads : ProcOf[t] = p /\ pc[t] # "dead"
    /\ ProcEnds(p)
    /\ UNCHANGED <<cid, path, calls, rsp_msg, owner, cname, rend, req, rsp, routerVars, handlerVars>>

-----------------------------------------------------------------------------
(***************************************************************************)
(* The router's main thread.                                               *)
(***************************************************************************)

\* unlink, bind and listen on SERVER_PATH, by a new process.
Listen ==
    /\ router # "up"
    /\ router' = "up"
    /\ UNCHANGED <<clientVars, connVars, backlog, accepted, fdtab, raced, left, handlerVars>>

\* The process ends, with all its threads and descriptors.
RouterEnds(how) ==
    /\ router' = how
    /\ rend' = [c \in Conns |-> IF rend[c] = "none" THEN "none" ELSE "closed"]
    /\ backlog' = <<>>
    /\ accepted' = 0
    /\ fdtab' = [f \in Rfds |-> None]
    /\ left' = {}
    /\ hpc' = [h \in Handlers |-> "unused"]
    /\ hsock' = [h \in Handlers |-> 0]
    /\ hcid' = [h \in Handlers |-> None]
    /\ hfile' = [h \in Handlers |-> None]
    /\ hreq' = [h \in Handlers |-> None]

\* SIGINT or a failing system call of the main thread ends the loop.
Stop ==
    /\ router = "up"
    /\ RouterEnds("down")
    /\ UNCHANGED <<clientVars, owner, cend, cname, req, rsp, raced>>

\* accept, into the variable that new handlers read, and pthread_create.  A
\* router without a descriptor left exits.  A thread that cannot be created
\* goes unnoticed: pthread_create returns no negative number.
Accept ==
    /\ router = "up" /\ backlog # <<>>
    /\ LET free == {f \in Rfds : fdtab[f] = None}
           c == Head(backlog)
       IN \/ \E f \in free :
                /\ \A g \in free : f <= g
                /\ accepted' = f
                /\ fdtab' = [fdtab EXCEPT ![f] = c]
                /\ rend' = [rend EXCEPT ![c] = "fd"]
                /\ backlog' = Tail(backlog)
                /\ raced' = (raced \/ \E h \in Handlers : hpc[h] = "start")
                /\ \/ \E h \in Handlers : /\ hpc[h] = "unused"
                                          /\ hpc' = [hpc EXCEPT ![h] = "start"]
                                          /\ UNCHANGED left
                   \/ /\ \A h \in Handlers : hpc[h] # "unused"
                      /\ left' = left \cup {f}
                      /\ UNCHANGED hpc
                /\ UNCHANGED <<router, hsock, hcid, hfile, hreq>>
          \/ free = {} /\ RouterEnds("down") /\ UNCHANGED raced
    /\ UNCHANGED <<clientVars, owner, cend, cname, req, rsp>>

-----------------------------------------------------------------------------
(***************************************************************************)
(* The router's handler threads.                                           *)
(***************************************************************************)

HGoto(h, p) == hpc' = [hpc EXCEPT ![h] = p]

File(h) == IF hsock[h] = 0 THEN None ELSE fdtab[hsock[h]]

\* *((int *)fd) and getpeername: the handler serves the connection accepted
\* last, in the name of the container it finds in the path of its peer.  The
\* path of a peer without a name is empty: substr throws, and nobody catches.
HandlerStart(h) ==
    LET c == fdtab[accepted] IN
    /\ hpc[h] = "start"
    /\ \/ /\ c # None /\ cname[c] # None
          /\ hsock' = [hsock EXCEPT ![h] = accepted]
          /\ \E i \in PathCids(c) : hcid' = [hcid EXCEPT ![h] = i]
          /\ HGoto(h, "enter")
          /\ UNCHANGED <<rend, routerVars, hfile, hreq>>
       \/ /\ c # None /\ cname[c] = None
          /\ RouterEnds("killed")
          /\ UNCHANGED raced
       \/ /\ c = None
          /\ hsock' = [hsock EXCEPT ![h] = accepted]
          /\ HGoto(h, "close")
          /\ UNCHANGED <<rend, routerVars, hcid, hfile, hreq>>
    /\ UNCHANGED <<clientVars, owner, cend, cname, req, rsp>>

\* recv is called on the handler's descriptor.
HandlerRecvEnter(h) ==
    /\ hpc[h] = "enter"
    /\ \/ File(h) # None /\ HGoto(h, "recv") /\ hfile' = [hfile EXCEPT ![h] = File(h)]
       \/ File(h) = None /\ HGoto(h, "close") /\ UNCHANGED hfile
    /\ UNCHANGED <<clientVars, connVars, routerVars, hsock, hcid, hreq>>

\* State of the router's end when thread h no longer waits for it.
HandlerLetsGo(h) ==
    LET c == hfile[h] IN
    /\ hfile' = [hfile EXCEPT ![h] = None]
    /\ rend' = IF rend[c] = "dropped" /\ \A g \in Handlers \ {h} : hfile[g] # c
               THEN [rend EXCEPT ![c] = "closed"] ELSE rend

\* recv returns a request.
HandlerRecv(h) ==
    /\ hpc[h] = "recv" /\ req[hfile[h]] # <<>>
    /\ hreq' = [hreq EXCEPT ![h] = Head(req[hfile[h]])]
    /\ req' = [req EXCEPT ![hfile[h]] = Tail(@)]
    /\ HandlerLetsGo(h)
    /\ HGoto(h, "send")
    /\ UNCHANGED <<clientVars, owner, cend, cname, rsp, routerVars, hsock, hcid>>

\* recv returns 0 or an error: the client has gone.
HandlerEof(h) ==
    /\ hpc[h] = "recv" /\ req[hfile[h]] = <<>> /\ cend[hfile[h]] = "closed"
    /\ HandlerLetsGo(h)
    /\ HGoto(h, "close")
    /\ UNCHANGED <<clientVars, owner, cend, cname, req, rsp, routerVars, hsock, hcid, hreq>>

\* Mutant: the answer is sent again although the first send went through.
AnswerTwice(h) == <<[req |-> hreq[h], cid |-> hcid[h]], [req |-> hreq[h], cid |-> hcid[h]]>>

\* The response, sent as a whole.
Answer(h) == <<[req |-> hreq[h], cid |-> hcid[h]]>>

\* Mutant: a thread serves one request, and leaves its descriptor open.
AfterAnswerDone(h) == "done"

\* while (1)
AfterAnswer(h) == "enter"

\* The call is done and its answer is sent to the handler's descriptor.  If the
\* client has gone, SIGPIPE ends the router: only SIGINT has a handler.
HandlerSend(h) ==
    /\ hpc[h] = "send"
    /\ \/ /\ File(h) # None /\ cend[File(h)] # "closed"
          /\ rsp' = [rsp EXCEPT ![File(h)] = @ \o Answer(h)]
          /\ HGoto(h, AfterAnswer(h))
          /\ hreq' = [hreq EXCEPT ![h] = None]
          /\ UNCHANGED <<rend, routerVars, hsock, hcid, hfile>>
       \/ /\ File(h) # None /\ cend[File(h)] = "closed"
          /\ RouterEnds("killed")
          /\ UNCHANGED <<raced, rsp>>
       \/ /\ File(h) = None
          /\ HGoto(h, "close")
          /\ hreq' = [hreq EXCEPT ![h] = None]
          /\ UNCHANGED <<rend, rsp, routerVars, hsock, hcid, hfile>>
    /\ UNCHANGED <<clientVars, owner, cend, cname, req>>

\* Mutant: the thread goes on after it has closed its descriptor.
AfterCloseEnter(h) == "enter"

\* pthread_exit
AfterClose(h) == "done"

\* close(client_sock), whatever the number stands for by now, and the end of
\* the thread.
HandlerClose(h) ==
    /\ hpc[h] = "close"
    /\ HGoto(h, AfterClose(h))
    /\ \/ /\ File(h) # None
          /\ rend' = [rend EXCEPT ![File(h)] =
                         IF \E g \in Handlers : hfile[g] = File(h) THEN "dropped" ELSE "closed"]
          /\ fdtab' = [fdtab EXCEPT ![hsock[h]] = None]
       \/ File(h) = None /\ UNCHANGED <<rend, fdtab>>
    /\ UNCHANGED <<clientVars, owner, cend, cname, req, rsp, router, backlog, accepted, raced,
                   left, hsock, hcid, hfile, hreq>>

-----------------------------------------------------------------------------
ThreadStep(t) ==
    \/ Check(t) \/ Socket(t) \/ ClearCid(t) \/ ReadCid(t) \/ MakeName(t) \/ Bind(t)
    \/ Connect(t) \/ Close(t) \/ Reset(t)
    \/ Send(t) \/ RecvEnter(t) \/ RecvAnswer(t) \/ RecvEof(t) \/ RecvReset(t)

HandlerStep(h) ==
    \/ HandlerStart(h) \/ HandlerRecvEnter(h) \/ HandlerRecv(h) \/ HandlerEof(h)
    \/ HandlerSend(h) \/ HandlerClose(h)

Next ==
    \/ \E t \in Threads : Call(t) \/ ThreadStep(t)
    \/ \E p \in Procs : ProcDies(p)
    \/ Listen \/ Stop \/ Accept
    \/ \E h \in Handlers : HandlerStep(h)

Spec == Init /\ [][Next]_rpcVars

\* The scheduler runs every thread that can run.  Nobody has to call, to die
\* or to start a router.  That a handler answers rests on the call it serves
\* coming back.
FairSpec ==
    /\ Spec
    /\ \A t \in Threads : WF_rpcVars(ThreadStep(t))
    /\ \A h \in Handlers : WF_rpcVars(HandlerStep(h))
    /\ WF_rpcVars(Accept)

-----------------------------------------------------------------------------
(***************************************************************************)
(* Properties.                                                             *)
(*                                                                         *)
(* All but one of them are about what happens until the router's main      *)
(* thread accepts a connection before the thread of the one before it has  *)
(* read its argument (raced).  Nothing in test_router.cpp orders the two:  *)
(* if they race, two threads serve the second connection and none the      *)
(* first, whose calls wait for ever; one of the two closes the descriptor, *)
(* a third connection gets the number, and the other one serves it too, in *)
(* the name of the second (see ServedInOwnName).                           *)
(***************************************************************************)

\* Until the router's threads race, the answer a call returns with is the
\* answer to that call: with one thread per process, however connections break
\* and are made anew and whatever the other processes and the router do
\* (rpc.c:133-141).
OwnAnswer ==
    ~raced => \A t \in Threads : rsp_msg[t] # None => rsp_msg[t].req = <<t, calls[t]>>

\* Until the router's threads race, an answer stays within the process that
\* asked, and the call was made in the name of the process's container
\* (test_router.cpp:52-56).  Only in a process with several threads, one of which
\* clears the buffer cid while another takes its name from it, can it be made
\* in the name of no container at all (rpc.c:54, 94).
OwnContainer ==
    ~raced =>
        \A t \in Threads : rsp_msg[t] # None =>
            /\ ProcOf[rsp_msg[t].req[1]] = ProcOf[t]
            /\ \/ rsp_msg[t].cid = PathCid(ProcOf[t])
               \/ rsp_msg[t].cid = CutCid /\ \E s \in Threads \ {t} : ProcOf[s] = ProcOf[t]

\* No two calls get the same answer and no answer is given twice, although
\* connections, threads and descriptors are shared, and even if the router's
\* threads race.
AnsweredOnce ==
    \A s, t \in Threads : s # t /\ rsp_msg[s] # None /\ rsp_msg[t] # None =>
        rsp_msg[s].req # rsp_msg[t].req

\* Until the router's threads race, a descriptor that has a handler stays that
\* handler's until it closes it: nobody else reads from or closes its
\* connection (test_router.cpp:35).
OneHandler ==
    ~raced =>
        \A g, h \in Handlers :
            g # h /\ hpc[g] \in {"enter", "recv", "send", "close"}
                  /\ hpc[h] \in {"enter", "recv", "send", "close"} => hsock[g] # hsock[h]

\* Until the router's threads race, a connection that the router has accepted
\* is served until its descriptor is closed: by a handler or by one that is
\* about to start on it, unless no thread could be created for that very
\* connection, which main does not notice (test_router.cpp:369).
AcceptedServed ==
    ~raced =>
        \A f \in Rfds : fdtab[f] # None =>
            \/ \E h \in Handlers : hsock[h] = f /\ hpc[h] \in {"enter", "recv", "send", "close"}
            \/ accepted = f /\ \E h \in Handlers : hpc[h] = "start"
            \/ f \in left

\* Every call returns or its process ends, even while routers stop and start,
\* if a process has one thread and the router can create its threads, unless
\* the router's threads race: a connection that no thread reads from keeps its
\* caller waiting for ever.
CallReturns ==
    \A t \in Threads : pc[t] = "check" ~> (pc[t] \in {"idle", "dead"} \/ raced)

-----------------------------------------------------------------------------
(***************************************************************************)
(* What comments of the repository say of the code and the code does not   *)
(* do.                                                                     *)
(***************************************************************************)

\* test_router.cpp:44, "Get the name of the connected socket", and :55-56: the
\* container that a call is served for is the one whose process made it.
ServedInOwnName ==
    \A t \in Threads : rsp_msg[t] # None =>
        rsp_msg[t].cid = PathCid(ProcOf[rsp_msg[t].req[1]])

\* rpc.c:23, "CLIENT_PATH append container id": the name under which the router
\* serves a client is that of the client's container and of no other.
ContainersApart ==
    \A s, t \in Threads :
        rsp_msg[s] # None /\ rsp_msg[t] # None /\ rsp_msg[s].cid = rsp_msg[t].cid
            => Cid[ProcOf[s]] = Cid[ProcOf[t]]
=============================================================================
