--------------------------- MODULE VidRoutingInv ----------------------------
(***************************************************************************)
(* The inductive invariant of VidRouting: why the properties hold.         *)
(***************************************************************************)
EXTENDS VidRouting

\* A queue of at most one message.
AtMostOne(s) == s = <<>> \/ \E m \in Msgs : s = <<m>>

\* A thread waits for the manager exactly while it holds its router's mutex,
\* and the entry it asked for stays missing meanwhile.
LockInv ==
    /\ \A t \in Threads : pc[t] = "recv" => map_mutex[RouterOf[t]] = t
    /\ \A r \in Routers, t \in Threads : map_mutex[r] = t => RouterOf[t] = r /\ pc[t] = "recv"
    /\ \A t \in Threads : pc[t] = "recv" => call[t].op # "get_node_id" /\ Found(t) = Absent

\* A connection that does not exist has no messages, no thread and no holder;
\* a thread of the manager has a descriptor, and one in recv a connection; a
\* manager that is gone has no threads.
LinkInv ==
    /\ \A r \in Routers : main[r] = "off" => link[r] = "none"
    /\ \A r \in Routers : link[r] = "none" =>
          /\ req[r] = <<>> /\ rsp[r] = <<>>
          /\ client_sock[r] = Closed /\ map_mutex[r] = None
          /\ vcm_pc[r] = "none"
          /\ \A f \in Fds : vcm_fds[f] # r
          /\ \A h \in Routers : vcm_file[h] # r
    /\ \A h \in Routers : vcm_pc[h] = "starting" => vcm_client_sock \in Fds
    /\ \A h \in Routers : vcm_pc[h] \in {"enter", "recv", "send", "close"} => vcm_sock[h] \in Fds
    /\ \A h \in Routers : vcm_pc[h] = "recv" => vcm_file[h] \in Routers
    /\ ~vcm_up => \A h \in Routers : vcm_pc[h] = "none"

\* What router r sends: a request for a new id carries its own node id.
HonestMsgs(r) == {m \in Msgs : m.func_code = "NID_VID" => m.id = RouterNid[r]}

\* The manager's table is filled up to its counter, from honest requests.
TableInv ==
    /\ \A v \in Ids : vid_nid_map[v] # Absent <=> v <= vid
    /\ \A r \in Routers : req[r] \in Seq(HonestMsgs(r))

\* Until its threads have raced, each thread of the manager has the descriptor
\* and the connection it was created for, and hangs up only on a router that
\* is gone.
OwnInv ==
    /\ \A g, h \in Routers : vcm_pc[g] = "starting" /\ vcm_pc[h] = "starting" => g = h
    /\ \A h \in Routers : vcm_pc[h] = "starting" => vcm_fds[vcm_client_sock] = h
    /\ \A h \in Routers : vcm_pc[h] \in {"enter", "recv", "send", "close"} => Peer(h) = h
    /\ \A h \in Routers : vcm_file[h] = IF vcm_pc[h] = "recv" THEN h ELSE None
    /\ \A h \in Routers : vcm_pc[h] = "close" => link[h] \in {"closed", "reset"}
    /\ \A f \in Fds, h \in Routers : vcm_fds[f] = h =>
          \/ vcm_pc[h] = "starting" /\ f = vcm_client_sock
          \/ vcm_pc[h] \in {"enter", "recv", "send", "close"} /\ f = vcm_sock[h]
    /\ \A r \in Routers : link[r] \in {"eof", "dead"} => ~vcm_up

\* The manager's thread of connection r has served a request and has not
\* answered yet.
Answering(r) == vcm_pc[r] = "send"

\* At most one message of a connection is under way, as a request, in the
\* hands of the manager's thread, or as an answer; none if nobody waits.
StageInv ==
    \A r \in Routers :
        /\ AtMostOne(req[r]) /\ AtMostOne(rsp[r])
        /\ req[r] # <<>> => rsp[r] = <<>>
        /\ req[r] # <<>> \/ rsp[r] # <<>> => ~Answering(r)
        /\ map_mutex[r] = None => rsp[r] = <<>>
        /\ map_mutex[r] = None /\ link[r] = "up" => req[r] = <<>> /\ ~Answering(r)

\* Message m answers the call that thread t is making.
Answers(t, m) ==
    /\ call[t].op = "join" =>
          m.func_code = "NID_VID" /\ m.id \in Ids /\ vid_nid_map[m.id] = RouterNid[RouterOf[t]]
    /\ call[t].op = "vid_nid" =>
          m.func_code = "VID_NID" /\ m.id \in {Error, vid_nid_map[call[t].vid]}

\* A request asks what its sender's call needs, and an answer under way
\* answers the waiting thread's call.
DataInv ==
    \A t \in Threads : map_mutex[RouterOf[t]] = t =>
        LET r == RouterOf[t] IN
        /\ link[r] = "up" /\ req[r] # <<>> => Head(req[r]) = RequestMsg(t)
        /\ link[r] = "up" /\ Answering(r) => Answers(t, vcm_msg[r])
        /\ rsp[r] # <<>> => Answers(t, Head(rsp[r]))

\* Connection r carries the new virtual id v.
Carries(r, v) ==
    \/ Answering(r) /\ vcm_msg[r] = Msg("NID_VID", v)
    \/ rsp[r] = <<Msg("NID_VID", v)>>

\* A new id is in one place at a time: on one connection, or held by one
\* container.
TokenInv ==
    /\ \A r \in Routers, v \in Ids : Carries(r, v) =>
          /\ vid_nid_map[v] # Absent
          /\ vcm_up => \A q \in Routers, c \in Cids : Held(q, c) # v
    /\ \A q, r \in Routers, v \in Ids : Carries(q, v) /\ Carries(r, v) => q = r

\* What holds until the manager's threads race.
OrderInv == OwnInv /\ StageInv /\ DataInv /\ TokenInv

IndInv ==
    /\ TypeOK
    /\ LockInv
    /\ LinkInv
    /\ TableInv
    /\ ~vcm_raced => OrderInv
    /\ UniqueVids
    /\ JoinedVidsAssigned
    /\ TranslationsTrue
=============================================================================
