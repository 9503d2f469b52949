------------------------- MODULE VidRoutingProofs ---------------------------
(***************************************************************************)
(* Proofs about VidRouting, for any number of routers, handler threads and *)
(* containers and any ids.  The invariant IndInv of VidRoutingInv is shown *)
(* to be inductive, one lemma per action; the theorems follow from it.     *)
(***************************************************************************)
EXTENDS VidRoutingInv, FiniteSetTheorems, TLAPS

\* The assumptions on the constants, with the ids spelled out as integers:
\* the error code -1 and the missing entry 0 are no ids.
LEMMA Constants ==
    /\ MaxId \in Nat /\ MaxFd \in Nat
    /\ Fds \subseteq 0..MaxFd /\ 0 \notin Fds
    /\ Ids \subseteq Nat /\ Absent \notin Ids /\ Error \notin Ids /\ Absent # Error
    /\ Ids \subseteq Keys /\ Error \in Keys /\ Absent \notin Keys
    /\ RouterNid \in [Routers -> Ids]
    /\ RouterOf \in [Threads -> Routers]
    /\ CidOf \in [Threads -> Cids]
    /\ LookupVids \subseteq Ids
    /\ None \notin Threads /\ None \notin Routers
  BY RoutingAssumption DEF Ids, Fds, Absent, Error, Keys

\* Messages between a router and the manager are pairs of a function code and
\* an id (struct vcm_msg).
LEMMA Messages ==
    /\ \A m \in Msgs : m.func_code \in {"VID_NID", "NID_VID"} /\ m.id \in Keys
    /\ \A f \in {"VID_NID", "NID_VID"}, i \in Keys :
          Msg(f, i) \in Msgs /\ Msg(f, i).func_code = f /\ Msg(f, i).id = i
    /\ \A m \in Msgs : m = Msg(m.func_code, m.id)
    /\ NoMsg \in Msgs
  BY DEF Msgs, Msg, NoMsg, Keys

\* The calls a client makes; only vid_nid names an id.
LEMMA CallFacts ==
    /\ NoCall \in Calls /\ NoCall.op = "get_node_id"
    /\ \A c \in Calls : /\ c.op \in {"get_node_id", "join", "vid_nid"}
                        /\ c.op = "vid_nid" => c.vid \in Ids
  BY Constants DEF NoCall, Calls, Call

\* Sequences of at most one message.
LEMMA Queues ==
    /\ <<>> \in Seq(Msgs) /\ Len(<<>>) = 0
    /\ \A m \in Msgs : /\ <<m>> \in Seq(Msgs) /\ <<m>> # <<>> /\ Len(<<m>>) = 1
                       /\ Append(<<>>, m) = <<m>> /\ Head(<<m>>) = m /\ Tail(<<m>>) = <<>>
  OBVIOUS

\* Sending to and receiving from a connection.
LEMMA QueueTypes ==
    ASSUME NEW s \in Seq(Msgs)
    PROVE  /\ \A m \in Msgs : Append(s, m) \in Seq(Msgs)
           /\ s # <<>> => Head(s) \in Msgs /\ Tail(s) \in Seq(Msgs)
  OBVIOUS

\* The message vcm_join and vcm_vid_nid send.
LEMMA RequestMsgFacts ==
    ASSUME TypeOK, NEW t \in Threads, call[t].op # "get_node_id"
    PROVE  /\ RequestMsg(t) \in Msgs /\ RequestMsg(t).id \in Ids
           /\ call[t].op = "join" => RequestMsg(t) = Msg("NID_VID", RouterNid[RouterOf[t]])
           /\ call[t].op = "vid_nid" => RequestMsg(t) = Msg("VID_NID", call[t].vid)
  <1>1. call[t] \in Calls
    BY DEF TypeOK
  <1>2. call[t].op \in {"get_node_id", "join", "vid_nid"}
    BY <1>1, CallFacts
  <1>4. call[t].op = "vid_nid" => call[t].vid \in Ids
    BY <1>1, CallFacts
  <1>3. RouterNid[RouterOf[t]] \in Ids
    BY Constants
  <1> QED  BY <1>2, <1>3, <1>4, Constants, Messages DEF RequestMsg

\* What the lookup in a router's table can find.
LEMMA FoundType ==
    ASSUME TypeOK, NEW t \in Threads
    PROVE  Found(t) \in Keys \cup {Absent}
  <1>1. CASE call[t].op = "vid_nid"
    <2>1. RouterOf[t] \in Routers /\ call[t].vid \in Keys
      BY <1>1, Constants, CallFacts DEF TypeOK, Keys
    <2>2. vid_nid_map_cache[RouterOf[t]] \in [Keys -> Keys \cup {Absent}]
      BY <2>1 DEF TypeOK
    <2> QED  BY <1>1, <2>1, <2>2 DEF Found
  <1>2. CASE call[t].op # "vid_nid"
    <2>1. RouterOf[t] \in Routers /\ CidOf[t] \in Cids
      BY Constants
    <2>2. cid_vid_map[RouterOf[t]] \in [Cids -> Keys \cup {Absent}]
      BY <2>1 DEF TypeOK
    <2> QED  BY <1>2, <2>1, <2>2 DEF Found
  <1> QED  BY <1>1, <1>2

\* A step that neither puts a new id on a connection nor changes the tables
\* nor restarts the manager keeps new ids in one place.
LEMMA TokenFrame ==
    ASSUME TokenInv, vid_nid_map' = vid_nid_map, cid_vid_map' = cid_vid_map, vcm_up' => vcm_up,
           \A r \in Routers, v \in Ids : Carries(r, v)' => Carries(r, v)
    PROVE  TokenInv'
  BY DEF TokenInv, Held

\* Taking an answer off a connection puts no new id on any.
LEMMA CarriesDropped ==
    ASSUME UNCHANGED <<vcm_pc, vcm_msg>>,
           \A r \in Routers : rsp'[r] = rsp[r] \/ rsp'[r] = <<>>
    PROVE  \A r \in Routers, v \in Ids : Carries(r, v)' => Carries(r, v)
  <1>1. \A v \in Ids : Msg("NID_VID", v) \in Msgs /\ <<Msg("NID_VID", v)>> # <<>>
    BY Constants, Messages, Queues
  <1> QED  BY <1>1 DEF Carries, Answering

\* A step that leaves the manager's threads and the answers alone moves no
\* new id.
LEMMA CarriesFrame ==
    ASSUME UNCHANGED <<vcm_pc, vcm_msg, rsp>>
    PROVE  \A r \in Routers, v \in Ids : Carries(r, v)' <=> Carries(r, v)
  BY DEF Carries, Answering, Msg

\* A step that only drops messages, links and lock holders keeps requests and
\* answers what the waiting threads need.
LEMMA DataFrame ==
    ASSUME DataInv, UNCHANGED <<vid, vid_nid_map>>,
           \A q \in Routers : req'[q] = req[q] \/ req'[q] = <<>>,
           \A u \in Threads : map_mutex'[RouterOf[u]] = u =>
              /\ map_mutex[RouterOf[u]] = u /\ call'[u] = call[u]
              /\ link'[RouterOf[u]] = "up" => link[RouterOf[u]] = "up"
              /\ rsp'[RouterOf[u]] = rsp[RouterOf[u]] \/ rsp'[RouterOf[u]] = <<>>,
           \A q \in Routers : Answering(q)' => Answering(q) /\ vcm_msg'[q] = vcm_msg[q]
    PROVE  DataInv'
  <1>1. \A q \in Routers : req'[q] # <<>> => req'[q] = req[q]
    OBVIOUS
  <1>2. ASSUME NEW u \in Threads, map_mutex'[RouterOf[u]] = u
        PROVE  LET r == RouterOf[u] IN
               /\ link'[r] = "up" /\ req'[r] # <<>> => Head(req'[r]) = RequestMsg(u)'
               /\ link'[r] = "up" /\ Answering(r)' => Answers(u, vcm_msg[r])' /\ vcm_msg'[r] = vcm_msg[r]
               /\ rsp'[r] # <<>> => Answers(u, Head(rsp[r]))' /\ rsp'[r] = rsp[r]
    <2>1. RouterOf[u] \in Routers /\ map_mutex[RouterOf[u]] = u /\ call'[u] = call[u]
      BY <1>2, Constants
    <2>2. RequestMsg(u)' = RequestMsg(u) /\ \A x : Answers(u, x)' <=> Answers(u, x)
      BY <2>1 DEF RequestMsg, Answers
    <2> QED  BY <1>1, <1>2, <2>1, <2>2 DEF DataInv
  <1> QED  BY <1>1, <1>2 DEF DataInv

\* What vcm_join and vcm_vid_nid do to the two tables once vcm_handler has
\* returned 0.
LEMMA ConcludeFacts ==
    ASSUME TypeOK, LockInv, NEW t \in Threads, pc[t] = "recv",
           NEW i \in Keys, Conclude(t, i)
    PROVE  /\ pc' = [pc EXCEPT ![t] = "reply"]
           /\ map_mutex' = [map_mutex EXCEPT ![RouterOf[t]] = None]
           /\ ret' = [ret EXCEPT ![t] = i]
           /\ UNCHANGED <<vcmVars, link, req, main, client_sock, call>>
           /\ cid_vid_map' \in [Routers -> [Cids -> Keys \cup {Absent}]]
           /\ vid_nid_map_cache' \in [Routers -> [Keys -> Keys \cup {Absent}]]
           /\ \A q \in Routers, d \in Cids :
                 cid_vid_map'[q][d] = IF call[t].op = "join" /\ q = RouterOf[t] /\ d = CidOf[t]
                                      THEN i ELSE cid_vid_map[q][d]
           /\ \A q \in Routers, v \in Keys :
                 \/ vid_nid_map_cache'[q][v] = vid_nid_map_cache[q][v]
                 \/ /\ q = RouterOf[t] /\ vid_nid_map_cache[q][v] = Absent
                    /\ \/ call[t].op = "join" /\ v = i /\ vid_nid_map_cache'[q][v] = RouterNid[q]
                       \/ call[t].op = "vid_nid" /\ v = call[t].vid /\ vid_nid_map_cache'[q][v] = i
  <1> DEFINE r == RouterOf[t]
  <1>1. r \in Routers /\ CidOf[t] \in Cids /\ RouterNid[r] \in Keys
    BY Constants DEF Keys
  <1>2. call[t].op # "get_node_id" /\ Found(t) = Absent /\ call[t] \in Calls
    BY DEF LockInv, TypeOK
  <1>3. cid_vid_map[r] \in [Cids -> Keys \cup {Absent}]
    BY <1>1 DEF TypeOK
  <1>4. vid_nid_map_cache[r] \in [Keys -> Keys \cup {Absent}]
    BY <1>1 DEF TypeOK
  <1>5. /\ pc' = [pc EXCEPT ![t] = "reply"]
        /\ map_mutex' = [map_mutex EXCEPT ![RouterOf[t]] = None]
        /\ ret' = [ret EXCEPT ![t] = i]
        /\ UNCHANGED <<vcmVars, link, req, main, client_sock, call>>
    BY DEF Conclude, Return
  <1>6. CASE call[t].op = "join"
    <2> DEFINE row == MapInsert(cid_vid_map[r], CidOf[t], i)
               line == MapInsert(vid_nid_map_cache[r], i, RouterNid[r])
    <2>1. /\ cid_vid_map' = [cid_vid_map EXCEPT ![r] = row]
          /\ vid_nid_map_cache' = [vid_nid_map_cache EXCEPT ![r] = line]
      BY <1>6 DEF Conclude
    <2>3. cid_vid_map[r][CidOf[t]] = Absent
      BY <1>2, <1>6 DEF Found
    <2>4. row \in [Cids -> Keys \cup {Absent}] /\ row[CidOf[t]] = i /\ \A d \in Cids : d # CidOf[t] => row[d] = cid_vid_map[r][d]
      BY <1>1, <1>3, <2>3 DEF MapInsert
    <2>5. /\ line \in [Keys -> Keys \cup {Absent}]
          /\ \/ line[i] = RouterNid[r] /\ vid_nid_map_cache[r][i] = Absent
             \/ line[i] = vid_nid_map_cache[r][i]
          /\ \A v \in Keys : v # i => line[v] = vid_nid_map_cache[r][v]
      BY <1>1, <1>4 DEF MapInsert
    <2>6. cid_vid_map' \in [Routers -> [Cids -> Keys \cup {Absent}]]
      BY <2>1, <2>4 DEF TypeOK
    <2>7. vid_nid_map_cache' \in [Routers -> [Keys -> Keys \cup {Absent}]]
      BY <2>1, <2>5 DEF TypeOK
    <2>8. \A q \in Routers : cid_vid_map'[q] = IF q = r THEN row ELSE cid_vid_map[q]
      BY <2>1 DEF TypeOK
    <2>9. \A q \in Routers : vid_nid_map_cache'[q] = IF q = r THEN line ELSE
        vid_nid_map_cache[q]
      BY <2>1 DEF TypeOK
    <2> HIDE DEF row, line
    <2> QED  BY <1>5, <1>6, <2>4, <2>5, <2>6, <2>7, <2>8, <2>9
  <1>7. CASE call[t].op = "vid_nid"
    <2> DEFINE line == MapInsert(vid_nid_map_cache[r], call[t].vid, i)
    <2>1. /\ cid_vid_map' = cid_vid_map
          /\ vid_nid_map_cache' = [vid_nid_map_cache EXCEPT ![r] = line]
      BY <1>7 DEF Conclude
    <2>2. call[t].vid \in Keys
      BY <1>2, <1>7, CallFacts DEF Keys
    <2>3. /\ line \in [Keys -> Keys \cup {Absent}]
          /\ \/ line[call[t].vid] = i /\ vid_nid_map_cache[r][call[t].vid] = Absent
             \/ line[call[t].vid] = vid_nid_map_cache[r][call[t].vid]
          /\ \A v \in Keys : v # call[t].vid => line[v] = vid_nid_map_cache[r][v]
      BY <1>1, <1>4, <2>2 DEF MapInsert
    <2>4. vid_nid_map_cache' \in [Routers -> [Keys -> Keys \cup {Absent}]]
      BY <2>1, <2>3 DEF TypeOK
    <2>5. \A q \in Routers : vid_nid_map_cache'[q] = IF q = r THEN line ELSE
        vid_nid_map_cache[q]
      BY <2>1 DEF TypeOK
    <2> HIDE DEF line
    <2> QED  BY <1>5, <1>7, <2>1, <2>3, <2>4, <2>5 DEF TypeOK
  <1> QED  BY <1>2, <1>6, <1>7, CallFacts

\* A step of a manager's thread that answers nothing and at most drops
\* requests and connections keeps the invariant, if it keeps the threads'
\* descriptors in order.
LEMMA ManagerFrame ==
    ASSUME IndInv, TypeOK', LinkInv', ~vcm_raced' => ~vcm_raced /\ OwnInv',
           UNCHANGED <<vcm_up, vid, vid_nid_map, rsp, routerVars, threadVars>>,
           \A q \in Routers : req'[q] = req[q] \/ req'[q] = <<>>,
           \A q \in Routers : link'[q] = "up" => link[q] = "up",
           \A q \in Routers : Answering(q)' => Answering(q) /\ vcm_msg'[q] = vcm_msg[q]
    PROVE  IndInv'
  <1> USE Constants DEF IndInv, OrderInv, Orderly, routerVars, threadVars
  <1>1. LockInv'
    BY DEF LockInv, Found
  <1>2. TableInv'
    <2>1. \A q \in Routers : <<>> \in Seq(HonestMsgs(q))
      OBVIOUS
    <2> QED  BY <2>1 DEF TableInv
  <1> SUFFICES ASSUME ~vcm_raced'
               PROVE  OrderInv' /\ UniqueVids' /\ JoinedVidsAssigned' /\ TranslationsTrue'
    BY <1>1, <1>2 DEF UniqueVids, JoinedVidsAssigned, TranslationsTrue
  <1>3. StageInv'
    BY DEF StageInv, AtMostOne
  <1>4. DataInv'
    BY DataFrame
  <1>5. TokenInv'
    <2>1. \A q \in Routers, v \in Ids : Carries(q, v)' => Carries(q, v)
      BY DEF Carries
    <2> QED  BY <2>1, TokenFrame
  <1>6. UniqueVids' /\ JoinedVidsAssigned'
    BY DEF UniqueVids, JoinedVidsAssigned, Joined, Held
  <1>7. TranslationsTrue'
    BY DEF TranslationsTrue
  <1> QED  BY <1>3, <1>4, <1>5, <1>6, <1>7

\* VcmAccept (the manager's main accepts a connection) keeps the invariant.
LEMMA VcmAcceptPreserves ==
    ASSUME IndInv, NEW r \in Routers, VcmAccept(r)
    PROVE  IndInv'
  <1> USE Constants DEF IndInv, OrderInv, vcmThreadVars, vcmVars, linkVars, routerVars, threadVars
  <1>a. PICK f \in Fds : /\ vcm_client_sock' = f
                         /\ vcm_fds' = [vcm_fds EXCEPT ![f] = r]
                         /\ vcm_fds[f] = None
    BY DEF VcmAccept, FreeFds
  <1>b. /\ vcm_pc[r] = "pending" /\ vcm_pc' = [vcm_pc EXCEPT ![r] = "starting"] /\ vcm_up
        /\ UNCHANGED <<vcm_up, vid, vid_nid_map, vcm_sock, vcm_file, vcm_msg, linkVars,
                       routerVars, threadVars>>
    BY DEF VcmAccept
  <1>c. /\ \A h \in Routers : vcm_pc'[h] = IF h = r THEN "starting" ELSE vcm_pc[h]
        /\ \A g \in Fds : vcm_fds'[g] = IF g = f THEN r ELSE vcm_fds[g]
    BY <1>a, <1>b DEF TypeOK
  <1>1. TypeOK'
    BY <1>a, <1>b DEF VcmAccept, TypeOK
  <1>2. LinkInv'
    BY <1>a, <1>b, <1>c DEF LinkInv
  <1>3. ~vcm_raced' => ~vcm_raced /\ OwnInv'
    <2> SUFFICES ASSUME ~vcm_raced'  PROVE ~vcm_raced /\ OwnInv'
      OBVIOUS
    <2>1. ~vcm_raced /\ OwnInv /\ \A h \in Routers : vcm_pc[h] # "starting"
      BY DEF VcmAccept
    <2>2. vcm_client_sock' = f /\ vcm_fds[f] = None /\ vcm_pc[r] = "pending" /\ f \in Fds
      BY <1>a, <1>b
    <2>3. UNCHANGED <<vcm_sock, vcm_file, vcm_up, link>>
      BY <1>b
    <2>4. /\ \A h \in Routers : vcm_pc[h] \in {"enter", "recv", "send", "close"} =>
                vcm_sock[h] \in Fds /\ vcm_fds[vcm_sock[h]] = h /\ vcm_sock[h] # f
          /\ \A g \in Fds : vcm_fds[g] # r
      BY <2>1, <2>2, Constants DEF OwnInv, Peer, LinkInv
    <2>5. /\ \A g, h \in Routers : vcm_pc'[g] = "starting" /\ vcm_pc'[h] = "starting" => g = h
          /\ \A h \in Routers : vcm_pc'[h] = "starting" => vcm_fds'[vcm_client_sock'] = h
          /\ \A h \in Routers : vcm_pc'[h] = "close" => link'[h] \in {"closed", "reset"}
          /\ \A h \in Routers : link'[h] \in {"eof", "dead"} => ~vcm_up'
      BY <1>c, <2>1, <2>2, <2>3 DEF OwnInv
    <2>6. /\ \A h \in Routers : vcm_pc'[h] \in {"enter", "recv", "send", "close"} => Peer(h)' = h
          /\ \A h \in Routers : vcm_file'[h] = IF vcm_pc'[h] = "recv" THEN h ELSE None
      <3>1. ASSUME NEW h \in Routers, vcm_pc'[h] \in {"enter", "recv", "send", "close"}
            PROVE  vcm_fds'[vcm_sock'[h]] = h
        BY <1>c, <2>3, <2>4, <3>1
      <3>2. ASSUME NEW h \in Routers
            PROVE  vcm_file'[h] = IF vcm_pc'[h] = "recv" THEN h ELSE None
        BY <1>c, <2>1, <2>2, <2>3 DEF OwnInv
      <3> QED  BY <3>1, <3>2 DEF Peer
    <2>7. \A g \in Fds, h \in Routers : vcm_fds'[g] = h =>
            \/ vcm_pc'[h] = "starting" /\ g = vcm_client_sock'
            \/ vcm_pc'[h] \in {"enter", "recv", "send", "close"} /\ g = vcm_sock'[h]
      BY <1>c, <2>1, <2>2, <2>3, <2>4 DEF OwnInv
    <2> QED  BY <2>1, <2>5, <2>6, <2>7 DEF OwnInv
  <1> QED  BY <1>b, <1>c, <1>1, <1>2, <1>3, ManagerFrame DEF Answering

\* VcmThreadStart (a manager's thread reads main's client_sock) keeps the
\* invariant.
LEMMA VcmThreadStartPreserves ==
    ASSUME IndInv, NEW h \in Routers, VcmThreadStart(h)
    PROVE  IndInv'
  <1> USE Constants DEF IndInv, OrderInv, vcmThreadVars, vcmVars, linkVars, routerVars, threadVars
  <1>a. PICK p \in {"enter", "close"} :
           /\ vcm_pc' = [vcm_pc EXCEPT ![h] = p]
           /\ p = IF vcm_fds[vcm_client_sock] # None /\ link[vcm_fds[vcm_client_sock]] # "reset"
                  THEN "enter" ELSE "close"
    BY DEF VcmThreadStart, VcmGoto
  <1>b. /\ vcm_pc[h] = "starting" /\ vcm_up
        /\ vcm_sock' = [vcm_sock EXCEPT ![h] = vcm_client_sock]
        /\ UNCHANGED <<vcm_up, vid, vid_nid_map, vcm_fds, vcm_client_sock, vcm_file, vcm_msg,
                       vcm_raced, linkVars, routerVars, threadVars>>
    BY DEF VcmThreadStart
  <1>c. /\ \A g \in Routers : vcm_pc'[g] = IF g = h THEN p ELSE vcm_pc[g]
        /\ \A g \in Routers : vcm_sock'[g] = IF g = h THEN vcm_client_sock ELSE vcm_sock[g]
    BY <1>a, <1>b DEF TypeOK
  <1>d. vcm_client_sock \in Fds
    BY <1>b DEF LinkInv
  <1>1. TypeOK'
    BY <1>a, <1>b DEF TypeOK
  <1>2. LinkInv'
    BY <1>b, <1>c, <1>d DEF LinkInv
  <1>3. ~vcm_raced' => ~vcm_raced /\ OwnInv'
    <2> SUFFICES ASSUME ~vcm_raced'  PROVE ~vcm_raced /\ OwnInv'
      OBVIOUS
    <2>1. ~vcm_raced /\ vcm_fds[vcm_client_sock] = h
      BY <1>b DEF OwnInv
    <2>2. p = "close" => link[h] = "reset"
      BY <1>a, <2>1
    <2>3. \A g \in Routers : vcm_pc[g] = "starting" => g = h
      BY <1>b, <2>1 DEF OwnInv
    <2> QED  BY <1>b, <1>c, <1>d, <2>1, <2>2, <2>3 DEF OwnInv, Peer
  <1> QED  BY <1>b, <1>c, <1>1, <1>2, <1>3, ManagerFrame DEF Answering

\* VcmRecvEnter (a manager's thread calls recv) keeps the invariant.
LEMMA VcmRecvEnterPreserves ==
    ASSUME IndInv, NEW h \in Routers, VcmRecvEnter(h)
    PROVE  IndInv'
  <1> USE Constants DEF IndInv, OrderInv, vcmThreadVars, vcmVars, linkVars, routerVars, threadVars
  <1>a. /\ vcm_pc[h] = "enter" /\ vcm_up
        /\ UNCHANGED <<vcm_up, vid, vid_nid_map, vcm_fds, vcm_client_sock, vcm_sock, vcm_msg,
                       vcm_raced, linkVars, routerVars, threadVars>>
    BY DEF VcmRecvEnter
  <1>b. vcm_sock[h] \in Fds /\ Peer(h) \in Routers \cup {None}
    BY <1>a DEF LinkInv, Peer, TypeOK
  <1>c. \/ /\ Peer(h) # None /\ vcm_pc' = [vcm_pc EXCEPT ![h] = "recv"]
           /\ vcm_file' = [vcm_file EXCEPT ![h] = Peer(h)]
        \/ /\ Peer(h) = None /\ vcm_pc' = [vcm_pc EXCEPT ![h] = "close"]
           /\ UNCHANGED vcm_file
    BY DEF VcmRecvEnter, VcmGoto
  <1>1. TypeOK'
    <2>1. /\ vcm_pc' \in [Routers -> {"none", "pending", "starting", "enter", "recv", "send",
                                      "close", "end"}]
      BY <1>c DEF TypeOK
    <2>2. vcm_file' \in [Routers -> Routers \cup {None}]
      BY <1>b, <1>c DEF TypeOK
    <2> QED  BY <1>a, <2>1, <2>2 DEF TypeOK
  <1>d. /\ \A g \in Routers : g # h => vcm_pc'[g] = vcm_pc[g] /\ vcm_file'[g] = vcm_file[g]
        /\ \/ Peer(h) \in Routers /\ vcm_pc'[h] = "recv" /\ vcm_file'[h] = Peer(h)
           \/ Peer(h) = None /\ vcm_pc'[h] = "close" /\ vcm_file'[h] = vcm_file[h]
    BY <1>b, <1>c DEF TypeOK
  <1>2. LinkInv'
    <2>1. \A r \in Routers : link[r] = "none" => \A g \in Routers : vcm_file'[g] # r
      <3>1. \A r \in Routers : link[r] = "none" => Peer(h) # r /\ \A g \in Routers : vcm_file[g] # r
        BY <1>b DEF LinkInv, Peer
      <3>2. \A g \in Routers : vcm_file'[g] \in {vcm_file[g], Peer(h)}
        BY <1>d
      <3> QED  BY <3>1, <3>2
    <2>2. \A r \in Routers : link[r] = "none" => vcm_pc'[r] = "none"
      BY <1>a, <1>d DEF LinkInv
    <2>3. \A g \in Routers : vcm_pc'[g] = "recv" => vcm_file'[g] \in Routers
      BY <1>a, <1>d DEF LinkInv
    <2>4. \A g \in Routers : vcm_pc'[g] \in {"enter", "recv", "send", "close"} => vcm_sock[g] \in Fds
      BY <1>b, <1>d DEF LinkInv
    <2>5. \A g \in Routers : vcm_pc'[g] = "starting" => vcm_client_sock \in Fds
      BY <1>d DEF LinkInv
    <2> QED  BY <1>a, <2>1, <2>2, <2>3, <2>4, <2>5 DEF LinkInv
  <1>3. ~vcm_raced' => ~vcm_raced /\ OwnInv'
    <2> SUFFICES ASSUME ~vcm_raced'  PROVE ~vcm_raced /\ OwnInv'
      OBVIOUS
    <2>1. ~vcm_raced /\ Peer(h) = h /\ vcm_pc'[h] = "recv" /\ vcm_file'[h] = h
      BY <1>a, <1>d DEF OwnInv
    <2> QED  BY <1>a, <1>d, <2>1 DEF OwnInv, Peer
  <1> QED  BY <1>a, <1>d, <1>1, <1>2, <1>3, ManagerFrame DEF Answering

\* What VcmLetGo does to the connection that recv waited on.
LEMMA LetGoFacts ==
    ASSUME TypeOK, LinkInv, NEW h \in Routers, vcm_pc[h] = "recv", NEW q \in Seq(Msgs),
           VcmLetGo(h, q)
    PROVE  /\ vcm_file[h] \in Routers
           /\ vcm_file' = [vcm_file EXCEPT ![h] = None]
           /\ req' \in [Routers -> Seq(Msgs)]
           /\ req'[vcm_file[h]] \in {q, <<>>}
           /\ \A r \in Routers : r # vcm_file[h] => req'[r] = req[r]
           /\ link' \in [Routers -> {"none", "up", "eof", "dead", "reset", "closed"}]
           /\ \A r \in Routers : link'[r] = link[r]
                                 \/ (link[r] = "up" /\ link'[r] \in {"eof", "reset"})
           /\ \A f \in Fds : vcm_fds[f] = vcm_file[h] => req'[vcm_file[h]] = q /\ link' = link
  <1>1. vcm_file[h] \in Routers
    BY DEF LinkInv
  <1>2. PICK c \in Routers : c = vcm_file[h]
    BY <1>1
  <1>3. \/ req' = [req EXCEPT ![c] = q] /\ link' = link
        \/ /\ \A f \in Fds : vcm_fds[f] # c
           /\ req' = [req EXCEPT ![c] = <<>>]
           /\ \/ link' = link
              \/ \E x \in {"eof", "reset"} : link[c] = "up" /\ link' = [link EXCEPT ![c] = x]
    BY <1>2 DEF VcmLetGo, VcmHangUp
  <1>0. /\ req \in [Routers -> Seq(Msgs)]
        /\ link \in [Routers -> {"none", "up", "eof", "dead", "reset", "closed"}]
    BY DEF TypeOK
  <1>4. /\ req' \in [Routers -> Seq(Msgs)]
        /\ req'[c] \in {q, <<>>}
        /\ \A r \in Routers : r # c => req'[r] = req[r]
    <2>1. req' = [req EXCEPT ![c] = q] \/ req' = [req EXCEPT ![c] = <<>>]
      BY <1>3
    <2> QED  BY <1>0, <2>1, Queues
  <1>5. /\ link' \in [Routers -> {"none", "up", "eof", "dead", "reset", "closed"}]
        /\ \A r \in Routers : link'[r] = link[r]
                              \/ (link[r] = "up" /\ link'[r] \in {"eof", "reset"})
    <2>1. link' = link \/ (link[c] = "up" /\ \E x \in {"eof", "reset"} : link' = [link EXCEPT ![c] = x])
      BY <1>3
    <2> QED  BY <1>0, <2>1
  <1>6. \A f \in Fds : vcm_fds[f] = c => req'[c] = q /\ link' = link
    BY <1>3 DEF TypeOK
  <1>7. vcm_file' = [vcm_file EXCEPT ![h] = None]
    BY DEF VcmLetGo
  <1> QED  BY <1>2, <1>4, <1>5, <1>6, <1>7

\* VcmRecvFails (a manager's thread sees its connection end) keeps the
\* invariant.
LEMMA VcmRecvFailsPreserves ==
    ASSUME IndInv, NEW h \in Routers, VcmRecvFails(h)
    PROVE  IndInv'
  <1> USE Constants DEF IndInv, OrderInv, vcmThreadVars, vcmVars, linkVars, routerVars, threadVars
  <1>a. /\ vcm_pc[h] = "recv" /\ vcm_up /\ VcmLetGo(h, <<>>)
        /\ link[vcm_file[h]] \in {"closed", "reset"}
        /\ vcm_pc' = [vcm_pc EXCEPT ![h] = "close"]
        /\ UNCHANGED <<vcm_up, vid, vid_nid_map, vcm_fds, vcm_client_sock, vcm_sock, vcm_msg,
                       vcm_raced, rsp, routerVars, threadVars>>
    BY DEF VcmRecvFails, VcmGoto
  <1>b. /\ vcm_file[h] \in Routers
        /\ vcm_file' = [vcm_file EXCEPT ![h] = None]
        /\ req' \in [Routers -> Seq(Msgs)]
        /\ req'[vcm_file[h]] = <<>>
        /\ \A r \in Routers : r # vcm_file[h] => req'[r] = req[r]
        /\ link' \in [Routers -> {"none", "up", "eof", "dead", "reset", "closed"}]
        /\ \A r \in Routers : link'[r] = link[r]
                              \/ (link[r] = "up" /\ link'[r] \in {"eof", "reset"})
        /\ \A f \in Fds : vcm_fds[f] = vcm_file[h] => link' = link
    BY <1>a, Queues, LetGoFacts
  <1>1. TypeOK'
    BY <1>a, <1>b DEF TypeOK
  <1>c. /\ \A g \in Routers : vcm_pc'[g] = IF g = h THEN "close" ELSE vcm_pc[g]
        /\ \A g \in Routers : vcm_file'[g] = IF g = h THEN None ELSE vcm_file[g]
    BY <1>a, <1>b DEF TypeOK
  <1>d. \A q \in Routers : req'[q] = req[q] \/ req'[q] = <<>>
    BY <1>b
  <1>2. LinkInv'
    <2>1. \A r \in Routers : link'[r] = "none" => link[r] = "none" /\ req'[r] = <<>>
      BY <1>b, <1>d DEF LinkInv
    <2>2. \A r \in Routers : main[r] = "off" => link'[r] = "none"
      BY <1>b DEF LinkInv
    <2>3. \A g \in Routers : vcm_pc'[g] \in {"enter", "recv", "send", "close"} => vcm_sock[g] \in Fds
      BY <1>a, <1>c DEF LinkInv
    <2>4. \A r, g \in Routers : link[r] = "none" => vcm_pc'[r] = "none" /\ vcm_file'[g] # r
      BY <1>a, <1>c DEF LinkInv
    <2> QED  BY <1>a, <1>c, <2>1, <2>2, <2>3, <2>4 DEF LinkInv
  <1>3. ~vcm_raced' => ~vcm_raced /\ OwnInv'
    <2> SUFFICES ASSUME ~vcm_raced'  PROVE ~vcm_raced /\ OwnInv'
      OBVIOUS
    <2>1. ~vcm_raced /\ OwnInv
      BY <1>a
    <2>2. vcm_file[h] = h /\ vcm_sock[h] \in Fds /\ vcm_fds[vcm_sock[h]] = h
      BY <1>a, <2>1 DEF OwnInv, LinkInv, Peer
    <2>3. link' = link /\ link[h] \in {"closed", "reset"}
      BY <1>a, <1>b, <2>2
    <2> QED  BY <1>a, <1>c, <2>1, <2>2, <2>3 DEF OwnInv, Peer
  <1> QED  BY <1>a, <1>b, <1>c, <1>d, <1>1, <1>2, <1>3, ManagerFrame DEF Answering

\* VcmThreadEnd (a manager's thread closes its descriptor) keeps the
\* invariant.
LEMMA VcmThreadEndPreserves ==
    ASSUME IndInv, NEW h \in Routers, VcmThreadEnd(h)
    PROVE  IndInv'
  <1> USE Constants DEF IndInv, OrderInv, vcmThreadVars, vcmVars, linkVars, routerVars, threadVars
  <1>a. /\ vcm_pc[h] = "close" /\ vcm_up
        /\ vcm_pc' = [vcm_pc EXCEPT ![h] = "end"]
        /\ vcm_sock' = [vcm_sock EXCEPT ![h] = 0]
        /\ vcm_fds' = [vcm_fds EXCEPT ![vcm_sock[h]] = None]
        /\ UNCHANGED <<vcm_up, vid, vid_nid_map, vcm_client_sock, vcm_file, vcm_msg,
                       vcm_raced, rsp, routerVars, threadVars>>
    BY DEF VcmThreadEnd, VcmGoto
  <1>b. vcm_sock[h] \in Fds /\ Peer(h) \in Routers \cup {None}
    BY <1>a DEF LinkInv, Peer, TypeOK
  <1>c. \/ UNCHANGED <<link, req>>
        \/ /\ Peer(h) # None /\ req' = [req EXCEPT ![Peer(h)] = <<>>]
           /\ \/ link' = link
              \/ \E x \in {"eof", "reset"} : link[Peer(h)] = "up" /\ link' = [link EXCEPT ![Peer(h)] = x]
    BY DEF VcmThreadEnd, VcmHangUp
  <1>d. /\ req' \in [Routers -> Seq(Msgs)]
        /\ \A q \in Routers : req'[q] = req[q] \/ req'[q] = <<>>
    <2>1. req \in [Routers -> Seq(Msgs)]
      BY DEF TypeOK
    <2>2. req' = req \/ \E c \in Routers : req' = [req EXCEPT ![c] = <<>>]
      BY <1>b, <1>c
    <2> QED  BY <2>1, <2>2, Queues
  <1>e. /\ link' \in [Routers -> {"none", "up", "eof", "dead", "reset", "closed"}]
        /\ \A q \in Routers : link'[q] = link[q]
                              \/ (link[q] = "up" /\ link'[q] \in {"eof", "reset"})
    <2>1. link \in [Routers -> {"none", "up", "eof", "dead", "reset", "closed"}]
      BY DEF TypeOK
    <2>2. link' = link \/ \E c \in Routers, x \in {"eof", "reset"} :
                              link[c] = "up" /\ link' = [link EXCEPT ![c] = x]
      BY <1>b, <1>c
    <2> QED  BY <2>1, <2>2
  <1>f. /\ \A g \in Routers : vcm_pc'[g] = IF g = h THEN "end" ELSE vcm_pc[g]
        /\ \A g \in Routers : vcm_sock'[g] = IF g = h THEN 0 ELSE vcm_sock[g]
        /\ \A f \in Fds : vcm_fds'[f] = IF f = vcm_sock[h] THEN None ELSE vcm_fds[f]
    BY <1>a, <1>b DEF TypeOK
  <1>1. TypeOK'
    <2>1. /\ vcm_pc' \in [Routers -> {"none", "pending", "starting", "enter", "recv", "send",
                                      "close", "end"}]
      BY <1>a DEF TypeOK
    <2>2. vcm_sock' \in [Routers -> 0..MaxFd]
      BY <1>a DEF TypeOK
    <2>3. vcm_fds' \in [Fds -> Routers \cup {None}]
      BY <1>a DEF TypeOK
    <2> QED  BY <1>a, <1>d, <1>e, <2>1, <2>2, <2>3 DEF TypeOK
  <1>2. LinkInv'
    <2>1. \A r \in Routers : link'[r] = "none" => link[r] = "none" /\ req'[r] = <<>>
      BY <1>d, <1>e DEF LinkInv
    <2>2. \A r \in Routers : main[r] = "off" => link'[r] = "none"
      BY <1>e DEF LinkInv
    <2>3. \A g \in Routers : vcm_pc'[g] \in {"enter", "recv", "send", "close"} => vcm_sock'[g] \in Fds
      BY <1>f DEF LinkInv
    <2>4. \A r \in Routers, f \in Fds : link[r] = "none" => vcm_pc'[r] = "none" /\ vcm_fds'[f] # r
      BY <1>a, <1>f DEF LinkInv
    <2> QED  BY <1>a, <1>f, <2>1, <2>2, <2>3, <2>4 DEF LinkInv
  <1>3. ~vcm_raced' => ~vcm_raced /\ OwnInv'
    <2> SUFFICES ASSUME ~vcm_raced'  PROVE ~vcm_raced /\ OwnInv'
      OBVIOUS
    <2>1. ~vcm_raced /\ OwnInv
      BY <1>a
    <2>2. Peer(h) = h /\ vcm_fds[vcm_sock[h]] = h /\ link[h] \in {"closed", "reset"}
      BY <1>a, <2>1 DEF OwnInv, Peer
    <2>3. link' = link
      BY <1>c, <2>2
    <2>4. \A g \in Routers : vcm_pc[g] \in {"enter", "recv", "send", "close"} /\ g # h
                                => vcm_sock[g] # vcm_sock[h]
      BY <2>1, <2>2 DEF OwnInv, Peer
    <2>5. \A g \in Routers : vcm_pc[g] = "starting" => vcm_client_sock # vcm_sock[h]
      BY <1>a, <2>1, <2>2 DEF OwnInv
    <2> QED  BY <1>a, <1>b, <1>f, <2>1, <2>2, <2>3, <2>4, <2>5 DEF OwnInv, Peer, LinkInv
  <1> QED  BY <1>a, <1>d, <1>e, <1>f, <1>1, <1>2, <1>3, ManagerFrame DEF Answering

\* VcmServe (a manager's thread serves a request) keeps the invariant.
LEMMA VcmServePreserves ==
    ASSUME IndInv, NEW h \in Routers, VcmServe(h)
    PROVE  IndInv'
  <1> USE Constants DEF IndInv, OrderInv, Orderly, vcmThreadVars, vcmVars, linkVars,
                        routerVars, threadVars
  <1>a. PICK c \in Routers : c = vcm_file[h]
    BY DEF VcmServe, LinkInv
  <1>b. PICK m \in HonestMsgs(c) : m = Head(req[c]) /\ m \in Msgs
    <2>1. req[c] \in Seq(HonestMsgs(c)) /\ req[c] # <<>>
      BY <1>a DEF VcmServe, TableInv
    <2>2. Head(req[c]) \in HonestMsgs(c)
      BY <2>1
    <2> QED  BY <2>2 DEF HonestMsgs
  <1>c. /\ vcm_pc[h] = "recv" /\ vcm_pc' = [vcm_pc EXCEPT ![h] = "send"] /\ vcm_up
        /\ req[c] # <<>> /\ VcmLetGo(h, Tail(req[c]))
        /\ UNCHANGED <<vcm_up, vcm_fds, vcm_client_sock, vcm_sock, vcm_raced, rsp, routerVars,
                       threadVars>>
    BY <1>a DEF VcmServe, VcmGoto
  <1>d. /\ vcm_file' = [vcm_file EXCEPT ![h] = None]
        /\ req' \in [Routers -> Seq(Msgs)]
        /\ req'[c] \in {Tail(req[c]), <<>>}
        /\ \A r \in Routers : r # c => req'[r] = req[r]
        /\ link' \in [Routers -> {"none", "up", "eof", "dead", "reset", "closed"}]
        /\ \A r \in Routers : link'[r] = link[r]
                              \/ (link[r] = "up" /\ link'[r] \in {"eof", "reset"})
        /\ \A f \in Fds : vcm_fds[f] = c => req'[c] = Tail(req[c]) /\ link' = link
    <2>1. Tail(req[c]) \in Seq(Msgs)
      BY <1>c, QueueTypes DEF TypeOK
    <2>2. PICK q \in Seq(Msgs) : q = Tail(req[c])
      BY <2>1
    <2>3. VcmLetGo(h, q) /\ TypeOK /\ LinkInv /\ vcm_pc[h] = "recv"
      BY <1>c, <2>2
    <2>4. /\ vcm_file' = [vcm_file EXCEPT ![h] = None]
          /\ req' \in [Routers -> Seq(Msgs)]
          /\ req'[vcm_file[h]] \in {q, <<>>}
          /\ \A r \in Routers : r # vcm_file[h] => req'[r] = req[r]
          /\ link' \in [Routers -> {"none", "up", "eof", "dead", "reset", "closed"}]
          /\ \A r \in Routers : link'[r] = link[r]
                                \/ (link[r] = "up" /\ link'[r] \in {"eof", "reset"})
          /\ \A f \in Fds : vcm_fds[f] = vcm_file[h] => req'[vcm_file[h]] = q /\ link' = link
      BY <2>3, LetGoFacts
    <2> QED  BY <1>a, <2>2, <2>4
  <1> DEFINE Lookup == /\ m.func_code = "VID_NID"
                       /\ vcm_msg' = [vcm_msg EXCEPT ![h] = Msg("VID_NID", get_nid_by_vid(m.id))]
                       /\ UNCHANGED <<vid, vid_nid_map>>
             New == /\ m.func_code = "NID_VID" /\ m.id = RouterNid[c]
                    /\ vid + 1 \in Ids /\ vid_nid_map[vid + 1] = Absent
                    /\ vid' = vid + 1
                    /\ vid_nid_map' = [vid_nid_map EXCEPT ![vid + 1] = RouterNid[c]]
                    /\ vcm_msg' = [vcm_msg EXCEPT ![h] = Msg("NID_VID", vid + 1)]
  <1>f. Lookup \/ New
    <2>1. CASE m.func_code = "VID_NID"
      BY <1>a, <1>b, <2>1 DEF VcmServe
    <2>2. CASE m.func_code = "NID_VID"
      <3>1. /\ vid < MaxId /\ vid' = vid + 1
            /\ vid_nid_map' = MapInsert(vid_nid_map, vid + 1, m.id)
            /\ vcm_msg' = [vcm_msg EXCEPT ![h] = Msg("NID_VID", vid + 1)]
        BY <1>a, <1>b, <2>2 DEF VcmServe, get_new_vid, NewVid
      <3>2. vid + 1 \in Ids
        BY <3>1 DEF Ids, TypeOK
      <3>3. vid_nid_map[vid + 1] = Absent
        BY <3>2 DEF TableInv, TypeOK
      <3>4. m.id = RouterNid[c]
        BY <1>b, <2>2 DEF HonestMsgs
      <3> QED  BY <2>2, <3>1, <3>2, <3>3, <3>4 DEF MapInsert
    <2> QED  BY <1>b, <2>1, <2>2, Messages
  <1>g. get_nid_by_vid(m.id) \in Keys
    <2>1. vid_nid_map \in [Ids -> Ids \cup {Absent}]
      BY DEF TypeOK
    <2> QED  BY <2>1 DEF get_nid_by_vid
  <1>k. vcm_msg' \in [Routers -> Msgs] /\ \A g \in Routers : g # h => vcm_msg'[g] = vcm_msg[g]
    <2>1. \E x \in Msgs : vcm_msg' = [vcm_msg EXCEPT ![h] = x]
      <3>1. Msg("VID_NID", get_nid_by_vid(m.id)) \in Msgs
        BY <1>g, Messages
      <3>2. New => Msg("NID_VID", vid + 1) \in Msgs
        BY Messages
      <3> QED  BY <3>1, <3>2, <1>f
    <2> QED  BY <2>1 DEF TypeOK
  <1>l. \A v \in Ids : vid_nid_map'[v] = vid_nid_map[v] \/ vid_nid_map[v] = Absent
    BY <1>f DEF TypeOK
  <1>m. /\ \A g \in Routers : vcm_pc'[g] = IF g = h THEN "send" ELSE vcm_pc[g]
        /\ \A g \in Routers : vcm_file'[g] = IF g = h THEN None ELSE vcm_file[g]
    BY <1>c, <1>d DEF TypeOK
  <1>1. TypeOK'
    <2>1. vid' \in 0..MaxId
      BY <1>f DEF TypeOK, Ids
    <2>2. vid_nid_map' \in [Ids -> Ids \cup {Absent}]
      <3>1. RouterNid[c] \in Ids /\ vid_nid_map \in [Ids -> Ids \cup {Absent}]
        BY DEF TypeOK
      <3> QED  BY <1>f, <3>1
    <2>3. vcm_pc' \in [Routers -> {"none", "pending", "starting", "enter", "recv", "send",
                                   "close", "end"}]
      BY <1>c DEF TypeOK
    <2>4. vcm_file' \in [Routers -> Routers \cup {None}]
      BY <1>d DEF TypeOK
    <2> QED  BY <2>1, <2>2, <2>3, <2>4, <1>c, <1>d, <1>k DEF TypeOK
  <1>2. LockInv'
    BY <1>c DEF LockInv, Found
  <1>3. LinkInv'
    <2>1. link[c] # "none"
      BY <1>c DEF LinkInv
    <2>2. \A r \in Routers : link'[r] = "none" => link[r] = "none" /\ req'[r] = <<>>
      BY <1>d, <2>1 DEF LinkInv
    <2>3. \A r \in Routers : main[r] = "off" => link'[r] = "none"
      BY <1>d DEF LinkInv
    <2>4. \A g \in Routers : vcm_pc'[g] \in {"enter", "recv", "send", "close"} => vcm_sock[g] \in Fds
      BY <1>c, <1>m DEF LinkInv
    <2>5. \A r, g \in Routers : link[r] = "none" => vcm_pc'[r] = "none" /\ vcm_file'[g] # r
      BY <1>c, <1>m DEF LinkInv
    <2> QED  BY <1>c, <1>m, <2>2, <2>3, <2>4, <2>5 DEF LinkInv
  <1>t. TableInv'
    <2>1. \A v \in Ids : vid_nid_map'[v] # Absent <=> v <= vid'
      <3>1. CASE Lookup
        BY <3>1 DEF TableInv
      <3>2. CASE New
        BY <3>2 DEF TableInv, TypeOK, Ids
      <3> QED  BY <1>f, <3>1, <3>2
    <2>2. Tail(req[c]) \in Seq(HonestMsgs(c)) /\ <<>> \in Seq(HonestMsgs(c))
      BY <1>c DEF TableInv
    <2> QED  BY <1>d, <2>1, <2>2 DEF TableInv
  <1> SUFFICES ASSUME ~vcm_raced'
               PROVE  OrderInv' /\ UniqueVids' /\ JoinedVidsAssigned' /\ TranslationsTrue'
    BY <1>1, <1>2, <1>3, <1>t DEF UniqueVids, JoinedVidsAssigned, TranslationsTrue
  <1> ~vcm_raced /\ OrderInv
    BY <1>c
  <1>n. /\ c = h /\ vcm_sock[h] \in Fds /\ vcm_fds[vcm_sock[h]] = h
        /\ link' = link
        /\ req[h] = <<m>> /\ rsp[h] = <<>> /\ ~Answering(h)
        /\ req'[h] = <<>> /\ \A q \in Routers : q # h => req'[q] = req[q]
    <2>1. c = h /\ vcm_sock[h] \in Fds /\ vcm_fds[vcm_sock[h]] = h
      BY <1>a, <1>c DEF OwnInv, LinkInv, Peer
    <2>2. req[h] = <<m>> /\ rsp[h] = <<>> /\ ~Answering(h)
      BY <1>b, <1>c, <2>1, Queues DEF StageInv, AtMostOne
    <2>3. link' = link /\ req'[h] = Tail(<<m>>)
      BY <1>d, <2>1, <2>2
    <2> QED  BY <1>b, <1>d, <2>1, <2>2, <2>3, Queues
  <1>e. \A q \in Routers : Answering(q)' <=> Answering(q) \/ q = h
    BY <1>m DEF Answering
  <1>o. OwnInv'
    BY <1>c, <1>m, <1>n DEF OwnInv, Peer
  <1>4. StageInv'
    <2>1. link[h] = "up" => map_mutex[h] # None
      BY <1>n, Queues, <1>b DEF StageInv
    <2> QED  BY <1>c, <1>e, <1>n, <2>1 DEF StageInv, AtMostOne
  <1>5. DataInv'
    <2>3. ASSUME NEW u \in Threads, NEW x \in Msgs, Answers(u, x)
          PROVE  Answers(u, x)'
      <3>1. call[u] \in Calls /\ x.id # Absent
        BY Messages DEF TypeOK
      <3>2. CASE call[u].op = "vid_nid"
        BY <2>3, <3>1, <3>2, <1>c, <1>l, CallFacts DEF Answers
      <3>3. CASE call[u].op # "vid_nid"
        <4>1. RouterNid[RouterOf[u]] # Absent
          OBVIOUS
        <4> QED  BY <2>3, <3>3, <4>1, <1>c, <1>l DEF Answers
      <3> QED  BY <3>2, <3>3
    <2>4. ASSUME NEW u \in Threads, map_mutex[RouterOf[u]] = u
          PROVE  /\ link[RouterOf[u]] = "up" /\ req'[RouterOf[u]] # <<>> => Head(req'[RouterOf[u]]) = RequestMsg(u)
                 /\ rsp[RouterOf[u]] # <<>> => Answers(u, Head(rsp[RouterOf[u]]))'
      <3>1. rsp[RouterOf[u]] # <<>> => Head(rsp[RouterOf[u]]) \in Msgs
        BY QueueTypes DEF TypeOK
      <3> QED  BY <2>3, <2>4, <3>1, <1>c, <1>n DEF DataInv
    <2>5. ASSUME NEW u \in Threads, map_mutex[RouterOf[u]] = u, link[RouterOf[u]] = "up",
                 Answering(RouterOf[u])'
          PROVE  Answers(u, vcm_msg[RouterOf[u]])'
      <3>1. CASE RouterOf[u] = h
        <4>2. m = RequestMsg(u)
          BY <2>5, <3>1, <1>b, <1>c, <1>n DEF DataInv
        <4>3. call[u].op # "get_node_id" /\ call[u] \in Calls
          BY <2>5 DEF LockInv, TypeOK
        <4>4. CASE call[u].op = "join"
          <5>1. m.func_code = "NID_VID"
            <6>1. m = Msg("NID_VID", RouterNid[RouterOf[u]])
              BY <4>2, <4>3, <4>4, RequestMsgFacts
            <6> QED  BY <6>1, Messages
          <5>2. New
            BY <5>1, <1>f
          <5>3. vcm_msg'[h] = Msg("NID_VID", vid + 1) /\ vid_nid_map'[vid + 1] = RouterNid[h]
            BY <5>2, <1>n DEF TypeOK
          <5> QED  BY <3>1, <4>4, <5>2, <5>3, <1>c, Messages DEF Answers
        <4>5. CASE call[u].op = "vid_nid"
          <5>1. m = Msg("VID_NID", call[u].vid) /\ call[u].vid \in Ids
            BY <4>2, <4>3, <4>5, RequestMsgFacts, CallFacts
          <5>2. m.func_code = "VID_NID" /\ m.id = call[u].vid
            BY <5>1, Messages
          <5>3. Lookup
            BY <5>2, <1>f
          <5>4. vcm_msg'[h] = Msg("VID_NID", get_nid_by_vid(m.id))
            BY <5>3 DEF TypeOK
          <5>5. get_nid_by_vid(m.id) \in {Error, vid_nid_map[call[u].vid]}
            BY <5>2 DEF get_nid_by_vid
          <5>6. vcm_msg'[h].func_code = "VID_NID" /\ vcm_msg'[h].id = get_nid_by_vid(m.id)
            <6>1. PICK k \in Keys : k = get_nid_by_vid(m.id)
              BY <1>g
            <6>2. Msg("VID_NID", k).func_code = "VID_NID" /\ Msg("VID_NID", k).id = k
              BY Messages
            <6> QED  BY <5>4, <6>1, <6>2
          <5>7. vcm_msg'[h].id \in {Error, vid_nid_map'[call'[u].vid]}
            BY <5>3, <5>5, <5>6, <1>c
          <5> QED  BY <3>1, <4>5, <5>6, <5>7, <1>c DEF Answers
        <4> QED  BY <4>3, <4>4, <4>5, CallFacts
      <3>2. CASE RouterOf[u] # h
        <4>1. Answering(RouterOf[u]) /\ vcm_msg'[RouterOf[u]] = vcm_msg[RouterOf[u]]
              /\ vcm_msg[RouterOf[u]] \in Msgs
          BY <2>5, <3>2, <1>e, <1>k DEF TypeOK
        <4> QED  BY <2>3, <2>5, <4>1 DEF DataInv
      <3> QED  BY <3>1, <3>2
    <2>6. \A u \in Threads : RequestMsg(u)' = RequestMsg(u)
      BY <1>c DEF RequestMsg
    <2> QED  BY <2>4, <2>5, <2>6, <1>c, <1>n DEF DataInv
  <1>6. TokenInv'
    <2>1. ASSUME NEW q \in Routers, NEW v \in Ids, Carries(q, v)'
          PROVE  Carries(q, v) \/ (New /\ q = h /\ v = vid + 1)
      <3>1. CASE rsp'[q] = <<Msg("NID_VID", v)>>
        BY <3>1, <1>c DEF Carries
      <3>2. CASE Answering(q)' /\ vcm_msg'[q] = Msg("NID_VID", v) /\ q # h
        BY <3>2, <1>e, <1>k DEF Carries
      <3>3. CASE vcm_msg'[q] = Msg("NID_VID", v) /\ q = h
        <4>2. ~Lookup
          <5>1. Lookup => vcm_msg'[h] = Msg("VID_NID", get_nid_by_vid(m.id))
            BY DEF TypeOK
          <5>2. Msg("VID_NID", get_nid_by_vid(m.id)) # Msg("NID_VID", v)
            BY DEF Msg
          <5> QED  BY <3>3, <5>1, <5>2
        <4>3. New /\ vcm_msg'[h] = Msg("NID_VID", vid + 1)
          BY <4>2, <1>f DEF TypeOK
        <4> QED  BY <3>3, <4>3, Messages
      <3> QED  BY <2>1, <3>1, <3>2, <3>3 DEF Carries
    <2>2. New => vid_nid_map'[vid + 1] = RouterNid[c] /\ RouterNid[c] # Absent
      BY DEF TypeOK
    <2>3. New => \A q \in Routers : ~Carries(q, vid + 1)
      BY DEF TokenInv
    <2>4. New => \A q \in Routers, d \in Cids : Held(q, d) # vid + 1
      <3> SUFFICES ASSUME New, NEW q \in Routers, NEW d \in Cids, Held(q, d) = vid + 1
                   PROVE  FALSE
        OBVIOUS
      <3>1. vid + 1 \in Ids /\ vid_nid_map[vid + 1] = Absent
        OBVIOUS
      <3>2. Joined(q, d)
        BY <3>1 DEF Joined
      <3>3. vid_nid_map[vid + 1] = RouterNid[q] /\ RouterNid[q] \in Ids
        BY <3>2, <1>c DEF JoinedVidsAssigned
      <3> QED  BY <3>1, <3>3
    <2>5. vcm_up' = vcm_up /\ \A q \in Routers, d \in Cids : Held(q, d)' = Held(q, d)
      BY <1>c DEF Held
    <2> HIDE DEF New
    <2>6. ASSUME NEW q \in Routers, NEW v \in Ids, Carries(q, v)'
          PROVE  /\ vid_nid_map'[v] # Absent
                 /\ vcm_up' => \A p \in Routers, d \in Cids : Held(p, d)' # v
      <3>1. CASE Carries(q, v)
        BY <3>1, <2>5, <1>l DEF TokenInv
      <3>2. CASE New /\ v = vid + 1
        BY <3>2, <2>2, <2>4, <2>5
      <3> QED  BY <2>1, <2>6, <3>1, <3>2
    <2>7. ASSUME NEW p \in Routers, NEW q \in Routers, NEW v \in Ids,
                 Carries(p, v)', Carries(q, v)'
          PROVE  p = q
      BY <2>1, <2>3, <2>7 DEF TokenInv
    <2> QED  BY <2>6, <2>7 DEF TokenInv
  <1>7. UniqueVids'
    BY <1>c DEF UniqueVids, Joined, Held
  <1>8. JoinedVidsAssigned'
    <2>1. ASSUME NEW q \in Routers, NEW d \in Cids, Joined(q, d)
          PROVE  Held(q, d) \in Ids /\ vid_nid_map'[Held(q, d)] = RouterNid[q]
      BY <2>1, <1>c, <1>l DEF JoinedVidsAssigned
    <2> QED  BY <2>1, <1>c DEF JoinedVidsAssigned, Joined, Held
  <1>9. TranslationsTrue'
    <2>1. ASSUME NEW u \in Threads, pc[u] = "reply", call[u].op = "vid_nid"
          PROVE  ret[u] \in {Error, vid_nid_map'[call[u].vid]}
      <3>1. call[u].vid \in Ids /\ ret[u] # Absent
        BY <2>1, CallFacts DEF TypeOK
      <3> QED  BY <2>1, <3>1, <1>c, <1>l DEF TranslationsTrue
    <2> QED  BY <2>1, <1>c, <1>l DEF TranslationsTrue
  <1> QED  BY <1>o, <1>4, <1>5, <1>6, <1>7, <1>8, <1>9

\* VcmReply (a manager's thread answers, on whatever its descriptor stands for)
\* keeps the invariant.
LEMMA VcmReplyPreserves ==
    ASSUME IndInv, NEW h \in Routers, VcmReply(h)
    PROVE  IndInv'
  <1> USE Constants DEF IndInv, OrderInv, Orderly, vcmThreadVars, vcmVars, linkVars,
                        routerVars, threadVars
  <1>a. /\ vcm_up /\ vcm_pc[h] = "send"
        /\ vcm_msg' = [vcm_msg EXCEPT ![h] = NoMsg]
        /\ UNCHANGED <<vcm_up, vid, vid_nid_map, vcm_fds, vcm_client_sock, vcm_sock, vcm_file,
                       vcm_raced, link, req, routerVars, threadVars>>
    BY DEF VcmReply
  <1>b. vcm_sock[h] \in Fds /\ Peer(h) \in Routers \cup {None} /\ vcm_msg[h] \in Msgs
    BY <1>a DEF LinkInv, Peer, TypeOK
  <1>c. PICK p \in {"enter", "close"} :
           /\ vcm_pc' = [vcm_pc EXCEPT ![h] = p]
           /\ p = "close" => Peer(h) = None \/ link[Peer(h)] \in {"closed", "reset"}
    BY DEF VcmReply, VcmGoto
  <1>d. \/ rsp' = rsp
        \/ /\ Peer(h) \in Routers /\ link[Peer(h)] = "up"
           /\ rsp' = [rsp EXCEPT ![Peer(h)] = Append(rsp[Peer(h)], vcm_msg[h])]
    BY <1>b DEF VcmReply
  <1>e. /\ \A g \in Routers : vcm_pc'[g] = IF g = h THEN p ELSE vcm_pc[g]
        /\ \A g \in Routers : g # h => vcm_msg'[g] = vcm_msg[g]
    BY <1>a, <1>c DEF TypeOK
  <1>f. \A r \in Routers : rsp'[r] = rsp[r] \/ (r = Peer(h) /\ link[r] = "up")
    BY <1>d DEF TypeOK
  <1>1. TypeOK'
    <2>1. rsp' \in [Routers -> Seq(Msgs)]
      <3>1. Peer(h) \in Routers => Append(rsp[Peer(h)], vcm_msg[h]) \in Seq(Msgs)
        BY <1>b, QueueTypes DEF TypeOK
      <3>2. rsp \in [Routers -> Seq(Msgs)]
        BY DEF TypeOK
      <3> QED  BY <1>d, <3>1, <3>2
    <2>2. vcm_pc' \in [Routers -> {"none", "pending", "starting", "enter", "recv", "send",
                                   "close", "end"}]
      BY <1>c DEF TypeOK
    <2>3. vcm_msg' \in [Routers -> Msgs]
      BY <1>a, Messages DEF TypeOK
    <2> QED  BY <1>a, <2>1, <2>2, <2>3 DEF TypeOK
  <1>2. LockInv'
    BY <1>a DEF LockInv, Found
  <1>3. LinkInv'
    <2>1. \A r \in Routers : link[r] = "none" => rsp'[r] = <<>> /\ vcm_pc'[r] = "none"
      BY <1>a, <1>e, <1>f DEF LinkInv
    <2>2. \A g \in Routers : vcm_pc'[g] \in {"enter", "recv", "send", "close"} => vcm_sock[g] \in Fds
      BY <1>b, <1>e DEF LinkInv
    <2> QED  BY <1>a, <1>e, <2>1, <2>2 DEF LinkInv
  <1>t. TableInv'
    BY <1>a DEF TableInv
  <1> SUFFICES ASSUME ~vcm_raced'
               PROVE  OrderInv' /\ UniqueVids' /\ JoinedVidsAssigned' /\ TranslationsTrue'
    BY <1>1, <1>2, <1>3, <1>t DEF UniqueVids, JoinedVidsAssigned, TranslationsTrue
  <1> ~vcm_raced /\ OrderInv
    BY <1>a
  <1>g. /\ Peer(h) = h /\ req[h] = <<>> /\ rsp[h] = <<>>
        /\ \A q \in Routers : q # h => rsp'[q] = rsp[q]
        /\ rsp'[h] = <<>> \/ (link[h] = "up" /\ rsp'[h] = <<vcm_msg[h]>>)
    <2>1. Peer(h) = h /\ req[h] = <<>> /\ rsp[h] = <<>>
      BY <1>a DEF OwnInv, StageInv, Answering
    <2>2. Append(<<>>, vcm_msg[h]) = <<vcm_msg[h]>>
      BY <1>b, Queues
    <2> QED  BY <1>d, <1>f, <2>1, <2>2 DEF TypeOK
  <1>k. \A q \in Routers : Answering(q)' => Answering(q) /\ q # h /\ vcm_msg'[q] = vcm_msg[q]
    BY <1>e DEF Answering
  <1>o. OwnInv'
    BY <1>a, <1>c, <1>e, <1>g DEF OwnInv, Peer
  <1>4. StageInv'
    <2>1. link[h] = "up" => map_mutex[h] # None
      BY <1>a DEF StageInv, Answering
    <2>2. AtMostOne(rsp'[h])
      BY <1>b, <1>g DEF AtMostOne
    <2>3. \A q \in Routers : /\ AtMostOne(req[q]) /\ AtMostOne(rsp'[q])
                             /\ req[q] # <<>> => rsp'[q] = <<>>
                             /\ req[q] # <<>> \/ rsp'[q] # <<>> => ~Answering(q)'
      BY <1>g, <1>k, <2>2 DEF StageInv
    <2>4. \A q \in Routers : /\ map_mutex[q] = None => rsp'[q] = <<>>
                             /\ map_mutex[q] = None /\ link[q] = "up" => req[q] = <<>> /\ ~Answering(q)'
      BY <1>g, <1>k, <2>1 DEF StageInv
    <2> QED  BY <1>a, <2>3, <2>4 DEF StageInv, AtMostOne
  <1>5. DataInv'
    <2>2. \A u \in Threads : RequestMsg(u)' = RequestMsg(u) /\ \A x : Answers(u, x)' <=> Answers(u, x)
      BY <1>a DEF RequestMsg, Answers
    <2>4. ASSUME NEW u \in Threads, map_mutex[RouterOf[u]] = u, rsp'[RouterOf[u]] # <<>>
          PROVE  Answers(u, Head(rsp'[RouterOf[u]]))
      <3>1. CASE RouterOf[u] = h
        <4>1. link[h] = "up" /\ rsp'[h] = <<vcm_msg[h]>>
          BY <2>4, <3>1, <1>g
        <4>2. Answers(u, vcm_msg[h])
          BY <2>4, <3>1, <4>1, <1>a DEF DataInv, Answering
        <4> QED  BY <3>1, <4>1, <4>2, <1>b, Queues
      <3>2. CASE RouterOf[u] # h
        BY <2>4, <3>2, <1>g DEF DataInv
      <3> QED  BY <3>1, <3>2
    <2> QED  BY <1>a, <1>k, <2>2, <2>4 DEF DataInv
  <1>6. TokenInv'
    <2>1. \A q \in Routers, v \in Ids : Carries(q, v)' => Carries(q, v)
      <3> SUFFICES ASSUME NEW q \in Routers, NEW v \in Ids, Carries(q, v)'  PROVE Carries(q, v)
        OBVIOUS
      <3>1. <<Msg("NID_VID", v)>> # <<>> /\ Head(<<Msg("NID_VID", v)>>) = Msg("NID_VID", v)
        BY Queues, Messages
      <3>2. Head(<<vcm_msg[h]>>) = vcm_msg[h]
        BY <1>b, Queues
      <3> QED  BY <1>a, <1>g, <1>k, <3>1, <3>2 DEF Carries, Answering
    <2> QED  BY <1>a, <2>1, TokenFrame
  <1>7. UniqueVids' /\ JoinedVidsAssigned'
    BY <1>a DEF UniqueVids, JoinedVidsAssigned, Joined, Held
  <1>8. TranslationsTrue'
    BY <1>a DEF TranslationsTrue
  <1> QED  BY <1>o, <1>4, <1>5, <1>6, <1>7, <1>8

\* VcmExit (the manager exits) keeps the invariant.
LEMMA VcmExitPreserves ==
    ASSUME IndInv, VcmExit
    PROVE  IndInv'
  <1> USE Constants DEF IndInv, OrderInv, Orderly, vcmThreadVars, vcmVars, linkVars,
                        routerVars, threadVars
  <1>1. TypeOK'
    <2>1. link' \in [Routers -> {"none", "up", "eof", "dead", "reset", "closed"}]
      BY DEF VcmExit, TypeOK
    <2>2. req' \in [Routers -> Seq(Msgs)] /\ vcm_msg' \in [Routers -> Msgs]
      BY Queues, Messages DEF VcmExit
    <2>3. /\ vcm_pc' \in [Routers -> {"none"}] /\ vcm_sock' \in [Routers -> {0}]
          /\ vcm_file' \in [Routers -> {None}] /\ vcm_fds' \in [Fds -> {None}]
          /\ vcm_client_sock' \in 0..MaxFd
      BY DEF VcmExit
    <2> QED  BY <2>1, <2>2, <2>3 DEF VcmExit, TypeOK
  <1>2. LockInv'
    BY DEF VcmExit, LockInv, Found
  <1>3. LinkInv'
    BY DEF VcmExit, LinkInv
  <1>t. TableInv'
    BY DEF VcmExit, TableInv
  <1> SUFFICES ASSUME ~vcm_raced'
               PROVE  OrderInv' /\ UniqueVids' /\ JoinedVidsAssigned' /\ TranslationsTrue'
    BY <1>1, <1>2, <1>3, <1>t DEF UniqueVids, JoinedVidsAssigned, TranslationsTrue
  <1> ~vcm_raced /\ OrderInv
    BY DEF VcmExit
  <1>o. OwnInv'
    BY DEF VcmExit, OwnInv, Peer, TypeOK
  <1>4. StageInv'
    BY DEF VcmExit, StageInv, AtMostOne, Answering
  <1>5. DataInv'
    BY DEF VcmExit, DataInv, AtMostOne, Answering, Answers, RequestMsg
  <1>6. TokenInv'
    <2>1. \A q \in Routers, v \in Ids : Carries(q, v)' => Carries(q, v)
      BY Queues, Messages DEF VcmExit, Carries, Answering, LinkInv, TypeOK
    <2> QED  BY <2>1, TokenFrame DEF VcmExit
  <1>7. UniqueVids'
    BY DEF VcmExit, UniqueVids
  <1>8. JoinedVidsAssigned'
    BY DEF VcmExit, JoinedVidsAssigned
  <1>9. TranslationsTrue'
    BY DEF VcmExit, TranslationsTrue
  <1> QED  BY <1>o, <1>4, <1>5, <1>6, <1>7, <1>8, <1>9

\* LinkReset (a connection is reset) keeps the invariant.
LEMMA LinkResetPreserves ==
    ASSUME IndInv, NEW r \in Routers, LinkReset(r)
    PROVE  IndInv'
  <1> USE Constants DEF IndInv, OrderInv, Orderly, vcmThreadVars, vcmVars, linkVars,
                        routerVars, threadVars
  <1>1. TypeOK'
    BY DEF LinkReset, TypeOK
  <1>2. LockInv'
    BY DEF LinkReset, LockInv, Found
  <1>3. LinkInv'
    BY DEF LinkReset, LinkInv
  <1>t. TableInv'
    BY DEF LinkReset, TableInv
  <1> SUFFICES ASSUME ~vcm_raced'
               PROVE  OrderInv' /\ UniqueVids' /\ JoinedVidsAssigned' /\ TranslationsTrue'
    BY <1>1, <1>2, <1>3, <1>t DEF UniqueVids, JoinedVidsAssigned, TranslationsTrue
  <1> ~vcm_raced /\ OrderInv
    BY DEF LinkReset
  <1>o. OwnInv'
    BY DEF LinkReset, OwnInv, Peer, TypeOK
  <1>4. StageInv'
    BY DEF LinkReset, StageInv, AtMostOne, Answering
  <1>5. DataInv'
    BY DEF LinkReset, DataInv, AtMostOne, Answering, Answers, RequestMsg
  <1>6. TokenInv'
    <2>1. \A q \in Routers : rsp'[q] = rsp[q] \/ rsp'[q] = <<>>
      BY DEF LinkReset, TypeOK
    <2>2. \A q \in Routers, v \in Ids : Carries(q, v)' => Carries(q, v)
      BY <2>1, CarriesDropped DEF LinkReset
    <2> QED  BY <2>2, TokenFrame DEF LinkReset
  <1>7. UniqueVids'
    BY DEF LinkReset, UniqueVids, Joined, Held
  <1>8. JoinedVidsAssigned'
    BY DEF LinkReset, JoinedVidsAssigned, Joined, Held
  <1>9. TranslationsTrue'
    BY DEF LinkReset, TranslationsTrue
  <1> QED  BY <1>o, <1>4, <1>5, <1>6, <1>7, <1>8, <1>9

\* RouterConnect (vcm_conn succeeds) keeps the invariant.
LEMMA RouterConnectPreserves ==
    ASSUME IndInv, NEW r \in Routers, RouterConnect(r)
    PROVE  IndInv'
  <1> USE Constants DEF IndInv, OrderInv, Orderly, vcmThreadVars, vcmVars, linkVars,
                        routerVars, threadVars
  <1>1. TypeOK'
    BY DEF RouterConnect, TypeOK
  <1>2. LockInv'
    BY DEF RouterConnect, LockInv, Found
  <1>3. LinkInv'
    BY DEF RouterConnect, LinkInv, TypeOK
  <1>t. TableInv'
    BY DEF RouterConnect, TableInv
  <1> SUFFICES ASSUME ~vcm_raced'
               PROVE  OrderInv' /\ UniqueVids' /\ JoinedVidsAssigned' /\ TranslationsTrue'
    BY <1>1, <1>2, <1>3, <1>t DEF UniqueVids, JoinedVidsAssigned, TranslationsTrue
  <1> ~vcm_raced /\ OrderInv
    BY DEF RouterConnect
  <1>o. OwnInv'
    <2>1. /\ link[r] = "none" /\ vcm_pc[r] = "none"
          /\ \A q \in Routers : link'[q] = IF q = r THEN "up" ELSE link[q]
          /\ \A q \in Routers : vcm_pc'[q] = IF q = r THEN "pending" ELSE vcm_pc[q]
      BY DEF RouterConnect, LinkInv, TypeOK
    <2>2. UNCHANGED <<vcm_up, vcm_fds, vcm_client_sock, vcm_sock, vcm_file>>
      BY DEF RouterConnect
    <2> QED  BY <2>1, <2>2 DEF OwnInv, Peer
  <1>4. StageInv'
    BY DEF RouterConnect, Fd, Closed, StageInv, AtMostOne, Answering, LinkInv
  <1>5. DataInv'
    BY DEF RouterConnect, Fd, Closed, DataInv, AtMostOne, Answering, Answers, RequestMsg, LinkInv
  <1>6. TokenInv'
    <2>1. \A q \in Routers, v \in Ids : Carries(q, v)' => Carries(q, v)
      BY Queues, Messages DEF RouterConnect, Fd, Closed, Carries, Answering, LinkInv, TypeOK
    <2> QED  BY <2>1, TokenFrame DEF RouterConnect, Fd, Closed
  <1>7. UniqueVids'
    BY DEF RouterConnect, UniqueVids, Joined, Held
  <1>8. JoinedVidsAssigned'
    BY DEF RouterConnect, JoinedVidsAssigned, Joined, Held
  <1>9. TranslationsTrue'
    BY DEF RouterConnect, TranslationsTrue
  <1> QED  BY <1>o, <1>4, <1>5, <1>6, <1>7, <1>8, <1>9

\* RouterConnectFail (vcm_conn fails) keeps the invariant.
LEMMA RouterConnectFailPreserves ==
    ASSUME IndInv, NEW r \in Routers, RouterConnectFail(r)
    PROVE  IndInv'
  <1> USE Constants DEF IndInv, OrderInv, Orderly, vcmThreadVars, vcmVars, linkVars,
                        routerVars, threadVars
  <1>1. TypeOK'
    BY DEF RouterConnectFail, TypeOK
  <1>2. LockInv'
    BY DEF RouterConnectFail, LockInv, Found
  <1>3. LinkInv'
    BY DEF RouterConnectFail, LinkInv
  <1>t. TableInv'
    BY DEF RouterConnectFail, TableInv
  <1> SUFFICES ASSUME ~vcm_raced'
               PROVE  OrderInv' /\ UniqueVids' /\ JoinedVidsAssigned' /\ TranslationsTrue'
    BY <1>1, <1>2, <1>3, <1>t DEF UniqueVids, JoinedVidsAssigned, TranslationsTrue
  <1> ~vcm_raced /\ OrderInv
    BY DEF RouterConnectFail
  <1>o. OwnInv'
    BY DEF RouterConnectFail, OwnInv, Peer, TypeOK
  <1>4. StageInv'
    BY DEF RouterConnectFail, StageInv, AtMostOne, Answering
  <1>5. DataInv'
    BY DEF RouterConnectFail, DataInv, AtMostOne, Answering, Answers, RequestMsg
  <1>6. TokenInv'
    <2>1. \A q \in Routers, v \in Ids : Carries(q, v)' => Carries(q, v)
      BY CarriesFrame DEF RouterConnectFail
    <2> QED  BY <2>1, TokenFrame DEF RouterConnectFail
  <1>7. UniqueVids'
    BY DEF RouterConnectFail, UniqueVids, Joined, Held
  <1>8. JoinedVidsAssigned'
    BY DEF RouterConnectFail, JoinedVidsAssigned, Joined, Held
  <1>9. TranslationsTrue'
    BY DEF RouterConnectFail, TranslationsTrue
  <1> QED  BY <1>o, <1>4, <1>5, <1>6, <1>7, <1>8, <1>9

\* RouterJoin (the router has joined the LITE cluster) keeps the invariant.
LEMMA RouterJoinPreserves ==
    ASSUME IndInv, NEW r \in Routers, RouterJoin(r)
    PROVE  IndInv'
  <1> USE Constants DEF IndInv, OrderInv, Orderly, vcmThreadVars, vcmVars, linkVars,
                        routerVars, threadVars
  <1>1. TypeOK'
    BY DEF RouterJoin, TypeOK
  <1>2. LockInv'
    BY DEF RouterJoin, LockInv, Found
  <1>3. LinkInv'
    BY DEF RouterJoin, LinkInv
  <1>t. TableInv'
    BY DEF RouterJoin, TableInv
  <1> SUFFICES ASSUME ~vcm_raced'
               PROVE  OrderInv' /\ UniqueVids' /\ JoinedVidsAssigned' /\ TranslationsTrue'
    BY <1>1, <1>2, <1>3, <1>t DEF UniqueVids, JoinedVidsAssigned, TranslationsTrue
  <1> ~vcm_raced /\ OrderInv
    BY DEF RouterJoin
  <1>o. OwnInv'
    BY DEF RouterJoin, OwnInv, Peer, TypeOK
  <1>4. StageInv'
    BY DEF RouterJoin, StageInv, AtMostOne, Answering
  <1>5. DataInv'
    BY DEF RouterJoin, DataInv, AtMostOne, Answering, Answers, RequestMsg
  <1>6. TokenInv'
    <2>1. \A q \in Routers, v \in Ids : Carries(q, v)' => Carries(q, v)
      BY CarriesFrame DEF RouterJoin
    <2> QED  BY <2>1, TokenFrame DEF RouterJoin
  <1>7. UniqueVids'
    BY DEF RouterJoin, UniqueVids, Joined, Held
  <1>8. JoinedVidsAssigned'
    BY DEF RouterJoin, JoinedVidsAssigned, Joined, Held
  <1>9. TranslationsTrue'
    BY DEF RouterJoin, TranslationsTrue
  <1> QED  BY <1>o, <1>4, <1>5, <1>6, <1>7, <1>8, <1>9

\* ProcessEnds (a router's process ends) keeps the invariant.
LEMMA ProcessEndsPreserves ==
    ASSUME IndInv, NEW r \in Routers, ProcessEnds(r)
    PROVE  IndInv'
  <1> USE Constants DEF IndInv, OrderInv, Orderly, vcmThreadVars, vcmVars, linkVars,
                        routerVars, threadVars
  <1>1. TypeOK'
    BY CallFacts DEF ProcessEnds, TypeOK
  <1>2. LockInv'
    BY DEF ProcessEnds, LockInv, Found, TypeOK
  <1>3. LinkInv'
    BY DEF ProcessEnds, LinkInv, TypeOK
  <1>t. TableInv'
    BY DEF ProcessEnds, TableInv
  <1> SUFFICES ASSUME ~vcm_raced'
               PROVE  OrderInv' /\ UniqueVids' /\ JoinedVidsAssigned' /\ TranslationsTrue'
    BY <1>1, <1>2, <1>3, <1>t DEF UniqueVids, JoinedVidsAssigned, TranslationsTrue
  <1> ~vcm_raced /\ OrderInv
    BY DEF ProcessEnds
  <1>o. OwnInv'
    BY DEF ProcessEnds, OwnInv, Peer, TypeOK
  <1>4. StageInv'
    BY DEF ProcessEnds, StageInv, AtMostOne, Answering, TypeOK
  <1>5. DataInv'
    <2>1. \A u \in Threads : map_mutex'[RouterOf[u]] = u => RouterOf[u] # r
      BY DEF ProcessEnds, TypeOK
    <2> QED  BY <2>1, DataFrame DEF ProcessEnds, Answering, TypeOK
  <1>6. TokenInv'
    <2>1. \A q \in Routers : rsp'[q] = rsp[q] \/ rsp'[q] = <<>>
      BY DEF ProcessEnds, TypeOK
    <2>2. \A q \in Routers, v \in Ids : Carries(q, v)' => Carries(q, v)
      BY <2>1, CarriesDropped DEF ProcessEnds
    <2> QED  BY <2>2, TokenFrame DEF ProcessEnds
  <1>7. UniqueVids'
    BY DEF ProcessEnds, UniqueVids, Joined, Held
  <1>8. JoinedVidsAssigned'
    BY DEF ProcessEnds, JoinedVidsAssigned, Joined, Held
  <1>9. TranslationsTrue'
    BY DEF ProcessEnds, TranslationsTrue
  <1> QED  BY <1>o, <1>4, <1>5, <1>6, <1>7, <1>8, <1>9

\* RouterDisconn (the router's main calls vcm_disconn while its threads run)
\* keeps the invariant.
LEMMA RouterDisconnPreserves ==
    ASSUME IndInv, NEW r \in Routers, RouterDisconn(r)
    PROVE  IndInv'
  <1> USE Constants DEF IndInv, OrderInv, Orderly, vcmThreadVars, vcmVars, linkVars,
                        routerVars, threadVars
  <1>1. TypeOK'
    <2>1. link' \in [Routers -> {"none", "up", "eof", "dead", "reset", "closed"}]
      BY DEF RouterDisconn, TypeOK
    <2>2. rsp' \in [Routers -> Seq(Msgs)]
      <3>1. rsp' = rsp \/ rsp' = [rsp EXCEPT ![r] = <<>>]
        BY DEF RouterDisconn
      <3>2. rsp \in [Routers -> Seq(Msgs)]
        BY DEF TypeOK
      <3> QED  BY <3>1, <3>2, Queues
    <2>3. /\ main' \in [Routers -> {"off", "joining", "run", "leaving", "exit"}]
          /\ client_sock' \in [Routers -> {Closed, Fd}]
      BY DEF RouterDisconn, vcm_disconn, TypeOK
    <2>4. UNCHANGED <<vcmVars, req, map_mutex, cid_vid_map, vid_nid_map_cache, threadVars>>
      BY DEF RouterDisconn
    <2> QED  BY <2>1, <2>2, <2>3, <2>4 DEF TypeOK
  <1>2. LockInv'
    BY DEF RouterDisconn, LockInv, Found
  <1>3. LinkInv'
    BY DEF RouterDisconn, vcm_disconn, Closed, LinkInv, TypeOK
  <1>t. TableInv'
    BY DEF RouterDisconn, TableInv
  <1> SUFFICES ASSUME ~vcm_raced'
               PROVE  OrderInv' /\ UniqueVids' /\ JoinedVidsAssigned' /\ TranslationsTrue'
    BY <1>1, <1>2, <1>3, <1>t DEF UniqueVids, JoinedVidsAssigned, TranslationsTrue
  <1> ~vcm_raced /\ OrderInv
    BY DEF RouterDisconn
  <1>o. OwnInv'
    <2>1. \A q \in Routers : link'[q] = link[q] \/ (q = r /\ link'[q] = "closed")
      BY DEF RouterDisconn, TypeOK
    <2>2. UNCHANGED <<vcm_up, vcm_fds, vcm_client_sock, vcm_pc, vcm_sock, vcm_file>>
      BY DEF RouterDisconn
    <2> QED  BY <2>1, <2>2 DEF OwnInv, Peer
  <1>4. StageInv'
    BY DEF RouterDisconn, StageInv, AtMostOne, Answering, TypeOK
  <1>5. DataInv'
    <2>1. \A q \in Routers : /\ link'[q] = "up" => link[q] = "up"
                             /\ rsp'[q] = rsp[q] \/ rsp'[q] = <<>>
      BY DEF RouterDisconn, TypeOK
    <2>2. UNCHANGED <<vid, vid_nid_map, req, map_mutex, call, vcm_pc, vcm_msg>>
      BY DEF RouterDisconn
    <2>3. \A q \in Routers : Answering(q)' => Answering(q) /\ vcm_msg'[q] = vcm_msg[q]
      BY <2>2 DEF Answering
    <2> QED  BY <2>1, <2>2, <2>3, DataFrame
  <1>6. TokenInv'
    <2>1. \A q \in Routers : rsp'[q] = rsp[q] \/ rsp'[q] = <<>>
      BY DEF RouterDisconn, TypeOK
    <2>2. \A q \in Routers, v \in Ids : Carries(q, v)' => Carries(q, v)
      BY <2>1, CarriesDropped DEF RouterDisconn
    <2> QED  BY <2>2, TokenFrame DEF RouterDisconn
  <1>7. UniqueVids'
    BY DEF RouterDisconn, UniqueVids, Joined, Held
  <1>8. JoinedVidsAssigned'
    BY DEF RouterDisconn, JoinedVidsAssigned, Joined, Held
  <1>9. TranslationsTrue'
    BY DEF RouterDisconn, TranslationsTrue
  <1> QED  BY <1>o, <1>4, <1>5, <1>6, <1>7, <1>8, <1>9

\* Request (a client's request arrives) keeps the invariant.
LEMMA RequestPreserves ==
    ASSUME IndInv, NEW t \in Threads, Request(t)
    PROVE  IndInv'
  <1> USE Constants DEF IndInv, OrderInv, Orderly, vcmThreadVars, vcmVars, linkVars,
                        routerVars, threadVars
  <1>1. TypeOK'
    BY DEF Request, TypeOK
  <1>2. LockInv'
    BY DEF Request, LockInv, Found
  <1>3. LinkInv'
    BY DEF Request, LinkInv
  <1>t. TableInv'
    BY DEF Request, TableInv
  <1> SUFFICES ASSUME ~vcm_raced'
               PROVE  OrderInv' /\ UniqueVids' /\ JoinedVidsAssigned' /\ TranslationsTrue'
    BY <1>1, <1>2, <1>3, <1>t DEF UniqueVids, JoinedVidsAssigned, TranslationsTrue
  <1> ~vcm_raced /\ OrderInv
    BY DEF Request
  <1>o. OwnInv'
    BY DEF Request, OwnInv, Peer, TypeOK
  <1>4. StageInv'
    BY DEF Request, StageInv, AtMostOne, Answering
  <1>5. DataInv'
    <2>1. \A u \in Threads : map_mutex[RouterOf[u]] = u => u # t
      BY DEF Request, LockInv
    <2>2. \A u \in Threads : u # t => call'[u] = call[u]
      BY DEF Request, TypeOK
    <2> QED  BY <2>1, <2>2 DEF Request, DataInv, Answering, Answers, RequestMsg
  <1>6. TokenInv'
    <2>1. \A q \in Routers, v \in Ids : Carries(q, v)' => Carries(q, v)
      BY CarriesFrame DEF Request, Serving
    <2> QED  BY <2>1, TokenFrame DEF Request, Serving
  <1>7. UniqueVids'
    BY DEF Request, UniqueVids, Joined, Held
  <1>8. JoinedVidsAssigned'
    BY DEF Request, JoinedVidsAssigned, Joined, Held
  <1>9. TranslationsTrue'
    BY DEF Request, TranslationsTrue
  <1> QED  BY <1>o, <1>4, <1>5, <1>6, <1>7, <1>8, <1>9

\* SendResponse (the response goes back to the client) keeps the invariant.
LEMMA SendResponsePreserves ==
    ASSUME IndInv, NEW t \in Threads, SendResponse(t)
    PROVE  IndInv'
  <1> USE Constants DEF IndInv, OrderInv, Orderly, vcmThreadVars, vcmVars, linkVars,
                        routerVars, threadVars
  <1>1. TypeOK'
    BY CallFacts DEF SendResponse, TypeOK
  <1>2. LockInv'
    BY DEF SendResponse, LockInv, Found
  <1>3. LinkInv'
    BY DEF SendResponse, LinkInv
  <1>t. TableInv'
    BY DEF SendResponse, TableInv
  <1> SUFFICES ASSUME ~vcm_raced'
               PROVE  OrderInv' /\ UniqueVids' /\ JoinedVidsAssigned' /\ TranslationsTrue'
    BY <1>1, <1>2, <1>3, <1>t DEF UniqueVids, JoinedVidsAssigned, TranslationsTrue
  <1> ~vcm_raced /\ OrderInv
    BY DEF SendResponse
  <1>o. OwnInv'
    BY DEF SendResponse, OwnInv, Peer, TypeOK
  <1>4. StageInv'
    BY DEF SendResponse, StageInv, AtMostOne, Answering
  <1>5. DataInv'
    <2>1. \A u \in Threads : map_mutex[RouterOf[u]] = u => u # t
      BY DEF SendResponse, LockInv
    <2>2. \A u \in Threads : u # t => call'[u] = call[u]
      BY DEF SendResponse, TypeOK
    <2> QED  BY <2>1, <2>2 DEF SendResponse, DataInv, Answering, Answers, RequestMsg
  <1>6. TokenInv'
    <2>1. \A q \in Routers, v \in Ids : Carries(q, v)' => Carries(q, v)
      BY CarriesFrame DEF SendResponse
    <2> QED  BY <2>1, TokenFrame DEF SendResponse
  <1>7. UniqueVids'
    BY DEF SendResponse, UniqueVids, Joined, Held
  <1>8. JoinedVidsAssigned'
    BY DEF SendResponse, JoinedVidsAssigned, Joined, Held
  <1>9. TranslationsTrue'
    BY DEF SendResponse, TranslationsTrue, TypeOK
  <1> QED  BY <1>o, <1>4, <1>5, <1>6, <1>7, <1>8, <1>9

\* AnswerFromTable (a call is answered from the tables) keeps the invariant.
LEMMA AnswerFromTablePreserves ==
    ASSUME IndInv, NEW t \in Threads, AnswerFromTable(t)
    PROVE  IndInv'
  <1> USE Constants DEF IndInv, OrderInv, Orderly, vcmThreadVars, vcmVars, linkVars,
                        routerVars, threadVars
  <1>1. TypeOK'
    <2>1. ret' \in [Threads -> Keys]
      <3>1. Found(t) \in Keys \cup {Absent}
        BY FoundType
      <3>2. \E x \in Keys : ret' = [ret EXCEPT ![t] = x]
        BY <3>1 DEF AnswerFromTable, Return
      <3> QED  BY <3>2 DEF TypeOK
    <2>2. pc' \in [Threads -> {"idle", "call", "recv", "reply", "gone"}]
      BY DEF AnswerFromTable, Return, TypeOK
    <2>3. map_mutex' \in [Routers -> Threads \cup {None}]
      BY DEF AnswerFromTable, Return, TypeOK
    <2> QED  BY <2>1, <2>2, <2>3 DEF AnswerFromTable, Return, TypeOK
  <1>2. LockInv'
    <2>1. \A u \in Threads : pc'[u] = "recv" => pc[u] = "recv" /\ u # t
      BY DEF AnswerFromTable, Enter, Return, TypeOK
    <2>2. map_mutex' = map_mutex
      BY DEF AnswerFromTable, Enter, Return, TypeOK
    <2>3. \A u \in Threads : Found(u)' = Found(u)
      BY DEF AnswerFromTable, Return, Found
    <2>4. \A u \in Threads : pc[u] = "recv" => pc'[u] = "recv"
      BY DEF AnswerFromTable, Enter, Return, TypeOK
    <2> QED  BY <2>1, <2>2, <2>3, <2>4 DEF AnswerFromTable, Return, LockInv
  <1>3. LinkInv'
    BY DEF AnswerFromTable, Enter, Found, Return, LinkInv, TypeOK
  <1>t. TableInv'
    BY DEF AnswerFromTable, TableInv
  <1> SUFFICES ASSUME ~vcm_raced'
               PROVE  OrderInv' /\ UniqueVids' /\ JoinedVidsAssigned' /\ TranslationsTrue'
    BY <1>1, <1>2, <1>3, <1>t DEF UniqueVids, JoinedVidsAssigned, TranslationsTrue
  <1> ~vcm_raced /\ OrderInv
    BY DEF AnswerFromTable
  <1>o. OwnInv'
    BY DEF AnswerFromTable, OwnInv, Peer, TypeOK
  <1>4. StageInv'
    BY DEF AnswerFromTable, Enter, Found, Return, StageInv, AtMostOne, Answering, TypeOK
  <1>5. DataInv'
    <2>1. \A u \in Threads : map_mutex'[RouterOf[u]] = u => map_mutex[RouterOf[u]] = u
      BY DEF AnswerFromTable, Return, TypeOK
    <2> QED  BY <2>1, DataFrame DEF AnswerFromTable, Return, Answering
  <1>6. TokenInv'
    <2>1. \A q \in Routers, v \in Ids : Carries(q, v)' => Carries(q, v)
      BY CarriesFrame DEF AnswerFromTable, Enter, Found, Return
    <2> QED  BY <2>1, TokenFrame DEF AnswerFromTable, Enter, Found, Return
  <1>7. UniqueVids'
    BY DEF AnswerFromTable, UniqueVids, Joined, Held
  <1>8. JoinedVidsAssigned'
    BY DEF AnswerFromTable, JoinedVidsAssigned, Joined, Held
  <1>9. TranslationsTrue'
    <2>1. ASSUME NEW u \in Threads, pc'[u] = "reply", call[u].op = "vid_nid", vcm_up
          PROVE  ret'[u] \in {Error, vid_nid_map[call[u].vid]}
      <3>1. CASE u = t
        <4>1. ret'[t] = Found(t) /\ Found(t) # Absent
          BY <2>1, <3>1 DEF AnswerFromTable, Return, TypeOK
        <4>2. call[t].vid \in Ids /\ RouterOf[t] \in Routers
          BY <2>1, <3>1, CallFacts DEF TypeOK
        <4> QED  BY <2>1, <3>1, <4>1, <4>2 DEF Found, TranslationsTrue
      <3>2. CASE u # t
        BY <2>1, <3>2 DEF AnswerFromTable, Return, TypeOK, TranslationsTrue
      <3> QED  BY <3>1, <3>2
    <2> QED  BY <2>1 DEF AnswerFromTable, Return, TranslationsTrue
  <1> QED  BY <1>o, <1>4, <1>5, <1>6, <1>7, <1>8, <1>9

\* HandlerNotConnected (vcm_handler finds no connection) keeps the invariant.
LEMMA HandlerNotConnectedPreserves ==
    ASSUME IndInv, NEW t \in Threads, HandlerNotConnected(t)
    PROVE  IndInv'
  <1> USE Constants DEF IndInv, OrderInv, Orderly, vcmThreadVars, vcmVars, linkVars,
                        routerVars, threadVars
  <1>1. TypeOK'
    BY DEF HandlerNotConnected, NotConnected, AsksManager, Enter, Found, Return, TypeOK
  <1>2. LockInv'
    BY DEF HandlerNotConnected, NotConnected, AsksManager, Enter, Found, Return, LockInv
  <1>3. LinkInv'
    BY DEF HandlerNotConnected, NotConnected, AsksManager, Enter, Found, Return, LinkInv
  <1>t. TableInv'
    BY DEF HandlerNotConnected, TableInv
  <1> SUFFICES ASSUME ~vcm_raced'
               PROVE  OrderInv' /\ UniqueVids' /\ JoinedVidsAssigned' /\ TranslationsTrue'
    BY <1>1, <1>2, <1>3, <1>t DEF UniqueVids, JoinedVidsAssigned, TranslationsTrue
  <1> ~vcm_raced /\ OrderInv
    BY DEF HandlerNotConnected
  <1>o. OwnInv'
    BY DEF HandlerNotConnected, OwnInv, Peer, TypeOK
  <1>4. StageInv'
    BY DEF HandlerNotConnected, NotConnected, AsksManager, Enter, Found, Return,
        StageInv, AtMostOne, Answering
  <1>5. DataInv'
    BY DEF HandlerNotConnected, NotConnected, AsksManager, Enter, Found, Return,
        DataInv, AtMostOne, Answering, Answers, RequestMsg
  <1>6. TokenInv'
    <2>1. \A q \in Routers, v \in Ids : Carries(q, v)' => Carries(q, v)
      BY CarriesFrame DEF HandlerNotConnected, NotConnected, AsksManager, Enter, Found, Return
    <2> QED  BY <2>1, TokenFrame DEF HandlerNotConnected, NotConnected, AsksManager,
        Enter, Found, Return
  <1>7. UniqueVids'
    BY DEF HandlerNotConnected, UniqueVids, Joined, Held
  <1>8. JoinedVidsAssigned'
    BY DEF HandlerNotConnected, JoinedVidsAssigned, Joined, Held
  <1>9. TranslationsTrue'
    BY DEF HandlerNotConnected, NotConnected, AsksManager, Enter, Found, Return,
        TranslationsTrue, TypeOK
  <1> QED  BY <1>o, <1>4, <1>5, <1>6, <1>7, <1>8, <1>9

\* HandlerSend (vcm_handler sends its request) keeps the invariant.
LEMMA HandlerSendPreserves ==
    ASSUME IndInv, NEW t \in Threads, HandlerSend(t)
    PROVE  IndInv'
  <1> USE Constants DEF IndInv, OrderInv, Orderly, vcmThreadVars, vcmVars, linkVars,
                        routerVars, threadVars
  <1>1. TypeOK'
    <2>1. RequestMsg(t) \in Msgs
      BY RequestMsgFacts DEF HandlerSend, AsksManager
    <2>2. req' = req \/ req' = [req EXCEPT ![RouterOf[t]] = Append(@, RequestMsg(t))]
      BY DEF HandlerSend
    <2>3. req' \in [Routers -> Seq(Msgs)]
      <3>1. req[RouterOf[t]] \in Seq(Msgs)
        BY DEF TypeOK
      <3>2. Append(req[RouterOf[t]], RequestMsg(t)) \in Seq(Msgs)
        BY <3>1, <2>1, QueueTypes
      <3> QED  BY <3>2, <2>2 DEF TypeOK
    <2>4. link' = link \/ link' = [link EXCEPT ![RouterOf[t]] = "dead"]
      BY DEF HandlerSend
    <2>5. link' \in [Routers -> {"none", "up", "eof", "dead", "reset", "closed"}]
      BY <2>4 DEF TypeOK
    <2> QED  BY <2>3, <2>5 DEF HandlerSend, TypeOK
  <1>2. LockInv'
    <2>1. call[t].op # "get_node_id" /\ Found(t) = Absent /\ map_mutex[RouterOf[t]] = None
      BY DEF HandlerSend, AsksManager, Enter
    <2>2. \A u \in Threads : Found(u)' = Found(u)
      BY DEF HandlerSend, Found
    <2>3. /\ pc' = [pc EXCEPT ![t] = "recv"]
          /\ map_mutex' = [map_mutex EXCEPT ![RouterOf[t]] = t]
          /\ call' = call
      BY DEF HandlerSend
    <2> QED  BY <2>1, <2>2, <2>3 DEF LockInv, TypeOK
  <1>3. LinkInv'
    <2>1. PICK r \in Routers : r = RouterOf[t] /\ client_sock[r] = Fd
      BY DEF HandlerSend
    <2>2. link[r] # "none"
      BY <2>1 DEF LinkInv, Fd, Closed
    <2>3. link'[r] # "none"
      BY <2>1, <2>2 DEF HandlerSend, TypeOK
    <2>4. \A q \in Routers : q # r =>
             /\ link'[q] = link[q] /\ req'[q] = req[q] /\ map_mutex'[q] = map_mutex[q]
      BY <2>1 DEF HandlerSend, TypeOK
    <2>5. UNCHANGED <<vcmVars, rsp, main, client_sock>>
      BY DEF HandlerSend
    <2> QED  BY <2>2, <2>3, <2>4, <2>5 DEF LinkInv
  <1>t. TableInv'
    <2>1. \/ req' = req
          \/ req' = [req EXCEPT ![RouterOf[t]] = Append(@, RequestMsg(t))]
      BY DEF HandlerSend
    <2>2. RequestMsg(t) \in HonestMsgs(RouterOf[t])
      <3>1. call[t].op # "get_node_id" /\ call[t].op \in {"get_node_id", "join", "vid_nid"}
        BY CallFacts DEF HandlerSend, AsksManager, TypeOK
      <3>2. RequestMsg(t) \in Msgs
        BY <3>1, RequestMsgFacts
      <3>3. RequestMsg(t).func_code = "NID_VID" => RequestMsg(t).id = RouterNid[RouterOf[t]]
        BY DEF RequestMsg, Msg
      <3> QED  BY <3>2, <3>3 DEF HonestMsgs
    <2>3. PICK r \in Routers : r = RouterOf[t]
      OBVIOUS
    <2>4. req[r] \in Seq(HonestMsgs(r)) /\ RequestMsg(t) \in HonestMsgs(r)
      BY <2>2, <2>3 DEF TableInv
    <2>5. Append(req[r], RequestMsg(t)) \in Seq(HonestMsgs(r))
      BY <2>4
    <2>6. \A q \in Routers : req'[q] = req[q] \/ (q = r /\ req'[q] = Append(req[r], RequestMsg(t)))
      BY <2>1, <2>3 DEF TypeOK
    <2>7. UNCHANGED <<vid, vid_nid_map>>
      BY DEF HandlerSend
    <2> QED  BY <2>5, <2>6, <2>7 DEF TableInv
  <1> SUFFICES ASSUME ~vcm_raced'
               PROVE  OrderInv' /\ UniqueVids' /\ JoinedVidsAssigned' /\ TranslationsTrue'
    BY <1>1, <1>2, <1>3, <1>t DEF UniqueVids, JoinedVidsAssigned, TranslationsTrue
  <1> ~vcm_raced /\ OrderInv
    BY DEF HandlerSend
  <1>o. OwnInv'
    <2>1. \A q \in Routers : \/ link'[q] = link[q]
                             \/ link[q] \in {"eof", "dead"} /\ link'[q] = "dead"
      BY DEF HandlerSend, TypeOK
    <2>2. UNCHANGED <<vcm_up, vcm_fds, vcm_client_sock, vcm_pc, vcm_sock, vcm_file>>
      BY DEF HandlerSend
    <2> QED  BY <2>1, <2>2 DEF OwnInv, Peer
  <1>4. StageInv'
    <2> DEFINE r == RouterOf[t]
    <2>1. r \in Routers /\ map_mutex[r] = None /\ call[t].op # "get_node_id"
      BY DEF HandlerSend, AsksManager, Enter
    <2>2. RequestMsg(t) \in Msgs
      BY <2>1, RequestMsgFacts
    <2>3. \/ /\ link[r] = "up" /\ req' = [req EXCEPT ![r] = Append(@, RequestMsg(t))]
             /\ UNCHANGED link
          \/ UNCHANGED req /\ link' = [link EXCEPT ![r] = "dead"]
      BY DEF HandlerSend
    <2>4. link[r] = "up" => req[r] = <<>> /\ ~Answering(r)
      BY <2>1 DEF StageInv
    <2>5. /\ map_mutex' = [map_mutex EXCEPT ![r] = t]
          /\ rsp' = rsp /\ rsp[r] = <<>>
          /\ \A q \in Routers : Answering(q)' <=> Answering(q)
      BY <2>1 DEF HandlerSend, StageInv, Answering
    <2>6. /\ req'[r] = req[r] \/ (link[r] = "up" /\ req'[r] = <<RequestMsg(t)>>)
          /\ \A q \in Routers : q # r => req'[q] = req[q] /\ link'[q] = link[q]
      BY <2>1, <2>2, <2>3, <2>4, Queues DEF TypeOK
    <2>7. map_mutex'[r] # None /\ \A q \in Routers : q # r => map_mutex'[q] = map_mutex[q]
      BY <2>1, <2>5 DEF TypeOK
    <2> HIDE DEF r
    <2>8. ASSUME NEW q \in Routers
          PROVE  /\ AtMostOne(req'[q])
                 /\ req'[q] # <<>> => rsp[q] = <<>>
                 /\ req'[q] # <<>> \/ rsp[q] # <<>> => ~Answering(q)
      BY <2>2, <2>4, <2>5, <2>6 DEF StageInv, AtMostOne
    <2> QED  BY <2>5, <2>6, <2>7, <2>8 DEF StageInv
  <1>5. DataInv'
    <2>1. map_mutex[RouterOf[t]] = None /\ call[t].op # "get_node_id"
      BY DEF HandlerSend, AsksManager, Enter
    <2>2. \A u \in Threads : map_mutex'[RouterOf[u]] = u => u = t \/ map_mutex[RouterOf[u]] = u
      BY DEF HandlerSend, TypeOK
    <2>3. \A u \in Threads : map_mutex[RouterOf[u]] = u => RouterOf[u] # RouterOf[t]
      BY <2>1
    <2>4. RequestMsg(t) \in Msgs
      BY <2>1, RequestMsgFacts
    <2>5. rsp[RouterOf[t]] = <<>>
      BY <2>1 DEF StageInv
    <2>6. \A q \in Routers : q # RouterOf[t] => req'[q] = req[q] /\ link'[q] = link[q]
      BY DEF HandlerSend, TypeOK
    <2>7. \/ link[RouterOf[t]] = "up" /\ req'[RouterOf[t]] = <<RequestMsg(t)>>
          \/ link'[RouterOf[t]] = "dead" /\ req'[RouterOf[t]] = req[RouterOf[t]]
      <3>1. \/ /\ link[RouterOf[t]] = "up"
               /\ req' = [req EXCEPT ![RouterOf[t]] = Append(@, RequestMsg(t))]
            \/ link' = [link EXCEPT ![RouterOf[t]] = "dead"] /\ req' = req
        BY DEF HandlerSend
      <3>2. CASE link[RouterOf[t]] = "up" /\ req' = [req EXCEPT ![RouterOf[t]] =
          Append(@, RequestMsg(t))]
        <4>1. req[RouterOf[t]] = <<>>
          BY <2>1, <3>2 DEF StageInv
        <4>2. req'[RouterOf[t]] = Append(<<>>, RequestMsg(t))
          BY <3>2, <4>1 DEF TypeOK
        <4> QED  BY <3>2, <4>2, <2>4, Queues
      <3>3. CASE link' = [link EXCEPT ![RouterOf[t]] = "dead"] /\ req' = req
        BY <3>3 DEF TypeOK
      <3> QED  BY <3>1, <3>2, <3>3
    <2>8. link[RouterOf[t]] = "up" => ~Answering(RouterOf[t])
      BY <2>1 DEF StageInv
    <2>9. UNCHANGED <<vcm_pc, vcm_msg, vid, vid_nid_map, call, rsp>>
      BY DEF HandlerSend
    <2>10. \A u \in Threads : RequestMsg(u)' = RequestMsg(u)
      BY <2>9 DEF RequestMsg
    <2>11. ASSUME NEW u \in Threads, map_mutex'[RouterOf[u]] = u
           PROVE  /\ link'[RouterOf[u]] = "up" /\ req'[RouterOf[u]] # <<>> => Head(req'[RouterOf[u]]) = RequestMsg(u)
                  /\ link'[RouterOf[u]] = "up" /\ Answering(RouterOf[u])' => Answers(u, vcm_msg[RouterOf[u]])
                  /\ rsp[RouterOf[u]] # <<>> => Answers(u, Head(rsp[RouterOf[u]]))
      <3>1. CASE u = t
        BY <3>1, <2>4, <2>5, <2>7, <2>8, <2>9, Queues DEF Answering
      <3>2. CASE u # t
        BY <3>2, <2>11, <2>2, <2>3, <2>6, <2>9 DEF DataInv, Answering
      <3> QED  BY <3>1, <3>2
    <2> QED  BY <2>9, <2>10, <2>11 DEF DataInv, Answers, Answering
  <1>6. TokenInv'
    <2>1. \A q \in Routers, v \in Ids : Carries(q, v)' => Carries(q, v)
      BY CarriesFrame DEF HandlerSend, AsksManager, Enter, Found, Fd, Closed
    <2> QED  BY <2>1, TokenFrame DEF HandlerSend, AsksManager, Enter, Found, Fd, Closed
  <1>7. UniqueVids'
    BY DEF HandlerSend, UniqueVids, Joined, Held
  <1>8. JoinedVidsAssigned'
    BY DEF HandlerSend, JoinedVidsAssigned, Joined, Held
  <1>9. TranslationsTrue'
    BY DEF HandlerSend, TranslationsTrue
  <1> QED  BY <1>o, <1>4, <1>5, <1>6, <1>7, <1>8, <1>9

\* HandlerSendError (vcm_handler's send fails) keeps the invariant.
LEMMA HandlerSendErrorPreserves ==
    ASSUME IndInv, NEW t \in Threads, HandlerSendError(t)
    PROVE  IndInv'
  <1> USE Constants DEF IndInv, OrderInv, Orderly, vcmThreadVars, vcmVars, linkVars,
                        routerVars, threadVars
  <1>1. TypeOK'
    BY DEF HandlerSendError, AsksManager, Enter, Found, Return, vcm_disconn, Closed, Fd, TypeOK
  <1>2. LockInv'
    BY DEF HandlerSendError, AsksManager, Enter, Found, Return, vcm_disconn, Closed, Fd, LockInv
  <1>3. LinkInv'
    BY DEF HandlerSendError, AsksManager, Enter, Found, Return, vcm_disconn, Closed, Fd, LinkInv
  <1>t. TableInv'
    BY DEF HandlerSendError, TableInv
  <1> SUFFICES ASSUME ~vcm_raced'
               PROVE  OrderInv' /\ UniqueVids' /\ JoinedVidsAssigned' /\ TranslationsTrue'
    BY <1>1, <1>2, <1>3, <1>t DEF UniqueVids, JoinedVidsAssigned, TranslationsTrue
  <1> ~vcm_raced /\ OrderInv
    BY DEF HandlerSendError
  <1>o. OwnInv'
    BY DEF HandlerSendError, OwnInv, Peer, TypeOK
  <1>4. StageInv'
    BY DEF HandlerSendError, AsksManager, Enter, Found, Return, vcm_disconn, Closed, Fd,
        StageInv, AtMostOne, Answering
  <1>5. DataInv'
    BY DEF HandlerSendError, AsksManager, Enter, Found, Return, vcm_disconn, Closed, Fd,
        DataInv, AtMostOne, Answering, Answers, RequestMsg
  <1>6. TokenInv'
    <2>1. \A q \in Routers, v \in Ids : Carries(q, v)' => Carries(q, v)
      BY CarriesFrame DEF HandlerSendError, AsksManager, Enter, Found, Return,
          vcm_disconn, Closed, Fd
    <2> QED  BY <2>1, TokenFrame DEF HandlerSendError, AsksManager, Enter, Found,
        Return, vcm_disconn, Closed, Fd
  <1>7. UniqueVids'
    BY DEF HandlerSendError, UniqueVids, Joined, Held
  <1>8. JoinedVidsAssigned'
    BY DEF HandlerSendError, JoinedVidsAssigned, Joined, Held
  <1>9. TranslationsTrue'
    BY DEF HandlerSendError, AsksManager, Enter, Found, Return, vcm_disconn, Closed, Fd,
        TranslationsTrue, TypeOK
  <1> QED  BY <1>o, <1>4, <1>5, <1>6, <1>7, <1>8, <1>9

\* HandlerRecvError (vcm_handler's recv fails) keeps the invariant.
LEMMA HandlerRecvErrorPreserves ==
    ASSUME IndInv, NEW t \in Threads, HandlerRecvError(t)
    PROVE  IndInv'
  <1> USE Constants DEF IndInv, OrderInv, Orderly, vcmThreadVars, vcmVars, linkVars,
                        routerVars, threadVars
  <1>1. TypeOK'
    BY DEF HandlerRecvError, Return, vcm_disconn, Closed, TypeOK
  <1>2. LockInv'
    BY DEF HandlerRecvError, Return, vcm_disconn, Closed, LockInv, Found, TypeOK
  <1>3. LinkInv'
    BY DEF HandlerRecvError, Return, vcm_disconn, Closed, LinkInv
  <1>t. TableInv'
    BY DEF HandlerRecvError, TableInv
  <1> SUFFICES ASSUME ~vcm_raced'
               PROVE  OrderInv' /\ UniqueVids' /\ JoinedVidsAssigned' /\ TranslationsTrue'
    BY <1>1, <1>2, <1>3, <1>t DEF UniqueVids, JoinedVidsAssigned, TranslationsTrue
  <1> ~vcm_raced /\ OrderInv
    BY DEF HandlerRecvError
  <1>o. OwnInv'
    BY DEF HandlerRecvError, OwnInv, Peer, TypeOK
  <1>4. StageInv'
    BY DEF HandlerRecvError, Return, vcm_disconn, Closed, StageInv, AtMostOne, Answering
  <1>5. DataInv'
    BY DEF HandlerRecvError, Return, vcm_disconn, Closed, DataInv, AtMostOne, Answering,
        Answers, RequestMsg
  <1>6. TokenInv'
    <2>1. \A q \in Routers, v \in Ids : Carries(q, v)' => Carries(q, v)
      BY CarriesFrame DEF HandlerRecvError, Return, vcm_disconn, Closed
    <2> QED  BY <2>1, TokenFrame DEF HandlerRecvError, Return, vcm_disconn, Closed
  <1>7. UniqueVids'
    BY DEF HandlerRecvError, UniqueVids, Joined, Held
  <1>8. JoinedVidsAssigned'
    BY DEF HandlerRecvError, JoinedVidsAssigned, Joined, Held
  <1>9. TranslationsTrue'
    BY DEF HandlerRecvError, Return, vcm_disconn, Closed, TranslationsTrue, TypeOK
  <1> QED  BY <1>o, <1>4, <1>5, <1>6, <1>7, <1>8, <1>9

\* HandlerRecv (vcm_handler receives an answer) keeps the invariant.
LEMMA HandlerRecvPreserves ==
    ASSUME IndInv, NEW t \in Threads, HandlerRecv(t)
    PROVE  IndInv'
  <1> USE Constants DEF IndInv, OrderInv, Orderly, vcmThreadVars, vcmVars, linkVars,
                        routerVars, threadVars
  <1> DEFINE r == RouterOf[t]
  <1>a. pc[t] = "recv" /\ map_mutex[r] = t /\ call[t].op # "get_node_id" /\ call[t] \in Calls
    BY DEF HandlerRecv, LockInv, TypeOK
  <1> DEFINE m == Head(rsp[r])
             i == m.id
  <1>d. m \in Msgs /\ i \in Keys
    <2>1. m \in Msgs
      BY QueueTypes DEF HandlerRecv, TypeOK
    <2> QED  BY <2>1, Messages
  <1>e. rsp' = [rsp EXCEPT ![r] = Tail(@)] /\ Conclude(t, i)
    BY DEF HandlerRecv
  <1> HIDE DEF m, i
  <1>g. /\ pc' = [pc EXCEPT ![t] = "reply"]
        /\ map_mutex' = [map_mutex EXCEPT ![RouterOf[t]] = None]
        /\ ret' = [ret EXCEPT ![t] = i]
        /\ UNCHANGED <<vcmVars, link, req, main, client_sock, call>>
    BY <1>a, <1>d, <1>e, ConcludeFacts
  <1>k. /\ cid_vid_map' \in [Routers -> [Cids -> Keys \cup {Absent}]]
        /\ vid_nid_map_cache' \in [Routers -> [Keys -> Keys \cup {Absent}]]
    BY <1>a, <1>d, <1>e, ConcludeFacts
  <1>l. \A q \in Routers, d \in Cids :
           cid_vid_map'[q][d] = IF call[t].op = "join" /\ q = RouterOf[t] /\ d = CidOf[t] THEN i ELSE cid_vid_map[q][d]
    BY <1>a, <1>d, <1>e, ConcludeFacts
  <1>m. \A q \in Routers, v \in Keys :
           \/ vid_nid_map_cache'[q][v] = vid_nid_map_cache[q][v]
           \/ /\ q = RouterOf[t]
              /\ \/ call[t].op = "join" /\ v = i /\ vid_nid_map_cache'[q][v] = RouterNid[q]
                 \/ call[t].op = "vid_nid" /\ v = call[t].vid /\ vid_nid_map_cache'[q][v] = i
    BY <1>a, <1>d, <1>e, ConcludeFacts
  <1>1. TypeOK'
    <2>1. rsp' \in [Routers -> Seq(Msgs)]
      <3>1. rsp \in [Routers -> Seq(Msgs)] /\ rsp[r] # <<>>
        BY DEF HandlerRecv, TypeOK
      <3>2. Tail(rsp[r]) \in Seq(Msgs)
        BY <3>1, QueueTypes
      <3> QED  BY <1>e, <3>1, <3>2
    <2> QED  BY <2>1, <1>d, <1>g, <1>k DEF TypeOK
  <1>2. LockInv'
    <2>1. \A u \in Threads : u # t /\ pc[u] = "recv" => RouterOf[u] # r
      BY <1>a DEF LockInv
    <2>2. \A u \in Threads : u # t /\ pc[u] = "recv" => Found(u)' = Found(u)
      <3> SUFFICES ASSUME NEW u \in Threads, u # t, pc[u] = "recv"  PROVE Found(u)' = Found(u)
        OBVIOUS
      <3>1. RouterOf[u] # r /\ RouterOf[u] \in Routers /\ CidOf[u] \in Cids
        BY <2>1
      <3>2. call[u].op = "vid_nid" => call[u].vid \in Ids
        BY CallFacts DEF TypeOK
      <3>3. CASE call[u].op = "vid_nid"
        <4>1. vid_nid_map_cache'[RouterOf[u]][call[u].vid] = vid_nid_map_cache[RouterOf[u]][call[u].vid]
          BY <3>1, <3>2, <3>3, <1>m
        <4> QED  BY <3>3, <4>1, <1>g DEF Found
      <3>4. CASE call[u].op # "vid_nid"
        <4>1. cid_vid_map'[RouterOf[u]][CidOf[u]] = cid_vid_map[RouterOf[u]][CidOf[u]]
          BY <3>1, <1>l
        <4> QED  BY <3>4, <4>1, <1>g DEF Found
      <3> QED  BY <3>3, <3>4
    <2>3. \A u \in Threads : pc'[u] = "recv" <=> pc[u] = "recv" /\ u # t
      BY <1>g DEF TypeOK
    <2>4. \A q \in Routers : map_mutex'[q] = IF q = r THEN None ELSE map_mutex[q]
      BY <1>g DEF TypeOK
    <2> HIDE DEF r
    <2> QED  BY <2>1, <2>2, <2>3, <2>4, <1>a, <1>g DEF LockInv, r
  <1>3. LinkInv'
    <2>1. \A q \in Routers : /\ q # r => rsp'[q] = rsp[q]
                             /\ map_mutex'[q] = None \/ map_mutex'[q] = map_mutex[q]
      BY <1>e, <1>g DEF TypeOK
    <2>2. link[r] # "none"
      BY <1>a DEF LinkInv
    <2> HIDE DEF r
    <2> QED  BY <1>g, <2>1, <2>2 DEF LinkInv
  <1>t. TableInv'
    BY <1>g DEF TableInv
  <1> SUFFICES ASSUME ~vcm_raced'
               PROVE  OrderInv' /\ UniqueVids' /\ JoinedVidsAssigned' /\ TranslationsTrue'
    BY <1>1, <1>2, <1>3, <1>t DEF UniqueVids, JoinedVidsAssigned, TranslationsTrue
  <1> ~vcm_raced /\ OrderInv
    BY <1>g
  <1>b. rsp[r] = <<m>> /\ req[r] = <<>> /\ ~Answering(r)
    BY <1>d, Queues DEF HandlerRecv, StageInv, AtMostOne, m
  <1>c. Answers(t, m)
    BY <1>a DEF HandlerRecv, DataInv, m
  <1>f. rsp'[r] = <<>> /\ \A q \in Routers : q # r => rsp'[q] = rsp[q]
    BY <1>b, <1>d, <1>e, Queues DEF TypeOK
  <1>o. OwnInv'
    BY <1>g DEF OwnInv, Peer
  <1>4. StageInv'
    BY <1>b, <1>f, <1>g DEF StageInv, AtMostOne, Answering, TypeOK
  <1>5. DataInv'
    <2>1. ASSUME NEW u \in Threads, map_mutex'[RouterOf[u]] = u
          PROVE  RouterOf[u] # r /\ map_mutex[RouterOf[u]] = u /\ rsp'[RouterOf[u]] = rsp[RouterOf[u]]
      BY <2>1, <1>f, <1>g DEF TypeOK
    <2> HIDE DEF r
    <2> QED  BY <2>1, <1>g DEF DataInv, Answering, Answers, RequestMsg
  <1>6. TokenInv'
    <2>1. ASSUME NEW q \in Routers, NEW v \in Ids, Carries(q, v)'
          PROVE  Carries(q, v) /\ q # r
      <3>1. <<Msg("NID_VID", v)>> # <<>>
        BY Queues, Messages
      <3> QED  BY <2>1, <3>1, <1>b, <1>f, <1>g DEF Carries, Answering
    <2>2. call[t].op = "join" => Carries(r, i)
      <3>1. call[t].op = "join" => m = Msg("NID_VID", i)
        BY <1>c, <1>d, Messages DEF Answers, i
      <3> QED  BY <3>1, <1>b DEF Carries
    <2>3. ASSUME NEW q \in Routers, NEW v \in Ids, Carries(q, v), q # r, vcm_up,
                 NEW p \in Routers, NEW d \in Cids
          PROVE  cid_vid_map'[p][d] # v
      <3>1. cid_vid_map[p][d] # v
        BY <2>3 DEF TokenInv, Held
      <3>2. call[t].op = "join" => i # v
        BY <2>2, <2>3, <1>d DEF TokenInv
      <3> QED  BY <3>1, <3>2, <1>l
    <2> QED  BY <2>1, <2>3, <1>g DEF TokenInv, Held
  <1>7. UniqueVids'
    <2> SUFFICES ASSUME vcm_up, NEW p \in Routers, NEW q \in Routers, NEW c \in Cids,
        NEW d \in Cids,
                        Joined(p, c)', Held(p, c)' = Held(q, d)'
                 PROVE  p = q /\ c = d
      BY <1>g DEF UniqueVids
    <2>1. call[t].op = "join" => \A s \in Routers, x \in Cids : Held(s, x) # i
      <3>1. call[t].op = "join" => m = Msg("NID_VID", i)
        BY <1>c, <1>d, Messages DEF Answers, i
      <3>2. call[t].op = "join" => Carries(r, i)
        BY <3>1, <1>b DEF Carries
      <3>3. call[t].op = "join" => i \in Ids
        BY <1>c DEF Answers, i
      <3> QED  BY <3>2, <3>3 DEF TokenInv
    <2> QED  BY <2>1, <1>l DEF UniqueVids, Joined, Held
  <1>8. JoinedVidsAssigned'
    <2>1. call[t].op = "join" => i \in Ids /\ vid_nid_map[i] = RouterNid[r]
      BY <1>c DEF Answers, i
    <2> QED  BY <2>1, <1>g, <1>l DEF JoinedVidsAssigned, Joined, Held
  <1>9. TranslationsTrue'
    <2>1. call[t].op = "join" => i \in Ids /\ vid_nid_map[i] = RouterNid[r]
      BY <1>c DEF Answers, i
    <2>2. call[t].op = "vid_nid" => i \in {Error, vid_nid_map[call[t].vid]}
      BY <1>c DEF Answers, i
    <2>3. ASSUME vcm_up, NEW q \in Routers, NEW v \in Ids
          PROVE  vid_nid_map_cache'[q][v] \in {Absent, Error, vid_nid_map[v]}
      BY <2>1, <2>2, <2>3, <1>m DEF TranslationsTrue
    <2>4. ASSUME vcm_up, NEW u \in Threads, pc'[u] = "reply", call[u].op = "vid_nid"
          PROVE  ret'[u] \in {Error, vid_nid_map[call[u].vid]}
      BY <2>2, <2>4, <1>g DEF TranslationsTrue, TypeOK
    <2> QED  BY <2>3, <2>4, <1>g DEF TranslationsTrue
  <1> QED  BY <1>o, <1>4, <1>5, <1>6, <1>7, <1>8, <1>9

\* HandlerRecvEof (vcm_handler takes end of file for an answer) keeps the
\* invariant.
LEMMA HandlerRecvEofPreserves ==
    ASSUME IndInv, NEW t \in Threads, HandlerRecvEof(t)
    PROVE  IndInv'
  <1> USE Constants DEF IndInv, OrderInv, Orderly, vcmThreadVars, vcmVars, linkVars,
                        routerVars, threadVars
  <1> DEFINE r == RouterOf[t]
  <1>a. pc[t] = "recv" /\ map_mutex[r] = t /\ call[t].op # "get_node_id" /\ call[t] \in Calls
    BY DEF HandlerRecvEof, LockInv, TypeOK
  <1> DEFINE i == RequestMsg(t).id
  <1>b. rsp' = rsp /\ Conclude(t, i) /\ link[r] \in {"eof", "dead"}
    BY DEF HandlerRecvEof
  <1>d. i \in Keys
    BY <1>a, RequestMsgFacts
  <1> HIDE DEF i
  <1>g. /\ pc' = [pc EXCEPT ![t] = "reply"]
        /\ map_mutex' = [map_mutex EXCEPT ![RouterOf[t]] = None]
        /\ ret' = [ret EXCEPT ![t] = i]
        /\ UNCHANGED <<vcmVars, link, req, main, client_sock, call>>
    BY <1>a, <1>b, <1>d, ConcludeFacts
  <1>k. /\ cid_vid_map' \in [Routers -> [Cids -> Keys \cup {Absent}]]
        /\ vid_nid_map_cache' \in [Routers -> [Keys -> Keys \cup {Absent}]]
    BY <1>a, <1>b, <1>d, ConcludeFacts
  <1>l. \A q \in Routers, d \in Cids :
           cid_vid_map'[q][d] = IF call[t].op = "join" /\ q = RouterOf[t] /\ d = CidOf[t] THEN i ELSE cid_vid_map[q][d]
    BY <1>a, <1>b, <1>d, ConcludeFacts
  <1>m. \A q \in Routers, v \in Keys :
           \/ vid_nid_map_cache'[q][v] = vid_nid_map_cache[q][v]
           \/ /\ q = RouterOf[t]
              /\ \/ call[t].op = "join" /\ v = i /\ vid_nid_map_cache'[q][v] = RouterNid[q]
                 \/ call[t].op = "vid_nid" /\ v = call[t].vid /\ vid_nid_map_cache'[q][v] = i
    BY <1>a, <1>b, <1>d, ConcludeFacts
  <1>1. TypeOK'
    BY <1>b, <1>d, <1>g, <1>k DEF TypeOK
  <1>2. LockInv'
    <2>1. \A u \in Threads : u # t /\ pc[u] = "recv" => RouterOf[u] # r
      BY <1>a DEF LockInv
    <2>2. \A u \in Threads : u # t /\ pc[u] = "recv" => Found(u)' = Found(u)
      <3> SUFFICES ASSUME NEW u \in Threads, u # t, pc[u] = "recv"  PROVE Found(u)' = Found(u)
        OBVIOUS
      <3>1. RouterOf[u] # r /\ RouterOf[u] \in Routers /\ CidOf[u] \in Cids
        BY <2>1
      <3>2. call[u].op = "vid_nid" => call[u].vid \in Ids
        BY CallFacts DEF TypeOK
      <3>3. CASE call[u].op = "vid_nid"
        <4>1. vid_nid_map_cache'[RouterOf[u]][call[u].vid] = vid_nid_map_cache[RouterOf[u]][call[u].vid]
          BY <3>1, <3>2, <3>3, <1>m
        <4> QED  BY <3>3, <4>1, <1>g DEF Found
      <3>4. CASE call[u].op # "vid_nid"
        <4>1. cid_vid_map'[RouterOf[u]][CidOf[u]] = cid_vid_map[RouterOf[u]][CidOf[u]]
          BY <3>1, <1>l
        <4> QED  BY <3>4, <4>1, <1>g DEF Found
      <3> QED  BY <3>3, <3>4
    <2>3. \A u \in Threads : pc'[u] = "recv" <=> pc[u] = "recv" /\ u # t
      BY <1>g DEF TypeOK
    <2>4. \A q \in Routers : map_mutex'[q] = IF q = r THEN None ELSE map_mutex[q]
      BY <1>g DEF TypeOK
    <2> HIDE DEF r
    <2> QED  BY <2>1, <2>2, <2>3, <2>4, <1>a, <1>g DEF LockInv, r
  <1>3. LinkInv'
    <2>1. \A q \in Routers : map_mutex'[q] = None \/ map_mutex'[q] = map_mutex[q]
      BY <1>g DEF TypeOK
    <2> QED  BY <1>b, <1>g, <2>1 DEF LinkInv
  <1>t. TableInv'
    BY <1>g DEF TableInv
  <1> SUFFICES ASSUME ~vcm_raced'
               PROVE  OrderInv' /\ UniqueVids' /\ JoinedVidsAssigned' /\ TranslationsTrue'
    BY <1>1, <1>2, <1>3, <1>t DEF UniqueVids, JoinedVidsAssigned, TranslationsTrue
  <1> ~vcm_raced /\ OrderInv
    BY <1>g
  <1>c. ~vcm_up
    BY <1>b DEF OwnInv
  <1>o. OwnInv'
    BY <1>g DEF OwnInv, Peer
  <1>4. StageInv'
    <2>1. \A q \in Routers : map_mutex'[q] = IF q = r THEN None ELSE map_mutex[q]
      BY <1>g DEF TypeOK
    <2>2. rsp[r] = <<>> /\ link[r] # "up"
      BY <1>b DEF HandlerRecvEof
    <2> HIDE DEF r
    <2> QED  BY <1>b, <1>g, <2>1, <2>2 DEF StageInv, AtMostOne, Answering
  <1>5. DataInv'
    <2>1. \A u \in Threads : map_mutex'[RouterOf[u]] = u => map_mutex[RouterOf[u]] = u
      BY <1>g DEF TypeOK
    <2> QED  BY <2>1, <1>b, <1>g, DataFrame DEF Answering
  <1>6. TokenInv'
    <2>1. \A q \in Routers, v \in Ids : Carries(q, v)' <=> Carries(q, v)
      BY <1>b, <1>g, CarriesFrame
    <2> QED  BY <2>1, <1>c, <1>g DEF TokenInv
  <1>7. UniqueVids'
    BY <1>c, <1>g DEF UniqueVids
  <1>8. JoinedVidsAssigned'
    BY <1>c, <1>g DEF JoinedVidsAssigned
  <1>9. TranslationsTrue'
    BY <1>c, <1>g DEF TranslationsTrue
  <1> QED  BY <1>o, <1>4, <1>5, <1>6, <1>7, <1>8, <1>9

-----------------------------------------------------------------------------
\* Nothing is connected and the tables are empty at first.
LEMMA InitEstablishes == Init => IndInv
  <1> SUFFICES ASSUME Init  PROVE IndInv
    OBVIOUS
  <1> USE Constants DEF Init
  <1>1. TypeOK
    <2>1. Fds = 1..MaxFd /\ MaxFd \in Nat /\ MaxId \in Nat /\ Keys = Ids \cup {Error}
      BY DEF Fds, Keys
    <2>2. NoMsg \in Msgs /\ NoCall \in Calls
      BY Messages, CallFacts
    <2>3. /\ vcm_up \in BOOLEAN /\ vid \in 0..MaxId /\ vid_nid_map \in [Ids -> Ids \cup {Absent}]
          /\ vcm_fds \in [Fds -> Routers \cup {None}] /\ vcm_client_sock \in 0..MaxFd
      BY <2>1
    <2>4. /\ vcm_pc \in [Routers -> {"none", "pending", "starting", "enter", "recv", "send",
                                     "close", "end"}]
          /\ vcm_raced \in BOOLEAN
      OBVIOUS
    <2>8. vcm_sock \in [Routers -> 0..MaxFd]
      <3>1. 0 \in 0..MaxFd
        BY <2>1
      <3> HIDE DEF Fds
      <3> QED  BY <3>1
    <2>9. vcm_file \in [Routers -> Routers \cup {None}] /\ vcm_msg \in [Routers -> Msgs]
      BY <2>2
    <2>5. /\ link \in [Routers -> {"none", "up", "eof", "dead", "reset", "closed"}]
          /\ req \in [Routers -> Seq(Msgs)] /\ rsp \in [Routers -> Seq(Msgs)]
          /\ main \in [Routers -> {"off", "joining", "run", "leaving", "exit"}]
          /\ client_sock \in [Routers -> {Closed, Fd}]
          /\ map_mutex \in [Routers -> Threads \cup {None}]
      BY Queues
    <2>6. /\ cid_vid_map \in [Routers -> [Cids -> Keys \cup {Absent}]]
          /\ vid_nid_map_cache \in [Routers -> [Keys -> Keys \cup {Absent}]]
      OBVIOUS
    <2>7. /\ pc \in [Threads -> {"idle", "call", "recv", "reply", "gone"}]
          /\ call \in [Threads -> Calls] /\ ret \in [Threads -> Keys]
      BY <2>1, <2>2
    <2> QED  BY <2>3, <2>4, <2>5, <2>6, <2>7, <2>8, <2>9 DEF TypeOK
  <1>2. LockInv
    BY DEF LockInv
  <1>3. LinkInv
    BY DEF LinkInv
  <1>t. TableInv
    BY Queues DEF TableInv, Ids
  <1>o. OwnInv
    BY DEF OwnInv
  <1>4. StageInv
    BY DEF StageInv, AtMostOne, Answering
  <1>5. DataInv
    BY DEF DataInv
  <1>6. TokenInv
    <2>1. \A v \in Ids : <<>> # <<Msg("NID_VID", v)>>
      BY Messages, Queues
    <2>2. \A r \in Routers, v \in Ids : ~Carries(r, v)
      BY <2>1 DEF Carries, Answering
    <2> QED  BY <2>2 DEF TokenInv
  <1>7. UniqueVids /\ JoinedVidsAssigned
    BY DEF UniqueVids, JoinedVidsAssigned, Joined, Held
  <1>8. TranslationsTrue
    BY DEF TranslationsTrue
  <1> QED  BY <1>1, <1>2, <1>3, <1>t, <1>o, <1>4, <1>5, <1>6, <1>7, <1>8 DEF IndInv, OrderInv

\* A stuttering step keeps the invariant.
LEMMA StutterPreserves == ASSUME IndInv, UNCHANGED vars  PROVE IndInv'
  <1> USE DEF vars, vcmVars, vcmThreadVars, linkVars, routerVars, threadVars, IndInv, OrderInv
  <1>1. TypeOK'
    BY DEF TypeOK
  <1>2. LockInv' /\ LinkInv' /\ TableInv'
    BY DEF LockInv, LinkInv, TableInv, Found
  <1>3. ~vcm_raced' => OwnInv' /\ StageInv'
    BY DEF OwnInv, Peer, StageInv, AtMostOne, Answering
  <1>4. ~vcm_raced' => DataInv'
    BY DEF DataInv, Answering, Answers, RequestMsg
  <1>5. ~vcm_raced' => TokenInv'
    BY CarriesFrame, TokenFrame
  <1>6. UniqueVids' /\ JoinedVidsAssigned' /\ TranslationsTrue'
    BY DEF UniqueVids, JoinedVidsAssigned, TranslationsTrue, Joined, Held, Orderly
  <1> QED  BY <1>1, <1>2, <1>3, <1>4, <1>5, <1>6

\* Every step of the system keeps the invariant.
LEMMA NextPreserves == ASSUME IndInv, [Next]_vars  PROVE IndInv'
  <1>1. ASSUME NEW r \in Routers, VcmThread(r)  PROVE IndInv'
    BY <1>1, VcmAcceptPreserves, VcmThreadStartPreserves, VcmRecvEnterPreserves,
       VcmServePreserves, VcmReplyPreserves, VcmRecvFailsPreserves, VcmThreadEndPreserves
    DEF VcmThread
  <1>2. ASSUME NEW r \in Routers, RouterMain(r)  PROVE IndInv'
    BY <1>2, RouterConnectPreserves, RouterConnectFailPreserves, RouterJoinPreserves,
       ProcessEndsPreserves, RouterDisconnPreserves DEF RouterMain, RouterExit
  <1>3. ASSUME NEW t \in Threads, Handler(t)  PROVE IndInv'
    <2>1. RouterOf[t] \in Routers
      BY Constants
    <2> QED
      BY <1>3, <2>1, RequestPreserves, AnswerFromTablePreserves, HandlerNotConnectedPreserves,
         HandlerSendPreserves, ProcessEndsPreserves, HandlerSendErrorPreserves,
         HandlerRecvPreserves, HandlerRecvEofPreserves, HandlerRecvErrorPreserves,
         SendResponsePreserves DEF Handler, HandlerSigpipe, Receive
  <1> QED
    BY <1>1, <1>2, <1>3, LinkResetPreserves, VcmExitPreserves, StutterPreserves DEF Next

\* The inductive invariant holds for ever.
THEOREM IndInvHolds == Spec => []IndInv
  <1>1. Init => IndInv
    BY InitEstablishes
  <1>2. IndInv /\ [Next]_vars => IndInv'
    BY NextPreserves
  <1> QED  BY <1>1, <1>2, PTL DEF Spec

\* Every variable keeps its type; in particular no message ever carries the
\* id 0 and no table of the manager an error code.
THEOREM TypeCorrect == Spec => []TypeOK
  <1>1. IndInv => TypeOK
    BY DEF IndInv
  <1> QED  BY <1>1, IndInvHolds, PTL

\* While the manager is up and its threads have not raced, no two containers
\* hold one virtual id (get_new_vid, vcm_join).
THEOREM VidsAreUnique == Spec => []UniqueVids
  <1>1. IndInv => UniqueVids
    BY DEF IndInv
  <1> QED  BY <1>1, IndInvHolds, PTL

\* While the manager is up and its threads have not raced, a container's
\* virtual id stands for its router in the manager's table: answers are not
\* mixed up on the connection that all threads of a router share (vcm_handler),
\* nor between the connections that have one descriptor of the manager after
\* another (vcm.cpp vcm_handler).
THEOREM VidsAreAssigned == Spec => []JoinedVidsAssigned
  <1>1. IndInv => JoinedVidsAssigned
    BY DEF IndInv
  <1> QED  BY <1>1, IndInvHolds, PTL

\* While the manager is up and its threads have not raced, vcm_vid_nid returns
\* the manager's translation or -1, and caches nothing else.
THEOREM TranslationsAreTrue == Spec => []TranslationsTrue
  <1>1. IndInv => TranslationsTrue
    BY DEF IndInv
  <1> QED  BY <1>1, IndInvHolds, PTL

\* map_mutex, held across vcm_handler, keeps a router to one request at a
\* time, on the connection and in the manager, until the manager's threads
\* race.
THEOREM RequestsDoNotOverlap == Spec => []OneOutstanding
  <1>1. IndInv => OneOutstanding
    <2> SUFFICES ASSUME IndInv, ~vcm_raced, NEW r \in Routers
                 PROVE  LET serving == {h \in Routers : vcm_pc[h] = "send" /\ Peer(h) = r}
                        IN  Len(req[r]) + Len(rsp[r]) + Cardinality(serving) <= 1
      BY DEF OneOutstanding
    <2> DEFINE serving == {h \in Routers : vcm_pc[h] = "send" /\ Peer(h) = r}
    <2>0. \A h \in serving : h = r /\ Answering(r)
      BY DEF IndInv, OrderInv, OwnInv, Answering
    <2>1. /\ AtMostOne(req[r]) /\ AtMostOne(rsp[r])
          /\ req[r] # <<>> => rsp[r] = <<>>
          /\ req[r] # <<>> \/ rsp[r] # <<>> => serving = {}
          /\ \A g, h \in serving : g = h
      BY <2>0 DEF IndInv, OrderInv, StageInv
    <2>2. Len(req[r]) = IF req[r] = <<>> THEN 0 ELSE 1
      BY <2>1, Queues DEF AtMostOne
    <2>3. Len(rsp[r]) = IF rsp[r] = <<>> THEN 0 ELSE 1
      BY <2>1, Queues DEF AtMostOne
    <2>4. serving = {} => Cardinality(serving) = 0
      BY FS_EmptySet
    <2>5. serving # {} => Cardinality(serving) = 1
      <3>1. serving # {} => \E h : serving = {h}
        BY <2>1
      <3> QED  BY <3>1, FS_Singleton
    <2> HIDE DEF serving
    <2>6. Len(req[r]) + Len(rsp[r]) + Cardinality(serving) <= 1
      BY <2>1, <2>2, <2>3, <2>4, <2>5
    <2> QED  BY <2>6 DEF serving
  <1> QED  BY <1>1, IndInvHolds, PTL

-----------------------------------------------------------------------------
\* A manager's thread that serves a request leaves the table alone or adds
\* the entry of an unused id, for the router that asked.
LEMMA ServeAllocates ==
    ASSUME IndInv, NEW h \in Routers, VcmServe(h)
    PROVE  \/ UNCHANGED vid_nid_map
           \/ \E c \in Routers, v \in Ids :
                 /\ vid_nid_map[v] = Absent
                 /\ vid_nid_map' = [vid_nid_map EXCEPT ![v] = RouterNid[c]]
  <1> DEFINE c == vcm_file[h]
             m == Head(req[c])
  <1>1. c \in Routers /\ req[c] # <<>>
    BY DEF IndInv, VcmServe, LinkInv
  <1>2. CASE m.func_code = "VID_NID"
    BY <1>2 DEF VcmServe
  <1>3. CASE m.func_code = "NID_VID"
    <2>1. vid < MaxId /\ vid_nid_map' = MapInsert(vid_nid_map, vid + 1, m.id)
      BY <1>3 DEF VcmServe, get_new_vid, NewVid
    <2>2. vid + 1 \in Ids
      BY <2>1, Constants DEF IndInv, TypeOK, Ids
    <2>3. vid_nid_map[vid + 1] = Absent
      BY <2>2, Constants DEF IndInv, TableInv, TypeOK
    <2>4. m.id = RouterNid[c]
      <3>1. req[c] \in Seq(HonestMsgs(c))
        BY <1>1 DEF IndInv, TableInv
      <3>2. m \in HonestMsgs(c)
        BY <1>1, <3>1
      <3> QED  BY <1>3, <3>2 DEF HonestMsgs
    <2> QED  BY <1>1, <2>1, <2>2, <2>3, <2>4 DEF MapInsert
  <1>4. m \in Msgs
    BY <1>1, QueueTypes DEF IndInv, TypeOK
  <1> QED  BY <1>2, <1>3, <1>4, Messages

\* When vcm_handler returns 0, the id in the message answers the call: for a
\* join, a virtual id that no container holds, as long as the manager is
\* orderly.
LEMMA RecvConcludes ==
    ASSUME IndInv, NEW t \in Threads, HandlerRecv(t) \/ HandlerRecvEof(t)
    PROVE  \E i \in Keys :
              /\ Conclude(t, i)
              /\ Orderly /\ call[t].op = "join" =>
                    /\ i \in Ids /\ vid_nid_map[i] = RouterNid[RouterOf[t]]
                    /\ \A q \in Routers, d \in Cids : Held(q, d) # i
              /\ Orderly /\ call[t].op = "vid_nid" => i \in {Error, vid_nid_map[call[t].vid]}
  <1> USE Constants DEF IndInv
  <1> DEFINE r == RouterOf[t]
  <1>1. pc[t] = "recv" /\ map_mutex[r] = t /\ call[t].op # "get_node_id"
    BY DEF HandlerRecv, HandlerRecvEof, LockInv
  <1>2. CASE HandlerRecv(t)
    <2> DEFINE m == Head(rsp[r])
    <2>1. m \in Msgs /\ Conclude(t, m.id)
      BY <1>2, QueueTypes DEF HandlerRecv, TypeOK
    <2>3. m.id \in Keys
      BY <2>1, Messages
    <2>4. ASSUME Orderly
          PROVE  /\ call[t].op = "join" =>
                       /\ m.id \in Ids /\ vid_nid_map[m.id] = RouterNid[r]
                       /\ \A q \in Routers, d \in Cids : Held(q, d) # m.id
                 /\ call[t].op = "vid_nid" => m.id \in {Error, vid_nid_map[call[t].vid]}
      <3>1. OrderInv /\ vcm_up
        BY <2>4 DEF Orderly
      <3>2. rsp[r] = <<m>> /\ Answers(t, m)
        BY <1>1, <1>2, <3>1, Queues DEF OrderInv, HandlerRecv, StageInv, AtMostOne, DataInv
      <3>3. ASSUME call[t].op = "join"
            PROVE  /\ m.id \in Ids /\ vid_nid_map[m.id] = RouterNid[r]
                   /\ \A q \in Routers, d \in Cids : Held(q, d) # m.id
        <4>1. m.id \in Ids /\ vid_nid_map[m.id] = RouterNid[r] /\ m = Msg("NID_VID", m.id)
          BY <2>1, <3>2, <3>3, Messages DEF Answers
        <4>2. Carries(r, m.id)
          BY <3>2, <4>1 DEF Carries
        <4> HIDE DEF m
        <4> QED  BY <3>1, <4>1, <4>2 DEF OrderInv, TokenInv
      <3>4. call[t].op = "vid_nid" => m.id \in {Error, vid_nid_map[call[t].vid]}
        BY <3>2 DEF Answers
      <3> QED  BY <3>3, <3>4
    <2> HIDE DEF m
    <2> QED  BY <2>1, <2>3, <2>4
  <1>3. CASE HandlerRecvEof(t)
    <2>1. Conclude(t, RequestMsg(t).id)
      BY <1>3 DEF HandlerRecvEof
    <2>2. ~Orderly
      BY <1>3 DEF HandlerRecvEof, Orderly, OrderInv, OwnInv
    <2>3. RequestMsg(t).id \in Keys
      BY <1>1, RequestMsgFacts DEF Keys
    <2> QED  BY <2>1, <2>2, <2>3
  <1> QED  BY <1>2, <1>3

\* No other step writes to the tables, and only an accept can end the
\* manager's order while it is up.
LEMMA TablesOtherwiseUnchanged ==
    ASSUME Next
    PROVE  \/ /\ UNCHANGED <<vid_nid_map, cid_vid_map, vid_nid_map_cache>>
              /\ UNCHANGED Orderly \/ (Orderly /\ ~Orderly')
           \/ \E h \in Routers : VcmServe(h)
           \/ \E t \in Threads : HandlerRecv(t) \/ HandlerRecvEof(t)
  <1> USE DEF vcmVars, vcmThreadVars, linkVars, routerVars, threadVars
  <1> DEFINE tables == <<vid_nid_map, cid_vid_map, vid_nid_map_cache>>
             order == <<vcm_up, vcm_raced>>
  <1>1. ASSUME NEW r \in Routers, VcmThread(r), ~VcmServe(r), ~VcmAccept(r)
        PROVE  UNCHANGED tables /\ UNCHANGED order
    BY <1>1 DEF VcmThread, VcmThreadStart, VcmRecvEnter, VcmReply, VcmRecvFails, VcmThreadEnd
  <1>2. ASSUME NEW r \in Routers, RouterMain(r) \/ LinkReset(r)
        PROVE  UNCHANGED tables /\ UNCHANGED order
    BY <1>2 DEF RouterMain, RouterConnect, RouterConnectFail, RouterJoin, RouterExit,
        ProcessEnds, RouterDisconn, LinkReset
  <1>3. ASSUME NEW t \in Threads, Handler(t), ~HandlerRecv(t), ~HandlerRecvEof(t)
        PROVE  UNCHANGED tables /\ UNCHANGED order
    BY <1>3 DEF Handler, Receive, Request, AnswerFromTable, HandlerNotConnected, HandlerSend,
                HandlerSigpipe, ProcessEnds, HandlerSendError, HandlerRecvError, SendResponse
  <1>4. ASSUME NEW r \in Routers, VcmAccept(r)
        PROVE  UNCHANGED tables /\ vcm_up' = vcm_up /\ (vcm_raced => vcm_raced')
    BY <1>4 DEF VcmAccept
  <1>5. ASSUME VcmExit
        PROVE  UNCHANGED tables /\ vcm_raced' = vcm_raced /\ ~vcm_up'
    BY <1>5 DEF VcmExit
  <1>6. UNCHANGED order => UNCHANGED Orderly
    BY DEF Orderly
  <1> HIDE DEF tables, order
  <1>7. ASSUME UNCHANGED tables  PROVE UNCHANGED <<vid_nid_map, cid_vid_map, vid_nid_map_cache>>
    BY <1>7 DEF tables
  <1>8. ASSUME NEW r \in Routers, VcmAccept(r)
        PROVE  UNCHANGED tables /\ (UNCHANGED Orderly \/ (Orderly /\ ~Orderly'))
    <2>1. vcm_up' = vcm_up /\ (vcm_raced => vcm_raced')
      BY <1>4, <1>8
    <2>2. Orderly \in BOOLEAN /\ Orderly' \in BOOLEAN /\ (Orderly' => Orderly)
      BY <2>1 DEF Orderly
    <2>3. UNCHANGED Orderly \/ (Orderly /\ ~Orderly')
      BY <2>2
    <2>4. UNCHANGED tables
      BY <1>4, <1>8
    <2> QED  BY <2>3, <2>4
  <1>9. ASSUME VcmExit
        PROVE  UNCHANGED tables /\ (UNCHANGED Orderly \/ (Orderly /\ ~Orderly'))
    <2>1. Orderly \in BOOLEAN /\ Orderly' \in BOOLEAN /\ ~Orderly'
      BY <1>5, <1>9 DEF Orderly
    <2>2. UNCHANGED Orderly \/ (Orderly /\ ~Orderly')
      BY <2>1
    <2> QED  BY <1>5, <1>9, <2>2
  <1> QED  BY <1>1, <1>2, <1>3, <1>6, <1>7, <1>8, <1>9 DEF Next

\* An entry of a router's table, a cached error included, never changes
\* (unordered_map::insert in vcm_join and vcm_vid_nid).
THEOREM EntriesAreFinal == Spec => EntriesFinal
  <1> DEFINE Final ==
        \A r \in Routers :
          /\ \A c \in Cids : cid_vid_map[r][c] # Absent => cid_vid_map'[r][c] = cid_vid_map[r][c]
          /\ \A v \in Keys : vid_nid_map_cache[r][v] # Absent
                              => vid_nid_map_cache'[r][v] = vid_nid_map_cache[r][v]
  <1>1. ASSUME IndInv, Next  PROVE Final
    <2>1. ASSUME NEW t \in Threads, HandlerRecv(t) \/ HandlerRecvEof(t)  PROVE Final
      <3>1. PICK i \in Keys : Conclude(t, i)
        BY <1>1, <2>1, RecvConcludes
      <3>2. TypeOK /\ LockInv /\ pc[t] = "recv"
        BY <1>1, <2>1 DEF IndInv, HandlerRecv, HandlerRecvEof
      <3>3. \A q \in Routers, d \in Cids :
               cid_vid_map'[q][d] = IF call[t].op = "join" /\ q = RouterOf[t] /\ d = CidOf[t]
                                    THEN i ELSE cid_vid_map[q][d]
        BY <3>1, <3>2, ConcludeFacts
      <3>4. \A q \in Routers, v \in Keys :
               vid_nid_map_cache'[q][v] = vid_nid_map_cache[q][v] \/ vid_nid_map_cache[q][v] = Absent
        BY <3>1, <3>2, ConcludeFacts
      <3>5. call[t].op = "join" => cid_vid_map[RouterOf[t]][CidOf[t]] = Absent
        BY <3>2 DEF LockInv, Found
      <3> QED  BY <3>3, <3>4, <3>5
    <2> QED
      BY <1>1, <2>1, TablesOtherwiseUnchanged
      DEF VcmServe, routerVars
  <1>2. IndInv /\ [Next]_vars => [Final]_vars
    BY <1>1
  <1> QED  BY <1>2, IndInvHolds, PTL DEF Spec, EntriesFinal

\* The end of vcm_join is the directory's Enroll and the end of vcm_vid_nid
\* is its Learn, or nothing the directory can see.
LEMMA ConcludeIsDirectoryStep ==
    ASSUME IndInv, NEW t \in Threads, HandlerRecv(t) \/ HandlerRecvEof(t)
    PROVE  Directory!DirNext
  <1> USE Constants
  <1> DEFINE r == RouterOf[t]
             c == CidOf[t]
  <1>1. PICK i \in Keys :
           /\ Conclude(t, i)
           /\ Orderly /\ call[t].op = "join" =>
                 /\ i \in Ids /\ vid_nid_map[i] = RouterNid[RouterOf[t]]
                 /\ \A q \in Routers, d \in Cids : Held(q, d) # i
           /\ Orderly /\ call[t].op = "vid_nid" => i \in {Error, vid_nid_map[call[t].vid]}
    BY RecvConcludes
  <1>2. /\ r \in Routers /\ c \in Cids
        /\ call[t] \in Calls /\ call[t].op # "get_node_id" /\ Found(t) = Absent
    BY DEF IndInv, LockInv, TypeOK, HandlerRecv, HandlerRecvEof
  <1>3. UNCHANGED <<Orderly, vid_nid_map>>
    BY <1>1 DEF Conclude, vcmVars, vcmThreadVars, Orderly
  <1>k. Keys = Directory!Keys
    BY DEF Keys, Error, Directory!Keys, Directory!Unknown
  <1>4. CASE call[t].op = "join"
    <2>1. /\ cid_vid_map' = [cid_vid_map EXCEPT ![r] = MapInsert(cid_vid_map[r], c, i)]
          /\ vid_nid_map_cache' = [vid_nid_map_cache EXCEPT ![r] = MapInsert(vid_nid_map_cache[r], i, RouterNid[r])]
      BY <1>1, <1>4 DEF Conclude
    <2>2. cid_vid_map[r][c] = Absent
      BY <1>2, <1>4 DEF Found
    <2>3. cid_vid_map' = [cid_vid_map EXCEPT ![r][c] = i]
      BY <2>1, <2>2 DEF MapInsert
    <2>4. vid_nid_map_cache' = IF vid_nid_map_cache[r][i] = Absent
                               THEN [vid_nid_map_cache EXCEPT ![r][i] = RouterNid[r]]
                               ELSE vid_nid_map_cache
      BY <2>1, <1>2 DEF MapInsert, IndInv, TypeOK
    <2>5. Orderly => ~Directory!Taken(i)
      BY <1>1, <1>4 DEF Directory!Taken, Held
    <2>6. Directory!Enroll(r, c)
      BY <1>1, <1>3, <1>k, <1>4, <2>2, <2>3, <2>4, <2>5
      DEF Directory!Enroll, Directory!Nobody, Absent
    <2> QED  BY <1>2, <2>6 DEF Directory!DirNext
  <1>5. CASE call[t].op = "vid_nid"
    <2> DEFINE v == call[t].vid
    <2>1. v \in Ids
      BY <1>2, <1>5, CallFacts
    <2>2. vid_nid_map_cache' = [vid_nid_map_cache EXCEPT ![r] =
        MapInsert(vid_nid_map_cache[r], v, i)] /\ cid_vid_map' = cid_vid_map
      BY <1>1, <1>5 DEF Conclude
    <2>3. vid_nid_map_cache[r][v] = Absent
      BY <1>2, <1>5 DEF Found
    <2>4. vid_nid_map_cache' = [vid_nid_map_cache EXCEPT ![r][v] = i]
      BY <2>2, <2>3 DEF MapInsert
    <2>5. Directory!Learn(r, v)
      BY <1>1, <1>3, <1>k, <1>5, <2>2, <2>3, <2>4
      DEF Directory!Learn, Directory!Nobody, Directory!Unknown, Absent, Error
    <2> QED  BY <1>2, <2>1, <2>5 DEF Directory!DirNext
  <1> QED  BY <1>2, <1>4, <1>5, CallFacts

\* The manager, the routers and the connections together implement the
\* directory of VidDirectory, which has no messages, no threads and no locks.
THEOREM DirectoryImplemented == Spec => ImplementsDirectory
  <1>1. Init => Directory!DirInit
    BY DEF Init, Directory!DirInit, Directory!Nobody, Absent, Orderly, Keys, Error,
           Directory!Keys, Directory!Unknown
  <1>2. ASSUME IndInv, Next  PROVE [Directory!DirNext]_(Directory!dirVars)
    <2>1. ASSUME NEW h \in Routers, VcmServe(h)  PROVE [Directory!DirNext]_(Directory!dirVars)
      <3>1. UNCHANGED <<Orderly, cid_vid_map, vid_nid_map_cache>>
        BY <2>1 DEF VcmServe, routerVars, Orderly
      <3>2. CASE UNCHANGED vid_nid_map
        BY <3>1, <3>2 DEF Directory!dirVars
      <3>3. CASE \E c \in Routers, v \in Ids :
                    /\ vid_nid_map[v] = Absent
                    /\ vid_nid_map' = [vid_nid_map EXCEPT ![v] = RouterNid[c]]
        BY <3>1, <3>3 DEF Directory!DirNext, Directory!Allocate, Directory!Nobody, Absent
      <3> QED  BY <1>2, <2>1, <3>2, <3>3, ServeAllocates
    <2>2. ASSUME UNCHANGED <<vid_nid_map, cid_vid_map, vid_nid_map_cache>>,
                 UNCHANGED Orderly \/ (Orderly /\ ~Orderly')
          PROVE  [Directory!DirNext]_(Directory!dirVars)
      <3>1. CASE UNCHANGED Orderly
        BY <2>2, <3>1 DEF Directory!dirVars
      <3>2. CASE Orderly /\ ~Orderly'
        <4>1. Orderly' = FALSE
          BY <3>2 DEF Orderly
        <4> QED  BY <2>2, <3>2, <4>1 DEF Directory!DirNext, Directory!Stop
      <3> QED  BY <2>2, <3>1, <3>2
    <2>3. ASSUME NEW t \in Threads, HandlerRecv(t) \/ HandlerRecvEof(t)  PROVE Directory!DirNext
      BY <1>2, <2>3, ConcludeIsDirectoryStep
    <2> QED  BY <1>2, <2>1, <2>2, <2>3, TablesOtherwiseUnchanged
  <1>3. UNCHANGED vars => UNCHANGED Directory!dirVars
    BY DEF vars, vcmVars, vcmThreadVars, routerVars, Directory!dirVars, Orderly
  <1>4. IndInv /\ [Next]_vars => [Directory!DirNext]_(Directory!dirVars)
    BY <1>2, <1>3
  <1> QED
    BY <1>1, <1>4, IndInvHolds, PTL DEF Spec, ImplementsDirectory, Directory!DirSpec
=============================================================================
