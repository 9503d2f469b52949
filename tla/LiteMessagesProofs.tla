------------------------- MODULE LiteMessagesProofs -------------------------
(***************************************************************************)
(* Proofs about LiteMessages, for any number of senders, receivers, words  *)
(* and calls, and for any sizes: a message is in one place at a time, so   *)
(* it is received and replied to once; a sender whose word no other thread *)
(* passes finds in it the reply to its last call, and one whose word no    *)
(* other process passes does not poll for a message that is lost.          *)
(***************************************************************************)
EXTENDS LiteMessages, TLAPS

(***************************************************************************)
(* Packing.                                                                *)
(***************************************************************************)

\* Division with remainder.
LEMMA Remainder ==
    ASSUME NEW d \in Nat \ {0}, NEW a \in Int
    PROVE  a = d * (a \div d) + (a % d) /\ a % d \in 0..(d - 1) /\ a \div d \in Int
  OBVIOUS

\* Quotient and remainder are unique.
LEMMA OneRemainder ==
    ASSUME NEW d \in Nat \ {0}, NEW q \in Int, NEW r \in 0..(d - 1)
    PROVE  (d * q + r) % d = r /\ (d * q + r) \div d = q
  <1>1. \A q2 \in Int, r2 \in 0..(d - 1) : d * q + r = d * q2 + r2 => q = q2 /\ r = r2
    OBVIOUS
  <1>2. d * q + r \in Int
    OBVIOUS
  <1> QED  BY <1>1, <1>2, Remainder

\* The bounds of the packed words.
LEMMA Widths ==
    /\ IMM_MAX_PORT \in Nat \ {0} /\ WordSize \in Nat \ {0} /\ LIMITATION \in Nat
    /\ WordSize = IMM_MAX_PORT * (WordSize \div IMM_MAX_PORT)
    /\ LIMITATION * IMM_MAX_PORT <= WordSize
    /\ inbound_port["server"] = 1 /\ outbound_port["client"] = 1 /\ 0 \in Ports /\ 1 \in Ports
    /\ \A g \in Programs : inbound_port[g] \in Ports
    /\ 1 < LIMITATION
  <1>1. IMM_MAX_PORT \in Nat \ 0..2 /\ LIMITATION \in Nat \ 0..1 /\ WordSize \in Nat
    BY MessagesAssumption
  <1>2. WordSize # 0
    BY <1>1, MessagesAssumption
  <1>3. WordSize = IMM_MAX_PORT * (WordSize \div IMM_MAX_PORT)
    BY <1>1, MessagesAssumption, Remainder
  <1>4. /\ inbound_port["server"] = 1 /\ outbound_port["client"] = 1 /\ 0 \in Ports /\ 1 \in Ports
        /\ \A g \in Programs : inbound_port[g] \in Ports
    BY <1>1 DEF inbound_port, outbound_port, Programs, Ports
  <1> QED  BY <1>1, <1>2, <1>3, <1>4, MessagesAssumption

\* The kernel takes the port out of any packed word, whatever the size.
LEMMA PortKept ==
    ASSUME NEW n \in Nat, NEW low \in Ports
    PROVE  Low(Pack(n, low)) = low
  <1> DEFINE I == IMM_MAX_PORT
             k == WordSize \div I
             a == n * I + low
             q == a \div WordSize
  <1>1. a \in Nat /\ k \in Int /\ q \in Int /\ low \in 0..(I - 1) /\ I \in Nat \ {0}
    BY Widths, Remainder DEF Ports
  <1>2. a % WordSize = a - WordSize * q
    BY <1>1, Widths, Remainder
  <1>3. a % WordSize = I * (n - k * q) + low
    <2>1. WordSize = I * k
      BY Widths
    <2>2. a % WordSize = a - (I * k) * q
      BY <1>2, <2>1
    <2> HIDE DEF k, q
    <2> QED  BY <1>1, <2>2
  <1>4. n - k * q \in Int
    BY <1>1
  <1> HIDE DEF a, k, q, I
  <1> QED  BY <1>1, <1>3, <1>4, OneRemainder DEF Low, Pack, a, I

\* It takes the size out of a word that has not overflowed.
LEMMA SizeKept ==
    ASSUME NEW n \in Nat, NEW low \in Ports, n < LIMITATION
    PROVE  High(Pack(n, low)) = n
  <1> DEFINE I == IMM_MAX_PORT
  <1>1. low \in 0..(I - 1) /\ I \in Nat \ {0} /\ n * I = I * n
    BY Widths DEF Ports
  <1>2. n * I + low < WordSize /\ n * I + low \in Nat
    BY <1>1, Widths
  <1>3. (n * I + low) % WordSize = n * I + low
    BY <1>2, Widths
  <1> QED  BY <1>1, <1>3, OneRemainder DEF High, Pack

-----------------------------------------------------------------------------
(***************************************************************************)
(* The inductive invariant.                                                *)
(***************************************************************************)

\* The messages that wait for the server.
Inbox == queue[inbound_port["server"]]

\* A message that has been sent, with what its sender asked for.
Sent(m) ==
    IF m.from = None THEN m.no <= plain
    ELSE /\ m.no <= calls[m.from]
         /\ m.size = SendSize[m.from][m.no] /\ m.room = MaxRetSize[m.from]

\* Receiver r, or the handler for it, has message m and has not replied.
Holds(r, m) == HeldBy(r) = m

\* Message m waits, is held, or its reply is under way.
Live(m) ==
    \/ m \in Range(Inbox)
    \/ \E r \in Receivers : Holds(r, m)
    \/ \E x \in replies : x.to = m

\* No message waits twice, after it was replied to, or at another port.
QueueInv ==
    /\ \A p \in Ports : p # inbound_port["server"] => queue[p] = <<>>
    /\ IsInjective(Inbox)
    /\ \A m \in Range(Inbox) : Sent(m) /\ m \notin replied

\* A message is held by one receiver and is no longer in the queue.
HeldInv ==
    \A r \in Receivers, m \in Messages : Holds(r, m) =>
        /\ Sent(m) /\ m.from # None
        /\ m \notin replied /\ m \notin Range(Inbox)
        /\ \A q \in Receivers : Holds(q, m) => q = r

\* The server's handler polls for one receiver, and what it has at hand belongs
\* to the message that served this one.
ReceiverInv ==
    /\ \A r, q \in Receivers : pc[r] = "poll" /\ pc[q] = "poll" => r = q
    /\ pending # None => /\ pending = inbound_port["server"] /\ descriptor = Zero
                         /\ \E r \in Receivers : pc[r] = "poll" /\ ret[r] = -1
    /\ \A r \in Receivers :
        /\ pc[r] = "poll" /\ descriptor # Zero =>
              /\ got[r] \in Messages
              /\ descriptor = IF got[r].from = None THEN IMM_SEND_ONLY_FLAG ELSE got[r]
              /\ ReceiveLength(r) = got[r].size
        /\ pc[r] = "reply" =>
              /\ got[r] \in Messages
              /\ held[r] = IF got[r].from = None THEN Zero ELSE got[r]
              /\ length[r] = got[r].size

\* One reply per message.
ReplyInv ==
    /\ \A m \in replied : m.from # None /\ Sent(m)
    /\ \A x \in replies : x.to \in replied /\ \A y \in replies : y.to = x.to => y = x

\* The handler of sender s is at work for it.
InHandler(s) == pc[s] \in {"poll", "return"}

\* A length in a word is that of a reply to somebody who passed the word.
WordInv ==
    /\ \A w \in Words : word[w] \in Replies =>
          /\ word[w].to \in replied /\ WordOf[word[w].to.from] = w
          /\ word[w].length <= word[w].to.room
    /\ \A s \in Senders :
          Alone(s) /\ InHandler(s) /\ ret[s] >= 0 => word[WordOf[s]] # Zero

\* A process's handler serves one of its threads, and none that only starts.
HandlerInv ==
    /\ \A s, q \in Senders : ProcessOf[s] = ProcessOf[q] /\ InHandler(s) /\ InHandler(q) => s = q
    /\ \A s \in Senders : pc[s] = "start" => calls[s] = 0

\* A sender whose word no other thread passes does not return while its message
\* lives.  Nobody sets the word that only one process passes to SEND_REPLY_WAIT
\* between the poll and the return of an accepted call.
OwnInv ==
    \A s \in Senders :
        /\ Alone(s) =>
              /\ \A m \in Messages : Live(m) /\ m.from = s =>
                    Current(s, m) /\ pc[s] = "poll" /\ ret[s] >= 0
                    /\ word[WordOf[s]] = SEND_REPLY_WAIT
              /\ InHandler(s) /\ ret[s] >= 0 /\ word[WordOf[s]] \in Replies =>
                    Current(s, word[WordOf[s]].to)
        /\ OneProcess(s) /\ pc[s] = "return" /\ ret[s] >= 0 =>
              word[WordOf[s]] # SEND_REPLY_WAIT

\* Program g has come to the barrier, or was refused there.
Past(g) == stage[g] \notin {"register", "barrier"}

\* The barrier counts programs that have come to it; if LITE has refused
\* nothing, they have registered their ports before and find them after it.
SetupInv ==
    /\ arrived <= (IF Past("server") THEN 1 ELSE 0) + (IF Past("client") THEN 1 ELSE 0)
    /\ refusals = 0 => \A g \in Programs :
          /\ stage[g] # "register" => inbound_port[g] \in ports
          /\ stage[g] \in {"query", "run"} => \A h \in Programs : Past(h)
          /\ stage[g] = "run" => g \in routes

LiteInv ==
    /\ TypeOK
    /\ QueueInv
    /\ HeldInv
    /\ ReceiverInv
    /\ ReplyInv
    /\ WordInv
    /\ HandlerInv
    /\ OwnInv
    /\ OwnReply
    /\ SetupInv

-----------------------------------------------------------------------------
(***************************************************************************)
(* Facts about the data.                                                   *)
(***************************************************************************)

\* The parts of messages and replies, and the values that are neither.
LEMMA MessageFacts ==
    /\ \A m \in Messages : /\ m.from \in Senders \cup {None}
                           /\ m.no \in Nat /\ m.size \in Nat /\ m.room \in Nat
    /\ \A x \in Replies : x.to \in Messages /\ x.length \in Nat
    /\ \A f \in Senders \cup {None}, n, s, o \in Nat :
          [from |-> f, no |-> n, size |-> s, room |-> o] \in Messages
    /\ \A m \in Messages, n \in Nat : [to |-> m, length |-> n] \in Replies
  BY DEF Messages, Replies

\* The values of words and descriptors can be told apart, as can the threads.
LEMMA Values ==
    /\ Zero \notin Messages /\ IMM_SEND_ONLY_FLAG \notin Messages /\ None \notin Messages
    /\ Zero \notin Replies /\ Error \notin Replies /\ SEND_REPLY_WAIT \notin Replies
    /\ Zero # IMM_SEND_ONLY_FLAG /\ Zero # Error /\ Zero # SEND_REPLY_WAIT
    /\ Error # SEND_REPLY_WAIT /\ None \notin Senders /\ None \notin Ports
    /\ Senders \cap Receivers = {} /\ Senders \subseteq Threads /\ Receivers \subseteq Threads
    /\ WordOf \in [Senders -> Words]
  BY MessagesAssumption DEF Threads

\* The constants that give sizes and numbers of calls.
LEMMA Sizes ==
    /\ SendSize \in [Senders -> Seq(Nat)] /\ MaxRetSize \in [Senders -> Nat]
    /\ ReceiveSize \in [Receivers -> Nat] /\ ReplySize \in [Receivers -> Nat]
  BY MessagesAssumption

\* The first message leaves a queue without repetitions.
LEMMA QueueTail ==
    ASSUME NEW q \in Seq(Messages), q # <<>>, IsInjective(q)
    PROVE  /\ Head(q) \in Messages /\ Head(q) \in Range(q)
           /\ Tail(q) \in Seq(Messages) /\ IsInjective(Tail(q))
           /\ Range(Tail(q)) = Range(q) \ {Head(q)}
  <1>1. /\ Len(q) \in Nat \ {0} /\ DOMAIN q = 1..Len(q) /\ Head(q) = q[1] /\ 1 \in DOMAIN q
        /\ Tail(q) \in Seq(Messages) /\ DOMAIN Tail(q) = 1..(Len(q) - 1)
        /\ \A i \in 1..(Len(q) - 1) : Tail(q)[i] = q[i + 1]
    OBVIOUS
  <1>2. Head(q) \in Messages /\ Head(q) \in Range(q)
    BY <1>1 DEF Range
  <1>3. IsInjective(Tail(q))
    BY <1>1 DEF IsInjective
  <1>4. ASSUME NEW m \in Range(Tail(q))  PROVE m \in Range(q) /\ m # Head(q)
    <2>1. PICK i \in 1..(Len(q) - 1) : m = q[i + 1]
      BY <1>1 DEF Range
    <2>2. i + 1 \in DOMAIN q /\ i + 1 # 1
      BY <1>1
    <2> QED  BY <1>1, <2>1, <2>2 DEF Range, IsInjective
  <1>5. ASSUME NEW m \in Range(q), m # Head(q)  PROVE m \in Range(Tail(q))
    <2>1. PICK i \in 1..Len(q) : m = q[i]
      BY <1>1 DEF Range
    <2>2. i - 1 \in 1..(Len(q) - 1) /\ Tail(q)[i - 1] = q[i]
      BY <1>1, <1>5, <2>1
    <2> QED  BY <1>1, <2>1, <2>2 DEF Range
  <1> QED  BY <1>1, <1>2, <1>3, <1>4, <1>5

\* A new message joins it.
LEMMA QueueAppend ==
    ASSUME NEW q \in Seq(Messages), IsInjective(q), NEW m \in Messages, m \notin Range(q)
    PROVE  /\ Append(q, m) \in Seq(Messages) /\ IsInjective(Append(q, m))
           /\ Range(Append(q, m)) = Range(q) \cup {m}
  <1>1. /\ Len(q) \in Nat /\ DOMAIN q = 1..Len(q)
        /\ Append(q, m) \in Seq(Messages) /\ DOMAIN Append(q, m) = 1..(Len(q) + 1)
        /\ Append(q, m)[Len(q) + 1] = m
        /\ \A i \in 1..Len(q) : Append(q, m)[i] = q[i]
    OBVIOUS
  <1>2. \A i \in 1..Len(q) : q[i] \in Range(q)
    BY <1>1 DEF Range
  <1>3. \A i \in 1..(Len(q) + 1) : i = Len(q) + 1 \/ i \in 1..Len(q)
    BY <1>1
  <1>4. IsInjective(Append(q, m))
    BY <1>1, <1>2, <1>3 DEF IsInjective
  <1>5. Range(Append(q, m)) \subseteq Range(q) \cup {m}
    BY <1>1, <1>2, <1>3 DEF Range
  <1>6. Range(q) \cup {m} \subseteq Range(Append(q, m))
    <2>1. m \in Range(Append(q, m))
      BY <1>1 DEF Range
    <2>2. ASSUME NEW i \in 1..Len(q)  PROVE q[i] \in Range(Append(q, m))
      BY <1>1 DEF Range
    <2> QED  BY <1>1, <2>1, <2>2 DEF Range
  <1> QED  BY <1>1, <1>4, <1>5, <1>6

\* Initially nothing has been sent.
LEMMA InitLite == Init => LiteInv
  <1> SUFFICES ASSUME Init  PROVE LiteInv
    OBVIOUS
  <1>1. inbound_port["server"] \in Ports /\ Inbox = <<>> /\ Range(Inbox) = {}
    BY Widths DEF Init, Inbox, Range
  <1>2. TypeOK
    BY MessagesAssumption DEF Init, TypeOK, Programs, Ports
  <1>3. QueueInv
    BY <1>1 DEF Init, QueueInv, IsInjective
  <1>4. HeldInv /\ ReceiverInv /\ ReplyInv /\ WordInv
    BY Values DEF Init, HeldInv, Holds, HeldBy, ReceiverInv, ReplyInv, WordInv, InHandler
  <1>5. HandlerInv /\ OwnInv /\ OwnReply
    BY <1>1, Values DEF Init, HandlerInv, InHandler, OwnInv, Live, Holds, HeldBy, OwnReply
  <1>6. SetupInv
    BY DEF Init, SetupInv, Past, Programs
  <1> QED  BY <1>2, <1>3, <1>4, <1>5, <1>6 DEF LiteInv

-----------------------------------------------------------------------------
(***************************************************************************)
(* run() up to the start of the threads.                                   *)
(***************************************************************************)

\* No message is touched.
MessagesFrame ==
    UNCHANGED <<pc, calls, ret, result, senderVars, receiverVars, kernelVars>>

\* Then neither is what is known of them.
LEMMA MessagesKept ==
    ASSUME LiteInv, MessagesFrame
    PROVE  (QueueInv /\ HeldInv /\ ReceiverInv /\ ReplyInv)'
           /\ (WordInv /\ HandlerInv /\ OwnInv /\ OwnReply)'
  <1> USE DEF LiteInv, MessagesFrame, senderVars, receiverVars, handlerVars, threadVars, kernelVars
  <1>1. QueueInv' /\ HeldInv' /\ ReplyInv'
    BY DEF QueueInv, HeldInv, ReplyInv, Inbox, Sent, Holds, HeldBy
  <1>2. ReceiverInv' /\ WordInv' /\ HandlerInv'
    BY DEF ReceiverInv, ReceiveLength, WordInv, HandlerInv, InHandler, Alone
  <1>3. OwnInv' /\ OwnReply'
    BY DEF OwnInv, InHandler, OwnReply, Live, Holds, HeldBy, Inbox, Current, Alone, OneProcess
  <1> QED  BY <1>1, <1>2, <1>3

\* LITE turns something down: the count of refusals is no longer zero.
LEMMA RefuseFacts ==
    ASSUME TypeOK, Refuse
    PROVE  refusals' \in 0..MaxRefusals /\ refusals' # 0
  <1>1. MaxRefusals \in Nat /\ refusals \in 0..MaxRefusals
    BY MessagesAssumption DEF TypeOK
  <1> QED  BY <1>1 DEF Refuse

\* The steps of run(): registration, barrier and query, refused or not.
LEMMA SetupPreserves == ASSUME LiteInv, NEW g \in Programs, SetupStep(g)  PROVE LiteInv'
  <1>0. TypeOK /\ SetupInv
    BY DEF LiteInv
  <1> USE DEF Enters
  <1>1. MessagesFrame
    BY DEF SetupStep, register_application, dist_barrier, KernelBarrier, query_port, MessagesFrame
  <1>2. (QueueInv /\ HeldInv /\ ReceiverInv /\ ReplyInv)'
        /\ (WordInv /\ HandlerInv /\ OwnInv /\ OwnReply)'
    BY <1>1, MessagesKept
  <1>3. ASSUME stage' \in [Programs -> {"register", "barrier", "waiting", "query", "run"}],
               ports' \subseteq Ports, arrived' \in 0..2, routes' \subseteq Programs,
               refusals' \in 0..MaxRefusals
        PROVE  TypeOK'
    BY <1>0, <1>1, <1>3 DEF TypeOK, MessagesFrame, senderVars, receiverVars, handlerVars,
                            threadVars, kernelVars
  <1>4. CASE register_application(g)
    <2>1. refusals' \in 0..MaxRefusals /\ (refusals' = 0 => refusals = 0)
      BY <1>0, <1>4, RefuseFacts DEF register_application, TypeOK
    <2>2. ports' \subseteq Ports /\ (refusals' = 0 => ports' = ports \cup {inbound_port[g]})
      BY <1>0, <1>4, RefuseFacts, Widths DEF register_application, TypeOK
    <2>3. stage' = [stage EXCEPT ![g] = "barrier"] /\ stage[g] = "register"
             /\ UNCHANGED <<arrived, routes>>
      BY <1>4 DEF register_application
    <2>4. TypeOK'
      BY <1>0, <1>3, <2>1, <2>2, <2>3 DEF TypeOK
    <2>5. \A h \in Programs : Past(h)' <=> Past(h)
      BY <1>0, <2>3 DEF Past, TypeOK
    <2>6. SetupInv'
      BY <1>0, <2>1, <2>2, <2>3, <2>5 DEF SetupInv, TypeOK, Programs
    <2> QED  BY <1>2, <2>4, <2>6 DEF LiteInv
  <1>5. CASE dist_barrier(g)
    <2>1. refusals' \in 0..MaxRefusals /\ (refusals' = 0 => refusals = 0 /\ stage'[g] = "waiting")
      BY <1>0, <1>5, RefuseFacts DEF dist_barrier, TypeOK
    <2>2. /\ stage[g] = "barrier"
          /\ stage' \in [Programs -> {"register", "barrier", "waiting", "query", "run"}]
          /\ stage'[g] \in {"waiting", "query"} /\ UNCHANGED <<ports, routes>>
          /\ \A h \in Programs \ {g} : stage'[h] = stage[h]
          /\ arrived' \in {arrived, arrived + 1}
      BY <1>0, <1>5 DEF dist_barrier, TypeOK
    <2>3. ~Past(g) /\ Past(g)' /\ \A h \in Programs \ {g} : Past(h)' <=> Past(h)
      BY <2>2 DEF Past
    <2>4. arrived' <= (IF Past("server")' THEN 1 ELSE 0) + (IF Past("client")' THEN 1 ELSE 0)
      BY <1>0, <2>2, <2>3 DEF SetupInv, TypeOK, Programs
    <2>5. TypeOK'
      BY <1>0, <1>3, <2>1, <2>2, <2>4 DEF TypeOK
    <2>6. SetupInv'
      BY <1>0, <2>1, <2>2, <2>3, <2>4 DEF SetupInv
    <2> QED  BY <1>2, <2>5, <2>6 DEF LiteInv
  <1>6. CASE KernelBarrier(g)
    <2>1. stage' = [stage EXCEPT ![g] = "query"] /\ stage[g] = "waiting"
             /\ UNCHANGED <<ports, arrived, routes, refusals>> /\ arrived >= 2
      BY <1>6 DEF KernelBarrier, BarrierNum
    <2>2. TypeOK'
      BY <1>0, <1>3, <2>1 DEF TypeOK
    <2>3. \A h \in Programs : Past(h)' <=> Past(h)
      BY <1>0, <2>1 DEF Past, TypeOK
    <2>4. \A h \in Programs : Past(h)
      BY <1>0, <2>1 DEF SetupInv, Programs, TypeOK
    <2>5. SetupInv'
      BY <1>0, <2>1, <2>3, <2>4 DEF SetupInv, TypeOK, Programs
    <2> QED  BY <1>2, <2>2, <2>5 DEF LiteInv
  <1>7. CASE query_port(g)
    <2>1. refusals' \in 0..MaxRefusals /\ (refusals' = 0 => refusals = 0)
      BY <1>0, <1>7, RefuseFacts DEF query_port, TypeOK
    <2>2. stage' = [stage EXCEPT ![g] = "run"] /\ stage[g] = "query" /\ UNCHANGED <<ports, arrived>>
      BY <1>7 DEF query_port
    <2>3. refusals = 0 => outbound_port[g] \in ports
      <3>1. PICK h \in Programs : inbound_port[h] = outbound_port[g]
        BY DEF inbound_port, outbound_port, Programs
      <3> QED  BY <1>0, <2>2, <3>1 DEF SetupInv, Past
    <2>4. routes' \in {routes, routes \cup {g}} /\ (refusals' = 0 => routes' = routes \cup {g})
      BY <1>0, <1>7, <2>1, <2>3, RefuseFacts DEF query_port
    <2>5. TypeOK'
      BY <1>0, <1>3, <2>1, <2>2, <2>4 DEF TypeOK
    <2>6. \A h \in Programs : Past(h)' <=> Past(h)
      BY <1>0, <2>2 DEF Past, TypeOK
    <2>7. SetupInv'
      BY <1>0, <2>1, <2>2, <2>4, <2>6 DEF SetupInv, TypeOK, Programs
    <2> QED  BY <1>2, <2>5, <2>7 DEF LiteInv
  <1> QED  BY <1>4, <1>5, <1>6, <1>7 DEF SetupStep

-----------------------------------------------------------------------------
(***************************************************************************)
(* What a step of one side leaves alone.                                   *)
(***************************************************************************)

\* A step of the threads leaves the ports and routes as they are.
LEMMA SetupKept ==
    ASSUME SetupInv, UNCHANGED setupVars, refusals' = 0 => refusals = 0
    PROVE  SetupInv'
  BY DEF SetupInv, setupVars, Past

\* A step of a receiver takes nothing from the senders.
SendersFrame ==
    /\ UNCHANGED <<word, result, plain>>
    /\ \A s \in Senders : pc'[s] = pc[s] /\ calls'[s] = calls[s] /\ ret'[s] = ret[s]
    /\ replied \subseteq replied'

\* Then the words and what was returned stay true, and a sender's message ends
\* as it does for everybody.
LEMMA SendersKept ==
    ASSUME LiteInv, SendersFrame
    PROVE  /\ WordInv' /\ HandlerInv' /\ OwnReply'
           /\ \A m \in Messages : Sent(m)' <=> Sent(m)
           /\ (\A m \in Messages : Live(m)' => Live(m)) => OwnInv'
  <1> USE DEF LiteInv, SendersFrame
  <1>1. WordInv' /\ HandlerInv'
    BY Values DEF WordInv, HandlerInv, InHandler, Alone
  <1>2. \A s \in Senders : \A m : Current(s, m)' <=> Current(s, m)
    BY DEF Current
  <1>3. \A s \in Senders : (Alone(s)' <=> Alone(s)) /\ (OneProcess(s)' <=> OneProcess(s))
    BY DEF Alone, OneProcess
  <1>4. OwnReply'
    BY <1>2, <1>3 DEF OwnReply
  <1>5. \A m \in Messages : Sent(m)' <=> Sent(m)
    BY MessageFacts DEF Sent
  <1>6. ASSUME \A m \in Messages : Live(m)' => Live(m)  PROVE OwnInv'
    BY <1>2, <1>3, <1>6 DEF OwnInv, InHandler
  <1> QED  BY <1>1, <1>4, <1>5, <1>6

\* A step of a sender or of the kernel takes nothing from the receivers.
ReceiversFrame ==
    /\ UNCHANGED receiverVars /\ UNCHANGED replied
    /\ \A r \in Receivers : pc'[r] = pc[r] /\ ret'[r] = ret[r]

\* Then what they hold is as it was, unless it is sent again.
LEMMA ReceiversKept ==
    ASSUME LiteInv, ReceiversFrame, replies' \subseteq replies,
           \A m \in Messages : Sent(m) => Sent(m)',
           \A r \in Receivers, m \in Messages : Holds(r, m) => m \notin Range(Inbox)'
    PROVE  /\ HeldInv' /\ ReceiverInv' /\ ReplyInv'
           /\ \A r \in Receivers, m \in Messages : Holds(r, m)' <=> Holds(r, m)
  <1> USE DEF LiteInv, ReceiversFrame, receiverVars, handlerVars, threadVars
  <1>1. \A r \in Receivers, m \in Messages : Holds(r, m)' <=> Holds(r, m)
    BY DEF Holds, HeldBy
  <1>2. HeldInv'
    BY <1>1 DEF HeldInv
  <1>3. ReceiverInv'
    BY DEF ReceiverInv, ReceiveLength
  <1>4. ReplyInv'
    BY MessageFacts DEF ReplyInv, TypeOK
  <1> QED  BY <1>1, <1>2, <1>3, <1>4

-----------------------------------------------------------------------------
(***************************************************************************)
(* Receivers.                                                              *)
(***************************************************************************)

\* The kernel gives the first message of the inbox to receiver r.
LEMMA TakeFacts ==
    ASSUME LiteInv, NEW r \in Receivers, NEW p, p = inbound_port["server"], Take(r, p)
    PROVE  LET m == Head(Inbox) IN
           /\ m \in Messages /\ m \in Range(Inbox) /\ got' = [got EXCEPT ![r] = m]
           /\ descriptor' = IF m.from = None THEN IMM_SEND_ONLY_FLAG ELSE m
           /\ queue' \in [Ports -> Seq(Messages)] /\ IsInjective(Inbox)'
           /\ Range(Inbox)' = Range(Inbox) \ {m}
           /\ \A o \in Ports \ {inbound_port["server"]} : queue'[o] = queue[o]
  <1> DEFINE m == Head(Inbox)
  <1>1. p \in Ports /\ Inbox \in Seq(Messages) /\ IsInjective(Inbox)
    BY Widths DEF LiteInv, TypeOK, QueueInv, Inbox, Programs
  <1>2. Inbox # <<>> /\ queue' = [queue EXCEPT ![p] = Tail(Inbox)]
    BY DEF Take, Inbox
  <1>3. /\ m \in Messages /\ m \in Range(Inbox) /\ Tail(Inbox) \in Seq(Messages)
        /\ IsInjective(Tail(Inbox)) /\ Range(Tail(Inbox)) = Range(Inbox) \ {m}
    BY <1>1, <1>2, QueueTail
  <1>4. /\ queue' \in [Ports -> Seq(Messages)] /\ Inbox' = Tail(Inbox)
        /\ \A o \in Ports \ {inbound_port["server"]} : queue'[o] = queue[o]
    BY <1>1, <1>2, <1>3 DEF LiteInv, TypeOK, Inbox
  <1>5. /\ got' = [got EXCEPT ![r] = m]
        /\ descriptor' = IF m.from = None THEN IMM_SEND_ONLY_FLAG ELSE m
    BY DEF Take, Inbox
  <1> QED  BY <1>3, <1>4, <1>5

\* Receiver r has taken a message and polls: the message has moved from the
\* inbox to r.
LEMMA TakePreserves ==
    ASSUME LiteInv, NEW r \in Receivers, Take(r, inbound_port["server"]),
           SendersFrame, UNCHANGED <<replies, replied>>,
           pc' = [pc EXCEPT ![r] = "poll"], UNCHANGED held, ~\E x \in Messages : Holds(r, x),
           \A q \in Receivers \ {r} : pc[q] # "poll"
    PROVE  /\ QueueInv' /\ HeldInv' /\ ReplyInv' /\ OwnInv'
           /\ descriptor' \in Messages \cup {IMM_SEND_ONLY_FLAG, Zero}
           /\ got' \in [Receivers -> Messages \cup {None}]
  <1> DEFINE m == Head(Inbox)
  <1> USE DEF LiteInv
  <1>1. /\ m \in Messages /\ m \in Range(Inbox) /\ got' = [got EXCEPT ![r] = m]
        /\ descriptor' = IF m.from = None THEN IMM_SEND_ONLY_FLAG ELSE m
        /\ queue' \in [Ports -> Seq(Messages)] /\ IsInjective(Inbox)'
        /\ Range(Inbox)' = Range(Inbox) \ {m}
        /\ \A o \in Ports \ {inbound_port["server"]} : queue'[o] = queue[o]
    BY TakeFacts
  <1> HIDE DEF m
  <1>2. Range(Inbox) \subseteq Messages
    BY Widths DEF TypeOK, Inbox, Range, Programs
  <1>3. \A x \in Messages : Sent(x)' <=> Sent(x)
    BY SendersKept
  <1>4. QueueInv'
    BY <1>1, <1>2, <1>3 DEF QueueInv
  <1>5. \A x \in Messages : Holds(r, x)' => x = m /\ m.from # None
    BY <1>1, Values DEF Holds, HeldBy, TypeOK
  <1>6. \A q \in Receivers \ {r}, x \in Messages : Holds(q, x)' <=> Holds(q, x)
    BY <1>1, Values DEF Holds, HeldBy, TypeOK
  <1>7. \A q \in Receivers, x \in Messages : Holds(q, x) => x # m
    BY <1>1 DEF HeldInv
  <1>8. Sent(m) /\ m \notin replied
    BY <1>1 DEF QueueInv
  <1>9. HeldInv'
    <2> SUFFICES ASSUME NEW q \in Receivers, NEW x \in Messages, Holds(q, x)'
                 PROVE  (/\ Sent(x) /\ x.from # None /\ x \notin replied
                         /\ x \notin Range(Inbox)
                         /\ \A o \in Receivers : Holds(o, x) => o = q)'
      BY DEF HeldInv
    <2>1. CASE q = r
      BY <1>1, <1>3, <1>5, <1>6, <1>7, <1>8, <2>1
    <2>2. CASE q # r
      <3>1. Holds(q, x) /\ x # m
        BY <1>6, <1>7, <2>2
      <3> QED  BY <1>1, <1>3, <1>5, <1>6, <2>2, <3>1 DEF HeldInv
    <2> QED  BY <2>1, <2>2
  <1>10. ReplyInv'
    BY <1>3 DEF ReplyInv, TypeOK
  <1>11. \A x \in Messages : Live(x)' => Live(x)
    BY <1>1, <1>5, <1>6 DEF Live
  <1>12. OwnInv'
    BY <1>11, SendersKept
  <1>13. /\ descriptor' \in Messages \cup {IMM_SEND_ONLY_FLAG, Zero}
         /\ got' \in [Receivers -> Messages \cup {None}]
    BY <1>1 DEF TypeOK
  <1> QED  BY <1>4, <1>9, <1>10, <1>12, <1>13

\* A receive waits at the server's port.
LEMMA PortOfReceive ==
    ASSUME NEW r \in Receivers  PROVE ReceivePort(r) = inbound_port["server"]
  BY PortKept, Widths, Sizes DEF ReceivePort, Programs

\* A step in which no receiver takes a message moves none.
LEMMA NothingTaken ==
    ASSUME LiteInv, SendersFrame, UNCHANGED <<queue, replies, replied>>,
           \A q \in Receivers, x \in Messages : Holds(q, x)' => Holds(q, x)
    PROVE  (QueueInv /\ HeldInv /\ ReplyInv /\ WordInv /\ HandlerInv /\ OwnInv /\ OwnReply)'
  <1> USE DEF LiteInv
  <1>1. Inbox' = Inbox /\ Range(Inbox) \subseteq Messages
    BY Widths DEF TypeOK, Inbox, Range, Programs
  <1>2. \A m \in Messages : Sent(m)' <=> Sent(m)
    BY SendersKept
  <1>3. QueueInv' /\ HeldInv' /\ ReplyInv'
    BY <1>1, <1>2 DEF QueueInv, HeldInv, ReplyInv, TypeOK
  <1>4. \A m \in Messages : Live(m)' => Live(m)
    BY <1>1 DEF Live
  <1>5. WordInv' /\ HandlerInv' /\ OwnInv' /\ OwnReply'
    BY <1>4, SendersKept
  <1> QED  BY <1>3, <1>5

\* receive_message_fast: served at once, left waiting or refused.
LEMMA ReceivePreserves ==
    ASSUME LiteInv, NEW r \in Receivers, receive_message_fast(r)  PROVE LiteInv'
  <1> USE DEF LiteInv
  <1>1. pc' = [pc EXCEPT ![r] = "poll"] /\ pc[r] = "idle"
           /\ calls' = [calls EXCEPT ![r] = @ + 1] /\ \A q \in Receivers : pc[q] # "poll"
    BY DEF receive_message_fast, Receiving, ServerHandlerFree, Goto
  <1>2. /\ UNCHANGED <<setupVars, result, senderVars, ret_length, length, held, serverUp>>
        /\ UNCHANGED <<replies, replied>>
    BY DEF receive_message_fast
  <1>3. ~\E x \in Messages : Holds(r, x)
    BY <1>1, Values DEF Holds, HeldBy
  <1>4. pending = None
    BY <1>1 DEF ReceiverInv
  <1>5. calls' \in [Threads -> Nat]
    BY <1>1, Values DEF TypeOK
  <1>6. /\ pc' \in [Threads -> {"start", "idle", "poll", "return", "reply", "dead"}]
        /\ pc'[r] = "poll"
        /\ \A q \in Receivers \ {r} : pc'[q] = pc[q] /\ pc'[q] # "poll"
    BY <1>1, Values DEF TypeOK
  <1>7. CASE /\ Take(r, ReceivePort(r))
             /\ ret' = [ret EXCEPT ![r] = got'[r].size] /\ UNCHANGED <<pending, refusals>>
    <2> DEFINE m == Head(Inbox)
    <2>1. SendersFrame
      BY <1>1, <1>2, <1>7, Values DEF SendersFrame, senderVars, TypeOK
    <2>2. Take(r, inbound_port["server"])
      BY <1>7, PortOfReceive
    <2>3. /\ m \in Messages /\ got' = [got EXCEPT ![r] = m]
          /\ descriptor' = IF m.from = None THEN IMM_SEND_ONLY_FLAG ELSE m
          /\ queue' \in [Ports -> Seq(Messages)]
      BY <2>2, TakeFacts
    <2> HIDE DEF m
    <2>4. /\ QueueInv' /\ HeldInv' /\ ReplyInv' /\ OwnInv'
          /\ descriptor' \in Messages \cup {IMM_SEND_ONLY_FLAG, Zero}
          /\ got' \in [Receivers -> Messages \cup {None}]
      BY <1>1, <1>2, <1>3, <2>1, <2>2, TakePreserves
    <2>5. got'[r] = m /\ m.size \in Nat /\ ret' = [ret EXCEPT ![r] = m.size]
      BY <1>7, <2>3, MessageFacts DEF TypeOK
    <2>6. TypeOK'
      BY <1>2, <1>5, <1>6, <1>7, <2>3, <2>4, <2>5, Values
         DEF TypeOK, setupVars, senderVars
    <2>7. ReceiverInv'
      <3>1. ReceiveLength(r)' = m.size
        BY <2>5, Values DEF ReceiveLength, TypeOK
      <3>2. \A q \in Receivers \ {r} : UNCHANGED <<held[q], got[q], length[q]>>
        BY <1>2, <2>3 DEF TypeOK
      <3> QED  BY <1>4, <1>6, <1>7, <2>3, <2>5, <3>1, <3>2 DEF ReceiverInv
    <2>8. WordInv' /\ HandlerInv' /\ OwnReply'
      BY <2>1, SendersKept
    <2>9. SetupInv'
      BY <1>2, <1>7, SetupKept
    <2> QED  BY <2>4, <2>6, <2>7, <2>8, <2>9
  <1>8. CASE /\ ret' = [ret EXCEPT ![r] = -1]
             /\ descriptor' = ClearedDescriptor
             /\ \/ pending' = ReceivePort(r) /\ UNCHANGED refusals
                \/ Refuse /\ UNCHANGED pending
             /\ UNCHANGED <<queue, got>>
    <2>1. SendersFrame
      BY <1>1, <1>2, <1>8, Values DEF SendersFrame, senderVars, TypeOK
    <2>2. refusals' \in 0..MaxRefusals /\ (refusals' = 0 => refusals = 0)
      BY <1>8, RefuseFacts DEF TypeOK
    <2>3. pending' \in Ports \cup {None} /\ pending' \in {inbound_port["server"], None}
      <3>1. ReceivePort(r) = inbound_port["server"] /\ ReceivePort(r) \in Ports
        BY PortOfReceive, Widths DEF Programs
      <3> QED  BY <1>4, <1>8, <3>1
    <2>4. descriptor' = Zero /\ ret'[r] = -1
      BY <1>8, Values DEF ClearedDescriptor, TypeOK
    <2>5. TypeOK'
      BY <1>2, <1>5, <1>6, <1>8, <2>2, <2>3, <2>4 DEF TypeOK, setupVars, senderVars
    <2>6. \A q \in Receivers, x \in Messages : Holds(q, x)' => Holds(q, x)
      BY <1>2, <1>6, <2>4, Values DEF Holds, HeldBy
    <2>7. (QueueInv /\ HeldInv /\ ReplyInv /\ WordInv /\ HandlerInv /\ OwnInv /\ OwnReply)'
      BY <1>2, <1>8, <2>1, <2>6, NothingTaken
    <2>8. ReceiverInv'
      BY <1>2, <1>6, <1>8, <2>3, <2>4 DEF ReceiverInv
    <2>9. SetupInv'
      BY <1>2, <2>2, SetupKept
    <2> QED  BY <2>5, <2>7, <2>8, <2>9
  <1> QED  BY <1>7, <1>8 DEF receive_message_fast

\* KernelServe: a receive that waits gets its message.
LEMMA ServePreserves ==
    ASSUME LiteInv, NEW r \in Receivers, KernelServe(r)  PROVE LiteInv'
  <1> USE DEF LiteInv
  <1> DEFINE m == Head(Inbox)
  <1>1. /\ pc[r] = "poll" /\ descriptor = Zero /\ ret[r] = -1
        /\ pending = inbound_port["server"] /\ \A q \in Receivers \ {r} : pc[q] # "poll"
    BY DEF KernelServe, ReceiverInv
  <1>2. /\ Take(r, inbound_port["server"]) /\ pending' = None
        /\ ret_length' = got'[r].size
        /\ UNCHANGED <<setupVars, refusals, pc, calls, ret, result, senderVars, length, held>>
        /\ UNCHANGED <<serverUp, replies, replied>>
    BY <1>1 DEF KernelServe
  <1>3. SendersFrame /\ pc' = [pc EXCEPT ![r] = "poll"] /\ ~\E x \in Messages : Holds(r, x)
    BY <1>1, <1>2, Values DEF SendersFrame, senderVars, Holds, HeldBy, TypeOK
  <1>4. /\ m \in Messages /\ got' = [got EXCEPT ![r] = m]
        /\ descriptor' = IF m.from = None THEN IMM_SEND_ONLY_FLAG ELSE m
        /\ queue' \in [Ports -> Seq(Messages)]
    BY <1>2, TakeFacts
  <1> HIDE DEF m
  <1>5. /\ QueueInv' /\ HeldInv' /\ ReplyInv' /\ OwnInv'
        /\ descriptor' \in Messages \cup {IMM_SEND_ONLY_FLAG, Zero}
        /\ got' \in [Receivers -> Messages \cup {None}]
    BY <1>1, <1>2, <1>3, TakePreserves
  <1>6. got'[r] = m /\ m.size \in Nat /\ ret_length' = m.size
    BY <1>2, <1>4, MessageFacts DEF TypeOK
  <1>7. TypeOK'
    BY <1>2, <1>4, <1>5, <1>6 DEF TypeOK, setupVars, senderVars
  <1>8. ReceiverInv'
    <2>1. ReceiveLength(r)' = m.size
      BY <1>1, <1>2, <1>6 DEF ReceiveLength
    <2>2. \A q \in Receivers \ {r} : got'[q] = got[q]
      BY <1>4 DEF TypeOK
    <2> QED  BY <1>1, <1>2, <1>4, <1>6, <2>1, <2>2 DEF ReceiverInv
  <1>9. WordInv' /\ HandlerInv' /\ OwnReply'
    BY <1>3, SendersKept
  <1>10. SetupInv'
    BY <1>2, SetupKept
  <1> QED  BY <1>5, <1>7, <1>8, <1>9, <1>10

\* ReceivePoll: the message is handed to the server's thread, or is lost with
\* the router.
LEMMA ReceivePollPreserves ==
    ASSUME LiteInv, NEW r \in Receivers, ReceivePoll(r)  PROVE LiteInv'
  <1> USE DEF LiteInv
  <1>1. /\ pc[r] = "poll" /\ descriptor # Zero
        /\ descriptor' = ReceiveDescriptor /\ ret' = [ret EXCEPT ![r] = 0]
        /\ UNCHANGED <<setupVars, refusals, calls, result, senderVars, ret_length, pending, got>>
        /\ UNCHANGED <<serverUp, queue, replies, replied>>
    BY DEF ReceivePoll, ReceiveDone, kernelVars
  <1>2. \/ /\ pc' = [pc EXCEPT ![r] = "reply"] /\ length' = [length EXCEPT ![r] = ReceiveLength(r)]
           /\ held' = [held EXCEPT ![r] = ReceiveDescriptor]
        \/ pc' = [pc EXCEPT ![r] = "dead"] /\ UNCHANGED <<length, held>>
    BY DEF ReceivePoll, Goto
  <1>3. /\ got[r] \in Messages /\ ReceiveLength(r) = got[r].size /\ ReceiveLength(r) \in Nat
        /\ descriptor = IF got[r].from = None THEN IMM_SEND_ONLY_FLAG ELSE got[r]
        /\ pending = None /\ \A q \in Receivers \ {r} : pc[q] # "poll"
    BY <1>1, MessageFacts DEF ReceiverInv
  <1>4. /\ ReceiveDescriptor = IF got[r].from = None THEN Zero ELSE got[r]
        /\ ReceiveDescriptor \in Messages \cup {Zero}
    BY <1>3, Values DEF ReceiveDescriptor
  <1>5. /\ pc' \in [Threads -> {"start", "idle", "poll", "return", "reply", "dead"}]
        /\ \A s \in Senders : pc'[s] = pc[s]
        /\ pc'[r] \in {"reply", "dead"} /\ \A q \in Receivers \ {r} : pc'[q] = pc[q]
    BY <1>2, Values DEF TypeOK
  <1>6. /\ length' \in [Receivers -> Nat] /\ held' \in [Receivers -> Messages \cup {Zero}]
        /\ \A q \in Receivers \ {r} : length'[q] = length[q] /\ held'[q] = held[q]
        /\ pc'[r] = "reply" => length'[r] = ReceiveLength(r) /\ held'[r] = ReceiveDescriptor
    <2>1. CASE /\ length' = [length EXCEPT ![r] = ReceiveLength(r)]
               /\ held' = [held EXCEPT ![r] = ReceiveDescriptor]
      BY <1>3, <1>4, <2>1 DEF TypeOK
    <2>2. CASE pc' = [pc EXCEPT ![r] = "dead"] /\ UNCHANGED <<length, held>>
      BY <2>2, Values DEF TypeOK
    <2> QED  BY <1>2, <2>1, <2>2
  <1>7. ret' \in [Threads -> Nat \cup {-1}] /\ \A t \in Threads \ {r} : ret'[t] = ret[t]
    BY <1>1, Values DEF TypeOK
  <1>8. TypeOK'
    BY <1>1, <1>4, <1>5, <1>6, <1>7 DEF TypeOK, setupVars, senderVars
  <1>9. SendersFrame
    BY <1>1, <1>5, <1>7, Values DEF SendersFrame, senderVars
  <1>10. \A q \in Receivers, x \in Messages : Holds(q, x)' => Holds(q, x)
    <2>1. ASSUME NEW x \in Messages, Holds(r, x)'  PROVE Holds(r, x)
      BY <1>1, <1>3, <1>4, <1>5, <1>6, <2>1, Values DEF Holds, HeldBy
    <2>2. ASSUME NEW q \in Receivers \ {r}, NEW x \in Messages, Holds(q, x)'  PROVE Holds(q, x)
      BY <1>3, <1>5, <1>6, <2>2 DEF Holds, HeldBy
    <2> QED  BY <2>1, <2>2
  <1>11. (QueueInv /\ HeldInv /\ ReplyInv /\ WordInv /\ HandlerInv /\ OwnInv /\ OwnReply)'
    BY <1>1, <1>9, <1>10, NothingTaken
  <1>12. ReceiverInv'
    BY <1>1, <1>3, <1>4, <1>5, <1>6 DEF ReceiverInv
  <1>13. SetupInv'
    BY <1>1, SetupKept
  <1> QED  BY <1>8, <1>11, <1>12, <1>13

\* ServerDies: receivers that do not poll are gone, with what they hold.
LEMMA DeathPreserves == ASSUME LiteInv, ServerDies  PROVE LiteInv'
  <1> USE DEF LiteInv
  <1>1. /\ UNCHANGED <<setupVars, refusals, calls, ret, result, senderVars, descriptor, held>>
        /\ UNCHANGED <<ret_length, pending, got, length, queue, replies, replied>>
        /\ serverUp' = FALSE
        /\ pc' = [t \in Threads |-> IF t \in Receivers /\ pc[t] \in {"idle", "reply"} THEN "dead"
                                    ELSE pc[t]]
    BY DEF ServerDies, handlerVars, kernelVars
  <1>2. /\ pc' \in [Threads -> {"start", "idle", "poll", "return", "reply", "dead"}]
        /\ \A s \in Senders : pc'[s] = pc[s]
        /\ \A q \in Receivers : pc'[q] \in {pc[q], "dead"} /\ (pc[q] = "poll" => pc'[q] = "poll")
    BY <1>1, Values DEF TypeOK
  <1>3. TypeOK'
    BY <1>1, <1>2 DEF TypeOK, setupVars, senderVars
  <1>4. SendersFrame
    BY <1>1, <1>2 DEF SendersFrame, senderVars
  <1>5. \A q \in Receivers, x \in Messages : Holds(q, x)' => Holds(q, x)
    BY <1>1, <1>2, Values DEF Holds, HeldBy
  <1>6. (QueueInv /\ HeldInv /\ ReplyInv /\ WordInv /\ HandlerInv /\ OwnInv /\ OwnReply)'
    BY <1>1, <1>4, <1>5, NothingTaken
  <1>7. ReceiverInv'
    <2>1. \A q \in Receivers : ReceiveLength(q)' = ReceiveLength(q)
      BY <1>1 DEF ReceiveLength
    <2> QED  BY <1>1, <1>2, <2>1 DEF ReceiverInv
  <1>8. SetupInv'
    BY <1>1, SetupKept
  <1> QED  BY <1>3, <1>6, <1>7, <1>8

\* reply_message: the message that r holds is replied to, or dropped.
LEMMA ReplyPreserves ==
    ASSUME LiteInv, NEW r \in Receivers, reply_message(r)  PROVE LiteInv'
  <1> USE DEF LiteInv
  <1> DEFINE m == held[r]
  <1>1. /\ pc[r] = "reply" /\ pc' = [pc EXCEPT ![r] = "idle"]
        /\ length' = [length EXCEPT ![r] = 0] /\ got' = [got EXCEPT ![r] = None]
        /\ held' = [held EXCEPT ![r] = Zero] /\ \A q \in Receivers : pc[q] # "poll"
        /\ UNCHANGED <<setupVars, calls, ret, result, senderVars, descriptor, ret_length>>
        /\ UNCHANGED <<pending, serverUp, queue>>
    BY DEF reply_message, Replying, ServerHandlerFree, Goto, handlerVars
  <1>2. /\ pc' \in [Threads -> {"start", "idle", "poll", "return", "reply", "dead"}]
        /\ length' \in [Receivers -> Nat] /\ got' \in [Receivers -> Messages \cup {None}]
        /\ held' \in [Receivers -> Messages \cup {Zero}]
        /\ pc'[r] = "idle" /\ \A s \in Senders : pc'[s] = pc[s]
        /\ \A q \in Receivers \ {r} : UNCHANGED <<pc[q], length[q], held[q], got[q]>>
    BY <1>1, Values DEF TypeOK
  <1>3. ReceiverInv'
    <2>1. pending = None /\ \A q \in Receivers : pc'[q] # "poll"
      BY <1>1, <1>2 DEF ReceiverInv
    <2> QED  BY <1>1, <1>2, <2>1 DEF ReceiverInv
  <1>4. \A q \in Receivers, x \in Messages : Holds(q, x)' <=> q # r /\ Holds(q, x)
    <2>1. \A x \in Messages : ~Holds(r, x)'
      BY <1>2, Values DEF Holds, HeldBy
    <2>2. \A q \in Receivers \ {r}, x \in Messages : Holds(q, x)' <=> Holds(q, x)
      BY <1>1, <1>2 DEF Holds, HeldBy
    <2> QED  BY <2>1, <2>2
  <1>5. \/ UNCHANGED <<replies, replied>> /\ (UNCHANGED refusals \/ Refuse)
        \/ /\ m \in Messages /\ UNCHANGED refusals
           /\ replies' = replies \cup {[to |-> m, length |-> ReplySize[r]]}
           /\ replied' = replied \cup {m}
    BY DEF reply_message
  <1>6. refusals' \in 0..MaxRefusals /\ (refusals' = 0 => refusals = 0)
    BY <1>5, RefuseFacts DEF TypeOK
  <1>7. SetupInv'
    BY <1>1, <1>6, SetupKept
  <1>8. SendersFrame
    BY <1>1, <1>2, <1>5 DEF SendersFrame, senderVars
  <1>9. CASE UNCHANGED <<replies, replied>>
    <2>1. (QueueInv /\ HeldInv /\ ReplyInv /\ WordInv /\ HandlerInv /\ OwnInv /\ OwnReply)'
      BY <1>1, <1>4, <1>8, <1>9, NothingTaken
    <2>2. TypeOK'
      BY <1>1, <1>2, <1>6, <1>9 DEF TypeOK, setupVars, senderVars
    <2> QED  BY <1>3, <1>7, <2>1, <2>2
  <1>10. CASE /\ m \in Messages
              /\ replies' = replies \cup {[to |-> m, length |-> ReplySize[r]]}
              /\ replied' = replied \cup {m}
    <2> DEFINE x == [to |-> m, length |-> ReplySize[r]]
    <2>1. x \in Replies /\ x.to = m
      BY <1>10, MessageFacts, Sizes
    <2>2. /\ Holds(r, m) /\ Sent(m) /\ m.from # None
          /\ m \notin replied /\ m \notin Range(Inbox)
          /\ \A q \in Receivers : Holds(q, m) => q = r
      BY <1>1, <1>10 DEF HeldInv, Holds, HeldBy
    <2> HIDE DEF m, x
    <2>3. replies' = replies \cup {x} /\ replied' = replied \cup {m} /\ m \in Messages
      BY <1>10 DEF x
    <2>4. TypeOK'
      BY <1>1, <1>2, <1>6, <2>1, <2>3 DEF TypeOK, setupVars, senderVars
    <2>5. \A y \in Messages : Sent(y)' <=> Sent(y)
      BY <1>8, SendersKept
    <2>6. Inbox' = Inbox /\ Range(Inbox) \subseteq Messages
      BY <1>1, Widths DEF TypeOK, Inbox, Range, Programs
    <2>7. QueueInv'
      BY <1>1, <2>2, <2>3, <2>5, <2>6 DEF QueueInv
    <2>8. HeldInv'
      BY <1>4, <2>2, <2>3, <2>5, <2>6 DEF HeldInv
    <2>9. ReplyInv'
      BY <2>1, <2>2, <2>3, <2>5, MessageFacts DEF ReplyInv, TypeOK
    <2>10. \A y \in Messages : Live(y)' => Live(y)
      BY <1>4, <2>1, <2>2, <2>3, <2>6 DEF Live
    <2>11. WordInv' /\ HandlerInv' /\ OwnInv' /\ OwnReply'
      BY <1>8, <2>10, SendersKept
    <2> QED  BY <1>3, <1>7, <2>4, <2>7, <2>8, <2>9, <2>11
  <1> QED  BY <1>5, <1>9, <1>10

-----------------------------------------------------------------------------
(***************************************************************************)
(* The kernel's answers.                                                   *)
(***************************************************************************)

\* A message that lives was sent, and its sender and number tell which it is.
LEMMA LiveMessages ==
    ASSUME LiteInv
    PROVE  /\ Range(Inbox) \subseteq Messages
           /\ \A m \in Messages : Live(m) => Sent(m)
           /\ \A m, n \in Messages : Live(m) /\ Live(n) /\ m.from = n.from /\ m.no = n.no
                                     /\ m.from # None => m = n
  <1>1. Range(Inbox) \subseteq Messages
    BY Widths DEF LiteInv, TypeOK, Inbox, Range, Programs
  <1>2. \A m \in Messages : Live(m) => Sent(m)
    BY DEF LiteInv, Live, QueueInv, HeldInv, ReplyInv
  <1>3. ASSUME NEW m \in Messages, NEW n \in Messages, Live(m), Live(n),
               m.from = n.from, m.no = n.no, m.from # None
        PROVE  m = n
    <2>1. m.size = n.size /\ m.room = n.room
      BY <1>2, <1>3 DEF Sent
    <2> QED  BY <1>3, <2>1 DEF Messages
  <1> QED  BY <1>1, <1>2, <1>3

\* The kernel writes the end of message m to the word of its sender.
LEMMA WordWritten ==
    ASSUME LiteInv, NEW m \in Messages, m.from # None, Live(m), ~Live(m)',
           \A x \in Messages : Live(x)' => Live(x), UNCHANGED <<pc, calls, ret>>,
           NEW v \in Replies \cup {Error}, v \in Replies => v.to = m,
           word' = [word EXCEPT ![WordOf[m.from]] = v]
    PROVE  OwnInv'
  <1> USE DEF LiteInv
  <1>1. m.from \in Senders /\ WordOf[m.from] \in Words /\ \A s \in Senders : WordOf[s] \in Words
    BY MessageFacts, Values
  <1>2. v # SEND_REPLY_WAIT /\ \A w \in Words : word'[w] \in {word[w], v}
    BY <1>1, Values DEF TypeOK
  <1>3. ASSUME NEW s \in Senders, Alone(s)
        PROVE  /\ \A x \in Messages : Live(x)' /\ x.from = s =>
                    Current(s, x) /\ pc[s] = "poll" /\ ret[s] >= 0
                    /\ word'[WordOf[s]] = SEND_REPLY_WAIT
               /\ InHandler(s) /\ ret[s] >= 0 /\ word'[WordOf[s]] \in Replies =>
                    Current(s, word'[WordOf[s]].to)
    <2>1. CASE m.from = s
      <3>1. Current(s, m) /\ word'[WordOf[s]] = v
        BY <1>1, <1>3, <2>1 DEF OwnInv, TypeOK
      <3>2. \A x \in Messages : Live(x)' => x.from # s
        BY <1>3, <2>1, <3>1, LiveMessages DEF OwnInv, Current
      <3> QED  BY <3>1, <3>2
    <2>2. CASE m.from # s
      <3>1. word'[WordOf[s]] = word[WordOf[s]]
        BY <1>1, <1>3, <2>2 DEF Alone, TypeOK
      <3> QED  BY <1>3, <3>1 DEF OwnInv
    <2> QED  BY <2>1, <2>2
  <1>4. ASSUME NEW s \in Senders, OneProcess(s), pc[s] = "return", ret[s] >= 0
        PROVE  word'[WordOf[s]] # SEND_REPLY_WAIT
    BY <1>1, <1>2, <1>4 DEF OwnInv
  <1> QED  BY <1>3, <1>4 DEF OwnInv, InHandler, Current, Alone, OneProcess

\* KernelComplete: a reply, or an error for want of room, comes to the word.
LEMMA CompletePreserves == ASSUME LiteInv, KernelComplete  PROVE LiteInv'
  <1> USE DEF LiteInv
  <1>1. PICK x \in replies :
           /\ replies' = replies \ {x}
           /\ word' = [word EXCEPT ![WordOf[x.to.from]] =
                           IF x.length <= x.to.room THEN x ELSE Error]
           /\ UNCHANGED <<setupVars, refusals, pc, calls, ret, result, plain, receiverVars,
                          queue, replied>>
    BY DEF KernelComplete
  <1> DEFINE m == x.to
             v == IF x.length <= x.to.room THEN x ELSE Error
  <1>2. /\ x \in Replies /\ m \in Messages /\ m \in replied /\ m.from # None
        /\ m.from \in Senders /\ WordOf[m.from] \in Words
        /\ \A y \in replies : y.to = m => y = x
    BY MessageFacts, Values DEF ReplyInv, TypeOK
  <1>3. /\ v \in Replies \cup {Error} /\ (v \in Replies => v = x /\ x.length <= m.room)
        /\ v # Zero
    BY <1>2, Values
  <1> HIDE DEF v
  <1>4. word' = [word EXCEPT ![WordOf[m.from]] = v]
    BY <1>1 DEF v
  <1>5. TypeOK'
    BY <1>1, <1>2, <1>3, <1>4 DEF TypeOK, setupVars, receiverVars, handlerVars, threadVars
  <1>6. Inbox' = Inbox /\ \A y \in Messages : Sent(y)' <=> Sent(y)
    BY <1>1, MessageFacts DEF Inbox, Sent
  <1>7. QueueInv'
    BY <1>1, <1>6, LiveMessages DEF QueueInv
  <1>8. /\ HeldInv' /\ ReceiverInv' /\ ReplyInv'
        /\ \A r \in Receivers, y \in Messages : Holds(r, y)' <=> Holds(r, y)
    <2>1. ReceiversFrame /\ replies' \subseteq replies
      BY <1>1 DEF ReceiversFrame
    <2>2. \A r \in Receivers, y \in Messages : Holds(r, y) => y \notin Range(Inbox)'
      BY <1>6 DEF HeldInv
    <2> QED  BY <1>6, <2>1, <2>2, ReceiversKept
  <1>9. WordInv' /\ HandlerInv'
    BY <1>1, <1>2, <1>3, <1>4, Values DEF WordInv, HandlerInv, InHandler, Alone, TypeOK
  <1>10. Live(m) /\ ~Live(m)' /\ \A y \in Messages : Live(y)' => Live(y)
    BY <1>1, <1>2, <1>6, <1>8 DEF Live, QueueInv, HeldInv
  <1>11. OwnInv'
    BY <1>1, <1>2, <1>3, <1>4, <1>10, WordWritten
  <1>12. OwnReply'
    BY <1>1 DEF OwnReply, Current, Alone, OneProcess
  <1>13. SetupInv'
    BY <1>1, SetupKept
  <1> QED  BY <1>5, <1>7, <1>8, <1>9, <1>11, <1>12, <1>13

\* KernelError: the first message of the inbox is given up.
LEMMA ErrorPreserves == ASSUME LiteInv, KernelError  PROVE LiteInv'
  <1> USE DEF LiteInv
  <1>1. PICK p \in Ports :
           /\ queue[p] # <<>> /\ Head(queue[p]).from # None
           /\ queue' = [queue EXCEPT ![p] = Tail(@)]
           /\ word' = [word EXCEPT ![WordOf[Head(queue[p]).from]] = Error]
           /\ Refuse
           /\ UNCHANGED <<setupVars, pc, calls, ret, result, plain, receiverVars, replies, replied>>
    BY DEF KernelError
  <1>2. p = inbound_port["server"] /\ queue[p] = Inbox
    BY <1>1 DEF QueueInv, Inbox
  <1>m. PICK m : m = Head(Inbox)
    OBVIOUS
  <1>3. /\ m \in Messages /\ m \in Range(Inbox) /\ Tail(Inbox) \in Seq(Messages)
        /\ IsInjective(Tail(Inbox)) /\ Range(Tail(Inbox)) = Range(Inbox) \ {m}
    <2>1. Inbox \in Seq(Messages) /\ Inbox # <<>> /\ IsInjective(Inbox)
      BY <1>1, <1>2 DEF TypeOK, QueueInv
    <2> QED  BY <1>m, <2>1, QueueTail
  <1>4. /\ queue' \in [Ports -> Seq(Messages)] /\ Inbox' = Tail(Inbox)
        /\ \A o \in Ports \ {inbound_port["server"]} : queue'[o] = queue[o]
    BY <1>1, <1>2, <1>3 DEF TypeOK, Inbox
  <1>5. m.from # None /\ word' = [word EXCEPT ![WordOf[m.from]] = Error]
    BY <1>m, <1>1, <1>2
  <1>6. m.from \in Senders /\ WordOf[m.from] \in Words
    BY <1>3, <1>5, MessageFacts, Values
  <1>7. refusals' \in 0..MaxRefusals /\ refusals' # 0
    BY <1>1, RefuseFacts
  <1>8. TypeOK'
    BY <1>1, <1>4, <1>5, <1>6, <1>7 DEF TypeOK, setupVars, receiverVars, handlerVars, threadVars
  <1>9. \A y \in Messages : Sent(y)' <=> Sent(y)
    BY <1>1, MessageFacts DEF Sent
  <1>10. QueueInv'
    BY <1>1, <1>3, <1>4, <1>9, LiveMessages DEF QueueInv
  <1>11. /\ HeldInv' /\ ReceiverInv' /\ ReplyInv'
         /\ \A r \in Receivers, y \in Messages : Holds(r, y)' <=> Holds(r, y)
    <2>1. ReceiversFrame /\ replies' \subseteq replies
      BY <1>1 DEF ReceiversFrame
    <2>2. \A r \in Receivers, y \in Messages : Holds(r, y) => y \notin Range(Inbox)'
      BY <1>3, <1>4 DEF HeldInv
    <2> QED  BY <1>9, <2>1, <2>2, ReceiversKept
  <1>12. WordInv' /\ HandlerInv'
    BY <1>1, <1>5, <1>6, Values DEF WordInv, HandlerInv, InHandler, Alone, TypeOK
  <1>13. Live(m) /\ ~Live(m)' /\ \A y \in Messages : Live(y)' => Live(y)
    <2>1. Range(Inbox)' = Range(Inbox) \ {m} /\ replies' = replies
      BY <1>1, <1>3, <1>4
    <2>2. m \notin replied /\ \A r \in Receivers : ~Holds(r, m)
      BY <1>3 DEF QueueInv, HeldInv
    <2>3. \A x \in replies : x.to # m
      BY <2>2 DEF ReplyInv
    <2>4. Live(m)
      BY <1>3 DEF Live
    <2>5. ~Live(m)'
      BY <1>3, <1>11, <2>1, <2>2, <2>3 DEF Live
    <2>6. \A y \in Messages : Live(y)' => Live(y)
      BY <1>11, <2>1 DEF Live
    <2> QED  BY <2>4, <2>5, <2>6
  <1>14. OwnInv'
    <2>1. Error \in Replies \cup {Error} /\ Error \notin Replies /\ UNCHANGED <<pc, calls, ret>>
      BY <1>1, Values
    <2> QED  BY <1>3, <1>5, <1>13, <2>1, WordWritten
  <1>15. OwnReply'
    BY <1>1 DEF OwnReply, Current, Alone, OneProcess
  <1>16. SetupInv'
    BY <1>1, <1>7, SetupKept
  <1> QED  BY <1>8, <1>10, <1>11, <1>12, <1>14, <1>15, <1>16

-----------------------------------------------------------------------------
(***************************************************************************)
(* Senders.                                                                *)
(***************************************************************************)

\* ClearWord, SendPoll and SendReturn move only the caller.
CallerFrame(s) ==
    /\ UNCHANGED <<setupVars, refusals, calls, ret, plain, receiverVars>>
    /\ UNCHANGED <<queue, replies, replied>>
    /\ \A t \in Threads \ {s} : pc'[t] = pc[t]

\* Then the messages are where they were.
LEMMA CallerKept ==
    ASSUME LiteInv, NEW s \in Senders, CallerFrame(s)
    PROVE  /\ QueueInv' /\ HeldInv' /\ ReceiverInv' /\ ReplyInv' /\ SetupInv'
           /\ \A y \in Messages : Live(y)' <=> Live(y)
           /\ \A q \in Senders : \A y : Current(q, y)' <=> Current(q, y)
           /\ \A q \in Senders : (Alone(q)' <=> Alone(q)) /\ (OneProcess(q)' <=> OneProcess(q))
  <1> USE DEF LiteInv, CallerFrame
  <1>1. Inbox' = Inbox /\ \A y \in Messages : Sent(y)' <=> Sent(y)
    BY MessageFacts DEF Inbox, Sent
  <1>2. QueueInv'
    BY <1>1, LiveMessages DEF QueueInv
  <1>3. /\ HeldInv' /\ ReceiverInv' /\ ReplyInv'
        /\ \A r \in Receivers, y \in Messages : Holds(r, y)' <=> Holds(r, y)
    <2>1. ReceiversFrame /\ replies' \subseteq replies
      BY Values DEF ReceiversFrame
    <2>2. \A r \in Receivers, y \in Messages : Holds(r, y) => y \notin Range(Inbox)'
      BY <1>1 DEF HeldInv
    <2> QED  BY <1>1, <2>1, <2>2, ReceiversKept
  <1>4. \A y \in Messages : Live(y)' <=> Live(y)
    BY <1>1, <1>3 DEF Live
  <1>5. /\ \A q \in Senders : \A y : Current(q, y)' <=> Current(q, y)
        /\ \A q \in Senders : (Alone(q)' <=> Alone(q)) /\ (OneProcess(q)' <=> OneProcess(q))
    BY DEF Current, Alone, OneProcess
  <1>6. SetupInv'
    BY SetupKept
  <1> QED  BY <1>2, <1>3, <1>4, <1>5, <1>6

\* ClearWord: a thread that starts sets its word to 0, which is no reply and not
\* SEND_REPLY_WAIT, and does so before it sends.
LEMMA ClearPreserves ==
    ASSUME LiteInv, NEW s \in Senders, ClearWord(s)  PROVE LiteInv'
  <1> USE DEF LiteInv
  <1>1. /\ pc[s] = "start" /\ pc' = [pc EXCEPT ![s] = "idle"]
        /\ word' = [word EXCEPT ![WordOf[s]] = Zero]
        /\ UNCHANGED <<setupVars, refusals, calls, ret, result, plain, receiverVars>>
        /\ UNCHANGED <<queue, replies, replied>>
    BY DEF ClearWord, Goto, kernelVars
  <1>2. /\ pc' \in [Threads -> {"start", "idle", "poll", "return", "reply", "dead"}]
        /\ pc'[s] = "idle" /\ \A t \in Threads \ {s} : pc'[t] = pc[t]
    BY <1>1, Values DEF TypeOK
  <1>3. /\ word' \in [Words -> Replies \cup {SEND_REPLY_WAIT, Error, Zero}]
        /\ word'[WordOf[s]] = Zero
        /\ \A w \in Words \ {WordOf[s]} : word'[w] = word[w]
    BY <1>1, Values DEF TypeOK
  <1>4. TypeOK'
    BY <1>1, <1>2, <1>3 DEF TypeOK, setupVars, receiverVars, handlerVars, threadVars
  <1>5. /\ QueueInv' /\ HeldInv' /\ ReceiverInv' /\ ReplyInv' /\ SetupInv'
        /\ \A y \in Messages : Live(y)' <=> Live(y)
        /\ \A q \in Senders : \A y : Current(q, y)' <=> Current(q, y)
        /\ \A q \in Senders : (Alone(q)' <=> Alone(q)) /\ (OneProcess(q)' <=> OneProcess(q))
    <2>1. CallerFrame(s)
      BY <1>1, <1>2 DEF CallerFrame
    <2> QED  BY <2>1, CallerKept
  <1>6. /\ ~InHandler(s)'
        /\ \A q \in Senders : InHandler(q)' => InHandler(q) /\ pc'[q] = pc[q] /\ q # s
    BY <1>1, <1>2, Values DEF InHandler
  <1>7. ASSUME NEW q \in Senders, Alone(q), q # s  PROVE word'[WordOf[q]] = word[WordOf[q]]
    BY <1>3, <1>7, Values DEF Alone
  <1>8. WordInv' /\ HandlerInv'
    BY <1>1, <1>2, <1>3, <1>5, <1>6, <1>7, Values DEF WordInv, HandlerInv
  <1>9. OwnInv'
    <2>1. ASSUME NEW q \in Senders, Alone(q)
          PROVE  (/\ \A m \in Messages : Live(m) /\ m.from = q =>
                       Current(q, m) /\ pc[q] = "poll" /\ ret[q] >= 0
                       /\ word[WordOf[q]] = SEND_REPLY_WAIT
                  /\ InHandler(q) /\ ret[q] >= 0 /\ word[WordOf[q]] \in Replies =>
                       Current(q, word[WordOf[q]].to))'
      <3>1. CASE q = s
        BY <1>1, <1>5, <1>6, <2>1, <3>1 DEF OwnInv
      <3>2. CASE q # s
        BY <1>1, <1>2, <1>5, <1>6, <1>7, <2>1, <3>2, Values DEF OwnInv
      <3> QED  BY <3>1, <3>2
    <2>2. ASSUME NEW q \in Senders, OneProcess(q), pc'[q] = "return", ret'[q] >= 0
          PROVE  word'[WordOf[q]] # SEND_REPLY_WAIT
      <3>1. word'[WordOf[q]] \in {Zero, word[WordOf[q]]}
        BY <1>3, Values
      <3>2. pc[q] = "return" /\ ret[q] >= 0
        BY <1>1, <1>2, <2>2, Values
      <3> QED  BY <2>2, <3>1, <3>2, Values DEF OwnInv
    <2> QED  BY <1>5, <2>1, <2>2 DEF OwnInv
  <1>10. OwnReply'
    <2>1. calls[s] = 0
      BY <1>1 DEF HandlerInv
    <2>2. \A q \in Senders : pc'[q] = "idle" /\ calls'[q] > 0 => pc[q] = "idle"
      BY <1>1, <1>2, <2>1, Values
    <2> QED  BY <1>1, <1>5, <2>2 DEF OwnReply
  <1> QED  BY <1>4, <1>5, <1>8, <1>9, <1>10

\* SendPoll: the poll ends, since the word is not SEND_REPLY_WAIT.
LEMMA SendPollPreserves ==
    ASSUME LiteInv, NEW s \in Senders, SendPoll(s)  PROVE LiteInv'
  <1> USE DEF LiteInv
  <1>1. /\ pc[s] = "poll" /\ word[WordOf[s]] # SEND_REPLY_WAIT
        /\ pc' = [pc EXCEPT ![s] = "return"] /\ UNCHANGED result
        /\ UNCHANGED <<setupVars, refusals, calls, ret, word, plain, receiverVars>>
        /\ UNCHANGED <<queue, replies, replied>>
    BY DEF SendPoll, SendDone, Goto, senderVars, kernelVars
  <1>2. /\ pc' \in [Threads -> {"start", "idle", "poll", "return", "reply", "dead"}]
        /\ pc'[s] = "return"
        /\ \A t \in Threads \ {s} : pc'[t] = pc[t]
    BY <1>1, Values DEF TypeOK
  <1>3. TypeOK'
    BY <1>1, <1>2 DEF TypeOK, setupVars, receiverVars, handlerVars, threadVars
  <1>4. CallerFrame(s)
    BY <1>1, <1>2 DEF CallerFrame
  <1>5. \A q \in Senders \ {s} : pc'[q] = pc[q]
    BY <1>2, Values
  <1>6. WordInv' /\ HandlerInv'
    BY <1>1, <1>2, <1>5 DEF WordInv, HandlerInv, InHandler, Alone
  <1>7. OwnInv'
    <2> SUFFICES ASSUME NEW q \in Senders
                 PROVE  (/\ Alone(q) =>
                              /\ \A m \in Messages : Live(m) /\ m.from = q =>
                                    Current(q, m) /\ pc[q] = "poll" /\ ret[q] >= 0
                                    /\ word[WordOf[q]] = SEND_REPLY_WAIT
                              /\ InHandler(q) /\ ret[q] >= 0 /\ word[WordOf[q]] \in Replies =>
                                    Current(q, word[WordOf[q]].to)
                         /\ OneProcess(q) /\ pc[q] = "return" /\ ret[q] >= 0 =>
                              word[WordOf[q]] # SEND_REPLY_WAIT)'
      BY DEF OwnInv
    <2>1. CASE q = s
      BY <1>1, <1>2, <1>4, <2>1, CallerKept DEF OwnInv, InHandler
    <2>2. CASE q # s
      BY <1>1, <1>4, <1>5, <2>2, CallerKept DEF OwnInv, InHandler
    <2> QED  BY <2>1, <2>2
  <1>8. OwnReply'
    BY <1>1, <1>2, <1>4, <1>5, CallerKept DEF OwnReply
  <1> QED  BY <1>3, <1>4, <1>6, <1>7, <1>8, CallerKept

\* SendReturn: the caller takes what is in the word by now.
LEMMA SendReturnPreserves ==
    ASSUME LiteInv, NEW s \in Senders, SendReturn(s)  PROVE LiteInv'
  <1> USE DEF LiteInv
  <1> DEFINE v == word[WordOf[s]]
  <1>1. /\ pc[s] = "return" /\ result' = [result EXCEPT ![s] = v]
        /\ pc' = [pc EXCEPT ![s] = "idle"]
        /\ UNCHANGED <<setupVars, refusals, calls, ret, word, plain, receiverVars>>
        /\ UNCHANGED <<queue, replies, replied>>
    BY DEF SendReturn, Goto, senderVars, kernelVars
  <1>2. WordOf[s] \in Words /\ v \in Replies \cup {SEND_REPLY_WAIT, Error, Zero}
    BY Values DEF TypeOK
  <1>3. /\ pc' \in [Threads -> {"start", "idle", "poll", "return", "reply", "dead"}]
        /\ pc'[s] = "idle"
        /\ \A t \in Threads \ {s} : pc'[t] = pc[t]
    BY <1>1, Values DEF TypeOK
  <1>4. TypeOK'
    BY <1>1, <1>2, <1>3 DEF TypeOK, setupVars, receiverVars, handlerVars, threadVars
  <1>5. CallerFrame(s)
    BY <1>1, <1>3 DEF CallerFrame
  <1>6. \A q \in Senders \ {s} : pc'[q] = pc[q] /\ result'[q] = result[q]
    BY <1>1, <1>3, Values DEF TypeOK
  <1>7. WordInv' /\ HandlerInv'
    BY <1>1, <1>3, <1>6 DEF WordInv, HandlerInv, InHandler, Alone
  <1>8. OwnInv'
    BY <1>1, <1>3, <1>5, <1>6, CallerKept DEF OwnInv, InHandler
  <1>9. OwnReply'
    <2>1. ASSUME ret[s] >= 0, v # Error, v # SEND_REPLY_WAIT, v # Zero
          PROVE  /\ v \in Replies /\ v.to \in replied /\ WordOf[v.to.from] = WordOf[s]
                 /\ Alone(s) => Current(s, v.to) /\ v.length <= MaxRetSize[s]
      <3>1. v \in Replies /\ v.to \in Messages
        BY <1>2, <2>1, MessageFacts
      <3>2. v.to \in replied /\ WordOf[v.to.from] = WordOf[s] /\ v.length <= v.to.room
        BY <1>2, <3>1 DEF WordInv
      <3>3. v.to.from # None /\ v.to.room = MaxRetSize[v.to.from]
        BY <3>2 DEF ReplyInv, Sent
      <3>4. Alone(s) => Current(s, v.to)
        BY <1>1, <2>1, <3>1 DEF OwnInv, InHandler
      <3> QED  BY <3>1, <3>2, <3>3, <3>4 DEF Current
    <2>2. ret[s] >= 0 => (v = SEND_REPLY_WAIT => ~OneProcess(s)) /\ (v = Zero => ~Alone(s))
      BY <1>1 DEF OwnInv, WordInv, InHandler
    <2>3. result'[s] = v
      BY <1>1 DEF TypeOK
    <2>4. ASSUME NEW q \in Senders, pc'[q] = "idle", calls[q] > 0, ret[q] >= 0
          PROVE  \/ result'[q] = Error
                 \/ result'[q] = Zero /\ ~Alone(q)
                 \/ result'[q] = SEND_REPLY_WAIT /\ ~OneProcess(q)
                 \/ /\ result'[q] \in Replies /\ result'[q].to \in replied
                    /\ WordOf[result'[q].to.from] = WordOf[q]
                    /\ Alone(q) => Current(q, result'[q].to)
                                   /\ result'[q].length <= MaxRetSize[q]
      <3>1. CASE q = s
        BY <2>1, <2>2, <2>3, <2>4, <3>1
      <3>2. CASE q # s
        BY <1>6, <2>4, <3>2 DEF OwnReply
      <3> QED  BY <3>1, <3>2
    <2> QED  BY <1>1, <1>5, <2>4, CallerKept DEF OwnReply
  <1> QED  BY <1>4, <1>5, <1>7, <1>8, <1>9, CallerKept

\* A message m that nobody has sent before comes to the inbox.
LEMMA InboxGrows ==
    ASSUME LiteInv, NEW m \in Messages, ~Sent(m), Sent(m)', NEW p, p = inbound_port["server"],
           queue' = [queue EXCEPT ![p] = Append(@, m)], UNCHANGED <<replies, replied>>,
           ReceiversFrame, \A x \in Messages : Sent(x) => Sent(x)'
    PROVE  /\ queue' \in [Ports -> Seq(Messages)]
           /\ QueueInv' /\ HeldInv' /\ ReceiverInv' /\ ReplyInv'
           /\ \A x \in Messages : Live(x)' <=> Live(x) \/ x = m
  <1> USE DEF LiteInv
  <1>1. m \notin Range(Inbox) /\ m \notin replied /\ \A r \in Receivers : ~Holds(r, m)
    BY DEF QueueInv, ReplyInv, HeldInv
  <1>2. p \in Ports /\ Inbox \in Seq(Messages) /\ IsInjective(Inbox)
    BY Widths DEF TypeOK, QueueInv, Inbox, Programs
  <1>3. /\ Append(Inbox, m) \in Seq(Messages) /\ IsInjective(Append(Inbox, m))
        /\ Range(Append(Inbox, m)) = Range(Inbox) \cup {m}
    BY <1>1, <1>2, QueueAppend
  <1>4. /\ queue' \in [Ports -> Seq(Messages)] /\ Inbox' = Append(Inbox, m)
        /\ \A o \in Ports \ {inbound_port["server"]} : queue'[o] = queue[o]
    BY <1>2, <1>3 DEF TypeOK, Inbox
  <1>5. QueueInv'
    BY <1>1, <1>3, <1>4, LiveMessages DEF QueueInv
  <1>6. /\ HeldInv' /\ ReceiverInv' /\ ReplyInv'
        /\ \A r \in Receivers, x \in Messages : Holds(r, x)' <=> Holds(r, x)
    <2>1. \A r \in Receivers, x \in Messages : Holds(r, x) => x \notin Range(Inbox)'
      BY <1>1, <1>3, <1>4 DEF HeldInv
    <2> QED  BY <2>1, ReceiversKept
  <1>7. \A x \in Messages : Live(x)' <=> Live(x) \/ x = m
    BY <1>3, <1>4, <1>6 DEF Live
  <1> QED  BY <1>4, <1>5, <1>6, <1>7

\* PlainSend: a message that wants no reply.
LEMMA PlainPreserves == ASSUME LiteInv, PlainSend  PROVE LiteInv'
  <1> USE DEF LiteInv
  <1> DEFINE p == inbound_port["server"]
  <1>1. plain \in Nat /\ plain' = plain + 1 /\ plain' \in 0..PlainSends
    <2>1. PlainSends \in Nat /\ plain \in 0..PlainSends /\ plain < PlainSends /\ plain' = plain + 1
      BY MessagesAssumption DEF PlainSend, TypeOK
    <2> QED  BY <2>1
  <1>2. PICK m : m = [from |-> None, no |-> plain + 1, size |-> High(Pack(1, p)), room |-> 0]
    OBVIOUS
  <1>3. /\ Low(Pack(1, p)) = p /\ High(Pack(1, p)) = 1
    BY PortKept, SizeKept, Widths DEF Programs
  <1>4. m \in Messages /\ m.from = None /\ m.no = plain + 1
    <2>1. m = [from |-> None, no |-> plain + 1, size |-> 1, room |-> 0]
      BY <1>2, <1>3
    <2>2. plain + 1 \in Nat /\ None \in Senders \cup {None}
      BY <1>1
    <2> QED  BY <2>1, <2>2 DEF Messages
  <1>5. /\ queue' = [queue EXCEPT ![p] = Append(@, m)]
        /\ UNCHANGED <<setupVars, refusals, pc, calls, ret, result, word, receiverVars>>
        /\ UNCHANGED <<replies, replied>>
    BY <1>1, <1>2, <1>3 DEF PlainSend
  <1>6. ~Sent(m) /\ Sent(m)' /\ \A x \in Messages : Sent(x) => Sent(x)'
    BY <1>1, <1>4, <1>5, MessageFacts DEF Sent
  <1>7. ReceiversFrame
    BY <1>5 DEF ReceiversFrame
  <1>8. /\ queue' \in [Ports -> Seq(Messages)]
        /\ QueueInv' /\ HeldInv' /\ ReceiverInv' /\ ReplyInv'
        /\ \A x \in Messages : Live(x)' <=> Live(x) \/ x = m
    BY <1>4, <1>5, <1>6, <1>7, InboxGrows
  <1>9. TypeOK'
    BY <1>1, <1>5, <1>8 DEF TypeOK, setupVars, receiverVars, handlerVars, threadVars
  <1>10. WordInv' /\ HandlerInv' /\ OwnReply'
    BY <1>5 DEF WordInv, HandlerInv, InHandler, OwnReply, Current, Alone, OneProcess
  <1>11. OwnInv'
    BY <1>4, <1>5, <1>8, Values DEF OwnInv, InHandler, Current, Alone, OneProcess
  <1>12. SetupInv'
    BY <1>5, SetupKept
  <1> QED  BY <1>8, <1>9, <1>10, <1>11, <1>12

\* send_reply_imm_fast: too big, accepted or refused.
LEMMA SendPreserves ==
    ASSUME LiteInv, NEW s \in Senders, send_reply_imm_fast(s)  PROVE LiteInv'
  <1> USE DEF LiteInv
  <1> DEFINE n == calls[s] + 1
  <1>1. /\ pc[s] = "idle" /\ calls[s] < Sends(s) /\ calls' = [calls EXCEPT ![s] = n]
        /\ \A q \in Senders : ProcessOf[q] = ProcessOf[s] => ~InHandler(q)
        /\ UNCHANGED <<setupVars, plain, receiverVars, replies, replied>>
    BY DEF send_reply_imm_fast, Sending, HandlerFree, InHandler
  <1>2. /\ calls[s] \in Nat /\ n \in Nat /\ n # 0 /\ calls' \in [Threads -> Nat]
        /\ calls'[s] = n /\ \A t \in Threads \ {s} : calls'[t] = calls[t]
        /\ n \in 1..Len(SendSize[s]) /\ SendSize[s][n] \in Nat /\ MaxRetSize[s] \in Nat
    <2>1. calls[s] \in Nat /\ SendSize[s] \in Seq(Nat) /\ MaxRetSize[s] \in Nat
      BY Values, Sizes DEF TypeOK
    <2>2. calls[s] < Len(SendSize[s])
      BY <1>1 DEF Sends
    <2> QED  BY <1>1, <2>1, <2>2, Values DEF TypeOK
  <1>3. \A x \in Messages : Sent(x) => Sent(x)'
    BY <1>1, <1>2, MessageFacts, Values DEF Sent
  <1>4. /\ \A q \in Senders \ {s} : \A y : Current(q, y)' <=> Current(q, y)
        /\ \A q \in Senders : (Alone(q)' <=> Alone(q)) /\ (OneProcess(q)' <=> OneProcess(q))
    BY <1>2, Values DEF Current, Alone, OneProcess
  <1>5. Alone(s) => \A x \in Messages : Live(x) => x.from # s
    BY <1>1 DEF OwnInv
  <1>6. ASSUME queue' \in [Ports -> Seq(Messages)], refusals' \in 0..MaxRefusals,
               word' \in [Words -> Replies \cup {SEND_REPLY_WAIT, Error, Zero}],
               pc' \in [Threads -> {"start", "idle", "poll", "return", "reply", "dead"}],
               ret' \in [Threads -> Nat \cup {-1}],
               result' \in [Senders -> Replies \cup {SEND_REPLY_WAIT, Error, Zero, None}]
        PROVE  TypeOK'
    BY <1>1, <1>2, <1>6 DEF TypeOK, setupVars, receiverVars, handlerVars, threadVars
  <1>7. ASSUME UNCHANGED queue, ReceiversFrame
        PROVE  /\ QueueInv' /\ HeldInv' /\ ReceiverInv' /\ ReplyInv'
               /\ \A x \in Messages : Live(x)' <=> Live(x)
    <2>1. Inbox' = Inbox
      BY <1>7 DEF Inbox
    <2>2. QueueInv'
      BY <1>1, <1>3, <1>7, <2>1, LiveMessages DEF QueueInv
    <2>3. /\ HeldInv' /\ ReceiverInv' /\ ReplyInv'
          /\ \A r \in Receivers, y \in Messages : Holds(r, y)' <=> Holds(r, y)
      <3>1. \A r \in Receivers, y \in Messages : Holds(r, y) => y \notin Range(Inbox)'
        BY <2>1 DEF HeldInv
      <3> QED  BY <1>1, <1>3, <1>7, <3>1, ReceiversKept
    <2>4. \A x \in Messages : Live(x)' <=> Live(x)
      BY <1>1, <2>1, <2>3 DEF Live
    <2> QED  BY <2>2, <2>3, <2>4
  <1>8. CASE /\ ret' = [ret EXCEPT ![s] = -1] /\ result' = [result EXCEPT ![s] = Error]
             /\ UNCHANGED <<pc, word, queue, refusals>>
    <2>1. /\ ret' \in [Threads -> Nat \cup {-1}] /\ ret'[s] = -1
          /\ \A t \in Threads \ {s} : ret'[t] = ret[t]
          /\ result' \in [Senders -> Replies \cup {SEND_REPLY_WAIT, Error, Zero, None}]
          /\ \A q \in Senders \ {s} : result'[q] = result[q]
      BY <1>8, Values DEF TypeOK
    <2>2. ReceiversFrame
      BY <1>1, <1>8, <2>1, Values DEF ReceiversFrame
    <2>3. TypeOK'
      BY <1>6, <1>8, <2>1 DEF TypeOK
    <2>4. /\ QueueInv' /\ HeldInv' /\ ReceiverInv' /\ ReplyInv'
          /\ \A x \in Messages : Live(x)' <=> Live(x)
      BY <1>7, <1>8, <2>2
    <2>5. WordInv' /\ HandlerInv'
      BY <1>1, <1>2, <1>4, <1>8, <2>1, Values DEF WordInv, HandlerInv, InHandler
    <2>6. OwnInv'
      BY <1>1, <1>4, <1>5, <1>8, <2>1, <2>4, Values DEF OwnInv, InHandler
    <2>7. OwnReply'
      BY <1>1, <1>2, <1>4, <1>8, <2>1, Values DEF OwnReply
    <2>8. SetupInv'
      BY <1>1, <1>8, SetupKept
    <2> QED  BY <2>3, <2>4, <2>5, <2>6, <2>7, <2>8
  <1>9. CASE /\ ret' = [ret EXCEPT ![s] = -1] /\ pc' = [pc EXCEPT ![s] = "poll"]
             /\ Refuse \/ UNCHANGED refusals
             /\ UNCHANGED <<result, word, queue>>
    <2>1. /\ ret' \in [Threads -> Nat \cup {-1}] /\ ret'[s] = -1
          /\ pc' \in [Threads -> {"start", "idle", "poll", "return", "reply", "dead"}]
          /\ pc'[s] = "poll"
          /\ \A t \in Threads \ {s} : ret'[t] = ret[t] /\ pc'[t] = pc[t]
      BY <1>9, Values DEF TypeOK
    <2>2. refusals' \in 0..MaxRefusals /\ (refusals' = 0 => refusals = 0)
      BY <1>9, RefuseFacts DEF TypeOK
    <2>3. ReceiversFrame
      BY <1>1, <1>9, <2>1, Values DEF ReceiversFrame
    <2>4. TypeOK'
      BY <1>6, <1>9, <2>1, <2>2 DEF TypeOK
    <2>5. /\ QueueInv' /\ HeldInv' /\ ReceiverInv' /\ ReplyInv'
          /\ \A x \in Messages : Live(x)' <=> Live(x)
      BY <1>7, <1>9, <2>3
    <2>6. WordInv' /\ HandlerInv'
      BY <1>1, <1>2, <1>4, <1>9, <2>1, Values DEF WordInv, HandlerInv, InHandler
    <2>7. OwnInv'
      BY <1>1, <1>4, <1>5, <1>9, <2>1, <2>5, Values DEF OwnInv, InHandler
    <2>8. OwnReply'
      BY <1>1, <1>2, <1>4, <1>9, <2>1, Values DEF OwnReply
    <2>9. SetupInv'
      BY <1>1, <2>2, SetupKept
    <2> QED  BY <2>4, <2>5, <2>6, <2>7, <2>8, <2>9
  <1>10. CASE /\ ~TooBig(s) /\ ret' = [ret EXCEPT ![s] = 0]
              /\ word' = [word EXCEPT ![WordOf[s]] = SEND_REPLY_WAIT]
              /\ queue' = [queue EXCEPT ![SendPort(s)] = Append(@, Message(s))]
              /\ pc' = [pc EXCEPT ![s] = "poll"] /\ UNCHANGED <<result, refusals>>
    <2> DEFINE p == inbound_port["server"]
    <2>1. SendSize[s][n] < LIMITATION /\ MaxRetSize[s] < LIMITATION
      BY <1>10 DEF TooBig, Fits
    <2>2. SendPort(s) = p
      BY <1>2, PortKept, Widths DEF SendPort, Programs
    <2>3. PICK m : m = [from |-> s, no |-> n, size |-> SendSize[s][n], room |-> MaxRetSize[s]]
      OBVIOUS
    <2>4. Message(s) = m
      <3>1. /\ High(Pack(SendSize[s][n], outbound_port["client"])) = SendSize[s][n]
            /\ High(Pack(MaxRetSize[s], NULL_PRIORITY)) = MaxRetSize[s]
        BY <1>2, <2>1, SizeKept, Widths DEF NULL_PRIORITY
      <3> QED  BY <1>2, <2>3, <3>1 DEF Message
    <2>5. /\ m \in Messages /\ m.from = s /\ m.no = n
          /\ m.size = SendSize[s][n] /\ m.room = MaxRetSize[s]
      BY <1>2, <2>3 DEF Messages
    <2>6. queue' = [queue EXCEPT ![p] = Append(@, m)]
      BY <1>10, <2>2, <2>4
    <2>7. /\ ret' \in [Threads -> Nat \cup {-1}] /\ ret'[s] = 0
          /\ pc' \in [Threads -> {"start", "idle", "poll", "return", "reply", "dead"}]
          /\ pc'[s] = "poll"
          /\ \A t \in Threads \ {s} : ret'[t] = ret[t] /\ pc'[t] = pc[t]
      BY <1>10, Values DEF TypeOK
    <2>8. /\ word' \in [Words -> Replies \cup {SEND_REPLY_WAIT, Error, Zero}]
          /\ word'[WordOf[s]] = SEND_REPLY_WAIT /\ WordOf[s] \in Words
          /\ \A w \in Words \ {WordOf[s]} : word'[w] = word[w]
      BY <1>10, Values DEF TypeOK
    <2>9. ~Sent(m) /\ Sent(m)'
      BY <1>2, <2>5, Values DEF Sent
    <2>10. ReceiversFrame
      BY <1>1, <2>7, Values DEF ReceiversFrame
    <2>11. /\ queue' \in [Ports -> Seq(Messages)]
           /\ QueueInv' /\ HeldInv' /\ ReceiverInv' /\ ReplyInv'
           /\ \A x \in Messages : Live(x)' <=> Live(x) \/ x = m
      BY <1>1, <1>3, <2>5, <2>6, <2>9, <2>10, InboxGrows
    <2>12. TypeOK'
      BY <1>6, <1>10, <2>7, <2>8, <2>11 DEF TypeOK
    <2>13. WordInv' /\ HandlerInv'
      <3>1. WordInv'
        BY <1>1, <1>4, <2>7, <2>8, Values DEF WordInv, InHandler
      <3>2. HandlerInv'
        BY <1>1, <1>2, <2>7, Values DEF HandlerInv, InHandler
      <3> QED  BY <3>1, <3>2
    <2>14. OwnInv'
      <3>1. ASSUME NEW q \in Senders, Alone(q)
            PROVE  /\ \A x \in Messages : Live(x)' /\ x.from = q =>
                        Current(q, x)' /\ pc'[q] = "poll" /\ ret'[q] >= 0
                        /\ word'[WordOf[q]] = SEND_REPLY_WAIT
                   /\ InHandler(q)' /\ ret'[q] >= 0 /\ word'[WordOf[q]] \in Replies =>
                        Current(q, word[WordOf[q]].to)'
        <4>1. CASE q = s
          <5>1. \A x \in Messages : Live(x)' /\ x.from = q => x = m
            BY <1>5, <2>11, <3>1, <4>1
          <5>2. Current(q, m)'
            BY <1>2, <2>5, <4>1 DEF Current
          <5> QED  BY <2>7, <2>8, <4>1, <5>1, <5>2, Values
        <4>2. CASE q # s
          <5>1. WordOf[q] \in Words \ {WordOf[s]}
            BY <3>1, <4>2, Values DEF Alone
          <5>2. word'[WordOf[q]] = word[WordOf[q]] /\ pc'[q] = pc[q] /\ ret'[q] = ret[q]
            BY <2>7, <2>8, <4>2, <5>1, Values
          <5>3. \A x \in Messages : Live(x)' /\ x.from = q => Live(x)
            BY <2>5, <2>11, <4>2
          <5>4. \A y : Current(q, y)' <=> Current(q, y)
            BY <1>4, <4>2
          <5> QED  BY <3>1, <5>2, <5>3, <5>4 DEF OwnInv, InHandler
        <4> QED  BY <4>1, <4>2
      <3>2. ASSUME NEW q \in Senders, OneProcess(q), pc'[q] = "return", ret'[q] >= 0
            PROVE  word'[WordOf[q]] # SEND_REPLY_WAIT
        <4>1. q # s /\ pc[q] = "return" /\ ret[q] >= 0
          BY <2>7, <3>2, Values
        <4>2. WordOf[q] # WordOf[s]
          BY <1>1, <3>2, <4>1 DEF OneProcess, InHandler
        <4>3. word'[WordOf[q]] = word[WordOf[q]]
          BY <2>8, <4>2, Values
        <4> QED  BY <3>2, <4>1, <4>3 DEF OwnInv
      <3> QED  BY <1>4, <3>1, <3>2 DEF OwnInv
    <2>15. OwnReply'
      BY <1>1, <1>2, <1>4, <1>10, <2>7, Values DEF OwnReply
    <2>16. SetupInv'
      BY <1>1, <1>10, SetupKept
    <2> QED  BY <2>11, <2>12, <2>13, <2>14, <2>15, <2>16
  <1> QED  BY <1>8, <1>9, <1>10 DEF send_reply_imm_fast, Goto

-----------------------------------------------------------------------------
(***************************************************************************)
(* The theorems.                                                           *)
(***************************************************************************)

\* Every step preserves the invariant, as does a step of somebody else.
LEMMA LiteStep == LiteInv /\ [Next]_liteVars => LiteInv'
  <1> SUFFICES ASSUME LiteInv, [Next]_liteVars  PROVE LiteInv'
    OBVIOUS
  <1>1. CASE UNCHANGED liteVars
    <2>1. MessagesFrame /\ UNCHANGED setupVars /\ UNCHANGED refusals
      BY <1>1 DEF liteVars, MessagesFrame
    <2>2. (QueueInv /\ HeldInv /\ ReceiverInv /\ ReplyInv)'
          /\ (WordInv /\ HandlerInv /\ OwnInv /\ OwnReply)'
      BY <2>1, MessagesKept
    <2>3. SetupInv'
      BY <2>1, SetupKept DEF LiteInv
    <2>4. TypeOK'
      BY <2>1 DEF LiteInv, TypeOK, MessagesFrame, setupVars, senderVars, receiverVars, handlerVars,
                  threadVars, kernelVars
    <2> QED  BY <2>2, <2>3, <2>4 DEF LiteInv
  <1>2. CASE Next
    BY <1>2, SetupPreserves, ClearPreserves, SendPreserves, SendPollPreserves, SendReturnPreserves,
       PlainPreserves, ReceivePreserves, ServePreserves, ReceivePollPreserves, ReplyPreserves,
       DeathPreserves, CompletePreserves, ErrorPreserves
       DEF Next, Progress, SenderStep, ReceiverStep
  <1> QED  BY <1>1, <1>2

\* The inductive invariant holds in every state of the system.
THEOREM LiteInvHolds == Spec => []LiteInv
  BY InitLite, LiteStep, PTL DEF Spec

\* Every variable keeps its type.
THEOREM LiteTypes == Spec => []TypeOK
  <1>1. LiteInv => TypeOK
    BY DEF LiteInv
  <1> QED  BY <1>1, LiteInvHolds, PTL

\* A call that LITE has accepted returns with a reply to the caller's word or with
\* an error.  If no other thread passes the word it is the call's own reply, for
\* which there is room; if one does, a thread that starts may have put a 0 there,
\* and if another process does, its send SEND_REPLY_WAIT.
THEOREM LiteOwnReply == Spec => []OwnReply
  <1>1. LiteInv => OwnReply
    BY DEF LiteInv
  <1> QED  BY <1>1, LiteInvHolds, PTL

\* receive_message_fast returns the length and the descriptor of the message
\* that served it.
THEOREM LiteReceiveTrue == Spec => []ReceiveTrue
  <1>1. LiteInv => ReceiveTrue
    BY DEF LiteInv, ReceiverInv, ReceiveTrue
  <1> QED  BY <1>1, LiteInvHolds, PTL

\* No message is replied to twice, or by two threads.
THEOREM LiteRepliesOnce == Spec => []RepliesOnce
  <1>1. ASSUME LiteInv  PROVE RepliesOnce
    <2>1. SUFFICES ASSUME NEW r \in Receivers, pc[r] = "reply", held[r] # Zero
          PROVE  held[r] \notin replied /\ \A q \in Receivers \ {r} : HeldBy(q) # held[r]
      BY DEF RepliesOnce
    <2>2. held[r] \in Messages /\ Holds(r, held[r])
      BY <1>1, <2>1 DEF LiteInv, ReceiverInv, Holds, HeldBy
    <2> QED  BY <1>1, <2>2 DEF LiteInv, HeldInv, Holds
  <1> QED  BY <1>1, LiteInvHolds, PTL

\* The kernel finds port, size and room in the packed words, for any sizes and
\* any number of ports.
THEOREM LiteArgumentsKept == Spec => []ArgumentsKept
  <1>1. ASSUME LiteInv  PROVE ArgumentsKept
    <2>1. ASSUME NEW p \in Ports, NEW i \in DOMAIN queue[p]
          PROVE  LET m == queue[p][i] IN
                 /\ p = inbound_port["server"]
                 /\ m.from # None => m.size = SendSize[m.from][m.no]
                                     /\ m.room = MaxRetSize[m.from]
      <3>1. p = inbound_port["server"]
        BY <1>1, <2>1 DEF LiteInv, QueueInv
      <3>2. queue[p][i] \in Range(Inbox)
        BY <2>1, <3>1 DEF Inbox, Range
      <3> QED  BY <1>1, <3>1, <3>2 DEF LiteInv, QueueInv, Sent
    <2>2. pending \in {inbound_port["server"], None}
      BY <1>1 DEF LiteInv, ReceiverInv
    <2> QED  BY <2>1, <2>2 DEF ArgumentsKept
  <1> QED  BY <1>1, LiteInvHolds, PTL

\* A program that asks for the other one's port finds it, unless LITE has
\* refused a call.
THEOREM LitePortIsThere == Spec => []PortIsThere
  <1>1. ASSUME LiteInv  PROVE PortIsThere
    <2>1. \A g \in Programs : \E h \in Programs : inbound_port[h] = outbound_port[g]
      BY DEF inbound_port, outbound_port, Programs
    <2> QED  BY <1>1, <2>1 DEF LiteInv, SetupInv, PortIsThere, Past
  <1> QED  BY <1>1, LiteInvHolds, PTL

-----------------------------------------------------------------------------
(***************************************************************************)
(* Nothing that is polled for is lost.                                     *)
(***************************************************************************)

\* No reply is turned down for its size.  A sender whose reply is has to wait
\* for ever: reply_message returns -1 and its word is not written again.
SmallReplies == \A r \in Receivers : ReplySize[r] < LIMITATION

\* The message that sender s waits for lives.
Awaited(s) ==
    OneProcess(s) /\ pc[s] = "poll" /\ word[WordOf[s]] = SEND_REPLY_WAIT =>
        \E m \in Messages : Live(m) /\ Current(s, m)

PollInv == serverUp /\ refusals = 0 => \A s \in Senders : Awaited(s)

\* A step that leaves the senders alone and ends no message with a sender.
LEMMA AwaitedKept ==
    ASSUME LiteInv, PollInv, serverUp' => serverUp, refusals' = 0 => refusals = 0,
           UNCHANGED word, \A s \in Senders : pc'[s] = pc[s] /\ calls'[s] = calls[s],
           serverUp' => \A m \in Messages : Live(m) /\ m.from # None => Live(m)'
    PROVE  PollInv'
  <1> SUFFICES ASSUME serverUp', refusals' = 0, NEW s \in Senders, OneProcess(s), pc[s] = "poll",
                      word[WordOf[s]] = SEND_REPLY_WAIT
               PROVE  (\E m \in Messages : Live(m) /\ Current(s, m))'
    BY DEF PollInv, Awaited, OneProcess
  <1>1. PICK m \in Messages : Live(m) /\ Current(s, m)
    BY DEF PollInv, Awaited
  <1>2. Live(m)' /\ Current(s, m)'
    BY <1>1, Values DEF Current
  <1> QED  BY <1>2

\* Steps of the receivers: a message that is taken is held, and one that is held
\* is replied to while the server lives.
LEMMA ReceiversPoll ==
    ASSUME SmallReplies, LiteInv, PollInv, NEW r \in Receivers, ReceiverStep(r) \/ KernelServe(r)
    PROVE  PollInv'
  <1> USE DEF LiteInv
  <1>1. /\ UNCHANGED word
        /\ \A s \in Senders : pc'[s] = pc[s] /\ calls'[s] = calls[s]
    <2>1. ASSUME ReceivePoll(r)  PROVE \A s \in Senders : pc'[s] = pc[s]
      BY <2>1, Values DEF ReceivePoll, Goto, TypeOK
    <2>2. CASE receive_message_fast(r)
      BY <2>2, Values DEF receive_message_fast, Receiving, Goto, senderVars, TypeOK
    <2>3. CASE ReceivePoll(r)
      BY <2>1, <2>3 DEF ReceivePoll, senderVars
    <2>4. CASE reply_message(r)
      BY <2>4, Values DEF reply_message, Replying, Goto, senderVars, TypeOK
    <2>5. CASE KernelServe(r)
      BY <2>5 DEF KernelServe, senderVars
    <2> QED  BY <2>2, <2>3, <2>4, <2>5 DEF ReceiverStep
  <1>2. UNCHANGED serverUp
    BY DEF ReceiverStep, receive_message_fast, ReceivePoll, reply_message, KernelServe
  <1>3. refusals' = 0 => refusals = 0
    BY RefuseFacts DEF ReceiverStep, receive_message_fast, ReceivePoll, reply_message, KernelServe
  <1>4. ASSUME Take(r, inbound_port["server"]), UNCHANGED <<replies, held>>,
               pc' = [pc EXCEPT ![r] = "poll"], ~\E x \in Messages : Holds(r, x),
               \A q \in Receivers \ {r} : pc[q] # "poll"
        PROVE  \A m \in Messages : Live(m) /\ m.from # None => Live(m)'
    <2>1. PICK n : n = Head(Inbox)
      OBVIOUS
    <2>2. /\ n \in Messages
          /\ descriptor' = IF n.from = None THEN IMM_SEND_ONLY_FLAG ELSE n
          /\ Range(Inbox)' = Range(Inbox) \ {n}
      BY <1>4, <2>1, TakeFacts
    <2>3. n.from # None => Holds(r, n)'
      BY <1>4, <2>2, Values DEF Holds, HeldBy, TypeOK
    <2>4. \A q \in Receivers \ {r}, x \in Messages : Holds(q, x) => Holds(q, x)'
      BY <1>4, Values DEF Holds, HeldBy, TypeOK
    <2> QED  BY <1>4, <2>2, <2>3, <2>4 DEF Live
  <1>5. ASSUME UNCHANGED <<queue, replies>>,
               \A q \in Receivers, x \in Messages : Holds(q, x) => Holds(q, x)'
        PROVE  \A m \in Messages : Live(m) => Live(m)'
    <2>1. Inbox' = Inbox
      BY <1>5 DEF Inbox
    <2> QED  BY <1>5, <2>1 DEF Live
  <1>6. CASE receive_message_fast(r)
    <2>1. /\ pc[r] = "idle" /\ pc' = [pc EXCEPT ![r] = "poll"] /\ UNCHANGED <<replies, held>>
          /\ \A q \in Receivers : pc[q] # "poll"
      BY <1>6 DEF receive_message_fast, Receiving, ServerHandlerFree, Goto
    <2>h. ~\E x \in Messages : Holds(r, x)
      BY <2>1, Values DEF Holds, HeldBy
    <2>2. CASE Take(r, ReceivePort(r))
      BY <1>1, <1>2, <1>3, <1>4, <2>1, <2>2, <2>h, PortOfReceive, AwaitedKept
    <2>3. CASE descriptor' = ClearedDescriptor /\ UNCHANGED queue
      <3>1. \A q \in Receivers, x \in Messages : Holds(q, x) => Holds(q, x)'
        BY <2>1, <2>h, Values DEF Holds, HeldBy, TypeOK
      <3> QED  BY <1>1, <1>2, <1>3, <1>5, <2>1, <2>3, <3>1, AwaitedKept
    <2> QED  BY <1>6, <2>2, <2>3 DEF receive_message_fast
  <1>7. CASE KernelServe(r)
    <2>1. /\ pc[r] = "poll" /\ descriptor = Zero /\ pending = inbound_port["server"]
          /\ \A q \in Receivers \ {r} : pc[q] # "poll"
          /\ Take(r, pending) /\ UNCHANGED <<pc, replies, held>>
      BY <1>7 DEF KernelServe, ReceiverInv
    <2>2. pc' = [pc EXCEPT ![r] = "poll"] /\ ~\E x \in Messages : Holds(r, x)
      BY <2>1, Values DEF Holds, HeldBy, TypeOK
    <2> QED  BY <1>1, <1>2, <1>3, <1>4, <2>1, <2>2, AwaitedKept
  <1>8. CASE ReceivePoll(r)
    <2>1. ASSUME serverUp'
          PROVE  \A q \in Receivers, x \in Messages : Holds(q, x) => Holds(q, x)'
      <3>1. /\ pc[r] = "poll" /\ pc' = [pc EXCEPT ![r] = "reply"]
            /\ held' = [held EXCEPT ![r] = ReceiveDescriptor]
        BY <1>2, <1>8, <2>1 DEF ReceivePoll, Goto
      <3>2. /\ pc'[r] = "reply" /\ held'[r] = ReceiveDescriptor
            /\ \A q \in Receivers \ {r} : pc'[q] = pc[q] /\ held'[q] = held[q] /\ pc[q] # "poll"
        BY <3>1, Values DEF ReceiverInv, TypeOK
      <3> QED  BY <3>1, <3>2, Values DEF Holds, HeldBy, ReceiveDescriptor
    <2>2. UNCHANGED <<queue, replies>>
      BY <1>8 DEF ReceivePoll, kernelVars
    <2> QED  BY <1>1, <1>2, <1>3, <1>5, <2>1, <2>2, AwaitedKept
  <1>9. CASE reply_message(r)
    <2>1. /\ pc[r] = "reply" /\ pc' = [pc EXCEPT ![r] = "idle"]
          /\ held' = [held EXCEPT ![r] = Zero] /\ UNCHANGED <<descriptor, queue>>
      BY <1>9 DEF reply_message, Replying, Goto, handlerVars
    <2>2. \A q \in Receivers \ {r}, x \in Messages : Holds(q, x) => Holds(q, x)'
      BY <2>1, Values DEF Holds, HeldBy, TypeOK
    <2>3. Inbox' = Inbox
      BY <2>1 DEF Inbox
    <2>4. CASE refusals' = 0
      <3>1. \/ held[r] \notin Messages /\ UNCHANGED replies
            \/ replies' = replies \cup {[to |-> held[r], length |-> ReplySize[r]]}
        <4>1. ReplySize[r] < LIMITATION /\ ~(ReplySize[r] >= LIMITATION)
          BY Sizes, Widths DEF SmallReplies
        <4> QED  BY <1>9, <2>4, <4>1, RefuseFacts DEF reply_message
      <3>2. replies \subseteq replies'
        BY <3>1
      <3>3. \A x \in Messages : Holds(r, x) => \E y \in replies' : y.to = x
        <4>1. SUFFICES ASSUME held[r] \in Messages
              PROVE  \E y \in replies' : y.to = held[r]
          BY <2>1 DEF Holds, HeldBy
        <4>2. [to |-> held[r], length |-> ReplySize[r]] \in replies'
          BY <3>1, <4>1
        <4> QED  BY <4>2
      <3>4. \A m \in Messages : Live(m) => Live(m)'
        BY <2>2, <2>3, <3>2, <3>3 DEF Live
      <3> QED  BY <1>1, <1>2, <1>3, <3>4, AwaitedKept
    <2>5. CASE refusals' # 0
      BY <2>5 DEF PollInv
    <2> QED  BY <2>4, <2>5
  <1> QED  BY <1>6, <1>7, <1>8, <1>9 DEF ReceiverStep

\* Steps of the senders: a message that is sent lives.
LEMMA SendersPoll ==
    ASSUME LiteInv, PollInv, NEW s \in Senders, SenderStep(s)
    PROVE  PollInv'
  <1> USE DEF LiteInv
  <1>1. UNCHANGED <<serverUp, replies, descriptor, held, routes>>
           /\ \A q \in Receivers : pc'[q] = pc[q]
    BY Values DEF SenderStep, send_reply_imm_fast, SendPoll, SendReturn, Goto, receiverVars,
                  handlerVars, threadVars, kernelVars, setupVars, TypeOK
  <1>2. \A q \in Receivers, x \in Messages : Holds(q, x)' <=> Holds(q, x)
    BY <1>1 DEF Holds, HeldBy
  <1>3. /\ \A q \in Senders \ {s} : pc'[q] = pc[q] /\ calls'[q] = calls[q]
        /\ \A q \in Senders \ {s} : OneProcess(q) /\ pc[q] = "poll" =>
              word'[WordOf[q]] = word[WordOf[q]]
    <2>1. CASE send_reply_imm_fast(s)
      <3>1. HandlerFree(s) /\ calls' = [calls EXCEPT ![s] = @ + 1]
        BY <2>1 DEF send_reply_imm_fast, Sending
      <3>2. pc' = [pc EXCEPT ![s] = "poll"] \/ UNCHANGED pc
        BY <2>1 DEF send_reply_imm_fast, Goto
      <3>3. word' = [word EXCEPT ![WordOf[s]] = SEND_REPLY_WAIT] \/ UNCHANGED word
        BY <2>1 DEF send_reply_imm_fast
      <3>4. \A q \in Senders : OneProcess(q) /\ pc[q] = "poll" => WordOf[q] # WordOf[s]
        BY <3>1 DEF HandlerFree, OneProcess
      <3> QED  BY <3>1, <3>2, <3>3, <3>4, Values DEF TypeOK
    <2>2. CASE SendPoll(s) \/ SendReturn(s)
      BY <2>2, Values DEF SendPoll, SendReturn, Goto, senderVars, TypeOK
    <2> QED  BY <2>1, <2>2 DEF SenderStep
  <1>4. refusals' = 0 => refusals = 0
    BY RefuseFacts DEF SenderStep, send_reply_imm_fast, SendPoll, SendReturn
  <1>5. ASSUME \A m \in Messages : Live(m) => Live(m)', Awaited(s)'  PROVE PollInv'
    <2> SUFFICES ASSUME serverUp', refusals' = 0, NEW q \in Senders  PROVE Awaited(q)'
      BY DEF PollInv
    <2>1. CASE q = s
      BY <1>5, <2>1
    <2>2. CASE q # s
      <3>1. Awaited(q)
        BY <1>1, <1>4 DEF PollInv
      <3>2. \A x : Current(q, x) => Current(q, x)'
        BY <1>3, <2>2 DEF Current
      <3> QED  BY <1>3, <1>5, <2>2, <3>1, <3>2 DEF Awaited, OneProcess
    <2> QED  BY <2>1, <2>2
  <1>6. ASSUME UNCHANGED queue  PROVE \A m \in Messages : Live(m) => Live(m)'
    <2>1. Inbox' = Inbox
      BY <1>6 DEF Inbox
    <2> QED  BY <1>1, <1>2, <2>1 DEF Live
  <1>7. CASE pc'[s] \in {"idle", "return"} /\ UNCHANGED queue
    BY <1>5, <1>6, <1>7 DEF Awaited
  <1>8. CASE /\ ~TooBig(s) /\ Sending(s) /\ pc' = [pc EXCEPT ![s] = "poll"]
             /\ queue' = [queue EXCEPT ![SendPort(s)] = Append(@, Message(s))]
    <2> DEFINE n == calls[s] + 1
    <2>1. PICK m : m = Message(s)
      OBVIOUS
    <2>2. calls'[s] = n /\ n \in Nat /\ SendSize[s][n] \in Nat /\ MaxRetSize[s] \in Nat
      <3>1. calls[s] \in Nat /\ SendSize[s] \in Seq(Nat) /\ MaxRetSize[s] \in Nat
        BY Values, Sizes DEF TypeOK
      <3>2. calls[s] < Len(SendSize[s]) /\ calls'[s] = n
        BY <1>8, Values DEF Sending, Sends, TypeOK
      <3> QED  BY <3>1, <3>2
    <2>3. SendPort(s) = inbound_port["server"] /\ inbound_port["server"] \in Ports
      BY <2>2, PortKept, Widths DEF SendPort, Programs
    <2>4. m \in Messages /\ m.from = s /\ m.no = n
      <3>1. /\ High(Pack(SendSize[s][n], outbound_port["client"])) = SendSize[s][n]
            /\ High(Pack(MaxRetSize[s], NULL_PRIORITY)) = MaxRetSize[s]
        BY <1>8, <2>2, SizeKept, Widths DEF NULL_PRIORITY, TooBig, Fits
      <3> QED  BY <2>1, <2>2, <3>1 DEF Message, Messages
    <2>5. Inbox \in Seq(Messages) /\ Inbox' = Append(Inbox, m)
      BY <1>8, <2>1, <2>3 DEF Inbox, TypeOK
    <2>6. Range(Inbox) \subseteq Range(Inbox)' /\ m \in Range(Inbox)'
      <3>1. /\ Len(Inbox) \in Nat /\ DOMAIN Inbox = 1..Len(Inbox)
            /\ DOMAIN Append(Inbox, m) = 1..(Len(Inbox) + 1)
            /\ Append(Inbox, m)[Len(Inbox) + 1] = m
            /\ \A i \in 1..Len(Inbox) : Append(Inbox, m)[i] = Inbox[i]
        BY <2>4, <2>5
      <3>2. \A i \in 1..Len(Inbox) : i \in DOMAIN Append(Inbox, m)
        BY <3>1
      <3> QED  BY <2>5, <3>1, <3>2 DEF Range
    <2>7. \A x \in Messages : Live(x) => Live(x)'
      BY <1>1, <1>2, <2>6 DEF Live
    <2>8. Live(m)' /\ Current(s, m)'
      BY <2>2, <2>4, <2>6 DEF Live, Current
    <2> QED  BY <1>5, <2>4, <2>7, <2>8 DEF Awaited
  <1>9. CASE send_reply_imm_fast(s) /\ "client" \notin routes
    BY <1>1, <1>4, <1>9 DEF send_reply_imm_fast, Sending, SetupInv, Programs, PollInv
  <1>10. CASE Refuse
    BY <1>10, RefuseFacts DEF PollInv
  <1>11. \/ pc'[s] \in {"idle", "return"} /\ UNCHANGED queue
         \/ Refuse \/ (send_reply_imm_fast(s) /\ "client" \notin routes)
         \/ /\ ~TooBig(s) /\ Sending(s) /\ pc' = [pc EXCEPT ![s] = "poll"]
            /\ queue' = [queue EXCEPT ![SendPort(s)] = Append(@, Message(s))]
    <2>1. CASE SendPoll(s) \/ SendReturn(s)
      BY <2>1, Values DEF SendPoll, SendReturn, Goto, kernelVars, TypeOK
    <2>2. CASE send_reply_imm_fast(s)
      BY <2>2 DEF send_reply_imm_fast, Sending, Goto
    <2> QED  BY <2>1, <2>2 DEF SenderStep
  <1> QED  BY <1>7, <1>8, <1>9, <1>10, <1>11

\* A thread that starts ends the polls of its word.
LEMMA ClearPoll == ASSUME LiteInv, PollInv, NEW s \in Senders, ClearWord(s)  PROVE PollInv'
  <1> USE DEF LiteInv
  <1>1. /\ pc' = [pc EXCEPT ![s] = "idle"] /\ word' = [word EXCEPT ![WordOf[s]] = Zero]
        /\ UNCHANGED <<refusals, calls, receiverVars, queue, replies>>
    BY DEF ClearWord, Goto, kernelVars
  <1>2. \A m \in Messages : Live(m) => Live(m)'
    <2>1. Inbox' = Inbox
      BY <1>1 DEF Inbox
    <2>2. \A q \in Receivers : pc'[q] = pc[q]
      BY <1>1, Values DEF TypeOK
    <2> QED  BY <1>1, <2>1, <2>2 DEF Live, Holds, HeldBy, receiverVars, handlerVars, threadVars
  <1>3. SUFFICES ASSUME serverUp, refusals = 0, NEW q \in Senders, OneProcess(q),
                        pc'[q] = "poll", word'[WordOf[q]] = SEND_REPLY_WAIT
                 PROVE  (\E m \in Messages : Live(m) /\ Current(q, m))'
    BY <1>1 DEF PollInv, Awaited, OneProcess, receiverVars, threadVars
  <1>4. pc[q] = "poll" /\ word[WordOf[q]] = SEND_REPLY_WAIT
    BY <1>1, <1>3, Values DEF TypeOK
  <1>5. PICK m \in Messages : Live(m) /\ Current(q, m)
    BY <1>3, <1>4 DEF PollInv, Awaited
  <1> QED  BY <1>1, <1>2, <1>5 DEF Current

\* The kernel's steps: a message ends only with a word that is written.
LEMMA CompletePoll == ASSUME LiteInv, PollInv, KernelComplete  PROVE PollInv'
  <1> USE DEF LiteInv
  <1>1. PICK x \in replies :
           /\ replies' = replies \ {x}
           /\ word' = [word EXCEPT ![WordOf[x.to.from]] =
                           IF x.length <= x.to.room THEN x ELSE Error]
           /\ UNCHANGED <<refusals, pc, calls, receiverVars, queue>>
    BY DEF KernelComplete
  <1>2. x \in Replies /\ x.to \in Messages /\ WordOf[x.to.from] \in Words
    BY MessageFacts, Values DEF ReplyInv, TypeOK
  <1>3. \A m \in Messages : Live(m) /\ m # x.to => Live(m)'
    <2>1. Inbox' = Inbox
      BY <1>1 DEF Inbox
    <2>2. \A q \in Receivers, m \in Messages : Holds(q, m) => Holds(q, m)'
      BY <1>1 DEF Holds, HeldBy, receiverVars, handlerVars, threadVars
    <2> QED  BY <1>1, <2>1, <2>2 DEF Live
  <1>4. SUFFICES ASSUME serverUp, refusals = 0, NEW s \in Senders, OneProcess(s), pc[s] = "poll",
                        word'[WordOf[s]] = SEND_REPLY_WAIT
                 PROVE  (\E m \in Messages : Live(m) /\ Current(s, m))'
    BY <1>1 DEF PollInv, Awaited, OneProcess, receiverVars, threadVars
  <1>5. WordOf[x.to.from] # WordOf[s] /\ word[WordOf[s]] = SEND_REPLY_WAIT
    <2>1. word'[WordOf[x.to.from]] # SEND_REPLY_WAIT
      BY <1>1, <1>2, Values DEF TypeOK
    <2> QED  BY <1>1, <1>4, <2>1 DEF TypeOK
  <1>6. PICK m \in Messages : Live(m) /\ Current(s, m)
    BY <1>4, <1>5 DEF PollInv, Awaited
  <1>7. m # x.to
    BY <1>5, <1>6 DEF Current
  <1>8. Live(m)' /\ Current(s, m)'
    BY <1>1, <1>3, <1>6, <1>7 DEF Current
  <1> QED  BY <1>8

\* Every step keeps the messages alive that somebody waits for.
LEMMA PollStep == ASSUME SmallReplies, LiteInv, PollInv, [Next]_liteVars  PROVE PollInv'
  <1> USE DEF LiteInv
  <1>1. ASSUME MessagesFrame, refusals' = 0 => refusals = 0  PROVE PollInv'
    BY <1>1 DEF MessagesFrame, PollInv, Awaited, Live, Holds, HeldBy, Inbox, Current, OneProcess,
                senderVars, receiverVars, handlerVars, threadVars, kernelVars
  <1>2. CASE UNCHANGED liteVars
    BY <1>1, <1>2 DEF liteVars, MessagesFrame
  <1>3. CASE \E g \in Programs : SetupStep(g)
    <2>1. MessagesFrame
      BY <1>3 DEF SetupStep, register_application, dist_barrier, KernelBarrier, query_port,
                  MessagesFrame
    <2>2. refusals' = 0 => refusals = 0
      BY <1>3, RefuseFacts
         DEF SetupStep, register_application, dist_barrier, KernelBarrier, query_port
    <2> QED  BY <1>1, <2>1, <2>2
  <1>4. CASE PlainSend
    <2>1. PICK p, m : queue' = [queue EXCEPT ![p] = Append(@, m)]
      BY <1>4 DEF PlainSend
    <2>2. UNCHANGED <<refusals, pc, calls, word, receiverVars, replies>>
      BY <1>4 DEF PlainSend
    <2>3. Range(Inbox) \subseteq Range(Inbox)'
      <3>1. Inbox \in Seq(Messages) /\ Inbox' \in {Inbox, Append(Inbox, m)}
        BY <2>1, Widths DEF Inbox, TypeOK, Programs
      <3>2. Range(Inbox) \subseteq Range(Append(Inbox, m))
        BY <3>1 DEF Range
      <3> QED  BY <3>1, <3>2
    <2>4. \A x \in Messages : Live(x) => Live(x)'
      BY <2>2, <2>3 DEF Live, Holds, HeldBy, receiverVars, handlerVars, threadVars
    <2> QED  BY <2>2, <2>4, AwaitedKept DEF receiverVars, threadVars
  <1>5. CASE KernelError
    BY <1>5, RefuseFacts DEF KernelError, PollInv
  <1>6. CASE ServerDies
    BY <1>6 DEF ServerDies, PollInv
  <1> QED  BY <1>2, <1>3, <1>4, <1>5, <1>6, ClearPoll, SendersPoll, ReceiversPoll, CompletePoll
           DEF Next, Progress

\* While the server lives and LITE refuses nothing, the message that a sender
\* polls for, with a word no other process passes, waits, is held by a thread of
\* the server or has its reply under way.  The programs' replies have to be
\* small enough: the router turns a reply of LIMITATION bytes or more down, and
\* the server goes on without telling the client.
THEOREM LiteMessageNotLost ==
    ASSUME SmallReplies  PROVE Spec => []MessageNotLost
  <1>1. Init => PollInv
    BY Values DEF Init, PollInv, Awaited
  <1>2. LiteInv /\ PollInv /\ [Next]_liteVars => PollInv'
    BY PollStep
  <1>3. ASSUME LiteInv, PollInv  PROVE MessageNotLost
    <2> SUFFICES ASSUME serverUp, refusals = 0, NEW s \in Senders, OneProcess(s), pc[s] = "poll",
                        word[WordOf[s]] = SEND_REPLY_WAIT
                 PROVE  \/ \E p \in Ports : \E i \in DOMAIN queue[p] : Current(s, queue[p][i])
                        \/ \E r \in Receivers : HeldBy(r) \in Messages /\ Current(s, HeldBy(r))
                        \/ \E x \in replies : Current(s, x.to)
      BY DEF MessageNotLost
    <2>1. PICK m \in Messages : Live(m) /\ Current(s, m)
      BY <1>3 DEF PollInv, Awaited
    <2>2. inbound_port["server"] \in Ports
      BY Widths DEF Programs
    <2>3. m \in Range(Inbox) =>
             \E i \in DOMAIN queue[inbound_port["server"]] : queue[inbound_port["server"]][i] = m
      BY DEF Inbox, Range
    <2> QED  BY <2>1, <2>2, <2>3 DEF Live, Holds
  <1>4. LiteInv /\ PollInv => MessageNotLost
    BY <1>3
  <1> QED  BY <1>1, <1>2, <1>4, LiteInvHolds, PTL DEF Spec
=============================================================================
