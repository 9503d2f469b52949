---------------------------- MODULE LiteMessages ----------------------------
(***************************************************************************)
(* Messages between two programs over LITE, as client/test_rpc.c sends and *)
(* receives them: the wrappers of client/lib/lite-lib.c, the dispatcher of *)
(* router/test_router.cpp and the functions of router/lib/lite-lib.c that  *)
(* make the system calls and poll the memory the kernel writes to.         *)
(*                                                                         *)
(* The LITE kernel is not in the repository.  It is modelled from what the *)
(* code expects of it: it may refuse any call; a send it accepts sets the  *)
(* caller's word to SEND_REPLY_WAIT and queues the message at a port; a    *)
(* receive is served at once, or reports an error and is served later; the *)
(* length of a reply is stored in the word of the call it answers.         *)
(*                                                                         *)
(* The programs run on two hosts, each with a router.  The threads of a    *)
(* process share the connection in client_sock, so one handler serves      *)
(* their calls one after another: while it polls for one thread the others *)
(* wait.  Beside the client, whose set-up is modelled, other processes of  *)
(* its host may send; a word is in memory found by name, and all processes *)
(* that ask for the name pass the same word.  A handler's answer goes to   *)
(* the thread that made the call; that threads of a process may take each  *)
(* other's answers is shown in RpcChannel.                                 *)
(***************************************************************************)
EXTENDS Integers, Sequences, FiniteSets, FiniteSetsExt

CONSTANTS
    Senders,        \* threads that send: the client's, and of processes beside it
    ProcessOf,      \* sender -> its process
    Receivers,      \* threads of the server
    Words,          \* integers in memory shared with the router
    WordOf,         \* the word a sender passes as ret_length
    Recvs,          \* receiver -> number of calls it makes
    MaxRefusals,    \* bound: calls or messages LITE turns down without a cause here
    PlainSends,     \* messages from other programs that want no reply
    SendSize,       \* sender -> size in its first, second, ... call
    MaxRetSize,     \* sender -> max_ret_size in its calls
    ReceiveSize, ReplySize,         \* receiver -> arguments of its calls
    IMM_MAX_PORT,   \* 2^IMM_MAX_PORT_BIT
    LIMITATION,     \* messages are smaller than this
    WordSize,       \* 2^32
    SEND_REPLY_WAIT, IMM_SEND_ONLY_FLAG,
    Zero,           \* 0 in a word or a descriptor
    Error,          \* a negative number other than SEND_REPLY_WAIT
    None            \* no message, no result

Threads == Senders \cup Receivers
Ports == 0..(IMM_MAX_PORT - 1)

\* base_port, and base_port + 1 for what the server would send.
Programs == {"server", "client"}
inbound_port == [g \in Programs |-> IF g = "server" THEN 1 ELSE 2]
outbound_port == [g \in Programs |-> IF g = "server" THEN 2 ELSE 1]

\* A message: its sender and number, the size and the room for the reply that
\* the kernel has decoded.  A plain one has no sender.
Messages == [from : Senders \cup {None}, no : Nat, size : Nat, room : Nat]

\* In memory the length of a reply is a number; here it comes with the message
\* it answers, so that lengths of two replies can be told apart.
Replies == [to : Messages, length : Nat]

Sends(s) == Len(SendSize[s])
Fits(s, k) == SendSize[s][k] < LIMITATION /\ MaxRetSize[s] < LIMITATION

\* The last conjunct is test_rpc.c:375, "Match the number of send and recv on
\* both ends".
ASSUME MessagesAssumption ==
    /\ WordOf \in [Senders -> Words] /\ DOMAIN ProcessOf = Senders /\ Senders \cap Receivers = {}
    /\ Recvs \in [Receivers -> Nat] /\ PlainSends \in Nat /\ MaxRefusals \in Nat
    /\ SendSize \in [Senders -> Seq(Nat)] /\ MaxRetSize \in [Senders -> Nat]
    /\ ReceiveSize \in [Receivers -> Nat] /\ ReplySize \in [Receivers -> Nat]
    /\ IMM_MAX_PORT \in Nat \ 0..2 /\ LIMITATION \in Nat \ 0..1
    /\ WordSize \in Nat /\ LIMITATION * IMM_MAX_PORT <= WordSize /\ WordSize % IMM_MAX_PORT = 0
    /\ None \notin Senders \cup Ports
    /\ {SEND_REPLY_WAIT, IMM_SEND_ONLY_FLAG, Zero, Error, None} \cap (Messages \cup Replies) = {}
    /\ Zero \notin {SEND_REPLY_WAIT, IMM_SEND_ONLY_FLAG, Error, None}
    /\ SEND_REPLY_WAIT \notin {Error, None} /\ Error # None
    /\ MapThenSumSet(LAMBDA r : Recvs[r], Receivers)
          = PlainSends + MapThenSumSet(LAMBDA s : Cardinality({k \in 1..Sends(s) : Fits(s, k)}),
                                       Senders)

VARIABLES
    stage,          \* program -> step of run()
    ports,          \* ports registered
    arrived,        \* calls of dist_barrier
    routes,         \* programs that have found the port of the other one
    refusals,       \* calls refused and messages given up so far
    serverUp,       \* the server's process
    pc,             \* thread -> step of its call, in its process or in the handler
    calls,          \* thread -> calls made so far
    ret,            \* thread -> ret, the result of the system call
    result,         \* sender -> what its last call has returned
    word,           \* word -> SEND_REPLY_WAIT, 0, an error or a reply
    descriptor,     \* *descriptor, in rsp_msg of the server's handler
    ret_length,     \* *ret_length, in the same rsp_msg
    pending,        \* port at which the kernel will serve the handler's receive later
    length,         \* receiver -> what its last call has returned
    held,           \* receiver -> the descriptor its last receive has returned
    got,            \* receiver -> the message that served its last receive
    queue,          \* port -> messages waiting
    replies,        \* replies under way
    replied,        \* messages replied to so far
    plain           \* messages sent without a reply so far

setupVars == <<stage, ports, arrived, routes>>
senderVars == <<word, plain>>
handlerVars == <<descriptor, ret_length, pending>>
threadVars == <<length, held, got, serverUp>>
receiverVars == <<handlerVars, threadVars>>
kernelVars == <<queue, replies, replied>>
liteVars == <<setupVars, refusals, pc, calls, ret, result, senderVars, receiverVars, kernelVars>>

TypeOK ==
    /\ stage \in [Programs -> {"register", "barrier", "waiting", "query", "run"}]
    /\ ports \subseteq Ports
    /\ arrived \in 0..2
    /\ routes \subseteq Programs
    /\ refusals \in 0..MaxRefusals
    /\ serverUp \in BOOLEAN
    /\ pc \in [Threads -> {"start", "idle", "poll", "return", "reply", "dead"}]
    /\ calls \in [Threads -> Nat]
    /\ ret \in [Threads -> Nat \cup {-1}]
    /\ result \in [Senders -> Replies \cup {SEND_REPLY_WAIT, Error, Zero, None}]
    /\ word \in [Words -> Replies \cup {SEND_REPLY_WAIT, Error, Zero}]
    /\ descriptor \in Messages \cup {IMM_SEND_ONLY_FLAG, Zero}
    /\ ret_length \in Nat
    /\ pending \in Ports \cup {None}
    /\ length \in [Receivers -> Nat]
    /\ held \in [Receivers -> Messages \cup {Zero}]
    /\ got \in [Receivers -> Messages \cup {None}]
    /\ queue \in [Ports -> Seq(Messages)]
    /\ replies \subseteq Replies
    /\ replied \subseteq Messages
    /\ plain \in 0..PlainSends

\* New memory is zero; a handler clears its rsp_msg.  The value of held before the
\* first receive is never passed on.
Init ==
    /\ stage = [g \in Programs |-> "register"]
    /\ ports = {} /\ arrived = 0 /\ routes = {}
    /\ refusals = 0 /\ serverUp = TRUE
    /\ pc = [t \in Threads |-> IF t \in Senders THEN "start" ELSE "idle"]
    /\ calls = [t \in Threads |-> 0]
    /\ ret = [t \in Threads |-> 0]
    /\ result = [s \in Senders |-> None]
    /\ word = [w \in Words |-> Zero]
    /\ descriptor = Zero /\ ret_length = 0 /\ pending = None
    /\ length = [r \in Receivers |-> 0]
    /\ held = [r \in Receivers |-> Zero]
    /\ got = [r \in Receivers |-> None]
    /\ queue = [p \in Ports |-> <<>>]
    /\ replies = {} /\ replied = {} /\ plain = 0

Goto(t, p) == pc' = [pc EXCEPT ![t] = p]

\* LITE turns down what it might as well have accepted.
Refuse == refusals < MaxRefusals /\ refusals' = refusals + 1

-----------------------------------------------------------------------------
(***************************************************************************)
(* run() of the two programs up to the start of their threads.  No result  *)
(* is looked at: a refused call is passed over.                            *)
(***************************************************************************)

Enters(g, s) == stage' = [stage EXCEPT ![g] = s]

register_application(g) ==
    /\ stage[g] = "register"
    /\ Enters(g, "barrier")
    /\ \/ ports' = ports \cup {inbound_port[g]} /\ UNCHANGED refusals
       \/ UNCHANGED ports /\ Refuse
    /\ UNCHANGED <<arrived, routes, pc, calls, ret, result, senderVars, receiverVars, kernelVars>>

\* Mutant: the caller alone fills the barrier.
BarrierOfOne == 1

\* The argument of dist_barrier.
BarrierNum == 2

dist_barrier(g) ==
    /\ stage[g] = "barrier"
    /\ \/ arrived' = arrived + 1 /\ Enters(g, "waiting") /\ UNCHANGED refusals
       \/ UNCHANGED arrived /\ Enters(g, "query") /\ Refuse
    /\ UNCHANGED <<ports, routes, pc, calls, ret, result, senderVars, receiverVars, kernelVars>>

\* The kernel lets the program go when BarrierNum calls were made.
KernelBarrier(g) ==
    /\ stage[g] = "waiting" /\ arrived >= BarrierNum
    /\ Enters(g, "query")
    /\ UNCHANGED <<ports, arrived, routes, refusals, pc, calls, ret, result, senderVars,
                   receiverVars, kernelVars>>

\* The virtual id may not translate: the kernel refuses node -1.
query_port(g) ==
    /\ stage[g] = "query"
    /\ Enters(g, "run")
    /\ \/ outbound_port[g] \in ports /\ routes' = routes \cup {g} /\ UNCHANGED refusals
       \/ outbound_port[g] \in ports /\ UNCHANGED routes /\ Refuse
       \/ outbound_port[g] \notin ports /\ UNCHANGED <<routes, refusals>>
    /\ UNCHANGED <<ports, arrived, pc, calls, ret, result, senderVars, receiverVars, kernelVars>>

-----------------------------------------------------------------------------
(***************************************************************************)
(* Packing of a size and a port, or of a size and a priority, and what the *)
(* kernel takes out of the word.                                           *)
(***************************************************************************)

Pack(size, low) == (size * IMM_MAX_PORT + low) % WordSize
High(w) == w \div IMM_MAX_PORT
Low(w) == w % IMM_MAX_PORT

NULL_PRIORITY == 0

\* Mutant: sizes are not limited.
NoLimit(s) == FALSE

\* size >= LIMITATION || max_ret_size >= LIMITATION
TooBig(s) == ~Fits(s, calls[s] + 1)

-----------------------------------------------------------------------------
(***************************************************************************)
(* userspace_liteapi_send_reply_imm_fast.                                  *)
(***************************************************************************)

\* memset(poll_array, 0, sizeof(int)): each thread clears its word before it first
\* sends, also under another one that polls the same word.
ClearWord(s) ==
    /\ stage["client"] = "run" /\ pc[s] = "start"
    /\ word' = [word EXCEPT ![WordOf[s]] = Zero]
    /\ Goto(s, "idle")
    /\ UNCHANGED <<setupVars, refusals, calls, ret, result, plain, receiverVars, kernelVars>>

\* The handler of the process that s belongs to waits for the next request.
HandlerFree(s) ==
    \A q \in Senders : ProcessOf[q] = ProcessOf[s] => pc[q] \notin {"poll", "return"}

\* A thread calls the wrapper, and the handler takes up its request.
Sending(s) ==
    /\ stage["client"] = "run" /\ pc[s] = "idle" /\ calls[s] < Sends(s) /\ HandlerFree(s)
    /\ calls' = [calls EXCEPT ![s] = @ + 1]

\* The message the kernel makes of the words that sender s passes.
Message(s) ==
    [from |-> s, no |-> calls'[s],
     size |-> High(Pack(SendSize[s][calls'[s]], outbound_port["client"])),
     room |-> High(Pack(MaxRetSize[s], NULL_PRIORITY))]

SendPort(s) == Low(Pack(SendSize[s][calls'[s]], outbound_port["client"]))

\* The call up to the system call and its result.  A refusal is printed, and
\* the poll goes ahead.  The virtual id of the target may not translate, which
\* is a refusal too.  The dispatcher passes ret_addr where addr is meant; what
\* is in the buffers is not modelled.
send_reply_imm_fast(s) ==
    /\ Sending(s)
    /\ \/ /\ TooBig(s)
          /\ ret' = [ret EXCEPT ![s] = -1]
          /\ result' = [result EXCEPT ![s] = Error]
          /\ UNCHANGED <<pc, word, queue, refusals>>
       \/ /\ ~TooBig(s) /\ "client" \in routes
          /\ ret' = [ret EXCEPT ![s] = 0]
          /\ word' = [word EXCEPT ![WordOf[s]] = SEND_REPLY_WAIT]
          /\ queue' = [queue EXCEPT ![SendPort(s)] = Append(@, Message(s))]
          /\ Goto(s, "poll")
          /\ UNCHANGED <<result, refusals>>
       \/ /\ ~TooBig(s)
          /\ ret' = [ret EXCEPT ![s] = -1]
          /\ \/ "client" \in routes /\ Refuse
             \/ "client" \notin routes /\ UNCHANGED refusals
          /\ Goto(s, "poll")
          /\ UNCHANGED <<result, word, queue>>
    /\ UNCHANGED <<setupVars, plain, receiverVars, replies, replied>>

\* Mutant: the word is not polled.
DoneAtOnce(s) == TRUE

\* while (*ret_length == SEND_REPLY_WAIT);  The build does not optimise: every
\* turn reads the word.
SendDone(s) == word[WordOf[s]] # SEND_REPLY_WAIT

SendPoll(s) ==
    /\ pc[s] = "poll" /\ SendDone(s)
    /\ Goto(s, "return")
    /\ UNCHANGED <<setupVars, refusals, calls, ret, result, senderVars, receiverVars, kernelVars>>

\* return *ret_length, which reads the word once more.  The reading between the
\* two decides on a line of output only.
SendReturn(s) ==
    /\ pc[s] = "return"
    /\ result' = [result EXCEPT ![s] = word[WordOf[s]]]
    /\ Goto(s, "idle")
    /\ UNCHANGED <<setupVars, refusals, calls, ret, senderVars, receiverVars, kernelVars>>

\* userspace_liteapi_send in a program beside the two, without a word, with a
\* size below LIMITATION.
PlainSend ==
    /\ stage["client"] = "run" /\ plain < PlainSends
    /\ plain' = plain + 1
    /\ queue' = [queue EXCEPT ![Low(Pack(1, inbound_port["server"]))] =
                    Append(@, [from |-> None, no |-> plain',
                               size |-> High(Pack(1, inbound_port["server"])), room |-> 0])]
    /\ UNCHANGED <<setupVars, refusals, pc, calls, ret, result, word, receiverVars,
                   replies, replied>>

-----------------------------------------------------------------------------
(***************************************************************************)
(* userspace_liteapi_receive_message_fast and userspace_liteapi_reply_     *)
(* message.                                                                *)
(***************************************************************************)

\* The server's handler waits for the next request.
ServerHandlerFree == \A r \in Receivers : pc[r] # "poll"

\* A thread of the server calls the wrapper, and the handler takes up its request.
Receiving(r) ==
    /\ stage["server"] = "run" /\ pc[r] = "idle" /\ calls[r] < Recvs[r]
    /\ serverUp /\ ServerHandlerFree
    /\ calls' = [calls EXCEPT ![r] = @ + 1]

\* Mutant: *descriptor is not cleared.
KeptDescriptor == descriptor

\* *descriptor = 0
ClearedDescriptor == Zero

\* The kernel gives the first message of a port to the receive of thread r.
Take(r, p) ==
    LET m == Head(queue[p]) IN
    /\ queue[p] # <<>>
    /\ queue' = [queue EXCEPT ![p] = Tail(@)]
    /\ descriptor' = IF m.from = None THEN IMM_SEND_ONLY_FLAG ELSE m
    /\ got' = [got EXCEPT ![r] = m]

\* The size is not limited here: the port is what is left of a word that may
\* have overflowed.
ReceivePort(r) == Low(Pack(ReceiveSize[r], inbound_port["server"]))

\* The call up to the system call, which returns the length, or a negative
\* number because it will be served later or because it is refused.
receive_message_fast(r) ==
    /\ Receiving(r)
    /\ Goto(r, "poll")
    /\ \/ /\ Take(r, ReceivePort(r))
          /\ ret' = [ret EXCEPT ![r] = got'[r].size]
          /\ UNCHANGED <<pending, refusals>>
       \/ /\ ret' = [ret EXCEPT ![r] = -1]
          /\ descriptor' = ClearedDescriptor
          /\ \/ pending' = ReceivePort(r) /\ UNCHANGED refusals
             \/ Refuse /\ UNCHANGED pending
          /\ UNCHANGED <<queue, got>>
    /\ UNCHANGED <<setupVars, result, senderVars, ret_length, length, held, serverUp,
                   replies, replied>>

\* The receive of thread r, which had to wait, is served.
KernelServe(r) ==
    /\ pc[r] = "poll" /\ pending # None
    /\ Take(r, pending)
    /\ ret_length' = got'[r].size
    /\ pending' = None
    /\ UNCHANGED <<setupVars, refusals, pc, calls, ret, result, senderVars, length, held,
                   serverUp, replies, replied>>

\* Mutant: the poll ends after CHECK_LENGTH turns.
GivesUp == TRUE

\* while (*(descriptor) == 0) usleep(1);
ReceiveDone == descriptor # Zero

\* Mutant: the result of the system call is returned in either case.
ReturnsRet(r) == ret[r]

\* if (ret < 0) return *ret_length; return ret;
ReceiveLength(r) == IF ret[r] < 0 THEN ret_length ELSE ret[r]

\* if (*(descriptor) == IMM_SEND_ONLY_FLAG) *(descriptor) = 0;
ReceiveDescriptor == IF descriptor = IMM_SEND_ONLY_FLAG THEN Zero ELSE descriptor

\* The poll ends and the handler sends the response, of which the server's thread
\* keeps the result and the descriptor.  If the server has died meanwhile,
\* SIGPIPE ends the router with all its handlers.
ReceivePoll(r) ==
    /\ pc[r] = "poll" /\ ReceiveDone
    /\ descriptor' = ReceiveDescriptor
    /\ ret' = [ret EXCEPT ![r] = 0]
    /\ \/ /\ serverUp
          /\ Goto(r, "reply")
          /\ length' = [length EXCEPT ![r] = ReceiveLength(r)]
          /\ held' = [held EXCEPT ![r] = ReceiveDescriptor]
       \/ /\ ~serverUp
          /\ Goto(r, "dead")
          /\ UNCHANGED <<length, held>>
    /\ UNCHANGED <<setupVars, refusals, calls, result, senderVars, ret_length, pending, got,
                   serverUp, kernelVars>>

\* The server's thread calls the wrapper with the descriptor it has received,
\* whatever that is, and goes on whatever the result.
Replying(r) ==
    /\ pc[r] = "reply" /\ ServerHandlerFree
    /\ Goto(r, "idle")
    /\ length' = [length EXCEPT ![r] = 0]
    /\ held' = [held EXCEPT ![r] = Zero]
    /\ got' = [got EXCEPT ![r] = None]

\* A reply that is too big returns -1 in the router, a descriptor that is none,
\* as 0, does so in the kernel.
reply_message(r) ==
    /\ Replying(r)
    /\ \/ /\ ReplySize[r] < LIMITATION /\ held[r] \in Messages
          /\ replies' = replies \cup {[to |-> held[r], length |-> ReplySize[r]]}
          /\ replied' = replied \cup {held[r]}
          /\ UNCHANGED refusals
       \/ ReplySize[r] < LIMITATION /\ held[r] \in Messages
             /\ Refuse /\ UNCHANGED <<replies, replied>>
       \/ (ReplySize[r] >= LIMITATION \/ held[r] \notin Messages)
             /\ UNCHANGED <<replies, replied, refusals>>
    /\ UNCHANGED <<setupVars, calls, ret, result, senderVars, handlerVars, serverUp, queue>>

\* The server's process ends.  Its handler notices when it next reads from or
\* writes to the connection: one that polls goes on polling.
ServerDies ==
    /\ serverUp /\ serverUp' = FALSE
    /\ pc' = [t \in Threads |-> IF t \in Receivers /\ pc[t] \in {"idle", "reply"} THEN "dead"
                                ELSE pc[t]]
    /\ UNCHANGED <<setupVars, refusals, calls, ret, result, senderVars, handlerVars, length,
                   held, got, kernelVars>>

-----------------------------------------------------------------------------
\* A reply arrives: its length, or an error if there is no room for it.
KernelComplete ==
    \E x \in replies :
        /\ replies' = replies \ {x}
        /\ word' = [word EXCEPT ![WordOf[x.to.from]] =
                        IF x.length <= x.to.room THEN x ELSE Error]
        /\ UNCHANGED <<setupVars, refusals, pc, calls, ret, result, plain, receiverVars,
                       queue, replied>>

\* The kernel gives up a message that it cannot deliver.
KernelError ==
    \E p \in Ports :
        /\ queue[p] # <<>> /\ Head(queue[p]).from # None
        /\ queue' = [queue EXCEPT ![p] = Tail(@)]
        /\ word' = [word EXCEPT ![WordOf[Head(queue[p]).from]] = Error]
        /\ Refuse
        /\ UNCHANGED <<setupVars, pc, calls, ret, result, plain, receiverVars, replies, replied>>

-----------------------------------------------------------------------------
SetupStep(g) ==
    /\ g = "server" => serverUp
    /\ register_application(g) \/ dist_barrier(g) \/ KernelBarrier(g) \/ query_port(g)
SenderStep(s) == send_reply_imm_fast(s) \/ SendPoll(s) \/ SendReturn(s)
ReceiverStep(r) == receive_message_fast(r) \/ ReceivePoll(r) \/ reply_message(r)

Progress ==
    \/ \E g \in Programs : SetupStep(g)
    \/ \E s \in Senders : ClearWord(s) \/ SenderStep(s)
    \/ \E r \in Receivers : ReceiverStep(r) \/ KernelServe(r)
    \/ PlainSend \/ KernelComplete

Next == Progress \/ KernelError \/ ServerDies

Spec == Init /\ [][Next]_liteVars

\* As long as a thread can run or the kernel has something to deliver, somebody
\* takes a step.  This is less than fairness to each of them, and enough, since
\* the number of calls is limited.
FairSpec == Spec /\ WF_liteVars(Progress)

-----------------------------------------------------------------------------
(***************************************************************************)
(* Properties.                                                             *)
(***************************************************************************)

Current(s, m) == m.from = s /\ m.no = calls[s]

\* No other thread passes the word of s.
Alone(s) == \A q \in Senders : WordOf[q] = WordOf[s] => q = s

\* No other process does.  The threads of one process that pass it, as those of
\* test_rpc.c do, are served one after another.
OneProcess(s) == \A q \in Senders : WordOf[q] = WordOf[s] => ProcessOf[q] = ProcessOf[s]

\* A call of send_reply_imm_fast that LITE has accepted returns with its own
\* reply, which somebody has made and for which there was room, or an error,
\* although the word still holds the length of the call before it.  With a word
\* that other threads pass too it may return 0, which one that starts has put
\* there, or a reply to another one or to an earlier call, longer than the caller
\* has room for.  SEND_REPLY_WAIT, put there after the poll has ended, takes
\* another process.
OwnReply ==
    \A s \in Senders : pc[s] = "idle" /\ calls[s] > 0 /\ ret[s] >= 0 =>
        \/ result[s] = Error
        \/ result[s] = Zero /\ ~Alone(s)
        \/ result[s] = SEND_REPLY_WAIT /\ ~OneProcess(s)
        \/ /\ result[s] \in Replies
           /\ result[s].to \in replied
           /\ WordOf[result[s].to.from] = WordOf[s]
           /\ Alone(s) => Current(s, result[s].to) /\ result[s].length <= MaxRetSize[s]

\* What thread r, or the handler for it, has to reply to.
HeldBy(r) == IF pc[r] = "poll" THEN descriptor ELSE IF pc[r] = "reply" THEN held[r] ELSE Zero

\* receive_message_fast returns the length of the message that was received,
\* served at once or later, and a descriptor exactly if it is to be replied to.
ReceiveTrue ==
    \A r \in Receivers : pc[r] = "reply" =>
        /\ length[r] = got[r].size
        /\ held[r] = IF got[r].from = None THEN Zero ELSE got[r]

\* What the server replies to is a message that nobody has replied to, and that
\* no other thread will: no sender gets a second reply, in a later call.
RepliesOnce ==
    \A r \in Receivers : pc[r] = "reply" /\ held[r] # Zero =>
        /\ held[r] \notin replied
        /\ \A q \in Receivers \ {r} : HeldBy(q) # held[r]

\* The kernel finds in the packed words what the caller has put there: messages
\* are queued at the server's port with their size and room, and receives wait
\* at that port even where the size has overflowed.
ArgumentsKept ==
    /\ \A p \in Ports : \A i \in DOMAIN queue[p] :
        LET m == queue[p][i] IN
        /\ p = inbound_port["server"]
        /\ m.from # None => m.size = SendSize[m.from][m.no] /\ m.room = MaxRetSize[m.from]
    /\ pending \in {inbound_port["server"], None}

\* Unless LITE has refused a call, a program that asks for the other one's port
\* finds it, in whatever order the two start (run() of test_rpc.c).
PortIsThere ==
    refusals = 0 => \A g \in Programs : stage[g] = "query" => outbound_port[g] \in ports

\* While the server lives and LITE refuses nothing, the message of a sender that
\* polls a word no other process passes is not lost: it waits, or a thread of
\* the server has it and has yet to reply, or the reply is under way.  Whether
\* that thread gets to reply is said in TestEnds.
MessageNotLost ==
    serverUp /\ refusals = 0 =>
        \A s \in Senders :
            OneProcess(s) /\ pc[s] = "poll" /\ word[WordOf[s]] = SEND_REPLY_WAIT =>
            \/ \E p \in Ports : \E i \in DOMAIN queue[p] : Current(s, queue[p][i])
            \/ \E r \in Receivers : HeldBy(r) \in Messages /\ Current(s, HeldBy(r))
            \/ \E x \in replies : Current(s, x.to)

AllDone ==
    /\ \A s \in Senders : pc[s] = "idle" /\ calls[s] = Sends(s)
    /\ \A r \in Receivers : pc[r] = "idle" /\ calls[r] = Recvs[r]

\* A thread of the server has a message to reply to and waits for the handler,
\* which polls for another thread's receive.
ReplyBlocked ==
    \E r, q \in Receivers : pc[r] = "poll" /\ pc[q] = "reply" /\ held[q] \in Messages

\* With the number of sends and receives matched, both programs end in spite of
\* the words they share, unless the server dies, LITE refuses a call, or a reply
\* stays blocked for ever: the server's threads share one handler, and the
\* message that its receive polls for may be one that nobody sends before he has
\* the reply.
TestEnds == <>[](AllDone \/ refusals > 0 \/ ~serverUp \/ ReplyBlocked)
=============================================================================
