------------------------------- MODULE Broker -------------------------------
(***************************************************************************)
(* The broker process: the server thread, which handles one request at a   *)
(* time (ResponseProcessor), and the push thread, which takes at most one  *)
(* message off every queue per round and sends each to the consumers of    *)
(* its topic (Broker::pushMessage).  They share the queues, the topic and  *)
(* consumer maps and the consumers' sockets, with no lock around a round.  *)
(* The consumers' side of a socket is environment.                         *)
(***************************************************************************)
EXTENDS Integers, Sequences, FiniteSets

CONSTANTS
  Topics,         (* topic names; Topic::operator< compares names only     *)
  IpNodes,        (* consumer addresses                                    *)
  Messages,       (* what producers send                                   *)
  TopicRequests,  (* the Topic objects carried by requests about topics    *)
  reTry_Time,     (* Broker.reTry_Time                                     *)
  SendBuffer,     (* whole messages a consumer's socket takes unread       *)
  MaxQueues,      (* bound: queues created                                 *)
  MaxArrivals,    (* bound: messages received                              *)
  MaxSockets,     (* bound: consumer connections accepted                  *)
  RegisterAck,      (* the reply to REGISTER                               *)
  None              (* no request in hand, no consumer selected            *)

MessageType == {"ONE_WAY", "REPLY_EXPECTED"}

ASSUME BrokerAssumption ==
  /\ Messages \subseteq [num : Nat, priority : Int, topic : Topics, type : MessageType]
  /\ TopicRequests \subseteq [name : Topics, queueNum : Nat, consumers : SUBSET IpNodes]
  /\ reTry_Time \in Nat /\ SendBuffer \in Nat
  /\ MaxQueues \in Nat /\ MaxArrivals \in Nat /\ MaxSockets \in Nat

VARIABLES
  \* Broker's members
  count,            (* next queue number                                   *)
  queueList,        (* queue number -> the arrivals it holds               *)
  topicQueueMap,    (* topic -> queue numbers                              *)
  topicConsumerMap, (* filter.topicConsumerMap: topic -> consumers         *)
  index,            (* registered consumers                                *)
  clients,          (* consumer -> file descriptor, NoFd if absent         *)
  deadQueue,        (* messages waiting for an ack, one per number         *)
  \* the server thread
  srvPc,
  req,              (* the request in hand                                 *)
  left,             (* syncCreateQueue: iterations to go                   *)
  pending,          (* add/deleteTopicConsumer: consumers to go            *)
  loads,            (* balancer: the sizes copied so far                   *)
  \* the push thread
  pushPc,
  roundQueues,      (* the queues there were when the round began          *)
  visited,          (* the queues the iterator has passed                  *)
  batch,            (* syncPoll's list, less what is classified            *)
  t_map,            (* consumer -> messages to push, less those selected   *)
  consumer, fd,     (* the consumer being served and its Client's socket   *)
  outbox,           (* its messages still to send                          *)
  tries, pass,      (* resending: rounds done, entries of this round to go *)
  \* consumer connections: fd -> peer, state, bytes each way
  socket,
  \* history
  arrivals,         (* messages received                                   *)
  handled,          (* ids of the arrivals classified                      *)
  pushed            (* consumer -> ids written to one of its sockets       *)

srvVars   == <<srvPc, req, left, pending, loads>>
pollVars  == <<roundQueues, visited>>
retryVars == <<tries, pass>>
sendVars  == <<consumer, fd, outbox, retryVars>>
pushVars  == <<pushPc, pollVars, batch, t_map, sendVars>>
queueVars == <<count, queueList, topicQueueMap>>
consVars  == <<index, clients>>
histVars  == <<arrivals, handled, pushed>>
members   == <<queueVars, topicConsumerMap, consVars, deadQueue>>
vars == <<members, srvVars, pushVars, socket, histVars>>

-----------------------------------------------------------------------------
(* Messages as received: the id tells two copies of one message apart. *)
Arrivals == [id : Nat, msg : Messages]

(* Message::operator<, up to the order of topics with equal keys. *)
Less(m, n) ==
  \/ m.priority < n.priority
  \/ m.priority = n.priority /\ n.num < m.num

(* Two messages neither of which is less than the other. *)
SameKey(m, n) ==
  m.priority = n.priority /\ m.num = n.num /\ m.topic = n.topic

NoFd == 0

Sockets == [peer : IpNodes, state : {"open", "closed", "reset"},
            unread : Seq(Arrivals \cup {RegisterAck}), acks : Seq(Nat)]

(* Mutated form: inserting replaces the entry. *)
AccessedAnew(q) == [r \in DOMAIN queueList \cup {q} |->
                      IF r # q THEN queueList[r] ELSE {}]

(* concurrent_hash_map::insert(accessor, key): the entry is made if absent. *)
Accessed(q) == [r \in DOMAIN queueList \cup {q} |->
                  IF r \in DOMAIN queueList THEN queueList[r] ELSE {}]

InDeadQueue(num) == \E d \in deadQueue : d.msg.num = num

SocketFull(f) == socket[f].state = "open" /\ Len(socket[f].unread) >= SendBuffer
SocketReset(f) == f \in DOMAIN socket /\ socket[f].state = "reset"

(* What write(f, item) can make of the sockets.  A full socket takes nothing *)
(* (EAGAIN), nor does a descriptor that is not open (EBADF; recover() brings *)
(* such back).  Writing to a peer that has gone succeeds until its RST is    *)
(* back.                                                                     *)
AfterWrite(f, item) ==
  IF f \notin DOMAIN socket THEN {socket}
  ELSE IF socket[f].state = "open"
  THEN {IF SocketFull(f) THEN socket
        ELSE [socket EXCEPT ![f].unread = Append(@, item)]}
  ELSE {[socket EXCEPT ![f].state = s] : s \in {"closed", "reset"}}

(* "killed": the signal a write to a reset socket raises, which nothing *)
(* handles; "exited": exit(-1) or an exception no one catches.          *)
ProcessEnds(how) == srvPc' = how /\ pushPc' = how /\ UNCHANGED socket

Init ==
  /\ count = 0
  /\ queueList = [q \in {} |-> {}]
  /\ topicQueueMap = [t \in Topics |-> {}]
  /\ topicConsumerMap = [t \in Topics |-> {}]
  /\ index = {}
  /\ clients = [c \in IpNodes |-> NoFd]
  /\ deadQueue = {}
  /\ srvPc = "epoll_wait" /\ req = None /\ left = 0 /\ pending = {}
  /\ loads = [q \in {} |-> 0]
  /\ pushPc = "sleep" /\ roundQueues = {} /\ visited = {} /\ batch = {}
  /\ t_map = [c \in IpNodes |-> {}]
  /\ consumer = None /\ fd = NoFd /\ outbox = {} /\ tries = 0 /\ pass = {}
  /\ socket = <<>>
  /\ arrivals = 0 /\ handled = {}
  /\ pushed = [c \in IpNodes |-> {}]

-----------------------------------------------------------------------------
(* The server thread.  PULL and unknown types, which only reply, are left out. *)

(* It goes on to pc with no request in hand. *)
ServerFree(pc) ==
  /\ srvPc' = pc /\ req' = None /\ left' = 0 /\ pending' = {}
  /\ loads' = [q \in {} |-> 0]

ServerIdle == ServerFree("epoll_wait")

(* Write(fd, reply) to a producer: written, or tried again and again while *)
(* its socket, which is non-blocking, takes nothing (EAGAIN).              *)
Replies == ServerIdle \/ ServerFree("spin")

(* Mutated form: an entry that is there is kept. *)
FirstFd(c) == IF clients[c] # NoFd THEN clients[c] ELSE Len(socket) + 1

LatestFd(c) == Len(socket) + 1

(* REGISTER: addConsumer comes first, the reply after it (GreetConsumer). *)
Register(c) ==
  /\ srvPc = "epoll_wait"
  /\ Len(socket) < MaxSockets
  /\ \A f \in DOMAIN socket : ~(socket[f].peer = c /\ socket[f].state = "open")
  /\ socket' = Append(socket, [peer |-> c, state |-> "open", unread |-> <<>>, acks |-> <<>>])
  /\ index' = index \cup {c}
  /\ clients' = [clients EXCEPT ![c] = LatestFd(c)]
  /\ srvPc' = "greet"
  /\ UNCHANGED <<queueVars, topicConsumerMap, deadQueue, req, left, pending, loads,
                 pushVars, histVars>>

(* Write(fd, "Ack ..."): retried while the socket is full; any other error exits. *)
GreetConsumer ==
  /\ srvPc = "greet"
  /\ LET f == Len(socket) IN
       \/ /\ socket[f].state # "open"
          /\ ProcessEnds("exited") /\ UNCHANGED <<req, left, pending, loads>>
       \/ /\ socket[f].state # "reset" /\ ~SocketFull(f)
          /\ socket' \in AfterWrite(f, RegisterAck)
          /\ ServerIdle /\ UNCHANGED pushPc
  /\ UNCHANGED <<members, pollVars, batch, t_map, sendVars, histVars>>

(* REQUEST_QUEUE *)
RequestQueue(topic) ==
  /\ srvPc = "epoll_wait"
  /\ count + topic.queueNum <= MaxQueues
  /\ srvPc' = "create" /\ req' = topic
  /\ left' = topic.queueNum /\ pending' = topic.consumers
  /\ UNCHANGED <<members, loads, pushVars, socket, histVars>>

(* Mutated forms: one iteration too many; the number is not advanced. *)
CreatesOneMore == left >= 0
SameCount == count

CreatesMore == left > 0
NextCount == count + 1

(* One iteration of syncCreateQueue. *)
CreateQueue ==
  /\ srvPc = "create" /\ CreatesMore
  /\ left' = left - 1
  /\ count' = NextCount
  /\ queueList' = Accessed(count)
  /\ topicQueueMap' = [topicQueueMap EXCEPT ![req.name] = @ \cup {count}]
  /\ UNCHANGED <<topicConsumerMap, consVars, deadQueue, srvPc, req, pending, loads,
                 pushVars, socket, histVars>>

(* ADD_TOPIC_CONSUMER *)
AddRequest(topic) ==
  /\ srvPc = "epoll_wait"
  /\ srvPc' = "add" /\ req' = topic /\ left' = 0 /\ pending' = topic.consumers
  /\ UNCHANGED <<members, loads, pushVars, socket, histVars>>

(* Mutated form: index is not consulted. *)
AnyConsumer(c) == TRUE

Registered(c) == c \in index

(* One iteration of addTopicConsumer. *)
AddTopicConsumer(c) ==
  /\ srvPc \in {"create", "add"} /\ left = 0 /\ c \in pending
  /\ pending' = pending \ {c}
  /\ topicConsumerMap' = IF Registered(c)
                         THEN [topicConsumerMap EXCEPT ![req.name] = @ \cup {c}]
                         ELSE topicConsumerMap
  /\ UNCHANGED <<queueVars, consVars, deadQueue, srvPc, req, left, loads, pushVars,
                 socket, histVars>>

(* DELETE_TOPIC_CONSUMER *)
DeleteRequest(topic) ==
  /\ srvPc = "epoll_wait"
  /\ srvPc' = "delete" /\ req' = topic /\ pending' = topic.consumers
  /\ UNCHANGED <<members, left, loads, pushVars, socket, histVars>>

(* One iteration of deleteTopicConsumer. *)
DeleteTopicConsumer(c) ==
  /\ srvPc = "delete" /\ c \in pending
  /\ pending' = pending \ {c}
  /\ topicConsumerMap' = [topicConsumerMap EXCEPT ![req.name] = @ \ {c}]
  /\ UNCHANGED <<queueVars, consVars, deadQueue, srvPc, req, left, loads, pushVars,
                 socket, histVars>>

(* The loops are over.  Only REQUEST_QUEUE has its reply written; it reads *)
(* state that only this thread writes.                                     *)
TopicRequestDone ==
  /\ srvPc \in {"create", "add", "delete"} /\ left = 0 /\ pending = {}
  /\ IF srvPc = "create" THEN Replies ELSE ServerIdle
  /\ UNCHANGED <<members, pushVars, socket, histVars>>

(* REPLY_EXPECTED and ONE_WAY *)
ReceiveMessage(m) ==
  /\ srvPc = "epoll_wait"
  /\ arrivals < MaxArrivals
  /\ arrivals' = arrivals + 1
  /\ srvPc' = "balance" /\ req' = [id |-> arrivals + 1, msg |-> m]
  /\ UNCHANGED <<members, left, pending, loads, pushVars, socket, handled, pushed>>

(* addToBroker copies queueList, queue by queue, while the push thread pops; *)
(* the balancer adds to its copy the queues that are not there.             *)
CopySize(q) ==
  /\ srvPc = "balance"
  /\ q \in topicQueueMap[req.msg.topic] \ DOMAIN loads
  /\ loads' = [r \in DOMAIN loads \cup {q} |->
                 IF r = q THEN Cardinality(Accessed(q)[q]) ELSE loads[r]]
  /\ UNCHANGED <<members, srvPc, req, left, pending, pushVars, socket, histVars>>

(* Mutated form: any queue there is. *)
BalancedOverAll(topic, q) ==
  IF topicQueueMap[topic] = {} THEN q = 0 ELSE q \in DOMAIN queueList

(* LoadBalancer::balancer: a least loaded queue of the topic, or queue 0. *)
Balanced(topic, q) ==
  IF topicQueueMap[topic] = {} THEN q = 0
  ELSE q \in topicQueueMap[topic] /\ \A r \in topicQueueMap[topic] : loads[q] <= loads[r]

(* syncAdd.  A ONE_WAY message gets no reply. *)
SyncAdd(q) ==
  /\ srvPc = "balance" /\ topicQueueMap[req.msg.topic] \subseteq DOMAIN loads
  /\ Balanced(req.msg.topic, q)
  /\ queueList' = [Accessed(q) EXCEPT ![q] = @ \cup {req}]
  /\ IF req.msg.type = "REPLY_EXPECTED"
     THEN ServerFree("reply")
     ELSE ServerIdle
  /\ UNCHANGED <<count, topicQueueMap, topicConsumerMap, consVars, deadQueue,
                 pushVars, socket, histVars>>

ReplyAck ==
  /\ srvPc = "reply"
  /\ Replies
  /\ UNCHANGED <<members, pushVars, socket, histVars>>

(* A producer's connection is reset, or a request comes in pieces: read(), *)
(* the archive or the reply fails.                                         *)
ProducerFails ==
  /\ \/ srvPc \in {"epoll_wait", "reply", "spin"}
     \/ srvPc = "create" /\ left = 0 /\ pending = {}
  /\ ProcessEnds("exited")
  /\ UNCHANGED <<members, req, left, pending, loads, pollVars, batch, t_map, sendVars,
                 histVars>>

(* The numbers the balancer can meet. *)
QueueNumbers == {0} \cup UNION {topicQueueMap[t] : t \in Topics}

(* What the thread does once a request has been read. *)
ServeRequest ==
  \/ GreetConsumer \/ CreateQueue \/ TopicRequestDone \/ ReplyAck
  \/ \E c \in IpNodes : AddTopicConsumer(c) \/ DeleteTopicConsumer(c)
  \/ \E q \in QueueNumbers : CopySize(q) \/ SyncAdd(q)

ReadRequest ==
  \/ ProducerFails
  \/ \E c \in IpNodes : Register(c)
  \/ \E topic \in TopicRequests :
       RequestQueue(topic) \/ AddRequest(topic) \/ DeleteRequest(topic)
  \/ \E m \in Messages : ReceiveMessage(m)

-----------------------------------------------------------------------------
(* The push thread. *)

StartRound ==
  /\ pushPc = "sleep"
  /\ pushPc' = "poll" /\ roundQueues' = DOMAIN queueList /\ visited' = {}
  /\ UNCHANGED <<members, srvVars, batch, t_map, sendVars, socket, histVars>>

(* The table is walked with no lock: once it has grown, an iterator may pass *)
(* an entry twice or miss it.                                               *)
Rehashed == DOMAIN queueList # roundQueues

(* Mutated form: MyQueue::get, which puts the message back. *)
LookedAt(q, i) == queueList

(* MyQueue::getAndRemove *)
Removed(q, i) == [queueList EXCEPT ![q] = @ \ {i}]

(* One iteration of syncPoll: getAndRemove takes the greatest message. *)
PollQueue(q) ==
  /\ pushPc = "poll"
  /\ q \notin visited \/ Rehashed
  /\ visited' = visited \cup {q}
  /\ \/ /\ queueList[q] = {}
        /\ UNCHANGED <<queueList, batch>>
     \/ \E i \in queueList[q] :
          /\ \A j \in queueList[q] : ~Less(i.msg, j.msg)
          /\ queueList' = Removed(q, i) /\ batch' = batch \cup {i}
  /\ UNCHANGED <<count, topicQueueMap, topicConsumerMap, consVars, deadQueue,
                 srvVars, pushPc, roundQueues, t_map, sendVars, socket, histVars>>

(* Mutated form: the loop is left, not continued, at an empty queue. *)
PolledUpToEmpty ==
  roundQueues \subseteq visited \/ Rehashed \/ \E q \in visited : queueList[q] = {}

AllPolled == roundQueues \subseteq visited \/ Rehashed

EndPoll ==
  /\ pushPc = "poll" /\ AllPolled
  /\ pushPc' = "classify" /\ roundQueues' = {} /\ visited' = {}
  /\ UNCHANGED <<members, srvVars, batch, t_map, sendVars, socket, histVars>>

(* One iteration of Filter::classification: inserting into a set keeps the *)
(* element that is there when the two compare equal.                       *)
Classify(i) ==
  /\ pushPc = "classify" /\ i \in batch
  /\ batch' = batch \ {i}
  /\ handled' = handled \cup {i.id}
  /\ t_map' = [c \in IpNodes |->
                 IF /\ c \in topicConsumerMap[i.msg.topic]
                    /\ \A j \in t_map[c] : ~SameKey(i.msg, j.msg)
                 THEN t_map[c] \cup {i} ELSE t_map[c]]
  /\ UNCHANGED <<members, srvVars, pushPc, pollVars, sendVars, socket, arrivals,
                 pushed>>

EndClassify ==
  /\ pushPc = "classify" /\ batch = {}
  /\ pushPc' = "select"
  /\ UNCHANGED <<members, srvVars, pollVars, batch, t_map, sendVars, socket,
                 histVars>>

(* One consumer of t_map; its messages are dropped if it has no connection. *)
SelectConsumer(c) ==
  /\ pushPc = "select" /\ t_map[c] # {}
  /\ t_map' = [t_map EXCEPT ![c] = {}]
  /\ IF clients[c] = NoFd
     THEN UNCHANGED <<pushPc, sendVars>>
     ELSE /\ pushPc' = "send" /\ consumer' = c /\ fd' = clients[c] /\ outbox' = t_map[c]
          /\ UNCHANGED retryVars
  /\ UNCHANGED <<members, srvVars, pollVars, batch, socket, histVars>>

EndRound ==
  /\ pushPc = "select" /\ \A c \in IpNodes : t_map[c] = {}
  /\ pushPc' = "sleep"
  /\ UNCHANGED <<members, srvVars, pollVars, batch, t_map, sendVars, socket,
                 histVars>>

(* deadQueue.count(num == 0): the key looked up is 0 or 1. *)
KeptForRetry(i) ==
  /\ InDeadQueue(IF i.msg.num = 0 THEN 1 ELSE 0)
  /\ ~InDeadQueue(i.msg.num)

(* The set is walked in its order, so the least message is sent first. *)
Send(i) ==
  /\ pushPc = "send" /\ i \in outbox
  /\ \A j \in outbox : ~Less(j.msg, i.msg)
  /\ outbox' = outbox \ {i}
  /\ deadQueue' = IF KeptForRetry(i) THEN deadQueue \cup {i} ELSE deadQueue
  /\ pushed' = [pushed EXCEPT ![consumer] = @ \cup {i.id}]
  /\ IF SocketReset(fd) THEN ProcessEnds("killed")
     ELSE pushPc' = "receive" /\ socket' \in AfterWrite(fd, i) /\ UNCHANGED srvPc
  /\ UNCHANGED <<queueVars, topicConsumerMap, consVars, req, left, pending, loads,
                 pollVars, batch, t_map, consumer, fd, retryVars, arrivals, handled>>

(* read() on the consumer's socket, which addFd made non-blocking: the ack *)
(* that is there, often of an earlier message, or "Failed".  An ack that   *)
(* names no entry moves the resending cursor on, its absence does not.     *)
Receive ==
  /\ pushPc \in {"receive", "resent"}
  /\ LET acks == IF fd \in DOMAIN socket THEN socket[fd].acks ELSE <<>>
         num  == IF acks = <<>> THEN {} ELSE {Head(acks)}
         hit  == {d \in deadQueue : d.msg.num \in num}
     IN /\ socket' = IF acks = <<>> THEN socket
                     ELSE [socket EXCEPT ![fd].acks = Tail(@)]
        /\ deadQueue' = deadQueue \ hit
        /\ IF pushPc = "receive" THEN pushPc' = "send" /\ UNCHANGED pass
           ELSE /\ pushPc' = "retry"
                /\ pass' = IF hit = {} /\ num # {} THEN {k \in pass : \E l \in pass : l < k}
                           ELSE pass \ num
  /\ UNCHANGED <<queueVars, topicConsumerMap, consVars, srvVars, pollVars, batch,
                 t_map, consumer, fd, outbox, tries, histVars>>

(* Mutated form: the loop over the messages may be left early. *)
StartRetryEarly ==
  /\ pushPc = "send"
  /\ pushPc' = "retry" /\ tries' = 0 /\ pass' = {}
  /\ UNCHANGED <<members, srvVars, pollVars, batch, t_map, consumer, fd, outbox,
                 socket, histVars>>

StartRetry ==
  /\ pushPc = "send" /\ outbox = {}
  /\ pushPc' = "retry" /\ tries' = 0 /\ pass' = {}
  /\ UNCHANGED <<members, srvVars, pollVars, batch, t_map, consumer, fd, outbox,
                 socket, histVars>>

(* A step of the resending loop: send the entry at the cursor, begin another *)
(* pass, or leave the consumer.                                             *)
Retry ==
  /\ pushPc = "retry"
  /\ IF pass # {}
     THEN /\ \E d \in deadQueue :
               /\ d.msg.num \in pass /\ \A k \in pass : d.msg.num <= k
               /\ IF SocketReset(fd) THEN ProcessEnds("killed")
                  ELSE pushPc' = "resent" /\ socket' \in AfterWrite(fd, d) /\ UNCHANGED srvPc
          /\ UNCHANGED <<consumer, fd, tries, pass>>
     ELSE /\ UNCHANGED <<srvPc, socket>>
          /\ IF tries < reTry_Time /\ deadQueue # {}
             THEN /\ tries' = tries + 1 /\ pass' = {d.msg.num : d \in deadQueue}
                  /\ UNCHANGED <<pushPc, consumer, fd>>
             ELSE /\ pushPc' = "select" /\ consumer' = None /\ fd' = NoFd /\ tries' = 0
                  /\ UNCHANGED pass
  /\ UNCHANGED <<members, req, left, pending, loads, pollVars, batch, t_map,
                 outbox, histVars>>

PushThread ==
  \/ StartRound \/ EndPoll \/ EndClassify \/ EndRound \/ Receive \/ StartRetry \/ Retry
  \/ \E q \in DOMAIN queueList : PollQueue(q)
  \/ \E i \in batch : Classify(i)
  \/ \E c \in IpNodes : SelectConsumer(c)
  \/ \E i \in outbox : Send(i)

-----------------------------------------------------------------------------
(* The other ends of the sockets (environment). *)

(* The producer reads, and the reply that has to wait is written. *)
ProducerReads ==
  /\ srvPc = "spin"
  /\ ServerIdle
  /\ UNCHANGED <<members, pushVars, socket, histVars>>

(* listening() acknowledges every message it reads. *)
ConsumerReads(f) ==
  /\ socket[f].state = "open" /\ socket[f].unread # <<>>
  /\ LET item == Head(socket[f].unread) IN
       socket' = [socket EXCEPT ![f].unread = Tail(@),
                                ![f].acks = IF item = RegisterAck THEN @
                                            ELSE Append(@, item.msg.num)]
  /\ UNCHANGED <<members, srvVars, pushVars, histVars>>

ConsumerExits(f) ==
  /\ socket[f].state = "open"
  /\ socket' = [socket EXCEPT ![f].state = "closed", ![f].unread = <<>>]
  /\ UNCHANGED <<members, srvVars, pushVars, histVars>>

(* The connections end with the process. *)
Environment ==
  /\ srvPc \notin {"killed", "exited"}
  /\ ProducerReads \/ \E f \in DOMAIN socket : ConsumerReads(f) \/ ConsumerExits(f)

Next == ReadRequest \/ ServeRequest \/ PushThread \/ Environment

Spec == Init /\ [][Next]_vars

(* Both threads keep running; nobody is obliged to send a request or to read. *)
FairSpec == Spec /\ WF_vars(ServeRequest) /\ WF_vars(PushThread)
=============================================================================
