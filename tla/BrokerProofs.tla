---------------------------- MODULE BrokerProofs ----------------------------
(***************************************************************************)
(* Proofs about the broker, for every set of topics, addresses, messages   *)
(* and requests and for every bound.                                       *)
(***************************************************************************)
EXTENDS BrokerProperties, FiniteSetTheorems, SequenceTheorems, TLAPS

(* The control points at which the push thread uses its descriptor. *)
Serving == pushPc \in {"send", "receive", "retry", "resent"}

(* What the connections and the sizes of queues add to the types: an       *)
(* address has a descriptor iff it registered, the descriptor is of one of *)
(* its own connections, the thread that replies to REGISTER has accepted a *)
(* connection, and queues are finite.                                      *)
ConnectionsOK ==
  /\ \A c \in IpNodes : c \in index <=> clients[c] # NoFd
  /\ \A c \in IpNodes : clients[c] # NoFd =>
       clients[c] \in DOMAIN socket /\ socket[clients[c]].peer = c
  /\ Serving => fd \in DOMAIN socket

QueuesFinite == \A q \in DOMAIN queueList : IsFiniteSet(queueList[q])

(* What holds of the broker's members also when they came out of a file,   *)
(* whose descriptors and queue numbers may name nothing.                   *)
LifeTypes ==
  TypeOK /\ QueuesFinite /\ (srvPc = "greet" => Len(socket) > 0)

TypeInv == LifeTypes /\ ConnectionsOK /\ QueueOwnership

-----------------------------------------------------------------------------
LEMMA SocketUpdate ==
  ASSUME NEW s \in Seq(Sockets), NEW f \in DOMAIN s, NEW v \in Sockets
  PROVE  /\ [s EXCEPT ![f] = v] \in Seq(Sockets)
         /\ DOMAIN [s EXCEPT ![f] = v] = DOMAIN s
         /\ Len([s EXCEPT ![f] = v]) = Len(s)
  BY ExceptSeq

LEMMA AfterWriteTypes ==
  ASSUME socket \in Seq(Sockets), NEW f \in DOMAIN socket,
         NEW item \in Arrivals \cup {RegisterAck}, NEW s \in AfterWrite(f, item)
  PROVE  /\ s \in Seq(Sockets)
         /\ DOMAIN s = DOMAIN socket /\ Len(s) = Len(socket)
         /\ \A g \in DOMAIN socket : s[g].peer = socket[g].peer
<1> DEFINE sent == [socket[f] EXCEPT !.unread = Append(@, item)]
           gone(st) == [socket[f] EXCEPT !.state = st]
<1>1. socket[f] \in Sockets
  BY ElementOfSeq
<1>2. sent \in Sockets
  <2>1. Append(socket[f].unread, item) \in Seq(Arrivals \cup {RegisterAck})
    BY <1>1 DEF Sockets
  <2> QED BY <1>1, <2>1 DEF Sockets
<1>3. \A st \in {"closed", "reset"} : gone(st) \in Sockets
  BY <1>1 DEF Sockets
<1>4. \/ s = socket
      \/ s = [socket EXCEPT ![f] = sent]
      \/ \E st \in {"closed", "reset"} : s = [socket EXCEPT ![f] = gone(st)]
  BY DEF AfterWrite
<1>5. sent.peer = socket[f].peer /\ \A st \in {"closed", "reset"} : gone(st).peer = socket[f].peer
  BY <1>1 DEF Sockets
<1> HIDE DEF sent, gone
<1>6. CASE s = socket
  BY <1>6
<1>7. CASE s = [socket EXCEPT ![f] = sent]
  BY <1>7, <1>2, <1>5, SocketUpdate
<1>8. CASE \E st \in {"closed", "reset"} : s = [socket EXCEPT ![f] = gone(st)]
  BY <1>8, <1>3, <1>5, SocketUpdate
<1> QED BY <1>4, <1>6, <1>7, <1>8

LEMMA AccessedTypes ==
  ASSUME SharedTypes, QueuesFinite, NEW q \in Nat
  PROVE  /\ DOMAIN Accessed(q) = DOMAIN queueList \cup {q}
         /\ Accessed(q) \in [DOMAIN Accessed(q) -> SUBSET Arrivals]
         /\ \A r \in DOMAIN Accessed(q) : IsFiniteSet(Accessed(q)[r])
<1>1. \A r \in DOMAIN queueList : queueList[r] \in SUBSET Arrivals
  BY DEF SharedTypes
<1> QED BY <1>1, FS_EmptySet DEF Accessed, QueuesFinite

-----------------------------------------------------------------------------
LEMMA TypeInvInit == ASSUME BrokerAssumption, Init PROVE TypeInv
<1>1. SharedTypes
  BY DEF Init, SharedTypes, NoFd
<1>2. ServerTypes
  BY DEF Init, ServerTypes
<1>3. PushTypes
  BY DEF Init, PushTypes, NoFd, BrokerAssumption
<1>4. ConnectionsOK
  BY DEF Init, ConnectionsOK, Serving
<1>5. QueuesFinite
  BY DEF Init, QueuesFinite
<1>6. QueueOwnership
  BY DEF Init, QueueOwnership
<1>7. srvPc # "greet"
  BY DEF Init
<1> QED BY <1>1, <1>2, <1>3, <1>4, <1>5, <1>6, <1>7 DEF TypeInv, LifeTypes, TypeOK

(* Steps that touch nothing but their own thread's variables. *)
OwnThread ==
  \/ \E topic \in TopicRequests :
       RequestQueue(topic) \/ AddRequest(topic) \/ DeleteRequest(topic)
  \/ TopicRequestDone \/ ReplyAck \/ ProducerReads \/ ProducerFails
  \/ \E q \in QueueNumbers : CopySize(q)
  \/ StartRound \/ EndPoll \/ EndClassify \/ EndRound \/ StartRetry
  \/ \E c \in IpNodes : SelectConsumer(c)
  \/ UNCHANGED vars

LEMMA OwnThreadFrame ==
  ASSUME OwnThread PROVE UNCHANGED <<members, socket, histVars>>
BY DEF OwnThread, RequestQueue, AddRequest, DeleteRequest, TopicRequestDone, ReplyAck,
       ProducerReads,
       CopySize,
       ProducerFails, ProcessEnds, StartRound, EndPoll, EndClassify, EndRound, StartRetry,
       SelectConsumer, vars

(* The other steps: the cases of the proofs below. *)
LEMMA Actions ==
  ASSUME [Next]_vars
  PROVE  \/ OwnThread
         \/ \E c \in IpNodes : Register(c) \/ AddTopicConsumer(c) \/ DeleteTopicConsumer(c)
         \/ GreetConsumer \/ CreateQueue \/ Receive \/ Retry
         \/ \E m \in Messages : ReceiveMessage(m)
         \/ \E q \in QueueNumbers : SyncAdd(q)
         \/ \E q \in DOMAIN queueList : PollQueue(q)
         \/ \E i \in batch : Classify(i)
         \/ \E i \in outbox : Send(i)
         \/ \E f \in DOMAIN socket : ConsumerReads(f) \/ ConsumerExits(f)
BY DEF Next, ReadRequest, ServeRequest, PushThread, Environment, OwnThread

(* The connections after any step: none is lost and none changes its peer, *)
(* and only REGISTER adds one.                                             *)
LEMMA SocketStep ==
  ASSUME BrokerAssumption, LifeTypes, [Next]_vars
  PROVE  /\ Len(socket') = Len(socket) \/ \E c \in IpNodes : Register(c)
         /\ socket' \in Seq(Sockets)
         /\ DOMAIN socket \subseteq DOMAIN socket'
         /\ Len(socket') >= Len(socket)
         /\ \A f \in DOMAIN socket : socket'[f].peer = socket[f].peer
<1> USE DEF LifeTypes, TypeOK
<1>0. socket \in Seq(Sockets) /\ Len(socket) \in Nat /\ DOMAIN socket = 1..Len(socket)
  BY DEF SharedTypes
<1>1. CASE UNCHANGED socket
  BY <1>0, <1>1
<1>2. ASSUME NEW c \in IpNodes, Register(c) PROVE
        /\ socket' \in Seq(Sockets) /\ Len(socket') = Len(socket) + 1
        /\ \A f \in DOMAIN socket : socket'[f] = socket[f]
        /\ socket'[Len(socket')].peer = c
  <2>1. [peer |-> c, state |-> "open", unread |-> <<>>, acks |-> <<>>] \in Sockets
    BY DEF Sockets
  <2> QED BY <1>0, <1>2, <2>1 DEF Register
<1>3. ASSUME NEW f \in DOMAIN socket, NEW item \in Arrivals \cup {RegisterAck},
             socket' \in AfterWrite(f, item)
      PROVE  /\ socket' \in Seq(Sockets) /\ Len(socket') = Len(socket)
             /\ \A g \in DOMAIN socket : socket'[g].peer = socket[g].peer
  BY <1>0, <1>3, AfterWriteTypes
<1>4. ASSUME NEW f \in DOMAIN socket, NEW v \in Sockets, v.peer = socket[f].peer,
             socket' = [socket EXCEPT ![f] = v]
      PROVE  /\ socket' \in Seq(Sockets) /\ Len(socket') = Len(socket)
             /\ \A g \in DOMAIN socket : socket'[g].peer = socket[g].peer
  BY <1>0, <1>4, SocketUpdate
<1>5. ASSUME GreetConsumer PROVE
        UNCHANGED socket \/ (/\ Len(socket) \in DOMAIN socket
                            /\ socket' \in AfterWrite(Len(socket), RegisterAck))
  BY <1>0, <1>5 DEF GreetConsumer, ProcessEnds
<1>6. ASSUME NEW i \in outbox, Send(i) PROVE
        UNCHANGED socket \/ (fd \in DOMAIN socket /\ i \in Arrivals /\ socket' \in AfterWrite(fd, i))
  <2>1. UNCHANGED socket \/ (i \in Arrivals /\ socket' \in AfterWrite(fd, i))
    BY <1>6 DEF Send, PushTypes, ProcessEnds
  <2> QED BY <2>1 DEF AfterWrite
<1>7. ASSUME Retry PROVE
        \/ UNCHANGED socket
        \/ fd \in DOMAIN socket /\ \E d \in Arrivals : socket' \in AfterWrite(fd, d)
  <2>1. UNCHANGED socket \/ \E d \in Arrivals : socket' \in AfterWrite(fd, d)
    BY <1>7 DEF Retry, SharedTypes, ProcessEnds
  <2> QED BY <2>1 DEF AfterWrite
<1>8. ASSUME Receive, socket' # socket PROVE
        fd \in DOMAIN socket /\ \E v \in Sockets :
          v.peer = socket[fd].peer /\ socket' = [socket EXCEPT ![fd] = v]
  <2>1. fd \in DOMAIN socket
    BY <1>8 DEF Receive
  <2>2. socket[fd] \in Sockets
    BY <1>0, <2>1, ElementOfSeq
  <2>3. socket[fd].acks # <<>> /\ socket' = [socket EXCEPT ![fd].acks = Tail(@)]
    BY <1>8 DEF Receive
  <2>4. [socket[fd] EXCEPT !.acks = Tail(@)] \in Sockets
    <3>1. Tail(socket[fd].acks) \in Seq(Nat)
      BY <2>2, <2>3 DEF Sockets
    <3> QED BY <2>2, <3>1 DEF Sockets
  <2> QED BY <2>1, <2>2, <2>3, <2>4 DEF Sockets
<1>9. ASSUME NEW f \in DOMAIN socket, ConsumerReads(f) PROVE
        \E v \in Sockets : v.peer = socket[f].peer /\ socket' = [socket EXCEPT ![f] = v]
  <2> DEFINE item == Head(socket[f].unread)
             acks == IF item = RegisterAck THEN socket[f].acks
                     ELSE Append(socket[f].acks, item.msg.num)
             v == [socket[f] EXCEPT !.unread = Tail(@), !.acks = acks]
  <2>1. socket[f] \in Sockets /\ socket[f].unread # <<>>
    BY <1>0, <1>9, ElementOfSeq DEF ConsumerReads
  <2>2. item \in Arrivals \cup {RegisterAck} /\ Tail(socket[f].unread) \in Seq(Arrivals \cup {RegisterAck})
    BY <2>1 DEF Sockets
  <2>3. acks \in Seq(Nat)
    BY <2>1, <2>2 DEF Sockets, Arrivals, BrokerAssumption
  <2>4. v \in Sockets /\ v.peer = socket[f].peer
    BY <2>1, <2>2, <2>3 DEF Sockets
  <2>5. socket' = [socket EXCEPT ![f] = v]
    BY <1>0, <1>9, <2>1 DEF ConsumerReads, Sockets
  <2> QED BY <2>4, <2>5
<1>10. ASSUME NEW f \in DOMAIN socket, ConsumerExits(f) PROVE
        \E v \in Sockets : v.peer = socket[f].peer /\ socket' = [socket EXCEPT ![f] = v]
  <2> DEFINE v == [socket[f] EXCEPT !.state = "closed", !.unread = <<>>]
  <2>1. socket[f] \in Sockets
    BY <1>0, ElementOfSeq
  <2>2. v \in Sockets /\ v.peer = socket[f].peer
    <3>1. <<>> \in Seq(Arrivals \cup {RegisterAck})
      BY EmptySeq
    <3> QED BY <2>1, <3>1 DEF Sockets
  <2>3. socket' = [socket EXCEPT ![f] = v]
    BY <1>0, <1>10, <2>1 DEF ConsumerExits, Sockets
  <2> QED BY <2>2, <2>3
<1>11. \/ UNCHANGED socket
       \/ \E c \in IpNodes : Register(c)
       \/ \E f \in DOMAIN socket, item \in Arrivals \cup {RegisterAck} : socket' \in AfterWrite(f, item)
       \/ \E f \in DOMAIN socket, v \in Sockets :
            v.peer = socket[f].peer /\ socket' = [socket EXCEPT ![f] = v]
  <2>1. CASE OwnThread
    BY <2>1, OwnThreadFrame
  <2>2. CASE \E c \in IpNodes : Register(c) \/ AddTopicConsumer(c) \/ DeleteTopicConsumer(c)
    BY <2>2 DEF AddTopicConsumer, DeleteTopicConsumer
  <2>3. CASE CreateQueue \/ (\E m \in Messages : ReceiveMessage(m))
          \/ (\E q \in QueueNumbers : SyncAdd(q))
          \/ (\E q \in DOMAIN queueList : PollQueue(q)) \/ (\E i \in batch : Classify(i))
    BY <2>3 DEF CreateQueue, ReceiveMessage, SyncAdd, PollQueue, Classify
  <2>4. CASE GreetConsumer
    BY <2>4, <1>5
  <2>5. CASE \E i \in outbox : Send(i)
    BY <2>5, <1>6
  <2>6. CASE Retry
    BY <2>6, <1>7
  <2>7. CASE Receive
    BY <2>7, <1>8
  <2>8. CASE \E f \in DOMAIN socket : ConsumerReads(f) \/ ConsumerExits(f)
    BY <2>8, <1>9, <1>10
  <2> QED BY Actions, <2>1, <2>2, <2>3, <2>4, <2>5, <2>6, <2>7, <2>8
<1> QED BY <1>0, <1>1, <1>2, <1>3, <1>4, <1>11, LenProperties

(* The balancer's queue numbers are numbers. *)
LEMMA QueueNumbersTypes ==
  ASSUME LifeTypes PROVE QueueNumbers \subseteq Nat
BY DEF LifeTypes, TypeOK, SharedTypes, QueueNumbers

LEMMA QueueListStep ==
  ASSUME BrokerAssumption, LifeTypes, [Next]_vars
  PROVE  /\ DOMAIN queueList \subseteq DOMAIN queueList'
         /\ DOMAIN queueList' \subseteq Nat
         /\ queueList' \in [DOMAIN queueList' -> SUBSET Arrivals]
         /\ \A q \in DOMAIN queueList' : IsFiniteSet(queueList'[q])
<1> USE DEF LifeTypes, TypeOK
<1>0. /\ DOMAIN queueList \subseteq Nat /\ queueList \in [DOMAIN queueList -> SUBSET Arrivals]
      /\ \A q \in DOMAIN queueList : IsFiniteSet(queueList[q])
  BY DEF SharedTypes, QueuesFinite
<1>1. CASE UNCHANGED queueList
  BY <1>0, <1>1
<1>2. CASE CreateQueue
  <2>1. count \in Nat /\ queueList' = Accessed(count)
    BY <1>2 DEF CreateQueue, SharedTypes
  <2> QED BY <1>0, <2>1, AccessedTypes
<1>3. ASSUME NEW q \in QueueNumbers, SyncAdd(q) PROVE
        /\ DOMAIN queueList' = DOMAIN queueList \cup {q}
        /\ queueList' \in [DOMAIN queueList' -> SUBSET Arrivals]
        /\ \A r \in DOMAIN queueList' : IsFiniteSet(queueList'[r])
  <2>1. q \in Nat /\ req \in Arrivals /\ queueList' = [Accessed(q) EXCEPT ![q] = @ \cup {req}]
    BY <1>0, <1>3, QueueNumbersTypes DEF SyncAdd, ServerTypes
  <2>2. /\ DOMAIN Accessed(q) = DOMAIN queueList \cup {q}
        /\ Accessed(q) \in [DOMAIN Accessed(q) -> SUBSET Arrivals]
        /\ \A r \in DOMAIN Accessed(q) : IsFiniteSet(Accessed(q)[r])
    BY <2>1, AccessedTypes
  <2>3. IsFiniteSet(Accessed(q)[q] \cup {req})
    BY <2>2, FS_AddElement
  <2> HIDE DEF LifeTypes, TypeOK
  <2> QED BY <2>1, <2>2, <2>3
<1>4. ASSUME NEW q \in DOMAIN queueList, PollQueue(q) PROVE
        \/ UNCHANGED queueList
        \/ /\ DOMAIN queueList' = DOMAIN queueList
           /\ queueList' \in [DOMAIN queueList' -> SUBSET Arrivals]
           /\ \A r \in DOMAIN queueList' : IsFiniteSet(queueList'[r])
  <2>1. \A i : IsFiniteSet(queueList[q] \ {i})
    BY <1>0, FS_RemoveElement
  <2> QED BY <1>0, <1>4, <2>1 DEF PollQueue, Removed
<1>5. \/ UNCHANGED queueList \/ CreateQueue
      \/ \E q \in QueueNumbers : SyncAdd(q)
      \/ \E q \in DOMAIN queueList : PollQueue(q)
  BY Actions, OwnThreadFrame
     DEF members, queueVars, Register, AddTopicConsumer, DeleteTopicConsumer, GreetConsumer,
         Receive, Retry, ReceiveMessage, Classify, Send, ConsumerReads, ConsumerExits
<1>6. CASE \E q \in QueueNumbers : SyncAdd(q)
  <2>1. PICK q \in QueueNumbers : SyncAdd(q)
    BY <1>6
  <2>2. q \in Nat
    BY QueueNumbersTypes
  <2>3. /\ DOMAIN queueList' = DOMAIN queueList \cup {q}
        /\ queueList' \in [DOMAIN queueList' -> SUBSET Arrivals]
        /\ \A r \in DOMAIN queueList' : IsFiniteSet(queueList'[r])
    BY <1>3, <2>1
  <2>4. DOMAIN queueList \subseteq DOMAIN queueList' /\ DOMAIN queueList' \subseteq Nat
    BY <1>0, <2>2, <2>3
  <2> QED BY <2>3, <2>4
<1>7. CASE \E q \in DOMAIN queueList : PollQueue(q)
  BY <1>0, <1>1, <1>4, <1>7
<1> QED BY <1>1, <1>2, <1>5, <1>6, <1>7

(* Only syncCreateQueue changes who owns a queue. *)
LEMMA OwnershipStep ==
  ASSUME BrokerAssumption, TypeInv, [Next]_vars PROVE QueueOwnership'
<1> USE DEF TypeInv, LifeTypes, TypeOK, QueueOwnership
<1>0. count \in Nat /\ topicQueueMap \in [Topics -> SUBSET Nat]
  BY DEF SharedTypes
<1>1. CASE UNCHANGED <<count, topicQueueMap>>
  BY <1>1, QueueListStep
<1>2. CASE CreateQueue
  <2>1. req \in TopicRequests /\ req.name \in Topics
    BY <1>2 DEF CreateQueue, ServerTypes, BrokerAssumption
  <2>2. /\ count' = count + 1
        /\ DOMAIN queueList' = DOMAIN queueList \cup {count}
        /\ topicQueueMap' = [topicQueueMap EXCEPT ![req.name] = @ \cup {count}]
    BY <1>2 DEF CreateQueue, NextCount, Accessed
  <2>3. \A t \in Topics : topicQueueMap'[t] \subseteq topicQueueMap[t] \cup {count}
    BY <1>0, <2>1, <2>2
  <2>4. \A t \in Topics : count \notin topicQueueMap[t]
    BY <1>0
  <2>5. \A t \in Topics : t # req.name => topicQueueMap'[t] = topicQueueMap[t]
    BY <1>0, <2>1, <2>2
  <2>6. \A t \in Topics : topicQueueMap'[t] \subseteq {q \in DOMAIN queueList' : q < count'}
    BY <1>0, <2>2, <2>3
  <2>7. \A t, u \in Topics : t # u => topicQueueMap'[t] \cap topicQueueMap'[u] = {}
    BY <1>0, <2>3, <2>4, <2>5
  <2> QED BY <2>6, <2>7
<1>3. UNCHANGED <<count, topicQueueMap>> \/ CreateQueue
  BY Actions, OwnThreadFrame
     DEF members, queueVars, Register, AddTopicConsumer, DeleteTopicConsumer, GreetConsumer,
         Receive, Retry, ReceiveMessage, SyncAdd, PollQueue, Classify, Send, ConsumerReads,
         ConsumerExits
<1> QED BY <1>1, <1>2, <1>3

LEMMA SharedTypesStep ==
  ASSUME BrokerAssumption, LifeTypes, [Next]_vars PROVE SharedTypes'
<1> USE DEF LifeTypes, TypeOK
<1>0. /\ SharedTypes
      /\ batch \subseteq Arrivals /\ outbox \subseteq Arrivals
      /\ \A i \in Arrivals : i.id \in Nat /\ i.msg \in Messages
  BY DEF PushTypes, Arrivals
<1>1. /\ DOMAIN queueList' \subseteq Nat
      /\ queueList' \in [DOMAIN queueList' -> SUBSET Arrivals]
      /\ socket' \in Seq(Sockets)
  BY QueueListStep, SocketStep
<1>2. UNCHANGED <<count, topicQueueMap, topicConsumerMap, consVars, deadQueue, histVars>>
        => SharedTypes'
  BY <1>0, <1>1 DEF SharedTypes, consVars, histVars
<1>3. CASE OwnThread
  BY <1>2, <1>3, OwnThreadFrame DEF members, queueVars
<1>4. ASSUME NEW c \in IpNodes, Register(c) PROVE SharedTypes'
  <2>1. Len(socket) \in Nat
    BY <1>0 DEF SharedTypes
  <2> QED BY <1>0, <1>1, <1>4, <2>1 DEF SharedTypes, Register, LatestFd, queueVars, histVars
<1>5. ASSUME NEW c \in IpNodes, AddTopicConsumer(c) \/ DeleteTopicConsumer(c) PROVE SharedTypes'
  <2>1. topicConsumerMap' \in [Topics -> SUBSET IpNodes]
    <3>1. topicConsumerMap \in [Topics -> SUBSET IpNodes]
      BY <1>0 DEF SharedTypes
    <3>2. CASE AddTopicConsumer(c)
      BY <3>1, <3>2 DEF AddTopicConsumer
    <3>3. CASE DeleteTopicConsumer(c)
      BY <3>1, <3>3 DEF DeleteTopicConsumer
    <3> QED BY <1>5, <3>2, <3>3
  <2>2. UNCHANGED <<count, topicQueueMap, index, clients, deadQueue, arrivals, handled, pushed>>
    BY <1>5 DEF AddTopicConsumer, DeleteTopicConsumer, queueVars, consVars, histVars
  <2> QED BY <1>0, <1>1, <2>1, <2>2 DEF SharedTypes
<1>6. CASE CreateQueue
  <2>1. count' \in Nat
    BY <1>0, <1>6 DEF SharedTypes, CreateQueue, NextCount
  <2>2. topicQueueMap' \in [Topics -> SUBSET Nat]
    BY <1>0, <1>6 DEF SharedTypes, CreateQueue
  <2>3. UNCHANGED <<topicConsumerMap, index, clients, deadQueue, arrivals, handled, pushed>>
    BY <1>6 DEF CreateQueue, consVars, histVars
  <2> QED BY <1>0, <1>1, <2>1, <2>2, <2>3 DEF SharedTypes
<1>7. CASE \E m \in Messages : ReceiveMessage(m)
  BY <1>0, <1>1, <1>7 DEF SharedTypes, ReceiveMessage, members, queueVars, consVars
<1>8. CASE GreetConsumer
  BY <1>2, <1>8 DEF GreetConsumer, members, queueVars
<1>9. CASE \E q \in QueueNumbers : SyncAdd(q)
  BY <1>2, <1>9 DEF SyncAdd
<1>10. CASE \E q \in DOMAIN queueList : PollQueue(q)
  BY <1>2, <1>10 DEF PollQueue
<1>11. CASE \E i \in batch : Classify(i)
  BY <1>0, <1>1, <1>11 DEF SharedTypes, Classify, members, queueVars, consVars
<1>12. ASSUME NEW i \in outbox, Send(i) PROVE SharedTypes'
  <2>1. consumer \in IpNodes /\ i \in Arrivals /\ i.id \in Nat
    BY <1>0, <1>12 DEF Send, PushTypes
  <2>2. deadQueue' \subseteq Arrivals
    BY <1>0, <1>12, <2>1 DEF Send, SharedTypes
  <2>3. pushed' \in [IpNodes -> SUBSET Nat]
    BY <1>0, <1>12, <2>1 DEF Send, SharedTypes
  <2> QED BY <1>0, <1>1, <1>12, <2>2, <2>3 DEF SharedTypes, Send, queueVars, consVars
<1>13. CASE Receive
  BY <1>0, <1>1, <1>13 DEF SharedTypes, Receive, queueVars, consVars, histVars
<1>14. CASE Retry
  BY <1>2, <1>14 DEF Retry, members, queueVars
<1>15. CASE \E f \in DOMAIN socket : ConsumerReads(f) \/ ConsumerExits(f)
  BY <1>2, <1>15 DEF ConsumerReads, ConsumerExits, members, queueVars
<1> QED BY Actions, <1>3, <1>4, <1>5, <1>6, <1>7, <1>8, <1>9, <1>10, <1>11, <1>12, <1>13,
           <1>14, <1>15

LEMMA ServerTypesStep ==
  ASSUME BrokerAssumption, LifeTypes, [Next]_vars PROVE ServerTypes'
<1> USE DEF LifeTypes, TypeOK
<1>0. ServerTypes
  OBVIOUS
<1>1. /\ UNCHANGED <<req, left, pending, loads>>
      /\ UNCHANGED srvPc \/ srvPc' \in {"killed", "exited"}
     => ServerTypes'
  BY <1>0 DEF ServerTypes
<1>2. (\E pc \in {"epoll_wait", "reply", "spin"} : ServerFree(pc)) => ServerTypes'
  BY DEF ServerFree, ServerTypes
<1>3. ASSUME NEW topic \in TopicRequests,
             RequestQueue(topic) \/ AddRequest(topic) \/ DeleteRequest(topic)
      PROVE  ServerTypes'
  <2>1. topic.queueNum \in Nat /\ topic.consumers \subseteq IpNodes
    BY DEF BrokerAssumption
  <2> QED BY <1>0, <1>3, <2>1 DEF ServerTypes, RequestQueue, AddRequest, DeleteRequest
<1>4. ASSUME NEW c \in IpNodes, Register(c) \/ AddTopicConsumer(c) \/ DeleteTopicConsumer(c)
      PROVE  ServerTypes'
  BY <1>0, <1>4 DEF ServerTypes, Register, AddTopicConsumer, DeleteTopicConsumer
<1>5. CASE CreateQueue
  BY <1>0, <1>5 DEF ServerTypes, CreateQueue, CreatesMore
<1>6. CASE \E m \in Messages : ReceiveMessage(m)
  BY <1>0, <1>6 DEF ServerTypes, SharedTypes, ReceiveMessage, Arrivals
<1>7. ASSUME NEW q \in QueueNumbers, CopySize(q) PROVE ServerTypes'
  <2>1. req \in Arrivals /\ req.msg.topic \in Topics
    BY <1>0, <1>7 DEF ServerTypes, CopySize, Arrivals, BrokerAssumption
  <2>2. q \in Nat
    BY QueueNumbersTypes
  <2>a. IsFiniteSet(Accessed(q)[q])
    BY <2>2, AccessedTypes
  <2>3. Cardinality(Accessed(q)[q]) \in Nat
    BY <2>a, FS_CardinalityType
  <2>4. /\ DOMAIN loads' = DOMAIN loads \cup {q}
        /\ \A r \in DOMAIN loads' : loads'[r] \in Nat
    BY <1>0, <1>7, <2>3 DEF CopySize, ServerTypes
  <2>5. DOMAIN loads' \subseteq Nat /\ loads' \in [DOMAIN loads' -> Nat]
    BY <1>0, <1>7, <2>2, <2>3, <2>4 DEF CopySize, ServerTypes
  <2> QED BY <1>0, <1>7, <2>5 DEF CopySize, ServerTypes
<1>8. ASSUME NEW q \in QueueNumbers, SyncAdd(q) PROVE ServerTypes'
  BY <1>2, <1>8 DEF SyncAdd, ServerIdle
<1>9. CASE TopicRequestDone \/ ReplyAck \/ ProducerReads
  BY <1>2, <1>9 DEF TopicRequestDone, ReplyAck, ProducerReads, Replies, ServerIdle
<1>10. CASE GreetConsumer \/ ProducerFails
  BY <1>1, <1>2, <1>10 DEF GreetConsumer, ProducerFails, ProcessEnds, ServerIdle
<1>11. ASSUME NEW i \in outbox, Send(i) PROVE ServerTypes'
  BY <1>1, <1>11 DEF Send, ProcessEnds
<1>12. CASE Retry
  BY <1>1, <1>12 DEF Retry, ProcessEnds
<1>13. CASE Receive \/ StartRound \/ EndPoll \/ EndClassify \/ EndRound \/ StartRetry
            \/ UNCHANGED vars
  BY <1>1, <1>13 DEF Receive, StartRound, EndPoll, EndClassify, EndRound, StartRetry, vars, srvVars
<1>14. CASE \/ \E q \in DOMAIN queueList : PollQueue(q)
            \/ \E i \in batch : Classify(i)
            \/ \E c \in IpNodes : SelectConsumer(c)
            \/ \E f \in DOMAIN socket : ConsumerReads(f) \/ ConsumerExits(f)
  BY <1>1, <1>14 DEF PollQueue, Classify, SelectConsumer, ConsumerReads, ConsumerExits, srvVars
<1> QED BY Actions, <1>3, <1>4, <1>5, <1>6, <1>7, <1>8, <1>9, <1>10, <1>11, <1>12, <1>13,
           <1>14 DEF OwnThread

LEMMA PushTypesStep ==
  ASSUME BrokerAssumption, LifeTypes, [Next]_vars PROVE PushTypes'
<1> USE DEF LifeTypes, TypeOK
<1>0. PushTypes
  OBVIOUS
<1>1. /\ UNCHANGED <<pollVars, batch, t_map, sendVars>>
      /\ UNCHANGED pushPc \/ pushPc' \in {"killed", "exited"}
     => PushTypes'
  BY <1>0 DEF PushTypes, pollVars, sendVars, retryVars
<1>2. CASE \/ \E topic \in TopicRequests :
              RequestQueue(topic) \/ AddRequest(topic) \/ DeleteRequest(topic)
           \/ \E c \in IpNodes : Register(c) \/ AddTopicConsumer(c) \/ DeleteTopicConsumer(c)
           \/ \E m \in Messages : ReceiveMessage(m)
  BY <1>1, <1>2
     DEF RequestQueue, AddRequest, DeleteRequest, Register, AddTopicConsumer,
         DeleteTopicConsumer, ReceiveMessage, pushVars
<1>3. CASE \/ CreateQueue \/ TopicRequestDone \/ ReplyAck \/ ProducerReads
           \/ \E q \in QueueNumbers : CopySize(q) \/ SyncAdd(q)
           \/ \E f \in DOMAIN socket : ConsumerReads(f) \/ ConsumerExits(f)
           \/ UNCHANGED vars
  BY <1>1, <1>3
     DEF CreateQueue, TopicRequestDone, ReplyAck, ProducerReads, CopySize, SyncAdd, ConsumerReads,
         ConsumerExits, vars, pushVars
<1>4. CASE GreetConsumer \/ ProducerFails
  BY <1>1, <1>4 DEF GreetConsumer, ProducerFails, ProcessEnds
<1>5. CASE StartRound \/ EndPoll \/ EndClassify \/ EndRound
  BY <1>0, <1>5
     DEF PushTypes, SharedTypes, StartRound, EndPoll, EndClassify, EndRound, pollVars, sendVars,
         retryVars
<1>6. ASSUME NEW q \in DOMAIN queueList, PollQueue(q) PROVE PushTypes'
  <2>1. q \in Nat /\ queueList[q] \subseteq Arrivals
    BY DEF SharedTypes
  <2>2. visited' \subseteq Nat /\ batch' \subseteq Arrivals
    BY <1>0, <1>6, <2>1 DEF PollQueue, PushTypes
  <2>3. UNCHANGED <<pushPc, roundQueues, t_map, sendVars>> /\ pushPc = "poll"
    BY <1>6 DEF PollQueue
  <2> QED BY <1>0, <2>2, <2>3 DEF PushTypes, sendVars, retryVars
<1>7. ASSUME NEW i \in batch, Classify(i) PROVE PushTypes'
  <2>1. i \in Arrivals
    BY <1>0 DEF PushTypes
  <2>2. t_map' \in [IpNodes -> SUBSET Arrivals] /\ batch' \subseteq Arrivals
    BY <1>0, <1>7, <2>1 DEF Classify, PushTypes
  <2>3. UNCHANGED <<pushPc, pollVars, sendVars>> /\ pushPc = "classify"
    BY <1>7 DEF Classify
  <2> QED BY <1>0, <2>2, <2>3 DEF PushTypes, pollVars, sendVars, retryVars
<1>8. ASSUME NEW c \in IpNodes, SelectConsumer(c) PROVE PushTypes'
  <2>1. t_map' \in [IpNodes -> SUBSET Arrivals] /\ t_map[c] \subseteq Arrivals
    BY <1>0, <1>8 DEF SelectConsumer, PushTypes
  <2>2. UNCHANGED <<pollVars, batch, retryVars>> /\ pushPc = "select"
    BY <1>8 DEF SelectConsumer, sendVars
  <2>3. CASE clients[c] = NoFd
    BY <1>0, <1>8, <2>1, <2>2, <2>3 DEF SelectConsumer, PushTypes, pollVars, sendVars, retryVars
  <2>4. CASE clients[c] # NoFd
    <3>1. clients[c] \in Nat
      BY DEF SharedTypes
    <3> QED BY <1>0, <1>8, <2>1, <2>2, <2>4, <3>1 DEF SelectConsumer, PushTypes, pollVars, retryVars
  <2> QED BY <2>3, <2>4
<1>9. ASSUME NEW i \in outbox, Send(i) PROVE PushTypes'
  BY <1>0, <1>9 DEF Send, PushTypes, ProcessEnds, pollVars, retryVars
<1>10. CASE Receive
  BY <1>0, <1>10 DEF Receive, PushTypes, pollVars
<1>11. CASE StartRetry
  BY <1>0, <1>11 DEF StartRetry, PushTypes, pollVars, BrokerAssumption
<1>12. CASE Retry
  <2>1. {d.msg.num : d \in deadQueue} \subseteq Nat
    BY DEF SharedTypes, Arrivals, BrokerAssumption
  <2>2. UNCHANGED <<pollVars, batch, t_map, outbox>> /\ pushPc = "retry"
    BY <1>12 DEF Retry
  <2>3. tries' \in 0..reTry_Time /\ pass' \subseteq Nat
    <3>1. \/ UNCHANGED <<tries, pass>>
          \/ tries < reTry_Time /\ tries' = tries + 1 /\ pass' = {d.msg.num : d \in deadQueue}
          \/ tries' = 0 /\ UNCHANGED pass
      BY <1>12 DEF Retry
    <3>2. tries \in 0..reTry_Time /\ pass \subseteq Nat /\ reTry_Time \in Nat
      BY <1>0 DEF PushTypes, BrokerAssumption
    <3>3. tries' \in 0..reTry_Time
      BY <3>1, <3>2
    <3>4. pass' \subseteq Nat
      BY <3>1, <3>2, <2>1
    <3> QED BY <3>3, <3>4
  <2>4. \/ pushPc' \in {"killed", "exited", "select"}
        \/ pushPc' \in {"retry", "resent"} /\ UNCHANGED <<consumer, fd>>
    BY <1>12 DEF Retry, ProcessEnds
  <2>5. fd' \in Nat
    BY <1>0, <1>12 DEF Retry, PushTypes, NoFd
  <2> QED BY <1>0, <2>2, <2>3, <2>4, <2>5 DEF PushTypes, pollVars
<1> QED BY <1>2, <1>3, <1>4, <1>5, <1>6, <1>7, <1>8, <1>9, <1>10, <1>11, <1>12
        DEF Next, ReadRequest, ServeRequest, PushThread, Environment

LEMMA LifeTypesStep ==
  ASSUME BrokerAssumption, LifeTypes, [Next]_vars PROVE LifeTypes'
<1>1. Len(socket') >= Len(socket) /\ Len(socket) \in Nat /\ Len(socket') \in Nat
  BY SocketStep, LenProperties DEF LifeTypes, TypeOK, SharedTypes
<1>2. srvPc' = "greet" => srvPc = "greet" \/ \E c \in IpNodes : Register(c)
  BY DEF Next, ReadRequest, ServeRequest, PushThread, Environment,
         RequestQueue, AddRequest, DeleteRequest, ReceiveMessage, ProducerFails,
         GreetConsumer, CreateQueue,
         AddTopicConsumer, DeleteTopicConsumer, TopicRequestDone, CopySize, SyncAdd, ReplyAck,
         ProducerReads,
         StartRound, PollQueue, EndPoll, Classify, EndClassify, SelectConsumer, EndRound, Send,
         Receive, StartRetry, Retry, ConsumerReads, ConsumerExits,
         ServerIdle, ServerFree, Replies, ProcessEnds, vars, srvVars
<1>3. ASSUME NEW c \in IpNodes, Register(c) PROVE Len(socket') > 0
  BY <1>1, <1>3 DEF Register, LifeTypes, TypeOK, SharedTypes
<1>4. (srvPc' = "greet" => Len(socket') > 0)
  BY <1>1, <1>2, <1>3 DEF LifeTypes
<1> QED BY <1>4, SharedTypesStep, ServerTypesStep, PushTypesStep, QueueListStep
        DEF LifeTypes, TypeOK, QueuesFinite

LEMMA ConnectionsStep ==
  ASSUME BrokerAssumption, TypeInv, [Next]_vars PROVE ConnectionsOK'
<1> USE DEF TypeInv, LifeTypes, TypeOK
<1>0. /\ ConnectionsOK
      /\ DOMAIN socket \subseteq DOMAIN socket'
      /\ \A f \in DOMAIN socket : socket'[f].peer = socket[f].peer
      /\ Len(socket) \in Nat
  BY SocketStep DEF SharedTypes
<1>1. Serving' => (Serving /\ fd' = fd) \/ fd' \in DOMAIN socket
  <2>1. ASSUME NEW c \in IpNodes, SelectConsumer(c)
        PROVE  Serving' => fd' \in DOMAIN socket
    BY <1>0, <2>1 DEF SelectConsumer, Serving, ConnectionsOK
  <2>2. (Serving' => Serving /\ fd' = fd) \/ \E c \in IpNodes : SelectConsumer(c)
    BY DEF Next, ReadRequest, ServeRequest, PushThread, Environment, Register,
           RequestQueue, AddRequest, DeleteRequest, ReceiveMessage, ProducerFails,
           GreetConsumer, CreateQueue,
           AddTopicConsumer, DeleteTopicConsumer, TopicRequestDone, CopySize, SyncAdd, ReplyAck,
           ProducerReads,
           StartRound, PollQueue, EndPoll, Classify, EndClassify, EndRound, Send,
           Receive, StartRetry, Retry, ConsumerReads, ConsumerExits,
           ServerIdle, ServerFree, Replies, ProcessEnds, vars, pushVars, sendVars, Serving
  <2> QED BY <2>1, <2>2
<1>2. Serving' => fd' \in DOMAIN socket'
  BY <1>0, <1>1 DEF ConnectionsOK
<1>3. UNCHANGED consVars => ConnectionsOK'
  BY <1>0, <1>2 DEF ConnectionsOK, consVars
<1>4. ASSUME NEW c \in IpNodes, Register(c) PROVE ConnectionsOK'
  <2> DEFINE new == [peer |-> c, state |-> "open", unread |-> <<>>, acks |-> <<>>]
  <2>1. /\ index' = index \cup {c} /\ clients' = [clients EXCEPT ![c] = Len(socket) + 1]
        /\ socket' = Append(socket, new)
    BY <1>4 DEF Register, LatestFd
  <2>2. /\ Len(socket) + 1 \in DOMAIN socket'
        /\ socket'[Len(socket) + 1].peer = c
    BY <1>0, <2>1, SocketStep DEF SharedTypes
  <2>3. Len(socket) + 1 # NoFd
    BY <1>0 DEF NoFd
  <2>4. clients \in [IpNodes -> Nat]
    BY DEF SharedTypes
  <2> QED BY <1>0, <1>2, <2>1, <2>2, <2>3, <2>4 DEF ConnectionsOK
<1>5. UNCHANGED consVars \/ \E c \in IpNodes : Register(c)
  BY DEF Next, ReadRequest, ServeRequest, PushThread, Environment,
         RequestQueue, AddRequest, DeleteRequest, ReceiveMessage, ProducerFails,
         GreetConsumer, CreateQueue,
         AddTopicConsumer, DeleteTopicConsumer, TopicRequestDone, CopySize, SyncAdd, ReplyAck,
         ProducerReads,
         StartRound, PollQueue, EndPoll, Classify, EndClassify, SelectConsumer, EndRound, Send,
         Receive, StartRetry, Retry, ConsumerReads, ConsumerExits, members, vars
<1> QED BY <1>3, <1>4, <1>5

LEMMA TypeInvStep ==
  ASSUME BrokerAssumption, TypeInv, [Next]_vars PROVE TypeInv'
BY LifeTypesStep, ConnectionsStep, OwnershipStep DEF TypeInv

LEMMA TypeInvariance == Spec => []TypeInv
BY TypeInvInit, TypeInvStep, BrokerAssumption, PTL DEF Spec

(* Every variable keeps its type, and the thread's own variables fit its   *)
(* control point (TypeOK).                                                 *)
THEOREM TypeCorrect == Spec => []TypeOK
BY TypeInvariance, PTL DEF TypeInv, LifeTypes

(* A queue number is handed to one topic only, and the queue it names      *)
(* exists: syncCreateQueue.                                                *)
THEOREM QueuesOwned == Spec => []QueueOwnership
BY TypeInvariance, PTL DEF TypeInv

-----------------------------------------------------------------------------
(* The safety invariants, each from the types and what it needs of its own. *)

(* A consumer a topic lists, or messages are put down for, has registered. *)
MappedRegistered ==
  \A c \in IpNodes :
    (t_map[c] # {} \/ \E t \in Topics : c \in topicConsumerMap[t]) => c \in index

(* While the first REGISTER of an address awaits its reply: no topic lists *)
(* the address, and the push thread is on another connection.              *)
FirstGreeting ==
  LET f == Len(socket)
      c == socket[f].peer
  IN srvPc = "greet" /\ (\A g \in 1..(f - 1) : socket[g].peer # c) =>
       /\ socket[f].unread = <<>>
       /\ t_map[c] = {} /\ \A t \in Topics : c \notin topicConsumerMap[t]
       /\ Serving => fd # f

(* The loop that resends has nothing to send: no failed send is kept.      *)
DeadQueueEmpty == deadQueue = {}

SafetyInv ==
  TypeInv /\ MappedRegistered /\ DeadQueueEmpty /\ TopicIsolation /\ FirstGreeting

-----------------------------------------------------------------------------
LEMMA SafetyInvInit == ASSUME BrokerAssumption, Init PROVE SafetyInv
<1>1. TypeInv
  BY TypeInvInit
<1>2. MappedRegistered /\ DeadQueueEmpty /\ TopicIsolation /\ FirstGreeting
  BY DEF Init, MappedRegistered, DeadQueueEmpty, TopicIsolation, FirstGreeting
<1> QED BY <1>1, <1>2 DEF SafetyInv

LEMMA AccessedEntries ==
  ASSUME NEW q, NEW r \in DOMAIN queueList \cup {q}
  PROVE  Accessed(q)[r] = IF r \in DOMAIN queueList THEN queueList[r] ELSE {}
BY DEF Accessed

LEMMA AccessedDomain == ASSUME NEW q PROVE DOMAIN Accessed(q) = DOMAIN queueList \cup {q}
BY DEF Accessed

LEMMA MappedRegisteredStep ==
  ASSUME BrokerAssumption, SafetyInv, [Next]_vars PROVE MappedRegistered'
<1> USE DEF SafetyInv
<1>0. /\ topicConsumerMap \in [Topics -> SUBSET IpNodes] /\ t_map \in [IpNodes -> SUBSET Arrivals]
      /\ MappedRegistered
  BY DEF TypeInv, LifeTypes, TypeOK, SharedTypes, PushTypes
<1>1. index \subseteq index' /\ UNCHANGED <<topicConsumerMap, t_map>> => MappedRegistered'
  BY <1>0 DEF MappedRegistered
<1>2. ASSUME NEW c \in IpNodes, AddTopicConsumer(c) \/ DeleteTopicConsumer(c)
      PROVE  MappedRegistered'
  BY <1>0, <1>2 DEF MappedRegistered, AddTopicConsumer, DeleteTopicConsumer, Registered,
                    consVars, pushVars
<1>3. ASSUME NEW i \in batch, Classify(i) PROVE MappedRegistered'
  <2>1. i.msg.topic \in Topics
    BY DEF TypeInv, LifeTypes, TypeOK, PushTypes, Arrivals, BrokerAssumption
  <2>2. \A c \in IpNodes : t_map'[c] # {} => t_map[c] # {} \/ c \in topicConsumerMap[i.msg.topic]
    BY <1>3 DEF Classify
  <2>3. UNCHANGED <<index, topicConsumerMap>>
    BY <1>3 DEF Classify, members, consVars
  <2> QED BY <1>0, <2>1, <2>2, <2>3 DEF MappedRegistered
<1>4. ASSUME NEW c \in IpNodes, SelectConsumer(c) PROVE MappedRegistered'
  BY <1>0, <1>4 DEF MappedRegistered, SelectConsumer, members, consVars
<1>5. \/ index \subseteq index' /\ UNCHANGED <<topicConsumerMap, t_map>>
      \/ \E c \in IpNodes : AddTopicConsumer(c) \/ DeleteTopicConsumer(c) \/ SelectConsumer(c)
      \/ \E i \in batch : Classify(i)
  BY DEF Next, ReadRequest, ServeRequest, PushThread, Environment, Register,
         RequestQueue, AddRequest, DeleteRequest, ReceiveMessage, ProducerFails, ProcessEnds,
         GreetConsumer, CreateQueue,
         TopicRequestDone, CopySize, SyncAdd, ReplyAck, ProducerReads,
         StartRound, PollQueue, EndPoll,
         EndClassify, EndRound, Send, Receive, StartRetry, Retry, ConsumerReads,
         ConsumerExits, members, consVars, vars, pushVars
<1> QED BY <1>1, <1>2, <1>3, <1>4, <1>5

LEMMA DeadQueueStep ==
  ASSUME DeadQueueEmpty, [Next]_vars PROVE DeadQueueEmpty'
<1>0. deadQueue = {}
  BY DEF DeadQueueEmpty
<1>1. ASSUME NEW i \in outbox, Send(i) PROVE DeadQueueEmpty'
  BY <1>0, <1>1 DEF Send, KeptForRetry, InDeadQueue, DeadQueueEmpty
<1>2. CASE Receive
  BY <1>0, <1>2 DEF Receive, DeadQueueEmpty
<1>3. UNCHANGED deadQueue \/ Receive \/ \E i \in outbox : Send(i)
  BY Actions, OwnThreadFrame
     DEF members, Register, AddTopicConsumer, DeleteTopicConsumer, GreetConsumer, CreateQueue,
         Retry, ReceiveMessage, SyncAdd, PollQueue, Classify, ConsumerReads, ConsumerExits
<1> QED BY <1>0, <1>1, <1>2, <1>3 DEF DeadQueueEmpty

LEMMA TopicIsolationStep ==
  ASSUME BrokerAssumption, SafetyInv, [Next]_vars PROVE TopicIsolation'
<1> USE DEF SafetyInv
<1>0. /\ TopicIsolation /\ topicQueueMap \in [Topics -> SUBSET Nat]
      /\ queueList \in [DOMAIN queueList -> SUBSET Arrivals]
      /\ \A i \in Arrivals : i.msg.topic \in Topics
  BY DEF TypeInv, LifeTypes, TypeOK, SharedTypes, Arrivals, BrokerAssumption
<1>1. CASE UNCHANGED <<queueList, topicQueueMap>>
  BY <1>0, <1>1 DEF TopicIsolation
<1>2. CASE CreateQueue
  <2>1. req.name \in Topics
    BY <1>2 DEF CreateQueue, TypeInv, LifeTypes, TypeOK, ServerTypes, BrokerAssumption
  <2>2. \A t \in Topics : topicQueueMap[t] \subseteq topicQueueMap'[t]
    BY <1>0, <1>2, <2>1 DEF CreateQueue
  <2>3. \A q \in DOMAIN queueList' :
          queueList'[q] = {} \/ (q \in DOMAIN queueList /\ queueList'[q] = queueList[q])
    <3>1. queueList' = Accessed(count)
      BY <1>2 DEF CreateQueue
    <3> QED BY <3>1, AccessedEntries, AccessedDomain
  <2>4. ASSUME NEW q \in DOMAIN queueList', NEW i \in queueList'[q]
        PROVE  q = 0 \/ q \in topicQueueMap'[i.msg.topic]
    <3>1. q \in DOMAIN queueList /\ i \in queueList[q]
      BY <2>3, <2>4
    <3>2. i.msg.topic \in Topics
      BY <1>0, <3>1
    <3>3. q = 0 \/ q \in topicQueueMap[i.msg.topic]
      BY <1>0, <3>1 DEF TopicIsolation
    <3> QED BY <2>2, <3>2, <3>3
  <2> QED BY <2>4 DEF TopicIsolation
<1>3. ASSUME NEW q \in QueueNumbers, SyncAdd(q) PROVE TopicIsolation'
  <2>1. q = 0 \/ q \in topicQueueMap[req.msg.topic]
    BY <1>3 DEF SyncAdd, Balanced
  <2>2. \A r \in DOMAIN queueList' :
          \/ r = q /\ queueList'[r] = Accessed(q)[q] \cup {req}
          \/ r # q /\ r \in DOMAIN queueList /\ queueList'[r] = queueList[r]
    <3>1. queueList' = [Accessed(q) EXCEPT ![q] = Accessed(q)[q] \cup {req}]
      BY <1>3 DEF SyncAdd
    <3>2. /\ DOMAIN Accessed(q) = DOMAIN queueList \cup {q}
          /\ \A r \in DOMAIN queueList : Accessed(q)[r] = queueList[r]
      BY AccessedEntries, AccessedDomain
    <3>3. DOMAIN queueList' = DOMAIN Accessed(q)
      BY <3>1
    <3>4. \A r \in DOMAIN Accessed(q) :
            queueList'[r] = IF r = q THEN Accessed(q)[q] \cup {req} ELSE Accessed(q)[r]
      BY <3>1
    <3> QED BY <3>2, <3>3, <3>4
  <2>3. Accessed(q)[q] = {} \/ (q \in DOMAIN queueList /\ Accessed(q)[q] = queueList[q])
    BY AccessedEntries
  <2>4. topicQueueMap' = topicQueueMap
    BY <1>3 DEF SyncAdd
  <2> QED BY <1>0, <2>1, <2>2, <2>3, <2>4 DEF TopicIsolation
<1>4. ASSUME NEW q \in DOMAIN queueList, PollQueue(q) PROVE TopicIsolation'
  <2>1. DOMAIN queueList' = DOMAIN queueList /\ topicQueueMap' = topicQueueMap
    BY <1>0, <1>4 DEF PollQueue, Removed
  <2>2. \A r \in DOMAIN queueList : queueList'[r] \subseteq queueList[r]
    BY <1>0, <1>4 DEF PollQueue, Removed
  <2> QED BY <1>0, <2>1, <2>2 DEF TopicIsolation
<1>5. \/ UNCHANGED <<queueList, topicQueueMap>> \/ CreateQueue
      \/ \E q \in QueueNumbers : SyncAdd(q)
      \/ \E q \in DOMAIN queueList : PollQueue(q)
  BY Actions, OwnThreadFrame
     DEF members, queueVars, Register, AddTopicConsumer, DeleteTopicConsumer, GreetConsumer,
         Receive, Retry, ReceiveMessage, Classify, Send, ConsumerReads, ConsumerExits
<1> QED BY <1>1, <1>2, <1>3, <1>4, <1>5

LEMMA FirstGreetingStep ==
  ASSUME BrokerAssumption, SafetyInv, [Next]_vars PROVE FirstGreeting'
<1> USE DEF SafetyInv
<1>0. /\ Len(socket) \in Nat /\ DOMAIN socket = 1..Len(socket)
      /\ topicConsumerMap \in [Topics -> SUBSET IpNodes] /\ t_map \in [IpNodes -> SUBSET Arrivals]
      /\ Serving => fd \in DOMAIN socket
  BY DEF TypeInv, LifeTypes, TypeOK, SharedTypes, PushTypes, Serving, ConnectionsOK
<1>1. /\ DOMAIN socket \subseteq DOMAIN socket'
      /\ \A g \in DOMAIN socket : socket'[g].peer = socket[g].peer
  BY SocketStep DEF TypeInv
<1>2. ASSUME NEW c \in IpNodes, Register(c) PROVE FirstGreeting'
  <2> DEFINE f == Len(socket')
  <2>1. f = Len(socket) + 1 /\ socket'[f].peer = c /\ socket'[f].unread = <<>>
    BY <1>2, <1>0 DEF Register, TypeInv, LifeTypes, TypeOK, SharedTypes
  <2>2. ASSUME \A g \in 1..(f - 1) : socket'[g].peer # c PROVE c \notin index
    BY <1>0, <1>1, <2>1, <2>2 DEF TypeInv, LifeTypes, ConnectionsOK
  <2>3. c \notin index => t_map[c] = {} /\ \A t \in Topics : c \notin topicConsumerMap[t]
    BY DEF MappedRegistered
  <2>4. UNCHANGED <<t_map, topicConsumerMap, pushPc, fd>>
    BY <1>2 DEF Register, pushVars, sendVars
  <2>5. Serving' => fd' # f
    BY <1>0, <2>1, <2>4 DEF Serving
  <2> QED BY <2>1, <2>2, <2>3, <2>4, <2>5 DEF FirstGreeting
<1>3. ASSUME srvPc = "greet", srvPc' = "greet",
             \A g \in 1..(Len(socket) - 1) : socket[g].peer # socket[Len(socket)].peer
      PROVE  LET f == Len(socket) IN
               /\ socket'[f].unread = <<>>
               /\ t_map'[socket[f].peer] = {}
               /\ \A t \in Topics : socket[f].peer \notin topicConsumerMap'[t]
               /\ Serving' => fd' # f
  <2> DEFINE f == Len(socket)
             c == socket[f].peer
  <2>1. /\ f \in DOMAIN socket /\ c \in IpNodes
        /\ socket[f].unread = <<>> /\ t_map[c] = {}
        /\ \A t \in Topics : c \notin topicConsumerMap[t]
        /\ Serving => fd # f
    <3>1. f \in DOMAIN socket
      BY <1>0, <1>3 DEF TypeInv, LifeTypes, ConnectionsOK
    <3>2. c \in IpNodes
      <4>1. socket[f] \in Sockets
        BY <3>1, ElementOfSeq DEF TypeInv, LifeTypes, TypeOK, SharedTypes
      <4> QED BY <4>1 DEF Sockets
    <3> QED BY <1>3, <3>1, <3>2 DEF FirstGreeting
  <2>2. UNCHANGED topicConsumerMap
    BY <1>3 DEF Next, ReadRequest, ServeRequest, PushThread, Environment, Register,
         RequestQueue, AddRequest, DeleteRequest, ReceiveMessage, ProducerFails, ProcessEnds,
         GreetConsumer, CreateQueue,
         AddTopicConsumer, DeleteTopicConsumer, TopicRequestDone, CopySize, SyncAdd, ReplyAck,
         ProducerReads,
         StartRound, PollQueue, EndPoll, Classify, EndClassify, SelectConsumer, EndRound, Send,
         Receive, StartRetry, Retry, ConsumerReads, ConsumerExits, members, vars
  <2>3. t_map'[c] = {}
    <3>1. ASSUME NEW i \in batch, Classify(i) PROVE t_map'[c] = {}
      <4>1. i.msg.topic \in Topics
        BY DEF TypeInv, LifeTypes, TypeOK, PushTypes, Arrivals, BrokerAssumption
      <4> QED BY <2>1, <3>1, <4>1 DEF Classify
    <3>2. ASSUME NEW d \in IpNodes, SelectConsumer(d) PROVE t_map'[c] = {}
      BY <1>0, <2>1, <3>2 DEF SelectConsumer
    <3>3. UNCHANGED t_map \/ (\E i \in batch : Classify(i)) \/ \E d \in IpNodes : SelectConsumer(d)
      BY DEF Next, ReadRequest, ServeRequest, PushThread, Environment, Register,
         RequestQueue, AddRequest, DeleteRequest, ReceiveMessage, ProducerFails, ProcessEnds,
         GreetConsumer, CreateQueue,
         AddTopicConsumer, DeleteTopicConsumer, TopicRequestDone, CopySize, SyncAdd, ReplyAck,
         ProducerReads,
         StartRound, PollQueue, EndPoll, EndClassify, EndRound, Send, Receive, StartRetry,
         Retry, ConsumerReads, ConsumerExits, pushVars, vars
    <3> QED BY <2>1, <3>1, <3>2, <3>3
  <2>4. Serving' => fd' # f
    <3>1. ASSUME NEW d \in IpNodes, SelectConsumer(d), Serving' PROVE fd' # f
      <4>1. t_map[d] # {}
        BY <3>1 DEF SelectConsumer
      <4>2. fd' = clients[d] /\ clients[d] # NoFd
        BY <3>1 DEF SelectConsumer, Serving
      <4>3. socket[clients[d]].peer = d
        BY <4>2 DEF TypeInv, LifeTypes, ConnectionsOK
      <4> QED BY <2>1, <4>1, <4>2, <4>3
    <3>2. (Serving' => Serving /\ fd' = fd) \/ \E d \in IpNodes : SelectConsumer(d)
      BY DEF Next, ReadRequest, ServeRequest, PushThread, Environment, Register,
         RequestQueue, AddRequest, DeleteRequest, ReceiveMessage, ProducerFails, ProcessEnds,
         GreetConsumer, CreateQueue,
         AddTopicConsumer, DeleteTopicConsumer, TopicRequestDone, CopySize, SyncAdd, ReplyAck,
         ProducerReads,
         StartRound, PollQueue, EndPoll, Classify, EndClassify, EndRound, Send, Receive,
         StartRetry, Retry, ConsumerReads, ConsumerExits, ProcessEnds, pushVars, sendVars, vars,
         Serving
    <3> QED BY <2>1, <3>1, <3>2
  <2>5. socket'[f].unread = <<>>
    <3>1. ASSUME NEW g \in DOMAIN socket, NEW item, g # f, socket' \in AfterWrite(g, item)
          PROVE  socket'[f] = socket[f]
      BY <2>1, <3>1 DEF AfterWrite
    <3>2. ASSUME NEW g \in DOMAIN socket, ConsumerReads(g) \/ ConsumerExits(g)
          PROVE  socket'[f].unread = <<>>
      <4>1. socket[f] \in Sockets
        BY <2>1, ElementOfSeq DEF TypeInv, LifeTypes, TypeOK, SharedTypes
      <4>2. CASE ConsumerReads(g)
        BY <2>1, <4>2 DEF ConsumerReads
      <4>3. CASE ConsumerExits(g) /\ g # f
        BY <2>1, <4>3 DEF ConsumerExits
      <4>4. CASE ConsumerExits(g) /\ g = f
        BY <2>1, <4>1, <4>4 DEF ConsumerExits, Sockets
      <4> QED BY <3>2, <4>2, <4>3, <4>4
    <3>3. CASE Receive
      BY <2>1, <3>3 DEF Receive
    <3>4. ASSUME NEW i \in outbox, Send(i) PROVE socket'[f].unread = <<>>
      <4>1. fd \in DOMAIN socket /\ fd # f
        BY <1>0, <2>1, <3>4 DEF Send, Serving
      <4> QED BY <2>1, <3>1, <3>4, <4>1 DEF Send, ProcessEnds
    <3>5. CASE Retry
      <4>1. fd \in DOMAIN socket /\ fd # f
        BY <1>0, <2>1, <3>5 DEF Retry, Serving
      <4> QED BY <2>1, <3>1, <3>5, <4>1 DEF Retry, ProcessEnds
    <3>6. \/ UNCHANGED socket \/ Receive \/ Retry \/ \E i \in outbox : Send(i)
          \/ \E g \in DOMAIN socket : ConsumerReads(g) \/ ConsumerExits(g)
      BY <1>3, Actions, OwnThreadFrame
         DEF Register, AddTopicConsumer, DeleteTopicConsumer, GreetConsumer, CreateQueue,
             ReceiveMessage, SyncAdd, PollQueue, Classify, ServerIdle, ServerFree, Replies,
             ProcessEnds
    <3> QED BY <2>1, <3>2, <3>3, <3>4, <3>5, <3>6
  <2> QED BY <2>1, <2>2, <2>3, <2>4, <2>5
<1>4. ASSUME srvPc' = "greet" PROVE
        (srvPc = "greet" /\ Len(socket') = Len(socket)) \/ \E c \in IpNodes : Register(c)
  <2>1. srvPc = "greet" \/ \E c \in IpNodes : Register(c)
    BY <1>4 DEF Next, ReadRequest, ServeRequest, PushThread, Environment,
         RequestQueue, AddRequest, DeleteRequest, ReceiveMessage, ProducerFails, ProcessEnds,
         GreetConsumer, CreateQueue,
         AddTopicConsumer, DeleteTopicConsumer, TopicRequestDone, CopySize, SyncAdd, ReplyAck,
         ProducerReads,
         StartRound, PollQueue, EndPoll, Classify, EndClassify, SelectConsumer, EndRound, Send,
         Receive, StartRetry, Retry, ConsumerReads, ConsumerExits,
         ServerIdle, ServerFree, Replies, ProcessEnds, vars, srvVars
  <2>2. Len(socket') = Len(socket) \/ \E c \in IpNodes : Register(c)
    BY SocketStep DEF TypeInv
  <2> QED BY <2>1, <2>2
<1>5. SUFFICES ASSUME srvPc = "greet", srvPc' = "greet", Len(socket') = Len(socket)
               PROVE  FirstGreeting'
  BY <1>2, <1>4 DEF FirstGreeting
<1>6. CASE \A g \in 1..(Len(socket) - 1) : socket[g].peer # socket[Len(socket)].peer
  <2>1. Len(socket) \in DOMAIN socket
    BY <1>0, <1>5 DEF TypeInv, LifeTypes, ConnectionsOK
  <2> QED BY <1>1, <1>3, <1>5, <1>6, <2>1 DEF FirstGreeting
<1>7. CASE ~(\A g \in 1..(Len(socket) - 1) : socket[g].peer # socket[Len(socket)].peer)
  <2>1. Len(socket) \in DOMAIN socket /\ \A g \in 1..(Len(socket) - 1) : g \in DOMAIN socket
    BY <1>0, <1>5 DEF TypeInv, LifeTypes, ConnectionsOK
  <2> QED BY <1>1, <1>5, <1>7, <2>1 DEF FirstGreeting
<1> QED BY <1>6, <1>7

LEMMA SafetyInvStep ==
  ASSUME BrokerAssumption, SafetyInv, [Next]_vars PROVE SafetyInv'
BY TypeInvStep, MappedRegisteredStep, DeadQueueStep, TopicIsolationStep, FirstGreetingStep
   DEF SafetyInv

LEMMA SafetyInvariance == Spec => []SafetyInv
BY SafetyInvInit, SafetyInvStep, BrokerAssumption, PTL DEF Spec

-----------------------------------------------------------------------------
(* A consumer that a topic lists or a round serves is connected, so the    *)
(* branch of pushMessage that drops its messages is dead (addTopicConsumer,*)
(* pushMessage).                                                           *)
THEOREM SubscribersAreConnected == Spec => []SubscribersConnected
<1>1. SafetyInv => SubscribersConnected
  BY DEF SafetyInv, TypeInv, ConnectionsOK, MappedRegistered, SubscribersConnected
<1> QED BY <1>1, SafetyInvariance, PTL

(* Queues other than queue 0 hold messages of their own topic only         *)
(* (LoadBalancer::balancer, syncAdd).                                      *)
THEOREM TopicsIsolated == Spec => []TopicIsolation
BY SafetyInvariance, PTL DEF SafetyInv

(* The reply to the first REGISTER of an address is the first thing on its *)
(* connection, although addConsumer runs before the reply is written.      *)
THEOREM FirstAckFirst == Spec => []NothingPushedBeforeFirstAck
<1>1. SafetyInv => NothingPushedBeforeFirstAck
  BY DEF SafetyInv, FirstGreeting, NothingPushedBeforeFirstAck
<1> QED BY <1>1, SafetyInvariance, PTL
-----------------------------------------------------------------------------
(* A fair thread makes progress only if its step can be taken.  The steps  *)
(* with a choice ask for a greatest, a least or a least loaded candidate;  *)
(* these are the choices, at every control point where one is made.        *)
PushReady ==
  /\ pushPc = "poll" =>
       AllPolled \/ \E q \in DOMAIN queueList \ visited :
                      queueList[q] = {} \/ \E i \in queueList[q] :
                                             \A j \in queueList[q] : ~Less(i.msg, j.msg)
  /\ pushPc = "send" =>
       outbox = {} \/ \E i \in outbox : \A j \in outbox : ~Less(j.msg, i.msg)
  /\ pushPc = "retry" => pass = {}

ServerReady ==
  /\ srvPc \in {"add", "delete"} => left = 0
  /\ srvPc = "balance" =>
       \/ \E q \in QueueNumbers : q \in topicQueueMap[req.msg.topic] \ DOMAIN loads
       \/ \E q \in QueueNumbers : Balanced(req.msg.topic, q)

(* A round's messages are finitely many, nothing is ever left to resend,   *)
(* and only a creating thread has queues to go.                            *)
RoundFinite ==
  IsFiniteSet(batch) /\ IsFiniteSet(outbox) /\ \A c \in IpNodes : IsFiniteSet(t_map[c])

NoneLeft == srvPc \in {"epoll_wait", "add", "delete"} => left = 0

ReadyInv == SafetyInv /\ RoundFinite /\ pass = {} /\ NoneLeft

-----------------------------------------------------------------------------
(* In a finite set some member has no member above it, whatever set of     *)
(* members above it each of them is given, if it is given those of the     *)
(* members above it too.                                                   *)
LEMMA TopmostExists ==
  ASSUME NEW T, IsFiniteSet(T), T # {}, NEW Above, Above \in [T -> SUBSET T],
         \A x \in T : x \notin Above[x],
         \A x \in T : \A y \in Above[x] : Above[y] \subseteq Above[x]
  PROVE  \E x \in T : Above[x] = {}
<1> DEFINE Family == {Above[x] : x \in T}
           R == StrictSubsetOrdering(T)
<1>1. Family \subseteq FiniteSubsetsOf(T) /\ Family # {}
  BY FS_FiniteSubsetsOfFinite
<1>2. IsWellFoundedOn(R, FiniteSubsetsOf(T))
  BY FS_StrictSubsetOrderingWellFounded
<1> HIDE DEF Family, R
<1>3. PICK A \in Family : \A B \in Family : <<B, A>> \notin R
  BY <1>1, <1>2, WFMin
<1>4. PICK x \in T : A = Above[x]
  BY <1>3 DEF Family
<1>5. ASSUME NEW y \in Above[x] PROVE FALSE
  <2>1. y \in T /\ Above[y] \in Family
    BY <1>4 DEF Family
  <2>2. Above[y] \subseteq Above[x] /\ y \notin Above[y]
    BY <1>4, <2>1
  <2>3. <<Above[y], Above[x]>> \in R
    BY <1>4, <1>5, <2>1, <2>2 DEF R, StrictSubsetOrdering
  <2> QED BY <1>3, <1>4, <2>1, <2>3
<1> QED BY <1>4, <1>5

(* A finite set of messages has a greatest and a least one, so try_pop and *)
(* a set's first element are defined (Message::operator<).                 *)
LEMMA GreatestExists ==
  ASSUME BrokerAssumption, NEW T, IsFiniteSet(T), T # {}, T \subseteq Arrivals
  PROVE  /\ \E i \in T : \A j \in T : ~Less(i.msg, j.msg)
         /\ \E i \in T : \A j \in T : ~Less(j.msg, i.msg)
<1>1. \A i \in T : i.msg.priority \in Int /\ i.msg.num \in Nat
  BY DEF BrokerAssumption, Arrivals
<1>2. \E i \in T : \A j \in T : ~Less(i.msg, j.msg)
  <2> DEFINE Above == [i \in T |-> {j \in T : Less(i.msg, j.msg)}]
  <2>1. \A i \in T : i \notin Above[i]
    BY <1>1 DEF Less
  <2>2. \A i \in T : \A j \in Above[i] : Above[j] \subseteq Above[i]
    BY <1>1 DEF Less
  <2>3. Above \in [T -> SUBSET T]
    OBVIOUS
  <2> HIDE DEF Above
  <2>4. PICK i \in T : Above[i] = {}
    BY <2>1, <2>2, <2>3, TopmostExists
  <2> QED BY <2>4 DEF Above
<1>3. \E i \in T : \A j \in T : ~Less(j.msg, i.msg)
  <2> DEFINE Below == [i \in T |-> {j \in T : Less(j.msg, i.msg)}]
  <2>1. \A i \in T : i \notin Below[i]
    BY <1>1 DEF Less
  <2>2. \A i \in T : \A j \in Below[i] : Below[j] \subseteq Below[i]
    BY <1>1 DEF Less
  <2>3. Below \in [T -> SUBSET T]
    OBVIOUS
  <2> HIDE DEF Below
  <2>4. PICK i \in T : Below[i] = {}
    BY <2>1, <2>2, <2>3, TopmostExists
  <2> QED BY <2>4 DEF Below
<1> QED BY <1>2, <1>3

(* A topic's queues have a least loaded one (LoadBalancer::balancer).      *)
LEMMA LeastLoadedExists ==
  ASSUME NEW S, S # {}, NEW size, \A r \in S : size[r] \in Nat
  PROVE  \E q \in S : \A r \in S : size[q] <= size[r]
<1> DEFINE R == OpToRel(<, Nat)
           Sizes == {size[r] : r \in S}
<1>1. Sizes \subseteq Nat /\ Sizes # {}
  OBVIOUS
<1>2. \A m, n \in Nat : m < n => <<m, n>> \in R
  BY DEF OpToRel
<1>3. IsWellFoundedOn(R, Nat)
  BY NatLessThanWellFounded
<1> HIDE DEF R, Sizes
<1>4. PICK n \in Sizes : \A m \in Sizes : <<m, n>> \notin R
  BY <1>1, <1>3, WFMin
<1>5. PICK q \in S : n = size[q]
  BY <1>4 DEF Sizes
<1>6. ASSUME NEW r \in S PROVE size[q] <= size[r]
  <2>1. size[r] \in Sizes /\ size[r] \in Nat /\ size[q] \in Nat
    BY DEF Sizes
  <2>2. ~(size[r] < size[q])
    BY <1>2, <1>4, <1>5, <2>1
  <2> QED BY <2>1, <2>2
<1> QED BY <1>6

-----------------------------------------------------------------------------
LEMMA RoundFiniteStep ==
  ASSUME SafetyInv, RoundFinite, [Next]_vars PROVE RoundFinite'
<1>0. t_map \in [IpNodes -> SUBSET Arrivals]
  BY DEF SafetyInv, TypeInv, LifeTypes, TypeOK, PushTypes
<1>1. ASSUME NEW q \in DOMAIN queueList, PollQueue(q) PROVE RoundFinite'
  <2>1. batch' = batch \/ \E i \in queueList[q] : batch' = batch \cup {i}
    BY <1>1 DEF PollQueue
  <2>2. IsFiniteSet(batch')
    BY <2>1, FS_AddElement DEF RoundFinite
  <2> QED BY <1>1, <2>2 DEF PollQueue, RoundFinite, sendVars
<1>2. ASSUME NEW i \in batch, Classify(i) PROVE RoundFinite'
  <2>1. IsFiniteSet(batch') /\ outbox' = outbox
    BY <1>2, FS_RemoveElement DEF Classify, RoundFinite, sendVars
  <2>2. ASSUME NEW c \in IpNodes PROVE IsFiniteSet(t_map'[c])
    <3>1. t_map'[c] = t_map[c] \/ t_map'[c] = t_map[c] \cup {i}
      BY <1>2 DEF Classify
    <3> QED BY <3>1, FS_AddElement DEF RoundFinite
  <2> QED BY <2>1, <2>2 DEF RoundFinite
<1>3. ASSUME NEW c \in IpNodes, SelectConsumer(c) PROVE RoundFinite'
  <2>1. batch' = batch /\ (outbox' = outbox \/ outbox' = t_map[c])
    BY <1>3 DEF SelectConsumer, sendVars
  <2>2. ASSUME NEW d \in IpNodes PROVE IsFiniteSet(t_map'[d])
    BY <1>0, <1>3, FS_EmptySet DEF SelectConsumer, RoundFinite
  <2> QED BY <2>1, <2>2 DEF RoundFinite
<1>4. ASSUME NEW i \in outbox, Send(i) PROVE RoundFinite'
  BY <1>4, FS_RemoveElement DEF Send, RoundFinite
<1>5. \/ UNCHANGED <<batch, t_map, outbox>>
      \/ \E q \in DOMAIN queueList : PollQueue(q)
      \/ \E i \in batch : Classify(i)
      \/ \E c \in IpNodes : SelectConsumer(c)
      \/ \E i \in outbox : Send(i)
  BY DEF Next, ReadRequest, ServeRequest, PushThread, Environment, Register, AddTopicConsumer,
         DeleteTopicConsumer, RequestQueue, AddRequest, DeleteRequest, ReceiveMessage,
         ProducerFails, GreetConsumer, CreateQueue, TopicRequestDone, CopySize, SyncAdd,
         ReplyAck, ProducerReads,
         StartRound, EndPoll, EndClassify, EndRound, Receive, StartRetry, Retry,
         ConsumerReads, ConsumerExits, vars, pushVars, sendVars
<1> QED BY <1>1, <1>2, <1>3, <1>4, <1>5 DEF RoundFinite

LEMMA PassStep ==
  ASSUME DeadQueueEmpty, pass = {}, [Next]_vars PROVE pass' = {}
<1>1. CASE Receive
  BY <1>1 DEF Receive
<1>2. CASE Retry
  BY <1>2 DEF Retry, DeadQueueEmpty
<1>3. CASE StartRetry
  BY <1>3 DEF StartRetry
<1>4. UNCHANGED pass \/ Receive \/ Retry \/ StartRetry
  BY DEF Next, ReadRequest, ServeRequest, PushThread, Environment, Register, AddTopicConsumer,
         DeleteTopicConsumer, RequestQueue, AddRequest, DeleteRequest, ReceiveMessage,
         ProducerFails, GreetConsumer, CreateQueue, TopicRequestDone, CopySize, SyncAdd,
         ReplyAck, ProducerReads,
         StartRound, PollQueue, EndPoll, Classify, EndClassify, SelectConsumer,
         EndRound, Send, ConsumerReads, ConsumerExits, vars, pushVars, sendVars, retryVars
<1> QED BY <1>1, <1>2, <1>3, <1>4

LEMMA NoneLeftStep ==
  ASSUME NoneLeft, [Next]_vars PROVE NoneLeft'
<1>1. \/ srvPc' \notin {"epoll_wait", "add", "delete"}
      \/ UNCHANGED <<srvPc, left>> \/ (srvPc = "epoll_wait" /\ UNCHANGED left)
      \/ left' = 0
  BY DEF Next, ReadRequest, ServeRequest, PushThread, Environment, Register, AddTopicConsumer,
         DeleteTopicConsumer, RequestQueue, AddRequest, DeleteRequest, ReceiveMessage,
         ProducerFails, GreetConsumer, CreateQueue, TopicRequestDone, CopySize, SyncAdd,
         ReplyAck, ProducerReads,
         StartRound, PollQueue, EndPoll, Classify, EndClassify, SelectConsumer,
         EndRound, Send, Receive, StartRetry, Retry, ConsumerReads, ConsumerExits,
         ServerIdle, ServerFree, Replies, ProcessEnds, vars, srvVars
<1> QED BY <1>1 DEF NoneLeft

LEMMA ReadyInvariance == Spec => []ReadyInv
<1>1. Init => ReadyInv
  BY SafetyInvInit, BrokerAssumption, FS_EmptySet DEF Init, ReadyInv, RoundFinite, NoneLeft
<1>2. ReadyInv /\ [Next]_vars => ReadyInv'
  BY SafetyInvStep, RoundFiniteStep, PassStep, NoneLeftStep, BrokerAssumption
     DEF ReadyInv, SafetyInv
<1> QED BY <1>1, <1>2, PTL DEF Spec

(* Neither thread is ever left without a step for want of a choice: every  *)
(* queue that is not empty has a message to pop, every consumer's set a    *)
(* first one to send, every topic a queue to add to, however the other     *)
(* thread changes them (getAndRemove, pushMessage, balancer).  What else   *)
(* may hold the server thread is a reply its peer makes no room for.       *)
THEOREM ChoicesExist == Spec => [](PushReady /\ ServerReady)
<1>1. ASSUME ReadyInv PROVE PushReady
  <2>1. /\ queueList \in [DOMAIN queueList -> SUBSET Arrivals] /\ outbox \subseteq Arrivals
        /\ QueuesFinite /\ IsFiniteSet(outbox) /\ pass = {}
    BY <1>1 DEF ReadyInv, RoundFinite, SafetyInv, TypeInv, LifeTypes, TypeOK, SharedTypes, PushTypes
  <2>2. ASSUME ~AllPolled PROVE DOMAIN queueList \ visited # {}
    BY <2>2 DEF AllPolled, Rehashed
  <2>3. ASSUME NEW q \in DOMAIN queueList, queueList[q] # {}
        PROVE  \E i \in queueList[q] : \A j \in queueList[q] : ~Less(i.msg, j.msg)
    BY <2>1, <2>3, GreatestExists, BrokerAssumption DEF QueuesFinite
  <2>4. outbox = {} \/ \E i \in outbox : \A j \in outbox : ~Less(j.msg, i.msg)
    BY <2>1, GreatestExists, BrokerAssumption
  <2> QED BY <2>1, <2>2, <2>3, <2>4 DEF PushReady
<1>2. ASSUME ReadyInv PROVE ServerReady
  <2>1. srvPc \in {"add", "delete"} => left = 0
    BY <1>2 DEF ReadyInv, NoneLeft
  <2>2. ASSUME srvPc = "balance"
        PROVE  \/ \E q \in QueueNumbers : q \in topicQueueMap[req.msg.topic] \ DOMAIN loads
               \/ \E q \in QueueNumbers : Balanced(req.msg.topic, q)
    <3> DEFINE queues == topicQueueMap[req.msg.topic]
    <3>1. req.msg.topic \in Topics /\ loads \in [DOMAIN loads -> Nat]
      BY <1>2, <2>2, BrokerAssumption
         DEF ReadyInv, SafetyInv, TypeInv, LifeTypes, TypeOK, ServerTypes, Arrivals
    <3>2. queues \subseteq QueueNumbers /\ 0 \in QueueNumbers
      BY <3>1 DEF QueueNumbers
    <3>3. CASE queues = {}
      BY <3>2, <3>3 DEF Balanced
    <3>4. CASE queues # {} /\ queues \subseteq DOMAIN loads
      <4>1. PICK q \in queues : \A r \in queues : loads[q] <= loads[r]
        BY <3>1, <3>4, LeastLoadedExists
      <4>2. Balanced(req.msg.topic, q)
        BY <3>4, <4>1 DEF Balanced
      <4> QED BY <3>2, <4>2
    <3> QED BY <3>2, <3>3, <3>4
  <2> QED BY <2>1, <2>2 DEF ServerReady
<1> QED BY <1>1, <1>2, ReadyInvariance, PTL
=============================================================================
