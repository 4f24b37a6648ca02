-------------------------- MODULE BrokerProperties --------------------------
(***************************************************************************)
(* What the broker's two threads keep true of the state they share.        *)
(***************************************************************************)
EXTENDS Broker

(* Types of every variable, with what each thread's control point says of *)
(* its own variables.                                                     *)
SharedTypes ==
  /\ count \in Nat
  /\ DOMAIN queueList \subseteq Nat
  /\ queueList \in [DOMAIN queueList -> SUBSET Arrivals]
  /\ topicQueueMap \in [Topics -> SUBSET Nat]
  /\ topicConsumerMap \in [Topics -> SUBSET IpNodes]
  /\ index \subseteq IpNodes
  /\ clients \in [IpNodes -> Nat]
  /\ deadQueue \subseteq Arrivals
  /\ socket \in Seq(Sockets)
  /\ arrivals \in Nat /\ handled \subseteq Nat
  /\ pushed \in [IpNodes -> SUBSET Nat]

ServerTypes ==
  /\ srvPc \in {"epoll_wait", "greet", "create", "add", "delete", "balance", "reply", "spin",
               "killed", "exited"}
  /\ srvPc \in {"create", "add", "delete"} => req \in TopicRequests
  /\ srvPc = "balance" => req \in Arrivals
  /\ left \in Nat /\ pending \subseteq IpNodes
  /\ DOMAIN loads \subseteq Nat /\ loads \in [DOMAIN loads -> Nat]

PushTypes ==
  /\ pushPc \in {"sleep", "poll", "classify", "select", "send", "receive", "retry",
                 "resent", "killed", "exited"}
  /\ roundQueues \subseteq Nat /\ visited \subseteq Nat
  /\ batch \subseteq Arrivals
  /\ t_map \in [IpNodes -> SUBSET Arrivals]
  /\ outbox \subseteq Arrivals
  /\ tries \in 0..reTry_Time /\ pass \subseteq Nat /\ fd \in Nat
  /\ pushPc \in {"send", "receive", "retry", "resent"} => consumer \in IpNodes

TypeOK == SharedTypes /\ ServerTypes /\ PushTypes

-----------------------------------------------------------------------------
(* A queue belongs to one topic: syncCreateQueue hands out every number    *)
(* once, below count, and the queue exists, also while a request creates   *)
(* its queues one by one.                                                  *)
QueueOwnership ==
  /\ \A t \in Topics : topicQueueMap[t] \subseteq {q \in DOMAIN queueList : q < count}
  /\ \A t, u \in Topics : t # u => topicQueueMap[t] \cap topicQueueMap[u] = {}

(* The queue of a topic never holds another topic's message, except that   *)
(* queue 0 also takes the messages of topics that have no queue.  The      *)
(* choice of the balancer and the insertion are separate steps.            *)
TopicIsolation ==
  \A q \in DOMAIN queueList : \A i \in queueList[q] :
    q = 0 \/ q \in topicQueueMap[i.msg.topic]

(* A consumer that a topic lists, or that a round has messages for, has a  *)
(* connection of its own in clients: addTopicConsumer refuses an address   *)
(* that has not registered, so pushMessage's "connection is not existed"   *)
(* branch, which drops the messages, is never taken.                       *)
SubscribersConnected ==
  \A c \in IpNodes :
    (t_map[c] # {} \/ \E t \in Topics : c \in topicConsumerMap[t]) =>
      /\ c \in index
      /\ clients[c] \in DOMAIN socket
      /\ socket[clients[c]].peer = c

Ended == pushPc \in {"killed", "exited"}

(* The places of a message on its way to the consumers. *)
InHand    == IF srvPc = "balance" THEN {req.id} ELSE {}
Queued(q) == {i.id : i \in queueList[q]}
AllQueued == UNION {Queued(q) : q \in DOMAIN queueList}
Batched   == {i.id : i \in batch}

(* While the broker runs, a message received is in exactly one place until *)
(* its round classifies it, the server thread's hand, one queue or the     *)
(* round's batch, and afterwards in none of them: no interleaving of the   *)
(* threads loses or doubles a message on its way through the queues.       *)
Conservation == ~Ended =>
  /\ 1..arrivals = InHand \cup AllQueued \cup Batched \cup handled
  /\ InHand \cap (AllQueued \cup Batched \cup handled) = {}
  /\ AllQueued \cap (Batched \cup handled) = {}
  /\ Batched \cap handled = {}
  /\ \A q, r \in DOMAIN queueList : q # r => Queued(q) \cap Queued(r) = {}

(* Seen from outside, the queues, the rounds and their steps are a store   *)
(* that keeps every message until it hands it over (Filter::               *)
(* classification), which it does once and in any order; only the end of   *)
(* the process takes away what it still has.                               *)
Store == INSTANCE MessageStore WITH
  received <- arrivals,
  held <- IF Ended THEN {} ELSE InHand \cup AllQueued \cup Batched,
  done <- handled,
  ended <- Ended

ImplementsStore == Store!Safety

(* A consumer that comes back is served on its new connection: every open  *)
(* connection is the one clients names, also when a round is still sending *)
(* to the old one.                                                         *)
OnlyLatestOpen ==
  \A f \in DOMAIN socket : socket[f].state = "open" => clients[socket[f].peer] = f

(* On the first connection of an address nothing precedes the reply to     *)
(* REGISTER, although the consumer is put in clients before that reply is  *)
(* written and the push thread runs meanwhile.                             *)
NothingPushedBeforeFirstAck ==
  LET f == Len(socket) IN
    srvPc = "greet" /\ (\A g \in 1..(f - 1) : socket[g].peer # socket[f].peer)
      => socket[f].unread = <<>>

(* Rounds send a message to a consumer once, over all its rounds and all   *)
(* the connections it comes back on, also when it registers again while a  *)
(* round is sending to the old one: a message that is sent again is sent   *)
(* by the resending loop, which is no round.                               *)
PushedOncePerConsumer ==
  [][\A i \in outbox \ outbox' : i.id \notin pushed[consumer]]_vars

-----------------------------------------------------------------------------
(* A message that was received is eventually handed over or ends with the  *)
(* process, even when the tables grow while rounds walk them: with         *)
(* ImplementsStore, the broker implements Store!Spec.                      *)
HandsOverAll == Store!Fairness

(* What a round has put down for a consumer is eventually handed to that   *)
(* consumer's socket.                                                      *)
PlannedPushHappens ==
  \A c \in IpNodes, n \in 1..MaxArrivals :
    (\E i \in t_map[c] : i.id = n) ~> (Ended \/ n \in pushed[c])

(* Write() tries again for ever while the peer's socket is full: the reply *)
(* to a producer, and to a consumer that registers.                        *)
HeldUp == srvPc = "spin" \/ (srvPc = "greet" /\ SocketFull(Len(socket)))

(* The server thread gets back to epoll_wait from every request, whatever  *)
(* the push thread, the producers and the consumers do, unless a peer that *)
(* does not read its reply holds it up for ever.                           *)
RequestHandled ==
  []<>~HeldUp =>
    (srvPc \in {"greet", "create", "add", "delete", "balance", "reply"}
       ~> srvPc \in {"epoll_wait", "killed", "exited"})

-----------------------------------------------------------------------------
(* reTry_Time, "times a failed sending is repeated": when SyncSend returns *)
(* "Failed", the message is among those the resending loop will send.      *)
FailedSendIsKept ==
  [][pushPc = "receive" /\ pushPc' = "send" /\ socket[fd].acks = <<>>
       => deadQueue' # {}]_vars

(* SyncSend's comment: failure returns "Failed".  Sending to a peer that   *)
(* is gone does not end the broker.                                        *)
FailedSendReturns == pushPc # "killed"

(* Message::operator<: "the greater priority first, then the smaller       *)
(* number": what a round sends to a consumer goes out in that order.       *)
SentInPriorityOrder ==
  [][\A i \in outbox : outbox' = outbox \ {i} =>
       \A j \in outbox' : ~Less(i.msg, j.msg)]_vars
=============================================================================
