------------------------------ MODULE Producer ------------------------------
(***************************************************************************)
(* Producer::Send and TopicRegister::Register over Client's blocking       *)
(* sockets, and the server thread at the other end.  A Client connects     *)
(* once, in its constructor; Send writes the request and reads the reply   *)
(* up to reTry_Time times on that connection.  Send(msg) uses one static   *)
(* Client, Send(msg, ipNode) makes one per message and never closes it.    *)
(* The broker's process may end at any time and be started again; what it  *)
(* does with a request is Broker's concern and one step here.              *)
(***************************************************************************)
EXTENDS Integers, Sequences

CONSTANTS
  Producers,      (* processes, each with its static Client                *)
  TopicRegisters, (* processes that ask for queues, one topic at a time    *)
  reTry_Time,   (* Producer::reTry_Time                                    *)
  MaxSends,     (* bound: messages of a producer                           *)
  MaxTopics,    (* bound: topics of a TopicRegister process                *)
  MaxLives,     (* bound: starts of the broker                             *)
  None

Processes == Producers \cup TopicRegisters
MessageType == {"ONE_WAY", "REPLY_EXPECTED", "REQUEST_QUEUE"}

(* One write of one message.  A broken descriptor is "dead" once the peer's *)
(* reset has been noticed.                                                  *)
Attempts == [producer : Processes, fd : Nat, life : Nat, num : Nat, type : MessageType, try : Nat]
Connections == [life : Nat, state : {"open", "dead"}]

ASSUME ProducerAssumption ==
  /\ reTry_Time \in Nat /\ MaxSends \in Nat /\ MaxTopics \in Nat /\ MaxLives \in Nat
  /\ None \notin Attempts

VARIABLES
  \* a producer
  pc,        (* "off", "idle", "write", "read", "killed"                   *)
  conns,     (* its descriptors: the broker's life connected to, and state *)
  client,    (* the descriptor of the Client that Send uses                *)
  num,       (* the message being sent: the n-th of this producer          *)
  type,
  tries,
  \* the network: written and not yet read
  requests, replies,
  \* the broker
  up, life,  (* is it running; how often was it started                    *)
  serving,   (* the request in the server thread's hand                    *)
  added,     (* it has been added to a queue                               *)
  \* history
  accepted,  (* what was added to the broker's queues                      *)
  acked      (* <<producer, number>> of the Sends that saw an ack          *)

sendVars   == <<client, num, type, tries>>
brokerVars == <<up, life, serving, added, accepted>>
vars == <<pc, conns, sendVars, requests, replies, brokerVars, acked>>

-----------------------------------------------------------------------------
(* connect() failed and Client::init closed the descriptor: its number is   *)
(* that of the next one opened, which a later Client may own.               *)
Connected(p) == client[p] \in DOMAIN conns[p]
Connection(p) == conns[p][client[p]]
PeerLives(p) == up /\ Connection(p).life = life

Attempt(p) == [producer |-> p, fd |-> client[p], life |-> Connection(p).life, num |-> num[p],
               type |-> type[p], try |-> tries[p]]

(* Client's constructor: one connect().  The new descriptor is the next one. *)
Connect(p) ==
  conns' = [conns EXCEPT ![p] = IF up THEN Append(@, [life |-> life, state |-> "open"]) ELSE @]

Breaks(p, state) == conns' = [conns EXCEPT ![p][client[p]].state = state]

Init ==
  /\ pc = [p \in Processes |-> "off"]
  /\ conns = [p \in Processes |-> <<>>]
  /\ client = [p \in Processes |-> 1]
  /\ num = [p \in Processes |-> 0]
  /\ type = [p \in Processes |-> "REPLY_EXPECTED"]
  /\ tries = [p \in Processes |-> 0]
  /\ requests = {} /\ replies = {}
  /\ up = FALSE /\ life = 0 /\ serving = None /\ added = FALSE
  /\ accepted = {} /\ acked = {}

-----------------------------------------------------------------------------
(* The static Client connects before main. *)
StartProducer(p) ==
  /\ pc[p] = "off"
  /\ pc' = [pc EXCEPT ![p] = "idle"]
  /\ IF p \in Producers THEN Connect(p) ELSE UNCHANGED conns
  /\ UNCHANGED <<sendVars, requests, replies, brokerVars, acked>>

BeginSend(p, t) ==
  /\ pc[p] = "idle" /\ num[p] < (IF p \in Producers THEN MaxSends ELSE MaxTopics)
  /\ pc' = [pc EXCEPT ![p] = "write"]
  /\ num' = [num EXCEPT ![p] = @ + 1]
  /\ type' = [type EXCEPT ![p] = t]
  /\ tries' = [tries EXCEPT ![p] = 0]
  /\ UNCHANGED <<requests, replies, brokerVars, acked>>

(* Send(msg): the static Client, connected or not. *)
Send(p, t) ==
  /\ BeginSend(p, t)
  /\ client' = [client EXCEPT ![p] = 1] /\ UNCHANGED conns

(* Send(msg, ipNode): a Client of its own. *)
SendTo(p, t) ==
  /\ BeginSend(p, t)
  /\ client' = [client EXCEPT ![p] = Len(conns[p]) + 1] /\ Connect(p)

(* TopicRegister::Register: a Client that is closed when it is done, so that *)
(* the next one gets its descriptor.                                        *)
Register(p) ==
  /\ BeginSend(p, "REQUEST_QUEUE")
  /\ client' = [client EXCEPT ![p] = 1]
  /\ conns' = [conns EXCEPT ![p] = IF up THEN <<[life |-> life, state |-> "open"]>> ELSE <<>>]

(* Register sends once. *)
MaxTries(p) == IF p \in TopicRegisters THEN 1 ELSE reTry_Time

(* Mutated form: one attempt too many. *)
OneTryMore(p) == tries[p] <= MaxTries(p)

TriesLeft(p) == tries[p] < MaxTries(p)

(* Mutated form: a Client for every attempt. *)
ReconnectingWrite(p) ==
  /\ pc[p] = "write" /\ TriesLeft(p) /\ up
  /\ pc' = [pc EXCEPT ![p] = "read"]
  /\ client' = [client EXCEPT ![p] = Len(conns[p]) + 1] /\ Connect(p)
  /\ requests' = requests \cup
       {[producer |-> p, fd |-> Len(conns[p]) + 1, life |-> life, num |-> num[p],
         type |-> type[p], try |-> tries[p]]}
  /\ UNCHANGED <<num, type, tries, replies, brokerVars, acked>>

(* SyncSend's write, whose result is not looked at.  To a peer that has gone *)
(* it succeeds and draws a reset, which is noticed now or later; to a dead   *)
(* descriptor it raises SIGPIPE.  A closed descriptor takes nothing.         *)
Write(p) ==
  /\ pc[p] = "write" /\ TriesLeft(p)
  /\ IF Connected(p) /\ Connection(p).state = "dead"
     THEN pc' = [pc EXCEPT ![p] = "killed"] /\ UNCHANGED <<conns, requests>>
     ELSE /\ pc' = [pc EXCEPT ![p] = "read"]
          /\ \/ /\ Connected(p) /\ PeerLives(p)
                /\ requests' = requests \cup {Attempt(p)} /\ UNCHANGED conns
             \/ /\ Connected(p) /\ ~PeerLives(p)
                /\ \E s \in {"open", "dead"} : Breaks(p, s)
                /\ UNCHANGED requests
             \/ ~Connected(p) /\ UNCHANGED <<conns, requests>>
  /\ UNCHANGED <<sendVars, replies, brokerVars, acked>>

HasReply(p) == \E r \in replies : r.producer = p /\ r.fd = client[p]

(* receive(): any reply with "Ack" in it ends Send. *)
ReadAck(p) ==
  /\ pc[p] = "read"
  /\ \E r \in replies :
       r.producer = p /\ r.fd = client[p] /\ replies' = replies \ {r}
  /\ pc' = [pc EXCEPT ![p] = "idle"]
  /\ acked' = acked \cup {<<p, num[p]>>}
  /\ UNCHANGED <<conns, sendVars, requests, brokerVars>>

(* read() gives 0 or -1 once the peer has gone, or at once on a descriptor   *)
(* that is closed: "Failed".                                                *)
ReadFailed(p) ==
  /\ pc[p] = "read" /\ ~HasReply(p)
  /\ \/ ~Connected(p) /\ UNCHANGED conns
     \/ Connected(p) /\ ~PeerLives(p) /\ \E s \in {Connection(p).state, "dead"} : Breaks(p, s)
  /\ pc' = [pc EXCEPT ![p] = "write"]
  /\ tries' = [tries EXCEPT ![p] = @ + 1]
  /\ UNCHANGED <<client, num, type, requests, replies, brokerVars, acked>>

(* All attempts are used up: Send returns, and says so only on the screen. *)
GiveUp(p) ==
  /\ pc[p] = "write" /\ ~TriesLeft(p)
  /\ pc' = [pc EXCEPT ![p] = "idle"]
  /\ UNCHANGED <<conns, sendVars, requests, replies, brokerVars, acked>>

ProducerStep(p) == Write(p) \/ ReadAck(p) \/ ReadFailed(p) \/ GiveUp(p)

(* The process is stopped from outside, between any two calls. *)
ProducerDies(p) ==
  /\ pc[p] \in {"idle", "write", "read"}
  /\ pc' = [pc EXCEPT ![p] = "killed"]
  /\ UNCHANGED <<conns, sendVars, requests, replies, brokerVars, acked>>

-----------------------------------------------------------------------------
(* The broker's server thread: one request at a time. *)
TakeRequest ==
  /\ up /\ serving = None
  /\ \E r \in requests :
       /\ r.life = life
       /\ serving' = r /\ requests' = requests \ {r}
  /\ added' = FALSE
  /\ UNCHANGED <<pc, conns, sendVars, replies, up, life, accepted, acked>>

(* addToBroker, or syncCreateQueue and addTopicConsumer. *)
AddToBroker ==
  /\ up /\ serving # None /\ ~added
  /\ added' = TRUE /\ accepted' = accepted \cup {serving}
  /\ UNCHANGED <<pc, conns, sendVars, requests, replies, up, life, serving, acked>>

(* Mutated forms: the reply comes first; every type is answered; one is not. *)
RepliesAtOnce == TRUE
AnsweredTypes == MessageType
QueueReplies == {"REQUEST_QUEUE"}

RepliesWhenAdded == added
RepliedTypes == {"REPLY_EXPECTED", "REQUEST_QUEUE"}

(* Write(fd, "Ack ..."); a ONE_WAY message gets none. *)
Reply ==
  /\ up /\ serving # None /\ RepliesWhenAdded
  /\ replies' = IF serving.type \in RepliedTypes THEN replies \cup {serving} ELSE replies
  /\ serving' = None
  /\ UNCHANGED <<pc, conns, sendVars, requests, up, life, added, accepted, acked>>

ServerThread == TakeRequest \/ AddToBroker \/ Reply

(* The process ends, for instance at a request that comes in pieces or at a *)
(* connection that is reset.                                                *)
BrokerEnds ==
  /\ up /\ up' = FALSE /\ serving' = None
  /\ requests' = {r \in requests : r.life # life}
  /\ UNCHANGED <<pc, conns, sendVars, replies, life, added, accepted, acked>>

BrokerStarts ==
  /\ ~up /\ life < MaxLives
  /\ up' = TRUE /\ life' = life + 1
  /\ UNCHANGED <<pc, conns, sendVars, requests, replies, serving, added, accepted, acked>>

Next ==
  \/ ServerThread \/ BrokerEnds \/ BrokerStarts
  \/ \E p \in Processes : StartProducer(p) \/ ProducerStep(p) \/ ProducerDies(p)
  \/ \E p \in Producers, t \in {"ONE_WAY", "REPLY_EXPECTED"} : Send(p, t) \/ SendTo(p, t)
  \/ \E p \in TopicRegisters : Register(p)

Spec == Init /\ [][Next]_vars

(* The server thread and a producer within Send go on when they can; nobody *)
(* has to send, to end or to start.                                         *)
FairSpec ==
  Spec /\ WF_vars(ServerThread) /\ \A p \in Processes : WF_vars(ProducerStep(p))

-----------------------------------------------------------------------------
(* Types of the variables; no Send tries more often than it may. *)
TypeOK ==
  /\ pc \in [Processes -> {"off", "idle", "write", "read", "killed"}]
  /\ conns \in [Processes -> Seq(Connections)]
  /\ client \in [Processes -> Nat] /\ num \in [Processes -> Nat]
  /\ type \in [Processes -> MessageType]
  /\ tries \in [Processes -> Nat] /\ \A p \in Processes : tries[p] <= MaxTries(p)
  /\ requests \subseteq Attempts /\ replies \subseteq Attempts
  /\ up \in BOOLEAN /\ life \in Nat /\ serving \in Attempts \cup {None} /\ added \in BOOLEAN
  /\ accepted \subseteq Attempts
  /\ acked \subseteq Processes \X Nat

(* Send says "Succeed" only of a message that a broker has taken into a    *)
(* queue.  It looks for "Ack" in whatever it reads and never at the number *)
(* in it, so no reply may outlive the Send it answers.                     *)
AckMeansAccepted ==
  \A a \in acked : \E m \in accepted : <<m.producer, m.num>> = a

(* However often Send repeats a message, and whoever ends and restarts     *)
(* meanwhile, brokers take it at most once: an attempt fails only when its *)
(* connection is lost, and a Client never connects again.                  *)
AtMostOneCopy ==
  \A m, n \in accepted : m.producer = n.producer /\ m.num = n.num => m = n

(* A ONE_WAY message gets no reply, but Send waits for one: as long as the *)
(* broker it is connected to runs, it does not come back.                  *)
OneWayWaits ==
  [][\A p \in Processes :
       pc[p] = "read" /\ type[p] = "ONE_WAY" /\ Connected(p) /\ PeerLives(p)
         => pc'[p] \in {"read", "killed"}]_vars

(* Every other Send, and every registration, comes to an end, with an ack, *)
(* without one or by the signal, although its reads block and the broker   *)
(* may serve others first, end or be started again.                        *)
ReplyExpectedReturns ==
  \A p \in Processes :
    pc[p] \in {"write", "read"} /\ type[p] # "ONE_WAY" ~> pc[p] \in {"idle", "killed"}
=============================================================================
