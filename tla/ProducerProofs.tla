--------------------------- MODULE ProducerProofs ---------------------------
(***************************************************************************)
(* Proofs about Producer, for any number of processes, attempts, messages  *)
(* and lives of the broker.  Two facts carry them: what a process has      *)
(* outstanding is its latest attempt, over the connection it is reading    *)
(* from; and a message that was written once is written again only after   *)
(* its connection is lost, which no further write on it outlives.          *)
(***************************************************************************)
EXTENDS Producer, SequenceTheorems, TLAPS

InHand == {serving} \ {None}
Outstanding == requests \cup InHand \cup replies
Written == Outstanding \cup accepted

(* r is an attempt at what its process is sending, on the same connection. *)
Current(r) ==
  /\ Connected(r.producer) /\ r.fd = client[r.producer]
  /\ r.life = Connection(r.producer).life
  /\ r.num = num[r.producer] /\ r.type = type[r.producer]

ConnectionsOK ==
  /\ \A p \in Processes : \A k \in DOMAIN conns[p] : conns[p][k].life <= life
  /\ \A p \in Processes : pc[p] = "read" => TriesLeft(p)

(* The server thread replies to what it has added, on its own connections. *)
ServerOK ==
  /\ \A r \in requests \cup InHand : up /\ r.life = life
  /\ serving # None /\ added => serving \in accepted
  /\ \A r \in replies : r \in accepted /\ r.type # "ONE_WAY"
  /\ requests \cap InHand = {} /\ requests \cap replies = {} /\ InHand \cap replies = {}

OutstandingOK ==
  \A r \in Outstanding : pc[r.producer] = "killed" \/ (pc[r.producer] = "read" /\ Current(r))

WrittenOK ==
  /\ \A r \in Written : r.num <= num[r.producer]
  /\ \A r \in Written :
       pc[r.producer] \in {"write", "read"} /\ r.num = num[r.producer] =>
         /\ Current(r)
         /\ pc[r.producer] = "write" => ~PeerLives(r.producer)
  /\ \A r, q \in Written : r.producer = q.producer /\ r.num = q.num => r = q

Inv == TypeOK /\ ConnectionsOK /\ ServerOK /\ OutstandingOK /\ WrittenOK /\ AckMeansAccepted

-----------------------------------------------------------------------------
LEMMA InvInit ==
  ASSUME ProducerAssumption, Init PROVE Inv
<1>1. TypeOK
  <2>1. \A p \in Processes : 0 <= MaxTries(p)
    BY DEF MaxTries, ProducerAssumption
  <2>2. conns \in [Processes -> Seq(Connections)]
    BY EmptySeq DEF Init
  <2>3. /\ client \in [Processes -> Nat] /\ num \in [Processes -> Nat] /\ tries \in [Processes -> Nat]
        /\ \A p \in Processes : tries[p] = 0
    BY DEF Init
  <2> QED BY <2>1, <2>2, <2>3 DEF Init, TypeOK, MessageType
<1>2. ConnectionsOK
  BY DEF Init, ConnectionsOK
<1>3. ServerOK /\ OutstandingOK /\ WrittenOK
  BY DEF Init, ServerOK, OutstandingOK, WrittenOK, Written, Outstanding, InHand
<1>4. AckMeansAccepted
  BY DEF Init, AckMeansAccepted
<1> QED BY <1>1, <1>2, <1>3, <1>4 DEF Inv

LEMMA Actions ==
  ASSUME [Next]_vars
  PROVE  \/ TakeRequest \/ AddToBroker \/ Reply \/ BrokerEnds \/ BrokerStarts
         \/ \E p \in Processes : \/ StartProducer(p) \/ Write(p) \/ ReadAck(p) \/ ReadFailed(p)
                                 \/ GiveUp(p) \/ ProducerDies(p)
         \/ \E p \in Processes, t \in MessageType : Send(p, t) \/ SendTo(p, t)
         \/ \E p \in Processes : Register(p)
         \/ UNCHANGED vars
BY DEF Next, ServerThread, ProducerStep, Processes, MessageType

(* The client of a process is one of its connections, or none. *)
LEMMA ConnectionTypes ==
  ASSUME Inv, NEW p \in Processes, Connected(p)
  PROVE  /\ Connection(p) \in Connections /\ Connection(p).life \in Nat
         /\ Connection(p).life <= life
         /\ client[p] \in 1..Len(conns[p]) /\ conns[p] \in Seq(Connections)
<1>1. /\ conns[p] \in Seq(Connections) /\ client[p] \in DOMAIN conns[p]
      /\ conns[p][client[p]].life <= life
  BY DEF Inv, TypeOK, ConnectionsOK, Connected
<1>2. DOMAIN conns[p] = 1..Len(conns[p]) /\ conns[p][client[p]] \in Connections
  BY <1>1
<1> QED BY <1>1, <1>2 DEF Connection, Connections

LEMMA WrittenTypes ==
  ASSUME ProducerAssumption, Inv
  PROVE  /\ Written \subseteq Attempts
         /\ \A r \in Written : r.producer \in Processes /\ r.num \in Nat /\ r.life \in Nat
BY DEF Inv, TypeOK, Written, Outstanding, InHand, Attempts

(* What a connection that breaks leaves as it was. *)
LEMMA BreaksKeeps ==
  ASSUME Inv, NEW p \in Processes, Connected(p), NEW s \in {"open", "dead"}, Breaks(p, s)
  PROVE  /\ conns' \in [Processes -> Seq(Connections)]
         /\ \A q \in Processes :
              /\ DOMAIN conns'[q] = DOMAIN conns[q]
              /\ \A k \in DOMAIN conns[q] : conns'[q][k].life = conns[q][k].life
<1> DEFINE e == [life |-> Connection(p).life, state |-> s]
           t == [conns[p] EXCEPT ![client[p]] = e]
<1>1. e \in Connections
  BY ConnectionTypes DEF Connections
<1>2. /\ conns[p] \in Seq(Connections) /\ client[p] \in 1..Len(conns[p])
      /\ conns \in [Processes -> Seq(Connections)]
  BY ConnectionTypes DEF Inv, TypeOK
<1>3. /\ t \in Seq(Connections) /\ Len(t) = Len(conns[p])
      /\ \A j \in 1..Len(conns[p]) : t[j] = IF j = client[p] THEN e ELSE conns[p][j]
  BY <1>1, <1>2, ExceptSeq
<1>4. [conns[p][client[p]] EXCEPT !.state = s] = e
  BY ConnectionTypes DEF Connection, Connections
<1>5. conns' = [conns EXCEPT ![p] = t]
  BY <1>2, <1>4 DEF Breaks
<1>6. \A j \in 1..Len(conns[p]) : t[j].life = conns[p][j].life
  BY <1>3 DEF Connection
<1> HIDE DEF t
<1>7. DOMAIN t = DOMAIN conns[p] /\ DOMAIN conns[p] = 1..Len(conns[p])
  BY <1>2, <1>3
<1> QED BY <1>2, <1>3, <1>5, <1>6, <1>7

(* A new connection, of the running broker. *)
LEMMA ConnectMakes ==
  ASSUME Inv, NEW p \in Processes, Connect(p)
  PROVE  /\ conns' \in [Processes -> Seq(Connections)]
         /\ \A q \in Processes : q # p => conns'[q] = conns[q]
         /\ \A k \in DOMAIN conns'[p] : conns'[p][k].life <= life
<1> DEFINE e == [life |-> life, state |-> "open"]
           t == Append(conns[p], e)
<1>1. e \in Connections /\ life \in Nat
  BY DEF Connections, Inv, TypeOK
<1>2. conns \in [Processes -> Seq(Connections)] /\ conns[p] \in Seq(Connections)
  BY DEF Inv, TypeOK
<1>3. t \in Seq(Connections) /\ \A k \in DOMAIN t : t[k] = e \/ (k \in DOMAIN conns[p] /\ t[k] = conns[p][k])
  BY <1>1, <1>2
<1>4. \A k \in DOMAIN t : t[k].life <= life
  BY <1>1, <1>3 DEF Inv, ConnectionsOK
<1>5. conns' = [conns EXCEPT ![p] = IF up THEN t ELSE conns[p]]
  BY DEF Connect
<1> HIDE DEF t
<1> QED BY <1>2, <1>3, <1>4, <1>5 DEF Inv, ConnectionsOK

(* Send, Send to a node and Register begin alike, on a client of their own *)
(* choice.                                                                 *)
LEMMA Begins ==
  ASSUME ProducerAssumption, Inv, NEW p \in Processes, NEW t \in MessageType,
         Send(p, t) \/ SendTo(p, t) \/ Register(p)
  PROVE  /\ pc[p] = "idle" /\ pc' = [pc EXCEPT ![p] = "write"]
         /\ num' = [num EXCEPT ![p] = @ + 1]
         /\ UNCHANGED <<requests, replies, brokerVars, acked>>
         /\ \A q \in Processes : q # p =>
              conns'[q] = conns[q] /\ client'[q] = client[q] /\ type'[q] = type[q]
         /\ TypeOK' /\ ConnectionsOK'
<1>0. TypeOK /\ ConnectionsOK
  BY DEF Inv
<1>1. /\ pc[p] = "idle" /\ pc' = [pc EXCEPT ![p] = "write"]
      /\ num' = [num EXCEPT ![p] = @ + 1] /\ tries' = [tries EXCEPT ![p] = 0]
      /\ UNCHANGED <<requests, replies, brokerVars, acked>>
      /\ \E u \in MessageType : type' = [type EXCEPT ![p] = u]
  BY DEF Send, SendTo, Register, BeginSend, MessageType
<1>2. /\ conns' \in [Processes -> Seq(Connections)]
      /\ \A q \in Processes : q # p => conns'[q] = conns[q]
      /\ \A k \in DOMAIN conns'[p] : conns'[p][k].life <= life
  <2>1. CASE Send(p, t)
    BY <1>0, <2>1 DEF Send, TypeOK, ConnectionsOK
  <2>2. CASE SendTo(p, t)
    BY <2>2, ConnectMakes DEF SendTo
  <2>3. CASE Register(p)
    <3> DEFINE e == [life |-> life, state |-> "open"]
               n == IF up THEN <<e>> ELSE <<>>
    <3>1. e \in Connections /\ life <= life
      BY <1>0 DEF Connections, TypeOK
    <3>2. n \in Seq(Connections) /\ \A k \in DOMAIN n : n[k] = e
      BY <3>1
    <3>3. \A k \in DOMAIN n : n[k].life <= life
      BY <3>1, <3>2
    <3>4. conns' = [conns EXCEPT ![p] = n]
      BY <2>3 DEF Register
    <3> HIDE DEF n
    <3> QED BY <1>0, <3>2, <3>3, <3>4 DEF TypeOK
  <2> QED BY <2>1, <2>2, <2>3
<1>3. \E c \in Nat : client' = [client EXCEPT ![p] = c]
  <2>1. Len(conns[p]) + 1 \in Nat
    BY <1>0 DEF TypeOK
  <2> QED BY <2>1 DEF Send, SendTo, Register
<1>4. 0 <= MaxTries(p)
  BY DEF MaxTries, ProducerAssumption
<1>5. TypeOK'
  <2>1. \A q \in Processes : tries'[q] <= MaxTries(q)
    BY <1>0, <1>1, <1>4 DEF TypeOK
  <2>2. /\ pc' \in [Processes -> {"off", "idle", "write", "read", "killed"}]
        /\ client' \in [Processes -> Nat] /\ num' \in [Processes -> Nat]
        /\ type' \in [Processes -> MessageType] /\ tries' \in [Processes -> Nat]
    BY <1>0, <1>1, <1>3 DEF TypeOK
  <2>3. UNCHANGED <<requests, replies, up, life, serving, added, accepted, acked>>
    BY <1>1 DEF brokerVars
  <2> QED BY <1>0, <1>2, <2>1, <2>2, <2>3 DEF TypeOK, MaxTries
<1>6. ConnectionsOK'
  <2>1. \A q \in Processes : \A k \in DOMAIN conns'[q] : conns'[q][k].life <= life'
    BY <1>0, <1>1, <1>2 DEF ConnectionsOK, brokerVars
  <2>2. \A q \in Processes : pc'[q] = "read" => q # p /\ pc[q] = "read" /\ tries'[q] = tries[q]
    BY <1>0, <1>1 DEF TypeOK
  <2> QED BY <1>0, <2>1, <2>2 DEF ConnectionsOK, TriesLeft, MaxTries
<1> QED BY <1>0, <1>1, <1>2, <1>3, <1>5, <1>6 DEF TypeOK

-----------------------------------------------------------------------------
LEMMA TypesStep ==
  ASSUME ProducerAssumption, Inv, [Next]_vars
  PROVE  TypeOK' /\ ConnectionsOK'
<1>0. TypeOK /\ ConnectionsOK
  BY DEF Inv
<1>1. CASE UNCHANGED vars
  BY <1>0, <1>1 DEF TypeOK, ConnectionsOK, TriesLeft, MaxTries, vars, sendVars, brokerVars
<1>2. CASE TakeRequest \/ AddToBroker \/ Reply
  <2>1. UNCHANGED <<pc, conns, sendVars, up, life, acked>>
    BY <1>2 DEF TakeRequest, AddToBroker, Reply
  <2>2. serving' \in Attempts \cup {None} /\ added' \in BOOLEAN
    BY <1>0, <1>2 DEF TakeRequest, AddToBroker, Reply, TypeOK
  <2>3. requests' \subseteq Attempts /\ replies' \subseteq Attempts /\ accepted' \subseteq Attempts
    BY <1>0, <1>2 DEF TakeRequest, AddToBroker, Reply, TypeOK
  <2> QED BY <1>0, <2>1, <2>2, <2>3 DEF TypeOK, ConnectionsOK, TriesLeft, MaxTries, sendVars
<1>3. CASE BrokerEnds \/ BrokerStarts
  <2>a. UNCHANGED <<pc, conns, client, num, type, tries, added, accepted, acked, replies>>
    BY <1>3 DEF BrokerEnds, BrokerStarts, sendVars
  <2>b. up' \in BOOLEAN /\ requests' \subseteq requests /\ serving' \in {serving, None}
    BY <1>3 DEF BrokerEnds, BrokerStarts
  <2>1. life' \in Nat /\ life \in Nat /\ life <= life'
    BY <1>0, <1>3 DEF BrokerEnds, BrokerStarts, TypeOK
  <2>2. TypeOK'
    BY <1>0, <2>a, <2>b, <2>1 DEF TypeOK, MaxTries
  <2>3. \A p \in Processes : \A k \in DOMAIN conns[p] : conns[p][k].life \in Nat
    <3>1. ASSUME NEW p \in Processes, NEW k \in DOMAIN conns[p] PROVE conns[p][k].life \in Nat
      <4>1. conns[p] \in Seq(Connections)
        BY <1>0 DEF TypeOK
      <4>2. conns[p][k] \in Connections
        BY <4>1
      <4> QED BY <4>2 DEF Connections
    <3> QED BY <3>1
  <2>4. \A p \in Processes : \A k \in DOMAIN conns[p] : conns[p][k].life <= life'
    BY <1>0, <2>1, <2>3 DEF ConnectionsOK
  <2> QED BY <1>0, <2>a, <2>2, <2>4 DEF ConnectionsOK, TriesLeft, MaxTries
<1>4. ASSUME NEW p \in Processes, StartProducer(p) PROVE TypeOK' /\ ConnectionsOK'
  <2>1. /\ conns' \in [Processes -> Seq(Connections)]
        /\ \A q \in Processes : \A k \in DOMAIN conns'[q] : conns'[q][k].life <= life
    BY <1>0, <1>4, ConnectMakes DEF StartProducer, TypeOK, ConnectionsOK
  <2> QED BY <1>0, <1>4, <2>1
         DEF StartProducer, TypeOK, ConnectionsOK, TriesLeft, MaxTries, sendVars, brokerVars
<1>5. ASSUME NEW p \in Processes, Write(p) PROVE TypeOK' /\ ConnectionsOK'
  <2>1. /\ UNCHANGED <<sendVars, replies, brokerVars, acked>> /\ TriesLeft(p)
        /\ pc' = [pc EXCEPT ![p] = "killed"] \/ pc' = [pc EXCEPT ![p] = "read"]
        /\ \/ UNCHANGED conns
           \/ Connected(p) /\ \E s \in {"open", "dead"} : Breaks(p, s)
        /\ requests' = requests \/ (Connected(p) /\ requests' = requests \cup {Attempt(p)})
    BY <1>5 DEF Write
  <2>2. /\ conns' \in [Processes -> Seq(Connections)]
        /\ \A q \in Processes : \A k \in DOMAIN conns'[q] : conns'[q][k].life <= life
    BY <1>0, <2>1, BreaksKeeps DEF TypeOK, ConnectionsOK
  <2>3. Connected(p) => Attempt(p) \in Attempts
    BY <1>0, ConnectionTypes DEF Attempt, Attempts, TypeOK
  <2> QED BY <1>0, <2>1, <2>2, <2>3 DEF TypeOK, ConnectionsOK, TriesLeft, MaxTries, sendVars, brokerVars
<1>6. ASSUME NEW p \in Processes, ReadFailed(p) PROVE TypeOK' /\ ConnectionsOK'
  <2>1. /\ UNCHANGED <<client, num, type, requests, replies, brokerVars, acked>> /\ pc[p] = "read"
        /\ pc' = [pc EXCEPT ![p] = "write"] /\ tries' = [tries EXCEPT ![p] = @ + 1]
        /\ \/ UNCHANGED conns
           \/ Connected(p) /\ \E s \in {Connection(p).state, "dead"} : Breaks(p, s)
    BY <1>6 DEF ReadFailed
  <2>2. Connected(p) => Connection(p).state \in {"open", "dead"}
    BY ConnectionTypes DEF Connections
  <2>3. /\ conns' \in [Processes -> Seq(Connections)]
        /\ \A q \in Processes : \A k \in DOMAIN conns'[q] : conns'[q][k].life <= life
    BY <1>0, <2>1, <2>2, BreaksKeeps DEF TypeOK, ConnectionsOK
  <2>4. tries[p] < MaxTries(p) /\ tries[p] \in Nat /\ MaxTries(p) \in Nat
    BY <1>0, <2>1 DEF TypeOK, ConnectionsOK, TriesLeft, MaxTries, ProducerAssumption
  <2>5. tries' \in [Processes -> Nat] /\ \A q \in Processes : tries'[q] <= MaxTries(q)
    BY <1>0, <2>1, <2>4 DEF TypeOK
  <2>6. \A q \in Processes : pc'[q] = "read" => pc[q] = "read" /\ tries'[q] = tries[q]
    BY <1>0, <2>1 DEF TypeOK
  <2>7. ConnectionsOK'
    BY <1>0, <2>1, <2>3, <2>6 DEF ConnectionsOK, TriesLeft, MaxTries, brokerVars
  <2> QED BY <1>0, <2>1, <2>3, <2>5, <2>7 DEF TypeOK, MaxTries, brokerVars
<1>7. ASSUME NEW p \in Processes, ReadAck(p) \/ GiveUp(p) \/ ProducerDies(p)
      PROVE  TypeOK' /\ ConnectionsOK'
  <2>1. /\ UNCHANGED <<conns, sendVars, requests, brokerVars>> /\ replies' \subseteq replies
        /\ acked' \subseteq acked \cup {<<p, num[p]>>}
        /\ \E s \in {"idle", "killed"} : pc' = [pc EXCEPT ![p] = s]
    BY <1>7 DEF ReadAck, GiveUp, ProducerDies
  <2>2. acked' \subseteq Processes \X Nat
    BY <1>0, <2>1 DEF TypeOK
  <2> QED BY <1>0, <2>1, <2>2 DEF TypeOK, ConnectionsOK, TriesLeft, MaxTries, sendVars, brokerVars
<1>8. ASSUME NEW p \in Processes, NEW t \in MessageType, Send(p, t) \/ SendTo(p, t) \/ Register(p)
      PROVE  TypeOK' /\ ConnectionsOK'
  BY <1>8, Begins
<1>9. "ONE_WAY" \in MessageType
  BY DEF MessageType
<1> QED BY <1>1, <1>2, <1>3, <1>4, <1>5, <1>6, <1>7, <1>8, <1>9, Actions

(* What a process has outstanding when it is not reading: nothing. *)
LEMMA NothingOutstanding ==
  ASSUME Inv, NEW r \in Outstanding, pc[r.producer] # "killed"
  PROVE  pc[r.producer] = "read" /\ Current(r)
BY DEF Inv, OutstandingOK

(* A failed read shows that nothing is on the way any more. *)
LEMMA FailedHasNone ==
  ASSUME ProducerAssumption, Inv, NEW p \in Processes, ReadFailed(p)
  PROVE  \A r \in Outstanding : r.producer # p
<1> SUFFICES ASSUME NEW r \in Outstanding, r.producer = p PROVE FALSE
  OBVIOUS
<1>1. pc[p] = "read" /\ ~HasReply(p) /\ (Connected(p) => ~PeerLives(p))
  BY DEF ReadFailed
<1>2. Current(r)
  BY <1>1, NothingOutstanding
<1>3. r \notin replies
  BY <1>1, <1>2 DEF HasReply, Current
<1>4. up /\ r.life = life
  BY <1>3 DEF Outstanding, Inv, ServerOK
<1> QED BY <1>1, <1>2, <1>4 DEF Current, PeerLives

(* An ack that is read leaves nothing on the way. *)
LEMMA AckedHasNone ==
  ASSUME ProducerAssumption, Inv, NEW p \in Processes, pc[p] = "read",
         NEW r \in replies, r.producer = p
  PROVE  /\ Current(r)
         /\ \A q \in Outstanding : q.producer = p => q = r /\ q \notin requests /\ q \notin InHand
<1>1. r \in Outstanding /\ r \in Written
  BY DEF Outstanding, Written
<1>2. Current(r)
  BY <1>1, NothingOutstanding
<1>3. ASSUME NEW q \in Outstanding, q.producer = p PROVE q = r
  <2>1. Current(q) /\ q \in Written
    BY <1>3, NothingOutstanding DEF Written
  <2> QED BY <1>1, <1>2, <1>3, <2>1 DEF Current, Inv, WrittenOK
<1>4. r \notin requests /\ r \notin InHand
  BY DEF Inv, ServerOK
<1> QED BY <1>2, <1>3, <1>4

-----------------------------------------------------------------------------
LEMMA ServerStep ==
  ASSUME ProducerAssumption, Inv, [Next]_vars
  PROVE  ServerOK'
<1>0. ServerOK /\ TypeOK
  BY DEF Inv
<1>1. CASE TakeRequest
  <2>1. PICK r \in requests : r.life = life /\ serving' = r /\ requests' = requests \ {r}
    BY <1>1 DEF TakeRequest
  <2>2. /\ up /\ serving = None /\ added' = FALSE /\ UNCHANGED <<replies, up, life, accepted>>
    BY <1>1 DEF TakeRequest
  <2>3. InHand' = {r}
    BY <1>0, <2>1 DEF InHand, TypeOK, ProducerAssumption
  <2> QED BY <1>0, <2>1, <2>2, <2>3 DEF ServerOK
<1>2. CASE AddToBroker
  BY <1>0, <1>2 DEF AddToBroker, ServerOK, InHand
<1>3. CASE Reply
  <2>1. /\ UNCHANGED <<requests, up, life, added, accepted>> /\ serving # None /\ added
        /\ serving' = None /\ (replies' = replies \/ replies' = replies \cup {serving})
        /\ serving.type = "ONE_WAY" => replies' = replies
    BY <1>3 DEF Reply, RepliesWhenAdded, RepliedTypes
  <2>2. InHand' = {} /\ serving \in InHand /\ serving \in accepted
    BY <1>0, <2>1 DEF InHand, ServerOK
  <2>3. \A r \in replies' : r \in accepted /\ r.type # "ONE_WAY" /\ r \notin requests
    BY <1>0, <2>1, <2>2 DEF ServerOK
  <2> QED BY <1>0, <2>1, <2>2, <2>3 DEF ServerOK
<1>4. CASE BrokerEnds
  <2>1. requests' = {} /\ InHand' = {} /\ UNCHANGED <<replies, accepted>> /\ serving' = None
    BY <1>0, <1>4 DEF BrokerEnds, ServerOK, InHand
  <2> QED BY <1>0, <2>1 DEF ServerOK
<1>5. CASE BrokerStarts
  <2>1. requests = {} /\ InHand = {} /\ UNCHANGED <<requests, replies, serving, added, accepted>>
    BY <1>0, <1>5 DEF BrokerStarts, ServerOK
  <2>2. InHand' = {} /\ serving = None
    BY <2>1 DEF InHand
  <2> QED BY <1>0, <2>1, <2>2 DEF ServerOK
<1>6. ASSUME NEW p \in Processes, Write(p) PROVE ServerOK'
  <2>1. UNCHANGED <<replies, up, life, serving, added, accepted>> /\ InHand' = InHand
    BY <1>6 DEF Write, brokerVars, InHand
  <2>2. requests' = requests \/ (Connected(p) /\ PeerLives(p) /\ requests' = requests \cup {Attempt(p)})
    BY <1>6 DEF Write
  <2>3. CASE requests' = requests
    BY <1>0, <2>1, <2>3 DEF ServerOK
  <2>4. CASE Connected(p) /\ PeerLives(p) /\ requests' = requests \cup {Attempt(p)}
    <3>1. up /\ Attempt(p).life = life /\ Attempt(p).producer = p /\ pc[p] = "write"
      BY <1>6, <2>4 DEF PeerLives, Attempt, Write
    <3>2. Attempt(p) \notin Outstanding
      BY <3>1, NothingOutstanding
    <3> QED BY <1>0, <2>1, <2>4, <3>1, <3>2 DEF ServerOK, Outstanding
  <2> QED BY <2>2, <2>3, <2>4
<1>7. ASSUME NEW p \in Processes, NEW t \in MessageType,
             \/ Send(p, t) \/ SendTo(p, t) \/ Register(p) \/ StartProducer(p) \/ ReadFailed(p)
             \/ GiveUp(p) \/ ProducerDies(p)
      PROVE  ServerOK'
  <2>1. UNCHANGED <<requests, replies, brokerVars>>
    BY <1>7, Begins DEF StartProducer, ReadFailed, GiveUp, ProducerDies
  <2> QED BY <1>0, <2>1 DEF ServerOK, InHand, brokerVars
<1>8. ASSUME NEW p \in Processes, ReadAck(p) PROVE ServerOK'
  <2>1. UNCHANGED <<requests, brokerVars>> /\ replies' \subseteq replies
    BY <1>8 DEF ReadAck
  <2> QED BY <1>0, <2>1 DEF ServerOK, InHand, brokerVars
<1>9. CASE UNCHANGED vars
  BY <1>0, <1>9 DEF ServerOK, InHand, vars, brokerVars
<1>10. "ONE_WAY" \in MessageType
  BY DEF MessageType
<1> QED BY <1>1, <1>2, <1>3, <1>4, <1>5, <1>6, <1>7, <1>8, <1>9, <1>10, Actions

LEMMA OutstandingStep ==
  ASSUME ProducerAssumption, Inv, [Next]_vars
  PROVE  OutstandingOK'
<1>0. OutstandingOK /\ TypeOK
  BY DEF Inv
<1>t. \A r \in Outstanding : r.producer \in Processes
  BY WrittenTypes DEF Written
<1>1. CASE UNCHANGED <<pc, conns, sendVars>> /\ Outstanding' \subseteq Outstanding
  BY <1>0, <1>1 DEF OutstandingOK, Current, Connected, Connection, sendVars
<1>2. CASE TakeRequest \/ AddToBroker \/ Reply \/ BrokerEnds \/ BrokerStarts
  <2>1. UNCHANGED <<pc, conns, sendVars>>
    BY <1>2 DEF TakeRequest, AddToBroker, Reply, BrokerEnds, BrokerStarts
  <2>2. Outstanding' \subseteq Outstanding
    BY <1>2 DEF TakeRequest, AddToBroker, Reply, BrokerEnds, BrokerStarts, Outstanding, InHand
  <2> QED BY <1>1, <2>1, <2>2
<1>3. ASSUME NEW p \in Processes, StartProducer(p) \/ GiveUp(p) PROVE OutstandingOK'
  <2>1. /\ pc[p] \in {"off", "write"} /\ Outstanding' = Outstanding
        /\ \A q \in Processes : q # p => pc'[q] = pc[q] /\ conns'[q] = conns[q]
        /\ UNCHANGED <<client, num, type>>
    BY <1>0, <1>3
       DEF StartProducer, GiveUp, Connect, Outstanding, InHand, sendVars, brokerVars, TypeOK
  <2>2. \A r \in Outstanding : r.producer # p
    BY <2>1, NothingOutstanding
  <2> QED BY <1>0, <1>t, <2>1, <2>2 DEF OutstandingOK, Current, Connected, Connection
<1>4. ASSUME NEW p \in Processes, Write(p) PROVE OutstandingOK'
  <2>1. /\ pc[p] = "write" /\ UNCHANGED <<client, num, type>>
        /\ \A q \in Processes : q # p => pc'[q] = pc[q]
        /\ pc'[p] = "killed" \/ pc'[p] = "read"
        /\ InHand' = InHand /\ replies' = replies
    BY <1>0, <1>4 DEF Write, TypeOK, sendVars, brokerVars, InHand
  <2>2. \A r \in Outstanding : r.producer # p
    BY <2>1, NothingOutstanding
  <2>3. \A q \in Processes : q # p => conns'[q] = conns[q]
    BY <1>0, <1>4 DEF Write, Breaks, TypeOK
  <2>4. ASSUME NEW r \in Outstanding PROVE pc'[r.producer] = "killed" \/ (pc'[r.producer] = "read" /\ Current(r)')
    BY <1>0, <1>t, <2>1, <2>2, <2>3 DEF OutstandingOK, Current, Connected, Connection
  <2>5. CASE requests' = requests
    BY <2>1, <2>4, <2>5 DEF OutstandingOK, Outstanding
  <2>6. CASE requests' # requests
    <3>1. PICK a : a = Attempt(p)
      OBVIOUS
    <3>2. /\ requests' = requests \cup {a} /\ UNCHANGED conns /\ pc'[p] = "read"
          /\ Connected(p)
      BY <1>0, <1>4, <2>6, <3>1 DEF Write, TypeOK
    <3>3. Current(a) /\ a.producer = p
      BY <3>1, <3>2 DEF Current, Attempt
    <3>4. Current(a)'
      BY <2>1, <3>2, <3>3 DEF Current, Connected, Connection
    <3>5. \A r \in Outstanding' : r \in Outstanding \/ r = a
      BY <2>1, <3>2 DEF Outstanding
    <3> QED BY <2>4, <3>2, <3>3, <3>4, <3>5 DEF OutstandingOK
  <2> QED BY <2>5, <2>6
<1>5. ASSUME NEW p \in Processes, ReadFailed(p) PROVE OutstandingOK'
  <2>1. \A r \in Outstanding : r.producer # p
    BY <1>5, FailedHasNone
  <2>2. /\ \A q \in Processes : q # p => pc'[q] = pc[q] /\ conns'[q] = conns[q]
        /\ UNCHANGED <<client, num, type>> /\ Outstanding' = Outstanding
    BY <1>0, <1>5 DEF ReadFailed, Breaks, TypeOK, brokerVars, Outstanding, InHand
  <2> QED BY <1>0, <1>t, <2>1, <2>2 DEF OutstandingOK, Current, Connected, Connection
<1>6. ASSUME NEW p \in Processes, ReadAck(p) PROVE OutstandingOK'
  <2>1. PICK r \in replies : r.producer = p /\ replies' = replies \ {r}
    BY <1>6 DEF ReadAck
  <2>2. pc[p] = "read" /\ UNCHANGED <<conns, client, num, type, requests>> /\ InHand' = InHand
        /\ \A q \in Processes : q # p => pc'[q] = pc[q]
    BY <1>0, <1>6 DEF ReadAck, TypeOK, sendVars, brokerVars, InHand
  <2>3. \A q \in Outstanding' : q.producer # p
    BY <2>1, <2>2, AckedHasNone DEF Outstanding
  <2>4. Outstanding' \subseteq Outstanding
    BY <2>1, <2>2 DEF Outstanding
  <2> QED BY <1>0, <1>t, <2>2, <2>3, <2>4 DEF OutstandingOK, Current, Connected, Connection
<1>7. ASSUME NEW p \in Processes, ProducerDies(p) PROVE OutstandingOK'
  <2>1. /\ UNCHANGED <<conns, client, num, type>> /\ Outstanding' = Outstanding
        /\ \A q \in Processes : pc'[q] = pc[q] \/ pc'[q] = "killed"
    BY <1>0, <1>7 DEF ProducerDies, TypeOK, sendVars, brokerVars, Outstanding, InHand
  <2> QED BY <1>0, <1>t, <2>1 DEF OutstandingOK, Current, Connected, Connection
<1>8. ASSUME NEW p \in Processes, NEW t \in MessageType, Send(p, t) \/ SendTo(p, t) \/ Register(p)
      PROVE  OutstandingOK'
  <2>1. /\ pc[p] = "idle" /\ Outstanding' = Outstanding
        /\ \A q \in Processes : q # p =>
             /\ conns'[q] = conns[q] /\ client'[q] = client[q] /\ type'[q] = type[q]
             /\ pc'[q] = pc[q] /\ num'[q] = num[q]
    BY <1>0, <1>8, Begins DEF TypeOK, brokerVars, Outstanding, InHand
  <2>2. \A r \in Outstanding : r.producer # p
    BY <2>1, NothingOutstanding
  <2> QED BY <1>0, <1>t, <2>1, <2>2 DEF OutstandingOK, Current, Connected, Connection
<1>9. CASE UNCHANGED vars
  BY <1>1, <1>9 DEF vars, sendVars, brokerVars, Outstanding, InHand
<1>10. "ONE_WAY" \in MessageType
  BY DEF MessageType
<1> QED BY <1>2, <1>3, <1>4, <1>5, <1>6, <1>7, <1>8, <1>9, <1>10, Actions

LEMMA WrittenStep ==
  ASSUME ProducerAssumption, Inv, [Next]_vars
  PROVE  WrittenOK'
<1>0. WrittenOK /\ TypeOK /\ ConnectionsOK
  BY DEF Inv
<1>t. \A r \in Written : r.producer \in Processes /\ r.num \in Nat /\ r.life \in Nat
  BY WrittenTypes
<1>1. CASE UNCHANGED <<pc, conns, sendVars, up, life>> /\ Written' \subseteq Written
  BY <1>0, <1>1 DEF WrittenOK, Current, Connected, Connection, PeerLives, sendVars
<1>2. CASE TakeRequest \/ AddToBroker \/ Reply
  <2>1. UNCHANGED <<pc, conns, sendVars, up, life>>
    BY <1>2 DEF TakeRequest, AddToBroker, Reply
  <2>2. Written' \subseteq Written
    BY <1>2 DEF TakeRequest, AddToBroker, Reply, Written, Outstanding, InHand
  <2> QED BY <1>1, <2>1, <2>2
<1>3. CASE BrokerEnds \/ BrokerStarts
  <2>1. UNCHANGED <<pc, conns, client, num, type>>
    BY <1>3 DEF BrokerEnds, BrokerStarts, sendVars
  <2>2. Written' \subseteq Written
    BY <1>3 DEF BrokerEnds, BrokerStarts, Written, Outstanding, InHand
  <2>3. ~up' \/ (life' = life + 1 /\ life \in Nat)
    BY <1>0, <1>3 DEF BrokerEnds, BrokerStarts, TypeOK
  <2>4. \A p \in Processes : Connected(p) => ~PeerLives(p)'
    BY <2>1, <2>3, ConnectionTypes DEF PeerLives, Connection
  <2>5. \A r : Current(r)' <=> Current(r)
    BY <2>1 DEF Current, Connected, Connection
  <2> QED BY <1>0, <1>t, <2>1, <2>2, <2>4, <2>5 DEF WrittenOK, Current
<1>4. ASSUME NEW p \in Processes, StartProducer(p) \/ ReadAck(p) \/ GiveUp(p) \/ ProducerDies(p)
      PROVE  WrittenOK'
  <2>1. /\ UNCHANGED <<client, num, type, up, life>> /\ Written' \subseteq Written
        /\ pc'[p] \in {"idle", "killed"}
        /\ \A q \in Processes : q # p => pc'[q] = pc[q] /\ conns'[q] = conns[q]
    BY <1>0, <1>4 DEF StartProducer, ReadAck, GiveUp, ProducerDies, Connect, TypeOK, sendVars,
                      brokerVars, Written, Outstanding, InHand
  <2> QED BY <1>0, <1>t, <2>1 DEF WrittenOK, Current, Connected, Connection, PeerLives
<1>5. ASSUME NEW p \in Processes, Write(p) PROVE WrittenOK'
  <2>1. /\ pc[p] = "write" /\ UNCHANGED <<client, num, type, up, life>>
        /\ \A q \in Processes : q # p => pc'[q] = pc[q]
        /\ pc'[p] = "killed" \/ pc'[p] = "read"
        /\ InHand' = InHand /\ UNCHANGED <<replies, accepted>>
    BY <1>0, <1>5 DEF Write, TypeOK, sendVars, brokerVars, InHand
  <2>2. UNCHANGED conns \/ (Connected(p) /\ \E s \in {"open", "dead"} : Breaks(p, s))
    BY <1>5 DEF Write
  <2>3. \A q \in Processes :
          /\ DOMAIN conns'[q] = DOMAIN conns[q]
          /\ \A k \in DOMAIN conns[q] : conns'[q][k].life = conns[q][k].life
    BY <2>2, BreaksKeeps
  <2>4. \A r \in Written : Current(r) => Current(r)'
    BY <1>t, <2>1, <2>3 DEF Current, Connected, Connection
  <2>5. \A r \in Written : Current(r) => (PeerLives(r.producer)' <=> PeerLives(r.producer))
    BY <1>t, <2>1, <2>3 DEF Current, Connected, Connection, PeerLives
  <2>6. CASE requests' = requests
    <3>1. Written' = Written
      BY <2>1, <2>6 DEF Written, Outstanding
    <3> QED BY <1>0, <1>t, <2>1, <2>4, <2>5, <3>1 DEF WrittenOK
  <2>7. CASE requests' # requests
    <3>1. PICK a : a = Attempt(p)
      OBVIOUS
    <3>2. /\ requests' = requests \cup {a} /\ UNCHANGED conns /\ pc'[p] = "read"
          /\ Connected(p) /\ PeerLives(p)
      BY <1>0, <1>5, <2>7, <3>1 DEF Write, TypeOK
    <3>3. a.producer = p /\ a.num = num[p] /\ Current(a)
      BY <3>1, <3>2 DEF Current, Attempt
    <3>4. Current(a)'
      BY <2>1, <3>2, <3>3 DEF Current, Connected, Connection
    <3>5. Written' = Written \cup {a}
      BY <2>1, <3>2 DEF Written, Outstanding
    <3>6. \A r \in Written : r.producer = p => r.num # num[p]
      BY <1>0, <2>1, <3>2 DEF WrittenOK
    <3>7. num[p] <= num[p]
      BY <1>0 DEF TypeOK
    <3> QED BY <1>0, <1>t, <2>1, <2>4, <2>5, <3>2, <3>3, <3>4, <3>5, <3>6, <3>7 DEF WrittenOK
  <2> QED BY <2>6, <2>7
<1>6. ASSUME NEW p \in Processes, ReadFailed(p) PROVE WrittenOK'
  <2>1. /\ pc[p] = "read" /\ UNCHANGED <<client, num, type, up, life>> /\ Written' = Written
        /\ \A q \in Processes : q # p => pc'[q] = pc[q]
    BY <1>0, <1>6 DEF ReadFailed, TypeOK, brokerVars, Written, Outstanding, InHand
  <2>2. Connected(p) => Connection(p).state \in {"open", "dead"}
    BY ConnectionTypes DEF Connections
  <2>3. UNCHANGED conns \/ (Connected(p) /\ \E s \in {"open", "dead"} : Breaks(p, s))
    BY <1>6, <2>2 DEF ReadFailed
  <2>4. \A q \in Processes :
          /\ DOMAIN conns'[q] = DOMAIN conns[q]
          /\ \A k \in DOMAIN conns[q] : conns'[q][k].life = conns[q][k].life
    BY <2>3, BreaksKeeps
  <2>5. \A r \in Written : Current(r) => Current(r)'
    BY <1>t, <2>1, <2>4 DEF Current, Connected, Connection
  <2>6. \A r \in Written : Current(r) => (PeerLives(r.producer)' <=> PeerLives(r.producer))
    BY <1>t, <2>1, <2>4 DEF Current, Connected, Connection, PeerLives
  <2>7. Connected(p) => ~PeerLives(p)
    BY <1>6 DEF ReadFailed
  <2>8. \A r \in Written : Current(r) => Connected(r.producer)
    BY DEF Current
  <2> QED BY <1>0, <1>t, <2>1, <2>5, <2>6, <2>7, <2>8 DEF WrittenOK
<1>7. ASSUME NEW p \in Processes, NEW t \in MessageType, Send(p, t) \/ SendTo(p, t) \/ Register(p)
      PROVE  WrittenOK'
  <2>1. /\ Written' = Written /\ UNCHANGED <<up, life>>
        /\ \A q \in Processes : q # p =>
             /\ conns'[q] = conns[q] /\ client'[q] = client[q] /\ type'[q] = type[q]
             /\ pc'[q] = pc[q] /\ num'[q] = num[q]
        /\ num'[p] = num[p] + 1 /\ num[p] \in Nat
    BY <1>0, <1>7, Begins DEF TypeOK, brokerVars, Written, Outstanding, InHand
  <2>2. \A r \in Written : r.num <= num'[r.producer] /\ (r.producer = p => r.num # num'[p])
    BY <1>0, <1>t, <2>1 DEF WrittenOK
  <2> QED BY <1>0, <1>t, <2>1, <2>2 DEF WrittenOK, Current, Connected, Connection, PeerLives
<1>8. CASE UNCHANGED vars
  BY <1>1, <1>8 DEF vars, brokerVars, Written, Outstanding, InHand
<1>9. "ONE_WAY" \in MessageType
  BY DEF MessageType
<1> QED BY <1>2, <1>3, <1>4, <1>5, <1>6, <1>7, <1>8, <1>9, Actions

LEMMA AckedStep ==
  ASSUME ProducerAssumption, Inv, [Next]_vars
  PROVE  AckMeansAccepted'
<1>0. AckMeansAccepted
  BY DEF Inv
<1>1. ASSUME NEW p \in Processes, ReadAck(p) PROVE AckMeansAccepted'
  <2>1. PICK r \in replies : r.producer = p
    BY <1>1 DEF ReadAck
  <2>2. r.num = num[p] /\ r \in accepted
    BY <1>1, <2>1, AckedHasNone DEF ReadAck, Current, Inv, ServerOK
  <2>3. acked' = acked \cup {<<p, num[p]>>} /\ UNCHANGED accepted
    BY <1>1 DEF ReadAck, brokerVars
  <2> QED BY <1>0, <2>1, <2>2, <2>3 DEF AckMeansAccepted
<1>2. (\E p \in Processes : ReadAck(p)) \/ (acked' = acked /\ accepted \subseteq accepted')
  BY Actions, Begins
     DEF TakeRequest, AddToBroker, Reply, BrokerEnds, BrokerStarts, StartProducer, Write, ReadFailed,
         GiveUp, ProducerDies, Send, SendTo, Register, BeginSend, vars, brokerVars
<1>3. CASE acked' = acked /\ accepted \subseteq accepted'
  BY <1>0, <1>3 DEF AckMeansAccepted
<1> QED BY <1>1, <1>2, <1>3

LEMMA InvStep ==
  ASSUME ProducerAssumption, Inv, [Next]_vars PROVE Inv'
BY TypesStep, ServerStep, OutstandingStep, WrittenStep, AckedStep DEF Inv

LEMMA Invariance == Spec => []Inv
BY InvInit, InvStep, ProducerAssumption, PTL DEF Spec

-----------------------------------------------------------------------------
(* Types; no Send makes more attempts than reTry_Time, no Register a second. *)
THEOREM ProducerTypes == Spec => []TypeOK
BY Invariance, PTL DEF Inv

(* An ack that Send has read is an ack of the message it was sending, and   *)
(* that message is in a queue (Producer::Send, SyncSend).                   *)
THEOREM AcksMeanAccepted == Spec => []AckMeansAccepted
BY Invariance, PTL DEF Inv

(* A message that Send repeats is not taken twice (Producer::Send's loop).  *)
THEOREM NoSecondCopy == Spec => []AtMostOneCopy
<1>1. Inv => AtMostOneCopy
  BY DEF Inv, WrittenOK, Written, AtMostOneCopy
<1> QED BY <1>1, Invariance, PTL

(* Send does not come back with a ONE_WAY message from a broker that runs   *)
(* (receive() after Write in SyncSend).                                     *)
THEOREM OneWaySendWaits == Spec => OneWayWaits
<1>1. ASSUME Inv, [Next]_vars, NEW p \in Processes,
             pc[p] = "read", type[p] = "ONE_WAY", Connected(p), PeerLives(p)
      PROVE  pc'[p] \in {"read", "killed"}
  <2>0. pc \in [Processes -> {"off", "idle", "write", "read", "killed"}]
    BY <1>1 DEF Inv, TypeOK
  <2>1. ~ReadAck(p)
    <3> SUFFICES ASSUME ReadAck(p) PROVE FALSE
      OBVIOUS
    <3>1. PICK r \in replies : r.producer = p
      BY DEF ReadAck
    <3>2. r.type = "ONE_WAY"
      BY <1>1, <3>1, AckedHasNone, ProducerAssumption DEF Current
    <3> QED BY <1>1, <3>2 DEF Inv, ServerOK
  <2>2. ~ReadFailed(p)
    BY <1>1 DEF ReadFailed
  <2>3. \A q \in Processes, t \in MessageType : Send(q, t) \/ SendTo(q, t) \/ Register(q) =>
          q # p /\ pc'[p] = pc[p]
    BY <1>1, <2>0 DEF Send, SendTo, Register, BeginSend
  <2>4. \A q \in Processes : q # p /\ (ReadAck(q) \/ ReadFailed(q)) => pc'[p] = pc[p]
    BY <2>0 DEF ReadAck, ReadFailed
  <2>5. \A q \in Processes : StartProducer(q) \/ Write(q) \/ GiveUp(q) => q # p /\ pc'[p] = pc[p]
    BY <1>1, <2>0 DEF StartProducer, Write, GiveUp
  <2>6. \A q \in Processes : ProducerDies(q) => pc'[p] \in {pc[p], "killed"}
    BY <2>0 DEF ProducerDies
  <2>7. TakeRequest \/ AddToBroker \/ Reply \/ BrokerEnds \/ BrokerStarts \/ UNCHANGED vars
          => pc' = pc
    BY DEF TakeRequest, AddToBroker, Reply, BrokerEnds, BrokerStarts, vars
  <2>8. "ONE_WAY" \in MessageType
    BY DEF MessageType
  <2> QED BY <1>1, <2>1, <2>2, <2>3, <2>4, <2>5, <2>6, <2>7, <2>8, Actions
<1>2. Inv /\ [Next]_vars =>
        [\A p \in Processes :
           pc[p] = "read" /\ type[p] = "ONE_WAY" /\ Connected(p) /\ PeerLives(p)
             => pc'[p] \in {"read", "killed"}]_vars
  BY <1>1
<1> QED BY <1>2, Invariance, PTL DEF Spec, OneWayWaits
=============================================================================
