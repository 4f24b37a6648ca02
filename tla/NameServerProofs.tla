-------------------------- MODULE NameServerProofs --------------------------
(***************************************************************************)
(* Proofs about NameServer together with its standbys, for any number of   *)
(* brokers, slaves, producers, descriptors and messages.  The invariant    *)
(* rests on that of SlaveSyncProofs, which a message at a standby, a       *)
(* request without a broker, does not disturb.                             *)
(***************************************************************************)
EXTENDS NameServer, SlaveSyncProofs, WellFoundedInduction

Asking == serverPc \in {"ask", "read"}

(* Standbys are asked, and their sockets opened, only when the poll has    *)
(* gone through all brokers and forgotten their descriptors.               *)
MapsOK ==
  /\ \A b \in Brokers : heard[b] = "never" => BrokerClients[b] = None
  /\ Asking => \A b \in Brokers : BrokerClients[b] = None
  /\ NoStandbyForBroker

(* When a message has been passed on nothing happens any more.             *)
ForwardOK == forwarded # {} => serverPc = "exited"

(* Messages have their numbers from the counter.                           *)
NumsOK ==
  /\ messages \in Nat
  /\ \A m \in failed : m.num <= messages
  /\ msg # None => msg.num <= messages
  /\ \A m \in forwarded : m \notin failed

(* A message waits at a standby only while its answer is waited for.       *)
StandbyOK ==
  /\ serverPc = "read" => asking # {}
  /\ \A r \in requests : r.content = None =>
       serverPc = "read" /\ r.to = asked.to /\ r.life = asked.life

NSInv == SyncInv /\ NSTypeOK /\ MapsOK /\ ForwardOK /\ NumsOK /\ StandbyOK

-----------------------------------------------------------------------------
LEMMA LeastIn ==
  ASSUME NEW S \in SUBSET Nat, S # {} PROVE Least(S) \in S
<1> DEFINE R == OpToRel(<, Nat)
<1>1. IsWellFoundedOn(R, Nat)
  BY NatLessThanWellFounded
<1>2. \A x, y \in Nat : x < y => <<x, y>> \in R
  BY DEF OpToRel
<1> HIDE DEF R
<1>3. PICK n \in S : \A k \in S : ~(<<k, n>> \in R)
  BY <1>1, WFMin
<1>4. \A k \in S : ~(k < n)
  BY <1>2, <1>3
<1>5. n \in Nat /\ S \subseteq Nat
  OBVIOUS
<1>6. \A k \in S : n <= k
  BY <1>4, <1>5
<1> QED BY <1>6 DEF Least

LEMMA NSInvInit ==
  ASSUME SyncAssumption, NameServerAssumption, NSInit PROVE NSInv
<1>1. SyncInv
  BY SyncInvInit DEF NSInit
<1>2. NSTypeOK
  BY DEF NSInit, NSTypeOK, Known, NameServerAssumption
<1>3. MapsOK
  BY DEF NSInit, MapsOK, Asking, NoStandbyForBroker, Peer, Fds, NameServerAssumption
<1>4. ForwardOK /\ NumsOK /\ StandbyOK
  BY DEF NSInit, SyncInit, ForwardOK, NumsOK, StandbyOK
<1> QED BY <1>1, <1>2, <1>3, <1>4 DEF NSInv

LEMMA NSActions ==
  ASSUME [NSNext]_allVars
  PROVE  \/ [SyncNext]_syncVars /\ UNCHANGED nsVars
         \/ AskStandby \/ StandbyFails \/ ReplyFailed \/ Misreads \/ MapsRace
         \/ \E c \in Clients : Forward(c) \/ TurnToStandbys(c)
         \/ \E e \in Brokers \cup Clients : Accept(e)
         \/ \E f \in Fds : HangUp(f) \/ CloseFd(f)
         \/ \E f \in Fds, s \in Slaves : HeartBeat(f, s)
         \/ \E b \in Brokers : GoesSilent(b) \/ CheckErases(b)
BY DEF NSNext, StandbySteps, allVars

(* The standby that is asked next. *)
LEMMA AskedSlave ==
  ASSUME NameServerAssumption, NSTypeOK, asking # {}
  PROVE  Least(asking) \in asking /\ Broker_Slave[Least(asking)] \in Slaves
<1>1. asking \in SUBSET Nat
  BY DEF NSTypeOK, Known, NameServerAssumption
<1>2. Least(asking) \in asking
  BY <1>1, LeastIn
<1> QED BY <1>2 DEF NSTypeOK, Known

(* The broker that the poll stops at. *)
LEMMA LiveBroker ==
  ASSUME NameServerAssumption, Live # {}
  PROVE  Least(Live) \in Brokers
<1>1. Live \in SUBSET Nat
  BY DEF Live, NameServerAssumption
<1> QED BY <1>1, LeastIn DEF Live

LEMMA SyncKept ==
  ASSUME SyncAssumption, NameServerAssumption, NSInv, [NSNext]_allVars
  PROVE  SyncInv'
<1>1. ASSUME AskStandby PROVE SyncInv'
  <2> DEFINE s == Broker_Slave[Least(asking)]
             n == [to |-> s, life |-> slaveLife[s], content |-> None, try |-> 0]
  <2>1. s \in Slaves /\ UNCHANGED <<brokerVars, slaveVars>>
    BY <1>1, AskedSlave DEF AskStandby, NSInv
  <2>2. requests' = requests \/ (requests' = requests \cup {n} /\ Listens(s))
    BY <1>1 DEF AskStandby
  <2>3. n \in Requests
    BY <2>1 DEF Requests, NSInv, SyncInv, SyncTypeOK
  <2>4. SyncTypeOK'
    BY <2>1, <2>2, <2>3 DEF NSInv, SyncInv, SyncTypeOK, brokerVars, threadVars, slaveVars
  <2>5. \A r \in requests' : r \in requests \/ r = n
    BY <2>2
  <2>6. ThreadOK'
    BY <2>1, <2>5 DEF NSInv, SyncInv, ThreadOK, brokerVars, threadVars
  <2>7. LivesOK'
    BY <2>1, <2>2, <2>5 DEF NSInv, SyncInv, LivesOK, Listens, brokerVars, threadVars, slaveVars
  <2>8. \A t \in Slaves : Sent(t)' = Sent(t) /\ Answers(t)' = Answers(t)
    BY <2>1, <2>2 DEF Sent, Answers, slaveVars
  <2>9. \A t \in Slaves : \A r : Latest(t, r)' <=> Latest(t, r)
    BY <2>1 DEF Latest, brokerVars, threadVars, slaveVars
  <2>10. UNCHANGED <<held, snapshot, inHand, content>>
    BY <2>1 DEF brokerVars, threadVars, slaveVars
  <2>11. OutstandingOK'
    BY <2>8, <2>9, <2>10 DEF NSInv, SyncInv, OutstandingOK
  <2> QED BY <2>4, <2>6, <2>7, <2>10, <2>11 DEF NSInv, SyncInv, AgesOK
<1>2. AskStandby \/ [SyncNext]_syncVars
  BY NSActions DEF StandbyFails, ReplyFailed, Misreads, MapsRace, Forward, TurnToStandbys, Accept,
                   HangUp, CloseFd, HeartBeat, GoesSilent, CheckErases
<1> QED BY <1>1, <1>2, SyncInvStep DEF NSInv

-----------------------------------------------------------------------------
LEMMA NSTypesStep ==
  ASSUME SyncAssumption, NameServerAssumption, NSInv, [NSNext]_allVars
  PROVE  NSTypeOK'
<1>0. NSTypeOK /\ StandbyOK /\ messages \in Nat
  BY DEF NSInv, NumsOK
<1>1. CASE UNCHANGED nsVars
  BY <1>0, <1>1 DEF NSTypeOK, Known, nsVars, mapVars
<1>2. CASE AskStandby
  <2> DEFINE s == Broker_Slave[Least(asking)]
  <2>1. asking # {} /\ s \in Slaves
    BY <1>0, <1>2, AskedSlave DEF AskStandby
  <2>3. Opened(s) \in [Fds -> Sockets \cup {None}]
    BY <1>0, <2>1 DEF Opened, Sockets, NSTypeOK
  <2>4. fds' \in [Fds -> Sockets \cup {None}]
    BY <1>0, <1>2, <2>3 DEF AskStandby, NSTypeOK
  <2>2. /\ asking' \subseteq asking
        /\ serverPc' \in {"ask", "read"}
        /\ serverPc' = "read" => asked'.to = s /\ asking' = asking
        /\ UNCHANGED <<heard, BrokerClients, Broker_Slave, msg, forwarded, failed>>
        /\ serverPc = "ask"
    BY <1>2 DEF AskStandby, mapVars
  <2> QED BY <1>0, <2>2, <2>4 DEF NSTypeOK, Known
<1>3. CASE StandbyFails \/ ReplyFailed \/ Misreads \/ MapsRace
  BY <1>0, <1>3 DEF StandbyFails, ReplyFailed, Misreads, MapsRace, NSTypeOK, Known, mapVars
<1>4. ASSUME NEW c \in Clients, Forward(c) PROVE NSTypeOK'
  <2>1. Live # {} /\ Least(Live) \in Brokers
    BY <1>4, LiveBroker DEF Forward
  <2>2. ForwardFd \in Fds \cup {Stdin, None} /\ Polled \in [Brokers -> Fds \cup {Stdin, None}]
    BY <1>0, <2>1 DEF ForwardFd, Polled, NSTypeOK
  <2>3. BrokerClients' \in [Brokers -> Fds \cup {Stdin, None}]
    BY <1>4, <2>2 DEF Forward
  <2>4. NextMessage(c) \in Received
    BY <1>0 DEF NextMessage, Received
  <2>6. forwarded' \subseteq Received
    BY <1>0, <1>4, <2>4 DEF Forward, NSTypeOK
  <2>7. serverPc' = "exited" /\ serverPc = "wait"
        /\ UNCHANGED <<heard, Broker_Slave, fds, msg, asking, asked, failed>>
    BY <1>4 DEF Forward, AfterForward
  <2> QED BY <1>0, <2>3, <2>6, <2>7 DEF NSTypeOK, Known
<1>5. ASSUME NEW c \in Clients, TurnToStandbys(c) PROVE NSTypeOK'
  <2>1. NextMessage(c) \in Received /\ NextMessage(c) # None
    BY <1>0 DEF NextMessage, Received, NameServerAssumption
  <2>2. Polled \in [Brokers -> Fds \cup {Stdin, None}]
    BY <1>0 DEF Polled, NSTypeOK
  <2>3. /\ BrokerClients' = Polled /\ msg' = NextMessage(c) /\ asking' = Known
        /\ serverPc' = "ask" /\ serverPc = "wait"
        /\ UNCHANGED <<heard, Broker_Slave, fds, asked, forwarded, failed>>
    BY <1>5 DEF TurnToStandbys
  <2> QED BY <1>0, <2>1, <2>2, <2>3 DEF NSTypeOK, Known
<1>6. ASSUME NEW e \in Brokers \cup Clients, Accept(e) PROVE NSTypeOK'
  <2>1. fds' \in [Fds -> Sockets \cup {None}]
    BY <1>0, <1>6 DEF Accept, Opened, Sockets, NSTypeOK
  <2> QED BY <1>0, <1>6, <2>1 DEF Accept, NSTypeOK, Known, mapVars
<1>7. ASSUME NEW f \in Fds, HangUp(f) \/ CloseFd(f) PROVE NSTypeOK'
  <2>2. fds[f] \in Sockets
    BY <1>0, <1>7 DEF HangUp, CloseFd, IsOpen, Peer, NSTypeOK
  <2>3. fds' = [fds EXCEPT ![f].open = FALSE] \/ fds' = [fds EXCEPT ![f] = None]
    BY <1>7 DEF HangUp, CloseFd
  <2>4. [fds[f] EXCEPT !.open = FALSE] \in Sockets
    BY <2>2 DEF Sockets
  <2>1. fds' \in [Fds -> Sockets \cup {None}]
    BY <1>0, <2>3, <2>4 DEF NSTypeOK
  <2> QED BY <1>0, <1>7, <2>1 DEF HangUp, CloseFd, NSTypeOK, Known, mapVars
<1>8. ASSUME NEW f \in Fds, NEW s \in Slaves, HeartBeat(f, s) PROVE NSTypeOK'
  <2>1. s # None
    BY DEF NameServerAssumption
  <2>2. /\ heard' \in [Brokers -> {"never", "recently", "silent"}]
        /\ BrokerClients' \in [Brokers -> Fds \cup {Stdin, None}]
        /\ Broker_Slave' \in [Brokers -> Slaves \cup {None}]
    BY <1>0, <1>8 DEF HeartBeat, Reported, NSTypeOK
  <2>3. \A b \in Brokers : heard'[b] # "never" => Broker_Slave'[b] # None
    BY <1>0, <1>8, <2>1 DEF HeartBeat, Reported, NSTypeOK, Known
  <2>4. \A b \in Brokers : heard[b] # "never" => heard'[b] # "never"
    BY <1>0, <1>8 DEF HeartBeat, NSTypeOK
  <2> QED BY <1>0, <1>8, <2>2, <2>3, <2>4 DEF HeartBeat, NSTypeOK, Known
<1>9. ASSUME NEW b \in Brokers, GoesSilent(b) \/ CheckErases(b) PROVE NSTypeOK'
  <2>1. /\ heard' \in [Brokers -> {"never", "recently", "silent"}]
        /\ BrokerClients' \in [Brokers -> Fds \cup {Stdin, None}]
    BY <1>0, <1>9 DEF GoesSilent, CheckErases, NSTypeOK
  <2>2. \A a \in Brokers : heard'[a] # "never" <=> heard[a] # "never"
    BY <1>0, <1>9 DEF GoesSilent, CheckErases, NSTypeOK
  <2>3. UNCHANGED <<serverPc, Broker_Slave, fds, msg, asking, asked, forwarded, failed>>
    BY <1>9 DEF GoesSilent, CheckErases
  <2> QED BY <1>0, <2>1, <2>2, <2>3 DEF NSTypeOK, Known
<1> QED BY <1>1, <1>2, <1>3, <1>4, <1>5, <1>6, <1>7, <1>8, <1>9, NSActions

LEMMA MapsStep ==
  ASSUME SyncAssumption, NameServerAssumption, NSInv, [NSNext]_allVars
  PROVE  MapsOK'
<1>0. NSTypeOK /\ MapsOK
  BY DEF NSInv
<1>n. None \notin Fds /\ Stdin \notin Fds /\ None \notin Slaves
  BY DEF Fds, Stdin, NameServerAssumption
<1>1. CASE UNCHANGED nsVars
  BY <1>0, <1>1 DEF MapsOK, Asking, NoStandbyForBroker, Peer, nsVars, mapVars
<1>2. CASE AskStandby
  <2>1. /\ \A b \in Brokers : BrokerClients[b] = None
        /\ UNCHANGED <<heard, BrokerClients>>
    BY <1>0, <1>2 DEF AskStandby, MapsOK, Asking, mapVars
  <2>2. NoStandbyForBroker'
    BY <1>n, <2>1 DEF NoStandbyForBroker, Peer
  <2> QED BY <1>0, <2>1, <2>2 DEF MapsOK
<1>3. CASE StandbyFails \/ ReplyFailed \/ Misreads \/ MapsRace
  <2>1. UNCHANGED <<heard, BrokerClients, fds>> /\ (Asking' => Asking)
    BY <1>3 DEF StandbyFails, ReplyFailed, Misreads, MapsRace, Asking, mapVars
  <2> QED BY <1>0, <2>1 DEF MapsOK, NoStandbyForBroker, Peer
<1>4. ASSUME NEW c \in Clients, Forward(c) PROVE MapsOK'
  <2>1. Live # {} /\ Least(Live) \in Brokers /\ Least(Live) \in Live
    BY <1>4, LiveBroker, LeastIn DEF Forward, Live, NameServerAssumption
  <2>2. /\ BrokerClients' = [Polled EXCEPT ![Least(Live)] = ForwardFd]
        /\ UNCHANGED <<heard, fds>> /\ ~Asking'
    BY <1>4 DEF Forward, AfterForward, Asking
  <2>3. ASSUME NEW b \in Brokers
        PROVE  BrokerClients'[b] \in {BrokerClients[b], None}
               \/ (BrokerClients'[b] = Stdin /\ heard[b] # "never")
    BY <2>1, <2>2 DEF Polled, ForwardFd, Live
  <2>4. NoStandbyForBroker'
    BY <1>0, <1>n, <2>2, <2>3 DEF MapsOK, NoStandbyForBroker, Peer
  <2>5. \A b \in Brokers : heard'[b] = "never" => BrokerClients'[b] = None
    BY <1>0, <2>2, <2>3 DEF MapsOK
  <2> QED BY <2>2, <2>4, <2>5 DEF MapsOK
<1>5. ASSUME NEW c \in Clients, TurnToStandbys(c) PROVE MapsOK'
  <2>1. BrokerClients' = Polled /\ Live = {} /\ UNCHANGED <<heard, fds>>
    BY <1>5 DEF TurnToStandbys
  <2>2. \A b \in Brokers : heard[b] \in {"never", "silent"}
    BY <1>0, <2>1 DEF Live, NSTypeOK
  <2>3. \A b \in Brokers : BrokerClients'[b] = None
    BY <1>0, <2>1, <2>2 DEF Polled, Passed, MapsOK
  <2> QED BY <1>n, <2>3 DEF MapsOK, NoStandbyForBroker, Peer
<1>6. ASSUME NEW e \in Brokers \cup Clients, Accept(e) PROVE MapsOK'
  <2>1. /\ fds' = [fds EXCEPT ![Least(Free)] = [peer |-> e, open |-> TRUE]]
        /\ UNCHANGED <<heard, BrokerClients, serverPc>>
    BY <1>6 DEF Accept, Opened, mapVars
  <2>2. e \notin Slaves
    BY DEF NameServerAssumption
  <2>3. \A f \in Fds : fds'[f] = fds[f] \/ fds'[f] = [peer |-> e, open |-> TRUE]
    BY <1>0, <2>1 DEF NSTypeOK
  <2>4. \A f : Peer(f)' \in {Peer(f), e, None}
    BY <2>3 DEF Peer
  <2>5. NoStandbyForBroker'
    BY <1>0, <1>n, <2>1, <2>2, <2>4 DEF MapsOK, NoStandbyForBroker
  <2> QED BY <1>0, <2>1, <2>5 DEF MapsOK, Asking
<1>7. ASSUME NEW g \in Fds, HangUp(g) \/ CloseFd(g) PROVE MapsOK'
  <2>1. UNCHANGED <<heard, BrokerClients, serverPc>>
    BY <1>7 DEF HangUp, CloseFd, mapVars
  <2>2. fds' = [fds EXCEPT ![g].open = FALSE] \/ fds' = [fds EXCEPT ![g] = None]
    BY <1>7 DEF HangUp, CloseFd
  <2>3. fds[g] # None /\ fds[g] \in Sockets
    BY <1>0, <1>7 DEF HangUp, CloseFd, IsOpen, Peer, NSTypeOK
  <2>4. \A f \in Fds : fds'[f] = None \/ fds'[f] = fds[f]
                       \/ (fds[f] # None /\ fds'[f].peer = fds[f].peer)
    BY <1>0, <2>2, <2>3 DEF NSTypeOK, Sockets
  <2>5. \A f : Peer(f)' \in {Peer(f), None}
    BY <2>4 DEF Peer
  <2>6. NoStandbyForBroker'
    BY <1>0, <1>n, <2>1, <2>5 DEF MapsOK, NoStandbyForBroker
  <2> QED BY <1>0, <2>1, <2>6 DEF MapsOK, Asking
<1>8. ASSUME NEW f \in Fds, NEW s \in Slaves, HeartBeat(f, s) PROVE MapsOK'
  <2>1. /\ Peer(f) \in Brokers /\ UNCHANGED <<fds, serverPc>> /\ serverPc = "wait"
        /\ heard' = [heard EXCEPT ![Peer(f)] = "recently"]
        /\ BrokerClients' = [BrokerClients EXCEPT ![Peer(f)] = f]
    BY <1>8 DEF HeartBeat
  <2>2. Peer(f) \notin Slaves
    BY <2>1 DEF NameServerAssumption
  <2>3. \A b \in Brokers : \/ b = Peer(f) /\ heard'[b] = "recently" /\ BrokerClients'[b] = f
                           \/ heard'[b] = heard[b] /\ BrokerClients'[b] = BrokerClients[b]
    BY <1>0, <2>1 DEF NSTypeOK
  <2>4. \A g : Peer(g)' = Peer(g)
    BY <2>1 DEF Peer
  <2>5. NoStandbyForBroker'
    BY <1>0, <2>2, <2>3, <2>4 DEF MapsOK, NoStandbyForBroker
  <2> QED BY <1>0, <2>1, <2>3, <2>5 DEF MapsOK, Asking
<1>9. ASSUME NEW a \in Brokers, GoesSilent(a) \/ CheckErases(a) PROVE MapsOK'
  <2>1. /\ UNCHANGED <<fds, serverPc>>
        /\ \A b \in Brokers : heard'[b] = heard[b] \/ heard'[b] = "silent"
        /\ \A b \in Brokers : BrokerClients'[b] \in {BrokerClients[b], None}
    BY <1>0, <1>9 DEF GoesSilent, CheckErases, NSTypeOK
  <2>2. Peer(None) = None /\ \A g : Peer(g)' = Peer(g)
    BY <1>n, <2>1 DEF Peer
  <2>3. NoStandbyForBroker'
    BY <1>0, <1>n, <2>1, <2>2 DEF MapsOK, NoStandbyForBroker
  <2> QED BY <1>0, <2>1, <2>3 DEF MapsOK, Asking
<1> QED BY <1>1, <1>2, <1>3, <1>4, <1>5, <1>6, <1>7, <1>8, <1>9, NSActions

LEMMA ForwardStep ==
  ASSUME SyncAssumption, NameServerAssumption, NSInv, [NSNext]_allVars
  PROVE  ForwardOK' /\ NumsOK'
<1>0. NSTypeOK /\ ForwardOK /\ NumsOK
  BY DEF NSInv
<1>1. ASSUME NEW c \in Clients, Forward(c) PROVE ForwardOK' /\ NumsOK'
  <2> DEFINE n == NextMessage(c)
  <2>1. forwarded = {}
    BY <1>0, <1>1 DEF Forward, ForwardOK
  <2>2. /\ messages' = messages + 1 /\ UNCHANGED <<msg, failed>> /\ serverPc' = "exited"
        /\ forwarded' = {} \/ forwarded' = {n}
    BY <1>1, <2>1 DEF Forward, AfterForward
  <2>4. ForwardOK'
    BY <2>2 DEF ForwardOK
  <2>5. n \notin failed /\ n.num = messages + 1
    BY <1>0 DEF NextMessage, NumsOK
  <2>6. \A m \in failed : m.num \in Nat
    BY <1>0 DEF NSTypeOK, Received
  <2>7. msg # None => msg.num \in Nat
    BY <1>0 DEF NSTypeOK, Received
  <2> QED BY <1>0, <2>2, <2>4, <2>5, <2>6, <2>7 DEF NumsOK
<1>2. ASSUME NEW c \in Clients, TurnToStandbys(c) PROVE ForwardOK' /\ NumsOK'
  <2>1. /\ UNCHANGED <<forwarded, failed>> /\ serverPc = "wait"
        /\ messages' = messages + 1 /\ msg' = NextMessage(c)
    BY <1>2 DEF TurnToStandbys
  <2>2. forwarded = {}
    BY <1>0, <2>1 DEF ForwardOK
  <2>3. \A m \in failed : m.num \in Nat
    BY <1>0 DEF NSTypeOK, Received
  <2> QED BY <1>0, <2>1, <2>2, <2>3 DEF ForwardOK, NumsOK, NextMessage
<1>3. CASE ReplyFailed
  <2>1. forwarded = {} /\ msg # None
    BY <1>0, <1>3 DEF ReplyFailed, ForwardOK, NSTypeOK
  <2>2. /\ UNCHANGED <<forwarded, messages>> /\ failed' \subseteq failed \cup {msg}
        /\ msg' = None
    BY <1>3 DEF ReplyFailed
  <2> QED BY <1>0, <2>1, <2>2 DEF ForwardOK, NumsOK
<1>4. CASE UNCHANGED nsVars
  BY <1>0, <1>4 DEF ForwardOK, NumsOK, nsVars
<1>5. CASE \/ AskStandby \/ StandbyFails \/ Misreads \/ MapsRace
           \/ \E e \in Brokers \cup Clients : Accept(e)
           \/ \E f \in Fds : HangUp(f) \/ CloseFd(f)
           \/ \E f \in Fds, s \in Slaves : HeartBeat(f, s)
           \/ \E b \in Brokers : GoesSilent(b) \/ CheckErases(b)
  <2>1. /\ UNCHANGED <<forwarded, failed, messages, msg>>
        /\ serverPc = "exited" => serverPc' = "exited"
    BY <1>5 DEF AskStandby, StandbyFails, Misreads, MapsRace, Accept, HangUp, CloseFd, HeartBeat,
                GoesSilent, CheckErases
  <2> QED BY <1>0, <2>1 DEF ForwardOK, NumsOK
<1> QED BY <1>1, <1>2, <1>3, <1>4, <1>5, NSActions

LEMMA StandbyStep ==
  ASSUME SyncAssumption, NameServerAssumption, NSInv, [NSNext]_allVars
  PROVE  StandbyOK'
<1>0. NSTypeOK /\ StandbyOK /\ SyncInv
  BY DEF NSInv
<1>1. CASE [SyncNext]_syncVars /\ UNCHANGED nsVars
  <2>1. \A r \in requests' : r \in requests \/ r.content = snapshot
    <3>1. SyncWrite \/ requests' \subseteq requests
      BY <1>1, SyncActions
         DEF Change, StartRound, EndRound, SyncAck, SyncFailed, NextSlave, SlaveStarts, SlaveStops,
             SlaveTakesBroker, SlaveAnswers, SlaveMisreads, SetSlave, syncVars
    <3>2. SyncWrite => \A r \in requests' : r \in requests \/ r.content = snapshot
      BY DEF SyncWrite
    <3> QED BY <3>1, <3>2
  <2>2. snapshot # None
    BY <1>0 DEF SyncInv, SyncTypeOK, Contents, NameServerAssumption
  <2> QED BY <1>0, <1>1, <2>1, <2>2 DEF StandbyOK, nsVars
<1>2. CASE AskStandby
  <2>1. \A r \in requests : r.content # None
    BY <1>0, <1>2 DEF AskStandby, StandbyOK
  <2> QED BY <1>2, <2>1 DEF AskStandby, StandbyOK
<1>3. CASE StandbyFails
  <2>1. \A r \in requests : r.content # None
    BY <1>0, <1>3 DEF StandbyFails, NoMoreAnswer, StandbyOK, SyncInv, LivesOK
  <2> QED BY <1>3, <2>1 DEF StandbyFails, StandbyOK, syncVars
<1>4. CASE UNCHANGED <<serverPc, asking, asked>> /\ UNCHANGED syncVars
  BY <1>0, <1>4 DEF StandbyOK, syncVars
<1>5. CASE serverPc # "read" /\ serverPc' # "read" /\ UNCHANGED syncVars
  BY <1>0, <1>5 DEF StandbyOK, syncVars
<1> QED BY <1>1, <1>2, <1>3, <1>4, <1>5, NSActions
       DEF ReplyFailed, Misreads, MapsRace, Forward, TurnToStandbys, AfterForward, Accept, HangUp,
           CloseFd, HeartBeat, GoesSilent, CheckErases

LEMMA NSInvStep ==
  ASSUME SyncAssumption, NameServerAssumption, NSInv, [NSNext]_allVars
  PROVE  NSInv'
BY SyncKept, NSTypesStep, MapsStep, ForwardStep, StandbyStep DEF NSInv

LEMMA NSInvariance == NSSpec => []NSInv
BY NSInvInit, NSInvStep, SyncAssumption, NameServerAssumption, PTL DEF NSSpec

-----------------------------------------------------------------------------
(* Types of the name server's maps, descriptors and messages.              *)
THEOREM NSTypes == NSSpec => []NSTypeOK
BY NSInvariance, PTL DEF NSInv

(* However many brokers there are, a standby's socket is never taken for   *)
(* one of theirs (BrokerClients, Client::init in the standbys' loop).      *)
THEOREM StandbysAreNoBrokers == NSSpec => []NoStandbyForBroker
<1>1. NSInv => NoStandbyForBroker
  BY DEF NSInv, MapsOK
<1> QED BY <1>1, NSInvariance, PTL

(* A message answered with "Failed" was passed on to nobody and waits      *)
(* nowhere (the end of the standbys' loop).                                *)
THEOREM FailuresLeaveNoTrace == NSSpec => []FailedLeavesNoTrace
<1>1. NSInv => FailedLeavesNoTrace
  BY DEF NSInv, NumsOK, StandbyOK, FailedLeavesNoTrace
<1> QED BY <1>1, NSInvariance, PTL

-----------------------------------------------------------------------------
(* The messages that the name server sends to the standbys do not disturb  *)
(* their synchronisation: no step of its own changes what the broker's     *)
(* thread or the slaves go by.                                             *)
LEMMA SyncOrAside ==
  ASSUME [NSNext]_allVars
  PROVE  [SyncNext]_syncVars
         \/ (UNCHANGED <<brokerVars, slaveVars>> /\ ~UNCHANGED syncVars)
<1>1. AskStandby => UNCHANGED <<brokerVars, slaveVars>>
  BY DEF AskStandby
<1>2. \/ [SyncNext]_syncVars \/ AskStandby \/ UNCHANGED syncVars
  BY NSActions DEF StandbyFails, ReplyFailed, Misreads, MapsRace, Forward, TurnToStandbys, Accept,
                   HangUp, CloseFd, HeartBeat, GoesSilent, CheckErases
<1> QED BY <1>1, <1>2

(* Standbys that the name server turns to are replicas all the same        *)
(* (processResponse for a slave, which one message ends).                  *)
THEOREM StandbysAreReplicas == NSSpec => ImplementsReplica
<1>1. NSInit => Copies!Init
  BY DEF NSInit, SyncInit, Copies!Init
<1>2. NSInv /\ [NSNext]_allVars => [Copies!Next]_(Copies!replicaVars)
  <2> SUFFICES ASSUME NSInv, [NSNext]_allVars PROVE [Copies!Next]_(Copies!replicaVars)
    OBVIOUS
  <2>1. CASE [SyncNext]_syncVars
    BY <2>1, ReplicaStep, SyncAssumption DEF NSInv
  <2>2. CASE UNCHANGED <<brokerVars, slaveVars>>
    BY <2>2 DEF brokerVars, slaveVars, Copies!replicaVars
  <2> QED BY <2>1, <2>2, SyncOrAside
<1> QED BY <1>1, <1>2, NSInvariance, PTL DEF NSSpec, ImplementsReplica, Copies!Safety

(* Nor is anything a standby sends the name server, or a message that lies *)
(* at a standby, taken for an ack of the broker (receive in SyncSend).     *)
THEOREM StandbyAcksMeanHeld == NSSpec => AckMeansHeld
<1>1. NSInv /\ [NSNext]_allVars =>
        [\A s \in Slaves :
           syncPc = "read" /\ ip = s /\ replies' # replies /\ syncPc' = "next" /\ PeerLives
             => held[s] = snapshot]_syncVars
  <2> SUFFICES ASSUME NSInv, [NSNext]_allVars, NEW s \in Slaves,
                      syncPc = "read", ip = s, replies' # replies, syncPc' = "next", PeerLives
               PROVE  held[s] = snapshot
    OBVIOUS
  <2>1. replies' = replies \/ [SyncNext]_syncVars
    BY SyncOrAside DEF slaveVars
  <2> QED BY <2>1, AckStep DEF NSInv
<1> QED BY <1>1, NSInvariance, PTL DEF NSSpec, AckMeansHeld
=============================================================================
