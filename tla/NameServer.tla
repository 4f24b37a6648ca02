----------------------------- MODULE NameServer -----------------------------
(***************************************************************************)
(* The name server between producers and brokers, with the brokers' slaves *)
(* as hot standbys: brokers report themselves and their slave by heart     *)
(* beats; a message goes to the first broker heard of within DownTime and, *)
(* if there is none, to the standbys, with a blocking read for the answer. *)
(* Two threads share the maps: the server thread and the one that erases   *)
(* the brokers' descriptors every minute.  The standbys are the slaves of  *)
(* SlaveSync, whose broker goes on sending them its state.                 *)
(***************************************************************************)
EXTENDS SlaveSync

CONSTANTS
  Brokers,      (* addresses, as the numbers of their order as IpNodes     *)
  Clients,      (* producers                                               *)
  MaxFds,       (* bound: descriptors of sockets                           *)
  MaxConnects,  (* bound: connections accepted                             *)
  MaxMessages   (* bound: messages received                                *)

Stdin == 0
Fds == 1..MaxFds
Received == [from : Clients, num : Nat]
Sockets == [peer : Brokers \cup Clients \cup Slaves, open : BOOLEAN]
Least(S) == CHOOSE n \in S : \A k \in S : n <= k

ASSUME NameServerAssumption ==
  /\ MaxFds \in Nat /\ MaxConnects \in Nat /\ MaxMessages \in Nat
  /\ Brokers \subseteq Nat /\ Brokers \cap Slaves = {} /\ Clients \cap Slaves = {}
  /\ None \notin Nat /\ None \notin Clients /\ None \notin Slaves
  /\ None \notin Sockets /\ None \notin Received

VARIABLES
  serverPc,       (* "wait", "ask", "read"; "ended": the thread is over;   *)
                  (* "exited": the process is                              *)
  heard,          (* Brokers: "never", "recently", "silent" for DownTime   *)
  BrokerClients,  (* broker -> descriptor, None if absent                  *)
  Broker_Slave,   (* broker -> its slave, None if absent                   *)
  fds,            (* descriptor -> whose socket it is, None if closed      *)
  msg, asking,    (* the message in hand, the entries still to be tried    *)
  asked,          (* the standby being asked, and which start of it        *)
  \* history
  connects, messages, forwarded, failed

mapVars  == <<heard, BrokerClients, Broker_Slave>>
nsVars   == <<serverPc, mapVars, fds, msg, asking, asked, connects, messages, forwarded, failed>>
allVars  == <<nsVars, syncVars>>

NSInit ==
  /\ SyncInit
  /\ serverPc = "wait"
  /\ heard = [b \in Brokers |-> "never"]
  /\ BrokerClients = [b \in Brokers |-> None]
  /\ Broker_Slave = [b \in Brokers |-> None]
  /\ fds = [f \in Fds |-> None]
  /\ msg = None /\ asking = {} /\ asked = None
  /\ connects = 0 /\ messages = 0 /\ forwarded = {} /\ failed = {}

-----------------------------------------------------------------------------
(* The other ends, and time. *)
Free == {f \in Fds : fds[f] = None}

Peer(f) == IF f \in Fds /\ fds[f] # None THEN fds[f].peer ELSE None

IsOpen(f) == Peer(f) # None /\ fds[f].open

(* A socket gets the lowest number that is free. *)
Opened(peer) == [fds EXCEPT ![Least(Free)] = [peer |-> peer, open |-> TRUE]]

IsConnected(e) == \E f \in Fds : Peer(f) = e /\ IsOpen(f)

(* start(): accept() and addFd. *)
Accept(e) ==
  /\ serverPc = "wait" /\ connects < MaxConnects /\ Free # {} /\ ~IsConnected(e)
  /\ fds' = Opened(e) /\ connects' = connects + 1
  /\ UNCHANGED <<serverPc, mapVars, msg, asking, asked, messages, forwarded, failed, syncVars>>

HangUp(f) ==
  /\ serverPc # "exited" /\ IsOpen(f) /\ Peer(f) \notin Slaves
  /\ fds' = [fds EXCEPT ![f].open = FALSE]
  /\ UNCHANGED <<serverPc, mapVars, msg, asking, asked, connects, messages, forwarded, failed,
                 syncVars>>

(* processRequest reads nothing: the number is free for the next socket,   *)
(* and BrokerClients is not told.                                          *)
CloseFd(f) ==
  /\ serverPc = "wait" /\ Peer(f) # None /\ ~IsOpen(f)
  /\ fds' = [fds EXCEPT ![f] = None]
  /\ UNCHANGED <<serverPc, mapVars, msg, asking, asked, connects, messages, forwarded, failed,
                 syncVars>>

(* DownTime has passed since the last heart beat. *)
GoesSilent(b) ==
  /\ serverPc # "exited" /\ heard[b] = "recently"
  /\ heard' = [heard EXCEPT ![b] = "silent"]
  /\ UNCHANGED <<serverPc, BrokerClients, Broker_Slave, fds, msg, asking, asked, connects,
                 messages, forwarded, failed, syncVars>>

-----------------------------------------------------------------------------
(* The thread that checks every minute.  It marks copies of the entries,   *)
(* which nobody sees, and erases the descriptor of each, silent or not.    *)
CheckErases(b) ==
  /\ serverPc # "exited" /\ heard[b] # "never" /\ BrokerClients[b] # None
  /\ BrokerClients' = [BrokerClients EXCEPT ![b] = None]
  /\ UNCHANGED <<serverPc, heard, Broker_Slave, fds, msg, asking, asked, connects, messages,
                 forwarded, failed, syncVars>>

(* It takes no lock: a map that both threads change may end the process. *)
MapsRace ==
  /\ serverPc = "wait" /\ \E b \in Brokers : BrokerClients[b] # None
  /\ serverPc' = "exited"
  /\ UNCHANGED <<mapVars, fds, msg, asking, asked, connects, messages, forwarded, failed,
                 syncVars>>

-----------------------------------------------------------------------------
(* The server thread.  A message of another type only draws a reply. *)

(* Mutated form: the slave's address is not read. *)
NotReported(b, s) == Broker_Slave

Reported(b, s) == [Broker_Slave EXCEPT ![b] = s]

(* BROKER_HEART_BEAT: its text is the slave's address. *)
HeartBeat(f, s) ==
  /\ serverPc = "wait" /\ Peer(f) \in Brokers /\ IsOpen(f)
  /\ heard' = [heard EXCEPT ![Peer(f)] = "recently"]
  /\ BrokerClients' = [BrokerClients EXCEPT ![Peer(f)] = f]
  /\ Broker_Slave' = Reported(Peer(f), s)
  /\ UNCHANGED <<serverPc, fds, msg, asking, asked, connects, messages, forwarded, failed,
                 syncVars>>

(* What comes in pieces is no archive: the exception ends the thread. *)
Misreads ==
  /\ serverPc = "wait" /\ \E c \in Clients : IsConnected(c)
  /\ serverPc' = "ended"
  /\ UNCHANGED <<mapVars, fds, msg, asking, asked, connects, messages, forwarded, failed,
                 syncVars>>

Live == {b \in Brokers : heard[b] = "recently"}
Known == {b \in Brokers : heard[b] # "never"}

(* REPLY_EXPECTED.  The poll forgets the descriptors of the silent brokers *)
(* it passes and stops at the first other one.                             *)
Passed(b) == Live = {} \/ b < Least(Live)

(* Mutated form: the descriptors are kept. *)
Kept == BrokerClients

Polled == [b \in Brokers |-> IF heard[b] = "silent" /\ Passed(b) THEN None ELSE BrokerClients[b]]

(* BrokerClients[it.first]: an entry that was erased is made anew, as 0. *)
ForwardFd == IF BrokerClients[Least(Live)] = None THEN Stdin ELSE BrokerClients[Least(Live)]

(* epoll_ctl(MOD) fails, and the process exits, for a number that is no   *)
(* connection accepted: 0, one that is closed, a standby's socket.  It     *)
(* succeeds for a producer's that has got the number of a broker's.        *)
InEpoll(f) == f \in Fds /\ Peer(f) \in Brokers \cup Clients

NextMessage(c) == [from |-> c, num |-> messages + 1]

(* Setting ev.data.fd overwrote ev.data.ptr, which ChangeStateAndRelease   *)
(* follows at the end.                                                     *)
AfterForward == "exited"

(* The message is written to the descriptor, its epoll state changed, the  *)
(* ack written.  A write to a peer that has gone may raise SIGPIPE first.  *)
Forward(c) ==
  /\ serverPc = "wait" /\ IsConnected(c) /\ messages < MaxMessages /\ Live # {}
  /\ messages' = messages + 1
  /\ BrokerClients' = [Polled EXCEPT ![Least(Live)] = ForwardFd]
  /\ \/ /\ InEpoll(ForwardFd)
        /\ forwarded' = forwarded \cup {NextMessage(c)}
        /\ serverPc' = AfterForward
     \/ /\ InEpoll(ForwardFd) => ~IsOpen(ForwardFd)
        /\ serverPc' = "exited" /\ UNCHANGED forwarded
  /\ UNCHANGED <<heard, Broker_Slave, fds, msg, asking, asked, connects, failed, syncVars>>

(* No broker was heard of: the standbys, in the brokers' order. *)
TurnToStandbys(c) ==
  /\ serverPc = "wait" /\ IsConnected(c) /\ messages < MaxMessages /\ Live = {}
  /\ messages' = messages + 1
  /\ BrokerClients' = Polled
  /\ msg' = NextMessage(c) /\ asking' = Known /\ serverPc' = "ask"
  /\ UNCHANGED <<heard, Broker_Slave, fds, asked, connects, forwarded, failed, syncVars>>

(* A Client is made and never closed.  To a standby that is not there the  *)
(* send fails at once, on a descriptor that is closed.                     *)
AskStandby ==
  /\ serverPc = "ask" /\ asking # {}
  /\ LET s == Broker_Slave[Least(asking)] IN
       \/ /\ Listens(s)
          /\ requests' = requests \cup
               {[to |-> s, life |-> slaveLife[s], content |-> None, try |-> 0]}
          /\ asked' = [to |-> s, life |-> slaveLife[s]]
          /\ fds' = IF Free = {} THEN fds ELSE Opened(s)
          /\ serverPc' = "read" /\ UNCHANGED asking
       \/ /\ ~Listens(s)
          /\ asking' = asking \ {Least(asking)}
          /\ UNCHANGED <<requests, asked, fds, serverPc>>
  /\ UNCHANGED <<mapVars, msg, connects, messages, forwarded, failed, brokerVars, slaveVars>>

(* Mutated forms: the read gives up; only a new start is noticed. *)
AnyAnswer == TRUE
StartedAgain == slaveLife[asked.to] # asked.life

(* The standby's process is gone; an answer it cannot give. *)
NoMoreAnswer == ~Listens(asked.to) \/ slaveLife[asked.to] # asked.life

StandbyFails ==
  /\ serverPc = "read" /\ NoMoreAnswer
  /\ asking' = asking \ {Least(asking)} /\ asked' = None /\ serverPc' = "ask"
  /\ UNCHANGED <<mapVars, fds, msg, connects, messages, forwarded, failed, syncVars>>

(* Write(fd, "Failed ..."), and back to epoll; or SIGPIPE. *)
ReplyFailed ==
  /\ serverPc = "ask" /\ asking = {}
  /\ \/ failed' = failed \cup {msg} /\ serverPc' = "wait"
     \/ ~IsConnected(msg.from) /\ serverPc' = "exited" /\ UNCHANGED failed
  /\ msg' = None
  /\ UNCHANGED <<mapVars, fds, asking, asked, connects, messages, forwarded, syncVars>>

-----------------------------------------------------------------------------
StandbySteps == AskStandby \/ StandbyFails \/ ReplyFailed

NSNext ==
  \/ SyncNext /\ UNCHANGED nsVars
  \/ StandbySteps \/ Misreads \/ MapsRace
  \/ \E c \in Clients : Forward(c) \/ TurnToStandbys(c)
  \/ \E e \in Brokers \cup Clients : Accept(e)
  \/ \E f \in Fds : HangUp(f) \/ CloseFd(f) \/ \E s \in Slaves : HeartBeat(f, s)
  \/ \E b \in Brokers : GoesSilent(b) \/ CheckErases(b)

NSSpec == NSInit /\ [][NSNext]_allVars

MisreadsMessage(s) == \E r \in requests : r.content = None /\ SlaveMisreads(s, r)

(* The server thread goes on between the poll and the reply, and epoll has *)
(* a standby's thread look at every connection that can be read.           *)
FairNSSpec ==
  /\ NSSpec /\ SyncFairness
  /\ WF_allVars(StandbySteps) /\ \A s \in Slaves : SF_syncVars(MisreadsMessage(s))

-----------------------------------------------------------------------------
(* Types; and a message is in hand exactly while standbys are asked. *)
NSTypeOK ==
  /\ serverPc \in {"wait", "ask", "read", "ended", "exited"}
  /\ heard \in [Brokers -> {"never", "recently", "silent"}]
  /\ BrokerClients \in [Brokers -> Fds \cup {Stdin, None}]
  /\ Broker_Slave \in [Brokers -> Slaves \cup {None}]
  /\ \A b \in Known : Broker_Slave[b] # None
  /\ fds \in [Fds -> Sockets \cup {None}]
  /\ (msg # None) <=> (serverPc \in {"ask", "read"})
  /\ msg # None => msg \in Received
  /\ asking \subseteq Known
  /\ serverPc = "read" => asked.to = Broker_Slave[Least(asking)]
  /\ forwarded \subseteq Received /\ failed \subseteq Received

(* A standby's socket is never taken for a broker's: these sockets are not *)
(* closed, but they are opened only when the poll has forgotten all the    *)
(* descriptors whose number they may get.                                  *)
NoStandbyForBroker == \A b \in Brokers : Peer(BrokerClients[b]) \notin Slaves

(* A message answered with "Failed" was passed on to no broker and lies at *)
(* no standby: those that were asked have lost it with their process.      *)
FailedLeavesNoTrace ==
  \A m \in failed : /\ m \notin forwarded
                    /\ serverPc = "wait" => \A r \in requests : r.content # None

(* A producer whose message went to the standbys is answered, or its end   *)
(* of the connection is gone, as long as none of them is there without its *)
(* server thread.  One is: the first to read a message, and the read that  *)
(* waits for its answer holds up every other producer and broker.          *)
Answered ==
  serverPc \in {"ask", "read"} ~>
    \/ serverPc \notin {"ask", "read"}
    \/ \E s \in Slaves : slaveState[s] = "ended" /\ asked = [to |-> s, life |-> slaveLife[s]]
=============================================================================
