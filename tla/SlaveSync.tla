------------------------------ MODULE SlaveSync ------------------------------
(***************************************************************************)
(* The broker's _slave thread and the slaves' processes.  Every sync_Time  *)
(* the thread serialises the broker and sends it to one slave after the    *)
(* other, up to 16 times each, over connections it keeps in `slaves'; a    *)
(* slave's server thread replaces its broker and answers.  Slaves stop and *)
(* are started again at any time.  What the copy of a broker that runs is  *)
(* like is Persistence's concern (the same copy constructor); here a       *)
(* broker is the number of changes made to it.                             *)
(***************************************************************************)
EXTENDS Integers

CONSTANTS
  Slaves,       (* addresses                                               *)
  SyncTries,    (* 16 in the code                                          *)
  MaxChanges,   (* bound: changes to the broker                            *)
  MaxStarts,    (* bound: starts of a slave                                *)
  None

Connections == [life : Nat, state : {"open", "dead"}]

ASSUME SyncAssumption ==
  /\ SyncTries \in Nat \ {0} /\ MaxChanges \in Nat /\ MaxStarts \in Nat
  /\ None \notin Connections

VARIABLES
  \* the broker
  content,      (* changes made to it so far                               *)
  slave, hasSlave,
  \* the _slave thread
  syncPc,       (* "sleep", "next", "write", "read"; "killed": no process  *)
  snapshot,     (* what was serialised for this round                      *)
  todo, ip, i,  (* slaves to go, the one being served, attempts made       *)
  slaves,       (* its connections: the slave's life, and the state        *)
  \* the slaves
  slaveState,   (* "down", "listening", "ended": the server thread is over *)
  slaveLife,    (* starts so far                                           *)
  held,         (* *(slave.broker)                                         *)
  inHand,       (* the request it has stored and not answered              *)
  \* the network
  requests, replies,
  \* history
  refused       (* slaves whose connect() was refused                      *)

threadVars == <<syncPc, snapshot, todo, ip, i, slaves>>
brokerVars == <<content, slave, hasSlave, threadVars, refused>>
slaveVars  == <<slaveState, slaveLife, held, inHand, replies>>
syncVars   == <<brokerVars, slaveVars, requests>>

Contents == 0..MaxChanges
Requests == [to : Slaves, life : Nat, content : Contents \cup {None}, try : Nat]

SyncInit ==
  /\ content = 0 /\ slave = {} /\ hasSlave = FALSE
  /\ syncPc = "sleep" /\ snapshot = 0 /\ todo = {} /\ ip = None /\ i = 0
  /\ slaves = [s \in Slaves |-> None]
  /\ slaveState = [s \in Slaves |-> "down"]
  /\ slaveLife = [s \in Slaves |-> 0]
  /\ held = [s \in Slaves |-> 0]
  /\ inHand = [s \in Slaves |-> None]
  /\ requests = {} /\ replies = {} /\ refused = {}

BrokerRuns == syncPc # "killed"

-----------------------------------------------------------------------------
(* The other threads change the broker. *)
Change ==
  /\ BrokerRuns /\ content < MaxChanges
  /\ content' = content + 1
  /\ UNCHANGED <<slave, hasSlave, threadVars, slaveVars, requests, refused>>

(* setSlave, which main calls once and with at least one slave. *)
SetSlave(S) ==
  /\ BrokerRuns /\ ~hasSlave /\ S # {}
  /\ slave' = S /\ hasSlave' = TRUE
  /\ UNCHANGED <<content, threadVars, slaveVars, requests, refused>>

(* Mutated form: serialised once and for all. *)
SerializedOnce == IF snapshot = 0 THEN content ELSE snapshot

Serialized == content

(* sleep_for(sync_Time) is over: serialize_Broker. *)
StartRound ==
  /\ syncPc = "sleep" /\ hasSlave
  /\ syncPc' = "next" /\ snapshot' = Serialized /\ todo' = slave
  /\ UNCHANGED <<content, slave, hasSlave, ip, i, slaves, slaveVars, requests, refused>>

Listens(s) == slaveState[s] # "down"

(* Mutated form: the slave stays in the set. *)
KeptSlave(s) == slave

Erased(s) == slave \ {s}

(* A slave with a connection is served over it.  To one without, one       *)
(* connect() is made; a refusal takes the slave out of the set for good.   *)
NextSlave(s) ==
  /\ syncPc = "next" /\ s \in todo
  /\ \/ /\ slaves[s] # None \/ Listens(s)
        /\ syncPc' = "write" /\ ip' = s /\ i' = 0
        /\ slaves' = IF slaves[s] # None THEN slaves
                     ELSE [slaves EXCEPT ![s] = [life |-> slaveLife[s], state |-> "open"]]
        /\ UNCHANGED <<slave, todo, refused>>
     \/ /\ slaves[s] = None /\ ~Listens(s)
        /\ slave' = Erased(s) /\ todo' = todo \ {s} /\ refused' = refused \cup {s}
        /\ UNCHANGED <<syncPc, ip, i, slaves>>
  /\ UNCHANGED <<content, hasSlave, snapshot, slaveVars, requests>>

PeerLives == Listens(ip) /\ slaves[ip].life = slaveLife[ip]

(* SyncSend's write; what it does on a connection that has broken is as for *)
(* a producer (Producer!Write).                                             *)
SyncWrite ==
  /\ syncPc = "write"
  /\ IF slaves[ip].state = "dead"
     THEN syncPc' = "killed" /\ UNCHANGED <<slaves, requests>>
     ELSE /\ syncPc' = "read"
          /\ IF PeerLives
             THEN /\ requests' = requests \cup
                       {[to |-> ip, life |-> slaves[ip].life, content |-> snapshot, try |-> i]}
                  /\ UNCHANGED slaves
             ELSE /\ \E state \in {"open", "dead"} : slaves' = [slaves EXCEPT ![ip].state = state]
                  /\ UNCHANGED requests
  /\ UNCHANGED <<content, slave, hasSlave, snapshot, todo, ip, i, slaveVars, refused>>

RepliesToBroker == {r \in replies : r.to = ip /\ r.life = slaves[ip].life /\ r.content # None}

SyncAck ==
  /\ syncPc = "read"
  /\ \E r \in RepliesToBroker : replies' = replies \ {r}
  /\ syncPc' = "next" /\ todo' = todo \ {ip} /\ ip' = None
  /\ UNCHANGED <<content, slave, hasSlave, snapshot, i, slaves, slaveState, slaveLife, held,
                 inHand, requests, refused>>

(* Mutated forms: the read gives up in time; one attempt too many. *)
TimesOut == RepliesToBroker = {}
OneTryMore == i = SyncTries

NoAnswerComes == RepliesToBroker = {} /\ ~PeerLives
LastTry == i + 1 = SyncTries

(* read() fails once the slave's process is gone; after the last attempt    *)
(* the connection is forgotten, and the slave tried anew in the next round. *)
SyncFailed ==
  /\ syncPc = "read" /\ NoAnswerComes
  /\ i' = i + 1
  /\ IF LastTry
     THEN /\ slaves' = [slaves EXCEPT ![ip] = None]
          /\ syncPc' = "next" /\ todo' = todo \ {ip} /\ ip' = None
     ELSE /\ \E state \in {slaves[ip].state, "dead"} :
               slaves' = [slaves EXCEPT ![ip].state = state]
          /\ syncPc' = "write" /\ UNCHANGED <<todo, ip>>
  /\ UNCHANGED <<content, slave, hasSlave, snapshot, slaveVars, requests, refused>>

EndRound ==
  /\ syncPc = "next" /\ todo = {}
  /\ syncPc' = "sleep"
  /\ UNCHANGED <<content, slave, hasSlave, snapshot, todo, ip, i, slaves, slaveVars, requests,
                 refused>>

SyncThread ==
  \/ StartRound \/ EndRound \/ SyncWrite \/ SyncAck \/ SyncFailed
  \/ \E s \in Slaves : NextSlave(s)

-----------------------------------------------------------------------------
(* A slave's process. *)
SlaveStarts(s) ==
  /\ slaveState[s] = "down" /\ slaveLife[s] < MaxStarts
  /\ slaveState' = [slaveState EXCEPT ![s] = "listening"]
  /\ slaveLife' = [slaveLife EXCEPT ![s] = @ + 1]
  /\ held' = [held EXCEPT ![s] = 0]
  /\ UNCHANGED <<brokerVars, inHand, replies, requests>>

SlaveStops(s) ==
  /\ slaveState[s] # "down"
  /\ slaveState' = [slaveState EXCEPT ![s] = "down"]
  /\ inHand' = [inHand EXCEPT ![s] = None]
  /\ requests' = {r \in requests : r.to # s}
  /\ UNCHANGED <<brokerVars, slaveLife, held, replies>>

(* What can be read next; a message of the name server carries no broker.  *)
Pending(s) == {r \in requests : r.to = s}

(* Mutated form: the answer is written first. *)
AnsweredFirst(s, r) == UNCHANGED held

Replaced(s, r) == held' = [held EXCEPT ![s] = r.content]

(* *(slave.broker) = anti_serialize_to_Broker(str) *)
SlaveTakesBroker(s) ==
  /\ slaveState[s] = "listening" /\ inHand[s] = None
  /\ \E r \in Pending(s) :
       /\ r.content # None
       /\ Replaced(s, r) /\ inHand' = [inHand EXCEPT ![s] = r]
       /\ requests' = requests \ {r}
  /\ UNCHANGED <<brokerVars, slaveState, slaveLife, replies>>

(* Write(fd, "Ack : receive Broker") *)
SlaveAnswers(s) ==
  /\ slaveState[s] = "listening" /\ inHand[s] # None
  /\ replies' = replies \cup {inHand[s]}
  /\ inHand' = [inHand EXCEPT ![s] = None]
  /\ UNCHANGED <<brokerVars, slaveState, slaveLife, held, requests>>

(* What is no whole broker, a message or the first piece of a request,     *)
(* makes the archive throw.  Slave's thread catches that and ends; the     *)
(* process and its sockets stay.                                           *)
SlaveMisreads(s, r) ==
  /\ slaveState[s] = "listening" /\ inHand[s] = None
  /\ r \in Pending(s) /\ requests' = requests \ {r}
  /\ slaveState' = [slaveState EXCEPT ![s] = "ended"]
  /\ UNCHANGED <<brokerVars, slaveLife, held, inHand, replies>>

SlaveServer(s) ==
  SlaveTakesBroker(s) \/ SlaveAnswers(s) \/ \E r \in requests : SlaveMisreads(s, r)

SyncNext ==
  \/ Change \/ SyncThread
  \/ \E S \in SUBSET Slaves : SetSlave(S)
  \/ \E s \in Slaves : SlaveStarts(s) \/ SlaveStops(s) \/ SlaveServer(s)

SyncSpec == SyncInit /\ [][SyncNext]_syncVars

(* The thread and the slaves' server threads go on when they can. *)
SyncFairness ==
  WF_syncVars(SyncThread) /\ \A s \in Slaves : WF_syncVars(SlaveServer(s))

FairSyncSpec == SyncSpec /\ SyncFairness

-----------------------------------------------------------------------------
(* Types, and what the thread holds at its control points. *)
SyncTypeOK ==
  /\ content \in Contents /\ snapshot \in Contents
  /\ slave \subseteq Slaves /\ todo \subseteq slave /\ hasSlave \in BOOLEAN
  /\ syncPc \in {"sleep", "next", "write", "read", "killed"}
  /\ i \in 0..SyncTries
  /\ syncPc \in {"write", "read"} => ip \in todo /\ slaves[ip] # None
  /\ slaves \in [Slaves -> Connections \cup {None}]
  /\ slaveState \in [Slaves -> {"down", "listening", "ended"}]
  /\ slaveLife \in [Slaves -> Nat] /\ held \in [Slaves -> Contents]
  /\ inHand \in [Slaves -> Requests \cup {None}]
  /\ requests \subseteq Requests /\ replies \subseteq Requests /\ refused \subseteq Slaves

(* An ack the thread reads says that the slave holds the broker of this    *)
(* round: no ack of an earlier round or of an earlier attempt is taken for *)
(* it, unless the slave was started anew meanwhile.                        *)
AckMeansHeld ==
  [][\A s \in Slaves :
       syncPc = "read" /\ ip = s /\ replies' # replies /\ syncPc' = "next" /\ PeerLives
         => held[s] = snapshot]_syncVars

(* Requests that are carried out late, by a slave that was given up or     *)
(* started anew meanwhile, take no slave back to an older broker and none  *)
(* ahead of it: the slaves are replicas.                                   *)
Copies == INSTANCE Replica WITH copy <- held, starts <- slaveLife

ImplementsReplica == Copies!Safety

(* A slave that was refused once, because it was not up yet or not up      *)
(* again, is never sent the broker any more.                               *)
GivenUpForGood ==
  [][\A s \in refused : held'[s] \in {held[s], 0}]_syncVars

(* A slave that stays up and in the set ends with the broker's last state, *)
(* as long as the broker lives and no slave's server thread has ended with *)
(* its process still there: on that one the thread waits for ever.         *)
CatchesUp ==
  \A s \in Slaves :
    <>[](/\ slaveState[s] = "listening" /\ s \in slave /\ BrokerRuns
         /\ \A t \in Slaves : slaveState[t] # "ended")
      => <>[](held[s] = content)
==============================================================================
