--------------------------- MODULE SlaveSyncProofs ---------------------------
(***************************************************************************)
(* Proofs about SlaveSync, for any number of slaves, attempts, changes and *)
(* starts.  The invariant behind them says where the one request of a      *)
(* round can be: on its way, in the slave's hand or answered, and in none  *)
(* of these unless the thread is reading on that very connection.          *)
(***************************************************************************)
EXTENDS SlaveSync, TLAPS

-----------------------------------------------------------------------------
(* Before setSlave nothing has happened; attempts are left while one is    *)
(* made; a slave that was refused is in no set and gets nothing.           *)
ThreadOK ==
  /\ ~hasSlave => syncPc = "sleep" /\ todo = {} /\ refused = {}
  /\ syncPc \in {"write", "read"} => i < SyncTries
  /\ \A s \in refused : s \notin slave /\ \A r \in requests : r.to = s => r.content = None

(* Which life of which slave things belong to. *)
LivesOK ==
  /\ \A r \in requests : Listens(r.to) /\ r.life = slaveLife[r.to]
  /\ \A s \in Slaves : inHand[s] # None =>
       /\ Listens(s) /\ inHand[s].to = s /\ inHand[s].life = slaveLife[s]
       /\ inHand[s].content # None
  /\ \A r \in replies : r.life <= slaveLife[r.to] /\ r.content # None
  /\ \A s \in Slaves : slaves[s] # None => slaves[s].life <= slaveLife[s]

(* The thread's latest request to s. *)
Latest(s, r) ==
  /\ syncPc = "read" /\ ip = s /\ slaves[s].life = slaveLife[s]
  /\ r = [to |-> s, life |-> slaveLife[s], content |-> snapshot, try |-> i]

Sent(s) == {r \in requests : r.to = s /\ r.content # None}
Answers(s) == {r \in replies : r.to = s /\ r.life = slaveLife[s]}

(* It is the only one outstanding, and in one place. *)
OutstandingOK ==
  \A s \in Slaves :
    /\ \A r \in Sent(s) \cup Answers(s) : Latest(s, r)
    /\ inHand[s] # None => Latest(s, inHand[s]) /\ held[s] = snapshot /\ Sent(s) = {}
    /\ Answers(s) # {} => held[s] = snapshot /\ Sent(s) = {} /\ inHand[s] = None

AgesOK == snapshot <= content /\ \A s \in Slaves : held[s] <= snapshot

SyncInv == SyncTypeOK /\ ThreadOK /\ LivesOK /\ OutstandingOK /\ AgesOK

-----------------------------------------------------------------------------
LEMMA SyncInvInit ==
  ASSUME SyncAssumption, SyncInit PROVE SyncInv
<1>1. SyncTypeOK
  <2>1. 0 \in Contents /\ 0 \in 0..SyncTries /\ 0 \in Nat
    BY DEF SyncAssumption, Contents
  <2>2. /\ slaves \in [Slaves -> Connections \cup {None}]
        /\ slaveState \in [Slaves -> {"down", "listening", "ended"}]
        /\ inHand \in [Slaves -> Requests \cup {None}]
    BY DEF SyncInit
  <2>3. slaveLife \in [Slaves -> Nat] /\ held \in [Slaves -> Contents]
    BY <2>1 DEF SyncInit
  <2> QED BY <2>1, <2>2, <2>3 DEF SyncInit, SyncTypeOK
<1>2. ThreadOK /\ LivesOK
  BY DEF SyncInit, ThreadOK, LivesOK
<1>3. OutstandingOK
  BY DEF SyncInit, OutstandingOK, Sent, Answers
<1>4. AgesOK
  BY DEF SyncInit, AgesOK
<1> QED BY <1>1, <1>2, <1>3, <1>4 DEF SyncInv

LEMMA SyncActions ==
  ASSUME [SyncNext]_syncVars
  PROVE  \/ Change \/ StartRound \/ EndRound \/ SyncWrite \/ SyncAck \/ SyncFailed
         \/ \E s \in Slaves : NextSlave(s) \/ SlaveStarts(s) \/ SlaveStops(s)
         \/ \E s \in Slaves : SlaveTakesBroker(s) \/ SlaveAnswers(s)
         \/ \E s \in Slaves, r \in requests : SlaveMisreads(s, r)
         \/ \E S \in SUBSET Slaves : SetSlave(S)
         \/ UNCHANGED syncVars
BY DEF SyncNext, SyncThread, SlaveServer

LEMMA ThreadTypes ==
  ASSUME SyncAssumption, SyncInv, Change \/ StartRound \/ EndRound \/ SyncAck
  PROVE  SyncTypeOK'
BY DEF SyncAssumption, SyncInv, SyncTypeOK, ThreadOK, Contents, Change, StartRound, Serialized,
       EndRound, SyncAck, threadVars, slaveVars

LEMMA WriteTypes ==
  ASSUME SyncAssumption, SyncInv, SyncWrite
  PROVE  SyncTypeOK'
<1>1. CASE syncPc' = "killed"
  BY <1>1 DEF SyncInv, SyncTypeOK, SyncWrite, slaveVars
<1>2. CASE syncPc' = "read"
  <2>1. ip \in Slaves /\ slaves[ip] \in Connections
    BY DEF SyncInv, SyncTypeOK, SyncWrite
  <2>2. /\ UNCHANGED <<content, slave, hasSlave, snapshot, todo, ip, i, slaveVars, refused>>
        /\ \/ /\ requests' = requests \cup
                   {[to |-> ip, life |-> slaves[ip].life, content |-> snapshot, try |-> i]}
              /\ UNCHANGED slaves
           \/ /\ \E state \in {"open", "dead"} : slaves' = [slaves EXCEPT ![ip].state = state]
              /\ UNCHANGED requests
    BY <1>2 DEF SyncWrite
  <2>3. [to |-> ip, life |-> slaves[ip].life, content |-> snapshot, try |-> i] \in Requests
    BY <2>1 DEF SyncInv, SyncTypeOK, Requests, Connections, SyncAssumption
  <2>4. requests' \subseteq Requests
    BY <2>2, <2>3 DEF SyncInv, SyncTypeOK
  <2>5. slaves' \in [Slaves -> Connections \cup {None}] /\ slaves'[ip] # None
    BY <2>1, <2>2 DEF SyncInv, SyncTypeOK, Connections, SyncAssumption
  <2> QED BY <1>2, <2>1, <2>2, <2>4, <2>5 DEF SyncInv, SyncTypeOK, SyncWrite, slaveVars
<1> QED BY <1>1, <1>2 DEF SyncWrite

LEMMA FailedTypes ==
  ASSUME SyncAssumption, SyncInv, SyncFailed
  PROVE  SyncTypeOK'
<1>1. ip \in Slaves /\ slaves[ip] \in Connections /\ i < SyncTries /\ i \in Nat
  BY DEF SyncInv, SyncTypeOK, ThreadOK, SyncFailed, SyncAssumption
<1>2. i' \in 0..SyncTries
  BY <1>1 DEF SyncFailed, SyncAssumption
<1>3. CASE LastTry
  <2>1. slaves' = [slaves EXCEPT ![ip] = None] /\ syncPc' = "next" /\ todo' = todo \ {ip}
    BY <1>3 DEF SyncFailed
  <2> QED BY <1>2, <2>1 DEF SyncInv, SyncTypeOK, SyncFailed, slaveVars
<1>4. CASE ~LastTry
  <2>1. /\ \E state \in {"open", "dead"} : slaves' = [slaves EXCEPT ![ip].state = state]
        /\ syncPc' = "write" /\ UNCHANGED <<todo, ip>>
    BY <1>1, <1>4 DEF SyncFailed, Connections
  <2>2. slaves' \in [Slaves -> Connections \cup {None}] /\ slaves'[ip] # None
    BY <1>1, <2>1 DEF SyncInv, SyncTypeOK, Connections, SyncAssumption
  <2> QED BY <1>2, <2>1, <2>2 DEF SyncInv, SyncTypeOK, SyncFailed, slaveVars
<1> QED BY <1>3, <1>4

LEMMA NextSlaveTypes ==
  ASSUME SyncAssumption, SyncInv, NEW s \in Slaves, NextSlave(s)
  PROVE  SyncTypeOK'
<1>1. CASE syncPc' = "write"
  <2>1. /\ ip' = s /\ i' = 0 /\ UNCHANGED <<slave, todo>> /\ s \in todo
        /\ slaves' = IF slaves[s] # None THEN slaves
                     ELSE [slaves EXCEPT ![s] = [life |-> slaveLife[s], state |-> "open"]]
    BY <1>1 DEF NextSlave
  <2>2. [life |-> slaveLife[s], state |-> "open"] \in Connections
    BY DEF SyncInv, SyncTypeOK, Connections
  <2>3. slaves' \in [Slaves -> Connections \cup {None}] /\ slaves'[s] # None
    BY <2>1, <2>2 DEF SyncInv, SyncTypeOK, SyncAssumption
  <2> QED BY <1>1, <2>1, <2>3 DEF SyncInv, SyncTypeOK, NextSlave, slaveVars, SyncAssumption
<1>2. CASE syncPc' # "write"
  BY <1>2 DEF SyncInv, SyncTypeOK, NextSlave, slaveVars, Erased
<1> QED BY <1>1, <1>2

LEMMA SlaveTypes ==
  ASSUME SyncAssumption, SyncInv, NEW s \in Slaves,
         \/ SlaveStarts(s) \/ SlaveStops(s) \/ SlaveTakesBroker(s) \/ SlaveAnswers(s)
         \/ \E r \in requests : SlaveMisreads(s, r)
  PROVE  SyncTypeOK'
<1>1. CASE SlaveStarts(s)
  BY <1>1 DEF SyncInv, SyncTypeOK, SlaveStarts, brokerVars, threadVars, Contents, SyncAssumption
<1>2. CASE SlaveStops(s)
  BY <1>2 DEF SyncInv, SyncTypeOK, SlaveStops, brokerVars, threadVars
<1>3. CASE SlaveTakesBroker(s)
  <2>1. PICK r \in requests : /\ r.content # None /\ inHand' = [inHand EXCEPT ![s] = r]
                              /\ held' = [held EXCEPT ![s] = r.content]
                              /\ requests' = requests \ {r}
    BY <1>3 DEF SlaveTakesBroker, Replaced, Pending
  <2>2. r \in Requests /\ r.content \in Contents
    BY <2>1 DEF SyncInv, SyncTypeOK, Requests
  <2> QED BY <1>3, <2>1, <2>2 DEF SyncInv, SyncTypeOK, SlaveTakesBroker, brokerVars, threadVars
<1>4. CASE SlaveAnswers(s)
  BY <1>4 DEF SyncInv, SyncTypeOK, SlaveAnswers, brokerVars, threadVars
<1>5. CASE \E r \in requests : SlaveMisreads(s, r)
  BY <1>5 DEF SyncInv, SyncTypeOK, SlaveMisreads, brokerVars, threadVars
<1> QED BY <1>1, <1>2, <1>3, <1>4, <1>5

LEMMA SyncTypesStep ==
  ASSUME SyncAssumption, SyncInv, [SyncNext]_syncVars
  PROVE  SyncTypeOK'
<1>1. ASSUME NEW S \in SUBSET Slaves, SetSlave(S) PROVE SyncTypeOK'
  BY <1>1 DEF SyncInv, SyncTypeOK, ThreadOK, SetSlave, threadVars, slaveVars
<1>2. CASE UNCHANGED syncVars
  BY <1>2 DEF SyncInv, SyncTypeOK, syncVars, brokerVars, threadVars, slaveVars
<1> QED BY <1>1, <1>2, SyncActions, ThreadTypes, WriteTypes, FailedTypes, NextSlaveTypes, SlaveTypes

-----------------------------------------------------------------------------
LEMMA ThreadStep ==
  ASSUME SyncAssumption, SyncInv, [SyncNext]_syncVars
  PROVE  ThreadOK'
<1> USE DEF SyncInv, ThreadOK
<1>1. CASE Change \/ StartRound \/ EndRound \/ SyncAck
  BY <1>1 DEF Change, StartRound, EndRound, SyncAck, threadVars, slaveVars
<1>2. CASE SyncWrite
  <2>1. ip \in slave /\ hasSlave
    BY <1>2 DEF SyncWrite, SyncTypeOK
  <2>2. \A r \in requests' : r \in requests \/ r.to = ip
    BY <1>2 DEF SyncWrite
  <2>3. /\ UNCHANGED <<hasSlave, slave, refused, i, todo>>
        /\ syncPc' \in {"read", "killed"} /\ syncPc = "write"
    BY <1>2 DEF SyncWrite
  <2> QED BY <2>1, <2>2, <2>3
<1>3. CASE SyncFailed
  <2>1. hasSlave /\ UNCHANGED <<hasSlave, slave, refused, requests>>
    BY <1>3 DEF SyncFailed
  <2>2. syncPc' \in {"write", "read"} => i + 1 # SyncTries /\ i' = i + 1
    BY <1>3 DEF SyncFailed, LastTry
  <2>3. i < SyncTries /\ i \in Nat
    BY <1>3 DEF SyncFailed, SyncTypeOK, SyncAssumption
  <2> QED BY <2>1, <2>2, <2>3 DEF SyncAssumption
<1>4. ASSUME NEW s \in Slaves, NextSlave(s) PROVE ThreadOK'
  <2>1. hasSlave /\ UNCHANGED <<hasSlave, requests>>
    BY <1>4 DEF NextSlave
  <2>2. CASE UNCHANGED <<slave, refused>> /\ i' = 0
    BY <2>1, <2>2 DEF SyncAssumption
  <2>3. CASE ~Listens(s) /\ slave' = slave \ {s} /\ refused' = refused \cup {s}
             /\ syncPc' = "next"
    <3>1. \A r \in requests : r.to # s
      BY <2>3 DEF LivesOK
    <3> QED BY <2>1, <2>3, <3>1
  <2> QED BY <1>4, <2>2, <2>3 DEF NextSlave, Erased
<1>5. ASSUME NEW s \in Slaves, SlaveStarts(s) \/ SlaveStops(s) PROVE ThreadOK'
  BY <1>5 DEF SlaveStarts, SlaveStops, brokerVars, threadVars
<1>6. ASSUME NEW s \in Slaves, SlaveTakesBroker(s) \/ SlaveAnswers(s) PROVE ThreadOK'
  <2>1. requests' \subseteq requests
    BY <1>6 DEF SlaveTakesBroker, SlaveAnswers
  <2> QED BY <1>6, <2>1 DEF SlaveTakesBroker, SlaveAnswers, brokerVars, threadVars
<1>7. ASSUME NEW s \in Slaves, NEW r \in requests, SlaveMisreads(s, r) PROVE ThreadOK'
  BY <1>7 DEF SlaveMisreads, brokerVars, threadVars
<1>8. ASSUME NEW S \in SUBSET Slaves, SetSlave(S) PROVE ThreadOK'
  BY <1>8 DEF SetSlave, threadVars, slaveVars
<1>9. CASE UNCHANGED syncVars
  BY <1>9 DEF syncVars, brokerVars, threadVars
<1> QED BY <1>1, <1>2, <1>3, <1>4, <1>5, <1>6, <1>7, <1>8, <1>9, SyncActions

LEMMA LivesStep ==
  ASSUME SyncAssumption, SyncInv, [SyncNext]_syncVars
  PROVE  LivesOK'
<1> USE DEF SyncInv, LivesOK, Listens
<1>1. CASE Change \/ StartRound \/ EndRound \/ UNCHANGED syncVars
  BY <1>1 DEF Change, StartRound, EndRound, threadVars, slaveVars, syncVars, brokerVars
<1>2. CASE SyncAck
  BY <1>2 DEF SyncAck
<1>3. CASE SyncWrite
  <2>1. ip \in Slaves /\ slaves[ip] \in Connections
    BY <1>3 DEF SyncWrite, SyncTypeOK
  <2>2. \A r \in requests' \ requests :
          r.to = ip /\ Listens(ip) /\ r.life = slaveLife[ip]
    BY <1>3 DEF SyncWrite, PeerLives
  <2>3. \A s \in Slaves : slaves'[s] # None => slaves[s] # None /\ slaves'[s].life = slaves[s].life
    BY <1>3, <2>1 DEF SyncWrite, SyncTypeOK, Connections, SyncAssumption
  <2> QED BY <1>3, <2>2, <2>3 DEF SyncWrite, slaveVars
<1>4. CASE SyncFailed
  <2>1. ip \in Slaves /\ slaves[ip] \in Connections
    BY <1>4 DEF SyncFailed, SyncTypeOK
  <2>2. \A s \in Slaves : slaves'[s] # None => slaves[s] # None /\ slaves'[s].life = slaves[s].life
    BY <1>4, <2>1 DEF SyncFailed, SyncTypeOK, Connections, SyncAssumption
  <2> QED BY <1>4, <2>2 DEF SyncFailed, slaveVars
<1>5. ASSUME NEW s \in Slaves, NextSlave(s) PROVE LivesOK'
  <2>1. slaves' \in {slaves, [slaves EXCEPT ![s] = [life |-> slaveLife[s], state |-> "open"]]}
    BY <1>5 DEF NextSlave
  <2>2. \A t \in Slaves : slaves'[t] # None => slaves'[t].life <= slaveLife[t]
    BY <2>1 DEF SyncTypeOK
  <2> QED BY <1>5, <2>2 DEF NextSlave, slaveVars
<1>6. ASSUME NEW s \in Slaves, SlaveStarts(s) PROVE LivesOK'
  <2>1. \A r \in requests : r.to # s /\ r.to \in Slaves
    BY <1>6 DEF SlaveStarts, SyncTypeOK, Requests
  <2>2. inHand[s] = None
    BY <1>6 DEF SlaveStarts
  <2>3. /\ \A t \in Slaves : slaveLife'[t] >= slaveLife[t] /\ slaveLife[t] \in Nat
                             /\ slaveLife'[t] \in Nat
        /\ \A t \in Slaves \ {s} : slaveLife'[t] = slaveLife[t] /\ slaveState'[t] = slaveState[t]
    BY <1>6 DEF SlaveStarts, SyncTypeOK
  <2>4. \A r \in replies : r.to \in Slaves /\ r.life \in Nat
    BY DEF SyncTypeOK, Requests
  <2>5. \A t \in Slaves : slaves[t] # None => slaves[t].life \in Nat
    BY DEF SyncTypeOK, Connections
  <2> QED BY <1>6, <2>1, <2>2, <2>3, <2>4, <2>5 DEF SlaveStarts, brokerVars, threadVars
<1>7. ASSUME NEW s \in Slaves, SlaveStops(s) PROVE LivesOK'
  <2>1. \A t \in Slaves \ {s} : slaveState'[t] = slaveState[t] /\ inHand'[t] = inHand[t]
    BY <1>7 DEF SlaveStops, SyncTypeOK
  <2>2. inHand'[s] = None
    BY <1>7 DEF SlaveStops, SyncTypeOK
  <2>3. \A r \in requests' : r \in requests /\ r.to \in Slaves \ {s}
    BY <1>7 DEF SlaveStops, SyncTypeOK, Requests
  <2> QED BY <1>7, <2>1, <2>2, <2>3 DEF SlaveStops, brokerVars, threadVars
<1>8. ASSUME NEW s \in Slaves, SlaveTakesBroker(s) PROVE LivesOK'
  <2>1. PICK r \in requests : /\ r.to = s /\ r.content # None /\ inHand' = [inHand EXCEPT ![s] = r]
                              /\ requests' = requests \ {r}
    BY <1>8 DEF SlaveTakesBroker, Pending
  <2> QED BY <1>8, <2>1 DEF SlaveTakesBroker, SyncTypeOK, brokerVars, threadVars
<1>9. ASSUME NEW s \in Slaves, SlaveAnswers(s) PROVE LivesOK'
  <2>1. inHand[s].life <= slaveLife[s] /\ inHand[s].to = s /\ inHand[s].content # None
    BY <1>9 DEF SlaveAnswers, SyncTypeOK
  <2> QED BY <1>9, <2>1 DEF SlaveAnswers, SyncTypeOK, brokerVars, threadVars
<1>10. ASSUME NEW s \in Slaves, NEW r \in requests, SlaveMisreads(s, r) PROVE LivesOK'
  BY <1>10 DEF SlaveMisreads, SyncTypeOK, brokerVars, threadVars
<1>11. ASSUME NEW S \in SUBSET Slaves, SetSlave(S) PROVE LivesOK'
  BY <1>11 DEF SetSlave, threadVars, slaveVars
<1> QED BY <1>1, <1>2, <1>3, <1>4, <1>5, <1>6, <1>7, <1>8, <1>9, <1>10, <1>11, SyncActions

LEMMA AgesStep ==
  ASSUME SyncAssumption, SyncInv, [SyncNext]_syncVars
  PROVE  AgesOK'
<1> USE DEF SyncInv, AgesOK
<1>1. content \in Nat /\ snapshot \in Nat /\ held \in [Slaves -> Nat]
  BY DEF SyncTypeOK, Contents, SyncAssumption
<1>2. CASE Change
  BY <1>1, <1>2 DEF Change, threadVars, slaveVars
<1>3. CASE StartRound
  BY <1>1, <1>3 DEF StartRound, Serialized, slaveVars
<1>4. ASSUME NEW s \in Slaves, SlaveStarts(s) PROVE AgesOK'
  BY <1>1, <1>4 DEF SlaveStarts, brokerVars, threadVars
<1>5. ASSUME NEW s \in Slaves, SlaveTakesBroker(s) PROVE AgesOK'
  <2>1. PICK r \in Sent(s) : held' = [held EXCEPT ![s] = r.content]
    BY <1>5 DEF SlaveTakesBroker, Replaced, Pending, Sent
  <2>2. Latest(s, r)
    BY <2>1 DEF OutstandingOK
  <2>3. r.content = snapshot
    BY <2>2 DEF Latest
  <2> QED BY <1>1, <1>5, <2>1, <2>3 DEF SlaveTakesBroker, brokerVars, threadVars
<1>6. UNCHANGED <<content, snapshot, held>> \/ Change \/ StartRound
      \/ \E s \in Slaves : SlaveStarts(s) \/ SlaveTakesBroker(s)
  BY SyncActions
     DEF EndRound, SyncWrite, SyncAck, SyncFailed, NextSlave, SlaveStops, SlaveAnswers,
         SlaveMisreads, SetSlave, syncVars, brokerVars, threadVars, slaveVars
<1> QED BY <1>2, <1>3, <1>4, <1>5, <1>6

-----------------------------------------------------------------------------
(* What is outstanding, action by action.  First, nothing is unless the    *)
(* thread is reading on the connection.                                    *)
LEMMA NothingOutstanding ==
  ASSUME SyncInv, NEW s \in Slaves,
         syncPc # "read" \/ ip # s \/ slaves[s].life # slaveLife[s]
  PROVE  Sent(s) = {} /\ Answers(s) = {} /\ inHand[s] = None
<1>1. \A r \in Sent(s) \cup Answers(s) : Latest(s, r)
  BY DEF SyncInv, OutstandingOK
<1>2. inHand[s] # None => Latest(s, inHand[s])
  BY DEF SyncInv, OutstandingOK
<1> QED BY <1>1, <1>2 DEF Latest

(* Nor when nothing of it is anywhere. *)
LEMMA NothingIsOK ==
  ASSUME \A s \in Slaves : Sent(s) = {} /\ Answers(s) = {} /\ inHand[s] = None
  PROVE  OutstandingOK
BY DEF OutstandingOK

LEMMA OutstandingStep ==
  ASSUME SyncAssumption, SyncInv, [SyncNext]_syncVars
  PROVE  OutstandingOK'
<1>0. LivesOK /\ OutstandingOK /\ SyncTypeOK
  BY DEF SyncInv
<1> DEFINE NoneLeft(s) == Sent(s) = {} /\ Answers(s) = {} /\ inHand[s] = None
<1>1. CASE Change \/ UNCHANGED syncVars
  BY <1>0, <1>1 DEF OutstandingOK, Sent, Answers, Latest, Change, syncVars, brokerVars, threadVars,
                    slaveVars
<1>2. CASE StartRound \/ EndRound
  <2>1. \A s \in Slaves : NoneLeft(s)
    BY <1>2, NothingOutstanding DEF StartRound, EndRound
  <2>2. \A s \in Slaves : NoneLeft(s)'
    BY <1>2, <2>1 DEF StartRound, EndRound, Sent, Answers, slaveVars
  <2> QED BY <2>2 DEF OutstandingOK
<1>3. CASE SyncWrite
  <2>1. \A s \in Slaves : NoneLeft(s)
    BY <1>3, NothingOutstanding DEF SyncWrite
  <2>2. ip \in Slaves /\ slaves[ip] \in Connections
    BY <1>0, <1>3 DEF SyncWrite, SyncTypeOK
  <2>3. CASE requests' = requests
    <3>1. \A s \in Slaves : NoneLeft(s)'
      BY <1>3, <2>1, <2>3 DEF SyncWrite, Sent, Answers, slaveVars
    <3> QED BY <3>1 DEF OutstandingOK
  <2>4. CASE requests' # requests
    <3> DEFINE n == [to |-> ip, life |-> slaves[ip].life, content |-> snapshot, try |-> i]
    <3>1. /\ PeerLives /\ requests' = requests \cup {n} /\ syncPc' = "read"
          /\ UNCHANGED <<snapshot, ip, i, slaves, slaveLife, held, inHand, replies>>
      BY <1>3, <2>4 DEF SyncWrite, slaveVars
    <3>2. \A s \in Slaves : \A r \in Sent(s)' : r = n /\ s = ip
      BY <2>1, <3>1 DEF Sent
    <3>3. \A s \in Slaves : Answers(s)' = {} /\ inHand'[s] = None
      BY <2>1, <3>1 DEF Answers
    <3>4. ASSUME NEW s \in Slaves, NEW r \in Sent(s)' PROVE Latest(s, r)'
      <4>1. r = n /\ s = ip /\ slaves[ip].life = slaveLife[ip]
        BY <3>1, <3>2, <3>4 DEF PeerLives
      <4> QED BY <3>1, <4>1 DEF Latest
    <3> QED BY <3>3, <3>4 DEF OutstandingOK
  <2> QED BY <2>3, <2>4
<1>4. CASE SyncAck
  <2>1. PICK r \in RepliesToBroker : replies' = replies \ {r}
    BY <1>4 DEF SyncAck
  <2>2. /\ UNCHANGED <<snapshot, i, slaves, slaveLife, held, inHand, requests>>
        /\ ip \in Slaves /\ r \in replies /\ r.to = ip /\ r.life = slaves[ip].life
    BY <1>0, <1>4, <2>1 DEF SyncAck, SyncTypeOK, RepliesToBroker
  <2>3. ASSUME NEW s \in Slaves, s # ip PROVE NoneLeft(s)'
    <3>1. NoneLeft(s)
      BY <2>3, NothingOutstanding
    <3> QED BY <2>1, <2>2, <3>1 DEF Sent, Answers
  <2>4. ASSUME NEW s \in Slaves, s = ip PROVE NoneLeft(s)'
    <3>1. CASE slaves[s].life # slaveLife[s]
      <4>1. NoneLeft(s)
        BY <3>1, NothingOutstanding
      <4> QED BY <2>1, <2>2, <4>1 DEF Sent, Answers
    <3>2. CASE slaves[s].life = slaveLife[s]
      <4>1. r \in Answers(s)
        BY <2>2, <2>4, <3>2 DEF Answers
      <4>2. Sent(s) = {} /\ inHand[s] = None
        BY <1>0, <4>1 DEF OutstandingOK
      <4>3. \A a \in Answers(s) : Latest(s, a)
        BY <1>0 DEF OutstandingOK
      <4>4. \A a \in Answers(s) : a = r
        BY <4>1, <4>3 DEF Latest
      <4>5. Answers(s)' = {}
        BY <2>1, <2>2, <4>4 DEF Answers
      <4> QED BY <2>2, <4>2, <4>5 DEF Sent
    <3> QED BY <3>1, <3>2
  <2> QED BY <2>3, <2>4 DEF OutstandingOK
<1>5. CASE SyncFailed
  <2>1. /\ ip \in Slaves /\ NoAnswerComes /\ syncPc' \in {"next", "write"}
        /\ UNCHANGED <<slaveLife, inHand, requests, replies>>
    BY <1>0, <1>5 DEF SyncFailed, SyncTypeOK, slaveVars
  <2>2. ASSUME NEW s \in Slaves PROVE NoneLeft(s)
    <3>1. CASE s # ip
      BY <3>1, NothingOutstanding
    <3>2. CASE s = ip /\ slaves[s].life # slaveLife[s]
      BY <3>2, NothingOutstanding
    <3>3. CASE s = ip /\ slaves[s].life = slaveLife[s]
      <4>1. ~Listens(s)
        BY <2>1, <3>3 DEF NoAnswerComes, PeerLives
      <4>2. Sent(s) = {} /\ inHand[s] = None
        BY <1>0, <4>1 DEF LivesOK, Sent
      <4>3. Answers(s) = {}
        BY <1>0, <2>1, <3>3 DEF NoAnswerComes, RepliesToBroker, Answers, LivesOK
      <4> QED BY <4>2, <4>3
    <3> QED BY <3>1, <3>2, <3>3
  <2>3. \A s \in Slaves : NoneLeft(s)'
    BY <2>1, <2>2 DEF Sent, Answers
  <2> QED BY <2>3 DEF OutstandingOK
<1>6. ASSUME NEW t \in Slaves, NextSlave(t) PROVE OutstandingOK'
  <2>1. \A s \in Slaves : NoneLeft(s)
    BY <1>6, NothingOutstanding DEF NextSlave
  <2>2. \A s \in Slaves : NoneLeft(s)'
    BY <1>6, <2>1 DEF NextSlave, Sent, Answers, slaveVars
  <2> QED BY <2>2 DEF OutstandingOK
<1>7. ASSUME NEW t \in Slaves, SlaveStarts(t) PROVE OutstandingOK'
  <2>1. /\ UNCHANGED <<syncPc, ip, slaves, snapshot, i, requests, replies, inHand>>
        /\ \A s \in Slaves \ {t} : held'[s] = held[s] /\ slaveLife'[s] = slaveLife[s]
        /\ slaveLife'[t] = slaveLife[t] + 1 /\ slaveLife[t] \in Nat /\ ~Listens(t)
    BY <1>0, <1>7 DEF SlaveStarts, SyncTypeOK, brokerVars, threadVars, Listens
  <2>2. Sent(t) = {} /\ inHand[t] = None
    BY <1>0, <2>1 DEF LivesOK, Sent
  <2>3. \A r \in replies : r.to = t => r.life <= slaveLife[t] /\ r.life \in Nat
    BY <1>0 DEF LivesOK, SyncTypeOK, Requests
  <2>4. NoneLeft(t)'
    BY <2>1, <2>2, <2>3 DEF Sent, Answers
  <2>5. ASSUME NEW s \in Slaves \ {t}
        PROVE  Sent(s)' = Sent(s) /\ Answers(s)' = Answers(s) /\ inHand'[s] = inHand[s]
               /\ held'[s] = held[s] /\ \A r : Latest(s, r) => Latest(s, r)'
    BY <2>1 DEF Sent, Answers, Latest
  <2>6. snapshot' = snapshot
    BY <2>1
  <2> QED BY <1>0, <2>4, <2>5, <2>6 DEF OutstandingOK
<1>8. ASSUME NEW t \in Slaves, SlaveStops(t) PROVE OutstandingOK'
  <2>1. /\ UNCHANGED <<syncPc, ip, slaves, snapshot, i, replies, held, slaveLife>>
        /\ \A s \in Slaves \ {t} : inHand'[s] = inHand[s]
        /\ requests' = {r \in requests : r.to # t} /\ inHand'[t] = None
    BY <1>0, <1>8 DEF SlaveStops, SyncTypeOK, brokerVars, threadVars
  <2>2. ASSUME NEW s \in Slaves
        PROVE  Sent(s)' \subseteq Sent(s) /\ Answers(s)' = Answers(s)
               /\ (inHand'[s] = None \/ inHand'[s] = inHand[s])
               /\ held'[s] = held[s] /\ \A r : Latest(s, r) => Latest(s, r)'
    BY <2>1 DEF Sent, Answers, Latest
  <2>3. snapshot' = snapshot
    BY <2>1
  <2> QED BY <1>0, <2>2, <2>3 DEF OutstandingOK
<1>9. ASSUME NEW t \in Slaves, SlaveTakesBroker(t) PROVE OutstandingOK'
  <2>1. PICK r \in requests : /\ r.to = t /\ r.content # None /\ held' = [held EXCEPT ![t] = r.content]
                              /\ inHand' = [inHand EXCEPT ![t] = r] /\ requests' = requests \ {r}
    BY <1>9 DEF SlaveTakesBroker, Replaced, Pending
  <2>2. UNCHANGED <<syncPc, ip, slaves, snapshot, i, replies, slaveLife>>
    BY <1>9 DEF SlaveTakesBroker, brokerVars, threadVars
  <2>3. r \in Sent(t) /\ \A a \in Sent(t) : Latest(t, a)
    BY <1>0, <2>1 DEF OutstandingOK, Sent
  <2>4. Latest(t, r) /\ \A a \in Sent(t) : a = r
    BY <2>3 DEF Latest
  <2>5. r.content = snapshot
    BY <2>4 DEF Latest
  <2>6. held'[t] = snapshot /\ inHand'[t] = r
    BY <1>0, <2>1, <2>5 DEF SyncTypeOK
  <2>7. Sent(t)' = {} /\ Answers(t)' = Answers(t)
    BY <2>1, <2>2, <2>4 DEF Sent, Answers
  <2>8. Answers(t) = {}
    BY <1>0, <2>3 DEF OutstandingOK
  <2>9. \A s \in Slaves : \A a : Latest(s, a) => Latest(s, a)'
    BY <2>2 DEF Latest
  <2>10. ASSUME NEW s \in Slaves \ {t}
         PROVE  Sent(s)' = Sent(s) /\ Answers(s)' = Answers(s) /\ inHand'[s] = inHand[s]
                /\ held'[s] = held[s]
    BY <1>0, <2>1, <2>2 DEF Sent, Answers, SyncTypeOK
  <2>11. snapshot' = snapshot
    BY <2>2
  <2> QED BY <1>0, <2>4, <2>6, <2>7, <2>8, <2>9, <2>10, <2>11 DEF OutstandingOK
<1>10. ASSUME NEW t \in Slaves, SlaveAnswers(t) PROVE OutstandingOK'
  <2>1. /\ UNCHANGED <<syncPc, ip, slaves, snapshot, i, requests, held, slaveLife>>
        /\ inHand' = [inHand EXCEPT ![t] = None] /\ replies' = replies \cup {inHand[t]}
        /\ inHand[t] # None
    BY <1>10 DEF SlaveAnswers, brokerVars, threadVars
  <2>2. Latest(t, inHand[t]) /\ held[t] = snapshot /\ Sent(t) = {} /\ inHand[t].to = t
    BY <1>0, <2>1 DEF OutstandingOK, LivesOK
  <2>3. \A s \in Slaves : \A a : Latest(s, a) => Latest(s, a)'
    BY <2>1 DEF Latest
  <2>4. Answers(t) = {}
    BY <1>0, <2>1 DEF OutstandingOK
  <2>5. Answers(t)' \subseteq {inHand[t]} /\ Sent(t)' = {} /\ inHand'[t] = None
    BY <1>0, <2>1, <2>2, <2>4 DEF Answers, Sent, SyncTypeOK
  <2>6. ASSUME NEW s \in Slaves \ {t}
        PROVE  Sent(s)' = Sent(s) /\ Answers(s)' = Answers(s) /\ inHand'[s] = inHand[s]
    BY <1>0, <2>1, <2>2 DEF Answers, Sent, SyncTypeOK
  <2>7. UNCHANGED <<held, snapshot>>
    BY <2>1
  <2> QED BY <1>0, <2>2, <2>3, <2>5, <2>6, <2>7 DEF OutstandingOK
<1>11. ASSUME NEW t \in Slaves, NEW q \in requests, SlaveMisreads(t, q) PROVE OutstandingOK'
  <2>1. /\ UNCHANGED <<syncPc, ip, slaves, snapshot, i, replies, held, slaveLife, inHand>>
        /\ requests' = requests \ {q}
    BY <1>11 DEF SlaveMisreads, brokerVars, threadVars
  <2>2. ASSUME NEW s \in Slaves
        PROVE  Sent(s)' \subseteq Sent(s) /\ Answers(s)' = Answers(s)
               /\ \A r : Latest(s, r) => Latest(s, r)'
    BY <2>1 DEF Sent, Answers, Latest
  <2>3. UNCHANGED <<held, snapshot, inHand>>
    BY <2>1
  <2> QED BY <1>0, <2>2, <2>3 DEF OutstandingOK
<1>12. ASSUME NEW S \in SUBSET Slaves, SetSlave(S) PROVE OutstandingOK'
  BY <1>0, <1>12 DEF OutstandingOK, Sent, Answers, Latest, SetSlave, threadVars, slaveVars
<1> QED BY <1>1, <1>2, <1>3, <1>4, <1>5, <1>6, <1>7, <1>8, <1>9, <1>10, <1>11, <1>12, SyncActions

-----------------------------------------------------------------------------
LEMMA SyncInvStep ==
  ASSUME SyncAssumption, SyncInv, [SyncNext]_syncVars
  PROVE  SyncInv'
BY SyncTypesStep, ThreadStep, LivesStep, OutstandingStep, AgesStep DEF SyncInv

LEMMA SyncInvariance == SyncSpec => []SyncInv
BY SyncInvInit, SyncInvStep, SyncAssumption, PTL DEF SyncSpec

(* Types of the thread's and the slaves' variables (Broker::init's _slave, *)
(* processResponse for a slave).                                           *)
THEOREM SyncTypes == SyncSpec => []SyncTypeOK
BY SyncInvariance, PTL DEF SyncInv

-----------------------------------------------------------------------------
(* What a step does to the slaves, as far as the properties are about it.  *)
LEMMA AckStep ==
  ASSUME SyncInv, [SyncNext]_syncVars, NEW s \in Slaves,
         syncPc = "read", ip = s, replies' # replies, syncPc' = "next", PeerLives
  PROVE  held[s] = snapshot
<1>1. SyncAck
  BY SyncActions
     DEF Change, StartRound, EndRound, SyncWrite, SyncFailed, NextSlave, SlaveStarts, SlaveStops,
         SlaveTakesBroker, SlaveAnswers, SlaveMisreads, SetSlave, syncVars, brokerVars,
         threadVars, slaveVars
<1>2. PICK r \in replies : r.to = s /\ r.life = slaveLife[s]
  BY <1>1 DEF SyncAck, RepliesToBroker, PeerLives
<1> QED BY <1>2 DEF SyncInv, OutstandingOK, Answers

LEMMA RefusedStep ==
  ASSUME SyncAssumption, SyncInv, [SyncNext]_syncVars, NEW s \in refused
  PROVE  held'[s] \in {held[s], 0}
<1>1. held \in [Slaves -> Nat] /\ s \in Slaves
  BY DEF SyncInv, SyncTypeOK, Contents, SyncAssumption
<1>2. ASSUME NEW t \in Slaves, SlaveTakesBroker(t) PROVE held'[s] = held[s]
  <2>1. PICK r \in requests : r.to = t /\ r.content # None /\ held' = [held EXCEPT ![t] = r.content]
    BY <1>2 DEF SlaveTakesBroker, Replaced, Pending
  <2>2. t # s
    BY <2>1 DEF SyncInv, ThreadOK
  <2> QED BY <1>1, <2>1, <2>2
<1>3. ASSUME NEW t \in Slaves, SlaveStarts(t) PROVE held'[s] \in {held[s], 0}
  BY <1>1, <1>3 DEF SlaveStarts
<1>4. UNCHANGED held \/ \E t \in Slaves : SlaveStarts(t) \/ SlaveTakesBroker(t)
  BY SyncActions
     DEF Change, StartRound, EndRound, SyncWrite, SyncAck, SyncFailed, NextSlave, SlaveStops,
         SlaveAnswers, SlaveMisreads, SetSlave, syncVars, slaveVars
<1> QED BY <1>2, <1>3, <1>4

LEMMA ReplicaStep ==
  ASSUME SyncAssumption, SyncInv, [SyncNext]_syncVars
  PROVE  [Copies!Next]_(Copies!replicaVars)
<1>0. /\ held \in [Slaves -> Nat] /\ snapshot \in Nat /\ content \in Nat
      /\ snapshot <= content /\ \A s \in Slaves : held[s] <= snapshot
  BY DEF SyncInv, SyncTypeOK, AgesOK, Contents, SyncAssumption
<1>1. CASE Change
  BY <1>1 DEF Change, Copies!Next, Copies!Change, slaveVars
<1>2. ASSUME NEW s \in Slaves, SlaveTakesBroker(s) PROVE Copies!Update(s)
  <2>1. PICK r \in Sent(s) : held' = [held EXCEPT ![s] = r.content]
    BY <1>2 DEF SlaveTakesBroker, Replaced, Pending, Sent
  <2>2. Latest(s, r)
    BY <2>1 DEF SyncInv, OutstandingOK
  <2>3. r.content = snapshot
    BY <2>2 DEF Latest
  <2>4. r.content \in held[s]..content
    BY <1>0, <2>3
  <2>5. UNCHANGED <<content, slaveLife>>
    BY <1>2 DEF SlaveTakesBroker, brokerVars
  <2> QED BY <2>1, <2>4, <2>5 DEF Copies!Update
<1>3. ASSUME NEW s \in Slaves, SlaveStarts(s) PROVE Copies!Start(s)
  BY <1>3 DEF SlaveStarts, Copies!Start, brokerVars
<1>4. UNCHANGED <<content, held, slaveLife>> \/ Change
      \/ \E s \in Slaves : SlaveStarts(s) \/ SlaveTakesBroker(s)
  BY SyncActions
     DEF StartRound, EndRound, SyncWrite, SyncAck, SyncFailed, NextSlave, SlaveStops,
         SlaveAnswers, SlaveMisreads, SetSlave, syncVars, brokerVars, slaveVars
<1> QED BY <1>1, <1>2, <1>3, <1>4 DEF Copies!Next, Copies!replicaVars

(* An ack that ends the attempts at a slave says that it holds the broker  *)
(* of this round, however often it was started anew.                       *)
THEOREM AcksMeanHeld == SyncSpec => AckMeansHeld
<1>1. SyncInv /\ [SyncNext]_syncVars =>
        [\A s \in Slaves :
           syncPc = "read" /\ ip = s /\ replies' # replies /\ syncPc' = "next" /\ PeerLives
             => held[s] = snapshot]_syncVars
  BY AckStep
<1> QED BY <1>1, SyncInvariance, PTL DEF SyncSpec, AckMeansHeld

(* The slaves' copies are replicas of the broker: whatever is lost, late   *)
(* or carried out for a round that is over, they neither go back nor get   *)
(* ahead (SyncSend in _slave, anti_serialize_to_Broker).                   *)
THEOREM SlavesAreReplicas == SyncSpec => ImplementsReplica
<1>1. SyncInit => Copies!Init
  BY DEF SyncInit, Copies!Init
<1>2. SyncInv /\ [SyncNext]_syncVars => [Copies!Next]_(Copies!replicaVars)
  BY ReplicaStep, SyncAssumption
<1> QED BY <1>1, <1>2, SyncInvariance, PTL DEF SyncSpec, ImplementsReplica, Copies!Safety

(* A slave that was refused once is never sent the broker any more         *)
(* (slave.erase in _slave).                                                *)
THEOREM RefusedForGood == SyncSpec => GivenUpForGood
<1>1. SyncInv /\ [SyncNext]_syncVars =>
        [\A s \in refused : held'[s] \in {held[s], 0}]_syncVars
  BY RefusedStep, SyncAssumption
<1> QED BY <1>1, SyncInvariance, PTL DEF SyncSpec, GivenUpForGood
==============================================================================
