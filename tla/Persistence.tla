----------------------------- MODULE Persistence -----------------------------
(***************************************************************************)
(* The broker with its persistence thread, crashes and recovery.           *)
(* BrokerPersistence takes the broker by value: its members are copied in  *)
(* the order of their declaration while the other two threads run, then    *)
(* the file is truncated and written.  A process that is started again has *)
(* its threads running on an empty broker, and `broker = broker.recover()' *)
(* assigns the members one by one.                                         *)
(***************************************************************************)
EXTENDS Broker

CONSTANTS
  MaxSaves,         (* bound: saves begun                                  *)
  MaxCrashes        (* bound: restarts                                     *)

ASSUME PersistenceAssumption == MaxSaves \in Nat /\ MaxCrashes \in Nat

VARIABLES
  saver,      \* the persistence thread: "sleep", "copy", "write"
  todo,       \* the members it has still to copy
  copy,       \* BrokerPersistence's parameter, so far
  reading,    \* the queue being copied: a set of at most one
  file,       \* BrokerPersistenceJson.json
  recovery,   \* the main thread: "read", "assign", "off"
  restoring,  \* the members it has still to assign
  restored,   \* what BrokerRecovery returned
  crashes,    \* restarts so far
  saves,      \* saves begun so far
  \* history
  began,      \* the queues and their messages when the save began
  torn        \* queues that changed while they were copied

saverVars    == <<saver, todo, copy, reading, file, saves, began, torn>>
recoveryVars == <<recovery, restoring, restored, crashes>>

(* A default-constructed broker, and this one. *)
Blank == [count |-> 0, queueList |-> [q \in {} |-> {}],
          topicQueueMap |-> [t \in Topics |-> {}], topicConsumerMap |-> [t \in Topics |-> {}],
          index |-> {}, clients |-> [c \in IpNodes |-> NoFd]]

Members == [count |-> count, queueList |-> queueList,
            topicQueueMap |-> topicQueueMap, topicConsumerMap |-> topicConsumerMap,
            index |-> index, clients |-> clients]

(* Mutated forms: the declarations in another order; a member forgotten. *)
MapBeforeQueues == <<"topicQueueMap", "queueList", "topicConsumerMap", "index", "clients">>
IndexBeforeFilter == <<"queueList", "topicQueueMap", "index", "topicConsumerMap", "clients">>
QueuesForgotten == <<"topicQueueMap", "topicConsumerMap", "index", "clients">>

(* The order in which Broker declares its members, after count. *)
MemberOrder == <<"queueList", "topicQueueMap", "topicConsumerMap", "index", "clients">>

PersistenceInit ==
  /\ Init
  /\ saver = "sleep" /\ todo = <<>> /\ copy = Blank /\ reading = {}
  /\ began = Blank.queueList /\ torn = {}
  /\ file = [state |-> "missing", broker |-> Blank] /\ saves = 0
  /\ recovery = "off" /\ restoring = <<>> /\ restored = Blank /\ crashes = 0

Running == pushPc \notin {"killed", "exited"}

-----------------------------------------------------------------------------
(* The persistence thread.  store_Time is no bound on anything, and with   *)
(* startPersistence off there is no sleep: a save may begin at any time,   *)
(* during a recovery too.                                                  *)
StartSave ==
  /\ Running /\ saver = "sleep"
  /\ saves < MaxSaves /\ saves' = saves + 1
  /\ saver' = "copy" /\ todo' = MemberOrder
  /\ began' = queueList
  /\ copy' = [Blank EXCEPT !.count = count]
  /\ UNCHANGED <<reading, file, torn, recoveryVars, vars>>

Holds(q) == IF q \in DOMAIN queueList THEN queueList[q] ELSE {}

Copied(q, messages) ==
  [copy EXCEPT !.queueList = [r \in DOMAIN copy.queueList \cup {q} |->
                                IF r = q THEN messages ELSE copy.queueList[r]]]

(* The table is copied queue by queue. *)
StartQueue(q) ==
  /\ Running /\ saver = "copy" /\ todo # <<>> /\ Head(todo) = "queueList"
  /\ reading = {} /\ q \in DOMAIN queueList \ DOMAIN copy.queueList
  /\ reading' = {q}
  /\ copy' = Copied(q, {})
  /\ UNCHANGED <<saver, todo, file, saves, began, torn, recoveryVars, vars>>

(* MyQueue's copy constructor takes no lock: what it gets of the heap is   *)
(* read while messages are pushed and popped.                              *)
CopyMessage(q, i) ==
  /\ Running /\ q \in reading
  /\ i \in Holds(q) \ copy.queueList[q]
  /\ copy' = Copied(q, copy.queueList[q] \cup {i})
  /\ UNCHANGED <<saver, todo, reading, file, saves, began, torn, recoveryVars, vars>>

(* A heap that has changed meanwhile, though it holds the same again, may  *)
(* have moved any message out of the copy's way.                           *)
EndQueue(q) ==
  /\ Running /\ q \in reading
  /\ Holds(q) \subseteq copy.queueList[q] \/ q \in torn
  /\ reading' = {}
  /\ UNCHANGED <<saver, todo, copy, file, saves, began, torn, recoveryVars, vars>>

(* What a step of another thread does to the copy that is being made. *)
UnderCopy ==
  /\ torn' = torn \cup {q \in reading : Holds(q)' # Holds(q)}
  /\ UNCHANGED <<saver, todo, copy, reading, file, saves, began>>

(* No lock is held: a table that has grown may have moved what was not yet *)
(* copied out of the copy's way.                                           *)
TableCopied ==
  DOMAIN began \subseteq DOMAIN copy.queueList \/ DOMAIN queueList # DOMAIN began

CopyMember ==
  /\ Running /\ saver = "copy" /\ todo # <<>> /\ reading = {}
  /\ IF Head(todo) = "queueList"
     THEN TableCopied /\ UNCHANGED copy
     ELSE copy' = [copy EXCEPT ![Head(todo)] = Members[Head(todo)]]
  /\ todo' = Tail(todo)
  /\ UNCHANGED <<saver, reading, file, saves, began, torn, recoveryVars, vars>>

(* ofstream::open truncates the file; what is written may stop anywhere. *)
OpenFile ==
  /\ Running /\ saver = "copy" /\ todo = <<>>
  /\ saver' = "write"
  /\ file' = [state |-> "torn", broker |-> Blank]
  /\ UNCHANGED <<todo, copy, reading, saves, began, torn, recoveryVars, vars>>

WriteFile ==
  /\ Running /\ saver = "write"
  /\ saver' = "sleep" /\ copy' = Blank /\ began' = Blank.queueList /\ torn' = {}
  /\ file' = [state |-> "complete", broker |-> copy]
  /\ UNCHANGED <<todo, reading, saves, recoveryVars, vars>>

-----------------------------------------------------------------------------
(* The process ends, now or before, and is started again. *)
Restart ==
  /\ crashes < MaxCrashes /\ crashes' = crashes + 1
  /\ count' = 0 /\ queueList' = Blank.queueList /\ topicQueueMap' = Blank.topicQueueMap
  /\ topicConsumerMap' = Blank.topicConsumerMap /\ index' = {} /\ clients' = Blank.clients
  /\ deadQueue' = {} /\ socket' = <<>>
  /\ ServerIdle
  /\ pushPc' = "sleep" /\ roundQueues' = {} /\ visited' = {} /\ batch' = {}
  /\ t_map' = [c \in IpNodes |-> {}]
  /\ consumer' = None /\ fd' = NoFd /\ outbox' = {} /\ tries' = 0 /\ pass' = {}
  /\ saver' = "sleep" /\ todo' = <<>> /\ copy' = Blank /\ reading' = {}
  /\ began' = Blank.queueList /\ torn' = {}
  /\ recovery' = "read" /\ restoring' = <<>> /\ restored' = Blank
  /\ UNCHANGED <<file, saves, histVars>>

(* BrokerRecovery: a file that is missing or cannot be parsed gives a blank *)
(* broker.                                                                  *)
ReadFile ==
  /\ Running /\ recovery = "read"
  /\ recovery' = "assign" /\ restoring' = <<"count">> \o MemberOrder
  /\ restored' = IF file.state = "complete" THEN file.broker ELSE Blank
  /\ UNCHANGED <<crashes, saverVars, vars>>

(* Mutated form: the last member is left out. *)
LastButOne == Len(restoring) = 2

LastMember == Len(restoring) = 1

(* One member of operator=; the dead-letter queue is empty on both sides. *)
AssignMember ==
  /\ Running /\ recovery = "assign" /\ restoring # <<>>
  /\ LET After(name) == IF Head(restoring) = name THEN restored[name] ELSE Members[name] IN
       /\ count' = After("count") /\ queueList' = After("queueList")
       /\ topicQueueMap' = After("topicQueueMap")
       /\ topicConsumerMap' = After("topicConsumerMap")
       /\ index' = After("index") /\ clients' = After("clients")
  /\ restoring' = Tail(restoring)
  /\ recovery' = IF LastMember THEN "off" ELSE "assign"
  /\ UnderCopy
  /\ UNCHANGED <<restored, crashes, deadQueue, srvVars, pushVars, socket, histVars>>

Save ==
  \/ StartSave \/ CopyMember \/ OpenFile \/ WriteFile
  \/ \E q \in DOMAIN queueList : StartQueue(q)
  \/ \E q \in reading : EndQueue(q) \/ \E i \in Holds(q) : CopyMessage(q, i)

Recover == ReadFile \/ AssignMember

PersistenceNext ==
  \/ Save \/ Recover \/ Restart
  \/ Next /\ UnderCopy /\ UNCHANGED recoveryVars

persistenceVars == <<vars, saverVars, recoveryVars>>

PersistenceSpec == PersistenceInit /\ [][PersistenceNext]_persistenceVars
==============================================================================
