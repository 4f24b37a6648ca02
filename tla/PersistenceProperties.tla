------------------------ MODULE PersistenceProperties ------------------------
(***************************************************************************)
(* What a file written by the persistence thread can be relied on for, and *)
(* what a recovery keeps.                                                  *)
(***************************************************************************)
EXTENDS Persistence, BrokerProperties

QueuedIn(b) == {i.id : i \in UNION {b.queueList[q] : q \in DOMAIN b.queueList}}

(* A broker's members. *)
IsSnapshot(b) ==
  /\ b.count \in Nat
  /\ DOMAIN b.queueList \subseteq Nat
  /\ b.queueList \in [DOMAIN b.queueList -> SUBSET Arrivals]
  /\ b.topicQueueMap \in [Topics -> SUBSET Nat]
  /\ b.topicConsumerMap \in [Topics -> SUBSET IpNodes]
  /\ b.index \subseteq IpNodes /\ b.clients \in [IpNodes -> Nat]

(* Types, in every life of the broker; and a recovery is going on exactly  *)
(* while members are missing.                                              *)
PersistenceTypeOK ==
  /\ TypeOK
  /\ saver \in {"sleep", "copy", "write"}
  /\ recovery \in {"read", "assign", "off"}
  /\ file.state \in {"missing", "torn", "complete"}
  /\ \A b \in {Members, copy, restored, file.broker} : IsSnapshot(b)
  /\ todo # <<>> => saver = "copy"
  /\ reading # {} => saver = "copy"
  /\ reading \cup torn \subseteq DOMAIN copy.queueList
  /\ (restoring # <<>>) <=> (recovery = "assign")

FirstFile == crashes = 0 /\ file.state = "complete"

(* The copy is taken while the server thread adds queues and messages, so  *)
(* it shows no state the broker was ever in.  Because queueList is declared*)
(* before topicQueueMap, the queue of every message in the file is one of  *)
(* its topic's in the file, so recovery strands no message.                *)
SavedMessagesMapped ==
  FirstFile =>
    \A q \in DOMAIN file.broker.queueList : \A i \in file.broker.queueList[q] :
      q = 0 \/ q \in file.broker.topicQueueMap[i.msg.topic]

(* Likewise for the consumers: filter is declared before index and clients,*)
(* so a subscriber in the file is registered in the file and has its entry.*)
SavedConsumersKnown ==
  FirstFile =>
    \A t \in Topics : \A c \in file.broker.topicConsumerMap[t] :
      c \in file.broker.index /\ file.broker.clients[c] # NoFd

(* A message that was queued when a save began and still is when the file  *)
(* is closed is in the file, whatever the threads do between, unless its   *)
(* queue or the set of queues changed while it was itself copied: a copy   *)
(* without the lock may lose messages (MyQueue::getAndRemove and getAll).  *)
QueuedIsSaved ==
  [][FirstFile' /\ file.state = "torn" /\ DOMAIN queueList = DOMAIN began =>
       \A q \in DOMAIN began \ torn :
         /\ q \in DOMAIN file'.broker.queueList
         /\ began[q] \cap queueList[q] \subseteq file'.broker.queueList[q]]_persistenceVars

(* What a recovery has brought back stays in a queue until a round takes   *)
(* it, although count may come back behind the queues, so that             *)
(* syncCreateQueue inserts a queue that is there, and although the threads *)
(* run while the members are assigned.                                     *)
RecoveredNotLost ==
  recovery = "off" /\ Running =>
    QueuedIn(restored) \subseteq QueuedIn(Members) \cup {i.id : i \in batch} \cup handled

(* A message that a round has handled is in the broker again only because  *)
(* a recovery brought it back: what the consumers can get twice is what    *)
(* the file held, whatever is received, saved and polled during a recovery.*)
RedeliveredWasSaved ==
  (InHand \cup AllQueued \cup Batched) \cap handled \subseteq QueuedIn(restored)
==============================================================================
