---------------------------- MODULE RecoveryProofs ----------------------------
(***************************************************************************)
(* The broker over any number of crashes and recoveries.  What operator=   *)
(* puts in place was put together member by member, so none of what        *)
(* relates the members to one another in a first life holds any more; the  *)
(* types do, and what can be said of where a message is.                   *)
(***************************************************************************)
EXTENDS PersistenceProofs

(* The members operator= has still to assign. *)
ToAssign == {<<"count", "queueList", "topicQueueMap", "topicConsumerMap", "index", "clients">>,
             <<"queueList", "topicQueueMap", "topicConsumerMap", "index", "clients">>,
             <<"topicQueueMap", "topicConsumerMap", "index", "clients">>,
             <<"topicConsumerMap", "index", "clients">>, <<"index", "clients">>,
             <<"clients">>}

AllKept ==
  QueuedIn(restored) \subseteq QueuedIn(Members) \cup {i.id : i \in batch} \cup handled

RecoveryInv ==
  /\ recovery = "assign" => restoring \in ToAssign
  /\ recovery = "off" \/ (recovery = "assign" /\ Len(restoring) <= 4) => AllKept

LEMMA AllMembers ==
  <<"count">> \o MemberOrder =
    <<"count", "queueList", "topicQueueMap", "topicConsumerMap", "index", "clients">>
<1> DEFINE all == <<"count", "queueList", "topicQueueMap", "topicConsumerMap", "index", "clients">>
<1>1. /\ <<"count">> \in Seq(Fields) /\ Len(<<"count">>) = 1 /\ <<"count">>[1] = "count"
      /\ MemberOrder \in Seq(Fields) /\ Len(MemberOrder) = 5
      /\ all \in Seq(Fields) /\ Len(all) = 6 /\ all[1] = "count"
  <2>0. <<"count">> \in Seq(Fields)
    <3>1. "count" \in Fields
      BY DEF Fields
    <3> QED BY <3>1
  <2>1. Len(<<"count">>) = 1 /\ <<"count">>[1] = "count"
    OBVIOUS
  <2>2. MemberOrder \in Seq(Fields)
    BY DEF MemberOrder, Fields
  <2>3. all \in Seq(Fields)
    BY DEF Fields
  <2>4. Len(MemberOrder) = 5
    BY DEF MemberOrder
  <2>5. Len(all) = 6
    OBVIOUS
  <2>6. all[1] = "count"
    OBVIOUS
  <2> QED BY <2>0, <2>1, <2>2, <2>3, <2>4, <2>5, <2>6
<1>2. /\ MemberOrder[1] = all[2] /\ MemberOrder[2] = all[3] /\ MemberOrder[3] = all[4]
      /\ MemberOrder[4] = all[5] /\ MemberOrder[5] = all[6]
  BY DEF MemberOrder
<1> HIDE DEF all
<1> DEFINE one == <<"count">>
<1> HIDE DEF one
<1>3. /\ one \in Seq(Fields) /\ Len(one) = 1 /\ one[1] = "count"
      /\ MemberOrder \in Seq(Fields) /\ Len(MemberOrder) = 5
  BY <1>1 DEF one
<1>4. /\ one \o MemberOrder \in Seq(Fields)
      /\ Len(one \o MemberOrder) = Len(one) + Len(MemberOrder)
      /\ \A i \in 1..(Len(one) + Len(MemberOrder)) :
           (one \o MemberOrder)[i] = IF i <= Len(one) THEN one[i] ELSE MemberOrder[i - Len(one)]
  BY <1>3, ConcatProperties
<1>5. \A i \in 1..6 : (one \o MemberOrder)[i] = all[i]
  <2>1. \A i \in 1..6 : i = 1 \/ i = 2 \/ i = 3 \/ i = 4 \/ i = 5 \/ i = 6
    OBVIOUS
  <2> QED BY <1>1, <1>2, <1>3, <1>4, <2>1
<1>6. Len(one \o MemberOrder) = 6
  BY <1>3, <1>4
<1>7. one \o MemberOrder = all
  <2> DEFINE both == one \o MemberOrder
  <2>1. /\ both \in Seq(Fields) /\ all \in Seq(Fields) /\ Len(both) = Len(all)
        /\ \A i \in 1..Len(both) : both[i] = all[i]
    BY <1>1, <1>4, <1>5, <1>6
  <2> HIDE DEF both
  <2>2. both = all
    BY <2>1, SeqEqual
  <2> QED BY <2>2 DEF both
<1> QED BY <1>7 DEF all, one

LEMMA RecoveryInit == ASSUME PersistenceInit PROVE RecoveryInv
<1>1. restored.queueList = [q \in {} |-> {}] /\ recovery = "off"
  BY DEF PersistenceInit, Blank
<1>2. QueuedIn(restored) = {}
  BY <1>1 DEF QueuedIn
<1> QED BY <1>1, <1>2 DEF RecoveryInv, AllKept

(* What an entry holds is there after a step, or in the batch. *)
LEMMA EntriesKept ==
  ASSUME [Next]_vars, NEW q \in DOMAIN queueList, NEW i \in queueList[q]
  PROVE  (q \in DOMAIN queueList' /\ i \in queueList'[q]) \/ i \in batch'
<1>1. ASSUME NEW r, SyncAdd(r) PROVE q \in DOMAIN queueList' /\ i \in queueList'[q]
  <2>1. queueList' = [Accessed(r) EXCEPT ![r] = @ \cup {req}]
    BY <1>1 DEF SyncAdd
  <2> QED BY <2>1 DEF Accessed
<1>2. CreateQueue => q \in DOMAIN queueList' /\ i \in queueList'[q]
  BY DEF CreateQueue, Accessed
<1>3. ASSUME NEW r \in DOMAIN queueList, PollQueue(r)
      PROVE  (q \in DOMAIN queueList' /\ i \in queueList'[q]) \/ i \in batch'
  BY <1>3 DEF PollQueue, Removed
<1>4. \/ queueList' = queueList \/ CreateQueue \/ \E r \in QueueNumbers : SyncAdd(r)
      \/ \E r \in DOMAIN queueList : PollQueue(r)
  BY DEF Next, ReadRequest, ServeRequest, PushThread, Environment, Register,
         RequestQueue, AddRequest, DeleteRequest, ReceiveMessage, ProducerFails, ProcessEnds,
         GreetConsumer, AddTopicConsumer, DeleteTopicConsumer, TopicRequestDone,
         CopySize, ReplyAck, ProducerReads, StartRound, EndPoll, Classify, EndClassify,
         SelectConsumer, EndRound, Send, Receive, StartRetry, Retry, ConsumerReads,
         ConsumerExits, vars, members, queueVars
<1> QED BY <1>1, <1>2, <1>3, <1>4

(* The batch is only left by being handled. *)
LEMMA BatchHandled ==
  ASSUME [Next]_vars
  PROVE  /\ \A i \in batch : i \in batch' \/ i.id \in handled'
         /\ handled \subseteq handled'
<1>1. \A i \in batch : Classify(i) =>
        (\A j \in batch : j \in batch' \/ j.id \in handled') /\ handled \subseteq handled'
  BY DEF Classify
<1>2. \A q \in DOMAIN queueList : PollQueue(q) => batch \subseteq batch' /\ handled' = handled
  BY DEF PollQueue, histVars
<1>3. \/ batch' = batch /\ handled' = handled
      \/ \E i \in batch : Classify(i)
      \/ \E q \in DOMAIN queueList : PollQueue(q)
  BY DEF Next, ReadRequest, ServeRequest, PushThread, Environment, Register,
         RequestQueue, AddRequest, DeleteRequest, ReceiveMessage, ProducerFails, ProcessEnds,
         GreetConsumer, CreateQueue, AddTopicConsumer, DeleteTopicConsumer, TopicRequestDone,
         CopySize, SyncAdd, ReplyAck, ProducerReads, StartRound, EndPoll, EndClassify,
         SelectConsumer, EndRound, Send, Receive, StartRetry, Retry, ConsumerReads,
         ConsumerExits, vars, pushVars, histVars
<1> QED BY <1>1, <1>2, <1>3

LEMMA BrokerKeepsAll ==
  ASSUME [Next]_vars, restored' = restored, AllKept PROVE AllKept'
<1> SUFFICES ASSUME NEW k \in QueuedIn(restored)
             PROVE  k \in QueuedIn(Members') \cup {i.id : i \in batch'} \cup handled'
  BY DEF AllKept, QueuedIn
<1>1. Members.queueList = queueList /\ Members'.queueList = queueList'
  BY DEF Members
<1>2. k \in QueuedIn(Members) \/ k \in {i.id : i \in batch} \/ k \in handled
  BY DEF AllKept
<1>3. CASE k \in QueuedIn(Members)
  <2>1. PICK q \in DOMAIN queueList : \E i \in queueList[q] : i.id = k
    BY <1>1, <1>3 DEF QueuedIn
  <2>2. PICK i \in queueList[q] : i.id = k
    BY <2>1
  <2>3. (q \in DOMAIN queueList' /\ i \in queueList'[q]) \/ i \in batch'
    BY EntriesKept
  <2> QED BY <1>1, <2>2, <2>3 DEF QueuedIn
<1>4. CASE k \in {i.id : i \in batch} \/ k \in handled
  BY <1>4, BatchHandled
<1> QED BY <1>2, <1>3, <1>4

(* One member of operator=. *)
LEMMA AssignKeeps ==
  ASSUME RecoveryInv, AssignMember PROVE RecoveryInv'
<1>1. /\ recovery = "assign" /\ restoring \in ToAssign /\ restoring' = Tail(restoring)
      /\ recovery' = IF Len(restoring) = 1 THEN "off" ELSE "assign"
      /\ UNCHANGED <<restored, batch, handled>>
  BY DEF RecoveryInv, AssignMember, LastMember, pushVars, histVars
<1>2. queueList' = IF Head(restoring) = "queueList" THEN restored.queueList ELSE queueList
  BY DEF AssignMember, Members
<1>3. Members.queueList = queueList /\ Members'.queueList = queueList'
  BY DEF Members
<1>4. /\ recovery' = "assign" => restoring' \in ToAssign
      /\ Len(restoring') <= 4 /\ Head(restoring) # "queueList" => Len(restoring) <= 4
      /\ recovery' = "off" => Head(restoring) # "queueList" /\ Len(restoring) <= 4
  <2>1. CASE restoring = <<"count", "queueList", "topicQueueMap", "topicConsumerMap", "index",
                           "clients">>
    BY <1>1, <2>1 DEF ToAssign
  <2>2. CASE restoring = <<"queueList", "topicQueueMap", "topicConsumerMap", "index", "clients">>
    BY <1>1, <2>2 DEF ToAssign
  <2>3. CASE restoring = <<"topicQueueMap", "topicConsumerMap", "index", "clients">>
    BY <1>1, <2>3 DEF ToAssign
  <2>4. CASE restoring = <<"topicConsumerMap", "index", "clients">>
    BY <1>1, <2>4 DEF ToAssign
  <2>5. CASE restoring = <<"index", "clients">>
    BY <1>1, <2>5 DEF ToAssign
  <2>6. CASE restoring = <<"clients">>
    BY <1>1, <2>6 DEF ToAssign
  <2> QED BY <1>1, <2>1, <2>2, <2>3, <2>4, <2>5, <2>6 DEF ToAssign
<1>5. CASE Head(restoring) = "queueList"
  <2>1. QueuedIn(Members') = QueuedIn(restored)
    BY <1>2, <1>3, <1>5 DEF QueuedIn
  <2> QED BY <1>1, <1>4, <2>1 DEF RecoveryInv, AllKept, QueuedIn
<1>6. CASE Head(restoring) # "queueList"
  <2>2. AllKept => AllKept'
    <3>1. QueuedIn(Members)' = QueuedIn(Members)
      BY <1>2, <1>3, <1>6 DEF QueuedIn
    <3>2. QueuedIn(restored)' = QueuedIn(restored)
      BY <1>1
    <3> QED BY <1>1, <3>1, <3>2 DEF AllKept
  <2>3. recovery' = "off" \/ (recovery' = "assign" /\ Len(restoring') <= 4) => Len(restoring) <= 4
    BY <1>4, <1>6
  <2>4. Len(restoring) <= 4 => AllKept'
    BY <1>1, <2>2 DEF RecoveryInv
  <2>5. recovery' = "assign" => restoring' \in ToAssign
    BY <1>4
  <2> QED BY <2>3, <2>4, <2>5 DEF RecoveryInv
<1> QED BY <1>5, <1>6

LEMMA RecoveryStep ==
  ASSUME RecoveryInv, [PersistenceNext]_persistenceVars PROVE RecoveryInv'
<1>1. CASE Restart
  BY <1>1 DEF Restart, RecoveryInv
<1>2. CASE ReadFile
  <2>1. recovery' = "assign" /\ restoring' = <<"count">> \o MemberOrder
    BY <1>2 DEF ReadFile
  <2>2. restoring' = <<"count", "queueList", "topicQueueMap", "topicConsumerMap", "index",
                       "clients">> /\ Len(restoring') = 6
    BY <2>1, AllMembers
  <2>3. restoring' \in ToAssign
    BY <2>2 DEF ToAssign
  <2>4. ~(Len(restoring') <= 4)
    BY <2>2
  <2> QED BY <2>1, <2>3, <2>4 DEF RecoveryInv
<1>3. CASE AssignMember
  BY <1>3, AssignKeeps
<1>4. CASE Save
  <2>1. UNCHANGED <<recoveryVars, vars>>
    BY <1>4 DEF Save, StartSave, CopyMember, OpenFile, WriteFile, StartQueue,
        CopyMessage, EndQueue
  <2>2. UNCHANGED <<recovery, restoring, restored>> /\ [Next]_vars
    BY <2>1 DEF recoveryVars
  <2> QED BY <2>2, BrokerKeepsAll DEF RecoveryInv
<1>5. CASE [Next]_vars /\ UNCHANGED recoveryVars
  <2>1. UNCHANGED <<recovery, restoring, restored>>
    BY <1>5 DEF recoveryVars
  <2> QED BY <1>5, <2>1, BrokerKeepsAll DEF RecoveryInv
<1> QED BY <1>1, <1>2, <1>3, <1>4, <1>5 DEF PersistenceNext, Recover, persistenceVars

(* No message that a recovery brought back leaves the queues but through a *)
(* round of the push thread (operator=, syncCreateQueue, syncAdd, syncPoll).*)
THEOREM RecoveredMessagesKept == PersistenceSpec => []RecoveredNotLost
<1>1. RecoveryInv => RecoveredNotLost
  BY DEF RecoveryInv, AllKept, RecoveredNotLost
<1> QED BY <1>1, RecoveryInit, RecoveryStep, PTL DEF PersistenceSpec
-----------------------------------------------------------------------------
(* Types in every life.  A broker that is kept anywhere has the members of *)
(* a broker, and its queues are finite.                                    *)
KeptBroker(b) ==
  /\ DOMAIN b = Fields /\ IsSnapshot(b)
  /\ \A q \in DOMAIN b.queueList : IsFiniteSet(b.queueList[q])

(* A queue is being copied while the table is, and what changed under a    *)
(* copy is known until that copy is written.                               *)
ReadingTypes ==
  /\ reading # {} => saver = "copy" /\ todo # <<>>
  /\ reading \cup torn \subseteq DOMAIN copy.queueList
  /\ saver = "sleep" => torn = {}

LifeInv ==
  /\ LifeTypes /\ RecoveryInv /\ ReadingTypes
  /\ saver \in {"sleep", "copy", "write"} /\ recovery \in {"read", "assign", "off"}
  /\ file.state \in {"missing", "torn", "complete"}
  /\ KeptBroker(copy) /\ KeptBroker(restored) /\ KeptBroker(file.broker)
  /\ todo \in ToCopy /\ (todo # <<>> => saver = "copy")
  /\ recovery # "assign" => restoring = <<>>

LEMMA BlankKept == KeptBroker(Blank)
<1>1. DOMAIN Blank = Fields
  BY DEF Blank, Fields
<1>2. IsSnapshot(Blank)
  <2>1. /\ Blank.count = 0 /\ Blank.queueList = [q \in {} |-> {}]
        /\ Blank.topicQueueMap = [t \in Topics |-> {}]
        /\ Blank.topicConsumerMap = [t \in Topics |-> {}]
        /\ Blank.index = {} /\ Blank.clients = [c \in IpNodes |-> NoFd]
    BY DEF Blank
  <2>2. Blank.queueList \in [DOMAIN Blank.queueList -> SUBSET Arrivals]
    BY <2>1
  <2> QED BY <2>1, <2>2 DEF IsSnapshot, NoFd
<1>3. DOMAIN Blank.queueList = {}
  BY DEF Blank
<1> QED BY <1>1, <1>2, <1>3 DEF KeptBroker

LEMMA MembersKept == ASSUME LifeTypes PROVE KeptBroker(Members)
<1>1. DOMAIN Members = Fields
  BY DEF Members, Fields
<1>2. /\ Members.count = count /\ Members.queueList = queueList
      /\ Members.topicQueueMap = topicQueueMap /\ Members.topicConsumerMap = topicConsumerMap
      /\ Members.index = index /\ Members.clients = clients
  BY DEF Members
<1>3. IsSnapshot(Members)
  BY <1>2 DEF IsSnapshot, LifeTypes, TypeOK, SharedTypes
<1> QED BY <1>1, <1>2, <1>3 DEF KeptBroker, LifeTypes, QueuesFinite

LEMMA LifeInit == ASSUME BrokerAssumption, PersistenceInit PROVE LifeInv
<1>1. LifeTypes
  BY TypeInvInit DEF PersistenceInit, TypeInv
<1>2. <<>> \in ToCopy
  BY DEF ToCopy
<1>3. ReadingTypes
  BY DEF PersistenceInit, ReadingTypes
<1> QED BY <1>1, <1>2, <1>3, RecoveryInit, BlankKept DEF PersistenceInit, LifeInv

(* One member of a kept broker replaced by that of another. *)
LEMMA MemberReplaced ==
  ASSUME NEW b, NEW d, KeptBroker(b), KeptBroker(d), NEW name \in Fields,
         NEW e, e = [b EXCEPT ![name] = d[name]]
  PROVE  KeptBroker(e)
<1>1. /\ DOMAIN e = Fields
      /\ \A f \in Fields : e[f] = IF f = name THEN d[f] ELSE b[f]
  BY DEF KeptBroker
<1>2. "count" \in Fields /\ e.count \in Nat
  BY <1>1 DEF KeptBroker, IsSnapshot, Fields
<1>3. /\ DOMAIN e.queueList \subseteq Nat
      /\ e.queueList \in [DOMAIN e.queueList -> SUBSET Arrivals]
      /\ \A q \in DOMAIN e.queueList : IsFiniteSet(e.queueList[q])
  <2>1. e.queueList = b.queueList \/ e.queueList = d.queueList
    BY <1>1 DEF Fields
  <2> QED BY <2>1 DEF KeptBroker, IsSnapshot
<1>4. /\ e.topicQueueMap \in [Topics -> SUBSET Nat]
      /\ e.topicConsumerMap \in [Topics -> SUBSET IpNodes]
      /\ e.index \subseteq IpNodes /\ e.clients \in [IpNodes -> Nat]
  <2>1. /\ e.topicQueueMap = b.topicQueueMap \/ e.topicQueueMap = d.topicQueueMap
        /\ e.topicConsumerMap = b.topicConsumerMap \/ e.topicConsumerMap = d.topicConsumerMap
        /\ e.index = b.index \/ e.index = d.index
        /\ e.clients = b.clients \/ e.clients = d.clients
    BY <1>1 DEF Fields
  <2> QED BY <2>1 DEF KeptBroker, IsSnapshot
<1> QED BY <1>1, <1>2, <1>3, <1>4 DEF KeptBroker, IsSnapshot

(* Of a queue that is being copied some messages are in the copy. *)
LEMMA QueueAdded ==
  ASSUME KeptBroker(copy), NEW q \in Nat, NEW S \in SUBSET Arrivals, IsFiniteSet(S),
         copy' = Copied(q, S)
  PROVE  /\ KeptBroker(copy') /\ DOMAIN copy'.queueList = DOMAIN copy.queueList \cup {q}
         /\ copy'.queueList[q] = S
         /\ \A r \in DOMAIN copy.queueList : r # q => copy'.queueList[r] = copy.queueList[r]
<1> DEFINE ql == [r \in DOMAIN copy.queueList \cup {q} |->
                    IF r = q THEN S ELSE copy.queueList[r]]
<1>1. copy' = [copy EXCEPT !.queueList = ql]
  BY DEF Copied
<1>2. /\ DOMAIN ql \subseteq Nat /\ ql \in [DOMAIN ql -> SUBSET Arrivals]
      /\ \A r \in DOMAIN ql : IsFiniteSet(ql[r])
  BY DEF KeptBroker, IsSnapshot
<1>3. /\ DOMAIN ql = DOMAIN copy.queueList \cup {q} /\ ql[q] = S
      /\ \A r \in DOMAIN copy.queueList : r # q => ql[r] = copy.queueList[r]
  OBVIOUS
<1> HIDE DEF ql
<1>4. /\ DOMAIN copy' = Fields /\ copy'.queueList = ql
      /\ copy'.count = copy.count /\ copy'.topicQueueMap = copy.topicQueueMap
      /\ copy'.topicConsumerMap = copy.topicConsumerMap
      /\ copy'.index = copy.index /\ copy'.clients = copy.clients
  BY <1>1 DEF KeptBroker, Fields
<1>5. KeptBroker(copy')
  BY <1>2, <1>4 DEF KeptBroker, IsSnapshot
<1> QED BY <1>3, <1>4, <1>5

(* The steps that copy a queue. *)
LEMMA QueueStep ==
  ASSUME LifeInv, NEW q,
         (StartQueue(q) /\ q \in DOMAIN queueList) \/ \E i \in Holds(q) : CopyMessage(q, i)
  PROVE  \E S \in SUBSET Arrivals :
           /\ q \in Nat /\ IsFiniteSet(S) /\ copy' = Copied(q, S)
           /\ q \in DOMAIN copy.queueList => copy.queueList[q] \subseteq S
           /\ \A i \in S : (q \in DOMAIN queueList /\ i \in queueList[q])
                         \/ (q \in DOMAIN copy.queueList /\ i \in copy.queueList[q])
<1>1. LifeTypes /\ KeptBroker(copy) /\ ReadingTypes
  BY DEF LifeInv
<1>2. CASE StartQueue(q) /\ q \in DOMAIN queueList
  <2>1. q \in Nat
    BY <1>1, <1>2 DEF LifeTypes, TypeOK, SharedTypes
  <2>2. q \notin DOMAIN copy.queueList /\ copy' = Copied(q, {})
    BY <1>2 DEF StartQueue
  <2> QED BY <2>1, <2>2, FS_EmptySet
<1>3. ASSUME NEW i \in Holds(q), CopyMessage(q, i)
      PROVE  \E S \in SUBSET Arrivals :
               /\ q \in Nat /\ IsFiniteSet(S) /\ copy' = Copied(q, S)
               /\ q \in DOMAIN copy.queueList => copy.queueList[q] \subseteq S
               /\ \A j \in S : (q \in DOMAIN queueList /\ j \in queueList[q])
                             \/ (q \in DOMAIN copy.queueList /\ j \in copy.queueList[q])
  <2>1. q \in DOMAIN copy.queueList /\ copy' = Copied(q, copy.queueList[q] \cup {i})
    BY <1>1, <1>3 DEF CopyMessage, ReadingTypes
  <2>2. /\ q \in Nat /\ copy.queueList[q] \in SUBSET Arrivals
        /\ IsFiniteSet(copy.queueList[q])
    BY <1>1, <2>1 DEF KeptBroker, IsSnapshot
  <2>3. q \in DOMAIN queueList /\ i \in queueList[q]
    BY <1>3 DEF Holds
  <2>4. i \in Arrivals
    BY <1>1, <2>3 DEF LifeTypes, TypeOK, SharedTypes
  <2> DEFINE S == copy.queueList[q] \cup {i}
  <2>5. S \in SUBSET Arrivals /\ IsFiniteSet(S)
    BY <2>2, <2>4, FS_AddElement
  <2>6. copy.queueList[q] \subseteq S /\ \A j \in S : j \in queueList[q] \/ j \in copy.queueList[q]
    BY <2>3
  <2>7. copy' = Copied(q, S)
    BY <2>1
  <2> HIDE DEF S
  <2> QED BY <2>1, <2>2, <2>3, <2>5, <2>6, <2>7
<1> QED BY <1>2, <1>3

Copying ==
  \/ \E q \in DOMAIN queueList : StartQueue(q)
  \/ \E q \in reading : EndQueue(q) \/ \E i \in Holds(q) : CopyMessage(q, i)

LEMMA SaveCases ==
  ASSUME Save PROVE StartSave \/ CopyMember \/ OpenFile \/ WriteFile \/ Copying
BY DEF Save, Copying

LEMMA SaveKeepsLife ==
  ASSUME BrokerAssumption, LifeInv, Save PROVE LifeInv'
<1>1. UNCHANGED <<vars, recovery, restoring, restored>>
  BY DEF Save, StartSave, CopyMember, OpenFile, WriteFile, StartQueue,
        CopyMessage, EndQueue, recoveryVars
<1>2. LifeTypes' /\ RecoveryInv'
  <2>1. [Next]_vars
    BY <1>1
  <2>2. LifeTypes'
    BY <2>1, LifeTypesStep DEF LifeInv
  <2>3. PersistenceNext
    BY DEF PersistenceNext
  <2> QED BY <2>2, <2>3, RecoveryStep DEF LifeInv
<1>3. /\ saver' \in {"sleep", "copy", "write"} /\ todo' \in ToCopy
      /\ todo' # <<>> => saver' = "copy"
  <2>1. CASE StartSave
    BY <2>1 DEF StartSave, ToCopy
  <2>2. CASE Copying
    BY <2>2 DEF Copying, StartQueue, EndQueue, CopyMessage, LifeInv
  <2>3. CASE CopyMember
    <3>1. saver' = "copy" /\ todo' = Tail(todo) /\ todo # <<>>
      BY <2>3 DEF CopyMember
    <3>2. todo' \in ToCopy
      BY <3>1, NextMember DEF LifeInv, ToCopy
    <3> QED BY <3>1, <3>2
  <2>4. CASE OpenFile \/ WriteFile
    BY <2>4 DEF OpenFile, WriteFile, LifeInv
  <2> QED BY <2>1, <2>2, <2>3, <2>4, SaveCases
<1>4. KeptBroker(copy')
  <2>1. CASE StartSave
    <3>1. LifeTypes
      BY DEF LifeInv
    <3>2. "count" \in Fields /\ Members.count = count
      BY DEF Members, Fields
    <3>3. copy' = [Blank EXCEPT !["count"] = Members["count"]]
      BY <2>1, <3>2 DEF StartSave
    <3> QED BY <3>1, <3>2, <3>3, BlankKept, MembersKept, MemberReplaced
  <2>2. CASE Copying
    <3>1. CASE \E q \in reading : EndQueue(q)
      BY <3>1 DEF EndQueue, LifeInv
    <3>2. ASSUME NEW q, (StartQueue(q) /\ q \in DOMAIN queueList)
                        \/ \E i \in Holds(q) : CopyMessage(q, i)
          PROVE  KeptBroker(copy')
      BY <3>2, QueueStep, QueueAdded DEF LifeInv
    <3> QED BY <2>2, <3>1, <3>2 DEF Copying
  <2>3. CASE CopyMember /\ Head(todo) # "queueList"
    <3>1. copy' = [copy EXCEPT ![Head(todo)] = Members[Head(todo)]] /\ todo # <<>>
      BY <2>3 DEF CopyMember
    <3>2. Head(todo) \in Fields
      BY <3>1, NextMember DEF LifeInv, Fields
    <3>3. KeptBroker(copy) /\ KeptBroker(Members)
      BY MembersKept DEF LifeInv
    <3> QED BY <3>1, <3>2, <3>3, MemberReplaced
  <2>4. CASE OpenFile \/ (CopyMember /\ Head(todo) = "queueList")
    BY <2>4 DEF OpenFile, CopyMember, LifeInv
  <2>5. CASE WriteFile
    BY <2>5, BlankKept DEF WriteFile
  <2> QED BY <2>1, <2>2, <2>3, <2>4, <2>5, SaveCases
<1>5. file'.state \in {"missing", "torn", "complete"} /\ KeptBroker(file'.broker)
  <2>1. CASE OpenFile
    BY <2>1, BlankKept DEF OpenFile
  <2>2. CASE WriteFile
    BY <2>2 DEF WriteFile, LifeInv
  <2>3. CASE UNCHANGED file
    BY <2>3 DEF LifeInv
  <2>4. OpenFile \/ WriteFile \/ UNCHANGED file
    BY DEF Save, StartSave, CopyMember, StartQueue, CopyMessage, EndQueue
  <2> QED BY <2>1, <2>2, <2>3, <2>4
<1>6. ReadingTypes'
  <2>1. KeptBroker(copy) /\ ReadingTypes /\ (todo # <<>> => saver = "copy")
    BY DEF LifeInv
  <2>2. CASE StartSave
    BY <2>1, <2>2 DEF StartSave, ReadingTypes
  <2>3. CASE CopyMember
    <3>1. copy'.queueList = copy.queueList
      <4>1. CASE Head(todo) = "queueList"
        BY <2>3, <4>1 DEF CopyMember
      <4>2. CASE Head(todo) # "queueList"
        BY <2>1, <2>3, <4>2 DEF CopyMember, KeptBroker, Fields
      <4> QED BY <4>1, <4>2
    <3>2. reading' = {} /\ torn' = torn /\ saver' = "copy"
      BY <2>3 DEF CopyMember
    <3> QED BY <2>1, <3>1, <3>2 DEF ReadingTypes
  <2>4. CASE OpenFile
    BY <2>1, <2>4 DEF OpenFile, ReadingTypes
  <2>5. CASE WriteFile
    BY <2>1, <2>5 DEF WriteFile, ReadingTypes
  <2>6. CASE Copying
    <3>1. ASSUME NEW q \in reading, EndQueue(q) PROVE ReadingTypes'
      BY <2>1, <3>1 DEF EndQueue, ReadingTypes
    <3>2. ASSUME NEW q, (StartQueue(q) /\ q \in DOMAIN queueList)
                        \/ \E i \in Holds(q) : CopyMessage(q, i)
          PROVE  ReadingTypes'
      <4>1. DOMAIN copy'.queueList = DOMAIN copy.queueList \cup {q}
        BY <2>1, <3>2, QueueStep, QueueAdded
      <4>2. /\ reading' \subseteq reading \cup {q} /\ torn' = torn
            /\ saver = "copy" /\ saver' = "copy" /\ todo # <<>> /\ todo' = todo
        BY <2>1, <3>2 DEF StartQueue, CopyMessage, ReadingTypes
      <4> QED BY <2>1, <4>1, <4>2 DEF ReadingTypes
    <3> QED BY <2>6, <3>1, <3>2 DEF Copying
  <2> QED BY <2>2, <2>3, <2>4, <2>5, <2>6, SaveCases
<1> QED BY <1>1, <1>2, <1>3, <1>4, <1>5, <1>6 DEF LifeInv

(* operator= ends when it has assigned every member. *)
LEMMA AssignEnds ==
  ASSUME restoring \in ToAssign
  PROVE  /\ restoring # <<>> /\ Tail(restoring) # restoring
         /\ Len(restoring) = 1 => Tail(restoring) = <<>>
<1>1. CASE restoring = <<"count", "queueList", "topicQueueMap", "topicConsumerMap", "index",
                         "clients">>
  BY <1>1
<1>2. CASE restoring = <<"queueList", "topicQueueMap", "topicConsumerMap", "index", "clients">>
  BY <1>2
<1>3. CASE restoring = <<"topicQueueMap", "topicConsumerMap", "index", "clients">>
  BY <1>3
<1>4. CASE restoring = <<"topicConsumerMap", "index", "clients">>
  BY <1>4
<1>5. CASE restoring = <<"index", "clients">>
  BY <1>5
<1>6. CASE restoring = <<"clients">>
  BY <1>6
<1> QED BY <1>1, <1>2, <1>3, <1>4, <1>5, <1>6 DEF ToAssign

LEMMA CopyTypesKept == ASSUME ReadingTypes, UnderCopy PROVE ReadingTypes'
BY DEF ReadingTypes, UnderCopy

LEMMA AssignKeepsLife ==
  ASSUME BrokerAssumption, LifeInv, AssignMember PROVE LifeInv'
<1>1. /\ recovery = "assign" /\ restoring \in ToAssign
      /\ restoring' = Tail(restoring)
      /\ recovery' = IF Len(restoring) = 1 THEN "off" ELSE "assign"
  BY DEF AssignMember, LastMember, LifeInv, RecoveryInv
<1>2. UNCHANGED <<restored, deadQueue, srvVars, pushVars, socket, histVars>> /\ UnderCopy
  BY DEF AssignMember
<1>3. RecoveryInv'
  BY AssignKeeps DEF LifeInv
<1>4. recovery' # "assign" => restoring' = <<>>
  <2>1. Len(restoring) = 1 => Tail(restoring) = <<>>
    BY <1>1, AssignEnds
  <2> QED BY <1>1, <2>1
<1>5. /\ count' = count \/ count' = restored.count
      /\ queueList' = queueList \/ queueList' = restored.queueList
      /\ topicQueueMap' = topicQueueMap \/ topicQueueMap' = restored.topicQueueMap
      /\ topicConsumerMap' = topicConsumerMap \/ topicConsumerMap' = restored.topicConsumerMap
      /\ index' = index \/ index' = restored.index
      /\ clients' = clients \/ clients' = restored.clients
  BY DEF AssignMember, Members
<1>6. KeptBroker(restored) /\ LifeTypes
  BY DEF LifeInv
<1>7. SharedTypes'
  <2>1. count' \in Nat /\ DOMAIN queueList' \subseteq Nat
        /\ queueList' \in [DOMAIN queueList' -> SUBSET Arrivals]
    BY <1>5, <1>6 DEF KeptBroker, IsSnapshot, LifeTypes, TypeOK, SharedTypes
  <2>2. /\ topicQueueMap' \in [Topics -> SUBSET Nat]
        /\ topicConsumerMap' \in [Topics -> SUBSET IpNodes]
        /\ index' \subseteq IpNodes /\ clients' \in [IpNodes -> Nat]
    BY <1>5, <1>6 DEF KeptBroker, IsSnapshot, LifeTypes, TypeOK, SharedTypes
  <2> QED BY <1>2, <1>6, <2>1, <2>2 DEF LifeTypes, TypeOK, SharedTypes, histVars
<1>8. ServerTypes' /\ PushTypes' /\ (srvPc' = "greet" => Len(socket') > 0)
  BY <1>2, <1>6 DEF LifeTypes, TypeOK, ServerTypes, PushTypes, srvVars, pushVars, pollVars,
                    sendVars, retryVars
<1>9. QueuesFinite'
  BY <1>5, <1>6 DEF KeptBroker, LifeTypes, QueuesFinite
<1>10. LifeTypes'
  BY <1>7, <1>8, <1>9 DEF LifeTypes, TypeOK
<1> QED BY <1>1, <1>2, <1>3, <1>4, <1>10, CopyTypesKept DEF LifeInv, UnderCopy

LEMMA RestartTypes ==
  ASSUME BrokerAssumption, LifeTypes, Restart PROVE LifeTypes'
<1>1. SharedTypes'
  <2>1. /\ count' = 0 /\ queueList' = [q \in {} |-> {}]
        /\ topicQueueMap' = [t \in Topics |-> {}] /\ topicConsumerMap' = [t \in Topics |-> {}]
        /\ index' = {} /\ clients' = [c \in IpNodes |-> NoFd] /\ deadQueue' = {}
    BY DEF Restart, Blank
  <2>2. socket' \in Seq(Sockets)
    BY DEF Restart
  <2>3. UNCHANGED <<arrivals, handled, pushed>>
    BY DEF Restart, histVars
  <2>4. queueList' \in [DOMAIN queueList' -> SUBSET Arrivals]
    BY <2>1
  <2> QED BY <2>1, <2>2, <2>3, <2>4 DEF LifeTypes, TypeOK, SharedTypes, NoFd
<1>2. ServerTypes'
  BY DEF Restart, ServerIdle, ServerFree, ServerTypes
<1>3. PushTypes'
  BY DEF Restart, PushTypes, NoFd, BrokerAssumption
<1>4. QueuesFinite'
  BY DEF Restart, Blank, QueuesFinite
<1>5. srvPc' # "greet"
  BY DEF Restart, ServerIdle, ServerFree
<1> QED BY <1>1, <1>2, <1>3, <1>4, <1>5 DEF LifeTypes, TypeOK

LEMMA StutterUnderCopy ==
  ASSUME UNCHANGED persistenceVars PROVE UnderCopy
<1>1. \A q \in reading : Holds(q)' = Holds(q)
  BY DEF persistenceVars, vars, members, queueVars, Holds
<1> QED BY <1>1 DEF UnderCopy, persistenceVars, saverVars

LEMMA LifeStep ==
  ASSUME BrokerAssumption, LifeInv, [PersistenceNext]_persistenceVars PROVE LifeInv'
<1>0. RecoveryInv'
  BY RecoveryStep DEF LifeInv
<1>1. CASE Restart
  <2>1. <<>> \in ToCopy
    BY DEF ToCopy
  <2>2. LifeTypes'
    BY <1>1, RestartTypes DEF LifeInv
  <2>3. ReadingTypes'
    BY <1>1 DEF Restart, ReadingTypes
  <2> QED BY <1>0, <1>1, <2>1, <2>2, <2>3, BlankKept DEF Restart, LifeInv
<1>2. CASE ReadFile
  <2>1. restored' = file.broker \/ restored' = Blank
    BY <1>2 DEF ReadFile
  <2>2. LifeTypes'
    BY <1>2, LifeTypesStep DEF LifeInv, ReadFile
  <2> QED BY <1>0, <1>2, <2>1, <2>2, BlankKept DEF ReadFile, LifeInv, ReadingTypes, saverVars
<1>3. CASE AssignMember
  BY <1>3, AssignKeepsLife
<1>4. CASE Save
  BY <1>4, SaveKeepsLife
<1>5. CASE [Next]_vars /\ UnderCopy /\ UNCHANGED recoveryVars
  <2>1. LifeTypes'
    BY <1>5, LifeTypesStep DEF LifeInv
  <2> QED BY <1>0, <1>5, <2>1, CopyTypesKept DEF LifeInv, UnderCopy, recoveryVars
<1> QED BY <1>1, <1>2, <1>3, <1>4, <1>5, StutterUnderCopy
   DEF PersistenceNext, Recover, persistenceVars

LEMMA LifeInvariance == PersistenceSpec => []LifeInv
BY LifeInit, LifeStep, BrokerAssumption, PTL DEF PersistenceSpec

(* Every member keeps its type over all crashes and recoveries, whatever   *)
(* the copies were put together from (BrokerPersistence, BrokerRecovery).  *)
THEOREM PersistenceTypes == PersistenceSpec => []PersistenceTypeOK
<1>1. LifeInv => PersistenceTypeOK
  <2> SUFFICES ASSUME LifeInv PROVE PersistenceTypeOK
    OBVIOUS
  <2>1. \A b \in {Members, copy, restored, file.broker} : IsSnapshot(b)
    BY MembersKept DEF LifeInv, KeptBroker
  <2>2. (restoring # <<>>) <=> (recovery = "assign")
    BY AssignEnds DEF LifeInv, RecoveryInv
  <2> QED BY <2>1, <2>2 DEF LifeInv, LifeTypes, ReadingTypes, PersistenceTypeOK
<1> QED BY <1>1, LifeInvariance, PTL
-----------------------------------------------------------------------------
(* Where a message can be a second time.  Over recoveries the broker no    *)
(* longer conserves messages, but one that is in two places, or in one     *)
(* after it was handled, is among those the last recovery brought back.    *)
Recovered == QueuedIn(restored)

(* Every message the broker or its files know of but the one in hand. *)
Seen == AllQueued \cup Batched \cup handled
          \cup QueuedIn(copy) \cup QueuedIn(file.broker) \cup Recovered

QueuedOnce ==
  \A q, r \in DOMAIN queueList : \A i \in queueList[q], j \in queueList[r] :
    i.id = j.id => (q = r /\ i = j) \/ i.id \in Recovered

BatchedOnce == \A i, j \in batch : i.id = j.id => i = j \/ i.id \in Recovered

Doubles ==
  /\ (AllQueued \cup Batched) \cap handled \subseteq Recovered
  /\ AllQueued \cap Batched \subseteq Recovered
  /\ QueuedOnce /\ BatchedOnce

Received ==
  /\ Seen \subseteq 1..arrivals
  /\ srvPc = "balance" => req.id \in (1..arrivals) \ Seen
  /\ recovery = "read" => Recovered = {}

RedeliveryInv == LifeInv /\ Doubles /\ Received

LEMMA NothingBlank == QueuedIn(Blank) = {}
<1>1. DOMAIN Blank.queueList = {}
  BY DEF Blank
<1> QED BY <1>1 DEF QueuedIn

LEMMA RedeliveryInit == ASSUME PersistenceInit PROVE Doubles /\ Received
<1>1. /\ queueList = [q \in {} |-> {}] /\ batch = {} /\ handled = {} /\ srvPc = "epoll_wait"
      /\ copy = Blank /\ file.broker = Blank /\ restored = Blank /\ recovery = "off"
  BY DEF PersistenceInit, Init
<1>2. DOMAIN queueList = {}
  BY <1>1
<1>3. AllQueued = {} /\ Batched = {} /\ Recovered = {} /\ Seen = {}
  BY <1>1, <1>2, NothingBlank DEF AllQueued, Batched, Recovered, Seen
<1> QED BY <1>1, <1>2, <1>3 DEF Doubles, Received, QueuedOnce, BatchedOnce

(* A step of the broker's own threads. *)
LEMMA BrokerRedelivery ==
  ASSUME BrokerAssumption, RedeliveryInv, [Next]_vars,
         UNCHANGED <<copy, file, restored, recovery>>
  PROVE  Doubles' /\ Received'
<1>0. /\ arrivals \in Nat /\ queueList \in [DOMAIN queueList -> SUBSET Arrivals]
      /\ Doubles /\ Received
  BY DEF RedeliveryInv, LifeInv, LifeTypes, TypeOK, SharedTypes
<1>1. /\ Recovered' = Recovered /\ QueuedIn(copy)' = QueuedIn(copy)
      /\ QueuedIn(file.broker)' = QueuedIn(file.broker)
  BY DEF Recovered
<1>2. CASE ~Moving
  <2>1. /\ UNCHANGED <<queueList, batch, arrivals, handled>>
        /\ srvPc' = "balance" => srvPc = "balance" /\ req' = req
    BY <1>2, StillSteps
  <2>2. AllQueued' = AllQueued /\ Batched' = Batched
    BY <2>1 DEF AllQueued, Queued, Batched
  <2>3. Seen' = Seen
    BY <1>1, <2>1, <2>2 DEF Seen
  <2>4. QueuedOnce' /\ BatchedOnce'
    BY <1>0, <1>1, <2>1 DEF Doubles, QueuedOnce, BatchedOnce
  <2> QED BY <1>0, <1>1, <2>1, <2>2, <2>3, <2>4 DEF Doubles, Received
<1>3. ASSUME NEW m \in Messages, ReceiveMessage(m) PROVE Doubles' /\ Received'
  <2>1. /\ UNCHANGED <<queueList, batch, handled>>
        /\ arrivals' = arrivals + 1 /\ req'.id = arrivals + 1
    BY <1>3 DEF ReceiveMessage, members, queueVars, pushVars
  <2>2. AllQueued' = AllQueued /\ Batched' = Batched
    BY <2>1 DEF AllQueued, Queued, Batched
  <2>3. Seen' = Seen
    BY <1>1, <2>1, <2>2 DEF Seen
  <2>4. 1..arrivals \subseteq 1..arrivals' /\ arrivals + 1 \in (1..arrivals') \ (1..arrivals)
    BY <1>0, <2>1
  <2>5. QueuedOnce' /\ BatchedOnce'
    BY <1>0, <1>1, <2>1 DEF Doubles, QueuedOnce, BatchedOnce
  <2> QED BY <1>0, <1>1, <2>1, <2>2, <2>3, <2>4, <2>5 DEF Doubles, Received
<1>4. ASSUME CreateQueue PROVE Doubles' /\ Received'
  <2>1. UNCHANGED <<batch, arrivals, handled>> /\ srvPc' # "balance"
    BY <1>4 DEF CreateQueue, pushVars, histVars
  <2>2. /\ DOMAIN queueList' = DOMAIN queueList \cup {count}
        /\ \A r \in DOMAIN queueList' :
             queueList'[r] = IF r \in DOMAIN queueList THEN queueList[r] ELSE {}
    <3>1. queueList' = Accessed(count)
      BY <1>4 DEF CreateQueue
    <3> QED BY <3>1, AccessedDomain, AccessedEntries
  <2>3. AllQueued' = AllQueued /\ Batched' = Batched
    BY <2>1, <2>2 DEF AllQueued, Queued, Batched
  <2>4. Seen' = Seen
    BY <1>1, <2>1, <2>3 DEF Seen
  <2>5. QueuedOnce' /\ BatchedOnce'
    BY <1>0, <1>1, <2>1, <2>2 DEF Doubles, QueuedOnce, BatchedOnce
  <2> QED BY <1>0, <1>1, <2>1, <2>3, <2>4, <2>5 DEF Doubles, Received
<1>5. ASSUME NEW q \in QueueNumbers, SyncAdd(q) PROVE Doubles' /\ Received'
  <2>1. UNCHANGED <<batch, arrivals, handled>> /\ srvPc = "balance" /\ srvPc' # "balance"
    BY <1>5 DEF SyncAdd, ServerIdle, ServerFree, pushVars, histVars
  <2>2. /\ DOMAIN queueList' = DOMAIN queueList \cup {q}
        /\ \A r \in DOMAIN queueList : r # q => queueList'[r] = queueList[r]
        /\ queueList'[q] = (IF q \in DOMAIN queueList THEN queueList[q] ELSE {}) \cup {req}
    BY <1>5, SyncAddQueues
  <2>3. \A r \in DOMAIN queueList' : \A i \in queueList'[r] :
          (r \in DOMAIN queueList /\ i \in queueList[r]) \/ (r = q /\ i = req)
    BY <2>2
  <2>4. AllQueued' = AllQueued \cup {req.id} /\ Batched' = Batched
    <3>1. Batched' = Batched
      BY <2>1 DEF Batched
    <3>2. AllQueued' \subseteq AllQueued \cup {req.id}
      BY <2>3 DEF AllQueued, Queued
    <3>3. req.id \in AllQueued'
      BY <2>2 DEF AllQueued, Queued
    <3>4. \A r \in DOMAIN queueList : r \in DOMAIN queueList' /\ queueList[r] \subseteq queueList'[r]
      BY <2>2
    <3>5. AllQueued \subseteq AllQueued'
      BY <3>4 DEF AllQueued, Queued
    <3> QED BY <3>1, <3>2, <3>3, <3>5
  <2>5. req.id \in (1..arrivals) \ Seen
    BY <1>0, <2>1 DEF Received
  <2>6. Seen' = Seen \cup {req.id}
    BY <1>1, <2>1, <2>4 DEF Seen
  <2>7. req.id \notin AllQueued /\ req.id \notin Batched /\ req.id \notin handled
    BY <2>5 DEF Seen
  <2>8. \A r \in DOMAIN queueList : \A i \in queueList[r] : i.id # req.id
    BY <2>7 DEF AllQueued, Queued
  <2>9. QueuedOnce'
    <3> SUFFICES ASSUME NEW r \in DOMAIN queueList', NEW u \in DOMAIN queueList',
                        NEW i \in queueList'[r], NEW j \in queueList'[u], i.id = j.id
                 PROVE  (r = u /\ i = j) \/ i.id \in Recovered
      BY <1>1 DEF QueuedOnce
    <3>1. CASE /\ r \in DOMAIN queueList /\ i \in queueList[r]
               /\ u \in DOMAIN queueList /\ j \in queueList[u]
      BY <1>0, <3>1 DEF Doubles, QueuedOnce
    <3>2. CASE r = q /\ i = req /\ u = q /\ j = req
      BY <3>2
    <3> QED BY <2>3, <2>8, <3>1, <3>2
  <2>10. BatchedOnce'
    BY <1>0, <1>1, <2>1 DEF Doubles, BatchedOnce
  <2>11. /\ (AllQueued' \cup Batched') \cap handled' \subseteq Recovered'
         /\ AllQueued' \cap Batched' \subseteq Recovered'
    BY <1>0, <1>1, <2>1, <2>4, <2>7 DEF Doubles
  <2> QED BY <1>0, <1>1, <2>1, <2>5, <2>6, <2>9, <2>10, <2>11 DEF Doubles, Received
<1>6. ASSUME NEW q \in DOMAIN queueList, PollQueue(q) PROVE Doubles' /\ Received'
  <2>1. UNCHANGED <<arrivals, handled, srvPc, req>>
    BY <1>6 DEF PollQueue, srvVars, histVars
  <2>2. CASE UNCHANGED <<queueList, batch>>
    <3>1. AllQueued' = AllQueued /\ Batched' = Batched
      BY <2>2 DEF AllQueued, Queued, Batched
    <3>2. Seen' = Seen
      BY <1>1, <2>1, <3>1 DEF Seen
    <3>3. QueuedOnce' /\ BatchedOnce'
      BY <1>0, <1>1, <2>2 DEF Doubles, QueuedOnce, BatchedOnce
    <3> QED BY <1>0, <1>1, <2>1, <3>1, <3>2, <3>3 DEF Doubles, Received
  <2>3. ASSUME NEW i \in queueList[q],
               queueList' = [queueList EXCEPT ![q] = @ \ {i}], batch' = batch \cup {i}
        PROVE  Doubles' /\ Received'
    <3>1. /\ DOMAIN queueList' = DOMAIN queueList
          /\ \A r \in DOMAIN queueList : queueList'[r] \subseteq queueList[r]
          /\ i \notin queueList'[q]
      BY <1>0, <2>3
    <3>2. AllQueued' \subseteq AllQueued
      BY <3>1 DEF AllQueued, Queued
    <3>3. Batched' = Batched \cup {i.id} /\ i.id \in AllQueued
      BY <2>3 DEF Batched, AllQueued, Queued
    <3>4. i.id \in AllQueued' => i.id \in Recovered
      <4> SUFFICES ASSUME NEW r \in DOMAIN queueList', NEW j \in queueList'[r], j.id = i.id
                   PROVE  i.id \in Recovered
        BY DEF AllQueued, Queued
      <4>1. j \in queueList[r] /\ r \in DOMAIN queueList
        BY <3>1
      <4> QED BY <1>0, <3>1, <4>1 DEF Doubles, QueuedOnce
    <3>5. QueuedOnce'
      BY <1>0, <1>1, <3>1 DEF Doubles, QueuedOnce
    <3>6. BatchedOnce'
      <4>1. \A j \in batch : j.id = i.id => i.id \in Recovered
        BY <1>0, <3>3 DEF Doubles, Batched
      <4> QED BY <1>0, <1>1, <2>3, <4>1 DEF Doubles, BatchedOnce
    <3>7. Seen' \subseteq Seen
      BY <1>1, <2>1, <3>2, <3>3 DEF Seen
    <3>8. /\ (AllQueued' \cup Batched') \cap handled' \subseteq Recovered'
          /\ AllQueued' \cap Batched' \subseteq Recovered'
      BY <1>0, <1>1, <2>1, <3>2, <3>3, <3>4 DEF Doubles
    <3> QED BY <1>0, <1>1, <2>1, <3>5, <3>6, <3>7, <3>8 DEF Doubles, Received
  <2> QED BY <1>6, <2>2, <2>3 DEF PollQueue, Removed
<1>7. ASSUME NEW i \in batch, Classify(i) PROVE Doubles' /\ Received'
  <2>1. UNCHANGED <<queueList, arrivals, srvPc, req>>
    BY <1>7 DEF Classify, members, queueVars, srvVars
  <2>2. batch' = batch \ {i} /\ handled' = handled \cup {i.id}
    BY <1>7 DEF Classify
  <2>3. AllQueued' = AllQueued /\ Batched' \subseteq Batched /\ i.id \in Batched
    BY <2>1, <2>2 DEF AllQueued, Queued, Batched
  <2>4. i.id \in Batched' => i.id \in Recovered
    BY <1>0, <2>2 DEF Doubles, BatchedOnce, Batched
  <2>5. Seen' \subseteq Seen
    BY <1>1, <2>2, <2>3 DEF Seen
  <2>6. QueuedOnce' /\ BatchedOnce'
    BY <1>0, <1>1, <2>1, <2>2 DEF Doubles, QueuedOnce, BatchedOnce
  <2>7. /\ (AllQueued' \cup Batched') \cap handled' \subseteq Recovered'
        /\ AllQueued' \cap Batched' \subseteq Recovered'
    BY <1>0, <1>1, <2>2, <2>3, <2>4 DEF Doubles
  <2> QED BY <1>0, <1>1, <2>1, <2>5, <2>6, <2>7 DEF Doubles, Received
<1> QED BY <1>2, <1>3, <1>4, <1>5, <1>6, <1>7 DEF Moving

(* What is copied or written was seen in the broker. *)
LEMMA SaveSees ==
  ASSUME LifeInv, Save
  PROVE  QueuedIn(copy') \cup QueuedIn(file'.broker)
           \subseteq AllQueued \cup QueuedIn(copy) \cup QueuedIn(file.broker)
<1>1. CASE StartSave
  <2>1. DOMAIN copy'.queueList = {} /\ file' = file
    BY <1>1 DEF StartSave, Blank
  <2> QED BY <2>1 DEF QueuedIn
<1>2. CASE Copying
  <2>1. file' = file
    BY <1>2 DEF Copying, StartQueue, CopyMessage, EndQueue
  <2>2. CASE \E q \in reading : EndQueue(q)
    BY <2>1, <2>2 DEF EndQueue
  <2>3. ASSUME NEW q, (StartQueue(q) /\ q \in DOMAIN queueList)
                      \/ \E i \in Holds(q) : CopyMessage(q, i)
        PROVE  QueuedIn(copy') \subseteq AllQueued \cup QueuedIn(copy)
    <3>1. PICK S \in SUBSET Arrivals :
            /\ q \in Nat /\ IsFiniteSet(S) /\ copy' = Copied(q, S)
            /\ \A i \in S : (q \in DOMAIN queueList /\ i \in queueList[q])
                          \/ (q \in DOMAIN copy.queueList /\ i \in copy.queueList[q])
      BY <2>3, QueueStep
    <3>2. /\ DOMAIN copy'.queueList = DOMAIN copy.queueList \cup {q} /\ copy'.queueList[q] = S
          /\ \A r \in DOMAIN copy.queueList : r # q => copy'.queueList[r] = copy.queueList[r]
      BY <3>1, QueueAdded DEF LifeInv
    <3>3. ASSUME NEW r \in DOMAIN copy'.queueList, NEW i \in copy'.queueList[r]
          PROVE  i.id \in AllQueued \cup QueuedIn(copy)
      <4>1. CASE r = q
        BY <3>1, <3>2, <3>3, <4>1 DEF AllQueued, Queued, QueuedIn
      <4>2. CASE r # q
        BY <3>2, <3>3, <4>2 DEF QueuedIn
      <4> QED BY <4>1, <4>2
    <3> QED BY <3>3 DEF QueuedIn
  <2> QED BY <1>2, <2>1, <2>2, <2>3 DEF Copying
<1>3. CASE CopyMember
  <2>1. file' = file /\ copy'.queueList = copy.queueList
    <3>1. CASE Head(todo) = "queueList"
      BY <1>3, <3>1 DEF CopyMember
    <3>2. CASE Head(todo) # "queueList"
      BY <1>3, <3>2 DEF CopyMember, LifeInv, KeptBroker, Fields
    <3> QED BY <3>1, <3>2
  <2> QED BY <2>1 DEF QueuedIn
<1>4. CASE OpenFile
  BY <1>4, NothingBlank DEF OpenFile
<1>5. CASE WriteFile
  BY <1>5, NothingBlank DEF WriteFile
<1> QED BY <1>1, <1>2, <1>3, <1>4, <1>5, SaveCases

LEMMA AssignRedelivery ==
  ASSUME RedeliveryInv, AssignMember PROVE Doubles' /\ Received'
<1>1. /\ Doubles /\ Received /\ recovery = "assign"
      /\ UNCHANGED <<restored, copy, file, batch, srvPc, req, arrivals, handled>>
      /\ recovery' \in {"assign", "off"}
  BY DEF RedeliveryInv, AssignMember, UnderCopy, srvVars, pushVars, histVars
<1>2. queueList' = queueList \/ queueList' = restored.queueList
  BY DEF AssignMember, Members
<1>3. /\ Recovered' = Recovered /\ Batched' = Batched /\ QueuedIn(copy)' = QueuedIn(copy)
      /\ QueuedIn(file.broker)' = QueuedIn(file.broker)
  BY <1>1 DEF Recovered, Batched
<1>4. BatchedOnce'
  BY <1>1, <1>3 DEF Doubles, BatchedOnce
<1>5. CASE queueList' = queueList
  <2>1. AllQueued' = AllQueued
    BY <1>5 DEF AllQueued, Queued
  <2>2. Seen' = Seen
    BY <1>1, <1>3, <2>1 DEF Seen
  <2>3. QueuedOnce'
    BY <1>1, <1>3, <1>5 DEF Doubles, QueuedOnce
  <2> QED BY <1>1, <1>3, <1>4, <2>1, <2>2, <2>3 DEF Doubles, Received
<1>6. CASE queueList' = restored.queueList
  <2>1. AllQueued' = Recovered
    BY <1>6 DEF AllQueued, Queued, Recovered, QueuedIn
  <2>2. \A r \in DOMAIN queueList' : \A i \in queueList'[r] : i.id \in Recovered
    BY <1>6 DEF Recovered, QueuedIn
  <2>3. QueuedOnce'
    BY <1>3, <2>2 DEF QueuedOnce
  <2>4. Seen' \subseteq Seen
    BY <1>1, <1>3, <2>1 DEF Seen
  <2>5. /\ (AllQueued' \cup Batched') \cap handled' \subseteq Recovered'
        /\ AllQueued' \cap Batched' \subseteq Recovered'
    BY <1>1, <1>3, <2>1 DEF Doubles
  <2> QED BY <1>1, <1>3, <1>4, <2>3, <2>4, <2>5 DEF Doubles, Received
<1> QED BY <1>2, <1>5, <1>6

LEMMA RedeliveryStep ==
  ASSUME BrokerAssumption, RedeliveryInv, [PersistenceNext]_persistenceVars
  PROVE  RedeliveryInv'
<1>0. LifeInv' /\ LifeInv /\ Doubles /\ Received
  BY LifeStep DEF RedeliveryInv
<1>1. CASE Restart
  <2>1. /\ queueList' = [q \in {} |-> {}] /\ batch' = {} /\ srvPc' # "balance"
        /\ UNCHANGED <<handled, arrivals, file>> /\ copy' = Blank /\ restored' = Blank
    BY <1>1 DEF Restart, Blank, ServerIdle, ServerFree, histVars
  <2>2. DOMAIN queueList' = {}
    BY <2>1
  <2>3. AllQueued' = {} /\ Batched' = {} /\ Recovered' = {}
    BY <2>1, <2>2, NothingBlank DEF AllQueued, Batched, Recovered
  <2>4. Seen' \subseteq Seen
    BY <2>1, <2>3, NothingBlank DEF Seen
  <2> QED BY <1>0, <2>1, <2>2, <2>3, <2>4
          DEF RedeliveryInv, Doubles, Received, QueuedOnce, BatchedOnce
<1>2. CASE ReadFile
  <2>1. /\ UNCHANGED <<queueList, batch, srvPc, req, handled, arrivals, copy, file>>
        /\ recovery = "read" /\ recovery' = "assign"
        /\ restored' = file.broker \/ restored' = Blank
    BY <1>2 DEF ReadFile, saverVars, vars, members, queueVars, srvVars, pushVars, histVars
  <2>2. Recovered = {}
    BY <1>0, <2>1 DEF Received
  <2>3. AllQueued' = AllQueued /\ Batched' = Batched
    BY <2>1 DEF AllQueued, Queued, Batched
  <2>4. Recovered' \subseteq QueuedIn(file.broker)
    BY <2>1, NothingBlank DEF Recovered
  <2>5. Seen' \subseteq Seen
    BY <2>1, <2>3, <2>4 DEF Seen
  <2>6. QueuedOnce' /\ BatchedOnce'
    BY <1>0, <2>1, <2>2 DEF Doubles, QueuedOnce, BatchedOnce
  <2>7. Doubles'
    BY <1>0, <2>1, <2>2, <2>3, <2>6 DEF Doubles
  <2>8. Received'
    BY <1>0, <2>1, <2>5 DEF Received
  <2> QED BY <1>0, <2>7, <2>8 DEF RedeliveryInv
<1>3. CASE AssignMember
  BY <1>0, <1>3, AssignRedelivery DEF RedeliveryInv
<1>4. CASE Save
  <2>1. UNCHANGED <<vars, recovery, restored>>
    BY <1>4 DEF Save, StartSave, CopyMember, OpenFile, WriteFile, StartQueue,
        CopyMessage, EndQueue, recoveryVars
  <2>2. UNCHANGED <<queueList, batch, srvPc, req, handled, arrivals>>
    BY <2>1 DEF vars, members, queueVars, srvVars, pushVars, histVars
  <2>3. AllQueued' = AllQueued /\ Batched' = Batched /\ Recovered' = Recovered
    BY <2>1, <2>2 DEF AllQueued, Queued, Batched, Recovered
  <2>4. Seen' \subseteq Seen
    BY <1>0, <1>4, <2>2, <2>3, SaveSees DEF Seen
  <2>5. QueuedOnce' /\ BatchedOnce'
    BY <1>0, <2>2, <2>3 DEF Doubles, QueuedOnce, BatchedOnce
  <2>6. Doubles'
    BY <1>0, <2>2, <2>3, <2>5 DEF Doubles
  <2>7. Received'
    BY <1>0, <2>1, <2>2, <2>3, <2>4 DEF Received
  <2> QED BY <1>0, <2>6, <2>7 DEF RedeliveryInv
<1>5. CASE [Next]_vars /\ UnderCopy /\ UNCHANGED recoveryVars
  <2>1. UNCHANGED <<copy, file, restored, recovery>>
    BY <1>5 DEF UnderCopy, recoveryVars
  <2> QED BY <1>0, <1>5, <2>1, BrokerRedelivery DEF RedeliveryInv
<1> QED BY <1>1, <1>2, <1>3, <1>4, <1>5, StutterUnderCopy
   DEF PersistenceNext, Recover, persistenceVars

LEMMA RedeliveryInvariance == PersistenceSpec => []RedeliveryInv
<1>1. PersistenceInit => RedeliveryInv
  BY LifeInit, RedeliveryInit, BrokerAssumption DEF RedeliveryInv
<1> QED BY <1>1, RedeliveryStep, BrokerAssumption, PTL DEF PersistenceSpec

(* Over any number of crashes a message that a round has handled is in the *)
(* broker again only because the last recovery brought it back, so what    *)
(* consumers may get twice is what the file held (BrokerRecovery,          *)
(* operator=, syncAdd, syncPoll, Filter::classification).                  *)
THEOREM OnlySavedRedelivered == PersistenceSpec => []RedeliveredWasSaved
<1>1. RedeliveryInv => RedeliveredWasSaved
  BY DEF RedeliveryInv, Doubles, Received, Recovered, Seen, InHand, RedeliveredWasSaved
<1> QED BY <1>1, RedeliveryInvariance, PTL
-----------------------------------------------------------------------------
(* What a step may lose.  A recovered broker need not satisfy what the     *)
(* proofs about a first life rest on, queue numbers may be handed out      *)
(* twice and messages be in two places; yet none goes away.                *)
Kept == InHand \cup AllQueued \cup Batched

LEMMA BrokerLosesNothing ==
  ASSUME [Next]_vars, ~Ended' PROVE Kept \subseteq Kept' \cup handled'
<1>1. AllQueued \subseteq AllQueued' \cup Batched'
  BY EntriesKept DEF AllQueued, Queued, Batched
<1>2. Batched \subseteq Batched' \cup handled'
  BY BatchHandled DEF Batched
<1>3. InHand \subseteq InHand' \cup AllQueued'
  <2>1. CASE ~Moving
    BY <2>1, OtherSteps
  <2>2. ASSUME NEW q \in QueueNumbers, SyncAdd(q) PROVE req.id \in AllQueued'
    <3>1. q \in DOMAIN queueList' /\ req \in queueList'[q]
      <4>1. /\ DOMAIN queueList' = DOMAIN queueList \cup {q}
            /\ queueList'[q] = (IF q \in DOMAIN queueList THEN queueList[q] ELSE {}) \cup {req}
        BY <2>2, SyncAddQueues
      <4> QED BY <4>1
    <3> QED BY <3>1 DEF AllQueued, Queued
  <2>3. CASE \/ CreateQueue \/ \E m \in Messages : ReceiveMessage(m)
             \/ \E q \in DOMAIN queueList : PollQueue(q)
             \/ \E i \in batch : Classify(i)
    BY <2>3 DEF CreateQueue, ReceiveMessage, PollQueue, Classify, InHand, srvVars
  <2> QED BY <2>1, <2>2, <2>3 DEF Moving, InHand
<1> QED BY <1>1, <1>2, <1>3 DEF Kept

CrashesCounted == crashes \in Nat

LEMMA CrashesAreCounted == PersistenceSpec => []CrashesCounted
<1>1. PersistenceInit => CrashesCounted
  BY DEF PersistenceInit, CrashesCounted
<1>2. CrashesCounted /\ [PersistenceNext]_persistenceVars => CrashesCounted'
  <2>1. [PersistenceNext]_persistenceVars => crashes' = crashes \/ crashes' = crashes + 1
    <3>1. Save \/ Recover => crashes' = crashes
      BY DEF Save, StartSave, CopyMember, OpenFile, WriteFile, StartQueue,
        CopyMessage, EndQueue, Recover, ReadFile,
             AssignMember, recoveryVars
    <3> QED BY <3>1 DEF PersistenceNext, Restart, recoveryVars, persistenceVars
  <2> QED BY <2>1 DEF CrashesCounted
<1> QED BY <1>1, <1>2, PTL DEF PersistenceSpec

(* In every life, a message that was received is there until it is handled:*)
(* only the process's end and the step of a recovery that replaces         *)
(* queueList take any away (operator=, syncCreateQueue, syncAdd, syncPoll).*)
THEOREM NoLifeLosesMessages ==
  PersistenceSpec =>
    [][/\ ~Ended' /\ crashes' = crashes
       /\ recovery = "assign" => restoring' = restoring \/ Head(restoring) # "queueList"
       => Kept \subseteq Kept' \cup handled']_persistenceVars
<1>1. ASSUME RecoveryInv, CrashesCounted, [PersistenceNext]_persistenceVars,
             ~Ended', crashes' = crashes,
             recovery = "assign" => restoring' = restoring \/ Head(restoring) # "queueList"
      PROVE  Kept \subseteq Kept' \cup handled'
  <2>1. CASE [Next]_vars
    BY <1>1, <2>1, BrokerLosesNothing
  <2>2. CASE Save \/ ReadFile
    <3>1. UNCHANGED vars
      BY <2>2 DEF Save, StartSave, CopyMember, OpenFile, WriteFile, StartQueue,
        CopyMessage, EndQueue, ReadFile
    <3> QED BY <1>1, <3>1, BrokerLosesNothing
  <2>3. CASE AssignMember
    <3>1. restoring' # restoring
      BY <1>1, <2>3, AssignEnds DEF AssignMember, RecoveryInv
    <3>2. queueList' = queueList /\ UNCHANGED <<srvPc, req, batch, handled>>
      BY <1>1, <2>3, <3>1 DEF AssignMember, Members, srvVars, pushVars, histVars
    <3> QED BY <3>2 DEF Kept, InHand, AllQueued, Queued, Batched
  <2>4. CASE Restart
    BY <1>1, <2>4 DEF Restart, CrashesCounted
  <2> QED BY <1>1, <2>1, <2>2, <2>3, <2>4 DEF PersistenceNext, Recover, persistenceVars
<1>2. RecoveryInv /\ CrashesCounted /\ [PersistenceNext]_persistenceVars =>
        [/\ ~Ended' /\ crashes' = crashes
         /\ recovery = "assign" => restoring' = restoring \/ Head(restoring) # "queueList"
         => Kept \subseteq Kept' \cup handled']_persistenceVars
  BY <1>1
<1>3. PersistenceSpec => []RecoveryInv
  BY RecoveryInit, RecoveryStep, PTL DEF PersistenceSpec
<1> QED BY <1>2, <1>3, CrashesAreCounted, PTL DEF PersistenceSpec
==============================================================================
