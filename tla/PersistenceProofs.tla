-------------------------- MODULE PersistenceProofs --------------------------
(***************************************************************************)
(* What the file of a broker that was never restarted holds, for every set *)
(* of topics, addresses and messages, and however the copy of the broker   *)
(* interleaves with its two threads.  The members are copied one by one;   *)
(* what an earlier one refers to is there when a later one is copied,      *)
(* because queue numbers and registrations are never taken back.           *)
(***************************************************************************)
EXTENDS PersistenceProperties, BrokerStoreProofs

Fields == {"count", "queueList", "topicQueueMap", "topicConsumerMap", "index", "clients"}

ToCopy == {MemberOrder,
           <<"topicQueueMap", "topicConsumerMap", "index", "clients">>,
           <<"topicConsumerMap", "index", "clients">>,
           <<"index", "clients">>, <<"clients">>, <<>>}

(* The queues of b's messages are among their topics' in map. *)
Mapped(b, map) ==
  \A q \in DOMAIN b.queueList : \A i \in b.queueList[q] : q = 0 \/ q \in map[i.msg.topic]

Listed(b) == UNION {b.topicConsumerMap[t] : t \in Topics}

(* What the members copied so far have to do with one another and with     *)
(* those of the broker that are still to be copied.                        *)
CopyOK ==
  /\ saver \in {"sleep", "copy", "write"} /\ todo \in ToCopy
  /\ saver # "copy" => todo = <<>>
  /\ DOMAIN copy = Fields
  /\ \A q \in DOMAIN copy.queueList : copy.queueList[q] \subseteq Arrivals
  /\ Mapped(copy, topicQueueMap)
  /\ Len(todo) <= 3 => Mapped(copy, copy.topicQueueMap)
  /\ Len(todo) <= 2 => Listed(copy) \subseteq index
  /\ Len(todo) <= 1 => Listed(copy) \subseteq copy.index /\ copy.index \subseteq index
  /\ Len(todo) <= 0 => \A c \in Listed(copy) : copy.clients[c] # NoFd

(* A queue is being copied only while the table is.                        *)
ReadingOK ==
  /\ reading # {} => saver = "copy" /\ todo = MemberOrder
  /\ reading \subseteq DOMAIN queueList \cap DOMAIN copy.queueList
  /\ \A q, r \in reading : q = r

(* The copy of q is made, and q has not changed meanwhile.                 *)
Intact(q) == q \notin torn \cup reading

(* A message that is still in its queue was there when that was copied.    *)
BeganOK ==
  /\ DOMAIN began \subseteq DOMAIN queueList
  /\ \A q \in DOMAIN began : \A i \in began[q] :
       i.id \in Nat /\ i.id <= arrivals /\ (srvPc = "balance" => i # req)
  /\ \A q \in DOMAIN began \cap DOMAIN copy.queueList :
       Intact(q) => began[q] \cap queueList[q] \subseteq copy.queueList[q]
  /\ Len(todo) <= 4 => TableCopied

FileOK ==
  file.state = "complete" =>
    /\ Mapped(file.broker, file.broker.topicQueueMap)
    /\ \A c \in Listed(file.broker) : c \in file.broker.index /\ file.broker.clients[c] # NoFd

FirstLifeInv ==
  /\ crashes \in Nat
  /\ crashes = 0 => StoreInv /\ recovery = "off" /\ CopyOK /\ ReadingOK /\ BeganOK /\ FileOK

-----------------------------------------------------------------------------
LEMMA BlankCopied ==
  ASSUME copy = Blank
  PROVE  /\ DOMAIN copy = Fields /\ DOMAIN copy.queueList = {}
         /\ Listed(copy) = {} /\ copy.index = {}
         /\ \A map : Mapped(copy, map)
<1>1. DOMAIN copy = Fields
  BY DEF Blank, Fields
<1>2. copy.queueList = [q \in {} |-> {}] /\ copy.index = {}
      /\ copy.topicConsumerMap = [t \in Topics |-> {}]
  BY DEF Blank
<1> QED BY <1>1, <1>2 DEF Listed, Mapped

LEMMA FirstLifeInit ==
  ASSUME BrokerAssumption, PersistenceInit PROVE FirstLifeInv
<1>1. StoreInv
  BY StoreInvInit DEF PersistenceInit
<1>2. Len(<<>>) = 0 /\ <<>> \in ToCopy
  BY DEF ToCopy
<1>3. CopyOK
  BY <1>2, BlankCopied DEF PersistenceInit, CopyOK
<1>4. began = [q \in {} |-> {}]
  BY DEF PersistenceInit, Blank
<1>5. BeganOK
  BY <1>4 DEF BeganOK, TableCopied
<1> QED BY <1>1, <1>3, <1>5 DEF PersistenceInit, FirstLifeInv, ReadingOK, FileOK

(* Queue numbers and registrations only accumulate. *)
LEMMA NothingTakenBack ==
  ASSUME BrokerAssumption, StoreInv, [Next]_vars
  PROVE  /\ \A t \in Topics : topicQueueMap[t] \subseteq topicQueueMap'[t]
         /\ index \subseteq index'
<1>1. topicQueueMap \in [Topics -> SUBSET Nat]
  BY DEF StoreInv, SafetyInv, TypeInv, LifeTypes, TypeOK, SharedTypes
<1>2. CreateQueue => \A t \in Topics : topicQueueMap[t] \subseteq topicQueueMap'[t]
  BY <1>1 DEF CreateQueue
<1>3. topicQueueMap' = topicQueueMap \/ CreateQueue
  BY DEF Next, ReadRequest, ServeRequest, PushThread, Environment, Register,
         RequestQueue, AddRequest, DeleteRequest, ReceiveMessage, ProducerFails, ProcessEnds,
         GreetConsumer, AddTopicConsumer, DeleteTopicConsumer, TopicRequestDone,
         CopySize, SyncAdd, ReplyAck, ProducerReads, StartRound, PollQueue, EndPoll, Classify,
         EndClassify, SelectConsumer, EndRound, Send, Receive, StartRetry, Retry, ConsumerReads,
         ConsumerExits, vars, members, queueVars
<1>4. index \subseteq index'
  BY DEF Next, ReadRequest, ServeRequest, PushThread, Environment, Register,
         RequestQueue, AddRequest, DeleteRequest, ReceiveMessage, ProducerFails, ProcessEnds,
         GreetConsumer, CreateQueue, AddTopicConsumer, DeleteTopicConsumer, TopicRequestDone,
         CopySize, SyncAdd, ReplyAck, ProducerReads, StartRound, PollQueue, EndPoll, Classify,
         EndClassify, SelectConsumer, EndRound, Send, Receive, StartRetry, Retry, ConsumerReads,
         ConsumerExits, vars, members, consVars
<1> QED BY <1>1, <1>2, <1>3, <1>4

(* A queue takes nothing but the message in the server thread's hand, which *)
(* was not there before.                                                    *)
LEMMA QueuesTakeRequest ==
  ASSUME BrokerAssumption, StoreInv, [Next]_vars
  PROVE  /\ DOMAIN queueList \subseteq DOMAIN queueList'
         /\ \A q \in DOMAIN queueList : \A i \in queueList'[q] :
              i \in queueList[q] \/ (srvPc = "balance" /\ i = req)
         /\ arrivals \in Nat /\ arrivals' \in Nat /\ arrivals <= arrivals'
         /\ srvPc' = "balance" => \/ srvPc = "balance" /\ req' = req
                                  \/ req'.id = arrivals + 1
<1>0. arrivals \in Nat /\ queueList \in [DOMAIN queueList -> SUBSET Arrivals]
  BY DEF StoreInv, SafetyInv, TypeInv, LifeTypes, TypeOK, SharedTypes
<1>1. ASSUME NEW q, SyncAdd(q)
      PROVE  \A r \in DOMAIN queueList : \A i \in queueList'[r] :
               i \in queueList[r] \/ (srvPc = "balance" /\ i = req)
  <2>1. queueList' = [Accessed(q) EXCEPT ![q] = @ \cup {req}] /\ srvPc = "balance"
    BY <1>1 DEF SyncAdd
  <2>2. \A r \in DOMAIN queueList : queueList'[r] = queueList[r] \/ queueList'[r] = queueList[r] \cup {req}
    BY <2>1, AccessedEntries, AccessedDomain
  <2> QED BY <2>1, <2>2
<1>2. CreateQueue => \A r \in DOMAIN queueList : queueList'[r] = queueList[r]
  BY AccessedEntries DEF CreateQueue
<1>3. \A q \in DOMAIN queueList : PollQueue(q) => \A r \in DOMAIN queueList : queueList'[r] \subseteq queueList[r]
  BY <1>0 DEF PollQueue, Removed
<1>4. \/ queueList' = queueList \/ CreateQueue \/ \E q \in QueueNumbers : SyncAdd(q)
      \/ \E q \in DOMAIN queueList : PollQueue(q)
  BY DEF Next, ReadRequest, ServeRequest, PushThread, Environment, Register,
         RequestQueue, AddRequest, DeleteRequest, ReceiveMessage, ProducerFails, ProcessEnds,
         GreetConsumer, AddTopicConsumer, DeleteTopicConsumer, TopicRequestDone,
         CopySize, ReplyAck, ProducerReads, StartRound, EndPoll, Classify,
         EndClassify, SelectConsumer, EndRound, Send, Receive, StartRetry, Retry, ConsumerReads,
         ConsumerExits, vars, members, queueVars
<1>5. arrivals' = arrivals \/ arrivals' = arrivals + 1
  BY DEF Next, ReadRequest, ServeRequest, PushThread, Environment, Register,
         RequestQueue, AddRequest, DeleteRequest, ReceiveMessage, ProducerFails, ProcessEnds,
         GreetConsumer, CreateQueue, AddTopicConsumer, DeleteTopicConsumer, TopicRequestDone,
         CopySize, SyncAdd, ReplyAck, ProducerReads, StartRound, PollQueue, EndPoll, Classify,
         EndClassify, SelectConsumer, EndRound, Send, Receive, StartRetry, Retry, ConsumerReads,
         ConsumerExits, vars, histVars
<1>6. srvPc' = "balance" => \/ srvPc = "balance" /\ req' = req
                            \/ \E m \in Messages : ReceiveMessage(m)
  BY DEF Next, ReadRequest, ServeRequest, PushThread, Environment, Register,
         RequestQueue, AddRequest, DeleteRequest, ProducerFails, ProcessEnds,
         GreetConsumer, CreateQueue, AddTopicConsumer, DeleteTopicConsumer, TopicRequestDone,
         CopySize, SyncAdd, ReplyAck, ProducerReads, StartRound, PollQueue, EndPoll, Classify,
         EndClassify, SelectConsumer, EndRound, Send, Receive, StartRetry, Retry, ConsumerReads,
         ConsumerExits, ServerIdle, ServerFree, Replies, vars, srvVars
<1>7. DOMAIN queueList \subseteq DOMAIN queueList'
  BY QueueListStep DEF StoreInv, SafetyInv, TypeInv
<1>8. \A m \in Messages : ReceiveMessage(m) => req'.id = arrivals + 1
  BY DEF ReceiveMessage
<1> QED BY <1>0, <1>1, <1>2, <1>3, <1>4, <1>5, <1>6, <1>7, <1>8

-----------------------------------------------------------------------------
(* A step of the broker, next to the copy, or none. *)
LEMMA BrokerKeeps ==
  ASSUME BrokerAssumption, FirstLifeInv, crashes = 0, [Next]_vars,
         UnderCopy, UNCHANGED recoveryVars
  PROVE  FirstLifeInv'
<1>0. /\ StoreInv /\ CopyOK /\ ReadingOK /\ BeganOK /\ FileOK
      /\ recovery = "off" /\ crashes \in Nat
  BY DEF FirstLifeInv
<1>1. /\ UNCHANGED <<saver, todo, began, reading, copy, file, saves, recovery, crashes>>
      /\ torn \subseteq torn'
  BY DEF UnderCopy, recoveryVars
<1>2. StoreInv' /\ FileOK'
  BY <1>0, <1>1, StoreInvStep DEF FileOK, Mapped, Listed
<1>3. CopyOK'
  <2>1. /\ \A t \in Topics : topicQueueMap[t] \subseteq topicQueueMap'[t]
        /\ index \subseteq index'
    BY <1>0, NothingTakenBack
  <2>2. \A q \in DOMAIN copy.queueList : \A i \in copy.queueList[q] : i.msg.topic \in Topics
    BY <1>0 DEF CopyOK, Arrivals, BrokerAssumption
  <2>3. Mapped(copy, topicQueueMap)'
    BY <1>0, <1>1, <2>1, <2>2 DEF CopyOK, Mapped
  <2>4. Len(todo) <= 3 => Mapped(copy, copy.topicQueueMap)'
    BY <1>0, <1>1 DEF CopyOK, Mapped
  <2>5. Listed(copy)' = Listed(copy)
    BY <1>1 DEF Listed
  <2> QED BY <1>0, <1>1, <2>1, <2>3, <2>4, <2>5 DEF CopyOK
<1>4. BeganOK'
  <2>1. /\ DOMAIN queueList \subseteq DOMAIN queueList'
        /\ \A q \in DOMAIN queueList : \A i \in queueList'[q] :
             i \in queueList[q] \/ (srvPc = "balance" /\ i = req)
        /\ arrivals \in Nat /\ arrivals' \in Nat /\ arrivals <= arrivals'
        /\ srvPc' = "balance" => \/ srvPc = "balance" /\ req' = req
                                 \/ req'.id = arrivals + 1
    BY <1>0, QueuesTakeRequest
  <2>2. ASSUME NEW q \in DOMAIN began, NEW i \in began[q]
        PROVE  i.id \in Nat /\ i.id <= arrivals' /\ (srvPc' = "balance" => i # req')
    <3>1. i.id \in Nat /\ i.id <= arrivals /\ (srvPc = "balance" => i # req)
      BY <1>0 DEF BeganOK
    <3>2. i.id <= arrivals' /\ i.id # arrivals + 1
      BY <2>1, <3>1
    <3> QED BY <2>1, <3>1, <3>2
  <2>3. ASSUME NEW q \in DOMAIN began \cap DOMAIN copy.queueList
        PROVE  Intact(q)' => began[q] \cap queueList'[q] \subseteq copy.queueList[q]
    <3>1. Intact(q)' => Intact(q)
      BY <1>1 DEF Intact
    <3> QED BY <1>0, <2>1, <3>1 DEF BeganOK
  <2>4. DOMAIN began \subseteq DOMAIN queueList'
    BY <1>0, <2>1 DEF BeganOK
  <2>5. Len(todo) <= 4 => TableCopied'
    BY <1>0, <1>1, <2>1 DEF BeganOK, TableCopied
  <2> QED BY <1>1, <2>2, <2>3, <2>4, <2>5 DEF BeganOK
<1>5. ReadingOK'
  BY <1>0, <1>1, QueuesTakeRequest DEF ReadingOK
<1> QED BY <1>0, <1>1, <1>2, <1>3, <1>4, <1>5 DEF FirstLifeInv

LEMMA MemberCopied ==
  ASSUME DOMAIN copy = Fields, NEW name \in Fields,
         copy' = [copy EXCEPT ![name] = Members[name]]
  PROVE  /\ DOMAIN copy' = Fields
         /\ \A f \in Fields : copy'[f] = IF f = name THEN Members[name] ELSE copy[f]
OBVIOUS

LEMMA StartSaveKeeps ==
  ASSUME BrokerAssumption, FirstLifeInv, crashes = 0, StartSave
  PROVE  CopyOK' /\ ReadingOK' /\ BeganOK'
<1>0. StoreInv /\ CopyOK /\ ReadingOK /\ ~Ended
  BY DEF FirstLifeInv, StartSave, Running, Ended
<1>1. /\ copy' = [Blank EXCEPT !.count = count] /\ began' = queueList /\ todo' = MemberOrder
      /\ saver = "sleep" /\ saver' = "copy"
      /\ UNCHANGED <<reading, queueList, topicQueueMap, index, arrivals, srvPc, req>>
  BY DEF StartSave, vars, members, queueVars, consVars, srvVars, histVars
<1>2. Len(MemberOrder) = 5 /\ MemberOrder \in ToCopy
  BY DEF MemberOrder, ToCopy
<1>3. /\ copy'.queueList = [q \in {} |-> {}] /\ DOMAIN copy' = Fields
  BY <1>1 DEF Blank, Fields
<1>4. CopyOK'
  BY <1>1, <1>2, <1>3 DEF CopyOK, Mapped
<1>5. ASSUME NEW q \in DOMAIN queueList, NEW i \in queueList[q]
      PROVE  i.id \in Nat /\ i.id <= arrivals /\ (srvPc = "balance" => i # req)
  <2>1. i.id \in AllQueued
    BY DEF AllQueued, Queued
  <2>2. i.id \in 1..arrivals /\ i.id \notin InHand
    BY <1>0, <2>1 DEF StoreInv, Conservation
  <2> QED BY <2>2 DEF InHand
<1>6. BeganOK'
  BY <1>1, <1>2, <1>3, <1>5 DEF BeganOK
<1>7. ReadingOK'
  BY <1>0, <1>1 DEF ReadingOK
<1> QED BY <1>4, <1>6, <1>7

(* What CopyOK says while the queues are copied: the messages copied are    *)
(* some that their queues hold.                                             *)
LEMMA QueueCopied ==
  ASSUME StoreInv, CopyOK, ReadingOK, todo # <<>>, Head(todo) = "queueList",
         NEW q \in DOMAIN queueList, NEW S \in SUBSET Arrivals,
         \A i \in S : i \in queueList[q] \/ (q \in DOMAIN copy.queueList /\ i \in copy.queueList[q]),
         copy' = Copied(q, S), UNCHANGED <<saver, todo, vars>>
  PROVE  /\ CopyOK' /\ Len(todo) = 5 /\ todo = MemberOrder
         /\ DOMAIN copy'.queueList = DOMAIN copy.queueList \cup {q}
         /\ copy'.queueList[q] = S
         /\ \A r \in DOMAIN copy.queueList : r # q => copy'.queueList[r] = copy.queueList[r]
<1>1. UNCHANGED <<topicQueueMap, index>>
  BY DEF vars, members, queueVars, consVars
<1>2. todo = MemberOrder /\ Len(todo) = 5
  BY DEF CopyOK, ToCopy, MemberOrder
<1>3. /\ DOMAIN copy' = Fields /\ DOMAIN copy'.queueList = DOMAIN copy.queueList \cup {q}
      /\ copy'.queueList[q] = S
      /\ \A r \in DOMAIN copy.queueList : r # q => copy'.queueList[r] = copy.queueList[r]
  BY DEF CopyOK, Copied, Fields
<1>4. \A i \in queueList[q] : q = 0 \/ q \in topicQueueMap[i.msg.topic]
  BY DEF StoreInv, SafetyInv, TopicIsolation
<1>5. Mapped(copy, topicQueueMap)'
  BY <1>1, <1>3, <1>4 DEF CopyOK, Mapped
<1>6. /\ ~(Len(todo') <= 3) /\ ~(Len(todo') <= 2)
      /\ ~(Len(todo') <= 1) /\ ~(Len(todo') <= 0)
  BY <1>2
<1>7. \A r \in DOMAIN copy'.queueList : copy'.queueList[r] \subseteq Arrivals
  BY <1>3 DEF CopyOK
<1>8. Arrivals' = Arrivals
  BY DEF Arrivals
<1>9. CopyOK'
  BY <1>1, <1>2, <1>3, <1>5, <1>6, <1>7, <1>8 DEF CopyOK
<1> QED BY <1>2, <1>3, <1>9

LEMMA CopyQueueKeeps ==
  ASSUME BrokerAssumption, FirstLifeInv, crashes = 0, NEW q,
         \/ StartQueue(q) \/ EndQueue(q)
         \/ \E i \in Holds(q) : CopyMessage(q, i)
  PROVE  CopyOK' /\ ReadingOK' /\ BeganOK'
<1>0. StoreInv /\ CopyOK /\ ReadingOK /\ BeganOK
  BY DEF FirstLifeInv
<1>1. /\ UNCHANGED <<saver, todo, began, torn, vars>>
      /\ UNCHANGED <<queueList, topicQueueMap, index, arrivals, srvPc, req>>
  BY DEF StartQueue, EndQueue, CopyMessage, vars, members, queueVars, consVars, srvVars, histVars
<1>2. q \in DOMAIN queueList /\ Holds(q) = queueList[q] /\ queueList[q] \subseteq Arrivals
  <2>1. q \in DOMAIN queueList
    BY <1>0 DEF StartQueue, EndQueue, CopyMessage, ReadingOK
  <2>2. queueList[q] \subseteq Arrivals
    BY <1>0, <2>1 DEF StoreInv, SafetyInv, TypeInv, LifeTypes, TypeOK, SharedTypes
  <2> QED BY <2>1, <2>2 DEF Holds
<1>3. CASE StartQueue(q)
  <2>1. /\ q \notin DOMAIN copy.queueList /\ Head(todo) = "queueList" /\ todo # <<>>
        /\ saver = "copy" /\ reading' = {q} /\ copy' = Copied(q, {})
    BY <1>3 DEF StartQueue
  <2>2. /\ CopyOK' /\ Len(todo) = 5 /\ todo = MemberOrder
        /\ DOMAIN copy'.queueList = DOMAIN copy.queueList \cup {q}
        /\ \A r \in DOMAIN copy.queueList : r # q => copy'.queueList[r] = copy.queueList[r]
    BY <1>0, <1>1, <1>2, <2>1, QueueCopied
  <2>3. BeganOK'
    BY <1>0, <1>1, <1>3, <2>1, <2>2 DEF BeganOK, Intact, StartQueue
  <2>4. ReadingOK'
    BY <1>1, <1>2, <2>1, <2>2 DEF ReadingOK
  <2> QED BY <2>2, <2>3, <2>4
<1>4. ASSUME NEW i \in Holds(q), CopyMessage(q, i) PROVE CopyOK' /\ ReadingOK' /\ BeganOK'
  <2>1. /\ q \in reading /\ q \in DOMAIN copy.queueList /\ UNCHANGED reading
        /\ todo = MemberOrder /\ copy' = Copied(q, copy.queueList[q] \cup {i})
    BY <1>0, <1>4 DEF CopyMessage, ReadingOK
  <2>2. todo # <<>> /\ Head(todo) = "queueList"
    BY <2>1 DEF MemberOrder
  <2>3. copy.queueList[q] \cup {i} \in SUBSET Arrivals
    BY <1>0, <1>2, <2>1 DEF CopyOK
  <2>4. /\ CopyOK' /\ Len(todo) = 5
        /\ DOMAIN copy'.queueList = DOMAIN copy.queueList
        /\ \A r \in DOMAIN copy.queueList : r # q => copy'.queueList[r] = copy.queueList[r]
    <3>1. \A j \in copy.queueList[q] \cup {i} :
            j \in queueList[q] \/ (q \in DOMAIN copy.queueList /\ j \in copy.queueList[q])
      BY <1>2, <2>1
    <3>2. copy' = Copied(q, copy.queueList[q] \cup {i})
      BY <2>1
    <3> HIDE DEF CopyMessage
    <3>3. /\ CopyOK' /\ Len(todo) = 5
          /\ DOMAIN copy'.queueList = DOMAIN copy.queueList \cup {q}
          /\ \A r \in DOMAIN copy.queueList : r # q => copy'.queueList[r] = copy.queueList[r]
      BY ONLY <1>0, <1>1, <1>2, <2>2, <2>3, <3>1, <3>2, QueueCopied
    <3> QED BY <2>1, <3>3
  <2>5. BeganOK'
    <3>1. \A r \in DOMAIN copy.queueList : Intact(r)' => Intact(r) /\ r # q
      BY <1>1, <2>1 DEF Intact
    <3> QED BY <1>0, <1>1, <2>4, <3>1 DEF BeganOK
  <2>6. ReadingOK'
    BY <1>0, <1>1, <2>1, <2>4 DEF ReadingOK
  <2> QED BY <2>4, <2>5, <2>6
<1>5. CASE EndQueue(q)
  <2>1. /\ UNCHANGED copy /\ reading' = {} /\ q \in reading
        /\ queueList[q] \subseteq copy.queueList[q] \/ q \in torn
    BY <1>2, <1>5 DEF EndQueue
  <2>2. CopyOK'
    BY <1>0, <1>1, <2>1 DEF CopyOK, Mapped, Listed
  <2>3. Len(todo) = 5
    BY <1>0, <2>1 DEF ReadingOK, MemberOrder
  <2>4. ASSUME NEW r \in DOMAIN began \cap DOMAIN copy.queueList, Intact(r)'
        PROVE  began[r] \cap queueList[r] \subseteq copy.queueList[r]
    <3>1. r \notin torn
      BY <1>1, <2>4 DEF Intact
    <3>2. CASE r = q
      BY <2>1, <3>1, <3>2
    <3>3. CASE r # q /\ r \in reading
      BY <1>0, <1>5, <3>3 DEF EndQueue, ReadingOK, FirstLifeInv
    <3>4. CASE r \notin reading
      BY <1>0, <3>1, <3>4 DEF BeganOK, Intact
    <3> QED BY <3>2, <3>3, <3>4
  <2>5. BeganOK'
    BY <1>0, <1>1, <2>1, <2>3, <2>4 DEF BeganOK
  <2>6. ReadingOK'
    BY <2>1 DEF ReadingOK
  <2> QED BY <2>2, <2>5, <2>6
<1> QED BY <1>3, <1>4, <1>5

(* Where the copy is, and what comes next. *)
LEMMA NextMember ==
  ASSUME todo \in ToCopy
  PROVE  \/ todo = MemberOrder /\ Len(todo) = 5 /\ Head(todo) = "queueList"
            /\ Tail(todo) = <<"topicQueueMap", "topicConsumerMap", "index", "clients">>
            /\ Len(Tail(todo)) = 4
         \/ todo = <<"topicQueueMap", "topicConsumerMap", "index", "clients">>
            /\ Len(todo) = 4 /\ Head(todo) = "topicQueueMap"
            /\ Tail(todo) = <<"topicConsumerMap", "index", "clients">> /\ Len(Tail(todo)) = 3
         \/ todo = <<"topicConsumerMap", "index", "clients">>
            /\ Len(todo) = 3 /\ Head(todo) = "topicConsumerMap"
            /\ Tail(todo) = <<"index", "clients">> /\ Len(Tail(todo)) = 2
         \/ todo = <<"index", "clients">> /\ Len(todo) = 2 /\ Head(todo) = "index"
            /\ Tail(todo) = <<"clients">> /\ Len(Tail(todo)) = 1
         \/ todo = <<"clients">> /\ Len(todo) = 1 /\ Head(todo) = "clients"
            /\ Tail(todo) = <<>> /\ Len(Tail(todo)) = 0
         \/ todo = <<>> /\ Len(todo) = 0
<1>1. CASE todo = MemberOrder
  BY <1>1 DEF MemberOrder
<1>2. CASE todo = <<"topicQueueMap", "topicConsumerMap", "index", "clients">>
  BY <1>2
<1>3. CASE todo = <<"topicConsumerMap", "index", "clients">>
  BY <1>3
<1>4. CASE todo = <<"index", "clients">>
  BY <1>4
<1>5. CASE todo = <<"clients">>
  BY <1>5
<1>6. CASE todo = <<>>
  BY <1>6
<1> QED BY <1>1, <1>2, <1>3, <1>4, <1>5, <1>6 DEF ToCopy

LEMMA CopyMemberKeeps ==
  ASSUME BrokerAssumption, FirstLifeInv, crashes = 0, CopyMember
  PROVE  CopyOK' /\ ReadingOK' /\ BeganOK'
<1>0. StoreInv /\ CopyOK /\ ReadingOK /\ BeganOK
  BY DEF FirstLifeInv
<1>1. /\ UNCHANGED <<saver, began, torn, reading, queueList, topicQueueMap>>
      /\ UNCHANGED <<topicConsumerMap, index, clients>>
      /\ UNCHANGED <<arrivals, srvPc, req>>
      /\ saver = "copy" /\ todo # <<>> /\ todo' = Tail(todo) /\ reading = {}
  BY DEF CopyMember, vars, members, queueVars, consVars, srvVars, histVars
<1>2. topicQueueMap \in [Topics -> SUBSET Nat] /\ topicConsumerMap \in [Topics -> SUBSET IpNodes]
  BY <1>0 DEF StoreInv, SafetyInv, TypeInv, LifeTypes, TypeOK, SharedTypes
<1>a. ReadingOK'
  BY <1>0, <1>1 DEF ReadingOK
<1>3. CASE Head(todo) = "queueList"
  <2>1. todo' = <<"topicQueueMap", "topicConsumerMap", "index", "clients">>
    BY <1>0, <1>1, <1>3, NextMember DEF CopyOK
  <2>2. UNCHANGED copy /\ TableCopied /\ Len(todo') = 4 /\ todo' \in ToCopy
    BY <1>3, <2>1 DEF CopyMember, ToCopy
  <2>3. Mapped(copy, topicQueueMap)'
    BY <1>0, <1>1, <2>2 DEF CopyOK, Mapped
  <2>4. CopyOK'
    <3>1. /\ ~(Len(todo') <= 3) /\ ~(Len(todo') <= 2)
          /\ ~(Len(todo') <= 1) /\ ~(Len(todo') <= 0)
      BY <2>2
    <3>2. saver' = "copy"
      BY <1>1
    <3>3. copy' = copy /\ arrivals' = arrivals
      BY <1>1, <2>2
    <3>4. \A q \in DOMAIN copy'.queueList : copy'.queueList[q] \subseteq Arrivals'
      BY <1>0, <3>3 DEF CopyOK, Arrivals
    <3>5. todo' \in ToCopy /\ DOMAIN copy' = Fields
      BY <1>0, <2>2, <3>3 DEF CopyOK
    <3> QED BY <2>3, <3>1, <3>2, <3>4, <3>5 DEF CopyOK
  <2>5. BeganOK'
    <3>1. TableCopied'
      BY <1>1, <2>2 DEF TableCopied
    <3>2. UNCHANGED <<copy, began, queueList, arrivals, srvPc, req>>
      BY <1>1, <2>2
    <3> QED BY <1>0, <1>1, <3>1, <3>2 DEF BeganOK, Intact
  <2> QED BY <1>a, <2>4, <2>5
<1>4. ASSUME Head(todo) # "queueList"
      PROVE  /\ DOMAIN copy' = Fields
             /\ \A f \in Fields :
                  copy'[f] = IF f = Head(todo) THEN Members[Head(todo)] ELSE copy[f]
  <2>1. Head(todo) \in Fields
    BY <1>0, <1>1, NextMember DEF CopyOK, Fields
  <2> QED BY <1>0, <1>4, <2>1, MemberCopied DEF CopyMember, CopyOK
<1>5. CASE Head(todo) # "queueList"
  <2>1. /\ Len(todo) <= 4 /\ todo' \in ToCopy /\ Len(todo') <= 3
    BY <1>0, <1>1, <1>5, NextMember DEF CopyOK, ToCopy
  <2>2. copy'.queueList = copy.queueList
    BY <1>4, <1>5 DEF Fields
  <2>3. BeganOK'
    BY <1>0, <1>1, <2>1, <2>2 DEF BeganOK, TableCopied, Intact
  <2>4. Mapped(copy, topicQueueMap)'
    BY <1>0, <1>1, <2>2 DEF CopyOK, Mapped
  <2>5. CASE todo' = <<"topicConsumerMap", "index", "clients">>
    <3>1. Head(todo) = "topicQueueMap" /\ Len(todo') = 3
      BY <1>0, <1>1, <1>5, <2>5, NextMember DEF CopyOK
    <3>2. copy'.topicQueueMap = topicQueueMap
      BY <1>4, <1>5, <3>1 DEF Fields, Members
    <3>3. Mapped(copy, copy.topicQueueMap)'
      BY <1>1, <2>4, <3>2 DEF Mapped
    <3> QED BY <1>0, <1>1, <1>a, <1>4, <1>5, <2>1, <2>2, <2>3, <2>4, <3>1, <3>3 DEF CopyOK
  <2>6. CASE Len(todo) <= 3
    <3>1. copy'.topicQueueMap = copy.topicQueueMap
      BY <1>0, <1>1, <1>4, <1>5, <2>6, NextMember DEF CopyOK, Fields
    <3>2. Mapped(copy, copy.topicQueueMap)'
      BY <1>0, <2>2, <2>6, <3>1 DEF CopyOK, Mapped
    <3>3. CASE todo = <<"topicConsumerMap", "index", "clients">>
      <4>1. copy'.topicConsumerMap = topicConsumerMap
        BY <1>4, <1>5, <3>3 DEF Fields, Members
      <4>2. Listed(copy)' \subseteq index
        BY <1>0, <1>2, <4>1 DEF StoreInv, SafetyInv, MappedRegistered, Listed
      <4>3. Len(todo') = 2
        BY <1>1, <3>3
      <4>4. /\ todo' \in ToCopy /\ saver' = "copy" /\ DOMAIN copy' = Fields /\ index' = index
            /\ \A q \in DOMAIN copy'.queueList : copy'.queueList[q] \subseteq Arrivals'
        BY <1>0, <1>1, <1>4, <1>5, <2>1, <2>2 DEF CopyOK, Arrivals
      <4>5. CopyOK'
        BY <2>4, <3>2, <4>2, <4>3, <4>4 DEF CopyOK
      <4> QED BY <1>a, <2>3, <4>5
    <3>4. CASE todo = <<"index", "clients">>
      <4>1. copy'.topicConsumerMap = copy.topicConsumerMap /\ copy'.index = index
        BY <1>4, <1>5, <3>4 DEF Fields, Members
      <4>2. Listed(copy)' = Listed(copy) /\ Listed(copy) \subseteq index
        BY <1>0, <3>4, <4>1 DEF CopyOK, Listed
      <4>3. Len(todo') = 1
        BY <1>1, <3>4
      <4> QED BY <1>0, <1>1, <1>a, <1>4, <1>5, <2>1, <2>2, <2>3, <2>4, <3>2, <4>1, <4>2, <4>3 DEF CopyOK
    <3>5. CASE todo = <<"clients">>
      <4>1. /\ copy'.topicConsumerMap = copy.topicConsumerMap /\ copy'.index = copy.index
            /\ copy'.clients = clients
        BY <1>4, <1>5, <3>5 DEF Fields, Members
      <4>2. /\ Listed(copy)' = Listed(copy)
            /\ Listed(copy) \subseteq copy.index /\ copy.index \subseteq index
        BY <1>0, <3>5, <4>1 DEF CopyOK, Listed
      <4>3. index \subseteq IpNodes /\ \A c \in IpNodes : c \in index <=> clients[c] # NoFd
        BY <1>0 DEF StoreInv, SafetyInv, TypeInv, LifeTypes, TypeOK, SharedTypes, ConnectionsOK
      <4>4. \A c \in Listed(copy)' : copy'.clients[c] # NoFd
        BY <4>1, <4>2, <4>3
      <4>5. /\ Len(todo') = 0 /\ saver' = "copy" /\ index' = index
            /\ Listed(copy)' \subseteq copy'.index /\ copy'.index \subseteq index
            /\ Listed(copy)' \subseteq index
        BY <1>1, <3>5, <4>1, <4>2
      <4>6. /\ saver' \in {"sleep", "copy", "write"} /\ todo' \in ToCopy
            /\ saver' # "copy" => todo' = <<>>
            /\ DOMAIN copy' = Fields
            /\ \A q \in DOMAIN copy'.queueList : copy'.queueList[q] \subseteq Arrivals'
            /\ Mapped(copy, topicQueueMap)'
        BY <1>0, <1>1, <1>4, <1>5, <2>1, <2>2, <2>3, <2>4 DEF CopyOK
      <4>7. Listed(copy)' \subseteq index' /\ copy'.index \subseteq index'
        BY <4>5
      <4> QED BY <1>a, <2>3, <3>2, <4>4, <4>5, <4>6, <4>7 DEF CopyOK
    <3>6. todo \in {<<"topicConsumerMap", "index", "clients">>, <<"index", "clients">>, <<"clients">>}
      <4>1. Len(MemberOrder) = 5
            /\ Len(<<"topicQueueMap", "topicConsumerMap", "index", "clients">>) = 4
        BY DEF MemberOrder
      <4>2. todo # MemberOrder /\ todo # <<"topicQueueMap", "topicConsumerMap", "index", "clients">>
        BY ONLY <2>6, <4>1
      <4> QED BY <1>0, <1>1, <4>2 DEF CopyOK, ToCopy
    <3> QED BY <3>3, <3>4, <3>5, <3>6
  <2> QED BY <1>0, <1>1, <1>5, <2>5, <2>6, NextMember DEF CopyOK
<1> QED BY <1>a, <1>3, <1>5

LEMMA FileKeeps ==
  ASSUME BrokerAssumption, FirstLifeInv, crashes = 0, OpenFile \/ WriteFile
  PROVE  CopyOK' /\ ReadingOK' /\ BeganOK' /\ FileOK'
<1>0. StoreInv /\ CopyOK /\ ReadingOK /\ BeganOK /\ todo = <<>> /\ Len(todo) = 0
  BY DEF FirstLifeInv, CopyOK, OpenFile, WriteFile
<1>a. reading = {}
  BY <1>0 DEF ReadingOK, MemberOrder
<1>1. UNCHANGED <<todo, reading, queueList, topicQueueMap, index, arrivals, srvPc, req>>
  BY DEF OpenFile, WriteFile, vars, members, queueVars, consVars, srvVars, histVars
<1>2. CASE OpenFile
  <2>1. UNCHANGED <<began, torn, copy>> /\ saver' = "write" /\ file'.state = "torn"
    BY <1>2 DEF OpenFile
  <2>2. CopyOK'
    BY <1>0, <1>1, <2>1 DEF CopyOK, Mapped, Listed
  <2>3. BeganOK'
    BY <1>0, <1>1, <2>1 DEF BeganOK, TableCopied, Intact
  <2> QED BY <1>a, <1>1, <2>1, <2>2, <2>3 DEF ReadingOK, FileOK
<1>3. CASE WriteFile
  <2>1. /\ copy' = Blank /\ began' = [q \in {} |-> {}] /\ saver' = "sleep"
        /\ file'.broker = copy
    BY <1>3 DEF WriteFile, Blank
  <2>2. /\ DOMAIN copy' = Fields /\ copy'.queueList = [q \in {} |-> {}] /\ copy'.index = {}
        /\ copy'.topicConsumerMap = [t \in Topics |-> {}]
    BY <2>1 DEF Blank, Fields
  <2>3. Listed(copy)' = {}
    BY <2>2 DEF Listed
  <2>4. CopyOK'
    BY <1>0, <1>1, <2>1, <2>2, <2>3 DEF CopyOK, Mapped
  <2>5. BeganOK'
    BY <2>1 DEF BeganOK, TableCopied
  <2>6. FileOK'
    BY <1>0, <2>1 DEF CopyOK, FileOK, Mapped, Listed
  <2> QED BY <1>a, <1>1, <2>4, <2>5, <2>6 DEF ReadingOK
<1> QED BY <1>2, <1>3

LEMMA FirstLifeStep ==
  ASSUME BrokerAssumption, FirstLifeInv, [PersistenceNext]_persistenceVars
  PROVE  FirstLifeInv'
<1>0. crashes \in Nat
  BY DEF FirstLifeInv
<1>1. CASE crashes # 0
  <2>1. crashes' = crashes \/ crashes' = crashes + 1
    BY DEF PersistenceNext, Save, StartSave, CopyMember, OpenFile, WriteFile, StartQueue,
           CopyMessage, EndQueue, UnderCopy, Recover,
           ReadFile, AssignMember, Restart, recoveryVars, persistenceVars
  <2> QED BY <1>0, <1>1, <2>1 DEF FirstLifeInv
<1>2. CASE crashes = 0
  <2>1. CASE Restart
    BY <1>0, <2>1 DEF Restart, FirstLifeInv
  <2>2. ~Recover
    BY <1>2 DEF FirstLifeInv, Recover, ReadFile, AssignMember
  <2>3. CASE Save
    <3>1. UNCHANGED <<vars, recovery, crashes>>
      BY <2>3 DEF Save, StartSave, CopyMember, OpenFile, WriteFile, StartQueue,
             CopyMessage, EndQueue, recoveryVars
    <3>2. StoreInv'
      BY <1>2, <3>1, StoreInvStep DEF FirstLifeInv
    <3>3. CopyOK' /\ ReadingOK' /\ BeganOK'
      BY <1>2, <2>3, StartSaveKeeps, CopyQueueKeeps, CopyMemberKeeps, FileKeeps DEF Save
    <3>4. file' = file \/ OpenFile \/ WriteFile
      BY <2>3 DEF Save, StartSave, CopyMember, StartQueue, CopyMessage, EndQueue
    <3>5. FileOK'
      BY <1>2, <3>4, FileKeeps DEF FirstLifeInv, FileOK, Mapped, Listed
    <3> QED BY <1>0, <1>2, <3>1, <3>2, <3>3, <3>5 DEF FirstLifeInv
  <2>4. CASE Next /\ UnderCopy /\ UNCHANGED recoveryVars
    BY <1>2, <2>4, BrokerKeeps
  <2>5. CASE UNCHANGED persistenceVars
    <3>1. \A q \in reading : Holds(q)' = Holds(q)
      BY <2>5 DEF persistenceVars, vars, members, queueVars, Holds
    <3>2. UnderCopy
      BY <2>5, <3>1 DEF UnderCopy, persistenceVars, saverVars
    <3> QED BY <1>2, <2>5, <3>2, BrokerKeeps DEF persistenceVars
  <2> QED BY <2>1, <2>2, <2>3, <2>4, <2>5 DEF PersistenceNext
<1> QED BY <1>1, <1>2

LEMMA FirstLifeInvariance == PersistenceSpec => []FirstLifeInv
BY FirstLifeInit, FirstLifeStep, BrokerAssumption, PTL DEF PersistenceSpec

-----------------------------------------------------------------------------
(* No message of the first file is in a queue its topic does not have       *)
(* there (BrokerPersistence, and the order of Broker's members).            *)
THEOREM SavedMessagesAreMapped == PersistenceSpec => []SavedMessagesMapped
<1>1. FirstLifeInv => SavedMessagesMapped
  BY DEF FirstLifeInv, FileOK, Mapped, FirstFile, SavedMessagesMapped
<1> QED BY <1>1, FirstLifeInvariance, PTL

(* Every subscriber of the first file is registered there.                  *)
THEOREM SavedConsumersAreKnown == PersistenceSpec => []SavedConsumersKnown
<1>1. FirstLifeInv => SavedConsumersKnown
  BY DEF FirstLifeInv, FileOK, Listed, FirstFile, SavedConsumersKnown
<1> QED BY <1>1, FirstLifeInvariance, PTL

(* What stays queued from the beginning of a save to its end is in the      *)
(* first file, unless its queue or the table changed while it was copied:   *)
(* the copy is made with no lock (MyQueue's copy constructor).              *)
THEOREM QueuedMessagesAreSaved == PersistenceSpec => QueuedIsSaved
<1>1. ASSUME FirstLifeInv, [PersistenceNext]_persistenceVars,
             FirstFile', file.state = "torn", DOMAIN queueList = DOMAIN began,
             NEW q \in DOMAIN began \ torn
      PROVE  /\ q \in DOMAIN file'.broker.queueList
             /\ began[q] \cap queueList[q] \subseteq file'.broker.queueList[q]
  <2>1. file' # file /\ file'.state # "torn" /\ crashes' = 0
    BY <1>1 DEF FirstFile
  <2>a. WriteFile
    <3>1. PersistenceNext
      BY <1>1, <2>1 DEF persistenceVars, saverVars
    <3>2. ~OpenFile /\ ~StartSave /\ ~CopyMember /\ ~Recover /\ ~Restart
      BY <2>1 DEF OpenFile, StartSave, CopyMember, Recover, ReadFile, AssignMember,
         Restart, saverVars, UnderCopy
    <3>3. \A r : ~StartQueue(r) /\ ~EndQueue(r) /\ \A i : ~CopyMessage(r, i)
      BY <2>1 DEF StartQueue, EndQueue, CopyMessage
    <3>4. ~UnderCopy
      BY <2>1 DEF UnderCopy
    <3> QED BY <3>1, <3>2, <3>3, <3>4 DEF PersistenceNext, Save
  <2>2. WriteFile /\ crashes = 0
    BY <2>1, <2>a DEF WriteFile, recoveryVars
  <2>3. BeganOK /\ file'.broker = copy /\ Len(todo) <= 4 /\ Intact(q)
    BY <1>1, <2>2 DEF FirstLifeInv, CopyOK, ReadingOK, Intact, WriteFile
  <2>4. DOMAIN began \subseteq DOMAIN copy.queueList
    BY <1>1, <2>3 DEF BeganOK, TableCopied
  <2> QED BY <2>3, <2>4 DEF BeganOK
<1>2. FirstLifeInv /\ [PersistenceNext]_persistenceVars =>
        [FirstFile' /\ file.state = "torn" /\ DOMAIN queueList = DOMAIN began =>
           \A q \in DOMAIN began \ torn :
             /\ q \in DOMAIN file'.broker.queueList
             /\ began[q] \cap queueList[q] \subseteq file'.broker.queueList[q]]_persistenceVars
  BY <1>1
<1> QED BY <1>2, FirstLifeInvariance, PTL DEF PersistenceSpec, QueuedIsSaved

-----------------------------------------------------------------------------
(* Until the first crash the persistence thread is not to be seen: what    *)
(* the other two threads do is a behaviour of the broker without it, so    *)
(* everything proved of that holds (BrokerPersistence takes a copy).       *)
THEOREM SavingIsInvisible == PersistenceSpec /\ [](crashes = 0) => Spec
<1>1. PersistenceInit => Init
  BY DEF PersistenceInit
<1>2. FirstLifeInv /\ [PersistenceNext]_persistenceVars /\ crashes = 0 /\ (crashes = 0)'
        => [Next]_vars
  <2> SUFFICES ASSUME FirstLifeInv, [PersistenceNext]_persistenceVars, crashes = 0, crashes' = 0
               PROVE  [Next]_vars
    OBVIOUS
  <2>1. ~Restart
    BY DEF Restart
  <2>2. ~Recover
    BY DEF FirstLifeInv, Recover, ReadFile, AssignMember
  <2>3. Save => UNCHANGED vars
    BY DEF Save, StartSave, CopyMember, OpenFile, WriteFile, StartQueue,
           CopyMessage, EndQueue
  <2> QED BY <2>1, <2>2, <2>3 DEF PersistenceNext, persistenceVars
<1> QED BY <1>1, <1>2, FirstLifeInvariance, PTL DEF PersistenceSpec, Spec

(* In particular, as long as it runs it keeps every message until it hands *)
(* it over, and hands over none twice.                                     *)
THEOREM SavingBrokerIsStore == PersistenceSpec /\ [](crashes = 0) => ImplementsStore
BY SavingIsInvisible, BrokerIsStore
==============================================================================
