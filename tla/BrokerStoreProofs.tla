-------------------------- MODULE BrokerStoreProofs --------------------------
(***************************************************************************)
(* The broker keeps every message until it hands it over, once: the        *)
(* conservation of messages, the abstract store it implements, and what    *)
(* follows for the consumers' sockets.                                     *)
(***************************************************************************)
EXTENDS BrokerProofs

(* No two messages of a set have one id. *)
OneCopy(S) == \A i, j \in S : i.id = j.id => i = j

(* Both threads end together, since they are one process. *)
EndedTogether == Ended => srvPc \in {"killed", "exited"}

StoreInv ==
  /\ SafetyInv /\ Conservation /\ EndedTogether
  /\ ~Ended => /\ \A q \in DOMAIN queueList : OneCopy(queueList[q])
               /\ OneCopy(batch)

-----------------------------------------------------------------------------
LEMMA StoreInvInit == ASSUME BrokerAssumption, Init PROVE StoreInv
<1>1. SafetyInv
  BY SafetyInvInit
<1>2. InHand = {} /\ AllQueued = {} /\ Batched = {} /\ handled = {} /\ 1..arrivals = {}
  BY DEF Init, InHand, AllQueued, Batched
<1>3. DOMAIN queueList = {} /\ batch = {}
  BY DEF Init
<1>4. EndedTogether
  BY DEF Init, EndedTogether, Ended
<1> QED BY <1>1, <1>2, <1>3, <1>4 DEF StoreInv, Conservation, OneCopy

(* A process that has ended takes no step of its own. *)
LEMMA EndedStays == ASSUME [Next]_vars, Ended PROVE Ended'
BY DEF Ended, Next, ReadRequest, ServeRequest, PushThread, Environment, Register,
       RequestQueue, AddRequest, DeleteRequest, ReceiveMessage, ProducerFails, ProcessEnds,
       GreetConsumer, CreateQueue, AddTopicConsumer, DeleteTopicConsumer, TopicRequestDone,
       CopySize, SyncAdd, ReplyAck, ProducerReads, StartRound, PollQueue, EndPoll, Classify,
       EndClassify, SelectConsumer, EndRound, Send, Receive, StartRetry, Retry, ConsumerReads,
       ConsumerExits, vars, pushVars

LEMMA EndedTogetherStep == ASSUME [Next]_vars, EndedTogether PROVE EndedTogether'
BY DEF EndedTogether, Ended, Next, ReadRequest, ServeRequest, PushThread, Environment, Register,
       RequestQueue, AddRequest, DeleteRequest, ReceiveMessage, ProducerFails, ProcessEnds,
       GreetConsumer, CreateQueue, AddTopicConsumer, DeleteTopicConsumer, TopicRequestDone,
       CopySize, SyncAdd, ReplyAck, ProducerReads, StartRound, PollQueue, EndPoll, Classify,
       EndClassify, SelectConsumer, EndRound, Send, Receive, StartRetry, Retry, ConsumerReads,
       ConsumerExits, ServerIdle, ServerFree, Replies, vars, srvVars, pushVars

(* The steps that move a message from one place to another. *)
Moving ==
  \/ CreateQueue
  \/ \E m \in Messages : ReceiveMessage(m)
  \/ \E q \in QueueNumbers : SyncAdd(q)
  \/ \E q \in DOMAIN queueList : PollQueue(q)
  \/ \E i \in batch : Classify(i)

(* Every other step leaves them alone. *)
LEMMA StillSteps ==
  ASSUME [Next]_vars, ~Moving
  PROVE  /\ UNCHANGED <<queueList, batch, arrivals, handled>>
         /\ srvPc' = "balance" => srvPc = "balance" /\ req' = req
<1>1. UNCHANGED <<queueList, batch, arrivals, handled>>
  BY DEF Moving, Next, ReadRequest, ServeRequest, PushThread, Environment, Register,
         RequestQueue, AddRequest, DeleteRequest, ProducerFails, ProcessEnds,
         GreetConsumer, AddTopicConsumer, DeleteTopicConsumer, TopicRequestDone,
         CopySize, ReplyAck, ProducerReads, StartRound, EndPoll, EndClassify,
         SelectConsumer, EndRound, Send, Receive, StartRetry, Retry, ConsumerReads,
         ConsumerExits, vars, pushVars, members, queueVars, histVars
<1>2. srvPc' = "balance" => srvPc = "balance" /\ req' = req
  BY DEF Moving, Next, ReadRequest, ServeRequest, PushThread, Environment, Register,
         RequestQueue, AddRequest, DeleteRequest, ProducerFails, ProcessEnds,
         GreetConsumer, AddTopicConsumer, DeleteTopicConsumer, TopicRequestDone, ServerIdle,
         ServerFree, Replies, CopySize, ReplyAck, ProducerReads, StartRound, EndPoll, EndClassify,
         SelectConsumer, EndRound, Send, Receive, StartRetry, Retry, ConsumerReads,
         ConsumerExits, vars, srvVars
<1> QED BY <1>1, <1>2

LEMMA OtherSteps ==
  ASSUME [Next]_vars, ~Ended', ~Moving
  PROVE  UNCHANGED <<queueList, batch, arrivals, handled, InHand>>
<1>1. UNCHANGED <<queueList, batch, arrivals, handled>>
  BY StillSteps
<1>2. srvPc = "balance" => srvPc' = "balance"
  BY DEF Moving, Next, ReadRequest, ServeRequest, PushThread, Environment, Register,
         RequestQueue, AddRequest, DeleteRequest, ProducerFails, ProcessEnds, Ended,
         GreetConsumer, AddTopicConsumer, DeleteTopicConsumer, TopicRequestDone, ServerIdle,
         ServerFree, Replies, CopySize, ReplyAck, ProducerReads, StartRound, EndPoll, EndClassify,
         SelectConsumer, EndRound, Send, Receive, StartRetry, Retry, ConsumerReads,
         ConsumerExits, vars, srvVars
<1> QED BY <1>1, <1>2, StillSteps DEF InHand

LEMMA SyncAddQueues ==
  ASSUME NEW q, SyncAdd(q)
  PROVE  /\ DOMAIN queueList' = DOMAIN queueList \cup {q}
         /\ \A r \in DOMAIN queueList : r # q => queueList'[r] = queueList[r]
         /\ queueList'[q] = (IF q \in DOMAIN queueList THEN queueList[q] ELSE {}) \cup {req}
<1>1. queueList' = [Accessed(q) EXCEPT ![q] = Accessed(q)[q] \cup {req}]
  BY DEF SyncAdd
<1>2. DOMAIN Accessed(q) = DOMAIN queueList \cup {q}
  BY AccessedDomain
<1>3. \A r \in DOMAIN queueList \cup {q} :
        Accessed(q)[r] = IF r \in DOMAIN queueList THEN queueList[r] ELSE {}
  BY AccessedEntries
<1> QED BY <1>1, <1>2, <1>3

LEMMA StoreInvStep == ASSUME BrokerAssumption, StoreInv, [Next]_vars PROVE StoreInv'
<1>1. SafetyInv' /\ EndedTogether'
  BY SafetyInvStep, EndedTogetherStep DEF StoreInv
<1>2. SUFFICES ASSUME ~Ended' PROVE
        /\ Conservation'
        /\ \A q \in DOMAIN queueList' : OneCopy(queueList'[q])
        /\ OneCopy(batch')
  BY <1>1 DEF StoreInv, Conservation, OneCopy
<1>3. /\ ~Ended
      /\ \A q \in DOMAIN queueList : OneCopy(queueList[q])
      /\ OneCopy(batch)
      /\ 1..arrivals = InHand \cup AllQueued \cup Batched \cup handled
      /\ InHand \cap (AllQueued \cup Batched \cup handled) = {}
      /\ AllQueued \cap (Batched \cup handled) = {}
      /\ Batched \cap handled = {}
      /\ \A q, r \in DOMAIN queueList : q # r => Queued(q) \cap Queued(r) = {}
      /\ arrivals \in Nat
  BY <1>2, EndedStays DEF StoreInv, Conservation, SafetyInv, TypeInv, LifeTypes, TypeOK, SharedTypes
<1>4. ASSUME ~Moving PROVE
        /\ Conservation'
        /\ \A q \in DOMAIN queueList' : OneCopy(queueList'[q])
        /\ OneCopy(batch')
  <2>1. UNCHANGED <<queueList, batch, arrivals, handled, InHand>>
    BY <1>2, <1>4, OtherSteps
  <2>2. AllQueued' = AllQueued /\ Batched' = Batched /\ \A q : Queued(q)' = Queued(q)
    BY <2>1 DEF AllQueued, Queued, Batched
  <2>3. \A q, r \in DOMAIN queueList' : q # r => Queued(q)' \cap Queued(r)' = {}
    BY <1>3, <2>1, <2>2
  <2>4. Conservation'
    BY <1>3, <2>1, <2>2, <2>3 DEF Conservation
  <2> QED BY <1>3, <2>1, <2>4
<1>5. ASSUME NEW m \in Messages, ReceiveMessage(m) PROVE
        /\ Conservation'
        /\ \A q \in DOMAIN queueList' : OneCopy(queueList'[q])
        /\ OneCopy(batch')
  <2>1. InHand = {} /\ InHand' = {arrivals + 1}
    BY <1>5 DEF ReceiveMessage, InHand
  <2>2. arrivals' = arrivals + 1 /\ UNCHANGED <<queueList, batch, handled>>
    BY <1>5 DEF ReceiveMessage, members, queueVars, pushVars
  <2>3. AllQueued' = AllQueued /\ Batched' = Batched /\ \A q : Queued(q)' = Queued(q)
    BY <2>2 DEF AllQueued, Queued, Batched
  <2>4. 1..arrivals' = 1..arrivals \cup {arrivals + 1} /\ arrivals + 1 \notin 1..arrivals
    BY <1>3, <2>2
  <2>5. \A q, r \in DOMAIN queueList' : q # r => Queued(q)' \cap Queued(r)' = {}
    BY <1>3, <2>2, <2>3
  <2>6. Conservation'
    BY <1>3, <2>1, <2>2, <2>3, <2>4, <2>5 DEF Conservation
  <2> QED BY <1>3, <2>2, <2>6
<1>6. ASSUME CreateQueue PROVE
        /\ Conservation'
        /\ \A q \in DOMAIN queueList' : OneCopy(queueList'[q])
        /\ OneCopy(batch')
  <2>1. UNCHANGED <<batch, arrivals, handled>> /\ InHand = {} /\ InHand' = {}
    BY <1>6 DEF CreateQueue, InHand, pushVars, histVars
  <2>2. /\ DOMAIN queueList' = DOMAIN queueList \cup {count}
        /\ \A r \in DOMAIN queueList' :
             queueList'[r] = IF r \in DOMAIN queueList THEN queueList[r] ELSE {}
    <3>1. queueList' = Accessed(count)
      BY <1>6 DEF CreateQueue
    <3> QED BY <3>1, AccessedDomain, AccessedEntries
  <2>3. \A r \in DOMAIN queueList' :
          Queued(r)' = IF r \in DOMAIN queueList THEN Queued(r) ELSE {}
    BY <2>2 DEF Queued
  <2>4. AllQueued' = AllQueued /\ Batched' = Batched
    BY <2>1, <2>2, <2>3 DEF AllQueued, Batched
  <2>5. \A q, r \in DOMAIN queueList' : q # r => Queued(q)' \cap Queued(r)' = {}
    BY <1>3, <2>3
  <2>6. Conservation'
    BY <1>3, <2>1, <2>4, <2>5 DEF Conservation
  <2> QED BY <1>3, <2>1, <2>2, <2>6 DEF OneCopy
<1>7. ASSUME NEW q \in QueueNumbers, SyncAdd(q) PROVE
        /\ Conservation'
        /\ \A r \in DOMAIN queueList' : OneCopy(queueList'[r])
        /\ OneCopy(batch')
  <2>1. InHand = {req.id} /\ InHand' = {}
    BY <1>7 DEF SyncAdd, InHand, ServerIdle, ServerFree
  <2>2. UNCHANGED <<batch, arrivals, handled>>
    BY <1>7 DEF SyncAdd, pushVars, histVars
  <2>3. /\ DOMAIN queueList' = DOMAIN queueList \cup {q}
        /\ \A r \in DOMAIN queueList : r # q => queueList'[r] = queueList[r]
        /\ queueList'[q] = (IF q \in DOMAIN queueList THEN queueList[q] ELSE {}) \cup {req}
    BY <1>7, SyncAddQueues
  <2>4. /\ \A r \in DOMAIN queueList : r # q => Queued(r)' = Queued(r)
        /\ Queued(q)' = (IF q \in DOMAIN queueList THEN Queued(q) ELSE {}) \cup {req.id}
    BY <2>3 DEF Queued
  <2>5. AllQueued' = AllQueued \cup {req.id} /\ Batched' = Batched
    <3>1. Batched' = Batched
      BY <2>2 DEF Batched
    <3>2. \A n : n \in AllQueued <=> \E r \in DOMAIN queueList : n \in Queued(r)
      BY DEF AllQueued
    <3>3. \A n : n \in AllQueued' <=> \E r \in DOMAIN queueList' : n \in Queued(r)'
      BY DEF AllQueued
    <3> QED BY <2>3, <2>4, <3>1, <3>2, <3>3
  <2>6. req.id \notin AllQueued \cup Batched \cup handled
    BY <1>3, <2>1
  <2>7. \A r \in DOMAIN queueList : req.id \notin Queued(r)
    BY <2>6 DEF AllQueued
  <2>8. \A r, u \in DOMAIN queueList' : r # u => Queued(r)' \cap Queued(u)' = {}
    BY <1>3, <2>3, <2>4, <2>7
  <2>9. Conservation'
    BY <1>3, <2>1, <2>2, <2>5, <2>6, <2>8 DEF Conservation
  <2>10. \A r \in DOMAIN queueList' : OneCopy(queueList'[r])
    <3>1. \A r \in DOMAIN queueList : \A j \in queueList[r] : j.id # req.id
      BY <2>7 DEF Queued
    <3> QED BY <1>3, <2>3, <3>1 DEF OneCopy
  <2> QED BY <1>3, <2>2, <2>9, <2>10
<1>8. ASSUME NEW q \in DOMAIN queueList, PollQueue(q) PROVE
        /\ Conservation'
        /\ \A r \in DOMAIN queueList' : OneCopy(queueList'[r])
        /\ OneCopy(batch')
  <2>1. UNCHANGED <<arrivals, handled>> /\ InHand' = InHand
    BY <1>8 DEF PollQueue, srvVars, histVars, InHand
  <2>2. CASE UNCHANGED <<queueList, batch>>
    <3>1. AllQueued' = AllQueued /\ Batched' = Batched /\ \A r : Queued(r)' = Queued(r)
      BY <2>2 DEF AllQueued, Queued, Batched
    <3>2. \A r, u \in DOMAIN queueList' : r # u => Queued(r)' \cap Queued(u)' = {}
      BY <1>3, <2>2, <3>1
    <3>3. Conservation'
      BY <1>3, <2>1, <2>2, <3>1, <3>2 DEF Conservation
    <3> QED BY <1>3, <2>2, <3>3
  <2>3. ASSUME NEW i \in queueList[q],
               queueList' = [queueList EXCEPT ![q] = @ \ {i}], batch' = batch \cup {i}
        PROVE  /\ Conservation'
               /\ \A r \in DOMAIN queueList' : OneCopy(queueList'[r])
               /\ OneCopy(batch')
    <3>1. /\ DOMAIN queueList' = DOMAIN queueList
          /\ \A r \in DOMAIN queueList : r # q => queueList'[r] = queueList[r]
          /\ queueList'[q] = queueList[q] \ {i}
      <4>1. queueList \in [DOMAIN queueList -> SUBSET Arrivals]
        BY DEF StoreInv, SafetyInv, TypeInv, LifeTypes, TypeOK, SharedTypes
      <4> QED BY <2>3, <4>1
    <3>2. /\ \A r \in DOMAIN queueList : r # q => Queued(r)' = Queued(r)
          /\ Queued(q)' = Queued(q) \ {i.id}
      <4>1. \A j \in queueList[q] : j.id = i.id => j = i
        BY <1>3 DEF OneCopy
      <4> QED BY <3>1, <4>1 DEF Queued
    <3>3. i.id \in Queued(q) /\ \A r \in DOMAIN queueList : r # q => i.id \notin Queued(r)
      <4>1. i.id \in Queued(q)
        BY DEF Queued
      <4> QED BY <1>3, <4>1
    <3>4. \A n : n \in AllQueued <=> \E r \in DOMAIN queueList : n \in Queued(r)
      BY DEF AllQueued
    <3>5. \A n : n \in AllQueued' <=> \E r \in DOMAIN queueList' : n \in Queued(r)'
      BY DEF AllQueued
    <3>6. AllQueued' = AllQueued \ {i.id} /\ i.id \in AllQueued
      BY <3>1, <3>2, <3>3, <3>4, <3>5
    <3>7. Batched' = Batched \cup {i.id}
      BY <2>3 DEF Batched
    <3>8. \A r, u \in DOMAIN queueList' : r # u => Queued(r)' \cap Queued(u)' = {}
      BY <1>3, <3>1, <3>2
    <3>9. Conservation'
      BY <1>3, <2>1, <3>6, <3>7, <3>8 DEF Conservation
    <3>10. OneCopy(batch')
      <4>1. \A j \in batch : j.id # i.id
        BY <1>3, <3>6 DEF Batched
      <4> QED BY <1>3, <2>3, <4>1 DEF OneCopy
    <3> QED BY <1>3, <3>1, <3>9, <3>10 DEF OneCopy
  <2> QED BY <1>8, <2>2, <2>3 DEF PollQueue, Removed
<1>9. ASSUME NEW i \in batch, Classify(i) PROVE
        /\ Conservation'
        /\ \A q \in DOMAIN queueList' : OneCopy(queueList'[q])
        /\ OneCopy(batch')
  <2>1. UNCHANGED <<queueList, arrivals>> /\ InHand' = InHand
    BY <1>9 DEF Classify, members, queueVars, srvVars, InHand
  <2>2. batch' = batch \ {i} /\ handled' = handled \cup {i.id}
    BY <1>9 DEF Classify
  <2>3. AllQueued' = AllQueued /\ \A r : Queued(r)' = Queued(r)
    BY <2>1 DEF AllQueued, Queued
  <2>4. Batched' = Batched \ {i.id} /\ i.id \in Batched
    <3>1. \A j \in batch : j.id = i.id => j = i
      BY <1>3 DEF OneCopy
    <3> QED BY <2>2, <3>1 DEF Batched
  <2>5. \A r, u \in DOMAIN queueList' : r # u => Queued(r)' \cap Queued(u)' = {}
    BY <1>3, <2>1, <2>3
  <2>6. Conservation'
    BY <1>3, <2>1, <2>2, <2>3, <2>4, <2>5 DEF Conservation
  <2> QED BY <1>3, <2>1, <2>2, <2>6 DEF OneCopy
<1> QED BY <1>4, <1>5, <1>6, <1>7, <1>8, <1>9 DEF Moving

LEMMA StoreInvariance == Spec => []StoreInv
BY StoreInvInit, StoreInvStep, BrokerAssumption, PTL DEF Spec

(* No interleaving of the two threads loses a message or doubles it        *)
(* between its receipt and its classification (syncAdd, syncPoll,          *)
(* Filter::classification).                                                *)
THEOREM MessagesConserved == Spec => []Conservation
BY StoreInvariance, PTL DEF StoreInv

(* The broker implements the store, without its fairness: as long as it    *)
(* runs, it keeps every message until it hands it over, and hands over     *)
(* none twice (ResponseProcessor::addToBroker, pushMessage).               *)
THEOREM BrokerIsStore == Spec => ImplementsStore
<1> DEFINE Held == IF Ended THEN {} ELSE InHand \cup AllQueued \cup Batched
<1>1. Init => Store!Init
  BY DEF Init, Store!Init, Ended, InHand, AllQueued, Batched
<1>2. StoreInv /\ StoreInv' /\ [Next]_vars => [Store!Next]_(Store!storeVars)
  <2> SUFFICES ASSUME StoreInv, StoreInv', [Next]_vars
               PROVE  [Store!Next]_(Store!storeVars)
    OBVIOUS
  <2>1. ~Ended => Held = (1..arrivals) \ handled /\ handled \subseteq 1..arrivals
    BY DEF StoreInv, Conservation
  <2>2. ~Ended' => Held' = (1..arrivals') \ handled' /\ handled' \subseteq 1..arrivals'
    BY DEF StoreInv, Conservation
  <2>3. (Ended => Held = {}) /\ (Ended' => Held' = {})
    OBVIOUS
  <2>4. arrivals \in Nat
    BY DEF StoreInv, SafetyInv, TypeInv, LifeTypes, TypeOK, SharedTypes
  <2> HIDE DEF Held
  <2>5. ASSUME NEW m \in Messages, ReceiveMessage(m) PROVE Store!Receive
    <3>1. arrivals' = arrivals + 1 /\ handled' = handled /\ ~Ended
      BY <2>5 DEF ReceiveMessage, StoreInv, EndedTogether
    <3>2. ~Ended'
      BY <2>5, <3>1 DEF ReceiveMessage, Ended, pushVars
    <3>3. 1..(arrivals + 1) = 1..arrivals \cup {arrivals + 1} /\ arrivals + 1 \notin 1..arrivals
      BY <2>4
    <3>4. arrivals + 1 \notin handled
      BY <2>1, <3>1, <3>3
    <3>5. Held' = Held \cup {arrivals + 1}
      BY <2>1, <2>2, <3>1, <3>2, <3>3, <3>4
    <3> QED BY <3>1, <3>2, <3>5 DEF Store!Receive, Held, Ended
  <2>6. ASSUME NEW i \in batch, Classify(i) PROVE Store!HandOver(i.id) /\ i.id \in Held
    <3>1. arrivals' = arrivals /\ handled' = handled \cup {i.id} /\ ~Ended /\ ~Ended'
      BY <2>6 DEF Classify, Ended
    <3>2. i.id \in Held
      BY <3>1 DEF Held, Batched
    <3>3. Held' = Held \ {i.id}
      BY <2>1, <2>2, <3>1
    <3> QED BY <3>1, <3>2, <3>3 DEF Store!HandOver, Held, Ended
  <2>7. ASSUME UNCHANGED <<arrivals, handled>> PROVE Store!End \/ UNCHANGED Store!storeVars
    <3>0. CASE Ended
      BY <2>3, <2>7, <3>0, EndedStays DEF Store!storeVars, Held, Ended
    <3>1. CASE ~Ended /\ Ended'
      BY <2>3, <2>7, <3>1 DEF Store!End, Held, Ended
    <3>2. CASE ~Ended'
      <4>1. ~Ended
        BY <3>2, EndedStays
      <4>2. Held' = Held
        BY <2>1, <2>2, <2>7, <3>2, <4>1
      <4> QED BY <2>7, <3>2, <4>1, <4>2 DEF Store!storeVars, Held, Ended
    <3> QED BY <3>0, <3>1, <3>2
  <2>8. \/ \E m \in Messages : ReceiveMessage(m)
        \/ \E i \in batch : Classify(i)
        \/ UNCHANGED <<arrivals, handled>>
    BY Actions, OwnThreadFrame
       DEF histVars, Register, AddTopicConsumer, DeleteTopicConsumer, GreetConsumer, CreateQueue,
           Receive, Retry, SyncAdd, PollQueue, Send, ConsumerReads, ConsumerExits
  <2> QED BY <2>5, <2>6, <2>7, <2>8 DEF Store!Next, Held
<1> QED BY <1>1, <1>2, StoreInvariance, PTL DEF Spec, ImplementsStore, Store!Safety

-----------------------------------------------------------------------------
(* What is put down for a consumer was classified and not yet written to   *)
(* it; the consumer being served has nothing else put down for it.         *)
Fresh(S, c) ==
  /\ OneCopy(S)
  /\ \A i \in S : i.id \in handled /\ i.id \notin pushed[c]

PushInv ==
  /\ StoreInv
  /\ \A c \in IpNodes : Fresh(t_map[c], c) /\ pushed[c] \subseteq handled
  /\ Serving => /\ socket[fd].peer = consumer
                /\ t_map[consumer] = {} /\ Fresh(outbox, consumer)
  /\ pushPc \in {"sleep", "poll", "classify", "select", "retry", "resent"} => outbox = {}

LEMMA PushInvInit == ASSUME BrokerAssumption, Init PROVE PushInv
<1>1. StoreInv
  BY StoreInvInit
<1>2. /\ \A c \in IpNodes : t_map[c] = {} /\ pushed[c] = {}
      /\ pushPc = "sleep" /\ outbox = {}
  BY DEF Init
<1> QED BY <1>1, <1>2 DEF PushInv, Fresh, OneCopy, Serving

(* The steps that change what PushInv speaks of, besides the sockets. *)
Pushing ==
  \/ \E i \in batch : Classify(i)
  \/ \E c \in IpNodes : SelectConsumer(c)
  \/ \E i \in outbox : Send(i)
  \/ StartRetry \/ Receive \/ Retry

LEMMA OtherPushes ==
  ASSUME [Next]_vars, ~Pushing
  PROVE  /\ UNCHANGED <<t_map, handled, pushed, consumer, fd, outbox>>
         /\ Serving' => Serving
         /\ \/ pushPc' = pushPc
            \/ pushPc' \in {"killed", "exited"}
            \/ pushPc \in {"sleep", "poll", "classify", "select"}
BY DEF Pushing, Next, ReadRequest, ServeRequest, PushThread, Environment, Register,
       RequestQueue, AddRequest, DeleteRequest, ReceiveMessage, ProducerFails, ProcessEnds,
       GreetConsumer, CreateQueue, AddTopicConsumer, DeleteTopicConsumer, TopicRequestDone,
       CopySize, SyncAdd, ReplyAck, ProducerReads, StartRound, PollQueue, EndPoll, EndClassify,
       EndRound, ConsumerReads,
       ConsumerExits, vars, pushVars, sendVars, histVars, Serving

LEMMA PushInvStep == ASSUME BrokerAssumption, PushInv, [Next]_vars PROVE PushInv'
<1>1. StoreInv'
  BY StoreInvStep DEF PushInv
<1>2. /\ t_map \in [IpNodes -> SUBSET Arrivals] /\ pushed \in [IpNodes -> SUBSET Nat]
      /\ Serving => consumer \in IpNodes /\ fd \in DOMAIN socket
      /\ \A f \in DOMAIN socket : socket'[f].peer = socket[f].peer
      /\ \A c \in IpNodes : clients[c] # NoFd =>
           clients[c] \in DOMAIN socket /\ socket[clients[c]].peer = c
      /\ deadQueue = {}
  BY SocketStep
     DEF PushInv, StoreInv, SafetyInv, TypeInv, LifeTypes, TypeOK, SharedTypes, PushTypes, Serving,
         DeadQueueEmpty, ConnectionsOK
<1>3. /\ \A c \in IpNodes : Fresh(t_map[c], c) /\ pushed[c] \subseteq handled
      /\ Serving => /\ socket[fd].peer = consumer
                    /\ t_map[consumer] = {} /\ Fresh(outbox, consumer)
      /\ pushPc \in {"sleep", "poll", "classify", "select", "retry", "resent"} => outbox = {}
  BY DEF PushInv
<1>4. CASE ~Pushing
  <2>1. /\ UNCHANGED <<t_map, handled, pushed, consumer, fd, outbox>>
        /\ Serving' => Serving
        /\ \/ pushPc' = pushPc \/ pushPc' \in {"killed", "exited"}
           \/ pushPc \in {"sleep", "poll", "classify", "select"}
    BY <1>4, OtherPushes
  <2> QED BY <1>1, <1>2, <1>3, <2>1 DEF PushInv, Fresh
<1>5. ASSUME NEW i \in batch, Classify(i) PROVE PushInv'
  <2>1. /\ pushPc = "classify" /\ ~Ended /\ ~Serving' /\ outbox' = {}
        /\ UNCHANGED <<pushed, outbox>> /\ handled' = handled \cup {i.id}
    BY <1>3, <1>5 DEF Classify, Ended, Serving, sendVars
  <2>2. i.id \notin handled
    BY <2>1 DEF PushInv, StoreInv, Conservation, Batched
  <2>3. \A c \in IpNodes : t_map'[c] = t_map[c] \/ t_map'[c] = t_map[c] \cup {i}
    BY <1>5 DEF Classify
  <2>4. ASSUME NEW c \in IpNodes PROVE Fresh(t_map[c], c)' /\ pushed'[c] \subseteq handled'
    <3>1. i.id \notin pushed[c] /\ \A j \in t_map[c] : j.id # i.id
      BY <1>3, <2>2 DEF Fresh
    <3> QED BY <1>3, <2>1, <2>3, <3>1 DEF Fresh, OneCopy
  <2> QED BY <1>1, <2>1, <2>4 DEF PushInv
<1>6. ASSUME NEW c \in IpNodes, SelectConsumer(c) PROVE PushInv'
  <2>1. /\ pushPc = "select" /\ outbox = {} /\ ~Serving
        /\ t_map' = [t_map EXCEPT ![c] = {}] /\ UNCHANGED <<handled, pushed, socket>>
    BY <1>3, <1>6 DEF SelectConsumer, histVars, Serving
  <2>2. \A d \in IpNodes : t_map'[d] = IF d = c THEN {} ELSE t_map[d]
    BY <1>2, <2>1
  <2>3. \A d \in IpNodes : Fresh(t_map[d], d)' /\ pushed'[d] \subseteq handled'
    BY <1>3, <2>1, <2>2 DEF Fresh, OneCopy
  <2>4. CASE clients[c] = NoFd
    BY <1>1, <1>6, <2>1, <2>3, <2>4 DEF SelectConsumer, PushInv, Serving, sendVars
  <2>5. CASE clients[c] # NoFd
    <3>1. pushPc' = "send" /\ consumer' = c /\ fd' = clients[c] /\ outbox' = t_map[c]
      BY <1>6, <2>5 DEF SelectConsumer
    <3>2. socket'[fd'].peer = consumer' /\ t_map'[consumer'] = {}
      BY <1>2, <2>1, <2>2, <2>5, <3>1
    <3>3. Fresh(outbox, consumer)'
      BY <1>3, <2>1, <3>1 DEF Fresh
    <3> QED BY <1>1, <2>3, <3>1, <3>2, <3>3 DEF PushInv
  <2> QED BY <2>4, <2>5
<1>7. ASSUME NEW i \in outbox, Send(i) PROVE PushInv'
  <2>1. /\ Serving /\ pushPc = "send" /\ pushPc' \in {"killed", "receive"}
        /\ outbox' = outbox \ {i} /\ UNCHANGED <<t_map, handled, consumer, fd>>
        /\ pushed' = [pushed EXCEPT ![consumer] = @ \cup {i.id}]
    BY <1>7 DEF Send, Serving, ProcessEnds
  <2>2. \A c \in IpNodes : pushed'[c] = IF c = consumer THEN pushed[c] \cup {i.id} ELSE pushed[c]
    BY <1>2, <2>1
  <2>3. Fresh(outbox, consumer) /\ t_map[consumer] = {} /\ socket[fd].peer = consumer
        /\ consumer \in IpNodes /\ fd \in DOMAIN socket
    BY <1>2, <1>3, <2>1
  <2>4. Fresh(outbox, consumer)'
    BY <2>1, <2>2, <2>3 DEF Fresh, OneCopy
  <2>5. \A c \in IpNodes : Fresh(t_map[c], c)' /\ pushed'[c] \subseteq handled'
    BY <1>3, <2>1, <2>2, <2>3 DEF Fresh, OneCopy
  <2>6. socket'[fd'].peer = consumer' /\ t_map'[consumer'] = {}
    BY <1>2, <2>1, <2>3
  <2> QED BY <1>1, <2>1, <2>4, <2>5, <2>6 DEF PushInv
<1>8. CASE StartRetry \/ Receive \/ Retry
  <2>1. UNCHANGED <<t_map, handled, pushed, outbox>>
    BY <1>8 DEF StartRetry, Receive, Retry, histVars
  <2>2. pushPc' \in {"select", "retry", "resent"} => outbox' = {}
    BY <1>3, <1>8, <2>1 DEF StartRetry, Receive, Retry
  <2>3. Serving' => Serving /\ UNCHANGED <<consumer, fd>>
    BY <1>8, <1>2 DEF StartRetry, Receive, Retry, Serving, sendVars
  <2>4. pushPc' \notin {"sleep", "poll", "classify"}
    BY <1>8 DEF StartRetry, Receive, Retry, ProcessEnds
  <2> QED BY <1>1, <1>2, <1>3, <2>1, <2>2, <2>3, <2>4 DEF PushInv, Fresh
<1> QED BY <1>4, <1>5, <1>6, <1>7, <1>8 DEF Pushing

LEMMA PushInvariance == Spec => []PushInv
BY PushInvInit, PushInvStep, BrokerAssumption, PTL DEF Spec

-----------------------------------------------------------------------------
(* Whatever rounds and connections there are, no round sends a consumer a  *)
(* message that one has sent it before (Filter::classification,            *)
(* pushMessage).                                                           *)
THEOREM PushedAtMostOnce == Spec => PushedOncePerConsumer
<1>1. ASSUME PushInv, [Next]_vars, NEW i \in outbox \ outbox' PROVE i.id \notin pushed[consumer]
  <2>1. CASE \E j \in outbox : Send(j)
    BY <1>1, <2>1 DEF PushInv, Fresh, Send, Serving
  <2>2. CASE \E c \in IpNodes : SelectConsumer(c)
    BY <1>1, <2>2 DEF PushInv, SelectConsumer
  <2>3. CASE StartRetry \/ Receive \/ Retry \/ \E j \in batch : Classify(j)
    BY <1>1, <2>3 DEF StartRetry, Receive, Retry, Classify, sendVars
  <2>4. CASE ~Pushing
    BY <1>1, <2>4, OtherPushes
  <2> QED BY <2>1, <2>2, <2>3, <2>4 DEF Pushing
<1>2. PushInv /\ [Next]_vars =>
        [\A i \in outbox \ outbox' : i.id \notin pushed[consumer]]_vars
  BY <1>1
<1> QED BY <1>2, PushInvariance, PTL DEF Spec, PushedOncePerConsumer

-----------------------------------------------------------------------------
(* Open connections. *)
LEMMA WriteOpensNone ==
  ASSUME NEW f, NEW item, NEW s \in AfterWrite(f, item),
         socket \in Seq(Sockets), NEW g \in DOMAIN socket, s[g].state = "open"
  PROVE  socket[g].state = "open"
<1>1. socket[g] \in Sockets
  BY ElementOfSeq
<1>2. CASE f \notin DOMAIN socket
  BY <1>2 DEF AfterWrite
<1>3. CASE f \in DOMAIN socket /\ socket[f].state # "open"
  <2>1. PICK t \in {"closed", "reset"} : s = [socket EXCEPT ![f].state = t]
    BY <1>3 DEF AfterWrite
  <2>2. g = f => s[g].state = t
    BY <1>1, <2>1 DEF Sockets
  <2>3. g # f => s[g] = socket[g]
    BY <2>1
  <2> QED BY <2>2, <2>3
<1>4. CASE f \in DOMAIN socket /\ socket[f].state = "open"
  <2>1. s = socket \/ s = [socket EXCEPT ![f].unread = Append(@, item)]
    BY <1>4 DEF AfterWrite
  <2>2. g # f => s[g] = socket[g]
    BY <2>1
  <2> QED BY <1>4, <2>2
<1> QED BY <1>2, <1>3, <1>4

LEMMA NoneOpensAgain ==
  ASSUME BrokerAssumption, TypeInv, [Next]_vars, NEW f \in DOMAIN socket,
         socket'[f].state = "open"
  PROVE  socket[f].state = "open"
<1>1. socket \in Seq(Sockets) /\ socket[f] \in Sockets
  <2>1. socket \in Seq(Sockets)
    BY DEF TypeInv, LifeTypes, TypeOK, SharedTypes
  <2> QED BY <2>1, ElementOfSeq
<1>2. CASE UNCHANGED socket
  BY <1>2
<1>3. CASE GreetConsumer
  <2>1. socket' = socket \/ socket' \in AfterWrite(Len(socket), RegisterAck)
    BY <1>3 DEF GreetConsumer, ProcessEnds
  <2> QED BY <1>1, <2>1, WriteOpensNone
<1>4. CASE Receive
  BY <1>1, <1>4 DEF Receive, Sockets
<1>5. CASE Retry
  <2>1. socket' = socket \/ \E d \in deadQueue : socket' \in AfterWrite(fd, d)
    BY <1>5 DEF Retry, ProcessEnds
  <2> QED BY <1>1, <2>1, WriteOpensNone
<1>6. ASSUME NEW c \in IpNodes, Register(c) PROVE socket'[f] = socket[f]
  BY <1>1, <1>6 DEF Register
<1>7. ASSUME NEW i \in outbox, Send(i) PROVE socket[f].state = "open"
  <2>1. socket' = socket \/ socket' \in AfterWrite(fd, i)
    BY <1>7 DEF Send, ProcessEnds
  <2> QED BY <1>1, <2>1, WriteOpensNone
<1>8. ASSUME NEW g \in DOMAIN socket, ConsumerReads(g) \/ ConsumerExits(g)
      PROVE  socket[f].state = "open"
  <2>1. g # f => socket'[f] = socket[f]
    BY <1>1, <1>8 DEF ConsumerReads, ConsumerExits
  <2>2. socket[g].state = "open"
    BY <1>8 DEF ConsumerReads, ConsumerExits
  <2> QED BY <2>1, <2>2
<1>9. \/ UNCHANGED socket \/ GreetConsumer \/ Receive \/ Retry
      \/ \E c \in IpNodes : Register(c)
      \/ \E i \in outbox : Send(i)
      \/ \E g \in DOMAIN socket : ConsumerReads(g) \/ ConsumerExits(g)
  BY Actions, OwnThreadFrame
     DEF AddTopicConsumer, DeleteTopicConsumer, CreateQueue,
         ReceiveMessage, SyncAdd, PollQueue, Classify
<1> QED BY <1>2, <1>3, <1>4, <1>5, <1>6, <1>7, <1>8, <1>9

(* For every number of consumers and connections, an open connection is    *)
(* the one clients names (Broker::addConsumer overwrites the entry).       *)
THEOREM LatestOpen == Spec => []OnlyLatestOpen
<1>1. Init => OnlyLatestOpen
  BY DEF Init, OnlyLatestOpen
<1>2. ASSUME BrokerAssumption, TypeInv, OnlyLatestOpen, [Next]_vars PROVE OnlyLatestOpen'
  <2>1. /\ socket \in Seq(Sockets) /\ DOMAIN socket = 1..Len(socket) /\ Len(socket) \in Nat
        /\ clients \in [IpNodes -> Nat]
        /\ \A f \in DOMAIN socket : socket[f] \in Sockets
    BY <1>2, ElementOfSeq DEF TypeInv, LifeTypes, TypeOK, SharedTypes
  <2>2. \A f \in DOMAIN socket : socket'[f].peer = socket[f].peer
    BY <1>2, SocketStep DEF TypeInv
  <2>3. \A f \in DOMAIN socket : socket'[f].state = "open" => socket[f].state = "open"
    BY <1>2, NoneOpensAgain
  <2>4. ASSUME NEW c \in IpNodes, Register(c) PROVE OnlyLatestOpen'
    <3>1. DOMAIN socket' = 1..(Len(socket) + 1)
      BY <2>1, <2>4 DEF Register
    <3>2. socket'[Len(socket) + 1].peer = c
      BY <2>1, <2>4 DEF Register
    <3>3. clients' = [clients EXCEPT ![c] = Len(socket) + 1]
      BY <2>4 DEF Register, LatestFd
    <3>4. \A f \in DOMAIN socket : socket[f].state = "open" => socket[f].peer # c
      BY <2>4 DEF Register
    <3>5. ASSUME NEW f \in DOMAIN socket', socket'[f].state = "open"
          PROVE  clients'[socket'[f].peer] = f
      <4>1. CASE f = Len(socket) + 1
        BY <2>1, <3>2, <3>3, <4>1
      <4>2. CASE f \in DOMAIN socket
        <5>1. socket[f].state = "open" /\ socket[f].peer # c /\ socket[f].peer \in IpNodes
          BY <2>1, <2>3, <3>4, <3>5, <4>2 DEF Sockets
        <5> QED BY <1>2, <2>1, <2>2, <3>3, <4>2, <5>1 DEF OnlyLatestOpen
      <4> QED BY <2>1, <3>1, <4>1, <4>2
    <3> QED BY <3>5 DEF OnlyLatestOpen
  <2>5. CASE Len(socket') = Len(socket) /\ UNCHANGED clients
    <3>1. DOMAIN socket' = DOMAIN socket
      BY <1>2, <2>1, <2>5, SocketStep, LenProperties DEF TypeInv
    <3> QED BY <1>2, <2>2, <2>3, <2>5, <3>1 DEF OnlyLatestOpen
  <2>6. (\E c \in IpNodes : Register(c)) \/ UNCHANGED clients
    BY <1>2, Actions, OwnThreadFrame
       DEF vars, members, consVars, pushVars, AddTopicConsumer, DeleteTopicConsumer, CreateQueue,
           GreetConsumer, ReceiveMessage, SyncAdd, PollQueue, Classify, Send, Receive, Retry,
           ConsumerReads, ConsumerExits
  <2> QED BY <1>2, <2>4, <2>5, <2>6, SocketStep DEF TypeInv
<1> QED BY <1>1, <1>2, TypeInvariance, BrokerAssumption, PTL DEF Spec
=============================================================================
