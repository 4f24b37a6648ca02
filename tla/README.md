# IronMQ in TLA+

TLA+ modules for the IronMQ broker, its clients, slaves and name server, the TLC
configurations that check them on small instances, and TLAPS proofs of the
results that hold for every instance. Paths are relative to the repository
(`src/...`, `include/...`).

## The system

| Part | State | Operations | Interacts with |
|---|---|---|---|
| Broker, server thread (`Broker.cpp`, `ResponseProcessor.cpp`, `RequestProcessor.cpp`, `Server.cpp`) | `count`, `queueList`, `topicQueueMap`, `filter`, `index`, `clients` | one request at a time: REGISTER, REQUEST_QUEUE, REPLY_EXPECTED, ONE_WAY, ADD/DELETE_TOPIC_CONSUMER, PULL | producers and consumers over TCP; shares every member with the other threads |
| Broker, push thread (`Broker::pushMessage`) | `deadQueue`, a round's lists | once per `push_Time`: one message off every queue, classified by consumer, sent, acknowledged, resent | the consumers' sockets, which the server thread accepted and made non-blocking |
| Broker, persistence thread (`PersistenceUtil.cpp`) | `BrokerPersistenceJson.json` | copy the broker, write the file; read it back at a start | all members |
| Broker, slave thread (`Broker::init`); `Slave` | `slave`, `slaves`, `hasSlave`; a copy of the broker | send a serialised broker up to 16 times, give a slave up; replace the copy, answer | slave processes over TCP |
| `LoadBalancer`, `MyQueue`, `Filter` | the queues, topic to consumers | choose a queue, push, pop, classify | called by the two threads |
| `Consumer` | `checkMsg`, `priorityQueue`, `startNum` | register; read, acknowledge, deduplicate, print in order | the broker |
| `Producer`, `TopicRegister`, `Client` | the static connection, `reTry_Time` | connect once, send and retry, wait for the reply | the broker's server thread |
| `NameServer` | `Brokers`, `BrokerClients`, `Broker_Slave` | heart beats, forward a message, ask the standbys, the minutely check | brokers, producers, slaves |

What is hard in it: four threads share the broker's members, and the only
locks are those of single table entries and queues; acks are read from sockets
that do not block, so an ack and its message come apart; consumers come, go
and come back at the same address while a round holds their descriptors; the
persistence thread copies a broker that changes; a crash can fall between any
two steps; a consumer sees copies, gaps and other orders; producers and the
slave thread wait for a reply without a time limit and repeat what may have
been done; the name server's two threads share three maps, and descriptor
numbers are used after their connection is gone.

What makes each part correct:

- queues: a message accepted is in one place until a round takes it, in a
  queue of its topic; queue numbers are handed out once;
- push: only connected consumers are pushed to, no round sends a consumer what
  an earlier one sent it, what is planned is sent, and in the order of priority;
- consumer: every number once, in order, as soon as it can be;
- producer: "Succeed" means accepted, a repeated message is accepted once, and
  a send comes to an end;
- slaves: an acknowledged slave holds the broker of this round, no slave goes
  back, and one that stays up catches up;
- name server: no broker's entry names a standby's socket, a refused message was
  passed on to nobody, and whoever asked gets an answer;
- persistence: the file is consistent enough to recover from, is there when it
  is needed, and what it brings back is not lost again.

`PROJECT.json` lists the hazards at their lines, with the properties that are
about each.

## Modules

| Module | Contents |
|---|---|
| `MessageStore` | abstract: a message received is kept until it is handed over, once |
| `Broker` | server thread, push thread, consumers' sockets |
| `BrokerProperties` | what the two threads keep true; the refinement to `MessageStore` |
| `MCBroker`, `MCBroker*.cfg` | instances |
| `BrokerProofs`, `BrokerStoreProofs` | theorems about `Broker`: types and safety; the refinement and what is pushed |
| `OrderedDelivery` | abstract: numbers accepted in any order go out in order |
| `Consumer` | `Consumer::listening`, with the refinement to `OrderedDelivery` |
| `MCConsumer`, `ConsumerProofs` | instance, theorems |
| `Persistence` | extends `Broker` with saves, crashes and recovery |
| `PersistenceProperties` | what a file and a recovered broker are good for |
| `MCPersistence`, `MCPersistence*.cfg` | instances |
| `PersistenceProofs`, `RecoveryProofs` | theorems about a broker's first life, and about all its lives |
| `Producer` | `Producer::Send`, `TopicRegister::Register`, `Client`, and a broker that may end and start |
| `MCProducer`, `ProducerProofs` | instance, theorems |
| `Replica` | abstract: a copy only moves forward and is never ahead |
| `SlaveSync` | the `_slave` thread and the slaves' processes, with the refinement to `Replica` |
| `MCSlaveSync`, `SlaveSyncProofs` | instance, theorems |
| `NameServer` | extends `SlaveSync` with the name server, the brokers' and producers' ends |
| `MCNameServer`, `NameServerProofs` | instance, theorems |

### Broker

An action is what a thread does between two accesses to state another thread
can see. `syncCreateQueue` is one `CreateQueue` per iteration; `addToBroker`
is a `CopySize` per queue (the table is passed by value and copied while the
push thread pops) and then `SyncAdd`; a round is `StartRound`, a `PollQueue`
per queue, `EndPoll`, a `Classify` per message, `EndClassify`, and for each
consumer `SelectConsumer`, `Send` and `Receive` per message, and `Retry` for
each step of the resending loop. `srvPc` and `pushPc` say where the threads
are.

Abstractions and their reasons:

- A message is its number, priority, topic and type; `id` tells copies apart
  and is no part of the program. A queue is the set of its arrivals.
- TBB's table: once it has grown, an iterator may meet an entry twice or miss
  it (`Rehashed`). Nothing else is assumed of a walk without a lock.
- A consumer's socket takes `SendBuffer` whole messages; a full one takes nothing, as the
  result of `write` is not looked at. After the peer has gone the first write
  draws a reset and the next one ends the process (`ProcessEnds("killed")`).
- A reply is written by `Write`, which spins while the peer's socket takes
  nothing: `GreetConsumer` waits for room at the consumer's socket, and a reply
  to a producer is written at once or leaves the thread in `"spin"` until the
  producer reads (`Replies`, `ProducerReads`). How much is unread at a producer
  is not counted, so any reply may have to wait.
- A read that fails, a request in pieces or a failed reply ends the process
  (`ProducerFails`, `ProcessEnds("exited")`).
- `PollQueue` does not look at the number -1 that `syncPoll` takes for "no
  message" (`src/src/Broker/Broker.cpp:203`): the numbers of messages are naturals.
- Data races on `std::map` and `std::set` (`clients`, `filter`,
  `topicQueueMap`) are modelled as interleavings of whole operations: an
  outcome that corrupts a tree is outside the models.
- Bytes: framing, several acks in one read and requests run together are not
  modelled. PULL and unknown requests change nothing but may have the thread
  spin at their reply as the others do, and are left out. `pullMessage` and
  `deleteConsumer` have no caller. Log output is left out.

`MessageStore` is what all that amounts to for a producer: `Store` maps the
messages in hand, queued and in the batch to `held`, those that
`classification` has taken to `done`, and the end of the process to `ended`:
what is held may go without being handed over in that step only, and a store
that has ended does nothing more. A message whose topic has no subscriber
is handed over like any other, to nobody: the code promises no more.

Consumers' processes, TCP and TBB are external; the map in `PROJECT.json`
marks them so.

### Consumer

One thread, so one action per turn of the loops: `ReadMessage`, `ReadEnd`
(`read` gives 0), `ReadError` (it gives -1, which counts as a message),
`PrintTop`, `Break` and `TopOfEmpty`. `top()` of an empty heap is undefined: what
the build does is to look at the slot of the last message popped (`freed`), or
to crash if there never was one. The models take texts that fit that slot's
own storage. A message carries its number and the number in its text, which
differ (`ProducerTest.cpp` numbers each topic's texts on its own).

`OrderedDelivery` is the promise. `Consumer` implements its safety part for
all inputs (`PrintsInOrder`) and its liveness for one topic and one priority
(`DeliversInOrder`); with two topics at a consumer, or a priority against the
numbering, the head of the heap can block the rest for ever, as a lost message
does.

### Persistence

`BrokerPersistence` takes the broker by value. `StartSave` copies `count`,
`StartQueue`, `CopyMessage` and `EndQueue` one queue, `CopyMember` the members
that follow, in the order of their declaration in `ALL.h`; the other two threads
go on. A queue's copy takes no lock either (the comments at
`src/src/Broker/MyQueue.cpp:65` and `:76` say what that may cost): it gets the
messages one by one, and one whose queue was pushed to or popped from meanwhile
(`torn`) may be missing although it was there all the time. `OpenFile`
truncates the file, `WriteFile` completes it. `Restart` is a crash at any
point (or the end that `Broker` models) and a new process: empty members,
running threads, and a main thread that reads (`ReadFile`) and assigns
(`AssignMember`, one member of `operator=` a step, as the threads do not wait
for it). The order of declaration matters: `queueList` before `topicQueueMap`
and `filter` before `index` keep the file consistent in one direction, `count`
before `queueList` does not, and a recovered broker may hand out a number
again. Time is not modelled: a save may begin at any time, so a save before
the end of a recovery (`store_Time` too short) and `startPersistence = false`
are covered.

What can be said over several lives is where a message is: it may come a second
time only if the last recovery read it from the file (`RedeliveredWasSaved`),
and what that recovery brought back stays (`RecoveredNotLost`).

### Producer

A process is a producer or a `TopicRegister`. `StartProducer` is the static
`Client` (or, with an address, the one made per message: `SendTo`); `Connect`
is what `Client::init` can end with: a connection, or a descriptor that it has
closed. `Write` puts one request on the connection, fails, or raises SIGPIPE;
`ReadAck` and `ReadFailed` are the blocking `read` of `receive`, which has no
time limit. The broker's side (`TakeRequest`, `AddToBroker`, `Reply`) is one
server thread that serves one request at a time; it ends and is started again
(`BrokerEnds`, `BrokerStarts`) at any point, with the requests and replies that
are under way. What a request does to the queues is `Broker`'s subject; here a
message is accepted or not. The history is in `accepted` and `acked`.

### SlaveSync

The thread of `Broker::init`: a round begins with `hasSlave`, serialises the
broker once, and serves the slaves in turn over the connections it keeps in
`slaves`, each with up to `SyncTries` writes and blocking reads; a refused
`connect` takes the slave out of the set. A slave's server thread takes a
request, replaces its broker and answers; it can end with the process still
there (a request it cannot parse), or the process ends and is started again
with an empty broker. A broker is the number of changes made to it. The torn
copy that a serialisation of a running broker takes is the same copy
constructor as in `Persistence` and not repeated here. `Replica` is what a
slave's copy promises: `held` is its `copy`, a slave's process that is started
is its `Start`, and the request carried out, late or not, its `Update`.

### NameServer

`NameServer` extends `SlaveSync`: its standbys are the slaves, so that a
message of the name server and a broker of the slave thread meet in the same
server thread (which answers the first with an exception: `MisreadsMessage`).
`Forward` is the poll of `Brokers` and the write to the first one that is
alive, `TurnToStandbys` the other branch, `AskStandby` and `StandbyFails` one
standby each, `ReplyFailed` the end of that loop. `CheckErases` is the check
thread, `MapsRace` the crash that two unlocked writers of a `std::map` can
produce. Descriptors are numbers, the least free one is given out, and 0 is
the terminal: indexing `BrokerClients` for an entry that was erased gives 0.
Three things the code does that its comments do not say and that the model
keeps, without a property that would be about them: the poll works on copies of
the entries (`src/src/Utils/ResponseProcessor.cpp:167`), so the "update" that
the comment at line 166 announces changes nothing but `BrokerClients`; after the
first message that is passed on the thread follows the descriptor it has just
stored over its data pointer, so the process ends there and never comes to "all
brokers down, switch to the hot standby" (line 193) after it; and the number it
writes to may be no broker's but a producer's that got it after the broker's
connection was closed, and the message is acknowledged all the same, although
line 166 says that it is forwarded to one of the brokers.

## Runs

| Run | Question | Bounds |
|---|---|---|
| `Broker` | types; do the threads lose, double or misfile a message; does the broker implement `MessageStore`; who is pushed to, when, how often, on which connection? | 2 topics, 3 queues, 2 arrivals, 1 consumer with 2 connections: a topic with two queues next to one with none or one, messages before their queues, a consumer that comes back in the middle of a round |
| `BrokerLiveness` | do messages leave (`Store!Fairness`), are pushes made, do requests end? | 1 topic, 2 queues made one at a time, 2 arrivals with equal numbers; any reply may have to wait |
| `BrokerRetry`, `BrokerSigPipe`, `BrokerOrder` | three statements of the code's comments; violated | as `BrokerLiveness` |
| `Consumer` | does the consumer implement `OrderedDelivery`, and what is left of it with two topics? | 6 numbers of two topics and two priorities, 5 reads, a buffer of 2; duplicates, loss, close |
| `PersistenceSave` | what can a torn copy be relied on for? | 2 queues made by one request, 2 messages, 1 save |
| `PersistenceSubscribers` | is who the file lists known in it? | 2 consumers (symmetric) with 2 connections, no message, 1 save |
| `PersistenceRecover` | do recovered messages stay, can others come twice, and do the types survive? | 1 queue, 1 message, 1 save, 1 crash, no connection |
| `Producer` | what does an ack mean, can a retry double a message, does a send end? | 1 producer of 2 messages, 1 `TopicRegister`, 2 retries, 2 lives of the broker |
| `SlaveSync` | what does an ack of a slave mean, do the slaves implement `Replica`, do they catch up? | 2 slaves with 2 starts each, 3 attempts, 3 changes of the broker |
| `NameServer` | what can a broker's entry name, what does "Failed" mean, is the producer answered? | 2 brokers, 1 producer, 1 standby with 2 starts, 2 descriptors, 3 connections, 2 messages |

Why the bounds are enough for what the properties tell apart: a loss or a
doubling needs one message and two threads; a misfiled one needs two topics; a
push on a wrong or a second connection needs two connections of one consumer
(consumers share nothing but the push thread, which serves them one by one, and
the theorems are for any number);
reuse of a number needs two queues; a torn copy needs one change between two
members, or of one queue while another is copied; a late ack needs two attempts and two rounds; a doubled message one
retry and a broker that ends between accepting and replying; a descriptor used
by another needs fewer descriptors than connections. `SyncTries` is 16 in the
code and 3 or 1 in the runs; the proofs are for any. Every bound is a CONSTANT
and stands in a guard (`MaxQueues`, `MaxArrivals`, `MaxSockets`, `MaxSaves`,
`MaxCrashes`, `BufferCap`, `MaxReads`, `MaxSends`, `MaxTopics`, `MaxLives`,
`MaxChanges`, `MaxStarts`, `MaxFds`, `MaxConnects`, `MaxMessages`).
`reTry_Time` of the broker is 1 or 0 in the runs: nothing ever enters the
dead-letter queue (the first violated run says why), so it does not matter.

Deadlock is not checked: every process of the system may end, and each thread
may have read everything that is ever sent.

Fairness. `FairSpec` of `Broker`: both threads are loops without a condition to
wait for, on threads of their own, so weak fairness of `ServeRequest` (a
request in hand) and of `PushThread`. There is none for reading a request, for
producers and consumers that read or exit, or for failures. A peer that never
reads its reply therefore holds the server thread up for ever (`HeldUp`), which
is what the code does; `RequestHandled` has as its premise that the thread is
again and again not held up. `HandsOverAll` and `PlannedPushHappens` need no
such premise: the push thread's reads and writes do not block.
In `Consumer` the thread itself is fair, the sender is not. In `Producer` the
steps of a `Send` once begun are fair and so is the broker's server thread;
nobody need begin one, and a broker that ended need not start again. In
`SlaveSync` the `_slave` thread and each slave's server thread are fair, their
ends and starts are not; `CatchesUp` is for a slave that stays up, and as long
as no slave's server thread has ended with its process still there, since the
read for its ack then blocks the round for all the others. In `NameServer` the
loop over the standbys is fair as well, and a standby's thread that can read a
message again and again does in the end (strong fairness of
`MisreadsMessage`: epoll reports every connection that can be read, and the
requests of the slave thread may be served in between). `Answered` has the
same exception, a standby whose server thread has ended under the message it was
asked with: that is what every standby that is up does with it, so that what
`Answered` says is about standbys that are gone, refuse or are started again.

### What the violated runs show

1. `FailedSendIsKept` (`Broker.cpp:395`): the parenthesis of
   `deadQueue.count(that.getNum() == 0)` makes the dead-letter queue a queue
   nothing enters; a failed send is never repeated.
2. `FailedSendReturns` (`Client.cpp:111`): a consumer that exits takes the
   broker with it (SIGPIPE).
3. `SentInPriorityOrder` (`Filter.cpp:24`): a `std::set` under the order meant
   for a heap is walked from its least element.

## Proofs

TLAPS checks, for all values of the constants that satisfy the modules'
assumptions (`BrokerAssumption`, `PersistenceAssumption`, `ConsumerAssumption`,
`ProducerAssumption`, `SyncAssumption`, `NameServerAssumption`: bounds are
numbers, the sets of addresses that must differ do, `None` is no member of the
sets it stands beside):

- `TypeCorrect`, `QueuesOwned` (`BrokerProofs`). The types come in two layers:
  `LifeTypes` == `TypeOK` with `QueuesFinite` (the balancer takes sizes) is
  inductive by itself, with no descriptor assumed to be a connection, so that it
  can be used of a restarted broker as well. `TypeInv` adds what only a first
  life has: `ConnectionsOK` (a descriptor in `clients` is a connection of its
  consumer, so the one a round holds is one too; of `TypeCorrect` itself it is no
  part) and `QueueOwnership` (a queue
  number of a topic is below `count` and has its queue).
- `SubscribersAreConnected`, `TopicsIsolated`, `FirstAckFirst` (`BrokerProofs`), by `SafetyInv` == `TypeInv` with
  `MappedRegistered` (who a topic lists, or a round has messages for, has
  registered), `DeadQueueEmpty` (by which the resending loop has nothing to send),
  `TopicIsolation` and `FirstGreeting` (while
  the first REGISTER of an address awaits its reply, no topic lists the
  address, no round has messages for it and the push thread is on another
  connection: without these three, a push could get in before the reply).
- `ChoicesExist` (`BrokerProofs`), the part of liveness that can be proved:
  weak fairness promises nothing of a step that cannot be taken, and the steps
  with a choice ask for a greatest message (`PollQueue`), a least one (`Send`)
  or a least loaded queue (`SyncAdd`). That a reply may have to wait for its peer
  is no choice of the broker and stays. `ReadyInv` says that what a round holds is
  finite and that nothing is left to resend or to create; `TopmostExists`
  finds the candidate from the well-foundedness of strict inclusion on finite
  sets, without induction.
- `MessagesConserved`, `BrokerIsStore`, `PushedAtMostOnce`, `LatestOpen`
  (`BrokerStoreProofs`). `StoreInv` adds to `SafetyInv` and `Conservation`
  that both threads end together and that a queue and the batch have one
  message for an id (`OneCopy`), without which taking one off would not take
  its id off. The refinement follows step by step: `ReceiveMessage` is the
  store's `Receive`, `Classify` its `HandOver`, a step that ends the process
  its `End`, and the rest leave `held` as it is. `PushInv` follows an id from
  `handled` to a round's list, to `outbox`, to `pushed`, by which a message that
  is still to send was not yet pushed to its consumer.
- `SavedMessagesAreMapped`, `SavedConsumersAreKnown`, `QueuedMessagesAreSaved`
  (`PersistenceProofs`), by `FirstLifeInv`, for a broker that was never
  restarted. It says of the members copied so far what the file will need and
  of those still to come what they will bring (`CopyOK`: the queues of the
  copied messages are in the running `topicQueueMap` until that is copied,
  and so on, member by member), which works because queue numbers and
  registrations are never taken back (`NothingTakenBack`); `BeganOK` says that
  a message still in its queue was there when that was copied
  (`QueuesTakeRequest`: a queue only takes what the server thread has in hand); it
  speaks of the queues that are copied and did not change meanwhile (`Intact`),
  and `ReadingOK` says which queue is under the copy.
- `SavingIsInvisible`, `SavingBrokerIsStore` (`PersistenceProofs`): as long as
  there was no crash, every step of `Persistence` is one of `Broker` or leaves
  its variables alone, so that all of `Broker`'s theorems hold of the broker
  that saves, the refinement of `MessageStore` among them.
- `RecoveredMessagesKept`, `PersistenceTypes`, `OnlySavedRedelivered`, `NoLifeLosesMessages` (`RecoveryProofs`), for any number
  of crashes, saves and recoveries. A recovered broker was put together member
  by member and satisfies little of what relates members in a first life, so
  these rest on what is left:
  - `RecoveryInv`: from the assignment of `queueList` on, what came back is in
    a queue, in the batch or handled;
  - `LifeInv` adds `LifeTypes` and that the copy, the file and what is restored
    are brokers with finite queues;
  - `RedeliveryInv` adds that a message in two places, or in one after it was
    handled, is among those brought back (`Doubles`), and that the server
    thread's next message is in no queue, batch, copy or file (`Received`):
    without the second, a message received during a recovery could be one that
    the recovery then brings back;
  - `NoLifeLosesMessages` needs no invariant of the members at all: it names
    the only steps that take a message away, which are the process's end, a
    crash, and the assignment of `queueList` while the threads already run. It
    is what `MessageStore` comes to after a recovery, where an arrival can be
    handed over a second time and the store's steps are no longer the broker's.
- `ConsumerTypes`, `MessagesTakenOnce`, `EmptyTopNeverPopped`,
  `ConsumerImplementsDelivery` (`ConsumerProofs`), by `ConsumerInv`, which
  adds that `freed` holds only numbers already printed (`FreedPrinted`), that
  only a queue never filled leaves it empty (`FreedUnlessNew`), and that the
  thread looks at the queue only after a message or the end of the connection
  (`ReadBeforeDrain`).
- `ProducerTypes`, `AcksMeanAccepted`, `NoSecondCopy`, `OneWaySendWaits`
  (`ProducerProofs`), by `Inv`: what is under way of a process is of the
  attempt it waits in, on its present connection (`OutstandingOK`), and what was ever written for a message, whether under way, in the server
  thread's hand or accepted, is one attempt (`WrittenOK`). A further attempt
  means that the connection is lost, and a `Client` does not connect again.
- `SyncTypes`, `AcksMeanHeld`, `SlavesAreReplicas`, `RefusedForGood`
  (`SlaveSyncProofs`), by `SyncInv`: between two lives of a slave there is at
  most one request, stored broker or answer (`OutstandingOK`), an answer that
  waits is for what the slave holds, and no slave is ahead of the broker
  (`AgesOK`). With that a request that is carried out is an `Update` of
  `Replica`, however late it is; every other step but a start and a change of
  the broker leaves the three variables of `Replica` as they are.
- `NSTypes`, `StandbysAreNoBrokers`, `FailuresLeaveNoTrace`
  (`NameServerProofs`), by `NSInv` ==
  `SyncInv` with what `BrokerClients` can name (`MapsOK`), what was forwarded
  (`ForwardOK`), fresh numbers of messages (`NumsOK`) and the one message that
  can lie at a standby (`StandbyOK`).
- `StandbysAreReplicas`, `StandbyAcksMeanHeld` (`NameServerProofs`): the two
  results about slaves hold in the composition with the name server. A step of
  it is one of `SlaveSync` or puts a message of the name server among the
  requests and leaves the thread and the slaves as they are (`SyncOrAside`).
  The second is no step of `SlaveSync`, so these are not corollaries of
  `SyncSpec`'s theorems but take their lemmas, step by step.

Each proof has one lemma per part of the invariant and in it one step per
action that can disturb the part; steps that touch none of the variables are
taken together (`OwnThread`, `Actions`).

Model-checked only: liveness, which needs fairness and ENABLED (`ChoicesExist`
says for `Broker` that its steps are not blocked, not that they are taken)
(`HandsOverAll`, `PlannedPushHappens`, `RequestHandled`, `DeliversInOrder`,
`ReplyExpectedReturns`, `CatchesUp`, `Answered`). Every other property that a
passing run checks is also a theorem. That the three violated statements are
violated is shown by TLC's counterexamples. No module uses recursion over data;
where one will, what it computes stays with TLC as well.

## Not modelled

- The pure conversions (`SerializeUtil`, `Csplit`) and the counter
  `SequenceUtil`; the test programs, which decide what inputs are enumerated.
- Bytes: framing, partial reads, buffers of 4096 bytes, several acks in one
  read; what goes on inside TBB and the corruption of a tree by two writers
  (the name server's `MapsRace` only has the crash). A queue's copy that races
  with a push or pop may lose messages in the model; that it may also contain a
  broken message is outside, and that it may crash is a `Restart`.
- `syncPoll`'s loop variable and the table that `addToBroker` passes to the
  balancer are such copies too; the program uses the queues' names and sizes of
  them only, which is what `PollQueue` and `CopySize` take.
- A file that was overwritten: `Persistence` truncates it and a restart may
  find it torn, which recovers as an empty broker, as the code does; descriptors
  that come back from an old process are in the model as numbers that are no
  connections. Nothing in the code says what should hold then, so no
  property judges either.
- `NameServer`: nothing in `src/` sends `BROKER_HEART_BEAT`, so the brokers
  that do are an environment taken from the handler; the name server is not
  started again, and the broker it names and the broker whose slaves are
  synchronised are not tied to one address.
- `SlaveSync`: the busy loop before the first `setSlave`, and a broker larger
  than one buffer.
- The hazards without a property in `PROJECT.json` each carry their reason.

## Plan

Done: the broker's threads and `MessageStore`, the consumer, persistence and
recovery, producers, slaves and `Replica`, the name server; every safety
property proved. What could follow:

1. An abstract specification of a submission (sent, accepted at most once,
   acknowledged after) that `Producer` implements, in the place of
   `AckMeansAccepted` and `AtMostOneCopy`.
2. The second registration of an address while a topic still lists it: a
   statement of what may precede the reply.
3. Framing in `Consumer`: records and acks that come apart or together.
