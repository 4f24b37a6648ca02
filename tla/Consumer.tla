------------------------------ MODULE Consumer ------------------------------
(***************************************************************************)
(* Consumer::listening: one thread that reads a message, acknowledges it,  *)
(* keeps it unless it was read before, and then prints what is on top of   *)
(* its priority queue as long as that carries the next number.  The broker *)
(* and the network are environment: messages come in any order, some more  *)
(* than once and some never, and the connection may end.                   *)
(***************************************************************************)
EXTENDS Integers, Sequences

CONSTANTS
  Received,   (* the messages that may come: their number, priority and the *)
              (* number in their text, which stoi reads after the blank     *)
  BufferCap,  (* bound: messages in the socket at a time                    *)
  MaxReads    (* bound: messages sent to this consumer                      *)

ASSUME ConsumerAssumption ==
  /\ Received \subseteq [num : Nat, priority : Int, seq : Nat]
  /\ BufferCap \in Nat /\ MaxReads \in Nat

VARIABLES
  inbox,          (* what the socket holds                                *)
  closed,         (* the broker's end is gone                             *)
  pc,             (* "read", "drain", "crashed", "terminated"             *)
  checkMsg,       (* the messages read so far                             *)
  priorityQueue,
  freed,          (* what the first slot of an emptied queue still holds  *)
  startNum,       (* the next number to print                             *)
  printed,        (* history: what was printed                            *)
  sent            (* history: messages sent to this consumer              *)

vars == <<inbox, closed, pc, checkMsg, priorityQueue, freed, startNum, printed, sent>>

(* Mutated form: a counter that is advanced before it is compared. *)
BeforeFirst == -1

FirstNum == 0

Init ==
  /\ inbox = <<>> /\ closed = FALSE /\ pc = "read"
  /\ checkMsg = {} /\ priorityQueue = {} /\ freed = {}
  /\ startNum = FirstNum /\ printed = <<>> /\ sent = 0

-----------------------------------------------------------------------------
(* ConsumerMessage::operator< turned round: what lies nearer the top.  The *)
(* text decides last.                                                      *)
Above(m, n) ==
  \/ m.priority < n.priority
  \/ m.priority = n.priority /\ m.num < n.num
  \/ m.priority = n.priority /\ m.num = n.num /\ m.seq < n.seq

IsTop(m) == m \in priorityQueue /\ \A n \in priorityQueue : ~Above(n, m)

(* Mutated forms: every copy is kept; the number of the message is compared, *)
(* not that of its text; the next number is not advanced.                   *)
KeepsCopies(m) == TRUE
NumberOf(m) == m.num
SameNum == startNum

IsNew(m) == m \notin checkMsg
Num(m) == m.seq
NextNum == startNum + 1

(* read() gives a message: acknowledge it and keep it if it is new. *)
ReadMessage ==
  /\ pc = "read" /\ inbox # <<>>
  /\ inbox' = Tail(inbox)
  /\ LET m == Head(inbox) IN
       /\ checkMsg' = checkMsg \cup {m}
       /\ priorityQueue' = IF IsNew(m) THEN priorityQueue \cup {m} ELSE priorityQueue
  /\ pc' = "drain"
  /\ UNCHANGED <<closed, freed, startNum, printed, sent>>

(* read() gives 0, now and for ever after: the loop goes on without a message. *)
ReadEnd ==
  /\ pc = "read" /\ inbox = <<>> /\ closed
  /\ pc' = "drain"
  /\ UNCHANGED <<inbox, closed, checkMsg, priorityQueue, freed, startNum, printed, sent>>

(* The connection broke: read() gives -1, which counts as a message, and the *)
(* empty text is no archive; or the ack raises the signal nothing handles.   *)
ReadError ==
  /\ pc = "read" /\ closed
  /\ pc' = "terminated"
  /\ UNCHANGED <<inbox, closed, checkMsg, priorityQueue, freed, startNum, printed, sent>>

(* The top carries the next number: print it. *)
PrintTop(m) ==
  /\ pc = "drain" /\ IsTop(m) /\ Num(m) = startNum
  /\ priorityQueue' = priorityQueue \ {m}
  /\ freed' = IF priorityQueue = {m} THEN {m} ELSE {}
  /\ startNum' = NextNum
  /\ printed' = Append(printed, m)
  /\ UNCHANGED <<inbox, closed, pc, checkMsg, sent>>

(* The top carries another number: back to read(). *)
Break(m) ==
  /\ pc = "drain" /\ IsTop(m) /\ Num(m) # startNum
  /\ pc' = "read"
  /\ UNCHANGED <<inbox, closed, checkMsg, priorityQueue, freed, startNum, printed, sent>>

(* top() of an empty queue is undefined.  A queue that was emptied still has *)
(* its array, whose first slot holds the last message popped: popping it     *)
(* again would corrupt the queue.  A queue never filled has no array.        *)
TopOfEmpty ==
  /\ pc = "drain" /\ priorityQueue = {}
  /\ pc' = IF \E m \in freed : Num(m) # startNum THEN "read" ELSE "crashed"
  /\ UNCHANGED <<inbox, closed, checkMsg, priorityQueue, freed, startNum, printed, sent>>

Listening ==
  \/ ReadMessage \/ ReadEnd \/ ReadError \/ TopOfEmpty
  \/ \E m \in priorityQueue : PrintTop(m) \/ Break(m)

-----------------------------------------------------------------------------
(* The broker's end (environment). *)
Push(m) ==
  /\ ~closed /\ sent < MaxReads /\ Len(inbox) < BufferCap
  /\ inbox' = Append(inbox, m) /\ sent' = sent + 1
  /\ UNCHANGED <<closed, pc, checkMsg, priorityQueue, freed, startNum, printed>>

Close ==
  /\ ~closed /\ closed' = TRUE
  /\ UNCHANGED <<inbox, pc, checkMsg, priorityQueue, freed, startNum, printed, sent>>

Next == Listening \/ Close \/ \E m \in Received : Push(m)

Spec == Init /\ [][Next]_vars

(* The thread keeps running; nobody is obliged to send. *)
FairSpec == Spec /\ WF_vars(Listening)

-----------------------------------------------------------------------------
(* Types of the variables. *)
TypeOK ==
  /\ inbox \in Seq(Received) /\ closed \in BOOLEAN
  /\ pc \in {"read", "drain", "crashed", "terminated"}
  /\ checkMsg \subseteq Received /\ priorityQueue \subseteq Received /\ freed \subseteq Received
  /\ startNum \in Nat /\ printed \in Seq(Received) /\ sent \in Nat

(* Every message read is waiting or printed, not both, and was printed     *)
(* once: copies sent again are told apart from new messages, whenever they *)
(* come (checkMsg).                                                        *)
ExactlyOnce ==
  /\ checkMsg = priorityQueue \cup {printed[k] : k \in DOMAIN printed}
  /\ \A k \in DOMAIN printed : printed[k] \notin priorityQueue
  /\ \A k, l \in DOMAIN printed : printed[k] = printed[l] => k = l

(* Looking at the top of a queue that is empty never leads to popping it:  *)
(* the message left in its array carries a number already printed.  The    *)
(* thread crashes only if the connection ends before the first message.    *)
EmptyTopIsHarmless ==
  /\ pc = "drain" /\ priorityQueue = {} /\ checkMsg # {} => \A m \in freed : Num(m) # startNum
  /\ pc = "crashed" => checkMsg = {} /\ closed

(* The consumer as an ordered delivery of numbers. *)
Ordered == INSTANCE OrderedDelivery WITH
  Numbers <- {m.seq : m \in Received}, seen <- {m.seq : m \in checkMsg}, next <- startNum

(* Whatever comes, from however many topics, the numbers go out one after  *)
(* the other and only when a message that carries them was read.           *)
PrintsInOrder == Ordered!Safety

(* The heap's order is that of the numbers: one topic, one priority. *)
OneSequence == \A m, n \in checkMsg : Above(m, n) => m.seq < n.seq

(* As long as only such messages come, nothing that can go out is held     *)
(* back either: a duplicate, a gap or a late message delays only what comes*)
(* after the gap.  With PrintsInOrder this is Ordered!Spec.                *)
DeliversInOrder == []OneSequence => Ordered!Fairness
=============================================================================
