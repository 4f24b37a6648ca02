--------------------------- MODULE ConsumerProofs ---------------------------
(***************************************************************************)
(* Proofs about the consumer, for every set of messages and every bound.   *)
(***************************************************************************)
EXTENDS Consumer, SequenceTheorems, TLAPS

(* What a queue that was emptied still holds has been printed, and only a  *)
(* queue never filled holds nothing; a thread that looks at the queue has  *)
(* read a message or has come to the end of the connection.                *)
FreedPrinted == \A m \in freed : m.seq < startNum

FreedUnlessNew == priorityQueue = {} /\ checkMsg # {} => freed # {}

ReadBeforeDrain == pc = "drain" /\ checkMsg = {} => closed

CrashedUnused == pc = "crashed" => checkMsg = {} /\ closed

ConsumerInv ==
  TypeOK /\ ExactlyOnce /\ FreedPrinted /\ FreedUnlessNew /\ ReadBeforeDrain /\ CrashedUnused

-----------------------------------------------------------------------------
LEMMA ConsumerInvInit == ASSUME Init PROVE ConsumerInv
<1>1. TypeOK
  BY EmptySeq DEF Init, FirstNum, TypeOK
<1>2. ExactlyOnce
  BY DEF Init, ExactlyOnce
<1>3. FreedPrinted /\ FreedUnlessNew /\ ReadBeforeDrain /\ CrashedUnused
  BY DEF Init, FreedPrinted, FreedUnlessNew, ReadBeforeDrain, CrashedUnused
<1> QED BY <1>1, <1>2, <1>3 DEF ConsumerInv

LEMMA TypeStep == ASSUME TypeOK, [Next]_vars PROVE TypeOK'
<1> USE DEF TypeOK
<1>1. CASE ReadMessage
  <2>1. Head(inbox) \in Received /\ Tail(inbox) \in Seq(Received)
    BY <1>1 DEF ReadMessage
  <2> QED BY <1>1, <2>1 DEF ReadMessage
<1>2. CASE ReadEnd \/ ReadError \/ TopOfEmpty \/ Close
  BY <1>2 DEF ReadEnd, ReadError, TopOfEmpty, Close
<1>3. ASSUME NEW m \in priorityQueue, PrintTop(m) PROVE TypeOK'
  BY <1>3 DEF PrintTop, NextNum
<1>4. ASSUME NEW m \in priorityQueue, Break(m) PROVE TypeOK'
  BY <1>4 DEF Break
<1>5. ASSUME NEW m \in Received, Push(m) PROVE TypeOK'
  BY <1>5 DEF Push
<1>6. CASE UNCHANGED vars
  BY <1>6 DEF vars
<1> QED BY <1>1, <1>2, <1>3, <1>4, <1>5, <1>6 DEF Next, Listening

(* printed grows by what PrintTop takes off the queue, checkMsg and the queue *)
(* by what ReadMessage has not seen; no other step touches them.           *)
LEMMA ExactlyOnceStep ==
  ASSUME TypeOK, ExactlyOnce, [Next]_vars PROVE ExactlyOnce'
<1>0. printed \in Seq(Received)
  BY DEF TypeOK
<1>1. CASE UNCHANGED <<checkMsg, priorityQueue, printed>>
  BY <1>1 DEF ExactlyOnce
<1>2. CASE ReadMessage
  BY <1>2 DEF ReadMessage, IsNew, ExactlyOnce
<1>3. ASSUME NEW m \in priorityQueue, PrintTop(m) PROVE ExactlyOnce'
  <2>1. /\ printed' = Append(printed, m) /\ checkMsg' = checkMsg
        /\ priorityQueue' = priorityQueue \ {m}
    BY <1>3 DEF PrintTop
  <2>2. /\ DOMAIN printed' = DOMAIN printed \cup {Len(printed) + 1}
        /\ Len(printed) + 1 \notin DOMAIN printed
        /\ printed'[Len(printed) + 1] = m
        /\ \A k \in DOMAIN printed : printed'[k] = printed[k]
    BY <1>0, <2>1, AppendProperties, m \in Received DEF TypeOK
  <2> QED BY <2>1, <2>2 DEF ExactlyOnce
<1>4. UNCHANGED <<checkMsg, priorityQueue, printed>> \/ ReadMessage
        \/ \E m \in priorityQueue : PrintTop(m)
  BY DEF Next, Listening, ReadEnd, ReadError, TopOfEmpty, Close, Break, Push, vars
<1> QED BY <1>1, <1>2, <1>3, <1>4

LEMMA EmptyTopStep ==
  ASSUME ConsumerAssumption, ConsumerInv, [Next]_vars
  PROVE  (FreedPrinted /\ FreedUnlessNew /\ ReadBeforeDrain /\ CrashedUnused)'
<1> USE DEF FreedPrinted, FreedUnlessNew, ReadBeforeDrain, CrashedUnused
<1>0. /\ startNum \in Nat /\ freed \subseteq Received /\ priorityQueue \subseteq Received
      /\ \A m \in Received : m.seq \in Nat
      /\ FreedPrinted /\ FreedUnlessNew /\ ReadBeforeDrain /\ CrashedUnused
  BY DEF ConsumerInv, TypeOK, ConsumerAssumption
<1>1. CASE ReadMessage
  <2>1. UNCHANGED <<freed, startNum, closed>> /\ pc' = "drain" /\ checkMsg' # {}
    BY <1>1 DEF ReadMessage
  <2>2. priorityQueue' = {} => priorityQueue = {} /\ checkMsg # {}
    BY <1>1 DEF ReadMessage, IsNew
  <2> QED BY <1>0, <2>1, <2>2
<1>2. CASE ReadEnd \/ ReadError \/ Close
  BY <1>0, <1>2 DEF ReadEnd, ReadError, Close
<1>3. CASE TopOfEmpty
  <2>1. freed = {} => checkMsg = {} /\ closed
    BY <1>0, <1>3 DEF TopOfEmpty
  <2>2. \A m \in freed : m.seq # startNum
    BY <1>0
  <2> QED BY <1>0, <1>3, <2>1, <2>2 DEF TopOfEmpty, Num
<1>4. ASSUME NEW m \in priorityQueue, PrintTop(m)
      PROVE  (FreedPrinted /\ FreedUnlessNew /\ ReadBeforeDrain /\ CrashedUnused)'
  <2>1. m.seq = startNum /\ startNum' = startNum + 1 /\ freed' \subseteq {m}
    BY <1>4 DEF PrintTop, Num, NextNum
  <2>2. FreedPrinted'
    BY <1>0, <2>1
  <2>3. FreedUnlessNew'
    BY <1>4 DEF PrintTop
  <2> QED BY <1>0, <1>4, <2>2, <2>3 DEF PrintTop
<1>5. ASSUME NEW m \in priorityQueue, Break(m)
      PROVE  (FreedPrinted /\ FreedUnlessNew /\ ReadBeforeDrain /\ CrashedUnused)'
  BY <1>0, <1>5 DEF Break
<1>6. ASSUME NEW m \in Received, Push(m)
      PROVE  (FreedPrinted /\ FreedUnlessNew /\ ReadBeforeDrain /\ CrashedUnused)'
  BY <1>0, <1>6 DEF Push
<1>7. CASE UNCHANGED vars
  BY <1>0, <1>7 DEF vars
<1> QED BY <1>1, <1>2, <1>3, <1>4, <1>5, <1>6, <1>7 DEF Next, Listening

LEMMA ConsumerInvariance == Spec => []ConsumerInv
<1>1. ASSUME ConsumerInv, [Next]_vars PROVE ConsumerInv'
  BY <1>1, TypeStep, ExactlyOnceStep, EmptyTopStep, ConsumerAssumption DEF ConsumerInv
<1> QED BY <1>1, ConsumerInvInit, PTL DEF Spec

-----------------------------------------------------------------------------
(* Every variable keeps its type. *)
THEOREM ConsumerTypes == Spec => []TypeOK
BY ConsumerInvariance, PTL DEF ConsumerInv

(* checkMsg makes the consumer take every message once: nothing read is    *)
(* dropped, printed twice, or printed and kept (listening).                *)
THEOREM MessagesTakenOnce == Spec => []ExactlyOnce
BY ConsumerInvariance, PTL DEF ConsumerInv

(* listening() calls top() on an empty queue after each message it prints; *)
(* what it finds there never makes it pop the empty queue.                 *)
THEOREM EmptyTopNeverPopped == Spec => []EmptyTopIsHarmless
<1>1. ConsumerAssumption /\ ConsumerInv => EmptyTopIsHarmless
  BY DEF ConsumerAssumption, ConsumerInv, TypeOK, FreedPrinted, CrashedUnused,
         EmptyTopIsHarmless, Num
<1> QED BY <1>1, ConsumerInvariance, ConsumerAssumption, PTL

(* The consumer implements the safety part of the ordered delivery: each   *)
(* of its steps accepts a number, delivers the next one, or stutters.      *)
THEOREM ConsumerImplementsDelivery == Spec => PrintsInOrder
<1> DEFINE seenNums == {m.seq : m \in checkMsg}
<1>1. Init => Ordered!Init
  BY DEF Init, FirstNum, Ordered!Init
<1>2. ASSUME ConsumerInv, [Next]_vars PROVE [Ordered!Next]_<<seenNums, startNum>>
  <2>1. CASE UNCHANGED <<checkMsg, startNum>>
    BY <2>1
  <2>2. CASE ReadMessage
    <3>1. Head(inbox) \in Received
      BY <1>2, <2>2 DEF ReadMessage, ConsumerInv, TypeOK
    <3>2. checkMsg' = checkMsg \cup {Head(inbox)} /\ startNum' = startNum
      BY <2>2 DEF ReadMessage
    <3> DEFINE n == Head(inbox).seq
    <3>3. {m.seq : m \in checkMsg'} = {m.seq : m \in checkMsg} \cup {n}
      BY <3>2
    <3>4. n \in {m.seq : m \in Received}
      BY <3>1
    <3> HIDE DEF n
    <3> QED BY <3>2, <3>3, <3>4 DEF Ordered!Next, Ordered!Accept
  <2>3. ASSUME NEW m \in priorityQueue, PrintTop(m) PROVE Ordered!Deliver
    <3>1. m \in checkMsg
      BY <1>2 DEF ConsumerInv, ExactlyOnce
    <3>2. m.seq = startNum /\ startNum' = startNum + 1 /\ checkMsg' = checkMsg
      BY <2>3 DEF PrintTop, Num, NextNum
    <3> QED BY <3>1, <3>2 DEF Ordered!Deliver
  <2>4. UNCHANGED <<checkMsg, startNum>> \/ ReadMessage \/ \E m \in priorityQueue : PrintTop(m)
    BY <1>2 DEF Next, Listening, ReadEnd, ReadError, TopOfEmpty, Close, Break, Push, vars
  <2> QED BY <2>1, <2>2, <2>3, <2>4 DEF Ordered!Next
<1> QED BY <1>1, <1>2, ConsumerInvariance, PTL DEF Spec, PrintsInOrder, Ordered!Safety
=============================================================================
