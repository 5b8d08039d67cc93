--------------------------- MODULE EventQueue_proofs ---------------------------
(* Proofs about EventQueue, for every number of slots and every set of codes. *)
EXTENDS EventQueue, SequenceTheorems, TLAPS

(* After, defined with %, is the slot one further on or, from the last, slot 0. *)
LEMMA AfterIsNext ==
  ASSUME NEW s \in Slot
  PROVE  After(s) = (IF s + 1 = EVQ_SIZE THEN 0 ELSE s + 1) /\ After(s) \in Slot
<1>1. EVQ_SIZE \in Nat /\ EVQ_SIZE > 0
  BY QueueAssumption
<1>2. CASE s + 1 = EVQ_SIZE
  <2>1. (s + 1) % EVQ_SIZE = 0
    BY <1>1, <1>2 DEF Slot
  <2> QED BY <2>1, <1>1, <1>2 DEF After, Slot
<1>3. CASE s + 1 < EVQ_SIZE
  <2>1. (s + 1) % EVQ_SIZE = s + 1
    BY <1>1, <1>3 DEF Slot
  <2> QED BY <2>1, <1>1, <1>3 DEF After, Slot
<1> QED BY <1>1, <1>2, <1>3 DEF Slot

-----------------------------------------------------------------------------
(* Type correctness. *)
THEOREM TypeCorrect == Spec => []TypeOK
<1>1. Init => TypeOK
  BY QueueAssumption DEF Init, TypeOK, Slot
<1>2. TypeOK /\ [Next]_vars => TypeOK'
  <2> SUFFICES ASSUME TypeOK, [Next]_vars
               PROVE  TypeOK'
    OBVIOUS
  <2> USE DEF TypeOK
  <2>1. ASSUME NEW c \in Code, Push(c)
        PROVE  TypeOK'
    BY <2>1, AfterIsNext DEF Push
  <2>2. CASE Enter
    BY <2>2 DEF Enter
  <2>3. CASE Pop
    BY <2>3, AfterIsNext DEF Pop
  <2>4. CASE Handled
    BY <2>4 DEF Handled
  <2>5. CASE Leave
    BY <2>5 DEF Leave
  <2>6. CASE UNCHANGED vars
    BY <2>6 DEF vars
  <2> QED BY <2>1, <2>2, <2>3, <2>4, <2>5, <2>6 DEF Next, Drain
<1> QED BY <1>1, <1>2, PTL DEF Spec

(* How a push and a pop move the occupied slots. *)
LEMMA PushOccupies ==
  ASSUME TypeOK, NEW c \in Code, Push(c)
  PROVE  Occupied' \subseteq Occupied \cup {evq_head}
<1>1. evq_head' = (IF evq_head + 1 = EVQ_SIZE THEN 0 ELSE evq_head + 1)
  BY AfterIsNext DEF TypeOK, Push
<1>2. evq_tail' = evq_tail /\ evq_head \in Slot /\ evq_tail \in Slot
  BY DEF TypeOK, Push
<1> QED BY <1>1, <1>2, QueueAssumption DEF Occupied, Slot

(* A pop only ever gives up the slot at the tail, which was occupied. *)
LEMMA PopVacates ==
  ASSUME TypeOK, Pop
  PROVE  Occupied' \subseteq Occupied /\ evq_tail \in Occupied
<1>1. evq_tail' = (IF evq_tail + 1 = EVQ_SIZE THEN 0 ELSE evq_tail + 1)
  BY AfterIsNext DEF TypeOK, Pop
<1>2. evq_head' = evq_head /\ evq_tail # evq_head /\ evq_head \in Slot /\ evq_tail \in Slot
  BY DEF TypeOK, Pop
<1> QED BY <1>1, <1>2, QueueAssumption DEF Occupied, Slot

(* GetEvent() only ever handles codes that a producer pushed. *)
THEOREM PushedCodesOnly == Spec => []OnlyPushedCodes
<1>1. Init => OnlyPushedCodes
  BY QueueAssumption DEF Init, OnlyPushedCodes, Occupied
<1>2. TypeOK /\ OnlyPushedCodes /\ [Next]_vars => OnlyPushedCodes'
  <2> SUFFICES ASSUME TypeOK, OnlyPushedCodes, [Next]_vars
               PROVE  OnlyPushedCodes'
    OBVIOUS
  <2>1. ASSUME NEW c \in Code, Push(c)
        PROVE  OnlyPushedCodes'
    <3>1. \A s \in Occupied' : evq_buf'[s] \in Code
      <4> SUFFICES ASSUME NEW s \in Occupied'
                   PROVE  evq_buf'[s] \in Code
        OBVIOUS
      <4>1. CASE s = evq_head
        BY <2>1, <4>1 DEF Push, TypeOK
      <4>2. CASE s # evq_head
        <5>1. s \in Occupied
          BY <2>1, <4>2, PushOccupies
        <5> QED BY <2>1, <4>2, <5>1 DEF Push, TypeOK, OnlyPushedCodes
      <4> QED BY <4>1, <4>2
    <3> QED BY <2>1, <3>1 DEF Push, OnlyPushedCodes
  <2>2. CASE Pop
    BY <2>2, PopVacates DEF Pop, OnlyPushedCodes
  <2>3. CASE Enter
    BY <2>3 DEF Enter, OnlyPushedCodes, Occupied
  <2>4. CASE Handled
    BY <2>4 DEF Handled, OnlyPushedCodes, Occupied
  <2>5. CASE Leave
    BY <2>5 DEF Leave, OnlyPushedCodes, Occupied
  <2>6. CASE UNCHANGED vars
    BY <2>6 DEF vars, OnlyPushedCodes, Occupied
  <2> QED BY <2>1, <2>2, <2>3, <2>4, <2>5, <2>6 DEF Next, Drain
<1> QED BY <1>1, <1>2, TypeCorrect, PTL DEF Spec
-----------------------------------------------------------------------------
(* The ring implements the abstract queue.  Waiting is a sequence of Count
   codes, a push appends to it or empties it, a pop takes its head. *)
LEMMA WaitingIsSeq ==
  ASSUME TypeOK
  PROVE  /\ Count \in 0 .. EVQ_SIZE - 1
         /\ Waiting \in Seq(Code \cup {Zero})
         /\ Len(Waiting) = Count
         /\ \A i \in 1 .. Count : Waiting[i] = evq_buf[SlotAt(i - 1)]
<1>1. Count \in 0 .. EVQ_SIZE - 1
  BY QueueAssumption DEF TypeOK, Count, Slot
<1>2. \A i \in 1 .. Count : SlotAt(i - 1) \in Slot
  BY <1>1, QueueAssumption DEF TypeOK, SlotAt, Slot, Count
<1>3. \A i \in 1 .. Count : evq_buf[SlotAt(i - 1)] \in Code \cup {Zero}
  BY <1>2 DEF TypeOK
<1> QED BY <1>1, <1>3 DEF Waiting

(* A push is a push of the abstract queue: it appends, or at the last free
   slot makes head and tail meet and so empties the queue. *)
LEMMA PushSimulates ==
  ASSUME TypeOK, NEW c \in Code, Push(c)
  PROVE  Waiting' = Fifo!Pushed(Waiting, c)
<1>1. evq_head' = (IF evq_head + 1 = EVQ_SIZE THEN 0 ELSE evq_head + 1)
  BY AfterIsNext DEF TypeOK, Push
<1>2. /\ evq_tail' = evq_tail /\ evq_head \in Slot /\ evq_tail \in Slot
      /\ EVQ_SIZE \in Nat /\ EVQ_SIZE > 0
  BY QueueAssumption DEF TypeOK, Push
<1>3. Waiting \in Seq(Code \cup {Zero}) /\ Len(Waiting) = Count
  BY WaitingIsSeq
<1>4. CASE Count + 1 = EVQ_SIZE
  <2>1. Count' = 0
    BY <1>1, <1>2, <1>4 DEF Count, Slot
  <2>2. Waiting' = <<>>
    BY <2>1 DEF Waiting
  <2>3. Len(Waiting) + 1 = EVQ_SIZE
    BY <1>3, <1>4
  <2> QED BY <2>2, <2>3 DEF Fifo!Pushed
<1>5. CASE Count + 1 # EVQ_SIZE
  <2>1. Count' = Count + 1 /\ Count \in Nat
    BY <1>1, <1>2, <1>5 DEF Count, Slot
  <2>2. SlotAt(Count) = evq_head
    BY <1>2, <1>5 DEF Count, SlotAt, Slot
  <2>3. \A i \in 1 .. Count : SlotAt(i - 1) # evq_head /\ SlotAt(i - 1) \in Slot
    BY <1>2, <1>5 DEF Count, SlotAt, Slot
  <2>4. \A i \in 1 .. Count : evq_buf'[SlotAt(i - 1)] = evq_buf[SlotAt(i - 1)]
    BY <2>3 DEF Push, TypeOK
  <2>5. evq_buf'[evq_head] = c
    BY <1>2 DEF Push, TypeOK
  <2>6. \A i : SlotAt(i)' = SlotAt(i)
    BY <1>2 DEF SlotAt
  <2>7. Waiting' = [i \in 1 .. Count + 1 |-> IF i = Count + 1 THEN c ELSE Waiting[i]]
    BY <2>1, <2>2, <2>4, <2>5, <2>6 DEF Waiting
  <2>8. Append(Waiting, c) = [i \in 1 .. Count + 1 |-> IF i = Count + 1 THEN c ELSE Waiting[i]]
    <3> DEFINE S == Code \cup {Zero}
               t == [i \in 1 .. Count + 1 |-> IF i = Count + 1 THEN c ELSE Waiting[i]]
    <3>1. /\ Append(Waiting, c) \in Seq(S)
          /\ Len(Append(Waiting, c)) = Count + 1
          /\ \A i \in 1 .. Count : Append(Waiting, c)[i] = Waiting[i]
          /\ Append(Waiting, c)[Count + 1] = c
      BY <1>3, AppendProperties
    <3>2. t \in Seq(S) /\ Len(t) = Count + 1
      BY <1>3, <2>1, ElementOfSeq
    <3>3. \A i \in 1 .. Count + 1 : Append(Waiting, c)[i] = t[i]
      BY <3>1, <2>1
    <3> HIDE DEF t, S
    <3>4. Append(Waiting, c) = t
      BY <3>1, <3>2, <3>3, SeqEqual
    <3> QED BY <3>4 DEF t
  <2>9. Len(Waiting) + 1 # EVQ_SIZE
    BY <1>3, <1>5
  <2> QED BY <2>7, <2>8, <2>9 DEF Fifo!Pushed
<1> QED BY <1>4, <1>5

(* A pop takes the head of the abstract queue. *)
LEMMA PopSimulates ==
  ASSUME TypeOK, Pop
  PROVE  /\ Waiting # <<>>
         /\ code' = Head(Waiting)
         /\ Waiting' = Tail(Waiting)
<1>1. evq_tail' = (IF evq_tail + 1 = EVQ_SIZE THEN 0 ELSE evq_tail + 1)
  BY AfterIsNext DEF TypeOK, Pop
<1>2. /\ evq_head' = evq_head /\ evq_buf' = evq_buf /\ evq_head # evq_tail
      /\ evq_head \in Slot /\ evq_tail \in Slot
      /\ EVQ_SIZE \in Nat /\ EVQ_SIZE > 0
  BY QueueAssumption DEF TypeOK, Pop
<1>3. Waiting \in Seq(Code \cup {Zero}) /\ Len(Waiting) = Count
  BY WaitingIsSeq
<1>4. Count \in Nat /\ Count > 0 /\ Count' = Count - 1
  BY <1>1, <1>2 DEF Count, Slot
<1>5. SlotAt(0) = evq_tail
  BY <1>2 DEF SlotAt, Slot
<1>6. \A i \in 1 .. Count - 1 : SlotAt(i - 1)' = SlotAt(i)
  BY <1>1, <1>2 DEF SlotAt, Slot, Count
<1>7. Waiting # <<>>
  BY <1>3, <1>4
<1>8. code' = Head(Waiting)
  <2>1. Waiting[1] = evq_buf[evq_tail]
    BY <1>4, <1>5 DEF Waiting
  <2> QED BY <2>1, <1>3, <1>4 DEF Pop
<1>9. Waiting' = Tail(Waiting)
  <2>1. Tail(Waiting) = [i \in 1 .. Count - 1 |-> Waiting[i + 1]]
    <3> DEFINE S == Code \cup {Zero}
               t == [i \in 1 .. Count - 1 |-> Waiting[i + 1]]
    <3>1. /\ Tail(Waiting) \in Seq(S)
          /\ Len(Tail(Waiting)) = Count - 1
          /\ \A i \in 1 .. Count - 1 : Tail(Waiting)[i] = Waiting[i + 1]
      BY <1>3, <1>7, HeadTailProperties
    <3>2. t \in Seq(S) /\ Len(t) = Count - 1
      <4>1. \A i \in 1 .. Count - 1 : Waiting[i + 1] \in S
        BY <1>3, <1>4, ElementOfSeq
      <4> QED BY <4>1, <1>4
    <3>3. \A i \in 1 .. Count - 1 : Tail(Waiting)[i] = t[i]
      BY <3>1
    <3> HIDE DEF t, S
    <3>4. Tail(Waiting) = t
      BY <3>1, <3>2, <3>3, SeqEqual
    <3> QED BY <3>4 DEF t
  <2>2. \A i \in 1 .. Count - 1 : Waiting[i + 1] = evq_buf[SlotAt(i)]
    BY <1>4 DEF Waiting
  <2>3. Waiting' = [i \in 1 .. Count - 1 |-> evq_buf[SlotAt(i - 1)']]
    BY <1>2, <1>4 DEF Waiting
  <2> QED BY <2>1, <2>2, <2>3, <1>6
<1> QED BY <1>7, <1>8, <1>9

(* Every behaviour of the ring buffer of x48_sdl.c is one of the abstract
   queue: FIFO order, each code handled once, loss only by overflow. *)
THEOREM Refinement == Spec => ImplementsFifo
<1>1. Init => Fifo!FifoInit
  <2> SUFFICES ASSUME Init PROVE Fifo!FifoInit
    OBVIOUS
  <2>1. Count = 0
    BY DEF Init, Count
  <2> QED BY <2>1 DEF Init, Waiting, Handling, Fifo!FifoInit
<1>2. TypeOK /\ [Next]_vars => [Fifo!FifoNext]_(Fifo!fifoVars)
  <2> SUFFICES ASSUME TypeOK, [Next]_vars
               PROVE  [Fifo!FifoNext]_(Fifo!fifoVars)
    OBVIOUS
  <2>1. ASSUME NEW c \in Code, Push(c)
        PROVE  Fifo!FifoNext
    <3>1. Handling' = Handling
      BY <2>1 DEF Push, Handling
    <3> QED BY <2>1, <3>1, PushSimulates DEF Fifo!FifoPush, Fifo!FifoNext
  <2>2. CASE Pop
    <3>1. Handling = <<>> /\ Handling' = <<code'>>
      BY <2>2 DEF Pop, Handling
    <3> QED BY <2>2, <3>1, PopSimulates DEF Fifo!FifoTake, Fifo!FifoNext
  <2>3. CASE Handled
    <3>1. Handling # <<>> /\ Handling' = <<>>
      BY <2>3 DEF Handled, Handling
    <3>2. Waiting' = Waiting
      BY <2>3 DEF Handled, Waiting, Count, SlotAt
    <3> QED BY <3>1, <3>2 DEF Fifo!FifoHandled, Fifo!FifoNext
  <2>4. CASE Enter \/ Leave \/ UNCHANGED vars
    <3>1. Handling' = Handling
      BY <2>4 DEF Enter, Leave, vars, Handling
    <3>2. Waiting' = Waiting
      BY <2>4 DEF Enter, Leave, vars, Waiting, Count, SlotAt
    <3> QED BY <3>1, <3>2 DEF Fifo!fifoVars
  <2> QED BY <2>1, <2>2, <2>3, <2>4 DEF Next, Drain
<1> QED BY <1>1, <1>2, TypeCorrect, PTL DEF Spec, ImplementsFifo, Fifo!FifoSpec
==============================================================================
