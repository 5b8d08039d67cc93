------------------------------ MODULE EventQueue ------------------------------
(***************************************************************************)
(* The ring buffer of macos/x48_sdl.c that carries button events from the  *)
(* SDL main thread (and the test thread) to the emulator thread.           *)
(*                                                                         *)
(* sdl_push_event() is one critical section of evq_mutex.  GetEvent() is   *)
(* not: it holds the mutex to test for an empty ring and to pop one code,  *)
(* releases it around key_event(), and takes it again, so any number of    *)
(* pushes fit between two pops.                                            *)
(***************************************************************************)
EXTENDS Naturals, Sequences

CONSTANTS
  EVQ_SIZE,  (* slots of evq_buf: 64 in the code *)
  Code,      (* the codes producers push *)
  Zero       (* what a slot holds before its first write *)

ASSUME QueueAssumption ==
  /\ EVQ_SIZE \in Nat \ {0}
  /\ Zero \notin Code

VARIABLES
  evq_buf,   (* the slots *)
  evq_head,  (* the slot the next push writes *)
  evq_tail,  (* the slot the next pop reads *)
  pc,        (* "away": not in GetEvent; "locked": at its loop test;
                "event": in key_event, the mutex released *)
  code       (* GetEvent's local: the code it popped last *)

vars == <<evq_buf, evq_head, evq_tail, pc, code>>

Slot == 0 .. EVQ_SIZE - 1

(* Mutant: the index is not wrapped. *)
AfterUnwrapped(s) == s + 1

(* The slot after s. *)
After(s) == (s + 1) % EVQ_SIZE

Init ==
  /\ evq_buf = [s \in Slot |-> Zero]
  /\ evq_head = 0
  /\ evq_tail = 0
  /\ pc = "away"
  /\ code = Zero

(* Mutant: the index advances before the slot is written. *)
PushAdvanceFirst(c) ==
  /\ evq_buf' = [evq_buf EXCEPT ![After(evq_head)] = c]
  /\ evq_head' = After(evq_head)
  /\ UNCHANGED <<evq_tail, pc, code>>

(* sdl_push_event(c), by any producer. *)
Push(c) ==
  /\ evq_buf' = [evq_buf EXCEPT ![evq_head] = c]
  /\ evq_head' = After(evq_head)
  /\ UNCHANGED <<evq_tail, pc, code>>

(* The emulator thread calls GetEvent() and takes the mutex. *)
Enter ==
  /\ pc = "away"
  /\ pc' = "locked"
  /\ UNCHANGED <<evq_buf, evq_head, evq_tail, code>>

(* Mutants: the tail advances before the code is read; it does not advance. *)
PopAfterAdvance ==
  /\ pc = "locked"
  /\ evq_head # evq_tail
  /\ code' = evq_buf[After(evq_tail)]
  /\ evq_tail' = After(evq_tail)
  /\ pc' = "event"
  /\ UNCHANGED <<evq_buf, evq_head>>

PopInPlace ==
  /\ pc = "locked"
  /\ evq_head # evq_tail
  /\ code' = evq_buf[evq_tail]
  /\ pc' = "event"
  /\ UNCHANGED <<evq_buf, evq_head, evq_tail>>

(* The loop test finds a code: pop it and release the mutex. *)
Pop ==
  /\ pc = "locked"
  /\ evq_head # evq_tail
  /\ code' = evq_buf[evq_tail]
  /\ evq_tail' = After(evq_tail)
  /\ pc' = "event"
  /\ UNCHANGED <<evq_buf, evq_head>>

(* key_event() returns and the mutex is taken again. *)
Handled ==
  /\ pc = "event"
  /\ pc' = "locked"
  /\ UNCHANGED <<evq_buf, evq_head, evq_tail, code>>

(* The loop test finds the ring empty: GetEvent() returns. *)
Leave ==
  /\ pc = "locked"
  /\ evq_head = evq_tail
  /\ pc' = "away"
  /\ UNCHANGED <<evq_buf, evq_head, evq_tail, code>>

Drain == Enter \/ Pop \/ Handled \/ Leave

Next == (\E c \in Code : Push(c)) \/ Drain

(***************************************************************************)
(* The emulator thread calls GetEvent() again and again (schedule() and    *)
(* do_shutdown() do so whenever got_alarm is set, which a 20 ms interval   *)
(* timer keeps doing), so its steps are fair.  Producers owe nothing.      *)
(***************************************************************************)
Spec == Init /\ [][Next]_vars /\ WF_vars(Drain)

-----------------------------------------------------------------------------
(* How many codes wait, and which slots hold them. *)
Count == IF evq_head >= evq_tail THEN evq_head - evq_tail
                                 ELSE evq_head + EVQ_SIZE - evq_tail

Occupied ==
  IF evq_head >= evq_tail THEN evq_tail .. (evq_head - 1)
                          ELSE Slot \ (evq_head .. (evq_tail - 1))

(* The slot i places after the tail. *)
SlotAt(i) == IF evq_tail + i < EVQ_SIZE THEN evq_tail + i
                                        ELSE evq_tail + i - EVQ_SIZE

(* The abstract queue this ring stands for. *)
Waiting == [i \in 1 .. Count |-> evq_buf[SlotAt(i - 1)]]
Handling == IF pc = "event" THEN <<code>> ELSE <<>>

Fifo == INSTANCE KeyFifo WITH waiting <- Waiting, handling <- Handling

(* The variables have the types of the C declarations. *)
TypeOK ==
  /\ evq_buf \in [Slot -> Code \cup {Zero}]
  /\ evq_head \in Slot
  /\ evq_tail \in Slot
  /\ pc \in {"away", "locked", "event"}
  /\ code \in Code \cup {Zero}

(* GetEvent() never handles a slot no producer has written: what waits and
   what is being handled are codes somebody pushed. *)
OnlyPushedCodes ==
  /\ \A s \in Occupied : evq_buf[s] \in Code
  /\ pc = "event" => code \in Code

(* The ring implements the FIFO queue of KeyFifo, its loss at EVQ_SIZE
   outstanding codes included: order is kept across the unlocked windows of
   GetEvent(), nothing is handled twice, and nothing else is ever lost. *)
ImplementsFifo == Fifo!FifoSpec

(* A code that waits does not wait for ever, however many are pushed behind
   it: GetEvent() comes to its slot (or an overflow empties the ring). *)
EveryCodeLeaves == \A s \in Slot : (s \in Occupied) ~> (s \notin Occupied)
==============================================================================
