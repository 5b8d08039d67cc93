------------------------------- MODULE KeyFifo -------------------------------
(***************************************************************************)
(* What the button-event queue between the SDL thread and the emulator     *)
(* thread promises (macos/x48_sdl.c).  Codes come out in the order they    *)
(* were pushed, one at a time, and the consumer handles each outside the   *)
(* queue's lock.  The promise has one hole, which is stated here and not   *)
(* hidden: a push that would make EVQ_SIZE codes wait empties the queue.   *)
(***************************************************************************)
EXTENDS Naturals, Sequences

CONSTANTS
  EVQ_SIZE,  (* the number of slots of the event queue *)
  Code       (* the event codes: a press or a release of a button *)

ASSUME FifoAssumption == EVQ_SIZE \in Nat \ {0}

VARIABLES
  waiting,   (* the codes pushed and not yet taken, oldest first *)
  handling   (* <<>>, or <<c>> while the consumer handles code c *)

fifoVars == <<waiting, handling>>

(* The queue after a push: there is no check for a full queue. *)
Pushed(q, c) == IF Len(q) + 1 = EVQ_SIZE THEN <<>> ELSE Append(q, c)

FifoInit == waiting = <<>> /\ handling = <<>>

FifoPush(c) ==
  /\ waiting' = Pushed(waiting, c)
  /\ UNCHANGED handling

FifoTake ==
  /\ handling = <<>>
  /\ waiting # <<>>
  /\ handling' = <<Head(waiting)>>
  /\ waiting' = Tail(waiting)

FifoHandled ==
  /\ handling # <<>>
  /\ handling' = <<>>
  /\ UNCHANGED waiting

FifoNext ==
  \/ \E c \in Code : FifoPush(c)
  \/ FifoTake
  \/ FifoHandled

FifoSpec == FifoInit /\ [][FifoNext]_fifoVars
==============================================================================
