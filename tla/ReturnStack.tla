----------------------------- MODULE ReturnStack -----------------------------
(* The return stack of the Saturn: an array of NR_RSTK addresses and the index
   of its top, -1 when it is empty.  A push on a full stack drops the oldest
   address, a pop from an empty one gives 0. *)
EXTENDS Integers, Sequences

CONSTANT NR_RSTK
ASSUME StackAssumption == NR_RSTK \in Nat \ {0}

Stack == [rstk : [0 .. NR_RSTK - 1 -> Nat], rstkp : -1 .. NR_RSTK - 1]
Empty == [rstk |-> [i \in 0 .. NR_RSTK - 1 |-> 0], rstkp |-> -1]

(* Mutant: a full stack keeps its oldest entries. *)
ShiftedNowhere(rstk) == rstk
(* The array without its oldest entry. *)
Shifted(rstk) == [i \in 0 .. NR_RSTK - 1 |-> IF i < NR_RSTK - 1 THEN rstk[i + 1] ELSE rstk[i]]

push_return_addr(s, addr) ==
  IF s.rstkp + 1 >= NR_RSTK
  THEN [s EXCEPT !.rstk = [Shifted(@) EXCEPT ![s.rstkp] = addr]]
  ELSE [rstk |-> [s.rstk EXCEPT ![s.rstkp + 1] = addr], rstkp |-> s.rstkp + 1]

(* The address a pop gives, and the stack it leaves. *)
Popped(s) == IF s.rstkp < 0 THEN 0 ELSE s.rstk[s.rstkp]
pop_return_addr(s) == IF s.rstkp < 0 THEN s ELSE [s EXCEPT !.rstkp = @ - 1]

(* What a stack holds, the newest address first. *)
Contents(s) == [i \in 1 .. s.rstkp + 1 |-> s.rstk[s.rstkp + 1 - i]]

(* The stack as a sequence, the newest address first: what push and pop mean. *)
Newest(q) == SubSeq(q, 1, IF Len(q) < NR_RSTK THEN Len(q) ELSE NR_RSTK)
==============================================================================
