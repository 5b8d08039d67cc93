------------------------------- MODULE Clock -------------------------------
(***************************************************************************)
(* The calculator's clock (timer.c): timer 2 of the Saturn, which counts   *)
(* down 8192 times a second, and ACCESSTIME in RAM, the time at which it   *)
(* will be 0.  get_t1_t2() compares both with the host's clock.  When they *)
(* differ by more than half a minute the user has set the time, and the    *)
(* offset between the two clocks is changed; else timer 2 is.              *)
(*                                                                         *)
(* A time is a word_64, two unsigned longs that are to hold 32 bits each   *)
(* and are added and subtracted in four parts of 16.  LIMB is the 16, LONG *)
(* the width of unsigned long: 4 * LIMB in a 64-bit build, as all of       *)
(* macOS, and 2 * LIMB in a 32-bit one.                                    *)
(***************************************************************************)
EXTENDS Integers, SequencesExt, Bitwise

CONSTANTS
  LIMB, LONG,
  NIBBLE,      (* bits of a nibble: 4 *)
  NACCESS,     (* nibbles of ACCESSTIME: 13 *)
  HALF_MINUTE, (* 0x3c000 ticks *)
  unix_0_time, (* ticks of 1.1.1970 *)
  timer2_0,    (* timer 2 as restored *)
  SetBy,       (* by how many ticks the user may set the time *)
  Sixteenth,   (* ticks in 1/16 of a second: 512 *)
  MaxNow,      (* bound: ticks the run lasts *)
  MaxLag       (* bound: ticks timer 2 is counted ahead of the clock *)

VARIABLES
  now,              (* ticks since 1970, gettimeofday() *)
  timer2,           (* saturn.timer2, a signed long *)
  access,           (* ACCESSTIME, the lowest nibble first *)
  set_0_time, time_offset,
  adj_time_pending,
  t1,               (* timers[T1_TIMER]: run, start and value *)
  t2_tick           (* how often it was slowed down *)

vars == <<now, timer2, access, set_0_time, time_offset, adj_time_pending, t1, t2_tick>>

-----------------------------------------------------------------------------
(* Arithmetic. *)

Word == 2 * LIMB
UL(x) == x % 2 ^ LONG                                    (* unsigned long *)
SL(x) == IF x >= 2 ^ (LONG - 1) THEN x - 2 ^ LONG ELSE x (* long *)
Negative(x) == (x \div 2 ^ (Word - 1)) % 2 = 1           (* x & 0x80000000 *)
word_64(hi, lo) == [hi |-> UL(hi), lo |-> UL(lo)]
Zero == word_64(0, 0)

(* The four parts of a word_64, the lowest first. *)
Part(w) == <<w.lo, w.lo \div 2 ^ LIMB, w.hi, w.hi \div 2 ^ LIMB>>
Limb(w, i) == Part(w)[i] % 2 ^ LIMB

(* r[0..3] put together; the upper part of each half is not cut to LIMB. *)
Joined(r) ==
  word_64((r[4] * 2 ^ LIMB) + (r[3] % 2 ^ LIMB), (r[2] * 2 ^ LIMB) + (r[1] % 2 ^ LIMB))

add_64(w, to) ==
  LET r[i \in 1 .. 4] ==
        Limb(w, i) + Limb(to, i) + (IF i > 1 /\ r[i - 1] \div 2 ^ LIMB # 0 THEN 1 ELSE 0)
  IN Joined(r)

sub_64(w, from) ==
  LET r[i \in 1 .. 4] ==
        UL(Limb(from, i) - Limb(w, i) - (IF i > 1 /\ r[i - 1] \div 2 ^ LIMB # 0 THEN 1 ELSE 0))
  IN Joined(r)

(* diff + (w1 - w2); the parts of the difference are cut to LIMB. *)
add_sub_64(w1, w2, diff) == add_64(sub_64(w2, w1), diff)

(* timer 2, sign and all. *)
Extended(t) == word_64(IF Negative(UL(t)) THEN 2 ^ Word - 1 ELSE 0, t)

(* The host's time: hi = tv_sec >> 19, lo = tv_sec << 13 and the ticks. *)
Ticks(t) == word_64(t \div 2 ^ Word, t)
Sixteenths(t) == word_64((t \div Sixteenth) \div 2 ^ Word, t \div Sixteenth)

(* A time written to RAM nibble by nibble, shifting it to the right ... *)
Shifted(w) ==
  word_64(w.hi \div 2 ^ NIBBLE,
          (w.lo \div 2 ^ NIBBLE) | ((w.hi % 2 ^ NIBBLE) * 2 ^ (Word - NIBBLE)))
Nibbles(w) ==
  LET s[i \in 1 .. NACCESS] == IF i = 1 THEN w ELSE Shifted(s[i - 1])
  IN [i \in 1 .. NACCESS |-> s[i].lo % 2 ^ NIBBLE]

(* ... and read back from the highest. *)
AccessTime(a) ==
  FoldRight(LAMBDA n, w :
              word_64((w.hi * 2 ^ NIBBLE) | ((w.lo \div 2 ^ (Word - NIBBLE)) % 2 ^ NIBBLE),
                      (w.lo * 2 ^ NIBBLE) + n),
            a, Zero)

-----------------------------------------------------------------------------
(* emulate() starts: reset_timer(T1), start_timer(T1), set_accesstime(). *)
Init ==
  /\ now = 0
  /\ timer2 = timer2_0
  /\ set_0_time = Zero
  /\ time_offset = add_64(Zero, Ticks(unix_0_time))
  /\ access = Nibbles(add_64(Extended(timer2_0), add_64(time_offset, Ticks(0))))
  /\ adj_time_pending = FALSE
  /\ t1 = [run |-> TRUE, start |-> Sixteenths(0), value |-> Zero]
  /\ t2_tick = 0

(* Whether get_t1_t2() returns the calculated time a; if not it returns
   timer 2 as it is and slows it down. *)
Accepted(a) == (timer2 >= 0 /\ Negative(a.lo)) \/ UL(timer2) > a.lo

(* The half of a minute, as get_t1_t2() tests it. *)
BeyondHalfMinute(adj) ==
  LET delta == IF (adj.hi \div 2 ^ (Word - NIBBLE - 1)) % 2 = 1 THEN sub_64(adj, Zero) ELSE adj
  IN delta.hi # 0 \/ delta.lo > HALF_MINUTE

(* get_t1_t2(), and saturn.timer2 = ticks.t2_ticks of its callers, schedule()
   with PC outside the interrupt service routine and do_shutdown(). *)
get_t1_t2 ==
  LET stop == add_64(time_offset, Ticks(now))
      left == sub_64(stop, AccessTime(access))
      adj == sub_64(Extended(timer2), left)
      adjust == ~adj_time_pending /\ BeyondHalfMinute(adj)
      result == IF adjust THEN sub_64(adj, left) ELSE left
  IN /\ t1' = IF t1.run
              THEN [t1 EXCEPT !.value = add_sub_64(Sixteenths(now), t1.start, @),
                              !.start = Sixteenths(now)]
              ELSE t1
     /\ IF adjust
        THEN /\ set_0_time' = add_64(adj, set_0_time)
             /\ time_offset' = add_64(adj, time_offset)
        ELSE UNCHANGED <<set_0_time, time_offset>>
     /\ IF Accepted(result)
        THEN timer2' = SL(result.lo) /\ UNCHANGED t2_tick
        ELSE UNCHANGED timer2 /\ t2_tick' = 1
  /\ UNCHANGED <<now, access>>

(* schedule(): the CPU is not in the interrupt service routine ... *)
AdjustTime == get_t1_t2 /\ adj_time_pending' = FALSE

(* ... or it is, and the time is adjusted later. *)
Postpone ==
  /\ adj_time_pending' = TRUE
  /\ UNCHANGED <<now, timer2, access, set_0_time, time_offset, t1, t2_tick>>

(* do_shutdown(), every 20 ms. *)
Asleep == get_t1_t2 /\ UNCHANGED adj_time_pending

Elapse ==
  /\ now < MaxNow
  /\ now' = now + 1
  /\ UNCHANGED <<timer2, access, set_0_time, time_offset, adj_time_pending, t1, t2_tick>>

(* schedule() counts timer 2 with the instructions. *)
Count ==
  /\ timer2_0 - timer2 < now + MaxLag
  /\ timer2' = timer2 - 1
  /\ UNCHANGED <<now, access, set_0_time, time_offset, adj_time_pending, t1, t2_tick>>

(* check_devices() after a write to timer 1: restart_timer(T1). *)
RestartT1 ==
  /\ t1' = [run |-> TRUE, start |-> Sixteenths(now), value |-> Zero]
  /\ UNCHANGED <<now, timer2, access, set_0_time, time_offset, adj_time_pending, t2_tick>>

(* The user sets the time: the ROM moves ACCESSTIME, timer 2 goes on. *)
SetTime(d) ==
  /\ access' = Nibbles(add_64(Extended(d), AccessTime(access)))
  /\ UNCHANGED <<now, timer2, set_0_time, time_offset, adj_time_pending, t1, t2_tick>>

Next ==
  \/ AdjustTime \/ Postpone \/ Asleep \/ Elapse \/ Count \/ RestartT1
  \/ \E d \in SetBy : SetTime(d)

Spec == Init /\ [][Next]_vars

-----------------------------------------------------------------------------
(* How far ACCESSTIME minus the time of day and timer 2 are apart. *)
Value(w) == (w.lo % 2 ^ Word) + ((w.hi % 2 ^ Word) * 2 ^ Word)
Apart == (Value(AccessTime(access)) - Value(time_offset) - now) - timer2

(* The offset of the clock is changed only if the clocks are more than half a
   minute apart, which no instruction count and no sleep brings about, only the
   user (timer.c:680, "Half a minute"); a smaller difference is timer 2's. *)
OnlyBigAdjustments ==
  [][time_offset' # time_offset => Apart > HALF_MINUTE \/ -Apart > HALF_MINUTE]_vars
=============================================================================
