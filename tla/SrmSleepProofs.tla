---------------------------- MODULE SrmSleepProofs ----------------------------
(***************************************************************************)
(* For every length of a second, timeout, wait and nap: the arithmetic of  *)
(* time_utils.h stands for the ticks in which the models count, and the    *)
(* sliced sleep, with its types, does what the one-step wait of SrmBackoff *)
(* does.                                                                   *)
(***************************************************************************)
EXTENDS SrmSleep, TLAPS

\* A whole second more outweighs any carried fraction.
LEMMA SecondsOutweigh ==
  ASSUME NEW x \in Int, NEW y \in Int, x < y
  PROVE  x * NANOS + NANOS <= y * NANOS
<1> USE TimeAssumption
<1> DEFINE d == y - x - 1
<1>1. d \in Nat
  OBVIOUS
<1>2. d * NANOS \in Nat
  BY <1>1
<1>3. y = x + 1 + d
  OBVIOUS
<1> HIDE DEF d
<1>4. (x + 1 + d) * NANOS = x * NANOS + NANOS + d * NANOS
  BY <1>1
<1> QED
  BY <1>1, <1>2, <1>3, <1>4

LEMMA ValueTyped ==
  ASSUME NEW a \in Timespecs
  PROVE  a.sec * NANOS \in Nat /\ Value(a) \in Nat
BY TimeAssumption DEF Timespecs, Value

\* A reading of the clock is carried and stands for its time.
LEMMA ReadingValue ==
  ASSUME NEW t \in Nat
  PROVE  /\ Reading(t) \in Carried
         /\ Reading(t) \in Timespecs
         /\ Value(Reading(t)) = t
<1>1. /\ t \div NANOS \in Nat
      /\ t % NANOS \in 0 .. NANOS - 1
      /\ t = NANOS * (t \div NANOS) + (t % NANOS)
  BY TimeAssumption
<1>2. NANOS * (t \div NANOS) = (t \div NANOS) * NANOS
  BY <1>1, TimeAssumption
<1> QED
  BY <1>1, <1>2, TimeAssumption DEF Reading, Value, Carried, Timespecs

\* A sum never exceeds a nanosecond field of NANOS, and stands for the sum.
LEMMA AddValue ==
  ASSUME NEW a \in Timespecs, NEW b \in Timespecs
  PROVE  /\ timespec_add(a, b) \in Timespecs
         /\ Value(timespec_add(a, b)) = Value(a) + Value(b)
<1> USE TimeAssumption DEF Timespecs
<1>1. timespec_add(a, b) \in Timespecs
  BY DEF timespec_add
<1>2. (a.sec + b.sec) * NANOS = a.sec * NANOS + b.sec * NANOS
  OBVIOUS
<1>3. (a.sec + b.sec + 1) * NANOS = a.sec * NANOS + b.sec * NANOS + NANOS
  OBVIOUS
<1>4. a.sec * NANOS \in Nat /\ b.sec * NANOS \in Nat
  OBVIOUS
<1> QED
  BY <1>1, <1>2, <1>3, <1>4 DEF timespec_add, Value

\* Two timespecs for different times compare as those times; a carried one is
\* never earlier than another for the same time.
LEMMA LtValue ==
  ASSUME NEW a \in Timespecs, NEW b \in Timespecs,
         Value(a) # Value(b) \/ a \in Carried
  PROVE  timespec_lt(a, b) <=> Value(a) < Value(b)
<1> DEFINE A == a.sec * NANOS
           B == b.sec * NANOS
<1>1. /\ a.sec \in Nat /\ b.sec \in Nat /\ NANOS \in Nat \ {0}
      /\ a.nsec \in 0 .. NANOS /\ b.nsec \in 0 .. NANOS
      /\ a \in Carried => a.nsec < NANOS
  BY TimeAssumption DEF Timespecs, Carried
<1>2. A \in Nat /\ B \in Nat
  BY <1>1
<1>3. Value(a) = A + a.nsec /\ Value(b) = B + b.nsec
  BY DEF Value
<1>4. CASE a.sec = b.sec
  <2>1. A = B
    BY <1>4
  <2> HIDE DEF A, B
  <2> QED
    BY <1>1, <1>2, <1>3, <1>4, <2>1 DEF timespec_lt
<1>5. CASE a.sec < b.sec
  <2>1. A + NANOS <= B
    BY <1>1, <1>5, SecondsOutweigh
  <2> HIDE DEF A, B
  <2> QED
    BY <1>1, <1>2, <1>3, <1>5, <2>1 DEF timespec_lt
<1>6. CASE b.sec < a.sec
  <2>1. B + NANOS <= A
    BY <1>1, <1>6, SecondsOutweigh
  <2> HIDE DEF A, B
  <2> QED
    BY <1>1, <1>2, <1>3, <1>6, <2>1 DEF timespec_lt
<1> QED
  BY <1>1, <1>4, <1>5, <1>6

USE WaitAssumption, SleepAssumption

\* One more nap still makes a whole number of them.
LEMMA OneMoreSlice ==
  ASSUME NEW x \in Nat, x % SLICE = 0
  PROVE  (x + SLICE) % SLICE = 0
<1> DEFINE q == x \div SLICE
           p == (x + SLICE) \div SLICE
           r == (x + SLICE) % SLICE
           d == q + 1 - p
<1>1. q \in Nat /\ x = SLICE * q
  BY SMT
<1>2. p \in Nat /\ r \in 0 .. SLICE - 1 /\ x + SLICE = SLICE * p + r
  BY SMT
<1>3. d \in Int
  BY <1>1, <1>2
<1> HIDE DEF q, p, r
<1>4. SLICE * (q + 1) = SLICE * q + SLICE
  BY <1>1
<1>5. r = SLICE * d
  <2>1. SLICE * (q + 1 - p) = SLICE * (q + 1) - SLICE * p
    BY <1>1, <1>2
  <2> QED
    BY <1>1, <1>2, <1>4, <2>1
<1> HIDE DEF d
<1>6. CASE d >= 1
  <2>1. PICK k \in Nat : d = k + 1
    BY <1>3, <1>6
  <2>2. SLICE * (k + 1) = SLICE * k + SLICE /\ SLICE * k \in Nat
    OBVIOUS
  <2> QED
    BY <1>2, <1>5, <2>1, <2>2
<1>7. CASE d <= -1
  <2>1. PICK k \in Nat : d = -(k + 1)
    BY <1>3, <1>7
  <2>2. SLICE * (-(k + 1)) = -(SLICE * k) - SLICE /\ SLICE * k \in Nat
    OBVIOUS
  <2> QED
    BY <1>2, <1>5, <2>1, <2>2
<1>8. CASE d = 0
  BY <1>5, <1>8 DEF r
<1> QED
  BY <1>3, <1>6, <1>7, <1>8

\* A nap is part of one wait: it began with a clock that left room for the whole
\* wait before the deadline, it is a whole number of slices old, and it ends within
\* a slice of its end.
NapInv ==
  pc = "nap" =>
    /\ wakeUp = start + ic.wait
    /\ wakeUp < ic.end
    /\ clock >= start
    /\ (clock - start) % SLICE = 0
    /\ clock < wakeUp + SLICE

\* current_waittime_spec stands for the wait in ticks, and the deadline stays.
IInv ==
  /\ TypeOK
  /\ ic.end = TIMEOUT
  /\ Value(waitSpec) = ic.wait
  /\ NapInv

\* The doubled wait, in both forms.
LEMMA NextWaitAgrees ==
  ASSUME NEW w \in Timespecs, NEW n \in Nat \ {0}, Value(w) = n
  PROVE  /\ NextWaitSpec(w) \in Timespecs
         /\ Value(NextWaitSpec(w)) = NextWait(n)
         /\ NextWait(n) \in Nat \ {0}
<1> DEFINE twice == timespec_add(w, w)
           most  == Reading(MAX_WAIT)
<1>1. twice \in Timespecs /\ Value(twice) = n + n
  BY AddValue
<1>2. most \in Timespecs /\ Value(most) = MAX_WAIT
  BY ReadingValue
<1>3. NextWaitSpec(w) = IF timespec_lt(twice, most) THEN twice ELSE most
  BY DEF NextWaitSpec
<1>4. Value(twice) # Value(most) => (timespec_lt(twice, most) <=> Value(twice) < Value(most))
  BY <1>1, <1>2, LtValue
<1> HIDE DEF twice, most
<1> QED
  BY <1>1, <1>2, <1>3, <1>4 DEF NextWait

LEMMA FirstWait ==
  /\ timespec_add(Zero, Reading(MIN_WAIT)) \in Timespecs
  /\ Value(timespec_add(Zero, Reading(MIN_WAIT))) = MIN_WAIT
<1>1. Zero \in Timespecs /\ Value(Zero) = 0
  BY TimeAssumption DEF Zero, Timespecs, Value
<1>2. Reading(MIN_WAIT) \in Timespecs /\ Value(Reading(MIN_WAIT)) = MIN_WAIT
  BY ReadingValue
<1> QED
  BY <1>1, <1>2, AddValue

LEMMA InitInv == Init => IInv
<1> SUFFICES ASSUME Init PROVE IInv
  OBVIOUS
<1>1. ic \in InternalContexts /\ ic.end = TIMEOUT /\ ic.wait = MIN_WAIT
  BY DEF Init, back_off_logic_init, InternalContexts
<1> QED
  BY <1>1, FirstWait DEF Init, IInv, TypeOK, NapInv

LEMMA NextInv ==
  ASSUME IInv, [Next]_vars
  PROVE  IInv'
<1> USE DEF IInv, TypeOK
<1>1. CASE Call
  <2> PICK d \in 0 .. MAX_RPC, t \in ESTIMATES :
        clock' = clock + d /\ ic' = set_estimated_wait_time(ic, t)
    BY <1>1 DEF Call
  <2>1. /\ ic' \in InternalContexts
        /\ ic'.end = ic.end /\ ic'.wait = ic.wait
    BY DEF set_estimated_wait_time, InternalContexts
  <2>2. clock' \in Nat /\ tries' \in Nat
    BY <1>1 DEF Call, Lesser
  <2> QED
    BY <1>1, <2>1, <2>2 DEF Call, NapInv
<1>2. CASE Enter
  <2>1. ic.wait \in Nat \ {0} /\ ic.end \in Nat
    BY DEF InternalContexts
  <2>2. PICK c \in Nat, w \in Nat :
          /\ clock' = c /\ start' = c /\ wakeUp' = w
          /\ c = clock /\ w = c + ic.wait /\ w < ic.end
    BY <1>2, <2>1 DEF Enter
  <2>3. c - c = 0 /\ 0 % SLICE = 0
    BY <2>2
  <2>4. NapInv'
    BY <1>2, <2>1, <2>2, <2>3 DEF Enter, NapInv
  <2> QED
    BY <1>2, <2>2, <2>4 DEF Enter
<1>3. CASE Nap
  <2>1. /\ ic.wait \in Nat /\ ic.end \in Nat
        /\ wakeUp = start + ic.wait /\ wakeUp < ic.end /\ clock >= start
        /\ (clock - start) % SLICE = 0 /\ clock < wakeUp
    BY <1>3 DEF Nap, NapInv, InternalContexts
  <2>2. PICK c \in Nat : clock' = c /\ c = clock + SLICE
    BY <1>3 DEF Nap
  <2>3. (c - start) % SLICE = 0
    <3>1. clock - start \in Nat /\ c - start = (clock - start) + SLICE
      BY <2>1, <2>2
    <3> QED
      BY <2>1, <3>1, OneMoreSlice
  <2>4. NapInv'
    BY <1>3, <2>1, <2>2, <2>3 DEF Nap, NapInv
  <2> QED
    BY <1>3, <2>2, <2>4 DEF Nap
<1>4. ASSUME ic' = [ ic EXCEPT !.wait = NextWait(@) ], waitSpec' = NextWaitSpec(waitSpec)
      PROVE  /\ ic' \in InternalContexts /\ ic'.end = TIMEOUT
             /\ waitSpec' \in Timespecs /\ Value(waitSpec') = ic'.wait
  <2>1. ic.wait \in Nat \ {0}
    BY DEF InternalContexts
  <2>2. /\ NextWaitSpec(waitSpec) \in Timespecs
        /\ Value(NextWaitSpec(waitSpec)) = NextWait(ic.wait)
        /\ NextWait(ic.wait) \in Nat \ {0}
    BY <2>1, NextWaitAgrees
  <2> QED
    BY <1>4, <2>2 DEF InternalContexts
<1>5. CASE Leave
  BY <1>4, <1>5 DEF Leave, NapInv
<1>6. CASE Refuse
  BY <1>4, <1>6 DEF Refuse, NapInv
<1>7. CASE Again
  <2>1. ic' \in InternalContexts /\ ic'.end = TIMEOUT /\ ic'.wait = MIN_WAIT
    BY <1>7 DEF Again, back_off_logic_init, InternalContexts
  <2> QED
    BY <1>7, <2>1, FirstWait DEF Again, NapInv
<1>8. CASE UNCHANGED vars
  BY <1>8 DEF vars, NapInv
<1> QED
  BY <1>1, <1>2, <1>3, <1>5, <1>6, <1>7, <1>8 DEF Next

\* The state of the sliced sleep keeps its types.
THEOREM TypeCorrect == Spec => []TypeOK
<1>1. IInv => TypeOK
  BY DEF IInv
<1> QED
  BY <1>1, InitInv, NextInv, PTL DEF Spec

\* The decisions taken on timespecs are those taken on ticks, but for a sleep that
\* ends on the very deadline.
LEMMA InvDecides == IInv => TimespecsDecide
<1> SUFFICES ASSUME IInv, NEW f \in 0 .. NANOS - 1
             PROVE  LET deadline  == [ sec |-> TIMEOUT \div NANOS, nsec |-> f ]
                        sleep(from) == timespec_add(waitSpec, Reading(f + from))
                    IN  /\ pc = "wait" /\ clock + ic.wait # ic.end =>
                             (timespec_lt(sleep(clock), deadline) <=> clock + ic.wait < ic.end)
                        /\ pc = "nap" =>
                             (timespec_lt(Reading(f + clock), sleep(start)) <=> clock < wakeUp)
  BY DEF TimespecsDecide, IInv
<1> DEFINE deadline  == [ sec |-> TIMEOUT \div NANOS, nsec |-> f ]
           sleep(from) == timespec_add(waitSpec, Reading(f + from))
<1>1. f \in Nat /\ clock \in Nat /\ start \in Nat /\ wakeUp \in Nat /\ ic.wait \in Nat
      /\ waitSpec \in Timespecs /\ Value(waitSpec) = ic.wait /\ ic.end = TIMEOUT
  BY TimeAssumption DEF IInv, TypeOK, InternalContexts
<1>2. deadline \in Timespecs /\ Value(deadline) = TIMEOUT + f
  <2>1. Reading(TIMEOUT).sec * NANOS + Reading(TIMEOUT).nsec = TIMEOUT
    BY ReadingValue DEF Value
  <2>2. (TIMEOUT \div NANOS) * NANOS = TIMEOUT /\ TIMEOUT \div NANOS \in Nat
    BY <2>1, ReadingValue, TimeAssumption DEF Reading, Timespecs
  <2> QED
    BY <1>1, <2>2, TimeAssumption DEF Timespecs, Value
<1>3. ASSUME NEW from \in Nat
      PROVE  sleep(from) \in Timespecs /\ Value(sleep(from)) = ic.wait + f + from
  <2>1. f + from \in Nat
    BY <1>1
  <2>2. Reading(f + from) \in Timespecs /\ Value(Reading(f + from)) = f + from
    BY <2>1, ReadingValue
  <2> QED
    BY <1>1, <2>2, AddValue
<1>4. ASSUME pc = "wait", clock + ic.wait # ic.end
      PROVE  timespec_lt(sleep(clock), deadline) <=> clock + ic.wait < ic.end
  <2>1. sleep(clock) \in Timespecs /\ Value(sleep(clock)) = ic.wait + f + clock
    BY <1>1, <1>3
  <2>2. Value(sleep(clock)) # Value(deadline)
    BY <1>1, <1>2, <1>4, <2>1
  <2>3. timespec_lt(sleep(clock), deadline) <=> Value(sleep(clock)) < Value(deadline)
    BY <1>2, <2>1, <2>2, LtValue
  <2> QED
    BY <1>1, <1>2, <2>1, <2>3
<1>5. ASSUME pc = "nap"
      PROVE  timespec_lt(Reading(f + clock), sleep(start)) <=> clock < wakeUp
  <2>1. sleep(start) \in Timespecs /\ Value(sleep(start)) = ic.wait + f + start
    BY <1>1, <1>3
  <2>2. f + clock \in Nat
    BY <1>1
  <2>3. /\ Reading(f + clock) \in Carried /\ Reading(f + clock) \in Timespecs
        /\ Value(Reading(f + clock)) = f + clock
    BY <2>2, ReadingValue
  <2>4. timespec_lt(Reading(f + clock), sleep(start)) <=> f + clock < ic.wait + f + start
    BY <2>1, <2>3, LtValue
  <2>5. wakeUp = start + ic.wait
    BY <1>5 DEF IInv, NapInv
  <2> QED
    BY <1>1, <2>4, <2>5
<1> QED
  BY <1>4, <1>5

\* Whatever the fraction of a second a call begins at, and however sums of exactly
\* one second are left: the naps and the verdicts are those of the ticks.
THEOREM TimespecsSuffice == Spec => []TimespecsDecide
BY InitInv, NextInv, InvDecides, PTL DEF Spec

-----------------------------------------------------------------------------
(* Refinement of SrmBackoff *)

\* Both modules double the wait alike.
LEMMA SameDoubling ==
  ASSUME NEW w \in Nat
  PROVE  Coarse!Lesser(w + w, MAX_WAIT) = NextWait(w)
BY DEF Coarse!Lesser, NextWait

\* The outcomes of the one-step wait of SrmBackoff: what the end of the naps
\* leaves, and what a refusal leaves.
LEMMA WaitGranted ==
  ASSUME NEW c \in InternalContexts, NEW from \in Nat, NEW to \in Nat,
         from + c.wait < c.end, from <= to,
         to >= from + c.wait, to < from + c.wait + SLICE, (to - from) % SLICE = 0
  PROVE  [ ok |-> TRUE, now |-> to, ic |-> [ c EXCEPT !.wait = NextWait(@) ] ]
           \in Coarse!wait_switch_auto("MIN_MAX_EXP", c, from)
<1> DEFINE next == [ c EXCEPT !.wait = NextWait(@) ]
<1>1. c.wait \in Nat
  BY DEF InternalContexts
<1>2. [ c EXCEPT !.wait = Coarse!Lesser(c.wait + c.wait, MAX_WAIT) ] = next
  BY <1>1, SameDoubling
<1>3. to \in from + c.wait .. from + c.wait + SLICE - 1
  BY <1>1
<1> HIDE DEF next
<1>4. Coarse!wait_for_new_attempt_min_max_ng(c, from) =
        { [ ok |-> TRUE, now |-> w, ic |-> next ] :
            w \in { v \in from + c.wait .. from + c.wait + SLICE - 1 : (v - from) % SLICE = 0 } }
  BY <1>2 DEF Coarse!wait_for_new_attempt_min_max_ng
<1>5. [ ok |-> TRUE, now |-> to, ic |-> next ]
        \in Coarse!wait_for_new_attempt_min_max_ng(c, from)
  BY <1>3, <1>4
<1> QED
  BY <1>5 DEF Coarse!wait_switch_auto, next

LEMMA WaitRefused ==
  ASSUME NEW c \in InternalContexts, NEW from \in Nat, from + c.wait >= c.end
  PROVE  [ ok |-> FALSE, now |-> from, ic |-> [ c EXCEPT !.wait = NextWait(@) ] ]
           \in Coarse!wait_switch_auto("MIN_MAX_EXP", c, from)
<1>1. c.wait \in Nat /\ c.end \in Nat
  BY DEF InternalContexts
<1>2. [ c EXCEPT !.wait = Coarse!Lesser(c.wait + c.wait, MAX_WAIT) ]
        = [ c EXCEPT !.wait = NextWait(@) ]
  BY <1>1, SameDoubling
<1>3. ~(from + c.wait < c.end)
  BY <1>1
<1> QED
  BY <1>2, <1>3 DEF Coarse!wait_switch_auto, Coarse!wait_for_new_attempt_min_max_ng

LEMMA CoarseInit == Init => Coarse!Init
BY DEF Init, Coarse!Init, Coarse!PollingLogics, back_off_logic_init, Coarse!back_off_logic_init

\* A SOAP call is the same in both.  The clock readings and the naps leave
\* SrmBackoff before its Wait; the end of the naps, or the refusal, is its Wait.
LEMMA CoarseStep == IInv /\ [Next]_vars => [Coarse!Next]_(Coarse!vars)
<1> SUFFICES ASSUME IInv, [Next]_vars
             PROVE  Coarse!Next \/ UNCHANGED Coarse!vars
  OBVIOUS
<1>1. ic \in InternalContexts /\ clock \in Nat /\ start \in Nat /\ wakeUp \in Nat
  BY DEF IInv, TypeOK
<1>2. CASE Call
  <2>1. PICK d \in 0 .. MAX_RPC, t \in ESTIMATES :
          clock' = clock + d /\ ic' = set_estimated_wait_time(ic, t)
    BY <1>2 DEF Call
  <2>2. Coarse!set_estimated_wait_time(ic, t) = set_estimated_wait_time(ic, t)
    BY DEF Coarse!set_estimated_wait_time, set_estimated_wait_time
  <2>3. tries' = Coarse!Lesser(tries + 1, Coarse!TRIES_CAP)
    BY <1>2 DEF Call, Lesser, Coarse!Lesser, Coarse!TRIES_CAP
  <2>4. Coarse!Call
    BY <1>2, <2>1, <2>2, <2>3 DEF Call, Coarse!Call
  <2> QED
    BY <2>4 DEF Coarse!Next
<1>3. CASE Enter
  BY <1>3 DEF Enter, Coarse!vars
<1>4. CASE Nap
  BY <1>4 DEF Nap, Coarse!vars
<1>5. CASE Leave
  <2>1. /\ pc = "nap" /\ pc' = "call" /\ clock' = clock /\ tries' = tries
        /\ ic' = [ ic EXCEPT !.wait = NextWait(@) ]
    BY <1>5 DEF Leave
  <2>2. /\ start + ic.wait < ic.end /\ start <= clock
        /\ clock >= start + ic.wait /\ clock < start + ic.wait + SLICE
        /\ (clock - start) % SLICE = 0
    BY <1>1, <1>5 DEF Leave, IInv, NapInv
  <2>3. [ ok |-> TRUE, now |-> clock, ic |-> ic' ]
          \in Coarse!wait_switch_auto("MIN_MAX_EXP", ic, start)
    BY <1>1, <2>1, <2>2, WaitGranted
  <2>4. Coarse!Wait
    BY <2>1, <2>3 DEF Coarse!Wait
  <2> QED
    BY <2>4 DEF Coarse!Next
<1>6. CASE Refuse
  <2>1. /\ pc = "wait" /\ pc' = "timeout" /\ clock' = clock /\ tries' = tries
        /\ ic' = [ ic EXCEPT !.wait = NextWait(@) ]
        /\ clock + ic.wait >= ic.end
    BY <1>6 DEF Refuse
  <2>2. [ ok |-> FALSE, now |-> clock, ic |-> ic' ]
          \in Coarse!wait_switch_auto("MIN_MAX_EXP", ic, clock)
    BY <1>1, <2>1, WaitRefused
  <2>3. Coarse!Wait
    BY <2>1, <2>2 DEF Coarse!Wait
  <2> QED
    BY <2>3 DEF Coarse!Next
<1>7. CASE Again
  <2>1. Coarse!Again
    BY <1>7 DEF Again, Coarse!Again, back_off_logic_init, Coarse!back_off_logic_init
  <2> QED
    BY <2>1 DEF Coarse!Next
<1>8. CASE UNCHANGED vars
  BY <1>8 DEF vars, Coarse!vars
<1> QED
  BY <1>2, <1>3, <1>4, <1>5, <1>6, <1>7, <1>8 DEF Next

\* The safety half of ImplementsBackoff: whatever the clock, the naps and the
\* estimates, the sliced sleep takes the steps of SrmBackoff and no others.
THEOREM BackoffImplemented == Spec => Coarse!Init /\ [][Coarse!Next]_(Coarse!vars)
<1>1. IInv /\ [Next]_vars => IInv'
  BY NextInv
<1> QED
  BY <1>1, InitInv, CoarseInit, CoarseStep, PTL DEF Spec

-----------------------------------------------------------------------------
(* The bounds of SrmBackoff, carried over *)

\* SrmBackoff with its proofs, seen from here as Coarse is.
Paced == INSTANCE SrmBackoffProofs WITH
  logic <- "MIN_MAX_EXP",
  pc    <- IF pc = "nap" THEN "wait" ELSE pc,
  now   <- IF pc = "nap" THEN start ELSE clock

LEMMA SameInit == Coarse!Init => Paced!Init
BY DEF Coarse!Init, Paced!Init, Coarse!PollingLogics, Paced!PollingLogics,
   Coarse!back_off_logic_init, Paced!back_off_logic_init

LEMMA SameStep == [Coarse!Next]_(Coarse!vars) => [Paced!Next]_(Paced!vars)
BY Zenon DEF Coarse!Next, Paced!Next, Coarse!vars, Paced!vars,
   Coarse!Call, Paced!Call, Coarse!Wait, Paced!Wait, Coarse!Again, Paced!Again,
   Coarse!set_estimated_wait_time, Paced!set_estimated_wait_time,
   Coarse!Lesser, Paced!Lesser, Coarse!TRIES_CAP, Paced!TRIES_CAP,
   Coarse!back_off_logic_init, Paced!back_off_logic_init,
   Coarse!wait_switch_auto, Paced!wait_switch_auto,
   Coarse!wait_for_new_attempt, Paced!wait_for_new_attempt,
   Coarse!wait_for_new_attempt_min_max_ng, Paced!wait_for_new_attempt_min_max_ng,
   Coarse!SleepOrLastChance, Paced!SleepOrLastChance

LEMMA SameBounds ==
  Paced!IInv => Coarse!NoLateCall /\ Coarse!NoEarlyTimeout /\ Coarse!BoundedTries
<1>1. Paced!IInv => Paced!NoLateCall /\ Paced!NoEarlyTimeout /\ Paced!BoundedTries
  BY Paced!InvImplies, SleepAssumption, WaitAssumption
<1> QED
  BY <1>1, Zenon DEF Coarse!NoLateCall, Coarse!NoEarlyTimeout, Coarse!BoundedTries,
     Paced!NoLateCall, Paced!NoEarlyTimeout, Paced!BoundedTries

\* The sliced sleep, with its clock readings and naps, keeps what SrmBackoff
\* promises: no call more than a slice past the deadline, none given up more than
\* one maximal wait before it, and no more calls than there are slices, and two.
THEOREM SleepBounded ==
  Spec => [](Coarse!NoLateCall /\ Coarse!NoEarlyTimeout /\ Coarse!BoundedTries)
<1>1. Paced!Init => Paced!IInv
  BY Paced!InitInv, SleepAssumption, WaitAssumption
<1>2. Paced!IInv /\ [Paced!Next]_(Paced!vars) => Paced!IInv'
  BY Paced!NextInv, SleepAssumption, WaitAssumption
<1> QED
  BY <1>1, <1>2, SameInit, SameStep, SameBounds, BackoffImplemented, PTL
=============================================================================
