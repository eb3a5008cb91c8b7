--------------------------- MODULE SrmBackoffProofs ---------------------------
(***************************************************************************)
(* Proofs about SrmBackoff, for every timeout, waiting time, slice, length *)
(* of a SOAP call and set of estimates, and for both polling logics: no    *)
(* late call, no early timeout, a bounded number of tries.                 *)
(***************************************************************************)
EXTENDS SrmBackoff, TLAPS

USE WaitAssumption, BackoffAssumption

-----------------------------------------------------------------------------
(* The waiting rules *)

\* The sleep of the OLD logic, for an estimate that passed its test or a random
\* wait: granted, it lasts a tick and ends before the deadline; refused, there is
\* no more than the last chance left.
LEMMA OldSleep ==
  ASSUME NEW c \in InternalContexts, NEW t \in Nat, NEW w \in Int,
         w >= 1 \/ t + w >= c.end
  PROVE  LET o == SleepOrLastChance(c, t, w)
         IN  /\ o.ok \in BOOLEAN /\ o.ic = c
             /\ o.now \in Nat /\ o.now >= t
             /\ o.ok => o.now >= t + 1 /\ o.now < c.end
             /\ ~o.ok => o.now = t /\ t >= c.end - LAST_CHANCE
<1>1. c.end \in Nat
  BY DEF InternalContexts
<1> QED
  BY <1>1 DEF SleepOrLastChance

\* wait_for_new_attempt: a granted wait lasts a tick and ends before the deadline;
\* one is refused when the random waits are used up or within the last chance.
LEMMA OldWait ==
  ASSUME NEW c \in InternalContexts, NEW t \in Nat,
         NEW o \in wait_for_new_attempt(c, t)
  PROVE  /\ o.ok \in BOOLEAN
         /\ o.ic \in InternalContexts /\ o.ic.end = c.end /\ o.ic.wait = c.wait
         /\ o.now \in Nat /\ o.now >= t
         /\ o.ok => o.now >= t + 1 /\ o.now < c.end
         /\ ~o.ok => \/ o.ic.attempt > MAX_ATTEMPTS
                     \/ o.now >= c.end - LAST_CHANCE
<1> DEFINE next == [ c EXCEPT !.attempt = @ + 1 ]
<1>1. /\ next \in InternalContexts /\ next.end = c.end /\ next.wait = c.wait
      /\ c.end \in Nat /\ c.est \in Int /\ c.est >= -1 /\ c.attempt \in Nat
  BY DEF InternalContexts
<1>2. \/ \E w \in Int : w >= 1 /\ o = SleepOrLastChance(next, t, w)
      \/ o = [ ok |-> FALSE, now |-> t, ic |-> c ] /\ c.attempt > MAX_ATTEMPTS
      \/ o = SleepOrLastChance(c, t, c.est) /\ (c.est >= 1 \/ c.est >= c.end - t)
  BY <1>1 DEF wait_for_new_attempt
<1> HIDE DEF next
<1>3. CASE \E w \in Int : w >= 1 /\ o = SleepOrLastChance(next, t, w)
  <2>1. PICK w \in Int : w >= 1 /\ o = SleepOrLastChance(next, t, w)
    BY <1>3
  <2> QED
    BY <1>1, <2>1, OldSleep
<1>4. CASE o = [ ok |-> FALSE, now |-> t, ic |-> c ] /\ c.attempt > MAX_ATTEMPTS
  BY <1>4
<1>5. CASE o = SleepOrLastChance(c, t, c.est) /\ (c.est >= 1 \/ c.est >= c.end - t)
  <2>1. c.est >= 1 \/ t + c.est >= c.end
    BY <1>1, <1>5
  <2> QED
    BY <1>1, <1>5, <2>1, OldSleep
<1> QED
  BY <1>2, <1>3, <1>4, <1>5

\* wait_for_new_attempt_min_max_ng: a granted wait lasts a slice and ends less
\* than a slice after the deadline; one is refused when the wait would not end
\* before it.  The next wait does not exceed the maximum.
LEMMA SlicedWait ==
  ASSUME NEW c \in InternalContexts, NEW t \in Nat,
         NEW o \in wait_for_new_attempt_min_max_ng(c, t)
  PROVE  /\ o.ok \in BOOLEAN
         /\ o.ic \in InternalContexts /\ o.ic.end = c.end /\ o.ic.wait <= MAX_WAIT
         /\ o.now \in Nat /\ o.now >= t
         /\ o.ok => o.now >= t + SLICE /\ o.now < c.end + SLICE - 1
         /\ ~o.ok => o.now = t /\ t + c.wait >= c.end
<1> DEFINE next == [ c EXCEPT !.wait = Lesser(c.wait + c.wait, MAX_WAIT) ]
           wake == t + c.wait
<1>1. c.end \in Nat /\ c.wait \in Nat \ {0}
  BY DEF InternalContexts
<1>2. next \in InternalContexts /\ next.end = c.end /\ next.wait <= MAX_WAIT
  BY <1>1 DEF InternalContexts, Lesser
<1> HIDE DEF next
<1>3. CASE wake < c.end
  <2>1. PICK v \in wake .. wake + SLICE - 1 :
          (v - t) % SLICE = 0 /\ o = [ ok |-> TRUE, now |-> v, ic |-> next ]
    BY <1>3 DEF wait_for_new_attempt_min_max_ng, next
  <2>2. v \in Nat /\ v >= t + 1 /\ v < c.end + SLICE - 1
    BY <1>1, <1>3, <2>1
  <2>3. ASSUME v < t + SLICE PROVE FALSE
    <3>1. v - t \in 0 .. SLICE - 1 /\ v - t # 0
      BY <2>2, <2>3
    <3>2. (v - t) % SLICE = v - t
      BY <3>1
    <3> QED
      BY <2>1, <3>1, <3>2
  <2> QED
    BY <1>2, <2>1, <2>2, <2>3
<1>4. CASE ~(wake < c.end)
  <2>1. o = [ ok |-> FALSE, now |-> t, ic |-> next ]
    BY <1>4 DEF wait_for_new_attempt_min_max_ng, next
  <2> QED
    BY <1>1, <1>2, <1>4, <2>1
<1> QED
  BY <1>3, <1>4

-----------------------------------------------------------------------------
(* The inductive invariant *)

Contexts ==
  /\ ic.end = TIMEOUT
  /\ ic.wait <= MAX_WAIT

\* Under the OLD logic every wait before a try took a tick.
OldPace ==
  /\ pc = "call" => tries <= now /\ now < TIMEOUT
  /\ pc = "wait" => tries <= now + 1
  /\ tries <= TIMEOUT
  /\ pc = "timeout" => ic.attempt > MAX_ATTEMPTS \/ now >= TIMEOUT - LAST_CHANCE

\* Under the other one it took a slice.
SlicedPace ==
  /\ pc = "call" => tries * SLICE <= now /\ now < TIMEOUT + SLICE - 1
  /\ pc = "wait" => tries * SLICE <= now + SLICE
  /\ tries <= (TIMEOUT \div SLICE) + 2
  /\ pc = "timeout" => now + MAX_WAIT >= TIMEOUT

IInv ==
  /\ TypeOK
  /\ Contexts
  /\ logic = "OLD" => OldPace
  /\ logic # "OLD" => SlicedPace

\* What the invariant says is what the properties ask for.
LEMMA InvImplies == IInv => TypeOK /\ NoLateCall /\ NoEarlyTimeout /\ BoundedTries
<1> SUFFICES ASSUME IInv PROVE NoLateCall /\ NoEarlyTimeout /\ BoundedTries
  BY DEF IInv
<1>1. CASE logic = "OLD"
  BY <1>1 DEF IInv, Contexts, OldPace, NoLateCall, NoEarlyTimeout, BoundedTries, TypeOK
<1>2. CASE logic # "OLD"
  BY <1>2 DEF IInv, Contexts, SlicedPace, NoLateCall, NoEarlyTimeout, BoundedTries, TypeOK
<1> QED
  BY <1>1, <1>2

\* An operation starts within its bounds, with either logic.
LEMMA StartInv ==
  ASSUME logic \in PollingLogics, pc = "call", now = 0, tries = 0,
         ic = back_off_logic_init(TIMEOUT)
  PROVE  IInv
<1>1. /\ ic \in InternalContexts
      /\ ic.end = TIMEOUT /\ ic.wait = MIN_WAIT
  BY DEF back_off_logic_init, InternalContexts
<1>2. TypeOK
  BY <1>1 DEF TypeOK
<1>3. TIMEOUT \div SLICE \in Nat
  OBVIOUS
<1>4. OldPace /\ SlicedPace
  BY <1>3 DEF OldPace, SlicedPace
<1> QED
  BY <1>1, <1>2, <1>4 DEF IInv, Contexts

LEMMA InitInv == Init => IInv
BY StartInv DEF Init

LEMMA AgainKeeps == IInv /\ Again => IInv'
<1> SUFFICES ASSUME IInv, Again PROVE IInv'
  OBVIOUS
<1>1. /\ logic' \in PollingLogics /\ pc' = "call" /\ now' = 0 /\ tries' = 0
      /\ ic' = back_off_logic_init(TIMEOUT)
  BY DEF Again, IInv, TypeOK
<1>2. /\ ic' \in InternalContexts
      /\ ic'.end = TIMEOUT /\ ic'.wait = MIN_WAIT
  BY <1>1 DEF back_off_logic_init, InternalContexts
<1>3. TypeOK'
  BY <1>1, <1>2 DEF TypeOK
<1>4. TIMEOUT \div SLICE \in Nat
  OBVIOUS
<1>5. OldPace' /\ SlicedPace'
  BY <1>1, <1>4 DEF OldPace, SlicedPace
<1> QED
  BY <1>2, <1>3, <1>5 DEF IInv, Contexts

\* Tries of a slice each.
LEMMA Slices ==
  ASSUME NEW n \in Nat
  PROVE  n * SLICE \in Nat /\ (n + 1) * SLICE = n * SLICE + SLICE
OBVIOUS

\* A try that starts less than a slice after the deadline is at most the second
\* beyond the whole slices of the timeout.
LEMMA SliceBound ==
  ASSUME NEW n \in Nat, n * SLICE < TIMEOUT + SLICE - 1
  PROVE  n + 1 <= (TIMEOUT \div SLICE) + 2
<1> DEFINE q == TIMEOUT \div SLICE
<1>1. q \in Nat /\ TIMEOUT < (q + 1) * SLICE
  <2>1. /\ TIMEOUT \div SLICE \in Nat
        /\ TIMEOUT % SLICE \in 0 .. SLICE - 1
        /\ TIMEOUT = SLICE * (TIMEOUT \div SLICE) + (TIMEOUT % SLICE)
    OBVIOUS
  <2>2. (q + 1) * SLICE = SLICE * q + SLICE
    BY <2>1
  <2> QED
    BY <2>1, <2>2
<1> HIDE DEF q
<1>2. SUFFICES ASSUME n >= q + 2 PROVE FALSE
  BY <1>1 DEF q
<1>3. PICK d \in Nat : n = q + 2 + d
  BY <1>1, <1>2
<1>4. n * SLICE = (q + 1) * SLICE + SLICE + d * SLICE
  BY <1>1, <1>3
<1>5. d * SLICE \in Nat /\ (q + 1) * SLICE \in Nat /\ n * SLICE \in Nat
  BY <1>1
<1> QED
  BY <1>1, <1>4, <1>5

LEMMA CallKeeps == IInv /\ Call => IInv'
<1> SUFFICES ASSUME IInv, Call PROVE IInv'
  OBVIOUS
<1>1. PICK d \in 0 .. MAX_RPC, t \in ESTIMATES :
        now' = now + d /\ ic' = set_estimated_wait_time(ic, t)
  BY DEF Call
<1>2. /\ pc = "call" /\ pc' = "wait" /\ logic' = logic
      /\ now \in Nat /\ tries \in Nat
  BY DEF Call, IInv, TypeOK
<1>3. PICK n \in Nat : now' = n /\ n >= now
  BY <1>1, <1>2
<1>4. PICK k \in Nat : tries' = k /\ k <= tries + 1 /\ (k = tries + 1 \/ k = TRIES_CAP)
  BY <1>2 DEF Call, Lesser, TRIES_CAP
<1>5. /\ ic' \in InternalContexts
      /\ ic'.end = TIMEOUT /\ ic'.wait = ic.wait
  BY <1>1 DEF set_estimated_wait_time, InternalContexts, IInv, TypeOK, Contexts
<1>6. TypeOK'
  BY <1>2, <1>3, <1>4, <1>5 DEF TypeOK, IInv
<1>7. ic.wait <= MAX_WAIT
  BY DEF IInv, Contexts
<1>8. CASE logic = "OLD"
  <2>1. tries <= now /\ now < TIMEOUT
    BY <1>2, <1>8 DEF IInv, OldPace
  <2>2. k <= n + 1 /\ k <= TIMEOUT
    BY <1>2, <1>3, <1>4, <2>1
  <2>3. OldPace'
    BY <1>2, <1>3, <1>4, <2>2 DEF OldPace
  <2> QED
    BY <1>2, <1>5, <1>6, <1>7, <1>8, <2>3 DEF IInv, Contexts
<1>9. CASE logic # "OLD"
  <2>1. tries * SLICE <= now /\ now < TIMEOUT + SLICE - 1
    BY <1>2, <1>9 DEF IInv, SlicedPace
  <2>2. k * SLICE <= tries * SLICE + SLICE
    <3>1. PICK j \in Nat : k + j = tries + 1
      BY <1>2, <1>4
    <3>2. (k + j) * SLICE = k * SLICE + j * SLICE
      OBVIOUS
    <3>3. k * SLICE \in Nat /\ j * SLICE \in Nat /\ (tries + 1) * SLICE = tries * SLICE + SLICE
      BY <1>2, Slices
    <3> QED
      BY <3>1, <3>2, <3>3
  <2>3. k * SLICE \in Nat /\ tries * SLICE \in Nat
    BY <1>2, Slices
  <2>4. k * SLICE <= n + SLICE
    BY <1>2, <1>3, <2>1, <2>2, <2>3
  <2>5. tries + 1 <= (TIMEOUT \div SLICE) + 2
    BY <1>2, <2>1, <2>3, SliceBound
  <2>6. k <= (TIMEOUT \div SLICE) + 2
    BY <1>2, <1>4, <2>5
  <2>7. SlicedPace'
    BY <1>2, <1>3, <1>4, <2>4, <2>6 DEF SlicedPace
  <2> QED
    BY <1>2, <1>5, <1>6, <1>7, <1>9, <2>7 DEF IInv, Contexts
<1> QED
  BY <1>8, <1>9

LEMMA WaitKeeps == IInv /\ Wait => IInv'
<1> SUFFICES ASSUME IInv, Wait PROVE IInv'
  OBVIOUS
<1>1. PICK o \in wait_switch_auto(logic, ic, now) :
        now' = o.now /\ ic' = o.ic /\ pc' = IF o.ok THEN "call" ELSE "timeout"
  BY DEF Wait
<1>2. /\ pc = "wait" /\ logic' = logic /\ tries' = tries /\ tries \in Nat
      /\ ic \in InternalContexts /\ ic.end = TIMEOUT /\ ic.wait <= MAX_WAIT
      /\ now \in Nat /\ logic \in PollingLogics
      /\ pc' \in { "call", "timeout" }
  BY <1>1 DEF Wait, IInv, TypeOK, Contexts
<1>3. CASE logic = "OLD"
  <2>1. o \in wait_for_new_attempt(ic, now)
    BY <1>1, <1>3 DEF wait_switch_auto
  <2>2. /\ o.ok \in BOOLEAN
        /\ ic' \in InternalContexts /\ ic'.end = ic.end /\ ic'.wait = ic.wait
        /\ o.now \in Nat /\ o.now >= now
        /\ pc' = "call" => o.now >= now + 1 /\ o.now < ic.end
        /\ pc' = "timeout" => \/ ic'.attempt > MAX_ATTEMPTS
                              \/ o.now >= ic.end - LAST_CHANCE
    BY <1>1, <1>2, <2>1, OldWait
  <2>3. PICK n \in Nat : now' = n /\ n = o.now
    BY <1>1, <2>2
  <2>4. TypeOK'
    BY <1>2, <2>2, <2>3 DEF TypeOK
  <2>5. tries <= now + 1 /\ tries <= TIMEOUT
    BY <1>2, <1>3 DEF OldPace, IInv
  <2>6. OldPace'
    BY <1>2, <2>2, <2>3, <2>5 DEF OldPace
  <2> QED
    BY <1>2, <1>3, <2>2, <2>4, <2>6 DEF IInv, Contexts
<1>4. CASE logic # "OLD"
  <2>1. o \in wait_for_new_attempt_min_max_ng(ic, now)
    BY <1>1, <1>4 DEF wait_switch_auto
  <2>2. /\ o.ok \in BOOLEAN
        /\ ic' \in InternalContexts /\ ic'.end = ic.end /\ ic'.wait <= MAX_WAIT
        /\ o.now \in Nat /\ o.now >= now
        /\ pc' = "call" => o.now >= now + SLICE /\ o.now < ic.end + SLICE - 1
        /\ pc' = "timeout" => o.now = now /\ now + ic.wait >= ic.end
    BY <1>1, <1>2, <2>1, SlicedWait
  <2>3. PICK n \in Nat : now' = n /\ n = o.now
    BY <1>1, <2>2
  <2>4. TypeOK'
    BY <1>2, <2>2, <2>3 DEF TypeOK
  <2>5. ic.wait \in Nat /\ tries * SLICE \in Nat
    BY <1>2, Slices DEF InternalContexts
  <2>6. tries * SLICE <= now + SLICE /\ tries <= (TIMEOUT \div SLICE) + 2
    BY <1>2, <1>4 DEF SlicedPace, IInv
  <2>7. /\ pc' = "call" => tries * SLICE <= n /\ n < TIMEOUT + SLICE - 1
        /\ pc' = "timeout" => n + MAX_WAIT >= TIMEOUT
    BY <1>2, <2>2, <2>3, <2>5, <2>6
  <2>8. SlicedPace'
    BY <1>2, <2>3, <2>6, <2>7 DEF SlicedPace
  <2> QED
    BY <1>2, <1>4, <2>2, <2>4, <2>8 DEF IInv, Contexts
<1> QED
  BY <1>3, <1>4

LEMMA NextInv == IInv /\ [Next]_vars => IInv'
<1>1. IInv /\ UNCHANGED vars => IInv'
  BY DEF vars, IInv, TypeOK, Contexts, OldPace, SlicedPace
<1> QED
  BY <1>1, CallKeeps, WaitKeeps, AgainKeeps DEF Next

LEMMA Inductive == Spec => []IInv
BY InitInv, NextInv, PTL DEF Spec

\* The clock, the internal context and the number of tries keep their types.
THEOREM TypeCorrect == Spec => []TypeOK
BY Inductive, InvImplies, PTL

\* With either logic, no SOAP call starts later than the deadline and, for the
\* sliced sleep, the slice it may overshoot.
THEOREM NeverLate == Spec => []NoLateCall
BY Inductive, InvImplies, PTL

\* A call is given up only when no wait was left to take: for MIN_MAX_EXP within
\* one maximal wait of the deadline, for OLD within its last chance or after its
\* random waits.
THEOREM NeverEarly == Spec => []NoEarlyTimeout
BY Inductive, InvImplies, PTL

\* A server that never finishes is asked at most once a tick, or once a slice and
\* twice more.
THEOREM TriesBounded == Spec => []BoundedTries
BY Inductive, InvImplies, PTL
=============================================================================
