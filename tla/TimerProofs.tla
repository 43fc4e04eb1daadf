----------------------------- MODULE TimerProofs -----------------------------
(***************************************************************************)
(* How long a wait for the pseudo clock lasts, and that its queue is in    *)
(* the order of the times waited, for any time slice, period, lag and      *)
(* width of the counters that TimeAssumption admits, where nobody is       *)
(* killed and nobody traps.                                                *)
(***************************************************************************)
EXTENDS Timer, PromiseProofs

(*------------------------- the order of the queue ----------------------*)

\* What holds of the head of the clock's queue, and with a waiter of the one
\* behind it, holds of all waiters.
LEMMA RingReach ==
  ASSUME NEW s \in SchedType, NEW on, NEW pos, Rings(s, on, pos), NEW G,
         s.next[clock] \in G \union {clock},
         \A n \in Tcb : n \in G /\ on[n] = clock /\ s.next[n] \in Tcb => s.next[n] \in G
  PROVE  \A t \in Tcb : on[t] = clock => t \in G
<1> DEFINE V == {t \in Tcb : on[t] = clock /\ t \notin G}
           I == {pos[t] : t \in V}
<1> SUFFICES ASSUME V # {} PROVE FALSE
  OBVIOUS
<1>1. pos \in [Node -> Nat] /\ \A t \in Tcb : t \in Node /\ t # clock /\ t \notin Heads
  BY NodeFacts, ClockFacts, StoreAssumption DEF Rings
<1>2. I \in SUBSET Nat /\ I # {}
  BY <1>1
<1>3. PICK i \in I : \A j \in I : i <= j
  BY <1>2, LeastNumber
<1>4. PICK t \in V : i = pos[t]
  BY <1>3
<1>5. PICK p : p = s.prev[t]
  OBVIOUS
<1>6. /\ p \in Node /\ on[p] = clock /\ s.next[p] = t /\ pos[t] > pos[p]
      /\ t \in Tcb /\ t \notin G
  <2>1. t \in Tcb /\ t \in Node /\ on[t] = clock /\ t \notin Heads /\ t \notin G
    BY <1>1
  <2>2. p \in Node /\ on[p] = clock /\ s.next[p] = t
    BY <1>5, <2>1, ClockFacts DEF Rings, OnRing, SchedType
  <2>3. pos[t] > pos[p]
    BY <2>1, <2>2, ClockFacts DEF Rings, OnRing
  <2> QED
    BY <2>1, <2>2, <2>3
<1>7. CASE p \in Tcb
  <2>1. p \in G
    <3>1. pos[p] \in Nat /\ pos[t] \in Nat /\ pos[p] < pos[t]
      BY <1>1, <1>6
    <3>2. pos[p] \notin I
      BY <1>3, <1>4, <3>1
    <3> QED
      BY <1>6, <1>7, <3>2
  <2> QED
    BY <1>6, <1>7, <2>1
<1>8. CASE p \notin Tcb
  <2>1. p = clock
    BY <1>6, <1>8 DEF Rings, Node
  <2> QED
    BY <1>1, <1>6, <2>1
<1> QED
  BY <1>7, <1>8

\* The head of the queue, when there is one, has waited longest.
LEMMA HeadOldest ==
  ASSUME Calm, NEW on, RingInv(on), ClockSorted, elapsed_time \in [Tcb -> Times]
  PROVE  /\ list_empty(sched, clock) => Waiters = {}
         /\ ~list_empty(sched, clock) => sched.next[clock] \in Waiters
         /\ \A t \in Waiters : elapsed_time[t] <= elapsed_time[sched.next[clock]]
<1>1. sched \in SchedType /\ \E pos : Rings(sched, on, pos)
  BY RingFacts DEF RingInv, Shape
<1>2. PICK pos : Rings(sched, on, pos)
  BY <1>1
<1>3. PICK h : h = sched.next[clock]
  OBVIOUS
<1>4. Waiters = {t \in Tcb : on[t] = clock}
  BY WaitersAre
<1>5. h # clock => h \in Waiters /\ h \in Tcb
  <2>1. h \in Node /\ on[h] = clock
    BY <1>1, <1>2, <1>3, ClockFacts DEF Rings, OnRing, SchedType
  <2>2. h \notin Tcb => on[h] = h
    BY <1>2, <2>1 DEF Rings, Node
  <2> QED
    BY <1>4, <2>1, <2>2
<1>6. h = clock => Waiters = {}
  <2> SUFFICES ASSUME h = clock PROVE Waiters = {}
    OBVIOUS
  <2>1. PICK G : G = {}
    OBVIOUS
  <2>2. /\ sched.next[clock] \in G \union {clock}
        /\ \A n \in Tcb : n \in G /\ on[n] = clock /\ sched.next[n] \in Tcb => sched.next[n] \in G
    BY <1>3, <2>1
  <2>3. \A t \in Tcb : on[t] = clock => t \in G
    BY <1>1, <1>2, <2>2, RingReach
  <2> QED
    BY <1>4, <2>1, <2>3
<1>7. ASSUME h # clock
      PROVE  \A t \in Waiters : elapsed_time[t] <= elapsed_time[h]
  <2> DEFINE G == {t \in Tcb : elapsed_time[t] <= elapsed_time[h]}
  <2>1. \A t \in Tcb : elapsed_time[t] \in Int
    BY TimeAssumption DEF Times
  <2>2. h \in G
    BY <1>5, <1>7, <2>1
  <2>3. ASSUME NEW n \in Tcb, n \in G, on[n] = clock, sched.next[n] \in Tcb
        PROVE  sched.next[n] \in G
    <3>1. elapsed_time[n] >= elapsed_time[sched.next[n]]
      BY <1>4, <2>3 DEF ClockSorted
    <3>2. elapsed_time[n] <= elapsed_time[h]
      BY <2>3
    <3> QED
      BY <1>5, <1>7, <2>1, <2>3, <3>1, <3>2
  <2>4. \A t \in Tcb : on[t] = clock => t \in G
    <3> HIDE DEF G
    <3> QED
      BY <1>1, <1>2, <1>3, <2>2, <2>3, RingReach
  <2> QED
    BY <1>4, <2>4
<1> QED
  BY <1>3, <1>5, <1>6, <1>7 DEF list_empty

(*--------------------------------- times -------------------------------*)

LEMMA TimeConstants ==
  /\ SCHED_TIME_SLICE \in Nat /\ SCHED_TIME_SLICE > 0
  /\ SCHED_PSEUDO_CLOCK \in Nat /\ MaxLag \in Nat /\ Width \in Nat
  /\ SCHED_TIME_SLICE < SCHED_PSEUDO_CLOCK
  /\ Width > 2 * SCHED_PSEUDO_CLOCK + 4 * SCHED_TIME_SLICE + 4 * MaxLag
BY TimeAssumption DEF TimeAssumption

\* Differences that the width of the counters holds.
LEMMA Short ==
  ASSUME NEW n \in Nat, n < Width
  PROVE  Unsigned(n) = n
BY TimeConstants DEF Unsigned

LEMMA SignedShort ==
  ASSUME NEW n \in Int, 2 * n < Width, -(2 * n) < Width
  PROVE  Signed(n) = n
<1>0. Width \in Nat
  BY TimeConstants
<1>1. CASE n >= 0
  <2>1. n \in Nat /\ n < Width
    BY <1>0, <1>1
  <2>2. Unsigned(n) = n
    BY <2>1, Short
  <2> QED
    BY <1>0, <2>2 DEF Signed
<1>2. CASE n < 0
  <2>1. n % Width = n + Width
    BY <1>0, <1>2
  <2>2. Unsigned(n) = n + Width
    BY <2>1 DEF Unsigned
  <2> QED
    BY <1>0, <1>2, <2>2 DEF Signed
<1> QED
  BY <1>0, <1>1, <1>2

(*--------------------------- the inductive invariant -------------------*)

\* How late the clock may be read, on top of a slice; a stamp is older in
\* the scheduler by what the handler took.
Late == IF cpu = "sched" THEN MaxLag + lag ELSE lag

\* The scheduler before it has written the timer for the first time, or
\* when the queue of the clock is empty and it writes it in any case.
Unset == cpu = "sched" /\ stage = "enter" /\ Waiters = {}

\* The stamps: the timer, while it runs, ends no later than the slice does.
StampInv ==
  /\ slice_age \in Nat /\ last_age \in Nat
  /\ timer \in 0..SCHED_TIME_SLICE /\ lag \in 0..MaxLag
  /\ stage \in {"enter", "clock", "set"}
  /\ stage # "enter" => cpu = "sched" /\ slice_age < SCHED_TIME_SLICE /\ last_age = 0
  /\ slice_age <= SCHED_TIME_SLICE + Late /\ last_age <= SCHED_TIME_SLICE + Late
  /\ timer > 0 /\ ~Unset => /\ slice_age + timer <= SCHED_TIME_SLICE
                            /\ last_age + timer <= SCHED_TIME_SLICE

\* The waiters: what is charged to one, with what will be charged at the next
\* scheduling, is the time it has waited and at most a slice; the loop of
\* set_pseudo_clock leaves nobody whose time is over.
Limit == IF stage = "clock" THEN SCHED_PSEUDO_CLOCK + SCHED_TIME_SLICE + 2 * MaxLag
         ELSE SCHED_PSEUDO_CLOCK
Charged(t) ==
  /\ waited[t] <= elapsed_time[t] + last_age
  /\ elapsed_time[t] + last_age <= waited[t] + SCHED_TIME_SLICE
  /\ elapsed_time[t] < Limit
WaitInv ==
  /\ elapsed_time \in [Tcb -> Times] /\ waited \in [Tcb -> Nat]
  /\ \A t \in Waiters : Charged(t)
  /\ ClockSorted

TimeInv == StampInv /\ WaitInv

LEMMA WaitersTcb == Waiters \subseteq Tcb
BY DEF Waiters

\* The bounds in numbers.
LEMMA Ranges ==
  ASSUME TimeInv
  PROVE  /\ slice_age <= SCHED_TIME_SLICE + 2 * MaxLag /\ last_age <= SCHED_TIME_SLICE + 2 * MaxLag
         /\ slice_age \in Times /\ last_age \in Times
         /\ time_until_slice = SCHED_TIME_SLICE - slice_age
         /\ \A t \in Tcb : elapsed_time[t] \in Nat /\ waited[t] \in Nat
<1>0. /\ slice_age \in Nat /\ last_age \in Nat /\ lag \in Nat /\ lag <= MaxLag
      /\ slice_age <= SCHED_TIME_SLICE + Late /\ last_age <= SCHED_TIME_SLICE + Late
  BY TimeConstants DEF TimeInv, StampInv
<1>1. Late \in Nat /\ Late <= 2 * MaxLag
  BY <1>0, TimeConstants DEF Late
<1>2. /\ slice_age <= SCHED_TIME_SLICE + 2 * MaxLag
      /\ last_age <= SCHED_TIME_SLICE + 2 * MaxLag
  BY <1>0, <1>1, TimeConstants
<1>3. slice_age \in Times /\ last_age \in Times
  BY <1>0, <1>2, TimeConstants DEF Times
<1>4. time_until_slice = SCHED_TIME_SLICE - slice_age
  <2>1. PICK n \in Int : n = SCHED_TIME_SLICE - slice_age
    BY <1>0, TimeConstants
  <2>2. 2 * n < Width /\ -(2 * n) < Width
    BY <1>0, <1>2, <2>1, TimeConstants
  <2>3. Signed(n) = n
    BY <2>2, SignedShort
  <2> QED
    BY <2>1, <2>3 DEF time_until_slice
<1>5. \A t \in Tcb : elapsed_time[t] \in Nat /\ waited[t] \in Nat
  BY TimeConstants DEF TimeInv, WaitInv, Times
<1> QED
  BY <1>2, <1>3, <1>4, <1>5

\* Where the queue and what is charged stay, so does the order.
LEMMA OrderStays ==
  ASSUME ClockSorted, ClockStays, elapsed_time' = elapsed_time
  PROVE  ClockSorted'
BY DEF ClockSorted, ClockStays

\* A step that lets no time pass and goes to no other stage, with the queue
\* as it is.
LEMMA ChargesStay ==
  ASSUME WaitInv, Waiters' \subseteq Waiters, ClockSorted',
         UNCHANGED <<elapsed_time, waited, last_age>>, Limit' = Limit
  PROVE  WaitInv'
BY DEF WaitInv, Charged

(*---------------------------------- steps ------------------------------*)

\* Time passes.
LEMMA ElapseTime ==
  ASSUME TimeInv, Elapse
  PROVE  TimeInv'
<1>0. /\ Waiters' = Waiters /\ sched' = sched /\ cpu' = cpu
      /\ elapsed_time' = elapsed_time /\ stage' = stage
  BY DEF Elapse, vars, Waiters, clock
<1>1. slice_age' = slice_age + 1 /\ last_age' = last_age + 1
  <2>1. /\ slice_age + 1 \in Nat /\ slice_age + 1 < Width
        /\ last_age + 1 \in Nat /\ last_age + 1 < Width
    <3>1. slice_age \in Nat /\ last_age \in Nat
      BY DEF TimeInv, StampInv
    <3> QED
      BY <3>1, Ranges, TimeConstants
  <2> QED
    BY <2>1, Short DEF Elapse
<1>2. StampInv'
  <2>1. /\ slice_age \in Nat /\ last_age \in Nat /\ timer \in Nat /\ lag \in Nat
        /\ timer <= SCHED_TIME_SLICE /\ lag <= MaxLag
        /\ stage \in {"enter", "clock", "set"}
        /\ stage # "enter" => cpu = "sched"
        /\ slice_age <= SCHED_TIME_SLICE + Late /\ last_age <= SCHED_TIME_SLICE + Late
        /\ timer > 0 /\ ~Unset => /\ slice_age + timer <= SCHED_TIME_SLICE
                                  /\ last_age + timer <= SCHED_TIME_SLICE
    BY TimeConstants DEF TimeInv, StampInv
  <2>2. timer' = IF timer > 0 THEN timer - 1 ELSE 0
    BY DEF Elapse
  <2>3. Unset' <=> Unset
    BY <1>0 DEF Unset
  <2>4. CASE Working
    <3>1. lag' = lag /\ cpu # "sched" /\ timer > 0 /\ ~Unset /\ Late = lag /\ Late' = lag
      BY <1>0, <2>4 DEF Elapse, Working, Unset, Late
    <3>2. stage = "enter"
      BY <2>1, <3>1
    <3> QED
      BY <1>0, <1>1, <2>1, <2>2, <2>3, <3>1, <3>2, TimeConstants DEF StampInv
  <2>5. CASE ~Working
    <3>1. lag' = lag + 1 /\ lag < MaxLag /\ stage = "enter" /\ Late' = Late + 1
      <4>1. lag' = lag + 1 /\ Lagging
        BY <2>5 DEF Elapse
      <4>2. stage = "enter" /\ lag < MaxLag
        BY <2>1, <4>1 DEF Lagging
      <4>3. Late' = Late + 1
        BY <1>0, <2>1, <4>1, TimeConstants DEF Late
      <4> QED
        BY <4>1, <4>2, <4>3
    <3>2. Late \in Nat
      BY <2>1, TimeConstants DEF Late
    <3> QED
      BY <1>0, <1>1, <2>1, <2>2, <2>3, <3>1, <3>2, TimeConstants DEF StampInv
  <2> QED
    BY <2>4, <2>5
<1>3. WaitInv'
  <2>1. /\ elapsed_time \in [Tcb -> Times] /\ waited \in [Tcb -> Nat]
        /\ \A t \in Waiters : t \in Tcb /\ Charged(t)
        /\ ClockSorted
    BY WaitersTcb DEF TimeInv, WaitInv
  <2>2. waited' = [t \in Tcb |-> IF t \in Waiters THEN waited[t] + 1 ELSE 0]
    BY DEF Elapse
  <2>3. ClockSorted'
    BY <1>0, <2>1 DEF ClockSorted
  <2>4. waited' \in [Tcb -> Nat] /\ \A t \in Waiters : waited'[t] = waited[t] + 1
    BY <2>1, <2>2
  <2>5. ASSUME NEW t \in Waiters PROVE Charged(t)'
    <3>1. last_age \in Nat /\ elapsed_time[t] \in Nat /\ waited[t] \in Nat /\ Limit' = Limit
      BY <1>0, <2>1, Ranges DEF TimeInv, StampInv, Limit
    <3>2. Charged(t) /\ waited'[t] = waited[t] + 1
      BY <2>1, <2>4, <2>5
    <3> QED
      BY <1>0, <1>1, <3>1, <3>2, TimeConstants DEF Charged
  <2> QED
    BY <1>0, <2>1, <2>3, <2>4, <2>5 DEF WaitInv
<1> QED
  BY <1>2, <1>3 DEF TimeInv

\* A step of a thread, seen from the clock.
LEMMA WorkClock ==
  ASSUME Peaceful, Calm, Placed, TypeOK', SsiNext \/ ExceptionsNext
  PROVE  /\ cpu = "run"
         /\ Serving({"WAIT_FOR_CLOCK"}) => ClockJoins(Sender)
         /\ ~Serving({"WAIT_FOR_CLOCK"}) => ClockStays
<1>1. PICK on : RingInv(on)
  BY DEF Placed
<1>2. sched' \in SchedType
  BY DEF TypeOK
<1>3. \A op : Running(op) => cpu = "run" /\ call[current_thread].op = op
  BY DEF Running
<1>4. CASE ExceptionsNext
  <2>1. \E op \in {"user", "send", "recv"} : Running(op)
    BY <1>4 DEF ExceptionsNext, Request, SysSend, SysSendPending, SysRecv, SysRecvPending,
                SysPassup, TlbTrap, PgmTrap, SysZero, Breakpoint
  <2>2. cpu = "run" /\ ~Serving({"WAIT_FOR_CLOCK"})
    BY <1>3, <2>1 DEF Serving
  <2>3. ClockStays
    BY <1>1, <1>2, <1>4, ExceptionsKeep, StaysInPlace
  <2> QED
    BY <2>2, <2>3
<1>5. CASE SsiNext
  <2>1. ~WaitForClock => ClockStays
    BY <1>1, <1>2, <1>5, ServicesKeep, StaysInPlace
  <2>2. WaitForClock => ClockJoins(Sender)
    BY <1>1, JoinsQueue
  <2>3. /\ cpu = "run"
        /\ Serving({"WAIT_FOR_CLOCK"}) <=> WaitForClock
    <3>1. ASSUME NEW who \in Killers,
                 ReapThread(who) \/ ReapChild(who) \/ ReapProc(who) \/ ReapDone(who)
          PROVE  FALSE
      BY <3>1, NobodyReaps
    <3>2. CASE GetErrno \/ Query \/ CreateProcess \/ CreateThread \/ DoIo \/ DoIoBusy
      <4>1. \E tags : "WAIT_FOR_CLOCK" \notin tags /\ Serving(tags)
        BY <3>2 DEF GetErrno, Query, CreateProcess, CreateThread, DoIo, DoIoBusy, Queries
      <4> QED
        BY <4>1 DEF Serving, WaitForClock
    <3>3. CASE TerminateProcess \/ TerminateThread \/ BadRequest \/ SetManager
      <4>1. \E tags : "WAIT_FOR_CLOCK" \notin tags /\ Serving(tags)
        BY <3>3 DEF TerminateProcess, TerminateThread, BadRequest, SetManager, Managing
      <4> QED
        BY <4>1 DEF Serving, WaitForClock
    <3>4. CASE WaitForClock
      BY <3>4 DEF Serving, WaitForClock
    <3> QED
      BY <1>5, <3>1, <3>2, <3>3, <3>4 DEF SsiNext, Killers
  <2> QED
    BY <2>1, <2>2, <2>3
<1> QED
  BY <1>4, <1>5

\* A step of a thread lets no time pass; the one it parks has waited for
\* none, and is charged with less than a slice that has gone by before.
LEMMA WorkTime ==
  ASSUME TimeInv, Peaceful, Calm, Placed, TypeOK', Work
  PROVE  TimeInv'
<1>0. /\ timer > 0 /\ (SsiNext \/ ExceptionsNext)
      /\ UNCHANGED <<slice_age, last_age, timer, stage, lag>>
  BY DEF Work, stamps
<1>1. /\ cpu = "run"
      /\ Serving({"WAIT_FOR_CLOCK"}) => ClockJoins(Sender)
      /\ ~Serving({"WAIT_FOR_CLOCK"}) => ClockStays
  BY <1>0, WorkClock
<1>2. /\ slice_age \in Nat /\ last_age \in Nat /\ timer \in Nat /\ lag \in Nat
      /\ timer <= SCHED_TIME_SLICE /\ lag <= MaxLag /\ stage = "enter"
      /\ slice_age + timer <= SCHED_TIME_SLICE /\ last_age + timer <= SCHED_TIME_SLICE
  <2>1. cpu # "sched" /\ ~Unset
    BY <1>1 DEF Unset
  <2> QED
    BY <1>0, <2>1, TimeConstants DEF TimeInv, StampInv
<1>3. StampInv'
  <2>2. slice_age <= SCHED_TIME_SLICE + Late' /\ last_age <= SCHED_TIME_SLICE + Late'
    <3>1. PICK x, y, S, l \in Nat : /\ x = slice_age /\ y = last_age
                                   /\ S = SCHED_TIME_SLICE /\ l = Late'
      <4>1. Late' = MaxLag + lag \/ Late' = lag
        BY <1>0 DEF Late
      <4>2. Late' \in Nat
        BY <1>2, <4>1, TimeConstants
      <4> QED
        BY <1>2, <4>2, TimeConstants
    <3>2. x <= S /\ y <= S
      <4>1. x + timer <= S /\ y + timer <= S /\ timer \in Nat
        BY <1>2, <3>1
      <4> QED
        BY <4>1
    <3>3. x <= S + l /\ y <= S + l
      BY <3>2
    <3> QED
      BY <3>1, <3>3
  <2>3. timer \in 0..SCHED_TIME_SLICE /\ lag \in 0..MaxLag
    BY <1>2, TimeConstants
  <2> QED
    BY <1>0, <1>2, <2>2, <2>3 DEF StampInv
<1>4. Limit' = Limit
  BY <1>0 DEF Limit
<1>5. CASE ~Serving({"WAIT_FOR_CLOCK"})
  <2>1. UNCHANGED <<elapsed_time, waited, last_age>> /\ ClockStays
    BY <1>0, <1>1, <1>5 DEF Work, Parking
  <2>2. ClockSorted'
    BY <2>1, OrderStays DEF TimeInv, WaitInv
  <2>3. WaitInv'
    BY <1>4, <2>1, <2>2, ChargesStay DEF TimeInv, ClockStays
  <2> QED
    BY <1>3, <2>3 DEF TimeInv
<1>6. CASE Serving({"WAIT_FOR_CLOCK"})
  <2>1. PICK p : p = Sender
    OBVIOUS
  <2>2. /\ ClockJoins(p)
        /\ elapsed_time' = [elapsed_time EXCEPT ![p] = 0]
        /\ waited' = [waited EXCEPT ![p] = 0]
    BY <1>1, <1>6, <2>1 DEF Work, Parking
  <2>3. /\ elapsed_time \in [Tcb -> Times] /\ waited \in [Tcb -> Nat]
        /\ \A t \in Waiters : t \in Tcb /\ Charged(t)
        /\ ClockSorted /\ p \in Tcb \ Waiters
        /\ 0 \in Times /\ \A n \in Times : n \in Nat
    BY <2>2, WaitersTcb, TimeConstants DEF TimeInv, WaitInv, ClockJoins, Times
  <2>4. /\ elapsed_time' \in [Tcb -> Times] /\ waited' \in [Tcb -> Nat]
        /\ elapsed_time'[p] = 0 /\ waited'[p] = 0
        /\ \A t \in Waiters : elapsed_time'[t] = elapsed_time[t] /\ waited'[t] = waited[t]
    BY <2>2, <2>3
  <2>5. \A t \in Waiters' : Charged(t)'
    <3>1. ASSUME NEW t \in Waiters PROVE Charged(t)'
      BY <1>0, <1>4, <2>3, <2>4, <3>1 DEF Charged
    <3>2. Charged(p)'
      <4>1. Limit' = SCHED_PSEUDO_CLOCK
        BY <1>0, <1>2 DEF Limit
      <4> QED
        BY <1>0, <1>2, <2>4, <4>1, TimeConstants DEF Charged
    <3> QED
      BY <2>2, <3>1, <3>2 DEF ClockJoins
  <2>6. ClockSorted'
    <3>1. ASSUME NEW t \in Waiters', sched'.next[t] \in Tcb
          PROVE  elapsed_time'[t] >= elapsed_time'[sched'.next[t]]
      <4>1. t # p
        BY <2>2, <3>1, ClockFacts DEF ClockJoins
      <4>2. t \in Waiters
        BY <2>2, <3>1, <4>1 DEF ClockJoins
      <4>3. CASE sched.next[t] = clock
        <5>1. sched'.next[t] = p
          BY <2>2, <4>2, <4>3 DEF ClockJoins
        <5> QED
          BY <2>3, <2>4, <4>2, <5>1
      <4>4. CASE sched.next[t] # clock
        <5>1. sched'.next[t] = sched.next[t]
          BY <2>2, <4>2, <4>4 DEF ClockJoins
        <5>2. sched.next[t] \in Waiters
          <6>1. PICK on : RingInv(on)
            BY DEF Placed
          <6> QED
            BY <4>2, <4>4, <6>1, WaitersAre
        <5>3. elapsed_time[t] >= elapsed_time[sched.next[t]]
          BY <2>3, <4>2, <5>2 DEF ClockSorted
        <5> QED
          BY <2>4, <4>2, <5>1, <5>2, <5>3
      <4> QED
        BY <4>3, <4>4
    <3> QED
      BY <3>1 DEF ClockSorted
  <2>7. WaitInv'
    BY <2>4, <2>5, <2>6 DEF WaitInv
  <2> QED
    BY <1>3, <2>7 DEF TimeInv
<1> QED
  BY <1>5, <1>6

\* An interrupt lets no time pass, and leaves the queue of the clock alone.
LEMMA HandlerTime ==
  ASSUME TimeInv, Peaceful, Calm, Placed, TypeOK', timer_handler \/ device_handler
  PROVE  TimeInv'
<1>1. /\ SliceOver \/ Tick \/ \E d \in Devices : DeviceInterrupt(d)
      /\ lag' = 0
      /\ UNCHANGED <<slice_age, last_age, timer, elapsed_time, waited, stage>>
  BY DEF timer_handler, device_handler, stamps
<1>2. cpu \in {"run", "idle"} /\ cpu' = "sched"
  BY <1>1 DEF SliceOver, Tick, DeviceInterrupt, Interruptible, Reschedule
<1>3. ClockStays
  <2>1. PICK on : RingInv(on)
    BY DEF Placed
  <2>2. sched' \in SchedType
    BY DEF TypeOK
  <2>3. Keeps(sched, sched', on)
    BY <1>1, <2>1, NucleusKeeps
  <2> QED
    BY <2>1, <2>2, <2>3, StaysInPlace
<1>4. /\ slice_age \in Nat /\ last_age \in Nat /\ timer \in Nat /\ lag \in Nat
      /\ timer \in 0..SCHED_TIME_SLICE /\ lag <= MaxLag /\ stage = "enter"
      /\ slice_age <= SCHED_TIME_SLICE + lag /\ last_age <= SCHED_TIME_SLICE + lag
      /\ timer > 0 => /\ slice_age + timer <= SCHED_TIME_SLICE
                      /\ last_age + timer <= SCHED_TIME_SLICE
  <2>1. cpu # "sched" /\ ~Unset /\ Late = lag
    BY <1>2 DEF Unset, Late
  <2> QED
    BY <2>1, TimeConstants DEF TimeInv, StampInv
<1>5. StampInv'
  <2>1. Late' = MaxLag
    BY <1>1, <1>2, TimeConstants DEF Late
  <2>2. slice_age <= SCHED_TIME_SLICE + MaxLag /\ last_age <= SCHED_TIME_SLICE + MaxLag
    BY <1>4, TimeConstants
  <2>3. 0 \in 0..MaxLag
    BY TimeConstants
  <2> QED
    BY <1>1, <1>2, <1>4, <2>1, <2>2, <2>3 DEF StampInv
<1>6. WaitInv'
  <2>1. ClockSorted'
    BY <1>1, <1>3, OrderStays DEF TimeInv, WaitInv
  <2>2. Limit' = Limit
    BY <1>1 DEF Limit
  <2> QED
    BY <1>1, <1>3, <2>1, <2>2, ChargesStay DEF TimeInv, ClockStays
<1> QED
  BY <1>5, <1>6 DEF TimeInv

\* The scheduler charges the waiters with the time since it ran last.
LEMMA SetNextTime ==
  ASSUME TimeInv, Calm, Placed, set_next_timer
  PROVE  TimeInv'
<1>0. PICK on : RingInv(on)
  BY DEF Placed
<1>1. /\ cpu = "sched" /\ stage = "enter" /\ last_age' = 0 /\ lag' = lag
      /\ UNCHANGED <<sched, cpu, waited>>
      /\ slice_age' = IF time_until_slice <= 0 THEN 0 ELSE slice_age
      /\ elapsed_time' = [t \in Tcb |-> IF t \in Waiters THEN Unsigned(elapsed_time[t] + last_age)
                                        ELSE elapsed_time[t]]
      /\ stage' = IF list_empty(sched, clock) THEN "set" ELSE "clock"
      /\ timer' = IF ~list_empty(sched, clock) THEN timer
                  ELSE IF time_until_slice <= 0 THEN SCHED_TIME_SLICE ELSE time_until_slice
  BY DEF set_next_timer, Stamped, vars
<1>2. Waiters' = Waiters /\ Waiters \subseteq Tcb
  BY <1>1, WaitersTcb DEF Waiters, clock
<1>3. /\ slice_age \in Nat /\ last_age \in Nat /\ timer \in Nat /\ lag \in 0..MaxLag
      /\ timer <= SCHED_TIME_SLICE
      /\ last_age <= SCHED_TIME_SLICE + 2 * MaxLag
      /\ time_until_slice = SCHED_TIME_SLICE - slice_age
      /\ elapsed_time \in [Tcb -> Times] /\ waited \in [Tcb -> Nat]
      /\ \A t \in Waiters : Charged(t)
      /\ ClockSorted
  BY Ranges, TimeConstants DEF TimeInv, StampInv, WaitInv
<1>4. /\ list_empty(sched, clock) => Waiters = {}
      /\ ~list_empty(sched, clock) => Waiters # {}
  BY <1>0, <1>3, HeadOldest
<1>5. StampInv'
  <2>1. /\ slice_age' \in Nat /\ slice_age' < SCHED_TIME_SLICE
        /\ time_until_slice <= 0 => slice_age' = 0
        /\ ~(time_until_slice <= 0) => slice_age' = slice_age
    BY <1>1, <1>3, TimeConstants
  <2>2. CASE list_empty(sched, clock)
    <3>1. timer' = SCHED_TIME_SLICE - slice_age'
      BY <1>1, <1>3, <2>1, <2>2, TimeConstants
    <3>2. /\ timer' \in 0..SCHED_TIME_SLICE /\ slice_age' + timer' <= SCHED_TIME_SLICE
          /\ last_age' + timer' <= SCHED_TIME_SLICE
      <4>1. PICK S, x \in Nat : S = SCHED_TIME_SLICE /\ x = slice_age' /\ x < S
        BY <2>1, TimeConstants
      <4>2. x < S
        BY <4>1
      <4>3. S - x \in 0..S /\ x + (S - x) <= S /\ 0 + (S - x) <= S
        BY <4>2
      <4>4. timer' = S - x /\ last_age' = 0
        BY <1>1, <3>1, <4>1
      <4> QED
        BY <4>1, <4>3, <4>4
    <3> QED
      BY <1>1, <1>3, <2>1, <2>2, <3>2, TimeConstants DEF StampInv, Late
  <2>3. CASE ~list_empty(sched, clock)
    <3>1. timer' = timer /\ ~Unset
      BY <1>1, <1>4, <2>3 DEF Unset
    <3>2. timer > 0 => slice_age + timer <= SCHED_TIME_SLICE
      BY <3>1 DEF TimeInv, StampInv
    <3>3. /\ timer' \in 0..SCHED_TIME_SLICE /\ timer' > 0 => slice_age' + timer' <= SCHED_TIME_SLICE
          /\ last_age' + timer' <= SCHED_TIME_SLICE
      BY <1>1, <1>3, <2>1, <3>1, <3>2, TimeConstants
    <3> QED
      BY <1>1, <1>3, <2>1, <2>3, <3>3, TimeConstants DEF StampInv, Late
  <2> QED
    BY <2>2, <2>3
<1>6. \A t \in Waiters : /\ elapsed_time[t] \in Nat /\ waited[t] \in Nat
                         /\ waited[t] <= elapsed_time[t] + last_age
                         /\ elapsed_time[t] + last_age <= waited[t] + SCHED_TIME_SLICE
                         /\ elapsed_time[t] < SCHED_PSEUDO_CLOCK
  BY <1>1, <1>2, <1>3, Ranges DEF Charged, Limit
<1>7. \A t \in Waiters : /\ elapsed_time'[t] = elapsed_time[t] + last_age
                         /\ elapsed_time[t] + last_age \in Times
                         /\ elapsed_time[t] + last_age
                              < SCHED_PSEUDO_CLOCK + SCHED_TIME_SLICE + 2 * MaxLag
  <2> SUFFICES ASSUME NEW t \in Waiters
               PROVE  /\ elapsed_time'[t] = elapsed_time[t] + last_age
                      /\ elapsed_time[t] + last_age \in Times
                      /\ elapsed_time[t] + last_age
                           < SCHED_PSEUDO_CLOCK + SCHED_TIME_SLICE + 2 * MaxLag
    OBVIOUS
  <2>1. elapsed_time[t] + last_age \in Nat
    BY <1>3, <1>6
  <2>2. /\ elapsed_time[t] + last_age < SCHED_PSEUDO_CLOCK + SCHED_TIME_SLICE + 2 * MaxLag
        /\ elapsed_time[t] + last_age < Width
    BY <1>3, <1>6, TimeConstants
  <2>3. Unsigned(elapsed_time[t] + last_age) = elapsed_time[t] + last_age
    BY <2>1, <2>2, Short
  <2> QED
    BY <1>1, <1>2, <2>1, <2>2, <2>3, TimeConstants DEF Times
<1>8. \A t \in Tcb \ Waiters : elapsed_time'[t] = elapsed_time[t]
  BY <1>1
<1>9. elapsed_time' \in [Tcb -> Times]
  <2>1. \A t \in Tcb : elapsed_time'[t] \in Times
    BY <1>2, <1>3, <1>7, <1>8
  <2>2. elapsed_time' = [t \in Tcb |-> elapsed_time'[t]]
    BY <1>1
  <2> QED
    BY <2>1, <2>2
<1>10. ASSUME NEW t \in Waiters PROVE Charged(t)'
  <2>1. stage' = "clock"
    BY <1>1, <1>4, <1>10
  <2>2. Limit' = SCHED_PSEUDO_CLOCK + SCHED_TIME_SLICE + 2 * MaxLag
    BY <2>1 DEF Limit
  <2>3. elapsed_time'[t] \in Nat /\ elapsed_time'[t] + last_age' = elapsed_time[t] + last_age
    <3>1. PICK e, a \in Nat : e = elapsed_time[t] /\ a = last_age
      BY <1>3, <1>6, <1>10
    <3>2. elapsed_time'[t] = e + a /\ last_age' = 0
      BY <1>1, <1>7, <1>10, <3>1
    <3>3. e + a \in Nat /\ (e + a) + 0 = e + a
      OBVIOUS
    <3> QED
      BY <3>1, <3>2, <3>3
  <2> QED
    BY <1>1, <1>6, <1>7, <1>10, <2>2, <2>3 DEF Charged
<1>11. ClockSorted'
  <2> SUFFICES ASSUME NEW t \in Waiters, sched.next[t] \in Tcb
               PROVE  elapsed_time'[t] >= elapsed_time'[sched.next[t]]
    BY <1>1, <1>2 DEF ClockSorted
  <2>1. sched.next[t] \in Waiters
    BY <1>0, WaitersAre, ClockFacts
  <2>2. elapsed_time[t] >= elapsed_time[sched.next[t]]
    BY <1>3 DEF ClockSorted
  <2> QED
    BY <1>3, <1>6, <1>7, <2>1, <2>2
<1> QED
  BY <1>1, <1>2, <1>3, <1>5, <1>9, <1>10, <1>11 DEF TimeInv, WaitInv

\* The loop of set_pseudo_clock takes the head of the queue.
LEMMA WakeTime ==
  ASSUME TimeInv, Peaceful, Calm, Placed, WakeHead
  PROVE  TimeInv'
<1>1. /\ stage = "clock" /\ ClockExpire
      /\ UNCHANGED <<slice_age, last_age, timer, elapsed_time, waited, stage, lag>>
  BY DEF WakeHead, stamps
<1>2. PICK on : RingInv(on)
  BY DEF Placed
<1>3. ClockLeaves(sched.next[clock]) /\ cpu' = cpu
  BY <1>1, <1>2, LeavesQueue
<1>4. StampInv'
  <2>1. StampInv /\ ~Unset /\ Late' = Late
    BY <1>1, <1>3 DEF TimeInv, Unset, Late
  <2> QED
    BY <1>1, <1>3, <2>1 DEF StampInv
<1>5. ClockSorted'
  <2> SUFFICES ASSUME NEW t \in Waiters', sched'.next[t] \in Tcb
               PROVE  elapsed_time'[t] >= elapsed_time'[sched'.next[t]]
    BY DEF ClockSorted
  <2>1. t \in Waiters /\ sched'.next[t] = sched.next[t]
    BY <1>3 DEF ClockLeaves
  <2>2. elapsed_time[t] >= elapsed_time[sched.next[t]]
    BY <2>1 DEF TimeInv, WaitInv, ClockSorted
  <2> QED
    BY <1>1, <2>1, <2>2
<1>6. WaitInv'
  <2>1. Waiters' \subseteq Waiters
    BY <1>3 DEF ClockLeaves
  <2>2. Limit' = Limit
    BY <1>1 DEF Limit
  <2> QED
    BY <1>1, <1>5, <2>1, <2>2, ChargesStay DEF TimeInv
<1> QED
  BY <1>4, <1>6 DEF TimeInv

\* When the head is not due nobody is; then the timer is set, or goes on.
LEMMA SetTime ==
  ASSUME TimeInv, Calm, Placed, SetTimer
  PROVE  TimeInv'
<1>0. PICK on : RingInv(on)
  BY DEF Placed
<1>1. /\ cpu = "sched" /\ stage = "clock" /\ ~HeadDue /\ stage' = "set"
      /\ timer' = time_until_slice \/ timer' = timer
      /\ UNCHANGED <<sched, cpu, slice_age, last_age, elapsed_time, waited, lag>>
  BY DEF SetTimer, vars
<1>2. Waiters' = Waiters
  BY <1>1 DEF Waiters, clock
<1>3. /\ slice_age \in Nat /\ slice_age < SCHED_TIME_SLICE /\ last_age = 0
      /\ time_until_slice = SCHED_TIME_SLICE - slice_age
      /\ timer \in 0..SCHED_TIME_SLICE
      /\ timer > 0 => slice_age + timer <= SCHED_TIME_SLICE
  <2>1. ~Unset
    BY <1>1 DEF Unset
  <2> QED
    BY <1>1, <2>1, Ranges DEF TimeInv, StampInv
<1>4. StampInv'
  <2>1. /\ timer' \in 0..SCHED_TIME_SLICE /\ last_age' + timer' <= SCHED_TIME_SLICE
        /\ timer' > 0 => slice_age' + timer' <= SCHED_TIME_SLICE
    <3>1. PICK S, x \in Nat : S = SCHED_TIME_SLICE /\ x = slice_age
      BY <1>3, TimeConstants
    <3>2. x < S
      BY <1>3, <3>1
    <3>3. S - x \in 0..S /\ x + (S - x) <= S
      BY <3>2
    <3>4. timer' = S - x \/ timer' = timer
      BY <1>1, <1>3, <3>1
    <3>5. timer' \in 0..S
      BY <1>3, <3>1, <3>3, <3>4
    <3>6. 0 + timer' <= S
      <4>1. PICK r \in Int : r = timer' /\ r <= S
        BY <3>5
      <4>2. r <= S
        BY <4>1
      <4>3. 0 + r <= S
        BY <4>2
      <4> QED
        BY <4>1, <4>3
    <3>7. timer' > 0 => x + timer' <= S
      BY <1>3, <3>1, <3>3, <3>4
    <3> QED
      BY <1>1, <1>3, <3>1, <3>5, <3>6, <3>7
  <2>2. Late' = Late
    BY <1>1 DEF Late
  <2>3. StampInv
    BY DEF TimeInv
  <2> QED
    BY <1>1, <1>3, <2>1, <2>2, <2>3 DEF StampInv
<1>5. /\ elapsed_time \in [Tcb -> Times] /\ waited \in [Tcb -> Nat]
      /\ \A t \in Waiters : Charged(t)
      /\ ClockSorted
  BY DEF TimeInv, WaitInv
<1>6. \A t \in Waiters : elapsed_time[t] < SCHED_PSEUDO_CLOCK
  <2>1. /\ list_empty(sched, clock) => Waiters = {}
        /\ ~list_empty(sched, clock) => sched.next[clock] \in Waiters
        /\ \A t \in Waiters : elapsed_time[t] <= elapsed_time[sched.next[clock]]
    BY <1>0, <1>5, HeadOldest
  <2>2. ASSUME NEW t \in Waiters PROVE elapsed_time[t] < SCHED_PSEUDO_CLOCK
    <3>1. ~list_empty(sched, clock) /\ sched.next[clock] \in Tcb
      BY <2>1, <2>2, WaitersTcb
    <3>2. ~(elapsed_time[sched.next[clock]] >= SCHED_PSEUDO_CLOCK)
      BY <1>1, <3>1 DEF HeadDue, thread_qhead
    <3>3. t \in Tcb
      BY <2>2, WaitersTcb
    <3>4. PICK a, b, c \in Nat : /\ a = elapsed_time[t] /\ b = elapsed_time[sched.next[clock]]
                                 /\ c = SCHED_PSEUDO_CLOCK
      BY <3>1, <3>3, Ranges, TimeConstants
    <3>5. a <= b /\ ~(b >= c)
      BY <2>1, <2>2, <3>2, <3>4
    <3>6. a < c
      BY <3>5
    <3> QED
      BY <3>4, <3>6
  <2> QED
    BY <2>2
<1>7. \A t \in Waiters : Charged(t)'
  <2>1. Limit' = SCHED_PSEUDO_CLOCK
    BY <1>1 DEF Limit
  <2> QED
    BY <1>1, <1>5, <1>6, <2>1 DEF Charged
<1>8. ClockSorted'
  BY <1>1, <1>2, <1>5 DEF ClockSorted
<1> QED
  BY <1>1, <1>2, <1>4, <1>5, <1>7, <1>8 DEF TimeInv, WaitInv

\* The rest of scheduler() leaves the times and the waiters alone.
LEMMA ScheduleTime ==
  ASSUME TimeInv, Peaceful, Calm, Placed, TypeOK', Schedule
  PROVE  TimeInv'
<1>1. /\ stage = "set" /\ stage' = "enter" /\ lag' = 0
      /\ Halt \/ Panic \/ Wait \/ FallThrough \/ Resume \/ Dispatch
      /\ UNCHANGED <<slice_age, last_age, timer, elapsed_time, waited>>
  BY DEF Schedule, stamps
<1>2. ClockStays
  <2>1. PICK on : RingInv(on)
    BY DEF Placed
  <2>2. sched' \in SchedType
    BY DEF TypeOK
  <2>3. Keeps(sched, sched', on)
    BY <1>1, <2>1, NucleusKeeps
  <2> QED
    BY <2>1, <2>2, <2>3, StaysInPlace
<1>3. /\ slice_age \in Nat /\ slice_age < SCHED_TIME_SLICE /\ last_age = 0
      /\ timer \in 0..SCHED_TIME_SLICE
      /\ timer > 0 => /\ slice_age + timer <= SCHED_TIME_SLICE
                      /\ last_age + timer <= SCHED_TIME_SLICE
  <2>1. ~Unset
    BY <1>1 DEF Unset
  <2> QED
    BY <1>1, <2>1 DEF TimeInv, StampInv
<1>4. StampInv'
  <2>1. slice_age <= SCHED_TIME_SLICE + Late' /\ last_age <= SCHED_TIME_SLICE + Late'
    <3>1. Late' \in Nat
      BY <1>1, TimeConstants DEF Late
    <3>2. PICK x, S, l \in Nat : x = slice_age /\ S = SCHED_TIME_SLICE /\ l = Late'
      BY <1>3, <3>1, TimeConstants
    <3>3. x < S
      BY <1>3, <3>2
    <3>4. x <= S + l /\ 0 <= S + l
      BY <3>3
    <3> QED
      BY <1>3, <3>2, <3>4
  <2>2. 0 \in 0..MaxLag /\ last_age \in Nat
    BY <1>3, TimeConstants
  <2> QED
    BY <1>1, <1>3, <2>1, <2>2 DEF StampInv
<1>5. WaitInv'
  <2>1. ClockSorted'
    BY <1>1, <1>2, OrderStays DEF TimeInv, WaitInv
  <2>2. Limit' = Limit
    BY <1>1 DEF Limit
  <2> QED
    BY <1>1, <1>2, <2>1, <2>2, ChargesStay DEF TimeInv, ClockStays
<1> QED
  BY <1>4, <1>5 DEF TimeInv

\* Every step, and the steps of others.
LEMMA TimeStep ==
  ASSUME TimeInv, Peaceful, Calm, Placed, TypeOK', [TNext]_tvars
  PROVE  TimeInv'
<1>1. CASE Elapse
  BY <1>1, ElapseTime
<1>2. CASE Work
  BY <1>2, WorkTime
<1>3. CASE timer_handler \/ device_handler
  BY <1>3, HandlerTime
<1>4. CASE set_next_timer
  BY <1>4, SetNextTime
<1>5. CASE WakeHead
  BY <1>5, WakeTime
<1>6. CASE SetTimer
  BY <1>6, SetTime
<1>7. CASE Schedule
  BY <1>7, ScheduleTime
<1>8. CASE UNCHANGED tvars
  <2>1. UNCHANGED <<sched, cpu, slice_age, last_age, timer, elapsed_time, waited, stage, lag>>
    BY <1>8 DEF tvars, vars, stamps
  <2>2. Waiters' = Waiters
    BY <2>1 DEF Waiters, clock
  <2> QED
    BY <2>1, <2>2 DEF TimeInv, StampInv, WaitInv, Late, Unset, Limit, Charged, ClockSorted
<1> QED
  BY <1>1, <1>2, <1>3, <1>4, <1>5, <1>6, <1>7, <1>8 DEF TNext

(*------------------------- the initial state ---------------------------*)

\* At the start both threads are in the ready queue.
LEMMA TInitTime ==
  ASSUME TInit, Calm, Placed
  PROVE  TimeInv
<1>0. PICK on : RingInv(on)
  BY DEF Placed
<1>1. /\ slice_age \in 0..SCHED_TIME_SLICE /\ last_age = slice_age
      /\ timer = SCHED_TIME_SLICE /\ stage = "enter" /\ lag = 0 /\ cpu = "sched"
      /\ elapsed_time = [t \in Tcb |-> 0] /\ waited = [t \in Tcb |-> 0]
      /\ sched = thread_enqueue(thread_enqueue(Alone, SSI, "ready_queue"),
                                test_thread, "ready_queue")
  BY DEF TInit, Init
<1>2. /\ elapsed_time \in [Tcb -> Times] /\ waited \in [Tcb -> Nat]
      /\ \A t \in Tcb : elapsed_time[t] = 0 /\ waited[t] = 0
  BY <1>1, TimeConstants DEF Times
<1>3. ClockSorted
  <2>1. \A t \in Tcb : \A u \in Tcb : elapsed_time[t] >= elapsed_time[u]
    BY <1>2
  <2> QED
    BY <2>1, WaitersTcb DEF ClockSorted
<1>4. Waiters = {}
  <2>1. sched.next[clock] = clock
    <3>1. /\ SSI \in Tcb /\ test_thread \in Tcb /\ Tcb \subseteq Node
          /\ "ready_queue" \in Node /\ clock \in Node
          /\ "ready_queue" # clock /\ clock \notin Tcb
      BY ClockFacts, NodeFacts, StoreAssumption DEF Heads
    <3> DEFINE one == thread_enqueue(Alone, SSI, "ready_queue")
    <3>2. /\ \A n \in Node : Alone.next[n] = n /\ Alone.prev[n] = n
          /\ DOMAIN Alone.next = Node /\ DOMAIN Alone.prev = Node
      BY DEF Alone
    <3>3. one.next[clock] = clock /\ one.prev["ready_queue"] = SSI /\ DOMAIN one.next = Node
      BY <3>1, <3>2 DEF thread_enqueue, list_add_tail, list_add_between, Alone
    <3> HIDE DEF one
    <3>4. sched = thread_enqueue(one, test_thread, "ready_queue")
      BY <1>1 DEF one
    <3> QED
      BY <3>1, <3>3, <3>4 DEF thread_enqueue, list_add_tail, list_add_between
  <2> QED
    BY <1>0, <1>2, <1>3, <2>1, HeadOldest DEF list_empty
<1>5. StampInv
  <2>1. Unset
    BY <1>1, <1>4 DEF Unset
  <2>2. Late = MaxLag
    BY <1>1, TimeConstants DEF Late
  <2> QED
    BY <1>1, <2>1, <2>2, TimeConstants DEF StampInv
<1> QED
  BY <1>2, <1>3, <1>4, <1>5 DEF TimeInv, WaitInv

\* A step of the timer's specification is a step of the nucleus, or none.
LEMMA TStepNext ==
  ASSUME [TNext]_tvars
  PROVE  [Next]_vars
BY DEF TNext, tvars, Elapse, Work, timer_handler, device_handler, set_next_timer,
       WakeHead, SetTimer, Schedule, Next, InterruptsNext, SchedulerNext

\* The nucleus with its time is a nucleus: the timer and the stamps of
\* scheduler.c only choose between the steps that Nucleus allows, and what is
\* proved of those holds with the time.
THEOREM TimedNucleus == TSpec => Spec
<1>1. TInit => Init
  BY DEF TInit
<1>2. [TNext]_tvars => [Next]_vars
  BY TStepNext
<1> QED
  BY <1>1, <1>2, PTL DEF TSpec, Spec

LEMMA TimeInductive ==
  ASSUME Peaceful
  PROVE  TSpec => [](TimeInv /\ Calm /\ Placed)
<1>1. TInit /\ Calm /\ Placed => TimeInv
  BY TInitTime
<1>2. TimeInv /\ Calm /\ Placed /\ TypeOK' /\ [TNext]_tvars => TimeInv'
  BY TimeStep
<1>3. Spec => []TypeOK
  BY TypeCorrect
<1> QED
  BY <1>1, <1>2, <1>3, TimedNucleus, PlacedInductive, PTL DEF TSpec

\* What is charged to a waiter, with what will be, is less than the width; and
\* the head of the queue, the only one whose remaining time is computed, is
\* a waiter.
LEMMA TimesTrue ==
  ASSUME TimeInv, Calm, Placed
  PROVE  TimesExact
<1>0. /\ slice_age \in Nat /\ slice_age <= SCHED_TIME_SLICE + 2 * MaxLag
      /\ last_age \in Nat /\ last_age <= SCHED_TIME_SLICE + 2 * MaxLag
      /\ time_until_slice = SCHED_TIME_SLICE - slice_age
  BY Ranges DEF TimeInv, StampInv
<1>1. slice_age < Width - 1 /\ last_age < Width - 1
  BY <1>0, TimeConstants
<1>2. ASSUME NEW t \in Waiters
      PROVE  /\ elapsed_time[t] \in Nat /\ elapsed_time[t] + last_age < Width
             /\ elapsed_time[t] < SCHED_PSEUDO_CLOCK + SCHED_TIME_SLICE + 2 * MaxLag
  <2>1. elapsed_time[t] \in Nat /\ elapsed_time[t] < Limit
    BY Ranges, WaitersTcb DEF TimeInv, WaitInv, Charged
  <2>2. Limit <= SCHED_PSEUDO_CLOCK + SCHED_TIME_SLICE + 2 * MaxLag /\ Limit \in Nat
    BY TimeConstants DEF Limit
  <2>3. elapsed_time[t] < SCHED_PSEUDO_CLOCK + SCHED_TIME_SLICE + 2 * MaxLag
    BY <2>1, <2>2, TimeConstants
  <2> QED
    BY <1>0, <2>1, <2>3, TimeConstants
<1>3. ~list_empty(sched, clock) =>
        time_until_clock = SCHED_PSEUDO_CLOCK - elapsed_time[thread_qhead(sched, clock)]
  <2> SUFFICES ASSUME ~list_empty(sched, clock)
               PROVE  time_until_clock
                        = SCHED_PSEUDO_CLOCK - elapsed_time[thread_qhead(sched, clock)]
    OBVIOUS
  <2>1. PICK t : t = thread_qhead(sched, clock)
    OBVIOUS
  <2>2. t \in Waiters /\ t \in Tcb
    <3>1. PICK on : RingInv(on)
      BY DEF Placed
    <3>2. sched.next[clock] \in Waiters
      BY <3>1, HeadOldest DEF TimeInv, WaitInv
    <3> QED
      BY <2>1, <3>2, WaitersTcb DEF thread_qhead
  <2>3. PICK n \in Int : n = SCHED_PSEUDO_CLOCK - elapsed_time[t]
    BY <1>2, <2>2, TimeConstants
  <2>4. 2 * n < Width /\ -(2 * n) < Width
    BY <1>2, <2>2, <2>3, TimeConstants
  <2>5. Signed(n) = n
    BY <2>4, SignedShort
  <2> QED
    BY <2>1, <2>2, <2>3, <2>5 DEF time_until_clock
<1> QED
  BY <1>0, <1>1, <1>2, <1>3 DEF TimesExact

(*------------------------------- theorems ------------------------------*)

\* The stamps of scheduler.c, the timer and the times of the threads have their
\* types, no stamp comes round, and the remaining times that set_next_timer and
\* set_pseudo_clock put into ints are the true ones, late or not.
THEOREM TimesSound ==
  ASSUME Peaceful
  PROVE  TSpec => [](TimeTypeOK /\ TimesExact)
<1>1. TimeInv => TimeTypeOK
  <2> SUFFICES ASSUME TimeInv PROVE TimeTypeOK
    OBVIOUS
  <2> QED
    BY Ranges DEF TimeInv, StampInv, WaitInv, TimeTypeOK
<1>2. TimeInv /\ Calm /\ Placed => TimesExact
  BY TimesTrue
<1> QED
  BY <1>1, <1>2, TimeInductive, PTL

\* The queue of the pseudo clock is in the order of the times waited, so the
\* loop of set_pseudo_clock may stop at the first head that is not due.
THEOREM ClockInOrder ==
  ASSUME Peaceful
  PROVE  TSpec => []ClockSorted
<1>1. TimeInv => ClockSorted
  BY DEF TimeInv, WaitInv
<1> QED
  BY <1>1, TimeInductive, PTL

\* Nobody waits for the clock longer than its period, a slice and twice the
\* time a handler takes.
THEOREM WaitsSound ==
  ASSUME Peaceful
  PROVE  TSpec => []WaitsBounded
<1>1. TimeInv => WaitsBounded
  <2> SUFFICES ASSUME TimeInv, NEW t \in Waiters
               PROVE  waited[t] <= SCHED_PSEUDO_CLOCK + SCHED_TIME_SLICE + 2 * MaxLag
    BY DEF WaitsBounded
  <2>1. /\ Charged(t) /\ elapsed_time[t] \in Nat /\ waited[t] \in Nat
        /\ last_age \in Nat /\ last_age <= SCHED_TIME_SLICE + 2 * MaxLag
        /\ stage = "clock" => last_age = 0
    BY Ranges, WaitersTcb DEF TimeInv, StampInv, WaitInv
  <2>2. CASE stage = "clock"
    BY <2>1, <2>2, TimeConstants DEF Charged, Limit
  <2>3. CASE stage # "clock"
    BY <2>1, <2>3, TimeConstants DEF Charged, Limit
  <2> QED
    BY <2>2, <2>3
<1> QED
  BY <1>1, TimeInductive, PTL

\* Only the loop of set_pseudo_clock takes a thread out of the queue.
LEMMA OnlyExpiry ==
  ASSUME Peaceful, Calm, Placed, TypeOK', [TNext]_tvars, ~WakeHead
  PROVE  Waiters \subseteq Waiters'
<1>0. PICK on : RingInv(on)
  BY DEF Placed
<1>1. CASE Work
  <2>1. ClockStays \/ ClockJoins(Sender)
    BY <1>1, WorkClock DEF Work
  <2> QED
    BY <2>1 DEF ClockStays, ClockJoins
<1>2. CASE timer_handler \/ device_handler \/ Schedule
  <2>1. \/ SliceOver \/ Tick \/ \E d \in Devices : DeviceInterrupt(d)
        \/ Halt \/ Panic \/ Wait \/ FallThrough \/ Resume \/ Dispatch
    BY <1>2 DEF timer_handler, device_handler, Schedule
  <2>2. sched' \in SchedType
    BY DEF TypeOK
  <2>3. Keeps(sched, sched', on)
    BY <1>0, <2>1, NucleusKeeps
  <2> QED
    BY <1>0, <2>2, <2>3, StaysInPlace DEF ClockStays
<1>3. CASE Elapse \/ set_next_timer \/ SetTimer \/ UNCHANGED tvars
  <2>1. sched' = sched
    BY <1>3 DEF Elapse, set_next_timer, SetTimer, vars, tvars
  <2> QED
    BY <2>1 DEF Waiters, clock
<1> QED
  BY <1>1, <1>2, <1>3 DEF TNext

\* A thread is not taken off the clock before it has waited for the period
\* less a slice: what is charged to it is at most a slice too much.
THEOREM WaitsHonoured ==
  ASSUME Peaceful
  PROVE  TSpec => WaitsLongEnough
<1>1. TimeInv /\ Calm /\ Placed /\ TypeOK' /\ [TNext]_tvars =>
        \A t \in Waiters \ Waiters' : waited[t] >= SCHED_PSEUDO_CLOCK - SCHED_TIME_SLICE
  <2> SUFFICES ASSUME TimeInv, Calm, Placed, TypeOK', [TNext]_tvars, NEW t \in Waiters \ Waiters'
               PROVE  waited[t] >= SCHED_PSEUDO_CLOCK - SCHED_TIME_SLICE
    OBVIOUS
  <2>1. WakeHead
    BY OnlyExpiry
  <2>2. PICK on : RingInv(on)
    BY DEF Placed
  <2>3. t = sched.next[clock]
    <3>1. ClockLeaves(sched.next[clock])
      BY <2>1, <2>2, LeavesQueue DEF WakeHead
    <3> QED
      BY <3>1 DEF ClockLeaves
  <2>4. elapsed_time[t] >= SCHED_PSEUDO_CLOCK /\ last_age = 0
    BY <2>1, <2>3 DEF WakeHead, HeadDue, thread_qhead, TimeInv, StampInv
  <2>5. Charged(t) /\ t \in Tcb
    BY WaitersTcb DEF TimeInv, WaitInv
  <2>6. PICK e, w, S, C \in Int : /\ e = elapsed_time[t] /\ w = waited[t]
                                  /\ S = SCHED_TIME_SLICE /\ C = SCHED_PSEUDO_CLOCK
    BY <2>5, Ranges, TimeConstants
  <2>7. e >= C /\ e + 0 <= w + S
    BY <2>4, <2>5, <2>6 DEF Charged
  <2>8. w >= C - S
    BY <2>7
  <2> QED
    BY <2>6, <2>8
<1>2. Spec => []TypeOK
  BY TypeCorrect
<1> QED
  BY <1>1, <1>2, TimedNucleus, TimeInductive, PTL DEF TSpec, WaitsLongEnough
==============================================================================
