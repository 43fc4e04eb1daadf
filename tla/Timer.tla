-------------------------------- MODULE Timer --------------------------------
(***************************************************************************)
(* The time of scheduler.c and interrupts.c: the slices, the pseudo clock  *)
(* and the interval timer.  Every step is a step of the nucleus, taken     *)
(* when the timer has it, or the passing of one unit of time.  The two     *)
(* time stamps of scheduler.c are used in differences from getTODLO()      *)
(* only, so their ages are kept; they are unsigned and wrap at 2^w.        *)
(***************************************************************************)
EXTENDS Nucleus

CONSTANTS
  SCHED_TIME_SLICE,
  SCHED_PSEUDO_CLOCK,
  Width,              \* 2^w, the range of cpu_t
  MaxLag              \* time a handler takes up to its reading of the clock

ASSUME TimeAssumption ==
  /\ SCHED_TIME_SLICE \in Nat \ {0} /\ SCHED_PSEUDO_CLOCK \in Nat /\ MaxLag \in Nat
  /\ Width \in Nat
  /\ SCHED_TIME_SLICE < SCHED_PSEUDO_CLOCK
  /\ Width > 2 * (SCHED_PSEUDO_CLOCK + 2 * (SCHED_TIME_SLICE + MaxLag))

VARIABLES
  slice_age,     \* getTODLO() - slice_TOD
  last_age,      \* getTODLO() - last_TOD
  timer,         \* what the timer has left to count; at 0 its interrupt is
                 \* pending, until the timer is written
  elapsed_time,
  waited,        \* the time a thread has really been on the clock's queue
  stage,         \* in the scheduler: "enter", "clock" (set_pseudo_clock), "set"
  lag            \* the time the nucleus has taken for the handler it is in

stamps == <<slice_age, last_age, timer>>
tvars  == <<vars, stamps, elapsed_time, waited, stage, lag>>

Times == 0..Width - 1

TInit ==
  /\ Init
  /\ slice_age \in 0..SCHED_TIME_SLICE /\ last_age = slice_age
  /\ timer = SCHED_TIME_SLICE
  /\ elapsed_time = [t \in Tcb |-> 0] /\ waited = [t \in Tcb |-> 0]
  /\ stage = "enter" /\ lag = 0

(*------------------------------ arithmetic -----------------------------*)

\* The value of an unsigned difference, and the int it is assigned to.
Unsigned(n) == n % Width
Signed(n)   == LET u == Unsigned(n) IN IF 2 * u >= Width THEN u - Width ELSE u

\* The difference is unsigned: `<= 0' is equality.
is_time_slice == Unsigned(SCHED_TIME_SLICE - slice_age) = 0

\* Mutant: the same difference taken as it is.
time_until_slice_unsigned == Unsigned(SCHED_TIME_SLICE - slice_age)

\* of set_next_timer, an int.
time_until_slice == Signed(SCHED_TIME_SLICE - slice_age)

\* of set_pseudo_clock.  When the queue has become empty the code reads
\* elapsed_time through a NULL thread: the status register of a disk that is
\* not there, a small number.
time_until_clock ==
  LET t == thread_qhead(sched, clock)
  IN  Signed(SCHED_PSEUDO_CLOCK - (IF t \in Tcb THEN elapsed_time[t] ELSE 0))

(*----------------------------- time passes -----------------------------*)

\* While threads run or the processor waits, until the timer's interrupt is
\* pending; then, and at the entry of the scheduler, what the code up to the
\* next reading of the clock takes.
Working == cpu \in {"run", "idle"} /\ timer > 0
Lagging ==
  /\ lag < MaxLag
  /\ \/ cpu \in {"run", "idle"} /\ timer = 0
     \/ cpu = "sched" /\ stage = "enter"

Elapse ==
  /\ Working \/ Lagging
  /\ lag' = IF Working THEN lag ELSE lag + 1
  /\ slice_age' = Unsigned(slice_age + 1)
  /\ last_age' = Unsigned(last_age + 1)
  /\ timer' = IF timer > 0 THEN timer - 1 ELSE 0
  /\ waited' = LET W == Waiters IN [t \in Tcb |-> IF t \in W THEN waited[t] + 1 ELSE 0]
  /\ UNCHANGED <<vars, elapsed_time, stage>>

(*------------------------ threads and interrupts -----------------------*)

\* Mutant: the time of an earlier wait is kept.
Parking_kept == UNCHANGED elapsed_time

\* ssi_waitforclock resets the time of the thread it parks.
Parking == elapsed_time' = IF Serving({"WAIT_FOR_CLOCK"})
                           THEN [elapsed_time EXCEPT ![Sender] = 0] ELSE elapsed_time

\* A thread makes its next step unless the timer's interrupt is pending.
Work ==
  /\ timer > 0
  /\ SsiNext \/ ExceptionsNext
  /\ Parking
  /\ waited' = IF Serving({"WAIT_FOR_CLOCK"}) THEN [waited EXCEPT ![Sender] = 0] ELSE waited
  /\ UNCHANGED <<stamps, stage, lag>>

\* int_handler looks at the timer first.
timer_handler ==
  /\ timer = 0
  /\ IF is_time_slice /\ current_thread # NULL THEN SliceOver ELSE Tick
  /\ lag' = 0
  /\ UNCHANGED <<stamps, elapsed_time, waited, stage>>

device_handler ==
  /\ timer > 0
  /\ \E d \in Devices : DeviceInterrupt(d)
  /\ lag' = 0
  /\ UNCHANGED <<stamps, elapsed_time, waited, stage>>

(*------------------------------ scheduler ------------------------------*)

\* Mutant: last_TOD is not written, and its interval charged again.
Stamped_missing == UNCHANGED last_age

\* last_TOD, of use before the time passes again.
Stamped == last_age' = 0

\* set_next_timer up to its call of set_pseudo_clock, and the first loop of
\* that: a new slice begins when the old one is over, and every waiter is
\* older by the time since the last scheduling.
set_next_timer ==
  /\ cpu = "sched" /\ stage = "enter"
  /\ slice_age' = IF time_until_slice <= 0 THEN 0 ELSE slice_age
  /\ Stamped
  /\ elapsed_time' = LET W == Waiters IN
       [t \in Tcb |-> IF t \in W THEN Unsigned(elapsed_time[t] + last_age) ELSE elapsed_time[t]]
  /\ stage' = IF list_empty(sched, clock) THEN "set" ELSE "clock"
  /\ timer' = IF ~list_empty(sched, clock) THEN timer
              ELSE IF time_until_slice <= 0 THEN SCHED_TIME_SLICE ELSE time_until_slice
  /\ UNCHANGED <<vars, waited, lag>>

HeadDue ==
  /\ ~list_empty(sched, clock)
  /\ elapsed_time[thread_qhead(sched, clock)] >= SCHED_PSEUDO_CLOCK

\* set_pseudo_clock: the head of the queue is woken when its time is over.
WakeHead ==
  /\ stage = "clock" /\ HeadDue
  /\ ClockExpire
  /\ UNCHANGED <<stamps, elapsed_time, waited, stage, lag>>

\* set_pseudo_clock at its end: the timer is written only when the slice
\* ends before the head's time.
SetTimer ==
  /\ cpu = "sched" /\ stage = "clock" /\ ~HeadDue
  /\ timer' = IF time_until_slice <= time_until_clock THEN time_until_slice ELSE timer
  /\ stage' = "set"
  /\ UNCHANGED <<vars, slice_age, last_age, elapsed_time, waited, lag>>

\* The rest of scheduler().
Schedule ==
  /\ stage = "set"
  /\ Halt \/ Panic \/ Wait \/ FallThrough \/ Resume \/ Dispatch
  /\ stage' = "enter" /\ lag' = 0
  /\ UNCHANGED <<stamps, elapsed_time, waited>>

TNext ==
  \/ Elapse \/ Work \/ timer_handler \/ device_handler
  \/ set_next_timer \/ WakeHead \/ SetTimer \/ Schedule
TSpec == TInit /\ [][TNext]_tvars

(***************************************************************************)
(* Fairness.  Time passes for ever, an interrupt that is pending while     *)
(* interrupts are enabled is taken, the scheduler runs on, and so do the   *)
(* SSI and a client between its request and the receive of the reply.      *)
(* Nothing is assumed of user code: it may compute for ever.               *)
(***************************************************************************)
TFairness ==
  /\ SF_tvars(Elapse)
  /\ WF_tvars(timer_handler)
  /\ WF_tvars(set_next_timer \/ WakeHead \/ SetTimer \/ Schedule)
  /\ \A t \in Tcb : SF_tvars(current_thread = t /\ call[t].op # "user" /\ Work)
TFairSpec == TSpec /\ TFairness

(*------------------------------ properties -----------------------------*)

\* Every time has its type, the timer never holds more than a slice, and the
\* scheduler is in a stage of its own only while it runs.
TimeTypeOK ==
  /\ slice_age \in Times /\ last_age \in Times
  /\ timer \in 0..SCHED_TIME_SLICE
  /\ elapsed_time \in [Tcb -> Times] /\ waited \in [Tcb -> Nat]
  /\ stage \in {"enter", "clock", "set"} /\ lag \in 0..MaxLag
  /\ stage # "enter" => cpu = "sched"

\* The unsigned stamps and the ints made of their differences tell the truth:
\* no stamp comes round before it is written again, no waiter is charged more
\* than cpu_t holds, and the times left that set_next_timer and
\* set_pseudo_clock compute are the true ones, below zero as well.  (The
\* difference in is_time_slice is left unsigned, and is not.)
TimesExact ==
  /\ slice_age < Width - 1 /\ last_age < Width - 1
  /\ \A t \in Waiters : elapsed_time[t] + last_age < Width
  /\ time_until_slice = SCHED_TIME_SLICE - slice_age
  /\ ~list_empty(sched, clock) =>
       time_until_clock = SCHED_PSEUDO_CLOCK - elapsed_time[thread_qhead(sched, clock)]

\* The queue of the pseudo clock is in the order of the times waited, so the
\* loop of set_pseudo_clock, which stops at the first head whose time is not
\* over, passes nobody by.
ClockSorted ==
  \A t \in Waiters : sched.next[t] \in Tcb =>
      elapsed_time[t] >= elapsed_time[sched.next[t]]

\* A wait for the clock lasts 100 ms, give or take a slice: never less,
\* although the time before the parking is charged to the waiter ...
WaitsLongEnough ==
  [][\A t \in Waiters \ Waiters' :
       waited[t] >= SCHED_PSEUDO_CLOCK - SCHED_TIME_SLICE]_tvars

\* ... and never more, although the timer is not set for the waiter's moment
\* (p2test.c asserts that ten waits last nine to eleven periods).
WaitsBounded ==
  \A t \in Waiters :
    waited[t] <= SCHED_PSEUDO_CLOCK + SCHED_TIME_SLICE + 2 * MaxLag

\* A ready thread gets the processor, also when another one computes.
RoundRobin == \A t \in Tcb : InQueue(t, "ready_queue") ~> ~InQueue(t, "ready_queue")
==============================================================================
