------------------------------ MODULE Scheduler ------------------------------
(***************************************************************************)
(* scheduler.c: the pseudo clock, then dispatch, halt, panic or wait.  The *)
(* time is left out: a waiter's 100 ms may be over at any scheduling.      *)
(***************************************************************************)
EXTENDS Interrupts

clock == "wait_pseudo_clock_queue"

\* A turn of the loop of set_pseudo_clock: the head waited long enough.
ClockExpire ==
  /\ cpu = "sched"
  /\ ~list_empty(sched, clock)
  /\ LET t == thread_qhead(sched, clock)
     IN  \/ /\ t \in Tcb
            /\ sched' = sent(resumed(thread_dequeue(sched, clock), t), SSI, t)
            /\ sys_send_msg(SSI, t, Plain("tick"), call)
            /\ UNCHANGED <<current_thread, cpu, t_wait4sender, families, manager,
                           device_list, reap>>
         \/ t \notin Tcb /\ Crash

NoneReady == list_empty(sched, "ready_queue") /\ current_thread = NULL

Stop(state) ==
  /\ cpu = "sched" /\ NoneReady
  /\ cpu' = state
  /\ UNCHANGED <<sched, current_thread, call, mail, families, manager, device_list, reap>>

Halt  == thread_count = 1 /\ Stop("halt")
Panic == thread_count > 1 /\ sched.soft = 0 /\ Stop("panic")
Wait  == thread_count > 1 /\ sched.soft > 0 /\ Stop("idle")

\* No branch of the scheduler applies and it returns into its caller.
FallThrough ==
  /\ thread_count # 1 /\ (thread_count > 0 => sched.soft < 0)
  /\ Stop("wild")

\* Mutant: the scheduler reloads current_thread without looking at it.
Resume_any ==
  /\ cpu = "sched"
  /\ cpu' = "run"
  /\ UNCHANGED <<sched, current_thread, call, mail, families, manager, device_list, reap>>

\* The running thread goes on, or the head of the ready queue is loaded.  A
\* head that is no thread, or a thread that has been freed, whose processor
\* state is cleared, takes the processor away.
Resume ==
  /\ cpu = "sched" /\ current_thread # NULL
  /\ cpu' = "run"
  /\ UNCHANGED <<sched, current_thread, call, mail, families, manager, device_list, reap>>

Dispatch ==
  /\ cpu = "sched" /\ current_thread = NULL
  /\ ~list_empty(sched, "ready_queue")
  /\ LET t == thread_qhead(sched, "ready_queue")
     IN  \/ /\ t \in Tcb /\ t_pcb[t] # NULL
            /\ sched' = thread_dequeue(sched, "ready_queue")
            /\ current_thread' = t
            /\ cpu' = "run"
            /\ UNCHANGED <<call, mail, families, manager, device_list, reap>>
         \/ ~(t \in Tcb /\ t_pcb[t] # NULL) /\ Crash

SchedulerNext ==
  ClockExpire \/ Halt \/ Panic \/ Wait \/ FallThrough \/ Resume \/ Dispatch
==============================================================================
