----------------------------- MODULE Interrupts ------------------------------
(***************************************************************************)
(* interrupts.c: the timer and the devices.  Interrupts are enabled while  *)
(* a thread runs and in the WAIT of the scheduler; a handler ends in the   *)
(* scheduler.                                                              *)
(***************************************************************************)
EXTENDS Exceptions

Interruptible == cpu \in {"run", "idle"}

\* timer_handler, when is_time_slice says that the slice is over.
SliceOver ==
  /\ Interruptible
  /\ current_thread # NULL
  /\ sched' = thread_enqueue(sched, current_thread, "ready_queue")
  /\ Reschedule
  /\ UNCHANGED <<call, mail, families, manager, device_list, reap>>

\* timer_handler, when the slice goes on or no thread runs.
Tick ==
  /\ Interruptible
  /\ cpu' = "sched"
  /\ UNCHANGED <<sched, current_thread, call, mail, families, manager, device_list, reap>>

\* A parked thread is back: to the ready queue if it had not reached its
\* receive when it was parked, to the wait queue if it sleeps in it.
resumed(s, t) ==
  IF s.status[t] = "READY"
  THEN [thread_enqueue(s, t, "ready_queue") EXCEPT !.soft = Down(@)]
  ELSE thread_enqueue(s, t, "wait_queue")

\* device_handler or terminal_handler, then ack: the operation on d is over.
DeviceInterrupt(d) ==
  /\ Interruptible
  /\ device_list[d] # NULL
  /\ LET t == device_list[d]
     IN  /\ sched' = sent(resumed(sched, t), SSI, t)
         /\ sys_send_msg(SSI, t, Plain("status"), call)
  /\ device_list' = [device_list EXCEPT ![d] = NULL]
  /\ cpu' = "sched"
  /\ UNCHANGED <<current_thread, t_wait4sender, families, manager, reap>>

InterruptsNext ==
  SliceOver \/ Tick \/ \E d \in Devices : DeviceInterrupt(d)
==============================================================================
