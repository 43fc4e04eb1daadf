------------------------------ MODULE Messages -------------------------------
(***************************************************************************)
(* The part of exceptions.c that the SSI, the interrupt handlers and the   *)
(* scheduler share: putting a thread to sleep, waking it, sending it a     *)
(* message from inside the nucleus.                                        *)
(***************************************************************************)
EXTENDS Mikabooq

put_thread_sleep(s, t) ==
  [thread_enqueue(thread_outqueue(s, t), t, "wait_queue")
     EXCEPT !.status[t] = "W4MSG", !.soft = Up(@)]

\* Mutant: the sleeper is not counted out.
wake_me_up_uncounted(s, t) ==
  [thread_enqueue(thread_outqueue(s, t), t, "ready_queue") EXCEPT !.status[t] = "READY"]

\* Mutant: the sleeper is not taken off the queue it sleeps in.
wake_me_up_linked(s, t) ==
  [thread_enqueue(s, t, "ready_queue") EXCEPT !.status[t] = "READY", !.soft = Down(@)]

wake_me_up(s, t) ==
  [thread_enqueue(thread_outqueue(s, t), t, "ready_queue")
     EXCEPT !.status[t] = "READY", !.soft = Down(@)]

\* Mutant: NULL is not taken for "any sender".
Accepts_named(to, from) == sched.status[to] = "W4MSG" /\ t_wait4sender[to] = from

\* The receiver sleeps and the message is one it accepts.
Accepts(to, from) == sched.status[to] = "W4MSG" /\ t_wait4sender[to] \in {from, NULL}

\* The syscall of a receiver has returned with a message: its pc moves on.
Received(t, from, m) == IF t = SSI THEN Serve(from, m) ELSE User

\* sys_send_msg, in two parts: what it does to the queues, when the caller
\* has left them in s ...
sent(s, from, to) == IF Accepts(to, from) THEN wake_me_up(s, to) ELSE s

\* Mutant: the pool is not checked.
sys_send_msg_unchecked(from, to, m, c) ==
  \/ /\ Accepts(to, from)
     /\ call' = [c EXCEPT ![to] = Received(to, from, m)]
     /\ UNCHANGED <<t_msgq, free_msg, err_numb>>
  \/ /\ ~Accepts(to, from)
     /\ msgq_add(from, to, m)
     /\ call' = c
     /\ UNCHANGED err_numb

\* Mutant: a message that is handed over is queued as well.
sys_send_msg_twice(from, to, m, c) ==
  /\ call' = IF Accepts(to, from) THEN [c EXCEPT ![to] = Received(to, from, m)] ELSE c
  /\ IF free_msg > 0
     THEN msgq_add(from, to, m) /\ UNCHANGED err_numb
     ELSE err_numb' = [err_numb EXCEPT ![from] = "ERR_MSQ_FULL"]
          /\ UNCHANGED <<t_msgq, free_msg>>

\* ... and to the mail, when the caller has left the pending calls in c: the
\* message is handed over, or queued, or dropped because the pool is empty.
sys_send_msg(from, to, m, c) ==
  \/ /\ Accepts(to, from)
     /\ call' = [c EXCEPT ![to] = Received(to, from, m)]
     /\ UNCHANGED <<t_msgq, free_msg, err_numb>>
  \/ /\ ~Accepts(to, from) /\ free_msg > 0
     /\ msgq_add(from, to, m)
     /\ call' = c
     /\ UNCHANGED err_numb
  \/ /\ ~Accepts(to, from) /\ free_msg = 0
     /\ err_numb' = [err_numb EXCEPT ![from] = "ERR_MSQ_FULL"]
     /\ call' = c
     /\ UNCHANGED <<t_msgq, free_msg>>
==============================================================================
