----------------------------- MODULE Exceptions ------------------------------
(***************************************************************************)
(* exceptions.c: system calls and traps of the running thread.  The pc of  *)
(* a thread stands at a system call until the nucleus moves it past, so a  *)
(* call that ends in the scheduler without doing so is made again: call[t] *)
(* keeps it.                                                               *)
(***************************************************************************)
EXTENDS Ssi

Running(op) == cpu = "run" /\ call[current_thread].op = op

\* current_thread gives up the processor and the scheduler takes over.
Reschedule == current_thread' = NULL /\ cpu' = "sched"

Dead(t) == t # NULL /\ sched.status[t] = "NONE"

\* check_thread_alive finds the other side dead: the error goes to the dead
\* thread, the scheduler reloads the caller, and it makes the call again.
check_thread_alive(t, error, again) ==
  /\ Dead(t)
  /\ err_numb' = [err_numb EXCEPT ![t] = error]
  /\ call' = [call EXCEPT ![current_thread] = again]
  /\ cpu' = "sched"
  /\ UNCHANGED <<sched, current_thread, t_wait4sender, t_msgq, free_msg>>

\* SYS_SEND by current_thread, which goes on with `next'.  A send from a
\* manager of the receiver's process only wakes it.
sys_send(to, m, next) ==
  LET self == current_thread
      manages == self \in {manager_of(to, k) : k \in Kinds}
  IN  /\ \/ check_thread_alive(to, "ERR_SEND_TO_DEAD", Send(to, m))
         \/ /\ ~Dead(to) /\ manages
            /\ sched' = wake_me_up(sched, to)
            /\ call' = [call EXCEPT ![self] = next]
            /\ UNCHANGED <<current_thread, cpu, mail>>
         \/ /\ ~Dead(to) /\ ~manages
            /\ sched' = sent(sched, self, to)
            /\ sys_send_msg(self, to, m, [call EXCEPT ![self] = next])
            /\ UNCHANGED <<current_thread, cpu, t_wait4sender>>
      /\ UNCHANGED <<families, manager, device_list, reap>>

\* SYS_RECV by current_thread from s.
sys_recv(s) ==
  LET self == current_thread
      q    == t_msgq[self]
  IN  /\ \/ check_thread_alive(s, "ERR_RECV_FROM_DEAD", Recv(s))
         \/ /\ ~Dead(s)
            /\ Matches(q, s) # {}
            /\ msgq_get(s, self)
            /\ LET e == q[FirstMatch(q, s)]
               IN  call' = [call EXCEPT ![self] = Received(self, e.from, e.msg)]
            /\ UNCHANGED <<sched, current_thread, cpu, t_wait4sender, err_numb>>
         \/ /\ ~Dead(s)
            /\ Matches(q, s) = {}
            /\ t_wait4sender' = [t_wait4sender EXCEPT ![self] = s]
            /\ call' = [call EXCEPT ![self] = Recv(s)]
            /\ sched' = put_thread_sleep(sched, self)
            /\ Reschedule
            /\ UNCHANGED <<t_msgq, free_msg, err_numb>>
      /\ UNCHANGED <<families, manager, device_list, reap>>

\* What a thread asks of the SSI.  A manager is a live thread other than the
\* SSI, or NULL.
Requests ==
  [tag : Services \intersect Managing,
   arg : {t \in Tcb \ {SSI} : ~Dead(t)} \union {NULL}]
  \union [tag : Services \intersect {"DO_IO"}, arg : Devices]
  \union [tag : Services \ (Managing \union {"DO_IO"}), arg : {NULL}]

\* The threads another one can name: those alive, and the dead ones where
\* threads can die.  A thread does not write to itself.
MayDie == (Services \intersect (Managing \union {"TERMINATE_PROCESS", "TERMINATE_THREAD", "BAD"}))
          \union (Calls \intersect {"passup", "tlb", "pgm"}) # {}
Known == {t \in Tcb \ {SSI} : MayDie \/ ~Dead(t)}

(*------------------------------- actions -------------------------------*)

\* The wrappers of nucleus.h: a send to the SSI, then a receive from it.
Request ==
  /\ Running("user")
  /\ \E m \in Requests : sys_send(SSI, m, Recv(SSI))

SysSend ==
  /\ Running("user") /\ "SYS_SEND" \in Calls
  /\ \E t \in Known \ {current_thread} : sys_send(t, Plain("mail"), User)

\* The reply of the SSI, and any send made again.
SysSendPending ==
  /\ Running("send")
  /\ sys_send(call[current_thread].peer, call[current_thread].msg,
              IF current_thread = SSI THEN Recv(NULL) ELSE User)

SysRecv ==
  /\ Running("user") /\ "SYS_RECV" \in Calls
  /\ \E s \in Known \union {NULL} : sys_recv(s)

\* The receive of the SSI, the one that follows a request, and any receive
\* made again.
SysRecvPending ==
  /\ Running("recv")
  /\ sys_recv(call[current_thread].peer)

\* Mutant: no handler says whom the thread waits for.
pass_up_unheld(kind) ==
  LET self == current_thread
      mgr  == manager_of(self, kind)
  IN  \/ /\ mgr # NULL
         /\ sched' = put_thread_sleep(sent(sched, self, mgr), self)
         /\ sys_send_msg(self, mgr, Plain("trap"), call)
         /\ Reschedule
         /\ UNCHANGED <<t_wait4sender, families, manager, device_list, reap>>
      \/ mgr = NULL /\ terminate_thread(self, "nucleus", User)

\* tlb_handler, pgm_handler and the system calls that are passed up: the
\* manager gets a message and the thread sleeps; without a manager it dies.
\* A passed up system call leaves t_wait4sender as the last receive set it.
pass_up(kind) ==
  LET self == current_thread
      mgr  == manager_of(self, kind)
  IN  \/ /\ mgr # NULL
         /\ sched' = put_thread_sleep(sent(sched, self, mgr), self)
         /\ sys_send_msg(self, mgr, Plain("trap"), call)
         /\ t_wait4sender' = IF kind = "sys" THEN t_wait4sender
                             ELSE [t_wait4sender EXCEPT ![self] = mgr]
         /\ Reschedule
         /\ UNCHANGED <<families, manager, device_list, reap>>
      \/ mgr = NULL /\ terminate_thread(self, "nucleus", User)

SysPassup == Running("user") /\ "passup" \in Calls /\ pass_up("sys")
TlbTrap   == Running("user") /\ "tlb" \in Calls /\ pass_up("tlb")
PgmTrap   == Running("user") /\ "pgm" \in Calls /\ pass_up("prg")

\* System call 0 in kernel mode.
SysZero ==
  /\ Running("user") /\ "zero" \in Calls
  /\ cpu' = "panic"
  /\ UNCHANGED <<sched, current_thread, call, mail, families, manager, device_list, reap>>

\* A breakpoint, or an unknown call in user mode: nothing but the scheduler.
Breakpoint ==
  /\ Running("user") /\ "break" \in Calls
  /\ cpu' = "sched"
  /\ UNCHANGED <<sched, current_thread, call, mail, families, manager, device_list, reap>>

ExceptionsNext ==
  \/ Request \/ SysSend \/ SysSendPending \/ SysRecv \/ SysRecvPending
  \/ SysPassup \/ TlbTrap \/ PgmTrap \/ SysZero \/ Breakpoint
==============================================================================
