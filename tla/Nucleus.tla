------------------------------- MODULE Nucleus -------------------------------
(***************************************************************************)
(* The whole nucleus: client threads, the SSI, the traps, the interrupts   *)
(* and the scheduler, and what must be true of them together.              *)
(***************************************************************************)
EXTENDS Scheduler

Next == SsiNext \/ ExceptionsNext \/ InterruptsNext \/ SchedulerNext
Spec == Init /\ [][Next]_vars

(***************************************************************************)
(* Types.  Every variable stays in its range: whatever the lists have      *)
(* become, no operation reads or writes outside the tables.                *)
(***************************************************************************)
SchedType == [next : [Node -> Node], prev : [Node -> Node],
              status : [Tcb -> Status], soft : -CountBound..CountBound]
ReapType  == [procs : Seq(Pcb), count : {0, 1}, after : CallState]

TypeOK ==
  /\ sched \in SchedType
  /\ current_thread \in Tcb \union {NULL}
  /\ cpu \in CpuStates
  /\ call \in [Tcb -> CallState]
  /\ t_wait4sender \in [Tcb -> Tcb \union {NULL}]
  /\ t_msgq \in [Tcb -> Seq(Message)]
  /\ free_msg \in Nat
  /\ err_numb \in [Tcb -> Errors]
  /\ t_pcb \in [Tcb -> Pcb \union {NULL}]
  /\ p_threads \in [Pcb -> Seq(Tcb)]
  /\ free_thread \in Seq(Tcb)
  /\ p_parent \in [Pcb -> Pcb \union {NULL}]
  /\ p_children \in [Pcb -> Seq(Pcb)]
  /\ free_proc \in Seq(Pcb)
  /\ manager \in [Pcb -> [Kinds -> Tcb \union {NULL}]]
  /\ thread_count \in Int
  /\ device_list \in [Devices -> Tcb \union {NULL}]
  /\ reap \in [{"ssi", "nucleus"} -> ReapType]
  /\ cpu = "run" => current_thread # NULL

(***************************************************************************)
(* Lost wake-up.  A thread that sleeps in a receive has no message in its  *)
(* queue that the receive would accept: the check of the queue and the     *)
(* going to sleep (sys_bp_handler) and the hand-over or queueing           *)
(* (sys_send_msg), in whatever order senders, interrupts and the clock     *)
(* come, never leave both the sleeper and its message waiting.             *)
(***************************************************************************)
Sleeping(t) == sched.status[t] = "W4MSG"
InReceive(t) == Sleeping(t) /\ call[t].op = "recv"

NoLostWakeup ==
  \A t \in Tcb : InReceive(t) =>
    /\ call[t].peer = t_wait4sender[t]
    /\ Matches(t_msgq[t], call[t].peer) = {}

(***************************************************************************)
(* A thread that is alive is in exactly one place - running, in one of the *)
(* three queues, or at one device - and the queues are sound lists.  The   *)
(* queues are written by the system calls, the SSI, the interrupt handlers *)
(* and the scheduler, and a thread at a device keeps links into a queue it *)
(* has left.                                                               *)
(***************************************************************************)
Alive == {t \in Tcb : sched.status[t] # "NONE"}
InQueue(t, q) == t \in Members(sched, q)

OnePlace ==
  LET queue == [q \in Heads |-> Members(sched, q)]
      places(t) == (IF current_thread = t THEN 1 ELSE 0)
                   + Cardinality({q \in Heads : t \in queue[q]})
                   + Cardinality({d \in Devices : device_list[d] = t})
  IN  /\ \A t \in Alive : places(t) = 1
      /\ \A q \in Heads : Linked(sched, queue[q]) /\ queue[q] \subseteq Alive \union {q}

(***************************************************************************)
(* soft_block_count is the number of threads that are blocked: asleep, or  *)
(* parked at the clock or a device before they reached their receive.  The *)
(* scheduler decides between PANIC and WAIT by it, and seven places in     *)
(* four files change it.                                                   *)
(***************************************************************************)
Parked(t) == InQueue(t, clock) \/ \E d \in Devices : device_list[d] = t

SoftBlockExact ==
  sched.soft = Cardinality({t \in Alive : Sleeping(t) \/ Parked(t)})

(***************************************************************************)
(* Exactly one answer.  A thread between its request and the reply has one *)
(* token: its request in the queue of the SSI or in its hands, the thread  *)
(* parked at the clock or a device, the reply being sent, or the reply in  *)
(* its own queue.  A thread that waits for nothing has none.               *)
(***************************************************************************)
CountOf(q, P(_)) == Cardinality({i \in DOMAIN q : P(q[i])})
Tokens(t) ==
  CountOf(t_msgq[SSI], LAMBDA e : e.from = t)
  + CountOf(t_msgq[t], LAMBDA e : e.from = SSI)
  + (IF call[SSI].op \in {"serve", "send"} /\ call[SSI].peer = t THEN 1 ELSE 0)
  + (IF InQueue(t, clock) THEN 1 ELSE 0)
  + Cardinality({d \in Devices : device_list[d] = t})
Clients == Tcb \ {SSI}
Awaits(t) == call[t] = Recv(SSI)

OneReply == \A t \in Clients : Tokens(t) = IF Awaits(t) THEN 1 ELSE 0

\* With a pool that can run dry a request or a reply is dropped, but it is
\* never doubled.
AtMostOneReply == \A t \in Clients : Tokens(t) <= IF Awaits(t) THEN 1 ELSE 0

(***************************************************************************)
(* Every message element is in the pool or in one queue: none is lost by a *)
(* receive out of the middle of a queue, none is counted twice.            *)
(***************************************************************************)
PoolConserved ==
  free_msg + FoldFunctionOnSet(LAMBDA q, n : n + Len(q), 0, t_msgq, Tcb) = MAXMSG

(***************************************************************************)
(* The family links agree.  A TCB is either free or in the thread list of  *)
(* its own process, once; a PCB other than the root is either free or in   *)
(* the child list of its own parent, once; and a free process has neither  *)
(* threads nor children - also while the SSI is half way through the       *)
(* extermination of a family and a trap handler starts another one.        *)
(***************************************************************************)
ThreadTree ==
  /\ IsInjective(free_thread) /\ \A p \in Pcb : IsInjective(p_threads[p])
  /\ \A t \in Tcb : /\ Contains(free_thread, t) <=> t_pcb[t] = NULL
                    /\ \A p \in Pcb : Contains(p_threads[p], t) <=> t_pcb[t] = p

ProcTree ==
  /\ IsInjective(free_proc) /\ \A p \in Pcb : IsInjective(p_children[p])
  /\ \A c \in Pcb : /\ Contains(free_proc, c) <=> c # root /\ p_parent[c] = NULL
                    /\ \A p \in Pcb : Contains(p_children[p], c) <=> p_parent[c] = p

FreeEmpty ==
  \A p \in Pcb : Contains(free_proc, p) => p_threads[p] = <<>> /\ p_children[p] = <<>>

FamilyTree == ThreadTree /\ ProcTree /\ FreeEmpty

(***************************************************************************)
(* Traps.  A thread asleep outside a receive has passed a trap up.  Only a *)
(* manager of its process resumes it - tlb_handler and pgm_handler set     *)
(* t_wait4sender "so that only he can wake it up" - or the death of the    *)
(* manager, or its own.                                                    *)
(***************************************************************************)
Trapped(t) == Sleeping(t) /\ call[t].op = "user"
Dying == \E who \in {"ssi", "nucleus"} : reap[who] # NoReap

TrapHeld ==
  [][\A t \in Tcb : Trapped(t) /\ ~Trapped(t)' =>
       \/ current_thread \in {manager_of(t, k) : k \in Kinds}
       \/ Dying']_vars

(***************************************************************************)
(* The death of a thread tells the thread that waits for it: the receive   *)
(* returns, with its error (the comment of check_death).  Of several       *)
(* waiters check_death tells one, the victim among them if it waits for    *)
(* itself, so the property is about the only one; and without managers, as *)
(* a thread that has passed a trap up is found like one in a receive.  The *)
(* wait queue has to be one of sleepers, and the waiter on it: a thread    *)
(* that is killed at a device is unlinked by links it no longer has a      *)
(* right to, and may wipe the queue (src/ssi.c:225 and :74).               *)
(***************************************************************************)
WaitersOf(t) == {w \in Tcb : InReceive(w) /\ call[w].peer = t}
OfSleepers(q) == \A n \in Members(sched, q) \ {q} : n \in Tcb /\ Sleeping(n)

SoleWaiterWoken ==
  [][\A t, w \in Tcb :
       /\ w # t /\ ~Dead(t) /\ Dead(t)' /\ WaitersOf(t) = {w}
       /\ InQueue(w, "wait_queue") /\ OfSleepers("wait_queue")
       => ~Sleeping(w)' /\ err_numb'[w] = "ERR_RECV_FROM_DEAD"]_vars

(***************************************************************************)
(* Properties that comments of the code or its design documents state and  *)
(* the code does not have.                                                 *)
(***************************************************************************)

\* PANIC means deadlock: nobody waits for the clock or a device.
PanicIsDeadlock ==
  cpu = "panic" => \A t \in Tcb : ~Parked(t)

(***************************************************************************)
(* Fairness.  Code of the nucleus that has begun runs on.  A thread that   *)
(* is given the processor again and again gets to its next system call     *)
(* (the SSI: through its service) in one of its slices.  A device that has *)
(* been commanded raises its interrupt, which stays pending until          *)
(* interrupts are enabled.  Nothing is assumed of the timer: slices may be *)
(* as long or as short as they like.                                       *)
(***************************************************************************)
ThreadStep(t) == current_thread = t /\ cpu = "run" /\ (ExceptionsNext \/ SsiNext)
Fairness ==
  /\ WF_vars(SchedulerNext)
  /\ WF_vars(cpu = "reap" /\ SsiNext)
  /\ \A t \in Tcb : SF_vars(ThreadStep(t))
  /\ \A d \in Devices : SF_vars(DeviceInterrupt(d))
FairSpec == Spec /\ Fairness

\* Every request is answered: through the queue of the SSI, a device or the
\* busy reply, whatever the preemptions.
Answered == \A t \in Clients : Awaits(t) ~> ~Awaits(t)

\* Round robin: a thread in the ready queue gets the processor.
EveryoneRuns == \A t \in Tcb : InQueue(t, "ready_queue") ~> current_thread = t

\* An extermination comes to its end, unless the processor stops before.
ExterminationEnds == Dying ~> ~Dying \/ cpu \in {"halt", "panic", "wild"}

(***************************************************************************)
(* What the nucleus promises its threads.  Below the system calls there    *)
(* are queues, sleepers, time slices and interrupts; a thread sees mail-   *)
(* boxes only.                                                             *)
(***************************************************************************)
Boxes == INSTANCE Mailboxes WITH
  Threads <- Tcb, Mail <- Payload, Anybody <- NULL, Nobody <- "nobody",
  box <- t_msgq,
  waits <- [t \in Tcb |-> IF InReceive(t) THEN call[t].peer ELSE "nobody"]

KeepsMail == Boxes!MailSpec

(***************************************************************************)
(* What the SSI promises its clients, with the SSI, the interrupts and the *)
(* scheduler behind it: a request is in the queue of the SSI or in its     *)
(* hands, an answer in the hands of the SSI or in the queue of the client. *)
(***************************************************************************)
Waiters      == Members(sched, clock) \intersect Tcb
AsRequest(e) == [from |-> e.from, tag |-> e.msg.tag]
InHand(op)   == call[SSI].op = op

Promise == INSTANCE Service WITH
  Askers <- Clients, Tags <- Services,
  requests <- (IF InHand("serve")
               THEN <<[from |-> call[SSI].peer, tag |-> call[SSI].msg.tag]>> ELSE <<>>)
              \o [i \in DOMAIN t_msgq[SSI] |-> AsRequest(t_msgq[SSI][i])],
  pending <- {[from |-> t, tag |-> "WAIT_FOR_CLOCK"] : t \in Waiters}
            \union {[from |-> device_list[d], tag |-> "DO_IO"] :
                       d \in {e \in Devices : device_list[e] # NULL}},
  answers <- (IF InHand("send")
              THEN {[to |-> call[SSI].peer, what |-> call[SSI].msg.tag]} ELSE {})
             \union UNION {{[to |-> t, what |-> t_msgq[t][i].msg.tag] :
                             i \in {j \in DOMAIN t_msgq[t] : t_msgq[t][j].from = SSI}} :
                           t \in Clients}

KeepsPromise == Promise!ServiceSpec
==============================================================================
