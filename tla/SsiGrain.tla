------------------------------ MODULE SsiGrain -------------------------------
(***************************************************************************)
(* Two services of the SSI, ssi_waitforclock and ssi_create_thread, at the *)
(* grain of the reads and writes they make to what they share with the     *)
(* interrupt handlers and the scheduler.  The SSI runs with interrupts     *)
(* enabled (boot.c), so any step of the nucleus may come in between, other *)
(* threads included.  All else is as in Nucleus.                           *)
(***************************************************************************)
EXTENDS Nucleus

VARIABLES
  stage,      \* the statement the SSI is at; "none" outside these services
  reg         \* what it has read: two links, a counter, and the thread it moves
gvars == <<vars, stage, reg>>

Fine   == {"WAIT_FOR_CLOCK", "CREATE_THREAD"}
NoRegs == [prev |-> SSI, next |-> SSI, count |-> 0, thread |-> SSI]

GInit == Init /\ stage = "none" /\ reg = NoRegs

\* The SSI executes the statement, and nothing but the scheduling state.
At(s) == cpu = "run" /\ current_thread = SSI /\ stage = s
Rest  == UNCHANGED <<current_thread, cpu, mail, manager, device_list, reap>>
Only  == Rest /\ UNCHANGED <<families, call>>

\* A write of one word, a read into a register.
Write(s, s_next) == sched' = s /\ stage' = s_next /\ Only /\ UNCHANGED reg
Read(r, s_next)  == reg' = r /\ stage' = s_next /\ Only /\ UNCHANGED sched

(*--------------------------- ssi_waitforclock --------------------------*)

\* list_del reads both links of the sender ...
OutRead ==
  /\ At("none") /\ Serving({"WAIT_FOR_CLOCK"})
  /\ Read([reg EXCEPT !.prev = sched.prev[Sender], !.next = sched.next[Sender],
                      !.thread = Sender], "out_prev")

\* ... and joins its neighbours.
OutWrite ==
  \/ At("out_prev") /\ Write([sched EXCEPT !.prev[reg.next] = reg.prev], "out_next")
  \/ At("out_next") /\ Write([sched EXCEPT !.next[reg.prev] = reg.next], "status")

\* soft_block_count++, for a sender that does not sleep yet.
Count ==
  \/ /\ At("status") /\ sched.status[reg.thread] = "READY"
     /\ Read([reg EXCEPT !.count = sched.soft], "count")
  \/ At("status") /\ sched.status[reg.thread] # "READY" /\ Read(reg, "add")
  \/ At("count") /\ Write([sched EXCEPT !.soft = Up(reg.count)], "add")

(*--------------------------- ssi_create_thread -------------------------*)

\* thread_alloc fills a block that nobody sees yet; then it is enqueued.
Alloc ==
  /\ At("none") /\ Serving({"CREATE_THREAD"})
  /\ t_pcb[Sender] # NULL /\ free_thread # <<>>
  /\ LET t == Head(free_thread)
         p == t_pcb[Sender]
     IN  /\ free_thread' = Tail(free_thread)
         /\ t_pcb' = [t_pcb EXCEPT ![t] = p]
         /\ p_threads' = [p_threads EXCEPT ![p] = Append(@, t)]
         /\ sched' = [INIT_LIST_HEAD(sched, t) EXCEPT !.status[t] = "READY"]
         /\ reg' = [reg EXCEPT !.thread = t]
  /\ thread_count' = Up(thread_count)
  /\ stage' = "add"
  /\ UNCHANGED <<call, p_parent, p_children, free_proc>> /\ Rest

(*---------------------------- list_add_tail ----------------------------*)

Queue == IF call[SSI].msg.tag = "WAIT_FOR_CLOCK" THEN clock ELSE "ready_queue"

AddRead == At("add") /\ Read([reg EXCEPT !.prev = sched.prev[Queue]], "add_prev")

AddWrite ==
  \/ At("add_prev") /\ Write([sched EXCEPT !.prev[Queue] = reg.thread], "new_next")
  \/ At("new_next") /\ Write([sched EXCEPT !.next[reg.thread] = Queue], "new_prev")
  \/ At("new_prev") /\ Write([sched EXCEPT !.prev[reg.thread] = reg.prev], "add_next")
  \/ At("add_next") /\ Write([sched EXCEPT !.next[reg.prev] = reg.thread], "return")

\* Back to ssi_entry.
Return ==
  /\ At("return")
  /\ IF call[SSI].msg.tag = "WAIT_FOR_CLOCK" THEN NoReply ELSE Reply("reply")
  /\ stage' = "none" /\ reg' = NoRegs
  /\ UNCHANGED <<sched, families>> /\ Rest

GSsiNext == OutRead \/ OutWrite \/ Count \/ Alloc \/ AddRead \/ AddWrite \/ Return

\* The rest of the nucleus; the creation of a thread without a free block
\* has no such steps.
GNext ==
  \/ GSsiNext
  \/ /\ \/ ExceptionsNext \/ InterruptsNext \/ SchedulerNext
        \/ SsiNext /\ (Serving(Fine) => Serving({"CREATE_THREAD"}) /\ free_thread = <<>>
                                        /\ stage = "none")
     /\ UNCHANGED <<stage, reg>>
GSpec == GInit /\ [][GNext]_gvars

(***************************************************************************)
(* Whatever comes between two statements of a service, when the SSI has    *)
(* come to its end the queues are sound and every thread is in its place.  *)
(***************************************************************************)
ServicesAtomic == stage = "none" => OnePlace
==============================================================================
