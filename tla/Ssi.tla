--------------------------------- MODULE Ssi ---------------------------------
(***************************************************************************)
(* ssi.c: the System Service Interface, a thread that receives requests,   *)
(* serves one at a time and replies.  The receive and the reply are the    *)
(* system calls of Exceptions; between them call[SSI] is Serve(sender,     *)
(* request) and one action of this module computes the service.  The SSI   *)
(* can be preempted before and after that action; the extermination of a   *)
(* process is one action per turn of its loops.                            *)
(***************************************************************************)
EXTENDS Messages

(*------------------------------- killing -------------------------------*)

\* The code compares where it should assign (`==' for `='), so a process
\* keeps the pointer to its dead manager.
free_managing(m, t) == m

\* Mutant: the search begins behind the first sleeper.
check_death_second(t) ==
  list_find(sched, sched.next["wait_queue"],
            {x \in Tcb : t_wait4sender[x] = t} \union Heads, NULL)

\* The first sleeper of the wait queue that waits for t, the head of the
\* queue when there is none, something else when the walk leaves the queue.
check_death(t) ==
  list_find(sched, "wait_queue",
            {x \in Tcb : t_wait4sender[x] = t} \union Heads, NULL)

\* check_death is about to read t_wait4sender of something that is no thread.
Astray(t) == check_death(t) \notin Tcb \union {"wait_queue"}

\* The killing of t, the lines that ssi_terminate_thread and the loop of
\* __exterminate_thread share, from the calls c: the waiter found by
\* check_death returns from its receive, t leaves its queue and is freed.
\* Only the loop takes a ready thread off soft_block_count.
exterminate(t, loop, c) ==
  LET w     == check_death(t)
      woken == IF w \in Tcb THEN wake_me_up(sched, w) ELSE sched
      count == IF loop /\ thread_in_queue(woken, "ready_queue", t)
               THEN Down(woken.soft) ELSE woken.soft
      out   == [thread_outqueue(woken, t) EXCEPT !.soft = count]
      err   == IF w \in Tcb THEN [err_numb EXCEPT ![w] = "ERR_RECV_FROM_DEAD"]
               ELSE err_numb
      back  == IF w \in Tcb THEN [c EXCEPT ![w] = User] ELSE c
  IN  /\ manager' = free_managing(manager, t)
      /\ thread_free(t)
      /\ sched' = IF can_free(t) THEN [out EXCEPT !.status[t] = "NONE"] ELSE out
      /\ err_numb' = IF can_free(t) THEN [err EXCEPT ![t] = "NO_ERR"] ELSE err
      /\ call' = IF can_free(t) THEN [back EXCEPT ![t] = User] ELSE back

Crash ==
  /\ cpu' = "wild"
  /\ UNCHANGED <<sched, current_thread, call, mail, families, manager, device_list, reap>>

\* ssi_terminate_thread up to its call of __exterminate_proc, which the
\* actions below carry out for `who', the SSI or a trap handler.
ssi_terminate_thread(t, who, after) ==
  /\ ~Astray(t) /\ t_pcb[t] # NULL
  /\ exterminate(t, FALSE, IF who = "ssi" THEN [call EXCEPT ![SSI] = Reaping] ELSE call)
  /\ reap' = [reap EXCEPT ![who] =
       [procs |-> IF p_threads'[t_pcb[t]] = <<>> THEN <<t_pcb[t]>> ELSE <<>>,
        count |-> 1, after |-> after]]
  /\ cpu' = IF who = "nucleus" THEN "reap" ELSE cpu
  /\ UNCHANGED <<t_wait4sender, t_msgq, free_msg, p_parent, p_children, free_proc,
                 thread_count, device_list, current_thread>>

\* A victim that is already dead has no process, and list_empty reads the
\* list of a NULL one.
terminate_astray(t) == ~(~Astray(t) /\ t_pcb[t] # NULL) /\ Crash

terminate_thread(t, who, after) ==
  ssi_terminate_thread(t, who, after) \/ terminate_astray(t)

\* Who is in the loops of __exterminate_proc, and on which process.
Reaps(who) ==
  IF who = "nucleus" THEN cpu = "reap"
  ELSE cpu = "run" /\ current_thread = SSI /\ call[SSI] = Reaping
Victim(who) == Last(reap[who].procs)

\* One turn of the loop of __exterminate_thread.  A thread that still has
\* messages is not freed, and the loop meets it again.
ReapThread(who) ==
  /\ Reaps(who) /\ reap[who].procs # <<>>
  /\ p_threads[Victim(who)] # <<>>
  /\ LET t == Head(p_threads[Victim(who)])
     IN  \/ /\ ~Astray(t)
            /\ exterminate(t, TRUE, call)
            /\ thread_count' = Down(thread_count)
            /\ UNCHANGED <<t_wait4sender, t_msgq, free_msg, p_parent, p_children,
                           free_proc, device_list, current_thread, cpu, reap>>
         \/ Astray(t) /\ Crash

\* The recursive call on the first child.
ReapChild(who) ==
  /\ Reaps(who) /\ reap[who].procs # <<>>
  /\ p_threads[Victim(who)] = <<>>
  /\ p_children[Victim(who)] # <<>>
  /\ reap' = [reap EXCEPT ![who].procs = Append(@, Head(p_children[Victim(who)]))]
  /\ UNCHANGED <<sched, current_thread, cpu, call, mail, families, manager, device_list>>

\* Mutant: the process is deleted before its children.
ReapProc_early(who) ==
  /\ Reaps(who) /\ reap[who].procs # <<>>
  /\ p_threads[Victim(who)] = <<>>
  /\ proc_delete(Victim(who))
  /\ reap' = [reap EXCEPT ![who].procs = Front(@)]
  /\ UNCHANGED <<sched, current_thread, cpu, call, mail, t_pcb, p_threads,
                 free_thread, thread_count, device_list>>

\* proc_delete, and back to the caller.
ReapProc(who) ==
  /\ Reaps(who) /\ reap[who].procs # <<>>
  /\ p_threads[Victim(who)] = <<>>
  /\ p_children[Victim(who)] = <<>>
  /\ proc_delete(Victim(who))
  /\ reap' = [reap EXCEPT ![who].procs = Front(@)]
  /\ UNCHANGED <<sched, current_thread, cpu, call, mail, t_pcb, p_threads,
                 free_thread, thread_count, device_list>>

\* The end of ssi_terminate_thread or ssi_terminate_process: the SSI takes
\* its next request or sends its reply, a trap handler calls the scheduler.
ReapDone(who) ==
  /\ Reaps(who) /\ reap[who].procs = <<>>
  /\ thread_count' = IF reap[who].count = 1 THEN Down(thread_count) ELSE thread_count
  /\ reap' = [reap EXCEPT ![who] = NoReap]
  /\ \/ /\ who = "ssi"
        /\ call' = [call EXCEPT ![SSI] = reap[who].after]
        /\ UNCHANGED <<cpu, current_thread>>
     \/ /\ who = "nucleus"
        /\ current_thread' = NULL
        /\ cpu' = "sched"
        /\ UNCHANGED call
  /\ UNCHANGED <<sched, mail, t_pcb, p_threads, free_thread, p_parent, p_children,
                 free_proc, manager, device_list>>

(*------------------------------- services ------------------------------*)

Sender == call[SSI].peer
Argument == call[SSI].msg.arg

\* SSI_main_task reaches the service of one of these tags.
Serving(tags) ==
  /\ cpu = "run" /\ current_thread = SSI
  /\ call[SSI].op = "serve" /\ call[SSI].msg.tag \in tags

\* It returns TRUE: the loop of ssi_entry sends the reply, or FALSE: it
\* takes the next request.
Reply(tag) == call' = [call EXCEPT ![SSI] = Send(Sender, Plain(tag))]

\* Mutant: a parked thread is answered at once.
NoReply_answers == call' = [call EXCEPT ![SSI] = Send(Sender, Plain("reply"))]

NoReply == call' = [call EXCEPT ![SSI] = Recv(NULL)]

GetErrno ==
  /\ Serving({"GET_ERRNO"})
  /\ err_numb' = [err_numb EXCEPT ![Sender] = "NO_ERR"]
  /\ Reply("reply")
  /\ UNCHANGED <<sched, current_thread, cpu, t_wait4sender, t_msgq, free_msg,
                 families, manager, device_list, reap>>

\* ssi_getcputime and the three services that return a pointer.
Query ==
  /\ Serving(Queries)
  /\ Reply("reply")
  /\ UNCHANGED <<sched, current_thread, cpu, mail, families, manager, device_list, reap>>

\* With no free PCB both allocations fail; with a free PCB and no free TCB
\* the new process stays, without a thread.
CreateProcess ==
  /\ Serving({"CREATE_PROCESS"})
  /\ Reply("reply")
  /\ LET parent == t_pcb[Sender]
         p == Head(free_proc)
     IN  \/ /\ parent # NULL /\ free_proc # <<>> /\ free_thread # <<>>
            /\ proc_alloc(parent, p)
            /\ start_thread(p, Head(free_thread))
            /\ UNCHANGED <<t_wait4sender, free_msg>>
         \/ /\ parent # NULL /\ free_proc # <<>> /\ free_thread = <<>>
            /\ proc_alloc(parent, p)
            /\ UNCHANGED <<sched, mail, t_pcb, p_threads, free_thread, thread_count>>
         \/ /\ ~(parent # NULL /\ free_proc # <<>>)
            /\ UNCHANGED <<sched, mail, families>>
  /\ UNCHANGED <<current_thread, cpu, manager, device_list, reap>>

CreateThread ==
  /\ Serving({"CREATE_THREAD"})
  /\ Reply("reply")
  /\ \/ /\ t_pcb[Sender] # NULL /\ free_thread # <<>>
        /\ start_thread(t_pcb[Sender], Head(free_thread))
        /\ UNCHANGED <<t_wait4sender, free_msg, p_parent, p_children, free_proc>>
     \/ /\ ~(t_pcb[Sender] # NULL /\ free_thread # <<>>)
        /\ UNCHANGED <<sched, mail, families>>
  /\ UNCHANGED <<current_thread, cpu, manager, device_list, reap>>

TerminateProcess ==
  /\ Serving({"TERMINATE_PROCESS"})
  /\ \/ /\ t_pcb[Sender] # NULL
        /\ reap' = [reap EXCEPT !["ssi"] =
                      [procs |-> <<t_pcb[Sender]>>, count |-> 0, after |-> Recv(NULL)]]
        /\ call' = [call EXCEPT ![SSI] = Reaping]
        /\ UNCHANGED <<sched, current_thread, cpu, mail, families, manager, device_list>>
     \/ t_pcb[Sender] = NULL /\ Crash

TerminateThread ==
  /\ Serving({"TERMINATE_THREAD"})
  /\ terminate_thread(Sender, "ssi", Recv(NULL))

\* A tag out of range kills the sender; no case of the switch applies and
\* the TRUE at the end has the SSI reply to it all the same.
BadRequest ==
  /\ Serving({"BAD"})
  /\ terminate_thread(Sender, "ssi", Send(Sender, Plain("reply")))

kind_of == [SETPGMMGR |-> "prg", SETTLBMGR |-> "tlb", SETSYSMGR |-> "sys"]

\* ssi_prg_managing, ssi_tlb_managing, ssi_sys_managing: the first manager
\* of a process is kept, a second request kills the thread that makes it.
SetManager ==
  /\ Serving(Managing)
  /\ LET kind == kind_of[call[SSI].msg.tag]
     IN  \/ /\ t_pcb[Sender] # NULL
            /\ manager_of(Sender, kind) = NULL /\ Argument # NULL
            /\ manager' = [manager EXCEPT ![t_pcb[Sender]][kind] = Argument]
            /\ Reply("reply")
            /\ UNCHANGED <<sched, current_thread, cpu, mail, families, device_list, reap>>
         \/ /\ t_pcb[Sender] # NULL
            /\ ~(manager_of(Sender, kind) = NULL /\ Argument # NULL)
            /\ terminate_thread(Sender, "ssi", Recv(NULL))
         \/ t_pcb[Sender] = NULL /\ Crash

\* Mutant: the sender stays in its queue.
parked_linked(s) ==
  IF s.status[Sender] = "READY" THEN [s EXCEPT !.soft = Up(@)] ELSE s

\* Mutant: a sender that sleeps already is counted again.
parked_recounted(s) == [thread_outqueue(s, Sender) EXCEPT !.soft = Up(@)]

\* The sender leaves its queue.  It is asleep in the receive of its reply,
\* or still ready when its time slice ended before the receive; only then
\* it is newly blocked.
parked(s) ==
  LET out == thread_outqueue(s, Sender)
  IN  IF s.status[Sender] = "READY" THEN [out EXCEPT !.soft = Up(@)] ELSE out

WaitForClock ==
  /\ Serving({"WAIT_FOR_CLOCK"})
  /\ sched' = thread_enqueue(parked(sched), Sender, "wait_pseudo_clock_queue")
  /\ NoReply
  /\ UNCHANGED <<current_thread, cpu, mail, families, manager, device_list, reap>>

\* The operation starts; the thread is on no queue and keeps its old links.
DoIo ==
  /\ Serving({"DO_IO"})
  /\ device_list[Argument] = NULL
  /\ device_list' = [device_list EXCEPT ![Argument] = Sender]
  /\ sched' = parked(sched)
  /\ NoReply
  /\ UNCHANGED <<current_thread, cpu, mail, families, manager, reap>>

\* Mutant: the thread that finds the device busy is not told.
DoIoBusy_silent ==
  /\ Serving({"DO_IO"})
  /\ device_list[Argument] # NULL
  /\ NoReply
  /\ UNCHANGED <<sched, current_thread, cpu, mail, families, manager, device_list, reap>>

DoIoBusy ==
  /\ Serving({"DO_IO"})
  /\ device_list[Argument] # NULL
  /\ Reply("busy")
  /\ UNCHANGED <<sched, current_thread, cpu, mail, families, manager, device_list, reap>>

SsiNext ==
  \/ GetErrno \/ Query \/ CreateProcess \/ CreateThread
  \/ TerminateProcess \/ TerminateThread \/ BadRequest \/ SetManager
  \/ WaitForClock \/ DoIo \/ DoIoBusy
  \/ \E who \in {"ssi", "nucleus"} :
       ReapThread(who) \/ ReapChild(who) \/ ReapProc(who) \/ ReapDone(who)
==============================================================================
