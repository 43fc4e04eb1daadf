------------------------------ MODULE Mikabooq -------------------------------
(***************************************************************************)
(* mikabooq.c, mikabooq.h, const.h: the state of the nucleus and the       *)
(* operations on its tables - processes, threads, message queues.          *)
(***************************************************************************)
EXTENDS Listx, Integers, SequencesExt

CONSTANTS
  store_t,      \* the thread control blocks, in the order thread_alloc hands them out
  store_p,      \* the process control blocks, root first, then in allocation order
  NULL,
  MAXMSG,       \* messages in the pool
  Devices,      \* device registers that can be commanded
  Services,     \* the SSI services the threads ask for
  Calls,        \* the raw system calls and traps the threads take
  CountBound    \* soft_block_count and thread_count saturate at +-CountBound

Tcb     == ToSet(store_t)
Pcb     == ToSet(store_p)
SSI     == store_t[1]
root    == store_p[1]
Heads   == {"ready_queue", "wait_queue", "wait_pseudo_clock_queue"}
Node    == Tcb \union Heads
Status  == {"NONE", "READY", "W4MSG"}
Errors  == {"NO_ERR", "ERR_SEND_TO_DEAD", "ERR_RECV_FROM_DEAD", "ERR_MSQ_FULL"}
Kinds   == {"prg", "tlb", "sys"}

\* The tags of nucleus.h; BAD stands for every value outside them.
Queries     == {"GET_CPUTIME", "GET_PROCESSID", "GET_MYTHREADID", "GET_PARENTPROCID"}
Managing    == {"SETPGMMGR", "SETTLBMGR", "SETSYSMGR"}
AllServices == Queries \union Managing \union
               {"GET_ERRNO", "CREATE_PROCESS", "CREATE_THREAD", "TERMINATE_PROCESS",
                "TERMINATE_THREAD", "WAIT_FOR_CLOCK", "DO_IO", "BAD"}
AllCalls    == {"SYS_SEND", "SYS_RECV", "passup", "tlb", "pgm", "zero", "break"}

ASSUME StoreAssumption ==
  /\ store_t \in Seq(Tcb) /\ Len(store_t) >= 2 /\ IsInjective(store_t)
  /\ store_p \in Seq(Pcb) /\ Len(store_p) >= 2 /\ IsInjective(store_p)
  /\ NULL \notin Tcb \union Pcb \union Heads /\ NULL \notin Devices
  /\ Tcb \intersect Heads = {}
ASSUME BoundAssumption ==
  /\ MAXMSG \in Nat /\ CountBound \in Nat
  /\ Cardinality(Tcb) <= CountBound
ASSUME InputAssumption ==
  /\ Services \subseteq AllServices
  /\ Calls \subseteq AllCalls

\* What a message carries, as far as its reader tells messages apart: a
\* request with its argument, or a plain tag.
PlainTags == (AllServices \ (Managing \union {"DO_IO"})) \union
             {"mail", "trap", "reply", "busy", "status", "tick", "none"}
Payload == [tag : Managing, arg : Tcb \union {NULL}]
           \union [tag : {"DO_IO"}, arg : Devices]
           \union [tag : PlainTags, arg : {NULL}]
Plain(tag) == [tag |-> tag, arg |-> NULL]
Message == [from : Tcb, msg : Payload]

(***************************************************************************)
(* The next system call of a thread, where its pc stands: "user" code      *)
(* between two calls, a receive, a send; and for the SSI, the service it   *)
(* is computing or the extermination loop it is in.                        *)
(***************************************************************************)
NoPayload == {Plain("none")}
CallState == [op : {"user", "reap"}, peer : {NULL}, msg : NoPayload]
             \union [op : {"recv"}, peer : Tcb \union {NULL}, msg : NoPayload]
             \union [op : {"send", "serve"}, peer : Tcb, msg : Payload]
User        == [op |-> "user",  peer |-> NULL, msg |-> Plain("none")]
Recv(s)     == [op |-> "recv",  peer |-> s,    msg |-> Plain("none")]
Send(d, m)  == [op |-> "send",  peer |-> d,    msg |-> m]
Serve(s, m) == [op |-> "serve", peer |-> s,    msg |-> m]
Reaping     == [op |-> "reap",  peer |-> NULL, msg |-> Plain("none")]

VARIABLES
  sched,            \* t_sched links, t_status and soft_block_count
  current_thread,
  cpu,              \* what the processor is doing, see CpuStates
  call,             \* Tcb -> CallState
  t_wait4sender,
  t_msgq,           \* Tcb -> Seq(Message)
  free_msg,         \* messages left in the pool
  err_numb,
  t_pcb, p_threads, free_thread,
  p_parent, p_children, free_proc,
  manager,          \* Pcb -> prg_mgr, tlb_mgr, sys_mgr
  thread_count,
  device_list,
  reap              \* the extermination in progress in the SSI and in the nucleus

mail     == <<t_wait4sender, t_msgq, free_msg, err_numb>>
families == <<t_pcb, p_threads, free_thread, p_parent, p_children, free_proc, thread_count>>
vars     == <<sched, current_thread, cpu, call, mail, families, manager,
              device_list, reap>>

(***************************************************************************)
(* "run": current_thread executes, interrupts enabled.  "sched": in        *)
(* scheduler().  "idle": WAIT.  "reap": the nucleus exterminates a process *)
(* for a trap handler.  "wild": control left the program through a list    *)
(* head taken for a thread, a NULL process or a cleared processor state.   *)
(***************************************************************************)
CpuStates == {"run", "sched", "idle", "reap", "halt", "panic", "wild"}

(*------------------------------- threads -------------------------------*)

thread_outqueue(s, t)        == list_del(s, t)
\* Mutant: the thread goes to the front of the queue.
thread_enqueue_first(s, t, queue) == list_add_between(s, t, queue, s.next[queue])

thread_enqueue(s, t, queue)  == list_add_tail(s, t, queue)
thread_qhead(s, queue)       == s.next[queue]

\* The head leaves the queue and is alone.
thread_dequeue(s, queue) ==
  INIT_LIST_HEAD(list_del(s, s.next[queue]), s.next[queue])

\* Only addresses are compared, so a foreign head on the way does no harm.
thread_in_queue(s, queue, t) == list_find(s, queue, {t, queue}, NULL) = t

\* Saturating counters.
Up(n)   == IF n < CountBound THEN n + 1 ELSE n
Down(n) == IF n > -CountBound THEN n - 1 ELSE n

\* thread_alloc and what the SSI does with the new thread: t becomes the last
\* thread of process p and the last ready one.  t_msgq is re-initialised,
\* t_wait4sender keeps the value of the block's last life.
start_thread(p, t) ==
  /\ free_thread' = Tail(free_thread)
  /\ t_pcb' = [t_pcb EXCEPT ![t] = p]
  /\ p_threads' = [p_threads EXCEPT ![p] = Append(@, t)]
  /\ err_numb' = [err_numb EXCEPT ![t] = "NO_ERR"]
  /\ t_msgq' = [t_msgq EXCEPT ![t] = <<>>]
  /\ sched' = thread_enqueue([INIT_LIST_HEAD(sched, t) EXCEPT !.status[t] = "READY"],
                             t, "ready_queue")
  /\ thread_count' = Up(thread_count)

can_free(t) == t_msgq[t] = <<>>

\* The family links of a freed thread: t_next leaves whatever list it is on.
thread_free(t) ==
  IF can_free(t)
  THEN /\ free_thread' = <<t>> \o RemoveFirst(free_thread, t)
       /\ p_threads' = [p \in Pcb |-> RemoveFirst(p_threads[p], t)]
       /\ t_pcb' = [t_pcb EXCEPT ![t] = NULL]
  ELSE UNCHANGED <<free_thread, p_threads, t_pcb>>

(*------------------------------ processes ------------------------------*)

proc_alloc(parent, p) ==
  /\ free_proc' = Tail(free_proc)
  /\ p_parent' = [p_parent EXCEPT ![p] = parent]
  /\ p_children' = [p_children EXCEPT ![parent] = Append(@, p)]

\* The process has no threads and no children.
proc_delete(p) ==
  /\ free_proc' = <<p>> \o RemoveFirst(free_proc, p)
  /\ p_parent' = [p_parent EXCEPT ![p] = NULL]
  /\ p_children' = [q \in Pcb |-> RemoveFirst(p_children[q], p)]
  /\ manager' = [manager EXCEPT ![p] = [k \in Kinds |-> NULL]]

\* The manager of a thread's process; there is none to be read through a
\* NULL process.
manager_of(t, kind) == IF t_pcb[t] = NULL THEN NULL ELSE manager[t_pcb[t]][kind]

(*---------------------------- message queues ---------------------------*)

\* The messages of queue q that a receive from s accepts; NULL accepts all.
Matches(q, s) == {i \in DOMAIN q : s \in {NULL, q[i].from}}

\* Mutant: the search goes through the whole queue.
FirstMatch_last(q, s) == CHOOSE i \in Matches(q, s) : \A j \in Matches(q, s) : j <= i

FirstMatch(q, s) == CHOOSE i \in Matches(q, s) : \A j \in Matches(q, s) : i <= j

\* msgq_add, on a pool that is not empty.
msgq_add(from, to, m) ==
  /\ t_msgq' = [t_msgq EXCEPT ![to] = Append(@, [from |-> from, msg |-> m])]
  /\ free_msg' = free_msg - 1

\* Mutant: the message is taken and does not go back to the pool.
msgq_get_kept(s, t) ==
  /\ t_msgq' = [t_msgq EXCEPT ![t] = RemoveAt(@, FirstMatch(@, s))]
  /\ UNCHANGED free_msg

\* msgq_get, when some message matches: the first one goes back to the pool.
msgq_get(s, t) ==
  /\ t_msgq' = [t_msgq EXCEPT ![t] = RemoveAt(@, FirstMatch(@, s))]
  /\ free_msg' = free_msg + 1

(*--------------------------------- boot --------------------------------*)

\* proc_init, thread_init and msgq_init, then the two threads main() makes:
\* the SSI in the root process, the test thread in a child of it.
test_thread == store_t[2]
test_proc   == store_p[2]
Alone == [next |-> [n \in Node |-> n], prev |-> [n \in Node |-> n],
          status |-> [t \in Tcb |-> IF t \in {SSI, test_thread} THEN "READY" ELSE "NONE"],
          soft |-> 0]
NoReap == [procs |-> <<>>, count |-> 0, after |-> User]

Init ==
  /\ sched = thread_enqueue(thread_enqueue(Alone, SSI, "ready_queue"),
                            test_thread, "ready_queue")
  /\ current_thread = NULL
  /\ cpu = "sched"
  /\ call = [t \in Tcb |-> IF t = SSI THEN Recv(NULL) ELSE User]
  /\ t_wait4sender = [t \in Tcb |-> NULL]
  /\ t_msgq = [t \in Tcb |-> <<>>]
  /\ free_msg = MAXMSG
  /\ err_numb = [t \in Tcb |-> "NO_ERR"]
  /\ t_pcb = [t \in Tcb |-> CASE t = SSI -> root [] t = test_thread -> test_proc
                              [] OTHER -> NULL]
  /\ p_threads = [p \in Pcb |-> CASE p = root -> <<SSI>> [] p = test_proc -> <<test_thread>>
                                  [] OTHER -> <<>>]
  /\ free_thread = SubSeq(store_t, 3, Len(store_t))
  /\ p_parent = [p \in Pcb |-> IF p = test_proc THEN root ELSE NULL]
  /\ p_children = [p \in Pcb |-> IF p = root THEN <<test_proc>> ELSE <<>>]
  /\ free_proc = SubSeq(store_p, 3, Len(store_p))
  /\ manager = [p \in Pcb |-> [k \in Kinds |-> NULL]]
  /\ thread_count = 2
  /\ device_list = [d \in Devices |-> NULL]
  /\ reap = [who \in {"ssi", "nucleus"} |-> NoReap]
==============================================================================
