---------------------------- MODULE NucleusProofs ----------------------------
(***************************************************************************)
(* TypeOK and FamilyTree are invariants of Nucleus for every value of its  *)
(* constants: no operation leaves the tables, and whatever kills whatever, *)
(* in the SSI, in a trap handler or in both at once, no thread and no      *)
(* process is lost, doubled or left in a freed parent.                     *)
(***************************************************************************)
EXTENDS Nucleus, SequenceTheorems, WellFoundedInduction, TLAPS

(*-------------------------------- the lists ----------------------------*)

\* Up and Down keep soft_block_count within its bounds.
LEMMA CountType ==
  ASSUME NEW n \in -CountBound..CountBound
  PROVE  Up(n) \in -CountBound..CountBound /\ Down(n) \in -CountBound..CountBound
BY BoundAssumption DEF Up, Down

\* list_del and list_add_tail only write nodes into the links.
LEMMA LinkType ==
  ASSUME NEW s \in SchedType, NEW n \in Node, NEW q \in Node
  PROVE  /\ list_del(s, n) \in SchedType
         /\ list_add_tail(s, n, q) \in SchedType
         /\ INIT_LIST_HEAD(s, n) \in SchedType
BY DEF SchedType, list_del, list_add_tail, list_add_between, INIT_LIST_HEAD

\* The nodes, and the blocks main() uses.
LEMMA NodeFacts ==
  /\ Tcb \subseteq Node /\ Heads \subseteq Node
  /\ SSI \in Tcb /\ test_thread \in Tcb /\ root \in Pcb /\ test_proc \in Pcb
  /\ "ready_queue" \in Node /\ "wait_queue" \in Node /\ clock \in Node
  /\ NULL \notin Tcb /\ NULL \notin Pcb
<1>1. store_t[1] \in Tcb /\ store_t[2] \in Tcb
  BY StoreAssumption
<1>2. store_p[1] \in Pcb /\ store_p[2] \in Pcb
  BY StoreAssumption
<1> QED
  BY <1>1, <1>2, StoreAssumption
  DEF Node, Heads, SSI, test_thread, root, test_proc, clock

\* The scheduling operations of mikabooq.c and exceptions.c.
LEMMA QueueType ==
  ASSUME NEW s \in SchedType, NEW t \in Tcb, NEW q \in Heads
  PROVE  /\ thread_outqueue(s, t) \in SchedType
         /\ thread_enqueue(s, t, q) \in SchedType
         /\ thread_dequeue(s, q) \in SchedType
         /\ thread_qhead(s, q) \in Node
         /\ put_thread_sleep(s, t) \in SchedType
         /\ wake_me_up(s, t) \in SchedType
         /\ resumed(s, t) \in SchedType
<1>0. t \in Node /\ q \in Node /\ "ready_queue" \in Node /\ "wait_queue" \in Node
  BY NodeFacts
<1>1. thread_outqueue(s, t) \in SchedType
  BY <1>0, LinkType DEF thread_outqueue
<1>2. thread_enqueue(s, t, q) \in SchedType
  BY <1>0, LinkType DEF thread_enqueue
<1>3. thread_qhead(s, q) \in Node
  BY <1>0 DEF thread_qhead, SchedType
<1>4. thread_dequeue(s, q) \in SchedType
  BY <1>0, <1>3, LinkType DEF thread_dequeue, thread_qhead
<1>5. ASSUME NEW u \in SchedType, NEW st \in Status
      PROVE  /\ [u EXCEPT !.status[t] = st, !.soft = Up(@)] \in SchedType
             /\ [u EXCEPT !.status[t] = st, !.soft = Down(@)] \in SchedType
             /\ [u EXCEPT !.soft = Down(@)] \in SchedType
             /\ [u EXCEPT !.soft = Up(@)] \in SchedType
  <2>1. u.soft \in -CountBound..CountBound
    BY DEF SchedType
  <2>2. Up(u.soft) \in -CountBound..CountBound /\ Down(u.soft) \in -CountBound..CountBound
    BY <2>1, CountType
  <2> QED
    BY <2>2 DEF SchedType
<1>6. /\ thread_enqueue(thread_outqueue(s, t), t, "ready_queue") \in SchedType
      /\ thread_enqueue(thread_outqueue(s, t), t, "wait_queue") \in SchedType
      /\ thread_enqueue(s, t, "ready_queue") \in SchedType
      /\ thread_enqueue(s, t, "wait_queue") \in SchedType
  BY <1>0, <1>1, LinkType DEF thread_enqueue
<1>7. put_thread_sleep(s, t) \in SchedType
  BY <1>5, <1>6 DEF put_thread_sleep, Status
<1>8. wake_me_up(s, t) \in SchedType
  BY <1>5, <1>6 DEF wake_me_up, Status
<1>9. resumed(s, t) \in SchedType
  <2>1. [thread_enqueue(s, t, "ready_queue") EXCEPT !.soft = Down(@)] \in SchedType
    BY <1>5, <1>6 DEF Status
  <2> QED
    BY <2>1, <1>6 DEF resumed
<1> QED
  BY <1>1, <1>2, <1>3, <1>4, <1>7, <1>8, <1>9

\* What becomes of a process that is woken by a message, or not.
LEMMA SentType ==
  ASSUME NEW s \in SchedType, NEW t \in Tcb, NEW from
  PROVE  sent(s, from, t) \in SchedType
BY QueueType DEF sent, Heads

(*------------------------------- sequences -----------------------------*)

\* Taking an element out of a sequence leaves a sequence.
LEMMA RemoveAtType ==
  ASSUME NEW S, NEW q \in Seq(S), NEW i \in 1..Len(q)
  PROVE  RemoveAt(q, i) \in Seq(S)
<1>1. SubSeq(q, 1, i - 1) \in Seq(S) /\ SubSeq(q, i + 1, Len(q)) \in Seq(S)
  OBVIOUS
<1> QED
  BY <1>1 DEF RemoveAt

\* A non-empty set of indices has a least one.
LEMMA LeastIndex ==
  ASSUME NEW n \in Nat, NEW I \in SUBSET (1..n), I # {}
  PROVE  (CHOOSE i \in I : \A j \in I : i <= j) \in I
<1>1. \E i \in I : \A j \in I : i <= j
  <2>1. I \subseteq Nat
    OBVIOUS
  <2>2. PICK x \in I : \A y \in I : ~(<<y, x>> \in OpToRel(<, Nat))
    BY <2>1, NatLessThanWellFounded, WFMin
  <2>3. \A y \in I : ~(y < x)
    BY <2>1, <2>2 DEF OpToRel
  <2> QED
    BY <2>1, <2>3
<1> QED
  BY <1>1

\* So does taking out the first occurrence of a value.
LEMMA RemoveFirstType ==
  ASSUME NEW S, NEW q \in Seq(S), NEW e
  PROVE  RemoveFirst(q, e) \in Seq(S)
<1> DEFINE I == {i \in 1..Len(q) : q[i] = e}
<1>1. CASE \E i \in 1..Len(q) : q[i] = e
  <2>1. I # {} /\ I \in SUBSET (1..Len(q))
    BY <1>1
  <2>2. (CHOOSE i \in I : \A j \in I : i <= j) \in I
    <3>1. Len(q) \in Nat
      OBVIOUS
    <3> HIDE DEF I
    <3> QED
      BY <2>1, <3>1, LeastIndex
  <2>3. SelectInSeq(q, LAMBDA v : v = e) \in 1..Len(q)
    BY <2>1, <2>2 DEF SelectInSeq, Min
  <2> QED
    BY <1>1, <2>3, RemoveAtType DEF RemoveFirst
<1>2. CASE ~\E i \in 1..Len(q) : q[i] = e
  BY <1>2 DEF RemoveFirst
<1> QED
  BY <1>1, <1>2

\* The ends of a sequence that is not empty.
LEMMA SeqFacts ==
  ASSUME NEW S, NEW q \in Seq(S), q # <<>>
  PROVE  Head(q) \in S /\ Tail(q) \in Seq(S) /\ Last(q) \in S /\ Front(q) \in Seq(S)
<1>1. Len(q) \in Nat /\ Len(q) # 0
  BY EmptySeq
<1>2. q[Len(q)] \in S
  BY <1>1
<1>3. SubSeq(q, 1, Len(q) - 1) \in Seq(S)
  BY <1>1
<1> QED
  BY <1>1, <1>2, <1>3 DEF Last, Front

(*-------------------------- calls and messages -------------------------*)

\* What messages carry.
LEMMA PayloadFacts ==
  /\ \A tag \in PlainTags : Plain(tag) \in Payload
  /\ \A m \in Payload : /\ m.tag \in Managing => m.arg \in Tcb \union {NULL}
                        /\ m.tag = "DO_IO" => m.arg \in Devices
<1>1. \A tag \in PlainTags : Plain(tag) \in Payload
  BY DEF Plain, Payload
<1>2. ASSUME NEW m \in Payload, m.tag \in Managing
      PROVE  m.arg \in Tcb \union {NULL}
  BY <1>2 DEF Payload, PlainTags, Managing
<1>3. ASSUME NEW m \in Payload, m.tag = "DO_IO"
      PROVE  m.arg \in Devices
  BY <1>3 DEF Payload, PlainTags, Managing
<1> QED
  BY <1>1, <1>2, <1>3

\* The calls a thread can stand at.
LEMMA CallFacts ==
  /\ User \in CallState /\ Reaping \in CallState
  /\ \A s \in Tcb \union {NULL} : Recv(s) \in CallState
  /\ \A d \in Tcb, m \in Payload : Send(d, m) \in CallState /\ Serve(d, m) \in CallState
  /\ \A c \in CallState : /\ c.op \in {"send", "serve"} => c.peer \in Tcb /\ c.msg \in Payload
                          /\ c.op = "recv" => c.peer \in Tcb \union {NULL}
<1>1. User \in CallState /\ Reaping \in CallState
  BY DEF User, Reaping, CallState, NoPayload
<1>2. \A s \in Tcb \union {NULL} : Recv(s) \in CallState
  BY DEF Recv, CallState, NoPayload
<1>3. \A d \in Tcb, m \in Payload : Send(d, m) \in CallState /\ Serve(d, m) \in CallState
  BY DEF Send, Serve, CallState
<1>4. \A c \in CallState : /\ c.op \in {"send", "serve"} => c.peer \in Tcb /\ c.msg \in Payload
                           /\ c.op = "recv" => c.peer \in Tcb \union {NULL}
  BY DEF CallState
<1> QED
  BY <1>1, <1>2, <1>3, <1>4

\* A receiver goes on to a call.
LEMMA ReceivedType ==
  ASSUME NEW t \in Tcb, NEW from \in Tcb, NEW m \in Payload
  PROVE  Received(t, from, m) \in CallState
BY CallFacts DEF Received

\* msgq_add and msgq_get keep the queues and the pool well typed.
LEMMA SendMsgType ==
  ASSUME TypeOK, NEW from \in Tcb, NEW to \in Tcb, NEW m \in Payload,
         NEW c \in [Tcb -> CallState], sys_send_msg(from, to, m, c)
  PROVE  /\ call' \in [Tcb -> CallState]
         /\ t_msgq' \in [Tcb -> Seq(Message)]
         /\ free_msg' \in Nat
         /\ err_numb' \in [Tcb -> Errors]
<1>1. Received(to, from, m) \in CallState
  BY ReceivedType
<1>2. [c EXCEPT ![to] = Received(to, from, m)] \in [Tcb -> CallState]
  BY <1>1
<1>3. [from |-> from, msg |-> m] \in Message
  BY DEF Message
<1>4. CASE Accepts(to, from)
  BY <1>2, <1>4 DEF sys_send_msg, TypeOK
<1>5. CASE ~Accepts(to, from) /\ free_msg > 0
  <2>1. Append(t_msgq[to], [from |-> from, msg |-> m]) \in Seq(Message)
    BY <1>3 DEF TypeOK
  <2>2. /\ msgq_add(from, to, m)
        /\ call' = c
        /\ UNCHANGED err_numb
    BY <1>5 DEF sys_send_msg
  <2>3. t_msgq' \in [Tcb -> Seq(Message)]
    BY <2>1, <2>2 DEF msgq_add, TypeOK
  <2>4. free_msg' \in Nat
    BY <1>5, <2>2 DEF msgq_add, TypeOK
  <2> QED
    BY <2>2, <2>3, <2>4 DEF TypeOK
<1>6. CASE ~Accepts(to, from) /\ free_msg = 0
  <2>1. ~(free_msg > 0)
    BY <1>6
  <2>2. /\ err_numb' = [err_numb EXCEPT ![from] = "ERR_MSQ_FULL"]
        /\ call' = c
        /\ UNCHANGED <<t_msgq, free_msg>>
    BY <1>6, <2>1, Zenon DEF sys_send_msg
  <2> QED
    BY <2>2 DEF TypeOK, Errors
<1>7. free_msg > 0 \/ free_msg = 0
  BY DEF TypeOK
<1> QED
  BY <1>4, <1>5, <1>6, <1>7

\* The message that a receive takes is in the queue.
LEMMA MatchType ==
  ASSUME NEW q \in Seq(Message), NEW s, Matches(q, s) # {}
  PROVE  FirstMatch(q, s) \in Matches(q, s) /\ FirstMatch(q, s) \in 1..Len(q)
<1>1. Matches(q, s) \subseteq 1..Len(q) /\ Len(q) \in Nat
  BY DEF Matches
<1>2. (CHOOSE i \in Matches(q, s) : \A j \in Matches(q, s) : i <= j) \in Matches(q, s)
  BY <1>1, LeastIndex
<1> QED
  BY <1>1, <1>2 DEF FirstMatch

(*------------------------------ extermination --------------------------*)

\* The killing of a thread writes threads, statuses and calls where they belong.
LEMMA ExterminateType ==
  ASSUME TypeOK, NEW t \in Tcb, NEW loop \in BOOLEAN, NEW c \in [Tcb -> CallState],
         exterminate(t, loop, c)
  PROVE  /\ sched' \in SchedType
         /\ call' \in [Tcb -> CallState]
         /\ err_numb' \in [Tcb -> Errors]
         /\ t_pcb' \in [Tcb -> Pcb \union {NULL}]
         /\ p_threads' \in [Pcb -> Seq(Tcb)]
         /\ free_thread' \in Seq(Tcb)
         /\ manager' = manager
<1> DEFINE w     == check_death(t)
           woken == IF w \in Tcb THEN wake_me_up(sched, w) ELSE sched
           count == IF loop /\ thread_in_queue(woken, "ready_queue", t)
                    THEN Down(woken.soft) ELSE woken.soft
           out   == [thread_outqueue(woken, t) EXCEPT !.soft = count]
           err   == IF w \in Tcb THEN [err_numb EXCEPT ![w] = "ERR_RECV_FROM_DEAD"]
                    ELSE err_numb
           back  == IF w \in Tcb THEN [c EXCEPT ![w] = User] ELSE c
<1>1. /\ manager' = free_managing(manager, t)
      /\ thread_free(t)
      /\ sched' = IF can_free(t) THEN [out EXCEPT !.status[t] = "NONE"] ELSE out
      /\ err_numb' = IF can_free(t) THEN [err EXCEPT ![t] = "NO_ERR"] ELSE err
      /\ call' = IF can_free(t) THEN [back EXCEPT ![t] = User] ELSE back
  BY Zenon DEF exterminate
<1>2. woken \in SchedType
  <2>1. sched \in SchedType
    BY DEF TypeOK
  <2>2. ASSUME w \in Tcb PROVE wake_me_up(sched, w) \in SchedType
    BY <2>1, <2>2, QueueType DEF Heads
  <2> QED
    BY <2>1, <2>2
<1> HIDE DEF woken
<1>3. count \in -CountBound..CountBound
  BY <1>2, CountType DEF SchedType
<1> HIDE DEF count
<1>4. thread_outqueue(woken, t) \in SchedType
  BY <1>2, QueueType DEF Heads
<1>5. out \in SchedType
  BY <1>3, <1>4 DEF SchedType
<1> HIDE DEF out
<1>6. sched' \in SchedType
  BY <1>1, <1>5 DEF SchedType, Status
<1>7. err_numb' \in [Tcb -> Errors]
  BY <1>1 DEF TypeOK, Errors
<1>8. back \in [Tcb -> CallState]
  BY CallFacts
<1>9. call' \in [Tcb -> CallState]
  BY <1>1, <1>8, CallFacts
<1>10. t_pcb' \in [Tcb -> Pcb \union {NULL}]
  BY <1>1 DEF thread_free, TypeOK
<1>11. p_threads' \in [Pcb -> Seq(Tcb)]
  BY <1>1, RemoveFirstType DEF thread_free, TypeOK
<1>12. free_thread' \in Seq(Tcb)
  <2>1. RemoveFirst(free_thread, t) \in Seq(Tcb) /\ <<t>> \in Seq(Tcb)
    BY RemoveFirstType DEF TypeOK
  <2>2. <<t>> \o RemoveFirst(free_thread, t) \in Seq(Tcb)
    BY <2>1, ConcatProperties
  <2> QED
    BY <1>1, <2>2 DEF thread_free, TypeOK
<1> QED
  BY <1>1, <1>6, <1>7, <1>9, <1>10, <1>11, <1>12 DEF free_managing

\* A run-away processor changes nothing else.
LEMMA CrashType ==
  ASSUME TypeOK, Crash
  PROVE  TypeOK'
BY DEF TypeOK, Crash, mail, families, CpuStates

\* Who can be in the loops of __exterminate_proc.
Killers == {"ssi", "nucleus"}

\* ssi_terminate_thread, or the crash in its place.
LEMMA TerminateType ==
  ASSUME TypeOK, NEW t \in Tcb, NEW who \in Killers, NEW after \in CallState,
         terminate_thread(t, who, after)
  PROVE  TypeOK'
<1>1. CASE terminate_astray(t)
  BY <1>1, CrashType DEF terminate_astray
<1>2. CASE ssi_terminate_thread(t, who, after)
  <2> DEFINE c == IF who = "ssi" THEN [call EXCEPT ![SSI] = Reaping] ELSE call
             p == t_pcb[t]
             r == [procs |-> IF p_threads'[p] = <<>> THEN <<p>> ELSE <<>>,
                   count |-> 1, after |-> after]
  <2>1. c \in [Tcb -> CallState]
    BY CallFacts DEF TypeOK
  <2>2. exterminate(t, FALSE, c)
    BY <1>2, Zenon DEF ssi_terminate_thread
  <2>3. /\ reap' = [reap EXCEPT ![who] = r]
        /\ cpu' = IF who = "nucleus" THEN "reap" ELSE cpu
        /\ p # NULL
        /\ UNCHANGED <<t_wait4sender, t_msgq, free_msg, p_parent, p_children, free_proc,
                       thread_count, device_list, current_thread>>
    BY <1>2, Zenon DEF ssi_terminate_thread
  <2> HIDE DEF c
  <2>4. /\ sched' \in SchedType
        /\ call' \in [Tcb -> CallState]
        /\ err_numb' \in [Tcb -> Errors]
        /\ t_pcb' \in [Tcb -> Pcb \union {NULL}]
        /\ p_threads' \in [Pcb -> Seq(Tcb)]
        /\ free_thread' \in Seq(Tcb)
        /\ manager' = manager
    BY <2>1, <2>2, ExterminateType
  <2>5. r \in ReapType
    <3>1. p \in Pcb
      BY <2>3 DEF TypeOK
    <3>2. <<p>> \in Seq(Pcb) /\ <<>> \in Seq(Pcb)
      BY <3>1
    <3> QED
      BY <3>2 DEF ReapType
  <2>6. reap' \in [Killers -> ReapType]
    BY <2>3, <2>5 DEF TypeOK, Killers
  <2> QED
    BY <2>3, <2>4, <2>6 DEF TypeOK, CpuStates, Killers
<1> QED
  BY <1>1, <1>2 DEF terminate_thread

(*--------------------------------- the SSI -----------------------------*)

\* A turn of the loop of __exterminate_thread.
LEMMA ReapThreadType ==
  ASSUME TypeOK, NEW who \in Killers, ReapThread(who)
  PROVE  TypeOK'
<1> DEFINE t == Head(p_threads[Victim(who)])
<1>1. reap[who].procs \in Seq(Pcb) /\ reap[who].procs # <<>> /\ p_threads[Victim(who)] # <<>>
  BY DEF ReapThread, TypeOK, ReapType, Killers
<1>2. t \in Tcb
  BY <1>1, SeqFacts DEF Victim, TypeOK
<1>3. CASE Astray(t) /\ Crash
  BY <1>3, CrashType
<1>4. CASE /\ exterminate(t, TRUE, call)
           /\ thread_count' = Down(thread_count)
           /\ UNCHANGED <<t_wait4sender, t_msgq, free_msg, p_parent, p_children,
                          free_proc, device_list, current_thread, cpu, reap>>
  <2> HIDE DEF t
  <2>1. call \in [Tcb -> CallState]
    BY DEF TypeOK
  <2>2. /\ sched' \in SchedType
        /\ call' \in [Tcb -> CallState]
        /\ err_numb' \in [Tcb -> Errors]
        /\ t_pcb' \in [Tcb -> Pcb \union {NULL}]
        /\ p_threads' \in [Pcb -> Seq(Tcb)]
        /\ free_thread' \in Seq(Tcb)
        /\ manager' = manager
    BY <1>2, <1>4, <2>1, ExterminateType
  <2>3. thread_count' \in Int
    BY <1>4 DEF Down, TypeOK
  <2> QED
    BY <1>4, <2>2, <2>3 DEF TypeOK
<1> QED
  BY <1>3, <1>4, Zenon DEF ReapThread

\* The recursion into a child.
LEMMA ReapChildType ==
  ASSUME TypeOK, NEW who \in Killers, ReapChild(who)
  PROVE  TypeOK'
<1> DEFINE c == Head(p_children[Victim(who)])
<1>1. /\ reap \in [Killers -> ReapType] /\ reap[who].procs # <<>>
      /\ p_children[Victim(who)] # <<>>
      /\ reap' = [reap EXCEPT ![who].procs = Append(@, c)]
      /\ UNCHANGED <<sched, current_thread, cpu, call, mail, families, manager, device_list>>
  BY DEF ReapChild, TypeOK, Killers
<1>2. reap[who].procs \in Seq(Pcb)
  BY <1>1 DEF ReapType
<1>3. c \in Pcb
  BY <1>1, <1>2, SeqFacts DEF Victim, TypeOK
<1> HIDE DEF c
<1>4. Append(reap[who].procs, c) \in Seq(Pcb)
  BY <1>2, <1>3
<1>5. reap' \in [Killers -> ReapType]
  BY <1>1, <1>4 DEF ReapType
<1> QED
  BY <1>1, <1>5 DEF TypeOK, mail, families, Killers

\* proc_delete at the end of __exterminate_proc.
LEMMA ReapProcType ==
  ASSUME TypeOK, NEW who \in Killers, ReapProc(who)
  PROVE  TypeOK'
<1> DEFINE p == Victim(who)
<1>1. /\ reap \in [Killers -> ReapType] /\ reap[who].procs # <<>>
      /\ proc_delete(p)
      /\ reap' = [reap EXCEPT ![who].procs = Front(@)]
      /\ UNCHANGED <<sched, current_thread, cpu, call, mail, t_pcb, p_threads,
                     free_thread, thread_count, device_list>>
  BY DEF ReapProc, TypeOK, Killers
<1>2. reap[who].procs \in Seq(Pcb)
  BY <1>1 DEF ReapType
<1>3. p \in Pcb /\ Front(reap[who].procs) \in Seq(Pcb)
  BY <1>1, <1>2, SeqFacts DEF Victim
<1> HIDE DEF p
<1>4. reap' \in [Killers -> ReapType]
  BY <1>1, <1>3 DEF ReapType
<1>5. free_proc' \in Seq(Pcb)
  <2>1. RemoveFirst(free_proc, p) \in Seq(Pcb) /\ <<p>> \in Seq(Pcb)
    BY <1>3, RemoveFirstType DEF TypeOK
  <2> QED
    BY <1>1, <2>1, ConcatProperties DEF proc_delete
<1>6. p_parent' \in [Pcb -> Pcb \union {NULL}]
  BY <1>1 DEF proc_delete, TypeOK
<1>7. p_children' \in [Pcb -> Seq(Pcb)]
  BY <1>1, RemoveFirstType DEF proc_delete, TypeOK
<1>8. manager' \in [Pcb -> [Kinds -> Tcb \union {NULL}]]
  BY <1>1 DEF proc_delete, TypeOK
<1> QED
  BY <1>1, <1>4, <1>5, <1>6, <1>7, <1>8 DEF TypeOK, mail, Killers

\* The return to the SSI or to the scheduler.
LEMMA ReapDoneType ==
  ASSUME TypeOK, NEW who \in Killers, ReapDone(who)
  PROVE  TypeOK'
<1>1. reap \in [Killers -> ReapType] /\ reap[who].after \in CallState
  BY DEF TypeOK, Killers, ReapType
<1>2. NoReap \in ReapType
  BY CallFacts DEF NoReap, ReapType
<1>3. reap' \in [Killers -> ReapType]
  BY <1>1, <1>2 DEF ReapDone
<1>4. thread_count' \in Int
  BY DEF ReapDone, Down, TypeOK
<1>5. call' \in [Tcb -> CallState]
  BY <1>1 DEF ReapDone, TypeOK
<1> QED
  BY <1>3, <1>4, <1>5 DEF ReapDone, TypeOK, mail, CpuStates, Killers

\* Who asks, for what; and the two ways a service leaves the call of the SSI.
LEMMA ServingFacts ==
  ASSUME TypeOK, NEW tags, Serving(tags)
  PROVE  /\ Sender \in Tcb
         /\ call[SSI].msg.tag \in tags
         /\ call[SSI].msg.tag \in Managing => Argument \in Tcb \union {NULL}
         /\ call[SSI].msg.tag = "DO_IO" => Argument \in Devices
<1>1. call[SSI] \in CallState /\ call[SSI].op \in {"send", "serve"}
  BY NodeFacts DEF Serving, TypeOK
<1> QED
  BY <1>1, CallFacts, PayloadFacts DEF Sender, Argument, Serving

\* Both ways lead to a call.
LEMMA ReplyType ==
  ASSUME TypeOK, Sender \in Tcb, NEW tag \in PlainTags
  PROVE  /\ Reply(tag) => call' \in [Tcb -> CallState]
         /\ NoReply => call' \in [Tcb -> CallState]
<1>1. Send(Sender, Plain(tag)) \in CallState
  BY CallFacts, PayloadFacts
<1>2. Recv(NULL) \in CallState
  BY CallFacts
<1> QED
  BY <1>1, <1>2 DEF Reply, NoReply, TypeOK

\* The tags of the nucleus's own messages carry no argument.
LEMMA TagFacts ==
  /\ {"reply", "busy", "mail", "trap", "status", "tick"} \subseteq PlainTags
  /\ "DO_IO" \notin Managing
BY DEF PlainTags, Managing

\* thread_alloc.
LEMMA StartThreadType ==
  ASSUME TypeOK, NEW p \in Pcb, NEW t \in Tcb, free_thread # <<>>, start_thread(p, t)
  PROVE  /\ free_thread' \in Seq(Tcb)
         /\ t_pcb' \in [Tcb -> Pcb \union {NULL}]
         /\ p_threads' \in [Pcb -> Seq(Tcb)]
         /\ err_numb' \in [Tcb -> Errors]
         /\ t_msgq' \in [Tcb -> Seq(Message)]
         /\ sched' \in SchedType
         /\ thread_count' \in Int
<1>1. free_thread' \in Seq(Tcb)
  BY SeqFacts DEF start_thread, TypeOK
<1>2. t_pcb' \in [Tcb -> Pcb \union {NULL}]
  BY DEF start_thread, TypeOK
<1>3. p_threads' \in [Pcb -> Seq(Tcb)]
  <2>1. Append(p_threads[p], t) \in Seq(Tcb)
    BY DEF TypeOK
  <2> QED
    BY <2>1 DEF start_thread, TypeOK
<1>4. err_numb' \in [Tcb -> Errors] /\ t_msgq' \in [Tcb -> Seq(Message)]
  BY DEF start_thread, TypeOK, Errors
<1>5. sched' \in SchedType
  <2>1. INIT_LIST_HEAD(sched, t) \in SchedType
    BY NodeFacts, LinkType DEF TypeOK
  <2>2. [INIT_LIST_HEAD(sched, t) EXCEPT !.status[t] = "READY"] \in SchedType
    BY <2>1 DEF SchedType, Status
  <2> QED
    BY <2>2, QueueType DEF start_thread, Heads
<1>6. thread_count' \in Int
  BY DEF start_thread, Up, TypeOK
<1> QED
  BY <1>1, <1>2, <1>3, <1>4, <1>5, <1>6

\* proc_alloc.
LEMMA ProcAllocType ==
  ASSUME TypeOK, NEW parent \in Pcb, NEW p \in Pcb, free_proc # <<>>, proc_alloc(parent, p)
  PROVE  /\ free_proc' \in Seq(Pcb)
         /\ p_parent' \in [Pcb -> Pcb \union {NULL}]
         /\ p_children' \in [Pcb -> Seq(Pcb)]
<1>1. free_proc' \in Seq(Pcb)
  BY SeqFacts DEF proc_alloc, TypeOK
<1>2. p_parent' \in [Pcb -> Pcb \union {NULL}]
  BY DEF proc_alloc, TypeOK
<1>3. Append(p_children[parent], p) \in Seq(Pcb)
  BY DEF TypeOK
<1>4. p_children' \in [Pcb -> Seq(Pcb)]
  BY <1>3 DEF proc_alloc, TypeOK
<1> QED
  BY <1>1, <1>2, <1>4

\* ssi_create_process.
LEMMA CreateProcessType ==
  ASSUME TypeOK, CreateProcess
  PROVE  TypeOK'
<1> DEFINE parent == t_pcb[Sender]
           p      == Head(free_proc)
           t      == Head(free_thread)
<1>1. Sender \in Tcb
  BY ServingFacts DEF CreateProcess
<1>2. call' \in [Tcb -> CallState]
  BY <1>1, ReplyType, TagFacts DEF CreateProcess
<1>3. parent # NULL => parent \in Pcb
  BY <1>1 DEF TypeOK
<1>4. free_proc # <<>> => p \in Pcb
  BY SeqFacts DEF TypeOK
<1>5. free_thread # <<>> => t \in Tcb
  BY SeqFacts DEF TypeOK
<1>6. UNCHANGED <<current_thread, cpu, manager, device_list, reap>>
  BY DEF CreateProcess
<1>7. CASE /\ parent # NULL /\ free_proc # <<>> /\ free_thread # <<>>
           /\ proc_alloc(parent, p) /\ start_thread(p, t)
           /\ UNCHANGED <<t_wait4sender, free_msg>>
  <2> HIDE DEF parent, p, t
  <2>1. /\ free_proc' \in Seq(Pcb)
        /\ p_parent' \in [Pcb -> Pcb \union {NULL}]
        /\ p_children' \in [Pcb -> Seq(Pcb)]
    BY <1>3, <1>4, <1>7, ProcAllocType
  <2>2. /\ free_thread' \in Seq(Tcb)
        /\ t_pcb' \in [Tcb -> Pcb \union {NULL}]
        /\ p_threads' \in [Pcb -> Seq(Tcb)]
        /\ err_numb' \in [Tcb -> Errors]
        /\ t_msgq' \in [Tcb -> Seq(Message)]
        /\ sched' \in SchedType
        /\ thread_count' \in Int
    BY <1>4, <1>5, <1>7, StartThreadType
  <2> QED
    BY <1>2, <1>6, <1>7, <2>1, <2>2 DEF TypeOK
<1>8. CASE /\ parent # NULL /\ free_proc # <<>> /\ free_thread = <<>>
           /\ proc_alloc(parent, p)
           /\ UNCHANGED <<sched, mail, t_pcb, p_threads, free_thread, thread_count>>
  <2> HIDE DEF parent, p, t
  <2>1. /\ free_proc' \in Seq(Pcb)
        /\ p_parent' \in [Pcb -> Pcb \union {NULL}]
        /\ p_children' \in [Pcb -> Seq(Pcb)]
    BY <1>3, <1>4, <1>8, ProcAllocType
  <2> QED
    BY <1>2, <1>6, <1>8, <2>1 DEF TypeOK, mail
<1>9. CASE UNCHANGED <<sched, mail, families>>
  BY <1>2, <1>6, <1>9 DEF TypeOK, mail, families
<1> QED
  BY <1>7, <1>8, <1>9, Zenon DEF CreateProcess

\* ssi_create_thread.
LEMMA CreateThreadType ==
  ASSUME TypeOK, CreateThread
  PROVE  TypeOK'
<1>1. Sender \in Tcb
  BY ServingFacts DEF CreateThread
<1>2. call' \in [Tcb -> CallState]
  BY <1>1, ReplyType, TagFacts DEF CreateThread
<1>3. t_pcb[Sender] # NULL => t_pcb[Sender] \in Pcb
  BY <1>1 DEF TypeOK
<1>4. free_thread # <<>> => Head(free_thread) \in Tcb
  BY SeqFacts DEF TypeOK
<1>5. UNCHANGED <<current_thread, cpu, manager, device_list, reap>>
  BY DEF CreateThread
<1>6. CASE /\ t_pcb[Sender] # NULL /\ free_thread # <<>>
           /\ start_thread(t_pcb[Sender], Head(free_thread))
           /\ UNCHANGED <<t_wait4sender, free_msg, p_parent, p_children, free_proc>>
  <2>1. /\ free_thread' \in Seq(Tcb)
        /\ t_pcb' \in [Tcb -> Pcb \union {NULL}]
        /\ p_threads' \in [Pcb -> Seq(Tcb)]
        /\ err_numb' \in [Tcb -> Errors]
        /\ t_msgq' \in [Tcb -> Seq(Message)]
        /\ sched' \in SchedType
        /\ thread_count' \in Int
    BY <1>3, <1>4, <1>6, StartThreadType
  <2> QED
    BY <1>2, <1>5, <1>6, <2>1 DEF TypeOK
<1>7. CASE UNCHANGED <<sched, mail, families>>
  BY <1>2, <1>5, <1>7 DEF TypeOK, mail, families
<1> QED
  BY <1>6, <1>7, Zenon DEF CreateThread

\* The services that only answer.
LEMMA QueryType ==
  ASSUME TypeOK, GetErrno \/ Query
  PROVE  TypeOK'
<1>1. Sender \in Tcb
  BY ServingFacts DEF GetErrno, Query
<1>2. call' \in [Tcb -> CallState]
  BY <1>1, ReplyType, TagFacts DEF GetErrno, Query
<1>3. CASE GetErrno
  BY <1>1, <1>2, <1>3 DEF GetErrno, TypeOK, families, Errors
<1>4. CASE Query
  BY <1>2, <1>4 DEF Query, TypeOK, mail, families
<1> QED
  BY <1>3, <1>4

\* ssi_terminate_process.
LEMMA TerminateProcessType ==
  ASSUME TypeOK, TerminateProcess
  PROVE  TypeOK'
<1> DEFINE r == [procs |-> <<t_pcb[Sender]>>, count |-> 0, after |-> Recv(NULL)]
<1>1. Sender \in Tcb
  BY ServingFacts DEF TerminateProcess
<1>2. CASE t_pcb[Sender] = NULL /\ Crash
  BY <1>2, CrashType
<1>3. CASE /\ t_pcb[Sender] # NULL
           /\ reap' = [reap EXCEPT !["ssi"] = r]
           /\ call' = [call EXCEPT ![SSI] = Reaping]
           /\ UNCHANGED <<sched, current_thread, cpu, mail, families, manager, device_list>>
  <2>1. t_pcb[Sender] \in Pcb
    BY <1>1, <1>3 DEF TypeOK
  <2>2. <<t_pcb[Sender]>> \in Seq(Pcb) /\ Recv(NULL) \in CallState
    BY <2>1, CallFacts
  <2>3. r \in ReapType
    BY <2>2 DEF ReapType
  <2> HIDE DEF r
  <2>4. reap' \in [Killers -> ReapType]
    BY <1>3, <2>3 DEF TypeOK, Killers
  <2>5. call' \in [Tcb -> CallState]
    BY <1>3, CallFacts DEF TypeOK
  <2> QED
    BY <1>3, <2>4, <2>5 DEF TypeOK, mail, families, Killers
<1> QED
  BY <1>2, <1>3, Zenon DEF TerminateProcess

\* ssi_terminate_thread and bad requests.
LEMMA TerminateThreadType ==
  ASSUME TypeOK, TerminateThread \/ BadRequest
  PROVE  TypeOK'
<1>1. Sender \in Tcb
  BY ServingFacts DEF TerminateThread, BadRequest
<1>2. Recv(NULL) \in CallState /\ Send(Sender, Plain("reply")) \in CallState
  BY <1>1, CallFacts, PayloadFacts, TagFacts
<1> QED
  BY <1>1, <1>2, TerminateType DEF TerminateThread, BadRequest, Killers

\* The three manager services.
LEMMA SetManagerType ==
  ASSUME TypeOK, SetManager
  PROVE  TypeOK'
<1> DEFINE kind == kind_of[call[SSI].msg.tag]
<1>1. Sender \in Tcb /\ Argument \in Tcb \union {NULL} /\ kind \in Kinds
  BY ServingFacts DEF SetManager, Managing, kind_of, Kinds
<1> HIDE DEF kind
<1>2. CASE t_pcb[Sender] = NULL /\ Crash
  BY <1>2, CrashType
<1>3. CASE terminate_thread(Sender, "ssi", Recv(NULL))
  BY <1>1, <1>3, CallFacts, TerminateType DEF Killers
<1>4. CASE /\ t_pcb[Sender] # NULL
           /\ manager' = [manager EXCEPT ![t_pcb[Sender]][kind] = Argument]
           /\ Reply("reply")
           /\ UNCHANGED <<sched, current_thread, cpu, mail, families, device_list, reap>>
  <2>1. call' \in [Tcb -> CallState]
    BY <1>1, <1>4, ReplyType, TagFacts
  <2>2. manager' \in [Pcb -> [Kinds -> Tcb \union {NULL}]]
    BY <1>1, <1>4 DEF TypeOK
  <2> QED
    BY <1>4, <2>1, <2>2 DEF TypeOK, mail, families
<1> QED
  BY <1>2, <1>3, <1>4, Zenon DEF SetManager, kind

\* A thread that parks leaves its queue and is counted once.
LEMMA ParkedType ==
  ASSUME TypeOK, Sender \in Tcb
  PROVE  parked(sched) \in SchedType
<1>1. thread_outqueue(sched, Sender) \in SchedType
  BY QueueType DEF TypeOK, Heads
<1>2. Up(thread_outqueue(sched, Sender).soft) \in -CountBound..CountBound
  BY <1>1, CountType DEF SchedType
<1>3. [thread_outqueue(sched, Sender) EXCEPT !.soft = Up(@)] \in SchedType
  BY <1>1, <1>2 DEF SchedType
<1> QED
  BY <1>1, <1>3 DEF parked

\* ssi_waitforclock and ssi_do_io.
LEMMA DoIoType ==
  ASSUME TypeOK, WaitForClock \/ DoIo \/ DoIoBusy
  PROVE  TypeOK'
<1>1. Sender \in Tcb
  BY ServingFacts DEF WaitForClock, DoIo, DoIoBusy
<1>2. call' \in [Tcb -> CallState]
  BY <1>1, ReplyType, TagFacts DEF WaitForClock, DoIo, DoIoBusy
<1>3. parked(sched) \in SchedType
  BY <1>1, ParkedType
<1>4. CASE WaitForClock
  <2>1. sched' \in SchedType
    BY <1>1, <1>3, <1>4, QueueType DEF WaitForClock, Heads
  <2> QED
    BY <1>2, <1>4, <2>1 DEF WaitForClock, TypeOK, mail, families
<1>5. CASE DoIo
  <2>1. Argument \in Devices
    BY <1>5, ServingFacts DEF DoIo
  <2>2. device_list' \in [Devices -> Tcb \union {NULL}]
    BY <1>1, <1>5, <2>1 DEF DoIo, TypeOK
  <2> QED
    BY <1>2, <1>3, <1>5, <2>2 DEF DoIo, TypeOK, mail, families
<1>6. CASE DoIoBusy
  BY <1>2, <1>6 DEF DoIoBusy, TypeOK, mail, families
<1> QED
  BY <1>4, <1>5, <1>6

(*------------------------------ system calls ---------------------------*)

\* The SSI is not named by NULL: the running thread is a thread.
LEMMA RunningFacts ==
  ASSUME TypeOK, NEW op, Running(op)
  PROVE  current_thread \in Tcb /\ call[current_thread] \in CallState
                                /\ call[current_thread].op = op
BY DEF Running, TypeOK

\* check_thread_alive, when it finds a dead thread.
LEMMA CheckAliveType ==
  ASSUME TypeOK, NEW t \in Tcb \union {NULL}, current_thread \in Tcb,
         NEW error \in Errors, NEW again \in CallState,
         check_thread_alive(t, error, again)
  PROVE  /\ err_numb' \in [Tcb -> Errors]
         /\ call' \in [Tcb -> CallState]
         /\ cpu' = "sched"
         /\ UNCHANGED <<sched, current_thread, t_wait4sender, t_msgq, free_msg>>
BY DEF check_thread_alive, TypeOK

\* SYS_SEND.
LEMMA SysSendType ==
  ASSUME TypeOK, current_thread \in Tcb,
         NEW to \in Tcb, NEW m \in Payload, NEW next \in CallState,
         sys_send(to, m, next)
  PROVE  TypeOK'
<1> DEFINE c == [call EXCEPT ![current_thread] = next]
<1>1. c \in [Tcb -> CallState]
  BY DEF TypeOK
<1>2. UNCHANGED <<families, manager, device_list, reap>>
  BY DEF sys_send
<1>3. CASE check_thread_alive(to, "ERR_SEND_TO_DEAD", Send(to, m))
  <2>1. /\ err_numb' \in [Tcb -> Errors]
        /\ call' \in [Tcb -> CallState]
        /\ cpu' = "sched"
        /\ UNCHANGED <<sched, current_thread, t_wait4sender, t_msgq, free_msg>>
    BY <1>3, CallFacts, CheckAliveType DEF Errors
  <2> QED
    BY <1>2, <2>1 DEF TypeOK, families, CpuStates
<1>4. CASE /\ sched' = wake_me_up(sched, to)
           /\ call' = c
           /\ UNCHANGED <<current_thread, cpu, mail>>
  <2>1. sched' \in SchedType
    BY <1>4, QueueType DEF TypeOK, Heads
  <2> QED
    BY <1>1, <1>2, <1>4, <2>1 DEF TypeOK, mail, families
<1>5. CASE /\ sched' = sent(sched, current_thread, to)
           /\ sys_send_msg(current_thread, to, m, c)
           /\ UNCHANGED <<current_thread, cpu, t_wait4sender>>
  <2> HIDE DEF c
  <2>1. sched' \in SchedType
    BY <1>5, SentType DEF TypeOK
  <2>2. /\ call' \in [Tcb -> CallState]
        /\ t_msgq' \in [Tcb -> Seq(Message)]
        /\ free_msg' \in Nat
        /\ err_numb' \in [Tcb -> Errors]
    BY <1>1, <1>5, SendMsgType
  <2> QED
    BY <1>2, <1>5, <2>1, <2>2 DEF TypeOK, families
<1> QED
  BY <1>3, <1>4, <1>5, Zenon DEF sys_send

\* SYS_RECV.
LEMMA SysRecvType ==
  ASSUME TypeOK, current_thread \in Tcb, NEW s \in Tcb \union {NULL}, sys_recv(s)
  PROVE  TypeOK'
<1> DEFINE q == t_msgq[current_thread]
           i == FirstMatch(q, s)
<1>1. UNCHANGED <<families, manager, device_list, reap>>
  BY DEF sys_recv
<1>2. CASE check_thread_alive(s, "ERR_RECV_FROM_DEAD", Recv(s))
  <2>1. /\ err_numb' \in [Tcb -> Errors]
        /\ call' \in [Tcb -> CallState]
        /\ cpu' = "sched"
        /\ UNCHANGED <<sched, current_thread, t_wait4sender, t_msgq, free_msg>>
    BY <1>2, CallFacts, CheckAliveType DEF Errors
  <2> QED
    BY <1>1, <2>1 DEF TypeOK, families, CpuStates
<1>3. CASE /\ Matches(q, s) # {}
           /\ msgq_get(s, current_thread)
           /\ call' = [call EXCEPT ![current_thread] =
                         Received(current_thread, q[i].from, q[i].msg)]
           /\ UNCHANGED <<sched, current_thread, cpu, t_wait4sender, err_numb>>
  <2>1. q \in Seq(Message)
    BY DEF TypeOK
  <2>2. i \in 1..Len(q)
    BY <1>3, <2>1, MatchType
  <2>3. q[i] \in Message /\ RemoveAt(q, i) \in Seq(Message)
    BY <2>1, <2>2, RemoveAtType
  <2>4. Received(current_thread, q[i].from, q[i].msg) \in CallState
    BY <2>3, ReceivedType DEF Message
  <2>5. call' \in [Tcb -> CallState]
    BY <1>3, <2>4 DEF TypeOK
  <2>6. t_msgq' \in [Tcb -> Seq(Message)] /\ free_msg' \in Nat
    BY <1>3, <2>3 DEF msgq_get, TypeOK
  <2> QED
    BY <1>1, <1>3, <2>5, <2>6 DEF TypeOK, families
<1>4. CASE /\ t_wait4sender' = [t_wait4sender EXCEPT ![current_thread] = s]
           /\ call' = [call EXCEPT ![current_thread] = Recv(s)]
           /\ sched' = put_thread_sleep(sched, current_thread)
           /\ Reschedule
           /\ UNCHANGED <<t_msgq, free_msg, err_numb>>
  <2>1. sched' \in SchedType
    BY <1>4, QueueType DEF TypeOK, Heads
  <2>2. call' \in [Tcb -> CallState]
    BY <1>4, CallFacts DEF TypeOK
  <2> QED
    BY <1>1, <1>4, <2>1, <2>2 DEF TypeOK, Reschedule, families, CpuStates
<1> QED
  BY <1>2, <1>3, <1>4, Zenon DEF sys_recv

\* Traps and passed up calls.
LEMMA PassUpType ==
  ASSUME TypeOK, current_thread \in Tcb, NEW kind \in Kinds, pass_up(kind)
  PROVE  TypeOK'
<1> DEFINE mgr == manager_of(current_thread, kind)
<1>1. mgr \in Tcb \union {NULL}
  BY DEF manager_of, TypeOK
<1> HIDE DEF mgr
<1>2. CASE terminate_thread(current_thread, "nucleus", User)
  BY <1>2, CallFacts, TerminateType DEF Killers
<1>3. CASE /\ mgr # NULL
           /\ sched' = put_thread_sleep(sent(sched, current_thread, mgr), current_thread)
           /\ sys_send_msg(current_thread, mgr, Plain("trap"), call)
           /\ t_wait4sender' = IF kind = "sys" THEN t_wait4sender
                               ELSE [t_wait4sender EXCEPT ![current_thread] = mgr]
           /\ Reschedule
           /\ UNCHANGED <<families, manager, device_list, reap>>
  <2>1. mgr \in Tcb /\ Plain("trap") \in Payload
    BY <1>1, <1>3, PayloadFacts, TagFacts
  <2>2. sched' \in SchedType
    <3>1. sent(sched, current_thread, mgr) \in SchedType
      BY <2>1, SentType DEF TypeOK
    <3> QED
      BY <1>3, <3>1, QueueType DEF Heads
  <2>3. /\ call' \in [Tcb -> CallState]
        /\ t_msgq' \in [Tcb -> Seq(Message)]
        /\ free_msg' \in Nat
        /\ err_numb' \in [Tcb -> Errors]
    <3>1. call \in [Tcb -> CallState]
      BY DEF TypeOK
    <3> QED
      BY <1>3, <2>1, <3>1, SendMsgType
  <2>4. t_wait4sender' \in [Tcb -> Tcb \union {NULL}]
    BY <1>3, <2>1 DEF TypeOK
  <2> QED
    BY <1>3, <2>2, <2>3, <2>4 DEF TypeOK, Reschedule, families, CpuStates
<1> QED
  BY <1>2, <1>3, Zenon DEF pass_up, mgr

\* All system calls and traps.
LEMMA ExceptionsType ==
  ASSUME TypeOK, ExceptionsNext
  PROVE  TypeOK'
<1>1. CASE Request
  <2>1. current_thread \in Tcb
    BY <1>1, RunningFacts DEF Request
  <2>2. PICK m \in Requests : sys_send(SSI, m, Recv(SSI))
    BY <1>1 DEF Request
  <2>3. m \in Payload
    BY <2>2, InputAssumption, TagFacts
    DEF Requests, Payload, PlainTags, AllServices
  <2> QED
    BY <2>1, <2>2, <2>3, SysSendType, NodeFacts, CallFacts
<1>2. CASE SysSend
  <2>1. current_thread \in Tcb
    BY <1>2, RunningFacts DEF SysSend
  <2>2. PICK t \in Known \ {current_thread} : sys_send(t, Plain("mail"), User)
    BY <1>2 DEF SysSend
  <2>3. t \in Tcb /\ Plain("mail") \in Payload
    BY <2>2, PayloadFacts, TagFacts DEF Known
  <2> QED
    BY <2>1, <2>2, <2>3, SysSendType, CallFacts
<1>3. CASE SysSendPending
  <2> DEFINE c == call[current_thread]
  <2>1. current_thread \in Tcb /\ c.peer \in Tcb /\ c.msg \in Payload
    BY <1>3, RunningFacts, CallFacts DEF SysSendPending
  <2>2. PICK next \in CallState : sys_send(c.peer, c.msg, next)
    BY <1>3, CallFacts DEF SysSendPending
  <2> QED
    BY <2>1, <2>2, SysSendType
<1>4. CASE SysRecv
  <2>1. current_thread \in Tcb
    BY <1>4, RunningFacts DEF SysRecv
  <2>2. PICK s \in Known \union {NULL} : sys_recv(s)
    BY <1>4 DEF SysRecv
  <2> QED
    BY <2>1, <2>2, SysRecvType DEF Known
<1>5. CASE SysRecvPending
  <2>1. current_thread \in Tcb /\ call[current_thread].peer \in Tcb \union {NULL}
    BY <1>5, RunningFacts, CallFacts DEF SysRecvPending
  <2> QED
    BY <1>5, <2>1, SysRecvType DEF SysRecvPending
<1>6. CASE SysPassup \/ TlbTrap \/ PgmTrap
  <2>1. current_thread \in Tcb
    BY <1>6, RunningFacts DEF SysPassup, TlbTrap, PgmTrap
  <2> QED
    BY <1>6, <2>1, PassUpType DEF SysPassup, TlbTrap, PgmTrap, Kinds
<1>7. CASE SysZero \/ Breakpoint
  BY <1>7 DEF SysZero, Breakpoint, TypeOK, mail, families, CpuStates
<1> QED
  BY <1>1, <1>2, <1>3, <1>4, <1>5, <1>6, <1>7 DEF ExceptionsNext

\* All services.
LEMMA SsiType ==
  ASSUME TypeOK, SsiNext
  PROVE  TypeOK'
BY QueryType, CreateProcessType, CreateThreadType, TerminateProcessType,
   TerminateThreadType, SetManagerType, DoIoType,
   ReapThreadType, ReapChildType, ReapProcType, ReapDoneType
   DEF SsiNext, Killers

(*-------------------------- interrupts, scheduler ----------------------*)

\* The SSI is made to answer a thread that comes back from where it was parked.
LEMMA ResumedType ==
  ASSUME TypeOK, NEW s \in SchedType, NEW t \in Tcb, NEW tag \in PlainTags,
         sched' = sent(resumed(s, t), SSI, t),
         sys_send_msg(SSI, t, Plain(tag), call)
  PROVE  /\ sched' \in SchedType
         /\ call' \in [Tcb -> CallState]
         /\ t_msgq' \in [Tcb -> Seq(Message)]
         /\ free_msg' \in Nat
         /\ err_numb' \in [Tcb -> Errors]
<1>1. resumed(s, t) \in SchedType
  BY QueueType DEF Heads
<1>2. sched' \in SchedType
  BY <1>1, SentType
<1>3. Plain(tag) \in Payload /\ SSI \in Tcb /\ call \in [Tcb -> CallState]
  BY PayloadFacts, NodeFacts DEF TypeOK
<1> QED
  BY <1>2, <1>3, SendMsgType

\* The timer and the devices.
LEMMA InterruptsType ==
  ASSUME TypeOK, InterruptsNext
  PROVE  TypeOK'
<1>1. CASE SliceOver
  <2>1. sched' \in SchedType
    BY <1>1, QueueType DEF SliceOver, TypeOK, Heads
  <2> QED
    BY <1>1, <2>1 DEF SliceOver, Reschedule, TypeOK, mail, families, CpuStates
<1>2. CASE Tick
  BY <1>2 DEF Tick, TypeOK, mail, families, CpuStates
<1>3. ASSUME NEW d \in Devices, DeviceInterrupt(d)
      PROVE  TypeOK'
  <2> DEFINE t == device_list[d]
  <2>1. t \in Tcb
    BY <1>3 DEF DeviceInterrupt, TypeOK
  <2>2. /\ sched' = sent(resumed(sched, t), SSI, t)
        /\ sys_send_msg(SSI, t, Plain("status"), call)
        /\ device_list' = [device_list EXCEPT ![d] = NULL]
        /\ cpu' = "sched"
        /\ UNCHANGED <<current_thread, t_wait4sender, families, manager, reap>>
    BY <1>3, Zenon DEF DeviceInterrupt
  <2> HIDE DEF t
  <2>3. /\ sched' \in SchedType
        /\ call' \in [Tcb -> CallState]
        /\ t_msgq' \in [Tcb -> Seq(Message)]
        /\ free_msg' \in Nat
        /\ err_numb' \in [Tcb -> Errors]
    BY <2>1, <2>2, ResumedType, TagFacts DEF TypeOK
  <2> QED
    BY <2>2, <2>3 DEF TypeOK, families, CpuStates
<1> QED
  BY <1>1, <1>2, <1>3 DEF InterruptsNext

\* The scheduler.
LEMMA SchedulerType ==
  ASSUME TypeOK, SchedulerNext
  PROVE  TypeOK'
<1>1. CASE ClockExpire
  <2> DEFINE t == thread_qhead(sched, clock)
             s == thread_dequeue(sched, clock)
  <2>1. CASE t \notin Tcb /\ Crash
    BY <2>1, CrashType
  <2>2. CASE /\ t \in Tcb
             /\ sched' = sent(resumed(s, t), SSI, t)
             /\ sys_send_msg(SSI, t, Plain("tick"), call)
             /\ UNCHANGED <<current_thread, cpu, t_wait4sender, families, manager,
                            device_list, reap>>
    <3>1. s \in SchedType
      BY QueueType, NodeFacts DEF TypeOK, clock, Heads
    <3> HIDE DEF t, s
    <3>2. /\ sched' \in SchedType
          /\ call' \in [Tcb -> CallState]
          /\ t_msgq' \in [Tcb -> Seq(Message)]
          /\ free_msg' \in Nat
          /\ err_numb' \in [Tcb -> Errors]
      BY <2>2, <3>1, ResumedType, TagFacts
    <3> QED
      BY <2>2, <3>2 DEF TypeOK, families
  <2> QED
    BY <1>1, <2>1, <2>2, Zenon DEF ClockExpire
<1>2. CASE Halt \/ Panic \/ Wait \/ FallThrough
  BY <1>2 DEF Halt, Panic, Wait, FallThrough, Stop, TypeOK, mail, families, CpuStates
<1>3. CASE Resume
  BY <1>3 DEF Resume, TypeOK, mail, families, CpuStates
<1>4. CASE Dispatch
  <2> DEFINE t == thread_qhead(sched, "ready_queue")
  <2>1. CASE Crash
    BY <2>1, CrashType
  <2>2. CASE /\ t \in Tcb
             /\ sched' = thread_dequeue(sched, "ready_queue")
             /\ current_thread' = t
             /\ cpu' = "run"
             /\ UNCHANGED <<call, mail, families, manager, device_list, reap>>
    <3>1. sched' \in SchedType
      BY <2>2, QueueType, NodeFacts DEF TypeOK, Heads
    <3> QED
      BY <2>2, <3>1, NodeFacts DEF TypeOK, mail, families, CpuStates
  <2> QED
    BY <1>4, <2>1, <2>2, Zenon DEF Dispatch
<1> QED
  BY <1>1, <1>2, <1>3, <1>4 DEF SchedulerNext

\* What main() builds.
LEMMA InitType == Init => TypeOK
<1> SUFFICES ASSUME Init PROVE TypeOK
  OBVIOUS
<1>1. SSI \in Tcb /\ test_thread \in Tcb /\ root \in Pcb /\ test_proc \in Pcb
  BY NodeFacts
<1>2. 0 \in -CountBound..CountBound
  BY BoundAssumption
<1>3. Alone \in SchedType
  BY <1>2 DEF Alone, SchedType, Status
<1>4. sched \in SchedType
  BY <1>1, <1>3, QueueType DEF Init, Heads
<1>5. NoReap \in ReapType
  BY CallFacts DEF NoReap, ReapType
<1>6. call \in [Tcb -> CallState]
  BY CallFacts DEF Init
<1>7. /\ p_threads \in [Pcb -> Seq(Tcb)] /\ p_children \in [Pcb -> Seq(Pcb)]
  BY <1>1 DEF Init
<1>8. free_thread \in Seq(Tcb) /\ free_proc \in Seq(Pcb)
  <2>1. SubSeq(store_t, 3, Len(store_t)) \in Seq(Tcb)
    BY StoreAssumption
  <2>2. SubSeq(store_p, 3, Len(store_p)) \in Seq(Pcb)
    BY StoreAssumption
  <2> QED
    BY <2>1, <2>2 DEF Init
<1>9. /\ t_pcb \in [Tcb -> Pcb \union {NULL}]
      /\ p_parent \in [Pcb -> Pcb \union {NULL}]
      /\ manager \in [Pcb -> [Kinds -> Tcb \union {NULL}]]
      /\ t_wait4sender \in [Tcb -> Tcb \union {NULL}]
      /\ device_list \in [Devices -> Tcb \union {NULL}]
      /\ err_numb \in [Tcb -> Errors]
  BY <1>1 DEF Init, Errors
<1>10. t_msgq \in [Tcb -> Seq(Message)]
  BY DEF Init
<1>11. free_msg \in Nat
  BY BoundAssumption DEF Init
<1>12. reap \in [{"ssi", "nucleus"} -> ReapType]
  BY <1>5 DEF Init
<1> QED
  BY <1>4, <1>6, <1>7, <1>8, <1>9, <1>10, <1>11, <1>12 DEF Init, TypeOK, CpuStates

\* Every step of the nucleus keeps the types.
LEMMA TypeStep ==
  ASSUME TypeOK, [Next]_vars
  PROVE  TypeOK'
<1>1. CASE Next
  BY <1>1, SsiType, ExceptionsType, InterruptsType, SchedulerType DEF Next
<1>2. CASE UNCHANGED vars
  BY <1>2 DEF vars, mail, families, TypeOK
<1> QED
  BY <1>1, <1>2

\* The type invariant, for any number of threads, processes, messages and
\* devices: no operation of the nucleus leaves its tables.
THEOREM TypeCorrect == Spec => []TypeOK
<1>1. Init => TypeOK
  BY InitType
<1>2. TypeOK /\ [Next]_vars => TypeOK'
  BY TypeStep
<1> QED
  BY <1>1, <1>2, PTL DEF Spec

(*-------------------------- lists without repetition -------------------*)

\* What is left where a sequence loses its i-th element.
LEMMA RemoveAtElements ==
  ASSUME NEW S, NEW q \in Seq(S), NEW i \in 1..Len(q)
  PROVE  /\ RemoveAt(q, i) \in Seq(S)
         /\ Len(RemoveAt(q, i)) = Len(q) - 1
         /\ \A j \in 1..(Len(q) - 1) :
              RemoveAt(q, i)[j] = IF j < i THEN q[j] ELSE q[j + 1]
<1> DEFINE a == SubSeq(q, 1, i - 1)
           b == SubSeq(q, i + 1, Len(q))
<1>1. Len(q) \in Nat
  OBVIOUS
<1>2. /\ a \in Seq(S) /\ Len(a) = i - 1
      /\ \A j \in 1..(i - 1) : a[j] = q[j]
  BY <1>1
<1>3. /\ b \in Seq(S) /\ Len(b) = Len(q) - i
      /\ \A j \in 1..(Len(q) - i) : b[j] = q[i + j]
  BY <1>1
<1> HIDE DEF a, b
<1>4. /\ a \o b \in Seq(S) /\ Len(a \o b) = Len(q) - 1
      /\ \A j \in 1..(Len(q) - 1) :
           (a \o b)[j] = IF j <= Len(a) THEN a[j] ELSE b[j - Len(a)]
  <2>1. Len(a) + Len(b) = Len(q) - 1
    BY <1>1, <1>2, <1>3
  <2>2. /\ a \o b \in Seq(S) /\ Len(a \o b) = Len(a) + Len(b)
        /\ \A j \in 1..(Len(a) + Len(b)) :
             (a \o b)[j] = IF j <= Len(a) THEN a[j] ELSE b[j - Len(a)]
    BY <1>2, <1>3, ConcatProperties
  <2> QED
    BY <2>1, <2>2
<1>5. ASSUME NEW j \in 1..(Len(q) - 1)
      PROVE  (a \o b)[j] = IF j < i THEN q[j] ELSE q[j + 1]
  <2>1. CASE j < i
    BY <1>1, <1>2, <1>4, <2>1
  <2>2. CASE ~(j < i)
    <3>1. (a \o b)[j] = b[j - (i - 1)]
      BY <1>1, <1>2, <1>4, <2>2
    <3>2. b[j - (i - 1)] = q[i + (j - (i - 1))]
      BY <1>1, <1>3, <2>2
    <3> QED
      BY <1>1, <2>2, <3>1, <3>2
  <2> QED
    BY <2>1, <2>2
<1> QED
  BY <1>4, <1>5 DEF RemoveAt, a, b

\* Taking e out of a list without repetition takes out e and nothing else.
LEMMA RemoveFirstElements ==
  ASSUME NEW S, NEW q \in Seq(S), IsInjective(q), NEW e
  PROVE  /\ IsInjective(RemoveFirst(q, e))
         /\ \A x : Contains(RemoveFirst(q, e), x) <=> Contains(q, x) /\ x # e
<1>0. Len(q) \in Nat /\ DOMAIN q = 1..Len(q)
  OBVIOUS
<1>1. CASE Contains(q, e)
  <2>1. PICK i \in 1..Len(q) : q[i] = e /\ RemoveFirst(q, e) = RemoveAt(q, i)
    <3> DEFINE I == {j \in 1..Len(q) : q[j] = e}
    <3>1. I # {} /\ I \in SUBSET (1..Len(q))
      BY <1>1 DEF Contains
    <3>2. (CHOOSE j \in I : \A k \in I : j <= k) \in I
      <4> HIDE DEF I
      <4> QED
        BY <1>0, <3>1, LeastIndex
    <3>3. SelectInSeq(q, LAMBDA v : v = e) \in I
      BY <3>1, <3>2 DEF SelectInSeq, Min
    <3>4. RemoveFirst(q, e) = RemoveAt(q, SelectInSeq(q, LAMBDA v : v = e))
      BY <1>1 DEF RemoveFirst, Contains
    <3> QED
      BY <3>3, <3>4
  <2> DEFINE r == RemoveAt(q, i)
  <2>2. /\ r \in Seq(S) /\ Len(r) = Len(q) - 1 /\ DOMAIN r = 1..Len(r)
        /\ \A j \in 1..(Len(q) - 1) : r[j] = IF j < i THEN q[j] ELSE q[j + 1]
    BY RemoveAtElements
  <2>3. \A j, k \in 1..Len(q) : q[j] = q[k] => j = k
    BY <1>0 DEF IsInjective
  <2> HIDE DEF r
  <2>4. IsInjective(r)
    <3>1. \A j \in 1..Len(r) : \E k \in 1..Len(q) :
            k = (IF j < i THEN j ELSE j + 1) /\ r[j] = q[k]
      BY <1>0, <2>2
    <3>2. ASSUME NEW j \in 1..Len(r), NEW k \in 1..Len(r), r[j] = r[k]
          PROVE  j = k
      <4>1. PICK a \in 1..Len(q) : a = (IF j < i THEN j ELSE j + 1) /\ r[j] = q[a]
        BY <3>1
      <4>2. PICK b \in 1..Len(q) : b = (IF k < i THEN k ELSE k + 1) /\ r[k] = q[b]
        BY <3>1
      <4>3. a = b
        BY <2>3, <3>2, <4>1, <4>2
      <4> QED
        BY <1>0, <2>2, <4>1, <4>2, <4>3
    <3> QED
      BY <2>2, <3>2 DEF IsInjective
  <2>5. ASSUME NEW x, Contains(r, x)
        PROVE  Contains(q, x) /\ x # e
    <3>1. PICK j \in 1..(Len(q) - 1) : r[j] = x
      BY <1>0, <2>2, <2>5 DEF Contains
    <3>2. PICK k \in 1..Len(q) : q[k] = x /\ k # i
      <4>1. CASE j < i
        <5>1. j \in 1..Len(q) /\ q[j] = x /\ j # i
          BY <1>0, <2>2, <3>1, <4>1
        <5> QED
          BY <5>1
      <4>2. CASE ~(j < i)
        <5>1. j + 1 \in 1..Len(q) /\ q[j + 1] = x /\ j + 1 # i
          BY <1>0, <2>2, <3>1, <4>2
        <5> QED
          BY <5>1
      <4> QED
        BY <4>1, <4>2
    <3> QED
      BY <2>1, <2>3, <3>2 DEF Contains
  <2>6. ASSUME NEW x, Contains(q, x), x # e
        PROVE  Contains(r, x)
    <3>1. PICK k \in 1..Len(q) : q[k] = x
      BY <2>6 DEF Contains
    <3>2. k # i
      BY <2>1, <2>6, <3>1
    <3>3. CASE k < i
      <4>1. k \in 1..Len(r) /\ r[k] = x
        BY <1>0, <2>2, <3>1, <3>3
      <4> QED
        BY <4>1 DEF Contains
    <3>4. CASE k > i
      <4>1. k - 1 \in 1..Len(r) /\ r[k - 1] = x
        BY <1>0, <2>2, <3>1, <3>4
      <4> QED
        BY <4>1 DEF Contains
    <3> QED
      BY <1>0, <3>2, <3>3, <3>4
  <2> QED
    BY <2>1, <2>4, <2>5, <2>6 DEF r
<1>2. CASE ~Contains(q, e)
  <2>1. RemoveFirst(q, e) = q
    BY <1>2 DEF RemoveFirst, Contains
  <2> QED
    BY <1>2, <2>1
<1> QED
  BY <1>1, <1>2

\* Adding x at either end of a list it is not on.
LEMMA AddElement ==
  ASSUME NEW S, NEW q \in Seq(S), IsInjective(q), NEW x \in S, ~Contains(q, x)
  PROVE  /\ IsInjective(Append(q, x))
         /\ \A y : Contains(Append(q, x), y) <=> Contains(q, y) \/ y = x
         /\ IsInjective(<<x>> \o q)
         /\ \A y : Contains(<<x>> \o q, y) <=> Contains(q, y) \/ y = x
<1>0. Len(q) \in Nat /\ DOMAIN q = 1..Len(q)
  OBVIOUS
<1>1. \A j, k \in 1..Len(q) : q[j] = q[k] => j = k
  BY <1>0 DEF IsInjective
<1>2. \A j \in 1..Len(q) : q[j] # x
  BY DEF Contains
<1> DEFINE a == Append(q, x)
           c == <<x>> \o q
<1>3. /\ Len(a) = Len(q) + 1 /\ DOMAIN a = 1..Len(a)
      /\ \A j \in 1..Len(q) : a[j] = q[j]
      /\ a[Len(q) + 1] = x
  BY <1>0
<1>4. /\ Len(c) = Len(q) + 1 /\ DOMAIN c = 1..Len(c)
      /\ \A j \in 1..Len(q) : c[j + 1] = q[j]
      /\ c[1] = x
  <2>1. <<x>> \in Seq(S) /\ Len(<<x>>) = 1 /\ <<x>>[1] = x
    OBVIOUS
  <2>2. /\ c \in Seq(S) /\ Len(c) = 1 + Len(q)
        /\ \A j \in 1..(1 + Len(q)) : c[j] = IF j <= 1 THEN <<x>>[j] ELSE q[j - 1]
    BY <1>0, <2>1, ConcatProperties
  <2> HIDE DEF c
  <2>3. ASSUME NEW j \in 1..Len(q) PROVE c[j + 1] = q[j]
    <3>1. j + 1 \in 1..(1 + Len(q)) /\ ~(j + 1 <= 1) /\ (j + 1) - 1 = j
      BY <1>0
    <3> QED
      BY <2>2, <3>1
  <2>4. c[1] = x
    BY <1>0, <2>1, <2>2
  <2> QED
    BY <1>0, <2>2, <2>3, <2>4
<1> HIDE DEF a, c
<1>5. IsInjective(a)
  BY <1>0, <1>1, <1>2, <1>3 DEF IsInjective
<1>6. IsInjective(c)
  <2>1. \A j \in 1..Len(c) : j = 1 \/ (j - 1 \in 1..Len(q) /\ c[j] = q[j - 1])
    <3> TAKE j \in 1..Len(c)
    <3>1. CASE j # 1
      <4>1. j - 1 \in 1..Len(q) /\ (j - 1) + 1 = j
        BY <1>0, <1>4, <3>1
      <4> QED
        BY <1>4, <4>1
    <3> QED
      BY <3>1
  <2> QED
    BY <1>0, <1>1, <1>2, <1>4, <2>1 DEF IsInjective
<1>7. \A y : Contains(a, y) <=> Contains(q, y) \/ y = x
  BY <1>0, <1>3 DEF Contains
<1>8. ASSUME NEW y PROVE Contains(c, y) <=> Contains(q, y) \/ y = x
  <2>1. ASSUME Contains(c, y), y # x PROVE Contains(q, y)
    <3>1. PICK j \in 1..Len(c) : c[j] = y
      BY <2>1 DEF Contains
    <3>2. j - 1 \in 1..Len(q) /\ (j - 1) + 1 = j
      BY <1>0, <1>4, <2>1, <3>1
    <3> QED
      BY <1>4, <3>1, <3>2 DEF Contains
  <2>2. ASSUME Contains(q, y) PROVE Contains(c, y)
    <3>1. PICK j \in 1..Len(q) : q[j] = y
      BY <2>2 DEF Contains
    <3>2. j + 1 \in 1..Len(c) /\ c[j + 1] = y
      BY <1>0, <1>4, <3>1
    <3> QED
      BY <3>2 DEF Contains
  <2>3. Contains(c, x)
    BY <1>0, <1>4 DEF Contains
  <2> QED
    BY <2>1, <2>2, <2>3
<1> QED
  BY <1>5, <1>6, <1>7, <1>8 DEF a, c

\* Taking the first one off a list.
LEMMA TailElements ==
  ASSUME NEW S, NEW q \in Seq(S), IsInjective(q), q # <<>>
  PROVE  /\ Contains(q, Head(q))
         /\ IsInjective(Tail(q))
         /\ \A y : Contains(Tail(q), y) <=> Contains(q, y) /\ y # Head(q)
<1>0. Len(q) \in Nat /\ Len(q) # 0 /\ DOMAIN q = 1..Len(q) /\ Head(q) = q[1]
  BY EmptySeq
<1>1. \A j, k \in 1..Len(q) : q[j] = q[k] => j = k
  BY <1>0 DEF IsInjective
<1> DEFINE r == Tail(q)
<1>2. /\ Len(r) = Len(q) - 1 /\ DOMAIN r = 1..Len(r)
      /\ \A j \in 1..Len(r) : r[j] = q[j + 1]
  BY <1>0
<1> HIDE DEF r
<1>3. IsInjective(r)
  BY <1>0, <1>1, <1>2 DEF IsInjective
<1>4. ASSUME NEW y PROVE Contains(r, y) <=> Contains(q, y) /\ y # Head(q)
  <2>1. ASSUME Contains(r, y) PROVE Contains(q, y) /\ y # q[1]
    <3>1. PICK j \in 1..Len(r) : r[j] = y
      BY <2>1 DEF Contains
    <3>2. j + 1 \in 1..Len(q) /\ q[j + 1] = y /\ j + 1 # 1
      BY <1>0, <1>2, <3>1
    <3>3. 1 \in 1..Len(q)
      BY <1>0
    <3> QED
      BY <1>1, <3>2, <3>3 DEF Contains
  <2>2. ASSUME Contains(q, y), y # q[1] PROVE Contains(r, y)
    <3>1. PICK j \in 1..Len(q) : q[j] = y
      BY <2>2 DEF Contains
    <3>2. j - 1 \in 1..Len(r) /\ (j - 1) + 1 = j
      BY <1>0, <1>2, <2>2, <3>1
    <3> QED
      BY <1>2, <3>1, <3>2 DEF Contains
  <2> QED
    BY <1>0, <2>1, <2>2
<1>5. Contains(q, Head(q))
  BY <1>0 DEF Contains
<1> QED
  BY <1>3, <1>4, <1>5 DEF r

(*------------------------- the operations on families ------------------*)

\* thread_free: the thread leaves its family for the free list.
LEMMA ThreadFreeTree ==
  ASSUME TypeOK, ThreadTree, FreeEmpty, NEW t \in Tcb, thread_free(t)
  PROVE  /\ ThreadTree'
         /\ \A x \in Tcb : t_pcb'[x] \in {t_pcb[x], NULL} /\ (x # t => t_pcb'[x] = t_pcb[x])
         /\ \A p \in Pcb : p_threads[p] = <<>> => p_threads'[p] = <<>>
<1>1. CASE ~can_free(t)
  <2>1. UNCHANGED <<free_thread, p_threads, t_pcb>>
    BY <1>1 DEF thread_free
  <2> QED
    BY <2>1 DEF ThreadTree
<1>2. CASE can_free(t)
  <2>1. /\ free_thread' = <<t>> \o RemoveFirst(free_thread, t)
        /\ p_threads' = [p \in Pcb |-> RemoveFirst(p_threads[p], t)]
        /\ t_pcb' = [t_pcb EXCEPT ![t] = NULL]
    BY <1>2 DEF thread_free
  <2>2. /\ t_pcb'[t] = NULL
        /\ \A x \in Tcb : x # t => t_pcb'[x] = t_pcb[x]
    BY <2>1 DEF TypeOK
  <2>3. /\ IsInjective(free_thread')
        /\ \A x : Contains(free_thread', x) <=> Contains(free_thread, x) \/ x = t
    <3> DEFINE r == RemoveFirst(free_thread, t)
    <3>1. free_thread \in Seq(Tcb) /\ IsInjective(free_thread)
      BY DEF TypeOK, ThreadTree
    <3>2. /\ r \in Seq(Tcb) /\ IsInjective(r)
          /\ \A x : Contains(r, x) <=> Contains(free_thread, x) /\ x # t
      BY <3>1, RemoveFirstType, RemoveFirstElements
    <3> HIDE DEF r
    <3>3. /\ IsInjective(<<t>> \o r)
          /\ \A x : Contains(<<t>> \o r, x) <=> Contains(r, x) \/ x = t
      BY <3>2, AddElement
    <3>4. free_thread' = <<t>> \o r
      BY <2>1 DEF r
    <3> QED
      BY <3>2, <3>3, <3>4
  <2>4. ASSUME NEW p \in Pcb
        PROVE  /\ IsInjective(p_threads'[p])
               /\ \A x : Contains(p_threads'[p], x) <=> Contains(p_threads[p], x) /\ x # t
    <3>1. p_threads[p] \in Seq(Tcb) /\ IsInjective(p_threads[p])
      BY DEF TypeOK, ThreadTree
    <3>2. p_threads'[p] = RemoveFirst(p_threads[p], t)
      BY <2>1
    <3> QED
      BY <3>1, <3>2, RemoveFirstElements
  <2>5. ASSUME NEW p \in Pcb, p_threads[p] = <<>>
        PROVE  p_threads'[p] = <<>>
    <3>1. RemoveFirst(<<>>, t) = <<>>
      BY DEF RemoveFirst
    <3> QED
      BY <2>1, <2>5, <3>1
  <2>6. ThreadTree'
    BY <2>2, <2>3, <2>4, NodeFacts DEF ThreadTree
  <2> QED
    BY <2>2, <2>5, <2>6
<1> QED
  BY <1>1, <1>2

\* thread_alloc: the first free thread joins the family of p.
LEMMA StartThreadTree ==
  ASSUME TypeOK, ThreadTree, NEW p \in Pcb, free_thread # <<>>,
         start_thread(p, Head(free_thread))
  PROVE  /\ ThreadTree'
         /\ t_pcb[Head(free_thread)] = NULL
         /\ t_pcb' = [t_pcb EXCEPT ![Head(free_thread)] = p]
         /\ \A q \in Pcb : q # p => p_threads'[q] = p_threads[q]
<1> DEFINE t == Head(free_thread)
<1>1. free_thread \in Seq(Tcb) /\ IsInjective(free_thread)
  BY DEF TypeOK, ThreadTree
<1>2. /\ Contains(free_thread, t) /\ IsInjective(Tail(free_thread))
      /\ \A x : Contains(Tail(free_thread), x) <=> Contains(free_thread, x) /\ x # t
  BY <1>1, TailElements
<1>3. t \in Tcb
  BY <1>1, SeqFacts
<1> HIDE DEF t
<1>4. /\ free_thread' = Tail(free_thread)
      /\ t_pcb' = [t_pcb EXCEPT ![t] = p]
      /\ p_threads' = [p_threads EXCEPT ![p] = Append(@, t)]
  BY DEF start_thread, t
<1>5. t_pcb[t] = NULL
  BY <1>2, <1>3 DEF ThreadTree
<1>6. p_threads[p] \in Seq(Tcb) /\ IsInjective(p_threads[p]) /\ ~Contains(p_threads[p], t)
  BY <1>3, <1>5, NodeFacts DEF TypeOK, ThreadTree
<1>7. /\ IsInjective(p_threads'[p])
      /\ \A x : Contains(p_threads'[p], x) <=> Contains(p_threads[p], x) \/ x = t
  <2>1. p_threads'[p] = Append(p_threads[p], t)
    BY <1>4 DEF TypeOK
  <2>2. /\ IsInjective(Append(p_threads[p], t))
        /\ \A x : Contains(Append(p_threads[p], t), x) <=> Contains(p_threads[p], x) \/ x = t
    BY <1>3, <1>6, AddElement
  <2> QED
    BY <2>1, <2>2, Zenon
<1>8. \A q \in Pcb : q # p => p_threads'[q] = p_threads[q]
  BY <1>4 DEF TypeOK
<1>9. t_pcb'[t] = p /\ \A x \in Tcb : x # t => t_pcb'[x] = t_pcb[x]
  BY <1>3, <1>4 DEF TypeOK
<1>10. ThreadTree'
  <2>1. IsInjective(free_thread')
    BY <1>2, <1>4
  <2>2. \A q \in Pcb : IsInjective(p_threads'[q])
    BY <1>7, <1>8 DEF ThreadTree
  <2>3. ASSUME NEW x \in Tcb
        PROVE  /\ Contains(free_thread', x) <=> t_pcb'[x] = NULL
               /\ \A q \in Pcb : Contains(p_threads'[q], x) <=> t_pcb'[x] = q
    BY <1>2, <1>4, <1>5, <1>7, <1>8, <1>9, NodeFacts DEF ThreadTree
  <2> QED
    BY <2>1, <2>2, <2>3 DEF ThreadTree
<1> QED
  BY <1>4, <1>5, <1>8, <1>10 DEF t

\* proc_alloc: the first free process becomes the last child of parent.
LEMMA ProcAllocTree ==
  ASSUME TypeOK, ProcTree, NEW parent \in Pcb, free_proc # <<>>,
         proc_alloc(parent, Head(free_proc))
  PROVE  /\ ProcTree'
         /\ Contains(free_proc, Head(free_proc))
         /\ Head(free_proc) \in Pcb /\ Head(free_proc) # root
         /\ \A x : Contains(free_proc', x) <=> Contains(free_proc, x) /\ x # Head(free_proc)
         /\ \A q \in Pcb : q # parent => p_children'[q] = p_children[q]
         /\ \A c \in Pcb : c # Head(free_proc) => p_parent'[c] = p_parent[c]
<1> DEFINE t == Head(free_proc)
<1>1. free_proc \in Seq(Pcb) /\ IsInjective(free_proc)
  BY DEF TypeOK, ProcTree
<1>2. /\ Contains(free_proc, t) /\ IsInjective(Tail(free_proc))
      /\ \A x : Contains(Tail(free_proc), x) <=> Contains(free_proc, x) /\ x # t
  BY <1>1, TailElements
<1>3. t \in Pcb
  BY <1>1, SeqFacts
<1> HIDE DEF t
<1>4. /\ free_proc' = Tail(free_proc)
      /\ p_parent' = [p_parent EXCEPT ![t] = parent]
      /\ p_children' = [p_children EXCEPT ![parent] = Append(@, t)]
  BY DEF proc_alloc, t
<1>5. t # root /\ p_parent[t] = NULL
  BY <1>2, <1>3 DEF ProcTree
<1>6. p_children[parent] \in Seq(Pcb) /\ IsInjective(p_children[parent]) /\ ~Contains(p_children[parent], t)
  BY <1>3, <1>5, NodeFacts DEF TypeOK, ProcTree
<1>7. /\ IsInjective(p_children'[parent])
      /\ \A x : Contains(p_children'[parent], x) <=> Contains(p_children[parent], x) \/ x = t
  <2>1. p_children'[parent] = Append(p_children[parent], t)
    BY <1>4 DEF TypeOK
  <2>2. /\ IsInjective(Append(p_children[parent], t))
        /\ \A x : Contains(Append(p_children[parent], t), x) <=> Contains(p_children[parent], x) \/ x = t
    BY <1>3, <1>6, AddElement
  <2> QED
    BY <2>1, <2>2, Zenon
<1>8. \A q \in Pcb : q # parent => p_children'[q] = p_children[q]
  BY <1>4 DEF TypeOK
<1>9. p_parent'[t] = parent /\ \A x \in Pcb : x # t => p_parent'[x] = p_parent[x]
  BY <1>3, <1>4 DEF TypeOK
<1>10. ProcTree'
  <2>1. IsInjective(free_proc')
    BY <1>2, <1>4
  <2>2. \A q \in Pcb : IsInjective(p_children'[q])
    BY <1>7, <1>8 DEF ProcTree
  <2>3. ASSUME NEW x \in Pcb
        PROVE  /\ Contains(free_proc', x) <=> x # root /\ p_parent'[x] = NULL
               /\ \A q \in Pcb : Contains(p_children'[q], x) <=> p_parent'[x] = q
    BY <1>2, <1>4, <1>5, <1>7, <1>8, <1>9, NodeFacts DEF ProcTree
  <2> QED
    BY <2>1, <2>2, <2>3 DEF ProcTree
<1> QED
  BY <1>2, <1>3, <1>4, <1>5, <1>8, <1>9, <1>10 DEF t

\* proc_delete: a process other than the root becomes the first free one.
LEMMA ProcDeleteTree ==
  ASSUME TypeOK, ProcTree, NEW t \in Pcb, t # root, proc_delete(t)
  PROVE  /\ ProcTree'
         /\ \A x : Contains(free_proc', x) <=> Contains(free_proc, x) \/ x = t
         /\ \A p \in Pcb : p_children[p] = <<>> => p_children'[p] = <<>>
         /\ \A c \in Pcb : p_parent'[c] \in {p_parent[c], NULL}
<1>1. /\ free_proc' = <<t>> \o RemoveFirst(free_proc, t)
      /\ p_children' = [p \in Pcb |-> RemoveFirst(p_children[p], t)]
      /\ p_parent' = [p_parent EXCEPT ![t] = NULL]
  BY DEF proc_delete
<1>2. /\ p_parent'[t] = NULL
      /\ \A x \in Pcb : x # t => p_parent'[x] = p_parent[x]
  BY <1>1 DEF TypeOK
<1>3. /\ IsInjective(free_proc')
      /\ \A x : Contains(free_proc', x) <=> Contains(free_proc, x) \/ x = t
  <2> DEFINE r == RemoveFirst(free_proc, t)
  <2>1. free_proc \in Seq(Pcb) /\ IsInjective(free_proc)
    BY DEF TypeOK, ProcTree
  <2>2. /\ r \in Seq(Pcb) /\ IsInjective(r)
        /\ \A x : Contains(r, x) <=> Contains(free_proc, x) /\ x # t
    BY <2>1, RemoveFirstType, RemoveFirstElements
  <2> HIDE DEF r
  <2>3. /\ IsInjective(<<t>> \o r)
        /\ \A x : Contains(<<t>> \o r, x) <=> Contains(r, x) \/ x = t
    BY <2>2, AddElement
  <2>4. free_proc' = <<t>> \o r
    BY <1>1 DEF r
  <2> QED
    BY <2>2, <2>3, <2>4
<1>4. ASSUME NEW p \in Pcb
      PROVE  /\ IsInjective(p_children'[p])
             /\ \A x : Contains(p_children'[p], x) <=> Contains(p_children[p], x) /\ x # t
  <2>1. p_children[p] \in Seq(Pcb) /\ IsInjective(p_children[p])
    BY DEF TypeOK, ProcTree
  <2>2. p_children'[p] = RemoveFirst(p_children[p], t)
    BY <1>1
  <2> QED
    BY <2>1, <2>2, RemoveFirstElements
<1>5. ASSUME NEW p \in Pcb, p_children[p] = <<>>
      PROVE  p_children'[p] = <<>>
  <2>1. RemoveFirst(<<>>, t) = <<>>
    BY DEF RemoveFirst
  <2> QED
    BY <1>1, <1>5, <2>1
<1>6. ProcTree'
  BY <1>2, <1>3, <1>4, NodeFacts DEF ProcTree
<1> QED
  BY <1>2, <1>3, <1>5, <1>6

(*--------------------------- the inductive invariant -------------------*)

\* What FamilyTree needs besides itself: the root process and the SSI are
\* never killed.  The SSI serves nobody's request but a client's, it returns
\* from a receive and from an extermination to a call of its own, nobody can
\* name the root, and the root is nobody's child.
SsiCall(c) ==
  /\ c.op # "user"
  /\ c.op = "recv" => c.peer = NULL
  /\ c.op = "send" => c.msg.tag \notin AllServices
  /\ c.op = "serve" /\ c.msg.tag \in AllServices => c.peer # SSI

Returns == call[SSI].op = "reap" => SsiCall(reap["ssi"].after) /\ reap["ssi"].after.op # "reap"

Requested(q) ==
  \A i \in DOMAIN q : q[i].msg.tag \in AllServices => q[i].from # SSI

SsiHolds == SsiCall(call[SSI]) /\ Returns /\ t_wait4sender[SSI] = NULL /\ Requested(t_msgq[SSI])

Spares(r) == \A i \in DOMAIN r.procs : r.procs[i] # root

RootHolds ==
  /\ t_pcb[SSI] = root /\ \A t \in Tcb : t # SSI => t_pcb[t] # root
  /\ p_parent[root] = NULL
  /\ Spares(reap["ssi"]) /\ Spares(reap["nucleus"])

FamilyInv == TypeOK /\ FamilyTree /\ SsiHolds /\ RootHolds

\* Steps that touch no family and start, advance or end no extermination.
LEMMA FamiliesKept ==
  ASSUME FamilyTree, RootHolds,
         UNCHANGED <<t_pcb, p_threads, free_thread, p_parent, p_children, free_proc, reap>>
  PROVE  FamilyTree' /\ RootHolds'
BY DEF FamilyTree, ThreadTree, ProcTree, FreeEmpty, RootHolds, Spares

\* Steps that touch nothing of the SSI.
LEMMA SsiKept ==
  ASSUME SsiHolds, call'[SSI] = call[SSI], t_wait4sender'[SSI] = t_wait4sender[SSI],
         t_msgq'[SSI] = t_msgq[SSI], reap'["ssi"].after = reap["ssi"].after
  PROVE  SsiHolds'
BY DEF SsiHolds, SsiCall, Returns, Requested

\* A processor that has run away changes no family.
LEMMA CrashFamily ==
  ASSUME FamilyInv, Crash
  PROVE  FamilyTree' /\ SsiHolds' /\ RootHolds'
BY FamiliesKept, SsiKept DEF FamilyInv, Crash, mail, families

\* sys_send_msg leaves the SSI with a call of its own and with requests of clients.
LEMMA SendSsi ==
  ASSUME TypeOK, Requested(t_msgq[SSI]), NEW from \in Tcb, NEW to \in Tcb,
         NEW m \in Payload, NEW c \in [Tcb -> CallState], SsiCall(c[SSI]),
         from = SSI => m.tag \notin AllServices, sys_send_msg(from, to, m, c)
  PROVE  /\ SsiCall(call'[SSI])
         /\ call'[SSI].op = "reap" => c[SSI].op = "reap"
         /\ Requested(t_msgq'[SSI])
<1>0. SSI \in Tcb
  BY NodeFacts
<1>1. CASE /\ call' = [c EXCEPT ![to] = Received(to, from, m)]
           /\ UNCHANGED <<t_msgq, free_msg, err_numb>>
  <2>1. CASE to = SSI
    <3>1. call'[SSI] = Serve(from, m)
      BY <1>0, <1>1, <2>1 DEF Received
    <3>2. SsiCall(Serve(from, m)) /\ Serve(from, m).op = "serve"
      BY DEF Serve, SsiCall
    <3> QED
      BY <1>1, <3>1, <3>2
  <2>2. CASE to # SSI
    BY <1>0, <1>1, <2>2
  <2> QED
    BY <2>1, <2>2
<1>2. CASE msgq_add(from, to, m) /\ call' = c
  <2>1. CASE to = SSI
    <3> DEFINE e == [from |-> from, msg |-> m]
               q == t_msgq[SSI]
    <3>1. q \in Seq(Message) /\ t_msgq'[SSI] = Append(q, e)
      BY <1>0, <1>2, <2>1 DEF msgq_add, TypeOK
    <3>2. e.msg.tag \in AllServices => e.from # SSI
      OBVIOUS
    <3> HIDE DEF e, q
    <3>3. \A i \in DOMAIN Append(q, e) :
             \/ (i \in DOMAIN q /\ Append(q, e)[i] = q[i])
             \/ Append(q, e)[i] = e
      BY <3>1
    <3>4. Requested(Append(q, e))
      <4>1. Requested(q)
        BY DEF q
      <4> QED
        BY <3>2, <3>3, <4>1 DEF Requested
    <3> QED
      BY <1>2, <3>1, <3>4
  <2>2. CASE to # SSI
    <3>1. t_msgq'[SSI] = t_msgq[SSI]
      BY <1>0, <1>2, <2>2 DEF msgq_add, TypeOK
    <3> QED
      BY <1>2, <3>1
  <2> QED
    BY <2>1, <2>2
<1>3. CASE call' = c /\ UNCHANGED <<t_msgq, free_msg>>
  BY <1>3
<1> QED
  BY <1>1, <1>2, <1>3, Zenon DEF sys_send_msg

(*------------------------------ extermination --------------------------*)

\* A search of a list ends at a goal or nowhere.
LEMMA ListFind ==
  ASSUME NEW L, NEW head, NEW Goal, NEW Nowhere
  PROVE  list_find(L, head, Goal, Nowhere) \in Goal \union {Nowhere}
<1> DEFINE at    == list_cursor(L, head)
           hits  == {i \in DOMAIN at : at[i] \in Goal}
           first == {i \in hits : \A j \in hits : i <= j}
<1>1. first # {} => (CHOOSE i \in first : TRUE) \in hits
  OBVIOUS
<1>2. list_find(L, head, Goal, Nowhere) =
        IF first = {} THEN Nowhere ELSE at[CHOOSE i \in first : TRUE]
  BY Zenon DEF list_find
<1> QED
  BY <1>1, <1>2

\* check_death never finds the SSI, which waits for nobody in particular.
LEMMA CheckDeathFacts ==
  ASSUME TypeOK, SsiHolds, NEW t \in Tcb
  PROVE  check_death(t) # SSI
<1>1. check_death(t) \in {x \in Tcb : t_wait4sender[x] = t} \union Heads \union {NULL}
  BY ListFind DEF check_death
<1>2. SSI \in Tcb /\ SSI \notin Heads /\ NULL # SSI /\ NULL # t
  BY NodeFacts, StoreAssumption
<1> QED
  BY <1>1, <1>2 DEF SsiHolds

\* The killing of a client does not move the SSI.
LEMMA ExterminateSsi ==
  ASSUME TypeOK, SsiHolds, NEW t \in Tcb, t # SSI, NEW loop \in BOOLEAN,
         NEW c \in [Tcb -> CallState], exterminate(t, loop, c)
  PROVE  call'[SSI] = c[SSI] /\ thread_free(t)
<1> DEFINE w    == check_death(t)
           back == IF w \in Tcb THEN [c EXCEPT ![w] = User] ELSE c
<1>1. /\ thread_free(t)
      /\ call' = IF can_free(t) THEN [back EXCEPT ![t] = User] ELSE back
  BY Zenon DEF exterminate
<1>2. w # SSI /\ SSI \in Tcb
  BY CheckDeathFacts, NodeFacts
<1> HIDE DEF w
<1>3. back \in [Tcb -> CallState] /\ back[SSI] = c[SSI]
  BY <1>2, CallFacts
<1> QED
  BY <1>1, <1>2, <1>3

\* A thread that dies leaves the families sound.
LEMMA ThreadFreeFamily ==
  ASSUME TypeOK, FamilyTree, RootHolds, NEW t \in Tcb, t # SSI, thread_free(t),
         UNCHANGED <<p_parent, p_children, free_proc>>
  PROVE  /\ FamilyTree'
         /\ t_pcb'[SSI] = root /\ \A x \in Tcb : x # SSI => t_pcb'[x] # root
         /\ p_parent'[root] = NULL
<1>1. /\ ThreadTree'
      /\ \A x \in Tcb : t_pcb'[x] \in {t_pcb[x], NULL} /\ (x # t => t_pcb'[x] = t_pcb[x])
      /\ \A p \in Pcb : p_threads[p] = <<>> => p_threads'[p] = <<>>
  BY ThreadFreeTree DEF FamilyTree
<1>2. ProcTree'
  BY DEF FamilyTree, ProcTree
<1>3. FreeEmpty'
  BY <1>1 DEF FamilyTree, FreeEmpty
<1> QED
  BY <1>1, <1>2, <1>3, NodeFacts DEF FamilyTree, RootHolds

\* ssi_terminate_thread of a client, by the SSI or by a trap handler.
LEMMA TerminateFamily ==
  ASSUME FamilyInv, NEW t \in Tcb, t # SSI, NEW who \in Killers, NEW after \in CallState,
         who = "ssi" => SsiCall(after) /\ after.op # "reap",
         terminate_thread(t, who, after)
  PROVE  FamilyTree' /\ SsiHolds' /\ RootHolds'
<1>0. /\ TypeOK /\ FamilyTree /\ SsiHolds /\ RootHolds
      /\ SSI \in Tcb /\ reap \in [Killers -> ReapType]
  BY NodeFacts DEF FamilyInv, TypeOK, Killers
<1>1. CASE terminate_astray(t)
  BY <1>1, CrashFamily DEF terminate_astray
<1>2. CASE ssi_terminate_thread(t, who, after)
  <2> DEFINE c == IF who = "ssi" THEN [call EXCEPT ![SSI] = Reaping] ELSE call
             p == t_pcb[t]
             r == [procs |-> IF p_threads'[p] = <<>> THEN <<p>> ELSE <<>>,
                   count |-> 1, after |-> after]
  <2>1. /\ exterminate(t, FALSE, c)
        /\ reap' = [reap EXCEPT ![who] = r]
        /\ UNCHANGED <<t_wait4sender, t_msgq, p_parent, p_children, free_proc>>
    BY <1>2, Zenon DEF ssi_terminate_thread
  <2>2. c \in [Tcb -> CallState] /\ c[SSI] = IF who = "ssi" THEN Reaping ELSE call[SSI]
    BY <1>0, CallFacts DEF TypeOK
  <2> HIDE DEF c
  <2>3. call'[SSI] = c[SSI] /\ thread_free(t)
    BY <1>0, <2>1, <2>2, ExterminateSsi
  <2>4. /\ FamilyTree'
        /\ t_pcb'[SSI] = root /\ \A x \in Tcb : x # SSI => t_pcb'[x] # root
        /\ p_parent'[root] = NULL
    BY <1>0, <2>1, <2>3, ThreadFreeFamily
  <2>5. Spares(r)
    BY <1>0 DEF RootHolds, Spares
  <2>6. r.after = after
    OBVIOUS
  <2> HIDE DEF r
  <2>7. RootHolds'
    BY <1>0, <2>1, <2>4, <2>5 DEF RootHolds, Killers
  <2>8. SsiHolds'
    <3>1. CASE who = "ssi"
      <4>1. reap'["ssi"] = r /\ call'[SSI] = Reaping
        BY <1>0, <2>1, <2>2, <2>3, <3>1 DEF Killers
      <4>2. SsiCall(Reaping)
        BY DEF SsiCall, Reaping
      <4> QED
        BY <1>0, <2>1, <2>6, <3>1, <4>1, <4>2 DEF SsiHolds, Returns, Requested
    <3>2. CASE who # "ssi"
      <4>1. reap'["ssi"] = reap["ssi"] /\ call'[SSI] = call[SSI]
        BY <1>0, <2>1, <2>2, <2>3, <3>2 DEF Killers
      <4> QED
        BY <1>0, <2>1, <4>1, SsiKept
    <3> QED
      BY <3>1, <3>2
  <2> QED
    BY <2>4, <2>7, <2>8
<1> QED
  BY <1>1, <1>2 DEF terminate_thread

\* A turn of the loop of __exterminate_thread.
LEMMA ReapThreadFamily ==
  ASSUME FamilyInv, NEW who \in Killers, ReapThread(who)
  PROVE  FamilyTree' /\ SsiHolds' /\ RootHolds'
<1> DEFINE v == Victim(who)
           t == Head(p_threads[v])
<1>0. /\ TypeOK /\ FamilyTree /\ SsiHolds /\ RootHolds
      /\ SSI \in Tcb /\ reap \in [Killers -> ReapType]
  BY NodeFacts DEF FamilyInv, TypeOK, Killers
<1>1. reap[who].procs \in Seq(Pcb) /\ reap[who].procs # <<>> /\ p_threads[v] # <<>>
  BY <1>0 DEF ReapThread, ReapType
<1>2. v \in Pcb /\ v # root
  <2>1. v \in Pcb /\ Len(reap[who].procs) \in DOMAIN reap[who].procs
    BY <1>1, SeqFacts, EmptySeq DEF Victim
  <2>2. Spares(reap[who])
    BY <1>0 DEF RootHolds, Killers
  <2> QED
    BY <2>1, <2>2 DEF Spares, Victim, Last
<1>3. t \in Tcb /\ t # SSI
  <2>1. p_threads[v] \in Seq(Tcb) /\ IsInjective(p_threads[v])
    BY <1>0, <1>2 DEF TypeOK, FamilyTree, ThreadTree
  <2>2. t \in Tcb /\ Contains(p_threads[v], t)
    BY <1>1, <2>1, SeqFacts, TailElements
  <2>3. t_pcb[t] = v
    BY <1>0, <1>2, <2>2 DEF FamilyTree, ThreadTree
  <2> QED
    BY <1>0, <1>2, <2>2, <2>3 DEF RootHolds
<1>4. CASE Astray(t) /\ Crash
  BY <1>4, CrashFamily
<1>5. CASE /\ exterminate(t, TRUE, call)
           /\ UNCHANGED <<t_wait4sender, t_msgq, p_parent, p_children, free_proc, reap>>
  <2> HIDE DEF t
  <2>1. call'[SSI] = call[SSI] /\ thread_free(t)
    BY <1>0, <1>3, <1>5, ExterminateSsi DEF TypeOK
  <2>2. /\ FamilyTree'
        /\ t_pcb'[SSI] = root /\ \A x \in Tcb : x # SSI => t_pcb'[x] # root
        /\ p_parent'[root] = NULL
    BY <1>0, <1>3, <1>5, <2>1, ThreadFreeFamily
  <2>3. RootHolds'
    BY <1>0, <1>5, <2>2 DEF RootHolds, Spares
  <2> QED
    BY <1>0, <1>5, <2>1, <2>2, <2>3, SsiKept
<1> QED
  BY <1>4, <1>5, Zenon DEF ReapThread

\* The recursion of __exterminate_proc into a child.
LEMMA ReapChildFamily ==
  ASSUME FamilyInv, NEW who \in Killers, ReapChild(who)
  PROVE  FamilyTree' /\ SsiHolds' /\ RootHolds'
<1> DEFINE v == Victim(who)
           c == Head(p_children[v])
           q == reap[who].procs
<1>0. /\ TypeOK /\ FamilyTree /\ SsiHolds /\ RootHolds
      /\ reap \in [Killers -> ReapType]
  BY DEF FamilyInv, TypeOK, Killers
<1>1. /\ q \in Seq(Pcb) /\ q # <<>> /\ p_children[v] # <<>>
      /\ reap' = [reap EXCEPT ![who].procs = Append(@, c)]
      /\ UNCHANGED <<call, mail, families>>
  BY <1>0 DEF ReapChild, ReapType
<1>2. v \in Pcb
  BY <1>1, SeqFacts DEF Victim
<1>3. c \in Pcb /\ c # root
  <2>1. p_children[v] \in Seq(Pcb) /\ IsInjective(p_children[v])
    BY <1>0, <1>2 DEF TypeOK, FamilyTree, ProcTree
  <2>2. c \in Pcb /\ Contains(p_children[v], c)
    BY <1>1, <2>1, SeqFacts, TailElements
  <2>3. p_parent[c] = v
    BY <1>0, <1>2, <2>2 DEF FamilyTree, ProcTree
  <2> QED
    BY <1>0, <1>2, <2>2, <2>3, NodeFacts DEF RootHolds
<1> HIDE DEF c
<1>4. \A i \in DOMAIN Append(q, c) : Append(q, c)[i] # root
  <2>1. \A i \in DOMAIN q : q[i] # root
    BY <1>0 DEF RootHolds, Killers, Spares
  <2> HIDE DEF q
  <2> QED
    BY <1>1, <1>3, <2>1
<1>5. Spares(reap'["ssi"]) /\ Spares(reap'["nucleus"]) /\ reap'["ssi"].after = reap["ssi"].after
  BY <1>0, <1>1, <1>4 DEF Spares, Killers, ReapType, RootHolds
<1>6. FamilyTree'
  BY <1>0, <1>1 DEF families, FamilyTree, ThreadTree, ProcTree, FreeEmpty
<1>7. RootHolds'
  BY <1>0, <1>1, <1>5 DEF RootHolds, families
<1>8. SsiHolds'
  BY <1>0, <1>1, <1>5, SsiKept DEF mail
<1> QED
  BY <1>6, <1>7, <1>8

\* The end of __exterminate_proc: the process has neither threads nor children.
LEMMA ReapProcFamily ==
  ASSUME FamilyInv, NEW who \in Killers, ReapProc(who)
  PROVE  FamilyTree' /\ SsiHolds' /\ RootHolds'
<1> DEFINE v == Victim(who)
           q == reap[who].procs
<1>0. /\ TypeOK /\ FamilyTree /\ SsiHolds /\ RootHolds
      /\ reap \in [Killers -> ReapType]
  BY DEF FamilyInv, TypeOK, Killers
<1>1. /\ q \in Seq(Pcb) /\ q # <<>> /\ p_threads[v] = <<>> /\ p_children[v] = <<>>
      /\ proc_delete(v)
      /\ reap' = [reap EXCEPT ![who].procs = Front(@)]
      /\ UNCHANGED <<call, mail, t_pcb, p_threads, free_thread>>
  BY <1>0 DEF ReapProc, ReapType
<1>2. v \in Pcb /\ v # root
  <2>1. v \in Pcb /\ Len(q) \in DOMAIN q
    BY <1>1, SeqFacts, EmptySeq DEF Victim
  <2>2. Spares(reap[who])
    BY <1>0 DEF RootHolds, Killers
  <2> QED
    BY <2>1, <2>2 DEF Spares, Victim, Last
<1> HIDE DEF v
<1>3. /\ ProcTree'
      /\ \A x : Contains(free_proc', x) <=> Contains(free_proc, x) \/ x = v
      /\ \A p \in Pcb : p_children[p] = <<>> => p_children'[p] = <<>>
      /\ \A c \in Pcb : p_parent'[c] \in {p_parent[c], NULL}
  BY <1>0, <1>1, <1>2, ProcDeleteTree DEF FamilyTree
<1>4. ThreadTree'
  BY <1>0, <1>1 DEF FamilyTree, ThreadTree
<1>5. FreeEmpty'
  BY <1>0, <1>1, <1>3 DEF FamilyTree, FreeEmpty
<1>6. \A i \in DOMAIN Front(q) : Front(q)[i] # root
  <2>1. \A i \in DOMAIN q : q[i] # root
    BY <1>0 DEF RootHolds, Killers, Spares
  <2> HIDE DEF q
  <2> QED
    BY <1>1, <2>1 DEF Front
<1>7. Spares(reap'["ssi"]) /\ Spares(reap'["nucleus"]) /\ reap'["ssi"].after = reap["ssi"].after
  BY <1>0, <1>1, <1>6 DEF Spares, Killers, ReapType, RootHolds
<1>8. RootHolds'
  BY <1>0, <1>1, <1>3, <1>7, NodeFacts DEF RootHolds
<1>9. SsiHolds'
  BY <1>0, <1>1, <1>7, SsiKept DEF mail
<1> QED
  BY <1>3, <1>4, <1>5, <1>8, <1>9 DEF FamilyTree

\* The killer goes back to what it was doing.
LEMMA ReapDoneFamily ==
  ASSUME FamilyInv, NEW who \in Killers, ReapDone(who)
  PROVE  FamilyTree' /\ SsiHolds' /\ RootHolds'
<1>0. /\ TypeOK /\ FamilyTree /\ SsiHolds /\ RootHolds
      /\ reap \in [Killers -> ReapType] /\ SSI \in Tcb
  BY NodeFacts DEF FamilyInv, TypeOK, Killers
<1>1. /\ reap' = [reap EXCEPT ![who] = NoReap]
      /\ UNCHANGED <<mail, t_pcb, p_threads, free_thread, p_parent, p_children, free_proc>>
  BY DEF ReapDone
<1>2. Spares(NoReap)
  BY DEF Spares, NoReap
<1>3. FamilyTree'
  BY <1>0, <1>1 DEF FamilyTree, ThreadTree, ProcTree, FreeEmpty
<1>4. RootHolds'
  BY <1>0, <1>1, <1>2 DEF RootHolds, Killers
<1>5. SsiHolds'
  <2>1. CASE who = "ssi"
    <3>1. call[SSI].op = "reap"
      BY <2>1 DEF ReapDone, Reaps, Reaping
    <3>2. SsiCall(reap["ssi"].after) /\ reap["ssi"].after.op # "reap"
      BY <1>0, <3>1 DEF SsiHolds, Returns
    <3>3. call'[SSI] = reap["ssi"].after
      BY <1>0, <2>1 DEF ReapDone, TypeOK
    <3> QED
      BY <1>0, <1>1, <3>2, <3>3 DEF SsiHolds, Returns, Requested, mail
  <2>2. CASE who = "nucleus"
    <3>1. call' = call /\ reap'["ssi"] = reap["ssi"]
      BY <1>0, <1>1, <2>2 DEF ReapDone, Killers
    <3> QED
      BY <1>0, <1>1, <3>1, SsiKept DEF mail
  <2> QED
    BY <2>1, <2>2 DEF Killers
<1> QED
  BY <1>3, <1>4, <1>5

(*------------------------------- services ------------------------------*)

\* The one that the SSI serves is a client, and the SSI goes on with a call
\* of its own.
LEMMA ServingSsi ==
  ASSUME FamilyInv, NEW tags, tags \subseteq AllServices, Serving(tags)
  PROVE  /\ Sender \in Tcb /\ Sender # SSI
         /\ t_pcb[Sender] # NULL => t_pcb[Sender] \in Pcb
         /\ call[SSI].op # "reap"
         /\ SsiCall(Recv(NULL)) /\ Recv(NULL).op # "reap"
         /\ \A tag \in {"reply", "busy"} : /\ SsiCall(Send(Sender, Plain(tag)))
                                          /\ Send(Sender, Plain(tag)).op # "reap"
<1>1. TypeOK /\ SsiHolds
  BY DEF FamilyInv
<1>2. Sender \in Tcb
  BY <1>1, ServingFacts
<1>3. Sender # SSI /\ call[SSI].op # "reap"
  BY <1>1 DEF Serving, Sender, SsiHolds, SsiCall
<1>4. SsiCall(Recv(NULL)) /\ Recv(NULL).op # "reap"
  BY DEF SsiCall, Recv
<1>5. ASSUME NEW tag \in {"reply", "busy"}
      PROVE  /\ SsiCall(Send(Sender, Plain(tag)))
             /\ Send(Sender, Plain(tag)).op # "reap"
  BY DEF SsiCall, Send, Plain, AllServices, Queries, Managing
<1>6. t_pcb[Sender] # NULL => t_pcb[Sender] \in Pcb
  BY <1>1, <1>2 DEF TypeOK
<1> QED
  BY <1>2, <1>3, <1>4, <1>5, <1>6

\* A service that ends with a reply or with the next receive.
LEMMA AnsweredSsi ==
  ASSUME FamilyInv, NEW c \in CallState, SsiCall(c), c.op # "reap",
         call' = [call EXCEPT ![SSI] = c],
         t_wait4sender' = t_wait4sender, t_msgq'[SSI] = t_msgq[SSI]
  PROVE  SsiHolds'
<1>1. call'[SSI] = c
  BY NodeFacts DEF FamilyInv, TypeOK
<1> QED
  BY <1>1 DEF FamilyInv, SsiHolds, Returns, Requested

\* thread_alloc for a process other than the root that is not free.
LEMMA StartThreadFamily ==
  ASSUME TypeOK, FamilyTree, RootHolds, NEW p \in Pcb, p # root, free_thread # <<>>,
         start_thread(p, Head(free_thread))
  PROVE  /\ ThreadTree'
         /\ t_pcb'[SSI] = root /\ \A x \in Tcb : x # SSI => t_pcb'[x] # root
         /\ t_msgq'[SSI] = t_msgq[SSI]
         /\ \A q \in Pcb : q # p => p_threads'[q] = p_threads[q]
<1> DEFINE t == Head(free_thread)
<1>1. /\ ThreadTree'
      /\ t_pcb[t] = NULL
      /\ t_pcb' = [t_pcb EXCEPT ![t] = p]
      /\ \A q \in Pcb : q # p => p_threads'[q] = p_threads[q]
  BY StartThreadTree DEF FamilyTree
<1>2. t \in Tcb /\ SSI \in Tcb
  BY SeqFacts, NodeFacts DEF TypeOK
<1>3. t_msgq' = [t_msgq EXCEPT ![t] = <<>>]
  BY DEF start_thread
<1> HIDE DEF t
<1>4. t # SSI
  BY <1>1, NodeFacts DEF RootHolds
<1>5. t_msgq'[SSI] = t_msgq[SSI]
  BY <1>2, <1>3, <1>4 DEF TypeOK
<1>6. t_pcb'[SSI] = root /\ \A x \in Tcb : x # SSI => t_pcb'[x] # root
  BY <1>1, <1>2, <1>4 DEF TypeOK, RootHolds
<1> QED
  BY <1>1, <1>5, <1>6

\* A process that a thread belongs to is not free.
LEMMA Inhabited ==
  ASSUME TypeOK, FamilyTree, NEW t \in Tcb, t_pcb[t] # NULL
  PROVE  t_pcb[t] \in Pcb /\ ~Contains(free_proc, t_pcb[t])
<1>1. t_pcb[t] \in Pcb
  BY DEF TypeOK
<1>2. Contains(p_threads[t_pcb[t]], t)
  BY <1>1 DEF FamilyTree, ThreadTree
<1>3. p_threads[t_pcb[t]] # <<>>
  BY <1>2 DEF Contains
<1> QED
  BY <1>1, <1>3 DEF FamilyTree, FreeEmpty

\* ssi_create_thread.
LEMMA CreateThreadFamily ==
  ASSUME FamilyInv, CreateThread
  PROVE  FamilyTree' /\ SsiHolds' /\ RootHolds'
<1> DEFINE p == t_pcb[Sender]
           c == Send(Sender, Plain("reply"))
<1>0. TypeOK /\ FamilyTree /\ SsiHolds /\ RootHolds
  BY DEF FamilyInv
<1>1. /\ Sender \in Tcb /\ Sender # SSI
      /\ c \in CallState /\ SsiCall(c) /\ c.op # "reap"
  <2>1. Serving({"CREATE_THREAD"}) /\ {"CREATE_THREAD"} \subseteq AllServices
    BY DEF CreateThread, AllServices
  <2> QED
    BY <2>1, ServingSsi, CallFacts, PayloadFacts, TagFacts
<1>2. call' = [call EXCEPT ![SSI] = c] /\ reap' = reap
  BY DEF CreateThread, Reply
<1> HIDE DEF c
<1>3. CASE /\ p # NULL /\ free_thread # <<>>
           /\ start_thread(p, Head(free_thread))
           /\ UNCHANGED <<t_wait4sender, free_msg, p_parent, p_children, free_proc>>
  <2>1. p \in Pcb /\ p # root /\ ~Contains(free_proc, p)
    BY <1>0, <1>1, <1>3, Inhabited DEF RootHolds
  <2> HIDE DEF p
  <2>2. /\ ThreadTree'
        /\ t_pcb'[SSI] = root /\ \A x \in Tcb : x # SSI => t_pcb'[x] # root
        /\ t_msgq'[SSI] = t_msgq[SSI]
        /\ \A q \in Pcb : q # p => p_threads'[q] = p_threads[q]
    BY <1>0, <1>3, <2>1, StartThreadFamily
  <2>3. ProcTree'
    BY <1>0, <1>3 DEF FamilyTree, ProcTree
  <2>4. FreeEmpty'
    BY <1>0, <1>3, <2>1, <2>2 DEF FamilyTree, FreeEmpty
  <2>5. RootHolds'
    BY <1>0, <1>2, <1>3, <2>2 DEF RootHolds, Spares
  <2>6. SsiHolds'
    BY <1>1, <1>2, <1>3, <2>2, AnsweredSsi
  <2> QED
    BY <2>2, <2>3, <2>4, <2>5, <2>6 DEF FamilyTree
<1>4. CASE UNCHANGED <<sched, mail, families>>
  BY <1>0, <1>1, <1>2, <1>4, FamiliesKept, AnsweredSsi DEF mail, families
<1> QED
  BY <1>3, <1>4, Zenon DEF CreateThread, p

\* ssi_create_process, with and without a thread for it.
LEMMA CreateProcessFamily ==
  ASSUME FamilyInv, CreateProcess
  PROVE  FamilyTree' /\ SsiHolds' /\ RootHolds'
<1> DEFINE parent == t_pcb[Sender]
           p      == Head(free_proc)
           c      == Send(Sender, Plain("reply"))
<1>0. TypeOK /\ FamilyTree /\ SsiHolds /\ RootHolds
  BY DEF FamilyInv
<1>1. /\ Sender \in Tcb /\ Sender # SSI
      /\ c \in CallState /\ SsiCall(c) /\ c.op # "reap"
  <2>1. Serving({"CREATE_PROCESS"}) /\ {"CREATE_PROCESS"} \subseteq AllServices
    BY DEF CreateProcess, AllServices
  <2> QED
    BY <2>1, ServingSsi, CallFacts, PayloadFacts, TagFacts
<1>2. call' = [call EXCEPT ![SSI] = c] /\ reap' = reap
  BY DEF CreateProcess, Reply
<1> HIDE DEF c
<1>3. ASSUME parent # NULL, free_proc # <<>>, proc_alloc(parent, p)
      PROVE  /\ parent \in Pcb /\ p \in Pcb /\ p # root
             /\ Contains(free_proc, p) /\ ~Contains(free_proc, parent)
             /\ ProcTree' /\ p_parent'[root] = NULL
             /\ \A x : Contains(free_proc', x) <=> Contains(free_proc, x) /\ x # p
             /\ \A q \in Pcb : q # parent => p_children'[q] = p_children[q]
  <2>1. parent \in Pcb /\ ~Contains(free_proc, parent)
    BY <1>0, <1>1, <1>3, Inhabited
  <2> HIDE DEF parent
  <2>2. /\ ProcTree'
        /\ Contains(free_proc, p)
        /\ p \in Pcb /\ p # root
        /\ \A x : Contains(free_proc', x) <=> Contains(free_proc, x) /\ x # p
        /\ \A q \in Pcb : q # parent => p_children'[q] = p_children[q]
        /\ \A x \in Pcb : x # p => p_parent'[x] = p_parent[x]
    BY <1>0, <1>3, <2>1, ProcAllocTree DEF FamilyTree
  <2>3. p_parent'[root] = NULL
    BY <1>0, <2>2, NodeFacts DEF RootHolds
  <2> QED
    BY <2>1, <2>2, <2>3
<1>4. CASE /\ parent # NULL /\ free_proc # <<>> /\ free_thread # <<>>
           /\ proc_alloc(parent, p) /\ start_thread(p, Head(free_thread))
           /\ UNCHANGED <<t_wait4sender, free_msg>>
  <2>1. /\ parent \in Pcb /\ p \in Pcb /\ p # root
        /\ Contains(free_proc, p) /\ ~Contains(free_proc, parent)
        /\ ProcTree' /\ p_parent'[root] = NULL
        /\ \A x : Contains(free_proc', x) <=> Contains(free_proc, x) /\ x # p
        /\ \A q \in Pcb : q # parent => p_children'[q] = p_children[q]
    BY <1>3, <1>4
  <2> HIDE DEF parent, p
  <2>2. /\ ThreadTree'
        /\ t_pcb'[SSI] = root /\ \A x \in Tcb : x # SSI => t_pcb'[x] # root
        /\ t_msgq'[SSI] = t_msgq[SSI]
        /\ \A q \in Pcb : q # p => p_threads'[q] = p_threads[q]
    BY <1>0, <1>4, <2>1, StartThreadFamily
  <2>3. FreeEmpty'
    BY <1>0, <2>1, <2>2 DEF FamilyTree, FreeEmpty
  <2>4. RootHolds'
    BY <1>0, <1>2, <2>1, <2>2 DEF RootHolds, Spares
  <2>5. SsiHolds'
    BY <1>1, <1>2, <1>4, <2>2, AnsweredSsi
  <2> QED
    BY <2>1, <2>2, <2>3, <2>4, <2>5 DEF FamilyTree
<1>5. CASE /\ parent # NULL /\ free_proc # <<>>
           /\ proc_alloc(parent, p)
           /\ UNCHANGED <<sched, mail, t_pcb, p_threads, free_thread, thread_count>>
  <2>1. /\ parent \in Pcb /\ p \in Pcb /\ p # root
        /\ Contains(free_proc, p) /\ ~Contains(free_proc, parent)
        /\ ProcTree' /\ p_parent'[root] = NULL
        /\ \A x : Contains(free_proc', x) <=> Contains(free_proc, x) /\ x # p
        /\ \A q \in Pcb : q # parent => p_children'[q] = p_children[q]
    BY <1>3, <1>5
  <2> HIDE DEF parent, p
  <2>2. ThreadTree'
    BY <1>0, <1>5 DEF FamilyTree, ThreadTree
  <2>3. FreeEmpty'
    BY <1>0, <1>5, <2>1 DEF FamilyTree, FreeEmpty
  <2>4. RootHolds'
    BY <1>0, <1>2, <1>5, <2>1 DEF RootHolds, Spares
  <2>5. SsiHolds'
    BY <1>1, <1>2, <1>5, AnsweredSsi DEF mail
  <2> QED
    BY <2>1, <2>2, <2>3, <2>4, <2>5 DEF FamilyTree
<1>6. CASE UNCHANGED <<sched, mail, families>>
  BY <1>0, <1>1, <1>2, <1>6, FamiliesKept, AnsweredSsi DEF mail, families
<1> QED
  BY <1>4, <1>5, <1>6, Zenon DEF CreateProcess, parent, p

\* The services that change no family.
LEMMA OtherServicesFamily ==
  ASSUME FamilyInv, GetErrno \/ Query \/ WaitForClock \/ DoIo \/ DoIoBusy
  PROVE  FamilyTree' /\ SsiHolds' /\ RootHolds'
<1>0. TypeOK /\ FamilyTree /\ SsiHolds /\ RootHolds
  BY DEF FamilyInv
<1> DEFINE tags == {"GET_ERRNO", "WAIT_FOR_CLOCK", "DO_IO"} \union Queries
<1>1. tags \subseteq AllServices /\ Serving(tags)
  BY DEF GetErrno, Query, WaitForClock, DoIo, DoIoBusy, Serving, AllServices
<1> HIDE DEF tags
<1>2. /\ Sender \in Tcb
      /\ SsiCall(Recv(NULL)) /\ Recv(NULL).op # "reap"
      /\ \A tag \in {"reply", "busy"} : /\ SsiCall(Send(Sender, Plain(tag)))
                                       /\ Send(Sender, Plain(tag)).op # "reap"
  BY <1>1, ServingSsi
<1>3. /\ Recv(NULL) \in CallState
      /\ \A tag \in {"reply", "busy"} : Send(Sender, Plain(tag)) \in CallState
  BY <1>2, CallFacts, PayloadFacts, TagFacts
<1>4. /\ NoReply \/ Reply("reply") \/ Reply("busy")
      /\ UNCHANGED <<t_wait4sender, t_msgq, families, reap>>
  BY DEF GetErrno, Query, WaitForClock, DoIo, DoIoBusy, mail
<1>5. FamilyTree' /\ RootHolds'
  BY <1>0, <1>4, FamiliesKept DEF families
<1>6. PICK c \in CallState : /\ SsiCall(c) /\ c.op # "reap"
                             /\ call' = [call EXCEPT ![SSI] = c]
  BY <1>2, <1>3, <1>4 DEF NoReply, Reply
<1>7. SsiHolds'
  BY <1>4, <1>6, AnsweredSsi
<1> QED
  BY <1>5, <1>7

\* The services that kill.
LEMMA KillingServicesFamily ==
  ASSUME FamilyInv, TerminateThread \/ BadRequest \/ SetManager
  PROVE  FamilyTree' /\ SsiHolds' /\ RootHolds'
<1>0. TypeOK /\ FamilyTree /\ SsiHolds /\ RootHolds
  BY DEF FamilyInv
<1> DEFINE tags == {"TERMINATE_THREAD", "BAD"} \union Managing
<1>1. tags \subseteq AllServices /\ Serving(tags)
  BY DEF TerminateThread, BadRequest, SetManager, Serving, AllServices
<1> HIDE DEF tags
<1>2. /\ Sender \in Tcb /\ Sender # SSI
      /\ SsiCall(Recv(NULL)) /\ Recv(NULL).op # "reap"
      /\ SsiCall(Send(Sender, Plain("reply"))) /\ Send(Sender, Plain("reply")).op # "reap"
  BY <1>1, ServingSsi
<1>3. Recv(NULL) \in CallState /\ Send(Sender, Plain("reply")) \in CallState
  BY <1>2, CallFacts, PayloadFacts, TagFacts
<1>4. CASE \/ terminate_thread(Sender, "ssi", Recv(NULL))
           \/ terminate_thread(Sender, "ssi", Send(Sender, Plain("reply")))
  BY <1>2, <1>3, <1>4, TerminateFamily DEF Killers
<1>5. CASE Crash
  BY <1>5, CrashFamily
<1>6. CASE /\ Reply("reply")
           /\ UNCHANGED <<mail, families, reap>>
  <2>1. FamilyTree' /\ RootHolds'
    BY <1>0, <1>6, FamiliesKept DEF families
  <2>2. SsiHolds'
    BY <1>2, <1>3, <1>6, AnsweredSsi DEF Reply, mail
  <2> QED
    BY <2>1, <2>2
<1>7. SetManager => \/ terminate_thread(Sender, "ssi", Recv(NULL))
                    \/ Crash
                    \/ Reply("reply") /\ UNCHANGED <<mail, families, reap>>
  BY Zenon DEF SetManager
<1> QED
  BY <1>4, <1>5, <1>6, <1>7 DEF TerminateThread, BadRequest

\* ssi_terminate_process starts with the process of a client.
LEMMA TerminateProcessFamily ==
  ASSUME FamilyInv, TerminateProcess
  PROVE  FamilyTree' /\ SsiHolds' /\ RootHolds'
<1> DEFINE p == t_pcb[Sender]
           r == [procs |-> <<p>>, count |-> 0, after |-> Recv(NULL)]
<1>0. /\ TypeOK /\ FamilyTree /\ SsiHolds /\ RootHolds
      /\ SSI \in Tcb /\ reap \in [Killers -> ReapType] /\ call \in [Tcb -> CallState]
  BY NodeFacts DEF FamilyInv, TypeOK, Killers
<1>1. /\ Sender \in Tcb /\ Sender # SSI
      /\ SsiCall(Recv(NULL)) /\ Recv(NULL).op # "reap"
  <2>1. Serving({"TERMINATE_PROCESS"}) /\ {"TERMINATE_PROCESS"} \subseteq AllServices
    BY DEF TerminateProcess, AllServices
  <2> QED
    BY <2>1, ServingSsi
<1>2. CASE Crash
  BY <1>2, CrashFamily
<1>3. CASE /\ p # NULL
           /\ reap' = [reap EXCEPT !["ssi"] = r]
           /\ call' = [call EXCEPT ![SSI] = Reaping]
           /\ UNCHANGED <<mail, families>>
  <2>1. p # root
    BY <1>0, <1>1 DEF RootHolds
  <2>2. Spares(r) /\ r.after = Recv(NULL)
    BY <2>1 DEF Spares
  <2> HIDE DEF p, r
  <2>3. reap'["ssi"] = r /\ reap'["nucleus"] = reap["nucleus"] /\ call'[SSI] = Reaping
    BY <1>0, <1>3 DEF Killers
  <2>4. FamilyTree'
    BY <1>0, <1>3 DEF families, FamilyTree, ThreadTree, ProcTree, FreeEmpty
  <2>5. RootHolds'
    BY <1>0, <1>3, <2>2, <2>3 DEF RootHolds, families
  <2>6. SsiCall(Reaping)
    BY DEF SsiCall, Reaping
  <2>7. SsiHolds'
    BY <1>0, <1>1, <1>3, <2>2, <2>3, <2>6 DEF SsiHolds, Returns, Requested, mail
  <2> QED
    BY <2>4, <2>5, <2>7
<1> QED
  BY <1>2, <1>3, Zenon DEF TerminateProcess, p, r

(*------------------------------ system calls ---------------------------*)

\* A send by a client, or by the SSI of something that is no request.
LEMMA SysSendFamily ==
  ASSUME FamilyInv, current_thread \in Tcb, NEW to \in Tcb, NEW m \in Payload,
         NEW next \in CallState, sys_send(to, m, next),
         current_thread = SSI =>
           m.tag \notin AllServices /\ SsiCall(next) /\ next.op # "reap"
  PROVE  FamilyTree' /\ SsiHolds' /\ RootHolds'
<1> DEFINE self == current_thread
           c    == [call EXCEPT ![self] = next]
<1>0. TypeOK /\ FamilyTree /\ SsiHolds /\ RootHolds /\ SSI \in Tcb
  BY NodeFacts DEF FamilyInv
<1>1. UNCHANGED <<families, reap>>
  BY DEF sys_send
<1>2. FamilyTree' /\ RootHolds'
  BY <1>0, <1>1, FamiliesKept DEF families
<1>3. c \in [Tcb -> CallState] /\ SsiCall(c[SSI]) /\ (c[SSI].op = "reap" => call[SSI].op = "reap")
  BY <1>0 DEF TypeOK, SsiHolds
<1>4. CASE check_thread_alive(to, "ERR_SEND_TO_DEAD", Send(to, m))
  <2>1. /\ call' = [call EXCEPT ![self] = Send(to, m)]
        /\ UNCHANGED <<t_wait4sender, t_msgq>>
    BY <1>4 DEF check_thread_alive
  <2>2. self = SSI => SsiCall(Send(to, m)) /\ Send(to, m).op # "reap"
    BY DEF SsiCall, Send
  <2>3. Send(to, m) \in CallState
    BY CallFacts
  <2>4. CASE self = SSI
    BY <1>2, <2>1, <2>2, <2>3, <2>4, AnsweredSsi
  <2>5. CASE self # SSI
    BY <1>0, <1>1, <1>2, <2>1, <2>5, SsiKept DEF TypeOK
  <2> QED
    BY <2>4, <2>5
<1>5. CASE call' = c /\ UNCHANGED mail
  BY <1>0, <1>1, <1>2, <1>3, <1>5 DEF mail, SsiHolds, Returns, Requested
<1>6. CASE sys_send_msg(self, to, m, c) /\ UNCHANGED t_wait4sender
  <2> HIDE DEF c
  <2>1. Requested(t_msgq[SSI])
    BY <1>0 DEF SsiHolds
  <2>2. /\ SsiCall(call'[SSI])
        /\ call'[SSI].op = "reap" => c[SSI].op = "reap"
        /\ Requested(t_msgq'[SSI])
    BY <1>0, <1>3, <1>6, <2>1, SendSsi
  <2> QED
    BY <1>0, <1>1, <1>2, <1>3, <1>6, <2>2 DEF SsiHolds, Returns
<1> QED
  BY <1>4, <1>5, <1>6, Zenon DEF sys_send

\* A receive by a client, or by the SSI from anybody.
LEMMA SysRecvFamily ==
  ASSUME FamilyInv, current_thread \in Tcb, NEW s \in Tcb \union {NULL}, sys_recv(s),
         current_thread = SSI => s = NULL
  PROVE  FamilyTree' /\ SsiHolds' /\ RootHolds'
<1> DEFINE self == current_thread
           q == t_msgq[self]
           i == FirstMatch(q, s)
<1>0. TypeOK /\ FamilyTree /\ SsiHolds /\ RootHolds /\ SSI \in Tcb
  BY NodeFacts DEF FamilyInv
<1>1. UNCHANGED <<families, reap>>
  BY DEF sys_recv
<1>2. FamilyTree' /\ RootHolds'
  BY <1>0, <1>1, FamiliesKept DEF families
<1>3. SsiCall(Recv(NULL)) /\ Recv(NULL).op # "reap" /\ Recv(s) \in CallState
  BY CallFacts DEF SsiCall, Recv
<1>4. CASE check_thread_alive(s, "ERR_RECV_FROM_DEAD", Recv(s))
  <2>1. /\ call' = [call EXCEPT ![self] = Recv(s)]
        /\ UNCHANGED <<t_wait4sender, t_msgq>>
    BY <1>4 DEF check_thread_alive
  <2>2. CASE self = SSI
    BY <1>2, <1>3, <2>1, <2>2, AnsweredSsi
  <2>3. CASE self # SSI
    BY <1>0, <1>1, <1>2, <2>1, <2>3, SsiKept DEF TypeOK
  <2> QED
    BY <2>2, <2>3
<1>5. CASE /\ Matches(q, s) # {}
           /\ msgq_get(s, self)
           /\ call' = [call EXCEPT ![self] = Received(self, q[i].from, q[i].msg)]
           /\ UNCHANGED t_wait4sender
  <2>1. q \in Seq(Message)
    BY <1>0 DEF TypeOK
  <2>2. i \in 1..Len(q)
    BY <1>5, <2>1, MatchType
  <2>3. t_msgq' = [t_msgq EXCEPT ![self] = RemoveAt(q, i)]
    BY <1>5 DEF msgq_get
  <2>4. CASE self = SSI
    <3>1. Requested(q)
      BY <1>0, <2>4 DEF SsiHolds
    <3>2. call'[SSI] = Serve(q[i].from, q[i].msg) /\ t_msgq'[SSI] = RemoveAt(q, i)
      BY <1>0, <1>5, <2>3, <2>4 DEF TypeOK, Received
    <3> HIDE DEF q, i
    <3>3. SsiCall(Serve(q[i].from, q[i].msg)) /\ Serve(q[i].from, q[i].msg).op # "reap"
      BY <2>1, <2>2, <3>1 DEF SsiCall, Serve, Requested
    <3>4. Requested(RemoveAt(q, i))
      <4>1. /\ RemoveAt(q, i) \in Seq(Message) /\ Len(RemoveAt(q, i)) = Len(q) - 1
            /\ \A j \in 1..(Len(q) - 1) :
                 RemoveAt(q, i)[j] = IF j < i THEN q[j] ELSE q[j + 1]
        BY <2>1, <2>2, RemoveAtElements
      <4>2. Len(q) \in Nat /\ DOMAIN q = 1..Len(q) /\ DOMAIN RemoveAt(q, i) = 1..(Len(q) - 1)
        BY <2>1, <4>1
      <4>3. \A j \in DOMAIN RemoveAt(q, i) : \E k \in DOMAIN q : RemoveAt(q, i)[j] = q[k]
        BY <4>1, <4>2
      <4> QED
        BY <3>1, <4>3 DEF Requested
    <3> QED
      BY <1>0, <1>2, <1>5, <3>2, <3>3, <3>4 DEF SsiHolds, Returns
  <2>5. CASE self # SSI
    <3>1. call'[SSI] = call[SSI] /\ t_msgq'[SSI] = t_msgq[SSI]
      BY <1>0, <1>5, <2>3, <2>5 DEF TypeOK
    <3> QED
      BY <1>0, <1>1, <1>2, <1>5, <3>1, SsiKept
  <2> QED
    BY <2>4, <2>5
<1>6. CASE /\ t_wait4sender' = [t_wait4sender EXCEPT ![self] = s]
           /\ call' = [call EXCEPT ![self] = Recv(s)]
           /\ UNCHANGED t_msgq
  <2>1. CASE self = SSI
    <3>1. t_wait4sender' = t_wait4sender
      BY <1>0, <1>6, <2>1 DEF SsiHolds, TypeOK
    <3> QED
      BY <1>2, <1>3, <1>6, <2>1, <3>1, AnsweredSsi
  <2>2. CASE self # SSI
    BY <1>0, <1>1, <1>2, <1>6, <2>2, SsiKept DEF TypeOK
  <2> QED
    BY <2>1, <2>2
<1> QED
  BY <1>4, <1>5, <1>6, Zenon DEF sys_recv

\* A trap or a passed up call of a client.
LEMMA PassUpFamily ==
  ASSUME FamilyInv, current_thread \in Tcb, current_thread # SSI, NEW kind \in Kinds,
         pass_up(kind)
  PROVE  FamilyTree' /\ SsiHolds' /\ RootHolds'
<1> DEFINE self == current_thread
           mgr  == manager_of(self, kind)
<1>0. /\ TypeOK /\ FamilyTree /\ SsiHolds /\ RootHolds /\ SSI \in Tcb
      /\ call \in [Tcb -> CallState]
  BY NodeFacts DEF FamilyInv, TypeOK
<1>1. mgr \in Tcb \union {NULL}
  BY <1>0 DEF manager_of, TypeOK
<1> HIDE DEF mgr
<1>2. CASE terminate_thread(self, "nucleus", User)
  BY <1>2, CallFacts, TerminateFamily DEF Killers
<1>3. CASE /\ mgr # NULL
           /\ sys_send_msg(self, mgr, Plain("trap"), call)
           /\ t_wait4sender' = IF kind = "sys" THEN t_wait4sender
                               ELSE [t_wait4sender EXCEPT ![self] = mgr]
           /\ UNCHANGED <<families, reap>>
  <2>1. mgr \in Tcb /\ Plain("trap") \in Payload
    BY <1>1, <1>3, PayloadFacts, TagFacts
  <2>2. t_wait4sender'[SSI] = NULL
    BY <1>0, <1>3 DEF SsiHolds, TypeOK
  <2>3. SsiCall(call[SSI]) /\ Requested(t_msgq[SSI])
    BY <1>0 DEF SsiHolds
  <2>4. /\ SsiCall(call'[SSI])
        /\ call'[SSI].op = "reap" => call[SSI].op = "reap"
        /\ Requested(t_msgq'[SSI])
    BY <1>0, <1>3, <2>1, <2>3, SendSsi
  <2> QED
    BY <1>0, <1>3, <2>2, <2>4, FamiliesKept DEF SsiHolds, Returns, families
<1> QED
  BY <1>2, <1>3, Zenon DEF pass_up, mgr

\* All system calls and traps.
LEMMA ExceptionsFamily ==
  ASSUME FamilyInv, ExceptionsNext
  PROVE  FamilyTree' /\ SsiHolds' /\ RootHolds'
<1> DEFINE self == current_thread
<1>0. /\ TypeOK /\ FamilyTree /\ SsiHolds /\ RootHolds /\ SSI \in Tcb
      /\ SsiCall(call[SSI])
  BY NodeFacts DEF FamilyInv, SsiHolds
<1>1. ASSUME Running("user") PROVE self \in Tcb /\ self # SSI
  BY <1>0, <1>1, RunningFacts DEF SsiCall
<1>2. CASE Request
  <2>1. self \in Tcb /\ self # SSI
    BY <1>1, <1>2 DEF Request
  <2>2. PICK m \in Requests : sys_send(SSI, m, Recv(SSI))
    BY <1>2 DEF Request
  <2>3. m \in Payload
    BY <2>2, InputAssumption, TagFacts
    DEF Requests, Payload, PlainTags, AllServices
  <2> QED
    BY <1>0, <2>1, <2>2, <2>3, SysSendFamily, CallFacts
<1>3. CASE SysSend
  <2>1. self \in Tcb /\ self # SSI
    BY <1>1, <1>3 DEF SysSend
  <2>2. PICK t \in Known \ {self} : sys_send(t, Plain("mail"), User)
    BY <1>3 DEF SysSend
  <2>3. t \in Tcb /\ Plain("mail") \in Payload
    BY <2>2, PayloadFacts, TagFacts DEF Known
  <2> QED
    BY <2>1, <2>2, <2>3, SysSendFamily, CallFacts
<1>4. CASE SysSendPending
  <2> DEFINE c    == call[self]
             next == IF self = SSI THEN Recv(NULL) ELSE User
  <2>1. self \in Tcb /\ c.peer \in Tcb /\ c.msg \in Payload /\ c.op = "send"
    BY <1>0, <1>4, RunningFacts, CallFacts DEF SysSendPending
  <2>2. next \in CallState
    BY CallFacts
  <2>3. self = SSI => c.msg.tag \notin AllServices /\ SsiCall(next) /\ next.op # "reap"
    BY <1>0, <2>1 DEF SsiCall, Recv
  <2>4. sys_send(c.peer, c.msg, next)
    BY <1>4 DEF SysSendPending
  <2> HIDE DEF next
  <2> QED
    BY <2>1, <2>2, <2>3, <2>4, SysSendFamily
<1>5. CASE SysRecv
  <2>1. self \in Tcb /\ self # SSI
    BY <1>1, <1>5 DEF SysRecv
  <2>2. PICK s \in Known \union {NULL} : sys_recv(s)
    BY <1>5 DEF SysRecv
  <2> QED
    BY <2>1, <2>2, SysRecvFamily DEF Known
<1>6. CASE SysRecvPending
  <2>1. self \in Tcb /\ call[self].peer \in Tcb \union {NULL} /\ call[self].op = "recv"
    BY <1>0, <1>6, RunningFacts, CallFacts DEF SysRecvPending
  <2>2. self = SSI => call[self].peer = NULL
    BY <1>0, <2>1 DEF SsiCall
  <2> QED
    BY <1>6, <2>1, <2>2, SysRecvFamily DEF SysRecvPending
<1>7. CASE SysPassup \/ TlbTrap \/ PgmTrap
  <2>1. self \in Tcb /\ self # SSI
    BY <1>1, <1>7 DEF SysPassup, TlbTrap, PgmTrap
  <2> QED
    BY <1>7, <2>1, PassUpFamily DEF SysPassup, TlbTrap, PgmTrap, Kinds
<1>8. CASE SysZero \/ Breakpoint
  BY <1>0, <1>8, FamiliesKept, SsiKept DEF SysZero, Breakpoint, mail, families
<1> QED
  BY <1>2, <1>3, <1>4, <1>5, <1>6, <1>7, <1>8 DEF ExceptionsNext

(*-------------------------- interrupts, scheduler ----------------------*)

\* The handlers speak in the name of the SSI, but send no requests.
LEMMA HandlerFamily ==
  ASSUME FamilyInv, NEW t \in Tcb, NEW tag \in {"status", "tick"},
         sys_send_msg(SSI, t, Plain(tag), call),
         UNCHANGED <<t_wait4sender, families, reap>>
  PROVE  FamilyTree' /\ SsiHolds' /\ RootHolds'
<1>0. /\ TypeOK /\ FamilyTree /\ SsiHolds /\ RootHolds /\ SSI \in Tcb
      /\ call \in [Tcb -> CallState]
  BY NodeFacts DEF FamilyInv, TypeOK
<1>1. Plain(tag) \in Payload /\ Plain(tag).tag \notin AllServices
  BY PayloadFacts, TagFacts DEF Plain, AllServices, Queries, Managing
<1>2. SsiCall(call[SSI]) /\ Requested(t_msgq[SSI])
  BY <1>0 DEF SsiHolds
<1>3. /\ SsiCall(call'[SSI])
      /\ call'[SSI].op = "reap" => call[SSI].op = "reap"
      /\ Requested(t_msgq'[SSI])
  BY <1>0, <1>1, <1>2, SendSsi
<1> QED
  BY <1>0, <1>3, FamiliesKept DEF SsiHolds, Returns, families

\* The timer, the devices and the scheduler touch no family.
LEMMA SchedulerFamily ==
  ASSUME FamilyInv, InterruptsNext \/ SchedulerNext
  PROVE  FamilyTree' /\ SsiHolds' /\ RootHolds'
<1>0. TypeOK /\ FamilyTree /\ SsiHolds /\ RootHolds
  BY DEF FamilyInv
<1>1. CASE UNCHANGED <<call, mail, families, reap>>
  BY <1>0, <1>1, FamiliesKept, SsiKept DEF mail, families
<1>2. CASE Crash
  BY <1>2, CrashFamily
<1>3. ASSUME NEW d \in Devices, DeviceInterrupt(d)
      PROVE  FamilyTree' /\ SsiHolds' /\ RootHolds'
  <2>1. device_list[d] \in Tcb
    BY <1>0, <1>3 DEF DeviceInterrupt, TypeOK
  <2>2. /\ sys_send_msg(SSI, device_list[d], Plain("status"), call)
        /\ UNCHANGED <<t_wait4sender, families, reap>>
    BY <1>3 DEF DeviceInterrupt
  <2> QED
    BY <2>1, <2>2, HandlerFamily
<1>4. CASE ClockExpire
  <2>1. \/ Crash
        \/ /\ thread_qhead(sched, clock) \in Tcb
           /\ sys_send_msg(SSI, thread_qhead(sched, clock), Plain("tick"), call)
           /\ UNCHANGED <<t_wait4sender, families, reap>>
    BY <1>4, Zenon DEF ClockExpire
  <2> QED
    BY <1>2, <2>1, HandlerFamily
<1>5. CASE SliceOver \/ Tick
  BY <1>1, <1>5 DEF SliceOver, Tick
<1>6. CASE Halt \/ Panic \/ Wait \/ FallThrough \/ Resume
  BY <1>1, <1>6 DEF Halt, Panic, Wait, FallThrough, Resume, Stop
<1>7. CASE Dispatch
  <2>1. Crash \/ UNCHANGED <<call, mail, families, reap>>
    BY <1>7, Zenon DEF Dispatch
  <2> QED
    BY <1>1, <1>2, <2>1
<1> QED
  BY <1>3, <1>4, <1>5, <1>6, <1>7 DEF InterruptsNext, SchedulerNext

(*---------------------------------- boot -------------------------------*)

\* The free list after boot: the table from its third entry on.
LEMMA BootList ==
  ASSUME NEW S, NEW store \in Seq(S), S = ToSet(store), Len(store) >= 2,
         IsInjective(store)
  PROVE  /\ IsInjective(SubSeq(store, 3, Len(store)))
         /\ \A x \in S : Contains(SubSeq(store, 3, Len(store)), x)
                          <=> x # store[1] /\ x # store[2]
         /\ store[1] # store[2]
<1> DEFINE r == SubSeq(store, 3, Len(store))
           n == Len(store)
<1>1. n \in Nat /\ DOMAIN store = 1..n
  OBVIOUS
<1>2. \A j, k \in 1..n : store[j] = store[k] => j = k
  BY <1>1 DEF IsInjective
<1>3. /\ Len(r) = n - 2 /\ DOMAIN r = 1..(n - 2)
      /\ \A j \in 1..(n - 2) : r[j] = store[j + 2]
  BY <1>1
<1> HIDE DEF r
<1>4. IsInjective(r)
  BY <1>1, <1>2, <1>3 DEF IsInjective
<1>5. store[1] # store[2]
  BY <1>1, <1>2
<1>6. ASSUME NEW x \in S
      PROVE  Contains(r, x) <=> x # store[1] /\ x # store[2]
  <2>1. ASSUME Contains(r, x) PROVE x # store[1] /\ x # store[2]
    <3>1. PICK j \in 1..(n - 2) : r[j] = x
      BY <1>3, <2>1 DEF Contains
    <3>2. j + 2 \in 1..n /\ store[j + 2] = x /\ j + 2 # 1 /\ j + 2 # 2
      BY <1>1, <1>3, <3>1
    <3>3. 1 \in 1..n /\ 2 \in 1..n
      BY <1>1
    <3> QED
      BY <1>2, <3>2, <3>3
  <2>2. ASSUME x # store[1], x # store[2] PROVE Contains(r, x)
    <3>1. PICK k \in 1..n : store[k] = x
      BY <1>1 DEF ToSet
    <3>2. k - 2 \in 1..(n - 2) /\ (k - 2) + 2 = k
      BY <1>1, <2>2, <3>1
    <3> QED
      BY <1>3, <3>1, <3>2 DEF Contains
  <2> QED
    BY <2>1, <2>2
<1> QED
  BY <1>4, <1>5, <1>6 DEF r

\* What main() builds.
LEMMA InitFamily == Init => FamilyInv
<1> SUFFICES ASSUME Init PROVE FamilyInv
  OBVIOUS
<1>0. /\ TypeOK
      /\ SSI \in Tcb /\ test_thread \in Tcb /\ root \in Pcb /\ test_proc \in Pcb
      /\ NULL \notin Tcb /\ NULL \notin Pcb
  BY InitType, NodeFacts
<1>1. /\ IsInjective(free_thread)
      /\ \A x \in Tcb : Contains(free_thread, x) <=> x # SSI /\ x # test_thread
      /\ SSI # test_thread
  BY StoreAssumption, BootList DEF Init, SSI, test_thread, Tcb
<1>2. /\ IsInjective(free_proc)
      /\ \A x \in Pcb : Contains(free_proc, x) <=> x # root /\ x # test_proc
      /\ root # test_proc
  BY StoreAssumption, BootList DEF Init, root, test_proc, Pcb
<1>3. /\ IsInjective(<<>>) /\ \A x : ~Contains(<<>>, x)
  BY DEF IsInjective, Contains
<1>4. \A y : IsInjective(<<y>>) /\ \A x : Contains(<<y>>, x) <=> x = y
  BY DEF IsInjective, Contains
<1>5. /\ \A t \in Tcb : t_pcb[t] = IF t = SSI THEN root
                                  ELSE IF t = test_thread THEN test_proc ELSE NULL
      /\ \A p \in Pcb : p_threads[p] = IF p = root THEN <<SSI>>
                                  ELSE IF p = test_proc THEN <<test_thread>> ELSE <<>>
  BY <1>1, <1>2 DEF Init
<1>6. /\ \A c \in Pcb : p_parent[c] = IF c = test_proc THEN root ELSE NULL
      /\ \A p \in Pcb : p_children[p] = IF p = root THEN <<test_proc>> ELSE <<>>
  BY DEF Init
<1>7. ThreadTree
  BY <1>0, <1>1, <1>2, <1>3, <1>4, <1>5 DEF ThreadTree
<1>8. ProcTree
  BY <1>0, <1>2, <1>3, <1>4, <1>6 DEF ProcTree
<1>9. FreeEmpty
  BY <1>0, <1>2, <1>5, <1>6 DEF FreeEmpty
<1>10. SsiHolds
  <2>1. call[SSI] = Recv(NULL) /\ t_wait4sender[SSI] = NULL /\ t_msgq[SSI] = <<>>
    BY <1>0 DEF Init
  <2>2. SsiCall(Recv(NULL)) /\ Recv(NULL).op # "reap"
    BY DEF SsiCall, Recv
  <2> QED
    BY <2>1, <2>2 DEF SsiHolds, Returns, Requested
<1>11. RootHolds
  <2>1. reap["ssi"] = NoReap /\ reap["nucleus"] = NoReap
    BY DEF Init
  <2>2. Spares(NoReap)
    BY DEF Spares, NoReap
  <2> QED
    BY <1>0, <1>1, <1>2, <1>5, <1>6, <2>1, <2>2 DEF RootHolds
<1> QED
  BY <1>0, <1>7, <1>8, <1>9, <1>10, <1>11 DEF FamilyInv, FamilyTree

\* The inductive invariant: the families are sound, and neither the root nor
\* the SSI is ever the victim of an extermination.
THEOREM FamilyInductive == Spec => []FamilyInv
<1>1. Init => FamilyInv
  BY InitFamily
<1>2. FamilyInv /\ [Next]_vars => FamilyInv'
  <2> SUFFICES ASSUME FamilyInv, [Next]_vars PROVE FamilyInv'
    OBVIOUS
  <2>1. TypeOK'
    <3>1. TypeOK
      BY DEF FamilyInv
    <3> QED
      BY <3>1, TypeStep
  <2>2. CASE SsiNext
    BY <2>2, CreateThreadFamily, CreateProcessFamily, OtherServicesFamily,
       KillingServicesFamily, TerminateProcessFamily,
       ReapThreadFamily, ReapChildFamily, ReapProcFamily, ReapDoneFamily, <2>1
    DEF SsiNext, FamilyInv, Killers
  <2>3. CASE ExceptionsNext
    BY <2>1, <2>3, ExceptionsFamily DEF FamilyInv
  <2>4. CASE InterruptsNext \/ SchedulerNext
    BY <2>1, <2>4, SchedulerFamily DEF FamilyInv
  <2>5. CASE UNCHANGED vars
    BY <2>1, <2>5, FamiliesKept, SsiKept DEF FamilyInv, vars, mail, families
  <2> QED
    BY <2>2, <2>3, <2>4, <2>5 DEF Next
<1> QED
  BY <1>1, <1>2, PTL DEF Spec

\* The family links agree, whoever kills whom: no thread and no process is
\* lost, on two lists, or left in a process that is free.
THEOREM FamilySound == Spec => []FamilyTree
<1>1. FamilyInv => FamilyTree
  BY DEF FamilyInv
<1> QED
  BY <1>1, FamilyInductive, PTL
==============================================================================
