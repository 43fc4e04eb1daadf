---------------------------- MODULE PromiseProofs ----------------------------
(***************************************************************************)
(* Where nobody is killed and nobody traps, the nucleus implements the     *)
(* service of Service, for every value of its constants: requests are      *)
(* taken in order and each is answered once, with an answer to it, by the  *)
(* SSI, a device or the clock.                                             *)
(***************************************************************************)
EXTENDS TokenProofs

(*------------------------- the queue of the clock ----------------------*)

\* From the links s to the links z nothing changes behind the clock's head
\* and the threads that wait for it.
Keeps(s, z, on) == \A n \in Node : on[n] = clock => z.next[n] = s.next[n]

LEMMA ClockFacts ==
  /\ clock \in Heads /\ clock \in Node /\ clock \notin Tcb
  /\ "ready_queue" \in Heads \ {clock} /\ "wait_queue" \in Heads \ {clock}
  /\ "cpu" # clock /\ "device" # clock /\ "none" # clock
BY NodeFacts, StoreAssumption DEF clock, Heads

LEMMA KeepsTwice ==
  ASSUME NEW s, NEW u, NEW z, NEW on, NEW o, Keeps(s, u, on), Keeps(u, z, o),
         \A n \in Node : on[n] = clock => o[n] = clock
  PROVE  Keeps(s, z, on)
BY DEF Keeps

\* A thread leaves another queue.
LEMMA OutKeeps ==
  ASSUME NEW s \in SchedType, NEW on, \E pos : Rings(s, on, pos),
         NEW t \in Tcb, on[t] \in Heads \ {clock}
  PROVE  Keeps(s, thread_outqueue(s, t), on)
<1>1. /\ t \in Node /\ s.prev[t] \in Node
      /\ s.next \in [Node -> Node]
      /\ thread_outqueue(s, t).next = [s.next EXCEPT ![s.prev[t]] = s.next[t]]
  BY NodeFacts DEF SchedType, thread_outqueue, list_del
<1>2. on[s.prev[t]] = on[t]
  BY <1>1 DEF Rings, OnRing
<1> QED
  BY <1>1, <1>2 DEF Keeps

\* A thread joins another queue.
LEMMA InKeeps ==
  ASSUME NEW s \in SchedType, NEW on, \E pos : Rings(s, on, pos),
         NEW t \in Tcb, on[t] # clock, NEW h \in Heads \ {clock}
  PROVE  Keeps(s, thread_enqueue(s, t, h), on)
<1>1. /\ t \in Node /\ h \in Node /\ s.prev[h] \in Node
      /\ s.next \in [Node -> Node]
  BY NodeFacts DEF SchedType
<1>2. thread_enqueue(s, t, h).next = [[s.next EXCEPT ![t] = h] EXCEPT ![s.prev[h]] = t]
  BY <1>1 DEF SchedType, thread_enqueue, list_add_tail, list_add_between
<1>3. on[s.prev[h]] = h /\ h # clock
  BY <1>1 DEF Rings, OnRing
<1> QED
  BY <1>1, <1>2, <1>3 DEF Keeps

\* INIT_LIST_HEAD of a thread that does not wait for the clock.
LEMMA InitKeeps ==
  ASSUME NEW s \in SchedType, NEW on, NEW t \in Tcb, on[t] # clock
  PROVE  Keeps(s, INIT_LIST_HEAD(s, t), on)
<1>1. INIT_LIST_HEAD(s, t).next = [s.next EXCEPT ![t] = t] /\ s.next \in [Node -> Node]
  BY DEF SchedType, INIT_LIST_HEAD
<1> QED
  BY <1>1 DEF Keeps

\* Statuses and the counter are no links.
LEMMA MarkKeeps ==
  ASSUME NEW s, NEW z, NEW u, z.next = u.next, NEW on, Keeps(s, u, on)
  PROVE  Keeps(s, z, on)
BY DEF Keeps

LEMMA SameKeeps ==
  ASSUME NEW s, NEW z, z.next = s.next, NEW on
  PROVE  Keeps(s, z, on)
BY DEF Keeps

(*---------------------- the scheduling operations ----------------------*)

\* put_thread_sleep by the running thread.
LEMMA SleepKeeps ==
  ASSUME NEW s \in SchedType, NEW on, NEW t \in Tcb, Shape(s, t, on)
  PROVE  Keeps(s, put_thread_sleep(s, t), on)
<1>1. on[t] = "cpu" /\ Lone(s, t) /\ t \in Node
  BY NodeFacts DEF Shape
<1>2. thread_outqueue(s, t) = s
  BY <1>1, LoneDel DEF thread_outqueue
<1>3. Keeps(s, thread_enqueue(s, t, "wait_queue"), on)
  BY <1>1, ClockFacts, InKeeps DEF Shape
<1>4. put_thread_sleep(s, t).next = thread_enqueue(s, t, "wait_queue").next
  <2>1. thread_enqueue(s, t, "wait_queue") \in SchedType
    BY ClockFacts, QueueType
  <2> QED
    BY <1>2, <2>1 DEF put_thread_sleep, SchedType
<1> QED
  BY <1>3, <1>4, MarkKeeps

\* wake_me_up of a sleeper in the wait queue.
LEMMA WakeKeeps ==
  ASSUME NEW s \in SchedType, NEW c, NEW on, Shape(s, c, on),
         NEW t \in Tcb, on[t] = "wait_queue"
  PROVE  Keeps(s, wake_me_up(s, t), on)
<1> DEFINE u == thread_outqueue(s, t)
           z == [on EXCEPT ![t] = "none"]
           v == thread_enqueue(u, t, "ready_queue")
<1>1. u \in SchedType /\ \E pos : Rings(u, z, pos)
  BY ShapeFacts, Leave
<1>2. Keeps(s, u, on)
  BY ClockFacts, OutKeeps DEF Shape
<1>3. /\ z[t] # clock /\ z[t] \notin Heads
      /\ \A n \in Node : on[n] = clock => z[n] = clock
  BY ShapeFacts, ClockFacts, NodeFacts
<1> HIDE DEF u, z
<1>4. Keeps(u, v, z) /\ v \in SchedType
  BY <1>1, <1>3, ClockFacts, InKeeps, Join
<1>5. Keeps(s, v, on)
  BY <1>2, <1>3, <1>4, KeepsTwice
<1>6. wake_me_up(s, t).next = v.next
  BY <1>4 DEF wake_me_up, SchedType, u
<1> QED
  BY <1>5, <1>6, MarkKeeps

\* A block is handed out and joins the ready queue.
LEMMA StartKeeps ==
  ASSUME NEW s \in SchedType, NEW c, NEW on, Shape(s, c, on),
         NEW t \in Tcb, s.status[t] = "NONE"
  PROVE  Keeps(s, thread_enqueue([INIT_LIST_HEAD(s, t) EXCEPT !.status[t] = "READY"],
                                 t, "ready_queue"), on)
<1> DEFINE w == INIT_LIST_HEAD(s, t)
           u == [w EXCEPT !.status[t] = "READY"]
<1>1. on[t] = "none" /\ on[t] # clock /\ on[t] \notin Heads
  <2>1. on[t] = "none"
    BY DEF Shape
  <2> QED
    BY <2>1, ClockFacts, ShapeFacts
<1>2. PICK pos : Rings(s, on, pos)
  BY DEF Shape
<1>3. Rings(w, on, pos) /\ Keeps(s, w, on) /\ w \in SchedType
  BY <1>1, <1>2, RingInit, InitKeeps, LinkType, NodeFacts
<1> HIDE DEF w
<1>4. u.next = w.next /\ u.prev = w.prev /\ u \in SchedType
  BY <1>3 DEF SchedType, Status
<1>5. Rings(u, on, pos) /\ Keeps(s, u, on)
  BY <1>3, <1>4, RingsLinks, MarkKeeps
<1>6. Keeps(u, thread_enqueue(u, t, "ready_queue"), on)
  BY <1>1, <1>4, <1>5, ClockFacts, InKeeps
<1> QED
  BY <1>5, <1>6, KeepsTwice DEF w

\* The head of the ready queue is given the processor.
LEMMA DispatchKeeps ==
  ASSUME NEW s \in SchedType, NEW on, \E pos : Rings(s, on, pos),
         NEW t \in Tcb, t = thread_qhead(s, "ready_queue")
  PROVE  Keeps(s, thread_dequeue(s, "ready_queue"), on)
<1>1. "ready_queue" \in Heads /\ "ready_queue" # clock
  BY ClockFacts
<1>2. on[t] = "ready_queue"
  BY <1>1, NodeFacts DEF Rings, OnRing, thread_qhead
<1> DEFINE u == thread_outqueue(s, t)
<1>3. u \in SchedType /\ Keeps(s, u, on)
  BY <1>1, <1>2, OutKeeps, QueueType, NodeFacts
<1>4. thread_dequeue(s, "ready_queue") = INIT_LIST_HEAD(u, t)
  BY DEF thread_dequeue, thread_outqueue, thread_qhead
<1> HIDE DEF u
<1>5. Keeps(u, INIT_LIST_HEAD(u, t), on)
  BY <1>1, <1>2, <1>3, InitKeeps
<1> QED
  BY <1>3, <1>4, <1>5, KeepsTwice

\* The SSI parks the sender.
LEMMA ParkKeeps ==
  ASSUME NEW s \in SchedType, NEW c, NEW on, Shape(s, c, on),
         Sender \in Tcb, on[Sender] \in {"ready_queue", "wait_queue"}
  PROVE  Keeps(s, parked(s), on)
<1>1. Keeps(s, thread_outqueue(s, Sender), on)
  BY ClockFacts, OutKeeps DEF Shape
<1>2. parked(s).next = thread_outqueue(s, Sender).next
  BY NodeFacts DEF parked, thread_outqueue, list_del, SchedType
<1> QED
  BY <1>1, <1>2, MarkKeeps

\* A parked thread is answered.
LEMMA AnswerKeeps ==
  ASSUME NEW s \in SchedType, NEW c, NEW on, Shape(s, c, on), NEW t \in Tcb, on[t] = "device",
         Accepts(t, SSI) <=> s.status[t] = "W4MSG"
  PROVE  Keeps(s, sent(resumed(s, t), SSI, t), on)
<1> DEFINE r == resumed(s, t)
           h == IF s.status[t] = "READY" THEN "ready_queue" ELSE "wait_queue"
           o == [on EXCEPT ![t] = h]
<1>1. on[t] \notin Heads /\ h \in Heads \ {clock} /\ on[t] # clock
  BY ClockFacts, ShapeFacts
<1>2. thread_enqueue(s, t, h) \in SchedType /\ Keeps(s, thread_enqueue(s, t, h), on)
  <2>1. \E pos : Rings(s, on, pos)
    BY DEF Shape
  <2> HIDE DEF h
  <2> QED
    BY <1>1, <2>1, InKeeps, Join
<1>3. r.next = thread_enqueue(s, t, h).next /\ r \in SchedType
  <2>1. r = IF s.status[t] = "READY" THEN [thread_enqueue(s, t, h) EXCEPT !.soft = Down(@)]
            ELSE thread_enqueue(s, t, h)
    BY DEF resumed
  <2>2. \A x \in -CountBound..CountBound : Down(x) \in -CountBound..CountBound
    BY BoundAssumption DEF Down
  <2> HIDE DEF r, h
  <2> QED
    BY <1>2, <2>1, <2>2 DEF SchedType
<1>4. Keeps(s, r, on)
  BY <1>2, <1>3, MarkKeeps
<1>5. CASE Accepts(t, SSI)
  <2>1. s.status[t] = "W4MSG" /\ h = "wait_queue"
    BY <1>5
  <2>2. Shape(r, c, o) /\ o[t] = "wait_queue"
    BY <2>1, ResumedShape, ShapeFacts, NodeFacts
  <2>3. \A n \in Node : on[n] = clock => o[n] = clock
    BY <1>1, ShapeFacts, NodeFacts
  <2> HIDE DEF r, o
  <2>4. Keeps(r, wake_me_up(r, t), o)
    BY <1>3, <2>2, WakeKeeps
  <2>5. Keeps(s, wake_me_up(r, t), on)
    BY <1>4, <2>3, <2>4, KeepsTwice
  <2> QED
    BY <1>5, <2>5 DEF sent, r
<1>6. CASE ~Accepts(t, SSI)
  BY <1>4, <1>6 DEF sent
<1> QED
  BY <1>5, <1>6

(*------------------------- the steps of the nucleus --------------------*)

\* The services other than WAIT_FOR_CLOCK.
LEMMA ServicesKeep ==
  ASSUME Peaceful, Calm, NEW on, RingInv(on), SsiNext
  PROVE  WaitForClock \/ (Keeps(sched, sched', on) /\ cpu' = cpu)
<1>0. /\ TypeOK /\ SSI \in Tcb /\ call \in [Tcb -> CallState] /\ sched \in SchedType
      /\ cpu # "reap"
  BY RingFacts, ClientFacts DEF Calm
<1>1. CASE GetErrno \/ Query \/ DoIoBusy
  <2>1. sched' = sched /\ cpu' = cpu
    BY <1>1 DEF GetErrno, Query, DoIoBusy
  <2> QED
    BY <2>1, SameKeeps
<1>2. CASE CreateProcess \/ CreateThread
  <2>1. /\ cpu' = cpu
        /\ sched' = sched \/ (free_thread # <<>> /\ \E p \in Pcb : start_thread(p, Head(free_thread)))
    <3>1. Sender \in Tcb /\ TypeOK
      <4>1. \E tags : Serving(tags)
        BY <1>2 DEF CreateProcess, CreateThread
      <4> QED
        BY <1>0, <4>1, SenderFacts
    <3>2. t_pcb[Sender] \in Pcb \union {NULL} /\ (free_proc # <<>> => Head(free_proc) \in Pcb)
      BY <3>1, SeqFacts DEF TypeOK
    <3> QED
      BY <1>2, <3>2 DEF CreateProcess, CreateThread
  <2>2. CASE free_thread # <<>> /\ \E p \in Pcb : start_thread(p, Head(free_thread))
    <3>1. PICK new : new = Head(free_thread)
      OBVIOUS
    <3>2. /\ free_thread # <<>>
          /\ sched' = thread_enqueue([INIT_LIST_HEAD(sched, new) EXCEPT !.status[new] = "READY"],
                                     new, "ready_queue")
      BY <2>2, <3>1 DEF start_thread
    <3>3. new \in Tcb /\ t_pcb[new] = NULL
      <4>1. TypeOK /\ ThreadTree
        BY RingFacts DEF Calm, FamilyInv, FamilyTree
      <4>2. Head(free_thread) \in Tcb
        BY <3>2, <4>1, SeqFacts DEF TypeOK
      <4> QED
        BY <2>2, <3>1, <3>2, <4>1, <4>2, StartThreadTree
    <3>4. sched.status[new] = "NONE"
      BY <3>3 DEF Calm, Peace, Unborn, Born
    <3>5. Keeps(sched, thread_enqueue([INIT_LIST_HEAD(sched, new) EXCEPT !.status[new] = "READY"],
                                     new, "ready_queue"), on)
      BY <1>0, <3>3, <3>4, StartKeeps DEF RingInv
    <3> QED
      BY <2>1, <3>2, <3>5
  <2> QED
    BY <2>1, <2>2, SameKeeps
<1>3. CASE DoIo
  <2>1. Serving({"DO_IO"}) /\ sched' = parked(sched) /\ cpu' = cpu
    BY <1>3 DEF DoIo
  <2>2. Sender \in Tcb /\ on[Sender] \in {"ready_queue", "wait_queue"}
    BY <2>1, SenderFacts
  <2>3. Keeps(sched, parked(sched), on)
    BY <1>0, <2>2, ParkKeeps DEF RingInv
  <2> QED
    BY <2>1, <2>3
<1>4. CASE TerminateProcess \/ TerminateThread \/ BadRequest \/ SetManager
  BY <1>4, SenderFacts
  DEF TerminateProcess, TerminateThread, BadRequest, SetManager, Managing, Killing
<1>5. ASSUME NEW who \in Killers,
             ReapThread(who) \/ ReapChild(who) \/ ReapProc(who) \/ ReapDone(who)
      PROVE  FALSE
  BY <1>5, NobodyReaps
<1> QED
  BY <1>1, <1>2, <1>3, <1>4, <1>5 DEF SsiNext, Killers

\* SYS_SEND to a thread that the message wakes, or does not.
LEMMA SentKeeps ==
  ASSUME Calm, NEW on, RingInv(on), NEW from \in Tcb, NEW to \in Tcb,
         Accepts(to, from) => on[to] = "wait_queue"
  PROVE  Keeps(sched, sent(sched, from, to), on)
<1>1. sched \in SchedType /\ Shape(sched, current_thread, on)
  BY RingFacts DEF RingInv
<1>2. Accepts(to, from) => Keeps(sched, wake_me_up(sched, to), on)
  BY <1>1, WakeKeeps
<1> QED
  BY <1>2, SameKeeps DEF sent

LEMMA SysSendKeeps ==
  ASSUME Peaceful, Calm, NEW on, RingInv(on), Request \/ SysSend \/ SysSendPending
  PROVE  Keeps(sched, sched', on)
<1>0. /\ SSI \in Tcb /\ call \in [Tcb -> CallState] /\ TypeOK
  BY RingFacts, ClientFacts
<1>1. PICK to, m, next :
        /\ to \in Tcb
        /\ current_thread \in Tcb /\ sys_send(to, m, next)
        /\ Accepts(to, current_thread) => on[to] = "wait_queue"
  <2>1. CASE Request
    <3>1. current_thread \in Clients /\ current_thread \in Tcb
      BY <2>1, RunnerFacts, ClientFacts DEF Request
    <3>2. Accepts(SSI, current_thread) => on[SSI] = "wait_queue"
      BY <1>0, <3>1, RingFacts
    <3> QED
      BY <1>0, <2>1, <3>1, <3>2 DEF Request
  <2>2. CASE SysSend
    <3>1. current_thread \in Clients /\ current_thread \in Tcb
      BY <2>2, RunnerFacts, ClientFacts DEF SysSend
    <3>2. \A t \in Known : t \in Tcb /\ (Accepts(t, current_thread) => on[t] = "wait_queue")
      BY <3>1, KnownAlive, RingFacts, ClientFacts
    <3> QED
      BY <2>2, <3>1, <3>2 DEF SysSend
  <2>3. CASE SysSendPending
    <3>1. current_thread = SSI /\ call[SSI].op = "send"
      BY <2>3, RunnerFacts DEF SysSendPending
    <3>2. PICK t : t = call[SSI].peer
      OBVIOUS
    <3>3. t \in Tcb /\ Serves(call, t)
      BY <1>0, <3>1, <3>2, CallFacts DEF Serves
    <3>4. t \in Clients /\ on[t] \notin Off
      BY <3>3, RingFacts, ClientFacts
    <3>5. Accepts(t, SSI) => on[t] = "wait_queue"
      BY <1>0, <3>3, <3>4, RingFacts
    <3> QED
      BY <2>3, <3>1, <3>2, <3>3, <3>5, <1>0 DEF SysSendPending
  <2> QED
    BY <2>1, <2>2, <2>3
<1>2. sched' = sched \/ sched' = sent(sched, current_thread, to)
  BY <1>1, SysSendCases
<1>3. Keeps(sched, sent(sched, current_thread, to), on)
  BY <1>1, SentKeeps
<1> QED
  BY <1>2, <1>3, SameKeeps

\* All system calls.
LEMMA ExceptionsKeep ==
  ASSUME Peaceful, Calm, NEW on, RingInv(on), ExceptionsNext
  PROVE  Keeps(sched, sched', on)
<1>1. CASE Request \/ SysSend \/ SysSendPending
  BY <1>1, SysSendKeeps
<1>2. CASE SysRecv \/ SysRecvPending
  <2>1. current_thread \in Tcb
    BY <1>2, RunnerFacts DEF SysRecv, SysRecvPending
  <2>2. \E s : sys_recv(s)
    BY <1>2 DEF SysRecv, SysRecvPending
  <2>3. sched' = sched \/ sched' = put_thread_sleep(sched, current_thread)
    BY <2>2 DEF sys_recv, check_thread_alive
  <2>4. sched \in SchedType /\ Shape(sched, current_thread, on)
    BY RingFacts DEF RingInv
  <2>5. Keeps(sched, put_thread_sleep(sched, current_thread), on)
    BY <2>1, <2>4, SleepKeeps
  <2> QED
    BY <2>3, <2>5, SameKeeps
<1>3. CASE SysPassup \/ TlbTrap \/ PgmTrap
  BY <1>3 DEF SysPassup, TlbTrap, PgmTrap, Peaceful
<1>4. CASE SysZero \/ Breakpoint
  BY <1>4, SameKeeps DEF SysZero, Breakpoint
<1> QED
  BY <1>1, <1>2, <1>3, <1>4 DEF ExceptionsNext

\* The interrupts, and the scheduler but for the expiry of a wait.
LEMMA NucleusKeeps ==
  ASSUME Peaceful, Calm, NEW on, RingInv(on),
         \/ SliceOver \/ Tick \/ \E d \in Devices : DeviceInterrupt(d)
         \/ Halt \/ Panic \/ Wait \/ FallThrough \/ Resume \/ Dispatch
  PROVE  Keeps(sched, sched', on)
<1>0. /\ sched \in SchedType /\ Shape(sched, current_thread, on)
      /\ current_thread \in Tcb \union {NULL} /\ NULL \notin Tcb
      /\ device_list \in [Devices -> Tcb \union {NULL}]
  BY RingFacts, NodeFacts DEF RingInv
<1>1. CASE SliceOver
  <2>1. PICK t \in Tcb : t = current_thread
    BY <1>0, <1>1 DEF SliceOver
  <2>2. on[t] # clock /\ \E pos : Rings(sched, on, pos)
    BY <1>0, <2>1, ClockFacts DEF Shape
  <2>3. Keeps(sched, thread_enqueue(sched, t, "ready_queue"), on)
    BY <1>0, <2>2, ClockFacts, InKeeps
  <2> QED
    BY <1>1, <2>1, <2>3 DEF SliceOver
<1>2. CASE Tick \/ Halt \/ Panic \/ Wait \/ FallThrough \/ Resume
  BY <1>2, SameKeeps DEF Tick, Halt, Panic, Wait, FallThrough, Stop, Resume
<1>3. ASSUME NEW d \in Devices, DeviceInterrupt(d)
      PROVE  Keeps(sched, sched', on)
  <2>1. PICK t : t = device_list[d]
    OBVIOUS
  <2>2. sched' = sent(resumed(sched, t), SSI, t) /\ t # NULL
    BY <1>3, <2>1 DEF DeviceInterrupt
  <2>3. t \in Tcb
    BY <1>0, <2>1, <2>2
  <2>4. on[t] = "device"
    BY <2>1, <2>3 DEF RingInv, Devs
  <2>5. Accepts(t, SSI) <=> sched.status[t] = "W4MSG"
    BY <2>3, <2>4, RingFacts DEF Off
  <2> QED
    BY <1>0, <2>2, <2>3, <2>4, <2>5, AnswerKeeps
<1>4. CASE Dispatch
  <2>1. PICK t : t = thread_qhead(sched, "ready_queue")
    OBVIOUS
  <2>2. \/ t \in Tcb /\ sched' = thread_dequeue(sched, "ready_queue")
        \/ sched' = sched
    BY <1>4, <2>1 DEF Dispatch, Crash
  <2>3. t \in Tcb => Keeps(sched, thread_dequeue(sched, "ready_queue"), on)
    BY <1>0, <2>1, DispatchKeeps DEF Shape
  <2> QED
    BY <2>2, <2>3, SameKeeps
<1> QED
  BY <1>1, <1>2, <1>3, <1>4

(*-------------------------------- waiters ------------------------------*)

\* A walk from the head of the clock's queue depends on no other links.
LEMMA KeepsMembers ==
  ASSUME NEW s \in SchedType, NEW z \in SchedType, NEW on, \E pos : Rings(s, on, pos),
         Keeps(s, z, on)
  PROVE  Members(z, clock) = Members(s, clock)
<1> DEFINE K == Cardinality(Node)
           a == list_cursor(s, clock)
           b == list_cursor(z, clock)
           T == {i \in Nat : i \in 0..K => a[i] = b[i] /\ on[a[i]] = clock}
<1>0. K \in Nat /\ clock \in Node /\ on[clock] = clock
  BY TablesFinite, ClockFacts DEF Rings
<1>1. /\ a \in [0..K -> Node] /\ a[0] = s.next[clock]
      /\ \A i \in 1..K : a[i] = s.next[a[i - 1]]
      /\ b \in [0..K -> Node] /\ b[0] = z.next[clock]
      /\ \A i \in 1..K : b[i] = z.next[b[i - 1]]
  BY <1>0, CursorIs
<1>2. \A n \in Node : on[n] = clock => z.next[n] = s.next[n] /\ on[s.next[n]] = clock
  BY ClockFacts DEF Keeps, Rings, OnRing
<1>3. Members(s, clock) = {a[i] : i \in DOMAIN a} /\ Members(z, clock) = {b[i] : i \in DOMAIN b}
  BY DEF Members
<1> HIDE DEF K, a, b
<1>4. 0 \in T
  BY <1>0, <1>1, <1>2
<1>5. ASSUME NEW n \in Nat, n \in T PROVE n + 1 \in T
  <2>1. CASE n + 1 \in 0..K
    <3>1. n \in 0..K /\ n + 1 \in 1..K /\ (n + 1) - 1 = n
      BY <1>0, <2>1
    <3>2. a[n] = b[n] /\ on[a[n]] = clock /\ a[n] \in Node
      BY <1>1, <1>5, <3>1
    <3>3. a[n + 1] = s.next[a[n]] /\ b[n + 1] = z.next[b[n]]
      BY <1>1, <3>1
    <3> QED
      BY <1>2, <3>2, <3>3
  <2> QED
    BY <2>1
<1>6. Nat \subseteq T
  <2> HIDE DEF T
  <2> QED
    BY <1>4, <1>5, AllNumbers
<1>7. \A i \in 0..K : a[i] = b[i]
  BY <1>0, <1>6
<1>8. DOMAIN a = 0..K /\ DOMAIN b = 0..K
  BY <1>1
<1> QED
  BY <1>3, <1>7, <1>8

\* What a step does to the queue of the clock: nothing, or a thread joins
\* its end, or its head leaves.
ClockStays ==
  Waiters' = Waiters /\ \A t \in Waiters : sched'.next[t] = sched.next[t]
ClockJoins(t) ==
  /\ t \in Tcb \ Waiters /\ Waiters' = Waiters \union {t}
  /\ sched'.next[t] = clock
  /\ \A x \in Waiters : sched'.next[x] = IF sched.next[x] = clock THEN t ELSE sched.next[x]
ClockLeaves(t) ==
  /\ t = sched.next[clock] /\ t \in Waiters /\ Waiters' = Waiters \ {t}
  /\ \A x \in Waiters \ {t} : sched'.next[x] = sched.next[x]

\* The waiters are the threads whose place is the queue.
LEMMA WaitersAre ==
  ASSUME Calm, NEW on, RingInv(on)
  PROVE  /\ Waiters = {t \in Tcb : on[t] = clock}
         /\ \A t \in Waiters : t \in Tcb /\ t \in Node /\ sched.next[t] \in Waiters \union {clock}
<1>1. Members(sched, clock) = {n \in Node : on[n] = clock}
  BY QueuesAre, ClockFacts
<1>2. Waiters = {t \in Tcb : on[t] = clock}
  BY <1>1, NodeFacts DEF Waiters
<1>3. ASSUME NEW n \in Node, on[n] = clock, n \notin Tcb PROVE n = clock
  BY <1>3, ClockFacts DEF Node, RingInv, Shape, Rings
<1>4. \A t \in Tcb : on[t] = clock => sched.next[t] \in Node /\ on[sched.next[t]] = clock
  <2>1. sched \in SchedType
    BY RingFacts
  <2> QED
    BY <2>1, ClockFacts, NodeFacts DEF RingInv, Shape, Rings, OnRing, SchedType
<1> QED
  BY <1>2, <1>3, <1>4, NodeFacts

LEMMA StaysInPlace ==
  ASSUME Calm, NEW on, RingInv(on), sched' \in SchedType, Keeps(sched, sched', on)
  PROVE  ClockStays
<1>1. sched \in SchedType /\ \E pos : Rings(sched, on, pos)
  BY RingFacts DEF RingInv, Shape
<1>2. Members(sched', clock) = Members(sched, clock)
  BY <1>1, KeepsMembers
<1>3. Waiters' = Waiters
  BY <1>2 DEF Waiters, clock
<1>4. \A t \in Waiters : sched'.next[t] = sched.next[t]
  BY WaitersAre DEF Keeps
<1> QED
  BY <1>3, <1>4 DEF ClockStays

LEMMA JoinsQueue ==
  ASSUME Peaceful, Calm, NEW on, RingInv(on), WaitForClock
  PROVE  ClockJoins(Sender)
<1>1. /\ Sender \in Tcb /\ on[Sender] \in {"ready_queue", "wait_queue"}
      /\ sched \in SchedType /\ Shape(sched, current_thread, on) /\ on \in [Node -> Places]
  BY RingFacts, SenderFacts DEF WaitForClock, RingInv
<1> DEFINE u   == parked(sched)
           off == [on EXCEPT ![Sender] = "device"]
           o   == [off EXCEPT ![Sender] = clock]
           z   == thread_enqueue(u, Sender, clock)
<1>2. /\ u \in SchedType /\ Shape(u, current_thread, off)
      /\ Keeps(sched, u, on)
  BY <1>1, ParkShape, ParkKeeps
<1>3. /\ off[Sender] = "device" /\ Sender \in Node /\ off \in [Node -> Places]
      /\ \A n \in Node : off[n] = IF n = Sender THEN "device" ELSE on[n]
      /\ \A n \in Node : o[n] = IF n = Sender THEN clock ELSE on[n]
  BY <1>1, NodeFacts, ShapeFacts
<1>4. sched' = z
  BY DEF WaitForClock, clock
<1> HIDE DEF u, off
<1>5. Shape(z, current_thread, o) /\ z \in SchedType
  BY <1>1, <1>2, <1>3, ClockShape, QueueType, ClockFacts
<1>6. /\ z.next = [[u.next EXCEPT ![Sender] = clock] EXCEPT ![u.prev[clock]] = Sender]
      /\ u.next \in [Node -> Node] /\ u.prev[clock] \in Node
  BY <1>1, <1>2, <1>3, ClockFacts DEF thread_enqueue, list_add_tail, list_add_between, SchedType
<1> HIDE DEF z, o
<1>7. Members(z, clock) = {n \in Node : o[n] = clock}
  BY <1>5, MembersAre, ClockFacts DEF Shape
<1>8. Waiters' = {t \in Tcb : o[t] = clock}
  BY <1>4, <1>7, NodeFacts DEF Waiters, clock
<1>9. Waiters = {t \in Tcb : on[t] = clock}
  BY WaitersAre
<1>10. Sender \in Tcb \ Waiters /\ Waiters' = Waiters \union {Sender}
  BY <1>1, <1>3, <1>8, <1>9, NodeFacts, ClockFacts
\* The old end of the queue is before the head.
<1>11. /\ \A x \in Node : off[x] = clock => (x = u.prev[clock] <=> u.next[x] = clock)
       /\ off[u.prev[clock]] = clock
  BY <1>2, ClockFacts DEF Shape, Rings, OnRing
<1>12. z.next[Sender] = clock
  <2>1. Sender # u.prev[clock]
    BY <1>3, <1>11, ClockFacts
  <2> QED
    BY <1>3, <1>6, <2>1
<1>13. ASSUME NEW x \in Waiters
       PROVE  z.next[x] = IF sched.next[x] = clock THEN Sender ELSE sched.next[x]
  <2>1. x \in Node /\ x # Sender /\ on[x] = clock /\ off[x] = clock
    BY <1>3, <1>9, <1>10, NodeFacts
  <2>2. u.next[x] = sched.next[x]
    BY <1>2, <2>1 DEF Keeps
  <2> QED
    BY <1>6, <1>11, <2>1, <2>2
<1> QED
  BY <1>4, <1>10, <1>12, <1>13 DEF ClockJoins

LEMMA LeavesQueue ==
  ASSUME Peaceful, Calm, NEW on, RingInv(on), ClockExpire
  PROVE  ClockLeaves(sched.next[clock]) /\ cpu' = cpu
<1>0. /\ sched \in SchedType /\ Shape(sched, current_thread, on)
      /\ on \in [Node -> Places] /\ \E pos : Rings(sched, on, pos)
  BY RingFacts DEF RingInv, Shape
<1>1. PICK t : t = sched.next[clock]
  OBVIOUS
<1>2. t \in Tcb /\ on[t] = clock /\ t \in Node
  <2>1. t # clock
    BY <1>1 DEF ClockExpire, list_empty
  <2>2. t \in Node /\ on[t] = clock
    BY <1>0, <1>1, ClockFacts DEF Rings, OnRing, SchedType
  <2>3. t \notin Tcb => on[t] = t
    BY <1>0, <2>2 DEF Rings, Node
  <2> QED
    BY <2>1, <2>2, <2>3
<1> DEFINE u == thread_dequeue(sched, clock)
           o == [on EXCEPT ![t] = "device"]
<1>3. sched' = sent(resumed(u, t), SSI, t) /\ cpu' = cpu
  BY <1>1, <1>2 DEF ClockExpire, thread_qhead
<1>4. /\ u \in SchedType /\ u.status = sched.status
      /\ Shape(u, current_thread, o)
  <2>1. t = thread_qhead(sched, clock)
    BY <1>1 DEF thread_qhead
  <2> QED
    BY <1>0, <1>2, <2>1, ExpireShape, QueueType, StatusFacts, ClockFacts
<1>5. /\ o[t] = "device" /\ \A n \in Node : o[n] = IF n = t THEN "device" ELSE on[n]
  BY <1>0, <1>2
<1>6. u.next = [[sched.next EXCEPT ![sched.prev[t]] = sched.next[t]] EXCEPT ![t] = t]
  BY <1>0, <1>1 DEF thread_dequeue, list_del, INIT_LIST_HEAD, SchedType
<1>7. sched.prev[t] = clock
  BY <1>0, <1>1, ClockFacts DEF Rings, OnRing
<1> HIDE DEF u, o
<1>8. Keeps(u, sent(resumed(u, t), SSI, t), o)
  <2>1. Accepts(t, SSI) <=> sched.status[t] = "W4MSG"
    BY <1>2, RingFacts DEF Off
  <2> QED
    BY <1>2, <1>4, <1>5, <2>1, AnswerKeeps
<1>9. sched' \in SchedType
  <2>1. resumed(u, t) \in SchedType
    BY <1>2, <1>4, QueueType, ClockFacts
  <2>2. wake_me_up(resumed(u, t), t) \in SchedType
    BY <1>2, <2>1, QueueType, ClockFacts
  <2> QED
    BY <1>3, <2>1, <2>2 DEF sent
<1>10. Members(sched', clock) = {n \in Node : o[n] = clock}
  <2>1. Members(u, clock) = {n \in Node : o[n] = clock}
    BY <1>4, MembersAre, ClockFacts DEF Shape
  <2>2. Members(sched', clock) = Members(u, clock)
    BY <1>3, <1>4, <1>8, <1>9, KeepsMembers DEF Shape
  <2> QED
    BY <2>1, <2>2
<1>11. Waiters' = {x \in Tcb : o[x] = clock} /\ Waiters = {x \in Tcb : on[x] = clock}
  <2>1. Waiters' = {x \in Tcb : o[x] = clock}
    BY <1>10, NodeFacts DEF Waiters, clock
  <2> QED
    BY <2>1, WaitersAre
<1>12. t \in Waiters /\ Waiters' = Waiters \ {t}
  BY <1>2, <1>5, <1>11, NodeFacts, ClockFacts
<1>13. ASSUME NEW x \in Waiters \ {t} PROVE sched'.next[x] = sched.next[x]
  <2>1. x \in Tcb /\ x \in Node /\ o[x] = clock /\ x # clock
    BY <1>5, <1>11, NodeFacts, ClockFacts
  <2>2. sched'.next[x] = u.next[x]
    BY <1>3, <1>8, <2>1 DEF Keeps
  <2>3. u.next[x] = sched.next[x]
    BY <1>0, <1>6, <1>7, <2>1 DEF SchedType
  <2> QED
    BY <2>2, <2>3
<1> QED
  BY <1>1, <1>3, <1>12, <1>13 DEF ClockLeaves

(*------------------------------ the promise ----------------------------*)

\* The three parts of what the SSI promises, as the mapping has them: what it
\* is asked, when it has made call c and its queue is q, what is put off, and
\* what is given and not read.
Wishes(q)     == [i \in DOMAIN q |-> AsRequest(q[i])]
AskedIn(c, q) == (IF c.op = "serve" THEN <<[from |-> c.peer, tag |-> c.msg.tag]>> ELSE <<>>)
                 \o Wishes(q)
PutIn(W, list) == {[from |-> t, tag |-> "WAIT_FOR_CLOCK"] : t \in W}
                  \union {[from |-> list[d], tag |-> "DO_IO"] :
                             d \in {e \in Devices : list[e] # NULL}}
ReadyIn(c)    == IF c.op = "send" THEN {[to |-> c.peer, what |-> c.msg.tag]} ELSE {}
SentIn(t, q)  == {[to |-> t, what |-> q[i].msg.tag] : i \in MailOf(q, SSI)}
SentAll(b)    == UNION {SentIn(t, b[t]) : t \in Clients}
GivenIn(c, b) == ReadyIn(c) \union SentAll(b)

Asked == AskedIn(call[SSI], t_msgq[SSI])
Put   == PutIn(Waiters, device_list)
Given == GivenIn(call[SSI], t_msgq)

PromiseStep == Promise!ServiceNext \/ UNCHANGED Promise!svars

\* A step that the clients do not see.
LEMMA SeenNothing ==
  ASSUME UNCHANGED <<Asked, Put, Given>>
  PROVE  PromiseStep
BY DEF PromiseStep, Promise!svars, Asked, Put, Given, AskedIn, PutIn, GivenIn,
       ReadyIn, SentAll, SentIn, Wishes, MailOf, InHand

LEMMA SeenAsk ==
  ASSUME NEW c \in Clients, NEW tag \in Services,
         \A i \in DOMAIN Asked : Asked[i].from # c,
         \A p \in Put : p.from # c, \A a \in Given : a.to # c,
         Asked' = Append(Asked, [from |-> c, tag |-> tag]), UNCHANGED <<Put, Given>>
  PROVE  PromiseStep
<1>1. c \notin {Asked[i].from : i \in DOMAIN Asked}
               \union {p.from : p \in Put} \union {a.to : a \in Given}
  OBVIOUS
<1>2. Promise!Ask(c, tag)
  BY <1>1 DEF Promise!Ask, Promise!Waiting, Asked, Put, Given, AskedIn, PutIn,
         GivenIn, ReadyIn, SentAll, SentIn, Wishes, MailOf, InHand
<1> QED
  BY <1>2 DEF PromiseStep, Promise!ServiceNext

LEMMA SeenServe ==
  ASSUME NEW r, NEW q, Asked = <<r>> \o q, Asked # <<>>, Head(Asked) = r, Asked' = Tail(Asked),
         \/ \E a \in Promise!AtOnce(r.tag) :
              Given' = Given \union {[to |-> r.from, what |-> a]} /\ Put' = Put
         \/ /\ Promise!Afterwards(r.tag) # {}
            /\ Put' = Put \union {r} /\ Given' = Given
  PROVE  PromiseStep
<1>1. Promise!Serve
  BY DEF Promise!Serve, Asked, Put, Given, AskedIn, PutIn, GivenIn, ReadyIn, SentAll, SentIn,
         Wishes, MailOf, InHand
<1> QED
  BY <1>1 DEF PromiseStep, Promise!ServiceNext

LEMMA SeenOver ==
  ASSUME NEW p \in Put, Put' = Put \ {p}, Asked' = Asked,
         \/ \E a \in Promise!Afterwards(p.tag) : Given' = Given \union {[to |-> p.from, what |-> a]}
         \/ Given' = Given
  PROVE  PromiseStep
<1>1. Promise!Over(p)
  BY DEF Promise!Over, Asked, Put, Given, AskedIn, PutIn, GivenIn, ReadyIn, SentAll, SentIn,
         Wishes, MailOf, InHand
<1> QED
  BY <1>1 DEF PromiseStep, Promise!ServiceNext, Put, PutIn

LEMMA SeenRead ==
  ASSUME NEW a \in Given, Given' = Given \ {a}, UNCHANGED <<Asked, Put>>
  PROVE  PromiseStep
<1>1. Promise!Read(a)
  BY DEF Promise!Read, Asked, Put, Given, AskedIn, PutIn, GivenIn, ReadyIn, SentAll, SentIn,
         Wishes, MailOf, InHand
<1> QED
  BY <1>1 DEF PromiseStep, Promise!ServiceNext, Given, GivenIn, ReadyIn, SentAll, SentIn, MailOf, InHand

(*------------------------------- requests ------------------------------*)

Wish == {AsRequest(e) : e \in Message}

LEMMA WishesType ==
  ASSUME NEW q \in Seq(Message)
  PROVE  /\ Wishes(q) \in Seq(Wish) /\ Len(Wishes(q)) = Len(q)
         /\ \A i \in 1..Len(q) : Wishes(q)[i] = AsRequest(q[i]) /\ q[i] \in Message
<1>1. DOMAIN q = 1..Len(q) /\ Len(q) \in Nat /\ \A i \in 1..Len(q) : q[i] \in Message
  OBVIOUS
<1>2. \A i \in 1..Len(q) : AsRequest(q[i]) \in Wish
  BY <1>1 DEF Wish
<1>3. Wishes(q) \in [1..Len(q) -> Wish] /\ \A i \in 1..Len(q) : Wishes(q)[i] = AsRequest(q[i])
  BY <1>1, <1>2 DEF Wishes
<1> QED
  BY <1>1, <1>3

LEMMA WishesAppend ==
  ASSUME NEW q \in Seq(Message), NEW e \in Message
  PROVE  Wishes(Append(q, e)) = Append(Wishes(q), AsRequest(e))
<1> DEFINE p == Append(q, e)
           w == Append(Wishes(q), AsRequest(e))
<1>1. /\ p \in Seq(Message) /\ Len(p) = Len(q) + 1 /\ Len(q) \in Nat
      /\ \A i \in 1..Len(q) : p[i] = q[i]
      /\ p[Len(q) + 1] = e
  OBVIOUS
<1>2. AsRequest(e) \in Wish
  BY DEF Wish
<1>3. /\ w \in Seq(Wish) /\ Len(w) = Len(q) + 1
      /\ \A i \in 1..Len(q) : w[i] = AsRequest(q[i])
      /\ w[Len(q) + 1] = AsRequest(e)
  BY <1>1, <1>2, WishesType
<1> HIDE DEF p, w
<1>4. /\ Wishes(p) \in Seq(Wish) /\ Len(Wishes(p)) = Len(q) + 1
      /\ \A i \in 1..Len(p) : Wishes(p)[i] = AsRequest(p[i])
  BY <1>1, WishesType
<1>5. \A i \in 1..Len(Wishes(p)) : Wishes(p)[i] = w[i]
  <2> SUFFICES ASSUME NEW i \in 1..(Len(q) + 1) PROVE Wishes(p)[i] = w[i]
    BY <1>4
  <2>1. CASE i = Len(q) + 1
    BY <1>1, <1>3, <1>4, <2>1
  <2>2. CASE i # Len(q) + 1
    <3>1. i \in 1..Len(q)
      BY <1>1, <2>2
    <3> QED
      BY <1>1, <1>3, <1>4, <3>1
  <2> QED
    BY <2>1, <2>2
<1>6. Wishes(p) = w
  BY <1>3, <1>4, <1>5, SeqEqual
<1> QED
  BY <1>6 DEF p, w

\* The first message is taken.
LEMMA WishesTake ==
  ASSUME NEW q \in Seq(Message), q # <<>>
  PROVE  Wishes(q) = <<AsRequest(q[1])>> \o Wishes(RemoveAt(q, 1))
<1> DEFINE r == RemoveAt(q, 1)
           w == <<AsRequest(q[1])>> \o Wishes(r)
<1>1. 1 \in 1..Len(q) /\ Len(q) \in Nat
  OBVIOUS
<1>2. /\ r \in Seq(Message) /\ Len(r) = Len(q) - 1
      /\ \A j \in 1..(Len(q) - 1) : r[j] = q[j + 1]
  <2>1. /\ r \in Seq(Message) /\ Len(r) = Len(q) - 1
        /\ \A j \in 1..(Len(q) - 1) : r[j] = IF j < 1 THEN q[j] ELSE q[j + 1]
    BY <1>1, RemoveAtElements
  <2> QED
    BY <1>1, <2>1
<1> HIDE DEF r
<1>3. /\ Wishes(r) \in Seq(Wish) /\ Len(Wishes(r)) = Len(q) - 1
      /\ \A j \in 1..(Len(q) - 1) : Wishes(r)[j] = AsRequest(q[j + 1])
  BY <1>2, WishesType
<1>4. <<AsRequest(q[1])>> \in Seq(Wish)
  <2>1. AsRequest(q[1]) \in Wish
    BY <1>1 DEF Wish
  <2> QED
    BY <2>1
<1>5. /\ w \in Seq(Wish) /\ Len(w) = Len(q)
      /\ w[1] = AsRequest(q[1])
      /\ \A i \in 2..Len(q) : w[i] = Wishes(r)[i - 1]
  <2>1. Len(<<AsRequest(q[1])>>) = 1 /\ <<AsRequest(q[1])>>[1] = AsRequest(q[1])
    OBVIOUS
  <2>2. /\ w \in Seq(Wish) /\ Len(w) = 1 + Len(Wishes(r))
        /\ \A i \in 1..(1 + Len(Wishes(r))) :
             w[i] = IF i <= 1 THEN <<AsRequest(q[1])>>[i] ELSE Wishes(r)[i - 1]
    <3>1. \A a, b \in Seq(Wish) :
            /\ a \o b \in Seq(Wish) /\ Len(a \o b) = Len(a) + Len(b)
            /\ \A i \in 1..(Len(a) + Len(b)) :
                 (a \o b)[i] = IF i <= Len(a) THEN a[i] ELSE b[i - Len(a)]
      BY ConcatProperties
    <3> QED
      BY <1>3, <1>4, <2>1, <3>1
  <2> HIDE DEF w
  <2> QED
    BY <1>1, <1>3, <2>1, <2>2
<1>6. /\ Wishes(q) \in Seq(Wish) /\ Len(Wishes(q)) = Len(q)
      /\ \A i \in 1..Len(q) : Wishes(q)[i] = AsRequest(q[i])
  BY WishesType
<1> HIDE DEF w
<1>7. \A i \in 1..Len(Wishes(q)) : Wishes(q)[i] = w[i]
  <2> SUFFICES ASSUME NEW i \in 1..Len(q) PROVE Wishes(q)[i] = w[i]
    BY <1>6
  <2>1. CASE i = 1
    BY <1>5, <1>6, <2>1
  <2>2. CASE i # 1
    <3>1. i \in 2..Len(q) /\ i - 1 \in 1..(Len(q) - 1) /\ (i - 1) + 1 = i
      BY <1>1, <2>2
    <3> QED
      BY <1>3, <1>5, <1>6, <3>1
  <2> QED
    BY <2>1, <2>2
<1>8. Wishes(q) = w
  BY <1>5, <1>6, <1>7, SeqEqual
<1> QED
  BY <1>8 DEF w, r

(*-------------------------------- traces -------------------------------*)

\* A request in the hands of the SSI is a wish as well.
LEMMA AskedIs ==
  ASSUME NEW c \in CallState, NEW q \in Seq(Message)
  PROVE  /\ c.op # "serve" => AskedIn(c, q) = Wishes(q)
         /\ c.op = "serve" => LET r == [from |-> c.peer, tag |-> c.msg.tag]
                              IN  /\ AskedIn(c, q) = <<r>> \o Wishes(q) /\ AskedIn(c, q) # <<>>
                                  /\ Head(AskedIn(c, q)) = r /\ Tail(AskedIn(c, q)) = Wishes(q)
         /\ AskedIn(c, q) \in Seq(Wish)
         /\ \A i \in DOMAIN AskedIn(c, q) :
              \/ c.op = "serve" /\ AskedIn(c, q)[i].from = c.peer
              \/ \E j \in DOMAIN q : AskedIn(c, q)[i].from = q[j].from
<1>1. Wishes(q) \in Seq(Wish) /\ Len(Wishes(q)) = Len(q)
      /\ \A i \in 1..Len(q) : Wishes(q)[i] = AsRequest(q[i]) /\ q[i] \in Message
  BY WishesType
<1>2. \A i \in DOMAIN Wishes(q) : \E j \in DOMAIN q : Wishes(q)[i].from = q[j].from
  <2>1. DOMAIN Wishes(q) = DOMAIN q /\ \A i \in DOMAIN q : Wishes(q)[i] = AsRequest(q[i])
    BY DEF Wishes
  <2>2. \A i \in DOMAIN q : AsRequest(q[i]).from = q[i].from
    BY DEF AsRequest
  <2> QED
    BY <2>1, <2>2
<1>3. CASE c.op # "serve"
  <2>1. AskedIn(c, q) = Wishes(q)
    BY <1>1, <1>3 DEF AskedIn
  <2> QED
    BY <1>1, <1>2, <1>3, <2>1
<1>4. CASE c.op = "serve"
  <2> DEFINE r == [from |-> c.peer, tag |-> c.msg.tag]
             w == <<r>> \o Wishes(q)
  <2>1. AskedIn(c, q) = w
    BY <1>4 DEF AskedIn
  <2>2. r \in Wish
    <3>1. [from |-> c.peer, msg |-> c.msg] \in Message
      BY <1>4 DEF CallState, Message
    <3>2. AsRequest([from |-> c.peer, msg |-> c.msg]) = r
      BY DEF AsRequest
    <3> QED
      BY <3>1, <3>2 DEF Wish
  <2>3. r.from = c.peer
    OBVIOUS
  <2> HIDE DEF r
  <2>4. <<r>> \in Seq(Wish) /\ Len(<<r>>) = 1 /\ <<r>>[1] = r
    BY <2>2
  <2>5. /\ w \in Seq(Wish) /\ Len(w) = 1 + Len(q)
        /\ w[1] = r /\ \A i \in 2..Len(w) : w[i] = Wishes(q)[i - 1]
    <3>1. \A a, b \in Seq(Wish) :
            /\ a \o b \in Seq(Wish) /\ Len(a \o b) = Len(a) + Len(b)
            /\ \A i \in 1..(Len(a) + Len(b)) :
                 (a \o b)[i] = IF i <= Len(a) THEN a[i] ELSE b[i - Len(a)]
      BY ConcatProperties
    <3> QED
      BY <1>1, <2>4, <3>1
  <2>6. w # <<>> /\ Head(w) = r
    BY <2>5
  <2>7. Tail(w) = Wishes(q)
    <3> HIDE DEF w
    <3>1. /\ Tail(w) \in Seq(Wish) /\ Len(Tail(w)) = Len(q)
          /\ \A i \in 1..Len(q) : Tail(w)[i] = w[i + 1]
      BY <1>1, <2>5, <2>6
    <3>2. \A i \in 1..Len(q) : i + 1 \in 2..Len(w) /\ (i + 1) - 1 = i
      BY <2>5
    <3>3. \A i \in 1..Len(q) : Tail(w)[i] = Wishes(q)[i]
      BY <2>5, <3>1, <3>2
    <3> QED
      BY <1>1, <3>1, <3>3, SeqEqual
  <2>8. \A i \in DOMAIN w : w[i].from = c.peer \/ \E j \in DOMAIN q : w[i].from = q[j].from
    <3> HIDE DEF w
    <3> SUFFICES ASSUME NEW i \in 1..Len(w)
                 PROVE  w[i].from = c.peer \/ \E j \in DOMAIN q : w[i].from = q[j].from
      BY <2>5
    <3>1. CASE i = 1
      BY <2>3, <2>5, <3>1
    <3>2. CASE i # 1
      <4>1. i \in 2..Len(w) /\ i - 1 \in DOMAIN Wishes(q)
        BY <1>1, <2>5, <3>2
      <4> QED
        BY <1>2, <2>5, <4>1
    <3> QED
      BY <3>1, <3>2
  <2> HIDE DEF w
  <2>9. \A i \in DOMAIN AskedIn(c, q) :
          \/ c.op = "serve" /\ AskedIn(c, q)[i].from = c.peer
          \/ \E j \in DOMAIN q : AskedIn(c, q)[i].from = q[j].from
    BY <1>4, <2>1, <2>8
  <2> QED
    BY <1>4, <2>1, <2>5, <2>6, <2>7, <2>9 DEF w, r
<1> QED
  BY <1>3, <1>4

LEMMA HandFacts ==
  /\ \A s, q : AskedIn(Recv(s), q) = <<>> \o Wishes(q) /\ ReadyIn(Recv(s)) = {}
  /\ ReadyIn(User) = {}
  /\ \A s, m, q : /\ AskedIn(Serve(s, m), q) = <<[from |-> s, tag |-> m.tag]>> \o Wishes(q)
                  /\ ReadyIn(Serve(s, m)) = {}
                  /\ AskedIn(Send(s, m), q) = <<>> \o Wishes(q)
                  /\ ReadyIn(Send(s, m)) = {[to |-> s, what |-> m.tag]}
BY DEF AskedIn, ReadyIn, Recv, User, Serve, Send

\* A client that waits for no answer of the SSI has no trace.
LEMMA NoTrace ==
  ASSUME Calm, NEW on, RingInv(on), NEW t \in Clients, call[t] # Recv(SSI)
  PROVE  /\ \A i \in DOMAIN Asked : Asked[i].from # t
         /\ \A p \in Put : p.from # t
         /\ \A a \in Given : a.to # t
<1>1. PICK k : Promised(k, call, t_msgq, on)
  BY DEF RingInv, Tokened
<1>2. k[t] = "none" /\ Held(t, "none", call, t_msgq, on) /\ t \in Tcb
  BY <1>1, ClientFacts DEF Promised, Held
<1>3. /\ MailOf(t_msgq[SSI], t) = {} /\ MailOf(t_msgq[t], SSI) = {} /\ ~Serves(call, t)
      /\ on[t] \notin Off
  BY <1>2, StageFacts DEF Held
<1>4. \A i \in DOMAIN Asked : Asked[i].from # t
  <2>1. call[SSI] \in CallState /\ t_msgq[SSI] \in Seq(Message)
    BY RingFacts, ClientFacts DEF TypeOK
  <2>2. \A i \in DOMAIN Asked : \/ call[SSI].op = "serve" /\ Asked[i].from = call[SSI].peer
                                \/ \E j \in DOMAIN t_msgq[SSI] : Asked[i].from = t_msgq[SSI][j].from
    BY <2>1, AskedIs DEF Asked
  <2>3. \A j \in DOMAIN t_msgq[SSI] : t_msgq[SSI][j].from # t
    BY <1>3 DEF MailOf
  <2> QED
    BY <1>3, <2>2, <2>3 DEF Serves
<1>5. \A p \in Put : p.from # t
  <2>1. t \notin Waiters
    BY <1>3, WaitersAre DEF Off
  <2>2. \A d \in Devices : device_list[d] # t
    BY <1>2, <1>3 DEF RingInv, Devs, Off
  <2> QED
    BY <2>1, <2>2 DEF Put, PutIn
<1>6. \A a \in Given : a.to # t
  <2>1. \A a \in ReadyIn(call[SSI]) : a.to # t
    BY <1>3 DEF ReadyIn, Serves
  <2>2. \A a \in SentAll(t_msgq) : a.to # t
    BY <1>3 DEF SentAll, SentIn
  <2> QED
    BY <2>1, <2>2 DEF Given, GivenIn
<1> QED
  BY <1>4, <1>5, <1>6

\* An answer of the SSI in the queue of a client is the only trace of it
\* there, and the SSI has no other one in its hands.
LEMMA OneSent ==
  ASSUME Calm, NEW on, RingInv(on), NEW t \in Clients
  PROVE  /\ Serves(call, t) => SentIn(t, t_msgq[t]) = {}
         /\ Single(MailOf(t_msgq[t], SSI))
         /\ \A i \in MailOf(t_msgq[t], SSI) :
              SentIn(t, t_msgq[t]) = {[to |-> t, what |-> t_msgq[t][i].msg.tag]}
<1>1. PICK k : Promised(k, call, t_msgq, on)
  BY DEF RingInv, Tokened
<1>2. Held(t, k[t], call, t_msgq, on)
  BY <1>1 DEF Promised
<1>3. Single(MailOf(t_msgq[t], SSI)) /\ (MailOf(t_msgq[t], SSI) # {} => ~Serves(call, t))
  BY <1>2 DEF Held
<1> QED
  BY <1>3 DEF SentIn, Single

\* The queues of the clients when only one of them changes.
LEMMA SentOther ==
  ASSUME NEW t \in Clients, \A x \in Clients \ {t} : t_msgq'[x] = t_msgq[x]
  PROVE  /\ SentIn(t, t_msgq'[t]) = SentIn(t, t_msgq[t]) => SentAll(t_msgq') = SentAll(t_msgq)
         /\ \A w : SentIn(t, t_msgq'[t]) = SentIn(t, t_msgq[t]) \union {w}
                     => SentAll(t_msgq') = SentAll(t_msgq) \union {w}
         /\ \A w : SentIn(t, t_msgq'[t]) = {} /\ SentIn(t, t_msgq[t]) = {w} /\ w.to = t
                     => SentAll(t_msgq') = SentAll(t_msgq) \ {w} /\ w \in SentAll(t_msgq)
<1>1. \A x : \A w \in SentIn(x, t_msgq[x]) : w.to = x
  BY DEF SentIn
<1>2. \A x \in Clients : x # t => SentIn(x, t_msgq'[x]) = SentIn(x, t_msgq[x])
  OBVIOUS
<1>3. /\ \A w : w \in SentAll(t_msgq') <=> \E x \in Clients : w \in SentIn(x, t_msgq'[x])
      /\ \A w : w \in SentAll(t_msgq) <=> \E x \in Clients : w \in SentIn(x, t_msgq[x])
  BY DEF SentAll
<1>4. SentIn(t, t_msgq'[t]) = SentIn(t, t_msgq[t]) => SentAll(t_msgq') = SentAll(t_msgq)
  BY <1>2 DEF SentAll
<1>5. ASSUME NEW w, SentIn(t, t_msgq'[t]) = SentIn(t, t_msgq[t]) \union {w}
      PROVE  SentAll(t_msgq') = SentAll(t_msgq) \union {w}
  <2>1. \A v : v \in SentAll(t_msgq') <=> v \in SentAll(t_msgq) \/ v = w
    BY <1>2, <1>3, <1>5
  <2> QED
    BY <2>1
<1>6. ASSUME NEW w, SentIn(t, t_msgq'[t]) = {}, SentIn(t, t_msgq[t]) = {w}, w.to = t
      PROVE  SentAll(t_msgq') = SentAll(t_msgq) \ {w} /\ w \in SentAll(t_msgq)
  <2>1. \A v : v \in SentAll(t_msgq') <=> v \in SentAll(t_msgq) /\ v # w
    BY <1>1, <1>2, <1>3, <1>6
  <2> QED
    BY <1>3, <1>6, <2>1
<1> QED
  BY <1>4, <1>5, <1>6

\* A message joins the queue q of t.
LEMMA SentAppend ==
  ASSUME NEW q \in Seq(Message), NEW e \in Message, NEW t
  PROVE  /\ e.from # SSI => SentIn(t, Append(q, e)) = SentIn(t, q)
         /\ e.from = SSI => SentIn(t, Append(q, e))
                              = SentIn(t, q) \union {[to |-> t, what |-> e.msg.tag]}
<1>1. /\ Append(q, e)[Len(q) + 1] = e /\ \A i \in DOMAIN q : Append(q, e)[i] = q[i]
  OBVIOUS
<1>2. /\ e.from # SSI => MailOf(Append(q, e), SSI) = MailOf(q, SSI)
      /\ e.from = SSI => MailOf(Append(q, e), SSI) = MailOf(q, SSI) \union {Len(q) + 1}
  BY MailAppend
<1>3. \A i \in MailOf(q, SSI) : i \in DOMAIN q
  BY DEF MailOf
<1> DEFINE p == Append(q, e)
<1> HIDE DEF p
<1>4. CASE e.from # SSI
  BY <1>1, <1>2, <1>3, <1>4 DEF SentIn, p
<1>5. CASE e.from = SSI
  BY <1>1, <1>2, <1>3, <1>5 DEF SentIn, p
<1> QED
  BY <1>4, <1>5

\* A message that is not from the SSI leaves the queue q of t.
LEMMA SentRemove ==
  ASSUME NEW q \in Seq(Message), NEW i \in 1..Len(q), q[i].from # SSI, NEW t
  PROVE  SentIn(t, RemoveAt(q, i)) = SentIn(t, q)
<1> DEFINE r    == RemoveAt(q, i)
           n    == Len(q)
           g(j) == IF j < i THEN j ELSE j + 1
<1>1. /\ n \in Nat /\ DOMAIN q = 1..n /\ DOMAIN r = 1..(n - 1)
      /\ \A j \in 1..(n - 1) : r[j] = q[g(j)]
  <2>1. /\ r \in Seq(Message) /\ Len(r) = n - 1
        /\ \A j \in 1..(n - 1) : r[j] = IF j < i THEN q[j] ELSE q[j + 1]
    BY RemoveAtElements
  <2>2. n \in Nat /\ DOMAIN q = 1..n
    OBVIOUS
  <2> HIDE DEF r, n
  <2>3. DOMAIN r = 1..(n - 1)
    BY <2>1, <2>2
  <2> QED
    BY <2>1, <2>2, <2>3
<1>2. i \in 1..n
  OBVIOUS
<1> HIDE DEF r, n
<1>3. \A j \in 1..(n - 1) : g(j) \in 1..n
  BY <1>1, <1>2
<1>4. \A k \in 1..n : k # i => \E j \in 1..(n - 1) : g(j) = k
  <2> SUFFICES ASSUME NEW k \in 1..n, k # i PROVE \E j \in 1..(n - 1) : g(j) = k
    OBVIOUS
  <2>1. CASE k < i
    BY <1>1, <1>2, <2>1
  <2>2. CASE k > i
    <3>1. k - 1 \in 1..(n - 1) /\ g(k - 1) = k
      BY <1>1, <1>2, <2>2
    <3> QED
      BY <3>1
  <2> QED
    BY <1>1, <1>2, <2>1, <2>2
<1> HIDE DEF g
<1>5. \A j \in MailOf(r, SSI) : g(j) \in MailOf(q, SSI) /\ q[g(j)] = r[j]
  BY <1>1, <1>3 DEF MailOf
<1>6. \A k \in MailOf(q, SSI) : \E j \in MailOf(r, SSI) : q[k] = r[j]
  <2> SUFFICES ASSUME NEW k \in 1..n, k # i, q[k].from = SSI
               PROVE  \E j \in 1..(n - 1) : q[k] = r[j] /\ r[j].from = SSI
    BY <1>1 DEF MailOf
  <2>1. PICK j \in 1..(n - 1) : g(j) = k
    BY <1>4
  <2>2. r[j] = q[k]
    BY <1>1, <2>1
  <2> QED
    BY <2>2
<1> QED
  BY <1>5, <1>6 DEF SentIn, r

(*------------------------------ system calls ---------------------------*)

\* Where the clock's queue and the devices stay as they are.
LEMMA PutStays ==
  ASSUME Calm, NEW on, RingInv(on), TypeOK', Keeps(sched, sched', on), device_list' = device_list
  PROVE  Put' = Put
<1>1. ClockStays
  BY StaysInPlace DEF TypeOK
<1> QED
  BY <1>1 DEF ClockStays, Put

\* A message more in the queue of the SSI.
LEMMA AskedAppend ==
  ASSUME NEW c \in CallState, NEW q \in Seq(Message), NEW e \in Message
  PROVE  AskedIn(c, Append(q, e)) = Append(AskedIn(c, q), AsRequest(e))
<1> DEFINE w == Wishes(q)
           r == AsRequest(e)
           o == [from |-> c.peer, tag |-> c.msg.tag]
<1>1. Wishes(Append(q, e)) = Append(w, r)
  BY WishesAppend
<1>2. w \in Seq(Wish) /\ r \in Wish /\ Append(w, r) = w \o <<r>> /\ <<r>> \in Seq(Wish)
  <2>1. w \in Seq(Wish) /\ r \in Wish
    BY WishesType DEF Wish
  <2> HIDE DEF w, r
  <2> QED
    BY <2>1, AppendIsConcat
<1>3. AskedIn(c, q) \in Seq(Wish)
  BY AskedIs
<1>4. Append(q, e) \in Seq(Message)
  OBVIOUS
<1>5. CASE c.op # "serve"
  <2>1. AskedIn(c, Append(q, e)) = Wishes(Append(q, e)) /\ AskedIn(c, q) = w
    BY <1>4, <1>5, AskedIs
  <2> QED
    BY <1>1, <2>1
<1>6. CASE c.op = "serve"
  <2>1. AskedIn(c, Append(q, e)) = <<o>> \o Wishes(Append(q, e)) /\ AskedIn(c, q) = <<o>> \o w
    BY <1>6 DEF AskedIn
  <2>2. o \in Wish
    <3>1. [from |-> c.peer, msg |-> c.msg] \in Message
      BY <1>6 DEF CallState, Message
    <3>2. AsRequest([from |-> c.peer, msg |-> c.msg]) = o
      BY DEF AsRequest
    <3> QED
      BY <3>1, <3>2 DEF Wish
  <2> HIDE DEF w, r, o
  <2>3. <<o>> \in Seq(Wish)
    BY <2>2
  <2>4. <<o>> \o (w \o <<r>>) = (<<o>> \o w) \o <<r>>
    BY <1>2, <2>3, ConcatAssociative
  <2>5. Append(AskedIn(c, q), r) = AskedIn(c, q) \o <<r>>
    BY <1>2, <1>3, AppendIsConcat
  <2>6. AskedIn(c, Append(q, e)) = AskedIn(c, q) \o <<r>>
    BY <1>1, <1>2, <2>1, <2>4
  <2> QED
    BY <2>5, <2>6 DEF r
<1> QED
  BY <1>5, <1>6

\* A client asks.
LEMMA RequestSeen ==
  ASSUME Calm, NEW on, RingInv(on), NEW t \in Clients, call[t].op = "user",
         NEW m \in Requests, sys_send_msg(t, SSI, m, [call EXCEPT ![t] = Recv(SSI)]),
         Put' = Put
  PROVE  PromiseStep
<1>0. /\ t \in Tcb /\ SSI \in Tcb /\ t # SSI /\ call \in [Tcb -> CallState]
      /\ t_msgq \in [Tcb -> Seq(Message)] /\ SleepHolds
      /\ call[SSI] \in CallState /\ t_msgq[SSI] \in Seq(Message)
  BY RingFacts, ClientFacts DEF TypeOK
<1>1. m \in Payload /\ m.tag \in Services
  BY InputAssumption, TagFacts DEF Requests, Payload, PlainTags, AllServices
<1> DEFINE e == [from |-> t, msg |-> m]
           r == [from |-> t, tag |-> m.tag]
<1>2. e \in Message /\ AsRequest(e) = r /\ r \in Wish
  <2>1. e \in Message
    BY <1>0, <1>1 DEF Message
  <2>2. AsRequest(e) = r
    BY DEF AsRequest
  <2> HIDE DEF e, r
  <2> QED
    BY <2>1, <2>2 DEF Wish
<1>3. /\ \A i \in DOMAIN Asked : Asked[i].from # t
      /\ \A p \in Put : p.from # t
      /\ \A a \in Given : a.to # t
  <2>1. call[t] # Recv(SSI)
    BY ClientFacts
  <2> QED
    BY <2>1, NoTrace
<1>4. ASSUME Asked' = Append(Asked, r), Given' = Given
      PROVE  PromiseStep
  BY <1>1, <1>3, <1>4, SeenAsk
<1>5. CASE /\ Accepts(SSI, t)
           /\ call' = [[call EXCEPT ![t] = Recv(SSI)] EXCEPT ![SSI] = Received(SSI, t, m)]
           /\ t_msgq' = t_msgq
  <2>1. call[SSI].op = "recv" /\ t_msgq[SSI] = <<>>
    <3>1. Sleeping(SSI) /\ SleepsWell(SSI)
      BY <1>0, <1>5 DEF Accepts, SleepHolds, Sleeping
    <3>2. SsiCall(call[SSI])
      BY DEF Calm, FamilyInv, SsiHolds
    <3>3. call[SSI].peer = NULL
      BY <1>0, <3>1, <3>2, ClientFacts DEF SsiCall, SleepsWell
    <3>4. Matches(t_msgq[SSI], NULL) = {}
      BY <3>1, <3>3 DEF SleepsWell
    <3>5. DOMAIN t_msgq[SSI] = {}
      BY <3>4 DEF Matches
    <3>6. t_msgq[SSI] = <<>>
      <4>1. \A q \in Seq(Message) : q # <<>> => 1 \in DOMAIN q
        OBVIOUS
      <4> QED
        BY <1>0, <3>5, <4>1
    <3> QED
      BY <3>1, <3>6 DEF SleepsWell
  <2>2. call'[SSI] = Serve(t, m)
    BY <1>0, <1>5, ClientFacts
  <2>3. Wishes(t_msgq[SSI]) = <<>>
    BY <1>0, <2>1, WishesType
  <2>4. Asked' = <<r>> \o <<>>
    <3>1. Asked' = AskedIn(Serve(t, m), t_msgq[SSI])
      BY <1>5, <2>2 DEF Asked
    <3>2. AskedIn(Serve(t, m), t_msgq[SSI]) = <<r>> \o Wishes(t_msgq[SSI])
      BY HandFacts
    <3> QED
      BY <2>3, <3>1, <3>2
  <2>5. Asked = <<>>
    BY <1>0, <2>1, <2>3, AskedIs DEF Asked
  <2> HIDE DEF r, e
  <2>6. <<r>> \o <<>> = Append(<<>>, r)
    BY <1>2
  <2>7. Given' = Given
    <3>1. ReadyIn(call'[SSI]) = {}
      BY <2>2, HandFacts
    <3>2. ReadyIn(call[SSI]) = {}
      BY <2>1 DEF ReadyIn
    <3> QED
      BY <1>5, <3>1, <3>2 DEF Given, GivenIn
  <2> QED
    BY <1>4, <2>4, <2>5, <2>6, <2>7
<1>6. CASE /\ call' = [call EXCEPT ![t] = Recv(SSI)]
           /\ t_msgq' = [t_msgq EXCEPT ![SSI] = Append(@, e)]
  <2>1. call'[SSI] = call[SSI] /\ t_msgq'[SSI] = Append(t_msgq[SSI], e)
        /\ \A x \in Clients : t_msgq'[x] = t_msgq[x]
    BY <1>0, <1>6, ClientFacts
  <2>2. Asked' = Append(Asked, r)
    <3>1. Asked' = AskedIn(call[SSI], Append(t_msgq[SSI], e))
      BY <2>1 DEF Asked
    <3> HIDE DEF e, r
    <3>2. Asked' = Append(Asked, AsRequest(e))
      BY <1>0, <1>2, <3>1, AskedAppend DEF Asked
    <3> QED
      BY <1>2, <3>2
  <2>3. Given' = Given
    BY <2>1 DEF Given, GivenIn, SentAll
  <2> QED
    BY <1>4, <2>2, <2>3
<1>7. CASE call' = [call EXCEPT ![t] = Recv(SSI)] /\ t_msgq' = t_msgq
  <2>1. call'[SSI] = call[SSI]
    BY <1>0, <1>7
  <2>2. Asked' = Asked /\ Given' = Given
    BY <1>7, <2>1 DEF Asked, Given
  <2> QED
    BY <2>2, SeenNothing
<1> QED
  BY <1>5, <1>6, <1>7, SendFacts

\* The SSI, a device or the clock sends an answer to a client, from calls c:
\* it is handed over, queued or dropped.
LEMMA AnswerSent ==
  ASSUME TypeOK, NEW t \in Clients, NEW m \in Payload, NEW c \in [Tcb -> CallState],
         sys_send_msg(SSI, t, m, c)
  PROVE  /\ call'[SSI] = c[SSI] /\ t_msgq'[SSI] = t_msgq[SSI]
         /\ \/ SentAll(t_msgq') = SentAll(t_msgq)
            \/ SentAll(t_msgq') = SentAll(t_msgq) \union {[to |-> t, what |-> m.tag]}
<1>0. t \in Tcb /\ SSI \in Tcb /\ t # SSI /\ t_msgq \in [Tcb -> Seq(Message)]
  BY ClientFacts DEF TypeOK
<1> DEFINE e == [from |-> SSI, msg |-> m]
<1>1. CASE call' = [c EXCEPT ![t] = Received(t, SSI, m)] /\ t_msgq' = t_msgq
  BY <1>0, <1>1
<1>2. CASE call' = c /\ t_msgq' = [t_msgq EXCEPT ![t] = Append(@, e)]
  <2>1. /\ call'[SSI] = c[SSI] /\ t_msgq'[t] = Append(t_msgq[t], e)
        /\ \A x \in Tcb \ {t} : t_msgq'[x] = t_msgq[x]
    BY <1>0, <1>2
  <2>2. e \in Message /\ e.from = SSI /\ e.msg.tag = m.tag /\ t_msgq[t] \in Seq(Message)
    BY <1>0 DEF Message
  <2> HIDE DEF e
  <2>3. SentIn(t, t_msgq'[t]) = SentIn(t, t_msgq[t]) \union {[to |-> t, what |-> m.tag]}
    BY <2>1, <2>2, SentAppend
  <2>4. \A x \in Clients \ {t} : t_msgq'[x] = t_msgq[x]
    BY <2>1, ClientFacts
  <2>5. \A w : SentIn(t, t_msgq'[t]) = SentIn(t, t_msgq[t]) \union {w}
                => SentAll(t_msgq') = SentAll(t_msgq) \union {w}
    BY <2>4, SentOther
  <2>6. t_msgq'[SSI] = t_msgq[SSI]
    BY <1>0, <2>1
  <2> QED
    BY <2>1, <2>3, <2>5, <2>6
<1>3. CASE call' = c /\ t_msgq' = t_msgq
  BY <1>3
<1> QED
  BY <1>1, <1>2, <1>3, SendFacts

\* A client writes to another client.
LEMMA MailSeen ==
  ASSUME Calm, NEW on, RingInv(on), NEW t \in Clients, NEW to \in Clients, NEW m \in Payload,
         sys_send_msg(t, to, m, [call EXCEPT ![t] = User]), Put' = Put
  PROVE  PromiseStep
<1>0. /\ t \in Tcb /\ to \in Tcb /\ t # SSI /\ to # SSI /\ SSI \in Tcb
      /\ call \in [Tcb -> CallState] /\ t_msgq \in [Tcb -> Seq(Message)]
  BY RingFacts, ClientFacts DEF TypeOK
<1>1. /\ call'[SSI] = call[SSI] /\ t_msgq'[SSI] = t_msgq[SSI]
      /\ SentAll(t_msgq') = SentAll(t_msgq)
  <2> DEFINE e == [from |-> t, msg |-> m]
             c == [call EXCEPT ![t] = User]
  <2>1. c \in [Tcb -> CallState] /\ c[SSI] = call[SSI]
    BY <1>0, CallFacts
  <2> HIDE DEF c
  <2>2. CASE call' = [c EXCEPT ![to] = Received(to, t, m)] /\ t_msgq' = t_msgq
    BY <1>0, <2>1, <2>2
  <2>3. CASE call' = c /\ t_msgq' = [t_msgq EXCEPT ![to] = Append(@, e)]
    <3>1. /\ call'[SSI] = c[SSI] /\ t_msgq'[to] = Append(t_msgq[to], e)
          /\ \A x \in Tcb \ {to} : t_msgq'[x] = t_msgq[x]
      BY <1>0, <2>3
    <3>2. e \in Message /\ e.from # SSI /\ t_msgq[to] \in Seq(Message)
      BY <1>0 DEF Message
    <3> HIDE DEF e
    <3>3. SentIn(to, t_msgq'[to]) = SentIn(to, t_msgq[to])
      BY <3>1, <3>2, SentAppend
    <3>4. \A x \in Clients \ {to} : t_msgq'[x] = t_msgq[x]
      BY <3>1, ClientFacts
    <3> QED
      BY <1>0, <2>1, <3>1, <3>3, <3>4, SentOther
  <2>4. CASE call' = c /\ t_msgq' = t_msgq
    BY <2>1, <2>4
  <2> QED
    BY <2>2, <2>3, <2>4, SendFacts DEF c
<1> QED
  BY <1>1, SeenNothing DEF Asked, Given, GivenIn

\* The SSI replies: the answer leaves its hands for the queue of the client,
\* or is read at once, or dropped.
LEMMA ReplySeen ==
  ASSUME Calm, NEW on, RingInv(on), call[SSI].op = "send",
         sys_send_msg(SSI, call[SSI].peer, call[SSI].msg, [call EXCEPT ![SSI] = Recv(NULL)]),
         Put' = Put
  PROVE  PromiseStep
<1>0. TypeOK /\ SSI \in Tcb /\ call \in [Tcb -> CallState] /\ ~Serves(call, SSI)
  BY RingFacts, ClientFacts
<1> DEFINE c == [call EXCEPT ![SSI] = Recv(NULL)]
<1>1. PICK t : t = call[SSI].peer
  OBVIOUS
<1>2. PICK m : m = call[SSI].msg
  OBVIOUS
<1>3. t \in Clients /\ m \in Payload /\ Serves(call, t)
  BY <1>0, <1>1, <1>2, CallFacts, ClientFacts DEF Serves
<1>4. c \in [Tcb -> CallState] /\ c[SSI] = Recv(NULL)
  BY <1>0, CallFacts
<1>5. sys_send_msg(SSI, t, m, c)
  BY <1>1, <1>2
<1> HIDE DEF c
<1> DEFINE a == [to |-> t, what |-> m.tag]
<1>6. /\ call'[SSI] = Recv(NULL) /\ t_msgq'[SSI] = t_msgq[SSI]
      /\ SentAll(t_msgq') = SentAll(t_msgq) \/ SentAll(t_msgq') = SentAll(t_msgq) \union {a}
  BY <1>0, <1>3, <1>4, <1>5, AnswerSent
<1>7. Asked' = Asked
  <2>1. AskedIn(call[SSI], t_msgq[SSI]) = <<>> \o Wishes(t_msgq[SSI])
    BY DEF AskedIn
  <2>2. AskedIn(Recv(NULL), t_msgq[SSI]) = <<>> \o Wishes(t_msgq[SSI])
    BY HandFacts
  <2> QED
    BY <1>6, <2>1, <2>2 DEF Asked
<1>8. ReadyIn(call[SSI]) = {a}
  BY <1>1, <1>2 DEF ReadyIn
<1>9. Given = {a} \union SentAll(t_msgq) /\ Given' = SentAll(t_msgq')
  <2>1. ReadyIn(call'[SSI]) = {}
    BY <1>6, HandFacts
  <2> QED
    BY <1>8, <2>1 DEF Given, GivenIn
<1>10. a \notin SentAll(t_msgq)
  <2>1. SentIn(t, t_msgq[t]) = {}
    BY <1>3, OneSent
  <2>2. a.to = t /\ \A x \in Clients : \A w \in SentIn(x, t_msgq[x]) : w.to = x
    BY DEF SentIn
  <2> QED
    BY <2>1, <2>2 DEF SentAll
<1> HIDE DEF a
<1>11. CASE SentAll(t_msgq') = SentAll(t_msgq)
  <2>1. a \in Given /\ Given' = Given \ {a}
    BY <1>9, <1>10, <1>11
  <2> QED
    BY <1>7, <2>1, SeenRead
<1>12. CASE SentAll(t_msgq') = SentAll(t_msgq) \union {a}
  <2>1. Given' = Given
    BY <1>9, <1>12
  <2> QED
    BY <1>7, <2>1, SeenNothing
<1> QED
  BY <1>6, <1>11, <1>12

\* SYS_SEND.
LEMMA SysSendSeen ==
  ASSUME Peaceful, Calm, NEW on, RingInv(on), TypeOK', Request \/ SysSend \/ SysSendPending
  PROVE  PromiseStep
<1>0. /\ TypeOK /\ SSI \in Tcb /\ call \in [Tcb -> CallState] /\ ~Dead(SSI)
  BY RingFacts, ClientFacts DEF Calm, Peace, BornPlaces, Born, Dead
<1>1. device_list' = device_list
  BY DEF Request, SysSend, SysSendPending, sys_send
<1>2. Put' = Put
  BY <1>1, SysSendKeeps, PutStays
<1>3. CASE Request
  <2>1. PICK t \in Tcb : t = current_thread /\ t \in Clients /\ call[t].op = "user"
    BY <1>3, RunnerFacts DEF Request
  <2>2. PICK m \in Requests : sys_send(SSI, m, Recv(SSI))
    BY <1>3 DEF Request
  <2>3. sys_send_msg(t, SSI, m, [call EXCEPT ![t] = Recv(SSI)])
    BY <1>0, <2>1, <2>2, SysSendCases
  <2> QED
    BY <1>2, <2>1, <2>3, RequestSeen
<1>4. CASE SysSend
  <2>1. PICK t \in Tcb : t = current_thread /\ t \in Clients
    BY <1>4, RunnerFacts DEF SysSend
  <2>2. PICK to \in Known : sys_send(to, Plain("mail"), User)
    BY <1>4 DEF SysSend
  <2>3. to \in Clients /\ to \in Tcb /\ ~Dead(to) /\ Plain("mail") \in Payload
    BY <2>2, KnownAlive, PayloadFacts, TagFacts DEF Clients
  <2>4. sys_send_msg(t, to, Plain("mail"), [call EXCEPT ![t] = User])
    BY <2>1, <2>2, <2>3, SysSendCases
  <2> QED
    BY <1>2, <2>1, <2>3, <2>4, MailSeen
<1>5. CASE SysSendPending
  <2>1. current_thread = SSI /\ call[SSI].op = "send"
    BY <1>5, RunnerFacts DEF SysSendPending
  <2>2. /\ call[SSI].peer \in Tcb
        /\ sys_send(call[SSI].peer, call[SSI].msg, Recv(NULL))
    BY <1>0, <1>5, <2>1, CallFacts DEF SysSendPending
  <2>3. CASE sys_send_msg(SSI, call[SSI].peer, call[SSI].msg, [call EXCEPT ![SSI] = Recv(NULL)])
    BY <1>2, <2>1, <2>3, ReplySeen
  <2>4. CASE /\ call' = [call EXCEPT ![SSI] = Send(call[SSI].peer, call[SSI].msg)]
             /\ t_msgq' = t_msgq
    <3>1. \A x \in CallState : x.op = "send" => x = Send(x.peer, x.msg)
      BY DEF CallState, Send
    <3>2. call'[SSI] = call[SSI]
      BY <1>0, <2>1, <2>4, <3>1
    <3> QED
      BY <1>2, <2>4, <3>2, SeenNothing DEF Asked, Given
  <2> QED
    BY <1>0, <2>1, <2>2, <2>3, <2>4, SysSendCases
<1> QED
  BY <1>3, <1>4, <1>5

\* The SSI takes the first message of its queue.
LEMMA FirstOfAll ==
  ASSUME NEW q \in Seq(Message), Matches(q, NULL) # {}
  PROVE  q # <<>> /\ FirstMatch(q, NULL) = 1
<1>1. Matches(q, NULL) = 1..Len(q) /\ Len(q) \in Nat
  BY DEF Matches
<1>2. 1 \in Matches(q, NULL) /\ \A j \in Matches(q, NULL) : 1 <= j
  BY <1>1
<1>3. \A j \in Matches(q, NULL) : FirstMatch(q, NULL) <= j
  BY <1>2 DEF FirstMatch
<1>4. FirstMatch(q, NULL) \in 1..Len(q) /\ FirstMatch(q, NULL) <= 1
  BY <1>2, <1>3, MatchType
<1> QED
  BY <1>1, <1>2, <1>4

\* SYS_RECV: the SSI takes a request, a client its answer or another message,
\* or the thread goes to sleep.
LEMMA SysRecvSeen ==
  ASSUME Calm, NEW on, RingInv(on), NEW s, NEW self \in Tcb, self = current_thread, sys_recv(s),
         \/ call[self] = Recv(s)
         \/ self \in Clients /\ call[self].op = "user",
         self = SSI => call[SSI] = Recv(NULL),
         Put' = Put
  PROVE  PromiseStep
<1>0. /\ TypeOK /\ SSI \in Tcb /\ call \in [Tcb -> CallState]
      /\ t_msgq \in [Tcb -> Seq(Message)]
  BY RingFacts, ClientFacts DEF TypeOK
<1> DEFINE q == t_msgq[self]
           i == FirstMatch(q, s)
<1>1. self = SSI => s = NULL
  BY ClientFacts
<1>2. ASSUME call' = [call EXCEPT ![self] = Recv(s)], t_msgq' = t_msgq
      PROVE  PromiseStep
  <2>1. call'[SSI] = call[SSI]
    BY <1>0, <1>1, <1>2
  <2> QED
    BY <1>2, <2>1, SeenNothing DEF Asked, Given
<1>3. ASSUME Matches(q, s) # {}, msgq_get(s, self),
             call' = [call EXCEPT ![self] = Received(self, q[i].from, q[i].msg)]
      PROVE  PromiseStep
  <2>1. /\ i \in 1..Len(q) /\ q \in Seq(Message)
        /\ t_msgq'[self] = RemoveAt(q, i)
        /\ \A x \in Tcb \ {self} : t_msgq'[x] = t_msgq[x] /\ call'[x] = call[x]
    BY <1>0, <1>3, MatchType DEF msgq_get
  <2>2. CASE self = SSI
    <3>1. q # <<>> /\ i = 1 /\ q = t_msgq[SSI]
      BY <1>1, <1>3, <2>1, <2>2, FirstOfAll
    <3>2. call'[SSI] = Serve(q[1].from, q[1].msg) /\ t_msgq'[SSI] = RemoveAt(q, 1)
      BY <1>0, <1>3, <2>1, <2>2, <3>1, ClientFacts
    <3>3. \A x \in Clients : t_msgq'[x] = t_msgq[x]
      BY <2>1, <2>2, ClientFacts
    <3> HIDE DEF q, i
    <3>4. Asked' = <<AsRequest(q[1])>> \o Wishes(RemoveAt(q, 1))
      <4>1. AskedIn(Serve(q[1].from, q[1].msg), RemoveAt(q, 1))
              = <<[from |-> q[1].from, tag |-> q[1].msg.tag]>> \o Wishes(RemoveAt(q, 1))
        BY HandFacts
      <4>2. AsRequest(q[1]) = [from |-> q[1].from, tag |-> q[1].msg.tag]
        BY DEF AsRequest
      <4> QED
        BY <3>2, <4>1, <4>2 DEF Asked
    <3>5. Asked = Wishes(q)
      <4>1. Recv(NULL) \in CallState /\ Recv(NULL).op # "serve"
        BY CallFacts, ClientFacts
      <4>2. AskedIn(Recv(NULL), q) = Wishes(q)
        BY <2>1, <4>1, AskedIs
      <4> QED
        BY <2>2, <3>1, <4>2 DEF Asked
    <3>6. Asked' = Asked
      BY <2>1, <3>1, <3>4, <3>5, WishesTake
    <3>7. Given' = Given
      <4>1. ReadyIn(call'[SSI]) = {} /\ ReadyIn(call[SSI]) = {}
        BY <2>2, <3>2, HandFacts
      <4>2. SentAll(t_msgq') = SentAll(t_msgq)
        BY <3>3 DEF SentAll
      <4> QED
        BY <4>1, <4>2 DEF Given, GivenIn
    <3> QED
      BY <3>6, <3>7, SeenNothing
  <2>3. CASE self # SSI
    <3>1. self \in Clients /\ \A x \in Clients \ {self} : t_msgq'[x] = t_msgq[x]
      BY <2>1, <2>3, ClientFacts
    <3>2. call'[SSI] = call[SSI] /\ t_msgq'[SSI] = t_msgq[SSI]
      BY <1>0, <2>1, <2>3
    <3>3. Asked' = Asked
      BY <3>2 DEF Asked
    <3> HIDE DEF q, i
    <3>4. CASE q[i].from # SSI
      <4>1. SentIn(self, t_msgq'[self]) = SentIn(self, q)
        BY <2>1, <3>4, SentRemove
      <4>2. SentAll(t_msgq') = SentAll(t_msgq)
        BY <3>1, <4>1, SentOther DEF q
      <4> QED
        BY <3>2, <3>3, <4>2, SeenNothing DEF Given, GivenIn
    <3>5. CASE q[i].from = SSI
      <4> DEFINE a == [to |-> self, what |-> q[i].msg.tag]
      <4>1. i \in MailOf(q, SSI)
        BY <2>1, <3>5 DEF MailOf
      <4>2. /\ Single(MailOf(q, SSI)) /\ SentIn(self, q) = {a} /\ ~Serves(call, self)
        BY <3>1, <4>1, OneSent DEF q
      <4>3. SentIn(self, t_msgq'[self]) = {}
        <5>1. MailOf(RemoveAt(q, i), SSI) = {}
          BY <2>1, <3>5, <4>2, MailRemove
        <5> QED
          BY <2>1, <5>1 DEF SentIn
      <4>4. a.to = self
        OBVIOUS
      <4>5. a \notin ReadyIn(call[SSI])
        BY <4>2 DEF ReadyIn, Serves
      <4> HIDE DEF a
      <4>6. SentAll(t_msgq') = SentAll(t_msgq) \ {a} /\ a \in SentAll(t_msgq)
        BY <3>1, <4>2, <4>3, <4>4, SentOther DEF q
      <4>7. a \in Given /\ Given' = Given \ {a}
        BY <3>2, <4>5, <4>6 DEF Given, GivenIn
      <4> QED
        BY <3>3, <4>7, SeenRead
    <3> QED
      BY <3>4, <3>5
  <2> QED
    BY <2>2, <2>3
<1> QED
  BY <1>2, <1>3, Zenon DEF sys_recv, check_thread_alive

\* All system calls; nobody traps.
LEMMA ExceptionsSeen ==
  ASSUME Peaceful, Calm, NEW on, RingInv(on), TypeOK', ExceptionsNext
  PROVE  PromiseStep
<1>0. call \in [Tcb -> CallState]
  BY RingFacts
<1>1. CASE Request \/ SysSend \/ SysSendPending
  BY <1>1, SysSendSeen
<1>2. ASSUME device_list' = device_list PROVE Put' = Put
  BY <1>2, ExceptionsKeep, PutStays
<1>3. CASE SysRecv
  <2>1. PICK self \in Tcb : self = current_thread /\ self \in Clients /\ call[self].op = "user"
    BY <1>3, RunnerFacts DEF SysRecv
  <2>2. PICK s : sys_recv(s)
    BY <1>3 DEF SysRecv
  <2>3. Put' = Put
    BY <1>2, <2>2 DEF sys_recv
  <2> QED
    BY <2>1, <2>2, <2>3, SysRecvSeen, ClientFacts
<1>4. CASE SysRecvPending
  <2>1. PICK self \in Tcb : /\ self = current_thread /\ call[self].op = "recv"
                            /\ self = SSI => call[SSI] = Recv(NULL)
    BY <1>4, RunnerFacts DEF SysRecvPending
  <2>2. PICK s : s = call[self].peer
    OBVIOUS
  <2>3. call[self] = Recv(s)
    <3>1. \A c \in CallState : c.op = "recv" => c = Recv(c.peer)
      BY DEF CallState, Recv, NoPayload
    <3> QED
      BY <1>0, <2>1, <2>2, <3>1
  <2>4. sys_recv(s)
    BY <1>4, <2>1, <2>2 DEF SysRecvPending
  <2>5. Put' = Put
    BY <1>2, <2>4 DEF sys_recv
  <2> QED
    BY <2>1, <2>3, <2>4, <2>5, SysRecvSeen
<1>5. CASE SysPassup \/ TlbTrap \/ PgmTrap
  BY <1>5 DEF SysPassup, TlbTrap, PgmTrap, Peaceful
<1>6. CASE SysZero \/ Breakpoint
  <2>1. UNCHANGED <<call, t_msgq, device_list>>
    BY <1>6 DEF SysZero, Breakpoint, mail
  <2> QED
    BY <1>2, <2>1, SeenNothing DEF Asked, Given
<1> QED
  BY <1>1, <1>3, <1>4, <1>5, <1>6 DEF ExceptionsNext

(*-------------------------------- services -----------------------------*)

\* What is asked while the SSI serves, and after it.
LEMMA AskedServing ==
  ASSUME Calm, NEW on, RingInv(on), call[SSI].op = "serve"
  PROVE  LET r == [from |-> Sender, tag |-> call[SSI].msg.tag]
         IN  /\ Asked = <<r>> \o Wishes(t_msgq[SSI]) /\ Asked # <<>> /\ Head(Asked) = r
             /\ Tail(Asked) = Wishes(t_msgq[SSI])
             /\ \A c \in CallState : c.op # "serve" => AskedIn(c, t_msgq[SSI]) = Tail(Asked)
             /\ Given = SentAll(t_msgq)
<1>1. call[SSI] \in CallState /\ t_msgq[SSI] \in Seq(Message)
  BY RingFacts, ClientFacts DEF TypeOK
<1>2. Given = SentAll(t_msgq)
  BY DEF Given, GivenIn, ReadyIn
<1> QED
  BY <1>1, <1>2, AskedIs DEF Asked, Sender

\* A service is over with a reply, or put off.
LEMMA ServeSeen ==
  ASSUME Calm, NEW on, RingInv(on), call[SSI].op = "serve", t_msgq' = t_msgq
  PROVE  LET r == [from |-> Sender, tag |-> call[SSI].msg.tag]
         IN  /\ \A tag \in Promise!AtOnce(r.tag) \intersect PlainTags :
                  Reply(tag) /\ Put' = Put => PromiseStep
             /\ NoReply /\ Promise!Afterwards(r.tag) # {} /\ Put' = Put \union {r} => PromiseStep
<1> DEFINE r == [from |-> Sender, tag |-> call[SSI].msg.tag]
<1>0. call \in [Tcb -> CallState] /\ SSI \in Tcb
  BY RingFacts, ClientFacts
<1>1. /\ Asked = <<r>> \o Wishes(t_msgq[SSI]) /\ Asked # <<>> /\ Head(Asked) = r
      /\ \A c \in CallState : c.op # "serve" => AskedIn(c, t_msgq[SSI]) = Tail(Asked)
      /\ Given = SentAll(t_msgq)
  BY AskedServing
<1>2. PICK s \in Tcb : s = Sender
  BY <1>0, CallFacts DEF Sender
<1>3. r.from = s
  BY <1>2
<1>4. ASSUME NEW tag \in Promise!AtOnce(r.tag) \intersect PlainTags, Reply(tag), Put' = Put
      PROVE  PromiseStep
  <2>1. call'[SSI] = Send(s, Plain(tag))
    BY <1>0, <1>2, <1>4 DEF Reply
  <2>2. Send(s, Plain(tag)) \in CallState /\ Send(s, Plain(tag)).op # "serve"
    BY <1>4, PayloadFacts, CallFacts, ClientFacts
  <2> HIDE DEF r
  <2>3. Asked' = Tail(Asked)
    BY <1>1, <2>1, <2>2 DEF Asked
  <2>4. Given' = Given \union {[to |-> r.from, what |-> tag]}
    <3>1. ReadyIn(Send(s, Plain(tag))) = {[to |-> s, what |-> tag]}
      BY HandFacts DEF Plain
    <3> QED
      BY <1>1, <1>3, <2>1, <3>1 DEF Given, GivenIn
  <2>5. tag \in Promise!AtOnce(r.tag)
    BY <1>4
  <2>6. PICK q : q = Wishes(t_msgq[SSI])
    OBVIOUS
  <2> QED
    BY <1>1, <1>4, <2>3, <2>4, <2>5, <2>6, SeenServe
<1>5. ASSUME NoReply, Promise!Afterwards(r.tag) # {}, Put' = Put \union {r}
      PROVE  PromiseStep
  <2>1. call'[SSI] = Recv(NULL)
    BY <1>0, <1>5 DEF NoReply
  <2>2. Recv(NULL) \in CallState /\ Recv(NULL).op # "serve"
    BY CallFacts, ClientFacts
  <2> HIDE DEF r
  <2>3. Asked' = Tail(Asked)
    BY <1>1, <2>1, <2>2 DEF Asked
  <2>4. Given' = Given
    <3>1. ReadyIn(Recv(NULL)) = {}
      BY HandFacts
    <3> QED
      BY <1>1, <2>1, <3>1 DEF Given, GivenIn
  <2>5. PICK q : q = Wishes(t_msgq[SSI])
    OBVIOUS
  <2> QED
    BY <1>1, <1>5, <2>3, <2>4, <2>5, SeenServe
<1> QED
  BY <1>4, <1>5

LEMMA ServicesSeen ==
  ASSUME Peaceful, Calm, NEW on, RingInv(on), TypeOK', SsiNext
  PROVE  PromiseStep
<1>0. /\ TypeOK /\ SSI \in Tcb /\ call \in [Tcb -> CallState]
      /\ device_list \in [Devices -> Tcb \union {NULL}]
      /\ t_msgq' = t_msgq
  BY RingFacts, ClientFacts, ServicesPool
<1>1. ASSUME ~WaitForClock, device_list' = device_list PROVE Put' = Put
  BY <1>1, ServicesKeep, PutStays
<1> DEFINE r == [from |-> Sender, tag |-> call[SSI].msg.tag]
<1>2. CASE GetErrno \/ Query \/ CreateProcess \/ CreateThread \/ DoIoBusy
  <2>1. PICK tag \in {"reply", "busy"} :
          /\ Reply(tag) /\ device_list' = device_list
          /\ call[SSI].op = "serve" /\ call[SSI].msg.tag # "WAIT_FOR_CLOCK"
          /\ tag = "busy" <=> call[SSI].msg.tag = "DO_IO"
    BY <1>2 DEF GetErrno, Query, CreateProcess, CreateThread, DoIoBusy, Serving, Queries
  <2>2. tag \in Promise!AtOnce(r.tag) \intersect PlainTags
    BY <2>1, TagFacts DEF Promise!AtOnce
  <2>3. Put' = Put
    BY <1>1, <2>1 DEF WaitForClock, Serving
  <2> HIDE DEF r
  <2>4. \A x \in Promise!AtOnce(r.tag) \intersect PlainTags : Reply(x) /\ Put' = Put => PromiseStep
    BY <1>0, <2>1, ServeSeen DEF r
  <2> QED
    BY <2>1, <2>2, <2>3, <2>4
<1>3. CASE WaitForClock \/ DoIo
  <2>1. /\ call[SSI].op = "serve" /\ NoReply
        /\ call[SSI].msg.tag \in {"WAIT_FOR_CLOCK", "DO_IO"}
        /\ call[SSI].msg.tag = "WAIT_FOR_CLOCK" <=> WaitForClock
    BY <1>3 DEF WaitForClock, DoIo, Serving
  <2>2. Promise!Afterwards(r.tag) # {}
    BY <2>1 DEF Promise!Afterwards
  <2>3. Put' = Put \union {r}
    <3>1. CASE WaitForClock
      <4>1. Waiters' = Waiters \union {Sender} /\ device_list' = device_list
        BY <3>1, JoinsQueue DEF ClockJoins, WaitForClock
      <4>2. r = [from |-> Sender, tag |-> "WAIT_FOR_CLOCK"]
        BY <2>1, <3>1
      <4> HIDE DEF r
      <4> QED
        BY <4>1, <4>2 DEF Put, PutIn
    <3>2. CASE ~WaitForClock
      <4>1. DoIo /\ call[SSI].msg.tag = "DO_IO"
        BY <1>3, <2>1, <3>2
      <4>2. Waiters' = Waiters
        BY <3>2, ServicesKeep, StaysInPlace DEF TypeOK, ClockStays
      <4>3. PICK d \in Devices : /\ device_list[d] = NULL
                                 /\ device_list' = [device_list EXCEPT ![d] = Sender]
        <5>1. Argument \in Devices
          BY <1>0, <4>1, ServingFacts DEF DoIo
        <5> QED
          BY <4>1, <5>1 DEF DoIo
      <4>4. PICK s \in Tcb : s = Sender
        BY <1>0, <2>1, CallFacts DEF Sender
      <4>5. /\ \A e \in Devices : device_list'[e] = IF e = d THEN s ELSE device_list[e]
            /\ s # NULL
        BY <1>0, <4>3, <4>4, NodeFacts
      <4>6. r = [from |-> s, tag |-> "DO_IO"]
        BY <4>1, <4>4
      <4> HIDE DEF r
      <4>7. {[from |-> device_list'[x], tag |-> "DO_IO"] :
                x \in {e \in Devices : device_list'[e] # NULL}}
            = {[from |-> device_list[x], tag |-> "DO_IO"] :
                x \in {e \in Devices : device_list[e] # NULL}} \union {r}
        BY <4>3, <4>5, <4>6
      <4> QED
        BY <4>2, <4>7 DEF Put, PutIn
    <3> QED
      BY <3>1, <3>2
  <2> HIDE DEF r
  <2>4. NoReply /\ Promise!Afterwards(r.tag) # {} /\ Put' = Put \union {r} => PromiseStep
    BY <1>0, <2>1, ServeSeen DEF r
  <2> QED
    BY <2>1, <2>2, <2>3, <2>4
<1>4. CASE TerminateProcess \/ TerminateThread \/ BadRequest \/ SetManager
  BY <1>4, SenderFacts
  DEF TerminateProcess, TerminateThread, BadRequest, SetManager, Managing, Killing
<1>5. ASSUME NEW who \in Killers,
             ReapThread(who) \/ ReapChild(who) \/ ReapProc(who) \/ ReapDone(who)
      PROVE  FALSE
  BY <1>5, NobodyReaps
<1> QED
  BY <1>2, <1>3, <1>4, <1>5 DEF SsiNext, Killers

(*------------------------ interrupts and scheduler ---------------------*)

\* A device or the clock sends an answer to p, that is put off no longer.
LEMMA OverSeen ==
  ASSUME Calm, NEW t \in Clients, NEW tag \in PlainTags, sys_send_msg(SSI, t, Plain(tag), call),
         NEW p \in Put, p.from = t, Put' = Put \ {p}, tag \in Promise!Afterwards(p.tag)
  PROVE  PromiseStep
<1>0. TypeOK /\ call \in [Tcb -> CallState] /\ Plain(tag) \in Payload /\ Plain(tag).tag = tag
  BY PayloadFacts DEF Calm, WakeInv, TypeOK, Plain
<1>1. /\ call'[SSI] = call[SSI] /\ t_msgq'[SSI] = t_msgq[SSI]
      /\ \/ SentAll(t_msgq') = SentAll(t_msgq)
         \/ SentAll(t_msgq') = SentAll(t_msgq) \union {[to |-> t, what |-> tag]}
  <2>1. /\ call'[SSI] = call[SSI] /\ t_msgq'[SSI] = t_msgq[SSI]
        /\ \/ SentAll(t_msgq') = SentAll(t_msgq)
           \/ SentAll(t_msgq') = SentAll(t_msgq) \union {[to |-> t, what |-> Plain(tag).tag]}
    BY <1>0, AnswerSent
  <2> QED
    BY <1>0, <2>1
<1>2. Asked' = Asked
  BY <1>1 DEF Asked
<1>3. Given' = Given \/ Given' = Given \union {[to |-> p.from, what |-> tag]}
  BY <1>1 DEF Given, GivenIn
<1> QED
  BY <1>2, <1>3, SeenOver

\* The timer, the devices and the scheduler.
LEMMA NucleusSeen ==
  ASSUME Peaceful, Calm, NEW on, RingInv(on), TypeOK', InterruptsNext \/ SchedulerNext
  PROVE  PromiseStep
<1>0. /\ TypeOK /\ sched \in SchedType /\ on[SSI] \notin Off /\ NULL \notin Tcb
      /\ device_list \in [Devices -> Tcb \union {NULL}] /\ Devs(device_list, on)
  BY RingFacts, NodeFacts DEF RingInv
<1>1. {"status", "tick"} \subseteq PlainTags
  BY TagFacts
<1>2. CASE SliceOver \/ Tick \/ Halt \/ Panic \/ Wait \/ FallThrough \/ Resume \/ Dispatch
  <2>1. Keeps(sched, sched', on)
    BY <1>2, NucleusKeeps
  <2>2. UNCHANGED <<call, t_msgq, device_list>>
    BY <1>2 DEF SliceOver, Tick, Halt, Panic, Wait, FallThrough, Stop, Resume, Dispatch, Crash, mail
  <2>3. Put' = Put
    BY <2>1, <2>2, PutStays
  <2> QED
    BY <2>2, <2>3, SeenNothing DEF Asked, Given
<1>3. ASSUME NEW d \in Devices, DeviceInterrupt(d)
      PROVE  PromiseStep
  <2>1. PICK t : t = device_list[d]
    OBVIOUS
  <2>2. /\ sys_send_msg(SSI, t, Plain("status"), call)
        /\ device_list' = [device_list EXCEPT ![d] = NULL] /\ t # NULL
    BY <1>3, <2>1 DEF DeviceInterrupt
  <2>3. t \in Clients
    <3>1. t \in Tcb /\ on[t] = "device"
      BY <1>0, <2>1, <2>2 DEF Devs
    <3> QED
      BY <1>0, <3>1, ClientFacts DEF Off
  <2>4. Waiters' = Waiters
    BY <1>3, NucleusKeeps, StaysInPlace DEF TypeOK, ClockStays
  <2> DEFINE p == [from |-> t, tag |-> "DO_IO"]
  <2>5. p \in Put
    BY <2>1, <2>2 DEF Put, PutIn
  <2>6. Put' = Put \ {p}
    <3>1. \A e \in Devices : device_list'[e] = IF e = d THEN NULL ELSE device_list[e]
      BY <1>0, <2>2
    <3>2. \A e \in Devices : device_list[e] = t => e = d
      BY <1>0, <2>1, <2>2 DEF Devs
    <3>3. {[from |-> device_list'[x], tag |-> "DO_IO"] :
              x \in {e \in Devices : device_list'[e] # NULL}}
          = {[from |-> device_list[x], tag |-> "DO_IO"] :
              x \in {e \in Devices : device_list[e] # NULL}} \ {p}
      BY <2>1, <3>1, <3>2
    <3>4. \A x \in Waiters : [from |-> x, tag |-> "WAIT_FOR_CLOCK"] # p
      OBVIOUS
    <3> HIDE DEF p
    <3> QED
      BY <2>4, <3>3, <3>4 DEF Put, PutIn
  <2>7. p.from = t /\ "status" \in Promise!Afterwards(p.tag)
    BY DEF Promise!Afterwards
  <2> HIDE DEF p
  <2> QED
    BY <1>1, <2>2, <2>3, <2>5, <2>6, <2>7, OverSeen
<1>4. CASE ClockExpire
  <2>1. PICK t : t = sched.next[clock]
    OBVIOUS
  <2>2. t \in Waiters /\ Waiters' = Waiters \ {t}
    BY <1>4, <2>1, LeavesQueue DEF ClockLeaves
  <2>3. t \in Tcb /\ t \in Clients
    <3>1. t \in Tcb /\ on[t] = clock
      BY <2>2, WaitersAre
    <3> QED
      BY <1>0, <3>1, ClientFacts DEF Off
  <2>4. sys_send_msg(SSI, t, Plain("tick"), call) /\ device_list' = device_list
    BY <1>4, <2>1, <2>3 DEF ClockExpire, thread_qhead
  <2> DEFINE p == [from |-> t, tag |-> "WAIT_FOR_CLOCK"]
  <2>5. p \in Put
    BY <2>2 DEF Put, PutIn
  <2>6. Put' = Put \ {p}
    <3>1. \A d : [from |-> device_list[d], tag |-> "DO_IO"] # p
      OBVIOUS
    <3>2. {[from |-> x, tag |-> "WAIT_FOR_CLOCK"] : x \in Waiters \ {t}}
          = {[from |-> x, tag |-> "WAIT_FOR_CLOCK"] : x \in Waiters} \ {p}
      OBVIOUS
    <3> HIDE DEF p
    <3> QED
      BY <2>2, <2>4, <3>1, <3>2 DEF Put, PutIn
  <2>7. p.from = t /\ "tick" \in Promise!Afterwards(p.tag)
    BY DEF Promise!Afterwards
  <2> HIDE DEF p
  <2> QED
    BY <1>1, <2>3, <2>4, <2>5, <2>6, <2>7, OverSeen
<1> QED
  BY <1>2, <1>3, <1>4 DEF InterruptsNext, SchedulerNext

(*------------------------------- theorem -------------------------------*)

\* At boot nobody has asked for anything.
LEMMA PromiseInit ==
  ASSUME Init, Calm, Placed
  PROVE  Promise!Silent
<1>1. PICK on : RingInv(on)
  BY DEF Placed
<1>2. /\ SSI \in Tcb /\ call[SSI] = Recv(NULL) /\ \A t \in Clients : call[t] = User
      /\ \A t \in Tcb : t_msgq[t] = <<>>
      /\ \A d \in Devices : device_list[d] = NULL
  BY ClientFacts DEF Init
<1>3. Asked = <<>>
  <2>1. t_msgq[SSI] \in Seq(Message) /\ Wishes(t_msgq[SSI]) \in Seq(Wish)
        /\ Len(Wishes(t_msgq[SSI])) = 0
    <3>1. t_msgq[SSI] \in Seq(Message) /\ Len(t_msgq[SSI]) = 0
      BY <1>1, <1>2, RingFacts DEF TypeOK
    <3> QED
      BY <3>1, WishesType
  <2>2. Recv(NULL) \in CallState /\ Recv(NULL).op # "serve"
    BY CallFacts, ClientFacts
  <2>3. Asked = Wishes(t_msgq[SSI])
    BY <1>2, <2>1, <2>2, AskedIs DEF Asked
  <2> QED
    BY <2>1, <2>3
<1>4. Put = {}
  <2>1. ASSUME NEW t \in Waiters PROVE FALSE
    <3>1. t \in Tcb /\ on[t] \in Off
      BY <1>1, WaitersAre DEF Off
    <3>2. t \in Clients /\ call[t] = Recv(SSI)
      BY <1>1, <3>1, RingFacts, ClientFacts
    <3> QED
      BY <1>2, <3>2, ClientFacts
  <2> QED
    BY <1>2, <2>1 DEF Put, PutIn
<1>5. Given = {}
  <2>1. ReadyIn(call[SSI]) = {}
    BY <1>2, HandFacts
  <2>2. \A t \in Clients : SentIn(t, t_msgq[t]) = {}
    <3>1. \A x : MailOf(<<>>, x) = {}
      BY DEF MailOf
    <3> QED
      BY <1>2, <3>1, ClientFacts DEF SentIn
  <2> QED
    BY <2>1, <2>2 DEF Given, GivenIn, SentAll
<1> QED
  BY <1>3, <1>4, <1>5
  DEF Promise!Silent, Asked, Put, Given, AskedIn, PutIn, GivenIn, ReadyIn, SentAll, SentIn,
      Wishes, MailOf, InHand

\* Every step of the nucleus is one of the service, or unseen.
LEMMA PromiseKeepers ==
  ASSUME Peaceful, Calm, Placed, TypeOK', [Next]_vars
  PROVE  PromiseStep
<1>1. PICK on : RingInv(on)
  BY DEF Placed
<1>2. CASE SsiNext
  BY <1>1, <1>2, ServicesSeen
<1>3. CASE ExceptionsNext
  BY <1>1, <1>3, ExceptionsSeen
<1>4. CASE InterruptsNext \/ SchedulerNext
  BY <1>1, <1>4, NucleusSeen
<1>5. CASE UNCHANGED vars
  <2>1. UNCHANGED <<sched, call, t_msgq, device_list>>
    BY <1>5 DEF vars, mail
  <2>2. Asked' = Asked /\ Put' = Put /\ Given' = Given
    BY <2>1 DEF Asked, Put, Given, Waiters, Members
  <2> QED
    BY <2>2, SeenNothing
<1> QED
  BY <1>2, <1>3, <1>4, <1>5 DEF Next

\* The SSI, the interrupts and the scheduler keep the promise of Service, for
\* any number of threads, messages and devices: requests are served in the
\* order in which they were made, each once, and each answer is one to its
\* request - at once, or when the clock or the device it was put off for is
\* over - and goes to the thread that asked, which has one request under way
\* at most.
THEOREM PromiseKept ==
  ASSUME Peaceful
  PROVE  Spec => KeepsPromise
<1>1. Init /\ Calm /\ Placed => Promise!Silent
  BY PromiseInit
<1>2. Calm /\ Placed /\ TypeOK' /\ [Next]_vars => [Promise!ServiceNext]_(Promise!svars)
  BY PromiseKeepers DEF PromiseStep
<1>3. Calm => TypeOK
  BY DEF Calm, WakeInv
<1> QED
  BY <1>1, <1>2, <1>3, PlacedInductive, PTL DEF Spec, KeepsPromise, Promise!ServiceSpec
==============================================================================
