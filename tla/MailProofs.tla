------------------------------ MODULE MailProofs -----------------------------
(***************************************************************************)
(* NoLostWakeup is an invariant of Nucleus for every value of its          *)
(* constants that lets no thread ask for a manager: whatever is killed,    *)
(* interrupted or preempted, a sleeper and its message never wait for each *)
(* other.  Where in addition nobody is killed and nobody traps, the        *)
(* nucleus implements the mailboxes of Mailboxes: behind the queues of the *)
(* scheduler, the time slices, the devices and the pool, a thread sends    *)
(* and receives as if there were nothing but its box.                      *)
(***************************************************************************)
EXTENDS NucleusProofs

(*------------------------------- statuses ------------------------------*)

\* Joining a queue changes nobody's status.
LEMMA EnqueueStatus ==
  ASSUME NEW s \in SchedType, NEW t \in Tcb, NEW q \in Heads
  PROVE  thread_enqueue(s, t, q).status = s.status
BY NodeFacts DEF SchedType, thread_enqueue, list_add_tail, list_add_between

\* The links of a queue and the statuses are apart: only going to sleep and
\* waking up change a status, that of one thread.
LEMMA StatusFacts ==
  ASSUME NEW s \in SchedType, NEW t \in Tcb, NEW q \in Heads
  PROVE  /\ thread_outqueue(s, t).status = s.status
         /\ thread_enqueue(s, t, q).status = s.status
         /\ thread_dequeue(s, q).status = s.status
         /\ resumed(s, t).status = s.status
         /\ put_thread_sleep(s, t).status = [s.status EXCEPT ![t] = "W4MSG"]
         /\ wake_me_up(s, t).status = [s.status EXCEPT ![t] = "READY"]
<1>0. /\ t \in Node /\ q \in Node /\ thread_outqueue(s, t) \in SchedType
      /\ "ready_queue" \in Heads /\ "wait_queue" \in Heads
  BY NodeFacts, QueueType DEF Heads
<1>1. ASSUME NEW u \in SchedType, NEW n \in Node, NEW h \in Node
      PROVE  /\ list_del(u, n).status = u.status
             /\ list_add_tail(u, n, h).status = u.status
             /\ INIT_LIST_HEAD(u, n).status = u.status
  BY DEF SchedType, list_del, list_add_tail, list_add_between, INIT_LIST_HEAD
<1>2. \A u \in SchedType, h \in Heads : thread_enqueue(u, t, h).status = u.status
  BY <1>0, <1>1, NodeFacts DEF thread_enqueue
<1>3. thread_outqueue(s, t).status = s.status
  BY <1>0, <1>1 DEF thread_outqueue
<1>4. thread_dequeue(s, q).status = s.status
  <2>1. s.next[q] \in Node
    BY <1>0 DEF SchedType
  <2> QED
    BY <1>0, <1>1, <2>1, LinkType DEF thread_dequeue
<1>5. \A u \in SchedType : \A n : [u EXCEPT !.soft = n].status = u.status
  BY DEF SchedType
<1>6. \A u \in SchedType : \A n, st :
         [u EXCEPT !.status[t] = st, !.soft = n].status = [u.status EXCEPT ![t] = st]
  BY DEF SchedType
<1>7. resumed(s, t).status = s.status
  <2>1. thread_enqueue(s, t, "ready_queue") \in SchedType
    BY <1>0, QueueType
  <2> QED
    BY <1>0, <1>2, <1>5, <2>1 DEF resumed
<1>8. put_thread_sleep(s, t).status = [s.status EXCEPT ![t] = "W4MSG"]
  <2>1. thread_enqueue(thread_outqueue(s, t), t, "wait_queue") \in SchedType
    BY <1>0, QueueType
  <2> QED
    BY <1>0, <1>2, <1>3, <1>6, <2>1 DEF put_thread_sleep
<1>9. wake_me_up(s, t).status = [s.status EXCEPT ![t] = "READY"]
  <2>1. thread_enqueue(thread_outqueue(s, t), t, "ready_queue") \in SchedType
    BY <1>0, QueueType
  <2> QED
    BY <1>0, <1>2, <1>3, <1>6, <2>1 DEF wake_me_up
<1> QED
  BY <1>0, <1>2, <1>3, <1>4, <1>7, <1>8, <1>9

(*--------------------------- the inductive invariant -------------------*)

\* Nobody has asked for a manager, or is about to.
Unmanaging(c) == c.msg.tag \notin Managing
Unmanaged ==
  /\ \A p \in Pcb, k \in Kinds : manager[p][k] = NULL
  /\ \A t \in Tcb : Unmanaging(call[t])
  /\ \A t \in Tcb : \A i \in DOMAIN t_msgq[t] : Unmanaging(t_msgq[t][i])
  /\ Unmanaging(reap["ssi"].after)

\* A thread sleeps in a receive only; the nucleus remembers the sender that
\* the receive names, and there is nothing in the queue for it.
SleepsWell(t) ==
  /\ call[t].op = "recv" /\ call[t].peer = t_wait4sender[t]
  /\ Matches(t_msgq[t], t_wait4sender[t]) = {}
SleepHolds == \A t \in Tcb : Sleeping(t) => SleepsWell(t)

WakeInv == TypeOK /\ Unmanaged /\ SleepHolds

\* Steps that leave every sleeper alone, or wake it.
LEMMA SleepKept ==
  ASSUME SleepHolds,
         \A t \in Tcb : Sleeping(t)' =>
           /\ Sleeping(t)
           /\ call'[t] = call[t] /\ t_wait4sender'[t] = t_wait4sender[t]
           /\ t_msgq'[t] = t_msgq[t]
  PROVE  SleepHolds'
BY DEF SleepHolds, SleepsWell

\* The manager of a thread is nobody.
LEMMA NoManagerOf ==
  ASSUME TypeOK, Unmanaged, NEW t \in Tcb, NEW k \in Kinds
  PROVE  manager_of(t, k) = NULL
BY DEF manager_of, Unmanaged, TypeOK

(*-------------------------------- messages -----------------------------*)

\* The calls that make no request for a manager.
LEMMA UnmanagingFacts ==
  /\ Unmanaging(User) /\ Unmanaging(Reaping)
  /\ \A s : Unmanaging(Recv(s))
  /\ \A d, m : m.tag \notin Managing => Unmanaging(Send(d, m)) /\ Unmanaging(Serve(d, m))
  /\ \A tag \in {"reply", "busy", "mail", "trap", "status", "tick"} :
       Plain(tag).tag \notin Managing
BY DEF Unmanaging, User, Reaping, Recv, Send, Serve, NoPayload, Plain, Managing

\* What sys_send_msg does to the calls and the queues.
LEMMA SendCases ==
  ASSUME TypeOK, NEW from \in Tcb, NEW to \in Tcb, NEW m \in Payload,
         NEW c \in [Tcb -> CallState], sys_send_msg(from, to, m, c)
  PROVE  \/ /\ Accepts(to, from)
            /\ call' = [c EXCEPT ![to] = Received(to, from, m)] /\ t_msgq' = t_msgq
         \/ /\ ~Accepts(to, from)
            /\ call' = c
            /\ t_msgq' = [t_msgq EXCEPT ![to] = Append(@, [from |-> from, msg |-> m])]
         \/ ~Accepts(to, from) /\ call' = c /\ t_msgq' = t_msgq
BY Zenon DEF sys_send_msg, msgq_add

\* A message that asks for no manager leaves none that does.
LEMMA SendUnmanaging ==
  ASSUME TypeOK, NEW from \in Tcb, NEW to \in Tcb, NEW m \in Payload,
         NEW c \in [Tcb -> CallState], sys_send_msg(from, to, m, c),
         m.tag \notin Managing, \A t \in Tcb : Unmanaging(c[t]),
         \A t \in Tcb : \A i \in DOMAIN t_msgq[t] : Unmanaging(t_msgq[t][i])
  PROVE  /\ \A t \in Tcb : Unmanaging(call'[t])
         /\ \A t \in Tcb : \A i \in DOMAIN t_msgq'[t] : Unmanaging(t_msgq'[t][i])
<1> DEFINE e == [from |-> from, msg |-> m]
<1>1. Unmanaging(Received(to, from, m)) /\ Unmanaging(e)
  BY UnmanagingFacts DEF Received, Unmanaging
<1>2. t_msgq \in [Tcb -> Seq(Message)]
  BY DEF TypeOK
<1>3. CASE call' = [c EXCEPT ![to] = Received(to, from, m)] /\ t_msgq' = t_msgq
  BY <1>1, <1>3
<1>4. CASE call' = c /\ t_msgq' = [t_msgq EXCEPT ![to] = Append(@, e)]
  <2> HIDE DEF e
  <2>1. ASSUME NEW q \in Seq(Message), \A i \in DOMAIN q : Unmanaging(q[i]),
               NEW i \in DOMAIN Append(q, e)
        PROVE  Unmanaging(Append(q, e)[i])
    BY <1>1, <2>1
  <2> QED
    BY <1>2, <1>4, <2>1
<1>5. CASE call' = c /\ t_msgq' = t_msgq
  BY <1>5
<1> QED
  BY <1>3, <1>4, <1>5, SendCases

\* A message either wakes a sleeper or is one that it does not wait for.
LEMMA SendSleep ==
  ASSUME TypeOK, SleepHolds, NEW from \in Tcb, NEW to \in Tcb, NEW m \in Payload,
         NEW c \in [Tcb -> CallState], sys_send_msg(from, to, m, c),
         \A t \in Tcb : Sleeping(t) => c[t] = call[t],
         sched'.status = IF Accepts(to, from) THEN [sched.status EXCEPT ![to] = "READY"]
                         ELSE sched.status,
         t_wait4sender' = t_wait4sender
  PROVE  SleepHolds'
<1>1. /\ sched.status \in [Tcb -> Status] /\ t_msgq \in [Tcb -> Seq(Message)]
      /\ t_wait4sender \in [Tcb -> Tcb \union {NULL}]
  BY DEF TypeOK, SchedType
<1>2. CASE /\ Accepts(to, from)
           /\ call' = [c EXCEPT ![to] = Received(to, from, m)] /\ t_msgq' = t_msgq
  <2>1. ~Sleeping(to)' /\ \A t \in Tcb \ {to} : Sleeping(t)' <=> Sleeping(t)
    BY <1>1, <1>2 DEF Sleeping
  <2>2. \A t \in Tcb \ {to} : call'[t] = c[t]
    BY <1>2
  <2> QED
    BY <1>2, <2>1, <2>2, SleepKept
<1>3. CASE ~Accepts(to, from) /\ call' = c /\ t_msgq' = t_msgq
  BY <1>3, SleepKept DEF Sleeping
<1>4. CASE /\ ~Accepts(to, from)
           /\ call' = c
           /\ t_msgq' = [t_msgq EXCEPT ![to] = Append(@, [from |-> from, msg |-> m])]
  <2>1. \A t \in Tcb : Sleeping(t)' <=> Sleeping(t)
    BY <1>4 DEF Sleeping
  <2>2. ASSUME NEW t \in Tcb, Sleeping(t)
        PROVE  SleepsWell(t)'
    <3>1. SleepsWell(t) /\ call'[t] = call[t]
      BY <1>4, <2>2 DEF SleepHolds
    <3>2. CASE t # to
      BY <1>1, <1>4, <3>1, <3>2 DEF SleepsWell
    <3>3. CASE t = to
      <4> DEFINE e == [from |-> from, msg |-> m]
                 q == t_msgq[to]
                 w == t_wait4sender[to]
      <4>1. w \notin {from, NULL} /\ Matches(q, w) = {}
        BY <1>4, <2>2, <3>1, <3>3 DEF Accepts, Sleeping, SleepsWell
      <4>2. t_msgq'[to] = Append(q, e) /\ q \in Seq(Message) /\ e.from = from
        BY <1>1, <1>4
      <4> HIDE DEF e, q, w
      <4>3. Matches(Append(q, e), w) = {}
        BY <4>1, <4>2 DEF Matches
      <4> QED
        BY <3>1, <3>3, <4>2, <4>3 DEF SleepsWell, w
    <3> QED
      BY <3>2, <3>3
  <2> QED
    BY <2>1, <2>2 DEF SleepHolds
<1> QED
  BY <1>2, <1>3, <1>4, SendCases

(*-------------------------------- killing ------------------------------*)

\* A kill wakes the waiter it finds, and its victim sleeps no more unless it
\* is not freed.
LEMMA ExterminateSleep ==
  ASSUME TypeOK, SleepHolds, NEW t \in Tcb, NEW loop \in BOOLEAN,
         NEW c \in [Tcb -> CallState], exterminate(t, loop, c),
         \A x \in Tcb : Sleeping(x) => c[x] = call[x],
         \A x \in Tcb : Unmanaging(c[x]),
         UNCHANGED <<t_wait4sender, t_msgq>>
  PROVE  /\ SleepHolds'
         /\ \A x \in Tcb : Unmanaging(call'[x])
         /\ manager' = manager
<1> DEFINE w     == check_death(t)
           woken == IF w \in Tcb THEN wake_me_up(sched, w) ELSE sched
           count == IF loop /\ thread_in_queue(woken, "ready_queue", t)
                    THEN Down(woken.soft) ELSE woken.soft
           out   == [thread_outqueue(woken, t) EXCEPT !.soft = count]
           back  == IF w \in Tcb THEN [c EXCEPT ![w] = User] ELSE c
<1>1. /\ manager' = free_managing(manager, t)
      /\ sched' = IF can_free(t) THEN [out EXCEPT !.status[t] = "NONE"] ELSE out
      /\ call' = IF can_free(t) THEN [back EXCEPT ![t] = User] ELSE back
  BY Zenon DEF exterminate
<1> HIDE DEF w
<1>2. /\ woken \in SchedType
      /\ woken.status = IF w \in Tcb THEN [sched.status EXCEPT ![w] = "READY"]
                        ELSE sched.status
  <2>1. sched \in SchedType /\ "ready_queue" \in Heads
    BY DEF TypeOK, Heads
  <2>2. ASSUME w \in Tcb
        PROVE  /\ wake_me_up(sched, w) \in SchedType
               /\ wake_me_up(sched, w).status = [sched.status EXCEPT ![w] = "READY"]
    BY <2>1, <2>2, QueueType, StatusFacts
  <2> QED
    BY <2>1, <2>2
<1> HIDE DEF woken, count
<1>3. thread_outqueue(woken, t) \in SchedType /\ thread_outqueue(woken, t).status = woken.status
  BY <1>2, QueueType, StatusFacts DEF Heads
<1>4. out.status = woken.status
  BY <1>3 DEF SchedType
<1> HIDE DEF out
<1>5. sched'.status = IF can_free(t) THEN [woken.status EXCEPT ![t] = "NONE"] ELSE woken.status
  <2>1. [out EXCEPT !.status[t] = "NONE"].status = [out.status EXCEPT ![t] = "NONE"]
    <3>1. out \in [DOMAIN out -> {out[x] : x \in DOMAIN out}] /\ "status" \in DOMAIN out
      BY <1>3 DEF out, SchedType
    <3> QED
      BY <3>1
  <2> QED
    BY <1>1, <1>4, <2>1
<1>6. sched.status \in [Tcb -> Status]
  BY DEF TypeOK, SchedType
<1>7. ASSUME NEW x \in Tcb, Sleeping(x)'
      PROVE  Sleeping(x) /\ call'[x] = call[x]
  <2>1. x # w /\ woken.status[x] = "W4MSG" /\ (can_free(t) => x # t)
    BY <1>2, <1>5, <1>6, <1>7 DEF Sleeping
  <2>2. Sleeping(x)
    BY <1>2, <1>6, <2>1 DEF Sleeping
  <2>3. call'[x] = c[x]
    BY <1>1, <2>1
  <2> QED
    BY <2>2, <2>3
<1>8. SleepHolds'
  BY <1>7, SleepKept
<1>9. \A x \in Tcb : Unmanaging(call'[x])
  BY <1>1, UnmanagingFacts
<1> QED
  BY <1>1, <1>8, <1>9 DEF free_managing

\* A processor that has run away wakes nobody.
LEMMA CrashSleep ==
  ASSUME WakeInv, Crash
  PROVE  Unmanaged' /\ SleepHolds'
BY SleepKept DEF WakeInv, Unmanaged, Crash, mail, Sleeping

\* ssi_terminate_thread, or the crash in its place.
LEMMA TerminateSleep ==
  ASSUME WakeInv, NEW t \in Tcb, NEW who \in Killers, NEW after \in CallState,
         Unmanaging(after), who = "ssi" => ~Sleeping(SSI),
         terminate_thread(t, who, after)
  PROVE  Unmanaged' /\ SleepHolds'
<1>0. TypeOK /\ Unmanaged /\ SleepHolds /\ SSI \in Tcb
  BY NodeFacts DEF WakeInv
<1>1. CASE terminate_astray(t)
  BY <1>1, CrashSleep DEF terminate_astray
<1>2. CASE ssi_terminate_thread(t, who, after)
  <2> DEFINE c == IF who = "ssi" THEN [call EXCEPT ![SSI] = Reaping] ELSE call
  <2>1. /\ exterminate(t, FALSE, c)
        /\ UNCHANGED <<t_wait4sender, t_msgq>>
    BY <1>2, Zenon DEF ssi_terminate_thread
  <2>2. reap'["ssi"].after \in {after, reap["ssi"].after}
    <3>1. reap' = [reap EXCEPT ![who] =
             [procs |-> IF p_threads'[t_pcb[t]] = <<>> THEN <<t_pcb[t]>> ELSE <<>>,
              count |-> 1, after |-> after]]
      BY <1>2, Zenon DEF ssi_terminate_thread
    <3> QED
      BY <1>0, <3>1 DEF TypeOK
  <2>3. call \in [Tcb -> CallState] /\ \A x \in Tcb : Unmanaging(call[x])
    BY <1>0 DEF TypeOK, Unmanaged
  <2>4. /\ c \in [Tcb -> CallState]
        /\ \A x \in Tcb : Sleeping(x) => c[x] = call[x]
        /\ \A x \in Tcb : Unmanaging(c[x])
    BY <1>0, <2>3, CallFacts, UnmanagingFacts
  <2> HIDE DEF c
  <2>5. /\ SleepHolds'
        /\ \A x \in Tcb : Unmanaging(call'[x])
        /\ manager' = manager
    BY <1>0, <2>1, <2>4, ExterminateSleep
  <2> QED
    BY <1>0, <2>1, <2>2, <2>5 DEF Unmanaged
<1> QED
  BY <1>1, <1>2 DEF terminate_thread

\* The turns of an extermination.
LEMMA ReapSleep ==
  ASSUME WakeInv, NEW who \in Killers,
         ReapThread(who) \/ ReapChild(who) \/ ReapProc(who) \/ ReapDone(who)
  PROVE  Unmanaged' /\ SleepHolds'
<1>0. /\ TypeOK /\ Unmanaged /\ SleepHolds /\ SSI \in Tcb
      /\ call \in [Tcb -> CallState] /\ reap \in [Killers -> ReapType]
  BY NodeFacts DEF WakeInv, TypeOK, Killers
<1>1. CASE ReapThread(who)
  <2> DEFINE t == Head(p_threads[Victim(who)])
  <2>1. reap[who].procs \in Seq(Pcb) /\ reap[who].procs # <<>> /\ p_threads[Victim(who)] # <<>>
    BY <1>0, <1>1 DEF ReapThread, ReapType
  <2>2. t \in Tcb
    BY <1>0, <2>1, SeqFacts DEF Victim, TypeOK
  <2>3. CASE Crash
    BY <2>3, CrashSleep
  <2>4. CASE exterminate(t, TRUE, call) /\ UNCHANGED <<t_wait4sender, t_msgq, reap>>
    <3> HIDE DEF t
    <3>1. /\ SleepHolds'
          /\ \A x \in Tcb : Unmanaging(call'[x])
          /\ manager' = manager
      BY <1>0, <2>2, <2>4, ExterminateSleep DEF Unmanaged
    <3> QED
      BY <1>0, <2>4, <3>1 DEF Unmanaged
  <2> QED
    BY <1>1, <2>3, <2>4, Zenon DEF ReapThread
<1>2. CASE ReapChild(who)
  <2>1. reap'["ssi"].after = reap["ssi"].after
    BY <1>0, <1>2 DEF ReapChild, ReapType, Killers
  <2> QED
    BY <1>0, <1>2, <2>1, SleepKept DEF ReapChild, Unmanaged, mail, Sleeping
<1>3. CASE ReapProc(who)
  <2>1. /\ reap'["ssi"].after = reap["ssi"].after
        /\ manager' = [manager EXCEPT ![Victim(who)] = [k \in Kinds |-> NULL]]
        /\ UNCHANGED <<sched, call, mail>>
    BY <1>0, <1>3 DEF ReapProc, proc_delete, ReapType, Killers
  <2>2. \A p \in Pcb, k \in Kinds : manager'[p][k] = NULL
    BY <1>0, <2>1 DEF Unmanaged, TypeOK
  <2> QED
    BY <1>0, <2>1, <2>2, SleepKept DEF Unmanaged, mail, Sleeping
<1>4. CASE ReapDone(who)
  <2>1. /\ reap' = [reap EXCEPT ![who] = NoReap]
        /\ who = "ssi" => call' = [call EXCEPT ![SSI] = reap[who].after] /\ call[SSI] = Reaping
        /\ who = "nucleus" => call' = call
        /\ UNCHANGED <<sched, mail, manager>>
    BY <1>4 DEF ReapDone, Reaps
  <2>2. who = "ssi" => ~Sleeping(SSI)
    BY <1>0, <2>1 DEF SleepHolds, SleepsWell, Reaping
  <2>3. \A x \in Tcb : Unmanaging(call'[x])
    BY <1>0, <2>1 DEF Unmanaged, Killers
  <2>4. Unmanaging(reap'["ssi"].after)
    BY <1>0, <2>1, UnmanagingFacts DEF Unmanaged, Killers, NoReap
  <2>5. SleepHolds'
    BY <1>0, <2>1, <2>2, SleepKept DEF mail, Sleeping, Killers
  <2> QED
    BY <1>0, <2>1, <2>3, <2>4, <2>5 DEF Unmanaged, mail
<1> QED
  BY <1>1, <1>2, <1>3, <1>4

(*-------------------------------- services -----------------------------*)

\* The SSI that computes a service is awake, and serves no manager request.
LEMMA ServingAwake ==
  ASSUME WakeInv, NEW tags, Serving(tags)
  PROVE  /\ ~Sleeping(SSI) /\ SSI \in Tcb /\ Sender \in Tcb
         /\ call[SSI].msg.tag \in tags \ Managing
<1>1. SSI \in Tcb /\ call[SSI].op = "serve" /\ call[SSI].msg.tag \in tags
  BY NodeFacts DEF Serving
<1>2. ~Sleeping(SSI) /\ call[SSI].msg.tag \notin Managing
  BY <1>1 DEF WakeInv, SleepHolds, SleepsWell, Unmanaged, Unmanaging
<1>3. Sender \in Tcb
  BY ServingFacts DEF WakeInv
<1> QED
  BY <1>1, <1>2, <1>3

\* A service that puts nobody to sleep and takes no message.
LEMMA ServiceSleep ==
  ASSUME WakeInv, NEW tags, Serving(tags),
         NEW c, Unmanaging(c), call' = [call EXCEPT ![SSI] = c],
         \A t \in Tcb : /\ Sleeping(t)' => Sleeping(t) /\ t_msgq'[t] = t_msgq[t]
                        /\ t_msgq'[t] \in {t_msgq[t], <<>>},
         UNCHANGED <<t_wait4sender, manager>>, reap'["ssi"].after = reap["ssi"].after
                                               \/ Unmanaging(reap'["ssi"].after)
  PROVE  Unmanaged' /\ SleepHolds'
<1>1. /\ ~Sleeping(SSI) /\ SSI \in Tcb /\ call \in [Tcb -> CallState]
      /\ Unmanaged /\ SleepHolds
  BY ServingAwake DEF WakeInv, TypeOK
<1>2. \A t \in Tcb : Sleeping(t)' => call'[t] = call[t]
  BY <1>1
<1>3. SleepHolds'
  BY <1>1, <1>2, SleepKept
<1>4. \A t \in Tcb : Unmanaging(call'[t])
  BY <1>1 DEF Unmanaged
<1>5. \A t \in Tcb : \A i \in DOMAIN t_msgq'[t] : Unmanaging(t_msgq'[t][i])
  BY <1>1 DEF Unmanaged
<1>6. Unmanaging(reap'["ssi"].after)
  BY <1>1 DEF Unmanaged
<1> QED
  BY <1>1, <1>3, <1>4, <1>5, <1>6 DEF Unmanaged

\* What the SSI goes on with.
LEMMA ReplyUnmanaging ==
  ASSUME WakeInv, SSI \in Tcb, NEW tag \in {"reply", "busy"}, Reply(tag) \/ NoReply
  PROVE  \E c : Unmanaging(c) /\ call' = [call EXCEPT ![SSI] = c]
BY UnmanagingFacts DEF Reply, NoReply

\* The thread that thread_alloc hands out is ready, with an empty queue.
LEMMA StartSleep ==
  ASSUME TypeOK, NEW p \in Pcb, free_thread # <<>>, start_thread(p, Head(free_thread))
  PROVE  \A t \in Tcb : /\ Sleeping(t)' => Sleeping(t) /\ t_msgq'[t] = t_msgq[t]
                        /\ t_msgq'[t] \in {t_msgq[t], <<>>}
<1> DEFINE new == Head(free_thread)
<1>1. new \in Tcb
  BY SeqFacts DEF TypeOK
<1> HIDE DEF new
<1>2. /\ INIT_LIST_HEAD(sched, new) \in SchedType
      /\ INIT_LIST_HEAD(sched, new).status = sched.status
  BY <1>1, NodeFacts, LinkType DEF TypeOK, INIT_LIST_HEAD, SchedType
<1> DEFINE ready == [INIT_LIST_HEAD(sched, new) EXCEPT !.status[new] = "READY"]
<1>3. ready \in SchedType /\ ready.status = [sched.status EXCEPT ![new] = "READY"]
  BY <1>1, <1>2 DEF SchedType, Status
<1> HIDE DEF ready
<1>4. sched' = thread_enqueue(ready, new, "ready_queue")
      /\ t_msgq' = [t_msgq EXCEPT ![new] = <<>>]
  BY DEF start_thread, new, ready
<1>5. sched'.status = [sched.status EXCEPT ![new] = "READY"]
  BY <1>1, <1>3, <1>4, StatusFacts DEF Heads
<1>6. t_msgq \in [Tcb -> Seq(Message)] /\ sched.status \in [Tcb -> Status]
  BY DEF TypeOK, SchedType
<1> QED
  BY <1>1, <1>4, <1>5, <1>6 DEF Sleeping

\* The services that create, ask, park or do nothing.
LEMMA ServicesSleep ==
  ASSUME WakeInv,
         GetErrno \/ Query \/ CreateProcess \/ CreateThread
         \/ WaitForClock \/ DoIo \/ DoIoBusy
  PROVE  Unmanaged' /\ SleepHolds'
<1> DEFINE Calm == \A t \in Tcb : /\ Sleeping(t)' => Sleeping(t) /\ t_msgq'[t] = t_msgq[t]
                                  /\ t_msgq'[t] \in {t_msgq[t], <<>>}
<1>1. PICK tags : Serving(tags)
  BY DEF GetErrno, Query, CreateProcess, CreateThread, WaitForClock, DoIo, DoIoBusy
<1>2. SSI \in Tcb /\ Sender \in Tcb /\ TypeOK
  BY <1>1, ServingAwake DEF WakeInv
<1>3. PICK c : Unmanaging(c) /\ call' = [call EXCEPT ![SSI] = c]
  BY <1>2, ReplyUnmanaging
  DEF GetErrno, Query, CreateProcess, CreateThread, WaitForClock, DoIo, DoIoBusy
<1>4. UNCHANGED <<t_wait4sender, manager, reap>>
  BY DEF GetErrno, Query, CreateProcess, CreateThread, WaitForClock, DoIo, DoIoBusy, mail
<1>5. CASE GetErrno \/ Query \/ DoIoBusy
  <2>1. Calm
    BY <1>5 DEF GetErrno, Query, DoIoBusy, mail, Sleeping
  <2> QED
    BY <1>1, <1>3, <1>4, <2>1, ServiceSleep
<1>6. CASE CreateProcess \/ CreateThread
  <2>1. \/ UNCHANGED <<sched, t_msgq>>
        \/ /\ free_thread # <<>>
           /\ \E p \in Pcb : start_thread(p, Head(free_thread))
    <3>1. ASSUME CreateThread
          PROVE  \/ UNCHANGED <<sched, t_msgq>>
                 \/ /\ free_thread # <<>>
                    /\ \E p \in Pcb : start_thread(p, Head(free_thread))
      BY <1>2, <3>1 DEF CreateThread, TypeOK, mail
    <3>2. ASSUME CreateProcess
          PROVE  \/ UNCHANGED <<sched, t_msgq>>
                 \/ /\ free_thread # <<>>
                    /\ \E p \in Pcb : start_thread(p, Head(free_thread))
      <4>1. free_proc # <<>> => Head(free_proc) \in Pcb
        BY <1>2, SeqFacts DEF TypeOK
      <4> QED
        BY <3>2, <4>1 DEF CreateProcess, mail
    <3> QED
      BY <1>6, <3>1, <3>2
  <2>2. Calm
    BY <1>2, <2>1, StartSleep DEF Sleeping
  <2> QED
    BY <1>1, <1>3, <1>4, <2>2, ServiceSleep
<1>7. CASE WaitForClock \/ DoIo
  <2>1. sched \in SchedType /\ parked(sched) \in SchedType
    BY <1>2, ParkedType DEF TypeOK
  <2>2. parked(sched).status = sched.status
    <3>1. thread_outqueue(sched, Sender) \in SchedType
          /\ thread_outqueue(sched, Sender).status = sched.status
      BY <1>2, <2>1, QueueType, StatusFacts DEF Heads
    <3> QED
      BY <3>1 DEF parked, SchedType
  <2>3. sched'.status = sched.status
    <3>1. thread_enqueue(parked(sched), Sender, "wait_pseudo_clock_queue").status
            = parked(sched).status
      BY <1>2, <2>1, StatusFacts DEF Heads
    <3> QED
      BY <1>7, <2>2, <3>1 DEF WaitForClock, DoIo
  <2>4. Calm
    BY <1>7, <2>3 DEF WaitForClock, DoIo, mail, Sleeping
  <2> QED
    BY <1>1, <1>3, <1>4, <2>4, ServiceSleep
<1> QED
  BY <1>5, <1>6, <1>7

\* The services that kill; nobody asks for a manager.
LEMMA KillingSleep ==
  ASSUME WakeInv, TerminateProcess \/ TerminateThread \/ BadRequest \/ SetManager
  PROVE  Unmanaged' /\ SleepHolds'
<1>1. CASE TerminateProcess
  <2>1. CASE Crash
    BY <2>1, CrashSleep
  <2>2. CASE /\ reap' = [reap EXCEPT !["ssi"] =
                           [procs |-> <<t_pcb[Sender]>>, count |-> 0, after |-> Recv(NULL)]]
             /\ call' = [call EXCEPT ![SSI] = Reaping]
             /\ UNCHANGED <<sched, current_thread, cpu, mail, families, manager, device_list>>
    <3>1. reap'["ssi"].after = Recv(NULL)
      BY <2>2 DEF WakeInv, TypeOK
    <3>2. Unmanaging(reap'["ssi"].after) /\ Unmanaging(Reaping)
      BY <3>1, UnmanagingFacts
    <3>3. Serving({"TERMINATE_PROCESS"})
      BY <1>1 DEF TerminateProcess
    <3>4. \A t \in Tcb : /\ Sleeping(t)' => Sleeping(t) /\ t_msgq'[t] = t_msgq[t]
                         /\ t_msgq'[t] \in {t_msgq[t], <<>>}
      BY <2>2 DEF mail, Sleeping
    <3> QED
      BY <2>2, <3>2, <3>3, <3>4, ServiceSleep DEF mail
  <2> QED
    BY <1>1, <2>1, <2>2, Zenon DEF TerminateProcess
<1>2. CASE TerminateThread \/ BadRequest
  <2>1. PICK tags : Serving(tags)
    BY <1>2 DEF TerminateThread, BadRequest
  <2>2. /\ ~Sleeping(SSI) /\ Sender \in Tcb
        /\ Recv(NULL) \in CallState /\ Send(Sender, Plain("reply")) \in CallState
    BY <2>1, ServingAwake, CallFacts, PayloadFacts, TagFacts
  <2>3. Unmanaging(Recv(NULL)) /\ Unmanaging(Send(Sender, Plain("reply")))
    BY UnmanagingFacts
  <2>4. PICK after \in CallState : Unmanaging(after) /\ terminate_thread(Sender, "ssi", after)
    BY <1>2, <2>2, <2>3 DEF TerminateThread, BadRequest
  <2> QED
    BY <2>2, <2>4, TerminateSleep DEF Killers
<1>3. CASE SetManager
  BY <1>3, ServingAwake DEF SetManager
<1> QED
  BY <1>1, <1>2, <1>3

(*------------------------------ system calls ---------------------------*)

\* SYS_SEND by a thread that is awake.
LEMMA SysSendSleep ==
  ASSUME WakeInv, current_thread \in Tcb, ~Sleeping(current_thread),
         NEW to \in Tcb, NEW m \in Payload, NEW next \in CallState,
         m.tag \notin Managing, Unmanaging(next), sys_send(to, m, next)
  PROVE  Unmanaged' /\ SleepHolds'
<1> DEFINE self == current_thread
           c    == [call EXCEPT ![self] = next]
<1>0. /\ TypeOK /\ Unmanaged /\ SleepHolds
      /\ call \in [Tcb -> CallState] /\ sched \in SchedType
  BY DEF WakeInv, TypeOK
<1>1. UNCHANGED <<manager, reap>>
  BY DEF sys_send
<1>2. CASE check_thread_alive(to, "ERR_SEND_TO_DEAD", Send(to, m))
  <2>1. /\ call' = [call EXCEPT ![self] = Send(to, m)]
        /\ UNCHANGED <<sched, t_wait4sender, t_msgq>>
    BY <1>2 DEF check_thread_alive
  <2>2. SleepHolds'
    BY <1>0, <2>1, SleepKept DEF Sleeping
  <2>3. \A t \in Tcb : Unmanaging(call'[t])
    BY <1>0, <2>1, UnmanagingFacts DEF Unmanaged
  <2> QED
    BY <1>0, <1>1, <2>1, <2>2, <2>3 DEF Unmanaged
<1>3. ~(self \in {manager_of(to, k) : k \in Kinds})
  BY <1>0, NoManagerOf, NodeFacts
<1>4. CASE /\ sched' = sent(sched, self, to)
           /\ sys_send_msg(self, to, m, c)
           /\ UNCHANGED <<current_thread, cpu, t_wait4sender>>
  <2>1. /\ c \in [Tcb -> CallState]
        /\ \A t \in Tcb : Unmanaging(c[t])
        /\ \A t \in Tcb : Sleeping(t) => c[t] = call[t]
    BY <1>0 DEF Unmanaged
  <2> HIDE DEF c
  <2>2. sched'.status = IF Accepts(to, self) THEN [sched.status EXCEPT ![to] = "READY"]
                        ELSE sched.status
    BY <1>0, <1>4, StatusFacts DEF sent, Heads
  <2>3. SleepHolds'
    BY <1>0, <1>4, <2>1, <2>2, SendSleep
  <2>4. /\ \A t \in Tcb : Unmanaging(call'[t])
        /\ \A t \in Tcb : \A i \in DOMAIN t_msgq'[t] : Unmanaging(t_msgq'[t][i])
    BY <1>0, <1>4, <2>1, SendUnmanaging DEF Unmanaged
  <2> QED
    BY <1>0, <1>1, <2>3, <2>4 DEF Unmanaged
<1> QED
  BY <1>2, <1>3, <1>4, Zenon DEF sys_send

\* SYS_RECV by a thread that comes to it, or that makes the call again.
LEMMA SysRecvSleep ==
  ASSUME WakeInv, current_thread \in Tcb, NEW s \in Tcb \union {NULL},
         \/ ~Sleeping(current_thread)
         \/ call[current_thread].op = "recv" /\ call[current_thread].peer = s,
         sys_recv(s)
  PROVE  Unmanaged' /\ SleepHolds'
<1> DEFINE self == current_thread
           q    == t_msgq[self]
           i    == FirstMatch(q, s)
<1>0. /\ TypeOK /\ Unmanaged /\ SleepHolds
      /\ call \in [Tcb -> CallState] /\ sched \in SchedType
      /\ t_msgq \in [Tcb -> Seq(Message)] /\ t_wait4sender \in [Tcb -> Tcb \union {NULL}]
  BY DEF WakeInv, TypeOK
<1>1. UNCHANGED <<manager, reap>>
  BY DEF sys_recv
<1>2. CASE check_thread_alive(s, "ERR_RECV_FROM_DEAD", Recv(s))
  <2>1. /\ call' = [call EXCEPT ![self] = Recv(s)]
        /\ UNCHANGED <<sched, t_wait4sender, t_msgq>>
    BY <1>2 DEF check_thread_alive
  <2>2. Sleeping(self) => call[self] = Recv(s)
    <3>1. \A c \in CallState : c.op = "recv" => c = Recv(c.peer)
      BY DEF CallState, Recv, NoPayload
    <3> QED
      BY <1>0, <3>1
  <2>3. SleepHolds'
    BY <1>0, <2>1, <2>2, SleepKept DEF Sleeping
  <2>4. \A t \in Tcb : Unmanaging(call'[t])
    BY <1>0, <2>1, UnmanagingFacts DEF Unmanaged
  <2> QED
    BY <1>0, <1>1, <2>1, <2>3, <2>4 DEF Unmanaged
<1>3. CASE /\ Matches(q, s) # {}
           /\ msgq_get(s, self)
           /\ call' = [call EXCEPT ![self] = Received(self, q[i].from, q[i].msg)]
           /\ UNCHANGED <<sched, current_thread, cpu, t_wait4sender, err_numb>>
  <2>1. q \in Seq(Message) /\ i \in 1..Len(q) /\ Len(q) \in Nat
    BY <1>0, <1>3, MatchType
  <2>2. /\ RemoveAt(q, i) \in Seq(Message)
        /\ \A j \in DOMAIN RemoveAt(q, i) : \E k \in DOMAIN q : RemoveAt(q, i)[j] = q[k]
    <3>1. /\ RemoveAt(q, i) \in Seq(Message) /\ Len(RemoveAt(q, i)) = Len(q) - 1
          /\ \A j \in 1..(Len(q) - 1) :
               RemoveAt(q, i)[j] = IF j < i THEN q[j] ELSE q[j + 1]
      BY <2>1, RemoveAtElements
    <3> HIDE DEF i, q
    <3>2. DOMAIN RemoveAt(q, i) = 1..(Len(q) - 1) /\ DOMAIN q = 1..Len(q)
      BY <2>1, <3>1
    <3>3. \A j \in 1..(Len(q) - 1) : j \in 1..Len(q) /\ j + 1 \in 1..Len(q)
      BY <2>1
    <3> QED
      BY <3>1, <3>2, <3>3
  <2>3. t_msgq' = [t_msgq EXCEPT ![self] = RemoveAt(q, i)]
    BY <1>0, <1>3 DEF msgq_get
  <2>4. \A k \in DOMAIN q : Unmanaging(q[k])
    BY <1>0 DEF Unmanaged
  <2>5. Unmanaging(Received(self, q[i].from, q[i].msg))
    BY <2>1, <2>4, UnmanagingFacts DEF Received, Unmanaging
  <2>6. ~Sleeping(self)
    BY <1>0, <1>3 DEF SleepHolds, SleepsWell
  <2> HIDE DEF i, q
  <2>7. /\ \A t \in Tcb : Unmanaging(call'[t])
        /\ \A t \in Tcb : \A k \in DOMAIN t_msgq'[t] : Unmanaging(t_msgq'[t][k])
    BY <1>0, <1>3, <2>2, <2>3, <2>4, <2>5 DEF Unmanaged
  <2>8. SleepHolds'
    BY <1>0, <1>3, <2>3, <2>6, SleepKept DEF Sleeping
  <2> QED
    BY <1>0, <1>1, <2>7, <2>8 DEF Unmanaged
<1>4. CASE /\ Matches(q, s) = {}
           /\ t_wait4sender' = [t_wait4sender EXCEPT ![self] = s]
           /\ call' = [call EXCEPT ![self] = Recv(s)]
           /\ sched' = put_thread_sleep(sched, self)
           /\ Reschedule
           /\ UNCHANGED <<t_msgq, free_msg, err_numb>>
  <2>1. sched'.status = [sched.status EXCEPT ![self] = "W4MSG"]
    BY <1>0, <1>4, StatusFacts DEF Heads
  <2>2. ASSUME NEW t \in Tcb, t = self PROVE SleepsWell(t)'
    <3>1. /\ call'[t].op = "recv" /\ call'[t].peer = s
          /\ t_wait4sender'[t] = s /\ t_msgq'[t] = q
      BY <1>0, <1>4, <2>2 DEF Recv
    <3> HIDE DEF q
    <3> QED
      BY <1>4, <3>1 DEF SleepsWell
  <2>3. ASSUME NEW t \in Tcb, t # self, Sleeping(t)' PROVE SleepsWell(t)'
    <3>1. Sleeping(t) /\ SleepsWell(t)
      BY <1>0, <2>1, <2>3 DEF Sleeping, SleepHolds, SchedType
    <3>2. /\ call'[t] = call[t] /\ t_wait4sender'[t] = t_wait4sender[t]
          /\ t_msgq'[t] = t_msgq[t]
      BY <1>0, <1>4, <2>3
    <3> QED
      BY <3>1, <3>2 DEF SleepsWell
  <2>4. SleepHolds'
    BY <2>2, <2>3 DEF SleepHolds
  <2>5. \A t \in Tcb : Unmanaging(call'[t])
    BY <1>0, <1>4, UnmanagingFacts DEF Unmanaged
  <2> QED
    BY <1>0, <1>1, <1>4, <2>4, <2>5 DEF Unmanaged
<1> QED
  BY <1>2, <1>3, <1>4, Zenon DEF sys_recv

\* All system calls and traps, when nobody asks for a manager.
LEMMA ExceptionsSleep ==
  ASSUME Services \intersect Managing = {}, WakeInv, ExceptionsNext
  PROVE  Unmanaged' /\ SleepHolds'
<1>0. /\ TypeOK /\ Unmanaged /\ SleepHolds /\ call \in [Tcb -> CallState]
      /\ SSI \in Tcb /\ User \in CallState /\ Recv(SSI) \in CallState
      /\ Recv(NULL) \in CallState
      /\ Unmanaging(User) /\ Unmanaging(Recv(SSI)) /\ Unmanaging(Recv(NULL))
  BY NodeFacts, CallFacts, UnmanagingFacts DEF WakeInv, TypeOK
<1>1. ASSUME NEW op, Running(op)
      PROVE  /\ current_thread \in Tcb /\ call[current_thread].op = op
             /\ op # "recv" => ~Sleeping(current_thread)
  BY <1>0, <1>1, RunningFacts DEF SleepHolds, SleepsWell
<1>2. CASE Request
  <2>1. Running("user")
    BY <1>2 DEF Request
  <2>2. PICK m \in Requests : sys_send(SSI, m, Recv(SSI))
    BY <1>2 DEF Request
  <2>3. m \in Payload /\ m.tag \notin Managing
    <3>1. m \in Payload
      BY <2>2, InputAssumption, TagFacts
      DEF Requests, Payload, PlainTags, AllServices
    <3>2. m.tag \in Services
      BY <2>2 DEF Requests
    <3> QED
      BY <3>1, <3>2
  <2> QED
    BY <1>0, <1>1, <2>1, <2>2, <2>3, SysSendSleep
<1>3. CASE SysSend
  <2>1. Running("user")
    BY <1>3 DEF SysSend
  <2>2. PICK t \in Known \ {current_thread} : sys_send(t, Plain("mail"), User)
    BY <1>3 DEF SysSend
  <2>3. t \in Tcb /\ Plain("mail") \in Payload /\ Plain("mail").tag \notin Managing
    BY <2>2, PayloadFacts, TagFacts, UnmanagingFacts DEF Known
  <2> QED
    BY <1>0, <1>1, <2>1, <2>2, <2>3, SysSendSleep
<1>4. CASE SysSendPending
  <2> DEFINE c == call[current_thread]
  <2>1. Running("send")
    BY <1>4 DEF SysSendPending
  <2>2. current_thread \in Tcb /\ c.peer \in Tcb /\ c.msg \in Payload /\ Unmanaging(c)
    BY <1>0, <1>1, <2>1, CallFacts DEF Unmanaged
  <2>3. PICK next \in CallState : Unmanaging(next) /\ sys_send(c.peer, c.msg, next)
    BY <1>0, <1>4 DEF SysSendPending
  <2> QED
    BY <1>0, <1>1, <2>1, <2>2, <2>3, SysSendSleep DEF Unmanaging
<1>5. CASE SysRecv
  <2>1. Running("user")
    BY <1>5 DEF SysRecv
  <2>2. PICK s \in Known \union {NULL} : sys_recv(s)
    BY <1>5 DEF SysRecv
  <2>3. s \in Tcb \union {NULL}
    BY <2>2 DEF Known
  <2> QED
    BY <1>1, <2>1, <2>2, <2>3, SysRecvSleep
<1>6. CASE SysRecvPending
  <2>1. /\ current_thread \in Tcb /\ call[current_thread].op = "recv"
        /\ call[current_thread].peer \in Tcb \union {NULL}
    BY <1>0, <1>1, <1>6, CallFacts DEF SysRecvPending
  <2> QED
    BY <1>6, <2>1, SysRecvSleep DEF SysRecvPending
<1>7. ASSUME NEW kind \in Kinds, Running("user"), pass_up(kind)
      PROVE  Unmanaged' /\ SleepHolds'
  <2>1. current_thread \in Tcb /\ manager_of(current_thread, kind) = NULL
    BY <1>0, <1>1, <1>7, NoManagerOf
  <2>2. terminate_thread(current_thread, "nucleus", User)
    BY <1>7, <2>1, Zenon DEF pass_up
  <2> QED
    BY <1>0, <2>1, <2>2, TerminateSleep DEF Killers
<1>8. CASE SysPassup \/ TlbTrap \/ PgmTrap
  BY <1>7, <1>8 DEF SysPassup, TlbTrap, PgmTrap, Kinds
<1>9. CASE SysZero \/ Breakpoint
  <2>1. UNCHANGED <<sched, call, mail, manager, reap>>
    BY <1>9 DEF SysZero, Breakpoint
  <2> QED
    BY <1>0, <2>1, SleepKept DEF Unmanaged, mail, Sleeping
<1> QED
  BY <1>2, <1>3, <1>4, <1>5, <1>6, <1>8, <1>9 DEF ExceptionsNext

(*-------------------------- interrupts, scheduler ----------------------*)

\* A parked thread comes back and is sent its answer by the nucleus.
LEMMA AnswerSleep ==
  ASSUME WakeInv, NEW s \in SchedType, s.status = sched.status, NEW t \in Tcb,
         NEW tag \in {"status", "tick"},
         sched' = sent(resumed(s, t), SSI, t),
         sys_send_msg(SSI, t, Plain(tag), call),
         UNCHANGED <<t_wait4sender, manager, reap>>
  PROVE  Unmanaged' /\ SleepHolds'
<1>1. /\ TypeOK /\ Unmanaged /\ SleepHolds /\ SSI \in Tcb /\ call \in [Tcb -> CallState]
      /\ Plain(tag) \in Payload /\ Plain(tag).tag \notin Managing
  BY NodeFacts, PayloadFacts, TagFacts, UnmanagingFacts DEF WakeInv, TypeOK
<1>2. resumed(s, t) \in SchedType /\ resumed(s, t).status = sched.status
  BY QueueType, StatusFacts DEF Heads
<1>3. sched'.status = IF Accepts(t, SSI) THEN [sched.status EXCEPT ![t] = "READY"]
                      ELSE sched.status
  <2>1. wake_me_up(resumed(s, t), t).status = [resumed(s, t).status EXCEPT ![t] = "READY"]
    BY <1>2, StatusFacts DEF Heads
  <2> QED
    BY <1>2, <2>1 DEF sent
<1>4. SleepHolds'
  BY <1>1, <1>3, SendSleep
<1>5. /\ \A x \in Tcb : Unmanaging(call'[x])
      /\ \A x \in Tcb : \A i \in DOMAIN t_msgq'[x] : Unmanaging(t_msgq'[x][i])
  BY <1>1, SendUnmanaging DEF Unmanaged
<1> QED
  BY <1>1, <1>4, <1>5 DEF Unmanaged

\* The timer, the devices and the scheduler.
LEMMA NucleusSleep ==
  ASSUME WakeInv, InterruptsNext \/ SchedulerNext
  PROVE  Unmanaged' /\ SleepHolds'
<1>0. TypeOK /\ Unmanaged /\ SleepHolds /\ sched \in SchedType
  BY DEF WakeInv, TypeOK
<1>1. ASSUME sched'.status = sched.status, UNCHANGED <<call, mail, manager, reap>>
      PROVE  Unmanaged' /\ SleepHolds'
  BY <1>0, <1>1, SleepKept DEF Unmanaged, mail, Sleeping
<1>2. CASE SliceOver
  <2>1. current_thread \in Tcb
    BY <1>0, <1>2 DEF SliceOver, TypeOK
  <2>2. thread_enqueue(sched, current_thread, "ready_queue").status = sched.status
    BY <1>0, <2>1, StatusFacts DEF Heads
  <2> QED
    BY <1>1, <1>2, <2>2 DEF SliceOver
<1>3. CASE Tick \/ Halt \/ Panic \/ Wait \/ FallThrough \/ Resume
  BY <1>1, <1>3 DEF Tick, Halt, Panic, Wait, FallThrough, Stop, Resume
<1>4. ASSUME NEW d \in Devices, DeviceInterrupt(d)
      PROVE  Unmanaged' /\ SleepHolds'
  <2> DEFINE t == device_list[d]
  <2>1. /\ t \in Tcb
        /\ sched' = sent(resumed(sched, t), SSI, t)
        /\ sys_send_msg(SSI, t, Plain("status"), call)
        /\ UNCHANGED <<t_wait4sender, manager, reap>>
    BY <1>0, <1>4 DEF DeviceInterrupt, TypeOK
  <2> QED
    BY <1>0, <2>1, AnswerSleep
<1>5. CASE ClockExpire
  <2> DEFINE t == thread_qhead(sched, clock)
             s == thread_dequeue(sched, clock)
  <2>1. clock \in Heads
    BY DEF clock, Heads
  <2>2. s \in SchedType /\ s.status = sched.status
    BY <1>0, <2>1, NodeFacts, QueueType, StatusFacts
  <2>3. CASE /\ t \in Tcb
             /\ sched' = sent(resumed(s, t), SSI, t)
             /\ sys_send_msg(SSI, t, Plain("tick"), call)
             /\ UNCHANGED <<current_thread, cpu, t_wait4sender, families, manager,
                            device_list, reap>>
    <3> HIDE DEF s, t
    <3> QED
      BY <2>2, <2>3, AnswerSleep
  <2> QED
    BY <1>5, <2>3, CrashSleep, Zenon DEF ClockExpire
<1>6. CASE Dispatch
  <2>1. thread_dequeue(sched, "ready_queue").status = sched.status
    BY <1>0, NodeFacts, StatusFacts DEF Heads
  <2>2. CASE Crash
    BY <2>2, CrashSleep
  <2>3. CASE /\ sched' = thread_dequeue(sched, "ready_queue")
             /\ UNCHANGED <<call, mail, families, manager, device_list, reap>>
    BY <1>1, <2>1, <2>3
  <2> QED
    BY <1>6, <2>2, <2>3, Zenon DEF Dispatch
<1> QED
  BY <1>2, <1>3, <1>4, <1>5, <1>6 DEF InterruptsNext, SchedulerNext

(*-------------------------------- theorem ------------------------------*)

\* At boot nobody sleeps.
LEMMA InitSleep == Init => Unmanaged /\ SleepHolds
<1> SUFFICES ASSUME Init PROVE Unmanaged /\ SleepHolds
  OBVIOUS
<1>1. Unmanaged
  BY UnmanagingFacts DEF Init, Unmanaged, NoReap
<1>2. Alone \in SchedType
  BY BoundAssumption DEF Alone, SchedType, Status
<1>3. /\ thread_enqueue(Alone, SSI, "ready_queue") \in SchedType
      /\ thread_enqueue(Alone, SSI, "ready_queue").status = Alone.status
  BY <1>2, NodeFacts, QueueType, StatusFacts DEF Heads
<1>4. sched.status = Alone.status
  BY <1>3, NodeFacts, StatusFacts DEF Init, Heads
<1>5. \A t \in Tcb : Alone.status[t] # "W4MSG"
  BY DEF Alone
<1> QED
  BY <1>1, <1>4, <1>5 DEF SleepHolds, Sleeping

\* Every step of the nucleus keeps the sleepers and the mail apart.
LEMMA WakeStep ==
  ASSUME Services \intersect Managing = {}, WakeInv, [Next]_vars
  PROVE  WakeInv'
<1>1. TypeOK'
  <2>1. TypeOK
    BY DEF WakeInv
  <2> QED
    BY <2>1, TypeStep
<1>2. CASE SsiNext
  BY <1>1, <1>2, ServicesSleep, KillingSleep, ReapSleep DEF SsiNext, Killers, WakeInv
<1>3. CASE ExceptionsNext
  BY <1>1, <1>3, ExceptionsSleep DEF WakeInv
<1>4. CASE InterruptsNext \/ SchedulerNext
  BY <1>1, <1>4, NucleusSleep DEF WakeInv
<1>5. CASE UNCHANGED vars
  <2>1. UNCHANGED <<sched, call, mail, manager, reap>>
    BY <1>5 DEF vars
  <2> QED
    BY <1>1, <2>1, SleepKept DEF WakeInv, Unmanaged, mail, Sleeping
<1> QED
  BY <1>2, <1>3, <1>4, <1>5 DEF Next

\* The inductive invariant is one.
LEMMA WakeInductive ==
  ASSUME Services \intersect Managing = {}
  PROVE  Spec => []WakeInv
<1>1. Init => WakeInv
  BY InitType, InitSleep DEF WakeInv
<1>2. WakeInv /\ [Next]_vars => WakeInv'
  BY WakeStep
<1> QED
  BY <1>1, <1>2, PTL DEF Spec

\* The lost wake-up invariant, for any number of threads, messages and
\* devices, with whatever kills, traps, preemptions and interrupts.
THEOREM WakeupSound ==
  ASSUME Services \intersect Managing = {}
  PROVE  Spec => []NoLostWakeup
<1>1. WakeInv => NoLostWakeup
  BY DEF WakeInv, SleepHolds, SleepsWell, NoLostWakeup, InReceive
<1> QED
  BY <1>1, WakeInductive, PTL

(*----------------------------- the mailboxes ---------------------------*)

Killing == {"TERMINATE_PROCESS", "TERMINATE_THREAD", "BAD"}
Peaceful == /\ Services \intersect (Managing \union Killing) = {}
            /\ Calls \intersect {"passup", "tlb", "pgm"} = {}
            /\ "nobody" \notin Tcb \union {NULL}

(*--------------------------- the inductive invariant -------------------*)

\* A thread that thread_alloc has handed out.
Born(t) == sched.status[t] # "NONE"

\* Calls and messages that kill nobody and come from threads that are born.
GoodCall(c) == c.msg.tag \notin Killing /\ (c.op = "serve" => Born(c.peer))
GoodMail(e) == e.msg.tag \notin Killing /\ Born(e.from)

\* The links of what is born lead to what is born.
Reach(s)  == Heads \union {t \in Tcb : s.status[t] # "NONE"}
Closed(s) == \A n \in Reach(s) : s.next[n] \in Reach(s) /\ s.prev[n] \in Reach(s)

BornPlaces ==
  /\ Born(SSI)
  /\ current_thread # NULL => Born(current_thread)
  /\ \A d \in Devices : device_list[d] # NULL => Born(device_list[d])
  /\ Closed(sched)

\* A thread that is not born has no process, and no mail.
Unborn == \A t \in Tcb : /\ t_pcb[t] = NULL => ~Born(t)
                         /\ ~Born(t) => t_msgq[t] = <<>>

Peace ==
  /\ \A who \in Killers : reap[who] = NoReap
  /\ \A t \in Tcb : GoodCall(call[t])
  /\ \A t \in Tcb : \A i \in DOMAIN t_msgq[t] : GoodMail(t_msgq[t][i])
  /\ BornPlaces
  /\ Unborn

(*--------------------------------- links -------------------------------*)

\* The operations on the queues of threads that are born.
LEMMA ClosedOps ==
  ASSUME NEW s \in SchedType, Closed(s), NEW t \in Tcb, s.status[t] # "NONE", NEW q \in Heads
  PROVE  /\ Closed(thread_outqueue(s, t))
         /\ Closed(thread_enqueue(s, t, q))
         /\ Closed(put_thread_sleep(s, t))
         /\ Closed(wake_me_up(s, t))
         /\ Closed(resumed(s, t))
<1>0. /\ t \in Reach(s) /\ q \in Reach(s) /\ Reach(s) \subseteq Node
      /\ "ready_queue" \in Heads /\ "wait_queue" \in Heads
  BY NodeFacts DEF Reach, Heads
<1>1. ASSUME NEW u \in SchedType, Closed(u), NEW n \in Reach(u), NEW h \in Reach(u)
      PROVE  Closed(list_del(u, n)) /\ Closed(list_add_tail(u, n, h))
  <2>1. n \in Node /\ h \in Node
    BY <1>1, NodeFacts DEF Reach
  <2>2. /\ u.next[n] \in Reach(u) /\ u.prev[n] \in Reach(u) /\ u.prev[h] \in Reach(u)
        /\ u.next \in [Node -> Node] /\ u.prev \in [Node -> Node]
    BY <1>1, <2>1 DEF Closed, SchedType
  <2>4. ASSUME NEW v, v.status = u.status,
               \A x \in Reach(u) : v.next[x] \in Reach(u) /\ v.prev[x] \in Reach(u)
        PROVE  Closed(v)
    BY <2>4 DEF Closed, Reach
  <2>5. list_del(u, n) = [u EXCEPT !.next = [u.next EXCEPT ![u.prev[n]] = u.next[n]],
                                   !.prev = [u.prev EXCEPT ![u.next[n]] = u.prev[n]]]
    BY DEF list_del, SchedType
  <2>6. list_add_tail(u, n, h) =
          [u EXCEPT !.next = [[u.next EXCEPT ![n] = h] EXCEPT ![u.prev[h]] = n],
                    !.prev = [[u.prev EXCEPT ![h] = n] EXCEPT ![n] = u.prev[h]]]
    BY DEF list_add_tail, list_add_between, SchedType
  <2>7. Closed(list_del(u, n))
    <3> DEFINE nx == [u.next EXCEPT ![u.prev[n]] = u.next[n]]
               pv == [u.prev EXCEPT ![u.next[n]] = u.prev[n]]
    <3>1. \A x \in Reach(u) : nx[x] \in Reach(u) /\ pv[x] \in Reach(u)
      BY <1>1, <2>2 DEF Closed, Reach, Node
    <3>2. /\ list_del(u, n).next = nx /\ list_del(u, n).prev = pv
          /\ list_del(u, n).status = u.status
      BY <2>5 DEF SchedType
    <3> HIDE DEF nx, pv
    <3> QED
      BY <2>4, <3>1, <3>2
  <2>8. Closed(list_add_tail(u, n, h))
    <3> DEFINE nx == [[u.next EXCEPT ![n] = h] EXCEPT ![u.prev[h]] = n]
               pv == [[u.prev EXCEPT ![h] = n] EXCEPT ![n] = u.prev[h]]
    <3>1. \A x \in Reach(u) : nx[x] \in Reach(u) /\ pv[x] \in Reach(u)
      BY <1>1, <2>2 DEF Closed, Reach, Node
    <3>2. /\ list_add_tail(u, n, h).next = nx /\ list_add_tail(u, n, h).prev = pv
          /\ list_add_tail(u, n, h).status = u.status
      BY <2>6 DEF SchedType
    <3> HIDE DEF nx, pv
    <3> QED
      BY <2>4, <3>1, <3>2
  <2> QED
    BY <2>7, <2>8
<1>2. ASSUME NEW u \in SchedType, Closed(u), u.status = s.status, NEW h \in Heads
      PROVE  Closed(thread_outqueue(u, t)) /\ Closed(thread_enqueue(u, t, h))
  <2>1. t \in Reach(u) /\ h \in Reach(u)
    BY <1>0, <1>2 DEF Reach
  <2> QED
    BY <1>1, <1>2, <2>1 DEF thread_outqueue, thread_enqueue
<1>3. ASSUME NEW u \in SchedType, Closed(u), u.status = s.status, NEW n, NEW st \in Status,
             st # "NONE"
      PROVE  /\ Closed([u EXCEPT !.status[t] = st, !.soft = n])
             /\ Closed([u EXCEPT !.soft = n])
  <2>1. /\ [u EXCEPT !.status[t] = st, !.soft = n].next = u.next
        /\ [u EXCEPT !.status[t] = st, !.soft = n].prev = u.prev
        /\ [u EXCEPT !.status[t] = st, !.soft = n].status = [u.status EXCEPT ![t] = st]
        /\ [u EXCEPT !.soft = n].next = u.next
        /\ [u EXCEPT !.soft = n].prev = u.prev
        /\ [u EXCEPT !.soft = n].status = u.status
    BY DEF SchedType
  <2>2. /\ Reach([u EXCEPT !.status[t] = st, !.soft = n]) = Reach(u)
        /\ Reach([u EXCEPT !.soft = n]) = Reach(u)
    BY <1>3, <2>1 DEF Reach, SchedType
  <2> QED
    BY <1>3, <2>1, <2>2 DEF Closed
<1>4. /\ thread_outqueue(s, t) \in SchedType
      /\ thread_outqueue(s, t).status = s.status
      /\ \A u \in SchedType, h \in Heads : /\ thread_enqueue(u, t, h) \in SchedType
                                           /\ thread_enqueue(u, t, h).status = u.status
  <2>1. ASSUME NEW u \in SchedType, NEW h \in Heads
        PROVE  thread_enqueue(u, t, h) \in SchedType
               /\ thread_enqueue(u, t, h).status = u.status
    <3>1. thread_enqueue(u, t, h) \in SchedType
      BY <2>1, QueueType
    <3>2. thread_enqueue(u, t, h).status = u.status
      BY <2>1, EnqueueStatus
    <3> QED
      BY <3>1, <3>2
  <2>2. thread_outqueue(s, t) \in SchedType /\ thread_outqueue(s, t).status = s.status
    BY QueueType, StatusFacts
  <2> QED
    BY <2>1, <2>2
<1> DEFINE out == thread_outqueue(s, t)
<1>5. Closed(out) /\ Closed(thread_enqueue(s, t, q))
  BY <1>2
<1>6. \A h \in Heads : /\ thread_enqueue(out, t, h) \in SchedType
                       /\ thread_enqueue(out, t, h).status = s.status
                       /\ Closed(thread_enqueue(out, t, h))
  <2> HIDE DEF out
  <2>1. out \in SchedType /\ out.status = s.status
    BY <1>4 DEF out
  <2> QED
    BY <1>2, <1>4, <1>5, <2>1
<1>7. Closed(put_thread_sleep(s, t))
  BY <1>0, <1>3, <1>6 DEF put_thread_sleep, Status
<1>8. Closed(wake_me_up(s, t))
  BY <1>0, <1>3, <1>6 DEF wake_me_up, Status
<1>9. Closed(resumed(s, t))
  <2>1. \A h \in Heads : Closed(thread_enqueue(s, t, h))
    BY <1>2
  <2> QED
    BY <1>0, <1>3, <1>4, <2>1 DEF resumed, Status
<1> QED
  BY <1>5, <1>7, <1>8, <1>9

\* The head of a queue, and the queue without it.
LEMMA ClosedHead ==
  ASSUME NEW s \in SchedType, Closed(s), NEW q \in Heads
  PROVE  /\ thread_qhead(s, q) \in Reach(s)
         /\ Closed(thread_dequeue(s, q))
<1> DEFINE n == s.next[q]
<1>1. /\ q \in Node /\ q \in Reach(s) /\ n \in Reach(s) /\ n \in Node
      /\ s.next[n] \in Reach(s) /\ s.prev[n] \in Reach(s)
      /\ s.next \in [Node -> Node] /\ s.prev \in [Node -> Node]
  BY NodeFacts DEF Closed, Reach, SchedType
<1> DEFINE nx == [[s.next EXCEPT ![s.prev[n]] = s.next[n]] EXCEPT ![n] = n]
           pv == [[s.prev EXCEPT ![s.next[n]] = s.prev[n]] EXCEPT ![n] = n]
           u  == thread_dequeue(s, q)
<1>2. u.next = nx /\ u.prev = pv /\ u.status = s.status
  BY <1>1 DEF thread_dequeue, list_del, INIT_LIST_HEAD, SchedType
<1>3. \A x \in Reach(s) : nx[x] \in Reach(s) /\ pv[x] \in Reach(s)
  BY <1>1, NodeFacts DEF Closed, Reach
<1> HIDE DEF nx, pv, u
<1>4. Closed(u)
  BY <1>2, <1>3 DEF Closed, Reach
<1> QED
  BY <1>1, <1>4 DEF thread_qhead, u

(*----------------------- what a step does to the boxes -----------------*)

\* A step of Mailboxes, or one that its threads do not see.
BoxStep == Boxes!Exchange \/ UNCHANGED Boxes!mvars

\* A step that leaves the queues, the sleepers and their calls alone.
LEMMA Unseen ==
  ASSUME UNCHANGED t_msgq,
         \A t \in Tcb : /\ Sleeping(t)' <=> Sleeping(t)
                        /\ Sleeping(t) => call'[t] = call[t]
  PROVE  BoxStep
<1>1. \A t \in Tcb : (IF InReceive(t) THEN call[t].peer ELSE "nobody")'
                     = IF InReceive(t) THEN call[t].peer ELSE "nobody"
  BY DEF InReceive
<1>2. [t \in Tcb |-> IF InReceive(t) THEN call[t].peer ELSE "nobody"]'
      = [t \in Tcb |-> IF InReceive(t) THEN call[t].peer ELSE "nobody"]
  BY <1>1
<1> QED
  BY <1>2 DEF BoxStep, Boxes!mvars

\* Nobody is born and nobody dies, and what is new is good.
LEMMA PeaceKept ==
  ASSUME Peace, TypeOK',
         \A t \in Tcb : Born(t)' <=> Born(t), Closed(sched'), UNCHANGED <<t_pcb, reap>>,
         \A t \in Tcb : GoodCall(call'[t]),
         \A t \in Tcb : \A i \in DOMAIN t_msgq'[t] : GoodMail(t_msgq'[t][i]),
         \A t \in Tcb : ~Born(t) => t_msgq'[t] = <<>>,
         current_thread' # NULL => Born(current_thread'),
         \A d \in Devices : device_list'[d] # NULL => Born(device_list'[d])
  PROVE  Peace'
<1>1. /\ call' \in [Tcb -> CallState] /\ t_msgq' \in [Tcb -> Seq(Message)]
      /\ current_thread' \in Tcb \union {NULL}
      /\ device_list' \in [Devices -> Tcb \union {NULL}]
  BY DEF TypeOK
<1>2. \A t \in Tcb : GoodCall(call[t])'
  <2>1. \A t \in Tcb : call'[t].op = "serve" => call'[t].peer \in Tcb
    BY <1>1, CallFacts
  <2> QED
    BY <2>1 DEF GoodCall
<1>3. \A t \in Tcb : \A i \in DOMAIN t_msgq'[t] : GoodMail(t_msgq[t][i])'
  <2>1. \A t \in Tcb : \A i \in DOMAIN t_msgq'[t] : t_msgq'[t][i].from \in Tcb
    <3>1. ASSUME NEW q \in Seq(Message), NEW i \in DOMAIN q PROVE q[i].from \in Tcb
      <4>1. DOMAIN q = 1..Len(q) /\ q[i] \in Message
        BY <3>1
      <4> QED
        BY <4>1 DEF Message
    <3> QED
      BY <1>1, <3>1
  <2> QED
    BY <2>1 DEF GoodMail
<1>4. BornPlaces'
  BY <1>1, NodeFacts DEF Peace, BornPlaces
<1>5. Unborn'
  BY DEF Peace, Unborn
<1> QED
  BY <1>2, <1>3, <1>4, <1>5 DEF Peace

\* A message between threads that are born.
LEMMA SendPeace ==
  ASSUME TypeOK, Peace, NEW from \in Tcb, NEW to \in Tcb, NEW m \in Payload,
         NEW c \in [Tcb -> CallState], sys_send_msg(from, to, m, c),
         m.tag \notin Killing, Born(from), Born(to), \A t \in Tcb : GoodCall(c[t])
  PROVE  /\ \A t \in Tcb : GoodCall(call'[t])
         /\ \A t \in Tcb : \A i \in DOMAIN t_msgq'[t] : GoodMail(t_msgq'[t][i])
         /\ \A t \in Tcb : ~Born(t) => t_msgq'[t] = <<>>
<1> DEFINE e == [from |-> from, msg |-> m]
<1>0. /\ t_msgq \in [Tcb -> Seq(Message)]
      /\ \A t \in Tcb : \A i \in DOMAIN t_msgq[t] : GoodMail(t_msgq[t][i])
      /\ \A t \in Tcb : ~Born(t) => t_msgq[t] = <<>>
  BY DEF TypeOK, Peace, Unborn
<1>1. GoodCall(Received(to, from, m)) /\ GoodMail(e)
  BY DEF Received, Serve, User, Plain, GoodCall, GoodMail, Killing
<1>2. CASE call' = [c EXCEPT ![to] = Received(to, from, m)] /\ t_msgq' = t_msgq
  BY <1>0, <1>1, <1>2
<1>3. CASE call' = c /\ t_msgq' = [t_msgq EXCEPT ![to] = Append(@, e)]
  <2> HIDE DEF e
  <2>1. ASSUME NEW q \in Seq(Message), \A i \in DOMAIN q : GoodMail(q[i]),
               NEW i \in DOMAIN Append(q, e)
        PROVE  GoodMail(Append(q, e)[i])
    BY <1>1, <2>1
  <2> QED
    BY <1>0, <1>3, <2>1
<1>4. CASE call' = c /\ t_msgq' = t_msgq
  BY <1>0, <1>4
<1> QED
  BY <1>2, <1>3, <1>4, SendCases

\* A message is handed over, or goes to the end of a box, or is refused.
LEMMA SendBoxes ==
  ASSUME TypeOK, SleepHolds, Peaceful, NEW from \in Tcb, NEW to \in Tcb, NEW m \in Payload,
         NEW c \in [Tcb -> CallState], sys_send_msg(from, to, m, c),
         \A t \in Tcb : Sleeping(t) => c[t] = call[t],
         sched'.status = IF Accepts(to, from) THEN [sched.status EXCEPT ![to] = "READY"]
                         ELSE sched.status
  PROVE  BoxStep
<1> DEFINE w == [t \in Tcb |-> IF InReceive(t) THEN call[t].peer ELSE "nobody"]
<1>0. sched.status \in [Tcb -> Status]
  BY DEF TypeOK, SchedType
<1>1. Boxes!AwaitedBy(to, from) <=> Accepts(to, from)
  BY DEF Boxes!AwaitedBy, Accepts, InReceive, Sleeping, SleepHolds, SleepsWell, Peaceful
<1>2. CASE /\ Accepts(to, from)
           /\ call' = [c EXCEPT ![to] = Received(to, from, m)] /\ t_msgq' = t_msgq
  <2>1. ~Sleeping(to)' /\ \A t \in Tcb \ {to} : Sleeping(t)' <=> Sleeping(t)
    BY <1>0, <1>2 DEF Sleeping
  <2>2. \A t \in Tcb : (IF InReceive(t) THEN call[t].peer ELSE "nobody")'
                       = [w EXCEPT ![to] = "nobody"][t]
    BY <1>2, <2>1 DEF InReceive
  <2>3. [t \in Tcb |-> IF InReceive(t) THEN call[t].peer ELSE "nobody"]'
        = [w EXCEPT ![to] = "nobody"]
    BY <2>2
  <2>4. Boxes!HandOver(from, to)
    BY <1>1, <1>2, <2>3 DEF Boxes!HandOver
  <2> QED
    BY <2>4 DEF BoxStep, Boxes!Exchange
<1>3. CASE /\ ~Accepts(to, from)
           /\ call' = c
           /\ t_msgq' = [t_msgq EXCEPT ![to] = Append(@, [from |-> from, msg |-> m])]
  <2>1. \A t \in Tcb : (IF InReceive(t) THEN call[t].peer ELSE "nobody")' = w[t]
    BY <1>3 DEF InReceive, Sleeping
  <2>2. [t \in Tcb |-> IF InReceive(t) THEN call[t].peer ELSE "nobody"]' = w
    BY <2>1
  <2>3. Boxes!Queue(from, to, m)
    BY <1>1, <1>3, <2>2 DEF Boxes!Queue
  <2> QED
    BY <2>3 DEF BoxStep, Boxes!Exchange
<1>4. CASE ~Accepts(to, from) /\ call' = c /\ t_msgq' = t_msgq
  BY <1>4, Unseen DEF Sleeping
<1> QED
  BY <1>2, <1>3, <1>4, SendCases

(*--------------------------------- statuses ----------------------------*)

\* Going to sleep and waking up are for those who are born.
LEMMA BornKept ==
  ASSUME TypeOK, NEW to \in Tcb, Born(to), NEW st \in Status, st # "NONE",
         \/ sched'.status = sched.status
         \/ sched'.status = [sched.status EXCEPT ![to] = st]
  PROVE  \A t \in Tcb : Born(t)' <=> Born(t)
BY DEF Born, TypeOK, SchedType

\* A thread that is handed out joins those who are born; its box is empty,
\* as it was.
LEMMA StartPeace ==
  ASSUME TypeOK, TypeOK', Peace, ThreadTree, NEW p \in Pcb, free_thread # <<>>,
         start_thread(p, Head(free_thread)),
         NEW c, GoodCall(c), ~Sleeping(SSI), call' = [call EXCEPT ![SSI] = c],
         UNCHANGED <<reap, device_list, current_thread>>
  PROVE  Peace' /\ BoxStep
<1> DEFINE new == Head(free_thread)
<1>1. new \in Tcb /\ t_pcb[new] = NULL /\ t_pcb' = [t_pcb EXCEPT ![new] = p]
  BY StartThreadTree, SeqFacts DEF TypeOK
<1> HIDE DEF new
<1> DEFINE alone == INIT_LIST_HEAD(sched, new)
           ready == [alone EXCEPT !.status[new] = "READY"]
<1>2. /\ sched' = thread_enqueue(ready, new, "ready_queue")
      /\ t_msgq' = [t_msgq EXCEPT ![new] = <<>>]
  BY DEF start_thread, new
<1>3. /\ sched \in SchedType /\ t_msgq \in [Tcb -> Seq(Message)]
      /\ call \in [Tcb -> CallState] /\ SSI \in Tcb /\ new \in Node /\ new \notin Heads
      /\ Heads \subseteq Node /\ Tcb \subseteq Node
      /\ current_thread \in Tcb \union {NULL} /\ t_pcb \in [Tcb -> Pcb \union {NULL}]
      /\ device_list \in [Devices -> Tcb \union {NULL}] /\ "ready_queue" \in Heads
  BY <1>1, NodeFacts, StoreAssumption DEF TypeOK, Heads
<1>4. ~Born(new) /\ t_msgq[new] = <<>>
  BY <1>1 DEF Peace, Unborn
<1>5. t_msgq' = t_msgq
  BY <1>2, <1>3, <1>4
<1>6. /\ ready \in SchedType /\ ready.status = [sched.status EXCEPT ![new] = "READY"]
      /\ ready.next = [sched.next EXCEPT ![new] = new]
      /\ ready.prev = [sched.prev EXCEPT ![new] = new]
  BY <1>1, <1>3 DEF INIT_LIST_HEAD, SchedType, Status
<1>7. Closed(ready)
  <2>1. Reach(ready) = Reach(sched) \union {new}
    BY <1>1, <1>3, <1>6 DEF Reach, SchedType
  <2>2. new \notin Reach(sched) /\ Reach(sched) \subseteq Node
    BY <1>3, <1>4 DEF Reach, Born
  <2>3. Closed(sched)
    BY DEF Peace, BornPlaces
  <2> HIDE DEF ready, alone
  <2>4. ASSUME NEW n \in Reach(ready)
        PROVE  ready.next[n] \in Reach(ready) /\ ready.prev[n] \in Reach(ready)
    BY <1>3, <1>6, <2>1, <2>2, <2>3 DEF Closed, SchedType
  <2> QED
    BY <2>4 DEF Closed
<1> HIDE DEF ready, alone
<1>8. Closed(sched') /\ sched'.status = [sched.status EXCEPT ![new] = "READY"]
  <2>1. ready.status[new] # "NONE"
    BY <1>1, <1>3, <1>6 DEF SchedType
  <2>2. Closed(thread_enqueue(ready, new, "ready_queue"))
    BY <1>1, <1>3, <1>6, <1>7, <2>1, ClosedOps
  <2>3. thread_enqueue(ready, new, "ready_queue").status = ready.status
    <3>1. ready \in SchedType /\ new \in Tcb /\ "ready_queue" \in Heads
      BY <1>1, <1>3, <1>6
    <3> QED
      BY <3>1, EnqueueStatus
  <2> QED
    BY <1>2, <1>6, <2>2, <2>3
<1>9. /\ \A t \in Tcb : Born(t) => Born(t)'
      /\ \A t \in Tcb : ~Born(t)' => ~Born(t) /\ t # new
  BY <1>1, <1>3, <1>8 DEF Born, SchedType
<1>10. BornPlaces'
  BY <1>3, <1>8, <1>9 DEF Peace, BornPlaces
<1>11. Unborn'
  <2>1. \A t \in Tcb : t_pcb'[t] = NULL => t_pcb[t] = NULL /\ t # new
    BY <1>1, <1>3, NodeFacts
  <2>2. \A t \in Tcb : t # new => (Born(t)' <=> Born(t))
    BY <1>1, <1>3, <1>8 DEF Born, SchedType
  <2> QED
    BY <1>5, <1>9, <2>1, <2>2 DEF Peace, Unborn
<1>12. \A t \in Tcb : GoodCall(call[t])'
  <2>1. \A t \in Tcb : GoodCall(call'[t]) /\ call'[t] \in CallState
    BY <1>3 DEF Peace, TypeOK
  <2> QED
    BY <1>9, <2>1, CallFacts DEF GoodCall
<1>13. \A t \in Tcb : \A i \in DOMAIN t_msgq'[t] : GoodMail(t_msgq[t][i])'
  <2>1. ASSUME NEW t \in Tcb, NEW i \in DOMAIN t_msgq[t]
        PROVE  GoodMail(t_msgq[t][i]) /\ t_msgq[t][i].from \in Tcb
    <3>1. t_msgq[t][i] \in Message
      BY <1>3, <2>1
    <3> QED
      BY <3>1 DEF Peace, Message
  <2> QED
    BY <1>5, <1>9, <2>1 DEF GoodMail
<1>14. \A t \in Tcb : Sleeping(t)' <=> Sleeping(t)
  BY <1>1, <1>3, <1>4, <1>8 DEF Sleeping, Born, SchedType
<1>15. \A t \in Tcb : Sleeping(t) => call'[t] = call[t]
  BY <1>3
<1>16. BoxStep
  BY <1>5, <1>14, <1>15, Unseen
<1> QED
  BY <1>10, <1>11, <1>12, <1>13, <1>16 DEF Peace

(*-------------------------------- services -----------------------------*)

\* What the SSI goes on with.
LEMMA ReplyGood ==
  ASSUME SSI \in Tcb, NEW tag \in {"reply", "busy"}, Reply(tag) \/ NoReply
  PROVE  \E c : GoodCall(c) /\ call' = [call EXCEPT ![SSI] = c]
BY DEF Reply, NoReply, Send, Recv, Plain, GoodCall, Killing

\* The services; none of them kills.
LEMMA ServicesBox ==
  ASSUME Peaceful, WakeInv, ThreadTree, Peace, TypeOK', SsiNext
  PROVE  Peace' /\ BoxStep
<1>0. /\ TypeOK /\ SSI \in Tcb /\ call \in [Tcb -> CallState] /\ sched \in SchedType
      /\ current_thread \in Tcb \union {NULL}
      /\ device_list \in [Devices -> Tcb \union {NULL}]
  BY NodeFacts DEF WakeInv, TypeOK
<1>1. ASSUME NEW tags, Serving(tags)
      PROVE  /\ ~Sleeping(SSI) /\ Sender \in Tcb /\ Born(Sender)
             /\ call[SSI].msg.tag \in tags \ (Managing \union Killing)
  <2>1. /\ ~Sleeping(SSI) /\ Sender \in Tcb /\ call[SSI].msg.tag \in tags \ Managing
    BY <1>1, ServingAwake
  <2>2. call[SSI].op = "serve" /\ GoodCall(call[SSI])
    BY <1>0, <1>1 DEF Serving, Peace
  <2> QED
    BY <2>1, <2>2 DEF GoodCall, Sender
\* A service that creates and moves nobody.
<1>2. ASSUME NEW tags, Serving(tags), NEW c, GoodCall(c), call' = [call EXCEPT ![SSI] = c],
             sched'.status = sched.status, Closed(sched'),
             \A d \in Devices : device_list'[d] \in {device_list[d], Sender},
             UNCHANGED <<t_msgq, t_pcb, reap, current_thread>>
      PROVE  Peace' /\ BoxStep
  <2>1. \A t \in Tcb : (Born(t)' <=> Born(t)) /\ (Sleeping(t)' <=> Sleeping(t))
    BY <1>2 DEF Born, Sleeping
  <2>2. ~Sleeping(SSI) /\ Born(Sender)
    BY <1>1, <1>2
  <2>3. \A t \in Tcb : GoodCall(call'[t]) /\ (Sleeping(t) => call'[t] = call[t])
    BY <1>0, <1>2, <2>2 DEF Peace
  <2>4. BoxStep
    BY <1>2, <2>1, <2>3, Unseen
  <2>5. \A d \in Devices : device_list'[d] # NULL => Born(device_list'[d])
    BY <1>2, <2>2 DEF Peace, BornPlaces
  <2>6. current_thread' # NULL => Born(current_thread')
    BY <1>2 DEF Peace, BornPlaces
  <2>7. Peace'
    BY <1>2, <2>1, <2>3, <2>5, <2>6, PeaceKept DEF Peace, Unborn
  <2> QED
    BY <2>4, <2>7
<1>3. Closed(sched)
  BY DEF Peace, BornPlaces
<1>4. CASE GetErrno \/ Query \/ DoIoBusy
  <2>1. PICK tags : Serving(tags)
    BY <1>4 DEF GetErrno, Query, DoIoBusy
  <2>2. PICK c : GoodCall(c) /\ call' = [call EXCEPT ![SSI] = c]
    BY <1>0, <1>4, ReplyGood DEF GetErrno, Query, DoIoBusy
  <2>3. UNCHANGED <<sched, t_msgq, t_pcb, reap, current_thread, device_list>>
    BY <1>4 DEF GetErrno, Query, DoIoBusy, mail, families
  <2> QED
    BY <1>2, <1>3, <2>1, <2>2, <2>3
<1>5. CASE CreateProcess \/ CreateThread
  <2>1. PICK tags : Serving(tags)
    BY <1>5 DEF CreateProcess, CreateThread
  <2>2. PICK c : GoodCall(c) /\ call' = [call EXCEPT ![SSI] = c]
    BY <1>0, <1>5, ReplyGood DEF CreateProcess, CreateThread
  <2>3. UNCHANGED <<reap, device_list, current_thread>>
    BY <1>5 DEF CreateProcess, CreateThread
  <2>4. \/ UNCHANGED <<sched, t_msgq, t_pcb>>
        \/ /\ free_thread # <<>>
           /\ \E p \in Pcb : start_thread(p, Head(free_thread))
    <3>1. ASSUME CreateThread
          PROVE  \/ UNCHANGED <<sched, t_msgq, t_pcb>>
                 \/ /\ free_thread # <<>>
                    /\ \E p \in Pcb : start_thread(p, Head(free_thread))
      <4>1. t_pcb[Sender] \in Pcb \union {NULL}
        BY <1>0, <1>1, <2>1 DEF TypeOK
      <4> QED
        BY <3>1, <4>1 DEF CreateThread, mail, families
    <3>2. ASSUME CreateProcess
          PROVE  \/ UNCHANGED <<sched, t_msgq, t_pcb>>
                 \/ /\ free_thread # <<>>
                    /\ \E p \in Pcb : start_thread(p, Head(free_thread))
      <4>1. free_proc # <<>> => Head(free_proc) \in Pcb
        BY <1>0, SeqFacts DEF TypeOK
      <4> QED
        BY <3>2, <4>1 DEF CreateProcess, mail, families
    <3> QED
      BY <1>5, <3>1, <3>2
  <2>5. CASE UNCHANGED <<sched, t_msgq, t_pcb>>
    BY <1>2, <1>3, <2>1, <2>2, <2>3, <2>5
  <2>6. CASE free_thread # <<>> /\ \E p \in Pcb : start_thread(p, Head(free_thread))
    BY <1>0, <1>1, <2>1, <2>2, <2>3, <2>6, StartPeace
  <2> QED
    BY <2>4, <2>5, <2>6
<1>6. CASE WaitForClock \/ DoIo
  <2>1. PICK tags : Serving(tags)
    BY <1>6 DEF WaitForClock, DoIo
  <2>2. PICK c : GoodCall(c) /\ call' = [call EXCEPT ![SSI] = c]
    BY <1>0, <1>6, ReplyGood DEF WaitForClock, DoIo
  <2>3. Sender \in Tcb /\ sched.status[Sender] # "NONE"
    BY <1>1, <2>1 DEF Born
  <2>4. /\ parked(sched) \in SchedType /\ parked(sched).status = sched.status
        /\ Closed(parked(sched))
    <3> DEFINE out == thread_outqueue(sched, Sender)
    <3>1. out \in SchedType /\ out.status = sched.status /\ Closed(out)
      BY <1>0, <1>3, <2>3, QueueType, StatusFacts, ClosedOps DEF Heads
    <3> HIDE DEF out
    <3>2. parked(sched) = out \/ parked(sched) = [out EXCEPT !.soft = Up(@)]
      BY DEF parked, out
    <3>3. /\ [out EXCEPT !.soft = Up(@)].next = out.next
          /\ [out EXCEPT !.soft = Up(@)].prev = out.prev
          /\ [out EXCEPT !.soft = Up(@)].status = out.status
      BY <3>1 DEF SchedType
    <3>4. parked(sched) \in SchedType
      BY <1>0, <2>3, ParkedType
    <3> QED
      BY <3>1, <3>2, <3>3, <3>4 DEF Closed, Reach
  <2>5. /\ thread_enqueue(parked(sched), Sender, "wait_pseudo_clock_queue").status
             = sched.status
        /\ Closed(thread_enqueue(parked(sched), Sender, "wait_pseudo_clock_queue"))
    BY <2>3, <2>4, StatusFacts, ClosedOps DEF Heads
  <2>6. sched'.status = sched.status /\ Closed(sched')
    BY <1>6, <2>4, <2>5 DEF WaitForClock, DoIo
  <2>7. /\ \A d \in Devices : device_list'[d] \in {device_list[d], Sender}
        /\ UNCHANGED <<t_msgq, t_pcb, reap, current_thread>>
    BY <1>0, <1>6 DEF WaitForClock, DoIo, mail, families
  <2> QED
    BY <1>2, <2>1, <2>2, <2>6, <2>7
<1>7. CASE TerminateProcess \/ TerminateThread \/ BadRequest \/ SetManager
  BY <1>1, <1>7
  DEF TerminateProcess, TerminateThread, BadRequest, SetManager, Managing, Killing
<1>8. ASSUME NEW who \in Killers,
             ReapThread(who) \/ ReapChild(who) \/ ReapProc(who) \/ ReapDone(who)
      PROVE  Peace' /\ BoxStep
  <2>1. reap \in [Killers -> ReapType] /\ reap[who] = NoReap
    BY <1>0 DEF TypeOK, Killers, Peace
  <2>2. ReapDone(who)
    BY <1>8, <2>1 DEF ReapThread, ReapChild, ReapProc, NoReap
  <2>3. /\ reap' = reap
        /\ UNCHANGED <<sched, t_msgq, t_pcb, device_list>>
        /\ current_thread' \in {current_thread, NULL}
        /\ \/ call' = call
           \/ call' = [call EXCEPT ![SSI] = User] /\ call[SSI] = Reaping
    BY <2>1, <2>2 DEF ReapDone, Reaps, mail, NoReap, Killers
  <2>4. GoodCall(User)
    BY DEF GoodCall, User, Plain, Killing
  <2>5. call' # call => ~Sleeping(SSI)
    BY <1>0, <2>3 DEF WakeInv, SleepHolds, SleepsWell, Reaping
  <2>6. \A t \in Tcb : GoodCall(call'[t]) /\ (Sleeping(t) => call'[t] = call[t])
    BY <1>0, <2>3, <2>4, <2>5 DEF Peace
  <2>7. BoxStep
    BY <2>3, <2>6, Unseen DEF Sleeping
  <2>8. /\ \A d \in Devices : device_list'[d] # NULL => Born(device_list'[d])
        /\ current_thread' # NULL => Born(current_thread')
    BY <2>3 DEF Peace, BornPlaces
  <2>9. Peace'
    BY <1>3, <2>3, <2>6, <2>8, PeaceKept DEF Peace, Unborn, Born
  <2> QED
    BY <2>7, <2>9
<1> QED
  BY <1>4, <1>5, <1>6, <1>7, <1>8 DEF SsiNext, Killers

(*------------------------------ system calls ---------------------------*)

\* SYS_SEND by a thread that is awake: check_thread_alive lets it write to
\* those who are born only.
LEMMA SysSendBox ==
  ASSUME Peaceful, WakeInv, Peace, TypeOK', current_thread \in Tcb, ~Sleeping(current_thread),
         NEW to \in Tcb, NEW m \in Payload, NEW next \in CallState,
         m.tag \notin Killing, GoodCall(next), sys_send(to, m, next)
  PROVE  Peace' /\ BoxStep
<1> DEFINE self == current_thread
           c    == [call EXCEPT ![self] = next]
<1>0. /\ TypeOK /\ Unmanaged /\ SleepHolds
      /\ call \in [Tcb -> CallState] /\ sched \in SchedType
      /\ Closed(sched) /\ Born(self) /\ self # NULL
  BY NodeFacts DEF WakeInv, TypeOK, Peace, BornPlaces
<1>1. UNCHANGED <<device_list, t_pcb, reap>>
  BY DEF sys_send, families
<1>2. \A d \in Devices : device_list'[d] # NULL => Born(device_list'[d])
  BY <1>1 DEF Peace, BornPlaces
<1>3. CASE check_thread_alive(to, "ERR_SEND_TO_DEAD", Send(to, m))
  <2>1. /\ call' = [call EXCEPT ![self] = Send(to, m)]
        /\ UNCHANGED <<sched, t_msgq, current_thread>>
    BY <1>3 DEF check_thread_alive
  <2>2. GoodCall(Send(to, m))
    BY DEF GoodCall, Send
  <2>3. \A t \in Tcb : GoodCall(call'[t]) /\ (Sleeping(t) => call'[t] = call[t])
    BY <1>0, <2>1, <2>2 DEF Peace
  <2>4. BoxStep
    BY <2>1, <2>3, Unseen DEF Sleeping
  <2>5. Peace'
    BY <1>0, <1>1, <1>2, <2>1, <2>3, PeaceKept DEF Peace, Unborn, Born
  <2> QED
    BY <2>4, <2>5
<1>4. ~(self \in {manager_of(to, k) : k \in Kinds})
  BY <1>0, NoManagerOf
<1>5. CASE /\ ~Dead(to)
           /\ sched' = sent(sched, self, to)
           /\ sys_send_msg(self, to, m, c)
           /\ UNCHANGED <<current_thread, cpu, t_wait4sender>>
  <2>1. /\ c \in [Tcb -> CallState]
        /\ \A t \in Tcb : GoodCall(c[t])
        /\ \A t \in Tcb : Sleeping(t) => c[t] = call[t]
    BY <1>0 DEF Peace
  <2> HIDE DEF c
  <2>2. Born(to)
    BY <1>5, NodeFacts DEF Dead, Born
  <2>3. /\ wake_me_up(sched, to).status = [sched.status EXCEPT ![to] = "READY"]
        /\ Closed(wake_me_up(sched, to))
    BY <1>0, <2>2, StatusFacts, ClosedOps DEF Heads, Born
  <2>4. /\ sched'.status = IF Accepts(to, self) THEN [sched.status EXCEPT ![to] = "READY"]
                           ELSE sched.status
        /\ Closed(sched')
    BY <1>0, <1>5, <2>3 DEF sent
  <2>5. BoxStep
    BY <1>0, <1>5, <2>1, <2>4, SendBoxes
  <2>6. /\ \A t \in Tcb : GoodCall(call'[t])
        /\ \A t \in Tcb : \A i \in DOMAIN t_msgq'[t] : GoodMail(t_msgq'[t][i])
        /\ \A t \in Tcb : ~Born(t) => t_msgq'[t] = <<>>
    BY <1>0, <1>5, <2>1, <2>2, SendPeace
  <2>7. \A t \in Tcb : Born(t)' <=> Born(t)
    BY <1>0, <2>2, <2>4, BornKept DEF Status
  <2>8. Peace'
    BY <1>0, <1>1, <1>2, <1>5, <2>4, <2>6, <2>7, PeaceKept
  <2> QED
    BY <2>5, <2>8
<1> QED
  BY <1>3, <1>4, <1>5, Zenon DEF sys_send

\* SYS_RECV: the receiver takes the first message it accepts, or waits.
LEMMA SysRecvBox ==
  ASSUME Peaceful, WakeInv, Peace, TypeOK', current_thread \in Tcb,
         NEW s \in Tcb \union {NULL},
         \/ ~Sleeping(current_thread)
         \/ call[current_thread].op = "recv" /\ call[current_thread].peer = s,
         sys_recv(s)
  PROVE  Peace' /\ BoxStep
<1>0. /\ TypeOK /\ Unmanaged /\ SleepHolds
      /\ call \in [Tcb -> CallState] /\ sched \in SchedType
      /\ t_msgq \in [Tcb -> Seq(Message)] /\ t_wait4sender \in [Tcb -> Tcb \union {NULL}]
      /\ Closed(sched)
  BY DEF WakeInv, TypeOK, Peace, BornPlaces
<1>1. PICK self \in Tcb : self = current_thread
  OBVIOUS
<1> DEFINE q == t_msgq[self]
           i == FirstMatch(q, s)
           w == [t \in Tcb |-> IF InReceive(t) THEN call[t].peer ELSE "nobody"]
<1>2. UNCHANGED <<device_list, t_pcb, reap>>
  BY DEF sys_recv, families
<1>3. \A d \in Devices : device_list'[d] # NULL => Born(device_list'[d])
  BY <1>2 DEF Peace, BornPlaces
<1>4. GoodCall(Recv(s)) /\ Born(self)
  BY <1>1, NodeFacts DEF GoodCall, Recv, Plain, Killing, Peace, BornPlaces
<1>5. Sleeping(self) => call[self] = Recv(s)
  <2>1. \A c \in CallState : c.op = "recv" => c = Recv(c.peer)
    BY DEF CallState, Recv, NoPayload
  <2> QED
    BY <1>0, <1>1, <2>1
<1>6. CASE check_thread_alive(s, "ERR_RECV_FROM_DEAD", Recv(s))
  <2>1. /\ call' = [call EXCEPT ![self] = Recv(s)]
        /\ UNCHANGED <<sched, t_msgq, current_thread>>
    BY <1>1, <1>6 DEF check_thread_alive
  <2>2. \A t \in Tcb : GoodCall(call'[t]) /\ (Sleeping(t) => call'[t] = call[t])
    BY <1>0, <1>4, <1>5, <2>1 DEF Peace
  <2>3. BoxStep
    BY <2>1, <2>2, Unseen DEF Sleeping
  <2>4. Peace'
    BY <1>0, <1>1, <1>2, <1>3, <1>4, <2>1, <2>2, PeaceKept DEF Peace, Unborn, Born
  <2> QED
    BY <2>3, <2>4
<1>7. CASE /\ Matches(q, s) # {}
           /\ msgq_get(s, self)
           /\ call' = [call EXCEPT ![self] = Received(self, q[i].from, q[i].msg)]
           /\ UNCHANGED <<sched, current_thread, cpu, t_wait4sender, err_numb>>
  <2>1. q \in Seq(Message) /\ i \in 1..Len(q) /\ Len(q) \in Nat
    BY <1>0, <1>7, MatchType
  <2>2. t_msgq' = [t_msgq EXCEPT ![self] = RemoveAt(q, i)]
    BY <1>0, <1>7 DEF msgq_get
  <2>3. \A j \in DOMAIN q : GoodMail(q[j])
    BY <1>0 DEF Peace
  <2>4. GoodCall(Received(self, q[i].from, q[i].msg))
    BY <2>1, <2>3 DEF GoodMail, GoodCall, Received, Serve, User, Plain, Killing
  <2>5. ~Sleeping(self)
    BY <1>0, <1>5, <1>7 DEF SleepHolds, SleepsWell, Recv
  <2>6. \A t \in Tcb : GoodCall(call'[t]) /\ (Sleeping(t) => call'[t] = call[t])
    BY <1>0, <1>7, <2>4, <2>5 DEF Peace
  <2>7. \A j \in DOMAIN RemoveAt(q, i) : \E k \in DOMAIN q : RemoveAt(q, i)[j] = q[k]
    <3>1. /\ RemoveAt(q, i) \in Seq(Message) /\ Len(RemoveAt(q, i)) = Len(q) - 1
          /\ \A j \in 1..(Len(q) - 1) :
               RemoveAt(q, i)[j] = IF j < i THEN q[j] ELSE q[j + 1]
      BY <2>1, RemoveAtElements
    <3> HIDE DEF i, q
    <3>2. DOMAIN RemoveAt(q, i) = 1..(Len(q) - 1) /\ DOMAIN q = 1..Len(q)
      BY <2>1, <3>1
    <3>3. \A j \in 1..(Len(q) - 1) : j \in 1..Len(q) /\ j + 1 \in 1..Len(q)
      BY <2>1
    <3> QED
      BY <3>1, <3>2, <3>3
  <2>8. /\ \A t \in Tcb : \A k \in DOMAIN t_msgq'[t] : GoodMail(t_msgq'[t][k])
        /\ \A t \in Tcb : ~Born(t) => t_msgq'[t] = <<>>
    <3> HIDE DEF i, q
    <3> QED
      BY <1>0, <1>4, <2>2, <2>3, <2>7 DEF Peace, Unborn
  <2>9. Peace'
    BY <1>0, <1>1, <1>2, <1>3, <1>4, <1>7, <2>6, <2>8, PeaceKept DEF Born
  <2>10. Boxes!First(self, s) = i /\ Boxes!From(self, s) # {}
    BY <1>7 DEF Boxes!First, Boxes!From, FirstMatch, Matches
  <2>11. UNCHANGED w
    <3>1. \A t \in Tcb : (IF InReceive(t) THEN call[t].peer ELSE "nobody")'
                         = IF InReceive(t) THEN call[t].peer ELSE "nobody"
      BY <1>7, <2>6 DEF InReceive, Sleeping
    <3> QED
      BY <3>1
  <2>12. Boxes!Take(self, s)
    <3>1. w[self] = "nobody"
      BY <2>5 DEF InReceive
    <3> HIDE DEF i
    <3> QED
      BY <2>2, <2>10, <2>11, <3>1 DEF Boxes!Take, RemoveAt
  <2> QED
    BY <2>9, <2>12 DEF BoxStep, Boxes!Exchange
<1>8. CASE /\ Matches(q, s) = {}
           /\ t_wait4sender' = [t_wait4sender EXCEPT ![self] = s]
           /\ call' = [call EXCEPT ![self] = Recv(s)]
           /\ sched' = put_thread_sleep(sched, self)
           /\ current_thread' = NULL
           /\ UNCHANGED <<t_msgq, free_msg, err_numb>>
  <2>1. sched'.status = [sched.status EXCEPT ![self] = "W4MSG"] /\ Closed(sched')
    BY <1>0, <1>4, <1>8, StatusFacts, ClosedOps DEF Heads, Born
  <2>2. \A t \in Tcb : GoodCall(call'[t])
    BY <1>0, <1>4, <1>8 DEF Peace
  <2>3. \A t \in Tcb : Born(t)' <=> Born(t)
    BY <1>0, <1>4, <2>1, BornKept DEF Status
  <2>4. Peace'
    BY <1>2, <1>3, <1>8, <2>1, <2>2, <2>3, PeaceKept DEF Peace, Unborn
  <2>5. [t \in Tcb |-> IF InReceive(t) THEN call[t].peer ELSE "nobody"]'
        = [w EXCEPT ![self] = s]
    <3>1. \A t \in Tcb : (IF InReceive(t) THEN call[t].peer ELSE "nobody")'
                         = IF t = self THEN s
                           ELSE IF InReceive(t) THEN call[t].peer ELSE "nobody"
      BY <1>0, <1>8, <2>1 DEF InReceive, Sleeping, SchedType, Recv
    <3> QED
      BY <3>1
  <2>6. CASE Sleeping(self)
    <3>1. w[self] = s
      BY <1>5, <2>6 DEF InReceive, Recv
    <3>2. [w EXCEPT ![self] = s] = w
      BY <3>1
    <3> QED
      BY <1>8, <2>4, <2>5, <3>2 DEF BoxStep, Boxes!mvars
  <2>7. CASE ~Sleeping(self)
    <3>1. w[self] = "nobody"
      BY <2>7 DEF InReceive
    <3>2. Boxes!From(self, s) = {}
      BY <1>8 DEF Boxes!From, Matches
    <3>3. Boxes!Await(self, s)
      BY <1>8, <2>5, <3>1, <3>2 DEF Boxes!Await
    <3> QED
      BY <2>4, <3>3 DEF BoxStep, Boxes!Exchange
  <2> QED
    BY <2>6, <2>7
<1> QED
  BY <1>1, <1>6, <1>7, <1>8, Zenon DEF sys_recv, Reschedule

\* All system calls; nobody traps.
LEMMA ExceptionsBox ==
  ASSUME Peaceful, WakeInv, Peace, TypeOK', ExceptionsNext
  PROVE  Peace' /\ BoxStep
<1>0. /\ TypeOK /\ SleepHolds /\ call \in [Tcb -> CallState]
      /\ SSI \in Tcb /\ User \in CallState /\ Recv(SSI) \in CallState
      /\ Recv(NULL) \in CallState
      /\ GoodCall(User) /\ GoodCall(Recv(SSI)) /\ GoodCall(Recv(NULL))
  BY NodeFacts, CallFacts DEF WakeInv, TypeOK, GoodCall, User, Recv, Plain, Killing
<1>1. ASSUME NEW op, Running(op)
      PROVE  /\ current_thread \in Tcb /\ call[current_thread].op = op
             /\ op # "recv" => ~Sleeping(current_thread)
  BY <1>0, <1>1, RunningFacts DEF SleepHolds, SleepsWell
<1>2. CASE Request
  <2>1. Running("user")
    BY <1>2 DEF Request
  <2>2. PICK m \in Requests : sys_send(SSI, m, Recv(SSI))
    BY <1>2 DEF Request
  <2>3. m \in Payload /\ m.tag \notin Killing
    <3>1. m \in Payload
      BY <2>2, InputAssumption, TagFacts
      DEF Requests, Payload, PlainTags, AllServices
    <3>2. m.tag \in Services
      BY <2>2 DEF Requests
    <3> QED
      BY <3>1, <3>2 DEF Peaceful
  <2> QED
    BY <1>0, <1>1, <2>1, <2>2, <2>3, SysSendBox
<1>3. CASE SysSend
  <2>1. Running("user")
    BY <1>3 DEF SysSend
  <2>2. PICK t \in Known \ {current_thread} : sys_send(t, Plain("mail"), User)
    BY <1>3 DEF SysSend
  <2>3. t \in Tcb /\ Plain("mail") \in Payload /\ Plain("mail").tag \notin Killing
    BY <2>2, PayloadFacts, TagFacts DEF Known, Plain, Killing
  <2> QED
    BY <1>0, <1>1, <2>1, <2>2, <2>3, SysSendBox
<1>4. CASE SysSendPending
  <2> DEFINE c == call[current_thread]
  <2>1. Running("send")
    BY <1>4 DEF SysSendPending
  <2>2. current_thread \in Tcb /\ c.peer \in Tcb /\ c.msg \in Payload /\ c.msg.tag \notin Killing
    BY <1>0, <1>1, <2>1, CallFacts DEF Peace, GoodCall
  <2>3. PICK next \in CallState : GoodCall(next) /\ sys_send(c.peer, c.msg, next)
    BY <1>0, <1>4 DEF SysSendPending
  <2> QED
    BY <1>0, <1>1, <2>1, <2>2, <2>3, SysSendBox
<1>5. CASE SysRecv
  <2>1. Running("user")
    BY <1>5 DEF SysRecv
  <2>2. PICK s \in Known \union {NULL} : sys_recv(s)
    BY <1>5 DEF SysRecv
  <2>3. s \in Tcb \union {NULL}
    BY <2>2 DEF Known
  <2> QED
    BY <1>1, <2>1, <2>2, <2>3, SysRecvBox
<1>6. CASE SysRecvPending
  <2>1. /\ current_thread \in Tcb /\ call[current_thread].op = "recv"
        /\ call[current_thread].peer \in Tcb \union {NULL}
    BY <1>0, <1>1, <1>6, CallFacts DEF SysRecvPending
  <2> QED
    BY <1>6, <2>1, SysRecvBox DEF SysRecvPending
<1>7. CASE SysPassup \/ TlbTrap \/ PgmTrap
  BY <1>7 DEF SysPassup, TlbTrap, PgmTrap, Peaceful
<1>8. CASE SysZero \/ Breakpoint
  <2>1. UNCHANGED <<sched, call, t_msgq, t_pcb, reap, device_list, current_thread>>
    BY <1>8 DEF SysZero, Breakpoint, mail, families
  <2>2. BoxStep
    BY <2>1, Unseen DEF Sleeping
  <2>3. Peace'
    BY <2>1, PeaceKept DEF Peace, BornPlaces, Unborn, Born
  <2> QED
    BY <2>2, <2>3
<1> QED
  BY <1>2, <1>3, <1>4, <1>5, <1>6, <1>7, <1>8 DEF ExceptionsNext

(*-------------------------- interrupts, scheduler ----------------------*)

\* The answer of a device or of the clock.
LEMMA AnswerBox ==
  ASSUME Peaceful, WakeInv, Peace, TypeOK',
         NEW s \in SchedType, s.status = sched.status, Closed(s), NEW t \in Tcb, Born(t),
         NEW tag \in {"status", "tick"},
         sched' = sent(resumed(s, t), SSI, t),
         sys_send_msg(SSI, t, Plain(tag), call),
         \A d \in Devices : device_list'[d] \in {device_list[d], NULL},
         UNCHANGED <<t_pcb, reap, current_thread>>
  PROVE  Peace' /\ BoxStep
<1>1. /\ TypeOK /\ SleepHolds /\ SSI \in Tcb /\ call \in [Tcb -> CallState]
      /\ Plain(tag) \in Payload /\ Plain(tag).tag \notin Killing /\ Born(SSI)
      /\ \A x \in Tcb : GoodCall(call[x])
  BY NodeFacts, PayloadFacts, TagFacts
  DEF WakeInv, TypeOK, Peace, BornPlaces, Plain, Killing
<1>2. resumed(s, t) \in SchedType /\ resumed(s, t).status = sched.status /\ Closed(resumed(s, t))
  BY QueueType, StatusFacts, ClosedOps DEF Heads, Born
<1>3. /\ sched'.status = IF Accepts(t, SSI) THEN [sched.status EXCEPT ![t] = "READY"]
                         ELSE sched.status
      /\ Closed(sched')
  <2>1. /\ wake_me_up(resumed(s, t), t).status = [resumed(s, t).status EXCEPT ![t] = "READY"]
        /\ Closed(wake_me_up(resumed(s, t), t))
    BY <1>2, StatusFacts, ClosedOps DEF Heads, Born
  <2> QED
    BY <1>2, <2>1 DEF sent
<1>4. BoxStep
  BY <1>1, <1>3, SendBoxes
<1>5. /\ \A x \in Tcb : GoodCall(call'[x])
      /\ \A x \in Tcb : \A i \in DOMAIN t_msgq'[x] : GoodMail(t_msgq'[x][i])
      /\ \A x \in Tcb : ~Born(x) => t_msgq'[x] = <<>>
  BY <1>1, SendPeace
<1>6. \A x \in Tcb : Born(x)' <=> Born(x)
  BY <1>1, <1>3, BornKept DEF Status
<1>7. Peace'
  <2>1. \A d \in Devices : device_list'[d] # NULL => Born(device_list'[d])
    BY DEF Peace, BornPlaces
  <2>2. current_thread' # NULL => Born(current_thread')
    BY DEF Peace, BornPlaces
  <2> QED
    BY <1>3, <1>5, <1>6, <2>1, <2>2, PeaceKept
<1> QED
  BY <1>4, <1>7

\* The timer, the devices and the scheduler.
LEMMA NucleusBox ==
  ASSUME Peaceful, WakeInv, Peace, TypeOK', InterruptsNext \/ SchedulerNext
  PROVE  Peace' /\ BoxStep
<1>0. /\ TypeOK /\ sched \in SchedType /\ Closed(sched)
      /\ device_list \in [Devices -> Tcb \union {NULL}]
  BY DEF WakeInv, TypeOK, Peace, BornPlaces
\* Steps that only move threads.
<1>1. ASSUME sched'.status = sched.status, Closed(sched'),
             current_thread' # NULL => Born(current_thread'),
             UNCHANGED <<call, t_msgq, t_pcb, reap, device_list>>
      PROVE  Peace' /\ BoxStep
  <2>1. BoxStep
    BY <1>1, Unseen DEF Sleeping
  <2>2. \A d \in Devices : device_list'[d] # NULL => Born(device_list'[d])
    BY <1>1 DEF Peace, BornPlaces
  <2>3. Peace'
    BY <1>1, <2>2, PeaceKept DEF Peace, Unborn, Born
  <2> QED
    BY <2>1, <2>3
<1>2. CASE SliceOver
  <2>1. current_thread \in Tcb /\ sched.status[current_thread] # "NONE"
    BY <1>0, <1>2 DEF SliceOver, TypeOK, Peace, BornPlaces, Born
  <2>2. /\ thread_enqueue(sched, current_thread, "ready_queue").status = sched.status
        /\ Closed(thread_enqueue(sched, current_thread, "ready_queue"))
    BY <1>0, <2>1, StatusFacts, ClosedOps DEF Heads
  <2> QED
    BY <1>1, <1>2, <2>2 DEF SliceOver, Reschedule, mail, families
<1>3. CASE Tick \/ Halt \/ Panic \/ Wait \/ FallThrough \/ Resume \/ Crash
  <2>1. UNCHANGED <<sched, current_thread, call, t_msgq, t_pcb, reap, device_list>>
    BY <1>3 DEF Tick, Halt, Panic, Wait, FallThrough, Stop, Resume, Crash, mail, families
  <2> QED
    BY <1>0, <1>1, <2>1 DEF Peace, BornPlaces
<1>4. ASSUME NEW d \in Devices, DeviceInterrupt(d)
      PROVE  Peace' /\ BoxStep
  <2> DEFINE t == device_list[d]
  <2>1. /\ t \in Tcb /\ Born(t)
        /\ sched' = sent(resumed(sched, t), SSI, t)
        /\ sys_send_msg(SSI, t, Plain("status"), call)
        /\ device_list' = [device_list EXCEPT ![d] = NULL]
        /\ UNCHANGED <<t_pcb, reap, current_thread>>
    BY <1>0, <1>4 DEF DeviceInterrupt, TypeOK, Peace, BornPlaces, families
  <2>2. \A e \in Devices : device_list'[e] \in {device_list[e], NULL}
    BY <1>0, <2>1
  <2> QED
    BY <1>0, <2>1, <2>2, AnswerBox
<1>5. CASE ClockExpire
  <2> DEFINE t == thread_qhead(sched, clock)
             s == thread_dequeue(sched, clock)
  <2>1. clock \in Heads
    BY DEF clock, Heads
  <2>2. s \in SchedType /\ s.status = sched.status /\ Closed(s) /\ t \in Reach(sched)
    BY <1>0, <2>1, NodeFacts, QueueType, StatusFacts, ClosedHead
  <2>3. CASE /\ t \in Tcb
             /\ sched' = sent(resumed(s, t), SSI, t)
             /\ sys_send_msg(SSI, t, Plain("tick"), call)
             /\ UNCHANGED <<current_thread, cpu, t_wait4sender, families, manager,
                            device_list, reap>>
    <3> HIDE DEF s, t
    <3>1. Born(t)
      BY <2>2, <2>3, StoreAssumption DEF Reach, Born
    <3>2. /\ UNCHANGED <<t_pcb, reap, current_thread>>
          /\ \A d \in Devices : device_list'[d] \in {device_list[d], NULL}
      BY <2>3 DEF families
    <3> QED
      BY <2>2, <2>3, <3>1, <3>2, AnswerBox
  <2> QED
    BY <1>3, <1>5, <2>3, Zenon DEF ClockExpire
<1>6. CASE Dispatch
  <2> DEFINE t == thread_qhead(sched, "ready_queue")
  <2>1. /\ thread_dequeue(sched, "ready_queue").status = sched.status
        /\ Closed(thread_dequeue(sched, "ready_queue")) /\ t \in Reach(sched)
    BY <1>0, NodeFacts, StatusFacts, ClosedHead DEF Heads
  <2>2. CASE /\ t \in Tcb /\ t_pcb[t] # NULL
             /\ sched' = thread_dequeue(sched, "ready_queue")
             /\ current_thread' = t
             /\ cpu' = "run"
             /\ UNCHANGED <<call, mail, families, manager, device_list, reap>>
    <3>1. Born(t)
      BY <2>1, <2>2, StoreAssumption DEF Reach, Born
    <3> HIDE DEF t
    <3> QED
      BY <1>1, <2>1, <2>2, <3>1 DEF mail, families
  <2> QED
    BY <1>3, <1>6, <2>2, Zenon DEF Dispatch
<1> QED
  BY <1>2, <1>3, <1>4, <1>5, <1>6 DEF InterruptsNext, SchedulerNext

(*-------------------------------- theorem ------------------------------*)

\* At boot the boxes are clear, and two threads are born.
LEMMA InitBox == Init => Peace /\ (Peaceful => Boxes!Clear)
<1> SUFFICES ASSUME Init PROVE Peace /\ (Peaceful => Boxes!Clear)
  OBVIOUS
<1>0. SSI \in Tcb /\ test_thread \in Tcb /\ "ready_queue" \in Heads /\ Tcb \subseteq Node
  BY NodeFacts DEF Heads
<1>1. Alone \in SchedType /\ Closed(Alone)
  <2>1. Alone \in SchedType
    BY BoundAssumption DEF Alone, SchedType, Status
  <2>2. \A n \in Node : Alone.next[n] = n /\ Alone.prev[n] = n
    BY DEF Alone
  <2> QED
    BY <2>1, <2>2, NodeFacts DEF Closed, Reach
<1>2. Alone.status[SSI] # "NONE" /\ Alone.status[test_thread] # "NONE"
  BY <1>0 DEF Alone
<1> DEFINE one == thread_enqueue(Alone, SSI, "ready_queue")
<1>3. one \in SchedType /\ one.status = Alone.status /\ Closed(one)
  <2>1. one \in SchedType
    BY <1>0, <1>1, QueueType
  <2>2. one.status = Alone.status
    <3>1. Alone \in SchedType
      BY <1>1
    <3> QED
      BY <1>0, <3>1, StatusFacts DEF Heads
  <2>3. Closed(one)
    BY <1>0, <1>1, <1>2, ClosedOps
  <2> QED
    BY <2>1, <2>2, <2>3
<1> HIDE DEF one
<1>4. sched = thread_enqueue(one, test_thread, "ready_queue")
  BY DEF Init, one
<1>5. sched.status = Alone.status /\ Closed(sched)
  <2>1. sched.status = one.status
    <3>1. one \in SchedType /\ test_thread \in Tcb /\ "ready_queue" \in Heads
      BY <1>0, <1>3
    <3>2. thread_enqueue(one, test_thread, "ready_queue").status = one.status
      BY <3>1, EnqueueStatus
    <3> QED
      BY <1>4, <3>2
  <2>2. Closed(sched)
    BY <1>0, <1>2, <1>3, <1>4, ClosedOps
  <2> QED
    BY <1>3, <2>1, <2>2
<1>6. \A t \in Tcb : /\ Born(t) <=> t \in {SSI, test_thread}
                     /\ ~Sleeping(t)
  BY <1>5 DEF Born, Sleeping, Alone
<1>7. BornPlaces
  BY <1>0, <1>5, <1>6 DEF BornPlaces, Init
<1>8. Unborn
  BY <1>6, NodeFacts DEF Unborn, Init
<1>9. Peace
  BY <1>7, <1>8 DEF Peace, Init, Killers, GoodCall, Recv, User, Plain, Killing
<1>10. Boxes!Clear
  BY <1>6 DEF Boxes!Clear, Init, InReceive
<1> QED
  BY <1>9, <1>10

\* A step of the nucleus keeps the peace, and is one of Mailboxes.
LEMMA PeaceStep ==
  ASSUME Peaceful, FamilyInv, WakeInv, WakeInv', Peace, [Next]_vars
  PROVE  Peace' /\ BoxStep
<1>1. TypeOK' /\ ThreadTree
  BY DEF WakeInv, FamilyInv, FamilyTree
<1>2. CASE SsiNext
  BY <1>1, <1>2, ServicesBox
<1>3. CASE ExceptionsNext
  BY <1>1, <1>3, ExceptionsBox
<1>4. CASE InterruptsNext \/ SchedulerNext
  BY <1>1, <1>4, NucleusBox
<1>5. CASE UNCHANGED vars
  <2>1. UNCHANGED <<sched, call, t_msgq, t_pcb, reap, device_list, current_thread>>
    BY <1>5 DEF vars, mail, families
  <2>2. BoxStep
    BY <2>1, Unseen DEF Sleeping
  <2>3. Peace'
    BY <1>1, <2>1, PeaceKept DEF Peace, BornPlaces, Unborn, Born
  <2> QED
    BY <2>2, <2>3
<1> QED
  BY <1>2, <1>3, <1>4, <1>5 DEF Next

\* Where nobody is killed and nobody traps, nobody comes to it.
LEMMA PeaceInductive ==
  ASSUME Peaceful
  PROVE  Spec => []Peace
<1>0. Services \intersect Managing = {}
  BY DEF Peaceful
<1>1. Init => Peace
  BY InitBox
<1>2. FamilyInv /\ WakeInv /\ WakeInv' /\ Peace /\ [Next]_vars => Peace'
  BY PeaceStep
<1>3. Spec => []WakeInv
  BY <1>0, WakeInductive
<1> QED
  BY <1>1, <1>2, <1>3, FamilyInductive, PTL DEF Spec

\* SYS_SEND and SYS_RECV keep the promise of Mailboxes, for any number of
\* threads, messages and devices: messages of one sender are received in
\* the order they were sent, none is lost once accepted, none is doubled,
\* and only the receiver that waits for its sender is handed one.
THEOREM MailRefined ==
  ASSUME Peaceful
  PROVE  Spec => KeepsMail
<1>0. Services \intersect Managing = {}
  BY DEF Peaceful
<1>1. Init => Boxes!Clear
  BY InitBox
<1>2. FamilyInv /\ WakeInv /\ WakeInv' /\ Peace /\ [Next]_vars
      => [Boxes!Exchange]_Boxes!mvars
  BY PeaceStep DEF BoxStep
<1>3. Spec => []WakeInv
  BY <1>0, WakeInductive
<1> QED
  BY <1>1, <1>2, <1>3, FamilyInductive, PeaceInductive, PTL
  DEF Spec, KeepsMail, Boxes!MailSpec
==============================================================================
