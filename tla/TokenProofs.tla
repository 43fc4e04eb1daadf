----------------------------- MODULE TokenProofs -----------------------------
(***************************************************************************)
(* Where nobody is killed and nobody traps, a live thread is in one place, *)
(* soft_block_count counts the blocked threads, no request is answered     *)
(* twice, and the pool and the queues together keep all the messages, for  *)
(* every value of the constants of Nucleus.                                *)
(***************************************************************************)
EXTENDS RingProofs

(*-------------------------------- requests -----------------------------*)

\* The messages of one sender in a queue.
MailOf(q, x) == {i \in DOMAIN q : q[i].from = x}
Single(S)    == \A i, j \in S : i = j

\* What is new at the end of a queue, and what is left where one is taken.
LEMMA MailAppend ==
  ASSUME NEW q \in Seq(Message), NEW e, NEW x
  PROVE  /\ e.from # x => MailOf(Append(q, e), x) = MailOf(q, x)
         /\ e.from = x => MailOf(Append(q, e), x) = MailOf(q, x) \union {Len(q) + 1}
<1>1. /\ DOMAIN q = 1..Len(q) /\ Len(q) \in Nat
      /\ DOMAIN Append(q, e) = 1..(Len(q) + 1)
      /\ Append(q, e)[Len(q) + 1] = e
      /\ \A i \in 1..Len(q) : Append(q, e)[i] = q[i]
  OBVIOUS
<1>2. \A i \in 1..(Len(q) + 1) : i \in 1..Len(q) \/ i = Len(q) + 1
  BY <1>1
<1>3. 1..Len(q) \subseteq 1..(Len(q) + 1) /\ Len(q) + 1 \in 1..(Len(q) + 1)
  BY <1>1
<1> QED
  BY <1>1, <1>2, <1>3 DEF MailOf

LEMMA MailRemove ==
  ASSUME NEW q \in Seq(Message), NEW i \in 1..Len(q), NEW x
  PROVE  /\ q[i].from # x => (MailOf(RemoveAt(q, i), x) = {} <=> MailOf(q, x) = {})
         /\ Single(MailOf(q, x)) => Single(MailOf(RemoveAt(q, i), x))
         /\ q[i].from = x /\ Single(MailOf(q, x)) => MailOf(RemoveAt(q, i), x) = {}
<1> DEFINE r    == RemoveAt(q, i)
           n    == Len(q)
           g(j) == IF j < i THEN j ELSE j + 1
<1>1. /\ n \in Nat /\ DOMAIN q = 1..n /\ DOMAIN r = 1..(n - 1)
      /\ \A j \in 1..(n - 1) : r[j] = q[g(j)]
  <2>1. /\ r \in Seq(Message) /\ Len(r) = n - 1
        /\ \A j \in 1..(n - 1) : r[j] = IF j < i THEN q[j] ELSE q[j + 1]
    BY RemoveAtElements
  <2>2. n \in Nat /\ DOMAIN q = 1..n
    OBVIOUS
  <2> HIDE DEF r, n
  <2>3. DOMAIN r = 1..(n - 1)
    BY <2>1, <2>2
  <2> QED
    BY <2>1, <2>2, <2>3
<1>2. i \in 1..n
  OBVIOUS
<1> HIDE DEF r, n
<1>3. \A j \in 1..(n - 1) : g(j) \in 1..n /\ g(j) # i
  BY <1>1, <1>2
<1>4. \A j, k \in 1..(n - 1) : g(j) = g(k) => j = k
  BY <1>1, <1>2
<1>5. \A k \in 1..n : k # i => \E j \in 1..(n - 1) : g(j) = k
  <2> SUFFICES ASSUME NEW k \in 1..n, k # i PROVE \E j \in 1..(n - 1) : g(j) = k
    OBVIOUS
  <2>1. CASE k < i
    BY <1>1, <1>2, <2>1
  <2>2. CASE k > i
    <3>1. k - 1 \in 1..(n - 1) /\ g(k - 1) = k
      BY <1>1, <1>2, <2>2
    <3> QED
      BY <3>1
  <2> QED
    BY <1>1, <1>2, <2>1, <2>2
<1> HIDE DEF g
<1>6. \A j \in MailOf(r, x) : j \in 1..(n - 1) /\ g(j) \in MailOf(q, x) /\ g(j) # i
  BY <1>1, <1>3 DEF MailOf
<1>7. Single(MailOf(q, x)) => Single(MailOf(r, x))
  BY <1>4, <1>6 DEF Single
<1>8. q[i].from = x => i \in MailOf(q, x)
  BY <1>1, <1>2 DEF MailOf
<1>9. q[i].from # x => (MailOf(r, x) = {} <=> MailOf(q, x) = {})
  <2>1. ASSUME q[i].from # x, NEW k \in MailOf(q, x) PROVE MailOf(r, x) # {}
    <3>1. k \in 1..n /\ q[k].from = x /\ k # i
      BY <1>1, <2>1 DEF MailOf
    <3>2. PICK j \in 1..(n - 1) : g(j) = k
      BY <1>5, <3>1
    <3>3. j \in MailOf(r, x)
      BY <1>1, <3>1, <3>2 DEF MailOf
    <3> QED
      BY <3>3
  <2> QED
    BY <1>6, <2>1
<1> QED
  BY <1>6, <1>7, <1>8, <1>9 DEF r, Single

(*--------------------------------- tokens ------------------------------*)

\* Parked: at the clock or a device.
Off == {clock, "device"}

\* The SSI computes a service for t, or sends the reply.
Serves(c, t) == c[SSI].op \in {"serve", "send"} /\ c[SSI].peer = t

\* How far the request of a client has come; "none" is also the stage of a
\* request or a reply that was dropped for want of a message.
Stages == Off \union {"none", "asked", "served", "answered"}

LEMMA StageFacts ==
  /\ {"none", "asked", "served", "answered"} \subseteq Stages /\ Off \subseteq Stages
  /\ \A p \in {"none", "asked", "served", "answered"} : p \notin Off
BY DEF Stages, Off, clock

\* The request of client t is at stage p, for calls c, queues b and places
\* on: there is one trace of it, the one of that stage, and t is in the
\* receive that a request begins.
Held(t, p, c, b, on) ==
  /\ p \in Stages
  /\ Single(MailOf(b[SSI], t)) /\ (MailOf(b[SSI], t) # {} <=> p = "asked")
  /\ Serves(c, t) <=> p = "served"
  /\ IF on[t] \in Off THEN p = on[t] ELSE p \notin Off
  /\ Single(MailOf(b[t], SSI)) /\ (MailOf(b[t], SSI) # {} <=> p = "answered")
  /\ p # "none" => c[t] = Recv(SSI)
  /\ c[t].op \in {"user", "recv"}

\* Every client has one request at most; and the SSI asks nothing of itself.
Promised(k, c, b, on) ==
  /\ k \in [Clients -> Stages]
  /\ \A t \in Clients : Held(t, k[t], c, b, on)
  /\ MailOf(b[SSI], SSI) = {} /\ on[SSI] \notin Off /\ ~Serves(c, SSI)

\* What a step leaves as it is of client t.
Same(t, c, b, on, d, a, o) ==
  /\ d[t] = Recv(SSI) <=> c[t] = Recv(SSI)
  /\ d[t].op \in {"user", "recv"}
  /\ Serves(d, t) <=> Serves(c, t)
  /\ MailOf(a[SSI], t) = {} <=> MailOf(b[SSI], t) = {}
  /\ Single(MailOf(b[SSI], t)) => Single(MailOf(a[SSI], t))
  /\ MailOf(a[t], SSI) = {} <=> MailOf(b[t], SSI) = {}
  /\ Single(MailOf(b[t], SSI)) => Single(MailOf(a[t], SSI))
  /\ o[t] = on[t] \/ {o[t], on[t]} \intersect Off = {}

\* Where the pool is large enough for a message to or from each client, and
\* the clients write to the SSI only, nothing is dropped: the messages that
\* are out of the pool are the requests and the replies in the queues.
Ample == "SYS_SEND" \notin Calls /\ Cardinality(Tcb) <= MAXMSG + 1
Queued(k) == {t \in Clients : k[t] \in {"asked", "answered"}}
Exact(k, c, b, free) ==
  /\ \A t \in Clients : /\ c[t] = Recv(SSI) => k[t] # "none"
                        /\ \A i \in DOMAIN b[t] : b[t][i].from = SSI
  /\ free = MAXMSG - Cardinality(Queued(k))

\* A step that is about client t, and takes its request to stage p.
LEMMA StageStep ==
  ASSUME NEW k, NEW c, NEW b, NEW on, Promised(k, c, b, on),
         NEW t \in Clients, NEW p, NEW d, NEW a, NEW o, Held(t, p, d, a, o),
         \A x \in Clients \ {t} : Same(x, c, b, on, d, a, o),
         MailOf(a[SSI], SSI) = {}, o[SSI] \notin Off, ~Serves(d, SSI)
  PROVE  Promised([k EXCEPT ![t] = p], d, a, o)
<1>1. k \in [Clients -> Stages] /\ p \in Stages
  BY DEF Promised, Held
<1>2. ASSUME NEW x \in Clients, x # t PROVE Held(x, k[x], d, a, o)
  <2>1. Held(x, k[x], c, b, on) /\ Same(x, c, b, on, d, a, o)
    BY <1>2 DEF Promised
  <2> QED
    BY <2>1 DEF Held, Same
<1> QED
  BY <1>1, <1>2 DEF Promised

\* A step that is about no client's request.
LEMMA StageKept ==
  ASSUME NEW k, NEW c, NEW b, NEW on, Promised(k, c, b, on), NEW d, NEW a, NEW o,
         \A x \in Clients : Same(x, c, b, on, d, a, o),
         MailOf(a[SSI], SSI) = {}, o[SSI] \notin Off, ~Serves(d, SSI)
  PROVE  Promised(k, d, a, o)
<1>1. ASSUME NEW x \in Clients PROVE Held(x, k[x], d, a, o)
  <2>1. Held(x, k[x], c, b, on) /\ Same(x, c, b, on, d, a, o)
    BY DEF Promised
  <2> QED
    BY <2>1 DEF Held, Same
<1> QED
  BY <1>1 DEF Promised

\* A message in the queues that a request at stage p is, or its reply.
Weight(p) == IF p \in {"asked", "answered"} THEN 1 ELSE 0

LEMMA Weights ==
  /\ Weight("asked") = 1 /\ Weight("answered") = 1
  /\ \A p \in Off \union {"none", "served"} : Weight(p) = 0
BY DEF Weight, Off, clock

\* How many requests and replies are in the queues; there is a message left
\* for a client that has none there.
LEMMA QueuedCount ==
  ASSUME NEW k \in [Clients -> Stages], NEW t \in Clients, NEW p \in Stages
  PROVE  /\ Cardinality(Queued(k)) \in Nat
         /\ Cardinality(Queued([k EXCEPT ![t] = p]))
              = Cardinality(Queued(k)) - Weight(k[t]) + Weight(p)
         /\ Weight(k[t]) = 0 => Cardinality(Queued(k)) + 2 <= Cardinality(Tcb)
<1> DEFINE q == Queued(k)
           r == Queued([k EXCEPT ![t] = p])
<1>1. IsFiniteSet(Tcb) /\ SSI \in Tcb /\ Cardinality(Tcb) \in Nat
  BY TablesFinite, NodeFacts
<1>2. IsFiniteSet(Clients) /\ Cardinality(Clients) = Cardinality(Tcb) - 1
  BY <1>1, FS_RemoveElement DEF Clients
<1>3. q \subseteq Clients /\ r \subseteq Clients
  BY DEF Queued
<1>4. IsFiniteSet(q) /\ IsFiniteSet(r) /\ Cardinality(q) \in Nat /\ Cardinality(r) \in Nat
  BY <1>2, <1>3, FS_Subset, FS_CardinalityType
<1>5. /\ t \in q <=> k[t] \in {"asked", "answered"}
      /\ t \in r <=> p \in {"asked", "answered"}
      /\ \A x : x # t => (x \in q <=> x \in r)
  BY DEF Queued
<1> HIDE DEF q, r
<1>6. t \in q /\ t \in r => q = r
  BY <1>5
<1>7. t \notin q /\ t \notin r => q = r
  BY <1>5
<1>8. t \in q /\ t \notin r => r = q \ {t}
  BY <1>5
<1>9. t \notin q /\ t \in r => r = q \union {t}
  BY <1>5
<1>10. t \notin q => Cardinality(q) + 2 <= Cardinality(Tcb)
  <2> SUFFICES ASSUME t \notin q PROVE Cardinality(q) + 2 <= Cardinality(Tcb)
    OBVIOUS
  <2>1. /\ IsFiniteSet(Clients \ {t})
        /\ Cardinality(Clients \ {t}) = Cardinality(Clients) - 1
    BY <1>2, FS_RemoveElement
  <2>2. q \subseteq Clients \ {t}
    BY <1>3
  <2>3. Cardinality(q) <= Cardinality(Clients \ {t})
    BY <2>1, <2>2, FS_Subset
  <2> QED
    BY <1>1, <1>2, <1>4, <2>1, <2>3
<1>11. /\ t \in q /\ t \notin r => Cardinality(r) = Cardinality(q) - 1
       /\ t \notin q /\ t \in r => Cardinality(r) = Cardinality(q) + 1
  BY <1>4, <1>8, <1>9, FS_RemoveElement, FS_AddElement
<1> QED
  BY <1>4, <1>5, <1>6, <1>7, <1>10, <1>11 DEF q, r, Weight

\* The invariant of the requests: they have stages, all of them known where
\* the pool is large enough.
Tokened(c, b, free, on) ==
  \E k : Promised(k, c, b, on) /\ (Ample => Exact(k, c, b, free))

\* The messages for clients are old, or from the SSI.
Sourced(b, a) ==
  \A x \in Clients : \A i \in DOMAIN a[x] :
    \/ a[x][i].from = SSI
    \/ \E j \in DOMAIN b[x] : a[x][i].from = b[x][j].from

\* The step of a request, with its account of the pool.
LEMMA TokenStep ==
  ASSUME NEW k, NEW c, NEW b, NEW f, NEW on,
         Promised(k, c, b, on), Ample => Exact(k, c, b, f),
         NEW t \in Clients, NEW p, NEW d, NEW a, NEW g, NEW o, Held(t, p, d, a, o),
         \A x \in Clients \ {t} : Same(x, c, b, on, d, a, o),
         MailOf(a[SSI], SSI) = {}, o[SSI] \notin Off, ~Serves(d, SSI),
         Ample => Sourced(b, a) /\ (d[t] = Recv(SSI) => p # "none"),
         g = f + Weight(k[t]) - Weight(p)
  PROVE  Tokened(d, a, g, o)
<1> DEFINE l == [k EXCEPT ![t] = p]
<1>1. Promised(l, d, a, o)
  BY StageStep
<1>2. k \in [Clients -> Stages] /\ p \in Stages
  BY DEF Promised, Held
<1>3. ASSUME Ample PROVE Exact(l, d, a, g)
  <2>1. Exact(k, c, b, f) /\ Sourced(b, a)
    BY <1>3
  <2>2. /\ Cardinality(Queued(k)) \in Nat /\ MAXMSG \in Nat
        /\ Cardinality(Queued(l)) = Cardinality(Queued(k)) - Weight(k[t]) + Weight(p)
    BY <1>2, QueuedCount, BoundAssumption
  <2>3. \A x \in Clients : d[x] = Recv(SSI) => l[x] # "none"
    BY <1>2, <1>3, <2>1 DEF Exact, Same
  <2>4. \A x \in Clients : \A i \in DOMAIN a[x] : a[x][i].from = SSI
    BY <2>1 DEF Exact, Sourced
  <2>5. g = MAXMSG - Cardinality(Queued(l))
    BY <2>1, <2>2 DEF Exact, Weight
  <2> QED
    BY <2>3, <2>4, <2>5 DEF Exact
<1> QED
  BY <1>1, <1>3 DEF Tokened

\* The step that no request sees.
LEMMA TokenKept ==
  ASSUME NEW c, NEW b, NEW f, NEW on, Tokened(c, b, f, on), NEW d, NEW a, NEW o,
         \A x \in Clients : Same(x, c, b, on, d, a, o),
         MailOf(a[SSI], SSI) = {}, o[SSI] \notin Off, ~Serves(d, SSI),
         NEW g, Ample => Sourced(b, a) /\ g = f
  PROVE  Tokened(d, a, g, o)
<1>1. PICK k : Promised(k, c, b, on) /\ (Ample => Exact(k, c, b, f))
  BY DEF Tokened
<1>2. Promised(k, d, a, o)
  BY <1>1, StageKept
<1>3. Ample => Exact(k, d, a, g)
  BY <1>1 DEF Exact, Same, Sourced
<1> QED
  BY <1>2, <1>3 DEF Tokened

\* There is a message for a client that has none in the queues.
LEMMA MessageLeft ==
  ASSUME NEW k \in [Clients -> Stages], NEW c, NEW b, NEW f, Ample, Exact(k, c, b, f),
         NEW t \in Clients, Weight(k[t]) = 0
  PROVE  f # 0
<1>1. Cardinality(Queued(k)) \in Nat /\ Cardinality(Queued(k)) + 2 <= Cardinality(Tcb)
  BY QueuedCount, StageFacts
<1>2. MAXMSG \in Nat /\ Cardinality(Tcb) \in Nat
  BY BoundAssumption, TablesFinite
<1> QED
  BY <1>1, <1>2 DEF Ample, Exact

(*---------------------------------- sends ------------------------------*)

\* A thread moves, but not to or from the clock or a device.
Near(on, o) == \A x \in Tcb : o[x] = on[x] \/ {o[x], on[x]} \intersect Off = {}

LEMMA ClientFacts ==
  /\ SSI \in Tcb /\ Clients = Tcb \ {SSI} /\ SSI \notin Clients
  /\ Recv(SSI).op = "recv" /\ Recv(SSI) # User /\ User.op = "user"
  /\ \A s : Recv(s).op = "recv" /\ Recv(s).peer = s
  /\ \A s : Recv(s) = Recv(SSI) <=> s = SSI
  /\ \A s, m : Serve(s, m).op = "serve" /\ Serve(s, m).peer = s
  /\ \A s, m : Send(s, m).op = "send" /\ Send(s, m).peer = s
  /\ \A t \in Clients : \A s, m : Received(t, s, m) = User
  /\ \A s, m : Received(SSI, s, m) = Serve(s, m)
BY NodeFacts DEF Clients, Recv, User, Serve, Send, Received

\* sys_send_msg with its account of the pool.
LEMMA SendFacts ==
  ASSUME NEW from, NEW to, NEW m, NEW c, sys_send_msg(from, to, m, c)
  PROVE  \/ /\ Accepts(to, from)
            /\ call' = [c EXCEPT ![to] = Received(to, from, m)]
            /\ t_msgq' = t_msgq /\ free_msg' = free_msg
         \/ /\ ~Accepts(to, from) /\ call' = c
            /\ t_msgq' = [t_msgq EXCEPT ![to] = Append(@, [from |-> from, msg |-> m])]
            /\ free_msg' = free_msg - 1
         \/ /\ ~Accepts(to, from) /\ call' = c /\ t_msgq' = t_msgq
            /\ free_msg = 0 /\ free_msg' = free_msg
BY Zenon DEF sys_send_msg, msgq_add

\* What is new in a queue.
LEMMA SendMail ==
  ASSUME TypeOK, NEW from \in Tcb, NEW to \in Tcb, NEW e, e.from = from,
         t_msgq'[to] = Append(t_msgq[to], e), \A x \in Tcb \ {to} : t_msgq'[x] = t_msgq[x]
  PROVE  /\ \A x, y \in Tcb : x # to \/ y # from => MailOf(t_msgq'[x], y) = MailOf(t_msgq[x], y)
         /\ MailOf(t_msgq'[to], from) # {}
         /\ MailOf(t_msgq[to], from) = {} => Single(MailOf(t_msgq'[to], from))
         /\ \A x \in Tcb : \A i \in DOMAIN t_msgq'[x] :
              \/ i \in DOMAIN t_msgq[x] /\ t_msgq'[x][i].from = t_msgq[x][i].from
              \/ x = to /\ t_msgq'[x][i].from = from
<1>1. /\ t_msgq \in [Tcb -> Seq(Message)] /\ t_msgq'[to] = Append(t_msgq[to], e)
      /\ \A x \in Tcb \ {to} : t_msgq'[x] = t_msgq[x]
      /\ e.from = from
  BY DEF TypeOK
<1>2. /\ \A y \in Tcb \ {from} : MailOf(t_msgq'[to], y) = MailOf(t_msgq[to], y)
      /\ MailOf(t_msgq'[to], from) = MailOf(t_msgq[to], from) \union {Len(t_msgq[to]) + 1}
  <2>1. ASSUME NEW q \in Seq(Message)
        PROVE  /\ \A y \in Tcb \ {from} : MailOf(Append(q, e), y) = MailOf(q, y)
               /\ MailOf(Append(q, e), from) = MailOf(q, from) \union {Len(q) + 1}
    <3>1. e.from = from
      BY <1>1
    <3>2. \A y : /\ e.from # y => MailOf(Append(q, e), y) = MailOf(q, y)
                 /\ e.from = y => MailOf(Append(q, e), y) = MailOf(q, y) \union {Len(q) + 1}
      BY MailAppend
    <3> QED
      BY <3>1, <3>2
  <2>2. t_msgq[to] \in Seq(Message)
    BY <1>1
  <2> QED
    BY <1>1, <2>1, <2>2
<1>3. \A i \in DOMAIN t_msgq'[to] :
        \/ i \in DOMAIN t_msgq[to] /\ t_msgq'[to][i].from = t_msgq[to][i].from
        \/ t_msgq'[to][i].from = from
  <2>1. ASSUME NEW q \in Seq(Message), NEW i \in DOMAIN Append(q, e)
        PROVE  (i \in DOMAIN q /\ Append(q, e)[i] = q[i]) \/ Append(q, e)[i] = e
    OBVIOUS
  <2> QED
    BY <1>1, <2>1
<1> QED
  BY <1>1, <1>2, <1>3 DEF Single

\* A client asks the SSI for a service: the request is in the hands of the
\* SSI, or in its queue, or dropped.
LEMMA AskToken ==
  ASSUME TypeOK, SleepHolds, NEW on, NEW o, Near(on, o), o[SSI] \notin Off,
         Tokened(call, t_msgq, free_msg, on),
         NEW t \in Clients, call[t].op = "user", NEW m \in Payload,
         sys_send_msg(t, SSI, m, [call EXCEPT ![t] = Recv(SSI)])
  PROVE  Tokened(call', t_msgq', free_msg', o)
<1> DEFINE c == [call EXCEPT ![t] = Recv(SSI)]
<1>0. /\ t \in Tcb /\ t # SSI /\ SSI \in Tcb /\ call \in [Tcb -> CallState]
      /\ c \in [Tcb -> CallState] /\ c[t] = Recv(SSI)
      /\ \A x \in Tcb \ {t} : c[x] = call[x]
  BY ClientFacts, CallFacts DEF TypeOK
<1>1. PICK k : Promised(k, call, t_msgq, on) /\ (Ample => Exact(k, call, t_msgq, free_msg))
  BY DEF Tokened
<1>2. k \in [Clients -> Stages] /\ k[t] = "none" /\ Held(t, "none", call, t_msgq, on)
  BY <1>1, ClientFacts DEF Promised, Held
<1>3. /\ MailOf(t_msgq[SSI], t) = {} /\ MailOf(t_msgq[t], SSI) = {}
      /\ on[t] \notin Off /\ o[t] \notin Off
  <2>1. "none" \notin Off /\ (o[t] = on[t] \/ {o[t], on[t]} \intersect Off = {})
    BY <1>0, StageFacts DEF Near
  <2>2. on[t] \notin Off
    BY <1>2, <2>1 DEF Held
  <2> QED
    BY <1>2, <2>1, <2>2 DEF Held
<1> HIDE DEF c
<1>4. ASSUME NEW p \in {"served", "asked", "none"}, Held(t, p, call', t_msgq', o),
             \A x \in Clients \ {t} : Same(x, call, t_msgq, on, call', t_msgq', o),
             MailOf(t_msgq'[SSI], SSI) = {}, ~Serves(call', SSI),
             Ample => p # "none",
             free_msg' = free_msg - Weight(p),
             \A x \in Clients : t_msgq'[x] = t_msgq[x]
      PROVE  Tokened(call', t_msgq', free_msg', o)
  <2>1. free_msg' = free_msg + Weight(k[t]) - Weight(p)
    BY <1>2, <1>4 DEF Weight, TypeOK
  <2>2. Sourced(t_msgq, t_msgq')
    BY <1>4 DEF Sourced
  <2> QED
    BY <1>1, <1>4, <2>1, <2>2, TokenStep
<1>5. CASE /\ Accepts(SSI, t)
           /\ call' = [c EXCEPT ![SSI] = Received(SSI, t, m)]
           /\ t_msgq' = t_msgq /\ free_msg' = free_msg
  <2>1. call[SSI].op = "recv"
    BY <1>0, <1>5 DEF Accepts, SleepHolds, SleepsWell, Sleeping
  <2>2. \A x : /\ ~Serves(call, x)
               /\ Serves(call', x) <=> x = t
    BY <1>0, <1>5, <2>1, ClientFacts DEF Serves
  <2>3. Held(t, "served", call', t_msgq', o)
    BY <1>0, <1>2, <1>3, <1>5, <2>2, ClientFacts, StageFacts DEF Held
  <2>4. \A x \in Clients \ {t} : Same(x, call, t_msgq, on, call', t_msgq', o)
    <3> SUFFICES ASSUME NEW x \in Clients \ {t} PROVE Same(x, call, t_msgq, on, call', t_msgq', o)
      OBVIOUS
    <3>1. Held(x, k[x], call, t_msgq, on)
      BY <1>1 DEF Promised
    <3>2. x \in Tcb /\ x # SSI /\ call'[x] = call[x]
      BY <1>0, <1>5, ClientFacts
    <3>3. o[x] = on[x] \/ {o[x], on[x]} \intersect Off = {}
      BY <3>2 DEF Near
    <3> QED
      BY <1>0, <1>5, <2>2, <3>1, <3>2, <3>3 DEF Same, Held
  <2>5. free_msg' = free_msg - Weight("served")
    BY <1>5 DEF Weight, TypeOK
  <2> QED
    BY <1>0, <1>1, <1>4, <1>5, <2>2, <2>3, <2>4, <2>5 DEF Promised
<1>6. CASE /\ call' = c
           /\ t_msgq' = [t_msgq EXCEPT ![SSI] = Append(@, [from |-> t, msg |-> m])]
           /\ free_msg' = free_msg - 1
  <2>1. /\ \A x, y \in Tcb : x # SSI \/ y # t => MailOf(t_msgq'[x], y) = MailOf(t_msgq[x], y)
        /\ Single(MailOf(t_msgq'[SSI], t)) /\ MailOf(t_msgq'[SSI], t) # {}
    <3>1. \E e : /\ t_msgq'[SSI] = Append(t_msgq[SSI], e) /\ e.from = t
                /\ \A x \in Tcb \ {SSI} : t_msgq'[x] = t_msgq[x]
      <4> DEFINE e == [from |-> t, msg |-> m]
      <4>1. /\ t_msgq'[SSI] = Append(t_msgq[SSI], e) /\ e.from = t
            /\ \A x \in Tcb \ {SSI} : t_msgq'[x] = t_msgq[x]
        BY <1>0, <1>6 DEF TypeOK
      <4> QED
        BY <4>1
    <3>2. PICK e : /\ t_msgq'[SSI] = Append(t_msgq[SSI], e) /\ e.from = t
                   /\ \A x \in Tcb \ {SSI} : t_msgq'[x] = t_msgq[x]
      BY <3>1
    <3>3. t \in Tcb /\ SSI \in Tcb
      BY <1>0
    <3> QED
      BY <3>2, <3>3, <1>3, SendMail
  <2>2. \A x : Serves(call', x) <=> Serves(call, x)
    BY <1>0, <1>6 DEF Serves
  <2>3. Held(t, "asked", call', t_msgq', o)
    <3>1. ~Serves(call', t) /\ call'[t] = Recv(SSI) /\ call'[t].op = "recv"
      BY <1>0, <1>2, <1>6, <2>2, ClientFacts DEF Held
    <3>2. MailOf(t_msgq'[t], SSI) = {} /\ Single(MailOf(t_msgq'[t], SSI))
      BY <1>0, <1>2, <1>3, <2>1 DEF Held
    <3> QED
      BY <1>3, <2>1, <3>1, <3>2, StageFacts DEF Held
  <2>4. \A x \in Clients \ {t} : Same(x, call, t_msgq, on, call', t_msgq', o)
    <3> SUFFICES ASSUME NEW x \in Clients \ {t} PROVE Same(x, call, t_msgq, on, call', t_msgq', o)
      OBVIOUS
    <3>1. Held(x, k[x], call, t_msgq, on)
      BY <1>1 DEF Promised
    <3>2. x \in Tcb /\ x # SSI /\ call'[x] = call[x]
      BY <1>0, <1>6, ClientFacts
    <3>3. o[x] = on[x] \/ {o[x], on[x]} \intersect Off = {}
      BY <3>2 DEF Near
    <3> QED
      BY <1>0, <1>6, <2>1, <2>2, <3>1, <3>2, <3>3 DEF Same, Held
  <2>5. \A x \in Clients : t_msgq'[x] = t_msgq[x]
    BY <1>0, <1>6, ClientFacts DEF TypeOK
  <2> QED
    BY <1>0, <1>1, <1>4, <1>6, <2>1, <2>2, <2>3, <2>4, <2>5 DEF Promised, Weight
<1>7. CASE call' = c /\ t_msgq' = t_msgq /\ free_msg = 0 /\ free_msg' = free_msg
  <2>1. \A x : Serves(call', x) <=> Serves(call, x)
    BY <1>0, <1>7 DEF Serves
  <2>2. Held(t, "none", call', t_msgq', o)
    BY <1>0, <1>2, <1>3, <1>7, <2>1, StageFacts, ClientFacts DEF Held
  <2>3. \A x \in Clients \ {t} : Same(x, call, t_msgq, on, call', t_msgq', o)
    BY <1>0, <1>1, <1>7, <2>1, ClientFacts DEF Same, Near, Promised, Held
  <2>4. ASSUME Ample PROVE FALSE
    <3>1. Exact(k, call, t_msgq, free_msg) /\ Weight(k[t]) = 0
      BY <1>1, <1>2, <2>4 DEF Weight
    <3> QED
      BY <1>2, <1>7, <2>4, <3>1, MessageLeft
  <2>5. free_msg' = free_msg - Weight("none")
    BY <1>7, Weights
  <2> QED
    BY <1>0, <1>1, <1>4, <1>7, <2>1, <2>2, <2>3, <2>4, <2>5 DEF Promised
<1> QED
  BY <1>5, <1>6, <1>7, SendFacts DEF c

\* The SSI answers a client, by its reply, a device or the clock, when it
\* has the calls c left: the answer is in the hands of the client, in its
\* queue, or dropped.
LEMMA AnswerToken ==
  ASSUME TypeOK, SleepHolds, NEW on, NEW o, NEW t \in Clients,
         Serves(call, t) \/ on[t] \in Off,
         \A x \in Tcb \ {t} : o[x] = on[x] \/ {o[x], on[x]} \intersect Off = {},
         o[t] \notin Off, o[SSI] \notin Off,
         NEW c \in [Tcb -> CallState], \A x \in Clients : c[x] = call[x],
         \A x : Serves(c, x) <=> x # t /\ Serves(call, x),
         NEW m \in Payload, sys_send_msg(SSI, t, m, c),
         Tokened(call, t_msgq, free_msg, on)
  PROVE  Tokened(call', t_msgq', free_msg', o)
<1>0. /\ t \in Tcb /\ t # SSI /\ SSI \in Tcb /\ call \in [Tcb -> CallState]
      /\ free_msg \in Nat
  BY ClientFacts DEF TypeOK
<1>1. PICK k : Promised(k, call, t_msgq, on) /\ (Ample => Exact(k, call, t_msgq, free_msg))
  BY DEF Tokened
<1>2. /\ k \in [Clients -> Stages] /\ Held(t, k[t], call, t_msgq, on)
      /\ MailOf(t_msgq[SSI], SSI) = {} /\ ~Serves(call, SSI)
  BY <1>1 DEF Promised
<1>3. /\ Single(MailOf(t_msgq[SSI], t)) /\ MailOf(t_msgq[SSI], t) = {}
      /\ Single(MailOf(t_msgq[t], SSI)) /\ MailOf(t_msgq[t], SSI) = {}
      /\ call[t] = Recv(SSI) /\ Weight(k[t]) = 0
  BY <1>2, StageFacts DEF Held, Weight
<1>4. ASSUME NEW p \in {"answered", "none"}, Held(t, p, call', t_msgq', o),
             \A x \in Clients \ {t} : Same(x, call, t_msgq, on, call', t_msgq', o),
             MailOf(t_msgq'[SSI], SSI) = {}, ~Serves(call', SSI),
             Ample => (call'[t] = Recv(SSI) => p # "none"),
             free_msg' = free_msg - Weight(p),
             Sourced(t_msgq, t_msgq')
      PROVE  Tokened(call', t_msgq', free_msg', o)
  <2>1. free_msg' = free_msg + Weight(k[t]) - Weight(p)
    BY <1>0, <1>3, <1>4 DEF Weight
  <2> QED
    BY <1>1, <1>4, <2>1, TokenStep
<1>5. CASE /\ Accepts(t, SSI)
           /\ call' = [c EXCEPT ![t] = Received(t, SSI, m)]
           /\ t_msgq' = t_msgq /\ free_msg' = free_msg
  <2>1. \A x : Serves(call', x) <=> x # t /\ Serves(call, x)
    BY <1>0, <1>5 DEF Serves
  <2>2. Held(t, "none", call', t_msgq', o)
    <3>1. call'[t] = User
      BY <1>0, <1>5, ClientFacts
    <3> QED
      BY <1>0, <1>3, <1>5, <2>1, <3>1, StageFacts, ClientFacts DEF Held
  <2>3. \A x \in Clients \ {t} : Same(x, call, t_msgq, on, call', t_msgq', o)
    <3> SUFFICES ASSUME NEW x \in Clients \ {t} PROVE Same(x, call, t_msgq, on, call', t_msgq', o)
      OBVIOUS
    <3>1. Held(x, k[x], call, t_msgq, on)
      BY <1>1 DEF Promised
    <3>2. x \in Tcb /\ x # SSI /\ call'[x] = call[x]
      BY <1>0, <1>5, ClientFacts
    <3> QED
      BY <1>0, <1>5, <2>1, <3>1, <3>2 DEF Same, Held
  <2>4. call'[t] # Recv(SSI) /\ Sourced(t_msgq, t_msgq')
    BY <1>0, <1>5, ClientFacts DEF Sourced
  <2>5. free_msg' = free_msg - Weight("none")
    BY <1>0, <1>5 DEF Weight
  <2> QED
    BY <1>2, <1>4, <1>5, <2>1, <2>2, <2>3, <2>4, <2>5
<1>6. CASE /\ call' = c
           /\ t_msgq' = [t_msgq EXCEPT ![t] = Append(@, [from |-> SSI, msg |-> m])]
           /\ free_msg' = free_msg - 1
  <2>1. /\ \A x, y \in Tcb : x # t \/ y # SSI => MailOf(t_msgq'[x], y) = MailOf(t_msgq[x], y)
        /\ Single(MailOf(t_msgq'[t], SSI)) /\ MailOf(t_msgq'[t], SSI) # {}
        /\ \A x \in Tcb : \A i \in DOMAIN t_msgq'[x] :
              \/ i \in DOMAIN t_msgq[x] /\ t_msgq'[x][i].from = t_msgq[x][i].from
              \/ x = t /\ t_msgq'[x][i].from = SSI
    <3>1. /\ \A x, y \in Tcb : x # t \/ y # SSI => MailOf(t_msgq'[x], y) = MailOf(t_msgq[x], y)
          /\ MailOf(t_msgq'[t], SSI) # {}
          /\ MailOf(t_msgq[t], SSI) = {} => Single(MailOf(t_msgq'[t], SSI))
          /\ \A x \in Tcb : \A i \in DOMAIN t_msgq'[x] :
               \/ i \in DOMAIN t_msgq[x] /\ t_msgq'[x][i].from = t_msgq[x][i].from
               \/ x = t /\ t_msgq'[x][i].from = SSI
      <4>1. \E e : /\ t_msgq'[t] = Append(t_msgq[t], e) /\ e.from = SSI
                  /\ \A x \in Tcb \ {t} : t_msgq'[x] = t_msgq[x]
        <5> DEFINE e == [from |-> SSI, msg |-> m]
        <5>1. /\ t_msgq'[t] = Append(t_msgq[t], e) /\ e.from = SSI
              /\ \A x \in Tcb \ {t} : t_msgq'[x] = t_msgq[x]
          BY <1>0, <1>6 DEF TypeOK
        <5> QED
          BY <5>1
      <4>2. PICK e : /\ t_msgq'[t] = Append(t_msgq[t], e) /\ e.from = SSI
                     /\ \A x \in Tcb \ {t} : t_msgq'[x] = t_msgq[x]
        BY <4>1
      <4>3. SSI \in Tcb /\ t \in Tcb
        BY <1>0
      <4>4. e.from = SSI
        BY <4>2
      <4>5. t_msgq'[t] = Append(t_msgq[t], e)
        BY <4>2
      <4>6. \A x \in Tcb \ {t} : t_msgq'[x] = t_msgq[x]
        BY <4>2
      <4>7. /\ \A x, y \in Tcb : x # t \/ y # SSI => MailOf(t_msgq'[x], y) = MailOf(t_msgq[x], y)
            /\ MailOf(t_msgq'[t], SSI) # {}
            /\ MailOf(t_msgq[t], SSI) = {} => Single(MailOf(t_msgq'[t], SSI))
        BY <4>3, <4>4, <4>5, <4>6, SendMail
      <4>8. \A x \in Tcb : \A i \in DOMAIN t_msgq'[x] :
               \/ i \in DOMAIN t_msgq[x] /\ t_msgq'[x][i].from = t_msgq[x][i].from
               \/ x = t /\ t_msgq'[x][i].from = SSI
        BY <4>3, <4>4, <4>5, <4>6, SendMail
      <4> QED
        BY <4>7, <4>8
    <3> QED
      BY <1>3, <3>1
  <2>2. \A x : Serves(call', x) <=> x # t /\ Serves(call, x)
    BY <1>6
  <2>3. Held(t, "answered", call', t_msgq', o)
    <3>1. ~Serves(call', t) /\ call'[t] = Recv(SSI) /\ call'[t].op = "recv"
      BY <1>0, <1>3, <1>6, <2>2, ClientFacts DEF Held
    <3>2. MailOf(t_msgq'[SSI], t) = {} /\ Single(MailOf(t_msgq'[SSI], t))
      BY <1>0, <1>3, <2>1 DEF Held
    <3> QED
      BY <1>3, <2>1, <3>1, <3>2, StageFacts DEF Held
  <2>4. \A x \in Clients \ {t} : Same(x, call, t_msgq, on, call', t_msgq', o)
    <3> SUFFICES ASSUME NEW x \in Clients \ {t} PROVE Same(x, call, t_msgq, on, call', t_msgq', o)
      OBVIOUS
    <3>1. Held(x, k[x], call, t_msgq, on)
      BY <1>1 DEF Promised
    <3>2. x \in Tcb /\ x # SSI /\ call'[x] = call[x]
      BY <1>0, <1>6, ClientFacts
    <3> QED
      BY <1>0, <1>6, <2>1, <2>2, <3>1, <3>2 DEF Same, Held
  <2>5. Sourced(t_msgq, t_msgq')
    BY <2>1, ClientFacts DEF Sourced
  <2>6. free_msg' = free_msg - Weight("answered") /\ MailOf(t_msgq'[SSI], SSI) = {}
    BY <1>0, <1>2, <1>6, <2>1 DEF Weight
  <2> QED
    BY <1>2, <1>4, <2>2, <2>3, <2>4, <2>5, <2>6
<1>7. CASE call' = c /\ t_msgq' = t_msgq /\ free_msg = 0 /\ free_msg' = free_msg
  <2>1. \A x : Serves(call', x) <=> x # t /\ Serves(call, x)
    BY <1>7
  <2>2. Held(t, "none", call', t_msgq', o)
    BY <1>0, <1>3, <1>7, <2>1, StageFacts, ClientFacts DEF Held
  <2>3. \A x \in Clients \ {t} : Same(x, call, t_msgq, on, call', t_msgq', o)
    <3> SUFFICES ASSUME NEW x \in Clients \ {t} PROVE Same(x, call, t_msgq, on, call', t_msgq', o)
      OBVIOUS
    <3>1. Held(x, k[x], call, t_msgq, on)
      BY <1>1 DEF Promised
    <3>2. x \in Tcb /\ x # SSI /\ call'[x] = call[x]
      BY <1>0, <1>7, ClientFacts
    <3> QED
      BY <1>0, <1>7, <2>1, <3>1, <3>2 DEF Same, Held
  <2>4. ASSUME Ample PROVE FALSE
    <3>1. Exact(k, call, t_msgq, free_msg)
      BY <1>1, <2>4
    <3> QED
      BY <1>2, <1>3, <1>7, <2>4, <3>1, MessageLeft
  <2>5. free_msg' = free_msg - Weight("none") /\ Sourced(t_msgq, t_msgq')
    BY <1>7, Weights DEF Sourced
  <2> QED
    BY <1>2, <1>4, <1>7, <2>1, <2>2, <2>3, <2>4, <2>5
<1> QED
  BY <1>5, <1>6, <1>7, SendFacts

(*-------------------------------- receives -----------------------------*)

\* What is left of a queue.
LEMMA TakeMail ==
  ASSUME TypeOK, NEW self \in Tcb, NEW i \in 1..Len(t_msgq[self]),
         t_msgq' = [t_msgq EXCEPT ![self] = RemoveAt(@, i)]
  PROVE  LET f == t_msgq[self][i].from IN
         /\ f \in Tcb /\ i \in MailOf(t_msgq[self], f)
         /\ \A x, y \in Tcb :
              /\ x # self \/ y # f => (MailOf(t_msgq'[x], y) = {} <=> MailOf(t_msgq[x], y) = {})
              /\ Single(MailOf(t_msgq[x], y)) => Single(MailOf(t_msgq'[x], y))
         /\ Single(MailOf(t_msgq[self], f)) => MailOf(t_msgq'[self], f) = {}
         /\ Sourced(t_msgq, t_msgq')
<1> DEFINE q == t_msgq[self]
           f == q[i].from
<1>1. /\ t_msgq \in [Tcb -> Seq(Message)] /\ q \in Seq(Message)
      /\ t_msgq'[self] = RemoveAt(q, i)
      /\ \A x \in Tcb \ {self} : t_msgq'[x] = t_msgq[x]
  BY DEF TypeOK
<1>2. i \in 1..Len(q)
  OBVIOUS
<1> HIDE DEF q
<1>3. f \in Tcb /\ i \in MailOf(q, f)
  <2>1. q[i] \in Message /\ i \in DOMAIN q
    BY <1>1, <1>2
  <2> QED
    BY <2>1 DEF Message, MailOf
<1>4. \A y : /\ f # y => (MailOf(RemoveAt(q, i), y) = {} <=> MailOf(q, y) = {})
             /\ Single(MailOf(q, y)) => Single(MailOf(RemoveAt(q, i), y))
             /\ f = y /\ Single(MailOf(q, y)) => MailOf(RemoveAt(q, i), y) = {}
  BY <1>1, <1>2, MailRemove
<1>5. \A j \in DOMAIN RemoveAt(q, i) : \E k \in DOMAIN q : RemoveAt(q, i)[j] = q[k]
  <2>1. /\ RemoveAt(q, i) \in Seq(Message) /\ Len(RemoveAt(q, i)) = Len(q) - 1
        /\ \A j \in 1..(Len(q) - 1) : RemoveAt(q, i)[j] = IF j < i THEN q[j] ELSE q[j + 1]
    BY <1>1, <1>2, RemoveAtElements
  <2>2. DOMAIN RemoveAt(q, i) = 1..(Len(q) - 1) /\ DOMAIN q = 1..Len(q) /\ Len(q) \in Nat
    BY <1>1, <2>1
  <2>3. \A j \in 1..(Len(q) - 1) : j \in 1..Len(q) /\ j + 1 \in 1..Len(q)
    BY <2>2
  <2> QED
    BY <2>1, <2>2, <2>3
<1> HIDE DEF f
<1>6. Sourced(t_msgq, t_msgq')
  <2> SUFFICES ASSUME NEW x \in Clients, NEW j \in DOMAIN t_msgq'[x]
               PROVE  \E k \in DOMAIN t_msgq[x] : t_msgq'[x][j].from = t_msgq[x][k].from
    BY DEF Sourced
  <2>1. CASE x = self
    BY <1>1, <1>5, <2>1 DEF q
  <2>2. CASE x # self
    BY <1>1, <2>2, ClientFacts
  <2> QED
    BY <2>1, <2>2
<1>7. /\ \A x, y \in Tcb :
           /\ x # self \/ y # f => (MailOf(t_msgq'[x], y) = {} <=> MailOf(t_msgq[x], y) = {})
           /\ Single(MailOf(t_msgq[x], y)) => Single(MailOf(t_msgq'[x], y))
      /\ Single(MailOf(t_msgq[self], f)) => MailOf(t_msgq'[self], f) = {}
  <2>1. ASSUME NEW x \in Tcb, NEW y \in Tcb
        PROVE  /\ x # self \/ y # f => (MailOf(t_msgq'[x], y) = {} <=> MailOf(t_msgq[x], y) = {})
               /\ Single(MailOf(t_msgq[x], y)) => Single(MailOf(t_msgq'[x], y))
    <3>1. CASE x = self
      BY <1>1, <1>4, <3>1 DEF q
    <3>2. CASE x # self
      BY <1>1, <3>2
    <3> QED
      BY <3>1, <3>2
  <2>2. Single(MailOf(t_msgq[self], f)) => MailOf(t_msgq'[self], f) = {}
    BY <1>1, <1>4 DEF q
  <2> QED
    BY <2>1, <2>2
<1> QED
  BY <1>3, <1>6, <1>7 DEF f, q

\* The SSI takes a request out of its queue.
LEMMA SsiTakes ==
  ASSUME TypeOK, NEW on, NEW o, Near(on, o), o[SSI] \notin Off,
         Tokened(call, t_msgq, free_msg, on), call[SSI].op = "recv",
         NEW i \in 1..Len(t_msgq[SSI]),
         t_msgq' = [t_msgq EXCEPT ![SSI] = RemoveAt(@, i)],
         call' = [call EXCEPT ![SSI] = Serve(t_msgq[SSI][i].from, t_msgq[SSI][i].msg)],
         free_msg' = free_msg + 1
  PROVE  Tokened(call', t_msgq', free_msg', o)
<1> DEFINE t == t_msgq[SSI][i].from
<1>0. SSI \in Tcb /\ call \in [Tcb -> CallState] /\ free_msg \in Nat
  BY ClientFacts DEF TypeOK
<1>1. PICK k : Promised(k, call, t_msgq, on) /\ (Ample => Exact(k, call, t_msgq, free_msg))
  BY DEF Tokened
<1>2. /\ t \in Tcb /\ i \in MailOf(t_msgq[SSI], t)
      /\ \A x, y \in Tcb :
           /\ x # SSI \/ y # t => (MailOf(t_msgq'[x], y) = {} <=> MailOf(t_msgq[x], y) = {})
           /\ Single(MailOf(t_msgq[x], y)) => Single(MailOf(t_msgq'[x], y))
      /\ Single(MailOf(t_msgq[SSI], t)) => MailOf(t_msgq'[SSI], t) = {}
      /\ Sourced(t_msgq, t_msgq')
  BY <1>0, TakeMail
<1>3. \A x : Serves(call', x) <=> x = t
  BY <1>0, ClientFacts DEF Serves
<1> HIDE DEF t
<1>4. t \in Clients /\ t # SSI
  BY <1>1, <1>2, ClientFacts DEF Promised
<1>5. /\ k \in [Clients -> Stages] /\ Held(t, k[t], call, t_msgq, on)
      /\ MailOf(t_msgq[SSI], SSI) = {}
  BY <1>1, <1>4 DEF Promised
<1>6. k[t] = "asked"
  BY <1>2, <1>5 DEF Held
<1>7. Held(t, "served", call', t_msgq', o)
  <2>1. on[t] \notin Off /\ o[t] \notin Off
    BY <1>2, <1>5, <1>6, StageFacts DEF Held, Near
  <2>2. call'[t] = call[t]
    BY <1>0, <1>2, <1>4
  <2> QED
    BY <1>0, <1>2, <1>3, <1>4, <1>5, <1>6, <2>1, <2>2, StageFacts DEF Held
<1>8. \A x \in Clients \ {t} : Same(x, call, t_msgq, on, call', t_msgq', o)
  <2> SUFFICES ASSUME NEW x \in Clients \ {t} PROVE Same(x, call, t_msgq, on, call', t_msgq', o)
    OBVIOUS
  <2>1. Held(x, k[x], call, t_msgq, on)
    BY <1>1 DEF Promised
  <2>2. x \in Tcb /\ x # SSI /\ call'[x] = call[x]
    BY <1>0, ClientFacts
  <2>3. o[x] = on[x] \/ {o[x], on[x]} \intersect Off = {}
    BY <2>2 DEF Near
  <2>4. ~Serves(call, x)
    BY DEF Serves
  <2> QED
    BY <1>0, <1>2, <1>3, <2>1, <2>2, <2>3, <2>4 DEF Same, Held
<1>9. free_msg' = free_msg + Weight(k[t]) - Weight("served")
  BY <1>0, <1>6, Weights
<1>10. MailOf(t_msgq'[SSI], SSI) = {} /\ ~Serves(call', SSI)
  BY <1>0, <1>2, <1>3, <1>4, <1>5
<1>11. Ample => Sourced(t_msgq, t_msgq') /\ (call'[t] = Recv(SSI) => "served" # "none")
  BY <1>2
<1> QED
  BY <1>1, <1>4, <1>7, <1>8, <1>9, <1>10, <1>11, TokenStep

\* A client takes a message out of its queue; in the receive of a reply, the
\* reply.
LEMMA ClientTakes ==
  ASSUME TypeOK, NEW on, NEW o, Near(on, o), o[SSI] \notin Off,
         Tokened(call, t_msgq, free_msg, on), NEW t \in Clients,
         NEW i \in 1..Len(t_msgq[t]),
         call[t] = Recv(SSI) => t_msgq[t][i].from = SSI,
         t_msgq' = [t_msgq EXCEPT ![t] = RemoveAt(@, i)],
         call' = [call EXCEPT ![t] = User],
         free_msg' = free_msg + 1
  PROVE  Tokened(call', t_msgq', free_msg', o)
<1> DEFINE f == t_msgq[t][i].from
<1>0. /\ SSI \in Tcb /\ t \in Tcb /\ t # SSI /\ call \in [Tcb -> CallState] /\ free_msg \in Nat
      /\ t_msgq \in [Tcb -> Seq(Message)]
  BY ClientFacts DEF TypeOK
<1>1. PICK k : Promised(k, call, t_msgq, on) /\ (Ample => Exact(k, call, t_msgq, free_msg))
  BY DEF Tokened
<1>2. /\ f \in Tcb /\ i \in MailOf(t_msgq[t], f)
      /\ \A x, y \in Tcb :
           /\ x # t \/ y # f => (MailOf(t_msgq'[x], y) = {} <=> MailOf(t_msgq[x], y) = {})
           /\ Single(MailOf(t_msgq[x], y)) => Single(MailOf(t_msgq'[x], y))
      /\ Single(MailOf(t_msgq[t], f)) => MailOf(t_msgq'[t], f) = {}
      /\ Sourced(t_msgq, t_msgq')
  BY <1>0, TakeMail
<1>3. \A x : Serves(call', x) <=> Serves(call, x)
  BY <1>0 DEF Serves
<1>4. Ample => f = SSI
  <2>1. i \in DOMAIN t_msgq[t]
    BY <1>0
  <2> QED
    BY <1>1, <2>1 DEF Exact
<1>5. call[t] = Recv(SSI) => f = SSI
  OBVIOUS
<1> HIDE DEF f
<1>6. /\ k \in [Clients -> Stages] /\ Held(t, k[t], call, t_msgq, on)
      /\ MailOf(t_msgq[SSI], SSI) = {} /\ ~Serves(call, SSI)
  BY <1>1 DEF Promised
<1>7. \A x \in Clients \ {t} : Same(x, call, t_msgq, on, call', t_msgq', o)
  <2> SUFFICES ASSUME NEW x \in Clients \ {t} PROVE Same(x, call, t_msgq, on, call', t_msgq', o)
    OBVIOUS
  <2>1. Held(x, k[x], call, t_msgq, on)
    BY <1>1 DEF Promised
  <2>2. x \in Tcb /\ x # SSI /\ call'[x] = call[x]
    BY <1>0, ClientFacts
  <2>3. o[x] = on[x] \/ {o[x], on[x]} \intersect Off = {}
    BY <2>2 DEF Near
  <2> QED
    BY <1>0, <1>2, <1>3, <2>1, <2>2, <2>3 DEF Same, Held
<1>8. MailOf(t_msgq'[SSI], SSI) = {} /\ ~Serves(call', SSI)
  BY <1>0, <1>2, <1>3, <1>6
<1>9. call'[t] = User /\ User # Recv(SSI) /\ User.op = "user"
  BY <1>0, ClientFacts
<1>10. CASE f = SSI
  <2>1. k[t] = "answered"
    BY <1>2, <1>6, <1>10 DEF Held
  <2>2. on[t] \notin Off /\ o[t] \notin Off
    BY <1>0, <1>6, <2>1, StageFacts DEF Held, Near
  <2>3. Held(t, "none", call', t_msgq', o)
    BY <1>0, <1>2, <1>3, <1>6, <1>9, <1>10, <2>1, <2>2, StageFacts DEF Held
  <2>4. free_msg' = free_msg + Weight(k[t]) - Weight("none")
    BY <1>0, <2>1, Weights
  <2>5. Ample => Sourced(t_msgq, t_msgq') /\ (call'[t] = Recv(SSI) => "none" # "none")
    BY <1>2, <1>9
  <2> QED
    BY <1>1, <1>7, <1>8, <2>3, <2>4, <2>5, TokenStep
<1>11. CASE f # SSI
  <2>1. Same(t, call, t_msgq, on, call', t_msgq', o)
    <3>1. call[t] # Recv(SSI)
      BY <1>5, <1>11
    <3>2. o[t] = on[t] \/ {o[t], on[t]} \intersect Off = {}
      BY <1>0 DEF Near
    <3> QED
      BY <1>0, <1>2, <1>3, <1>9, <1>11, <3>1, <3>2 DEF Same
  <2>2. \A x \in Clients : Same(x, call, t_msgq, on, call', t_msgq', o)
    BY <1>7, <2>1
  <2> QED
    BY <1>4, <1>8, <1>11, <2>2, TokenKept
<1> QED
  BY <1>10, <1>11

(*--------------------------------- the rest ----------------------------*)

\* A step that sends and receives nothing, and moves nobody to or from the
\* clock or a device.
LEMMA QuietToken ==
  ASSUME NEW on, NEW o, Near(on, o), o[SSI] \notin Off,
         Tokened(call, t_msgq, free_msg, on),
         \A x \in Clients : /\ call'[x] = Recv(SSI) <=> call[x] = Recv(SSI)
                            /\ call[x].op \in {"user", "recv"} => call'[x].op \in {"user", "recv"},
         \A x \in Tcb : Serves(call', x) <=> Serves(call, x),
         UNCHANGED <<t_msgq, free_msg>>
  PROVE  Tokened(call', t_msgq', free_msg', o)
<1>1. PICK k : Promised(k, call, t_msgq, on)
  BY DEF Tokened
<1>2. ASSUME NEW x \in Clients PROVE Same(x, call, t_msgq, on, call', t_msgq', o)
  <2>1. Held(x, k[x], call, t_msgq, on) /\ x \in Tcb
    BY <1>1, ClientFacts DEF Promised
  <2> QED
    BY <2>1 DEF Same, Held, Near
<1>3. MailOf(t_msgq'[SSI], SSI) = {} /\ ~Serves(call', SSI)
  BY <1>1, ClientFacts DEF Promised
<1>4. Sourced(t_msgq, t_msgq') /\ free_msg' = free_msg
  BY DEF Sourced
<1> QED
  BY <1>2, <1>3, <1>4, TokenKept

\* A client writes to another one.
LEMMA MailToken ==
  ASSUME TypeOK, SleepHolds, NEW on, NEW o, Near(on, o), o[SSI] \notin Off,
         Tokened(call, t_msgq, free_msg, on), ~Ample,
         NEW t \in Clients, call[t].op = "user", NEW to \in Clients, to # t, NEW m \in Payload,
         sys_send_msg(t, to, m, [call EXCEPT ![t] = User])
  PROVE  Tokened(call', t_msgq', free_msg', o)
<1> DEFINE c == [call EXCEPT ![t] = User]
<1>0. /\ t \in Tcb /\ t # SSI /\ to \in Tcb /\ to # SSI /\ SSI \in Tcb
      /\ call \in [Tcb -> CallState] /\ c \in [Tcb -> CallState] /\ c[t] = User
      /\ \A x \in Tcb \ {t} : c[x] = call[x]
      /\ \A x \in Clients : x \in Tcb /\ x # SSI
  BY ClientFacts, CallFacts DEF TypeOK
<1>1. PICK k : Promised(k, call, t_msgq, on)
  BY DEF Tokened
<1>2. call[t] # Recv(SSI) /\ User # Recv(SSI) /\ User.op = "user"
  BY ClientFacts
<1> HIDE DEF c
\* Whatever becomes of the message.
<1>3. ASSUME \A x \in Clients : /\ call'[x] = Recv(SSI) <=> call[x] = Recv(SSI)
                                /\ call'[x] \in {call[x], User},
             call'[SSI] = call[SSI],
             \A x, y \in Tcb : x # to \/ y # t => MailOf(t_msgq'[x], y) = MailOf(t_msgq[x], y)
      PROVE  Tokened(call', t_msgq', free_msg', o)
  <2>1. \A x : Serves(call', x) <=> Serves(call, x)
    BY <1>3 DEF Serves
  <2>2. ASSUME NEW x \in Clients PROVE Same(x, call, t_msgq, on, call', t_msgq', o)
    <3>1. Held(x, k[x], call, t_msgq, on)
      BY <1>1 DEF Promised
    <3>2. /\ MailOf(t_msgq'[SSI], x) = MailOf(t_msgq[SSI], x)
          /\ MailOf(t_msgq'[x], SSI) = MailOf(t_msgq[x], SSI)
      BY <1>0, <1>3
    <3>3. o[x] = on[x] \/ {o[x], on[x]} \intersect Off = {}
      BY <1>0 DEF Near
    <3>4. call'[x].op \in {"user", "recv"}
      BY <1>2, <1>3, <3>1 DEF Held
    <3> QED
      BY <1>3, <2>1, <3>2, <3>3, <3>4 DEF Same
  <2>3. MailOf(t_msgq'[SSI], SSI) = {} /\ ~Serves(call', SSI)
    BY <1>0, <1>1, <1>3, <2>1 DEF Promised
  <2> QED
    BY <2>2, <2>3, TokenKept
<1>4. CASE /\ Accepts(to, t)
           /\ call' = [c EXCEPT ![to] = Received(to, t, m)]
           /\ t_msgq' = t_msgq
  <2>1. call[to] # Recv(SSI)
    <3>1. call[to].peer \in {t, NULL}
      BY <1>0, <1>4 DEF Accepts, SleepHolds, SleepsWell, Sleeping
    <3> QED
      BY <1>0, <3>1, ClientFacts, NodeFacts
  <2>2. call'[to] = User /\ \A x \in Tcb \ {to} : call'[x] = c[x]
    BY <1>0, <1>4, ClientFacts
  <2>3. /\ call'[SSI] = call[SSI]
        /\ \A x \in Clients : call'[x] \in {call[x], User}
        /\ \A x \in Clients : call'[x] = Recv(SSI) <=> call[x] = Recv(SSI)
    BY <1>0, <1>2, <2>1, <2>2
  <2> QED
    BY <1>3, <1>4, <2>3
<1>5. CASE /\ call' = c
           /\ t_msgq' = [t_msgq EXCEPT ![to] = Append(@, [from |-> t, msg |-> m])]
  <2>1. \A x, y \in Tcb : x # to \/ y # t => MailOf(t_msgq'[x], y) = MailOf(t_msgq[x], y)
    <3>1. /\ \A x, y \in Tcb : x # to \/ y # t => MailOf(t_msgq'[x], y) = MailOf(t_msgq[x], y)
          /\ MailOf(t_msgq'[to], t) # {}
          /\ MailOf(t_msgq[to], t) = {} => Single(MailOf(t_msgq'[to], t))
          /\ \A x \in Tcb : \A i \in DOMAIN t_msgq'[x] :
               \/ i \in DOMAIN t_msgq[x] /\ t_msgq'[x][i].from = t_msgq[x][i].from
               \/ x = to /\ t_msgq'[x][i].from = t
      <4>1. \E e : /\ t_msgq'[to] = Append(t_msgq[to], e) /\ e.from = t
                  /\ \A x \in Tcb \ {to} : t_msgq'[x] = t_msgq[x]
        <5> DEFINE e == [from |-> t, msg |-> m]
        <5>1. /\ t_msgq'[to] = Append(t_msgq[to], e) /\ e.from = t
              /\ \A x \in Tcb \ {to} : t_msgq'[x] = t_msgq[x]
          BY <1>0, <1>5 DEF TypeOK
        <5> QED
          BY <5>1
      <4>2. PICK e : /\ t_msgq'[to] = Append(t_msgq[to], e) /\ e.from = t
                     /\ \A x \in Tcb \ {to} : t_msgq'[x] = t_msgq[x]
        BY <4>1
      <4>3. t \in Tcb /\ to \in Tcb
        BY <1>0
      <4> QED
        BY <4>2, <4>3, SendMail
    <3> QED
      BY <3>1
  <2>2. /\ call'[SSI] = call[SSI]
        /\ \A x \in Clients : call'[x] \in {call[x], User}
        /\ \A x \in Clients : call'[x] = Recv(SSI) <=> call[x] = Recv(SSI)
    BY <1>0, <1>2, <1>5
  <2> QED
    BY <1>3, <2>1, <2>2
<1>6. CASE call' = c /\ t_msgq' = t_msgq
  <2>1. /\ call'[SSI] = call[SSI]
        /\ \A x \in Clients : call'[x] \in {call[x], User}
        /\ \A x \in Clients : call'[x] = Recv(SSI) <=> call[x] = Recv(SSI)
    BY <1>0, <1>2, <1>6
  <2> QED
    BY <1>3, <1>6, <2>1
<1> QED
  BY <1>4, <1>5, <1>6, SendFacts DEF c

\* The SSI parks the client it serves, and takes its next request.
LEMMA ParkToken ==
  ASSUME TypeOK, NEW on, NEW o, Tokened(call, t_msgq, free_msg, on),
         NEW t \in Tcb, Serves(call, t), o[t] \in Off,
         \A x \in Tcb \ {t} : o[x] = on[x],
         call'[SSI] = Recv(NULL), \A x \in Clients : call'[x] = call[x],
         UNCHANGED <<t_msgq, free_msg>>
  PROVE  Tokened(call', t_msgq', free_msg', o)
<1>0. SSI \in Tcb /\ call \in [Tcb -> CallState] /\ free_msg \in Nat
  BY ClientFacts DEF TypeOK
<1>1. PICK k : Promised(k, call, t_msgq, on) /\ (Ample => Exact(k, call, t_msgq, free_msg))
  BY DEF Tokened
<1>2. \A x : Serves(call, x) <=> x = t
  BY DEF Serves
<1>3. \A x : ~Serves(call', x)
  BY <1>0, ClientFacts DEF Serves
<1>4. t \in Clients /\ t # SSI
  BY <1>1, <1>2, ClientFacts DEF Promised
<1>5. Held(t, k[t], call, t_msgq, on) /\ k[t] = "served"
  BY <1>1, <1>2, <1>4 DEF Promised, Held
<1> DEFINE p == o[t]
<1>6. Held(t, p, call', t_msgq', o)
  <2>1. call'[t] = call[t]
    BY <1>0, <1>4
  <2> QED
    BY <1>3, <1>5, <2>1, StageFacts DEF Held
<1>7. \A x \in Clients \ {t} : Same(x, call, t_msgq, on, call', t_msgq', o)
  <2> SUFFICES ASSUME NEW x \in Clients \ {t} PROVE Same(x, call, t_msgq, on, call', t_msgq', o)
    OBVIOUS
  <2>1. Held(x, k[x], call, t_msgq, on)
    BY <1>1 DEF Promised
  <2>2. x \in Tcb /\ x # SSI /\ call'[x] = call[x]
    BY <1>0, ClientFacts
  <2> QED
    BY <1>2, <1>3, <2>1, <2>2 DEF Same, Held
<1>8. /\ MailOf(t_msgq'[SSI], SSI) = {} /\ o[SSI] \notin Off /\ ~Serves(call', SSI)
  BY <1>0, <1>1, <1>3, <1>4 DEF Promised
<1>9. free_msg' = free_msg + Weight(k[t]) - Weight(p)
  <2>1. Weight(k[t]) = 0 /\ Weight(p) = 0
    BY <1>5, Weights
  <2> QED
    BY <1>0, <2>1
<1>10. Ample => Sourced(t_msgq, t_msgq') /\ (call'[t] = Recv(SSI) => p # "none")
  BY StageFacts DEF Sourced
<1> HIDE DEF p
<1> QED
  BY <1>1, <1>4, <1>6, <1>7, <1>8, <1>9, <1>10, TokenStep

(*--------------------------- the inductive invariant -------------------*)

\* A thread at a device is in the table of the devices, once.
Devs(list, on) ==
  /\ \A t \in Tcb : on[t] = "device" <=> \E d \in Devices : list[d] = t
  /\ \A d, e \in Devices : list[d] # NULL /\ list[d] = list[e] => d = e

\* What the scheduler, the devices and the requests say of where threads are.
RingInv(on) ==
  /\ Shape(sched, current_thread, on)
  /\ Devs(device_list, on)
  /\ Tokened(call, t_msgq, free_msg, on)

\* All that the step below uses; no trap handler exterminates anybody.
Calm == FamilyInv /\ WakeInv /\ Peace /\ cpu # "reap"

\* What the parts say together.  A parked thread waits for the SSI and for
\* nobody else, a thread that is served is not parked, and a sleeper that
\* anybody else can wake is in the wait queue.
LEMMA RingFacts ==
  ASSUME Calm, NEW on, RingInv(on)
  PROVE  /\ TypeOK /\ SleepHolds /\ sched \in SchedType /\ call \in [Tcb -> CallState]
         /\ current_thread \in Tcb \union {NULL}
         /\ device_list \in [Devices -> Tcb \union {NULL}]
         /\ on \in [Node -> Places] /\ on[SSI] \notin Off /\ ~Serves(call, SSI)
         /\ \A t \in Clients : /\ on[t] \in Off => call[t] = Recv(SSI) /\ ~Serves(call, t)
                               /\ Serves(call, t) => call[t] = Recv(SSI) /\ on[t] \notin Off
                               /\ call[t].op \in {"user", "recv"}
         /\ \A t \in Tcb : Born(t) <=> on[t] # "none"
         /\ \A t \in Tcb : on[t] \in Off => (Accepts(t, SSI) <=> sched.status[t] = "W4MSG")
         /\ \A t, x \in Tcb : Accepts(t, x) => on[t] = "wait_queue" \/ (on[t] \in Off /\ x = SSI)
<1>1. /\ TypeOK /\ SleepHolds /\ sched \in SchedType /\ call \in [Tcb -> CallState]
      /\ current_thread \in Tcb \union {NULL}
      /\ device_list \in [Devices -> Tcb \union {NULL}]
      /\ NULL \notin Tcb /\ SSI \in Tcb
  BY NodeFacts DEF Calm, WakeInv, TypeOK
<1>2. on \in [Node -> Places]
  BY <1>1, ShapeFacts DEF RingInv
<1>3. PICK k : Promised(k, call, t_msgq, on)
  BY DEF RingInv, Tokened
<1>4. on[SSI] \notin Off /\ ~Serves(call, SSI)
  BY <1>3 DEF Promised
<1>5. \A t \in Clients : /\ on[t] \in Off => call[t] = Recv(SSI) /\ ~Serves(call, t)
                         /\ Serves(call, t) => call[t] = Recv(SSI) /\ on[t] \notin Off
                         /\ call[t].op \in {"user", "recv"}
  <2> SUFFICES ASSUME NEW t \in Clients
               PROVE  /\ on[t] \in Off => call[t] = Recv(SSI) /\ ~Serves(call, t)
                      /\ Serves(call, t) => call[t] = Recv(SSI) /\ on[t] \notin Off
                      /\ call[t].op \in {"user", "recv"}
    OBVIOUS
  <2>1. Held(t, k[t], call, t_msgq, on)
    BY <1>3 DEF Promised
  <2> QED
    BY <2>1, StageFacts DEF Held
<1>6. \A t \in Tcb : Born(t) <=> on[t] # "none"
  BY DEF RingInv, Shape, Born
<1>7. \A t \in Tcb : on[t] \in Off => (Accepts(t, SSI) <=> sched.status[t] = "W4MSG")
  <2> SUFFICES ASSUME NEW t \in Tcb, on[t] \in Off, sched.status[t] = "W4MSG"
               PROVE  t_wait4sender[t] = SSI
    BY DEF Accepts
  <2>1. call[t] = Recv(SSI)
    BY <1>4, <1>5 DEF Clients
  <2> QED
    BY <1>1, <2>1, ClientFacts DEF SleepHolds, SleepsWell, Sleeping
<1>8. \A t, x \in Tcb : Accepts(t, x) => on[t] = "wait_queue" \/ (on[t] \in Off /\ x = SSI)
  <2> SUFFICES ASSUME NEW t \in Tcb, NEW x \in Tcb, Accepts(t, x)
               PROVE  on[t] = "wait_queue" \/ (on[t] \in Off /\ x = SSI)
    OBVIOUS
  <2>1. sched.status[t] = "W4MSG" /\ t_wait4sender[t] \in {x, NULL}
    BY DEF Accepts
  <2>2. on[t] \in {"wait_queue"} \union Off
    <3>1. t \in Node
      BY NodeFacts
    <3>2. on[t] \in Places
      BY <1>2, <3>1
    <3>3. on[t] # "cpu" /\ on[t] # "ready_queue" /\ on[t] # "none"
      BY <2>1 DEF RingInv, Shape
    <3> QED
      BY <3>2, <3>3 DEF Places, Heads, Off, clock
  <2>3. on[t] \in Off => x = SSI
    <3>1. ASSUME on[t] \in Off PROVE call[t] = Recv(SSI)
      BY <1>4, <1>5, <3>1 DEF Clients
    <3> QED
      BY <1>1, <2>1, <3>1, ClientFacts DEF SleepHolds, SleepsWell, Sleeping
  <2> QED
    BY <2>2, <2>3
<1> QED
  BY <1>1, <1>2, <1>4, <1>5, <1>6, <1>7, <1>8

\* A step that moves nobody and neither sends nor receives.
LEMMA RingKept ==
  ASSUME NEW on, RingInv(on),
         UNCHANGED <<sched, current_thread, device_list, call, t_msgq, free_msg>>
  PROVE  RingInv(on)'
BY DEF RingInv

\* Moves among the places that are not devices.
LEMMA DevsNear ==
  ASSUME NEW list, NEW on, Devs(list, on), NEW o,
         \A t \in Tcb : o[t] = "device" <=> on[t] = "device"
  PROVE  Devs(list, o)
BY DEF Devs

(*-------------------------------- services -----------------------------*)

\* The one that the SSI serves is a client in the ready or the wait queue.
LEMMA SenderFacts ==
  ASSUME Peaceful, Calm, NEW on, RingInv(on), NEW tags, Serving(tags)
  PROVE  /\ Sender \in Clients /\ Sender \in Tcb /\ Serves(call, Sender)
         /\ on[Sender] \in {"ready_queue", "wait_queue"}
         /\ call[SSI].msg.tag \in tags \ (Managing \union Killing)
<1>1. /\ current_thread = SSI /\ call[SSI].op = "serve" /\ call[SSI].msg.tag \in tags
      /\ call[SSI] \in CallState /\ SSI \in Tcb
  BY RingFacts, ClientFacts DEF Serving
<1>2. Sender \in Tcb /\ call[SSI].msg.tag \notin Managing
  BY ServingAwake DEF Calm
<1>3. call[SSI].msg.tag \notin Killing /\ Born(Sender)
  BY <1>1 DEF Calm, Peace, GoodCall, Sender
<1>4. Serves(call, Sender) /\ Sender \in Clients
  BY <1>1, <1>2, RingFacts, ClientFacts DEF Serves, Sender
<1>5. on[Sender] \in {"ready_queue", "wait_queue"}
  <2>1. on[Sender] \notin Off /\ on[Sender] # "none"
    BY <1>2, <1>3, <1>4, RingFacts
  <2>2. on[Sender] # "cpu"
    BY <1>1, <1>2, <1>4, ClientFacts DEF RingInv, Shape
  <2>3. Sender \in Node /\ on \in [Node -> Places]
    BY <1>2, RingFacts, NodeFacts
  <2>4. on[Sender] \in Places
    BY <2>3
  <2> QED
    BY <2>1, <2>2, <2>4 DEF Places, Heads, Off, clock
<1> QED
  BY <1>1, <1>2, <1>3, <1>4, <1>5

\* The SSI goes on to its reply.
LEMMA ReplyToken ==
  ASSUME Calm, NEW on, RingInv(on), NEW o, Near(on, o), call[SSI].op = "serve",
         NEW tag, Reply(tag), UNCHANGED <<t_msgq, free_msg>>
  PROVE  Tokened(call', t_msgq', free_msg', o)
<1>1. /\ call \in [Tcb -> CallState] /\ SSI \in Tcb
      /\ call' = [call EXCEPT ![SSI] = Send(Sender, Plain(tag))]
  BY RingFacts, ClientFacts DEF Reply
<1>2. call'[SSI] = Send(Sender, Plain(tag)) /\ \A x \in Clients : call'[x] = call[x]
  BY <1>1, ClientFacts
<1>3. \A x \in Tcb : Serves(call', x) <=> Serves(call, x)
  BY <1>2, ClientFacts DEF Serves, Sender
<1>4. o[SSI] \notin Off
  BY <1>1, RingFacts DEF Near
<1>5. \A x \in Clients : /\ call'[x] = Recv(SSI) <=> call[x] = Recv(SSI)
                         /\ call[x].op \in {"user", "recv"} => call'[x].op \in {"user", "recv"}
  BY <1>2
<1> QED
  BY <1>3, <1>4, <1>5, QuietToken DEF RingInv

\* A thread that is handed out was nowhere, with an empty box.
LEMMA StartPlace ==
  ASSUME Peaceful, Calm, NEW on, RingInv(on), NEW p \in Pcb, free_thread # <<>>,
         start_thread(p, Head(free_thread)), call[SSI].op = "serve", Reply("reply"),
         UNCHANGED <<free_msg, device_list, current_thread>>
  PROVE  \E o : RingInv(o)'
<1>1. PICK new : new = Head(free_thread)
  OBVIOUS
<1>2. new \in Tcb /\ t_pcb[new] = NULL
  <2>1. TypeOK /\ ThreadTree
    BY RingFacts DEF Calm, FamilyInv, FamilyTree
  <2>2. Head(free_thread) \in Tcb
    BY <2>1, SeqFacts DEF TypeOK
  <2> QED
    BY <1>1, <2>1, <2>2, StartThreadTree
<1>3. ~Born(new) /\ t_msgq[new] = <<>>
  BY <1>2 DEF Calm, Peace, Unborn
<1>4. sched.status[new] = "NONE" /\ on[new] = "none"
  BY <1>2, <1>3, RingFacts DEF Born
<1>5. t_msgq' = t_msgq
  <2>1. t_msgq \in [Tcb -> Seq(Message)] /\ t_msgq' = [t_msgq EXCEPT ![new] = <<>>]
    BY <1>1, RingFacts DEF TypeOK, start_thread
  <2> QED
    BY <1>2, <1>3, <2>1
<1> DEFINE o == [on EXCEPT ![new] = "ready_queue"]
<1>6. \A x \in Tcb : o[x] = IF x = new THEN "ready_queue" ELSE on[x]
  BY RingFacts, NodeFacts
<1>7. Shape(sched', current_thread', o)
  <2>1. sched' = thread_enqueue([INIT_LIST_HEAD(sched, new) EXCEPT !.status[new] = "READY"],
                                new, "ready_queue")
    BY <1>1 DEF start_thread
  <2> HIDE DEF o
  <2>2. Shape(sched', current_thread, o)
    BY <1>2, <1>4, <2>1, RingFacts, StartShape DEF RingInv, o
  <2> QED
    BY <2>2
<1> HIDE DEF o
<1>8. Near(on, o)
  BY <1>2, <1>4, <1>6 DEF Near, Off, clock
<1>9. Devs(device_list', o)
  BY <1>2, <1>4, <1>6, DevsNear DEF RingInv
<1>10. Tokened(call', t_msgq', free_msg', o)
  BY <1>5, <1>8, ReplyToken
<1> QED
  BY <1>7, <1>9, <1>10 DEF RingInv

\* Nobody is being exterminated.
LEMMA NobodyReaps ==
  ASSUME Calm, NEW who \in Killers,
         ReapThread(who) \/ ReapChild(who) \/ ReapProc(who) \/ ReapDone(who)
  PROVE  FALSE
<1>1. TypeOK /\ cpu # "reap"
  BY DEF Calm, FamilyInv
<1>2. reap \in [Killers -> ReapType] /\ reap[who] = NoReap
  BY <1>1 DEF TypeOK, Killers, Calm, Peace
<1>3. Reaps(who)
  BY DEF ReapThread, ReapChild, ReapProc, ReapDone
<1>4. who = "ssi" /\ call[SSI].op = "reap"
  BY <1>1, <1>3 DEF Reaps, Killers, Reaping
<1>5. SsiCall(NoReap.after)
  BY <1>2, <1>4 DEF Calm, FamilyInv, SsiHolds, Returns
<1> QED
  BY <1>5 DEF SsiCall, NoReap, User

\* The services; the SSI is never in an extermination.
LEMMA ServicesPlace ==
  ASSUME Peaceful, Calm, NEW on, RingInv(on), SsiNext
  PROVE  (\E o : RingInv(o)') /\ cpu' # "reap"
<1>0. /\ TypeOK /\ SSI \in Tcb /\ call \in [Tcb -> CallState] /\ sched \in SchedType
      /\ device_list \in [Devices -> Tcb \union {NULL}]
      /\ cpu # "reap" /\ Near(on, on)
      /\ \A t \in Tcb : on[t] = "device" <=> on[t] = "device"
  BY RingFacts, ClientFacts DEF Calm, Near
<1>1. CASE GetErrno \/ Query \/ DoIoBusy
  <2>1. PICK tags : Serving(tags)
    BY <1>1 DEF GetErrno, Query, DoIoBusy
  <2>2. call[SSI].op = "serve"
    BY <2>1 DEF Serving
  <2>3. PICK tag : Reply(tag)
    BY <1>1 DEF GetErrno, Query, DoIoBusy
  <2>4. UNCHANGED <<sched, t_msgq, free_msg, cpu, current_thread, device_list>>
    BY <1>1 DEF GetErrno, Query, DoIoBusy, mail
  <2>5. Tokened(call', t_msgq', free_msg', on)
    BY <1>0, <2>2, <2>3, <2>4, ReplyToken
  <2> QED
    BY <1>0, <2>4, <2>5 DEF RingInv
<1>2. CASE CreateProcess \/ CreateThread
  <2>1. PICK tags : Serving(tags)
    BY <1>2 DEF CreateProcess, CreateThread
  <2>2. call[SSI].op = "serve" /\ Sender \in Tcb
    BY <2>1, SenderFacts DEF Serving
  <2>3. Reply("reply") /\ UNCHANGED <<device_list, current_thread, cpu>>
    BY <1>2 DEF CreateProcess, CreateThread
  <2>4. \/ UNCHANGED <<sched, t_msgq, free_msg>>
        \/ /\ free_thread # <<>> /\ UNCHANGED free_msg
           /\ \E p \in Pcb : start_thread(p, Head(free_thread))
    <3>1. ASSUME CreateThread
          PROVE  \/ UNCHANGED <<sched, t_msgq, free_msg>>
                 \/ /\ free_thread # <<>> /\ UNCHANGED free_msg
                    /\ \E p \in Pcb : start_thread(p, Head(free_thread))
      <4>1. t_pcb[Sender] \in Pcb \union {NULL}
        BY <1>0, <2>2 DEF TypeOK
      <4> QED
        BY <3>1, <4>1 DEF CreateThread, mail
    <3>2. ASSUME CreateProcess
          PROVE  \/ UNCHANGED <<sched, t_msgq, free_msg>>
                 \/ /\ free_thread # <<>> /\ UNCHANGED free_msg
                    /\ \E p \in Pcb : start_thread(p, Head(free_thread))
      <4>1. free_proc # <<>> => Head(free_proc) \in Pcb
        BY <1>0, SeqFacts DEF TypeOK
      <4> QED
        BY <3>2, <4>1 DEF CreateProcess, mail
    <3> QED
      BY <1>2, <3>1, <3>2
  <2>5. CASE UNCHANGED <<sched, t_msgq, free_msg>>
    <3>1. Tokened(call', t_msgq', free_msg', on)
      BY <1>0, <2>2, <2>3, <2>5, ReplyToken
    <3> QED
      BY <1>0, <2>3, <2>5, <3>1 DEF RingInv
  <2>6. CASE /\ free_thread # <<>> /\ UNCHANGED free_msg
             /\ \E p \in Pcb : start_thread(p, Head(free_thread))
    BY <1>0, <2>2, <2>3, <2>6, StartPlace
  <2> QED
    BY <2>4, <2>5, <2>6
<1>3. CASE WaitForClock \/ DoIo
  <2>1. PICK tags : Serving(tags)
    BY <1>3 DEF WaitForClock, DoIo
  <2>2. /\ Sender \in Clients /\ Sender \in Tcb /\ Serves(call, Sender)
        /\ on[Sender] \in {"ready_queue", "wait_queue"}
    BY <2>1, SenderFacts
  <2>3. /\ UNCHANGED <<t_msgq, free_msg, current_thread, cpu>>
        /\ call'[SSI] = Recv(NULL) /\ \A x \in Clients : call'[x] = call[x]
    BY <1>0, <1>3, ClientFacts DEF WaitForClock, DoIo, mail, NoReply
  <2> DEFINE off == [on EXCEPT ![Sender] = "device"]
  <2>4. /\ parked(sched) \in SchedType /\ Shape(parked(sched), current_thread, off)
        /\ \A x \in Node : off[x] = IF x = Sender THEN "device" ELSE on[x]
    <3>1. /\ parked(sched) \in SchedType
          /\ Shape(parked(sched), current_thread, [on EXCEPT ![Sender] = "device"])
      BY <1>0, <2>2, ParkShape DEF RingInv
    <3> QED
      BY <3>1, RingFacts
  <2>5. CASE WaitForClock
    <3> DEFINE o == [off EXCEPT ![Sender] = clock]
    <3>1. sched' = thread_enqueue(parked(sched), Sender, clock)
      BY <2>5 DEF WaitForClock, clock
    <3>2. off \in [Node -> Places] /\ Sender \in Node
      BY <2>2, <2>4, ShapeFacts, NodeFacts
    <3>3. \A x \in Tcb : o[x] = IF x = Sender THEN clock ELSE on[x]
      BY <2>4, <3>2, NodeFacts
    <3> HIDE DEF off
    <3>4. Shape(sched', current_thread', o)
      <4>1. Shape(thread_enqueue(parked(sched), Sender, clock), current_thread, o)
        BY <2>2, <2>4, <3>2, ClockShape
      <4> QED
        BY <2>3, <3>1, <4>1
    <3> HIDE DEF o
    <3>5. Devs(device_list', o)
      <4>1. device_list' = device_list
        BY <2>5 DEF WaitForClock
      <4>2. \A x \in Tcb : o[x] = "device" <=> on[x] = "device"
        BY <2>2, <3>3 DEF clock
      <4> QED
        BY <4>1, <4>2, DevsNear DEF RingInv
    <3>6. Tokened(call', t_msgq', free_msg', o)
      <4>1. o[Sender] \in Off /\ \A x \in Tcb \ {Sender} : o[x] = on[x]
        BY <2>2, <3>3 DEF Off
      <4> QED
        BY <1>0, <2>2, <2>3, <4>1, ParkToken DEF RingInv
    <3> QED
      BY <1>0, <2>3, <3>4, <3>5, <3>6 DEF RingInv
  <2>6. CASE DoIo
    <3> HIDE DEF off
    <3>1. Shape(sched', current_thread', off)
      BY <2>3, <2>4, <2>6 DEF DoIo
    <3>2. Tokened(call', t_msgq', free_msg', off)
      <4>1. off[Sender] \in Off /\ \A x \in Tcb \ {Sender} : off[x] = on[x]
        BY <2>2, <2>4, NodeFacts DEF Off
      <4> QED
        BY <1>0, <2>2, <2>3, <4>1, ParkToken DEF RingInv
    <3>3. Devs(device_list', off)
      <4>1. PICK d \in Devices : /\ device_list[d] = NULL
                                 /\ device_list' = [device_list EXCEPT ![d] = Sender]
        <5>1. call[SSI].msg.tag = "DO_IO"
          BY <2>6 DEF DoIo, Serving
        <5>2. Argument \in Devices
          BY <1>0, <2>1, <5>1, ServingFacts
        <5> QED
          BY <2>6, <5>2 DEF DoIo
      <4>2. Devs(device_list, on) /\ on[Sender] # "device"
        BY <2>2 DEF RingInv
      <4>3. \A x \in Tcb : off[x] = IF x = Sender THEN "device" ELSE on[x]
        BY <2>4, NodeFacts
      <4>4. /\ \A e \in Devices : device_list'[e] = IF e = d THEN Sender ELSE device_list[e]
            /\ \A e \in Devices : device_list[e] # Sender
            /\ Sender # NULL
        BY <1>0, <2>2, <4>1, <4>2, NodeFacts DEF Devs
      <4>5. \A x \in Tcb : x # NULL
        BY NodeFacts
      <4> QED
        BY <2>2, <4>1, <4>2, <4>3, <4>4, <4>5 DEF Devs
    <3> QED
      BY <1>0, <2>3, <3>1, <3>2, <3>3 DEF RingInv
  <2> QED
    BY <1>3, <2>5, <2>6
<1>4. CASE TerminateProcess \/ TerminateThread \/ BadRequest \/ SetManager
  BY <1>4, SenderFacts
  DEF TerminateProcess, TerminateThread, BadRequest, SetManager, Managing, Killing
<1>5. ASSUME NEW who \in Killers,
             ReapThread(who) \/ ReapChild(who) \/ ReapProc(who) \/ ReapDone(who)
      PROVE  FALSE
  BY <1>5, NobodyReaps
<1> QED
  BY <1>1, <1>2, <1>3, <1>4, <1>5 DEF SsiNext, Killers

(*------------------------------ system calls ---------------------------*)

\* What a send to a thread that the message wakes, or does not, does to the
\* places.
LEMMA SentPlace ==
  ASSUME Calm, NEW on, RingInv(on), NEW from \in Tcb, NEW to \in Tcb,
         Accepts(to, from) => on[to] = "wait_queue",
         sched' = sent(sched, from, to), UNCHANGED <<current_thread, device_list>>
  PROVE  \E o : /\ Shape(sched', current_thread', o) /\ Devs(device_list', o)
                /\ Near(on, o) /\ o[SSI] \notin Off
                /\ \A x \in Tcb : on[x] \in Off => o[x] \in Off
<1>0. /\ TypeOK /\ SSI \in Tcb /\ sched \in SchedType /\ on[SSI] \notin Off
      /\ on \in [Node -> Places] /\ Tcb \subseteq Node
  BY RingFacts, ClientFacts, NodeFacts
<1>1. CASE Accepts(to, from)
  <2> DEFINE o == [on EXCEPT ![to] = "ready_queue"]
  <2>1. \A x \in Tcb : o[x] = IF x = to THEN "ready_queue" ELSE on[x]
    BY <1>0
  <2>2. Shape(sched', current_thread', o)
    <3>1. sched' = wake_me_up(sched, to)
      BY <1>1 DEF sent
    <3>2. Shape(wake_me_up(sched, to), current_thread, o)
      BY <1>0, <1>1, WakeShape DEF RingInv
    <3> QED
      BY <3>1, <3>2
  <2> HIDE DEF o
  <2>3. on[to] = "wait_queue"
    BY <1>1
  <2>4. /\ Near(on, o) /\ o[SSI] \notin Off
        /\ \A x \in Tcb : on[x] \in Off => o[x] \in Off
        /\ \A x \in Tcb : o[x] = "device" <=> on[x] = "device"
    BY <1>0, <2>1, <2>3 DEF Near, Off, clock
  <2>5. Devs(device_list', o)
    BY <2>4, DevsNear DEF RingInv
  <2> QED
    BY <2>2, <2>4, <2>5
<1>2. CASE ~Accepts(to, from)
  <2>1. Shape(sched', current_thread', on) /\ Devs(device_list', on)
    BY <1>2 DEF sent, RingInv
  <2>2. Near(on, on)
    BY DEF Near
  <2> QED
    BY <1>0, <2>1, <2>2
<1> QED
  BY <1>1, <1>2

\* The ways SYS_SEND ends; nobody manages anybody.
LEMMA SysSendCases ==
  ASSUME Calm, NEW to \in Tcb, NEW m, NEW next, current_thread \in Tcb, sys_send(to, m, next)
  PROVE  \/ /\ Dead(to) /\ call' = [call EXCEPT ![current_thread] = Send(to, m)]
            /\ cpu' = "sched"
            /\ UNCHANGED <<sched, current_thread, device_list, t_msgq, free_msg>>
         \/ /\ ~Dead(to) /\ sched' = sent(sched, current_thread, to)
            /\ sys_send_msg(current_thread, to, m, [call EXCEPT ![current_thread] = next])
            /\ UNCHANGED <<current_thread, cpu, device_list>>
<1>1. ~(current_thread \in {manager_of(to, k) : k \in Kinds})
  <2>1. \A k \in Kinds : manager_of(to, k) = NULL
    BY NoManagerOf DEF Calm, WakeInv
  <2>2. current_thread # NULL
    BY NodeFacts
  <2> QED
    BY <2>1, <2>2
<1> QED
  BY <1>1 DEF sys_send, check_thread_alive

\* The running thread, where its call stands: the SSI in no "user" code, the
\* others in no send.
LEMMA RunnerFacts ==
  ASSUME Calm, NEW on, RingInv(on), NEW op, Running(op)
  PROVE  /\ current_thread \in Tcb /\ call[current_thread].op = op
         /\ op = "user" => current_thread \in Clients
         /\ op = "send" => current_thread = SSI
         /\ current_thread = SSI /\ op = "recv" => call[SSI] = Recv(NULL)
<1>1. /\ current_thread \in Tcb /\ call[current_thread].op = op
      /\ call \in [Tcb -> CallState]
  BY RingFacts, RunningFacts
<1>2. SsiCall(call[SSI])
  BY DEF Calm, FamilyInv, SsiHolds
<1>3. current_thread # SSI => current_thread \in Clients /\ op \in {"user", "recv"}
  BY <1>1, RingFacts, ClientFacts
<1>4. current_thread = SSI => op # "user" /\ (op = "recv" => call[SSI] = Recv(NULL))
  <2>1. \A c \in CallState : c.op = "recv" => c = Recv(c.peer)
    BY DEF CallState, Recv, NoPayload
  <2> QED
    BY <1>1, <1>2, <2>1 DEF SsiCall
<1> QED
  BY <1>1, <1>3, <1>4

\* Nobody names a thread that is dead, where nobody dies.
LEMMA KnownAlive ==
  ASSUME Peaceful, NEW t \in Known
  PROVE  t \in Clients /\ ~Dead(t)
<1>1. ~MayDie
  BY DEF Peaceful, MayDie, Killing, Managing
<1> QED
  BY <1>1 DEF Known, Clients

\* SYS_SEND.
LEMMA SysSendPlace ==
  ASSUME Peaceful, Calm, NEW on, RingInv(on), Request \/ SysSend \/ SysSendPending
  PROVE  (\E o : RingInv(o)') /\ cpu' # "reap"
<1>0. /\ TypeOK /\ SleepHolds /\ SSI \in Tcb /\ call \in [Tcb -> CallState]
      /\ cpu # "reap" /\ Tokened(call, t_msgq, free_msg, on) /\ Born(SSI)
      /\ ~Dead(SSI)
  BY RingFacts, ClientFacts DEF Calm, RingInv, Peace, BornPlaces, Born, Dead
<1>1. CASE Request
  <2>1. current_thread \in Clients /\ current_thread \in Tcb /\ call[current_thread].op = "user"
    <3>1. Running("user")
      BY <1>1 DEF Request
    <3> QED
      BY <3>1, RunnerFacts
  <2>2. PICK m \in Requests : sys_send(SSI, m, Recv(SSI))
    BY <1>1 DEF Request
  <2>3. m \in Payload
    BY <2>2, InputAssumption, TagFacts DEF Requests, Payload, PlainTags, AllServices
  <2>4. /\ sched' = sent(sched, current_thread, SSI)
        /\ sys_send_msg(current_thread, SSI, m, [call EXCEPT ![current_thread] = Recv(SSI)])
        /\ UNCHANGED <<current_thread, cpu, device_list>>
    BY <1>0, <2>1, <2>2, SysSendCases
  <2>5. Accepts(SSI, current_thread) => on[SSI] = "wait_queue"
    BY <1>0, <2>1, RingFacts
  <2>6. PICK o : /\ Shape(sched', current_thread', o) /\ Devs(device_list', o)
                 /\ Near(on, o) /\ o[SSI] \notin Off
    BY <1>0, <2>1, <2>4, <2>5, SentPlace
  <2>7. Tokened(call', t_msgq', free_msg', o)
    BY <1>0, <2>1, <2>3, <2>4, <2>6, AskToken
  <2> QED
    BY <1>0, <2>4, <2>6, <2>7 DEF RingInv
<1>2. CASE SysSend
  <2>1. current_thread \in Clients /\ current_thread \in Tcb /\ call[current_thread].op = "user"
    <3>1. Running("user")
      BY <1>2 DEF SysSend
    <3> QED
      BY <3>1, RunnerFacts
  <2>2. PICK t \in Known \ {current_thread} : sys_send(t, Plain("mail"), User)
    BY <1>2 DEF SysSend
  <2>3. t \in Clients /\ t \in Tcb /\ t # current_thread /\ ~Dead(t)
    BY <2>2, KnownAlive DEF Clients
  <2>4. /\ sched' = sent(sched, current_thread, t)
        /\ sys_send_msg(current_thread, t, Plain("mail"), [call EXCEPT ![current_thread] = User])
        /\ UNCHANGED <<current_thread, cpu, device_list>>
    BY <2>1, <2>2, <2>3, SysSendCases
  <2>5. Accepts(t, current_thread) => on[t] = "wait_queue"
    BY <2>1, <2>3, RingFacts, ClientFacts
  <2>6. PICK o : /\ Shape(sched', current_thread', o) /\ Devs(device_list', o)
                 /\ Near(on, o) /\ o[SSI] \notin Off
    BY <2>1, <2>3, <2>4, <2>5, SentPlace
  <2>7. ~Ample /\ Plain("mail") \in Payload
    BY <1>2, PayloadFacts, TagFacts DEF SysSend, Ample
  <2>8. Tokened(call', t_msgq', free_msg', o)
    BY <1>0, <2>1, <2>3, <2>4, <2>6, <2>7, MailToken
  <2> QED
    BY <1>0, <2>4, <2>6, <2>8 DEF RingInv
<1>3. CASE SysSendPending
  <2>1. current_thread = SSI /\ call[SSI].op = "send"
    <3>1. Running("send")
      BY <1>3 DEF SysSendPending
    <3> QED
      BY <3>1, RunnerFacts
  <2> DEFINE to == call[SSI].peer
             m  == call[SSI].msg
             c  == [call EXCEPT ![SSI] = Recv(NULL)]
  <2>2. to \in Tcb /\ m \in Payload /\ sys_send(to, m, Recv(NULL))
    BY <1>0, <1>3, <2>1, CallFacts DEF SysSendPending
  <2>3. Serves(call, to) /\ to \in Clients /\ on[to] \notin Off /\ to # SSI
    BY <2>1, <2>2, RingFacts, ClientFacts DEF Serves
  <2>4. c \in [Tcb -> CallState] /\ c[SSI] = Recv(NULL) /\ \A x \in Clients : c[x] = call[x]
    BY <1>0, ClientFacts, CallFacts
  <2>5. \A x : Serves(c, x) <=> x # to /\ Serves(call, x)
    BY <2>4, ClientFacts DEF Serves
  <2>6. CASE /\ call' = [call EXCEPT ![SSI] = Send(to, m)] /\ cpu' = "sched"
             /\ UNCHANGED <<sched, current_thread, device_list, t_msgq, free_msg>>
    <3>1. call'[SSI] = Send(to, m) /\ \A x \in Clients : call'[x] = call[x]
      BY <1>0, <2>6, ClientFacts
    <3>2. \A x \in Tcb : Serves(call', x) <=> Serves(call, x)
      BY <2>1, <3>1, ClientFacts DEF Serves
    <3>3. Near(on, on) /\ on[SSI] \notin Off
      BY RingFacts DEF Near
    <3>4. \A x \in Clients :
            /\ call'[x] = Recv(SSI) <=> call[x] = Recv(SSI)
            /\ call[x].op \in {"user", "recv"} => call'[x].op \in {"user", "recv"}
      BY <3>1
    <3> HIDE DEF to, m, c
    <3>5. Tokened(call', t_msgq', free_msg', on)
      BY <1>0, <2>6, <3>2, <3>3, <3>4, QuietToken
    <3> QED
      BY <2>6, <3>5 DEF RingInv
  <2> HIDE DEF c
  <2>7. CASE /\ sched' = sent(sched, SSI, to) /\ sys_send_msg(SSI, to, m, c)
             /\ UNCHANGED <<current_thread, cpu, device_list>>
    <3>1. Accepts(to, SSI) => on[to] = "wait_queue"
      BY <1>0, <2>2, <2>3, RingFacts
    <3>2. PICK o : /\ Shape(sched', current_thread', o) /\ Devs(device_list', o)
                   /\ Near(on, o) /\ o[SSI] \notin Off
      BY <1>0, <2>2, <2>7, <3>1, SentPlace
    <3>3. /\ o[to] \notin Off
          /\ \A x \in Tcb \ {to} : o[x] = on[x] \/ {o[x], on[x]} \intersect Off = {}
      BY <2>2, <2>3, <3>2 DEF Near
    <3> HIDE DEF to, m
    <3>4. Tokened(call', t_msgq', free_msg', o)
      BY <1>0, <2>2, <2>3, <2>4, <2>5, <2>7, <3>2, <3>3, AnswerToken
    <3> QED
      BY <1>0, <2>7, <3>2, <3>4 DEF RingInv
  <2> QED
    BY <1>0, <2>1, <2>2, <2>6, <2>7, SysSendCases DEF c
<1> QED
  BY <1>1, <1>2, <1>3

\* SYS_RECV: by a client from whoever is alive, by the SSI from anybody, or
\* made again.
LEMMA SysRecvPlace ==
  ASSUME Peaceful, Calm, NEW on, RingInv(on), NEW s \in Tcb \union {NULL},
         current_thread \in Tcb, sys_recv(s),
         \/ call[current_thread] = Recv(s)
         \/ /\ current_thread \in Clients /\ call[current_thread].op = "user"
            /\ ~Dead(s) /\ s # SSI,
         current_thread = SSI => call[SSI] = Recv(NULL)
  PROVE  (\E o : RingInv(o)') /\ cpu' # "reap"
<1>0. /\ TypeOK /\ SSI \in Tcb /\ call \in [Tcb -> CallState] /\ sched \in SchedType
      /\ t_msgq \in [Tcb -> Seq(Message)] /\ on[SSI] \notin Off /\ Near(on, on)
      /\ cpu # "reap" /\ Tokened(call, t_msgq, free_msg, on) /\ SSI # NULL
  BY RingFacts, ClientFacts, NodeFacts DEF Calm, RingInv, TypeOK, Near
<1>1. PICK self \in Tcb : self = current_thread
  OBVIOUS
<1> DEFINE q == t_msgq[self]
           i == FirstMatch(q, s)
<1>2. device_list' = device_list
  BY DEF sys_recv
\* A call made again, or the same one.
<1>3. ASSUME call' = [call EXCEPT ![self] = Recv(s)]
      PROVE  /\ \A x \in Clients :
                  /\ call'[x] = Recv(SSI) <=> call[x] = Recv(SSI)
                  /\ call[x].op \in {"user", "recv"} => call'[x].op \in {"user", "recv"}
             /\ \A x \in Tcb : Serves(call', x) <=> Serves(call, x)
  <2>1. \A x \in Tcb : call'[x] = IF x = self THEN Recv(s) ELSE call[x]
    BY <1>0, <1>3
  <2>2. self = SSI => call'[SSI] = call[SSI]
    BY <1>0, <1>1, <1>3, ClientFacts
  <2>3. call'[SSI] = call[SSI]
    BY <1>0, <2>1, <2>2
  <2>4. \A x \in Tcb : Serves(call', x) <=> Serves(call, x)
    BY <2>3 DEF Serves
  <2>5. ASSUME NEW x \in Clients
        PROVE  /\ call'[x] = Recv(SSI) <=> call[x] = Recv(SSI)
               /\ call[x].op \in {"user", "recv"} => call'[x].op \in {"user", "recv"}
    <3>1. CASE call[self] = Recv(s) \/ x # self
      BY <2>1, <2>5, <3>1, ClientFacts
    <3>2. CASE x = self /\ call[self].op = "user" /\ s # SSI
      <4>1. call'[x] = Recv(s) /\ call[x].op = "user"
        BY <2>1, <3>2, ClientFacts
      <4>2. call'[x] # Recv(SSI) /\ call[x] # Recv(SSI) /\ call'[x].op = "recv"
        BY <3>2, <4>1, ClientFacts
      <4> QED
        BY <4>2
    <3> QED
      BY <1>1, <3>1, <3>2
  <2> QED
    BY <2>4, <2>5
<1>4. CASE /\ call' = [call EXCEPT ![self] = Recv(s)] /\ cpu' = "sched"
           /\ UNCHANGED <<sched, current_thread, t_msgq, free_msg>>
  <2>1. Tokened(call', t_msgq', free_msg', on)
    BY <1>0, <1>3, <1>4, QuietToken
  <2> QED
    BY <1>2, <1>4, <2>1 DEF RingInv
<1>5. CASE /\ Matches(q, s) # {} /\ msgq_get(s, self)
           /\ call' = [call EXCEPT ![self] = Received(self, q[i].from, q[i].msg)]
           /\ UNCHANGED <<sched, current_thread, cpu>>
  <2>1. i \in 1..Len(q) /\ i \in Matches(q, s)
    BY <1>0, <1>5, MatchType
  <2>2. t_msgq' = [t_msgq EXCEPT ![self] = RemoveAt(@, i)] /\ free_msg' = free_msg + 1
    BY <1>0, <1>5 DEF msgq_get
  <2>3. s = SSI => q[i].from = SSI
    BY <1>0, <2>1 DEF Matches
  <2>4. CASE self = SSI
    <3>1. call[SSI].op = "recv"
      BY <1>1, <2>4, ClientFacts
    <3>2. call' = [call EXCEPT ![SSI] = Serve(t_msgq[SSI][i].from, t_msgq[SSI][i].msg)]
      BY <1>5, <2>4 DEF Received
    <3>3. /\ t_msgq' = [t_msgq EXCEPT ![SSI] = RemoveAt(@, i)] /\ free_msg' = free_msg + 1
          /\ i \in 1..Len(t_msgq[SSI])
      BY <2>1, <2>2, <2>4
    <3>4. Tokened(call', t_msgq', free_msg', on)
      BY <1>0, <3>1, <3>2, <3>3, SsiTakes
    <3> QED
      BY <1>0, <1>2, <1>5, <3>4 DEF RingInv
  <2>5. CASE self # SSI
    <3>1. self \in Clients
      BY <2>5 DEF Clients
    <3>2. call[self] = Recv(SSI) => q[i].from = SSI
      <4>1. call[self] = Recv(SSI) => s = SSI
        <5>1. call[self] = Recv(s) \/ call[self].op = "user"
          BY <1>1
        <5> QED
          BY <5>1, ClientFacts
      <4> QED
        BY <2>3, <4>1
    <3>3. call' = [call EXCEPT ![self] = User]
      BY <1>5, <2>5 DEF Received
    <3>4. Tokened(call', t_msgq', free_msg', on)
      BY <1>0, <2>1, <2>2, <3>1, <3>2, <3>3, ClientTakes
    <3> QED
      BY <1>0, <1>2, <1>5, <3>4 DEF RingInv
  <2> QED
    BY <2>4, <2>5
<1>6. CASE /\ call' = [call EXCEPT ![self] = Recv(s)]
           /\ sched' = put_thread_sleep(sched, self) /\ current_thread' = NULL
           /\ cpu' = "sched" /\ UNCHANGED <<t_msgq, free_msg>>
  <2> DEFINE o == [on EXCEPT ![self] = "wait_queue"]
  <2>1. \A x \in Tcb : o[x] = IF x = self THEN "wait_queue" ELSE on[x]
    BY RingFacts, NodeFacts
  <2>2. Shape(sched', current_thread', o)
    <3>1. Shape(put_thread_sleep(sched, self), NULL, o)
      <4>1. Shape(sched, self, on)
        BY <1>1 DEF RingInv
      <4> QED
        BY <1>0, <4>1, SleepShape
    <3> QED
      BY <1>6, <3>1
  <2> HIDE DEF o
  <2>3. on[self] = "cpu"
    BY <1>1 DEF RingInv, Shape
  <2>4. /\ Near(on, o) /\ o[SSI] \notin Off
        /\ \A x \in Tcb : o[x] = "device" <=> on[x] = "device"
    BY <1>0, <2>1, <2>3 DEF Near, Off, clock
  <2>5. Devs(device_list', o)
    BY <1>2, <2>4, DevsNear DEF RingInv
  <2>6. Tokened(call', t_msgq', free_msg', o)
    BY <1>0, <1>3, <1>6, <2>4, QuietToken
  <2> QED
    BY <1>6, <2>2, <2>5, <2>6 DEF RingInv
<1> QED
  BY <1>1, <1>4, <1>5, <1>6, Zenon DEF sys_recv, check_thread_alive, Reschedule

\* All system calls; nobody traps.
LEMMA ExceptionsPlace ==
  ASSUME Peaceful, Calm, NEW on, RingInv(on), ExceptionsNext
  PROVE  (\E o : RingInv(o)') /\ cpu' # "reap"
<1>0. call \in [Tcb -> CallState] /\ cpu # "reap"
  BY RingFacts DEF Calm
<1>1. CASE Request \/ SysSend \/ SysSendPending
  BY <1>1, SysSendPlace
<1>2. CASE SysRecv
  <2>1. current_thread \in Tcb /\ current_thread \in Clients /\ call[current_thread].op = "user"
    <3>1. Running("user")
      BY <1>2 DEF SysRecv
    <3> QED
      BY <3>1, RunnerFacts
  <2>2. PICK s \in Known \union {NULL} : sys_recv(s)
    BY <1>2 DEF SysRecv
  <2>3. s \in Tcb \union {NULL} /\ ~Dead(s) /\ s # SSI
    <3>1. CASE s = NULL
      BY <3>1, NodeFacts DEF Dead
    <3>2. CASE s \in Known
      BY <3>2, KnownAlive DEF Clients
    <3> QED
      BY <3>1, <3>2
  <2>4. current_thread # SSI
    BY <2>1, ClientFacts
  <2> QED
    BY <2>1, <2>2, <2>3, <2>4, SysRecvPlace
<1>3. CASE SysRecvPending
  <2>1. Running("recv")
    BY <1>3 DEF SysRecvPending
  <2>2. /\ current_thread \in Tcb /\ call[current_thread].op = "recv"
        /\ current_thread = SSI => call[SSI] = Recv(NULL)
    BY <2>1, RunnerFacts
  <2>3. PICK s : s = call[current_thread].peer
    OBVIOUS
  <2>4. s \in Tcb \union {NULL} /\ call[current_thread] = Recv(s)
    <3>1. \A c \in CallState : c.op = "recv" => c = Recv(c.peer)
      BY DEF CallState, Recv, NoPayload
    <3> QED
      BY <1>0, <2>2, <2>3, <3>1, CallFacts
  <2>5. sys_recv(s)
    BY <1>3, <2>3 DEF SysRecvPending
  <2> QED
    BY <2>2, <2>4, <2>5, SysRecvPlace
<1>4. CASE SysPassup \/ TlbTrap \/ PgmTrap
  BY <1>4 DEF SysPassup, TlbTrap, PgmTrap, Peaceful
<1>5. CASE SysZero \/ Breakpoint
  <2>1. /\ UNCHANGED <<sched, call, t_msgq, free_msg, device_list, current_thread>>
        /\ cpu' # "reap"
    BY <1>5 DEF SysZero, Breakpoint, mail
  <2> QED
    BY <2>1, RingKept
<1> QED
  BY <1>1, <1>2, <1>3, <1>4, <1>5 DEF ExceptionsNext

(*-------------------------- interrupts, scheduler ----------------------*)

\* The answer of a device, or of the clock, to a thread that is off its queue.
LEMMA AnswerPlace ==
  ASSUME Peaceful, Calm, NEW on, RingInv(on), NEW t \in Tcb, on[t] \in Off,
         NEW s \in SchedType, s.status = sched.status,
         Shape(s, current_thread, [on EXCEPT ![t] = "device"]),
         NEW tag \in {"status", "tick"},
         sched' = sent(resumed(s, t), SSI, t),
         sys_send_msg(SSI, t, Plain(tag), call), UNCHANGED current_thread,
         Devs(device_list', [on EXCEPT ![t] = "ready_queue"])
  PROVE  \E o : RingInv(o)'
<1>0. /\ TypeOK /\ SleepHolds /\ SSI \in Tcb /\ call \in [Tcb -> CallState]
      /\ Tokened(call, t_msgq, free_msg, on) /\ on[SSI] \notin Off
      /\ on \in [Node -> Places] /\ Tcb \subseteq Node
  BY RingFacts, ClientFacts, NodeFacts DEF RingInv
<1>1. t \in Clients /\ t # SSI /\ ~Serves(call, t)
  BY <1>0, RingFacts DEF Clients
<1>2. Accepts(t, SSI) <=> s.status[t] = "W4MSG"
  BY RingFacts
<1> DEFINE off == [on EXCEPT ![t] = "device"]
           o   == [on EXCEPT ![t] = "ready_queue"]
<1>3. /\ off[t] = "device" /\ [off EXCEPT ![t] = "ready_queue"] = o
      /\ \A x \in Tcb : o[x] = IF x = t THEN "ready_queue" ELSE on[x]
  BY <1>0
<1> HIDE DEF off
<1>4. Shape(sched', current_thread', o)
  <2>1. Shape(s, current_thread, off)
    BY DEF off
  <2>2. Shape(sent(resumed(s, t), SSI, t), current_thread, [off EXCEPT ![t] = "ready_queue"])
    BY <1>2, <1>3, <2>1, AnswerShape
  <2>3. Shape(sent(resumed(s, t), SSI, t), current_thread, o)
    BY <1>3, <2>2
  <2> QED
    BY <2>3
<1>5. Devs(device_list', o)
  OBVIOUS
<1> HIDE DEF o
<1>6. Plain(tag) \in Payload
  BY PayloadFacts, TagFacts
<1>7. \A x : Serves(call, x) <=> x # t /\ Serves(call, x)
  BY <1>1
<1>8. /\ \A x \in Tcb \ {t} : o[x] = on[x] \/ {o[x], on[x]} \intersect Off = {}
      /\ o[t] \notin Off /\ o[SSI] \notin Off
  BY <1>0, <1>1, <1>3 DEF Off, clock
<1>9. Tokened(call', t_msgq', free_msg', o)
  BY <1>0, <1>1, <1>6, <1>7, <1>8, AnswerToken
<1> QED
  BY <1>4, <1>5, <1>9 DEF RingInv

\* The timer, the devices and the scheduler.
LEMMA NucleusPlace ==
  ASSUME Peaceful, Calm, NEW on, RingInv(on), InterruptsNext \/ SchedulerNext
  PROVE  (\E o : RingInv(o)') /\ cpu' # "reap"
<1>0. /\ TypeOK /\ SSI \in Tcb /\ sched \in SchedType /\ on[SSI] \notin Off
      /\ current_thread \in Tcb \union {NULL} /\ NULL \notin Tcb
      /\ device_list \in [Devices -> Tcb \union {NULL}]
      /\ Tokened(call, t_msgq, free_msg, on) /\ on \in [Node -> Places] /\ Tcb \subseteq Node
  BY RingFacts, ClientFacts, NodeFacts DEF RingInv
\* A step that moves one thread, not to or from the clock or a device.
<1>1. ASSUME NEW t \in Tcb, NEW p, p \notin Off, on[t] \notin Off,
             Shape(sched', current_thread', [on EXCEPT ![t] = p]),
             UNCHANGED <<call, t_msgq, free_msg, device_list>>
      PROVE  \E o : RingInv(o)'
  <2> DEFINE o == [on EXCEPT ![t] = p]
  <2>1. \A x \in Tcb : o[x] = IF x = t THEN p ELSE on[x]
    BY <1>0
  <2>2. Shape(sched', current_thread', o)
    BY <1>1
  <2> HIDE DEF o
  <2>3. /\ Near(on, o) /\ o[SSI] \notin Off
        /\ \A x \in Tcb : o[x] = "device" <=> on[x] = "device"
    BY <1>0, <1>1, <2>1 DEF Near, Off
  <2>4. Devs(device_list', o)
    BY <1>1, <2>3, DevsNear DEF RingInv
  <2>5. Tokened(call', t_msgq', free_msg', o)
    BY <1>0, <1>1, <2>3, QuietToken
  <2> QED
    BY <2>2, <2>4, <2>5 DEF RingInv
<1>2. CASE SliceOver
  <2>1. PICK t \in Tcb : t = current_thread
    BY <1>0, <1>2 DEF SliceOver
  <2>2. Shape(sched, t, on) /\ on[t] = "cpu"
    BY <2>1 DEF RingInv, Shape
  <2>3. Shape(thread_enqueue(sched, t, "ready_queue"), NULL, [on EXCEPT ![t] = "ready_queue"])
    BY <1>0, <2>2, SliceShape
  <2>4. /\ sched' = thread_enqueue(sched, t, "ready_queue") /\ current_thread' = NULL
        /\ UNCHANGED <<call, t_msgq, free_msg, device_list>> /\ cpu' # "reap"
    BY <1>2, <2>1 DEF SliceOver, Reschedule, mail
  <2>5. Shape(sched', current_thread', [on EXCEPT ![t] = "ready_queue"])
    BY <2>3, <2>4
  <2>6. on[t] \notin Off /\ "ready_queue" \notin Off
    BY <2>2 DEF Off, clock
  <2> QED
    BY <1>1, <2>4, <2>5, <2>6
<1>3. CASE Tick \/ Halt \/ Panic \/ Wait \/ FallThrough \/ Resume \/ Crash
  <2>1. /\ UNCHANGED <<sched, current_thread, call, t_msgq, free_msg, device_list>>
        /\ cpu' # "reap"
    BY <1>3 DEF Tick, Halt, Panic, Wait, FallThrough, Stop, Resume, Crash, mail
  <2> QED
    BY <2>1, RingKept
<1>4. ASSUME NEW d \in Devices, DeviceInterrupt(d)
      PROVE  (\E o : RingInv(o)') /\ cpu' # "reap"
  <2>1. PICK t : t = device_list[d]
    OBVIOUS
  <2>2. /\ sched' = sent(resumed(sched, t), SSI, t)
        /\ sys_send_msg(SSI, t, Plain("status"), call)
        /\ device_list' = [device_list EXCEPT ![d] = NULL]
        /\ current_thread' = current_thread /\ cpu' = "sched" /\ t # NULL
    BY <1>4, <2>1 DEF DeviceInterrupt
  <2>3. t \in Tcb /\ on[t] = "device" /\ on[t] \in Off
    <3>1. t \in Tcb
      BY <1>0, <2>1, <2>2
    <3> QED
      BY <2>1, <3>1 DEF RingInv, Devs, Off
  <2>4. Shape(sched, current_thread, [on EXCEPT ![t] = "device"])
    <3>1. [on EXCEPT ![t] = "device"] = on
      BY <1>0, <2>3
    <3> QED
      BY <3>1 DEF RingInv
  <2>5. Devs(device_list', [on EXCEPT ![t] = "ready_queue"])
    <3> DEFINE o == [on EXCEPT ![t] = "ready_queue"]
    <3>1. /\ \A x \in Tcb : o[x] = IF x = t THEN "ready_queue" ELSE on[x]
          /\ \A e \in Devices : device_list'[e] = IF e = d THEN NULL ELSE device_list[e]
      BY <1>0, <2>2
    <3> HIDE DEF o
    <3>2. Devs(device_list, on)
      BY DEF RingInv
    <3>3. Devs(device_list', o)
      BY <1>0, <2>1, <2>2, <2>3, <3>1, <3>2 DEF Devs
    <3> QED
      BY <3>3 DEF o
  <2>6. \E o : RingInv(o)'
    BY <1>0, <2>2, <2>3, <2>4, <2>5, AnswerPlace
  <2> QED
    BY <2>2, <2>6
<1>5. CASE ClockExpire
  <2>1. PICK t : t = thread_qhead(sched, clock)
    OBVIOUS
  <2>2. CASE /\ t \in Tcb
             /\ sched' = sent(resumed(thread_dequeue(sched, clock), t), SSI, t)
             /\ sys_send_msg(SSI, t, Plain("tick"), call)
             /\ UNCHANGED <<current_thread, cpu, device_list>>
    <3>1. /\ on[t] = clock /\ on[t] \in Off
          /\ Shape(thread_dequeue(sched, clock), current_thread, [on EXCEPT ![t] = "device"])
      BY <1>0, <2>1, <2>2, ExpireShape DEF RingInv, Off
    <3>2. /\ thread_dequeue(sched, clock) \in SchedType
          /\ thread_dequeue(sched, clock).status = sched.status
      <4>1. clock \in Heads
        BY DEF clock, Heads
      <4>2. thread_dequeue(sched, clock) \in SchedType
        BY <1>0, <4>1, QueueType
      <4>3. thread_dequeue(sched, clock).status = sched.status
        BY <1>0, <4>1, StatusFacts
      <4> QED
        BY <4>2, <4>3
    <3>3. Devs(device_list', [on EXCEPT ![t] = "ready_queue"])
      <4> DEFINE o == [on EXCEPT ![t] = "ready_queue"]
      <4>1. \A x \in Tcb : o[x] = "device" <=> on[x] = "device"
        BY <1>0, <3>1 DEF clock
      <4> HIDE DEF o
      <4>2. Devs(device_list', o)
        BY <2>2, <4>1, DevsNear DEF RingInv
      <4> QED
        BY <4>2 DEF o
    <3>4. \E o : RingInv(o)'
      BY <1>0, <2>2, <3>1, <3>2, <3>3, AnswerPlace
    <3> QED
      BY <2>2, <3>4 DEF Calm
  <2> QED
    BY <1>3, <1>5, <2>1, <2>2, Zenon DEF ClockExpire
<1>6. CASE Dispatch
  <2>1. PICK t : t = thread_qhead(sched, "ready_queue")
    OBVIOUS
  <2>2. CASE /\ t \in Tcb /\ current_thread = NULL
             /\ sched' = thread_dequeue(sched, "ready_queue")
             /\ current_thread' = t
             /\ cpu' = "run"
             /\ UNCHANGED <<call, mail, families, manager, device_list, reap>>
    <3>1. Shape(sched', current_thread', [on EXCEPT ![t] = "cpu"]) /\ on[t] = "ready_queue"
      <4>1. Shape(sched, NULL, on)
        BY <2>2 DEF RingInv
      <4>2. Shape(thread_dequeue(sched, "ready_queue"), t, [on EXCEPT ![t] = "cpu"])
        BY <1>0, <2>1, <2>2, <4>1, DispatchShape
      <4>3. on[t] = "ready_queue"
        <5>1. \E pos : Rings(sched, on, pos)
          BY <4>1 DEF Shape
        <5>2. "ready_queue" \in Node /\ "ready_queue" \in Heads
          BY NodeFacts DEF Heads
        <5> QED
          BY <2>1, <5>1, <5>2 DEF Rings, OnRing, thread_qhead
      <4> QED
        BY <2>2, <4>2, <4>3
    <3>2. on[t] \notin Off /\ "cpu" \notin Off
      BY <3>1 DEF Off, clock
    <3>3. UNCHANGED <<call, t_msgq, free_msg, device_list>>
      BY <2>2 DEF mail
    <3>4. \E o : RingInv(o)'
      BY <1>1, <2>2, <3>1, <3>2, <3>3
    <3> QED
      BY <2>2, <3>4
  <2> QED
    BY <1>3, <1>6, <2>1, <2>2, Zenon DEF Dispatch
<1> QED
  BY <1>2, <1>3, <1>4, <1>5, <1>6 DEF InterruptsNext, SchedulerNext

(*----------------------------------- boot ------------------------------*)

\* At boot the two threads main() makes are in the ready queue, and nobody
\* has asked for anything.
LEMMA InitPlace == Init => cpu # "reap" /\ \E on : RingInv(on)
<1> SUFFICES ASSUME Init PROVE cpu # "reap" /\ \E on : RingInv(on)
  OBVIOUS
<1>0. /\ SSI \in Tcb /\ test_thread \in Tcb /\ "ready_queue" \in Heads /\ Tcb \subseteq Node
      /\ SSI # test_thread /\ NULL \notin Tcb /\ Heads \subseteq Node
      /\ \A t \in Tcb : t \notin Heads
  <2>1. SSI # test_thread
    <3>1. /\ store_t \in Seq(Tcb) /\ Len(store_t) >= 2 /\ Len(store_t) \in Nat
          /\ \A i, j \in DOMAIN store_t : store_t[i] = store_t[j] => i = j
      BY StoreAssumption DEF IsInjective
    <3>2. 1 \in DOMAIN store_t /\ 2 \in DOMAIN store_t
      BY <3>1
    <3> QED
      BY <3>1, <3>2 DEF SSI, test_thread
  <2> QED
    BY <2>1, NodeFacts, StoreAssumption DEF Heads
<1> DEFINE start == [n \in Node |-> IF n \in Heads THEN n ELSE "none"]
           one   == thread_enqueue(Alone, SSI, "ready_queue")
           two   == thread_enqueue(one, test_thread, "ready_queue")
           ssi   == [start EXCEPT ![SSI] = "ready_queue"]
           both  == [ssi EXCEPT ![test_thread] = "ready_queue"]
<1>1. Alone \in SchedType /\ \E pos : Rings(Alone, start, pos)
  <2>1. Alone \in SchedType
    BY BoundAssumption DEF Alone, SchedType, Status
  <2>2. Rings(Alone, start, [n \in Node |-> 0])
    <3>1. "none" \notin Heads /\ "none" \in Places /\ Heads \subseteq Places
      BY DEF Heads, Places
    <3>2. /\ \A h \in Heads : start[h] = h
          /\ start \in [Node -> Places]
          /\ \A n \in Node : start[n] \in Heads => n \in Heads
      BY <1>0, <3>1
    <3>3. \A n \in Node : Alone.next[n] = n /\ Alone.prev[n] = n
      BY DEF Alone
    <3> HIDE DEF start
    <3>4. \A n \in Node : start[n] \in Heads => OnRing(Alone, start, [m \in Node |-> 0], n)
      BY <3>2, <3>3 DEF OnRing
    <3> QED
      BY <1>0, <3>2, <3>4 DEF Rings
  <2> QED
    BY <2>1, <2>2
<1>2. start[SSI] \notin Heads /\ \A x \in Tcb : start[x] = "none"
  BY <1>0 DEF Heads
<1>3. /\ one \in SchedType /\ \E pos : Rings(one, ssi, pos)
      /\ one.status = Alone.status /\ one.soft = Alone.soft
  <2> HIDE DEF start
  <2> QED
    BY <1>0, <1>1, <1>2, Join
<1>4. \A x \in Tcb : ssi[x] = IF x = SSI THEN "ready_queue" ELSE "none"
  BY <1>0, <1>2
<1>5. /\ two \in SchedType /\ \E pos : Rings(two, both, pos)
      /\ two.status = Alone.status /\ two.soft = Alone.soft
  <2>1. ssi[test_thread] \notin Heads
    BY <1>0, <1>4 DEF Heads
  <2> HIDE DEF one, ssi
  <2> QED
    BY <1>0, <1>3, <2>1, Join
<1>6. \A x \in Tcb : both[x] = IF x \in {SSI, test_thread} THEN "ready_queue" ELSE "none"
  BY <1>0, <1>4
<1>7. sched = two /\ current_thread = NULL /\ cpu = "sched"
  BY DEF Init
<1> HIDE DEF start, one, two, ssi, both
<1>8. Shape(sched, current_thread, both)
  <2>1. Alone.soft = 0 /\ \A t \in Tcb : Alone.status[t] = IF t \in {SSI, test_thread}
                                                           THEN "READY" ELSE "NONE"
    BY DEF Alone
  <2>2. {t \in Tcb : Blocked(both[t], two.status[t])} = {}
    BY <1>5, <1>6, <2>1 DEF Blocked, clock
  <2>3. Cardinality({}) = 0
    BY FS_EmptySet
  <2>4. two.soft = Cardinality({t \in Tcb : Blocked(both[t], two.status[t])})
    BY <1>5, <2>1, <2>2, <2>3
  <2>5. \A t \in Tcb : /\ both[t] = "cpu" <=> NULL = t
                       /\ both[t] = "cpu" => Lone(two, t) /\ two.status[t] = "READY"
                       /\ both[t] = "none" <=> two.status[t] = "NONE"
                       /\ both[t] = "ready_queue" => two.status[t] = "READY"
                       /\ both[t] = "wait_queue" => two.status[t] = "W4MSG"
    BY <1>0, <1>5, <1>6, <2>1
  <2> QED
    BY <1>5, <1>7, <2>4, <2>5 DEF Shape
<1>9. Devs(device_list, both)
  BY <1>0, <1>6 DEF Init, Devs
<1>10. Tokened(call, t_msgq, free_msg, both)
  <2> DEFINE k == [t \in Clients |-> "none"]
  <2>1. /\ call[SSI] = Recv(NULL) /\ \A t \in Clients : call[t] = User
        /\ \A t \in Tcb : t_msgq[t] = <<>>
        /\ free_msg = MAXMSG
    BY <1>0, ClientFacts DEF Init
  <2>2. \A t, x \in Tcb : MailOf(t_msgq[t], x) = {}
    BY <2>1 DEF MailOf
  <2>3. \A t \in Tcb : ~Serves(call, t) /\ both[t] \notin Off
    BY <1>6, <2>1, ClientFacts DEF Serves, Off, clock
  <2>4. \A t \in Clients : Held(t, "none", call, t_msgq, both)
    BY <2>1, <2>2, <2>3, StageFacts, ClientFacts DEF Held, Single
  <2>5. Promised(k, call, t_msgq, both)
    <3>1. k \in [Clients -> Stages] /\ \A t \in Clients : k[t] = "none"
      BY StageFacts
    <3> HIDE DEF k
    <3> QED
      BY <2>2, <2>3, <2>4, <3>1, ClientFacts DEF Promised
  <2>6. Exact(k, call, t_msgq, free_msg)
    <3>1. Queued(k) = {}
      BY DEF Queued
    <3>2. MAXMSG - 0 = MAXMSG
      BY BoundAssumption
    <3>3. \A t \in Clients : call[t] # Recv(SSI) /\ DOMAIN t_msgq[t] = {}
      BY <2>1, ClientFacts
    <3> HIDE DEF k
    <3> QED
      BY <2>1, <3>1, <3>2, <3>3, FS_EmptySet DEF Exact
  <2> HIDE DEF k
  <2> QED
    BY <2>5, <2>6 DEF Tokened
<1> QED
  BY <1>7, <1>8, <1>9, <1>10 DEF RingInv

(*------------------------------ the invariant --------------------------*)

\* Threads have places, and no trap handler is in an extermination.
Placed == cpu # "reap" /\ \E on : RingInv(on)

LEMMA PlacedInductive ==
  ASSUME Peaceful
  PROVE  Spec => [](Calm /\ Placed)
<1>0. Services \intersect Managing = {}
  BY DEF Peaceful
<1>1. Init => Placed
  BY InitPlace DEF Placed
<1>2. FamilyInv /\ WakeInv /\ Peace /\ Placed /\ [Next]_vars => Placed'
  <2> SUFFICES ASSUME FamilyInv, WakeInv, Peace, Placed, [Next]_vars
               PROVE  Placed'
    OBVIOUS
  <2>1. Calm
    BY DEF Calm, Placed
  <2>2. PICK on : RingInv(on)
    BY DEF Placed
  <2>3. (\E o : RingInv(o)') /\ cpu' # "reap"
    <3>1. CASE SsiNext
      BY <2>1, <2>2, <3>1, ServicesPlace
    <3>2. CASE ExceptionsNext
      BY <2>1, <2>2, <3>2, ExceptionsPlace
    <3>3. CASE InterruptsNext \/ SchedulerNext
      BY <2>1, <2>2, <3>3, NucleusPlace
    <3>4. CASE UNCHANGED vars
      BY <2>1, <2>2, <3>4, RingKept DEF vars, mail, Calm
    <3> QED
      BY <3>1, <3>2, <3>3, <3>4 DEF Next
  <2> QED
    BY <2>3 DEF Placed
<1>3. Placed => cpu # "reap"
  BY DEF Placed
<1>4. Spec => []WakeInv
  BY <1>0, WakeInductive
<1> QED
  BY <1>1, <1>2, <1>3, <1>4, FamilyInductive, PeaceInductive, PTL DEF Spec, Calm

(*------------------------------- theorems ------------------------------*)

\* The queues hold the threads that are on them, and the devices theirs.
LEMMA QueuesAre ==
  ASSUME Calm, NEW on, RingInv(on)
  PROVE  /\ \A q \in Heads : /\ Members(sched, q) = {n \in Node : on[n] = q}
                             /\ Linked(sched, Members(sched, q))
         /\ \A t \in Tcb, q \in Heads : InQueue(t, q) <=> on[t] = q
         /\ \A t \in Tcb : Parked(t) <=> on[t] \in Off
         /\ \A t \in Tcb : Cardinality({d \in Devices : device_list[d] = t})
                           = IF on[t] = "device" THEN 1 ELSE 0
<1>1. \A q \in Heads : /\ Members(sched, q) = {n \in Node : on[n] = q}
                       /\ Linked(sched, Members(sched, q))
  BY RingFacts, MembersAre DEF RingInv, Shape
<1>2. \A t \in Tcb, q \in Heads : InQueue(t, q) <=> on[t] = q
  BY <1>1, NodeFacts DEF InQueue
<1>3. Devs(device_list, on)
  BY DEF RingInv
<1>4. \A t \in Tcb : Parked(t) <=> on[t] \in Off
  <2>1. clock \in Heads
    BY DEF clock, Heads
  <2> QED
    BY <1>2, <1>3, <2>1 DEF Parked, Off, Devs
<1>5. ASSUME NEW t \in Tcb
      PROVE  Cardinality({d \in Devices : device_list[d] = t})
             = IF on[t] = "device" THEN 1 ELSE 0
  <2>1. CASE on[t] = "device"
    <3>1. PICK d \in Devices : device_list[d] = t
      BY <1>3, <2>1 DEF Devs
    <3>2. {e \in Devices : device_list[e] = t} = {d}
      BY <1>3, <3>1, NodeFacts DEF Devs
    <3>3. Cardinality({d}) = 1
      BY FS_Singleton
    <3> QED
      BY <2>1, <3>2, <3>3
  <2>2. CASE on[t] # "device"
    <3>1. {e \in Devices : device_list[e] = t} = {}
      BY <1>3, <2>2 DEF Devs
    <3> QED
      BY <2>2, <3>1, FS_EmptySet
  <2> QED
    BY <2>1, <2>2
<1> QED
  BY <1>1, <1>2, <1>4, <1>5

\* The places of a thread, counted.
LEMMA PlacesCounted ==
  ASSUME Calm, Placed
  PROVE  OnePlace
<1>1. PICK on : RingInv(on)
  BY DEF Placed
<1> DEFINE queue == [q \in Heads |-> Members(sched, q)]
<1>2. \A q \in Heads : queue[q] = {n \in Node : on[n] = q} /\ Linked(sched, queue[q])
  BY <1>1, QueuesAre
<1>3. \A t \in Alive : t \in Tcb /\ on[t] # "none" /\ on[t] \in Places /\ t \in Node
  BY <1>1, RingFacts, NodeFacts DEF Alive, Born
<1> HIDE DEF queue
<1>4. ASSUME NEW q \in Heads PROVE queue[q] \subseteq Alive \union {q}
  <2>1. ASSUME NEW n \in Node, on[n] = q, n # q PROVE n \in Alive
    <3>1. \A h \in Heads : on[h] = h
      BY <1>1 DEF RingInv, Shape, Rings
    <3>2. n \in Tcb
      BY <2>1, <3>1 DEF Node
    <3>3. on[n] # "none"
      BY <2>1 DEF Heads
    <3> QED
      BY <1>1, <3>2, <3>3, RingFacts DEF Alive, Born
  <2> QED
    BY <1>2, <2>1
<1>5. ASSUME NEW t \in Alive
      PROVE  (IF current_thread = t THEN 1 ELSE 0)
             + Cardinality({q \in Heads : t \in queue[q]})
             + Cardinality({d \in Devices : device_list[d] = t}) = 1
  <2>1. Cardinality({d \in Devices : device_list[d] = t}) = IF on[t] = "device" THEN 1 ELSE 0
    BY <1>1, <1>3, QueuesAre
  <2>2. current_thread = t <=> on[t] = "cpu"
    BY <1>1, <1>3 DEF RingInv, Shape
  <2>3. Cardinality({q \in Heads : t \in queue[q]}) = IF on[t] \in Heads THEN 1 ELSE 0
    <3>1. CASE on[t] \in Heads
      <4>1. {q \in Heads : t \in queue[q]} = {on[t]}
        BY <1>2, <1>3, <3>1
      <4>2. Cardinality({on[t]}) = 1
        BY FS_Singleton
      <4> QED
        BY <3>1, <4>1, <4>2
    <3>2. CASE on[t] \notin Heads
      <4>1. {q \in Heads : t \in queue[q]} = {}
        BY <1>2, <1>3, <3>2
      <4> QED
        BY <3>2, <4>1, FS_EmptySet
    <3> QED
      BY <3>1, <3>2
  <2>4. on[t] \in Heads \union {"cpu", "device"}
    BY <1>3 DEF Places
  <2>5. "cpu" \notin Heads /\ "device" \notin Heads
    BY DEF Heads
  <2> QED
    BY <2>1, <2>2, <2>3, <2>4, <2>5
<1> QED
  BY <1>2, <1>4, <1>5 DEF OnePlace, queue

\* A live thread is in exactly one place and the queues are sound lists, for
\* any number of threads and devices and whatever the services, the time
\* slices and the interrupts: none of the functions that move a thread
\* leaves it behind somewhere else.
THEOREM PlacesSound ==
  ASSUME Peaceful
  PROVE  Spec => []OnePlace
<1>1. Calm /\ Placed => OnePlace
  BY PlacesCounted
<1> QED
  BY <1>1, PlacedInductive, PTL

\* The counter of the blocked threads is exact, wherever it is read: all the
\* places that change it, those that act before a thread has reached its
\* receive and those that act after, keep the same account.
THEOREM CounterSound ==
  ASSUME Peaceful
  PROVE  Spec => []SoftBlockExact
<1>1. Calm /\ Placed => SoftBlockExact
  <2> SUFFICES ASSUME Calm, Placed PROVE SoftBlockExact
    OBVIOUS
  <2>1. PICK on : RingInv(on)
    BY DEF Placed
  <2>2. \A t \in Tcb : /\ Parked(t) <=> on[t] \in Off
                       /\ on[t] \in Off => t \in Alive
                       /\ sched.status[t] = "W4MSG" => t \in Alive
    BY <2>1, RingFacts, QueuesAre DEF Alive, Born, Off, clock
  <2>3. {t \in Tcb : Blocked(on[t], sched.status[t])}
        = {t \in Alive : Sleeping(t) \/ Parked(t)}
    BY <2>2 DEF Blocked, Alive, Sleeping, Off
  <2>4. sched.soft = Cardinality({t \in Tcb : Blocked(on[t], sched.status[t])})
    BY <2>1 DEF RingInv, Shape
  <2> QED
    BY <2>3, <2>4 DEF SoftBlockExact
<1> QED
  BY <1>1, PlacedInductive, PTL

\* The traces of a request, counted: one for a request at a stage.
LEMMA TokensCounted ==
  ASSUME Calm, NEW on, RingInv(on), NEW k, Promised(k, call, t_msgq, on), NEW t \in Clients
  PROVE  Tokens(t) = IF k[t] = "none" THEN 0 ELSE 1
<1>0. t \in Tcb /\ Held(t, k[t], call, t_msgq, on)
  BY ClientFacts DEF Promised
<1>1. ASSUME NEW S, Single(S)
      PROVE  Cardinality(S) = IF S = {} THEN 0 ELSE 1
  <2>1. CASE S = {}
    BY <2>1, FS_EmptySet
  <2>2. CASE S # {}
    <3>1. PICK i \in S : TRUE
      BY <2>2
    <3>2. S = {i}
      BY <1>1, <3>1 DEF Single
    <3> QED
      BY <2>2, <3>2, FS_Singleton
  <2> QED
    BY <2>1, <2>2
<1>2. /\ Cardinality(MailOf(t_msgq[SSI], t)) = IF k[t] = "asked" THEN 1 ELSE 0
      /\ Cardinality(MailOf(t_msgq[t], SSI)) = IF k[t] = "answered" THEN 1 ELSE 0
  BY <1>0, <1>1 DEF Held
<1>3. Serves(call, t) <=> k[t] = "served"
  BY <1>0 DEF Held
<1>4. /\ InQueue(t, clock) <=> k[t] = clock
      /\ Cardinality({d \in Devices : device_list[d] = t}) = IF k[t] = "device" THEN 1 ELSE 0
  <2>1. clock \in Heads
    BY DEF clock, Heads
  <2>2. /\ InQueue(t, clock) <=> on[t] = clock
        /\ Cardinality({d \in Devices : device_list[d] = t}) = IF on[t] = "device" THEN 1 ELSE 0
    BY <1>0, <2>1, QueuesAre
  <2> QED
    BY <1>0, <2>2 DEF Held, Off
<1>5. k[t] \in {"none", "asked", "served", "answered", "device", clock}
  BY <1>0 DEF Held, Stages, Off
<1>6. Tokens(t) = Cardinality(MailOf(t_msgq[SSI], t)) + Cardinality(MailOf(t_msgq[t], SSI))
                  + (IF Serves(call, t) THEN 1 ELSE 0)
                  + (IF InQueue(t, clock) THEN 1 ELSE 0)
                  + Cardinality({d \in Devices : device_list[d] = t})
  BY DEF Tokens, CountOf, MailOf, Serves
<1>7. clock \notin {"none", "asked", "served", "answered", "device"}
  BY DEF clock
<1> QED
  BY <1>2, <1>3, <1>4, <1>5, <1>6, <1>7

\* No request is answered twice, whatever the pool: a client that waits for
\* nothing has no request under way and no reply in its queue, and one that
\* waits has one of them at most.
THEOREM RepliesSound ==
  ASSUME Peaceful
  PROVE  Spec => []AtMostOneReply
<1>1. Calm /\ Placed => AtMostOneReply
  <2> SUFFICES ASSUME Calm, Placed, NEW t \in Clients
               PROVE  Tokens(t) <= IF Awaits(t) THEN 1 ELSE 0
    BY DEF AtMostOneReply
  <2>1. PICK on : RingInv(on)
    BY DEF Placed
  <2>2. PICK k : Promised(k, call, t_msgq, on)
    BY <2>1 DEF RingInv, Tokened
  <2>3. Tokens(t) = IF k[t] = "none" THEN 0 ELSE 1
    BY <2>1, <2>2, TokensCounted
  <2>4. k[t] # "none" => Awaits(t)
    BY <2>2 DEF Promised, Held, Awaits
  <2> QED
    BY <2>3, <2>4
<1> QED
  BY <1>1, PlacedInductive, PTL

\* Where the pool has a message for a request or a reply of each client, and
\* the clients write to the SSI only, none is dropped either: exactly one
\* answer is under way to each client that waits.
THEOREM RepliesExact ==
  ASSUME Peaceful, Ample
  PROVE  Spec => []OneReply
<1>1. Calm /\ Placed => OneReply
  <2> SUFFICES ASSUME Calm, Placed, NEW t \in Clients
               PROVE  Tokens(t) = IF Awaits(t) THEN 1 ELSE 0
    BY DEF OneReply
  <2>1. PICK on : RingInv(on)
    BY DEF Placed
  <2>2. PICK k : Promised(k, call, t_msgq, on) /\ Exact(k, call, t_msgq, free_msg)
    BY <2>1 DEF RingInv, Tokened
  <2>3. Tokens(t) = IF k[t] = "none" THEN 0 ELSE 1
    BY <2>1, <2>2, TokensCounted
  <2>4. k[t] # "none" <=> Awaits(t)
    BY <2>2 DEF Promised, Held, Exact, Awaits
  <2> QED
    BY <2>3, <2>4
<1> QED
  BY <1>1, PlacedInductive, PTL

(*----------------------------------- pool ------------------------------*)

\* The messages in the queues q together, as PoolConserved counts them.
Stored(q) == FoldFunctionOnSet(LAMBDA a, n : n + Len(a), 0, q, Tcb)

\* f counts the messages in the queues of each set of threads, thread by
\* thread.
Choice(S)  == CHOOSE x \in S : TRUE
Rest(S)    == S \ {Choice(S)}
Sums(f, q) == \A S \in SUBSET Tcb :
                f[S] = IF S = {} THEN 0 ELSE f[Rest(S)] + Len(q[Choice(S)])

\* The sizes of the sets of threads.
LEMMA ThreadSets ==
  /\ Cardinality(Tcb) \in Nat
  /\ \A S \in SUBSET Tcb : /\ Cardinality(S) \in Nat /\ Cardinality(S) <= Cardinality(Tcb)
                           /\ S # {} => /\ Choice(S) \in S /\ Rest(S) \in SUBSET Tcb
                                        /\ Cardinality(Rest(S)) = Cardinality(S) - 1
                           /\ Cardinality(S) = 0 <=> S = {}
<1>1. IsFiniteSet(Tcb) /\ Cardinality(Tcb) \in Nat
  BY TablesFinite, FS_CardinalityType
<1>2. ASSUME NEW S \in SUBSET Tcb
      PROVE  /\ Cardinality(S) \in Nat /\ Cardinality(S) <= Cardinality(Tcb)
             /\ S # {} => /\ Choice(S) \in S /\ Rest(S) \in SUBSET Tcb
                          /\ Cardinality(Rest(S)) = Cardinality(S) - 1
             /\ Cardinality(S) = 0 <=> S = {}
  <2>1. IsFiniteSet(S) /\ Cardinality(S) <= Cardinality(Tcb) /\ Cardinality(S) \in Nat
    BY <1>1, FS_Subset, FS_CardinalityType
  <2>2. S # {} => Choice(S) \in S
    BY DEF Choice
  <2>3. S # {} => Cardinality(S \ {Choice(S)}) = Cardinality(S) - 1
    BY <2>1, <2>2, FS_RemoveElement
  <2>4. Cardinality(S) = 0 <=> S = {}
    BY <2>1, FS_EmptySet
  <2> QED
    BY <2>1, <2>2, <2>3, <2>4 DEF Rest
<1> QED
  BY <1>1, <1>2

\* There is such a function, and PoolConserved takes its value at Tcb.
LEMMA StoredIs ==
  ASSUME NEW q \in [Tcb -> Seq(Message)]
  PROVE  \E f : Sums(f, q) /\ Stored(q) = f[Tcb]
<1> DEFINE N == Cardinality(Tcb)
           L(S) == Len(q[Choice(S)])
           Rec(g) == [S \in SUBSET Tcb |-> IF S = {} THEN 0 ELSE g[Rest(S)] + L(S)]
           Walk(g, n) == \A S \in SUBSET Tcb : Cardinality(S) <= n => g[S] = Rec(g)[S]
           T == {n \in Nat : \E g : Walk(g, n)}
<1>0. \A g : /\ Rec(g)[{}] = 0
             /\ \A S \in SUBSET Tcb : S # {} => Rec(g)[S] = g[Rest(S)] + L(S)
  OBVIOUS
<1>1. \E g : Walk(g, 0)
  <2> DEFINE z == [S \in SUBSET Tcb |-> 0]
  <2>1. z[{}] = 0
    OBVIOUS
  <2> HIDE DEF Rec, z
  <2>2. Walk(z, 0)
    <3> SUFFICES ASSUME NEW S \in SUBSET Tcb, Cardinality(S) <= 0 PROVE z[S] = Rec(z)[S]
      OBVIOUS
    <3>1. S = {}
      BY ThreadSets
    <3> QED
      BY <1>0, <2>1, <3>1
  <2> QED
    BY <2>2
<1>2. ASSUME NEW n \in Nat, NEW g, Walk(g, n) PROVE Walk(Rec(g), n + 1)
  <2> SUFFICES ASSUME NEW S \in SUBSET Tcb, Cardinality(S) <= n + 1
               PROVE  Rec(g)[S] = Rec(Rec(g))[S]
    OBVIOUS
  <2> HIDE DEF Rec, L
  <2>1. CASE S = {}
    BY <1>0, <2>1
  <2>2. CASE S # {}
    <3>1. Rest(S) \in SUBSET Tcb /\ Cardinality(Rest(S)) <= n
      BY <2>2, ThreadSets
    <3>2. Rec(g)[Rest(S)] = g[Rest(S)]
      BY <1>2, <3>1
    <3> QED
      BY <1>0, <2>2, <3>2
  <2> QED
    BY <2>1, <2>2
<1> HIDE DEF Walk, Rec
<1>3. PICK g : Walk(g, N)
  <2>1. 0 \in T /\ \A n \in Nat : n \in T => n + 1 \in T
    BY <1>1, <1>2
  <2>2. Nat \subseteq T
    <3> HIDE DEF T
    <3> QED
      BY <2>1, AllNumbers
  <2> QED
    BY <2>2, ThreadSets
<1>4. Rec(g) = Rec(Rec(g))
  <2>1. \A S \in SUBSET Tcb : g[S] = Rec(g)[S]
    BY <1>3, ThreadSets DEF Walk
  <2>2. \A S \in SUBSET Tcb : S # {} => g[Rest(S)] = Rec(g)[Rest(S)]
    BY <2>1, ThreadSets
  <2>3. \A S \in SUBSET Tcb : (IF S = {} THEN 0 ELSE g[Rest(S)] + L(S))
                              = IF S = {} THEN 0 ELSE Rec(g)[Rest(S)] + L(S)
    BY <2>2
  <2> QED
    BY <2>3 DEF Rec
<1> DEFINE f == CHOOSE h : h = Rec(h)
<1>5. f = Rec(f)
  BY <1>4
<1>6. Stored(q) = f[Tcb]
  BY DEF Stored, FoldFunctionOnSet, MapThenFoldSet, Choice, Rest, Rec
<1> HIDE DEF f
<1>7. Sums(f, q)
  BY <1>0, <1>5 DEF Sums
<1> QED
  BY <1>6, <1>7

\* What holds of no thread, and of a set when it holds of the set without the
\* chosen one, holds of all sets of threads.
LEMMA ThreadByThread ==
  ASSUME NEW G, {} \in G,
         \A S \in SUBSET Tcb : S # {} /\ Rest(S) \in G => S \in G
  PROVE  SUBSET Tcb \subseteq G
<1> DEFINE T == {n \in Nat : \A S \in SUBSET Tcb : Cardinality(S) = n => S \in G}
<1>1. 0 \in T
  BY ThreadSets
<1>2. ASSUME NEW n \in Nat, n \in T PROVE n + 1 \in T
  <2>1. ASSUME NEW S \in SUBSET Tcb, Cardinality(S) = n + 1 PROVE S \in G
    <3>1. S # {} /\ Rest(S) \in SUBSET Tcb /\ Cardinality(Rest(S)) = n
      BY <2>1, ThreadSets
    <3> QED
      BY <1>2, <3>1
  <2> QED
    BY <2>1
<1>3. Nat \subseteq T
  <2> HIDE DEF T
  <2> QED
    BY <1>1, <1>2, AllNumbers
<1> QED
  BY <1>3, ThreadSets

\* A change of one queue.
LEMMA StoredChange ==
  ASSUME NEW q \in [Tcb -> Seq(Message)], NEW r \in [Tcb -> Seq(Message)], NEW t \in Tcb,
         \A x \in Tcb : x # t => r[x] = q[x]
  PROVE  /\ Stored(q) \in Nat /\ Stored(r) \in Nat
         /\ Stored(r) + Len(q[t]) = Stored(q) + Len(r[t])
<1>1. PICK f : Sums(f, q) /\ Stored(q) = f[Tcb]
  BY StoredIs
<1>2. PICK g : Sums(g, r) /\ Stored(r) = g[Tcb]
  BY StoredIs
<1>3. \A x \in Tcb : Len(q[x]) \in Nat /\ Len(r[x]) \in Nat
  OBVIOUS
<1> DEFINE P(S) == /\ f[S] \in Nat /\ g[S] \in Nat
                   /\ t \notin S => g[S] = f[S]
                   /\ t \in S => g[S] + Len(q[t]) = f[S] + Len(r[t])
           G == {S \in SUBSET Tcb : P(S)}
<1>4. {} \in G
  <2>1. f[{}] = 0 /\ g[{}] = 0
    BY <1>1, <1>2 DEF Sums
  <2> QED
    BY <2>1
<1>5. ASSUME NEW S \in SUBSET Tcb, S # {}, Rest(S) \in G PROVE P(S)
  <2>1. PICK x \in S : x = Choice(S)
    BY <1>5, ThreadSets
  <2>2. /\ f[Rest(S)] \in Nat /\ g[Rest(S)] \in Nat
        /\ t \notin Rest(S) => g[Rest(S)] = f[Rest(S)]
        /\ t \in Rest(S) => g[Rest(S)] + Len(q[t]) = f[Rest(S)] + Len(r[t])
    BY <1>5
  <2>3. f[S] = f[Rest(S)] + Len(q[x]) /\ g[S] = g[Rest(S)] + Len(r[x])
    BY <1>1, <1>2, <1>5, <2>1 DEF Sums
  <2>4. t \in Rest(S) <=> t \in S /\ x # t
    BY <2>1 DEF Rest
  <2>5. /\ x # t => Len(r[x]) = Len(q[x])
        /\ Len(r[x]) \in Nat /\ Len(q[x]) \in Nat /\ Len(r[t]) \in Nat /\ Len(q[t]) \in Nat
    BY <1>3
  <2>6. CASE x = t
    BY <2>1, <2>2, <2>3, <2>4, <2>5, <2>6
  <2>7. CASE x # t
    <3>1. (t \in S <=> t \in Rest(S)) /\ Len(r[x]) = Len(q[x])
      BY <2>4, <2>5, <2>7
    <3>2. f[Rest(S)] \in Nat /\ g[Rest(S)] \in Nat
      BY <2>2
    <3>3. f[S] \in Nat /\ g[S] \in Nat
      BY <2>3, <2>5, <3>2
    <3>4. CASE t \in S
      <4>1. g[Rest(S)] + Len(q[t]) = f[Rest(S)] + Len(r[t])
        BY <2>2, <3>1, <3>4
      <4>2. PICK a \in Nat, b \in Nat, c \in Nat, d \in Nat, e \in Nat :
              /\ a = f[Rest(S)] /\ b = g[Rest(S)]
              /\ c = Len(q[t]) /\ d = Len(r[t]) /\ e = Len(q[x])
        BY <2>5, <3>2
      <4>3. f[S] = a + e /\ g[S] = b + e
        BY <2>3, <3>1, <4>2
      <4>4. b + c = a + d
        BY <4>1, <4>2
      <4>5. (b + e) + c = (a + e) + d
        BY <4>4
      <4>6. g[S] + Len(q[t]) = f[S] + Len(r[t])
        BY <4>2, <4>3, <4>5
      <4> QED
        BY <3>3, <3>4, <4>6
    <3>5. CASE t \notin S
      BY <2>2, <2>3, <3>1, <3>3, <3>5
    <3> QED
      BY <3>4, <3>5
  <2> QED
    BY <2>6, <2>7
<1>6. SUBSET Tcb \subseteq G
  <2>1. \A S \in SUBSET Tcb : S # {} /\ Rest(S) \in G => S \in G
    BY <1>5
  <2> HIDE DEF G
  <2> QED
    BY <1>4, <2>1, ThreadByThread
<1>7. P(Tcb)
  <2>1. Tcb \in SUBSET Tcb
    OBVIOUS
  <2>2. Tcb \in G
    BY <1>6, <2>1
  <2> QED
    BY <2>2
<1> QED
  BY <1>1, <1>2, <1>7

\* Empty queues hold nothing.
LEMMA StoredNone ==
  ASSUME NEW q \in [Tcb -> Seq(Message)], \A t \in Tcb : q[t] = <<>>
  PROVE  Stored(q) = 0
<1>1. PICK f : Sums(f, q) /\ Stored(q) = f[Tcb]
  BY StoredIs
<1> DEFINE G == {S \in SUBSET Tcb : f[S] = 0}
<1>2. {} \in G
  BY <1>1 DEF Sums
<1>3. ASSUME NEW S \in SUBSET Tcb, S # {}, Rest(S) \in G PROVE f[S] = 0
  <2>1. f[Rest(S)] = 0 /\ Choice(S) \in Tcb
    BY <1>3, ThreadSets
  <2>2. Len(q[Choice(S)]) = 0
    BY <2>1
  <2>3. f[S] = f[Rest(S)] + Len(q[Choice(S)])
    BY <1>1, <1>3 DEF Sums
  <2> QED
    BY <2>1, <2>2, <2>3
<1>4. SUBSET Tcb \subseteq G
  <2>1. \A S \in SUBSET Tcb : S # {} /\ Rest(S) \in G => S \in G
    BY <1>3
  <2> HIDE DEF G
  <2> QED
    BY <1>2, <2>1, ThreadByThread
<1> QED
  BY <1>1, <1>4

\* What a step may do with the pool: a queue takes from it what it grows by,
\* and gives back what it shrinks by.
PoolStep ==
  \E t \in Tcb : \E q \in Seq(Message) :
    /\ t_msgq' = [t_msgq EXCEPT ![t] = q]
    /\ free_msg' + Len(q) = free_msg + Len(t_msgq[t])

\* The pool and the queues together, apart from the form PoolConserved gives
\* the sum.
Balanced == free_msg + Stored(t_msgq) = MAXMSG

LEMMA BalanceIs == PoolConserved <=> Balanced
BY DEF PoolConserved, Balanced, Stored

\* Such a step keeps the sum.
LEMMA PoolKept ==
  ASSUME TypeOK, Balanced, PoolStep \/ UNCHANGED <<t_msgq, free_msg>>, free_msg' \in Nat
  PROVE  Balanced'
<1>1. t_msgq \in [Tcb -> Seq(Message)] /\ free_msg \in Nat /\ MAXMSG \in Nat
  BY BoundAssumption DEF TypeOK
<1>2. CASE PoolStep
  <2>1. PICK t \in Tcb, q \in Seq(Message) :
          /\ t_msgq' = [t_msgq EXCEPT ![t] = q]
          /\ free_msg' + Len(q) = free_msg + Len(t_msgq[t])
    BY <1>2 DEF PoolStep
  <2>2. PICK r : r = t_msgq'
    OBVIOUS
  <2>3. r \in [Tcb -> Seq(Message)] /\ r[t] = q /\ \A x \in Tcb : x # t => r[x] = t_msgq[x]
    BY <1>1, <2>1, <2>2
  <2>4. /\ Stored(t_msgq) \in Nat /\ Stored(r) \in Nat
        /\ Stored(r) + Len(t_msgq[t]) = Stored(t_msgq) + Len(q)
    BY <1>1, <2>3, StoredChange
  <2>5. Len(q) \in Nat /\ Len(t_msgq[t]) \in Nat
    BY <1>1
  <2>6. PICK a \in Nat, b \in Nat, c \in Nat, d \in Nat :
          a = Stored(t_msgq) /\ b = Stored(r) /\ c = Len(t_msgq[t]) /\ d = Len(q)
    BY <2>4, <2>5
  <2>7. b + c = a + d
    BY <2>4, <2>6
  <2>8. free_msg + a = MAXMSG /\ free_msg' + d = free_msg + c
    BY <2>1, <2>6 DEF Balanced
  <2>9. PICK f \in Nat, g \in Nat, m \in Nat : f = free_msg /\ g = free_msg' /\ m = MAXMSG
    BY <1>1
  <2>10. f + a = m /\ g + d = f + c
    BY <2>8, <2>9
  <2>11. g + b = m
    BY <2>7, <2>10
  <2> QED
    BY <2>2, <2>6, <2>9, <2>11 DEF Balanced
<1>3. CASE UNCHANGED <<t_msgq, free_msg>>
  BY <1>3 DEF Balanced
<1> QED
  BY <1>2, <1>3

\* A message handed over or dropped leaves the pool alone, one that is queued
\* takes an element from it.
LEMMA SendPool ==
  ASSUME TypeOK, NEW from \in Tcb, NEW to \in Tcb, NEW m \in Payload, NEW c,
         sys_send_msg(from, to, m, c)
  PROVE  PoolStep \/ UNCHANGED <<t_msgq, free_msg>>
<1>1. t_msgq[to] \in Seq(Message) /\ free_msg \in Nat
  BY DEF TypeOK
<1>2. CASE t_msgq' = t_msgq /\ free_msg' = free_msg
  BY <1>2
<1>3. CASE /\ t_msgq' = [t_msgq EXCEPT ![to] = Append(@, [from |-> from, msg |-> m])]
           /\ free_msg' = free_msg - 1
  <2>1. PICK q : q = Append(t_msgq[to], [from |-> from, msg |-> m])
    OBVIOUS
  <2>2. q \in Seq(Message) /\ Len(q) = Len(t_msgq[to]) + 1 /\ Len(t_msgq[to]) \in Nat
    BY <1>1, <2>1 DEF Message
  <2>3. t_msgq' = [t_msgq EXCEPT ![to] = q]
    BY <1>3, <2>1
  <2>4. free_msg' + Len(q) = free_msg + Len(t_msgq[to])
    BY <1>1, <1>3, <2>2
  <2> QED
    BY <2>2, <2>3, <2>4 DEF PoolStep
<1> QED
  BY <1>2, <1>3, SendFacts

\* SYS_SEND.
LEMMA SysSendPool ==
  ASSUME Calm, current_thread \in Tcb, NEW to \in Tcb, NEW m \in Payload, NEW next,
         sys_send(to, m, next)
  PROVE  PoolStep \/ UNCHANGED <<t_msgq, free_msg>>
<1>1. TypeOK
  BY DEF Calm, WakeInv
<1>2. \/ UNCHANGED <<t_msgq, free_msg>>
      \/ sys_send_msg(current_thread, to, m, [call EXCEPT ![current_thread] = next])
  BY SysSendCases
<1> QED
  BY <1>1, <1>2, SendPool

\* SYS_RECV gives an element back.
LEMMA SysRecvPool ==
  ASSUME TypeOK, NEW s, current_thread \in Tcb, sys_recv(s)
  PROVE  PoolStep \/ UNCHANGED <<t_msgq, free_msg>>
<1>1. PICK self \in Tcb : self = current_thread
  OBVIOUS
<1>2. t_msgq[self] \in Seq(Message) /\ free_msg \in Nat
  BY DEF TypeOK
<1>3. \/ UNCHANGED <<t_msgq, free_msg>>
      \/ Matches(t_msgq[self], s) # {} /\ msgq_get(s, self)
  BY <1>1 DEF sys_recv, check_thread_alive
<1>4. CASE Matches(t_msgq[self], s) # {} /\ msgq_get(s, self)
  <2>1. PICK i \in 1..Len(t_msgq[self]) : i = FirstMatch(t_msgq[self], s)
    BY <1>2, <1>4, MatchType
  <2>2. PICK q : q = RemoveAt(t_msgq[self], i)
    OBVIOUS
  <2>3. q \in Seq(Message) /\ Len(q) = Len(t_msgq[self]) - 1 /\ Len(t_msgq[self]) \in Nat
    BY <1>2, <2>1, <2>2, RemoveAtElements
  <2>4. t_msgq' = [t_msgq EXCEPT ![self] = q] /\ free_msg' = free_msg + 1
    BY <1>4, <2>1, <2>2 DEF msgq_get
  <2>5. free_msg' + Len(q) = free_msg + Len(t_msgq[self])
    <3>1. PICK n \in Nat, f \in Nat : n = Len(t_msgq[self]) /\ f = free_msg
      BY <1>2, <2>3
    <3>2. Len(q) = n - 1 /\ free_msg' = f + 1
      BY <2>3, <2>4, <3>1
    <3>3. (f + 1) + (n - 1) = f + n
      OBVIOUS
    <3> QED
      BY <3>1, <3>2, <3>3
  <2> QED
    BY <2>3, <2>4, <2>5 DEF PoolStep
<1> QED
  BY <1>3, <1>4

\* thread_alloc clears a queue that is empty, where nobody has died.
LEMMA ServicesPool ==
  ASSUME Peaceful, Calm, SsiNext
  PROVE  UNCHANGED <<t_msgq, free_msg>>
<1>1. TypeOK /\ ThreadTree /\ Peace
  BY DEF Calm, WakeInv, FamilyInv, FamilyTree
<1>2. ASSUME NEW p, free_thread # <<>>, start_thread(p, Head(free_thread)), UNCHANGED free_msg
      PROVE  UNCHANGED <<t_msgq, free_msg>>
  <2>1. PICK new : new = Head(free_thread)
    OBVIOUS
  <2>2. new \in Tcb /\ t_pcb[new] = NULL
    BY <1>1, <1>2, <2>1, SeqFacts, TailElements DEF TypeOK, ThreadTree
  <2>3. t_msgq \in [Tcb -> Seq(Message)] /\ t_msgq[new] = <<>>
    BY <1>1, <2>2 DEF TypeOK, Peace, Unborn
  <2>4. t_msgq' = [t_msgq EXCEPT ![new] = <<>>]
    BY <1>2, <2>1 DEF start_thread
  <2> QED
    BY <1>2, <2>3, <2>4
<1>3. CASE CreateProcess \/ CreateThread
  <2>1. \/ UNCHANGED mail
        \/ /\ free_thread # <<>> /\ UNCHANGED free_msg
           /\ \E p : start_thread(p, Head(free_thread))
    BY <1>3 DEF CreateProcess, CreateThread
  <2> QED
    BY <1>2, <2>1 DEF mail
<1>4. CASE GetErrno \/ Query \/ WaitForClock \/ DoIo \/ DoIoBusy \/ TerminateProcess
  BY <1>4 DEF GetErrno, Query, WaitForClock, DoIo, DoIoBusy, TerminateProcess, Crash, mail
<1>5. CASE TerminateThread \/ BadRequest \/ SetManager
  BY <1>5 DEF TerminateThread, BadRequest, SetManager, terminate_thread,
              ssi_terminate_thread, terminate_astray, Crash, mail
<1>6. ASSUME NEW who, ReapThread(who) \/ ReapChild(who) \/ ReapProc(who) \/ ReapDone(who)
      PROVE  UNCHANGED <<t_msgq, free_msg>>
  BY <1>6 DEF ReapThread, ReapChild, ReapProc, ReapDone, Crash, mail
<1> QED
  BY <1>3, <1>4, <1>5, <1>6 DEF SsiNext

\* The other steps.
LEMMA NucleusPool ==
  ASSUME Peaceful, Calm, NEW on, RingInv(on), ExceptionsNext \/ InterruptsNext \/ SchedulerNext
  PROVE  PoolStep \/ UNCHANGED <<t_msgq, free_msg>>
<1>0. /\ TypeOK /\ SSI \in Tcb /\ call \in [Tcb -> CallState]
      /\ \A tag \in {"mail", "status", "tick"} : Plain(tag) \in Payload
  BY NodeFacts, PayloadFacts, TagFacts DEF Calm, WakeInv, TypeOK
<1>1. CASE Request \/ SysSend
  <2>1. PICK to \in Tcb, m \in Payload, next \in {User, Recv(SSI)} : sys_send(to, m, next)
    <3>1. Requests \subseteq Payload
      BY InputAssumption, TagFacts DEF Requests, Payload, PlainTags, AllServices
    <3>2. Request => \E m \in Requests : sys_send(SSI, m, Recv(SSI))
      BY DEF Request
    <3>3. SysSend => \E t \in Tcb : sys_send(t, Plain("mail"), User)
      BY DEF SysSend, Known
    <3> QED
      BY <1>0, <1>1, <3>1, <3>2, <3>3
  <2>2. \E op : Running(op)
    BY <1>1 DEF Request, SysSend
  <2>3. current_thread \in Tcb
    BY <2>2, RunnerFacts
  <2> QED
    BY <2>1, <2>3, SysSendPool
<1>2. CASE SysSendPending
  <2>1. current_thread \in Tcb /\ call[current_thread].op = "send"
    BY <1>2, RunnerFacts DEF SysSendPending
  <2>2. call[current_thread].peer \in Tcb /\ call[current_thread].msg \in Payload
    BY <1>0, <2>1, CallFacts
  <2>3. \E next : sys_send(call[current_thread].peer, call[current_thread].msg, next)
    BY <1>2 DEF SysSendPending
  <2> QED
    BY <2>1, <2>2, <2>3, SysSendPool
<1>3. CASE SysRecv \/ SysRecvPending
  <2>1. \E op : Running(op)
    BY <1>3 DEF SysRecv, SysRecvPending
  <2>2. \E s : sys_recv(s)
    BY <1>3 DEF SysRecv, SysRecvPending
  <2>3. current_thread \in Tcb
    BY <2>1, RunnerFacts
  <2> QED
    BY <1>0, <2>2, <2>3, SysRecvPool
<1>4. CASE SysPassup \/ TlbTrap \/ PgmTrap
  BY <1>4 DEF SysPassup, TlbTrap, PgmTrap, Peaceful
<1>5. CASE SysZero \/ Breakpoint
  BY <1>5 DEF SysZero, Breakpoint, mail
<1>6. ASSUME NEW d \in Devices, DeviceInterrupt(d)
      PROVE  PoolStep \/ UNCHANGED <<t_msgq, free_msg>>
  <2>1. device_list[d] \in Tcb /\ sys_send_msg(SSI, device_list[d], Plain("status"), call)
    BY <1>0, <1>6 DEF DeviceInterrupt, TypeOK
  <2> QED
    BY <1>0, <2>1, SendPool
<1>7. CASE SliceOver \/ Tick
  BY <1>7 DEF SliceOver, Tick, mail
<1>8. CASE ClockExpire
  <2>1. UNCHANGED <<t_msgq, free_msg>>
        \/ \E t \in Tcb : sys_send_msg(SSI, t, Plain("tick"), call)
    BY <1>8 DEF ClockExpire, Crash, mail
  <2> QED
    BY <1>0, <2>1, SendPool
<1>9. CASE Halt \/ Panic \/ Wait \/ FallThrough \/ Resume \/ Dispatch
  BY <1>9 DEF Halt, Panic, Wait, FallThrough, Stop, Resume, Dispatch, Crash, mail
<1> QED
  BY <1>1, <1>2, <1>3, <1>4, <1>5, <1>6, <1>7, <1>8, <1>9
  DEF ExceptionsNext, InterruptsNext, SchedulerNext

\* No message is lost from the pool and none is given back twice: what is
\* free and what is queued make MAXMSG together, for any number of threads
\* and messages, where nobody dies.  (A thread that dies leaves messages that
\* thread_alloc drops when its block is used again.)
THEOREM PoolSound ==
  ASSUME Peaceful
  PROVE  Spec => []PoolConserved
<1>1. Init => Balanced
  <2> SUFFICES ASSUME Init PROVE Balanced
    OBVIOUS
  <2>1. MAXMSG \in Nat /\ free_msg = MAXMSG
    BY BoundAssumption DEF Init
  <2>2. t_msgq \in [Tcb -> Seq(Message)] /\ \A t \in Tcb : t_msgq[t] = <<>>
    BY DEF Init
  <2>3. Stored(t_msgq) = 0
    BY <2>2, StoredNone
  <2> QED
    BY <2>1, <2>3 DEF Balanced
<1>2. Calm /\ Placed /\ Calm' /\ Balanced /\ [Next]_vars => Balanced'
  <2> SUFFICES ASSUME Calm, Placed, Calm', Balanced, [Next]_vars PROVE Balanced'
    OBVIOUS
  <2>1. TypeOK /\ free_msg' \in Nat
    BY DEF Calm, WakeInv, TypeOK
  <2>2. PICK on : RingInv(on)
    BY DEF Placed
  <2>3. CASE Next
    BY <2>1, <2>2, <2>3, ServicesPool, NucleusPool, PoolKept DEF Next
  <2>4. CASE UNCHANGED vars
    BY <2>1, <2>4, PoolKept DEF vars, mail
  <2> QED
    BY <2>3, <2>4
<1>3. Balanced => PoolConserved
  BY BalanceIs
<1> QED
  BY <1>1, <1>2, <1>3, PlacedInductive, PTL DEF Spec
==============================================================================
