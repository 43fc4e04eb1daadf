------------------------------ MODULE RingProofs -----------------------------
(***************************************************************************)
(* The queues of the nucleus as rings of list nodes: what the operations   *)
(* that move a thread do to the rings and to soft_block_count, and that    *)
(* Members, which walks the links, finds the threads that are on a ring.   *)
(* At the end, what a search of a queue finds that need not be a ring:     *)
(* check_death tells the waiter of a victim.                               *)
(***************************************************************************)
EXTENDS MailProofs, FiniteSetTheorems

(*------------------------------- induction -----------------------------*)

\* A set that has 0 and with every number the next one has them all.
LEMMA AllNumbers ==
  ASSUME NEW T, 0 \in T, \A n \in Nat : n \in T => n + 1 \in T
  PROVE  Nat \subseteq T
<1> SUFFICES ASSUME Nat \ T # {} PROVE FALSE
  OBVIOUS
<1>1. Nat \ T \subseteq Nat
  OBVIOUS
<1>2. PICK x \in Nat \ T : \A y \in Nat \ T : ~(<<y, x>> \in OpToRel(<, Nat))
  BY <1>1, NatLessThanWellFounded, WFMin
<1>3. \A y \in Nat \ T : ~(y < x)
  BY <1>2 DEF OpToRel
<1>4. x # 0
  OBVIOUS
<1>5. x - 1 \in Nat /\ x - 1 < x /\ (x - 1) + 1 = x
  BY <1>4
<1> QED
  BY <1>3, <1>5

\* A non-empty set of numbers has a least one.
LEMMA LeastNumber ==
  ASSUME NEW I \in SUBSET Nat, I # {}
  PROVE  \E i \in I : \A j \in I : i <= j
<1>1. PICK x \in I : \A y \in I : ~(<<y, x>> \in OpToRel(<, Nat))
  BY NatLessThanWellFounded, WFMin
<1>2. \A y \in I : ~(y < x)
  BY <1>1 DEF OpToRel
<1> QED
  BY <1>2

(*--------------------------------- tables ------------------------------*)

\* There are finitely many threads and nodes.
LEMMA TablesFinite ==
  /\ IsFiniteSet(Tcb) /\ IsFiniteSet(Node) /\ IsFiniteSet(Heads)
  /\ Cardinality(Tcb) \in Nat /\ Cardinality(Node) \in Nat
<1>1. IsFiniteSet(Tcb)
  <2>1. store_t \in [1..Len(store_t) -> Tcb] /\ Len(store_t) \in Nat
    BY StoreAssumption
  <2>2. \A t \in Tcb : \E i \in 1..Len(store_t) : store_t[i] = t
    BY <2>1 DEF Tcb, ToSet
  <2>3. store_t \in Surjection(1..Len(store_t), Tcb)
    BY <2>1, <2>2 DEF Surjection
  <2> QED
    BY <2>1, <2>3, FS_NatSurjection DEF ExistsSurjection
<1>2. IsFiniteSet(Heads)
  <2>1. Heads = (({} \union {"ready_queue"}) \union {"wait_queue"})
                \union {"wait_pseudo_clock_queue"}
    BY DEF Heads
  <2> QED
    BY <2>1, FS_EmptySet, FS_AddElement
<1>3. IsFiniteSet(Node)
  BY <1>1, <1>2, FS_Union DEF Node
<1> QED
  BY <1>1, <1>2, <1>3, FS_CardinalityType

\* The cursor of a loop over a list goes from node to node.
LEMMA CursorIs ==
  ASSUME NEW s \in SchedType, NEW h \in Node
  PROVE  /\ list_cursor(s, h) \in [0..Cardinality(Node) -> Node]
         /\ list_cursor(s, h)[0] = s.next[h]
         /\ \A i \in 1..Cardinality(Node) :
              list_cursor(s, h)[i] = s.next[list_cursor(s, h)[i - 1]]
<1> DEFINE N == Cardinality(Node)
           Walk(f, n) == f[0] = s.next[h] /\ \A i \in 1..n : f[i] = s.next[f[i - 1]]
           T == {n \in Nat : \E f \in [0..n -> Node] : Walk(f, n)}
           at == list_cursor(s, h)
<1>0. s.next \in [Node -> Node] /\ DOMAIN s.next = Node /\ N \in Nat
  BY TablesFinite DEF SchedType
<1>1. 0 \in T
  <2>1. [i \in 0..0 |-> s.next[h]] \in [0..0 -> Node] /\ Walk([i \in 0..0 |-> s.next[h]], 0)
    BY <1>0
  <2> QED
    BY <2>1
<1>2. ASSUME NEW n \in Nat, n \in T PROVE n + 1 \in T
  <2>1. PICK f \in [0..n -> Node] : Walk(f, n)
    BY <1>2
  <2> DEFINE g == [i \in 0..(n + 1) |-> IF i = n + 1 THEN s.next[f[n]] ELSE f[i]]
  <2>2. g \in [0..(n + 1) -> Node]
    BY <1>0, <2>1
  <2>3. g[0] = s.next[h]
    BY <2>1
  <2>4. ASSUME NEW i \in 1..(n + 1) PROVE g[i] = s.next[g[i - 1]]
    <3>1. CASE i = n + 1
      BY <3>1
    <3>2. CASE i # n + 1
      <4>1. i \in 1..n /\ i - 1 \in 0..n /\ i - 1 # n + 1 /\ i \in 0..(n + 1) /\ i - 1 \in 0..(n + 1)
        BY <3>2
      <4> QED
        BY <2>1, <3>2, <4>1
    <3> QED
      BY <3>1, <3>2
  <2> HIDE DEF g
  <2> QED
    BY <2>2, <2>3, <2>4
<1>3. PICK f \in [0..N -> Node] : Walk(f, N)
  <2>1. Nat \subseteq T
    <3> HIDE DEF T
    <3> QED
      BY <1>1, <1>2, AllNumbers
  <2> QED
    BY <1>0, <2>1
<1> DEFINE Rec(g) == [i \in 0..N |-> IF i = 0 THEN s.next[h] ELSE s.next[g[i - 1]]]
<1>4. f = Rec(f)
  <2>1. \A i \in 0..N : f[i] = Rec(f)[i]
    BY <1>0, <1>3
  <2> QED
    BY <2>1
<1>5. at = CHOOSE g : g = Rec(g)
  BY <1>0 DEF list_cursor
<1> HIDE DEF at
<1>6. at = Rec(at)
  <2> HIDE DEF Rec
  <2> QED
    BY <1>4, <1>5
<1>7. \A n \in Nat : n <= N => at[n] = f[n]
  <2> DEFINE S == {n \in Nat : n <= N => at[n] = f[n]}
  <2>1. 0 \in S
    BY <1>0, <1>3, <1>6
  <2>2. ASSUME NEW n \in Nat, n \in S PROVE n + 1 \in S
    <3> SUFFICES ASSUME n + 1 <= N PROVE at[n + 1] = f[n + 1]
      OBVIOUS
    <3>1. at[n] = f[n] /\ n + 1 \in 1..N /\ n + 1 \in 0..N /\ n + 1 # 0 /\ (n + 1) - 1 = n
      BY <1>0, <2>2
    <3>2. at[n + 1] = s.next[at[n]]
      BY <1>6, <3>1
    <3> QED
      BY <1>3, <3>1, <3>2
  <2>3. Nat \subseteq S
    <3> HIDE DEF S
    <3> QED
      BY <2>1, <2>2, AllNumbers
  <2> QED
    BY <2>3
<1>8. at = f
  <2>1. \A i \in 0..N : at[i] = f[i]
    BY <1>0, <1>7
  <2> QED
    BY <1>6, <2>1
<1> QED
  BY <1>3, <1>8 DEF at

(*---------------------------------- rings ------------------------------*)

\* Where a thread is: in a queue, with the processor, or out of all queues,
\* at a device or on its way between two queues.  A block that has not been
\* handed out is nowhere.
Places == Heads \union {"cpu", "device", "none"}

\* The links are rings around the heads: on says whose ring a node is on, if
\* any, and pos grows from a head to the end of its queue.
OnRing(s, on, pos, n) ==
  /\ on[s.next[n]] = on[n] /\ on[s.prev[n]] = on[n]
  /\ s.prev[s.next[n]] = n /\ s.next[s.prev[n]] = n
  /\ s.next[n] \notin Heads => pos[s.next[n]] > pos[n]
Rings(s, on, pos) ==
  /\ on \in [Node -> Places] /\ pos \in [Node -> Nat]
  /\ \A h \in Heads : on[h] = h /\ pos[h] = 0
  /\ \A n \in Node : on[n] \in Heads => OnRing(s, on, pos, n)

\* A node that is not on a ring and points to itself.
Lone(s, n) == s.next[n] = n /\ s.prev[n] = n

\* Rings are a matter of the links alone.
LEMMA RingsLinks ==
  ASSUME NEW s, NEW u, u.next = s.next, u.prev = s.prev, NEW on, NEW pos, Rings(s, on, pos)
  PROVE  Rings(u, on, pos)
BY DEF Rings, OnRing

\* list_del takes one node out of its ring.
LEMMA RingDel ==
  ASSUME NEW s \in SchedType, NEW on, NEW pos, Rings(s, on, pos),
         NEW n \in Tcb, on[n] \in Heads, NEW to \in Places \ Heads
  PROVE  Rings(list_del(s, n), [on EXCEPT ![n] = to], pos)
<1> DEFINE a  == s.prev[n]
           b  == s.next[n]
           nx == [s.next EXCEPT ![a] = b]
           pv == [s.prev EXCEPT ![b] = a]
           o  == [on EXCEPT ![n] = to]
<1>0. /\ s.next \in [Node -> Node] /\ s.prev \in [Node -> Node] /\ n \in Node /\ n \notin Heads
      /\ a \in Node /\ b \in Node /\ Heads \subseteq Node
      /\ on \in [Node -> Places] /\ pos \in [Node -> Nat]
  BY NodeFacts, StoreAssumption DEF SchedType, Rings
<1>1. list_del(s, n).next = nx /\ list_del(s, n).prev = pv
  BY <1>0 DEF list_del, SchedType
<1>2. \A x \in Node : on[x] \in Heads => OnRing(s, on, pos, x)
  BY DEF Rings
<1>3. /\ on[a] = on[n] /\ on[b] = on[n] /\ s.next[a] = n /\ s.prev[b] = n
      /\ b \notin Heads => pos[b] > pos[n]
  BY <1>0, <1>2 DEF OnRing
<1>4. a # n /\ b # n
  <2>1. on[n] \in Heads
    BY <1>0
  <2>2. CASE a = n \/ b = n
    <3>1. b = n
      BY <1>3, <2>2
    <3> QED
      BY <1>0, <1>3, <3>1
  <2> QED
    BY <2>2
<1>5. b \notin Heads => pos[b] > pos[a]
  <2>1. pos[n] > pos[a]
    BY <1>0, <1>2, <1>3 DEF OnRing
  <2> QED
    BY <1>0, <1>3, <2>1
<1>6. ASSUME NEW x \in Node, o[x] \in Heads
      PROVE  /\ o[nx[x]] = o[x] /\ o[pv[x]] = o[x]
             /\ pv[nx[x]] = x /\ nx[pv[x]] = x
             /\ nx[x] \notin Heads => pos[nx[x]] > pos[x]
  <2>1. x # n /\ on[x] \in Heads /\ o[x] = on[x] /\ OnRing(s, on, pos, x)
    BY <1>0, <1>2, <1>6
  <2>2. nx[x] = IF x = a THEN b ELSE s.next[x]
    BY <1>0
  <2>3. pv[x] = IF x = b THEN a ELSE s.prev[x]
    BY <1>0
  <2>4. s.next[x] \in Node /\ s.prev[x] \in Node
    BY <1>0
  <2>5. x # a => s.next[x] # n /\ s.next[x] # b
    BY <1>3, <2>1 DEF OnRing
  <2>6. x # b => s.prev[x] # n /\ s.prev[x] # a
    BY <1>3, <2>1 DEF OnRing
  <2> QED
    BY <1>0, <1>3, <1>4, <1>5, <2>1, <2>2, <2>3, <2>4, <2>5, <2>6 DEF OnRing
<1>7. /\ o \in [Node -> Places]
      /\ \A h \in Heads : o[h] = h /\ pos[h] = 0
  BY <1>0 DEF Rings
<1> HIDE DEF o, nx, pv
<1>8. Rings(list_del(s, n), o, pos)
  BY <1>0, <1>1, <1>6, <1>7 DEF Rings, OnRing
<1> QED
  BY <1>8 DEF o

\* list_del of a node that is alone changes nothing.
LEMMA LoneDel ==
  ASSUME NEW s \in SchedType, NEW n \in Node, Lone(s, n)
  PROVE  list_del(s, n) = s
BY DEF list_del, Lone, SchedType

\* list_add_tail puts a node at the end of a ring.
LEMMA RingAdd ==
  ASSUME NEW s \in SchedType, NEW on, NEW pos, Rings(s, on, pos),
         NEW n \in Tcb, on[n] \notin Heads, NEW h \in Heads
  PROVE  Rings(list_add_tail(s, n, h), [on EXCEPT ![n] = h],
               [pos EXCEPT ![n] = pos[s.prev[h]] + 1])
<1> DEFINE a  == s.prev[h]
           nx == [[s.next EXCEPT ![n] = h] EXCEPT ![a] = n]
           pv == [[s.prev EXCEPT ![h] = n] EXCEPT ![n] = a]
           o  == [on EXCEPT ![n] = h]
           p  == [pos EXCEPT ![n] = pos[a] + 1]
<1>0. /\ s.next \in [Node -> Node] /\ s.prev \in [Node -> Node] /\ n \in Node /\ n \notin Heads
      /\ a \in Node /\ h \in Node /\ Heads \subseteq Node /\ Heads \subseteq Places
      /\ on \in [Node -> Places] /\ pos \in [Node -> Nat]
  BY NodeFacts, StoreAssumption DEF SchedType, Rings, Places
<1>1. list_add_tail(s, n, h).next = nx /\ list_add_tail(s, n, h).prev = pv
  BY <1>0 DEF list_add_tail, list_add_between, SchedType
<1>2. \A x \in Node : on[x] \in Heads => OnRing(s, on, pos, x)
  BY DEF Rings
<1>3. /\ on[h] = h /\ on[a] = h /\ s.next[a] = h /\ a # n /\ h # n
  BY <1>0, <1>2 DEF OnRing, Rings
<1>4. ASSUME NEW x \in Node, o[x] \in Heads
      PROVE  /\ o[nx[x]] = o[x] /\ o[pv[x]] = o[x]
             /\ pv[nx[x]] = x /\ nx[pv[x]] = x
             /\ nx[x] \notin Heads => p[nx[x]] > p[x]
  <2>1. CASE x = n
    <3>1. nx[x] = h /\ pv[x] = a
      BY <1>0, <1>3, <2>1
    <3>2. pv[h] = n /\ nx[a] = n
      BY <1>0, <1>3
    <3> QED
      BY <1>0, <1>3, <2>1, <3>1, <3>2
  <2>2. CASE x # n
    <3>1. on[x] \in Heads /\ o[x] = on[x] /\ OnRing(s, on, pos, x)
      BY <1>0, <1>2, <1>4, <2>2
    <3>2. nx[x] = IF x = a THEN n ELSE s.next[x]
      BY <1>0, <2>2
    <3>3. pv[x] = IF x = h THEN n ELSE s.prev[x]
      BY <1>0, <2>2
    <3>4. /\ s.next[x] \in Node /\ s.prev[x] \in Node
          /\ on[s.next[x]] \in Heads /\ on[s.prev[x]] \in Heads
          /\ s.next[x] # n /\ s.prev[x] # n
      BY <1>0, <3>1 DEF OnRing
    <3>5. (x # a => s.next[x] # h) /\ (x # h => s.prev[x] # a)
      BY <1>3, <3>1 DEF OnRing
    <3>6. p[n] = pos[a] + 1 /\ p[x] = pos[x] /\ pos[a] \in Nat
      BY <1>0, <2>2
    <3>7. CASE x = a
      <4>1. nx[x] = n /\ pv[n] = a /\ o[n] = h /\ o[x] = h
        BY <1>0, <1>3, <3>1, <3>2, <3>7
      <4>2. CASE x = h
        BY <1>0, <1>3, <3>2, <3>3, <3>6, <3>7, <4>1, <4>2
      <4>3. CASE x # h
        BY <1>0, <1>3, <3>1, <3>3, <3>4, <3>5, <3>6, <3>7, <4>1, <4>3 DEF OnRing
      <4> QED
        BY <4>2, <4>3
    <3>8. CASE x # a
      <4>1. nx[x] = s.next[x] /\ p[nx[x]] = pos[nx[x]] /\ pv[nx[x]] = x /\ o[nx[x]] = on[x]
        BY <1>0, <3>1, <3>2, <3>4, <3>5, <3>8 DEF OnRing
      <4>2. CASE x = h
        BY <1>0, <1>3, <3>1, <3>3, <3>6, <4>1, <4>2 DEF OnRing
      <4>3. CASE x # h
        BY <1>0, <3>1, <3>3, <3>4, <3>5, <3>6, <4>1, <4>3 DEF OnRing
      <4> QED
        BY <4>2, <4>3
    <3> QED
      BY <3>7, <3>8
  <2> QED
    BY <2>1, <2>2
<1>5. /\ o \in [Node -> Places] /\ p \in [Node -> Nat]
      /\ \A x \in Heads : o[x] = x /\ p[x] = 0
  BY <1>0 DEF Rings
<1> HIDE DEF o, nx, pv, p
<1>6. Rings(list_add_tail(s, n, h), o, p)
  BY <1>1, <1>4, <1>5 DEF Rings, OnRing
<1> QED
  BY <1>6 DEF o, p

\* INIT_LIST_HEAD of a node that is on no ring.
LEMMA RingInit ==
  ASSUME NEW s \in SchedType, NEW on, NEW pos, Rings(s, on, pos),
         NEW n \in Tcb, on[n] \notin Heads
  PROVE  /\ Rings(INIT_LIST_HEAD(s, n), on, pos)
         /\ Lone(INIT_LIST_HEAD(s, n), n)
<1> DEFINE nx == [s.next EXCEPT ![n] = n]
           pv == [s.prev EXCEPT ![n] = n]
<1>0. /\ s.next \in [Node -> Node] /\ s.prev \in [Node -> Node] /\ n \in Node
  BY NodeFacts DEF SchedType
<1>1. INIT_LIST_HEAD(s, n).next = nx /\ INIT_LIST_HEAD(s, n).prev = pv
  BY <1>0 DEF INIT_LIST_HEAD, SchedType
<1>2. ASSUME NEW x \in Node, on[x] \in Heads
      PROVE  /\ nx[x] = s.next[x] /\ pv[x] = s.prev[x]
             /\ nx[s.prev[x]] = s.next[s.prev[x]] /\ pv[s.next[x]] = s.prev[s.next[x]]
  <2>1. OnRing(s, on, pos, x)
    BY <1>2 DEF Rings
  <2> QED
    BY <1>0, <1>2, <2>1 DEF OnRing
<1>3. nx[n] = n /\ pv[n] = n
  BY <1>0
<1> HIDE DEF nx, pv
<1> QED
  BY <1>1, <1>2, <1>3 DEF Rings, OnRing, Lone

\* A walk from a head meets its ring, all of it and nothing else.
LEMMA MembersAre ==
  ASSUME NEW s \in SchedType, NEW on, NEW pos, Rings(s, on, pos), NEW h \in Heads
  PROVE  /\ Members(s, h) = {n \in Node : on[n] = h}
         /\ Linked(s, Members(s, h))
<1> DEFINE N    == Cardinality(Node)
           at   == list_cursor(s, h)
           Ring == {n \in Node : on[n] = h}
<1>0. /\ h \in Node /\ N \in Nat /\ IsFiniteSet(Node) /\ Heads \subseteq Node
      /\ on \in [Node -> Places] /\ pos \in [Node -> Nat]
      /\ \A g \in Heads : on[g] = g
      /\ \A n \in Node : on[n] \in Heads => OnRing(s, on, pos, n)
      /\ s.next \in [Node -> Node] /\ s.prev \in [Node -> Node]
  BY NodeFacts, TablesFinite DEF Rings, SchedType
<1>1. /\ at \in [0..N -> Node] /\ at[0] = s.next[h]
      /\ \A i \in 1..N : at[i] = s.next[at[i - 1]]
  BY <1>0, CursorIs
<1>2. Members(s, h) = {at[i] : i \in 0..N}
  BY <1>1 DEF Members
<1> HIDE DEF at, N
<1>3. \A i \in 0..N - 1 : at[i + 1] = s.next[at[i]]
  <2> SUFFICES ASSUME NEW i \in 0..N - 1 PROVE at[i + 1] = s.next[at[i]]
    OBVIOUS
  <2>1. i + 1 \in 1..N /\ (i + 1) - 1 = i
    BY <1>0
  <2> QED
    BY <1>1, <2>1
<1>4. \A i \in 0..N : at[i] \in Ring
  <2> DEFINE S == {n \in Nat : n <= N => at[n] \in Ring}
  <2>1. 0 \in S
    BY <1>0, <1>1 DEF OnRing
  <2>2. ASSUME NEW n \in Nat, n \in S PROVE n + 1 \in S
    BY <1>0, <1>1, <1>3, <2>2 DEF OnRing
  <2>3. Nat \subseteq S
    <3> HIDE DEF S
    <3> QED
      BY <2>1, <2>2, AllNumbers
  <2> QED
    BY <1>0, <2>3
<1>5. \E k \in 0..N : at[k] = h
  <2> SUFFICES ASSUME \A i \in 0..N : at[i] # h PROVE FALSE
    OBVIOUS
  <2>1. \A i \in 0..N - 1 : pos[at[i + 1]] > pos[at[i]]
    <3> SUFFICES ASSUME NEW i \in 0..N - 1 PROVE pos[at[i + 1]] > pos[at[i]]
      OBVIOUS
    <3>1. i \in 0..N /\ i + 1 \in 0..N
      BY <1>0
    <3>2. at[i] \in Ring /\ at[i + 1] \in Ring /\ at[i + 1] # h
      BY <1>4, <3>1
    <3>3. at[i + 1] \notin Heads
      BY <1>0, <3>2
    <3> QED
      BY <1>0, <1>3, <3>2, <3>3 DEF OnRing
  <2> DEFINE S == {n \in Nat : n <= N => \A i \in 0..n - 1 : pos[at[n]] > pos[at[i]]}
  <2>2. 0 \in S
    OBVIOUS
  <2>3. ASSUME NEW n \in Nat, n \in S PROVE n + 1 \in S
    <3> SUFFICES ASSUME n + 1 <= N, NEW i \in 0..(n + 1) - 1
                 PROVE  pos[at[n + 1]] > pos[at[i]]
      OBVIOUS
    <3>1. n \in 0..N - 1 /\ n + 1 \in 0..N /\ i \in 0..N /\ n \in 0..N /\ (i = n \/ i \in 0..n - 1)
      BY <1>0
    <3>2. pos[at[n + 1]] > pos[at[n]]
      BY <2>1, <3>1
    <3>3. i # n => pos[at[n]] > pos[at[i]]
      BY <1>0, <2>3, <3>1
    <3>4. pos[at[n + 1]] \in Nat /\ pos[at[n]] \in Nat /\ pos[at[i]] \in Nat
      BY <1>0, <1>1, <3>1
    <3> QED
      BY <3>2, <3>3, <3>4
  <2>4. Nat \subseteq S
    <3> HIDE DEF S
    <3> QED
      BY <2>2, <2>3, AllNumbers
  <2>5. PICK x \in 0..N, y \in 0..N : x # y /\ at[x] = at[y]
    <3>1. IsFiniteSet(0..N) /\ Cardinality(0..N) = N + 1
      BY <1>0, FS_Interval
    <3>2. Cardinality(Node) < Cardinality(0..N)
      BY <1>0, <3>1 DEF N
    <3>3. PICK D : D = 0..N
      OBVIOUS
    <3>4. /\ IsFiniteSet(D) /\ IsFiniteSet(Node) /\ Cardinality(Node) < Cardinality(D)
          /\ at \in [D -> Node]
      BY <1>0, <1>1, <3>1, <3>2, <3>3
    <3>5. \E x, y \in D : x # y /\ at[x] = at[y]
      BY <3>4, FS_PigeonHole
    <3> QED
      BY <3>3, <3>5
  <2>6. \A i, j \in 0..N : i < j => pos[at[j]] > pos[at[i]]
    BY <1>0, <2>4
  <2>7. x < y \/ y < x
    BY <1>0, <2>5
  <2>8. pos[at[x]] \in Nat /\ pos[at[y]] \in Nat
    BY <1>0, <1>1
  <2> QED
    BY <2>5, <2>6, <2>7, <2>8
<1>6. PICK k \in 0..N : at[k] = h
  BY <1>5
<1> DEFINE M == {at[i] : i \in 0..k}
<1>7. \A n \in Node : n \in M => s.next[n] \in M
  <2> SUFFICES ASSUME NEW i \in 0..k PROVE s.next[at[i]] \in M
    OBVIOUS
  <2>1. CASE i = k
    <3>1. 0 \in 0..k /\ s.next[at[i]] = at[0]
      BY <1>0, <1>1, <1>6, <2>1
    <3> QED
      BY <3>1
  <2>2. CASE i # k
    <3>1. i + 1 \in 0..k /\ i \in 0..N - 1
      BY <1>0, <2>2
    <3> QED
      BY <1>3, <3>1
  <2> QED
    BY <2>1, <2>2
<1>8. Ring \subseteq M
  <2> SUFFICES ASSUME Ring \ M # {} PROVE FALSE
    OBVIOUS
  <2> HIDE DEF M
  <2> DEFINE I == {pos[n] : n \in Ring \ M}
  <2>1. I \in SUBSET Nat /\ I # {}
    BY <1>0
  <2>2. PICK m \in I : \A j \in I : m <= j
    <3> HIDE DEF I
    <3> QED
      BY <2>1, LeastNumber
  <2>3. PICK n \in Ring \ M : \A x \in Ring \ M : pos[n] <= pos[x]
    BY <2>2
  <2>4. h \in M
    BY <1>0, <1>6 DEF M
  <2>5. s.prev[n] \in Ring /\ s.next[s.prev[n]] = n /\ n \in Node
    BY <1>0, <2>3 DEF OnRing
  <2>6. s.prev[n] \in Ring \ M
    BY <1>7, <2>3, <2>5
  <2>7. n \notin Heads
    BY <1>0, <2>3, <2>4
  <2>8. pos[n] > pos[s.prev[n]]
    BY <1>0, <2>5, <2>7 DEF OnRing
  <2>9. pos[n] <= pos[s.prev[n]] /\ pos[n] \in Nat /\ pos[s.prev[n]] \in Nat
    BY <1>0, <2>3, <2>5, <2>6
  <2> QED
    BY <2>8, <2>9
<1>9. Members(s, h) = Ring
  <2>1. M \subseteq Members(s, h)
    BY <1>0, <1>2
  <2>2. Members(s, h) \subseteq Ring
    BY <1>2, <1>4
  <2> QED
    BY <1>8, <2>1, <2>2
<1>10. Linked(s, Ring)
  <2> SUFFICES ASSUME NEW n \in Ring
               PROVE  /\ s.next[n] \in Ring /\ s.prev[n] \in Ring
                      /\ s.prev[s.next[n]] = n /\ s.next[s.prev[n]] = n
    BY DEF Linked
  <2> QED
    BY <1>0 DEF OnRing
<1> QED
  BY <1>9, <1>10

\* The links of a thread that is alone stay as they are while others move.
LEMMA DelLone ==
  ASSUME NEW s \in SchedType, NEW on, NEW pos, Rings(s, on, pos),
         NEW n \in Tcb, on[n] \in Heads, NEW c \in Tcb, on[c] \notin Heads, Lone(s, c)
  PROVE  Lone(list_del(s, n), c)
<1>0. /\ s.next \in [Node -> Node] /\ s.prev \in [Node -> Node] /\ n \in Node /\ c \in Node
  BY NodeFacts DEF SchedType
<1>1. list_del(s, n).next = [s.next EXCEPT ![s.prev[n]] = s.next[n]]
      /\ list_del(s, n).prev = [s.prev EXCEPT ![s.next[n]] = s.prev[n]]
  BY <1>0 DEF list_del, SchedType
<1>2. s.prev[n] # c /\ s.next[n] # c
  BY <1>0 DEF Rings, OnRing
<1> QED
  BY <1>0, <1>1, <1>2 DEF Lone

LEMMA AddLone ==
  ASSUME NEW s \in SchedType, NEW on, NEW pos, Rings(s, on, pos), NEW n \in Tcb,
         NEW h \in Heads, NEW c \in Tcb, c # n, on[c] \notin Heads, Lone(s, c)
  PROVE  Lone(list_add_tail(s, n, h), c)
<1>0. /\ s.next \in [Node -> Node] /\ s.prev \in [Node -> Node]
      /\ n \in Node /\ c \in Node /\ h \in Node /\ c # h
  BY NodeFacts, StoreAssumption DEF SchedType
<1>1. list_add_tail(s, n, h).next = [[s.next EXCEPT ![n] = h] EXCEPT ![s.prev[h]] = n]
      /\ list_add_tail(s, n, h).prev = [[s.prev EXCEPT ![h] = n] EXCEPT ![n] = s.prev[h]]
  BY <1>0 DEF list_add_tail, list_add_between, SchedType
<1>2. s.prev[h] # c
  BY <1>0 DEF Rings, OnRing
<1> QED
  BY <1>0, <1>1, <1>2 DEF Lone

(*-------------------------------- places -------------------------------*)

\* A thread that is blocked: asleep, or parked before it reached its receive.
Blocked(place, status) == status = "W4MSG" \/ place \in {clock, "device"}

\* The scheduler's part of the invariant, for links, statuses and counter s
\* and running thread c: the links are rings, the place of a thread and its
\* status agree, and the counter counts those who are blocked.  A device and
\* the timer find their thread by a pointer, so the running thread has to be
\* off the lists, where thread_outqueue does nothing to it.
Shape(s, c, on) ==
  /\ \E pos : Rings(s, on, pos)
  /\ \A t \in Tcb : /\ on[t] = "cpu" <=> c = t
                    /\ on[t] = "cpu" => Lone(s, t) /\ s.status[t] = "READY"
                    /\ on[t] = "none" <=> s.status[t] = "NONE"
                    /\ on[t] = "ready_queue" => s.status[t] = "READY"
                    /\ on[t] = "wait_queue" => s.status[t] = "W4MSG"
  /\ s.soft = Cardinality({t \in Tcb : Blocked(on[t], s.status[t])})

\* Counting up and down, far from the bound.
LEMMA CountMove ==
  ASSUME NEW A \in SUBSET Tcb, NEW t \in Tcb, t \notin A
  PROVE  /\ Cardinality(A) \in Nat
         /\ Cardinality(A \union {t}) = Up(Cardinality(A))
         /\ Cardinality(A) = Down(Cardinality(A \union {t}))
<1>1. IsFiniteSet(A) /\ IsFiniteSet(A \union {t})
  BY TablesFinite, FS_Subset, FS_AddElement
<1>2. /\ Cardinality(A) \in Nat /\ Cardinality(A \union {t}) \in Nat
      /\ Cardinality(A \union {t}) = Cardinality(A) + 1
  BY <1>1, FS_CardinalityType, FS_AddElement
<1>3. Cardinality(A \union {t}) <= Cardinality(Tcb)
  BY TablesFinite, FS_Subset
<1> QED
  BY <1>2, <1>3, TablesFinite, BoundAssumption DEF Up, Down

\* One thread moves: from its place to `to', with status st.
LEMMA Move ==
  ASSUME NEW s \in SchedType, NEW c, NEW on, Shape(s, c, on),
         NEW u \in SchedType, NEW d, NEW t \in Tcb, NEW to \in Places, NEW st \in Status,
         \E pos : Rings(u, [on EXCEPT ![t] = to], pos),
         u.status = [s.status EXCEPT ![t] = st],
         to = "none" <=> st = "NONE", to = "ready_queue" => st = "READY",
         to = "wait_queue" => st = "W4MSG",
         to = "cpu" => Lone(u, t) /\ st = "READY",
         \A x \in Tcb \ {t} : on[x] = "cpu" => Lone(u, x),
         \A x \in Tcb \ {t} : c = x <=> d = x, to = "cpu" <=> d = t,
         u.soft = IF Blocked(to, st) <=> Blocked(on[t], s.status[t]) THEN s.soft
                  ELSE IF Blocked(to, st) THEN Up(s.soft) ELSE Down(s.soft)
  PROVE  Shape(u, d, [on EXCEPT ![t] = to])
<1> DEFINE o == [on EXCEPT ![t] = to]
           A == {x \in Tcb \ {t} : Blocked(on[x], s.status[x])}
           B == {x \in Tcb : Blocked(on[x], s.status[x])}
           C == {x \in Tcb : Blocked(o[x], u.status[x])}
<1>0. /\ on \in [Node -> Places] /\ t \in Node /\ Tcb \subseteq Node
      /\ s.status \in [Tcb -> Status]
  BY NodeFacts DEF Shape, Rings, SchedType
<1>1. /\ o[t] = to /\ u.status[t] = st
      /\ \A x \in Tcb \ {t} : o[x] = on[x] /\ u.status[x] = s.status[x]
  BY <1>0
<1> HIDE DEF o
<1>2. B = IF Blocked(on[t], s.status[t]) THEN A \union {t} ELSE A
  OBVIOUS
<1>3. C = IF Blocked(to, st) THEN A \union {t} ELSE A
  BY <1>1
<1>4. /\ Cardinality(A \union {t}) = Up(Cardinality(A))
      /\ Cardinality(A) = Down(Cardinality(A \union {t}))
  <2>1. A \in SUBSET Tcb /\ t \notin A
    OBVIOUS
  <2> QED
    BY <2>1, CountMove
<1>5. s.soft = Cardinality(B)
  BY DEF Shape
<1>6. u.soft = Cardinality(C)
  <2> HIDE DEF A, B, C
  <2>1. CASE Blocked(to, st)
    <3>1. CASE Blocked(on[t], s.status[t])
      BY <1>2, <1>3, <1>5, <2>1, <3>1
    <3>2. CASE ~Blocked(on[t], s.status[t])
      BY <1>2, <1>3, <1>4, <1>5, <2>1, <3>2
    <3> QED
      BY <3>1, <3>2
  <2>2. CASE ~Blocked(to, st)
    <3>1. CASE Blocked(on[t], s.status[t])
      BY <1>2, <1>3, <1>4, <1>5, <2>2, <3>1
    <3>2. CASE ~Blocked(on[t], s.status[t])
      BY <1>2, <1>3, <1>5, <2>2, <3>2
    <3> QED
      BY <3>1, <3>2
  <2> QED
    BY <2>1, <2>2
<1>7. ASSUME NEW x \in Tcb
      PROVE  /\ o[x] = "cpu" <=> d = x
             /\ o[x] = "cpu" => Lone(u, x) /\ u.status[x] = "READY"
             /\ o[x] = "none" <=> u.status[x] = "NONE"
             /\ o[x] = "ready_queue" => u.status[x] = "READY"
             /\ o[x] = "wait_queue" => u.status[x] = "W4MSG"
  <2>1. CASE x = t
    BY <1>1, <2>1
  <2>2. CASE x # t
    BY <1>1, <2>2 DEF Shape
  <2> QED
    BY <2>1, <2>2
<1> HIDE DEF C
<1>8. \E pos : Rings(u, o, pos)
  BY DEF o
<1>9. Shape(u, d, o)
  BY <1>6, <1>7, <1>8 DEF Shape, C
<1> QED
  BY <1>9 DEF o

\* A thread leaves its queue, joins one, or is taken off its head: the rings,
\* and everything but the rings.
LEMMA Leave ==
  ASSUME NEW s \in SchedType, NEW on, \E pos : Rings(s, on, pos),
         NEW t \in Tcb, on[t] \in Heads, NEW to \in Places \ Heads
  PROVE  /\ thread_outqueue(s, t) \in SchedType
         /\ \E pos : Rings(thread_outqueue(s, t), [on EXCEPT ![t] = to], pos)
         /\ thread_outqueue(s, t).status = s.status
         /\ thread_outqueue(s, t).soft = s.soft
         /\ \A x \in Tcb : on[x] \notin Heads /\ Lone(s, x) => Lone(thread_outqueue(s, t), x)
<1>1. PICK pos : Rings(s, on, pos)
  OBVIOUS
<1>2. Rings(list_del(s, t), [on EXCEPT ![t] = to], pos)
  BY <1>1, RingDel
<1>3. \A x \in Tcb : on[x] \notin Heads /\ Lone(s, x) => Lone(list_del(s, t), x)
  BY <1>1, DelLone
<1>4. t \in Node
  BY NodeFacts
<1>5. /\ list_del(s, t) \in SchedType
      /\ list_del(s, t).status = s.status /\ list_del(s, t).soft = s.soft
  BY <1>4, LinkType DEF list_del, SchedType
<1> QED
  BY <1>2, <1>3, <1>5 DEF thread_outqueue

LEMMA Join ==
  ASSUME NEW s \in SchedType, NEW on, \E pos : Rings(s, on, pos),
         NEW t \in Tcb, on[t] \notin Heads, NEW h \in Heads
  PROVE  /\ thread_enqueue(s, t, h) \in SchedType
         /\ \E pos : Rings(thread_enqueue(s, t, h), [on EXCEPT ![t] = h], pos)
         /\ thread_enqueue(s, t, h).status = s.status
         /\ thread_enqueue(s, t, h).soft = s.soft
         /\ \A x \in Tcb \ {t} :
              on[x] \notin Heads /\ Lone(s, x) => Lone(thread_enqueue(s, t, h), x)
<1>1. PICK pos : Rings(s, on, pos)
  OBVIOUS
<1>2. \E p : Rings(list_add_tail(s, t, h), [on EXCEPT ![t] = h], p)
  BY <1>1, RingAdd
<1>3. \A x \in Tcb \ {t} :
        on[x] \notin Heads /\ Lone(s, x) => Lone(list_add_tail(s, t, h), x)
  BY <1>1, AddLone
<1>4. t \in Node /\ h \in Node
  BY NodeFacts
<1>5. /\ list_add_tail(s, t, h) \in SchedType
      /\ list_add_tail(s, t, h).status = s.status /\ list_add_tail(s, t, h).soft = s.soft
  BY <1>4, LinkType DEF list_add_tail, list_add_between, SchedType
<1> QED
  BY <1>2, <1>3, <1>5 DEF thread_enqueue

LEMMA Behead ==
  ASSUME NEW s \in SchedType, NEW on, \E pos : Rings(s, on, pos), NEW h \in Heads,
         NEW t \in Tcb, t = thread_qhead(s, h), NEW to \in Places \ Heads
  PROVE  /\ on[t] = h
         /\ thread_dequeue(s, h) \in SchedType
         /\ \E pos : Rings(thread_dequeue(s, h), [on EXCEPT ![t] = to], pos)
         /\ thread_dequeue(s, h).status = s.status
         /\ thread_dequeue(s, h).soft = s.soft
         /\ Lone(thread_dequeue(s, h), t)
         /\ \A x \in Tcb \ {t} :
              on[x] \notin Heads /\ Lone(s, x) => Lone(thread_dequeue(s, h), x)
<1> DEFINE u == thread_outqueue(s, t)
           o == [on EXCEPT ![t] = to]
<1>1. t = s.next[h] /\ t \in Node /\ h \in Node
  BY NodeFacts DEF thread_qhead
<1>2. on[t] = h
  BY <1>1 DEF Rings, OnRing
<1>3. thread_dequeue(s, h) = INIT_LIST_HEAD(u, t)
  BY <1>1 DEF thread_dequeue, thread_outqueue
<1>4. /\ u \in SchedType /\ u.status = s.status /\ u.soft = s.soft
      /\ \E pos : Rings(u, o, pos)
      /\ \A x \in Tcb : on[x] \notin Heads /\ Lone(s, x) => Lone(u, x)
  BY <1>2, Leave
<1>5. o[t] \notin Heads
  BY <1>1 DEF Rings
<1> HIDE DEF u, o
<1>6. PICK pos : Rings(u, o, pos)
  BY <1>4
<1>7. Rings(INIT_LIST_HEAD(u, t), o, pos) /\ Lone(INIT_LIST_HEAD(u, t), t)
  BY <1>4, <1>5, <1>6, RingInit
<1>8. /\ INIT_LIST_HEAD(u, t) \in SchedType
      /\ INIT_LIST_HEAD(u, t).status = u.status /\ INIT_LIST_HEAD(u, t).soft = u.soft
      /\ \A x \in Tcb \ {t} : Lone(u, x) => Lone(INIT_LIST_HEAD(u, t), x)
  <2>1. /\ INIT_LIST_HEAD(u, t).next = [u.next EXCEPT ![t] = t]
        /\ INIT_LIST_HEAD(u, t).prev = [u.prev EXCEPT ![t] = t]
    BY <1>4 DEF INIT_LIST_HEAD, SchedType
  <2>2. INIT_LIST_HEAD(u, t) \in SchedType
    BY <1>1, <1>4, LinkType
  <2>3. INIT_LIST_HEAD(u, t).status = u.status /\ INIT_LIST_HEAD(u, t).soft = u.soft
    BY <1>4 DEF INIT_LIST_HEAD, SchedType
  <2>4. \A x \in Tcb \ {t} : Lone(u, x) => Lone(INIT_LIST_HEAD(u, t), x)
    BY <1>1, <2>1, NodeFacts DEF Lone
  <2> QED
    BY <2>2, <2>3, <2>4
<1> QED
  BY <1>2, <1>3, <1>4, <1>7, <1>8 DEF o

\* Writing a status and the counter.
Marks(s, t, st, n) == [s EXCEPT !.status[t] = st, !.soft = n]
Counts(s, n) == [s EXCEPT !.soft = n]

LEMMA Marked ==
  ASSUME NEW s \in SchedType, NEW t \in Tcb, NEW st \in Status,
         NEW n \in -CountBound..CountBound
  PROVE  /\ Marks(s, t, st, n) \in SchedType
         /\ Marks(s, t, st, n).soft = n
         /\ Marks(s, t, st, n).status = [s.status EXCEPT ![t] = st]
         /\ \A on : (\E pos : Rings(s, on, pos)) => \E pos : Rings(Marks(s, t, st, n), on, pos)
         /\ \A x : Lone(s, x) => Lone(Marks(s, t, st, n), x)
<1> DEFINE u == Marks(s, t, st, n)
<1>1. u.next = s.next /\ u.prev = s.prev
  BY DEF SchedType, Marks
<1>2. u \in SchedType /\ u.soft = n /\ u.status = [s.status EXCEPT ![t] = st]
  BY DEF SchedType, Marks
<1> HIDE DEF u
<1>3. \A on, pos : Rings(s, on, pos) => Rings(u, on, pos)
  BY <1>1, RingsLinks
<1> QED
  BY <1>1, <1>2, <1>3 DEF Lone, u

LEMMA Counted ==
  ASSUME NEW s \in SchedType, NEW n \in -CountBound..CountBound
  PROVE  /\ Counts(s, n) \in SchedType
         /\ Counts(s, n).soft = n /\ Counts(s, n).status = s.status
         /\ \A on : (\E pos : Rings(s, on, pos)) => \E pos : Rings(Counts(s, n), on, pos)
         /\ \A x : Lone(s, x) => Lone(Counts(s, n), x)
<1> DEFINE u == Counts(s, n)
<1>1. u.next = s.next /\ u.prev = s.prev
  BY DEF SchedType, Counts
<1>2. u \in SchedType /\ u.soft = n /\ u.status = s.status
  BY DEF SchedType, Counts
<1> HIDE DEF u
<1>3. \A on, pos : Rings(s, on, pos) => Rings(u, on, pos)
  BY <1>1, RingsLinks
<1> QED
  BY <1>1, <1>2, <1>3 DEF Lone, u

(*------------------------- the scheduling operations -------------------*)

\* What Shape says of one thread, and of the places that are no queues.
LEMMA ShapeFacts ==
  ASSUME NEW s \in SchedType, NEW c, NEW on, Shape(s, c, on)
  PROVE  /\ \E pos : Rings(s, on, pos)
         /\ on \in [Node -> Places]
         /\ "cpu" \notin Heads /\ "device" \notin Heads /\ "none" \notin Heads
         /\ {"cpu", "device", "none"} \subseteq Places /\ Heads \subseteq Places
         /\ "ready_queue" \in Heads /\ "wait_queue" \in Heads /\ clock \in Heads
         /\ \A x \in Tcb : on[x] = "cpu" => on[x] \notin Heads /\ Lone(s, x)
         /\ s.soft \in -CountBound..CountBound
         /\ Up(s.soft) \in -CountBound..CountBound
         /\ Down(s.soft) \in -CountBound..CountBound
BY CountType DEF Shape, Rings, Places, Heads, clock, SchedType

\* put_thread_sleep by the running thread.
LEMMA SleepShape ==
  ASSUME NEW s \in SchedType, NEW on, NEW t \in Tcb, Shape(s, t, on)
  PROVE  Shape(put_thread_sleep(s, t), NULL, [on EXCEPT ![t] = "wait_queue"])
<1>1. on[t] = "cpu" /\ s.status[t] = "READY" /\ Lone(s, t) /\ t \in Node /\ NULL \notin Tcb
  BY NodeFacts DEF Shape
<1>2. thread_outqueue(s, t) = s
  BY <1>1, LoneDel DEF thread_outqueue
<1> DEFINE v == thread_enqueue(s, t, "wait_queue")
           u == Marks(v, t, "W4MSG", Up(s.soft))
           o == [on EXCEPT ![t] = "wait_queue"]
<1>3. /\ v \in SchedType /\ v.status = s.status /\ v.soft = s.soft
      /\ \E pos : Rings(v, o, pos)
      /\ \A x \in Tcb \ {t} : on[x] = "cpu" => Lone(v, x)
  BY <1>1, ShapeFacts, Join
<1>4. put_thread_sleep(s, t) = u
  BY <1>2, <1>3 DEF put_thread_sleep, Marks
<1> HIDE DEF v
<1>5. /\ u \in SchedType /\ u.soft = Up(s.soft)
      /\ u.status = [s.status EXCEPT ![t] = "W4MSG"]
      /\ \E pos : Rings(u, o, pos)
      /\ \A x \in Tcb \ {t} : on[x] = "cpu" => Lone(u, x)
  <2>1. "W4MSG" \in Status /\ Up(s.soft) \in -CountBound..CountBound
    BY ShapeFacts DEF Status
  <2> QED
    BY <1>3, <2>1, Marked
<1> HIDE DEF u
<1>6. ~Blocked(on[t], s.status[t]) /\ Blocked("wait_queue", "W4MSG")
  BY <1>1 DEF Blocked, clock
<1>7. "wait_queue" \in Places /\ "W4MSG" \in Status
  BY DEF Places, Heads, Status
<1>8. Shape(u, NULL, o)
  BY <1>1, <1>5, <1>6, <1>7, Move
<1> QED
  BY <1>4, <1>8

\* wake_me_up of a sleeper in the wait queue.
LEMMA WakeShape ==
  ASSUME NEW s \in SchedType, NEW c, NEW on, Shape(s, c, on),
         NEW t \in Tcb, on[t] = "wait_queue"
  PROVE  Shape(wake_me_up(s, t), c, [on EXCEPT ![t] = "ready_queue"])
<1>1. /\ s.status[t] = "W4MSG" /\ t \in Node /\ c # t
      /\ on[t] \in Heads /\ "none" \in Places \ Heads
  <2>1. s.status[t] = "W4MSG" /\ c # t
    BY DEF Shape
  <2> QED
    BY <2>1, NodeFacts, ShapeFacts
<1> DEFINE w == thread_outqueue(s, t)
           z == [on EXCEPT ![t] = "none"]
           v == thread_enqueue(w, t, "ready_queue")
           u == Marks(v, t, "READY", Down(s.soft))
           o == [on EXCEPT ![t] = "ready_queue"]
<1>2. /\ w \in SchedType /\ w.status = s.status /\ w.soft = s.soft
      /\ \E pos : Rings(w, z, pos)
      /\ \A x \in Tcb : on[x] \notin Heads /\ Lone(s, x) => Lone(w, x)
  BY <1>1, ShapeFacts, Leave
<1>3. /\ z[t] \notin Heads /\ [z EXCEPT ![t] = "ready_queue"] = o
      /\ \A x \in Tcb \ {t} : z[x] = on[x]
  BY <1>1, ShapeFacts
<1>4. v = thread_enqueue(w, t, "ready_queue")
  OBVIOUS
<1> HIDE DEF w, z, v
<1>5. /\ v \in SchedType /\ v.status = s.status /\ v.soft = s.soft
      /\ \E pos : Rings(v, o, pos)
      /\ \A x \in Tcb \ {t} : z[x] \notin Heads /\ Lone(w, x) => Lone(v, x)
  <2>1. "ready_queue" \in Heads
    BY ShapeFacts
  <2> QED
    BY <1>2, <1>3, <1>4, <2>1, Join
<1>6. \A x \in Tcb \ {t} : on[x] = "cpu" => Lone(v, x)
  BY <1>2, <1>3, <1>5, ShapeFacts
<1>7. /\ u \in SchedType /\ u.soft = Down(s.soft)
      /\ u.status = [s.status EXCEPT ![t] = "READY"]
      /\ \E pos : Rings(u, o, pos)
      /\ \A x \in Tcb \ {t} : on[x] = "cpu" => Lone(u, x)
  <2>1. "READY" \in Status /\ Down(s.soft) \in -CountBound..CountBound
    BY ShapeFacts DEF Status
  <2> QED
    BY <1>5, <1>6, <2>1, Marked
<1>8. wake_me_up(s, t) = u
  BY <1>4, <1>5 DEF wake_me_up, w, Marks
<1> HIDE DEF u
<1>9. Blocked(on[t], s.status[t]) /\ ~Blocked("ready_queue", "READY")
  BY <1>1 DEF Blocked, clock
<1>10. "ready_queue" \in Places /\ "READY" \in Status
  BY DEF Places, Heads, Status
<1>11. Shape(u, c, o)
  BY <1>1, <1>7, <1>9, <1>10, Move
<1> QED
  BY <1>8, <1>11

\* A time slice ends: the running thread, which is on no list, joins the end
\* of the ready queue.
LEMMA SliceShape ==
  ASSUME NEW s \in SchedType, NEW on, NEW t \in Tcb, Shape(s, t, on)
  PROVE  Shape(thread_enqueue(s, t, "ready_queue"), NULL, [on EXCEPT ![t] = "ready_queue"])
<1>1. on[t] = "cpu" /\ s.status[t] = "READY" /\ t \in Node /\ NULL \notin Tcb
  BY NodeFacts DEF Shape
<1> DEFINE v == thread_enqueue(s, t, "ready_queue")
           o == [on EXCEPT ![t] = "ready_queue"]
<1>2. /\ v \in SchedType /\ v.status = s.status /\ v.soft = s.soft
      /\ \E pos : Rings(v, o, pos)
      /\ \A x \in Tcb \ {t} : on[x] = "cpu" => Lone(v, x)
  BY <1>1, ShapeFacts, Join
<1> HIDE DEF v
<1>3. v.status = [s.status EXCEPT ![t] = "READY"]
  BY <1>1, <1>2 DEF SchedType
<1>4. ~Blocked(on[t], s.status[t]) /\ ~Blocked("ready_queue", "READY")
  BY <1>1 DEF Blocked, clock
<1>5. "ready_queue" \in Places /\ "READY" \in Status
  BY DEF Places, Heads, Status
<1>6. Shape(v, NULL, o)
  <2>1. NULL # t /\ \A x \in Tcb \ {t} : t = x <=> NULL = x
    BY <1>1
  <2>2. v.soft = IF Blocked("ready_queue", "READY") <=> Blocked(on[t], s.status[t])
               THEN s.soft
               ELSE IF Blocked("ready_queue", "READY") THEN Up(s.soft) ELSE Down(s.soft)
    BY <1>2, <1>4
  <2>3. /\ v \in SchedType /\ v.status = [s.status EXCEPT ![t] = "READY"]
        /\ \E pos : Rings(v, [on EXCEPT ![t] = "ready_queue"], pos)
        /\ \A x \in Tcb \ {t} : on[x] = "cpu" => Lone(v, x)
    BY <1>2, <1>3
  <2> HIDE DEF o
  <2>4. Shape(v, NULL, [on EXCEPT ![t] = "ready_queue"])
    BY <1>1, <1>5, <2>1, <2>2, <2>3, Move
  <2> QED
    BY <2>4 DEF o
<1> QED
  BY <1>6 DEF v

\* The head of the ready queue is given the processor.
LEMMA DispatchShape ==
  ASSUME NEW s \in SchedType, NEW on, Shape(s, NULL, on),
         NEW t \in Tcb, t = thread_qhead(s, "ready_queue")
  PROVE  Shape(thread_dequeue(s, "ready_queue"), t, [on EXCEPT ![t] = "cpu"])
<1> DEFINE v == thread_dequeue(s, "ready_queue")
           o == [on EXCEPT ![t] = "cpu"]
<1>1. /\ on[t] = "ready_queue"
      /\ v \in SchedType /\ v.status = s.status /\ v.soft = s.soft
      /\ \E pos : Rings(v, o, pos)
      /\ Lone(v, t)
  <2>1. "cpu" \in Places \ Heads /\ "ready_queue" \in Heads /\ \E pos : Rings(s, on, pos)
    BY ShapeFacts
  <2> QED
    BY <2>1, Behead
<1>2. s.status[t] = "READY" /\ NULL \notin Tcb /\ \A x \in Tcb : on[x] # "cpu"
  BY <1>1, NodeFacts DEF Shape
<1> HIDE DEF v
<1>3. v.status = [s.status EXCEPT ![t] = "READY"]
  BY <1>1, <1>2 DEF SchedType
<1>4. ~Blocked(on[t], s.status[t]) /\ ~Blocked("cpu", "READY")
  BY <1>1, <1>2 DEF Blocked, clock
<1>5. "cpu" \in Places /\ "READY" \in Status
  BY DEF Places, Status
<1>6. \A x \in Tcb \ {t} : (NULL = x <=> t = x) /\ (on[x] = "cpu" => Lone(v, x))
  BY <1>2
<1> HIDE DEF o
<1>7. Shape(v, t, [on EXCEPT ![t] = "cpu"])
  <2>1. \E pos : Rings(v, [on EXCEPT ![t] = "cpu"], pos)
    BY <1>1 DEF o
  <2>2. /\ "cpu" = "none" <=> "READY" = "NONE"
        /\ "cpu" = "ready_queue" => "READY" = "READY"
        /\ "cpu" = "wait_queue" => "READY" = "W4MSG"
        /\ "cpu" = "cpu" => Lone(v, t) /\ "READY" = "READY"
        /\ "cpu" = "cpu" <=> t = t
    BY <1>1
  <2>3. v.soft = IF Blocked("cpu", "READY") <=> Blocked(on[t], s.status[t]) THEN s.soft
                 ELSE IF Blocked("cpu", "READY") THEN Up(s.soft) ELSE Down(s.soft)
    BY <1>1, <1>4
  <2> QED
    BY <1>1, <1>3, <1>5, <1>6, <2>1, <2>2, <2>3, Move
<1> QED
  BY <1>7 DEF v

\* thread_alloc hands out a block, and it becomes the last ready thread.
LEMMA StartShape ==
  ASSUME NEW s \in SchedType, NEW c, NEW on, Shape(s, c, on),
         NEW t \in Tcb, s.status[t] = "NONE"
  PROVE  Shape(thread_enqueue([INIT_LIST_HEAD(s, t) EXCEPT !.status[t] = "READY"],
                              t, "ready_queue"),
               c, [on EXCEPT ![t] = "ready_queue"])
<1> DEFINE w == INIT_LIST_HEAD(s, t)
           z == [w EXCEPT !.status[t] = "READY"]
           v == thread_enqueue(z, t, "ready_queue")
           o == [on EXCEPT ![t] = "ready_queue"]
<1>1. on[t] = "none" /\ c # t /\ t \in Node
  <2>1. on[t] = "none" /\ (on[t] = "cpu" <=> c = t)
    BY DEF Shape
  <2> QED
    BY <2>1, NodeFacts
<1>2. /\ w \in SchedType /\ w.status = s.status /\ w.soft = s.soft
      /\ w.next = [s.next EXCEPT ![t] = t] /\ w.prev = [s.prev EXCEPT ![t] = t]
  <2>1. w \in SchedType
    BY <1>1, LinkType
  <2> QED
    BY <2>1 DEF INIT_LIST_HEAD, SchedType
<1>3. \E pos : Rings(w, on, pos)
  BY <1>1, ShapeFacts, RingInit
<1>4. \A x \in Tcb \ {t} : on[x] = "cpu" => Lone(w, x)
  <2>1. \A x \in Tcb : on[x] = "cpu" => Lone(s, x)
    BY ShapeFacts
  <2> QED
    BY <1>2, <2>1, NodeFacts DEF Lone, SchedType
<1> HIDE DEF w
<1>5. z = Marks(w, t, "READY", s.soft)
  BY <1>2 DEF Marks, SchedType
<1>6. "READY" \in Status /\ s.soft \in -CountBound..CountBound
  BY DEF Status, SchedType
<1> HIDE DEF z
<1>7. /\ z \in SchedType /\ z.soft = s.soft /\ z.status = [s.status EXCEPT ![t] = "READY"]
      /\ \E pos : Rings(z, on, pos)
      /\ \A x \in Tcb \ {t} : on[x] = "cpu" => Lone(z, x)
  BY <1>2, <1>3, <1>4, <1>5, <1>6, Marked
<1>8. v = thread_enqueue(z, t, "ready_queue")
  OBVIOUS
<1> HIDE DEF v
<1>9. /\ v \in SchedType /\ v.status = z.status /\ v.soft = s.soft
      /\ \E pos : Rings(v, o, pos)
      /\ \A x \in Tcb \ {t} : on[x] = "cpu" => Lone(v, x)
  <2>1. "ready_queue" \in Heads /\ on[t] \notin Heads
    BY <1>1, ShapeFacts
  <2>2. \A x \in Tcb \ {t} : on[x] = "cpu" => on[x] \notin Heads
    BY ShapeFacts
  <2> QED
    BY <1>7, <1>8, <2>1, <2>2, Join
<1>10. ~Blocked(on[t], s.status[t]) /\ ~Blocked("ready_queue", "READY")
  BY <1>1 DEF Blocked, clock
<1>11. "ready_queue" \in Places /\ on[t] # "cpu"
  BY <1>1, ShapeFacts
<1>12. Shape(v, c, o)
  BY <1>1, <1>6, <1>7, <1>9, <1>10, <1>11, Move
<1> QED
  BY <1>12 DEF v, z, w

\* The SSI parks the sender: out of its queue, and counted.
LEMMA ParkShape ==
  ASSUME NEW s \in SchedType, NEW c, NEW on, Shape(s, c, on),
         Sender \in Tcb, on[Sender] \in {"ready_queue", "wait_queue"}
  PROVE  /\ parked(s) \in SchedType /\ parked(s).status = s.status
         /\ Shape(parked(s), c, [on EXCEPT ![Sender] = "device"])
<1>1. PICK t \in Tcb : t = Sender
  OBVIOUS
<1> DEFINE o == [on EXCEPT ![t] = "device"]
           w == thread_outqueue(s, t)
<1>2. /\ on[t] \in Heads /\ c # t /\ "device" \in Places \ Heads
      /\ s.status[t] = IF on[t] = "wait_queue" THEN "W4MSG" ELSE "READY"
  <2>1. /\ on[t] = "cpu" <=> c = t
        /\ s.status[t] = IF on[t] = "wait_queue" THEN "W4MSG" ELSE "READY"
    BY <1>1 DEF Shape
  <2> QED
    BY <1>1, <2>1, ShapeFacts
<1>3. /\ w \in SchedType /\ w.status = s.status /\ w.soft = s.soft
      /\ \E pos : Rings(w, o, pos)
      /\ \A x \in Tcb : on[x] \notin Heads /\ Lone(s, x) => Lone(w, x)
  BY <1>1, <1>2, ShapeFacts, Leave
<1>4. \A x \in Tcb \ {t} : on[x] = "cpu" => Lone(w, x)
  BY <1>3, ShapeFacts
<1> DEFINE v == Counts(w, Up(s.soft))
<1>5. parked(s) = IF s.status[t] = "READY" THEN v ELSE w
  BY <1>1, <1>3 DEF parked, Counts
<1> HIDE DEF w
<1>6. /\ v \in SchedType /\ v.status = s.status /\ v.soft = Up(s.soft)
      /\ \E pos : Rings(v, o, pos)
      /\ \A x \in Tcb \ {t} : on[x] = "cpu" => Lone(v, x)
  <2>1. Up(s.soft) \in -CountBound..CountBound
    BY ShapeFacts
  <2> QED
    BY <1>3, <1>4, <2>1, Counted
<1> HIDE DEF v
<1>7. s.status = [s.status EXCEPT ![t] = s.status[t]] /\ s.status[t] \in Status
  BY DEF SchedType
<1>8. /\ Blocked("device", s.status[t])
      /\ Blocked(on[t], s.status[t]) <=> s.status[t] # "READY"
      /\ s.status[t] # "NONE" /\ on[t] # "cpu"
  BY <1>1, <1>2 DEF Blocked, clock
<1> HIDE DEF o
<1>9. Shape(parked(s), c, [on EXCEPT ![t] = "device"])
  <2>0. "device" \in Places
    BY <1>2
  <2>1. CASE s.status[t] = "READY"
    <3>1. ~Blocked(on[t], s.status[t]) /\ parked(s) = v
      BY <1>5, <1>8, <2>1
    <3> QED
      BY <1>2, <1>6, <1>7, <1>8, <2>0, <3>1, Move DEF o
  <2>2. CASE s.status[t] # "READY"
    <3>1. Blocked(on[t], s.status[t]) /\ parked(s) = w
      BY <1>5, <1>8, <2>2
    <3> QED
      BY <1>2, <1>3, <1>4, <1>7, <1>8, <2>0, <3>1, Move DEF o
  <2> QED
    BY <2>1, <2>2
<1> QED
  BY <1>1, <1>3, <1>5, <1>6, <1>9

\* A parked thread joins the queue of the clock.
LEMMA ClockShape ==
  ASSUME NEW s \in SchedType, NEW c, NEW on, Shape(s, c, on), NEW t \in Tcb, on[t] = "device"
  PROVE  Shape(thread_enqueue(s, t, clock), c, [on EXCEPT ![t] = clock])
<1> DEFINE v == thread_enqueue(s, t, clock)
           o == [on EXCEPT ![t] = clock]
<1>1. /\ v \in SchedType /\ v.status = s.status /\ v.soft = s.soft
      /\ \E pos : Rings(v, o, pos)
      /\ \A x \in Tcb \ {t} : on[x] = "cpu" => Lone(v, x)
  <2>1. on[t] \notin Heads /\ clock \in Heads
    BY ShapeFacts
  <2> QED
    BY <2>1, ShapeFacts, Join
<1>2. c # t /\ s.status[t] # "NONE"
  <2>1. (on[t] = "cpu" <=> c = t) /\ (on[t] = "none" <=> s.status[t] = "NONE")
    BY DEF Shape
  <2> QED
    BY <2>1
<1> HIDE DEF v, o
<1>3. v.status = [s.status EXCEPT ![t] = s.status[t]] /\ s.status[t] \in Status
  BY <1>1 DEF SchedType
<1>4. /\ Blocked(on[t], s.status[t]) <=> Blocked(clock, s.status[t])
      /\ clock \in Places /\ clock # "none" /\ clock # "ready_queue" /\ clock # "wait_queue"
      /\ clock # "cpu"
  BY DEF Blocked, clock, Places, Heads
<1>5. Shape(v, c, [on EXCEPT ![t] = clock])
  BY <1>1, <1>2, <1>3, <1>4, Move DEF o
<1> QED
  BY <1>5 DEF v

\* The head of the queue of the clock leaves it.
LEMMA ExpireShape ==
  ASSUME NEW s \in SchedType, NEW c, NEW on, Shape(s, c, on),
         NEW t \in Tcb, t = thread_qhead(s, clock)
  PROVE  /\ on[t] = clock
         /\ Shape(thread_dequeue(s, clock), c, [on EXCEPT ![t] = "device"])
<1> DEFINE v == thread_dequeue(s, clock)
           o == [on EXCEPT ![t] = "device"]
<1>1. /\ on[t] = clock
      /\ v \in SchedType /\ v.status = s.status /\ v.soft = s.soft
      /\ \E pos : Rings(v, o, pos)
      /\ \A x \in Tcb \ {t} : on[x] \notin Heads /\ Lone(s, x) => Lone(v, x)
  <2>1. "device" \in Places \ Heads /\ clock \in Heads /\ \E pos : Rings(s, on, pos)
    BY ShapeFacts
  <2> QED
    BY <2>1, Behead
<1>2. \A x \in Tcb \ {t} : on[x] = "cpu" => Lone(v, x)
  BY <1>1, ShapeFacts
<1>3. c # t /\ s.status[t] # "NONE"
  <2>1. (on[t] = "cpu" <=> c = t) /\ (on[t] = "none" <=> s.status[t] = "NONE")
    BY DEF Shape
  <2> QED
    BY <1>1, <2>1 DEF clock
<1> HIDE DEF v, o
<1>4. v.status = [s.status EXCEPT ![t] = s.status[t]] /\ s.status[t] \in Status
  BY <1>1 DEF SchedType
<1>5. /\ Blocked(on[t], s.status[t]) <=> Blocked("device", s.status[t])
      /\ "device" \in Places
  BY <1>1 DEF Blocked, clock, Places
<1>6. Shape(v, c, [on EXCEPT ![t] = "device"])
  <2>1. v.soft = IF Blocked("device", s.status[t]) <=> Blocked(on[t], s.status[t]) THEN s.soft
                 ELSE IF Blocked("device", s.status[t]) THEN Up(s.soft) ELSE Down(s.soft)
    BY <1>1, <1>5
  <2>2. \E pos : Rings(v, [on EXCEPT ![t] = "device"], pos)
    BY <1>1 DEF o
  <2>3. PICK y \in Tcb : y = t
    OBVIOUS
  <2>4. Shape(v, c, [on EXCEPT ![y] = "device"])
    BY <1>1, <1>2, <1>3, <1>4, <1>5, <2>1, <2>2, <2>3, Move
  <2> QED
    BY <2>3, <2>4
<1> QED
  BY <1>1, <1>6 DEF v

\* A parked thread is back: in the ready queue, and no longer counted, or in
\* the wait queue.
LEMMA ResumedShape ==
  ASSUME NEW s \in SchedType, NEW c, NEW on, Shape(s, c, on), NEW t \in Tcb, on[t] = "device"
  PROVE  Shape(resumed(s, t), c,
               [on EXCEPT ![t] = IF s.status[t] = "READY" THEN "ready_queue" ELSE "wait_queue"])
<1>1. c # t /\ s.status[t] \in {"READY", "W4MSG"}
  <2>1. (on[t] = "cpu" <=> c = t) /\ (on[t] = "none" <=> s.status[t] = "NONE")
    BY DEF Shape
  <2> QED
    BY <2>1 DEF SchedType, Status
<1>2. s.status = [s.status EXCEPT ![t] = s.status[t]] /\ s.status[t] \in Status
  BY DEF SchedType
<1>3. ASSUME NEW h \in {"ready_queue", "wait_queue"}
      PROVE  /\ thread_enqueue(s, t, h) \in SchedType
             /\ thread_enqueue(s, t, h).status = s.status
             /\ thread_enqueue(s, t, h).soft = s.soft
             /\ \E pos : Rings(thread_enqueue(s, t, h), [on EXCEPT ![t] = h], pos)
             /\ \A x \in Tcb \ {t} : on[x] = "cpu" => Lone(thread_enqueue(s, t, h), x)
  <2>1. on[t] \notin Heads /\ h \in Heads
    BY ShapeFacts
  <2> QED
    BY <2>1, ShapeFacts, Join
<1>4. {"ready_queue", "wait_queue"} \subseteq Places /\ Blocked(on[t], s.status[t])
  BY DEF Places, Heads, Blocked
<1>5. CASE s.status[t] = "READY"
  <2> DEFINE w == thread_enqueue(s, t, "ready_queue")
             v == Counts(w, Down(s.soft))
  <2>1. resumed(s, t) = v
    BY <1>3, <1>5 DEF resumed, Counts
  <2>2. /\ w \in SchedType /\ w.status = s.status
        /\ \E pos : Rings(w, [on EXCEPT ![t] = "ready_queue"], pos)
        /\ \A x \in Tcb \ {t} : on[x] = "cpu" => Lone(w, x)
    BY <1>3
  <2> HIDE DEF w
  <2>3. /\ v \in SchedType /\ v.status = s.status /\ v.soft = Down(s.soft)
        /\ \E pos : Rings(v, [on EXCEPT ![t] = "ready_queue"], pos)
        /\ \A x \in Tcb \ {t} : on[x] = "cpu" => Lone(v, x)
    BY <2>2, ShapeFacts, Counted
  <2> HIDE DEF v
  <2>4. ~Blocked("ready_queue", s.status[t])
    BY <1>5 DEF Blocked, clock
  <2>5. Shape(v, c, [on EXCEPT ![t] = "ready_queue"])
    BY <1>1, <1>2, <1>4, <1>5, <2>3, <2>4, Move
  <2> QED
    BY <1>5, <2>1, <2>5
<1>6. CASE s.status[t] = "W4MSG"
  <2> DEFINE v == thread_enqueue(s, t, "wait_queue")
  <2>1. resumed(s, t) = v
    BY <1>6 DEF resumed
  <2>2. /\ v \in SchedType /\ v.status = s.status /\ v.soft = s.soft
        /\ \E pos : Rings(v, [on EXCEPT ![t] = "wait_queue"], pos)
        /\ \A x \in Tcb \ {t} : on[x] = "cpu" => Lone(v, x)
    BY <1>3
  <2> HIDE DEF v
  <2>3. Blocked("wait_queue", s.status[t])
    BY <1>6 DEF Blocked
  <2>4. Shape(v, c, [on EXCEPT ![t] = "wait_queue"])
    BY <1>1, <1>2, <1>4, <1>6, <2>2, <2>3, Move
  <2> QED
    BY <1>6, <2>1, <2>4
<1> QED
  BY <1>1, <1>5, <1>6

\* A parked thread is answered: if it sleeps, the answer wakes it, as it is
\* the SSI that it waits for.
LEMMA AnswerShape ==
  ASSUME NEW s \in SchedType, NEW c, NEW on, Shape(s, c, on), NEW t \in Tcb, on[t] = "device",
         Accepts(t, SSI) <=> s.status[t] = "W4MSG"
  PROVE  Shape(sent(resumed(s, t), SSI, t), c, [on EXCEPT ![t] = "ready_queue"])
<1> DEFINE v == resumed(s, t)
           o == [on EXCEPT ![t] = "wait_queue"]
<1>1. s.status[t] \in {"READY", "W4MSG"} /\ v \in SchedType /\ t \in Node
  <2>1. on[t] = "none" <=> s.status[t] = "NONE"
    BY DEF Shape
  <2> QED
    BY <2>1, QueueType, NodeFacts DEF SchedType, Status, Heads
<1>2. Shape(v, c, [on EXCEPT ![t] = IF s.status[t] = "READY" THEN "ready_queue" ELSE "wait_queue"])
  BY ResumedShape
<1> HIDE DEF v
<1>3. CASE s.status[t] = "READY"
  BY <1>2, <1>3 DEF sent, v
<1>4. CASE s.status[t] = "W4MSG"
  <2>1. Shape(v, c, o)
    BY <1>2, <1>4
  <2>2. o[t] = "wait_queue" /\ [o EXCEPT ![t] = "ready_queue"] = [on EXCEPT ![t] = "ready_queue"]
    BY <1>1, ShapeFacts
  <2> HIDE DEF o
  <2>3. Shape(wake_me_up(v, t), c, [o EXCEPT ![t] = "ready_queue"])
    BY <1>1, <2>1, <2>2, WakeShape
  <2> QED
    BY <1>4, <2>2, <2>3 DEF sent, v
<1> QED
  BY <1>1, <1>3, <1>4

(*-------------------------------- the waiter ---------------------------*)

\* A walk of a list that comes back to its head begins again.
LEMMA WalkAgain ==
  ASSUME NEW s \in SchedType, NEW h \in Node, NEW k \in 0..Cardinality(Node),
         list_cursor(s, h)[k] = h
  PROVE  \A m \in Nat : k + 1 + m <= Cardinality(Node) =>
           list_cursor(s, h)[k + 1 + m] = list_cursor(s, h)[m]
<1> DEFINE N  == Cardinality(Node)
           at == list_cursor(s, h)
           S  == {m \in Nat : k + 1 + m <= N => at[k + 1 + m] = at[m]}
<1>1. /\ N \in Nat /\ at[0] = s.next[h] /\ at[k] = h
      /\ \A i \in 1..N : at[i] = s.next[at[i - 1]]
  BY TablesFinite, CursorIs
<1> HIDE DEF N, at
<1>2. 0 \in S
  <2> SUFFICES ASSUME k + 1 <= N PROVE at[k + 1] = at[0]
    BY <1>1
  <2>1. k + 1 \in 1..N /\ (k + 1) - 1 = k
    BY <1>1 DEF N
  <2> QED
    BY <1>1, <2>1
<1>3. ASSUME NEW m \in Nat, m \in S PROVE m + 1 \in S
  <2> SUFFICES ASSUME k + 1 + (m + 1) <= N PROVE at[k + 1 + (m + 1)] = at[m + 1]
    OBVIOUS
  <2>0. k \in Nat
    BY <1>1 DEF N
  <2>1. /\ k + 1 + (m + 1) \in 1..N /\ (k + 1 + (m + 1)) - 1 = k + 1 + m
        /\ m + 1 \in 1..N /\ (m + 1) - 1 = m /\ k + 1 + m <= N
    BY <1>1, <2>0
  <2>2. at[k + 1 + m] = at[m]
    BY <1>3, <2>1
  <2> QED
    BY <1>1, <2>1, <2>2
<1>4. Nat \subseteq S
  <2> HIDE DEF S
  <2> QED
    BY <1>2, <1>3, AllNumbers
<1> QED
  BY <1>4 DEF N, at

\* The first goal on a list, when the list has one besides its head and no
\* other head: it is not the head.
LEMMA FindFirst ==
  ASSUME NEW s \in SchedType, NEW h \in Node, NEW Goal, NEW w \in Members(s, h),
         w \in Goal, w # h
  PROVE  list_find(s, h, Goal, NULL) \in (Goal \intersect Members(s, h)) \ {h}
<1> DEFINE N     == Cardinality(Node)
           at    == list_cursor(s, h)
           hits  == {i \in DOMAIN at : at[i] \in Goal}
           first == {i \in hits : \A j \in hits : i <= j}
<1>1. /\ N \in Nat /\ DOMAIN at = 0..N
      /\ \A k \in 0..N : at[k] = h => \A m \in Nat : k + 1 + m <= N => at[k + 1 + m] = at[m]
  BY TablesFinite, CursorIs, WalkAgain
<1>2. Members(s, h) = {at[i] : i \in DOMAIN at}
  BY DEF Members
<1>3. list_find(s, h, Goal, NULL) = IF first = {} THEN NULL ELSE at[CHOOSE i \in first : TRUE]
  BY DEF list_find
<1> HIDE DEF N, at
<1>4. PICK j \in 0..N : at[j] = w /\ j \in hits
  BY <1>1, <1>2
<1>5. PICK i \in hits : \A x \in hits : i <= x
  <2>1. hits \in SUBSET Nat /\ hits # {}
    BY <1>1, <1>4
  <2> HIDE DEF hits
  <2> QED
    BY <2>1, LeastNumber
<1>6. first = {i}
  <2>1. \A x \in hits : x \in Nat
    BY <1>1
  <2>2. \A x \in first : x <= i /\ i <= x /\ x \in Nat /\ i \in Nat
    BY <1>5, <2>1
  <2>3. i \in first
    BY <1>5
  <2>4. \A x \in first : x = i
    BY <2>2
  <2> QED
    BY <2>3, <2>4
<1>7. list_find(s, h, Goal, NULL) = at[i] /\ at[i] \in Goal /\ at[i] \in Members(s, h)
  BY <1>2, <1>3, <1>5, <1>6
<1>8. at[i] # h
  <2> SUFFICES ASSUME at[i] = h PROVE FALSE
    OBVIOUS
  <2> DEFINE S == {x \in hits : at[x] = w}
  <2>1. S \in SUBSET Nat /\ S # {}
    BY <1>1, <1>4
  <2>2. PICK x \in S : \A y \in S : x <= y
    <3> HIDE DEF S
    <3> QED
      BY <2>1, LeastNumber
  <2>3. x \in hits /\ at[x] = w /\ x \in 0..N /\ i \in 0..N /\ i <= x /\ x # i
    BY <1>1, <1>5, <2>2
  <2>4. x - i - 1 \in Nat /\ i + 1 + (x - i - 1) = x /\ x - i - 1 \in 0..N /\ x - i - 1 < x
    BY <1>1, <2>3
  <2>5. at[x - i - 1] = w
    BY <1>1, <2>3, <2>4
  <2>6. x - i - 1 \in S
    BY <1>1, <2>4, <2>5
  <2> QED
    BY <2>2, <2>3, <2>4, <2>6
<1> QED
  BY <1>7, <1>8

\* check_death finds the only waiter on a wait queue of sleepers.
LEMMA WaiterFound ==
  ASSUME TypeOK, SleepHolds, NEW t \in Tcb, NEW w \in Tcb, WaitersOf(t) = {w},
         InQueue(w, "wait_queue"), OfSleepers("wait_queue")
  PROVE  check_death(t) = w
<1> DEFINE Goal == {x \in Tcb : t_wait4sender[x] = t} \union Heads
<1>1. /\ sched \in SchedType /\ "wait_queue" \in Node /\ "wait_queue" \notin Tcb
      /\ w \in Members(sched, "wait_queue") /\ Tcb \intersect Heads = {}
  BY NodeFacts, StoreAssumption DEF TypeOK, InQueue, Heads
<1>2. InReceive(w) /\ call[w].peer = t
  BY DEF WaitersOf
<1>3. t_wait4sender[w] = t
  BY <1>2 DEF SleepHolds, SleepsWell, InReceive
<1>4. check_death(t) \in (Goal \intersect Members(sched, "wait_queue")) \ {"wait_queue"}
  <2>1. w \in Goal /\ w # "wait_queue"
    BY <1>1, <1>3
  <2>2. check_death(t) = list_find(sched, "wait_queue", Goal, NULL)
    BY DEF check_death
  <2> HIDE DEF Goal
  <2> QED
    BY <1>1, <2>1, <2>2, FindFirst
<1>5. ASSUME NEW x \in (Goal \intersect Members(sched, "wait_queue")) \ {"wait_queue"}
      PROVE  x = w
  <2>1. x \in Tcb /\ Sleeping(x) /\ t_wait4sender[x] = t
    BY <1>1, <1>5 DEF OfSleepers
  <2>2. InReceive(x) /\ call[x].peer = t
    BY <2>1 DEF SleepHolds, SleepsWell, InReceive
  <2> QED
    BY <2>1, <2>2 DEF WaitersOf
<1> QED
  BY <1>4, <1>5

\* The killing of t: whoever else waits for it, alone, is awake and told.
Told(t, w) == ~Sleeping(w)' /\ err_numb'[w] = "ERR_RECV_FROM_DEAD"

LEMMA ExterminateTells ==
  ASSUME TypeOK, SleepHolds, NEW v \in Tcb, NEW loop \in BOOLEAN, NEW c,
         exterminate(v, loop, c),
         NEW t \in Tcb, NEW w \in Tcb, w # t, ~Dead(t), Dead(t)', WaitersOf(t) = {w},
         InQueue(w, "wait_queue"), OfSleepers("wait_queue")
  PROVE  Told(t, w)
<1> DEFINE x     == check_death(v)
           woken == IF x \in Tcb THEN wake_me_up(sched, x) ELSE sched
           count == IF loop /\ thread_in_queue(woken, "ready_queue", v)
                    THEN Down(woken.soft) ELSE woken.soft
           out   == [thread_outqueue(woken, v) EXCEPT !.soft = count]
           err   == IF x \in Tcb THEN [err_numb EXCEPT ![x] = "ERR_RECV_FROM_DEAD"]
                    ELSE err_numb
<1>1. /\ sched' = IF can_free(v) THEN [out EXCEPT !.status[v] = "NONE"] ELSE out
      /\ err_numb' = IF can_free(v) THEN [err EXCEPT ![v] = "NO_ERR"] ELSE err
  BY DEF exterminate
<1>2. /\ sched \in SchedType /\ err_numb \in [Tcb -> Errors] /\ NULL \notin Tcb
      /\ sched.status \in [Tcb -> Status]
  BY NodeFacts DEF TypeOK, SchedType
<1>3. woken \in SchedType /\ woken.status \in [Tcb -> Status]
      /\ \A y \in Tcb : woken.status[y] \in {sched.status[y], "READY"}
  <2>1. CASE x \in Tcb
    <3>1. /\ wake_me_up(sched, x) \in SchedType
          /\ wake_me_up(sched, x).status = [sched.status EXCEPT ![x] = "READY"]
      BY <1>2, <2>1, QueueType, StatusFacts DEF Heads
    <3> QED
      BY <1>2, <2>1, <3>1 DEF SchedType
  <2>2. CASE x \notin Tcb
    BY <1>2, <2>2
  <2> QED
    BY <2>1, <2>2
<1>4. /\ out.status = woken.status
      /\ [out EXCEPT !.status[v] = "NONE"].status = [woken.status EXCEPT ![v] = "NONE"]
  <2> HIDE DEF woken, count
  <2>1. thread_outqueue(woken, v) \in SchedType /\ thread_outqueue(woken, v).status = woken.status
    BY <1>3, QueueType, StatusFacts DEF Heads
  <2> QED
    BY <2>1 DEF SchedType
<1> HIDE DEF woken, out
<1>5. sched'.status = IF can_free(v) THEN [woken.status EXCEPT ![v] = "NONE"] ELSE woken.status
  BY <1>1, <1>4
<1>6. can_free(v) /\ t = v
  <2>1. sched.status[t] # "NONE" /\ sched'.status[t] = "NONE"
    BY <1>2 DEF Dead
  <2>2. woken.status[t] # "NONE"
    BY <1>3, <2>1
  <2> QED
    BY <1>3, <1>5, <2>1, <2>2
<1>7. x = w
  BY <1>6, WaiterFound
<1>8. woken.status[w] = "READY"
  <2>1. wake_me_up(sched, w).status = [sched.status EXCEPT ![w] = "READY"]
    BY <1>2, StatusFacts DEF Heads
  <2> QED
    BY <1>2, <1>7, <2>1 DEF woken
<1>9. sched'.status[w] = "READY"
  BY <1>3, <1>5, <1>6, <1>8
<1>10. err_numb'[w] = "ERR_RECV_FROM_DEAD"
  BY <1>1, <1>2, <1>6, <1>7
<1> QED
  BY <1>9, <1>10 DEF Told, Sleeping

\* A kill, and the steps that leave the living alive.
Kill == \E v \in Tcb, loop \in BOOLEAN : \E c : exterminate(v, loop, c)
Mild(s) == \A t \in Tcb : s.status[t] \in {sched.status[t], "READY", "W4MSG"}

LEMMA MildOps ==
  ASSUME NEW s \in SchedType, Mild(s), NEW t \in Tcb, NEW q \in Heads
  PROVE  /\ Mild(thread_outqueue(s, t)) /\ Mild(thread_enqueue(s, t, q))
         /\ Mild(thread_dequeue(s, q)) /\ Mild(resumed(s, t))
         /\ Mild(put_thread_sleep(s, t)) /\ Mild(wake_me_up(s, t))
         /\ \A from : Mild(sent(s, from, t))
<1>1. s.status \in [Tcb -> Status]
  BY DEF SchedType
<1>2. /\ Mild(thread_outqueue(s, t)) /\ Mild(thread_enqueue(s, t, q))
      /\ Mild(thread_dequeue(s, q)) /\ Mild(resumed(s, t))
  <2>1. /\ thread_outqueue(s, t).status = s.status /\ thread_enqueue(s, t, q).status = s.status
        /\ thread_dequeue(s, q).status = s.status /\ resumed(s, t).status = s.status
    <3>1. thread_outqueue(s, t).status = s.status
      BY StatusFacts
    <3>2. thread_enqueue(s, t, q).status = s.status
      BY EnqueueStatus
    <3>3. thread_dequeue(s, q).status = s.status
      BY StatusFacts
    <3>4. resumed(s, t).status = s.status
      BY StatusFacts
    <3> QED
      BY <3>1, <3>2, <3>3, <3>4
  <2> QED
    BY <2>1 DEF Mild
<1>3. Mild(put_thread_sleep(s, t)) /\ Mild(wake_me_up(s, t))
  <2>1. /\ put_thread_sleep(s, t).status = [s.status EXCEPT ![t] = "W4MSG"]
        /\ wake_me_up(s, t).status = [s.status EXCEPT ![t] = "READY"]
    BY StatusFacts
  <2> QED
    BY <1>1, <2>1 DEF Mild
<1> QED
  BY <1>2, <1>3 DEF sent

\* A crash or a step that leaves the queues alone; ssi_terminate_thread.
LEMMA TerminateKills ==
  ASSUME NEW t \in Tcb, NEW who, NEW after, terminate_thread(t, who, after)
  PROVE  Kill \/ sched' = sched
BY DEF terminate_thread, ssi_terminate_thread, terminate_astray, Crash, Kill

\* The SSI kills, or moves and starts threads.
LEMMA SsiMild ==
  ASSUME TypeOK, SsiNext
  PROVE  Kill \/ Mild(sched')
<1>0. sched \in SchedType /\ Mild(sched) /\ SSI \in Tcb
  BY NodeFacts DEF TypeOK, Mild
<1>1. CASE GetErrno \/ Query \/ DoIoBusy
  BY <1>0, <1>1 DEF GetErrno, Query, DoIoBusy
<1>2. CASE CreateProcess \/ CreateThread
  <2>1. CASE sched' = sched
    BY <1>0, <2>1
  <2>2. CASE \E p : free_thread # <<>> /\ start_thread(p, Head(free_thread))
    <3> DEFINE t == Head(free_thread)
               u == [INIT_LIST_HEAD(sched, t) EXCEPT !.status[t] = "READY"]
    <3>1. t \in Tcb /\ t \in Node /\ sched' = thread_enqueue(u, t, "ready_queue")
      BY <2>2, SeqFacts, NodeFacts DEF TypeOK, start_thread
    <3>2. u \in SchedType /\ Mild(u)
      <4>1. INIT_LIST_HEAD(sched, t) \in SchedType
            /\ INIT_LIST_HEAD(sched, t).status = sched.status
        BY <1>0, <3>1, LinkType DEF INIT_LIST_HEAD, SchedType
      <4> HIDE DEF t
      <4>2. u.status = [sched.status EXCEPT ![t] = "READY"] /\ u \in SchedType
        BY <1>0, <3>1, <4>1 DEF SchedType, Status
      <4> QED
        BY <1>0, <3>1, <4>2 DEF Mild, SchedType
    <3> HIDE DEF t, u
    <3> QED
      BY <3>1, <3>2, MildOps DEF Heads
  <2> QED
    BY <1>2, <2>1, <2>2 DEF CreateProcess, CreateThread
<1>3. CASE TerminateProcess
  BY <1>0, <1>3 DEF TerminateProcess, Crash
<1>4. CASE TerminateThread \/ BadRequest \/ SetManager
  <2>1. Sender \in Tcb
    BY <1>4, ServingFacts DEF TerminateThread, BadRequest, SetManager
  <2>2. (\E after : terminate_thread(Sender, "ssi", after)) \/ sched' = sched
    BY <1>4, Zenon DEF TerminateThread, BadRequest, SetManager, Crash
  <2> QED
    BY <1>0, <2>1, <2>2, TerminateKills
<1>5. CASE WaitForClock \/ DoIo
  <2>1. Sender \in Tcb
    BY <1>5, ServingFacts DEF WaitForClock, DoIo
  <2>2. parked(sched) \in SchedType /\ Mild(parked(sched))
    <3>1. thread_outqueue(sched, Sender) \in SchedType /\ Mild(thread_outqueue(sched, Sender))
      BY <1>0, <2>1, QueueType, MildOps DEF Heads
    <3>2. parked(sched).status = thread_outqueue(sched, Sender).status
      BY DEF parked
    <3> QED
      BY <2>1, <3>1, <3>2, ParkedType DEF Mild
  <2> QED
    BY <1>5, <2>1, <2>2, MildOps DEF WaitForClock, DoIo, Heads, clock
<1>6. ASSUME NEW who \in Killers,
             ReapThread(who) \/ ReapChild(who) \/ ReapProc(who) \/ ReapDone(who)
      PROVE  Kill \/ Mild(sched')
  <2>1. CASE ReapThread(who)
    <3>1. reap[who].procs \in Seq(Pcb) /\ reap[who].procs # <<>> /\ p_threads[Victim(who)] # <<>>
      BY <2>1 DEF ReapThread, ReapType, TypeOK, Killers
    <3>2. Head(p_threads[Victim(who)]) \in Tcb
      BY <3>1, SeqFacts DEF Victim, TypeOK
    <3>3. exterminate(Head(p_threads[Victim(who)]), TRUE, call) \/ sched' = sched
      BY <2>1 DEF ReapThread, Crash
    <3> QED
      BY <1>0, <3>2, <3>3 DEF Kill
  <2>2. CASE ReapChild(who) \/ ReapProc(who) \/ ReapDone(who)
    BY <1>0, <2>2 DEF ReapChild, ReapProc, ReapDone
  <2> QED
    BY <1>6, <2>1, <2>2
<1> QED
  BY <1>1, <1>2, <1>3, <1>4, <1>5, <1>6, Zenon DEF SsiNext, Killers

\* A trap may kill the running thread; system calls put to sleep and wake.
LEMMA ExceptionsMild ==
  ASSUME TypeOK, ExceptionsNext
  PROVE  Kill \/ Mild(sched')
<1>0. sched \in SchedType /\ Mild(sched) /\ SSI \in Tcb /\ Heads # {} /\ "ready_queue" \in Heads
  BY NodeFacts DEF TypeOK, Mild, Heads
<1>1. PICK op : Running(op)
  BY DEF ExceptionsNext, Request, SysSend, SysSendPending, SysRecv, SysRecvPending,
         SysPassup, TlbTrap, PgmTrap, SysZero, Breakpoint
<1>2. current_thread \in Tcb
  BY <1>1, RunningFacts
<1>3. ASSUME NEW to \in Tcb, NEW m, NEW next, sys_send(to, m, next) PROVE Mild(sched')
  <2>1. sched' \in {sched, wake_me_up(sched, to), sent(sched, current_thread, to)}
    BY <1>3 DEF sys_send, check_thread_alive
  <2> QED
    BY <1>0, <2>1, MildOps
<1>4. ASSUME NEW s, sys_recv(s) PROVE Mild(sched')
  <2>1. sched' \in {sched, put_thread_sleep(sched, current_thread)}
    BY <1>4 DEF sys_recv, check_thread_alive
  <2> QED
    BY <1>0, <1>2, <2>1, MildOps
<1>5. ASSUME NEW kind \in Kinds, pass_up(kind) PROVE Kill \/ Mild(sched')
  <2>1. CASE terminate_thread(current_thread, "nucleus", User)
    BY <1>0, <1>2, <2>1, TerminateKills
  <2>2. CASE /\ manager_of(current_thread, kind) # NULL
             /\ sched' = put_thread_sleep(sent(sched, current_thread,
                                               manager_of(current_thread, kind)), current_thread)
    <3>1. manager_of(current_thread, kind) \in Tcb
      BY <1>2, <2>2 DEF manager_of, TypeOK
    <3>2. /\ sent(sched, current_thread, manager_of(current_thread, kind)) \in SchedType
          /\ Mild(sent(sched, current_thread, manager_of(current_thread, kind)))
      BY <1>0, <3>1, SentType, MildOps
    <3> QED
      BY <1>0, <1>2, <2>2, <3>2, MildOps
  <2> QED
    BY <1>5, <2>1, <2>2 DEF pass_up
<1>6. CASE Request \/ SysSend \/ SysSendPending
  <2>1. call[current_thread].op = "send" => call[current_thread].peer \in Tcb
    BY <1>2, CallFacts DEF TypeOK
  <2>2. \E to \in Tcb : \E m, next : sys_send(to, m, next)
    BY <1>0, <1>6, <2>1, Zenon DEF Request, SysSend, SysSendPending, Known, Running
  <2> QED
    BY <1>3, <2>2
<1>7. CASE SysRecv \/ SysRecvPending
  BY <1>4, <1>7 DEF SysRecv, SysRecvPending
<1>8. CASE SysPassup \/ TlbTrap \/ PgmTrap
  BY <1>5, <1>8 DEF SysPassup, TlbTrap, PgmTrap, Kinds
<1>9. CASE SysZero \/ Breakpoint
  BY <1>0, <1>9 DEF SysZero, Breakpoint
<1> QED
  BY <1>6, <1>7, <1>8, <1>9 DEF ExceptionsNext

\* The interrupts and the scheduler kill nobody.
LEMMA NucleusMild ==
  ASSUME TypeOK, InterruptsNext \/ SchedulerNext
  PROVE  Mild(sched')
<1>0. /\ sched \in SchedType /\ Mild(sched) /\ SSI \in Tcb
      /\ "ready_queue" \in Heads /\ clock \in Heads
  BY NodeFacts DEF TypeOK, Mild, Heads, clock
<1>1. ASSUME NEW s \in SchedType, Mild(s), NEW t \in Tcb, sched' = sent(resumed(s, t), SSI, t)
      PROVE  Mild(sched')
  BY <1>0, <1>1, QueueType, MildOps
<1>2. CASE SliceOver
  BY <1>0, <1>2, MildOps DEF SliceOver, TypeOK
<1>3. CASE \E d \in Devices : DeviceInterrupt(d)
  <2>1. PICK d \in Devices : device_list[d] # NULL
                             /\ sched' = sent(resumed(sched, device_list[d]), SSI, device_list[d])
    BY <1>3 DEF DeviceInterrupt
  <2>2. device_list[d] \in Tcb
    BY <2>1 DEF TypeOK
  <2> QED
    BY <1>0, <1>1, <2>1, <2>2
<1>4. CASE ClockExpire
  <2>1. CASE Crash
    BY <1>0, <2>1 DEF Crash
  <2>2. CASE /\ thread_qhead(sched, clock) \in Tcb
             /\ sched' = sent(resumed(thread_dequeue(sched, clock), thread_qhead(sched, clock)),
                              SSI, thread_qhead(sched, clock))
    <3>0. \E t \in Tcb : TRUE
      BY <1>0
    <3>1. thread_dequeue(sched, clock) \in SchedType /\ Mild(thread_dequeue(sched, clock))
      BY <1>0, QueueType, MildOps
    <3> QED
      BY <1>1, <2>2, <3>1
  <2> QED
    BY <1>4, <2>1, <2>2, Zenon DEF ClockExpire
<1>5. CASE Dispatch
  <2>1. sched' \in {sched, thread_dequeue(sched, "ready_queue")}
    BY <1>5 DEF Dispatch, Crash
  <2> QED
    BY <1>0, <2>1, MildOps
<1>6. CASE Tick \/ Halt \/ Panic \/ Wait \/ FallThrough \/ Resume
  BY <1>0, <1>6 DEF Tick, Halt, Panic, Wait, FallThrough, Resume, Stop
<1> QED
  BY <1>2, <1>3, <1>4, <1>5, <1>6 DEF InterruptsNext, SchedulerNext

\* check_death keeps its promise, for any number of threads, processes and
\* devices, whatever is killed, trapped or interrupted: as long as the wait
\* queue holds sleepers, the only thread that waits for a victim is found
\* on it, woken and told.
THEOREM WaiterTold ==
  ASSUME Services \intersect Managing = {}
  PROVE  Spec => SoleWaiterWoken
<1> DEFINE Tells == \A t, w \in Tcb :
              /\ w # t /\ ~Dead(t) /\ Dead(t)' /\ WaitersOf(t) = {w}
              /\ InQueue(w, "wait_queue") /\ OfSleepers("wait_queue")
              => ~Sleeping(w)' /\ err_numb'[w] = "ERR_RECV_FROM_DEAD"
<1>1. ASSUME WakeInv, [Next]_vars PROVE Tells
  <2> SUFFICES ASSUME NEW t \in Tcb, NEW w \in Tcb, w # t, ~Dead(t), Dead(t)', WaitersOf(t) = {w},
                      InQueue(w, "wait_queue"), OfSleepers("wait_queue")
               PROVE  Told(t, w)
    BY DEF Told
  <2>0. TypeOK /\ SleepHolds /\ NULL \notin Tcb
    BY <1>1, NodeFacts DEF WakeInv
  <2>1. CASE Kill
    BY <2>0, <2>1, ExterminateTells DEF Kill
  <2>2. CASE Mild(sched')
    BY <2>0, <2>2 DEF Mild, Dead
  <2>3. CASE UNCHANGED vars
    BY <2>0, <2>3 DEF vars, Dead
  <2> QED
    BY <1>1, <2>0, <2>1, <2>2, <2>3, SsiMild, ExceptionsMild, NucleusMild DEF Next
<1>2. Spec => []WakeInv
  BY WakeInductive
<1>3. WakeInv /\ [Next]_vars => [Tells]_vars
  BY <1>1
<1> QED
  BY <1>2, <1>3, PTL DEF Spec, SoleWaiterWoken
==============================================================================
