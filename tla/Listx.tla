-------------------------------- MODULE Listx --------------------------------
(***************************************************************************)
(* include/listx.h: the circular doubly linked lists every queue of the    *)
(* nucleus is made of.  A heap of links is a record L whose fields next    *)
(* and prev map a node to a node; the nodes are the list heads and the     *)
(* entries.  Every operator only moves pointers, as the C does, so what a  *)
(* call does to a node whose own links are stale is what the code does.    *)
(* L may have further fields; they are left alone.                         *)
(***************************************************************************)
EXTENDS Naturals, FiniteSets

\* An entry or a head that is alone: it points to itself.
INIT_LIST_HEAD(L, n) ==
  [L EXCEPT !.next[n] = n, !.prev[n] = n]

\* __list_add: the four assignments, in the order of the code.
list_add_between(L, new, before, after) ==
  [L EXCEPT !.prev[after] = new,
            !.next[new] = after,
            !.prev[new] = before,
            !.next[before] = new]

list_add_tail(L, new, head) == list_add_between(L, new, L.prev[head], head)

\* list_del joins the neighbours of the entry and leaves the entry's own
\* links as they were.
list_del(L, entry) ==
  [L EXCEPT !.prev[L.next[entry]] = L.prev[entry],
            !.next[L.prev[entry]] = L.next[entry]]

list_empty(L, head) == L.next[head] = head

\* The cursor of list_for_each over the list of head, at its i-th position.
\* More positions than there are nodes means that the cursor goes round a
\* ring the head is not on.
list_cursor(L, head) ==
  LET at[i \in 0..Cardinality(DOMAIN L.next)] ==
        IF i = 0 THEN L.next[head] ELSE L.next[at[i - 1]]
  IN  at

\* The first node of the set Goal that a loop over the list of head meets;
\* Nowhere when it meets none, however long it runs.
list_find(L, head, Goal, Nowhere) ==
  LET at    == list_cursor(L, head)
      hits  == {i \in DOMAIN at : at[i] \in Goal}
      first == {i \in hits : \A j \in hits : i <= j}
  IN  IF first = {} THEN Nowhere ELSE at[CHOOSE i \in first : TRUE]

\* The links around a set S of nodes are sound: next and prev stay in S and
\* are each other's inverse there.
Linked(L, S) ==
  \A n \in S : /\ L.next[n] \in S
               /\ L.prev[n] \in S
               /\ L.prev[L.next[n]] = n
               /\ L.next[L.prev[n]] = n

\* The nodes a walk from head meets, head included.
Members(L, head) ==
  LET at == list_cursor(L, head) IN {at[i] : i \in DOMAIN at}
==============================================================================
