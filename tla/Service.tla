------------------------------- MODULE Service -------------------------------
(***************************************************************************)
(* What the SSI promises to threads that do not die: requests are taken in *)
(* the order they were made, one at a time; each is answered once, at once *)
(* or, for the clock and the devices, when what was waited for is over;    *)
(* and the answer is one to that request.  A thread asks again only when   *)
(* it has read the answer.                                                 *)
(***************************************************************************)
EXTENDS Sequences

CONSTANTS Askers, Tags

VARIABLES
  requests,    \* sequence of [from, tag], the one in service first
  pending,      \* set of [from, tag]
  answers      \* set of [to, what], given and not read

svars == <<requests, pending, answers>>

AtOnce(tag) == CASE tag = "WAIT_FOR_CLOCK" -> {}
                 [] tag = "DO_IO" -> {"busy"}
                 [] OTHER -> {"reply"}
Afterwards(tag) == CASE tag = "WAIT_FOR_CLOCK" -> {"tick"}
                     [] tag = "DO_IO" -> {"status"}
                     [] OTHER -> {}

Silent == requests = <<>> /\ pending = {} /\ answers = {}

Waiting == {requests[i].from : i \in DOMAIN requests}
           \union {p.from : p \in pending} \union {a.to : a \in answers}

Ask(c, tag) ==
  /\ c \notin Waiting
  /\ requests' = Append(requests, [from |-> c, tag |-> tag])
  /\ UNCHANGED <<pending, answers>>

Serve ==
  /\ requests # <<>>
  /\ requests' = Tail(requests)
  /\ LET r == Head(requests)
     IN  \/ /\ \E a \in AtOnce(r.tag) : answers' = answers \union {[to |-> r.from, what |-> a]}
            /\ UNCHANGED pending
         \/ /\ Afterwards(r.tag) # {}
            /\ pending' = pending \union {r}
            /\ UNCHANGED answers

\* What p waited for is over; p reads the answer at once when it is asleep.
Over(p) ==
  /\ pending' = pending \ {p}
  /\ \/ \E a \in Afterwards(p.tag) : answers' = answers \union {[to |-> p.from, what |-> a]}
     \/ UNCHANGED answers
  /\ UNCHANGED requests

Read(a) ==
  /\ answers' = answers \ {a}
  /\ UNCHANGED <<requests, pending>>

ServiceNext ==
  \/ \E c \in Askers, tag \in Tags : Ask(c, tag)
  \/ Serve
  \/ \E p \in pending : Over(p)
  \/ \E a \in answers : Read(a)

ServiceSpec == Silent /\ [][ServiceNext]_svars
==============================================================================
