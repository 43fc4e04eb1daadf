------------------------------ MODULE Mailboxes ------------------------------
(***************************************************************************)
(* What SYS_SEND and SYS_RECV promise to threads that do not die: every    *)
(* thread has a mailbox; a message is handed to a receiver that waits for  *)
(* it, or put at the end of the box; a receiver takes the first message of *)
(* the sender it names, or of anybody, or waits.  Scheduling, interrupts   *)
(* and the pool of messages do not appear, but a message may be refused.   *)
(***************************************************************************)
EXTENDS Naturals, Sequences

CONSTANTS
  Threads,
  Mail,       \* what a message may say
  Anybody,    \* the sender a receive names that takes any
  Nobody      \* whom a thread waits for that does not wait

VARIABLES
  box,        \* Threads -> sequences of [from, msg]
  waits       \* Threads -> whom the thread waits for

mvars == <<box, waits>>

Clear ==
  /\ box = [t \in Threads |-> <<>>]
  /\ waits = [t \in Threads |-> Nobody]

\* The places in the box of r of what a receive from s takes.
From(r, s) == {i \in DOMAIN box[r] : s \in {Anybody, box[r][i].from}}
First(r, s) == CHOOSE i \in From(r, s) : \A j \in From(r, s) : i <= j

AwaitedBy(r, s) == waits[r] \in {s, Anybody}

HandOver(s, r) ==
  /\ AwaitedBy(r, s)
  /\ waits' = [waits EXCEPT ![r] = Nobody]
  /\ UNCHANGED box

Queue(s, r, m) ==
  /\ ~AwaitedBy(r, s)
  /\ box' = [box EXCEPT ![r] = Append(@, [from |-> s, msg |-> m])]
  /\ UNCHANGED waits

Take(r, s) ==
  /\ waits[r] = Nobody /\ From(r, s) # {}
  /\ box' = [box EXCEPT ![r] = SubSeq(@, 1, First(r, s) - 1)
                               \o SubSeq(@, First(r, s) + 1, Len(@))]
  /\ UNCHANGED waits

Await(r, s) ==
  /\ waits[r] = Nobody /\ From(r, s) = {}
  /\ waits' = [waits EXCEPT ![r] = s]
  /\ UNCHANGED box

Exchange ==
  \E t, u \in Threads :
    \/ HandOver(t, u) \/ (\E m \in Mail : Queue(t, u, m))
    \/ \E s \in {u, Anybody} : Take(t, s) \/ Await(t, s)

MailSpec == Clear /\ [][Exchange]_mvars
==============================================================================
