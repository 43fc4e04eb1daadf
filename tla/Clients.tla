------------------------------- MODULE Clients -------------------------------
(***************************************************************************)
(* The test programs: threads that talk through the mailboxes only.  The   *)
(* thread p8 of p2test.c starts a family that grows while it listens, and  *)
(* the testers of p2p.c (test2, test4 and test5, that send to the part they *)
(* have started) start the parts of the test side by side.  A critical     *)
(* section server hands out the right to take a page of stack, the SSI     *)
(* makes threads from a processor state in the memory of its client.  A    *)
(* thread may be preempted anywhere.  Printing is left out.                *)
(***************************************************************************)
EXTENDS Mailboxes, FiniteSets, SequencesExt

CONSTANTS
  ssi, cs,
  starters,          \* the threads that have begun: p8, or testers
  Blocks,            \* the TCBs that the SSI hands out, in order
  CHILDREN,          \* created by p8
  NGRANDCHILDREN     \* created by each of its children

ASSUME ClientsAssumption ==
  /\ CHILDREN \in Nat /\ NGRANDCHILDREN \in Nat
  /\ Blocks \in Seq(Threads)
  /\ {ssi, cs} \union DOMAIN starters \subseteq Threads

\* A thread runs the code of a function; the one that a tester starts is
\* named after the tester (p2 for test2, and so on).
Roles == {"ssi_entry", "cs_thread", "tester", "p8", "p8child", "p8grandchild"}
Code  == Roles \union Threads
Leaf  == {"p8grandchild"} \union Threads

\* The state_t a thread fills for a new one: tmpstate, that the testers of
\* p2p.c share, or a variable of its own.
Buffers == Threads \union {"tmpstate"}

VARIABLES
  pc,           \* Threads -> the statement it is at
  got,          \* Threads -> the last message it received
  code, sp,     \* what the thread runs, and its page of stack; 0: not of these
  boss,         \* Threads -> the argument the thread was sent
  made,         \* Threads -> the threads it has created, in order
  heard,        \* Threads -> the threads it has collected a message from
  page,         \* Threads -> a register
  stackalloc,
  state,        \* Buffers -> [sp, pc]
  free          \* TCBs left

own   == <<code, sp, boss, made, heard, page, stackalloc, state, free>>
cvars == <<mvars, pc, got, own>>

NoMail == [from |-> ssi, msg |-> "none"]

CInit ==
  /\ Clear
  /\ code = [t \in Threads |-> IF t = ssi THEN "ssi_entry" ELSE IF t = cs THEN "cs_thread"
                               ELSE IF t \in DOMAIN starters THEN starters[t] ELSE "p8child"]
  /\ pc = [t \in Threads |->
       IF t \in {ssi, cs} THEN "serve"
       ELSE IF t \in DOMAIN starters
            THEN IF code[t] = "tester" THEN "csin" ELSE "fill"
            ELSE "free"]
  /\ got = [t \in Threads |-> NoMail]
  /\ sp = [t \in Threads |-> 0]
  /\ boss = [t \in Threads |-> t]
  /\ made = [t \in Threads |-> <<>>] /\ heard = made /\ page = [t \in Threads |-> 0]
  /\ stackalloc = Len(Blocks) + 1
  /\ state = [b \in Buffers |-> [sp |-> 0, pc |-> "p8child"]]
  /\ free = Blocks

(*----------------------------- system calls ----------------------------*)

\* Where a thread goes on after a receive.
After == [serve |-> "work", release |-> "serve", csret |-> "load", start |-> "begin",
          created |-> "tell", collect |-> "count", forever |-> "done"]

msgsend(t, to, m, next) ==
  /\ \/ /\ HandOver(t, to)
        /\ got' = [got EXCEPT ![to] = [from |-> t, msg |-> m]]
        /\ pc' = [pc EXCEPT ![t] = next, ![to] = After[@]]
     \/ /\ Queue(t, to, m)
        /\ pc' = [pc EXCEPT ![t] = next]
        /\ UNCHANGED got

msgrecv(t, s) ==
  /\ \/ /\ Take(t, s)
        /\ got' = [got EXCEPT ![t] = box[t][First(t, s)]]
        /\ pc' = [pc EXCEPT ![t] = After[@]]
     \/ Await(t, s) /\ UNCHANGED <<got, pc>>

At(t, label) == pc[t] = label
GoTo(t, label) == pc' = [pc EXCEPT ![t] = label] /\ UNCHANGED <<mvars, got>>

(*----------------------- the servers: cs_thread, SSI -------------------*)

\* Both take the next message of anybody.
Serve(t) == t \in {ssi, cs} /\ At(t, "serve") /\ msgrecv(t, Anybody) /\ UNCHANGED own

\* Mutant: the server does not wait for the end of the critical section.
Grant_open == At(cs, "work") /\ msgsend(cs, got[cs].from, "none", "serve") /\ UNCHANGED own

Grant == At(cs, "work") /\ msgsend(cs, got[cs].from, "none", "release") /\ UNCHANGED own
Release == At(cs, "release") /\ msgrecv(cs, got[cs].from) /\ UNCHANGED own

\* ssi_create_process, ssi_create_thread: a thread from the state that the
\* client points to, as that is now (Blocks bounds their number) ...
Create ==
  /\ At(ssi, "work") /\ free # <<>>
  /\ LET t == Head(free)
         s == state[got[ssi].msg]
     IN  /\ code' = [code EXCEPT ![t] = s.pc]
         /\ sp' = [sp EXCEPT ![t] = s.sp]
         /\ made' = [made EXCEPT ![ssi] = Append(@, t)]
         /\ pc' = [pc EXCEPT ![t] = "start", ![ssi] = "reply"]
  /\ free' = Tail(free)
  /\ UNCHANGED <<mvars, got, boss, heard, page, stackalloc, state>>

\* ... and the reply.
Reply ==
  /\ At(ssi, "reply")
  /\ msgsend(ssi, got[ssi].from, Last(made[ssi]), "serve")
  /\ UNCHANGED own

ServerNext == (\E t \in {ssi, cs} : Serve(t)) \/ Grant \/ Release \/ Create \/ Reply

(*---------------------- a thread creates another one -------------------*)

\* What a thread does that uses tmpstate, and one that has its own state.
Shared(t, a, b) == IF code[t] = "tester" THEN a ELSE b
Buffer(t) == Shared(t, "tmpstate", t)

CSIN(t) ==
  \/ At(t, "csin") /\ msgsend(t, cs, "none", "csret") /\ UNCHANGED own
  \/ At(t, "csret") /\ msgrecv(t, cs) /\ UNCHANGED own

\* Mutant: two pages are taken.
LoadPage_two(t) ==
  /\ At(t, "load") /\ GoTo(t, "store")
  /\ page' = [page EXCEPT ![t] = stackalloc - 2]
  /\ UNCHANGED <<code, sp, boss, made, heard, stackalloc, state, free>>

\* sp = (stackalloc -= QPAGE): the global is read, and written back.
LoadPage(t) ==
  /\ At(t, "load") /\ GoTo(t, "store")
  /\ page' = [page EXCEPT ![t] = stackalloc - 1]
  /\ UNCHANGED <<code, sp, boss, made, heard, stackalloc, state, free>>

StorePage(t) ==
  /\ At(t, "store") /\ GoTo(t, "csout")
  /\ stackalloc' = page[t]
  /\ state' = [state EXCEPT ![Buffer(t)].sp = page[t]]
  /\ UNCHANGED <<code, sp, boss, made, heard, page, free>>

\* Mutant: the critical section is not left.
CSOUT_missing(t) == At(t, "csout") /\ GoTo(t, Shared(t, "fill", "ask")) /\ UNCHANGED own

CSOUT(t) ==
  At(t, "csout") /\ msgsend(t, cs, "none", Shared(t, "fill", "ask")) /\ UNCHANGED own

\* What the new thread is to run: p8 (once) and its children set it before the
\* critical section, in a state of their own, the testers after it.
Wanted(t) == CASE code[t] = "tester" -> t
               [] code[t] = "p8" -> "p8child"
               [] OTHER -> "p8grandchild"
Fill(t) ==
  /\ At(t, "fill") /\ GoTo(t, Shared(t, "ask", "csin"))
  /\ state' = [state EXCEPT ![Buffer(t)].pc = Wanted(t)]
  /\ UNCHANGED <<code, sp, boss, made, heard, page, stackalloc, free>>

create_process(t) ==
  \/ At(t, "ask") /\ msgsend(t, ssi, Buffer(t), "created") /\ UNCHANGED own
  \/ At(t, "created") /\ msgrecv(t, ssi) /\ UNCHANGED own

\* The first message to the new thread: p8child hands on whom to answer.
Quota(t) == CASE code[t] = "p8" -> CHILDREN
              [] code[t] = "p8child" -> NGRANDCHILDREN
              [] OTHER -> 1
Later(t) == IF code[t] = "p8" THEN "collect" ELSE "forever"
Tell(t) ==
  /\ At(t, "tell")
  /\ msgsend(t, got[t].msg, IF code[t] = "p8child" THEN boss[t] ELSE t,
             IF Len(made[t]) + 1 = Quota(t) THEN Later(t)
             ELSE IF code[t] = "p8child" THEN "fill" ELSE "csin")
  /\ made' = [made EXCEPT ![t] = Append(@, got[t].msg)]
  /\ UNCHANGED <<code, sp, boss, heard, page, stackalloc, state, free>>

CreatorNext(t) ==
  CSIN(t) \/ LoadPage(t) \/ StorePage(t) \/ CSOUT(t) \/ Fill(t) \/ create_process(t) \/ Tell(t)

(*------------------------- the rest of the threads ---------------------*)

\* Of p8child, p8grandchild and the parts of the test.
Begin(t) ==
  \/ At(t, "start") /\ msgrecv(t, Anybody) /\ UNCHANGED own
  \/ /\ At(t, "begin") /\ GoTo(t, IF code[t] \in Leaf THEN "answer" ELSE "fill")
     /\ boss' = [boss EXCEPT ![t] = got[t].msg]
     /\ UNCHANGED <<code, sp, made, heard, page, stackalloc, state, free>>

Answer(t) == At(t, "answer") /\ msgsend(t, boss[t], "none", "forever") /\ UNCHANGED own

\* A receive that nothing answers in the family; that of a tester waits for
\* the part it has started.
Forever(t) == At(t, "forever") /\ msgrecv(t, Anybody) /\ UNCHANGED own

\* Mutant: one receive is missing.
Awaited_less == CHILDREN * NGRANDCHILDREN - 1

\* p8 takes one message for each grandchild.
Awaited == CHILDREN * NGRANDCHILDREN
Collect(t) ==
  \/ At(t, "collect") /\ msgrecv(t, Anybody) /\ UNCHANGED own
  \/ /\ At(t, "count")
     /\ heard' = [heard EXCEPT ![t] = Append(@, got[t].from)]
     /\ GoTo(t, IF Len(heard[t]) + 1 < Awaited THEN "collect" ELSE "done")
     /\ UNCHANGED <<code, sp, boss, made, page, stackalloc, state, free>>

ThreadNext(t) ==
  CreatorNext(t) \/ Begin(t) \/ Answer(t) \/ Forever(t) \/ Collect(t)

CNext == ServerNext \/ \E t \in Threads \ {ssi, cs} : ThreadNext(t)
CSpec == CInit /\ [][CNext]_cvars

(***************************************************************************)
(* Fairness: the nucleus gives every ready thread the processor, and none  *)
(* of these threads computes for long.                                     *)
(***************************************************************************)
CFairness == WF_cvars(ServerNext) /\ \A t \in Threads : WF_cvars(ThreadNext(t))
CFairSpec == CSpec /\ CFairness

(*------------------------------ properties -----------------------------*)

ClientsTypeOK ==
  /\ code \in [Threads -> Code] /\ boss \in [Threads -> Threads]
  /\ sp \in [Threads -> 0..Len(Blocks) + 1] /\ stackalloc \in 1..Len(Blocks) + 1
  /\ made \in [Threads -> Seq(Threads)] /\ heard \in [Threads -> Seq(Threads)]
  /\ \A t \in Threads : At(t, "ask") => state[Buffer(t)].pc \in Code

\* The critical section does what it is for: no two threads that have been
\* created share a page of stack, whatever the preemptions between the read
\* and the write of stackalloc.
OwnStack ==
  \A t, u \in Threads : t # u /\ sp[t] # 0 => sp[t] # sp[u]

\* p8 listens to anybody while its family grows: messages that come while
\* it waits for the server or the SSI are not taken for their answers, and
\* it ends after one message of each grandchild.
AllHeard ==
  \A t \in Threads : code[t] = "p8" /\ At(t, "done") =>
    /\ IsInjective(heard[t])
    /\ ToSet(heard[t]) = {u \in Threads : code[u] = "p8grandchild"}

\* The family is complete in the end: nobody waits for ever for the critical
\* section or for the SSI.
Finishes == \A t \in DOMAIN starters : <>At(t, "done")

\* The thread that a tester has made runs the part it is to test (p2 asserts
\* that it is p2t).
OwnCode ==
  \A t \in Threads : code[t] = "tester" =>
    \A u \in ToSet(made[t]) : code[u] = t
==============================================================================
