----------------------------- MODULE ClientsProofs ----------------------------
(***************************************************************************)
(* OwnStack, AllHeard and ClientsTypeOK are invariants of Clients for      *)
(* families of any size.  First part: a critical section that is two       *)
(* messages to a server, in mailboxes that keep late messages, excludes    *)
(* what it is to exclude, and a page of stack that a thread has taken      *)
(* reaches exactly one new thread.  Second part: the threads and the pages *)
(* of a family are counted by who made or took them and in which place, so *)
(* there are as many grandchildren as p8 waits for and no more.            *)
(***************************************************************************)
EXTENDS Clients, SequenceTheorems, FunctionTheorems, FiniteSetTheorems,
        WellFoundedInduction, TLAPS

\* Only threads that fill a state of their own (the testers share one), and
\* names that are what they seem.
JustFamilies ==
  /\ ssi # cs /\ {ssi, cs} \intersect DOMAIN starters = {}
  /\ \A t \in DOMAIN starters : starters[t] = "p8"
  /\ IsInjective(Blocks)
  /\ \A i \in DOMAIN Blocks : Blocks[i] \notin {ssi, cs} \union DOMAIN starters
  /\ Anybody \notin Threads /\ Nobody \notin Threads \union {Anybody}
  /\ {"none", "tmpstate"} \intersect Threads = {}

(*--------------------------- the inductive invariant -------------------*)

Family == Threads \ {ssi, cs}

\* What messages say: no message names a server, so nobody is led to send to
\* one but by its own code.
Word    == Family \union {"none", "tmpstate"}
Message == [from : Threads, msg : Word]

Waiting == {"serve", "release", "csret", "created", "start", "collect", "forever"}
Serving == {"serve", "work", "reply", "release"}
Working == {"free", "fill", "csin", "csret", "load", "store", "csout", "ask", "created",
            "tell", "start", "begin", "answer", "collect", "count", "forever", "done"}
Runs    == {"ssi_entry", "cs_thread", "p8", "p8child", "p8grandchild"}

MailTypes ==
  /\ box \in [Threads -> Seq(Message)]
  /\ waits \in [Threads -> Threads \union {Anybody, Nobody}]
  /\ pc \in [Threads -> Serving \union Working]
  /\ got \in [Threads -> Message]

OwnTypes ==
  /\ code \in [Threads -> Runs]
  /\ sp \in [Threads -> Int] /\ page \in [Threads -> Int] /\ stackalloc \in Int
  /\ boss \in [Threads -> Threads \union Word] /\ \A c \in Family : boss[c] \in Word
  /\ made \in [Threads -> Seq(Word)]
  /\ state \in [Buffers -> [sp : Int, pc : Runs]]
  /\ free \in Seq(Family)

\* Who a thread at a receive waits for.
Whom(t) == CASE pc[t] = "release" -> got[cs].from
             [] pc[t] = "csret"   -> cs
             [] pc[t] = "created" -> ssi
             [] OTHER             -> Anybody

Control ==
  /\ \A t \in Threads : waits[t] # Nobody => pc[t] \in Waiting /\ waits[t] = Whom(t)
  /\ pc[ssi] \in {"serve", "work", "reply"}
  /\ pc[cs] \in {"serve", "work", "release"}
  /\ \A c \in Family : pc[c] \in Working
  /\ pc[ssi] # "serve" => got[ssi].from \in Family /\ got[ssi].msg = got[ssi].from
  /\ pc[cs] # "serve" => got[cs].from \in Family

\* How many messages of f are in a box: some, at most one, at most two.
Has(q, f)   == \E i \in DOMAIN q : q[i].from = f
Once(q, f)  == \A i, j \in DOMAIN q : q[i].from = f /\ q[j].from = f => i = j
Twice(q, f) == \A i, j, k \in DOMAIN q :
                 q[i].from = f /\ q[j].from = f /\ q[k].from = f => i = j \/ j = k \/ i = k

\* The two servers get mail of the family only.
Inboxes ==
  /\ \A i \in DOMAIN box[cs] : box[cs][i].from \in Family
  /\ \A i \in DOMAIN box[ssi] :
       box[ssi][i].from \in Family /\ box[ssi][i].msg = box[ssi][i].from

\* The critical section.  The server has asked the holder for a message; the
\* holder has the grant in its box, or is inside, or has left, and then its
\* message that says so is in front of a new request it may have sent.  The
\* others are outside, with one request at most, for whose grant they wait.
Holder(c) == pc[cs] = "release" /\ got[cs].from = c
Asked(c)  == pc[cs] = "work" /\ got[cs].from = c
Inside(c) == pc[c] \in {"load", "store", "csout"}

Outsider(c) ==
  /\ ~Inside(c) /\ ~Has(box[c], cs) /\ Once(box[cs], c)
  /\ Has(box[cs], c) => pc[c] = "csret"
  /\ Asked(c) => pc[c] = "csret" /\ ~Has(box[cs], c)
Insider(c) ==
  /\ Inside(c) => ~Has(box[c], cs) /\ ~Has(box[cs], c)
  /\ Has(box[c], cs) => pc[c] = "csret" /\ ~Has(box[cs], c) /\ Once(box[c], cs)
  /\ pc[c] # "csret" => Once(box[cs], c)
  /\ Twice(box[cs], c)

Section ==
  /\ \A c \in Family : IF Holder(c) THEN Insider(c) ELSE Outsider(c)
  /\ pc[cs] = "release" /\ waits[cs] # Nobody => ~Has(box[cs], got[cs].from)

\* The service.  A thread that waits for the SSI has one request there, in its
\* hands, or answered; no other thread has any.
InHand(c) == pc[ssi] \in {"work", "reply"} /\ got[ssi].from = c

Request(c) ==
  /\ pc[c] # "created" => ~Has(box[ssi], c) /\ ~InHand(c) /\ ~Has(box[c], ssi)
  /\ ~(Has(box[ssi], c) /\ InHand(c))
  /\ ~(Has(box[ssi], c) /\ Has(box[c], ssi))
  /\ ~(InHand(c) /\ Has(box[c], ssi))
  /\ Once(box[ssi], c) /\ Once(box[c], ssi)

\* Pages.  A page in use is not below stackalloc.  A page that is taken and not
\* yet given to a new thread is in the state of the one that took it.
Fresh(c) == \/ pc[c] \in {"csout", "ask"} \/ Has(box[ssi], c)
            \/ pc[ssi] = "work" /\ got[ssi].from = c

\* What the SSI hands out, and what it has to answer.
Supply ==
  /\ IsInjective(free) /\ \A i \in DOMAIN free : pc[free[i]] = "free"
  /\ pc[ssi] = "reply" => made[ssi] # <<>>

Pages ==
  /\ \A t \in Threads : sp[t] = 0 \/ sp[t] >= stackalloc
  /\ \A c \in Family : pc[c] = "store" => page[c] = stackalloc - 1
  /\ \A c \in Family : Fresh(c) => /\ state[c].sp >= stackalloc
                                   /\ \A t \in Threads : sp[t] # 0 => sp[t] # state[c].sp
  /\ \A c, d \in Family : Fresh(c) /\ Fresh(d) /\ c # d => state[c].sp # state[d].sp
  /\ OwnStack

MailInv  == MailTypes /\ Control /\ Inboxes /\ Section /\ \A c \in Family : Request(c)
StackInv == MailInv /\ OwnTypes /\ Supply /\ Pages

(*-------------------------------- mailboxes ----------------------------*)

LEMMA NoneOnce == \A q, f : ~Has(q, f) => Once(q, f)
BY DEF Has, Once

\* A message is put at the end of a box.
LEMMA Appended ==
  ASSUME NEW q \in Seq(Message), NEW e \in Message
  PROVE  /\ Append(q, e) \in Seq(Message)
         /\ \A i \in DOMAIN Append(q, e) : (i \in DOMAIN q /\ Append(q, e)[i] = q[i])
                                           \/ Append(q, e)[i] = e
         /\ \A f : Has(Append(q, e), f) <=> Has(q, f) \/ f = e.from
         /\ \A f : f # e.from \/ ~Has(q, f) => (Once(q, f) => Once(Append(q, e), f))
         /\ \A f : f # e.from => (Twice(q, f) => Twice(Append(q, e), f))
         /\ \A f : Once(q, f) => Twice(Append(q, e), f)
<1> DEFINE r == Append(q, e)
<1>1. /\ Len(q) \in Nat /\ DOMAIN q = 1..Len(q)
      /\ r \in Seq(Message) /\ Len(r) = Len(q) + 1 /\ DOMAIN r = 1..(Len(q) + 1)
      /\ r[Len(q) + 1] = e /\ \A i \in 1..Len(q) : r[i] = q[i]
  OBVIOUS
<1> HIDE DEF r
<1>2. \A f : Has(r, f) <=> Has(q, f) \/ f = e.from
  BY <1>1 DEF Has
<1>3. \A f : f # e.from \/ ~Has(q, f) => (Once(q, f) => Once(r, f))
  BY <1>1 DEF Once, Has
<1>4. \A f : f # e.from => (Twice(q, f) => Twice(r, f))
  BY <1>1 DEF Twice
<1>5. \A f : Once(q, f) => Twice(r, f)
  BY <1>1 DEF Twice, Once
<1>6. \A i \in DOMAIN r : (i \in DOMAIN q /\ r[i] = q[i]) \/ r[i] = e
  BY <1>1
<1> QED
  BY <1>1, <1>2, <1>3, <1>4, <1>5, <1>6 DEF r

\* A message is taken out of a box.
LEMMA Removed ==
  ASSUME NEW q \in Seq(Message), NEW k \in DOMAIN q
  PROVE  LET r == SubSeq(q, 1, k - 1) \o SubSeq(q, k + 1, Len(q))
         IN  /\ r \in Seq(Message)
             /\ \A i \in DOMAIN r : \E j \in DOMAIN q : r[i] = q[j]
             /\ \A f : Has(r, f) => Has(q, f)
             /\ \A f : Once(q, f) => Once(r, f) /\ (f = q[k].from => ~Has(r, f))
             /\ \A f : Twice(q, f) => Twice(r, f) /\ (f = q[k].from => Once(r, f))
<1> DEFINE a == SubSeq(q, 1, k - 1)
           b == SubSeq(q, k + 1, Len(q))
           r == a \o b
           old(i) == IF i < k THEN i ELSE i + 1
<1>1. Len(q) \in Nat /\ DOMAIN q = 1..Len(q) /\ k \in 1..Len(q)
  OBVIOUS
<1>2. /\ a \in Seq(Message) /\ Len(a) = k - 1
      /\ \A j \in 1..(k - 1) : a[j] = q[j]
  BY <1>1
<1>3. /\ b \in Seq(Message) /\ Len(b) = Len(q) - k
      /\ \A j \in 1..(Len(q) - k) : b[j] = q[k + j]
  BY <1>1
<1> HIDE DEF a, b
<1>4. /\ r \in Seq(Message) /\ Len(r) = Len(a) + Len(b)
      /\ \A j \in 1..(Len(a) + Len(b)) :
           r[j] = IF j <= Len(a) THEN a[j] ELSE b[j - Len(a)]
  BY <1>2, <1>3, ConcatProperties
<1> HIDE DEF r
<1>5. DOMAIN r = 1..(Len(q) - 1)
  BY <1>1, <1>2, <1>3, <1>4
<1>6. ASSUME NEW i \in DOMAIN r
      PROVE  old(i) \in DOMAIN q /\ old(i) # k /\ r[i] = q[old(i)]
  <2>1. CASE i < k
    BY <1>1, <1>2, <1>3, <1>4, <1>5, <2>1
  <2>2. CASE ~(i < k)
    <3>1. r[i] = b[i - (k - 1)]
      BY <1>1, <1>2, <1>3, <1>4, <1>5, <2>2
    <3>2. b[i - (k - 1)] = q[k + (i - (k - 1))]
      BY <1>1, <1>3, <1>5, <2>2
    <3> QED
      BY <1>1, <1>5, <2>2, <3>1, <3>2
  <2> QED
    BY <2>1, <2>2
<1>7. ASSUME NEW i \in DOMAIN r, NEW j \in DOMAIN r, old(i) = old(j)
      PROVE  i = j
  BY <1>1, <1>5, <1>7
<1> HIDE DEF old
<1>8. \A f : Has(r, f) => Has(q, f)
  BY <1>6 DEF Has
<1>9. ASSUME NEW f, Once(q, f)
      PROVE  Once(r, f) /\ (f = q[k].from => ~Has(r, f))
  BY <1>1, <1>6, <1>7, <1>9 DEF Once, Has
<1>10. ASSUME NEW f, Twice(q, f)
       PROVE  Twice(r, f) /\ (f = q[k].from => Once(r, f))
  <2>1. Twice(r, f)
    BY <1>6, <1>7, <1>10 DEF Twice
  <2>2. ASSUME f = q[k].from PROVE Once(r, f)
    BY <1>1, <1>6, <1>7, <1>10, <2>2 DEF Twice, Once
  <2> QED
    BY <2>1, <2>2
<1>11. \A i \in DOMAIN r : \E j \in DOMAIN q : r[i] = q[j]
  BY <1>6
<1> QED
  BY <1>4, <1>8, <1>9, <1>10, <1>11 DEF r, a, b

\* What a receive takes is one that it accepts, and the first.
LEMMA FirstIs ==
  ASSUME NEW q \in Seq(Message), NEW I \in SUBSET DOMAIN q, I # {}
  PROVE  (CHOOSE i \in I : \A j \in I : i <= j) \in I
<1>1. \E i \in I : \A j \in I : i <= j
  <2>1. I \subseteq Nat
    OBVIOUS
  <2>2. PICK x \in I : \A y \in I : ~(<<y, x>> \in OpToRel(<, Nat))
    BY <2>1, NatLessThanWellFounded, WFMin
  <2>3. \A y \in I : ~(y < x)
    BY <2>1, <2>2 DEF OpToRel
  <2> QED
    BY <2>1, <2>3
<1> QED
  BY <1>1

(*--------------------------- sends and receives ------------------------*)

Label == Serving \union Working

\* The three outcomes of a send: it is handed over, it is queued, or there
\* is nobody to send to.
Moves(t, next) == pc' = [pc EXCEPT ![t] = next]

Handed(t, to, m, next) ==
  /\ to \in Threads \ {t} /\ waits[to] \in {t, Anybody}
  /\ box' = box
  /\ \A u \in Threads : waits'[u] = IF u = to THEN Nobody ELSE waits[u]
  /\ \A u \in Threads : got'[u] = IF u = to THEN [from |-> t, msg |-> m] ELSE got[u]
  /\ \A u \in Threads : pc'[u] = IF u = to THEN After[pc[u]] ELSE IF u = t THEN next ELSE pc[u]

Queued(t, to, m, next) ==
  /\ to \in Threads /\ waits[to] \notin {t, Anybody}
  /\ waits' = waits /\ got' = got /\ Moves(t, next)
  /\ \A u \in Threads \ {to} : box'[u] = box[u]
  /\ \A i \in DOMAIN box'[to] : (i \in DOMAIN box[to] /\ box'[to][i] = box[to][i])
                                \/ box'[to][i] = [from |-> t, msg |-> m]
  /\ \A f : Has(box'[to], f) <=> Has(box[to], f) \/ f = t
  /\ \A f : f # t \/ ~Has(box[to], f) => (Once(box[to], f) => Once(box'[to], f))
  /\ \A f : f # t => (Twice(box[to], f) => Twice(box'[to], f))
  /\ \A f : Once(box[to], f) => Twice(box'[to], f)

Lost(t, to, next) ==
  to \notin Threads /\ box' = box /\ waits' = waits /\ got' = got /\ Moves(t, next)

\* The two outcomes of a receive: the first message is taken, or the thread
\* begins to wait.
Took(t, s) ==
  /\ waits[t] = Nobody /\ waits' = waits
  /\ \A u \in Threads \ {t} : box'[u] = box[u] /\ got'[u] = got[u]
  /\ Moves(t, After[pc[t]])
  /\ got'[t] \in Message /\ s \in {Anybody, got'[t].from}
  /\ \E i \in DOMAIN box[t] : got'[t] = box[t][i]
  /\ \A i \in DOMAIN box'[t] : \E j \in DOMAIN box[t] : box'[t][i] = box[t][j]
  /\ \A f : Has(box'[t], f) => Has(box[t], f)
  /\ \A f : Once(box[t], f) => /\ Once(box'[t], f)
                               /\ f = got'[t].from => ~Has(box'[t], f)
  /\ \A f : Twice(box[t], f) => /\ Twice(box'[t], f)
                                /\ f = got'[t].from => Once(box'[t], f)

Awaiting(t, s) ==
  /\ waits[t] = Nobody /\ box' = box /\ got' = got /\ pc' = pc
  /\ \A u \in Threads : waits'[u] = IF u = t THEN s ELSE waits[u]
  /\ ~Has(box[t], s) /\ (s = Anybody => \A f : ~Has(box[t], f))

LEMMA AfterFacts ==
  /\ After["serve"] = "work" /\ After["release"] = "serve" /\ After["csret"] = "load"
  /\ After["created"] = "tell"
  /\ After["start"] = "begin" /\ After["collect"] = "count" /\ After["forever"] = "done"
BY DEF After

LEMMA AfterType ==
  \A l \in Waiting : After[l] \in Label /\ (l \in Working => After[l] \in Working)
BY AfterFacts DEF Waiting, Label, Serving, Working

\* A send of a thread that is not in a receive.
LEMMA SendOutcome ==
  ASSUME JustFamilies, MailTypes, Control, NEW t \in Threads, pc[t] \notin Waiting,
         NEW to, NEW m \in Word, NEW next \in Label, msgsend(t, to, m, next)
  PROVE  /\ MailTypes'
         /\ Handed(t, to, m, next) \/ Queued(t, to, m, next) \/ Lost(t, to, next)
<1> DEFINE e == [from |-> t, msg |-> m]
<1>1. e \in Message
  BY DEF Message
<1>2. waits[t] = Nobody /\ Nobody \notin {t, Anybody}
  BY DEF Control, JustFamilies
<1>3. CASE to \notin Threads
  <2>1. waits' = waits /\ got' = got /\ box' = box /\ Moves(t, next)
    <3>1. CASE HandOver(t, to) /\ got' = [got EXCEPT ![to] = e]
               /\ pc' = [pc EXCEPT ![t] = next, ![to] = After[@]]
      <4>1. waits' = waits /\ box' = box /\ got' = got
        BY <1>3, <3>1 DEF HandOver, MailTypes
      <4>2. pc' = [pc EXCEPT ![t] = next]
        BY <1>3, <3>1 DEF MailTypes
      <4> QED
        BY <4>1, <4>2 DEF Moves
    <3>2. CASE Queue(t, to, m) /\ pc' = [pc EXCEPT ![t] = next] /\ UNCHANGED got
      BY <1>3, <3>2 DEF Queue, MailTypes, Moves
    <3> QED
      BY <3>1, <3>2 DEF msgsend
  <2>2. MailTypes'
    BY <2>1 DEF MailTypes, Moves, Label
  <2> QED
    BY <1>3, <2>1, <2>2 DEF Lost
<1>4. CASE to \in Threads /\ HandOver(t, to) /\ got' = [got EXCEPT ![to] = e]
           /\ pc' = [pc EXCEPT ![t] = next, ![to] = After[@]]
  <2>1. to # t /\ waits[to] \in {t, Anybody} /\ waits[to] # Nobody
    BY <1>2, <1>4 DEF HandOver, AwaitedBy
  <2>2. pc[to] \in Waiting
    BY <1>4, <2>1 DEF Control
  <2>3. After[pc[to]] \in Label
    BY <2>2, AfterType
  <2>4. box' = box /\ waits' = [waits EXCEPT ![to] = Nobody]
    BY <1>4 DEF HandOver
  <2>5. MailTypes'
    BY <1>1, <1>4, <2>1, <2>3, <2>4 DEF MailTypes, Label
  <2>6. Handed(t, to, m, next)
    BY <1>4, <2>1, <2>4 DEF MailTypes, Handed
  <2> QED
    BY <2>5, <2>6
<1>5. CASE to \in Threads /\ Queue(t, to, m) /\ pc' = [pc EXCEPT ![t] = next] /\ UNCHANGED got
  <2>1. /\ waits[to] \notin {t, Anybody} /\ waits' = waits
        /\ box' = [box EXCEPT ![to] = Append(box[to], e)]
    BY <1>5 DEF Queue, AwaitedBy
  <2>2. box[to] \in Seq(Message) /\ box'[to] = Append(box[to], e)
    BY <1>5, <2>1 DEF MailTypes
  <2>3. MailTypes'
    BY <1>1, <1>5, <2>1, <2>2 DEF MailTypes, Label
  <2>4. /\ \A i \in DOMAIN box'[to] : (i \in DOMAIN box[to] /\ box'[to][i] = box[to][i])
                                      \/ box'[to][i] = e
        /\ \A f : Has(box'[to], f) <=> Has(box[to], f) \/ f = e.from
        /\ \A f : f # e.from \/ ~Has(box[to], f) => (Once(box[to], f) => Once(box'[to], f))
        /\ \A f : f # e.from => (Twice(box[to], f) => Twice(box'[to], f))
        /\ \A f : Once(box[to], f) => Twice(box'[to], f)
    <3> HIDE DEF e
    <3> QED
      BY <1>1, <2>2, Appended
  <2>5. e.from = t
    OBVIOUS
  <2>6. \A u \in Threads \ {to} : box'[u] = box[u]
    BY <2>1 DEF MailTypes
  <2> QED
    BY <1>5, <2>1, <2>3, <2>4, <2>5, <2>6 DEF Queued, Moves
<1> QED
  BY <1>3, <1>4, <1>5 DEF msgsend

\* A receive of a thread that is at one.
LEMMA ReceiveOutcome ==
  ASSUME JustFamilies, MailTypes, NEW t \in Threads, pc[t] \in Waiting,
         NEW s \in Threads \union {Anybody}, msgrecv(t, s)
  PROVE  MailTypes' /\ (Took(t, s) \/ Awaiting(t, s))
<1>1. box[t] \in Seq(Message) /\ After[pc[t]] \in Label
  BY AfterType DEF MailTypes
<1>2. CASE Take(t, s) /\ got' = [got EXCEPT ![t] = box[t][First(t, s)]]
           /\ pc' = [pc EXCEPT ![t] = After[@]]
  <2> DEFINE q == box[t]
             k == First(t, s)
             r == SubSeq(q, 1, k - 1) \o SubSeq(q, k + 1, Len(q))
  <2>1. k \in DOMAIN q /\ s \in {Anybody, q[k].from}
    <3>1. From(t, s) \in SUBSET DOMAIN q /\ From(t, s) # {}
      BY <1>2 DEF Take, From
    <3>2. k \in From(t, s)
      BY <1>1, <3>1, FirstIs DEF First
    <3> QED
      BY <3>2 DEF From
  <2>2. box' = [box EXCEPT ![t] = r] /\ waits' = waits /\ waits[t] = Nobody
    BY <1>2 DEF Take
  <2> HIDE DEF k
  <2>3. /\ r \in Seq(Message)
        /\ \A i \in DOMAIN r : \E j \in DOMAIN q : r[i] = q[j]
        /\ \A f : Has(r, f) => Has(q, f)
        /\ \A f : Once(q, f) => Once(r, f) /\ (f = q[k].from => ~Has(r, f))
        /\ \A f : Twice(q, f) => Twice(r, f) /\ (f = q[k].from => Once(r, f))
    BY <1>1, <2>1, Removed
  <2>4. q[k] \in Message
    BY <1>1, <2>1
  <2>5. got' = [got EXCEPT ![t] = q[k]]
    BY <1>2 DEF k
  <2> HIDE DEF r
  <2>6. MailTypes'
    BY <1>1, <1>2, <2>2, <2>3, <2>4, <2>5 DEF MailTypes, Label
  <2>7. /\ box'[t] = r /\ got'[t] = q[k]
        /\ \A u \in Threads \ {t} : box'[u] = box[u] /\ got'[u] = got[u]
    BY <2>2, <2>5 DEF MailTypes
  <2>8. Moves(t, After[pc[t]])
    BY <1>2 DEF Moves
  <2>9. Took(t, s)
    BY <2>1, <2>2, <2>3, <2>4, <2>7, <2>8 DEF Took
  <2> QED
    BY <2>6, <2>9
<1>3. CASE Await(t, s) /\ UNCHANGED <<got, pc>>
  <2>1. /\ waits[t] = Nobody /\ From(t, s) = {} /\ box' = box
        /\ waits' = [waits EXCEPT ![t] = s]
    BY <1>3 DEF Await
  <2>2. MailTypes'
    BY <1>3, <2>1 DEF MailTypes
  <2>3. ~Has(box[t], s) /\ (s = Anybody => \A f : ~Has(box[t], f))
    BY <2>1 DEF From, Has
  <2>4. Awaiting(t, s)
    BY <1>3, <2>1, <2>3 DEF Awaiting, MailTypes
  <2> QED
    BY <2>2, <2>4
<1> QED
  BY <1>2, <1>3 DEF msgrecv

(*------------------------- steps of the family -------------------------*)

\* What most steps leave as it is: who has a page that is not given yet, who
\* has read stackalloc, which threads are free, what the SSI has to answer.
Still ==
  /\ \A c \in Family : /\ Fresh(c)' => Fresh(c)
                       /\ pc'[c] = "store" => pc[c] = "store"
                       /\ pc[c] = "free" => pc'[c] = "free"
  /\ pc'[ssi] = "reply" => pc[ssi] = "reply"

\* Labels of a thread that is neither at the critical section nor at the SSI.
Apart == {"fill", "csin", "start", "begin", "collect", "count", "forever", "done",
          "answer", "tell"}

LEMMA Names ==
  ASSUME JustFamilies
  PROVE  /\ ssi \in Threads \ Family /\ cs \in Threads \ Family /\ ssi # cs
         /\ Family \subseteq Threads /\ Anybody \notin Threads
         /\ Nobody \notin Threads \union {Anybody}
         /\ Family \subseteq Word /\ Word \intersect {ssi, cs} = {}
         /\ "none" \in Word \ Threads /\ Word \intersect Threads = Family
BY ClientsAssumption DEF JustFamilies, Family, Word

\* A thread of the family sends to one that is not a server.
LEMMA FamilySend ==
  ASSUME JustFamilies, MailInv, NEW t \in Family, NEW to \in Word, NEW m \in Word,
         pc[t] \in Apart \ Waiting, NEW next \in Apart, msgsend(t, to, m, next)
  PROVE  MailInv' /\ Still
<1>1. t \in Threads /\ t \notin {ssi, cs} /\ to \notin {ssi, cs}
  BY Names
<1>2. MailTypes' /\ (Handed(t, to, m, next) \/ Queued(t, to, m, next) \/ Lost(t, to, next))
  <2>1. next \in Label
    BY DEF Label, Apart, Working
  <2> QED
    BY <1>1, <2>1, SendOutcome DEF MailInv
<1>3. CASE Handed(t, to, m, next)
  <2>1. to \in Family /\ pc[to] \in {"start", "collect", "forever"}
    BY <1>1, <1>3, Names DEF Handed, MailInv, Control, Whom, Waiting, Working, Word, Family
  <2>2. pc'[to] \in Apart
    BY <1>3, <2>1, AfterFacts DEF Handed, Apart
  <2>3. Control'
    BY <1>1, <1>3, <2>1, <2>2, Names DEF Handed, MailInv, Control, Whom, Working, Apart
  <2>4. Inboxes'
    BY <1>3 DEF Handed, MailInv, Inboxes
  <2>5. Section'
    BY <1>1, <1>3, <2>1, <2>2, Names
    DEF Handed, MailInv, Section, Holder, Asked, Inside, Insider, Outsider, Apart
  <2>6. \A c \in Family : Request(c)'
    BY <1>1, <1>3, <2>1, <2>2, Names DEF Handed, MailInv, Request, InHand, Apart
  <2>7. Still
    BY <1>1, <1>3, <2>1, <2>2, Names DEF Handed, Still, Fresh, MailInv, Control, Apart, Working
  <2> QED
    BY <1>2, <2>3, <2>4, <2>5, <2>6, <2>7 DEF MailInv
<1>4. CASE Queued(t, to, m, next)
  <2>1. \A u \in Threads : pc'[u] = IF u = t THEN next ELSE pc[u]
    BY <1>4 DEF Queued, Moves, MailInv, MailTypes
  <2>2. Control'
    BY <1>1, <1>4, <2>1, Names DEF Queued, MailInv, Control, Whom, Working, Apart, Waiting
  <2>3. box'[cs] = box[cs] /\ box'[ssi] = box[ssi]
    BY <1>1, <1>4, Names DEF Queued
  <2>4. \A u \in Family : /\ Has(box'[u], cs) <=> Has(box[u], cs)
                          /\ Has(box'[u], ssi) <=> Has(box[u], ssi)
                          /\ Once(box[u], cs) => Once(box'[u], cs)
                          /\ Once(box[u], ssi) => Once(box'[u], ssi)
    BY <1>1, <1>4, Names DEF Queued
  <2>5. Inboxes'
    BY <2>3 DEF MailInv, Inboxes
  <2>6. Section'
    BY <1>1, <1>4, <2>1, <2>3, <2>4, Names
    DEF Queued, MailInv, Section, Holder, Asked, Inside, Insider, Outsider, Apart
  <2>7. \A c \in Family : Request(c)'
    BY <1>1, <1>4, <2>1, <2>3, <2>4, Names DEF Queued, MailInv, Request, InHand, Apart
  <2>8. Still
    BY <1>1, <1>4, <2>1, <2>2, Names DEF Queued, Still, Fresh, MailInv, Control, Apart, Working
  <2> QED
    BY <1>2, <2>2, <2>5, <2>6, <2>7, <2>8 DEF MailInv
<1>5. CASE Lost(t, to, next)
  <2>1. \A u \in Threads : pc'[u] = IF u = t THEN next ELSE pc[u]
    BY <1>5 DEF Lost, Moves, MailInv, MailTypes
  <2>2. Control'
    BY <1>1, <1>5, <2>1, Names DEF Lost, MailInv, Control, Whom, Working, Apart, Waiting
  <2>3. Inboxes'
    BY <1>5 DEF Lost, MailInv, Inboxes
  <2>4. Section'
    BY <1>1, <1>5, <2>1, Names
    DEF Lost, MailInv, Section, Holder, Asked, Inside, Insider, Outsider, Apart
  <2>5. \A c \in Family : Request(c)'
    BY <1>1, <1>5, <2>1, Names DEF Lost, MailInv, Request, InHand, Apart
  <2>6. Still
    BY <1>1, <1>5, <2>1, <2>2, Names DEF Lost, Still, Fresh, MailInv, Control, Apart, Working
  <2> QED
    BY <1>2, <2>2, <2>3, <2>4, <2>5, <2>6 DEF MailInv
<1> QED
  BY <1>2, <1>3, <1>4, <1>5

\* A thread of the family goes on by itself.
LEMMA FamilyMove ==
  ASSUME JustFamilies, MailInv, NEW t \in Family, NEW next, GoTo(t, next),
         \/ pc[t] \in Apart \ Waiting /\ next \in Apart
         \/ pc[t] = "load" /\ next = "store"
         \/ pc[t] = "store" /\ next = "csout"
  PROVE  MailInv' /\ (pc[t] \in Apart => Still)
<1>1. t \in Threads /\ next \in Working \ {"csret", "created", "free"} /\ pc[t] \notin Waiting
  BY Names DEF Apart, Working, Waiting
<1>2. /\ box' = box /\ waits' = waits /\ got' = got
      /\ \A u \in Threads : pc'[u] = IF u = t THEN next ELSE pc[u]
  BY <1>1 DEF GoTo, mvars, MailInv, MailTypes
<1>3. MailTypes'
  BY <1>1 DEF GoTo, mvars, MailInv, MailTypes
<1>4. Control'
  BY <1>1, <1>2, Names DEF MailInv, Control, Whom
<1>5. Inboxes'
  BY <1>2 DEF MailInv, Inboxes
<1>6. Section'
  BY <1>1, <1>2, Names
  DEF MailInv, Section, Holder, Asked, Inside, Insider, Outsider, Apart
<1>7. \A c \in Family : Request(c)'
  BY <1>1, <1>2, Names DEF MailInv, Request, InHand, Apart
<1>8. pc[t] \in Apart => Still
  BY <1>1, <1>2, Names DEF Still, Fresh, Apart, MailInv, Control
<1> QED
  BY <1>3, <1>4, <1>5, <1>6, <1>7, <1>8 DEF MailInv

\* A thread of the family receives what it waits for.
LEMMA FamilyReceive ==
  ASSUME JustFamilies, MailInv, NEW t \in Family, NEW s,
         \/ pc[t] = "csret" /\ s = cs
         \/ pc[t] = "created" /\ s = ssi
         \/ pc[t] \in {"start", "collect", "forever"} /\ s = Anybody,
         msgrecv(t, s)
  PROVE  MailInv' /\ Still
<1>1. t \in Threads /\ s = Whom(t) /\ s \in Threads \union {Anybody} /\ pc[t] \in Waiting
  BY Names DEF Whom, Waiting
<1>2. MailTypes' /\ (Took(t, s) \/ Awaiting(t, s))
  BY <1>1, ReceiveOutcome DEF MailInv
<1>3. CASE Took(t, s)
  <2> DEFINE f == got'[t].from
  <2>1. /\ \A u \in Threads : pc'[u] = IF u = t THEN After[pc[t]] ELSE pc[u]
        /\ Has(box[t], f)
        /\ box'[cs] = box[cs] /\ box'[ssi] = box[ssi]
        /\ got'[cs] = got[cs] /\ got'[ssi] = got[ssi]
    BY <1>1, <1>3, Names DEF Took, Moves, MailInv, MailTypes, Has
  <2>2. \/ pc[t] = "csret" /\ f = cs /\ pc'[t] = "load"
        \/ pc[t] = "created" /\ f = ssi /\ pc'[t] = "tell"
        \/ pc[t] \in {"start", "collect", "forever"} /\ pc'[t] \in {"begin", "count", "done"}
    BY <1>1, <1>3, <2>1, AfterFacts, Names DEF Took
  <2>3. Control'
    BY <1>1, <1>3, <2>1, <2>2, Names DEF Took, MailInv, Control, Whom, Waiting, Working
  <2>4. Inboxes'
    BY <2>1 DEF MailInv, Inboxes
  <2>5. \A u \in Family : /\ u # t => box'[u] = box[u]
                          /\ Has(box'[u], cs) => Has(box[u], cs)
                          /\ Has(box'[u], ssi) => Has(box[u], ssi)
                          /\ Once(box[u], cs) => Once(box'[u], cs)
                          /\ Once(box[u], ssi) => Once(box'[u], ssi)
    BY <1>1, <1>3, Names DEF Took
  <2>6. /\ f = cs /\ Once(box[t], cs) => ~Has(box'[t], cs)
        /\ f = ssi /\ Once(box[t], ssi) => ~Has(box'[t], ssi)
    BY <1>3 DEF Took
  <2>7. waits' = waits
    BY <1>3 DEF Took
  <2>8. Section'
    <3>1. ASSUME NEW c \in Family
          PROVE  (IF Holder(c) THEN Insider(c) ELSE Outsider(c))'
      <4>1. IF Holder(c) THEN Insider(c) ELSE Outsider(c)
        BY DEF MailInv, Section
      <4>2. CASE c # t
        BY <2>1, <2>5, <4>1, <4>2, Names
        DEF Holder, Asked, Inside, Insider, Outsider
      <4>3. CASE c = t
        BY <2>1, <2>2, <2>5, <2>6, <4>1, <4>3, NoneOnce, Names
        DEF Holder, Asked, Inside, Insider, Outsider
      <4> QED
        BY <4>2, <4>3
    <3>2. (pc[cs] = "release" /\ waits[cs] # Nobody => ~Has(box[cs], got[cs].from))'
      BY <2>1, <2>7, Names DEF MailInv, Section
    <3> QED
      BY <3>1, <3>2 DEF Section
  <2>9. ASSUME NEW c \in Family PROVE Request(c)'
    <3>1. Request(c)
      BY DEF MailInv
    <3> QED
      BY <2>1, <2>2, <2>5, <2>6, <3>1, Names DEF Request, InHand
  <2>10. Still
    BY <1>1, <1>3, <2>1, <2>2, Names DEF Took, Still, Fresh, MailInv, Control, Apart, Working
  <2> QED
    BY <1>2, <2>3, <2>4, <2>8, <2>9, <2>10 DEF MailInv
<1>4. CASE Awaiting(t, s)
  <2>1. Control'
    BY <1>1, <1>4, Names DEF Awaiting, MailInv, Control, Whom
  <2>2. Inboxes' /\ \A c \in Family : Request(c)'
    BY <1>4 DEF Awaiting, MailInv, Inboxes, Request, InHand
  <2>3. Section'
    BY <1>1, <1>4, Names
    DEF Awaiting, MailInv, Section, Holder, Asked, Inside, Insider, Outsider
  <2>4. Still
    BY <1>1, <1>4, Names DEF Awaiting, Still, Fresh, MailInv, Control, Apart, Working
  <2> QED
    BY <1>2, <2>1, <2>2, <2>3, <2>4 DEF MailInv
<1> QED
  BY <1>2, <1>3, <1>4

\* A thread of the family asks for the critical section, or leaves it.
LEMMA FamilyToSection ==
  ASSUME JustFamilies, MailInv, NEW t \in Family, NEW next,
         \/ pc[t] = "csin" /\ next = "csret"
         \/ pc[t] = "csout" /\ next = "ask",
         msgsend(t, cs, "none", next)
  PROVE  MailInv' /\ Still
<1>1. /\ t \in Threads /\ t \notin {ssi, cs} /\ pc[t] \notin Waiting
      /\ next \in Working /\ next \notin {"created", "free"}
  BY Names DEF Waiting, Working
<1>2. MailTypes' /\ (Handed(t, cs, "none", next) \/ Queued(t, cs, "none", next))
  <2>1. next \in Label /\ "none" \in Word /\ ~Lost(t, cs, next)
    BY <1>1, Names DEF Label, Lost
  <2> QED
    BY <1>1, <2>1, SendOutcome DEF MailInv
<1>3. CASE Handed(t, cs, "none", next)
  <2>1. \/ pc[cs] = "serve" /\ pc'[cs] = "work"
        \/ /\ pc[cs] = "release" /\ pc'[cs] = "serve"
           /\ got[cs].from = t /\ ~Has(box[cs], t)
    BY <1>1, <1>3, AfterFacts, Names
    DEF Handed, MailInv, Control, Section, Whom, Waiting
  <2>2. /\ box' = box /\ got'[cs].from = t /\ got'[ssi] = got[ssi]
        /\ \A u \in Family : pc'[u] = IF u = t THEN next ELSE pc[u]
        /\ pc'[ssi] = pc[ssi] /\ waits'[cs] = Nobody
        /\ \A u \in Threads : u # cs => waits'[u] = waits[u]
    BY <1>3, Names DEF Handed
  <2>3. Control'
    BY <1>1, <2>1, <2>2, Names DEF MailInv, Control, Whom, Working, Family
  <2>4. Inboxes'
    BY <2>2 DEF MailInv, Inboxes
  <2>5. Section'
    <3>1. ASSUME NEW c \in Family
          PROVE  (IF Holder(c) THEN Insider(c) ELSE Outsider(c))'
      <4>1. IF Holder(c) THEN Insider(c) ELSE Outsider(c)
        BY DEF MailInv, Section
      <4>2. ~Holder(c)'
        BY <2>1 DEF Holder
      <4> QED
        BY <2>1, <2>2, <4>1, <4>2, Names
        DEF Holder, Asked, Inside, Insider, Outsider
    <3> QED
      BY <2>2, <3>1 DEF Section
  <2>6. \A c \in Family : Request(c)'
    BY <1>1, <2>1, <2>2, Names DEF MailInv, Request, InHand
  <2>7. Still
    BY <1>1, <1>3, <2>1, <2>2, Names DEF Handed, Still, Fresh, MailInv, Control, Apart, Working
  <2> QED
    BY <1>2, <2>3, <2>4, <2>5, <2>6, <2>7 DEF MailInv
<1>4. CASE Queued(t, cs, "none", next)
  <2>1. /\ \A u \in Threads : pc'[u] = IF u = t THEN next ELSE pc[u]
        /\ got' = got /\ waits' = waits
        /\ \A u \in Threads \ {cs} : box'[u] = box[u]
    BY <1>4 DEF Queued, Moves, MailInv, MailTypes
  <2>2. Control'
    BY <1>1, <2>1, Names DEF MailInv, Control, Whom
  <2>3. Inboxes'
    BY <1>1, <1>4, <2>1, Names DEF Queued, MailInv, Inboxes
  <2>4. Section'
    <3>1. ASSUME NEW c \in Family
          PROVE  (IF Holder(c) THEN Insider(c) ELSE Outsider(c))'
      <4>1. /\ IF Holder(c) THEN Insider(c) ELSE Outsider(c)
            /\ box'[c] = box[c] /\ pc'[cs] = pc[cs] /\ c \in Threads
        BY <1>1, <2>1, Names DEF MailInv, Section
      <4>2. CASE c # t
        <5>1. /\ Has(box'[cs], c) <=> Has(box[cs], c)
              /\ Once(box[cs], c) => Once(box'[cs], c)
              /\ Twice(box[cs], c) => Twice(box'[cs], c)
          BY <1>4, <4>2 DEF Queued
        <5> QED
          BY <2>1, <4>1, <4>2, <5>1 DEF Holder, Asked, Inside, Insider, Outsider
      <4>3. CASE c = t
        <5>1. /\ ~Has(box[cs], t) => Once(box'[cs], t)
              /\ Once(box[cs], t) => Twice(box'[cs], t)
          BY <1>4, NoneOnce DEF Queued
        <5> QED
          BY <1>1, <2>1, <4>1, <4>3, <5>1 DEF Holder, Asked, Inside, Insider, Outsider
      <4> QED
        BY <4>2, <4>3
    <3>2. (pc[cs] = "release" /\ waits[cs] # Nobody => ~Has(box[cs], got[cs].from))'
      <4>1. CASE pc[cs] = "release" /\ waits[cs] # Nobody
        <5>1. got[cs].from # t
          BY <1>4, <4>1, Names DEF Queued, MailInv, Control, Whom
        <5> QED
          BY <1>1, <1>4, <2>1, <4>1, <5>1, Names DEF Queued, MailInv, Section
      <4> QED
        BY <1>1, <2>1, <4>1, Names
    <3> QED
      BY <3>1, <3>2 DEF Section
  <2>5. \A c \in Family : Request(c)'
    BY <1>1, <2>1, Names DEF MailInv, Request, InHand
  <2>6. Still
    BY <1>1, <1>4, <2>1, <2>2, Names DEF Queued, Still, Fresh, MailInv, Control, Apart, Working
  <2> QED
    BY <1>2, <2>2, <2>3, <2>4, <2>5, <2>6 DEF MailInv
<1> QED
  BY <1>2, <1>3, <1>4

\* A thread of the family asks for a new thread.
LEMMA FamilyToSsi ==
  ASSUME JustFamilies, MailInv, NEW t \in Family, pc[t] = "ask",
         msgsend(t, ssi, t, "created")
  PROVE  MailInv' /\ Still
<1>1. t \in Threads /\ t \notin {ssi, cs} /\ pc[t] \notin Waiting /\ t \in Word
  BY Names DEF Waiting
<1>2. MailTypes' /\ (Handed(t, ssi, t, "created") \/ Queued(t, ssi, t, "created"))
  <2>1. "created" \in Label /\ ~Lost(t, ssi, "created")
    BY <1>1, Names DEF Label, Working, Lost
  <2> QED
    BY <1>1, <2>1, SendOutcome DEF MailInv
<1>3. CASE Handed(t, ssi, t, "created")
  <2>1. pc[ssi] = "serve" /\ pc'[ssi] = "work"
    BY <1>1, <1>3, AfterFacts, Names DEF Handed, MailInv, Control, Waiting
  <2>2. /\ box' = box /\ got'[ssi].from = t /\ got'[ssi].msg = t /\ got'[cs] = got[cs]
        /\ \A u \in Family : pc'[u] = IF u = t THEN "created" ELSE pc[u]
        /\ pc'[cs] = pc[cs] /\ waits'[ssi] = Nobody
        /\ \A u \in Threads : u # ssi => waits'[u] = waits[u]
    BY <1>3, Names DEF Handed
  <2>3. Control'
    BY <1>1, <2>1, <2>2, Names DEF MailInv, Control, Whom, Working, Family
  <2>4. Inboxes'
    BY <2>2 DEF MailInv, Inboxes
  <2>5. Section'
    BY <1>1, <2>2, Names DEF MailInv, Section, Holder, Asked, Inside, Insider, Outsider
  <2>6. \A c \in Family : Request(c)'
    BY <1>1, <2>1, <2>2, Names DEF MailInv, Request, InHand
  <2>7. Still
    BY <1>1, <1>3, <2>1, <2>2, Names DEF Handed, Still, Fresh, MailInv, Control, Apart, Working
  <2> QED
    BY <1>2, <2>3, <2>4, <2>5, <2>6, <2>7 DEF MailInv
<1>4. CASE Queued(t, ssi, t, "created")
  <2>1. /\ \A u \in Threads : pc'[u] = IF u = t THEN "created" ELSE pc[u]
        /\ got' = got /\ waits' = waits
        /\ \A u \in Threads \ {ssi} : box'[u] = box[u]
    BY <1>4 DEF Queued, Moves, MailInv, MailTypes
  <2>2. Control'
    BY <1>1, <2>1, Names DEF MailInv, Control, Whom, Working
  <2>3. Inboxes'
    BY <1>1, <1>4, <2>1, Names DEF Queued, MailInv, Inboxes
  <2>4. Section'
    BY <1>1, <2>1, Names DEF MailInv, Section, Holder, Asked, Inside, Insider, Outsider
  <2>5. ASSUME NEW c \in Family PROVE Request(c)'
    <3>1. /\ Has(box'[ssi], c) <=> Has(box[ssi], c) \/ c = t
          /\ c # t \/ ~Has(box[ssi], c) => (Once(box[ssi], c) => Once(box'[ssi], c))
      BY <1>4 DEF Queued
    <3>2. Request(c) /\ box'[c] = box[c] /\ pc'[ssi] = pc[ssi]
      BY <1>1, <2>1, Names DEF MailInv
    <3> QED
      BY <1>1, <2>1, <3>1, <3>2, Names DEF Request, InHand
  <2>6. Still
    BY <1>1, <1>4, <2>1, <2>2, Names DEF Queued, Still, Fresh, MailInv, Control, Apart, Working
  <2> QED
    BY <1>2, <2>2, <2>3, <2>4, <2>5, <2>6 DEF MailInv
<1> QED
  BY <1>2, <1>3, <1>4

(*-------------------------- steps of the servers -----------------------*)

\* The SSI takes a request.
LEMMA SsiServe ==
  ASSUME JustFamilies, MailInv, pc[ssi] = "serve", msgrecv(ssi, Anybody)
  PROVE  MailInv' /\ Still
<1>1. ssi \in Threads /\ pc[ssi] \in Waiting /\ Whom(ssi) = Anybody
  BY Names DEF Waiting, Whom
<1>2. MailTypes' /\ (Took(ssi, Anybody) \/ Awaiting(ssi, Anybody))
  BY <1>1, ReceiveOutcome DEF MailInv
<1>3. CASE Took(ssi, Anybody)
  <2> DEFINE f == got'[ssi].from
  <2>1. /\ \A u \in Threads : pc'[u] = IF u = ssi THEN "work" ELSE pc[u]
        /\ \A u \in Threads \ {ssi} : box'[u] = box[u] /\ got'[u] = got[u]
        /\ waits' = waits /\ waits[ssi] = Nobody
    BY <1>3, AfterFacts DEF Took, Moves, MailInv, MailTypes
  <2>2. f \in Family /\ got'[ssi].msg = f /\ Has(box[ssi], f)
    BY <1>3 DEF Took, MailInv, Inboxes, Has
  <2>3. Control'
    BY <1>1, <2>1, <2>2, Names DEF MailInv, Control, Whom, Working
  <2>4. Inboxes'
    BY <1>3, <2>1, Names DEF Took, MailInv, Inboxes
  <2>5. Section'
    BY <2>1, Names DEF MailInv, Section, Holder, Asked, Inside, Insider, Outsider
  <2>6. ASSUME NEW c \in Family PROVE Request(c)'
    <3>1. /\ Has(box'[ssi], c) => Has(box[ssi], c)
          /\ Once(box[ssi], c) => Once(box'[ssi], c) /\ (c = f => ~Has(box'[ssi], c))
      BY <1>3 DEF Took
    <3>2. Request(c) /\ box'[c] = box[c] /\ pc'[c] = pc[c] /\ pc'[ssi] = "work"
      BY <1>1, <2>1, Names DEF MailInv
    <3> HIDE DEF f
    <3>3. InHand(c)' <=> c = f
      BY <3>2 DEF InHand, f
    <3> QED
      BY <2>2, <3>1, <3>2, <3>3 DEF Request
  <2>7. Still
    BY <1>1, <1>3, <2>1, <2>2, Names DEF Took, Still, Fresh, MailInv, Control, Apart, Working
  <2> QED
    BY <1>2, <2>3, <2>4, <2>5, <2>6, <2>7 DEF MailInv
<1>4. CASE Awaiting(ssi, Anybody)
  <2>1. Control'
    BY <1>1, <1>4, Names DEF Awaiting, MailInv, Control, Whom
  <2>2. Inboxes' /\ \A c \in Family : Request(c)'
    BY <1>4 DEF Awaiting, MailInv, Inboxes, Request, InHand
  <2>3. Section'
    BY <1>1, <1>4, Names
    DEF Awaiting, MailInv, Section, Holder, Asked, Inside, Insider, Outsider
  <2>4. Still
    BY <1>1, <1>4, Names DEF Awaiting, Still, Fresh, MailInv, Control, Apart, Working
  <2> QED
    BY <1>2, <2>1, <2>2, <2>3, <2>4 DEF MailInv
<1> QED
  BY <1>2, <1>3, <1>4

\* The server of the critical section takes a request.
LEMMA SectionServe ==
  ASSUME JustFamilies, MailInv, pc[cs] = "serve", msgrecv(cs, Anybody)
  PROVE  MailInv' /\ Still
<1>1. cs \in Threads /\ pc[cs] \in Waiting /\ Whom(cs) = Anybody
  BY Names DEF Waiting, Whom
<1>2. MailTypes' /\ (Took(cs, Anybody) \/ Awaiting(cs, Anybody))
  BY <1>1, ReceiveOutcome DEF MailInv
<1>3. CASE Took(cs, Anybody)
  <2> DEFINE f == got'[cs].from
  <2>1. /\ \A u \in Threads : pc'[u] = IF u = cs THEN "work" ELSE pc[u]
        /\ \A u \in Threads \ {cs} : box'[u] = box[u] /\ got'[u] = got[u]
        /\ waits' = waits /\ waits[cs] = Nobody
    BY <1>3, AfterFacts DEF Took, Moves, MailInv, MailTypes
  <2>2. f \in Family /\ Has(box[cs], f)
    BY <1>3 DEF Took, MailInv, Inboxes, Has
  <2>3. Control'
    <3>1. \A u \in Threads : u # cs => pc[u] # "release"
      BY DEF MailInv, Control, Working, Family
    <3>2. \A u \in Threads : waits'[u] # Nobody =>
            pc'[u] \in Waiting /\ waits'[u] = Whom(u)'
      BY <1>1, <2>1, <3>1 DEF MailInv, Control, Whom
    <3> QED
      BY <2>1, <2>2, <3>2, Names DEF MailInv, Control
  <2>4. Inboxes'
    BY <1>3, <2>1, Names DEF Took, MailInv, Inboxes
  <2>5. Section'
    <3>1. ASSUME NEW c \in Family
          PROVE  (IF Holder(c) THEN Insider(c) ELSE Outsider(c))'
      <4>1. /\ Has(box'[cs], c) => Has(box[cs], c)
            /\ Once(box[cs], c) => Once(box'[cs], c) /\ (c = f => ~Has(box'[cs], c))
        BY <1>3 DEF Took
      <4>2. ~Holder(c) /\ Outsider(c) /\ ~Holder(c)' /\ (Asked(c)' <=> c = f)
        BY <1>1, <2>1 DEF MailInv, Section, Holder, Asked
      <4>3. box'[c] = box[c] /\ pc'[c] = pc[c]
        BY <2>1, Names
      <4> HIDE DEF f
      <4> QED
        BY <2>2, <4>1, <4>2, <4>3 DEF Outsider, Inside
    <3> QED
      BY <1>1, <2>1, <3>1 DEF Section
  <2>6. \A c \in Family : Request(c)'
    BY <2>1, Names DEF MailInv, Request, InHand
  <2>7. Still
    BY <1>1, <1>3, <2>1, <2>2, Names DEF Took, Still, Fresh, MailInv, Control, Apart, Working
  <2> QED
    BY <1>2, <2>3, <2>4, <2>5, <2>6, <2>7 DEF MailInv
<1>4. CASE Awaiting(cs, Anybody)
  <2>1. Control'
    BY <1>1, <1>4, Names DEF Awaiting, MailInv, Control, Whom
  <2>2. Inboxes' /\ \A c \in Family : Request(c)'
    BY <1>4 DEF Awaiting, MailInv, Inboxes, Request, InHand
  <2>3. Section'
    BY <1>1, <1>4, Names
    DEF Awaiting, MailInv, Section, Holder, Asked, Inside, Insider, Outsider
  <2>4. Still
    BY <1>1, <1>4, Names DEF Awaiting, Still, Fresh, MailInv, Control, Apart, Working
  <2> QED
    BY <1>2, <2>1, <2>2, <2>3, <2>4 DEF MailInv
<1> QED
  BY <1>2, <1>3, <1>4

\* It grants it: the one it has asked becomes the holder.
LEMMA SectionGrant ==
  ASSUME JustFamilies, MailInv, pc[cs] = "work",
         msgsend(cs, got[cs].from, "none", "release")
  PROVE  MailInv' /\ Still
<1> DEFINE h == got[cs].from
<1>1. /\ cs \in Threads /\ pc[cs] \notin Waiting /\ h \in Family
      /\ pc[h] = "csret" /\ ~Has(box[cs], h) /\ ~Has(box[h], cs)
  BY Names DEF Waiting, MailInv, Control, Section, Holder, Outsider, Asked
<1> HIDE DEF h
<1>2. MailTypes' /\ (Handed(cs, h, "none", "release") \/ Queued(cs, h, "none", "release"))
  <2>1. "release" \in Label /\ "none" \in Word /\ ~Lost(cs, h, "release")
    BY <1>1, Names DEF Label, Serving, Lost
  <2>2. msgsend(cs, h, "none", "release")
    BY DEF h
  <2> QED
    BY <1>1, <2>1, <2>2, SendOutcome DEF MailInv
<1>3. \A c \in Family : ~Holder(c) /\ Outsider(c)
  BY DEF MailInv, Section, Holder
<1>4. CASE Handed(cs, h, "none", "release")
  <2>1. /\ pc'[h] = "load" /\ pc'[cs] = "release" /\ pc'[ssi] = pc[ssi]
        /\ \A u \in Family \ {h} : pc'[u] = pc[u]
        /\ box' = box /\ got'[cs].from = h /\ got'[ssi] = got[ssi]
        /\ waits'[h] = Nobody /\ \A u \in Threads \ {h} : waits'[u] = waits[u]
    BY <1>1, <1>4, AfterFacts, Names DEF Handed, h
  <2>2. Control' /\ waits'[cs] = Nobody
    BY <1>1, <2>1, Names DEF MailInv, Control, Whom, Working, Family, Waiting
  <2>3. Inboxes'
    BY <2>1 DEF MailInv, Inboxes
  <2>4. Section'
    BY <1>1, <1>3, <2>1, <2>2, Names, NoneOnce
    DEF Section, Holder, Asked, Inside, Insider, Outsider, Once, Twice
  <2>5. \A c \in Family : Request(c)'
    BY <1>1, <2>1, Names DEF MailInv, Request, InHand
  <2>6. Still
    BY <1>1, <1>4, <2>1, <2>2, Names DEF Handed, Still, Fresh, MailInv, Control, Apart, Working
  <2> QED
    BY <1>2, <2>2, <2>3, <2>4, <2>5, <2>6 DEF MailInv
<1>5. CASE Queued(cs, h, "none", "release")
  <2>1. /\ \A u \in Threads : pc'[u] = IF u = cs THEN "release" ELSE pc[u]
        /\ got' = got /\ waits' = waits /\ got'[cs].from = h
        /\ \A u \in Threads \ {h} : box'[u] = box[u]
    BY <1>5 DEF Queued, Moves, MailInv, MailTypes, h
  <2>2. Control' /\ waits[cs] = Nobody
    BY <1>1, <2>1, Names DEF MailInv, Control, Whom, Working, h
  <2>3. Inboxes'
    BY <1>1, <2>1, Names DEF MailInv, Inboxes
  <2>4. /\ Has(box'[h], cs) /\ Once(box'[h], cs)
        /\ Has(box'[h], ssi) => Has(box[h], ssi)
        /\ Once(box[h], ssi) => Once(box'[h], ssi)
    BY <1>1, <1>5, NoneOnce, Names DEF Queued
  <2>5. Twice(box[cs], h)
    BY <1>1 DEF Has, Twice
  <2>6. Section'
    BY <1>1, <1>3, <2>1, <2>2, <2>4, <2>5, Names
    DEF Section, Holder, Asked, Inside, Insider, Outsider
  <2>7. \A c \in Family : Request(c)'
    BY <1>1, <2>1, <2>4, Names DEF MailInv, Request, InHand
  <2>8. Still
    BY <1>1, <1>5, <2>1, <2>2, Names DEF Queued, Still, Fresh, MailInv, Control, Apart, Working
  <2> QED
    BY <1>2, <2>2, <2>3, <2>6, <2>7, <2>8 DEF MailInv
<1> QED
  BY <1>2, <1>4, <1>5

\* It waits for the end of the section: the message of the holder that it
\* takes is the one that was sent on leaving.
LEMMA SectionRelease ==
  ASSUME JustFamilies, MailInv, pc[cs] = "release", msgrecv(cs, got[cs].from)
  PROVE  MailInv' /\ Still
<1> DEFINE h == got[cs].from
<1>1. cs \in Threads /\ pc[cs] \in Waiting /\ h \in Family /\ h = Whom(cs)
  BY Names DEF Waiting, Whom, MailInv, Control
<1> HIDE DEF h
<1>2. MailTypes' /\ (Took(cs, h) \/ Awaiting(cs, h))
  <2>1. msgrecv(cs, h) /\ h \in Threads
    BY <1>1, Names DEF h
  <2> QED
    BY <1>1, <2>1, ReceiveOutcome DEF MailInv
<1>3. CASE Took(cs, h)
  <2>1. /\ \A u \in Threads : pc'[u] = IF u = cs THEN "serve" ELSE pc[u]
        /\ \A u \in Threads \ {cs} : box'[u] = box[u] /\ got'[u] = got[u]
        /\ waits' = waits /\ waits[cs] = Nobody
    BY <1>3, AfterFacts DEF Took, Moves, MailInv, MailTypes
  <2>2. got'[cs].from = h /\ Has(box[cs], h)
    BY <1>1, <1>3, Names DEF Took, Has
  <2>3. Control'
    BY <1>1, <2>1, <2>2, Names DEF MailInv, Control, Whom, Working
  <2>4. Inboxes'
    BY <1>3, <2>1, Names DEF Took, MailInv, Inboxes
  <2>5. Section'
    <3>1. ASSUME NEW c \in Family
          PROVE  (IF Holder(c) THEN Insider(c) ELSE Outsider(c))'
      <4>1. /\ Has(box'[cs], c) => Has(box[cs], c)
            /\ Once(box[cs], c) => Once(box'[cs], c) /\ (c = h => ~Has(box'[cs], c))
            /\ Twice(box[cs], c) /\ c = h => Once(box'[cs], c)
        BY <1>3, <2>2 DEF Took
      <4>2. /\ ~Holder(c)' /\ ~Asked(c)' /\ (Holder(c) <=> c = h)
            /\ IF Holder(c) THEN Insider(c) ELSE Outsider(c)
        BY <1>1, <2>1 DEF MailInv, Section, Holder, Asked, h
      <4>3. box'[c] = box[c] /\ pc'[c] = pc[c]
        BY <2>1, Names
      <4> QED
        BY <2>2, <4>1, <4>2, <4>3 DEF Insider, Outsider, Inside
    <3> QED
      BY <1>1, <2>1, <3>1 DEF Section
  <2>6. \A c \in Family : Request(c)'
    BY <2>1, Names DEF MailInv, Request, InHand
  <2>7. Still
    BY <1>1, <1>3, <2>1, <2>2, Names DEF Took, Still, Fresh, MailInv, Control, Apart, Working
  <2> QED
    BY <1>2, <2>3, <2>4, <2>5, <2>6, <2>7 DEF MailInv
<1>4. CASE Awaiting(cs, h)
  <2>1. Control'
    BY <1>1, <1>4, Names DEF Awaiting, MailInv, Control, Whom
  <2>2. Inboxes' /\ \A c \in Family : Request(c)'
    BY <1>4 DEF Awaiting, MailInv, Inboxes, Request, InHand
  <2>3. Section'
    BY <1>1, <1>4, Names
    DEF Awaiting, MailInv, Section, Holder, Asked, Inside, Insider, Outsider, h
  <2>4. Still
    BY <1>1, <1>4, Names DEF Awaiting, Still, Fresh, MailInv, Control, Apart, Working
  <2> QED
    BY <1>2, <2>1, <2>2, <2>3, <2>4 DEF MailInv
<1> QED
  BY <1>2, <1>3, <1>4

\* The SSI answers: the client has its answer, and no request is left of it.
LEMMA SsiReply ==
  ASSUME JustFamilies, MailInv, pc[ssi] = "reply", NEW m \in Word,
         msgsend(ssi, got[ssi].from, m, "serve")
  PROVE  MailInv' /\ Still
<1> DEFINE h == got[ssi].from
<1>1. /\ ssi \in Threads /\ pc[ssi] \notin Waiting /\ h \in Family /\ InHand(h)
      /\ pc[h] = "created" /\ ~Has(box[ssi], h) /\ ~Has(box[h], ssi)
  BY Names DEF Waiting, MailInv, Control, Request, InHand
<1> HIDE DEF h
<1>2. MailTypes' /\ (Handed(ssi, h, m, "serve") \/ Queued(ssi, h, m, "serve"))
  <2>1. "serve" \in Label /\ ~Lost(ssi, h, "serve")
    BY <1>1, Names DEF Label, Serving, Lost
  <2>2. msgsend(ssi, h, m, "serve")
    BY DEF h
  <2> QED
    BY <1>1, <2>1, <2>2, SendOutcome DEF MailInv
<1>3. \A u \in Threads : u # cs => pc[u] # "release"
  BY DEF MailInv, Control, Working, Family
<1>4. CASE Handed(ssi, h, m, "serve")
  <2>1. /\ pc'[h] = "tell" /\ pc'[ssi] = "serve" /\ pc'[cs] = pc[cs]
        /\ \A u \in Family \ {h} : pc'[u] = pc[u]
        /\ box' = box /\ got'[cs] = got[cs]
        /\ waits'[h] = Nobody /\ \A u \in Threads \ {h} : waits'[u] = waits[u]
    BY <1>1, <1>4, AfterFacts, Names DEF Handed, h
  <2>2. Control'
    <3>1. \A u \in Threads : waits'[u] # Nobody =>
            pc'[u] \in Waiting /\ waits'[u] = Whom(u)'
      BY <1>1, <1>3, <2>1, Names DEF MailInv, Control, Whom, Family
    <3> QED
      BY <2>1, <3>1, Names DEF MailInv, Control, Working
  <2>3. Inboxes'
    BY <2>1 DEF MailInv, Inboxes
  <2>4. Section'
    BY <1>1, <2>1, Names DEF MailInv, Section, Holder, Asked, Inside, Insider, Outsider
  <2>5. \A c \in Family : Request(c)'
    BY <1>1, <2>1, Names DEF MailInv, Request, InHand, h
  <2>6. Still
    BY <1>1, <2>1, Names DEF Still, Fresh
  <2> QED
    BY <1>2, <2>2, <2>3, <2>4, <2>5, <2>6 DEF MailInv
<1>5. CASE Queued(ssi, h, m, "serve")
  <2>1. /\ \A u \in Threads : pc'[u] = IF u = ssi THEN "serve" ELSE pc[u]
        /\ got' = got /\ waits' = waits
        /\ \A u \in Threads \ {h} : box'[u] = box[u]
    BY <1>5 DEF Queued, Moves, MailInv, MailTypes
  <2>2. Control'
    BY <1>1, <1>3, <2>1, Names DEF MailInv, Control, Whom, Waiting
  <2>3. Inboxes'
    BY <1>1, <2>1, Names DEF MailInv, Inboxes
  <2>4. /\ Once(box'[h], ssi)
        /\ Has(box'[h], cs) => Has(box[h], cs)
        /\ Once(box[h], cs) => Once(box'[h], cs)
    BY <1>1, <1>5, NoneOnce, Names DEF Queued
  <2>5. Section'
    BY <1>1, <2>1, <2>4, Names
    DEF MailInv, Section, Holder, Asked, Inside, Insider, Outsider
  <2>6. \A c \in Family : Request(c)'
    BY <1>1, <2>1, <2>4, Names DEF MailInv, Request, InHand, h
  <2>7. Still
    BY <1>1, <2>1, Names DEF Still, Fresh
  <2> QED
    BY <1>2, <2>2, <2>3, <2>5, <2>6, <2>7 DEF MailInv
<1> QED
  BY <1>2, <1>4, <1>5

(*--------------------------- pages of stack ----------------------------*)

\* A step that leaves the pages alone.
LEMMA PagesKept ==
  ASSUME StackInv, Still, UNCHANGED <<sp, stackalloc, free>>,
         \A c \in Family : state'[c].sp = state[c].sp /\ page'[c] = page[c],
         made[ssi] # <<>> => made'[ssi] # <<>>
  PROVE  Supply' /\ Pages'
<1>1. \A i \in DOMAIN free : free[i] \in Family
  BY DEF StackInv, OwnTypes
<1>2. Supply'
  BY <1>1 DEF StackInv, Supply, Still
<1>3. Pages'
  BY DEF StackInv, Pages, Still, OwnStack
<1> QED
  BY <1>2, <1>3

\* A step of the mailboxes only.
LEMMA OwnKept ==
  ASSUME StackInv, MailInv', Still, UNCHANGED own
  PROVE  StackInv'
<1>1. UNCHANGED <<sp, stackalloc, free, state, page, made>>
  BY DEF own
<1>2. Supply' /\ Pages'
  BY <1>1, PagesKept
<1>3. OwnTypes'
  BY DEF own, StackInv, OwnTypes
<1> QED
  BY <1>2, <1>3 DEF StackInv

\* The SSI makes a thread: it takes over the page of the client, that asks
\* for nothing more.
LEMMA CreateStack ==
  ASSUME JustFamilies, StackInv, Create
  PROVE  StackInv'
<1> DEFINE t == Head(free)
           c == got[ssi].from
           x == state[got[ssi].msg]
<1>1. /\ pc[ssi] = "work" /\ free # <<>> /\ free' = Tail(free)
      /\ code' = [code EXCEPT ![t] = x.pc] /\ sp' = [sp EXCEPT ![t] = x.sp]
      /\ made' = [made EXCEPT ![ssi] = Append(@, t)]
      /\ pc' = [pc EXCEPT ![t] = "start", ![ssi] = "reply"]
      /\ UNCHANGED <<box, waits, got, boss, heard, page, stackalloc, state>>
  BY DEF Create, At, mvars
<1>2. c \in Family /\ got[ssi].msg = c /\ c \in Buffers /\ ssi \in Threads \ Family
  BY <1>1, Names DEF StackInv, MailInv, Control, Buffers
<1>3. x.sp = state[c].sp /\ x.sp \in Int /\ x.pc \in Runs
  BY <1>2 DEF StackInv, OwnTypes
<1>4. /\ free \in Seq(Family) /\ Len(free) \in Nat \ {0} /\ t = free[1]
      /\ t \in Family /\ Tail(free) \in Seq(Family) /\ Len(Tail(free)) = Len(free) - 1
      /\ \A i \in 1..(Len(free) - 1) : Tail(free)[i] = free[i + 1]
  BY <1>1, EmptySeq, HeadTailProperties DEF StackInv, OwnTypes
<1>5. pc[t] = "free"
  BY <1>4 DEF StackInv, Supply
<1> HIDE DEF t, x, c
<1>6. /\ \A u \in Threads : pc'[u] = IF u = ssi THEN "reply" ELSE IF u = t THEN "start" ELSE pc[u]
      /\ \A u \in Threads : sp'[u] = IF u = t THEN x.sp ELSE sp[u]
  BY <1>1, <1>2, <1>3, <1>4, Names DEF StackInv, MailInv, MailTypes, OwnTypes
<1>7. /\ box' = box /\ got' = got /\ waits' = waits
      /\ pc'[ssi] = "reply" /\ pc'[cs] = pc[cs] /\ pc'[t] = "start"
      /\ \A u \in Family \ {t} : pc'[u] = pc[u]
  <2>1. ssi # t /\ cs # t /\ ssi # cs /\ {ssi, cs, t} \union Family \subseteq Threads
        /\ ssi \notin Family
    BY <1>4, Names
  <2>2. box' = box /\ got' = got /\ waits' = waits
    BY <1>1
  <2> QED
    BY <1>6, <2>1, <2>2
<1>8. MailInv'
  <2>1. MailTypes'
    BY <1>1, <1>2, <1>4, Names DEF StackInv, MailInv, MailTypes, Working, Serving
  <2>2. waits[ssi] = Nobody /\ waits[t] = Nobody
    BY <1>1, <1>4, <1>5, Names DEF StackInv, MailInv, Control, Waiting
  <2>3. Control'
    <3>1. \A u \in Threads : u # cs => pc[u] # "release"
      BY DEF StackInv, MailInv, Control, Working, Family
    <3>2. \A u \in Threads : waits'[u] # Nobody =>
            pc'[u] \in Waiting /\ waits'[u] = Whom(u)'
      BY <1>6, <1>7, <2>2, <3>1 DEF StackInv, MailInv, Control, Whom
    <3> QED
      BY <1>1, <1>2, <1>7, <3>2, Names DEF StackInv, MailInv, Control, Working, c
  <2>4. Inboxes'
    BY <1>1 DEF StackInv, MailInv, Inboxes
  <2>5. Section'
    BY <1>5, <1>7, Names
    DEF StackInv, MailInv, Section, Holder, Asked, Inside, Insider, Outsider
  <2>6. \A d \in Family : Request(d)'
    BY <1>1, <1>5, <1>7, Names DEF StackInv, MailInv, Request, InHand
  <2> QED
    BY <2>1, <2>3, <2>4, <2>5, <2>6 DEF MailInv
<1>9. OwnTypes'
  <2>1. made'[ssi] \in Seq(Word) /\ made' \in [Threads -> Seq(Word)]
    BY <1>1, <1>2, <1>4, Names DEF StackInv, OwnTypes
  <2>2. code' \in [Threads -> Runs] /\ sp' \in [Threads -> Int]
    BY <1>1, <1>3, <1>4, Names DEF StackInv, OwnTypes
  <2> QED
    BY <1>1, <1>4, <2>1, <2>2 DEF StackInv, OwnTypes
<1>10. Supply'
  <2>1. made'[ssi] # <<>>
    <3>1. made[ssi] \in Seq(Word) /\ made'[ssi] = Append(made[ssi], t)
      BY <1>1, <1>2 DEF StackInv, OwnTypes
    <3>2. Len(made'[ssi]) = Len(made[ssi]) + 1 /\ Len(made[ssi]) \in Nat
      BY <3>1
    <3> QED
      BY <3>2
  <2>2. \A i \in DOMAIN free' : i + 1 \in DOMAIN free /\ free'[i] = free[i + 1] /\ i \in Nat \ {0}
    BY <1>1, <1>4
  <2>3. IsInjective(free')
    BY <1>1, <1>4, <2>2 DEF StackInv, Supply, IsInjective
  <2>4. ASSUME NEW i \in DOMAIN free' PROVE pc'[free'[i]] = "free"
    <3>1. free'[i] \in Family /\ free'[i] # t /\ pc[free'[i]] = "free"
      <4>1. 1 \in DOMAIN free /\ i + 1 # 1
        BY <1>4, <2>2
      <4> QED
        BY <1>4, <2>2, <4>1 DEF StackInv, Supply, IsInjective
    <3> QED
      BY <1>2, <1>6, <3>1, Names
  <2> QED
    BY <2>1, <2>3, <2>4 DEF Supply
<1>11. Pages'
  <2>1. \A d \in Family : (Fresh(d)' => Fresh(d) /\ d # c) /\ (pc'[d] = "store" => pc[d] = "store")
    <3>1. pc[c] = "created" /\ ~Has(box[ssi], c)
      BY <1>1, <1>2 DEF StackInv, MailInv, Request, InHand, c
    <3> QED
      BY <1>5, <1>7, <3>1, Names DEF Fresh
  <2>2. Fresh(c)
    BY <1>1 DEF Fresh, c
  <2>3. /\ x.sp >= stackalloc /\ \A u \in Threads : sp[u] # 0 => sp[u] # x.sp
        /\ \A d \in Family : Fresh(d) /\ d # c => state[d].sp # x.sp
    BY <1>2, <1>3, <2>2 DEF StackInv, Pages
  <2>4. OwnStack'
    BY <1>6, <2>3 DEF StackInv, Pages, OwnStack
  <2>5. (\A u \in Threads : sp[u] = 0 \/ sp[u] >= stackalloc)'
    BY <1>1, <1>6, <2>3 DEF StackInv, Pages
  <2>6. (\A d \in Family : pc[d] = "store" => page[d] = stackalloc - 1)'
    BY <1>1, <2>1 DEF StackInv, Pages
  <2>7. (\A d \in Family : Fresh(d) => /\ state[d].sp >= stackalloc
                                       /\ \A u \in Threads : sp[u] # 0 => sp[u] # state[d].sp)'
    BY <1>1, <1>6, <2>1, <2>3 DEF StackInv, Pages
  <2>8. (\A d, e \in Family : Fresh(d) /\ Fresh(e) /\ d # e => state[d].sp # state[e].sp)'
    BY <1>1, <2>1 DEF StackInv, Pages
  <2> QED
    BY <2>4, <2>5, <2>6, <2>7, <2>8 DEF Pages
<1> QED
  BY <1>8, <1>9, <1>10, <1>11 DEF StackInv

\* A thread reads stackalloc: the page it means to take is below all others.
LEMMA LoadStack ==
  ASSUME JustFamilies, StackInv, NEW t \in Family, LoadPage(t)
  PROVE  StackInv'
<1>1. /\ pc[t] = "load" /\ GoTo(t, "store") /\ page' = [page EXCEPT ![t] = stackalloc - 1]
      /\ UNCHANGED <<box, waits, got, code, sp, boss, made, stackalloc, state, free>>
      /\ pc' = [pc EXCEPT ![t] = "store"]
  BY DEF LoadPage, At, GoTo, mvars
<1>2. MailInv'
  BY <1>1, FamilyMove DEF StackInv
<1>3. OwnTypes'
  BY <1>1, Names DEF StackInv, OwnTypes
<1>4. \A u \in Threads : pc'[u] = IF u = t THEN "store" ELSE pc[u]
  BY <1>1 DEF StackInv, MailInv, MailTypes
<1>5. Supply'
  <2>1. \A i \in DOMAIN free : free[i] \in Threads /\ pc[free[i]] = "free"
    BY DEF StackInv, Supply, OwnTypes, Family
  <2>2. \A i \in DOMAIN free : pc'[free[i]] = "free"
    BY <1>1, <1>4, <2>1
  <2>3. IsInjective(free) /\ free' = free
    BY <1>1 DEF StackInv, Supply
  <2>4. pc'[ssi] = pc[ssi] /\ made' = made
    BY <1>1, <1>4, Names DEF Family
  <2> QED
    BY <2>2, <2>3, <2>4 DEF StackInv, Supply
<1>6. \A u \in Threads : page'[u] = IF u = t THEN stackalloc - 1 ELSE page[u]
  BY <1>1 DEF StackInv, OwnTypes
<1>7. \A c \in Family : Fresh(c)' => Fresh(c)
  BY <1>1, <1>4, Names DEF Fresh
<1>8. Pages'
  BY <1>1, <1>4, <1>6, <1>7, Names DEF StackInv, Pages, OwnStack
<1> QED
  BY <1>2, <1>3, <1>5, <1>8 DEF StackInv

\* It writes it back: nobody else has read it in between.
LEMMA StoreStack ==
  ASSUME JustFamilies, StackInv, NEW t \in Family, StorePage(t)
  PROVE  StackInv'
<1>1. code[t] # "tester" /\ t \in Threads /\ t \in Buffers
  BY Names DEF StackInv, OwnTypes, Runs, Buffers
<1>2. /\ pc[t] = "store" /\ GoTo(t, "csout") /\ stackalloc' = page[t]
      /\ state' = [state EXCEPT ![t].sp = page[t]]
      /\ UNCHANGED <<box, waits, got, code, sp, boss, made, page, free>>
      /\ pc' = [pc EXCEPT ![t] = "csout"]
  BY <1>1 DEF StorePage, At, GoTo, mvars, Buffer, Shared
<1>3. MailInv'
  BY <1>2, FamilyMove DEF StackInv
<1>4. page[t] = stackalloc - 1 /\ page[t] \in Int /\ stackalloc \in Int
  BY <1>1, <1>2 DEF StackInv, Pages, OwnTypes
<1>5. /\ state' \in [Buffers -> [sp : Int, pc : Runs]]
      /\ state'[t].sp = page[t] /\ \A u \in Buffers \ {t} : state'[u] = state[u]
  BY <1>1, <1>2, <1>4 DEF StackInv, OwnTypes
<1>6. OwnTypes'
  BY <1>2, <1>4, <1>5 DEF StackInv, OwnTypes
<1>7. \A u \in Threads : pc'[u] = IF u = t THEN "csout" ELSE pc[u]
  BY <1>2 DEF StackInv, MailInv, MailTypes
<1>8. Supply'
  BY <1>2, <1>7, Names DEF StackInv, Supply, OwnTypes
<1>9. \A c \in Family : /\ c # t => (Fresh(c)' => Fresh(c)) /\ pc[c] # "store"
                        /\ c \in Threads /\ c \in Buffers
                        /\ c # t => state'[c] = state[c]
  <2>1. ASSUME NEW c \in Family, c # t PROVE pc[c] # "store"
    BY <1>2, <2>1 DEF StackInv, MailInv, Section, Holder, Outsider, Inside
  <2> QED
    BY <1>2, <1>5, <1>7, <2>1, Names DEF Fresh, Buffers
<1>10. Pages'
  <2>1. \A c \in Family : state[c].sp \in Int
    BY <1>9 DEF StackInv, OwnTypes
  <2>2. \A u \in Threads : sp[u] \in Int
    BY DEF StackInv, OwnTypes
  <2>3. (\A u \in Threads : sp[u] = 0 \/ sp[u] >= stackalloc)'
    BY <1>2, <1>4, <2>2 DEF StackInv, Pages
  <2>4. (\A d \in Family : pc[d] = "store" => page[d] = stackalloc - 1)'
    BY <1>7, <1>9, Names
  <2>5. (\A d \in Family : Fresh(d) => /\ state[d].sp >= stackalloc
                                       /\ \A u \in Threads : sp[u] # 0 => sp[u] # state[d].sp)'
    BY <1>2, <1>4, <1>5, <1>9, <2>1, <2>2 DEF StackInv, Pages
  <2>6. (\A d, e \in Family : Fresh(d) /\ Fresh(e) /\ d # e => state[d].sp # state[e].sp)'
    BY <1>2, <1>4, <1>5, <1>9, <2>1 DEF StackInv, Pages
  <2>7. OwnStack'
    BY <1>2 DEF StackInv, Pages, OwnStack
  <2> QED
    BY <2>3, <2>4, <2>5, <2>6, <2>7 DEF Pages
<1> QED
  BY <1>3, <1>6, <1>8, <1>10 DEF StackInv

(*------------------------------ all steps ------------------------------*)

LEMMA ServerStack ==
  ASSUME JustFamilies, StackInv, ServerNext
  PROVE  StackInv'
<1>1. MailInv
  BY DEF StackInv
<1>2. CASE Serve(ssi)
  <2>1. pc[ssi] = "serve" /\ msgrecv(ssi, Anybody) /\ UNCHANGED own
    BY <1>2 DEF Serve, At
  <2> QED
    BY <1>1, <2>1, SsiServe, OwnKept
<1>3. CASE Serve(cs)
  <2>1. pc[cs] = "serve" /\ msgrecv(cs, Anybody) /\ UNCHANGED own
    BY <1>3 DEF Serve, At
  <2> QED
    BY <1>1, <2>1, SectionServe, OwnKept
<1>4. CASE Grant
  <2>1. pc[cs] = "work" /\ msgsend(cs, got[cs].from, "none", "release") /\ UNCHANGED own
    BY <1>4 DEF Grant, At
  <2> QED
    BY <1>1, <2>1, SectionGrant, OwnKept
<1>5. CASE Release
  <2>1. pc[cs] = "release" /\ msgrecv(cs, got[cs].from) /\ UNCHANGED own
    BY <1>5 DEF Release, At
  <2> QED
    BY <1>1, <2>1, SectionRelease, OwnKept
<1>6. CASE Create
  BY <1>6, CreateStack
<1>7. CASE Reply
  <2>1. /\ pc[ssi] = "reply" /\ UNCHANGED own
        /\ msgsend(ssi, got[ssi].from, Last(made[ssi]), "serve")
    BY <1>7 DEF Reply, At
  <2>2. made[ssi] \in Seq(Word) /\ made[ssi] # <<>>
    BY <2>1, Names DEF StackInv, OwnTypes, Supply
  <2>3. Last(made[ssi]) \in Word
    <3>1. Len(made[ssi]) \in Nat /\ Len(made[ssi]) # 0
      BY <2>2, EmptySeq
    <3> QED
      BY <2>2, <3>1 DEF Last
  <2> QED
    BY <1>1, <2>1, <2>3, SsiReply, OwnKept
<1> QED
  BY <1>2, <1>3, <1>4, <1>5, <1>6, <1>7 DEF ServerNext

LEMMA ThreadStack ==
  ASSUME JustFamilies, StackInv, NEW t \in Family, ThreadNext(t)
  PROVE  StackInv'
<1>1. /\ MailInv /\ t \in Threads /\ t \in Word /\ t \notin {ssi, cs} /\ code[t] # "tester"
      /\ got[t].msg \in Word /\ boss[t] \in Word /\ "none" \in Word
  BY Names DEF StackInv, MailInv, MailTypes, OwnTypes, Runs, Message
<1>2. CASE CSIN(t)
  <2>1. CASE At(t, "csin") /\ msgsend(t, cs, "none", "csret") /\ UNCHANGED own
    BY <1>1, <2>1, FamilyToSection, OwnKept DEF At
  <2>2. CASE At(t, "csret") /\ msgrecv(t, cs) /\ UNCHANGED own
    BY <1>1, <2>2, FamilyReceive, OwnKept DEF At
  <2> QED
    BY <1>2, <2>1, <2>2 DEF CSIN
<1>3. CASE LoadPage(t)
  BY <1>3, LoadStack
<1>4. CASE StorePage(t)
  BY <1>4, StoreStack
<1>5. CASE CSOUT(t)
  <2>1. pc[t] = "csout" /\ msgsend(t, cs, "none", "ask") /\ UNCHANGED own
    BY <1>1, <1>5 DEF CSOUT, At, Shared
  <2> QED
    BY <1>1, <2>1, FamilyToSection, OwnKept
<1>6. CASE Fill(t)
  <2>1. /\ pc[t] = "fill" /\ GoTo(t, "csin")
        /\ state' = [state EXCEPT ![t].pc = Wanted(t)]
        /\ UNCHANGED <<code, sp, boss, made, heard, page, stackalloc, free>>
    BY <1>1, <1>6 DEF Fill, At, Shared, Buffer
  <2>2. MailInv' /\ Still
    BY <1>1, <2>1, FamilyMove DEF Apart, Waiting
  <2>3. Wanted(t) \in Runs
    BY <1>1 DEF Wanted, Runs
  <2>4. /\ state' \in [Buffers -> [sp : Int, pc : Runs]]
        /\ \A c \in Family : state'[c].sp = state[c].sp
    BY <1>1, <2>1, <2>3, Names DEF StackInv, OwnTypes, Buffers
  <2>5. Supply' /\ Pages'
    BY <2>1, <2>2, <2>4, PagesKept
  <2>6. OwnTypes'
    BY <2>1, <2>4 DEF StackInv, OwnTypes
  <2> QED
    BY <2>2, <2>5, <2>6 DEF StackInv
<1>7. CASE create_process(t)
  <2>1. CASE At(t, "ask") /\ msgsend(t, ssi, t, "created") /\ UNCHANGED own
    BY <1>1, <2>1, FamilyToSsi, OwnKept DEF At
  <2>2. CASE At(t, "created") /\ msgrecv(t, ssi) /\ UNCHANGED own
    BY <1>1, <2>2, FamilyReceive, OwnKept DEF At
  <2> QED
    BY <1>1, <1>7, <2>1, <2>2 DEF create_process, Buffer, Shared
<1>8. CASE Tell(t)
  <2> DEFINE m == IF code[t] = "p8child" THEN boss[t] ELSE t
             next == IF Len(made[t]) + 1 = Quota(t) THEN Later(t)
                     ELSE IF code[t] = "p8child" THEN "fill" ELSE "csin"
  <2>1. /\ pc[t] = "tell" /\ msgsend(t, got[t].msg, m, next)
        /\ made' = [made EXCEPT ![t] = Append(@, got[t].msg)]
        /\ UNCHANGED <<code, sp, boss, heard, page, stackalloc, state, free>>
    BY <1>8 DEF Tell, At
  <2>2. m \in Word /\ next \in Apart /\ pc[t] \in Apart \ Waiting
    BY <1>1, <2>1 DEF Later, Apart, Waiting
  <2> HIDE DEF m, next
  <2>3. MailInv' /\ Still
    BY <1>1, <2>1, <2>2, FamilySend
  <2>4. made' \in [Threads -> Seq(Word)] /\ made'[ssi] = made[ssi]
    BY <1>1, <2>1, Names DEF StackInv, OwnTypes
  <2>5. Supply' /\ Pages'
    BY <2>1, <2>3, <2>4, PagesKept
  <2>6. OwnTypes'
    BY <2>1, <2>4 DEF StackInv, OwnTypes
  <2> QED
    BY <2>3, <2>5, <2>6 DEF StackInv
<1>9. CASE Begin(t)
  <2>1. CASE At(t, "start") /\ msgrecv(t, Anybody) /\ UNCHANGED own
    BY <1>1, <2>1, FamilyReceive, OwnKept DEF At
  <2>2. ASSUME At(t, "begin"), NEW next \in {"answer", "fill"}, GoTo(t, next),
               boss' = [boss EXCEPT ![t] = got[t].msg],
               UNCHANGED <<code, sp, made, heard, page, stackalloc, state, free>>
        PROVE  StackInv'
    <3>1. MailInv' /\ Still
      BY <1>1, <2>2, FamilyMove DEF At, Apart, Waiting
    <3>2. Supply' /\ Pages'
      BY <2>2, <3>1, PagesKept
    <3>3. OwnTypes'
      BY <1>1, <2>2, Names DEF StackInv, OwnTypes
    <3> QED
      BY <3>1, <3>2, <3>3 DEF StackInv
  <2> QED
    BY <1>9, <2>1, <2>2 DEF Begin
<1>10. CASE Answer(t)
  <2>1. pc[t] = "answer" /\ msgsend(t, boss[t], "none", "forever") /\ UNCHANGED own
    BY <1>10 DEF Answer, At
  <2>2. "answer" \in Apart \ Waiting /\ "forever" \in Apart
    BY DEF Apart, Waiting
  <2> QED
    BY <1>1, <2>1, <2>2, FamilySend, OwnKept
<1>11. CASE Forever(t)
  BY <1>1, <1>11, FamilyReceive, OwnKept DEF Forever, At
<1>12. CASE Collect(t)
  <2>1. CASE At(t, "collect") /\ msgrecv(t, Anybody) /\ UNCHANGED own
    BY <1>1, <2>1, FamilyReceive, OwnKept DEF At
  <2>2. ASSUME At(t, "count"), NEW next \in {"collect", "done"}, GoTo(t, next),
               UNCHANGED <<code, sp, boss, made, page, stackalloc, state, free>>
        PROVE  StackInv'
    <3>1. MailInv' /\ Still
      BY <1>1, <2>2, FamilyMove DEF At, Apart, Waiting
    <3>2. Supply' /\ Pages'
      BY <2>2, <3>1, PagesKept
    <3>3. OwnTypes'
      BY <2>2 DEF StackInv, OwnTypes
    <3> QED
      BY <3>1, <3>2, <3>3 DEF StackInv
  <2> QED
    BY <1>12, <2>1, <2>2 DEF Collect
<1> QED
  BY <1>2, <1>3, <1>4, <1>5, <1>6, <1>7, <1>8, <1>9, <1>10, <1>11, <1>12
  DEF ThreadNext, CreatorNext

LEMMA StackInit ==
  ASSUME JustFamilies, CInit
  PROVE  StackInv
<1>1. /\ box = [t \in Threads |-> <<>>] /\ waits = [t \in Threads |-> Nobody]
      /\ got = [t \in Threads |-> NoMail] /\ free = Blocks
      /\ sp = [t \in Threads |-> 0] /\ page = [t \in Threads |-> 0]
      /\ stackalloc = Len(Blocks) + 1 /\ boss = [t \in Threads |-> t]
      /\ made = [t \in Threads |-> <<>>]
      /\ state = [b \in Buffers |-> [sp |-> 0, pc |-> "p8child"]]
  BY DEF CInit, Clear
<1>2. /\ \A t \in Threads : code[t] = IF t = ssi THEN "ssi_entry" ELSE IF t = cs THEN "cs_thread"
                                 ELSE IF t \in DOMAIN starters THEN "p8" ELSE "p8child"
      /\ code \in [Threads -> Runs]
  BY DEF CInit, JustFamilies, Runs
<1>3. /\ \A t \in Threads : pc[t] = IF t \in {ssi, cs} THEN "serve"
                                    ELSE IF t \in DOMAIN starters THEN "fill" ELSE "free"
      /\ pc \in [Threads -> Serving \union Working]
  BY <1>2 DEF CInit, JustFamilies, Serving, Working
<1>4. /\ Blocks \in Seq(Threads) /\ Len(Blocks) \in Nat /\ DOMAIN Blocks = 1..Len(Blocks)
      /\ \A i \in DOMAIN Blocks : Blocks[i] \in Family \ DOMAIN starters
  BY ClientsAssumption DEF JustFamilies, Family
<1>5. Blocks \in Seq(Family)
  <2>1. \A i \in 1..Len(Blocks) : Blocks[i] \in Family
    BY <1>4
  <2> QED
    BY <1>4, <2>1, IsASeq
<1>6. MailTypes
  BY <1>1, <1>3, Names DEF MailTypes, NoMail, Message
<1>7. OwnTypes
  <2>1. sp \in [Threads -> Int] /\ page \in [Threads -> Int] /\ stackalloc \in Int
    BY <1>1, <1>4
  <2>2. boss \in [Threads -> Threads \union Word] /\ \A c \in Family : boss[c] \in Word
    BY <1>1, Names
  <2>3. made \in [Threads -> Seq(Word)]
    BY <1>1
  <2>4. state \in [Buffers -> [sp : Int, pc : Runs]]
    BY <1>1 DEF Runs
  <2> QED
    BY <1>1, <1>2, <1>5, <2>1, <2>2, <2>3, <2>4 DEF OwnTypes
<1>8. Control
  BY <1>1, <1>3, Names DEF Control, Working, Family
<1>9. Inboxes /\ Section /\ \A c \in Family : Request(c)
  <2>1. \A u \in Threads : \A f : ~Has(box[u], f) /\ Once(box[u], f)
    BY <1>1 DEF Has, Once
  <2>2. \A u \in Threads : DOMAIN box[u] = {}
    BY <1>1
  <2> QED
    BY <1>1, <1>3, <2>1, <2>2, Names
    DEF Inboxes, Section, Request, InHand, Holder, Asked, Inside, Outsider
<1>10. Supply
  BY <1>1, <1>3, <1>4, Names DEF Supply, JustFamilies, Family
<1>11. Pages
  <2>1. \A c \in Family : pc[c] \in {"fill", "free"} /\ ~Fresh(c)
    BY <1>1, <1>3, Names DEF Fresh, Has, Family
  <2> QED
    BY <1>1, <2>1 DEF Pages, OwnStack
<1> QED
  BY <1>6, <1>7, <1>8, <1>9, <1>10, <1>11 DEF StackInv, MailInv

LEMMA StackInductive ==
  ASSUME JustFamilies
  PROVE  CSpec => []StackInv
<1>1. CInit => StackInv
  BY StackInit
<1>2. StackInv /\ [CNext]_cvars => StackInv'
  <2> SUFFICES ASSUME StackInv, [CNext]_cvars PROVE StackInv'
    OBVIOUS
  <2>1. CASE UNCHANGED cvars
    <3>1. UNCHANGED <<box, waits, pc, got>> /\ UNCHANGED own
      BY <2>1 DEF cvars, mvars
    <3>2. MailInv'
      BY <3>1 DEF StackInv, MailInv, MailTypes, Control, Whom, Inboxes, Section, Holder,
                  Asked, Inside, Insider, Outsider, Request, InHand
    <3>3. Still
      BY <3>1 DEF Still, Fresh
    <3> QED
      BY <3>1, <3>2, <3>3, OwnKept
  <2>2. CASE CNext
    BY <2>2, ServerStack, ThreadStack DEF CNext, Family
  <2> QED
    BY <2>1, <2>2
<1> QED
  BY <1>1, <1>2, PTL DEF CSpec

\* No two threads that p8 or its descendants create share a page of stack, for
\* any number of families, children and grandchildren, however their messages
\* to the server of the critical section and to the SSI overtake one another.
THEOREM StackSound ==
  ASSUME JustFamilies
  PROVE  CSpec => []OwnStack
<1>1. StackInv => OwnStack
  BY DEF StackInv, Pages
<1> QED
  BY <1>1, StackInductive, PTL

(*---------------------------- one family -------------------------------*)

\* One thread like p8, which makes a child at least, as each child does.
OneFamily ==
  /\ JustFamilies
  /\ \E t \in Threads : DOMAIN starters = {t}
  /\ CHILDREN > 0 /\ NGRANDCHILDREN > 0
  /\ Roles \intersect Threads = {}

Eldest == CHOOSE t \in DOMAIN starters : TRUE

\* Between the start of a thread and its next, if any.
Creating == {"fill", "csin", "csret", "load", "store", "csout", "ask", "created", "tell"}
Early    == {"free", "start", "begin"}

Grandchild(c) == code[c] = "p8grandchild"

\* What a thread does.
Duty(c) ==
  IF c = Eldest THEN code[c] = "p8" /\ pc[c] \in Creating \union {"collect", "count", "done"}
  ELSE \/ code[c] = "p8child" /\ pc[c] \in Early \union Creating \union {"forever", "done"}
       \/ Grandchild(c) /\ pc[c] \in {"start", "begin", "answer", "forever", "done"}

\* Once filled, the state that a thread keeps for the next one says what that is to run.
Filled(c) ==
  ~Grandchild(c) /\ pc[c] \notin Early \union {"fill"} => state[c].pc = Wanted(c)

\* How many threads a thread has made and named.
InQuota(c) ==
  /\ ~Grandchild(c) => Len(made[c]) <= Quota(c)
  /\ pc[c] \in Creating => Len(made[c]) < Quota(c)
  /\ pc[c] \in Early \/ Grandchild(c) => made[c] = <<>>

\* What messages say to c: the SSI names a new thread, the family names p8.
Fit(c, e) ==
  /\ e.from = ssi => e.msg \in Family \ {Eldest}
  /\ e.from \in Family /\ c # Eldest => e.msg = Eldest

Kin(c) ==
  /\ \A i \in DOMAIN box[c] : Fit(c, box[c][i])
  /\ pc[c] = "tell" => got[c].msg \in Family \ {Eldest}
  /\ pc[c] = "begin" => got[c].msg = Eldest
  /\ c # Eldest /\ pc[c] \notin Early => boss[c] = Eldest

Local(c) == Duty(c) /\ Filled(c) /\ InQuota(c) /\ Kin(c)

\* What p8 hears: each grandchild that has answered is in its box, in its
\* hands or in what it has counted, and at one place only.
Answered(g) == Grandchild(g) /\ pc[g] \in {"forever", "done"}

InHands(g) == pc[Eldest] = "count" /\ got[Eldest].from = g

Hearing ==
  /\ \A g \in Family :
       /\ Once(box[Eldest], g)
       /\ Has(box[Eldest], g) \/ InHands(g) \/ Contains(heard[Eldest], g) => Answered(g)
       /\ Has(box[Eldest], g) => ~InHands(g) /\ ~Contains(heard[Eldest], g)
       /\ InHands(g) => ~Contains(heard[Eldest], g)
  /\ pc[Eldest] = "count" => got[Eldest].from \in Family
  /\ ToSet(heard[Eldest]) \subseteq Family
  /\ IsInjective(heard[Eldest])
  /\ IF pc[Eldest] = "done" THEN Len(heard[Eldest]) = Awaited
     ELSE Len(heard[Eldest]) < Awaited

\* Every thread has a maker, and is its first, second ... : those that its
\* maker has named, and the one that it is about to name.
Pending(c) == pc[c] = "tell" \/ Has(box[c], ssi) \/ (pc[ssi] = "reply" /\ got[ssi].from = c)
Out(c)     == Len(made[c]) + IF Pending(c) THEN 1 ELSE 0
Born(c)    == c \in Family \ {Eldest} /\ pc[c] # "free"

Lineage(maker, rank) ==
  /\ maker \in [Threads -> Family] /\ rank \in [Threads -> Nat]
  /\ \A u \in Family : Born(u) =>
       /\ code[maker[u]] \in {"p8", "p8child"} /\ code[u] = Wanted(maker[u])
       /\ rank[u] \in 1..Out(maker[u])
  /\ \A u, v \in Family :
       Born(u) /\ Born(v) /\ maker[u] = maker[v] /\ rank[u] = rank[v] => u = v

\* Every page that is taken was taken by somebody, for its first, second ... thread.
Spent   == {"csout", "ask", "created", "tell"}
Used(c) == Len(made[c]) + IF pc[c] \in Spent THEN 1 ELSE 0

Taken(who, nth) ==
  /\ who \in [Int -> Family] /\ nth \in [Int -> Nat]
  /\ \A p \in stackalloc..Len(Blocks) : nth[p] \in 1..Used(who[p])
  /\ \A p, r \in stackalloc..Len(Blocks) : who[p] = who[r] /\ nth[p] = nth[r] => p = r

Heights ==
  /\ stackalloc <= Len(Blocks) + 1
  /\ \A b \in Buffers : state[b].sp <= Len(Blocks) + 1
  /\ \A t \in Threads : sp[t] <= Len(Blocks) + 1

Names8 ==
  /\ boss \in [Threads -> Threads]
  /\ made \in [Threads -> Seq(Threads)] /\ heard \in [Threads -> Seq(Threads)]
  /\ code[ssi] = "ssi_entry" /\ code[cs] = "cs_thread"
  /\ pc[ssi] = "reply" => Last(made[ssi]) \in Family \ {Eldest}

Grown   == (\A c \in Family : Local(c)) /\ Names8 /\ Hearing /\ Heights
Counted(maker, rank, who, nth) == Lineage(maker, rank) /\ Taken(who, nth)

LEMMA EldestIs ==
  ASSUME OneFamily
  PROVE  Eldest \in Family /\ DOMAIN starters = {Eldest} /\ starters[Eldest] = "p8"
BY ClientsAssumption DEF OneFamily, JustFamilies, Eldest, Family

(*--------------------------- what one thread sees ----------------------*)

\* A step that is another thread's: c may be sent something that fits.
LEMMA LocalStays ==
  ASSUME NEW c \in Family, Local(c), pc'[c] = pc[c], got'[c] = got[c],
         code'[c] = code[c], made'[c] = made[c], state'[c] = state[c], boss'[c] = boss[c],
         \A i \in DOMAIN box'[c] : Fit(c, box'[c][i])
  PROVE  Local(c)'
<1>1. Duty(c)' /\ Filled(c)'
  BY DEF Local, Duty, Filled, Grandchild, Wanted
<1>2. InQuota(c)'
  BY DEF Local, InQuota, Quota, Grandchild
<1>3. Kin(c)'
  BY DEF Local, Kin, Fit
<1> QED
  BY <1>1, <1>2, <1>3 DEF Local

\* c receives something that fits.
LEMMA LocalGets ==
  ASSUME NEW c \in Family, Local(c), pc[c] \in Waiting, pc'[c] = After[pc[c]],
         code'[c] = code[c], made'[c] = made[c], state'[c] = state[c], boss'[c] = boss[c],
         \A i \in DOMAIN box'[c] : Fit(c, box'[c][i]),
         Fit(c, got'[c]),
         pc[c] = "created" => got'[c].from = ssi,
         pc[c] = "start" => got'[c].from \in Family
  PROVE  Local(c)'
<1>1. pc[c] \in {"csret", "created", "start", "collect", "forever"}
  BY DEF Local, Duty, Waiting, Early, Creating
<1>2. \/ pc[c] = "csret" /\ pc'[c] = "load"
      \/ pc[c] = "created" /\ pc'[c] = "tell"
      \/ pc[c] = "start" /\ pc'[c] = "begin"
      \/ pc[c] = "collect" /\ pc'[c] = "count"
      \/ pc[c] = "forever" /\ pc'[c] = "done"
  BY <1>1, AfterFacts
<1>3. Duty(c)'
  BY <1>2 DEF Local, Duty, Grandchild, Early, Creating
<1>4. Filled(c)'
  BY <1>2 DEF Local, Filled, Duty, Grandchild, Wanted, Early
<1>5. InQuota(c)'
  BY <1>2 DEF Local, InQuota, Quota, Grandchild, Early, Creating
<1>6. Kin(c)'
  BY <1>2 DEF Local, Duty, Kin, Fit, Early, Creating
<1> QED
  BY <1>3, <1>4, <1>5, <1>6 DEF Local

\* c goes on, on its way to a new thread, or has just filled its state.
LEMMA LocalMoves ==
  ASSUME NEW c \in Family, Local(c), box'[c] = box[c], pc[c] \in Creating \ {"tell"},
         pc'[c] \in Creating \ {"fill", "tell"},
         code'[c] = code[c], made'[c] = made[c], boss'[c] = boss[c],
         state'[c].pc = IF pc[c] = "fill" THEN Wanted(c) ELSE state[c].pc
  PROVE  Local(c)'
<1>1. Duty(c)'
  BY DEF Local, Duty, Grandchild, Creating
<1>2. Filled(c)'
  BY DEF Local, Filled, Duty, Grandchild, Wanted, Early, Creating
<1>3. InQuota(c)'
  BY DEF Local, InQuota, Quota, Grandchild, Early, Creating
<1>4. Kin(c)'
  BY DEF Local, Kin, Fit, Early, Creating
<1> QED
  BY <1>1, <1>2, <1>3, <1>4 DEF Local

(*------------------------ what is counted and heard --------------------*)

\* The one that hears of nobody in a step knows what it did.
LEMMA HearingKept ==
  ASSUME OneFamily, Hearing, heard'[Eldest] = heard[Eldest],
         \A g \in Family : Has(box'[Eldest], g) => Has(box[Eldest], g),
         \A g \in Family : Once(box[Eldest], g) => Once(box'[Eldest], g),
         pc'[Eldest] = "count" => pc[Eldest] = "count" /\ got'[Eldest] = got[Eldest],
         pc'[Eldest] = "done" <=> pc[Eldest] = "done",
         \A g \in Family : Answered(g) => Answered(g)'
  PROVE  Hearing'
<1>1. Eldest \in Family
  BY EldestIs
<1>2. \A g \in Family : InHands(g)' => InHands(g)
  BY DEF InHands
<1>3. \A g \in Family :
        /\ Once(box'[Eldest], g)
        /\ Has(box'[Eldest], g) \/ InHands(g)' \/ Contains(heard'[Eldest], g) => Answered(g)'
        /\ Has(box'[Eldest], g) => ~InHands(g)' /\ ~Contains(heard'[Eldest], g)
        /\ InHands(g)' => ~Contains(heard'[Eldest], g)
  BY <1>2 DEF Hearing
<1>4. pc'[Eldest] = "count" => got'[Eldest].from \in Family
  BY DEF Hearing
<1>5. /\ ToSet(heard'[Eldest]) \subseteq Family
      /\ IsInjective(heard'[Eldest])
      /\ IF pc'[Eldest] = "done" THEN Len(heard'[Eldest]) = Awaited
         ELSE Len(heard'[Eldest]) < Awaited
  BY DEF Hearing
<1> QED
  BY <1>3, <1>4, <1>5 DEF Hearing

LEMMA OutType ==
  ASSUME OneFamily, StackInv, NEW c \in Family
  PROVE  /\ Len(made[c]) \in Nat /\ Out(c) \in Nat /\ Used(c) \in Nat
         /\ Pending(c) => Out(c) = Len(made[c]) + 1
         /\ ~Pending(c) => Out(c) = Len(made[c])
         /\ pc[c] \in Spent => Used(c) = Len(made[c]) + 1
         /\ pc[c] \notin Spent => Used(c) = Len(made[c])
<1>1. made[c] \in Seq(Word)
  BY Names DEF OneFamily, StackInv, OwnTypes
<1>2. Len(made[c]) \in Nat
  BY <1>1
<1>3. /\ Pending(c) => Out(c) = Len(made[c]) + 1
      /\ ~Pending(c) => Out(c) = Len(made[c]) + 0
  BY DEF Out
<1>4. /\ pc[c] \in Spent => Used(c) = Len(made[c]) + 1
      /\ pc[c] \notin Spent => Used(c) = Len(made[c]) + 0
  BY DEF Used
<1> QED
  BY <1>2, <1>3, <1>4

LEMMA NextOut ==
  ASSUME OneFamily, StackInv', NEW c \in Family
  PROVE  /\ Len(made'[c]) \in Nat /\ Out(c)' \in Nat /\ Used(c)' \in Nat
         /\ Pending(c)' => Out(c)' = Len(made'[c]) + 1
         /\ ~Pending(c)' => Out(c)' = Len(made'[c])
         /\ pc'[c] \in Spent => Used(c)' = Len(made'[c]) + 1
         /\ pc'[c] \notin Spent => Used(c)' = Len(made'[c])
<1>1. made'[c] \in Seq(Word)
  BY Names DEF OneFamily, StackInv, OwnTypes
<1>2. Len(made'[c]) \in Nat
  BY <1>1
<1>3. /\ Pending(c)' => Out(c)' = Len(made'[c]) + 1
      /\ ~Pending(c)' => Out(c)' = Len(made'[c]) + 0
  BY DEF Out
<1>4. /\ pc'[c] \in Spent => Used(c)' = Len(made'[c]) + 1
      /\ pc'[c] \notin Spent => Used(c)' = Len(made'[c]) + 0
  BY DEF Used
<1> QED
  BY <1>2, <1>3, <1>4

\* Steps in which nobody is created, named or given a page.
LEMMA CountedKept ==
  ASSUME OneFamily, StackInv, NEW maker, NEW rank, NEW who, NEW nth,
         Counted(maker, rank, who, nth),
         UNCHANGED <<code, stackalloc>>,
         \A c \in Family : /\ Born(c)' => Born(c)
                           /\ Out(c)' \in Nat /\ Out(c) <= Out(c)'
                           /\ Used(c)' \in Nat /\ Used(c) <= Used(c)'
  PROVE  Counted(maker, rank, who, nth)'
<1>1. \A c \in Family : Out(c) \in Nat /\ Used(c) \in Nat
  BY OutType
<1>2. Lineage(maker, rank)'
  <2>1. ASSUME NEW u \in Family, Born(u)'
        PROVE  /\ code'[maker[u]] \in {"p8", "p8child"} /\ code'[u] = Wanted(maker[u])'
               /\ rank[u] \in 1..Out(maker[u])'
    <3>1. Born(u) /\ maker[u] \in Family
      BY <2>1, Names DEF OneFamily, Counted, Lineage
    <3>2. /\ code[maker[u]] \in {"p8", "p8child"} /\ code[u] = Wanted(maker[u])
          /\ rank[u] \in 1..Out(maker[u])
      BY <3>1 DEF Counted, Lineage
    <3>3. Wanted(maker[u])' = Wanted(maker[u])
      BY DEF Wanted
    <3>4. rank[u] \in 1..Out(maker[u])'
      BY <1>1, <3>1, <3>2
    <3> QED
      BY <3>2, <3>3, <3>4
  <2> QED
    BY <2>1 DEF Counted, Lineage
<1>3. Taken(who, nth)'
  <2>1. ASSUME NEW p \in stackalloc..Len(Blocks)
        PROVE  nth[p] \in 1..Used(who[p])'
    <3>1. p \in Int
      BY ClientsAssumption DEF StackInv, OwnTypes
    <3>2. who[p] \in Family /\ nth[p] \in 1..Used(who[p])
      BY <3>1 DEF Counted, Taken
    <3> QED
      BY <1>1, <3>2
  <2> QED
    BY <2>1 DEF Counted, Taken
<1> QED
  BY <1>2, <1>3 DEF Counted

\* Steps that name nobody either.
LEMMA CountedStays ==
  ASSUME OneFamily, StackInv, StackInv', NEW maker, NEW rank, NEW who, NEW nth,
         Counted(maker, rank, who, nth),
         UNCHANGED <<code, made, stackalloc>>,
         \A c \in Family : /\ Born(c)' => Born(c)
                           /\ Pending(c) => Pending(c)'
                           /\ pc[c] \in Spent => pc'[c] \in Spent
  PROVE  Counted(maker, rank, who, nth)'
<1> SUFFICES ASSUME NEW c \in Family
             PROVE  /\ Out(c)' \in Nat /\ Out(c) <= Out(c)'
                    /\ Used(c)' \in Nat /\ Used(c) <= Used(c)'
  BY CountedKept
<1>1. /\ Len(made[c]) \in Nat
      /\ Pending(c) => Out(c) = Len(made[c]) + 1
      /\ ~Pending(c) => Out(c) = Len(made[c])
      /\ pc[c] \in Spent => Used(c) = Len(made[c]) + 1
      /\ pc[c] \notin Spent => Used(c) = Len(made[c])
  BY OutType
<1>2. /\ Len(made'[c]) \in Nat
      /\ Pending(c)' => Out(c)' = Len(made'[c]) + 1
      /\ ~Pending(c)' => Out(c)' = Len(made'[c])
      /\ pc'[c] \in Spent => Used(c)' = Len(made'[c]) + 1
      /\ pc'[c] \notin Spent => Used(c)' = Len(made'[c])
  BY NextOut
<1>3. /\ Pending(c) => Pending(c)'
      /\ pc[c] \in Spent => pc'[c] \in Spent
      /\ made' = made
  OBVIOUS
<1>4. Out(c)' \in Nat /\ Out(c) <= Out(c)'
  <2> DEFINE n == Len(made[c])
             x == Out(c)
             y == Out(c)'
             P == Pending(c)
             Q == Pending(c)'
  <2>1. n \in Nat /\ (P => x = n + 1) /\ (~P => x = n) /\ (Q => y = n + 1) /\ (~Q => y = n)
        /\ (P => Q)
    BY <1>1, <1>2, <1>3
  <2> HIDE DEF n, x, y, P, Q
  <2>2. y \in Nat /\ x <= y
    BY <2>1
  <2> QED
    BY <2>2 DEF x, y
<1>5. Used(c)' \in Nat /\ Used(c) <= Used(c)'
  <2> DEFINE n == Len(made[c])
             x == Used(c)
             y == Used(c)'
  <2>1. n \in Nat /\ x \in {n, n + 1} /\ y \in {n, n + 1} /\ (x = n + 1 => y = n + 1)
    BY <1>1, <1>2, <1>3
  <2> HIDE DEF n, x, y
  <2>2. y \in Nat /\ x <= y
    BY <2>1
  <2> QED
    BY <2>2 DEF x, y
<1> QED
  BY <1>4, <1>5

(*---------------------------- the servers ------------------------------*)


\* A server takes a message, or waits for one.
LEMMA ServerTakes ==
  ASSUME OneFamily, StackInv, StackInv', Grown, NEW maker, NEW rank, NEW who, NEW nth,
         Counted(maker, rank, who, nth), NEW s \in {ssi, cs}, NEW f \in Threads \union {Anybody},
         pc[s] \in {"serve", "release"}, msgrecv(s, f), UNCHANGED own
  PROVE  Grown' /\ Counted(maker, rank, who, nth)'
<1>1. s \in Threads \ Family /\ ssi \in Threads \ Family /\ Family \subseteq Threads
  BY Names DEF OneFamily
<1>2. Took(s, f) \/ Awaiting(s, f)
  BY <1>1, ReceiveOutcome DEF OneFamily, StackInv, MailInv, Waiting
<1>3. \A c \in Family : pc'[c] = pc[c] /\ got'[c] = got[c] /\ box'[c] = box[c]
  BY <1>1, <1>2 DEF Took, Awaiting, Moves, StackInv, MailInv, MailTypes
<1>4. pc'[ssi] = "reply" <=> pc[ssi] = "reply"
  BY <1>1, <1>2, AfterFacts DEF Took, Awaiting, Moves, StackInv, MailInv, MailTypes, Control
<1>5. pc[ssi] = "reply" => got'[ssi] = got[ssi]
  BY <1>1, <1>2 DEF Took, Awaiting
<1>6. \A c \in Family : Local(c)'
  <2> SUFFICES ASSUME NEW c \in Family PROVE Local(c)'
    OBVIOUS
  <2>1. Local(c) /\ \A i \in DOMAIN box'[c] : Fit(c, box'[c][i])
    BY <1>3 DEF Grown, Local, Kin
  <2> QED
    BY <1>3, <2>1, LocalStays DEF own
<1>7. Eldest \in Family
  BY EldestIs
<1>8. Hearing'
  <2>1. \A g \in Family : Answered(g) => Answered(g)'
    BY <1>3 DEF Answered, Grandchild, own
  <2> QED
    BY <1>3, <1>7, <2>1, HearingKept DEF Grown, own
<1>9. Names8' /\ Heights'
  BY <1>4 DEF Grown, Names8, Heights, own
<1>10. Counted(maker, rank, who, nth)'
  <2>1. \A c \in Family : /\ Born(c)' => Born(c)
                          /\ Pending(c) => Pending(c)'
                          /\ pc[c] \in Spent => pc'[c] \in Spent
    BY <1>3, <1>4, <1>5 DEF Born, Pending
  <2> QED
    BY <2>1, CountedStays DEF own
<1> QED
  BY <1>6, <1>8, <1>9, <1>10 DEF Grown

\* A server sends m to the client it has served.
LEMMA ServerSends ==
  ASSUME OneFamily, StackInv, StackInv', Grown, NEW maker, NEW rank, NEW who, NEW nth,
         Counted(maker, rank, who, nth), NEW s \in {ssi, cs}, NEW m \in Word, NEW next,
         \/ s = cs /\ pc[s] = "work" /\ next = "release"
         \/ s = ssi /\ pc[s] = "reply" /\ next = "serve" /\ m \in Family \ {Eldest},
         msgsend(s, got[s].from, m, next), UNCHANGED own
  PROVE  Grown' /\ Counted(maker, rank, who, nth)'
<1> DEFINE to == got[s].from
           e  == [from |-> s, msg |-> m]
<1>1. /\ s \in Threads \ Family /\ ssi \in Threads \ Family /\ Family \subseteq Threads
      /\ ssi # cs /\ to \in Family
  BY Names DEF OneFamily, StackInv, MailInv, Control
<1>2. Handed(s, to, m, next) \/ Queued(s, to, m, next)
  <2>1. Handed(s, to, m, next) \/ Queued(s, to, m, next) \/ Lost(s, to, next)
    <3>1. pc[s] \notin Waiting /\ next \in Label
      BY DEF Waiting, Label, Serving
    <3> QED
      BY <1>1, <3>1, SendOutcome DEF OneFamily, StackInv, MailInv
  <2> QED
    BY <1>1, <2>1 DEF Lost
<1>3. /\ s = cs => pc[to] = "csret"
      /\ s = ssi => pc[to] = "created"
  BY <1>1 DEF StackInv, MailInv, Section, Holder, Asked, Outsider, Request, InHand
<1> HIDE DEF to
<1>4. Fit(to, e)
  BY <1>1 DEF Fit
<1>5. \A c \in Family : /\ box'[c] = box[c] \/ c = to
                        /\ \A i \in DOMAIN box'[c] : Fit(c, box'[c][i])
  <2>1. \A c \in Family : \A i \in DOMAIN box[c] : Fit(c, box[c][i])
    BY DEF Grown, Local, Kin
  <2>2. CASE Handed(s, to, m, next)
    BY <2>1, <2>2 DEF Handed
  <2>3. CASE Queued(s, to, m, next)
    BY <1>1, <1>4, <2>1, <2>3 DEF Queued
  <2> QED
    BY <1>2, <2>2, <2>3
<1>6. \A c \in Family : c # to \/ Queued(s, to, m, next) => pc'[c] = pc[c] /\ got'[c] = got[c]
  BY <1>1, <1>2 DEF Handed, Queued, Moves, StackInv, MailInv, MailTypes
<1>7. ~Queued(s, to, m, next) =>
        box' = box /\ pc'[to] = After[pc[to]] /\ got'[to] = e
  BY <1>1, <1>2 DEF Handed
<1>8. pc'[s] = next /\ (s = cs => pc'[ssi] = pc[ssi] /\ got'[ssi] = got[ssi])
  BY <1>1, <1>2 DEF Handed, Queued, Moves, StackInv, MailInv, MailTypes
<1>9. \A c \in Family : Local(c)'
  <2> SUFFICES ASSUME NEW c \in Family PROVE Local(c)'
    OBVIOUS
  <2>1. Local(c)
    BY DEF Grown
  <2>2. CASE c # to \/ Queued(s, to, m, next)
    BY <1>5, <1>6, <2>1, <2>2, LocalStays DEF own
  <2>3. CASE c = to /\ ~Queued(s, to, m, next)
    <3>1. pc[c] \in Waiting /\ (pc[c] = "created" => e.from = ssi) /\ pc[c] # "start"
      BY <1>3, <2>3 DEF Waiting
    <3> QED
      BY <1>4, <1>5, <1>7, <2>1, <2>3, <3>1, LocalGets DEF own
  <2> QED
    BY <2>2, <2>3
<1>10. Eldest \in Family
  BY EldestIs
<1>11. \A c \in Family : pc'[c] = pc[c] \/ (pc[c] = "csret" /\ pc'[c] = "load")
                                        \/ (pc[c] = "created" /\ pc'[c] = "tell" /\ c = to)
  BY <1>1, <1>3, <1>6, <1>7, AfterFacts
<1>12. Hearing'
  <2>1. \A g \in Family : Answered(g) => Answered(g)'
    BY <1>11 DEF Answered, Grandchild, own
  <2>2. \A g \in Family : /\ Has(box'[Eldest], g) => Has(box[Eldest], g)
                          /\ Once(box[Eldest], g) => Once(box'[Eldest], g)
    <3>1. CASE Queued(s, to, m, next)
      BY <1>1, <1>10, <3>1 DEF Queued
    <3>2. CASE ~Queued(s, to, m, next)
      BY <1>7, <3>2
    <3> QED
      BY <3>1, <3>2
  <2>3. pc'[Eldest] = "count" => pc[Eldest] = "count" /\ got'[Eldest] = got[Eldest]
    BY <1>1, <1>3, <1>6, <1>7, <1>10, <1>11, AfterFacts
  <2>4. pc'[Eldest] = "done" <=> pc[Eldest] = "done"
    BY <1>10, <1>11
  <2> QED
    BY <2>1, <2>2, <2>3, <2>4, HearingKept DEF Grown, own
<1>13. Names8' /\ Heights'
  BY <1>1, <1>8 DEF Grown, Names8, Heights, own
<1>14. Counted(maker, rank, who, nth)'
  <2>1. \A c \in Family : Has(box[c], ssi) => Has(box'[c], ssi)
    BY <1>1, <1>2 DEF Handed, Queued
  <2>2. s = ssi => Has(box'[to], ssi) \/ pc'[to] = "tell"
    BY <1>1, <1>2, <1>3, AfterFacts DEF Handed, Queued
  <2>3. \A c \in Family : /\ Born(c)' => Born(c)
                          /\ Pending(c) => Pending(c)'
                          /\ pc[c] \in Spent => pc'[c] \in Spent
    BY <1>1, <1>8, <1>11, <2>1, <2>2 DEF Born, Pending, Spent, to
  <2> QED
    BY <2>3, CountedStays DEF own
<1> QED
  BY <1>9, <1>12, <1>13, <1>14 DEF Grown

(*----------------------------- the family ------------------------------*)

\* What is in the box of a thread that listens to anybody comes from the family.
LEMMA FromFamily ==
  ASSUME OneFamily, StackInv, NEW c \in Family, pc[c] \notin {"csret", "created"},
         NEW f \in Threads, Has(box[c], f)
  PROVE  f \in Family
<1>1. ~Has(box[c], ssi) /\ ~Has(box[c], cs)
  BY DEF StackInv, MailInv, Request, Section, Outsider, Insider
<1> QED
  BY <1>1 DEF Family

\* A thread of the family receives, or begins to wait.
LEMMA FamilyTakes ==
  ASSUME OneFamily, StackInv, StackInv', Grown, NEW maker, NEW rank, NEW who, NEW nth,
         Counted(maker, rank, who, nth), NEW t \in Family, NEW s,
         \/ pc[t] = "csret" /\ s = cs
         \/ pc[t] = "created" /\ s = ssi
         \/ pc[t] \in {"start", "collect", "forever"} /\ s = Anybody,
         msgrecv(t, s), UNCHANGED own
  PROVE  Grown' /\ Counted(maker, rank, who, nth)'
<1>1. /\ ssi \in Threads \ Family /\ cs \in Threads \ Family /\ Family \subseteq Threads
      /\ ssi # cs /\ Anybody \notin Threads /\ Eldest \in Family
  BY Names, EldestIs DEF OneFamily
<1>2. Took(t, s) \/ Awaiting(t, s)
  BY <1>1, ReceiveOutcome DEF OneFamily, StackInv, MailInv, Waiting
<1>3. \A c \in Threads : c # t \/ Awaiting(t, s)
        => pc'[c] = pc[c] /\ got'[c] = got[c] /\ box'[c] = box[c]
  BY <1>1, <1>2 DEF Took, Awaiting, Moves, StackInv, MailInv, MailTypes
<1>4. \A c \in Family : \A i \in DOMAIN box'[c] : Fit(c, box'[c][i])
  <2>1. \A c \in Family : \A i \in DOMAIN box[c] : Fit(c, box[c][i])
    BY DEF Grown, Local, Kin
  <2>2. \A c \in Family : \A i \in DOMAIN box'[c] : \E j \in DOMAIN box[c] :
           box'[c][i] = box[c][j]
    BY <1>1, <1>2, <1>3 DEF Took
  <2> QED
    BY <2>1, <2>2
<1>5. CASE Awaiting(t, s)
  <2>1. \A c \in Family : Local(c)'
    <3> SUFFICES ASSUME NEW c \in Family PROVE Local(c)'
      OBVIOUS
    <3>1. Local(c) /\ \A i \in DOMAIN box'[c] : Fit(c, box'[c][i])
      BY <1>4 DEF Grown
    <3> QED
      BY <1>1, <1>3, <1>5, <3>1, LocalStays DEF own
  <2>2. Hearing'
    <3>1. \A g \in Family : Answered(g) => Answered(g)'
      BY <1>1, <1>3, <1>5 DEF Answered, Grandchild, own
    <3> QED
      BY <1>1, <1>3, <1>5, <3>1, HearingKept DEF Grown, own
  <2>3. Names8' /\ Heights'
    BY <1>1, <1>3, <1>5 DEF Grown, Names8, Heights, own
  <2>4. \A c \in Family : /\ Born(c)' => Born(c)
                          /\ Pending(c) => Pending(c)'
                          /\ pc[c] \in Spent => pc'[c] \in Spent
    BY <1>1, <1>3, <1>5 DEF Born, Pending
  <2>5. Counted(maker, rank, who, nth)'
    BY <2>4, CountedStays DEF own
  <2> QED
    BY <2>1, <2>2, <2>3, <2>5 DEF Grown
<1>6. CASE Took(t, s)
  <2>1. PICK i \in DOMAIN box[t] : got'[t] = box[t][i]
    BY <1>6 DEF Took
  <2> DEFINE f == got'[t].from
  <2>2. f \in Threads /\ Has(box[t], f) /\ Fit(t, got'[t])
    BY <1>1, <1>6, <2>1 DEF Took, Has, Message, Grown, Local, Kin
  <2>3. /\ pc[t] = "created" => f = ssi
        /\ pc[t] \in {"start", "collect", "forever"} => f \in Family
    BY <1>1, <1>6, <2>2, FromFamily DEF Took
  <2>4. pc'[t] = After[pc[t]]
    BY <1>1, <1>6 DEF Took, Moves, StackInv, MailInv, MailTypes
  <2>5. \A c \in Family : Local(c)'
    <3> SUFFICES ASSUME NEW c \in Family PROVE Local(c)'
      OBVIOUS
    <3>1. Local(c) /\ \A j \in DOMAIN box'[c] : Fit(c, box'[c][j])
      BY <1>4 DEF Grown
    <3>2. CASE c # t
      BY <1>1, <1>3, <3>1, <3>2, LocalStays DEF own
    <3>3. CASE c = t
      <4>1. pc[c] \in Waiting
        BY <3>3 DEF Waiting
      <4> QED
        BY <2>2, <2>3, <2>4, <3>1, <3>3, <4>1, LocalGets DEF own
    <3> QED
      BY <3>2, <3>3
  <2>6. \/ pc[t] = "csret" /\ pc'[t] = "load"
        \/ pc[t] = "created" /\ pc'[t] = "tell"
        \/ pc[t] = "start" /\ pc'[t] = "begin"
        \/ pc[t] = "collect" /\ pc'[t] = "count"
        \/ pc[t] = "forever" /\ pc'[t] = "done"
    BY <2>4, AfterFacts
  <2>7. \A g \in Family : Answered(g) <=> Answered(g)'
    BY <1>1, <1>3, <2>6 DEF Answered, Grandchild, own
  <2>8. \A g \in Family : /\ Has(box'[Eldest], g) => Has(box[Eldest], g)
                          /\ Once(box[Eldest], g) => Once(box'[Eldest], g)
    BY <1>1, <1>3, <1>6 DEF Took
  <2>9. Hearing'
    <3>1. CASE pc[t] # "collect" \/ t # Eldest
      <4>1. code[Eldest] = "p8" /\ pc[Eldest] # "forever"
        BY <1>1 DEF Grown, Local, Duty, Creating
      <4>2. /\ pc'[Eldest] = "count" => pc[Eldest] = "count" /\ got'[Eldest] = got[Eldest]
            /\ pc'[Eldest] = "done" <=> pc[Eldest] = "done"
        BY <1>1, <1>3, <2>6, <3>1, <4>1
      <4> QED
        BY <2>7, <2>8, <4>2, HearingKept DEF Grown, own
    <3>2. CASE t = Eldest /\ pc[t] = "collect"
      <4>1. f \in Family /\ pc'[Eldest] = "count" /\ heard'[Eldest] = heard[Eldest]
        BY <2>3, <2>6, <3>2 DEF own
      <4>2. Has(box[Eldest], f) /\ ~Has(box'[Eldest], f)
        BY <1>6, <2>2, <3>2, <4>1 DEF Took, Grown, Hearing
      <4>3. \A g \in Family : InHands(g)' <=> g = f
        BY <3>2, <4>1 DEF InHands
      <4>4. \A g \in Family :
              /\ Once(box'[Eldest], g)
              /\ Has(box'[Eldest], g) \/ InHands(g)' \/ Contains(heard'[Eldest], g)
                   => Answered(g)'
              /\ Has(box'[Eldest], g) => ~InHands(g)' /\ ~Contains(heard'[Eldest], g)
              /\ InHands(g)' => ~Contains(heard'[Eldest], g)
        <5> SUFFICES ASSUME NEW g \in Family
                     PROVE  /\ Once(box'[Eldest], g)
                            /\ Has(box'[Eldest], g) \/ InHands(g)' \/ Contains(heard'[Eldest], g)
                                 => Answered(g)'
                            /\ Has(box'[Eldest], g) => ~InHands(g)' /\ ~Contains(heard'[Eldest], g)
                            /\ InHands(g)' => ~Contains(heard'[Eldest], g)
          OBVIOUS
        <5>1. /\ Once(box[Eldest], g)
              /\ Has(box[Eldest], g) \/ Contains(heard[Eldest], g) => Answered(g)
              /\ Has(box[Eldest], g) => ~Contains(heard[Eldest], g)
          BY DEF Grown, Hearing
        <5> QED
          BY <2>7, <2>8, <4>1, <4>2, <4>3, <5>1
      <4>5. /\ ToSet(heard'[Eldest]) \subseteq Family
            /\ IsInjective(heard'[Eldest])
            /\ IF pc'[Eldest] = "done" THEN Len(heard'[Eldest]) = Awaited
               ELSE Len(heard'[Eldest]) < Awaited
        BY <3>2, <4>1 DEF Grown, Hearing
      <4> QED
        BY <3>2, <4>1, <4>4, <4>5 DEF Hearing
    <3> QED
      BY <3>1, <3>2
  <2>10. Names8' /\ Heights'
    BY <1>1, <1>3 DEF Grown, Names8, Heights, own
  <2>11. \A c \in Family : Pending(c) => Pending(c)'
    <3>1. ~Has(box[t], ssi) \/ pc'[t] = "tell"
      BY <1>1, <2>6 DEF StackInv, MailInv, Request
    <3> QED
      BY <1>1, <1>3, <2>6, <3>1 DEF Pending
  <2>12. \A c \in Family : /\ Born(c)' => Born(c)
                           /\ pc[c] \in Spent => pc'[c] \in Spent
    BY <1>1, <1>3, <2>6 DEF Born, Spent
  <2>13. Counted(maker, rank, who, nth)'
    BY <2>11, <2>12, CountedStays DEF own
  <2> QED
    BY <2>5, <2>9, <2>10, <2>13 DEF Grown
<1> QED
  BY <1>2, <1>5, <1>6

\* A thread of the family sends to a server.
LEMMA FamilyAsks ==
  ASSUME OneFamily, StackInv, StackInv', Grown, NEW maker, NEW rank, NEW who, NEW nth,
         Counted(maker, rank, who, nth), NEW t \in Family, NEW s \in {ssi, cs},
         NEW m \in Word, NEW next,
         \/ pc[t] = "csin" /\ next = "csret"
         \/ pc[t] = "csout" /\ next = "ask"
         \/ pc[t] = "ask" /\ next = "created",
         msgsend(t, s, m, next), UNCHANGED own
  PROVE  Grown' /\ Counted(maker, rank, who, nth)'
<1>1. /\ s \in Threads \ Family /\ ssi \in Threads \ Family /\ Family \subseteq Threads
      /\ Eldest \in Family
  BY Names, EldestIs DEF OneFamily
<1>2. Handed(t, s, m, next) \/ Queued(t, s, m, next)
  <2>1. Handed(t, s, m, next) \/ Queued(t, s, m, next) \/ Lost(t, s, next)
    <3>1. pc[t] \notin Waiting /\ next \in Label
      BY DEF Waiting, Label, Working
    <3> QED
      BY <1>1, <3>1, SendOutcome DEF OneFamily, StackInv, MailInv
  <2> QED
    BY <1>1, <2>1 DEF Lost
<1>3. \A c \in Family : /\ got'[c] = got[c] /\ box'[c] = box[c]
                        /\ pc'[c] = IF c = t THEN next ELSE pc[c]
  BY <1>1, <1>2 DEF Handed, Queued, Moves, StackInv, MailInv, MailTypes
<1>4. /\ pc'[ssi] = "reply" <=> pc[ssi] = "reply"
      /\ pc[ssi] = "reply" => got'[ssi] = got[ssi]
  <2>1. waits[ssi] # Nobody => pc[ssi] = "serve"
    BY <1>1 DEF StackInv, MailInv, Control, Waiting
  <2> QED
    BY <1>1, <1>2, <2>1, AfterFacts, Names
    DEF Handed, Queued, Moves, StackInv, MailInv, MailTypes, OneFamily
<1>5. \A c \in Family : Local(c)'
  <2> SUFFICES ASSUME NEW c \in Family PROVE Local(c)'
    OBVIOUS
  <2>1. Local(c) /\ \A i \in DOMAIN box'[c] : Fit(c, box'[c][i])
    BY <1>3 DEF Grown, Local, Kin
  <2>2. CASE c # t
    BY <1>3, <2>1, <2>2, LocalStays DEF own
  <2>3. CASE c = t
    <3>1. pc[c] \in Creating \ {"tell"} /\ pc'[c] \in Creating \ {"fill", "tell"} /\ pc[c] # "fill"
      BY <1>3, <2>3 DEF Creating
    <3> QED
      BY <1>3, <2>1, <2>3, <3>1, LocalMoves DEF own
  <2> QED
    BY <2>2, <2>3
<1>6. Hearing'
  <2>1. \A g \in Family : Answered(g) => Answered(g)'
    BY <1>3 DEF Answered, Grandchild, own
  <2>2. /\ pc'[Eldest] = "count" => pc[Eldest] = "count"
        /\ pc'[Eldest] = "done" <=> pc[Eldest] = "done"
    BY <1>1, <1>3
  <2> QED
    BY <1>1, <1>3, <2>1, <2>2, HearingKept DEF Grown, own
<1>7. Names8' /\ Heights'
  BY <1>4 DEF Grown, Names8, Heights, own
<1>8. \A c \in Family : /\ Born(c)' => Born(c)
                        /\ Pending(c) => Pending(c)'
                        /\ pc[c] \in Spent => pc'[c] \in Spent
  BY <1>3, <1>4 DEF Born, Pending, Spent
<1>9. Counted(maker, rank, who, nth)'
  BY <1>8, CountedStays DEF own
<1> QED
  BY <1>5, <1>6, <1>7, <1>9 DEF Grown

\* It goes on by itself, on its way to a new thread.
LEMMA FamilyGoes ==
  ASSUME OneFamily, StackInv, StackInv', Grown, NEW t \in Family, NEW next,
         \/ pc[t] = "load" /\ next = "store"
         \/ pc[t] = "store" /\ next = "csout"
         \/ pc[t] = "fill" /\ next = "csin",
         GoTo(t, next), UNCHANGED <<code, sp, boss, made, heard, free>>,
         \A c \in Family \ {t} : state'[c] = state[c],
         state'[t].pc = IF pc[t] = "fill" THEN Wanted(t) ELSE state[t].pc,
         stackalloc' \in Int /\ stackalloc' <= stackalloc,
         \A b \in Buffers : state'[b].sp <= Len(Blocks) + 1
  PROVE  /\ Grown'
         /\ \A c \in Family : /\ Born(c)' => Born(c)
                              /\ Pending(c) => Pending(c)'
                              /\ pc[c] \in Spent => pc'[c] \in Spent
<1>1. ssi \in Threads \ Family /\ Family \subseteq Threads /\ Eldest \in Family
  BY Names, EldestIs DEF OneFamily
<1>2. /\ got' = got /\ box' = box
      /\ \A c \in Threads : pc'[c] = IF c = t THEN next ELSE pc[c]
  BY <1>1 DEF GoTo, mvars, StackInv, MailInv, MailTypes
<1>3. \A c \in Family : Local(c)'
  <2> SUFFICES ASSUME NEW c \in Family PROVE Local(c)'
    OBVIOUS
  <2>1. Local(c) /\ \A i \in DOMAIN box'[c] : Fit(c, box'[c][i])
    BY <1>2 DEF Grown, Local, Kin
  <2>2. CASE c # t
    BY <1>1, <1>2, <2>1, <2>2, LocalStays
  <2>3. CASE c = t
    <3>1. pc[c] \in Creating \ {"tell"} /\ pc'[c] \in Creating \ {"fill", "tell"}
      BY <1>1, <1>2, <2>3 DEF Creating
    <3> QED
      BY <1>2, <2>1, <2>3, <3>1, LocalMoves
  <2> QED
    BY <2>2, <2>3
<1>4. Hearing'
  <2>1. \A g \in Family : Answered(g) => Answered(g)'
    BY <1>1, <1>2 DEF Answered, Grandchild
  <2>2. /\ pc'[Eldest] = "count" => pc[Eldest] = "count"
        /\ pc'[Eldest] = "done" <=> pc[Eldest] = "done"
    BY <1>1, <1>2
  <2> QED
    BY <1>1, <1>2, <2>1, <2>2, HearingKept DEF Grown
<1>5. Names8'
  BY <1>1, <1>2 DEF Grown, Names8
<1>6. Heights'
  <2>1. stackalloc \in Int /\ Len(Blocks) \in Nat /\ stackalloc <= Len(Blocks) + 1
    BY ClientsAssumption DEF StackInv, OwnTypes, Grown, Heights
  <2>2. stackalloc' <= Len(Blocks) + 1
    BY <2>1
  <2> QED
    BY <2>2 DEF Grown, Heights
<1>7. \A c \in Family : /\ Born(c)' => Born(c)
                        /\ Pending(c) => Pending(c)'
                        /\ pc[c] \in Spent => pc'[c] \in Spent
  BY <1>1, <1>2 DEF Born, Pending, Spent
<1> QED
  BY <1>3, <1>4, <1>5, <1>6, <1>7 DEF Grown

\* It writes stackalloc back: a page more is taken, for its next thread.
LEMMA StoreCounted ==
  ASSUME OneFamily, StackInv, StackInv', NEW maker, NEW rank, NEW who, NEW nth,
         Counted(maker, rank, who, nth), NEW t \in Family, StorePage(t),
         \A c \in Family : /\ Born(c)' => Born(c)
                           /\ Pending(c) => Pending(c)'
                           /\ pc[c] \in Spent => pc'[c] \in Spent
  PROVE  \E w, n : Counted(maker, rank, w, n)'
<1>1. /\ pc[t] = "store" /\ pc'[t] = "csout" /\ made' = made /\ code' = code
      /\ stackalloc \in Int /\ stackalloc' = stackalloc - 1 /\ Len(Blocks) \in Nat
  BY ClientsAssumption, Names
  DEF StorePage, At, GoTo, StackInv, OwnTypes, MailInv, MailTypes, Pages, OneFamily
<1>0. PICK k : k = Len(made[t]) + 1
  OBVIOUS
<1>2. /\ k \in Nat /\ Used(t) = k - 1 /\ Used(t)' = k
      /\ \A c \in Family : Used(c) \in Nat /\ Used(c)' \in Nat /\ Used(c) <= Used(c)'
  <2>1. k \in Nat /\ Used(t) = k - 1 /\ Used(t)' = k
    BY <1>0, <1>1, OutType, NextOut DEF Spent
  <2>2. ASSUME NEW c \in Family
        PROVE  Used(c) \in Nat /\ Used(c)' \in Nat /\ Used(c) <= Used(c)'
    BY <1>1, OutType, NextOut DEF Spent
  <2> QED
    BY <2>1, <2>2
<1>3. Taken(who, nth)
  BY DEF Counted
<1>4. PICK w, n :
        /\ w \in [Int -> Family] /\ n \in [Int -> Nat]
        /\ \A p \in Int : /\ w[p] = IF p = stackalloc - 1 THEN t ELSE who[p]
                          /\ n[p] = IF p = stackalloc - 1 THEN k ELSE nth[p]
  <2> DEFINE w == [who EXCEPT ![stackalloc - 1] = t]
             n == [nth EXCEPT ![stackalloc - 1] = k]
  <2>1. /\ w \in [Int -> Family] /\ n \in [Int -> Nat]
        /\ \A p \in Int : /\ w[p] = IF p = stackalloc - 1 THEN t ELSE who[p]
                          /\ n[p] = IF p = stackalloc - 1 THEN k ELSE nth[p]
    BY <1>1, <1>2, <1>3 DEF Taken
  <2> HIDE DEF w, n
  <2> QED
    BY <2>1
<1>5. \A p \in (stackalloc - 1)..Len(Blocks) : p \in Int /\ (p = stackalloc - 1 \/ p \in stackalloc..Len(Blocks))
  BY <1>1
<1>6. ASSUME NEW p \in (stackalloc - 1)..Len(Blocks) PROVE n[p] \in 1..Used(w[p])'
  <2>1. CASE p = stackalloc - 1
    <3>1. w[p] = t /\ n[p] = k
      BY <1>4, <1>5, <2>1
    <3>2. k \in 1..k
      BY <1>0, <1>2, OutType
    <3> QED
      BY <1>2, <3>1, <3>2
  <2>2. CASE p # stackalloc - 1
    <3>1. who[p] \in Family /\ nth[p] \in 1..Used(who[p]) /\ w[p] = who[p] /\ n[p] = nth[p]
      BY <1>3, <1>4, <1>5, <2>2 DEF Taken
    <3> QED
      BY <1>2, <3>1
  <2> QED
    BY <2>1, <2>2
<1>7. ASSUME NEW p \in stackalloc..Len(Blocks), who[p] = t
      PROVE  nth[p] # k
  <2>1. nth[p] \in 1..Used(t)
    BY <1>3, <1>7 DEF Taken
  <2> QED
    BY <1>2, <2>1
<1>8. ASSUME NEW p \in (stackalloc - 1)..Len(Blocks), NEW r \in (stackalloc - 1)..Len(Blocks),
             w[p] = w[r], n[p] = n[r]
      PROVE  p = r
  <2>1. \A a, b \in stackalloc..Len(Blocks) : who[a] = who[b] /\ nth[a] = nth[b] => a = b
    BY <1>3 DEF Taken
  <2> QED
    BY <1>4, <1>5, <1>7, <1>8, <2>1
<1>9. Taken(w, n)'
  BY <1>1, <1>4, <1>6, <1>8 DEF Taken
<1>10. Lineage(maker, rank)'
  <2>1. ASSUME NEW c \in Family
        PROVE  Out(c) \in Nat /\ Out(c)' \in Nat /\ Out(c) <= Out(c)'
    BY <1>1, OutType, NextOut
  <2>2. ASSUME NEW u \in Family, Born(u)'
        PROVE  /\ code'[maker[u]] \in {"p8", "p8child"} /\ code'[u] = Wanted(maker[u])'
               /\ rank[u] \in 1..Out(maker[u])'
    <3>1. Born(u) /\ maker[u] \in Family
      BY <2>2, Names DEF OneFamily, Counted, Lineage
    <3>2. /\ code[maker[u]] \in {"p8", "p8child"} /\ code[u] = Wanted(maker[u])
          /\ rank[u] \in 1..Out(maker[u])
      BY <3>1 DEF Counted, Lineage
    <3>3. Wanted(maker[u])' = Wanted(maker[u])
      BY <1>1 DEF Wanted
    <3> QED
      BY <1>1, <2>1, <3>1, <3>2, <3>3
  <2> QED
    BY <2>2 DEF Counted, Lineage
<1> QED
  BY <1>9, <1>10 DEF Counted

\* A thread of the family that does so, names nobody and is heard by nobody.
LEMMA LoadGrown ==
  ASSUME OneFamily, StackInv, StackInv', Grown, NEW maker, NEW rank, NEW who, NEW nth,
         Counted(maker, rank, who, nth), NEW t \in Family, LoadPage(t)
  PROVE  Grown' /\ Counted(maker, rank, who, nth)'
<1>1. /\ pc[t] = "load" /\ GoTo(t, "store")
      /\ UNCHANGED <<code, sp, boss, made, heard, stackalloc, state, free>>
  BY DEF LoadPage, At
<1>2. stackalloc \in Int /\ \A b \in Buffers : state[b].sp <= Len(Blocks) + 1
  BY DEF StackInv, OwnTypes, Grown, Heights
<1>3. /\ Grown'
      /\ \A c \in Family : /\ Born(c)' => Born(c)
                           /\ Pending(c) => Pending(c)'
                           /\ pc[c] \in Spent => pc'[c] \in Spent
  BY <1>1, <1>2, FamilyGoes
<1> QED
  BY <1>1, <1>3, CountedStays

LEMMA FillGrown ==
  ASSUME OneFamily, StackInv, StackInv', Grown, NEW maker, NEW rank, NEW who, NEW nth,
         Counted(maker, rank, who, nth), NEW t \in Family, Fill(t)
  PROVE  Grown' /\ Counted(maker, rank, who, nth)'
<1>0. code[t] # "tester" /\ Family \subseteq Threads
  BY Names DEF OneFamily, StackInv, OwnTypes, Runs
<1>1. /\ pc[t] = "fill" /\ GoTo(t, "csin")
      /\ state' = [state EXCEPT ![t].pc = Wanted(t)]
      /\ UNCHANGED <<code, sp, boss, made, heard, page, stackalloc, free>>
  BY <1>0 DEF Fill, At, Shared, Buffer
<1>2. stackalloc \in Int /\ \A b \in Buffers : state[b].sp <= Len(Blocks) + 1
  BY DEF StackInv, OwnTypes, Grown, Heights
<1>3. /\ state'[t].pc = Wanted(t) /\ \A c \in Family \ {t} : state'[c] = state[c]
      /\ \A b \in Buffers : state'[b].sp = state[b].sp
  BY <1>0, <1>1 DEF StackInv, OwnTypes, Buffers
<1>4. /\ Grown'
      /\ \A c \in Family : /\ Born(c)' => Born(c)
                           /\ Pending(c) => Pending(c)'
                           /\ pc[c] \in Spent => pc'[c] \in Spent
  BY <1>1, <1>2, <1>3, FamilyGoes
<1> QED
  BY <1>1, <1>4, CountedStays

LEMMA StoreGrown ==
  ASSUME OneFamily, StackInv, StackInv', Grown, NEW maker, NEW rank, NEW who, NEW nth,
         Counted(maker, rank, who, nth), NEW t \in Family, StorePage(t)
  PROVE  Grown' /\ \E w, n : Counted(maker, rank, w, n)'
<1>0. code[t] # "tester" /\ Family \subseteq Threads /\ t \in Threads
  BY Names DEF OneFamily, StackInv, OwnTypes, Runs
<1>1. /\ pc[t] = "store" /\ GoTo(t, "csout")
      /\ state' = [state EXCEPT ![t].sp = page[t]] /\ stackalloc' = page[t]
      /\ UNCHANGED <<code, sp, boss, made, heard, page, free>>
  BY <1>0 DEF StorePage, At, Shared, Buffer
<1>2. /\ stackalloc \in Int /\ page[t] = stackalloc - 1 /\ Len(Blocks) \in Nat
      /\ stackalloc <= Len(Blocks) + 1
      /\ \A b \in Buffers : state[b].sp <= Len(Blocks) + 1
  BY <1>1, ClientsAssumption DEF StackInv, OwnTypes, Pages, Grown, Heights
<1>3. /\ state'[t].pc = state[t].pc /\ \A c \in Family \ {t} : state'[c] = state[c]
      /\ \A b \in Buffers : state'[b].sp = IF b = t THEN page[t] ELSE state[b].sp
  BY <1>0, <1>1 DEF StackInv, OwnTypes, Buffers
<1>4. /\ \A b \in Buffers : state'[b].sp <= Len(Blocks) + 1
      /\ stackalloc' \in Int /\ stackalloc' <= stackalloc
  BY <1>1, <1>2, <1>3
<1>5. /\ Grown'
      /\ \A c \in Family : /\ Born(c)' => Born(c)
                           /\ Pending(c) => Pending(c)'
                           /\ pc[c] \in Spent => pc'[c] \in Spent
  BY <1>1, <1>3, <1>4, FamilyGoes
<1> QED
  BY <1>5, StoreCounted

\* It begins: it has been told whom to answer.
LEMMA BeginGrown ==
  ASSUME OneFamily, StackInv, StackInv', Grown, NEW maker, NEW rank, NEW who, NEW nth,
         Counted(maker, rank, who, nth), NEW t \in Family, pc[t] = "begin",
         GoTo(t, IF code[t] \in Leaf THEN "answer" ELSE "fill"),
         boss' = [boss EXCEPT ![t] = got[t].msg],
         UNCHANGED <<code, sp, made, heard, page, stackalloc, state, free>>
  PROVE  Grown' /\ Counted(maker, rank, who, nth)'
<1>1. ssi \in Threads \ Family /\ Family \subseteq Threads /\ Eldest \in Family /\ t \in Threads
  BY Names, EldestIs DEF OneFamily
<1>2. /\ t # Eldest /\ got[t].msg = Eldest /\ made[t] = <<>>
      /\ code[t] = "p8child" \/ Grandchild(t)
  BY <1>1 DEF Grown, Local, Duty, Kin, InQuota, Early, Creating
<1>3. pc'[t] = IF Grandchild(t) THEN "answer" ELSE "fill"
  BY <1>1, <1>2 DEF GoTo, StackInv, MailInv, MailTypes, Leaf, Grandchild, OneFamily, Roles
<1>4. /\ got' = got /\ box' = box
      /\ \A c \in Threads : c # t => pc'[c] = pc[c] /\ boss'[c] = boss[c]
      /\ boss'[t] = Eldest /\ boss' \in [Threads -> Threads]
  BY <1>1, <1>2 DEF GoTo, mvars, StackInv, MailInv, MailTypes, Grown, Names8
<1>5. \A c \in Family : Local(c)'
  <2> SUFFICES ASSUME NEW c \in Family PROVE Local(c)'
    OBVIOUS
  <2>1. Local(c) /\ \A i \in DOMAIN box'[c] : Fit(c, box'[c][i])
    BY <1>4 DEF Grown, Local, Kin
  <2>2. CASE c # t
    BY <1>1, <1>4, <2>1, <2>2, LocalStays
  <2>3. CASE c = t
    <3>1. Duty(c)' /\ Filled(c)'
      BY <1>2, <1>3, <2>3 DEF Duty, Filled, Grandchild, Creating, Early
    <3>2. InQuota(c)'
      <4>1. made'[c] = <<>> /\ (~Grandchild(c) => Quota(c)' = NGRANDCHILDREN)
        BY <1>2, <2>3 DEF Quota
      <4>2. Len(<<>>) = 0 /\ NGRANDCHILDREN > 0 /\ NGRANDCHILDREN \in Nat
        BY ClientsAssumption DEF OneFamily
      <4> QED
        BY <1>3, <2>3, <4>1, <4>2 DEF InQuota, Grandchild, Creating
    <3>3. Kin(c)'
      BY <1>3, <1>4, <2>1, <2>3 DEF Kin, Fit
    <3> QED
      BY <3>1, <3>2, <3>3 DEF Local
  <2> QED
    BY <2>2, <2>3
<1>6. Hearing'
  <2>1. \A g \in Family : Answered(g) => Answered(g)'
    BY <1>1, <1>4 DEF Answered, Grandchild
  <2> QED
    BY <1>1, <1>2, <1>4, <2>1, HearingKept DEF Grown
<1>7. Names8' /\ Heights'
  BY <1>1, <1>2, <1>4 DEF Grown, Names8, Heights, Family
<1>8. \A c \in Family : /\ Born(c)' => Born(c)
                        /\ Pending(c) => Pending(c)'
                        /\ pc[c] \in Spent => pc'[c] \in Spent
  BY <1>1, <1>3, <1>4 DEF Born, Pending, Spent, Family
<1>9. Counted(maker, rank, who, nth)'
  BY <1>8, CountedStays
<1> QED
  BY <1>5, <1>6, <1>7, <1>9 DEF Grown

\* The eldest counts a message.
LEMMA CountGrown ==
  ASSUME OneFamily, StackInv, StackInv', Grown, NEW maker, NEW rank, NEW who, NEW nth,
         Counted(maker, rank, who, nth), NEW t \in Family, pc[t] = "count",
         heard' = [heard EXCEPT ![t] = Append(@, got[t].from)],
         GoTo(t, IF Len(heard[t]) + 1 < Awaited THEN "collect" ELSE "done"),
         UNCHANGED <<code, sp, boss, made, page, stackalloc, state, free>>
  PROVE  Grown' /\ Counted(maker, rank, who, nth)'
<1>1. ssi \in Threads \ Family /\ Family \subseteq Threads /\ Eldest \in Family /\ t \in Threads
  BY Names, EldestIs DEF OneFamily
<1>2. t = Eldest /\ code[t] = "p8"
  BY <1>1 DEF Grown, Local, Duty, Early, Creating
<1> DEFINE f == got[t].from
           q == heard[t]
<1>3. /\ f \in Family /\ Answered(f) /\ ~Contains(q, f) /\ ~Has(box[t], f)
      /\ q \in Seq(Threads) /\ IsInjective(q) /\ ToSet(q) \subseteq Family
      /\ Len(q) < Awaited /\ Len(q) \in Nat /\ Awaited \in Nat
  <2>1. InHands(f) /\ f \in Family
    BY <1>2 DEF InHands, Grown, Hearing
  <2>2. Answered(f) /\ ~Contains(q, f) /\ ~Has(box[t], f)
    BY <1>2, <2>1 DEF Grown, Hearing
  <2>3. q \in Seq(Threads) /\ IsInjective(q) /\ ToSet(q) \subseteq Family
        /\ Len(q) < Awaited
    BY <1>1, <1>2 DEF Grown, Hearing, Names8
  <2>4. Len(q) \in Nat /\ Awaited \in Nat
    BY <2>3, ClientsAssumption DEF Awaited
  <2> QED
    BY <2>1, <2>2, <2>3, <2>4
<1>4. /\ got' = got /\ box' = box
      /\ \A c \in Threads : c # t => pc'[c] = pc[c]
      /\ pc'[t] = IF Len(q) + 1 < Awaited THEN "collect" ELSE "done"
      /\ heard'[t] = Append(q, f) /\ heard' \in [Threads -> Seq(Threads)]
  BY <1>1, <1>3 DEF GoTo, mvars, StackInv, MailInv, MailTypes, Grown, Names8
<1>5. \A c \in Family : Local(c)'
  <2> SUFFICES ASSUME NEW c \in Family PROVE Local(c)'
    OBVIOUS
  <2>1. Local(c) /\ \A i \in DOMAIN box'[c] : Fit(c, box'[c][i])
    BY <1>4 DEF Grown, Local, Kin
  <2>2. CASE c # t
    BY <1>1, <1>4, <2>1, <2>2, LocalStays
  <2>3. CASE c = t
    <3>1. Duty(c)' /\ Filled(c)'
      BY <1>2, <1>4, <2>1, <2>3 DEF Local, Duty, Filled, Grandchild, Wanted, Creating, Early
    <3>2. InQuota(c)'
      BY <1>2, <1>4, <2>1, <2>3 DEF Local, InQuota, Quota, Grandchild, Creating, Early
    <3>3. Kin(c)'
      BY <1>2, <1>4, <2>1, <2>3 DEF Local, Kin, Fit, Early
    <3> QED
      BY <3>1, <3>2, <3>3 DEF Local
  <2> QED
    BY <2>2, <2>3
<1>6. /\ Append(q, f) \in Seq(Threads) /\ Len(Append(q, f)) = Len(q) + 1
      /\ \A i \in 1..Len(q) : Append(q, f)[i] = q[i]
      /\ Append(q, f)[Len(q) + 1] = f
  BY <1>1, <1>3
<1> HIDE DEF f, q
<1>7. \A g : Contains(heard'[t], g) <=> Contains(q, g) \/ g = f
  <2>1. ASSUME NEW g, Contains(q, g) PROVE Contains(heard'[t], g)
    BY <1>3, <1>4, <1>6, <2>1 DEF Contains
  <2>2. Contains(heard'[t], f)
    BY <1>3, <1>4, <1>6 DEF Contains
  <2>3. ASSUME NEW g, Contains(heard'[t], g), g # f PROVE Contains(q, g)
    <3>1. PICK i \in 1..(Len(q) + 1) : Append(q, f)[i] = g
      BY <1>4, <1>6, <2>3 DEF Contains
    <3>2. i \in 1..Len(q)
      BY <1>3, <1>6, <2>3, <3>1
    <3> QED
      BY <1>6, <3>1, <3>2 DEF Contains
  <2> QED
    BY <2>1, <2>2, <2>3
<1>8. IsInjective(heard'[t])
  <2>1. DOMAIN Append(q, f) = 1..(Len(q) + 1)
    BY <1>3, <1>6
  <2>2. \A i, j \in 1..Len(q) : q[i] = q[j] => i = j
    BY <1>3 DEF IsInjective
  <2>3. \A i \in 1..Len(q) : q[i] # f
    BY <1>3 DEF Contains
  <2>4. ASSUME NEW i \in 1..(Len(q) + 1), NEW j \in 1..(Len(q) + 1),
               Append(q, f)[i] = Append(q, f)[j]
        PROVE  i = j
    <3>1. CASE i \in 1..Len(q) /\ j \in 1..Len(q)
      BY <1>6, <2>2, <2>4, <3>1
    <3>2. CASE i = Len(q) + 1
      <4>1. CASE j \in 1..Len(q)
        BY <1>6, <2>3, <2>4, <3>2, <4>1
      <4> QED
        BY <1>3, <3>2, <4>1
    <3>3. CASE j = Len(q) + 1
      <4>1. CASE i \in 1..Len(q)
        BY <1>6, <2>3, <2>4, <3>3, <4>1
      <4> QED
        BY <1>3, <3>3, <4>1
    <3> QED
      BY <1>3, <3>1, <3>2, <3>3
  <2> QED
    BY <1>4, <2>1, <2>4 DEF IsInjective
<1>9. ToSet(heard'[t]) \subseteq Family
  <2>1. \A g : Contains(q, g) => g \in Family
    BY <1>3 DEF Contains, ToSet
  <2>2. \A g \in ToSet(heard'[t]) : Contains(heard'[t], g)
    BY <1>3, <1>4, <1>6 DEF Contains, ToSet
  <2> QED
    BY <1>3, <1>7, <2>1, <2>2
<1>10. \A g \in Family : /\ Answered(g) <=> Answered(g)'
                         /\ ~InHands(g)' /\ (InHands(g) <=> g = f)
  BY <1>1, <1>2, <1>4 DEF Answered, Grandchild, InHands, f
<1>11. Hearing'
  <2>1. \A g \in Family :
          /\ Once(box'[Eldest], g)
          /\ Has(box'[Eldest], g) \/ InHands(g)' \/ Contains(heard'[Eldest], g) => Answered(g)'
          /\ Has(box'[Eldest], g) => ~InHands(g)' /\ ~Contains(heard'[Eldest], g)
          /\ InHands(g)' => ~Contains(heard'[Eldest], g)
    <3> SUFFICES ASSUME NEW g \in Family
                 PROVE  /\ Once(box'[Eldest], g)
                        /\ Has(box'[Eldest], g) \/ InHands(g)' \/ Contains(heard'[Eldest], g)
                             => Answered(g)'
                        /\ Has(box'[Eldest], g) => ~InHands(g)' /\ ~Contains(heard'[Eldest], g)
                        /\ InHands(g)' => ~Contains(heard'[Eldest], g)
      OBVIOUS
    <3>1. /\ Once(box[t], g)
          /\ Has(box[t], g) \/ Contains(q, g) => Answered(g)
          /\ Has(box[t], g) => ~Contains(q, g)
      BY <1>2 DEF Grown, Hearing, q
    <3> QED
      BY <1>2, <1>3, <1>4, <1>7, <1>10, <3>1
  <2>2. IF pc'[Eldest] = "done" THEN Len(heard'[Eldest]) = Awaited
        ELSE Len(heard'[Eldest]) < Awaited
    BY <1>2, <1>3, <1>4, <1>6
  <2>3. pc'[Eldest] # "count"
    BY <1>2, <1>4
  <2> QED
    BY <1>2, <1>8, <1>9, <2>1, <2>2, <2>3 DEF Hearing
<1>12. Names8' /\ Heights'
  BY <1>1, <1>4 DEF Grown, Names8, Heights
<1>13. \A c \in Family : /\ Born(c)' => Born(c)
                         /\ Pending(c) => Pending(c)'
                         /\ pc[c] \in Spent => pc'[c] \in Spent
  BY <1>1, <1>4 DEF Born, Pending, Spent
<1>14. Counted(maker, rank, who, nth)'
  BY <1>13, CountedStays
<1> QED
  BY <1>5, <1>11, <1>12, <1>14 DEF Grown

\* A grandchild answers.
LEMMA AnswerGrown ==
  ASSUME OneFamily, StackInv, StackInv', Grown, NEW maker, NEW rank, NEW who, NEW nth,
         Counted(maker, rank, who, nth), NEW t \in Family, pc[t] = "answer",
         msgsend(t, boss[t], "none", "forever"), UNCHANGED own
  PROVE  Grown' /\ Counted(maker, rank, who, nth)'
<1>1. /\ ssi \in Threads \ Family /\ Family \subseteq Threads /\ Eldest \in Family
      /\ t \in Threads /\ "none" \in Word
  BY Names, EldestIs DEF OneFamily
<1>2. t # Eldest /\ Grandchild(t) /\ boss[t] = Eldest
  BY <1>1 DEF Grown, Local, Duty, Kin, Early, Creating
<1>3. Handed(t, Eldest, "none", "forever") \/ Queued(t, Eldest, "none", "forever")
  <2>1. pc[t] \notin Waiting /\ "forever" \in Label
    BY DEF Waiting, Label, Working
  <2>2. \/ Handed(t, Eldest, "none", "forever") \/ Queued(t, Eldest, "none", "forever")
        \/ Lost(t, Eldest, "forever")
    BY <1>1, <1>2, <2>1, SendOutcome DEF OneFamily, StackInv, MailInv
  <2> QED
    BY <1>1, <2>2 DEF Lost
<1> DEFINE e == [from |-> t, msg |-> "none"]
<1>4. /\ \A c \in Family \ {t, Eldest} :
           pc'[c] = pc[c] /\ got'[c] = got[c] /\ box'[c] = box[c]
      /\ pc'[t] = "forever" /\ got'[t] = got[t] /\ box'[t] = box[t]
  BY <1>1, <1>2, <1>3 DEF Handed, Queued, Moves, StackInv, MailInv, MailTypes
<1>5. pc'[ssi] = pc[ssi] /\ got'[ssi] = got[ssi]
  BY <1>1, <1>3 DEF Handed, Queued, Moves, StackInv, MailInv, MailTypes
<1>6. /\ Handed(t, Eldest, "none", "forever")
           => pc[Eldest] = "collect" /\ pc'[Eldest] = "count" /\ got'[Eldest] = e /\ box' = box
      /\ Queued(t, Eldest, "none", "forever")
           => pc'[Eldest] = pc[Eldest] /\ got'[Eldest] = got[Eldest]
  <2>1. ASSUME Handed(t, Eldest, "none", "forever")
        PROVE  /\ pc[Eldest] = "collect" /\ pc'[Eldest] = "count" /\ got'[Eldest] = e
               /\ box' = box
    <3>1. pc[Eldest] \in {"start", "collect", "forever"}
      BY <1>1, <2>1, Names
      DEF Handed, StackInv, MailInv, Control, Whom, Waiting, Working, Family, OneFamily
    <3>2. pc[Eldest] = "collect"
      BY <1>1, <3>1 DEF Grown, Local, Duty, Creating
    <3> QED
      BY <1>1, <2>1, <3>2, AfterFacts DEF Handed
  <2>2. ASSUME Queued(t, Eldest, "none", "forever")
        PROVE  pc'[Eldest] = pc[Eldest] /\ got'[Eldest] = got[Eldest]
    BY <1>1, <1>2, <2>2 DEF Queued, Moves, StackInv, MailInv, MailTypes
  <2> QED
    BY <2>1, <2>2
<1>7. \A c \in Family : \A i \in DOMAIN box'[c] : Fit(c, box'[c][i])
  <2>1. Fit(Eldest, e)
    BY <1>1 DEF Fit
  <2>2. \A c \in Family : \A i \in DOMAIN box[c] : Fit(c, box[c][i])
    BY DEF Grown, Local, Kin
  <2>3. CASE Handed(t, Eldest, "none", "forever")
    BY <1>6, <2>2, <2>3
  <2>4. CASE Queued(t, Eldest, "none", "forever")
    BY <1>1, <2>1, <2>2, <2>4 DEF Queued
  <2> QED
    BY <1>3, <2>3, <2>4
<1>8. \A c \in Family : Local(c)'
  <2> SUFFICES ASSUME NEW c \in Family PROVE Local(c)'
    OBVIOUS
  <2>1. Local(c) /\ \A i \in DOMAIN box'[c] : Fit(c, box'[c][i])
    BY <1>7 DEF Grown
  <2>2. CASE c # t /\ c # Eldest
    BY <1>4, <2>1, <2>2, LocalStays DEF own
  <2>3. CASE c = t
    <3>1. Duty(c)' /\ Filled(c)' /\ InQuota(c)'
      BY <1>2, <1>4, <2>1, <2>3
      DEF Local, Duty, Filled, InQuota, Grandchild, Creating, Early, own
    <3>2. Kin(c)'
      BY <1>2, <1>4, <2>1, <2>3 DEF Kin, Fit, own
    <3> QED
      BY <3>1, <3>2 DEF Local
  <2>4. CASE c = Eldest
    <3>1. CASE Handed(t, Eldest, "none", "forever")
      <4>1. /\ pc[c] \in Waiting /\ pc'[c] = After[pc[c]] /\ pc[c] \notin {"created", "start"}
        BY <1>6, <2>4, <3>1, AfterFacts DEF Waiting
      <4>2. Fit(c, got'[c])
        BY <1>1, <1>6, <2>4, <3>1 DEF Fit
      <4> QED
        BY <2>1, <4>1, <4>2, LocalGets DEF own
    <3>2. CASE Queued(t, Eldest, "none", "forever")
      BY <1>6, <2>1, <2>4, <3>2, LocalStays DEF own
    <3> QED
      BY <1>3, <3>1, <3>2
  <2> QED
    BY <2>2, <2>3, <2>4
<1>9. \A g \in Family : (Answered(g) <=> Answered(g)') \/ g = t
  BY <1>2, <1>4, <1>6, <1>3 DEF Answered, Grandchild, Handed, own, Grown, Local, Duty, Creating
<1>10. Answered(t)' /\ ~Answered(t)
  BY <1>2, <1>4 DEF Answered, Grandchild, own
<1>11. ~Has(box[Eldest], t) /\ ~InHands(t) /\ ~Contains(heard[Eldest], t)
  BY <1>10 DEF Grown, Hearing
<1>12. Hearing'
  <2>1. heard'[Eldest] = heard[Eldest]
    BY DEF own
  <2>2. \A g \in Family :
          /\ Once(box'[Eldest], g)
          /\ Has(box'[Eldest], g) => Has(box[Eldest], g) \/ g = t
          /\ InHands(g)' => InHands(g) \/ g = t
          /\ ~(Has(box'[Eldest], t) /\ InHands(t)')
    <3>1. CASE Handed(t, Eldest, "none", "forever")
      BY <1>6, <1>11, <3>1 DEF InHands, Grown, Hearing
    <3>2. CASE Queued(t, Eldest, "none", "forever")
      <4>1. \A g \in Family : InHands(g)' <=> InHands(g)
        BY <1>6, <3>2 DEF InHands
      <4>2. \A g \in Family : /\ Once(box'[Eldest], g)
                              /\ Has(box'[Eldest], g) => Has(box[Eldest], g) \/ g = t
        BY <1>11, <3>2 DEF Queued, Grown, Hearing
      <4> QED
        BY <1>11, <4>1, <4>2
    <3> QED
      BY <1>3, <3>1, <3>2
  <2>3. \A g \in Family :
          /\ Has(box'[Eldest], g) \/ InHands(g)' \/ Contains(heard'[Eldest], g) => Answered(g)'
          /\ Has(box'[Eldest], g) => ~InHands(g)' /\ ~Contains(heard'[Eldest], g)
          /\ InHands(g)' => ~Contains(heard'[Eldest], g)
    <3> SUFFICES ASSUME NEW g \in Family
                 PROVE  /\ Has(box'[Eldest], g) \/ InHands(g)' \/ Contains(heard'[Eldest], g)
                             => Answered(g)'
                        /\ Has(box'[Eldest], g) => ~InHands(g)' /\ ~Contains(heard'[Eldest], g)
                        /\ InHands(g)' => ~Contains(heard'[Eldest], g)
      OBVIOUS
    <3>1. /\ Has(box[Eldest], g) \/ InHands(g) \/ Contains(heard[Eldest], g) => Answered(g)
          /\ Has(box[Eldest], g) => ~InHands(g) /\ ~Contains(heard[Eldest], g)
          /\ InHands(g) => ~Contains(heard[Eldest], g)
      BY DEF Grown, Hearing
    <3> QED
      BY <1>9, <1>10, <1>11, <2>1, <2>2, <3>1
  <2>4. pc'[Eldest] = "count" => got'[Eldest].from \in Family
    BY <1>3, <1>6 DEF Grown, Hearing
  <2>5. /\ ToSet(heard'[Eldest]) \subseteq Family
        /\ IsInjective(heard'[Eldest])
        /\ IF pc'[Eldest] = "done" THEN Len(heard'[Eldest]) = Awaited
           ELSE Len(heard'[Eldest]) < Awaited
    BY <1>3, <1>6, <2>1 DEF Grown, Hearing
  <2> QED
    BY <2>2, <2>3, <2>4, <2>5 DEF Hearing
<1>13. Names8' /\ Heights'
  BY <1>5 DEF Grown, Names8, Heights, own
<1>14. \A c \in Family : /\ Born(c)' => Born(c)
                         /\ pc[c] \in Spent => pc'[c] \in Spent
                         /\ pc[c] = "tell" => pc'[c] = "tell"
  BY <1>3, <1>4, <1>6 DEF Born, Spent
<1>15. \A c \in Family : Has(box[c], ssi) => Has(box'[c], ssi)
  BY <1>1, <1>3 DEF Handed, Queued
<1>16. Counted(maker, rank, who, nth)'
  <2>1. \A c \in Family : Pending(c) => Pending(c)'
    BY <1>5, <1>14, <1>15 DEF Pending
  <2> QED
    BY <1>14, <2>1, CountedStays DEF own
<1> QED
  BY <1>8, <1>12, <1>13, <1>16 DEF Grown

\* A thread tells the one that it has made whom to answer.
LEMMA TellGrown ==
  ASSUME OneFamily, StackInv, StackInv', Grown, NEW maker, NEW rank, NEW who, NEW nth,
         Counted(maker, rank, who, nth), NEW t \in Family, Tell(t)
  PROVE  Grown' /\ Counted(maker, rank, who, nth)'
<1>1. /\ ssi \in Threads \ Family /\ Family \subseteq Threads /\ Eldest \in Family
      /\ t \in Threads /\ Family \subseteq Word
  BY Names, EldestIs DEF OneFamily
<1> DEFINE to   == got[t].msg
           m    == IF code[t] = "p8child" THEN boss[t] ELSE t
           next == IF Len(made[t]) + 1 = Quota(t) THEN Later(t)
                   ELSE IF code[t] = "p8child" THEN "fill" ELSE "csin"
           e    == [from |-> t, msg |-> Eldest]
<1>2. /\ pc[t] = "tell" /\ msgsend(t, to, m, next)
      /\ made' = [made EXCEPT ![t] = Append(@, to)]
      /\ UNCHANGED <<code, sp, boss, heard, page, stackalloc, state, free>>
  BY DEF Tell, At
<1>3. /\ to \in Family \ {Eldest} /\ m = Eldest
      /\ code[t] = IF t = Eldest THEN "p8" ELSE "p8child"
  BY <1>1, <1>2 DEF Grown, Local, Duty, Kin, Early, Creating, Grandchild
<1>4. /\ Len(made[t]) \in Nat /\ Len(made[t]) < Quota(t) /\ Quota(t) \in Nat
      /\ \A u \in Threads : u # t => made'[u] = made[u]
      /\ Len(made'[t]) = Len(made[t]) + 1
      /\ made' \in [Threads -> Seq(Threads)]
  <2>1. Len(made[t]) < Quota(t) /\ Quota(t) \in Nat
    BY <1>2, ClientsAssumption DEF Grown, Local, InQuota, Creating, Quota
  <2>2. made \in [Threads -> Seq(Threads)] /\ to \in Threads
    BY <1>1, <1>3 DEF Grown, Names8
  <2>3. /\ Append(made[t], to) \in Seq(Threads) /\ Len(made[t]) \in Nat
        /\ Len(Append(made[t], to)) = Len(made[t]) + 1
    BY <1>1, <2>2
  <2> QED
    BY <1>1, <1>2, <2>1, <2>2, <2>3
<1>5. /\ next = (IF Len(made[t]) + 1 = Quota(t) THEN IF t = Eldest THEN "collect" ELSE "forever"
                 ELSE IF t = Eldest THEN "csin" ELSE "fill")
      /\ next \in {"collect", "forever", "csin", "fill"}
  BY <1>3 DEF Later
<1> HIDE DEF to, m, next
<1>6. Handed(t, to, Eldest, next) \/ Queued(t, to, Eldest, next)
  <2>1. pc[t] \notin Waiting /\ next \in Label
    BY <1>2, <1>5 DEF Waiting, Label, Working
  <2>2. Handed(t, to, Eldest, next) \/ Queued(t, to, Eldest, next) \/ Lost(t, to, next)
    BY <1>1, <1>2, <1>3, <2>1, SendOutcome DEF OneFamily, StackInv, MailInv
  <2> QED
    BY <1>1, <1>3, <2>2 DEF Lost
<1>7. /\ \A c \in Threads \ {t, to} :
           pc'[c] = pc[c] /\ got'[c] = got[c] /\ box'[c] = box[c]
      /\ pc'[t] = next
      /\ Queued(t, to, Eldest, next) => got' = got /\ (to # t => pc'[to] = pc[to])
      /\ box'[Eldest] = box[Eldest]
  BY <1>1, <1>3, <1>6 DEF Handed, Queued, Moves, StackInv, MailInv, MailTypes
<1>8. Handed(t, to, Eldest, next) =>
        /\ to # t /\ got'[to] = e /\ pc'[to] = After[pc[to]]
        /\ pc[to] \in {"start", "forever"} /\ box' = box /\ got'[t] = got[t]
  <2> SUFFICES ASSUME Handed(t, to, Eldest, next)
               PROVE  /\ to # t /\ got'[to] = e /\ pc'[to] = After[pc[to]]
                      /\ pc[to] \in {"start", "forever"} /\ box' = box /\ got'[t] = got[t]
    OBVIOUS
  <2>1. pc[to] \in {"start", "collect", "forever"}
    BY <1>1, <1>3, Names
    DEF Handed, StackInv, MailInv, Control, Whom, Waiting, Working, Family, OneFamily
  <2>2. pc[to] # "collect"
    BY <1>3 DEF Grown, Local, Duty, Creating, Early
  <2> QED
    BY <1>1, <1>3, <2>1, <2>2 DEF Handed
<1>9. \A c \in Family : \A i \in DOMAIN box'[c] : Fit(c, box'[c][i])
  <2>1. Fit(to, e)
    BY <1>1 DEF Fit
  <2>2. \A c \in Family : \A i \in DOMAIN box[c] : Fit(c, box[c][i])
    BY DEF Grown, Local, Kin
  <2>3. CASE Handed(t, to, Eldest, next)
    BY <1>8, <2>2, <2>3
  <2>4. CASE Queued(t, to, Eldest, next)
    BY <1>1, <1>3, <2>1, <2>2, <2>4 DEF Queued
  <2> QED
    BY <1>6, <2>3, <2>4
<1>10. \A c \in Family : Local(c)'
  <2> SUFFICES ASSUME NEW c \in Family PROVE Local(c)'
    OBVIOUS
  <2>1. Local(c) /\ c \in Threads /\ \A i \in DOMAIN box'[c] : Fit(c, box'[c][i])
    BY <1>1, <1>9 DEF Grown
  <2>2. CASE c # t /\ (c # to \/ Queued(t, to, Eldest, next))
    BY <1>2, <1>4, <1>7, <2>1, <2>2, LocalStays
  <2>3. CASE c = t
    <3>1. Duty(c)'
      BY <1>2, <1>3, <1>5, <1>7, <2>3 DEF Duty, Creating
    <3>2. Filled(c)'
      BY <1>2, <1>3, <1>5, <1>7, <2>1, <2>3 DEF Local, Filled, Grandchild, Wanted, Early
    <3>3. InQuota(c)'
      <4>1. Quota(c)' = Quota(c) /\ pc'[c] \notin Early /\ ~Grandchild(c)'
        BY <1>2, <1>3, <1>5, <1>7, <2>3 DEF Quota, Early, Grandchild
      <4>2. pc'[c] \in Creating => Len(made[t]) + 1 # Quota(t)
        BY <1>5, <1>7, <2>3 DEF Creating
      <4> QED
        BY <1>4, <2>3, <4>1, <4>2 DEF InQuota
    <3>4. Kin(c)'
      BY <1>2, <1>3, <1>5, <1>7, <2>1, <2>3 DEF Local, Kin, Fit, Early
    <3> QED
      BY <3>1, <3>2, <3>3, <3>4 DEF Local
  <2>4. CASE c = to /\ c # t /\ Handed(t, to, Eldest, next)
    <3>1. /\ pc[c] \in Waiting /\ pc'[c] = After[pc[c]] /\ pc[c] # "created"
          /\ got'[c].from \in Family
      BY <1>8, <2>4 DEF Waiting
    <3>2. Fit(c, got'[c])
      BY <1>1, <1>8, <2>4 DEF Fit
    <3> QED
      BY <1>2, <1>4, <2>1, <2>4, <3>1, <3>2, LocalGets
  <2> QED
    BY <1>6, <2>2, <2>3, <2>4
<1>11. Hearing'
  <2>1. \A g \in Family : Answered(g) => Answered(g)'
    BY <1>1, <1>2, <1>6, <1>7, <1>8, AfterFacts DEF Answered, Grandchild
  <2>2. /\ pc'[Eldest] # "count" \/ t # Eldest
        /\ t # Eldest => pc'[Eldest] = pc[Eldest] /\ got'[Eldest] = got[Eldest]
        /\ t = Eldest => pc'[Eldest] # "done" /\ pc[Eldest] # "done"
    BY <1>1, <1>2, <1>3, <1>5, <1>7
  <2> QED
    BY <1>2, <1>7, <2>1, <2>2, HearingKept DEF Grown
<1>12. Names8' /\ Heights'
  <2>1. pc'[ssi] = pc[ssi] /\ made'[ssi] = made[ssi]
    BY <1>1, <1>3, <1>4, <1>7
  <2> QED
    BY <1>2, <1>4, <2>1 DEF Grown, Names8, Heights
<1>13. Counted(maker, rank, who, nth)'
  <2>1. \A c \in Family \ {t} : /\ Pending(c) => Pending(c)'
                                /\ pc[c] \in Spent => pc'[c] \in Spent
    <3>1. \A c \in Family \ {t} : /\ Has(box[c], ssi) => Has(box'[c], ssi)
                                  /\ pc[c] \in Spent => pc'[c] = pc[c]
      BY <1>1, <1>6, <1>7, <1>8 DEF Queued, Spent
    <3>2. pc'[ssi] = pc[ssi] /\ got'[ssi] = got[ssi]
      BY <1>1, <1>3, <1>7
    <3> QED
      BY <3>1, <3>2 DEF Pending, Spent
  <2>2. \A c \in Family : Born(c)' => Born(c)
    BY <1>1, <1>2, <1>6, <1>7, <1>8 DEF Born
  <2>3. ASSUME NEW c \in Family
        PROVE  /\ Out(c)' \in Nat /\ Out(c) <= Out(c)'
               /\ Used(c)' \in Nat /\ Used(c) <= Used(c)'
    <3>1. CASE c = t
      <4>1. Out(c) = Len(made[t]) + 1 /\ Used(c) = Len(made[t]) + 1
        BY <1>2, <3>1, OutType DEF Pending, Spent
      <4>2. /\ Out(c)' \in Nat /\ Used(c)' \in Nat
            /\ Out(c)' \in {Len(made'[t]), Len(made'[t]) + 1}
            /\ Used(c)' \in {Len(made'[t]), Len(made'[t]) + 1}
        BY <3>1, NextOut
      <4> QED
        BY <1>4, <4>1, <4>2
    <3>2. CASE c # t
      <4>1. made'[c] = made[c]
        BY <1>1, <1>4, <3>2
      <4> QED
        BY <2>1, <3>2, <4>1, OutType, NextOut
    <3> QED
      BY <3>1, <3>2
  <2> QED
    BY <1>2, <2>2, <2>3, CountedKept
<1> QED
  BY <1>10, <1>11, <1>12, <1>13 DEF Grown

\* The SSI makes a thread: the next one of its client.
LEMMA CreateGrown ==
  ASSUME OneFamily, StackInv, StackInv', Grown, NEW maker, NEW rank, NEW who, NEW nth,
         Counted(maker, rank, who, nth), Create
  PROVE  Grown' /\ \E w, n : Counted(w, n, who, nth)'
<1>0. /\ ssi \in Threads \ Family /\ Family \subseteq Threads /\ Eldest \in Family
      /\ ~(ssi \in Family)
  BY Names, EldestIs DEF OneFamily
<1>1. PICK t, c : t = Head(free) /\ c = got[ssi].from
  OBVIOUS
<1>2. /\ pc[ssi] = "work" /\ c \in Family /\ got[ssi].msg = c /\ InHand(c)
      /\ pc[c] = "created" /\ ~Has(box[c], ssi)
  <2>1. pc[ssi] = "work" /\ c \in Family /\ got[ssi].msg = c
    BY <1>1 DEF Create, At, StackInv, MailInv, Control
  <2>2. InHand(c)
    BY <1>1, <2>1 DEF InHand
  <2> QED
    BY <2>1, <2>2 DEF StackInv, MailInv, Request
<1>3. t \in Family /\ pc[t] = "free"
  <2>1. free \in Seq(Family) /\ free # <<>>
    BY DEF Create, StackInv, OwnTypes
  <2>2. 1 \in DOMAIN free /\ free[1] = Head(free) /\ Head(free) \in Family
    BY <2>1, EmptySeq
  <2> QED
    BY <1>1, <2>2 DEF StackInv, Supply
<1>4. t # c /\ t # Eldest /\ t # ssi
  BY <1>0, <1>2, <1>3 DEF Grown, Local, Duty, Creating
<1>5. /\ code' = [code EXCEPT ![t] = state[c].pc]
      /\ sp' = [sp EXCEPT ![t] = state[c].sp]
      /\ made' = [made EXCEPT ![ssi] = Append(@, t)]
      /\ pc' = [pc EXCEPT ![t] = "start", ![ssi] = "reply"]
      /\ UNCHANGED <<box, waits, got, boss, heard, page, stackalloc, state>>
  BY <1>1, <1>2 DEF Create, mvars
<1>6. /\ \A u \in Family : /\ pc'[u] = IF u = t THEN "start" ELSE pc[u]
                           /\ code'[u] = IF u = t THEN Wanted(c) ELSE code[u]
                           /\ made'[u] = made[u]
      /\ pc'[ssi] = "reply"
  <2>1. state[c].pc = Wanted(c)
    BY <1>2 DEF Grown, Local, Duty, Filled, Grandchild, Early
  <2> QED
    BY <1>0, <1>3, <1>4, <1>5, <2>1 DEF StackInv, MailInv, MailTypes, OwnTypes
<1>7. /\ code[c] \in {"p8", "p8child"}
      /\ Wanted(c) = IF code[c] = "p8" THEN "p8child" ELSE "p8grandchild"
  BY <1>2 DEF Grown, Local, Duty, Grandchild, Wanted
<1>8. \A u \in Family : Local(u)'
  <2> SUFFICES ASSUME NEW u \in Family PROVE Local(u)'
    OBVIOUS
  <2>1. Local(u) /\ \A i \in DOMAIN box'[u] : Fit(u, box'[u][i])
    BY <1>5 DEF Grown, Local, Kin
  <2>2. CASE u # t
    BY <1>5, <1>6, <2>1, <2>2, LocalStays
  <2>3. CASE u = t
    <3>1. Duty(u)' /\ Filled(u)'
      BY <1>4, <1>6, <1>7, <2>3 DEF Duty, Filled, Grandchild, Early
    <3>2. InQuota(u)'
      <4>1. made'[u] = <<>> /\ Len(<<>>) = 0
        BY <1>3, <1>6, <2>1, <2>3 DEF Local, InQuota, Early
      <4>2. 0 <= Quota(u)'
        BY ClientsAssumption DEF Quota
      <4>3. Len(made'[u]) <= Quota(u)' /\ pc'[u] \notin Creating
        BY <1>6, <2>3, <4>1, <4>2 DEF Creating
      <4> QED
        BY <4>1, <4>3 DEF InQuota
    <3>3. Kin(u)'
      <4>1. pc'[u] = "start"
        BY <1>6, <2>3
      <4>3. \A i \in DOMAIN box'[u] : Fit(u, box'[u][i])
        BY <2>1
      <4>4. pc'[u] # "tell" /\ pc'[u] # "begin" /\ pc'[u] \in Early
        BY <4>1 DEF Early
      <4> QED
        BY <4>3, <4>4 DEF Kin, Fit
    <3> QED
      BY <3>1, <3>2, <3>3 DEF Local
  <2> QED
    BY <2>2, <2>3
<1>9. Hearing'
  <2>1. \A g \in Family : Answered(g) => Answered(g)'
    BY <1>3, <1>6 DEF Answered, Grandchild
  <2> QED
    BY <1>0, <1>4, <1>5, <1>6, <2>1, HearingKept DEF Grown
<1>10. Names8'
  <2>1. made[ssi] \in Seq(Threads) /\ t \in Threads
    BY <1>0, <1>3 DEF Grown, Names8
  <2>2. Append(made[ssi], t) \in Seq(Threads) /\ Last(Append(made[ssi], t)) = t
    BY <2>1 DEF Last
  <2>3. made'[ssi] = Append(made[ssi], t) /\ made' \in [Threads -> Seq(Threads)]
    BY <1>0, <1>5, <2>2 DEF Grown, Names8
  <2>4. code'[ssi] = code[ssi] /\ code'[cs] = code[cs]
    BY <1>3, <1>5 DEF StackInv, OwnTypes, Family
  <2> QED
    BY <1>3, <1>4, <1>5, <2>2, <2>3, <2>4 DEF Grown, Names8
<1>11. Heights'
  <2>1. c \in Buffers /\ \A u \in Threads : sp'[u] = IF u = t THEN state[c].sp ELSE sp[u]
    BY <1>0, <1>2, <1>5 DEF Buffers, StackInv, OwnTypes
  <2> QED
    BY <1>5, <2>1 DEF Grown, Heights
<1>12. /\ ~Pending(c) /\ Pending(c)' /\ ~Pending(t)
       /\ \A u \in Family : Pending(u) => Pending(u)'
  <2>1. ~Has(box[t], ssi)
    BY <1>3 DEF StackInv, MailInv, Request
  <2> QED
    BY <1>1, <1>2, <1>3, <1>4, <1>5, <1>6, <2>1 DEF Pending
<1>13. \A u \in Family : /\ Out(u) \in Nat /\ Out(u)' \in Nat /\ Out(u) <= Out(u)'
                         /\ Used(u) \in Nat /\ Used(u)' \in Nat /\ Used(u) <= Used(u)'
  <2> SUFFICES ASSUME NEW u \in Family
               PROVE  /\ Out(u) \in Nat /\ Out(u)' \in Nat /\ Out(u) <= Out(u)'
                      /\ Used(u) \in Nat /\ Used(u)' \in Nat /\ Used(u) <= Used(u)'
    OBVIOUS
  <2>1. pc[u] \in Spent => pc'[u] \in Spent
    BY <1>3, <1>6 DEF Spent
  <2> QED
    BY <1>6, <1>12, <2>1, OutType, NextOut
<1>14. PICK k : k = Len(made[c]) + 1
  OBVIOUS
<1>15. k \in Nat /\ k \in 1..Out(c)' /\ Out(c) = k - 1 /\ Out(t) = 0
  <2>1. Len(made[c]) \in Nat /\ Out(c) = Len(made[c]) /\ Out(c)' = Len(made'[c]) + 1
    BY <1>2, <1>12, OutType, NextOut
  <2>2. made[t] = <<>> /\ Len(<<>>) = 0 /\ Out(t) = Len(made[t])
    BY <1>3, <1>12, OutType DEF Grown, Local, InQuota, Early
  <2> QED
    BY <1>2, <1>6, <1>14, <2>1, <2>2
<1>16. Lineage(maker, rank)
  BY DEF Counted
<1>17. PICK w, n :
         /\ w \in [Threads -> Family] /\ n \in [Threads -> Nat]
         /\ \A u \in Threads : /\ w[u] = IF u = t THEN c ELSE maker[u]
                               /\ n[u] = IF u = t THEN k ELSE rank[u]
  <2> DEFINE w == [maker EXCEPT ![t] = c]
             n == [rank EXCEPT ![t] = k]
  <2>1. /\ w \in [Threads -> Family] /\ n \in [Threads -> Nat]
        /\ \A u \in Threads : /\ w[u] = IF u = t THEN c ELSE maker[u]
                              /\ n[u] = IF u = t THEN k ELSE rank[u]
    BY <1>2, <1>15, <1>16 DEF Lineage
  <2> HIDE DEF w, n
  <2> QED
    BY <2>1
<1>18. \A u \in Family : Born(u)' => u = t \/ (Born(u) /\ u # t)
  BY <1>3, <1>6 DEF Born
<1>19. ASSUME NEW u \in Family, Born(u)
       PROVE  /\ maker[u] \in Family \ {t} /\ Wanted(maker[u])' = Wanted(maker[u])
              /\ code[maker[u]] \in {"p8", "p8child"} /\ code[u] = Wanted(maker[u])
              /\ rank[u] \in 1..Out(maker[u])
  <2>1. /\ maker[u] \in Family /\ code[maker[u]] \in {"p8", "p8child"}
        /\ code[u] = Wanted(maker[u]) /\ rank[u] \in 1..Out(maker[u])
    BY <1>0, <1>16, <1>19 DEF Lineage
  <2>2. maker[u] # t
    BY <1>15, <2>1
  <2> QED
    BY <1>6, <2>1, <2>2 DEF Wanted
<1>20. ASSUME NEW u \in Family, Born(u)'
       PROVE  /\ code'[w[u]] \in {"p8", "p8child"} /\ code'[u] = Wanted(w[u])'
              /\ n[u] \in 1..Out(w[u])'
  <2>1. CASE u = t
    <3>1. w[u] = c /\ n[u] = k
      BY <1>0, <1>17, <2>1
    <3>2. Wanted(c)' = Wanted(c)
      BY <1>2, <1>4, <1>6 DEF Wanted
    <3> QED
      BY <1>2, <1>4, <1>6, <1>7, <1>15, <2>1, <3>1, <3>2
  <2>2. CASE u # t
    <3>1. Born(u) /\ w[u] = maker[u] /\ n[u] = rank[u]
      BY <1>0, <1>17, <1>18, <1>20, <2>2
    <3>2. /\ maker[u] \in Family \ {t} /\ Wanted(maker[u])' = Wanted(maker[u])
          /\ code[maker[u]] \in {"p8", "p8child"} /\ code[u] = Wanted(maker[u])
          /\ rank[u] \in 1..Out(maker[u])
      BY <1>19, <3>1
    <3>3. rank[u] \in 1..Out(maker[u])'
      BY <1>13, <3>2
    <3> QED
      BY <1>6, <2>2, <3>1, <3>2, <3>3
  <2> QED
    BY <2>1, <2>2
<1>21. ASSUME NEW u \in Family, Born(u), maker[u] = c
       PROVE  rank[u] # k
  BY <1>15, <1>19, <1>21
<1>22. ASSUME NEW u \in Family, NEW v \in Family, Born(u)', Born(v)', w[u] = w[v], n[u] = n[v]
       PROVE  u = v
  <2>1. \A a, b \in Family :
          Born(a) /\ Born(b) /\ maker[a] = maker[b] /\ rank[a] = rank[b] => a = b
    BY <1>16 DEF Lineage
  <2> QED
    BY <1>0, <1>17, <1>18, <1>21, <1>22, <2>1
<1>23. Lineage(w, n)'
  BY <1>17, <1>20, <1>22 DEF Lineage
<1>24. Taken(who, nth)'
  <2>1. Taken(who, nth)
    BY DEF Counted
  <2>2. ASSUME NEW p \in stackalloc..Len(Blocks)
        PROVE  nth[p] \in 1..Used(who[p])'
    <3>1. p \in Int
      BY ClientsAssumption DEF StackInv, OwnTypes
    <3>2. who[p] \in Family /\ nth[p] \in 1..Used(who[p])
      BY <2>1, <3>1 DEF Taken
    <3> QED
      BY <1>13, <3>2
  <2> QED
    BY <1>5, <2>1, <2>2 DEF Taken
<1> QED
  BY <1>8, <1>9, <1>10, <1>11, <1>23, <1>24 DEF Grown, Counted

(*-------------------------- all steps, and boot ------------------------*)

LEMMA GrownStep ==
  ASSUME OneFamily, StackInv, StackInv', Grown, NEW maker, NEW rank, NEW who, NEW nth,
         Counted(maker, rank, who, nth), CNext
  PROVE  Grown' /\ \E m, r, w, n : Counted(m, r, w, n)'
<1>1. /\ ssi \in Threads /\ cs \in Threads /\ "none" \in Word
      /\ \A t \in Threads \ {ssi, cs} : t \in Family /\ t \in Word
  BY Names DEF OneFamily, Family
<1>2. CASE \E s \in {ssi, cs} : Serve(s)
  BY <1>1, <1>2, ServerTakes DEF Serve, At
<1>3. CASE Grant
  BY <1>1, <1>3, ServerSends DEF Grant, At
<1>4. CASE Release
  <2>1. got[cs].from \in Threads
    BY <1>1 DEF StackInv, MailInv, MailTypes, Message
  <2> QED
    BY <1>1, <1>4, <2>1, ServerTakes DEF Release, At
<1>5. CASE Create
  BY <1>5, CreateGrown
<1>6. CASE Reply
  <2>1. pc[ssi] = "reply" /\ msgsend(ssi, got[ssi].from, Last(made[ssi]), "serve") /\ UNCHANGED own
    BY <1>6 DEF Reply, At
  <2>2. Last(made[ssi]) \in Family \ {Eldest} /\ Last(made[ssi]) \in Word
    BY <2>1, Names DEF Grown, Names8, OneFamily
  <2> QED
    BY <2>1, <2>2, ServerSends
<1>7. ASSUME NEW t \in Family, ThreadNext(t)
      PROVE  Grown' /\ \E m, r, w, n : Counted(m, r, w, n)'
  <2>1. /\ t \in Threads /\ t \in Word /\ "none" \in Word /\ code[t] # "tester"
    BY Names DEF OneFamily, StackInv, OwnTypes, Runs
  <2>2. CASE CSIN(t)
    <3>1. CASE pc[t] = "csin" /\ msgsend(t, cs, "none", "csret") /\ UNCHANGED own
      BY <2>1, <3>1, FamilyAsks
    <3>2. CASE pc[t] = "csret" /\ msgrecv(t, cs) /\ UNCHANGED own
      BY <3>2, FamilyTakes
    <3> QED
      BY <2>2, <3>1, <3>2 DEF CSIN, At
  <2>3. CASE LoadPage(t)
    BY <2>3, LoadGrown
  <2>4. CASE StorePage(t)
    BY <2>4, StoreGrown
  <2>5. CASE CSOUT(t)
    <3>1. pc[t] = "csout" /\ msgsend(t, cs, "none", "ask") /\ UNCHANGED own
      BY <2>1, <2>5 DEF CSOUT, At, Shared
    <3> QED
      BY <2>1, <3>1, FamilyAsks
  <2>6. CASE Fill(t)
    BY <2>6, FillGrown
  <2>7. CASE create_process(t)
    <3>1. CASE pc[t] = "ask" /\ msgsend(t, ssi, t, "created") /\ UNCHANGED own
      BY <2>1, <3>1, FamilyAsks
    <3>2. CASE pc[t] = "created" /\ msgrecv(t, ssi) /\ UNCHANGED own
      BY <3>2, FamilyTakes
    <3> QED
      BY <2>1, <2>7, <3>1, <3>2 DEF create_process, At, Buffer, Shared
  <2>8. CASE Tell(t)
    BY <2>8, TellGrown
  <2>9. CASE Begin(t)
    <3>1. CASE pc[t] = "start" /\ msgrecv(t, Anybody) /\ UNCHANGED own
      BY <3>1, FamilyTakes
    <3>2. CASE /\ pc[t] = "begin" /\ GoTo(t, IF code[t] \in Leaf THEN "answer" ELSE "fill")
               /\ boss' = [boss EXCEPT ![t] = got[t].msg]
               /\ UNCHANGED <<code, sp, made, heard, page, stackalloc, state, free>>
      BY <3>2, BeginGrown
    <3> QED
      BY <2>9, <3>1, <3>2 DEF Begin, At
  <2>10. CASE Answer(t)
    BY <2>10, AnswerGrown DEF Answer, At
  <2>11. CASE Forever(t)
    BY <2>11, FamilyTakes DEF Forever, At
  <2>12. CASE Collect(t)
    <3>1. CASE pc[t] = "collect" /\ msgrecv(t, Anybody) /\ UNCHANGED own
      BY <3>1, FamilyTakes
    <3>2. CASE /\ pc[t] = "count"
               /\ heard' = [heard EXCEPT ![t] = Append(@, got[t].from)]
               /\ GoTo(t, IF Len(heard[t]) + 1 < Awaited THEN "collect" ELSE "done")
               /\ UNCHANGED <<code, sp, boss, made, page, stackalloc, state, free>>
      BY <3>2, CountGrown
    <3> QED
      BY <2>12, <3>1, <3>2 DEF Collect, At
  <2> QED
    BY <1>7, <2>2, <2>3, <2>4, <2>5, <2>6, <2>7, <2>8, <2>9, <2>10, <2>11, <2>12
    DEF ThreadNext, CreatorNext
<1> QED
  BY <1>1, <1>2, <1>3, <1>4, <1>5, <1>6, <1>7 DEF CNext, ServerNext

LEMMA GrownInit ==
  ASSUME OneFamily, CInit
  PROVE  Grown /\ \E maker, rank, who, nth : Counted(maker, rank, who, nth)
<1>0. /\ ssi \in Threads \ Family /\ cs \in Threads \ Family /\ ssi # cs
      /\ Family \subseteq Threads /\ Eldest \in Family
      /\ DOMAIN starters = {Eldest} /\ starters[Eldest] = "p8"
  BY Names, EldestIs DEF OneFamily
<1>1. /\ box = [t \in Threads |-> <<>>] /\ boss = [t \in Threads |-> t]
      /\ sp = [t \in Threads |-> 0] /\ stackalloc = Len(Blocks) + 1 /\ Len(Blocks) \in Nat
      /\ made = [t \in Threads |-> <<>>] /\ heard = [t \in Threads |-> <<>>]
      /\ state = [b \in Buffers |-> [sp |-> 0, pc |-> "p8child"]]
  BY ClientsAssumption DEF CInit, Clear
<1>2. /\ \A c \in Family : /\ code[c] = IF c = Eldest THEN "p8" ELSE "p8child"
                           /\ pc[c] = IF c = Eldest THEN "fill" ELSE "free"
      /\ code[ssi] = "ssi_entry" /\ code[cs] = "cs_thread" /\ pc[ssi] = "serve"
  BY <1>0 DEF CInit, Family
<1>3. 0 < Quota(Eldest) /\ \A c \in Family : 0 <= Quota(c)
  BY <1>0, <1>2, ClientsAssumption DEF Quota, OneFamily
<1>4. Len(<<>>) = 0 /\ \A c \in Threads : box[c] = <<>> /\ made[c] = <<>> /\ heard[c] = <<>>
  BY <1>1
<1>5. \A c \in Family : Local(c)
  <2> SUFFICES ASSUME NEW c \in Family PROVE Local(c)
    OBVIOUS
  <2>1. Duty(c) /\ Filled(c)
    BY <1>2 DEF Duty, Filled, Grandchild, Creating, Early
  <2>2. InQuota(c)
    BY <1>0, <1>2, <1>3, <1>4 DEF InQuota, Creating, Early
  <2>3. Kin(c)
    BY <1>0, <1>2, <1>4 DEF Kin, Early
  <2> QED
    BY <2>1, <2>2, <2>3 DEF Local
<1>6. Hearing
  <2>1. \A g : ~Has(box[Eldest], g) /\ Once(box[Eldest], g) /\ ~Contains(heard[Eldest], g)
    BY <1>0, <1>4 DEF Has, Once, Contains
  <2>2. \A g : ~InHands(g)
    BY <1>0, <1>2 DEF InHands
  <2>3. ToSet(heard[Eldest]) \subseteq Family /\ IsInjective(heard[Eldest])
    BY <1>0, <1>4 DEF ToSet, IsInjective
  <2>4. 0 < Awaited
    BY ClientsAssumption DEF Awaited, OneFamily
  <2> QED
    BY <1>0, <1>2, <1>4, <2>1, <2>2, <2>3, <2>4 DEF Hearing
<1>7. Names8 /\ Heights
  BY <1>0, <1>1, <1>2, <1>4 DEF Names8, Heights
<1>8. PICK maker, rank, who, nth :
        /\ maker = [t \in Threads |-> Eldest] /\ rank = [t \in Threads |-> 0]
        /\ who = [p \in Int |-> Eldest] /\ nth = [p \in Int |-> 0]
  OBVIOUS
<1>9. \A c \in Family : ~Born(c)
  BY <1>2 DEF Born
<1>10. Lineage(maker, rank)
  BY <1>0, <1>8, <1>9 DEF Lineage
<1>11. \A p : p \notin stackalloc..Len(Blocks)
  BY <1>1
<1>12. Taken(who, nth)
  BY <1>0, <1>8, <1>11 DEF Taken
<1> QED
  BY <1>5, <1>6, <1>7, <1>10, <1>12 DEF Grown, Counted

HeardInv == Grown /\ \E maker, rank, who, nth : Counted(maker, rank, who, nth)

LEMMA HeardStutter ==
  ASSUME OneFamily, StackInv, StackInv', HeardInv, UNCHANGED cvars
  PROVE  HeardInv'
<1>1. /\ UNCHANGED <<box, waits, pc, got>>
      /\ UNCHANGED <<code, sp, boss, made, heard, page, stackalloc, state, free>>
  BY DEF cvars, mvars, own
<1>2. PICK maker, rank, who, nth : Counted(maker, rank, who, nth)
  BY DEF HeardInv
<1>3. \A c \in Family : Local(c)'
  <2> SUFFICES ASSUME NEW c \in Family PROVE Local(c)'
    OBVIOUS
  <2>1. Local(c) /\ \A i \in DOMAIN box'[c] : Fit(c, box'[c][i])
    BY <1>1 DEF HeardInv, Grown, Local, Kin
  <2> QED
    BY <1>1, <2>1, LocalStays
<1>4. Hearing'
  <2>1. \A g \in Family : Answered(g) => Answered(g)'
    BY <1>1 DEF Answered, Grandchild
  <2> QED
    BY <1>1, <2>1, HearingKept DEF HeardInv, Grown
<1>5. Names8' /\ Heights'
  BY <1>1 DEF HeardInv, Grown, Names8, Heights
<1>6. \A c \in Family : /\ Born(c)' => Born(c)
                        /\ Pending(c) => Pending(c)'
                        /\ pc[c] \in Spent => pc'[c] \in Spent
  BY <1>1 DEF Born, Pending
<1>7. Counted(maker, rank, who, nth)'
  BY <1>1, <1>2, <1>6, CountedStays
<1> QED
  BY <1>3, <1>4, <1>5, <1>7 DEF HeardInv, Grown

LEMMA HeardInductive ==
  ASSUME OneFamily
  PROVE  CSpec => []HeardInv
<1>1. CSpec => []StackInv
  BY StackInductive DEF OneFamily
<1>2. CInit => HeardInv
  BY GrownInit DEF HeardInv
<1>3. StackInv /\ StackInv' /\ HeardInv /\ [CNext]_cvars => HeardInv'
  <2> SUFFICES ASSUME StackInv, StackInv', HeardInv, [CNext]_cvars PROVE HeardInv'
    OBVIOUS
  <2>1. PICK maker, rank, who, nth : Counted(maker, rank, who, nth)
    BY DEF HeardInv
  <2>2. CASE CNext
    <3>1. Grown' /\ \E m, r, w, n : Counted(m, r, w, n)'
      BY <2>1, <2>2, GrownStep DEF HeardInv
    <3> QED
      BY <3>1 DEF HeardInv
  <2>3. CASE UNCHANGED cvars
    BY <2>3, HeardStutter
  <2> QED
    BY <2>2, <2>3
<1> QED
  BY <1>1, <1>2, <1>3, PTL DEF CSpec

(*------------------------------ counting -------------------------------*)

\* Nobody makes, or takes a page for, more threads than is its part.
LEMMA WithinQuota ==
  ASSUME OneFamily, StackInv, Grown, NEW c \in Family
  PROVE  /\ ~Grandchild(c) => Out(c) <= Quota(c) /\ Used(c) <= Quota(c)
         /\ Grandchild(c) \/ pc[c] \in Early => Out(c) = 0 /\ Used(c) = 0
<1>1. Local(c)
  BY DEF Grown
<1>2. Pending(c) => pc[c] \in {"created", "tell"}
  BY DEF Pending, StackInv, MailInv, Request, InHand
<1>3. pc[c] \in Spent \/ Pending(c) => pc[c] \in Creating /\ ~Grandchild(c) /\ pc[c] \notin Early
  BY <1>1, <1>2 DEF Local, Duty, Spent, Creating, Early, Grandchild
<1>4. Len(made[c]) \in Nat /\ Quota(c) \in Nat
  BY OutType, ClientsAssumption DEF Quota
<1>5. ASSUME ~Grandchild(c) PROVE Out(c) <= Quota(c) /\ Used(c) <= Quota(c)
  <2>1. Len(made[c]) <= Quota(c) /\ (pc[c] \in Creating => Len(made[c]) < Quota(c))
    BY <1>1, <1>5 DEF Local, InQuota
  <2> QED
    BY <1>3, <1>4, <2>1, OutType
<1>6. ASSUME Grandchild(c) \/ pc[c] \in Early PROVE Out(c) = 0 /\ Used(c) = 0
  <2>1. made[c] = <<>> /\ Len(<<>>) = 0
    BY <1>1, <1>6 DEF Local, InQuota
  <2> QED
    BY <1>3, <1>6, <2>1, OutType
<1> QED
  BY <1>5, <1>6

\* The maker of a child is p8, that of a grandchild a child.
LEMMA Makers ==
  ASSUME OneFamily, StackInv, Grown, NEW maker, NEW rank, Lineage(maker, rank),
         NEW u \in Family, u # Eldest, pc[u] # "free"
  PROVE  /\ maker[u] \in Family /\ rank[u] \in Nat
         /\ ~Grandchild(u) => maker[u] = Eldest /\ rank[u] \in 1..CHILDREN
         /\ Grandchild(u) => /\ maker[u] # Eldest /\ ~Grandchild(maker[u])
                             /\ pc[maker[u]] # "free" /\ rank[u] \in 1..NGRANDCHILDREN
<1>1. /\ maker[u] \in Family /\ rank[u] \in Nat
      /\ code[maker[u]] \in {"p8", "p8child"} /\ code[u] = Wanted(maker[u])
      /\ rank[u] \in 1..Out(maker[u])
  BY Names DEF OneFamily, Lineage, Born
<1>2. \A c \in Family : Duty(c)
  BY DEF Grown, Local
<1>3. Eldest \in Family
  BY EldestIs
<1>4. ~Grandchild(maker[u]) /\ (code[maker[u]] = "p8" <=> maker[u] = Eldest)
  BY <1>1, <1>2, <1>3 DEF Duty, Grandchild
<1>5. Grandchild(u) <=> maker[u] # Eldest
  BY <1>1, <1>2, <1>4 DEF Duty, Grandchild, Wanted
<1>6. Out(maker[u]) <= Quota(maker[u]) /\ Out(maker[u]) \in Nat
  BY <1>1, <1>4, WithinQuota, OutType
<1>7. Quota(maker[u]) = IF maker[u] = Eldest THEN CHILDREN ELSE NGRANDCHILDREN
  BY <1>1, <1>4 DEF Quota
<1>8. pc[maker[u]] # "free"
  <2>1. Out(maker[u]) # 0
    BY <1>1
  <2> QED
    BY <1>1, <2>1, WithinQuota DEF Early
<1> QED
  BY <1>1, <1>4, <1>5, <1>6, <1>7, <1>8, ClientsAssumption

Grandchildren == {u \in Family : Grandchild(u)}

\* The size of a product.
LEMMA Rectangle ==
  ASSUME NEW A, NEW B, IsFiniteSet(A), IsFiniteSet(B)
  PROVE  IsFiniteSet(A \X B) /\ Cardinality(A \X B) = Cardinality(A) * Cardinality(B)
BY FS_Product

\* There are no more grandchildren than p8 waits for.
LEMMA FewGrandchildren ==
  ASSUME OneFamily, StackInv, Grown, NEW maker, NEW rank, Lineage(maker, rank)
  PROVE  IsFiniteSet(Grandchildren) /\ Cardinality(Grandchildren) <= Awaited
<1> DEFINE P == (1..CHILDREN) \X (1..NGRANDCHILDREN)
           f == [u \in Grandchildren |-> <<rank[maker[u]], rank[u]>>]
<1>1. ASSUME NEW u \in Grandchildren
      PROVE  /\ u \in Family /\ u # Eldest /\ pc[u] # "free" /\ maker[u] \in Family
             /\ maker[u] # Eldest /\ pc[maker[u]] # "free" /\ maker[maker[u]] = Eldest
             /\ rank[maker[u]] \in 1..CHILDREN /\ rank[u] \in 1..NGRANDCHILDREN
  <2>1. u \in Family /\ Grandchild(u) /\ u # Eldest /\ pc[u] # "free"
    BY EldestIs DEF Grandchildren, Grown, Local, Duty, Grandchild
  <2>2. /\ maker[u] \in Family /\ maker[u] # Eldest /\ ~Grandchild(maker[u])
        /\ pc[maker[u]] # "free" /\ rank[u] \in 1..NGRANDCHILDREN
    BY <2>1, Makers
  <2>3. maker[maker[u]] = Eldest /\ rank[maker[u]] \in 1..CHILDREN
    BY <2>2, Makers
  <2> QED
    BY <2>1, <2>2, <2>3
<1>2. \A u, v \in Family : u # Eldest /\ v # Eldest /\ pc[u] # "free" /\ pc[v] # "free"
        /\ maker[u] = maker[v] /\ rank[u] = rank[v] => u = v
  BY DEF Lineage, Born
<1>3. ASSUME NEW u \in Grandchildren, NEW v \in Grandchildren, f[u] = f[v]
      PROVE  u = v
  <2>1. rank[maker[u]] = rank[maker[v]] /\ rank[u] = rank[v]
    BY <1>3
  <2>2. maker[u] = maker[v]
    BY <1>1, <1>2, <2>1
  <2> QED
    BY <1>1, <1>2, <2>1, <2>2
<1>4. f \in [Grandchildren -> P]
  BY <1>1
<1>5. f \in Injection(Grandchildren, P)
  <2> HIDE DEF f, P
  <2> QED
    BY <1>3, <1>4 DEF Injection, IsInjective
<1>6. IsFiniteSet(P) /\ Cardinality(P) = Awaited
  <2>1. /\ IsFiniteSet(1..CHILDREN) /\ Cardinality(1..CHILDREN) = CHILDREN
        /\ IsFiniteSet(1..NGRANDCHILDREN) /\ Cardinality(1..NGRANDCHILDREN) = NGRANDCHILDREN
    BY FS_Interval, ClientsAssumption DEF OneFamily
  <2> DEFINE A == 1..CHILDREN
             B == 1..NGRANDCHILDREN
  <2>2. P = A \X B
    OBVIOUS
  <2>3. IsFiniteSet(A) /\ IsFiniteSet(B)
    BY <2>1
  <2>4. Cardinality(A) = CHILDREN /\ Cardinality(B) = NGRANDCHILDREN
    BY <2>1
  <2> HIDE DEF A, B, P
  <2>5. IsFiniteSet(A \X B) /\ Cardinality(A \X B) = Cardinality(A) * Cardinality(B)
    BY <2>3, Rectangle
  <2> QED
    BY <2>2, <2>4, <2>5 DEF Awaited
<1> HIDE DEF f, P
<1> QED
  BY <1>5, <1>6, FS_Injection

\* As many elements as places, if no element is twice in a sequence.
LEMMA Distinct ==
  ASSUME NEW T, NEW q \in Seq(T), IsInjective(q)
  PROVE  IsFiniteSet(ToSet(q)) /\ Cardinality(ToSet(q)) = Len(q)
<1> DEFINE S == 1..Len(q)
           R == ToSet(q)
<1>1. Len(q) \in Nat /\ DOMAIN q = S
  OBVIOUS
<1>2. R = {q[i] : i \in S}
  BY <1>1 DEF ToSet
<1>3. q \in [S -> T]
  OBVIOUS
<1>4. IsFiniteSet(S) /\ Cardinality(S) = Len(q)
  BY <1>1, FS_Interval
<1>5. \A i, j \in S : q[i] = q[j] => i = j
  BY <1>1 DEF IsInjective
<1> HIDE DEF S, R
<1>6. q \in [S -> R]
  BY <1>2, <1>3
<1>7. \A r \in R : \E i \in S : q[i] = r
  BY <1>2
<1>8. q \in Injection(S, R)
  BY <1>5, <1>6, Fun_IsInj
<1>9. q \in Surjection(S, R)
  BY <1>6, <1>7, Fun_IsSurj
<1>10. IsFiniteSet(R) /\ Cardinality(R) = Cardinality(S)
  BY <1>4, <1>8, <1>9, FS_Surjection
<1> QED
  BY <1>4, <1>10 DEF R

\* p8 ends when it has heard as many as there can be, and nobody else.
LEMMA HeardAll ==
  ASSUME OneFamily, StackInv, HeardInv
  PROVE  AllHeard
<1> SUFFICES ASSUME NEW t \in Threads, code[t] = "p8", pc[t] = "done"
             PROVE  /\ IsInjective(heard[t])
                    /\ ToSet(heard[t]) = {u \in Threads : code[u] = "p8grandchild"}
  BY DEF AllHeard, At
<1>1. t = Eldest
  BY DEF HeardInv, Grown, Local, Duty, Grandchild, Names8, Family
<1>2. {u \in Threads : code[u] = "p8grandchild"} = Grandchildren
  BY DEF HeardInv, Grown, Names8, Grandchildren, Grandchild, Family
<1>3. /\ heard[t] \in Seq(Threads) /\ IsInjective(heard[t]) /\ Len(heard[t]) = Awaited
      /\ \A g \in Family : Contains(heard[t], g) => Answered(g)
      /\ ToSet(heard[t]) \subseteq Family
  BY <1>1 DEF HeardInv, Grown, Names8, Hearing
<1> DEFINE R == ToSet(heard[t])
<1>4. R \subseteq Grandchildren
  <2>1. \A g \in R : \E i \in 1..Len(heard[t]) : heard[t][i] = g
    BY <1>3 DEF ToSet
  <2>2. \A g \in R : g \in Family /\ Contains(heard[t], g)
    BY <1>3, <2>1 DEF Contains
  <2> QED
    BY <1>3, <2>2 DEF Answered, Grandchildren
<1>5. IsFiniteSet(R) /\ Cardinality(R) = Awaited
  BY <1>3, Distinct
<1>6. IsFiniteSet(Grandchildren) /\ Cardinality(Grandchildren) <= Awaited
  BY FewGrandchildren DEF HeardInv, Counted
<1>7. R = Grandchildren
  <2> DEFINE G == Grandchildren
  <2> HIDE DEF R, G
  <2>1. IsFiniteSet(G) /\ R \in SUBSET G
    BY <1>4, <1>6 DEF G
  <2>2. Cardinality(R) <= Cardinality(G) /\ (Cardinality(G) = Cardinality(R) => G = R)
    BY <2>1, FS_Subset
  <2>3. Cardinality(G) \in Nat /\ Cardinality(R) \in Nat
    BY <1>5, <2>1, FS_CardinalityType
  <2>4. Cardinality(G) = Cardinality(R)
    BY <1>5, <1>6, <2>2, <2>3 DEF G
  <2> QED
    BY <2>2, <2>4 DEF G
<1> QED
  BY <1>2, <1>3, <1>7

(*-------------------------------- the pages ----------------------------*)

EnoughBlocks == Len(Blocks) >= CHILDREN + CHILDREN * NGRANDCHILDREN

\* The pages that the family takes are not more than its threads.
LEMMA FewPages ==
  ASSUME OneFamily, EnoughBlocks, StackInv, HeardInv
  PROVE  stackalloc >= 1
<1>1. PICK maker, rank, who, nth : Counted(maker, rank, who, nth)
  BY DEF HeardInv
<1> DEFINE K == stackalloc..Len(Blocks)
           D == {0} \X (1..CHILDREN)
           E == (1..CHILDREN) \X (1..NGRANDCHILDREN)
           f == [p \in K |-> IF who[p] = Eldest THEN <<0, nth[p]>> ELSE <<rank[who[p]], nth[p]>>]
<1>2. stackalloc \in Int /\ Len(Blocks) \in Nat /\ CHILDREN \in Nat /\ NGRANDCHILDREN \in Nat
  BY ClientsAssumption DEF StackInv, OwnTypes
<1>3. ASSUME NEW p \in K
      PROVE  /\ who[p] \in Family /\ (who[p] # Eldest => Born(who[p]) /\ maker[who[p]] = Eldest)
             /\ IF who[p] = Eldest THEN nth[p] \in 1..CHILDREN
                ELSE rank[who[p]] \in 1..CHILDREN /\ nth[p] \in 1..NGRANDCHILDREN
  <2>1. who[p] \in Family /\ nth[p] \in 1..Used(who[p])
    BY <1>1, <1>2 DEF Counted, Taken
  <2>2. Used(who[p]) \in Nat /\ Used(who[p]) # 0
    BY <2>1, OutType
  <2>3. ~Grandchild(who[p]) /\ pc[who[p]] \notin Early /\ Used(who[p]) <= Quota(who[p])
    BY <2>1, <2>2, WithinQuota DEF HeardInv
  <2>4. CASE who[p] = Eldest
    <3>1. Quota(who[p]) = CHILDREN
      BY <2>1, <2>4 DEF HeardInv, Grown, Local, Duty, Quota
    <3> QED
      BY <1>2, <2>1, <2>2, <2>3, <2>4, <3>1
  <2>5. CASE who[p] # Eldest
    <3>1. Quota(who[p]) = NGRANDCHILDREN
      BY <2>1, <2>3, <2>5 DEF HeardInv, Grown, Local, Duty, Quota
    <3>2. pc[who[p]] # "free"
      BY <2>3 DEF Early
    <3>3. maker[who[p]] = Eldest /\ rank[who[p]] \in 1..CHILDREN
      BY <1>1, <2>1, <2>3, <2>5, <3>2, Makers DEF HeardInv, Counted
    <3>4. nth[p] \in 1..NGRANDCHILDREN
      BY <1>2, <2>1, <2>2, <2>3, <3>1
    <3> QED
      BY <2>1, <2>5, <3>2, <3>3, <3>4 DEF Born
  <2> QED
    BY <2>4, <2>5
<1>4. f \in [K -> D \union E]
  BY <1>3
<1>5. ASSUME NEW p \in K, NEW r \in K, f[p] = f[r]
      PROVE  p = r
  <2>1. nth[p] = nth[r]
    BY <1>5
  <2>2. who[p] = who[r]
    <3>1. \A q \in K : who[q] # Eldest => f[q][1] # 0
      BY <1>3
    <3>2. \A q \in K : who[q] = Eldest => f[q][1] = 0
      OBVIOUS
    <3>3. who[p] = Eldest <=> who[r] = Eldest
      BY <1>5, <3>1, <3>2
    <3>4. who[p] # Eldest => rank[who[p]] = rank[who[r]]
      BY <1>5, <3>3
    <3> QED
      BY <1>1, <1>3, <3>3, <3>4 DEF Counted, Lineage
  <2> QED
    BY <1>1, <2>1, <2>2 DEF Counted, Taken
<1>6. /\ IsFiniteSet(D) /\ Cardinality(D) = CHILDREN
      /\ IsFiniteSet(E) /\ Cardinality(E) = CHILDREN * NGRANDCHILDREN
  <2> DEFINE A == 1..CHILDREN
             B == 1..NGRANDCHILDREN
             Z == {0}
  <2>1. /\ IsFiniteSet(A) /\ Cardinality(A) = CHILDREN
        /\ IsFiniteSet(B) /\ Cardinality(B) = NGRANDCHILDREN
        /\ IsFiniteSet(Z) /\ Cardinality(Z) = 1
    <3>1. \A n \in Nat : IsFiniteSet(1..n) /\ Cardinality(1..n) = n
      BY FS_Interval
    <3>2. IsFiniteSet(Z) /\ Cardinality(Z) = 1
      BY FS_Singleton, Zenon
    <3> QED
      BY <1>2, <3>1, <3>2
  <2>2. D = Z \X A /\ E = A \X B
    OBVIOUS
  <2> HIDE DEF A, B, Z, D, E
  <2>3. /\ IsFiniteSet(Z \X A) /\ Cardinality(Z \X A) = Cardinality(Z) * Cardinality(A)
        /\ IsFiniteSet(A \X B) /\ Cardinality(A \X B) = Cardinality(A) * Cardinality(B)
    BY <2>1, Rectangle
  <2>4. 1 * CHILDREN = CHILDREN
    BY <1>2
  <2> QED
    BY <2>1, <2>2, <2>3, <2>4
<1>7. /\ IsFiniteSet(K)
      /\ Cardinality(K) = IF stackalloc > Len(Blocks) THEN 0 ELSE Len(Blocks) - stackalloc + 1
  BY <1>2, FS_Interval
<1> HIDE DEF K, D, E, f
<1>8. f \in Injection(K, D \union E)
  BY <1>4, <1>5, Fun_IsInj
<1>9. IsFiniteSet(D \union E) /\ Cardinality(D \union E) <= Cardinality(D) + Cardinality(E)
  <2>1. /\ IsFiniteSet(D \union E)
        /\ Cardinality(D \union E) = Cardinality(D) + Cardinality(E) - Cardinality(D \intersect E)
    BY <1>6, FS_Union
  <2>2. IsFiniteSet(D \intersect E)
    BY <1>6, FS_Intersection
  <2>3. Cardinality(D) \in Nat /\ Cardinality(E) \in Nat /\ Cardinality(D \intersect E) \in Nat
    BY <1>6, <2>2, FS_CardinalityType
  <2> QED
    BY <2>1, <2>3
<1>10. Cardinality(K) <= Cardinality(D \union E)
  BY <1>8, <1>9, FS_Injection
<1> DEFINE n == CHILDREN * NGRANDCHILDREN
<1>11. n \in Nat /\ Len(Blocks) >= CHILDREN + n
  BY <1>2 DEF EnoughBlocks
<1>12. Cardinality(E) = n
  BY <1>6
<1> HIDE DEF n
<1>13. Cardinality(K) \in Nat /\ Cardinality(D \union E) \in Nat
  BY <1>7, <1>9, FS_CardinalityType
<1>14. Cardinality(K) <= CHILDREN + n
  BY <1>2, <1>6, <1>9, <1>10, <1>11, <1>12, <1>13
<1> QED
  BY <1>2, <1>7, <1>11, <1>13, <1>14

LEMMA TypedFamily ==
  ASSUME OneFamily, EnoughBlocks, StackInv, HeardInv
  PROVE  ClientsTypeOK
<1>1. stackalloc \in 1..Len(Blocks) + 1
  BY FewPages, ClientsAssumption DEF StackInv, OwnTypes, HeardInv, Grown, Heights
<1>2. ASSUME NEW t \in Threads PROVE sp[t] \in 0..Len(Blocks) + 1
  <2>1. sp[t] \in Int /\ (sp[t] = 0 \/ sp[t] >= stackalloc)
    BY DEF StackInv, OwnTypes, Pages
  <2>2. sp[t] <= Len(Blocks) + 1
    BY DEF HeardInv, Grown, Heights
  <2>3. Len(Blocks) \in Nat
    BY ClientsAssumption
  <2> QED
    BY <1>1, <2>1, <2>2, <2>3
<1>3. sp \in [Threads -> 0..Len(Blocks) + 1]
  BY <1>2 DEF StackInv, OwnTypes
<1>4. code \in [Threads -> Code]
  BY DEF StackInv, OwnTypes, Runs, Code, Roles
<1>5. ASSUME NEW t \in Threads PROVE state[Buffer(t)].pc \in Code
  BY DEF StackInv, OwnTypes, Runs, Code, Roles, Buffer, Shared, Buffers
<1>6. /\ boss \in [Threads -> Threads]
      /\ made \in [Threads -> Seq(Threads)] /\ heard \in [Threads -> Seq(Threads)]
  BY DEF HeardInv, Grown, Names8
<1> QED
  BY <1>1, <1>3, <1>4, <1>5, <1>6 DEF ClientsTypeOK

\* When p8 ends, it has heard of every grandchild, of each once, and of nobody
\* else, for any number of children and grandchildren: what comes while p8
\* waits for the server of the critical section or for the SSI is not taken
\* for their answers.
THEOREM HeardSound ==
  ASSUME OneFamily
  PROVE  CSpec => []AllHeard
<1>1. CSpec => []StackInv
  BY StackInductive DEF OneFamily
<1>2. CSpec => []HeardInv
  BY HeardInductive
<1>3. StackInv /\ HeardInv => AllHeard
  BY HeardAll
<1> QED
  BY <1>1, <1>2, <1>3, PTL

\* The family stays within the stacks of its threads: stackalloc never falls
\* below the page of the last thread that it can have.
THEOREM FamilyTyped ==
  ASSUME OneFamily, EnoughBlocks
  PROVE  CSpec => []ClientsTypeOK
<1>1. CSpec => []StackInv
  BY StackInductive DEF OneFamily
<1>2. CSpec => []HeardInv
  BY HeardInductive
<1>3. StackInv /\ HeardInv => ClientsTypeOK
  BY TypedFamily
<1> QED
  BY <1>1, <1>2, <1>3, PTL
==============================================================================
