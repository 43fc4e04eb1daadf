# Mikaboo: a TLA+ model of the nucleus

Mikaboo is a small microkernel for the uARM emulator. Threads of processes talk
by messages; everything but sending and receiving is a service of one kernel
thread, the *System Service Interface* (SSI), that is asked for by message. This
directory holds a TLA+ model of the nucleus (`src/mikabooq.c`, `src/ssi.c`,
`src/exceptions.c`, `src/interrupts.c`, `src/scheduler.c`, `src/boot.c` and their
headers), the TLC runs that check it, and TLAPS proofs about it. Line numbers
below are lines of the files in `src/`.

## 1. Inventory

| part | state it keeps | operations | what makes it correct |
|---|---|---|---|
| linked lists, `include/listx.h` | `next`/`prev` of every node | add, delete, empty, iterate | a list stays a ring; a node is on one list |
| tables, `mikabooq.c` | PCBs, TCBs, message elements, their free lists, family lists, message queues | alloc, free, enqueue, dequeue, `msgq_add`, `msgq_get` | every block is free or in one family; every message element is in the pool or in one queue |
| message passing, `exceptions.c:57-165` | `wait_queue`, `t_wait4sender`, `soft_block_count` | `put_thread_sleep`, `wake_me_up`, `sys_send_msg` | no lost wake-up, no doubled message |
| system calls and traps, `exceptions.c:101-281` | the pc of the caller, `err_numb` | `SYS_SEND`, `SYS_RECV`, pass up, TLB and program traps | a caller that cannot go on repeats its call; a trapped thread is resumed by its manager |
| SSI, `ssi.c` | `device_list`, managers, `thread_count`, all of the above | fourteen services, killing of threads and processes | each request has one answer; killing leaves nothing behind |
| client wrappers, `include/nucleus.h` | none | a send to the SSI and a receive from it | the answer a client reads is the one to its request |
| interrupts, `interrupts.c` | `device_list`, the queues | end of a slice, tick, end of a device operation | the commander gets the status once |
| scheduler, `scheduler.c` | `current_thread`, `ready_queue`, `wait_pseudo_clock_queue` | expiry of the pseudo clock, dispatch, HALT, PANIC, WAIT | round robin; PANIC means deadlock, HALT means that only the SSI is left |
| boot, `boot.c` | the initial state | `main` | two threads are ready: the SSI and the test |
| timer arithmetic, `scheduler.c:22-73` | `slice_TOD`, `last_TOD`, the interval timer, `elapsed_time` | `is_time_slice`, `set_pseudo_clock`, `set_next_timer` | a wait lasts its period; a slice ends |
| device registers, `include/const.h:19-46`, `interrupts.c:69-148`, `ssi.c:202-253` | the registers of the machine | address to type, number, index; commands; the device of highest priority | an entry of `device_list` is taken exactly while its sub-device works; a command reaches its device |
| test programs, `p1test.c`, `p2test.c`, `p2p.c` | `stackalloc`, `tmpstate`, the critical section server | starting threads, collecting answers | no page of stack is given twice; nobody waits for ever |

**Interactions.** A client makes a system call, which is a trap into
`sys_bp_handler` (`exceptions.c:171`). A request is a message in the queue of the
SSI, which is a thread like the others, in the same ready queue, preemptible. A
service that takes time (`WAIT_FOR_CLOCK`, `DO_IO`) takes the client off the queue
it is on and gives no reply; the scheduler (`scheduler.c:31-53`) or the interrupt
handler (`interrupts.c:98-108`) later sends the reply *in the name of the SSI*. A
thread without a manager that traps is killed inside the trap handler with the
code of the SSI (`ssi_terminate_thread`), which the SSI may be in the middle of.

**What is hard here.** The same queues are written by five files; the client of a
parked service may be asleep in its receive or preempted before it; replies come
from three places; a kill follows pointers (`t_wait4sender`, managers,
`device_list`, message senders) into blocks that are freed and used again; the two
counters that tell a wait from a deadlock are changed at seven places. The list of
hazards, each at its line and with the properties aimed at it, is in
`PROJECT.json`.

## 2. The modules

The modules from `Listx` to `Nucleus` extend each other in this order; the
modules of the second half stand on `Nucleus`.

| module | code | contents |
|---|---|---|
| `Listx` | `include/listx.h` | the pointer operations, as functions from a heap of links to a heap of links |
| `Mikabooq` | `mikabooq.c`, `boot.c`, constants | the variables, the table operations, `Init` |
| `Messages` | `exceptions.c:57-165` | `put_thread_sleep`, `wake_me_up`, `sys_send_msg` |
| `Ssi` | `ssi.c` | the services and the killing |
| `Exceptions` | `exceptions.c`, wrappers of `nucleus.h` | system calls, traps |
| `Interrupts` | `interrupts.c` | timer and devices |
| `Scheduler` | `scheduler.c` | pseudo clock and dispatch |
| `Nucleus` | all | `Next`, `Spec`, fairness, the properties, the two refinement mappings |
| `Mailboxes` | `SYS_SEND`, `SYS_RECV` | abstract: what sending and receiving promise; extended by `Clients` |
| `Service` | the SSI and what answers in its name | abstract: what the SSI promises |
| `Timer` | `scheduler.c:22-102`, `interrupts.c:84-95` | the nucleus with time: slices, interval timer, pseudo clock |
| `Registers` | `const.h:19-46`, `ssi.c:202-253`, `interrupts.c` | the nucleus with a machine of sub-devices |
| `SsiGrain` | `ssi.c:130-140`, `:188-199`, `listx.h` | the nucleus with two services at the grain of reads and writes |
| `Clients` | `p2test.c`, `p2p.c` | test programs on top of `Mailboxes` |
| `MCNucleus`, `MCTimer`, `MCRegisters`, `MCSsiGrain`, `MCClients` | - | model values for TLC |
| `NucleusProofs` | - | type correctness; the families are sound |
| `MailProofs` | - | no lost wake-up; the nucleus implements `Mailboxes` |
| `ClientsProofs` | - | the critical section keeps stack pages apart; `p8` hears its whole family |
| `RingProofs` | - | the queues are rings; `Members` finds what is on them; the waiter of a victim is told |
| `TokenProofs` | - | places, `soft_block_count`, replies and the pool |
| `PromiseProofs` | - | the nucleus implements `Service`; who joins and leaves the queue of the clock |
| `TimerProofs` | - | how long a wait for the clock lasts; the order of its queue |
| `RegisterProofs` | - | `device_list` and the machine agree |

### State

* `sched` is one record: the `t_sched` links of all nodes (`next`, `prev`), each
  thread's `t_status`, and `soft_block_count` (`soft`). The scheduling queues are
  **real links**: `list_del` writes through the stale links of a thread that has
  left its queue, as the code does, and a head that is taken for a thread is
  noticed. The family lists (`p_threads`, `p_children`), the free lists and the
  message queues are sequences; `FamilyTree` and `PoolConserved` check that what
  is on one list is on no other.
* `call[t]` is the system call at which the pc of thread `t` stands. The
  handler moves the pc past a call only when the call is done
  (`exceptions.c:204`, `:220`, `:153`), so a call after which the scheduler is
  entered without that is made again. `call[SSI]` also holds the request it is
  computing and, while it kills, `Reaping`.
* `cpu` is what the processor is doing: `run` (interrupts enabled), `sched`
  (inside `scheduler()`), `idle` (`WAIT`), `reap` (a trap handler is in the loops
  of `__exterminate_proc`, interrupts disabled), `halt`, `panic`, and `wild`:
  control has left the program, because a list head or a freed block was taken
  for a thread, or a field of a NULL process was read.
* `reap` holds, for the SSI and for a trap handler, the stack of
  `__exterminate_proc` calls, whether `thread_count` is still to be decremented,
  and what the SSI does afterwards.
* the other variables have the names they have in the code. The two counters
  saturate at `+-CountBound`; the bound is at least the number of threads.

### Actions

One action is one system call, trap, interrupt, or one branch of the scheduler.
Those handlers run with interrupts disabled, so this is their real grain. A
service of the SSI is **one action** between the receive of the request and the
reply, which are actions of their own; the SSI can be preempted before and after,
and an extermination takes one action per turn of its loops, so that interrupts,
other threads and a second extermination can come in between. `SsiGrain` refines the
grain for two services, one that moves a thread between queues and one that adds a
thread to a queue: there any step of the rest of the nucleus can come between two
accesses to shared state, as the SSI runs with interrupts enabled. `ssi_race` refutes the
coarse grain for these two, and `ssi_do_io` moves threads in the same way: what the
passing runs and the theorems about `Nucleus` say, they say of a nucleus whose
services are not preempted half way.

Choices that a reader should know of:

* Traps are taken by client threads in user code, not by the SSI.
* Where the code reads garbage and goes on, through a NULL process or a head that it
  takes for a thread, the model stops in `wild`. `TypeOK` accepts that state, and nothing
  is said of what comes after it.
* A walk through a corrupted queue that never comes back to the head would not end in
  the code; `thread_in_queue` answers that the thread is not in the queue.
* A system call from user mode (`exceptions.c:247-274`) has the effect of
  `PgmTrap`, `SysPassup` or `Breakpoint` and gets no action of its own.
* In `Nucleus` time is nondeterministic: `SliceOver` and `Tick` (the two outcomes of
  `timer_handler`) may happen whenever interrupts are enabled, `ClockExpire` at
  any scheduling. `Timer` says when.
* `manager_of` of a thread without process is NULL: the code would read low
  memory there (`exceptions.c:191`).
* `SysSend` names neither the sender itself nor the SSI (requests go through
  `Request`); the manager a thread asks for is a live client or NULL; nobody can
  name a dead thread unless threads can die in the run (`MayDie`).
* The root process and the SSI are never the victim: the code gives no client a way
  to name them there.
* `cpu_time`, `who_is_managing`, processor states and the values inside replies are
  left out; a message is its sender and a tag.
* `free_managing` (`ssi.c:27-40`) is the identity because the code compares
  (`==`) where its comment says it assigns.

### Timer

Every step of `Timer` is a step of `Nucleus`, taken when the timer has it, or the
passing of a unit of time. `slice_TOD` and `last_TOD` are only ever subtracted from
`getTODLO()`, so the module keeps their ages, modulo `Width` (the range of `cpu_t`).
`scheduler()` takes up to four kinds of steps: `set_next_timer` (the ages, a new
slice, the first loop of `set_pseudo_clock`), `WakeHead` once per waiter whose time
is over, `SetTimer`, and the rest (`Schedule`). The interval timer counts down
while threads run or the processor waits, and its interrupt is pending from 0 until
the timer is written. The code that runs before the clock is read takes time too:
up to `MaxLag` units between the interrupt and `is_time_slice`, and again at the
entry of the scheduler. When the queue of the pseudo clock becomes empty inside
`set_pseudo_clock`, line 48 reads `elapsed_time` through the NULL that
`thread_qhead` returns; that is the word at address 0x80, a device register of
the machine, modelled as 0.

### Registers

`Devices` are addresses of command registers, as clients pass them to `do_io`. The
machine has `Installed` sub-devices; a terminal has two. `ssi_do_io` turns an
address into an entry of `device_list` (`entry`), starts the sub-devices whose
command registers it writes (`Written`), and `int_handler` finds the lowest line
and the lowest bit, turns them into an entry and acknowledges (`ack`). A terminal
half that ends in an error status is neither a reception nor a transmission, is not
acknowledged, and interrupts again (`interrupts.c:141-147`); the runs have
`Failing = {}`, because such an operation is never answered, which is what the
code does and what `p2test.c` works with.

### Clients

The thread `p8` of `p2test.c` with its children and grandchildren, the critical
section server, and the testers of `p2p.c` that send to the part they start
(`test2`, `test4`, `test5`). Threads use mailboxes and may be preempted between any
two steps, as the nucleus promises; the SSI creates a thread from the processor state in the
client's memory *as it is when the SSI serves the request*.

## 3. The properties

Safety (`Nucleus.tla` has the full statements):

* `NoLostWakeup` - a thread asleep in a receive has no acceptable message in its
  queue, and the sender it waits for is the one it asked for.
* `OnePlace` - a live thread is in exactly one place (processor, one of the three
  queues, one device), and the three queues are sound rings of live threads.
* `SoftBlockExact` - `soft_block_count` is the number of blocked threads.
* `OneReply` - a thread between its request and the reply has exactly one token
  of it somewhere: request queued, request being served, parked, reply being
  sent, or reply queued. `AtMostOneReply` is the form that survives an empty pool.
* `PoolConserved` - the pool and the queues hold `MAXMSG` elements together.
* `FamilyTree` - every TCB is free or in its process's list, every PCB free or in
  its parent's list, once; a free PCB has neither threads nor children.
* `TrapHeld` (action property) - a thread that passed a trap up is resumed only by
  a manager of its process, or by a death.
* `SoleWaiterWoken` (action property) - the thread that waits for one that dies, if it
  is the only one (a victim may wait for itself) and is on a wait queue of sleepers, is
  woken and told.
* `DeviceListExact` (`Registers`) - an entry of `device_list` is taken exactly while
  its sub-device works or waits to be acknowledged.
* `ClockSorted`, `WaitsLongEnough`, `WaitsBounded` (`Timer`) - the queue of the pseudo
  clock is in the order of the times waited; a wait lasts `SCHED_PSEUDO_CLOCK`, less
  at most a slice, plus at most a slice and two lags. `p2test.c:250-253` asserts the
  same of ten waits together.
* `TimesExact` (`Timer`) - no stamp comes round, no charged time overflows, and the
  remaining times that `set_next_timer` and `set_pseudo_clock` put into ints are the true
  ones. The difference of `is_time_slice` stays unsigned in the code and does wrap
  (`slice_overrun`); the property does not speak of it.
* `OwnStack`, `AllHeard` (`Clients`) - no page of stack is given twice; `p8` ends after
  one message of each grandchild.

Refinement: `KeepsMail` (the nucleus implements `Mailboxes`) and `KeepsPromise` (it
implements `Service`). The first maps a thread asleep in a receive to a waiting one
and its queue to its box; the second maps the queue of the SSI and what it has in
hand to the requests, the threads parked at the clock and the devices to the
pending ones, and the replies in the hands of the SSI or in the clients' queues to
the answers.

Liveness: `Answered`, `EveryoneRuns`, `Finishes`, and, for the runs that refute them,
`ExterminationEnds` and `RoundRobin`.

Each module with variables of its own has one type invariant (`TypeOK`, `TimeTypeOK`,
`ClientsTypeOK`).

### Fairness

`Fairness` (of `Nucleus`) assumes: weak fairness of the scheduler and of the
extermination loop of a handler (kernel code that has begun runs on); strong
fairness of the steps of each thread (a thread that gets the processor again and
again gets to its next system call in one of its slices); strong fairness of each
device's interrupt (it stays pending on its line until interrupts are enabled,
`interrupts.c:28-65` looks at every line). The steps are strongly fair, not weakly,
because every timer interrupt disables them. Nothing is assumed of the timer
itself: slices may be arbitrarily long or short.

`RFairness` (of `Registers`) splits the last part in two: a sub-device that works
comes to its end (weak), a pending interrupt is taken (strong). It also assumes
that the clock of a waiter expires when the scheduler is entered again and again,
and that a processor that waits gets an interrupt of the timer. Both are
consequences of time, and `Timer` shows the bound: `WaitsBounded`.

`TFairness` (of `Timer`) assumes that time passes (strong, as it stands still while the
scheduler computes), that the pending interrupt of the timer is taken, that the
scheduler runs on, and that the SSI and a client between a request and the receive of
the reply make their steps. It assumes nothing of user code, which may compute for
ever: that is the point of time slices.

`CFairness` (of `Clients`) is weak fairness of each thread, which is `EveryoneRuns`
seen from above, for threads that do not compute for long.

## 4. The runs

The first two threads of `store_t` are the SSI and the test thread that `main()`
starts, the others are free blocks that the services hand out; likewise
`store_p`. No symmetry is used, since allocation orders the blocks.

| run | instance | question |
|---|---|---|
| `nucleus_io` | `MCRegisters`: 3 threads, both halves of terminal 0, pool of 2; clock, I/O, errors, creation; fairness | with atomic services, do queues, counter, replies and `device_list` stay exact whatever interrupt, tick or end of a slice comes between two steps; is the SSI a `Service`; is every request answered; no deadlock |
| `nucleus_ipc` | 3 threads, pool of 2; free sends and receives | what an empty pool does: no doubled reply, no lost wake-up, no leaked element; is the nucleus `Mailboxes` |
| `nucleus_traps` | 3 threads, pool of 1; a TLB manager, sends, receives; constraint `NoKilling` | is a trapped thread resumed only by its manager |
| `nucleus_kill` | 3 threads, 3 processes, 1 device; kills by request, bad request, trap; halt, panic | families and sleepers under two interleaved exterminations; is the waiter of a victim told |
| `timer` | `MCTimer`: 3 threads, 1 device; slice 2, period 5, lag 1, 32 values of `cpu_t` | how long a wait lasts, and does the queue stay in order |
| `clients` | `MCClients`: `p8`, 2 children, 1 grandchild each | the critical section, the stack pages, the answers |
| `slice_overrun`, `ssi_race`, `false_panic`, `endless_extermination`, `disk_command`, `shared_state` | see section 5 | a comment, an assertion or a document the code departs from |

**Why the bounds are enough for what they show.** Three threads are the SSI, a
client, and a competitor of the client: the smallest instance in which two
requests queue up, two threads want one device, a message reaches a thread while
another message is in flight, and a queue has a middle. A pool of one or two runs
dry when threads send freely; a pool of two holds every message three threads can
have outstanding when they only use services. Three processes are the root, a child
and a grandchild, so that extermination recurses and two exterminations can overlap
on one family. The two halves of one terminal are the hard case of the registers:
two entries, one address block, one interrupt bit. In `timer` a period is two and a
half slices, so that a slice can end before, at and after the moment of a waiter, and two
waiters can be due at one scheduling or at two; `TimeAssumption` asks that a stamp's
age cannot wrap between two schedulings, as in the code (a period is 0.1 s, a wrap
71 minutes), while negative remaining times do wrap. Two children with one
grandchild each (the code has two and three) let an answer overtake the start of the
second child. `CountBound` is the number of threads, which `soft_block_count` never
exceeds in the runs that check `SoftBlockExact` (the invariant bounds it), so nothing
saturates there. `nucleus_io`, `nucleus_ipc` and `timer` check that the system never
stops; `CHECK_DEADLOCK FALSE` is said in the other runs, where a thread can halt the
machine, panic it, or send the processor astray (`wild`), as the code does, or where
the test programs come to their end.

`NoLostWakeup` is not claimed for managers together with passed up calls and free
sends: there a manager's send wakes a thread that is not asleep
(`exceptions.c:195`), the queues get corrupted, and the invariant fails.
`PoolConserved` is not claimed where threads die: a message sent to a dead block
is forgotten when `thread_alloc` clears the block's queue (`mikabooq.c:142`).

## 5. Where the code and its comments part

Each has a run that finds the shortest behaviour, and an entry in `findings`.

1. `slice_overrun` - the difference in `is_time_slice` is unsigned (`scheduler.c:28`), so
   a slice is over only in the very tick in which it ends; looked at later, the
   thread gets a new slice and keeps the processor. With a signed difference
   `RoundRobin` holds in the same instance.
2. `ssi_race` - the SSI is preempted inside `ssi_waitforclock` or
   `ssi_create_thread` (`ssi.c:193`, `:137`) and goes on with links that have moved.
3. `disk_command` - `ACTION_ON_DEVICE` (`const.h:40-43`) adds byte offsets to a pointer
   to words that is the command register already; the command of a disk lands in the
   registers of the next one.
4. `shared_state` - `call_create_process` (`p2p.c:110-116`) fills the shared `tmpstate`
   outside the critical section.
5. `false_panic` - `__exterminate_thread` takes one off `soft_block_count` for a
   *ready* victim (`ssi.c:70-72`); the scheduler then takes a wait for a device for
   a deadlock.
6. `endless_extermination` - a victim with messages is not freed
   (`mikabooq.c:158-160`) and the loop of `ssi.c:64` meets it for ever.

Also met while modelling, kept in the model, without a run of their own:

* `check_death` wakes one waiter of the victim (`ssi.c:56`); the others sleep for ever.
  `SoleWaiterWoken` is about a sole waiter for this reason.
* `free_managing` compares where it should assign (`ssi.c:31`), so a process keeps a
  dead manager.
* a bad request kills its sender and is replied to (`ssi.c:280`); the SSI repeats the
  send to the dead thread for ever.
* a passed up system call sets no `t_wait4sender` (`exceptions.c:236`), so the sender of
  an old receive resumes the thread; the mutant of `TrapHeld` is this path.
* `DESCRIPTION.pdf` says that the timer is set to the time left of the pseudo clock
  when that is shorter than the slice; `scheduler.c:49` then leaves it alone.
  `WaitsBounded` shows that waiters are late by a bounded time all the same.
* `scheduler.c:48` reads through NULL when the last waiter has been woken.
* the main thread of `p2p.c` counts seven messages, but `p3` also sends to it
  (`p2p.c:372`).
* the message elements queued for a dead block are lost when the block is used again
  (`mikabooq.c:142`).
* `soft_block_count` counts sleepers and parked threads alike, so threads that all
  wait for each other make the scheduler WAIT where its comment says PANIC.
* `check_thread_alive` stores the error in the *dead* thread (`exceptions.c:87`),
  where nobody reads it; `msgsend` never returns the -1 of its comment
  (`exceptions.c:160`).
* a thread killed at a device stays in `device_list`; its interrupt puts a freed
  block into a queue.
* a thread killed at a device is unlinked a second time, by the links of the queue it
  left (`ssi.c:225`, `:74`): with four threads they can be the head of the wait queue on
  both sides, the other sleepers are then on no queue, and the waiter of a later
  victim is never told. `SoleWaiterWoken` asks for a wait queue of sleepers for this reason;
  with three threads nobody is left to be lost, with four it was checked as well.
* `thread_count` goes down whether or not `thread_free` succeeded (`ssi.c:113`).
* a manager's send wakes whatever thread it names, asleep or not
  (`exceptions.c:195`).

## 6. What is proved

`NucleusProofs.tla` proves

    THEOREM TypeCorrect == Spec => []TypeOK

for every choice of tables, pool, devices, services and calls that satisfies
`StoreAssumption` (the tables are non-empty, without repetition, and disjoint from
the heads), `BoundAssumption` (the counter bound is at least the number of
threads) and `InputAssumption` (the services and calls are the code's). It says
more than that variables have types: the queue operations follow pointers out of
lists that may be *unsound* (stale links, corrupted rings), and the theorem states
that none of them ever writes outside the table or makes a call, message or
manager that no reader could decode, also in the middle of two exterminations.

`TypeOK` is inductive as it stands; its last conjunct (`cpu = "run"` implies that
there is a current thread) is there because the system calls need it. The proof
has a lemma per operator of `Listx`, `Mikabooq` and `Messages` (what it returns is
typed), a lemma per handler, and one per module's next-state relation; `FirstMatch`
and `RemoveFirst` choose a least index, whose existence is `LeastIndex`, from the
well-foundedness of `<` on the naturals.

The same module proves

    THEOREM FamilySound == Spec => []FamilyTree

from the same assumptions and nothing else: with managers, traps, dead managers,
corrupted scheduling queues, and a trap handler that exterminates a family the SSI is
half way through. `FamilyTree` is not inductive. `proc_delete` would put the *root* on
the free list if the root were ever a victim, so the proof has to show that it never
is, and that depends on who the SSI serves. The strengthening `FamilyInv` adds

* `RootHolds`: the root has one thread, the SSI; it is nobody's child; it is on no
  stack of `__exterminate_proc`;
* `SsiHolds`: the SSI is always at a call of its own (`SsiCall`), waits for nobody in
  particular (so `check_death` never finds it), returns from an extermination to
  such a call (`Returns`), and no request in its queue is its own (`Requested`): the
  interrupt handlers and the scheduler send in its name, but never a request.

The steps that touch families are five operations (`ThreadFreeTree`,
`StartThreadTree`, `ProcAllocTree`, `ProcDeleteTree` and the two together in
`CreateProcess`); they rest on three lemmas about sequences without repetition
(`RemoveFirstElements`, `AddElement`, `TailElements`).

`MailProofs.tla` proves

    THEOREM WakeupSound == ASSUME Services \intersect Managing = {} PROVE Spec => []NoLostWakeup

that is, with any kills, exterminations, traps, interrupts and preemptions, as long
as no thread can ask for a manager (with managers it is false, section 4). What
makes it work is that it does *not* need the queues to be sound: going to sleep and
waking are changes of a thread's status, its call and its queue of messages, and the
links of the scheduling queues do not matter. The invariant `WakeInv` is `TypeOK`,
`Unmanaged` (no process has a manager, so no send wakes a thread outside a receive) and
`SleepHolds` (a sleeper is in a receive, waits for whom it asked for, and has no
acceptable message). Killing wakes a sleeper by `check_death`, which follows links
that may be anything; the proof shows that what it finds is a thread that waits for
the victim, and that the wake-up takes it out of its receive.

The same module proves

    THEOREM MailRefined == ASSUME Peaceful PROVE Spec => KeepsMail

for any number of threads, services, devices and pool elements: where no thread can
kill, ask for a manager or trap (`Peaceful`), every step of the nucleus is a send
handed over, a send queued, a message taken, a thread beginning to wait, or nothing,
under the mapping of `KeepsMail`. The invariant adds to `WakeInv` that nobody is
being exterminated, that calls and messages come from threads that are *born*
(handed out by `thread_alloc`), and that the links of what is born lead to what is
born (`Closed`): otherwise the pseudo clock could send to a block that
has not been created, whose queue `thread_alloc` would then clear - a step no mailbox
makes.

`ClientsProofs.tla` proves

    THEOREM StackSound == ASSUME JustFamilies PROVE CSpec => []OwnStack

for any number of threads like `p8`, of children and grandchildren (`JustFamilies`: all
threads fill a state of their own; with the shared `tmpstate` of the testers it is
false). `Create` needs a free TCB, so `Blocks` bounds how far a family grows, but may be
of any length. The invariant `StackInv` has three layers. `Section`: the server asks the holder for a message; the
holder has the grant in its box, or is inside, or has left, and then its message that
says so is in front of a request it may have sent after it; everybody else is outside
with at most one request. A thread may ask again before the server has
looked at its release, so up to two messages of one thread lie in the server's box, and
their order is what keeps the next grant apart from the last. `Request`: a client of
the SSI has at most one request there, in its hands or answered. `Pages`: a page in use is not
below `stackalloc`; one that has been taken (`Fresh`) is in the state of one
thread and nowhere else until the SSI copies it, which needs that the request names
the client's own state and that the client does not go on before.

The second part of the module proves

    THEOREM HeardSound  == ASSUME OneFamily               PROVE CSpec => []AllHeard
    THEOREM FamilyTyped == ASSUME OneFamily, EnoughBlocks PROVE CSpec => []ClientsTypeOK

for one `p8`, as `p1` starts it (`OneFamily`: with two, `stackalloc` would be taken
twice as often and the grandchildren of both would be in one set), and any positive
`CHILDREN` and `NGRANDCHILDREN`. `p8` counts messages, not threads: that the
`Awaited` messages it counts are one from each grandchild needs that each one that it
counts is of a grandchild that has answered, that nobody answers twice, and that no more
than `Awaited` grandchildren exist. `HeardInv` says this in parts. `Local` follows one
thread: what it runs, that its state keeps what the next thread is to run while it waits for the
server, how many threads it has made, and that the names it has been told, by the SSI and
by its maker, are what they should be (so that an answer reaches `p8` and nobody else).
`Hearing` relates `p8`'s box, the message in its hands and `heard` to who has answered.
The number of threads and pages is bounded with *ghosts* that are said to exist:
every thread has a `maker` and a `rank` among its maker's threads (`Lineage`), every
page that is taken has the thread `who` took it and for its `nth` thread (`Taken`); no two
have the same pair. A grandchild is then a pair of `1..CHILDREN` and
`1..NGRANDCHILDREN` (`FewGrandchildren`), and so p8, when it has heard `Awaited` different
grandchildren, has heard all. A page is `p8`'s for its n-th child or the m-th child's for its n-th
(`FewPages`): `stackalloc` is written back `CHILDREN + Awaited` times at most. `EnoughBlocks`
says that the SSI has so many TCBs; the model counts pages by them.

`RingProofs.tla` proves

    THEOREM WaiterTold == ASSUME Services \intersect Managing = {} PROVE Spec => SoleWaiterWoken

with any kills, exterminations, traps and interrupts. The invariant is that of
`WakeupSound`: a sleeper is in a receive, and `t_wait4sender` is the thread the receive
names. What is left is the walk of `check_death` along links that need not be sound:
`FindFirst` says that a walk which meets a waiter does not stop at the head before it,
since from the head on it begins again (`WalkAgain`), and what it stops at sleeps and
waits for the victim, so it is the only one who does. Every step that is no kill is
`Mild`: it takes nobody's life.

`RingProofs.tla` and `TokenProofs.tla` prove, for systems that are `Peaceful`,

    THEOREM PlacesSound   Spec => []OnePlace
    THEOREM CounterSound  Spec => []SoftBlockExact
    THEOREM RepliesSound  Spec => []AtMostOneReply
    THEOREM RepliesExact  Spec => []OneReply          (also Ample)
    THEOREM PoolSound     Spec => []PoolConserved

for any number of threads, devices, services and pool elements. `Peaceful` is
needed: a kill leaves threads in `device_list` and takes `soft_block_count` down for
a ready victim, a manager wakes what does not sleep, and a block that is used
again loses its messages (section 5). It holds in `nucleus_io`, `nucleus_ipc` and
`timer`, the runs that check these properties. `Ample` says that threads only use services and the
pool has an element for every client; it holds in `nucleus_io` and not in
`nucleus_ipc`, whose pool runs dry, and there `OneReply` is false.

None of the five is inductive, and none can be shown alone. What joins them is a
*ghost*: `on`, the place of every thread (a queue, a device, the processor, nowhere),
which is not a variable but is said to exist. `Shape(sched, current_thread, on)`
(`RingProofs`) says that the links of `on`'s queues are rings, that the status of
each thread fits its place, and that `soft_block_count` is the number of nodes in the
blocked places. `Rings` gives every node of a queue a position, so that
a walk along `next` goes up to the head and cannot circle; a lemma for each of
`put_thread_sleep`, `wake_me_up`, `resumed`, `parked`, the end of a slice, dispatch
and `start_thread` says where the thread is afterwards. `MembersAre` says that the
walk `Members` makes, a recursive function, finds exactly the nodes whose
place is that queue. The library's induction rules cannot be used with the
provers installed; the induction is done by a least counterexample, from the
well-foundedness of `<` (`AllNumbers`, `LeastNumber`).

`RingInv` (`TokenProofs`) adds `Devs` (the table of the devices agrees with the
places) and `Tokened`: every client has a stage `k[t]` on the way of its request,
and the queue of the SSI, its call, the place of the client and the client's queue
each show a trace of the request exactly at the stage that is theirs. One lemma
moves one client from a stage to the next (`StageStep`), one leaves all
(`StageKept`), and each handler is one of the two. Where the pool is `Ample`, the
elements that are out are the requests and replies in the queues, so there is always
one for a message that is to be sent: that is why none is lost.
`PoolSound` needs of all this only that sends and receives name live queues;
its own part is the sum of the lengths of all queues, a fold over the set of threads.
It is shown to be additive one thread at a time (`ThreadByThread`, an induction over
the finite sets of threads), and then a change of one queue changes the sum by as
much (`StoredChange`).

`PromiseProofs.tla` proves, also for `Peaceful` systems,

    THEOREM PromiseKept == ASSUME Peaceful PROVE Spec => KeepsPromise

that is, every step of the nucleus is a step of `Service` or changes nothing that
`Service` sees. The mapping (`Nucleus`, section 3) reads a request off the queue of the
SSI (`AskedIn`), what is pending off the SSI's call, the table of the devices and the
queue of the clock, and the answers off the clients' queues (`PutIn`, `GivenIn`). Each
handler is shown to be seen as one of five things: a client asks (`SeenAsk`), the
SSI serves (`SeenServe`), a pending answer is given (`SeenOver`), a client reads its
answer (`SeenRead`), or nothing (`SeenNothing`). Three facts do the work. The
stages of `RingInv` give that a client that asks has left no trace of an
earlier request (`NoTrace`), and that an answer in a queue is the only one
(`OneSent`), so that a client that receives takes *the* answer; the SSI receives from
anybody, so it takes the oldest message (`FirstOfAll`), which is the head of the
requests although messages that are no requests lie between them (`WishesTake`); and
`MembersAre`, with `ClockStays`, `ClockJoins` and `ClockLeaves`, gives the set of threads that
wait for the clock after every step.

`TimerProofs.tla` proves, also for `Peaceful` systems,

    THEOREM TimedNucleus   TSpec => Spec              (without Peaceful)
    THEOREM TimesSound     TSpec => [](TimeTypeOK /\ TimesExact)
    THEOREM ClockInOrder   TSpec => []ClockSorted
    THEOREM WaitsSound     TSpec => []WaitsBounded
    THEOREM WaitsHonoured  TSpec => WaitsLongEnough

for any slice, period, lag and width of the counters that `TimeAssumption` admits:
the period longer than the slice, and the width at least twice the sum of the
period, two slices and two lags, so that a difference that is late is still the
number it stands for (`TimesExact`; the one of `is_time_slice` excepted, see section 5). The code has 5000, 100000 and 2^32 microseconds. The first theorem lets the
other four use the places of `TokenProofs`: that the queue of the clock is
touched at three places only, and how, is said once, in `PromiseProofs` (`ClockStays`,
`ClockJoins`, `ClockLeaves`), with `Keeps`, that the links behind the threads of that queue stay,
shown of every other operation of the nucleus. The inductive invariant `TimeInv` has
two parts. `StampInv` says how late the clock may be read (`Late`: the lag of
one handler outside the scheduler, of two in it), and that the timer, while it runs,
ends no later than the slice *or* the interval since the last scheduling:
the timer alone does not bound what will be charged to the waiters. The
exception is the scheduler before it has written the timer for the first time
(`Unset`). `WaitInv` relates the time a waiter has waited to what is charged to it, now or
at the next scheduling (`Charged`), says that the loop of `set_pseudo_clock` leaves
nobody who is due (`Limit`), and has `ClockSorted` in it, as it is the order that
makes the first fact true: the head is the oldest (`HeadOldest`).

`RegisterProofs.tla` proves

    THEOREM DevicesSound == ASSUME TerminalsOnly PROVE RSpec => []DeviceListExact

with kills, traps and failing devices, for any set of terminals. `TerminalsOnly`
says that clients pass command registers of terminals, as the runs and the test programs
do; for a disk it is false, which is the finding `disk_command`. The proof
carries the arithmetic of `const.h` through: the address of a half of a terminal goes
to its own entry (`EntryIs`), no two halves share one (`EntriesApart`), and the
sub-device that `ACTION_ON_DEVICE` starts is the one the entry is of.

**Model-checked only.** Liveness (`Answered`, `EveryoneRuns`, `RoundRobin`,
`ExterminationEnds`, `Finishes`) and what needs `ENABLED` are out of the prover's reach.
`TrapHeld` is not proved yet. The theorems of
`Peaceful` systems say nothing of kills and traps: `nucleus_kill` and
`nucleus_traps` check what holds there.

## 7. Not modelled

* Register copying (`save_state`, `reset_state`), exception vector set-up
  (`initArea`), build files.
* `cpu_time` (`GET_CPUTIME` returns a number nobody else reads) and `who_is_managing`
  (read by `free_managing` only, which is modelled by its effect: nothing is cleared).
* The sequential parts of the test programs (`p1test.c`; `p2` to `p7` of `p2test.c` and
  `p2p.c`): they make single calls and compare results; the threads of `Nucleus` make
  these calls in any order. `Clients` has the parts in which threads meet outside the
  nucleus.
* The other services at the grain of `SsiGrain`. The two that are modelled already break
  the queues; a finer model of the others would show the same race.
* The contents of the data registers of devices, and printing.

What could be added: kills inside `Registers` and `Timer`, whose state spaces are
too large for TLC at the present bounds.
