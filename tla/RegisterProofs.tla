---------------------------- MODULE RegisterProofs ---------------------------
(***************************************************************************)
(* Where the registers that clients pass are those of terminals, the table *)
(* of the devices and the machine agree, for any terminals, threads and    *)
(* services, killing and traps included.                                   *)
(***************************************************************************)
EXTENDS Registers, NucleusProofs

Terminal(s) == s.line = IL_TERMINAL
TerminalsOnly == Devices \subseteq {CommandRegister(s) : s \in {x \in SubDevice : Terminal(x)}}

(*------------------------------- addresses -----------------------------*)

\* The command registers of the terminals and their entries.
Address(s) == 576 + 16 * s.numb + (IF s.port = "trsm" THEN 12 ELSE 4)
Place(s)   == (IF s.port = "trsm" THEN 40 ELSE 32) + s.numb

LEMMA AddressIs ==
  ASSUME NEW s \in SubDevice
  PROVE  /\ s.numb \in 0..7 /\ s.port \in Ports
         /\ Terminal(s) => CommandRegister(s) = Address(s)
         /\ ~Terminal(s) => CommandRegister(s) < 576
<1>1. s.numb \in 0..7 /\ s.port \in Ports /\ s.line \in 3..7
  BY DEF SubDevice, Numbers, Lines, DEV_PER_INT, DEV_IL_START, IL_TERMINAL
<1>2. PICK n \in 0..7, l \in 3..7, o \in {4, 12} :
        /\ n = s.numb /\ l = s.line
        /\ o = IF s.port = "trsm" THEN 12 ELSE 4
        /\ CommandRegister(s) = 64 + (l - 3) * 128 + n * 16 + o
  <2>1. CommandRegister(s) = 64 + (s.line - 3) * 8 * 16 + s.numb * 16
                             + (IF s.port = "trsm" THEN 12 ELSE 4)
    BY DEF CommandRegister, DEV_REG_ADDR, DEV_REG_START, DEV_IL_START, DEV_PER_INT,
           DEV_REG_SIZE, TERM_COMMAND_WRITE, DATA1_REG_OFFSET, COMMAND_REG_OFFSET
  <2>2. (s.line - 3) * 8 * 16 = (s.line - 3) * 128
    BY <1>1
  <2> QED
    BY <1>1, <2>1, <2>2
<1>3. l = 7 => 64 + (l - 3) * 128 + n * 16 + o = 576 + 16 * n + o
  OBVIOUS
<1>4. l # 7 => 64 + (l - 3) * 128 + n * 16 + o < 576
  OBVIOUS
<1> QED
  BY <1>1, <1>2, <1>3, <1>4 DEF Terminal, IL_TERMINAL, Address

\* The arithmetic of const.h takes each of them to its own entry.
LEMMA EntryIs ==
  ASSUME NEW s \in SubDevice, Terminal(s)
  PROVE  /\ GET_TYPE(CommandRegister(s)) = IL_TERMINAL
         /\ entry(CommandRegister(s)) = Place(s)
<1>1. PICK n \in 0..7, o \in {4, 12} :
        /\ n = s.numb /\ o = (IF s.port = "trsm" THEN 12 ELSE 4)
        /\ CommandRegister(s) = 576 + 16 * n + o
  BY AddressIs DEF Address
<1>2. GET_TYPE(CommandRegister(s)) = 7
  <2>1. (576 + 16 * n + o - 64) \div 128 + 3 = 7
    OBVIOUS
  <2> QED
    BY <1>1, <2>1 DEF GET_TYPE, DEV_REG_START, DEV_PER_INT, DEV_REG_SIZE, DEV_IL_START
<1>3. GET_NUMB(CommandRegister(s)) = 2 * n + (IF o = 12 THEN 1 ELSE 0)
  <2>1. ((576 + 16 * n + o - 64 - 4) % 128) \div 8 = 2 * n + (IF o = 12 THEN 1 ELSE 0)
    OBVIOUS
  <2> QED
    BY <1>1, <2>1 DEF GET_NUMB, DEV_REG_START, COMMAND_REG_OFFSET, DEV_REG_SIZE, DEV_PER_INT,
                      DEV_FIELD_SIZE, WS
<1>4. PICK g \in 0..15 : /\ g = GET_NUMB(CommandRegister(s))
                         /\ g = 2 * n + (IF o = 12 THEN 1 ELSE 0)
  BY <1>3
<1>5. g % 2 = (IF o = 12 THEN 1 ELSE 0) /\ g \div 2 = n
  BY <1>4
<1>6. entry(CommandRegister(s)) = ((IF o = 12 THEN 8 ELSE 7) - 3) * 8 + n
  BY <1>2, <1>4, <1>5 DEF entry, ELEM_IN_DEVICE_LIST, IL_TERMINAL, DEV_IL_START, DEV_PER_INT
<1> QED
  BY <1>1, <1>2, <1>6 DEF Place, IL_TERMINAL

\* Two sub-devices have two registers and two entries.
LEMMA EntriesApart ==
  ASSUME NEW s \in SubDevice, Terminal(s), NEW x \in SubDevice,
         \/ CommandRegister(s) = CommandRegister(x)
         \/ Terminal(x) /\ entry(CommandRegister(s)) = entry(CommandRegister(x))
  PROVE  s = x
<1>1. /\ s.numb \in 0..7 /\ x.numb \in 0..7 /\ s.port \in Ports /\ x.port \in Ports
      /\ CommandRegister(s) = Address(s)
  BY AddressIs
<1>2. Terminal(x)
  <2>1. Address(s) >= 576
    BY <1>1 DEF Address
  <2>2. ~Terminal(x) => CommandRegister(x) < 576
    BY AddressIs
  <2>3. Terminal(x) \/ CommandRegister(s) = CommandRegister(x)
    OBVIOUS
  <2>4. Address(s) \in Int
    BY <1>1 DEF Address
  <2> QED
    BY <1>1, <2>1, <2>2, <2>3, <2>4
<1>3. Address(s) = Address(x) \/ Place(s) = Place(x)
  BY <1>1, <1>2, AddressIs, EntryIs
<1>4. s.numb = x.numb /\ (s.port = "trsm" <=> x.port = "trsm")
  BY <1>1, <1>3 DEF Address, Place
<1>5. s.port = x.port /\ s.line = x.line
  BY <1>1, <1>2, <1>4 DEF Ports, Terminal
<1> QED
  BY <1>4, <1>5 DEF SubDevice

(*------------------------------ the invariant --------------------------*)

\* A sub-device at work is that of a terminal, and its register is one that
\* clients pass.
Statuses == {"ready", "busy", "done", "error"}
Addressed(s) == Terminal(s) /\ CommandRegister(s) \in Devices
RegisterInv ==
  /\ hw \in [Installed -> Statuses]
  /\ \A s \in Installed : hw[s] # "ready" => Addressed(s)
  /\ DeviceListExact

\* Every step is one of the nucleus, or leaves it alone.
LEMMA NucleusStep ==
  /\ RInit => Init
  /\ [RNext]_rvars => [Next]_vars
<1>1. RInit => Init
  BY DEF RInit
<1>2. ASSUME NEW type, NEW numb, NEW s, ack(type, numb, s) PROVE InterruptsNext
  BY <1>2 DEF ack, InterruptsNext
<1>3. int_handler => InterruptsNext
  BY <1>2 DEF int_handler, terminal_handler, device_handler, InterruptsNext
<1>4. Work => SsiNext \/ ExceptionsNext
  BY DEF Work
<1>5. (SliceOver \/ Tick) => InterruptsNext
  BY DEF InterruptsNext
<1>6. (\E s \in Installed : Complete(s)) => UNCHANGED vars
  BY DEF Complete
<1>7. UNCHANGED rvars => UNCHANGED vars
  BY DEF rvars
<1> QED
  BY <1>1, <1>3, <1>4, <1>5, <1>6, <1>7 DEF RNext, Next

(*--------------------------------- steps -------------------------------*)

\* A step that takes no entry, frees none and starts nothing.
LEMMA RegistersKept ==
  ASSUME RegisterInv, UNCHANGED <<hw, device_list>>
  PROVE  RegisterInv'
BY DEF RegisterInv, DeviceListExact

\* The steps of the nucleus that touch the table of the devices.
LEMMA TableSteps ==
  /\ SsiNext => DoIo \/ UNCHANGED device_list
  /\ ExceptionsNext \/ SliceOver \/ Tick \/ SchedulerNext => UNCHANGED device_list
<1>1. ASSUME SsiNext, ~DoIo PROVE UNCHANGED device_list
  <2>1. CASE GetErrno \/ Query \/ WaitForClock \/ DoIoBusy \/ TerminateProcess
             \/ CreateProcess \/ CreateThread
    BY <2>1 DEF GetErrno, Query, WaitForClock, DoIoBusy, TerminateProcess, CreateProcess,
                CreateThread, Crash
  <2>2. CASE TerminateThread \/ BadRequest \/ SetManager
    BY <2>2 DEF TerminateThread, BadRequest, SetManager, terminate_thread,
                ssi_terminate_thread, terminate_astray, Crash
  <2>3. ASSUME NEW who, ReapThread(who) \/ ReapChild(who) \/ ReapProc(who) \/ ReapDone(who)
        PROVE  UNCHANGED device_list
    BY <2>3 DEF ReapThread, ReapChild, ReapProc, ReapDone, Crash
  <2> QED
    BY <1>1, <2>1, <2>2, <2>3 DEF SsiNext
<1>2. ASSUME ExceptionsNext PROVE UNCHANGED device_list
  <2>1. CASE Request \/ SysSend \/ SysSendPending \/ SysRecv \/ SysRecvPending
    BY <2>1 DEF Request, SysSend, SysSendPending, SysRecv, SysRecvPending, sys_send, sys_recv
  <2>2. CASE SysPassup \/ TlbTrap \/ PgmTrap \/ SysZero \/ Breakpoint
    BY <2>2 DEF SysPassup, TlbTrap, PgmTrap, SysZero, Breakpoint, pass_up, terminate_thread,
                ssi_terminate_thread, terminate_astray, Crash
  <2> QED
    BY <1>2, <2>1, <2>2 DEF ExceptionsNext
<1>3. ASSUME SliceOver \/ Tick \/ SchedulerNext PROVE UNCHANGED device_list
  BY <1>3 DEF SliceOver, Tick, SchedulerNext, ClockExpire, Halt, Panic, Wait, FallThrough,
              Stop, Resume, Dispatch, Crash
<1> QED
  BY <1>1, <1>2, <1>3

\* ssi_do_io starts the sub-device behind the register, and no other one.
LEMMA DoIoRegisters ==
  ASSUME TerminalsOnly, TypeOK, RegisterInv, RDoIo
  PROVE  RegisterInv'
<1>1. /\ Argument \in Devices /\ Sender \in Tcb
      /\ device_list \in [Devices -> Tcb \union {NULL}]
  <2>1. call[SSI] \in CallState /\ call[SSI].op = "serve" /\ call[SSI].msg.tag = "DO_IO"
    BY NodeFacts DEF RDoIo, DoIo, Serving, TypeOK
  <2> QED
    BY <2>1, CallFacts, PayloadFacts DEF Argument, Sender, TypeOK
<1>2. PICK a \in SubDevice : Terminal(a) /\ CommandRegister(a) = Argument
  BY <1>1 DEF TerminalsOnly
<1>3. Written(Argument) = {Argument}
  BY <1>2, EntryIs DEF Written
<1>4. \A s \in Installed : CommandRegister(s) = Argument <=> s = a
  BY <1>2, EntriesApart, RegisterAssumption
<1>5. hw' = [s \in Installed |-> IF CommandRegister(s) = Argument THEN "busy" ELSE hw[s]]
  <2>1. \A s \in Installed : CommandRegister(s) \in Written(Argument)
                             <=> CommandRegister(s) = Argument
    BY <1>3
  <2> QED
    BY <2>1 DEF RDoIo
<1>6. device_list' = [device_list EXCEPT ![Argument] = Sender]
  BY DEF RDoIo, DoIo
<1>7. Sender # NULL
  BY <1>1, NodeFacts
<1>8. hw' \in [Installed -> Statuses]
  BY <1>5 DEF RegisterInv, Statuses
<1>9. \A s \in Installed : hw'[s] # "ready" => Addressed(s)
  BY <1>1, <1>2, <1>4, <1>5 DEF RegisterInv, Addressed
<1>10. DeviceListExact'
  <2>1. ASSUME NEW s \in Installed, CommandRegister(s) \in Devices
        PROVE  device_list'[CommandRegister(s)] # NULL <=> hw'[s] # "ready"
    BY <1>1, <1>5, <1>6, <1>7, <2>1 DEF RegisterInv, DeviceListExact
  <2> QED
    BY <2>1 DEF DeviceListExact
<1> QED
  BY <1>8, <1>9, <1>10 DEF RegisterInv

\* An interrupt frees the entry of the sub-device it comes from.
LEMMA AckRegisters ==
  ASSUME TerminalsOnly, TypeOK, RegisterInv, NEW s \in Installed, hw[s] # "ready",
         NEW type, NEW numb, ELEM_IN_DEVICE_LIST(type, numb) = Place(s), ack(type, numb, s)
  PROVE  RegisterInv'
<1> DEFINE r == CommandRegister(s)
           owner == {d \in Devices : entry(d) = ELEM_IN_DEVICE_LIST(type, numb)
                                     /\ device_list[d] # NULL}
<1>1. /\ s \in SubDevice /\ Terminal(s) /\ r \in Devices /\ device_list[r] # NULL
      /\ device_list \in [Devices -> Tcb \union {NULL}]
  BY RegisterAssumption DEF RegisterInv, Addressed, DeviceListExact, TypeOK
<1>2. owner = {r}
  <2>1. r \in owner
    BY <1>1, EntryIs
  <2>2. ASSUME NEW d \in owner PROVE d = r
    <3>1. PICK x \in SubDevice : Terminal(x) /\ CommandRegister(x) = d
      BY DEF TerminalsOnly
    <3>2. entry(CommandRegister(x)) = entry(CommandRegister(s))
      BY <1>1, <3>1, EntryIs
    <3> QED
      BY <1>1, <3>1, <3>2, EntriesApart
  <2> QED
    BY <2>1, <2>2
<1>3. DeviceInterrupt(r) /\ hw' = [hw EXCEPT ![s] = "ready"]
  <2> HIDE DEF r
  <2>1. owner # {} /\ \A d \in owner : d = r
    BY <1>2
  <2> QED
    BY <2>1 DEF ack
<1>4. device_list' = [device_list EXCEPT ![r] = NULL]
  BY <1>3 DEF DeviceInterrupt
<1>5. \A x \in Installed : CommandRegister(x) = r <=> x = s
  BY <1>1, EntriesApart, RegisterAssumption
<1>6. hw' \in [Installed -> Statuses] /\ \A x \in Installed : hw'[x] # "ready" => Addressed(x)
  BY <1>3 DEF RegisterInv, Statuses
<1>7. DeviceListExact'
  <2> HIDE DEF r
  <2>1. ASSUME NEW x \in Installed, CommandRegister(x) \in Devices
        PROVE  device_list'[CommandRegister(x)] # NULL <=> hw'[x] # "ready"
    BY <1>1, <1>3, <1>4, <1>5, <2>1 DEF RegisterInv, DeviceListExact
  <2> QED
    BY <2>1 DEF DeviceListExact
<1> QED
  BY <1>6, <1>7 DEF RegisterInv

\* int_handler: every pending interrupt is that of a terminal, on the last line.
LEMMA InterruptRegisters ==
  ASSUME TerminalsOnly, TypeOK, RegisterInv, int_handler
  PROVE  RegisterInv'
<1>1. Least({IL_TERMINAL}) = IL_TERMINAL
  BY DEF Least, IL_TERMINAL
<1>2. Pending # {} /\ \A s \in Pending : s.line = IL_TERMINAL
  BY DEF int_handler, Pending, RegisterInv, Addressed, Terminal
<1>3. {s.line : s \in Pending} = {IL_TERMINAL}
  BY <1>2
<1>4. terminal_handler
  BY <1>1, <1>3 DEF int_handler
<1> DEFINE numb    == get_priority_dev(IL_TERMINAL)
           port(p) == [line |-> IL_TERMINAL, numb |-> numb, port |-> p]
           Over(s) == s \in Installed /\ hw[s] = "done"
<1>5. \/ Over(port("trsm")) /\ ack(IL_TERMINAL + 1, numb, port("trsm"))
      \/ Over(port("recv")) /\ ack(IL_TERMINAL, numb, port("recv"))
      \/ Tick /\ UNCHANGED hw
  BY <1>4 DEF terminal_handler
<1> HIDE DEF numb
<1>6. CASE Over(port("trsm")) /\ ack(IL_TERMINAL + 1, numb, port("trsm"))
  <2>1. ELEM_IN_DEVICE_LIST(IL_TERMINAL + 1, numb) = Place(port("trsm"))
    BY DEF ELEM_IN_DEVICE_LIST, IL_TERMINAL, DEV_IL_START, DEV_PER_INT, Place
  <2> QED
    BY <1>6, <2>1, AckRegisters
<1>7. CASE Over(port("recv")) /\ ack(IL_TERMINAL, numb, port("recv"))
  <2>1. ELEM_IN_DEVICE_LIST(IL_TERMINAL, numb) = Place(port("recv"))
    BY DEF ELEM_IN_DEVICE_LIST, IL_TERMINAL, DEV_IL_START, DEV_PER_INT, Place
  <2> QED
    BY <1>7, <2>1, AckRegisters
<1>8. CASE Tick /\ UNCHANGED hw
  BY <1>8, TableSteps, RegistersKept
<1> QED
  BY <1>5, <1>6, <1>7, <1>8

\* A sub-device finishes; its entry stays taken until its interrupt.
LEMMA CompleteRegisters ==
  ASSUME RegisterInv, NEW s \in Installed, Complete(s)
  PROVE  RegisterInv'
<1>1. PICK status \in {"done", "error"} : hw' = [hw EXCEPT ![s] = status]
  BY DEF Complete
<1>2. hw[s] = "busy" /\ UNCHANGED device_list
  BY DEF Complete, vars
<1>3. hw' \in [Installed -> Statuses] /\ \A x \in Installed : hw'[x] # "ready" <=> hw[x] # "ready"
  BY <1>1, <1>2 DEF RegisterInv, Statuses
<1> QED
  BY <1>2, <1>3 DEF RegisterInv, DeviceListExact

\* The entry of a terminal in the table of the devices is taken exactly while
\* the terminal is at work or waits to be acknowledged: the address
\* arithmetic of ssi_do_io and the line and bit arithmetic of int_handler
\* meet at the same entry, for all terminals at once, whatever dies or traps
\* meanwhile.  (For disks it is false: ACTION_ON_DEVICE starts another one.)
THEOREM DevicesSound ==
  ASSUME TerminalsOnly
  PROVE  RSpec => []DeviceListExact
<1>1. RInit => RegisterInv
  <2> SUFFICES ASSUME RInit PROVE RegisterInv
    OBVIOUS
  <2>1. /\ hw = [s \in Installed |-> "ready"]
        /\ \A d \in Devices : device_list[d] = NULL
    BY DEF RInit, Init
  <2> QED
    BY <2>1 DEF RegisterInv, Statuses, DeviceListExact
<1>2. TypeOK /\ RegisterInv /\ [RNext]_rvars => RegisterInv'
  <2> SUFFICES ASSUME TypeOK, RegisterInv, [RNext]_rvars PROVE RegisterInv'
    OBVIOUS
  <2>1. CASE Work
    <3>1. CASE Serving({"DO_IO"}) /\ device_list[Argument] = NULL
      BY <2>1, <3>1, DoIoRegisters DEF Work
    <3>2. CASE ~(Serving({"DO_IO"}) /\ device_list[Argument] = NULL)
      <4>1. ~DoIo /\ UNCHANGED hw
        BY <2>1, <3>2 DEF Work, DoIo
      <4> QED
        BY <2>1, <4>1, TableSteps, RegistersKept DEF Work
    <3> QED
      BY <3>1, <3>2
  <2>2. CASE int_handler
    BY <2>2, InterruptRegisters
  <2>3. ASSUME NEW s \in Installed, Complete(s) PROVE RegisterInv'
    BY <2>3, CompleteRegisters
  <2>4. CASE (SliceOver \/ Tick \/ SchedulerNext) /\ UNCHANGED hw
    BY <2>4, TableSteps, RegistersKept
  <2>5. CASE UNCHANGED rvars
    BY <2>5, RegistersKept DEF rvars, vars
  <2> QED
    BY <2>1, <2>2, <2>3, <2>4, <2>5 DEF RNext
<1>3. RegisterInv => DeviceListExact
  BY DEF RegisterInv
<1>4. RSpec => Spec
  BY NucleusStep, PTL DEF RSpec, Spec
<1> QED
  BY <1>1, <1>2, <1>3, <1>4, TypeCorrect, PTL DEF RSpec
==============================================================================
