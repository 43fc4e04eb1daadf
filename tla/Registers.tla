------------------------------ MODULE Registers ------------------------------
(***************************************************************************)
(* The device registers: const.h, ssi_do_io, interrupts.c.  Here the       *)
(* Devices of the nucleus are addresses of command registers, as clients   *)
(* pass them, and the operations themselves run on the sub-devices of a    *)
(* machine: a terminal has two, every other device one.  Every step is a   *)
(* step of the nucleus with what it does to the registers, or a sub-device *)
(* that finishes.                                                          *)
(***************************************************************************)
EXTENDS Nucleus

CONSTANTS
  Installed,     \* the sub-devices of the machine
  Failing        \* those that may end in an error status

\* The memory map of the machine (uARM), as const.h uses it.
DEV_REG_START == 64
DEV_REG_SIZE  == 16
DEV_PER_INT   == 8
DEV_IL_START  == 3
WS            == 4
IL_TERMINAL   == 7

STATUS_REG_OFFSET  == 0
COMMAND_REG_OFFSET == 4
DATA0_REG_OFFSET   == 8
DATA1_REG_OFFSET   == 12
TERM_COMMAND_READ  == COMMAND_REG_OFFSET
TERM_COMMAND_WRITE == DATA1_REG_OFFSET
DEV_FIELD_SIZE     == WS * 2

Lines    == DEV_IL_START..IL_TERMINAL
Numbers  == 0..DEV_PER_INT - 1
Ports    == {"recv", "trsm"}     \* all but terminals have the first one only
SubDevice == [line : Lines, numb : Numbers, port : Ports]

DEV_REG_ADDR(line, numb) ==
  DEV_REG_START + (line - DEV_IL_START) * DEV_PER_INT * DEV_REG_SIZE + numb * DEV_REG_SIZE
CommandRegister(s) ==
  DEV_REG_ADDR(s.line, s.numb)
  + (IF s.port = "trsm" THEN TERM_COMMAND_WRITE ELSE COMMAND_REG_OFFSET)

(*------------------------- addresses to entries ------------------------*)

GET_TYPE(dev_reg) ==
  (dev_reg - DEV_REG_START) \div (DEV_PER_INT * DEV_REG_SIZE) + DEV_IL_START
GET_NUMB(dev_reg) ==
  ((dev_reg - DEV_REG_START - COMMAND_REG_OFFSET) % (DEV_REG_SIZE * DEV_PER_INT))
  \div DEV_FIELD_SIZE
ELEM_IN_DEVICE_LIST(type, num) == (type - DEV_IL_START) * DEV_PER_INT + num

\* The entry of device_list that ssi_do_io takes for a register.
entry(dev_reg) ==
  LET type == GET_TYPE(dev_reg)
      numb == GET_NUMB(dev_reg)
  IN  ELEM_IN_DEVICE_LIST(IF type = IL_TERMINAL /\ numb % 2 = 1 THEN type + 1 ELSE type,
                          numb \div 2)

ASSUME RegisterAssumption ==
  /\ Installed \subseteq SubDevice /\ Failing \subseteq Installed
  /\ \A s \in Installed : s.port = "trsm" => s.line = IL_TERMINAL
  /\ Devices \subseteq {CommandRegister(s) : s \in SubDevice}

VARIABLE hw      \* sub-device -> what its status register says
rvars == <<vars, hw>>

Pending == {s \in Installed : hw[s] \in {"done", "error"}}

RInit == Init /\ hw = [s \in Installed |-> "ready"]

(*------------------------------ operations -----------------------------*)

\* The command registers that ssi_do_io writes for dev_reg.  ACTION_ON_DEVICE
\* adds its offsets to a pointer to words, so each counts four times: the
\* command goes to the next device, the data to the two after that.
Written(dev_reg) ==
  IF GET_TYPE(dev_reg) = IL_TERMINAL THEN {dev_reg}
  ELSE {dev_reg + WS * o : o \in {COMMAND_REG_OFFSET, DATA0_REG_OFFSET, DATA1_REG_OFFSET}}

\* ssi_do_io: the sub-devices behind the registers start.
RDoIo ==
  /\ DoIo
  /\ hw' = [s \in Installed |->
              IF CommandRegister(s) \in Written(Argument) THEN "busy" ELSE hw[s]]

Complete(s) ==
  /\ hw[s] = "busy"
  /\ \E status \in {"done"} \union (IF s \in Failing THEN {"error"} ELSE {}) :
       hw' = [hw EXCEPT ![s] = status]
  /\ UNCHANGED vars

(*------------------------------ interrupts -----------------------------*)

Least(S) == CHOOSE n \in S : \A m \in S : n <= m

\* The device with an interrupt on the line, the lowest bit of its bitmap.
get_priority_dev(line) == Least({s.numb : s \in {p \in Pending : p.line = line}})

\* ack: the sub-device is ready again, and the thread of the entry gets its
\* status; without a thread there is only the scheduler.
ack(type, numb, s) ==
  LET owner == {d \in Devices : entry(d) = ELEM_IN_DEVICE_LIST(type, numb)
                                /\ device_list[d] # NULL}
  IN  /\ hw' = [hw EXCEPT ![s] = "ready"]
      /\ IF owner = {} THEN Tick ELSE \E d \in owner : DeviceInterrupt(d)

device_handler(line) ==
  LET numb == get_priority_dev(line)
  IN  ack(line, numb, [line |-> line, numb |-> numb, port |-> "recv"])

\* Mutant: the two status registers of a terminal are taken for each other.
terminal_handler_swapped ==
  LET numb    == get_priority_dev(IL_TERMINAL)
      port(p) == [line |-> IL_TERMINAL, numb |-> numb, port |-> p]
      Over(s) == s \in Installed /\ hw[s] = "done"
  IN  IF Over(port("trsm")) THEN ack(IL_TERMINAL, numb, port("trsm"))
      ELSE IF Over(port("recv")) THEN ack(IL_TERMINAL + 1, numb, port("recv"))
      ELSE Tick /\ UNCHANGED hw

\* A transmission before a reception; a status that is neither is left, and
\* its interrupt stays pending.
terminal_handler ==
  LET numb    == get_priority_dev(IL_TERMINAL)
      port(p) == [line |-> IL_TERMINAL, numb |-> numb, port |-> p]
      Over(s) == s \in Installed /\ hw[s] = "done"
  IN  IF Over(port("trsm")) THEN ack(IL_TERMINAL + 1, numb, port("trsm"))
      ELSE IF Over(port("recv")) THEN ack(IL_TERMINAL, numb, port("recv"))
      ELSE Tick /\ UNCHANGED hw

\* int_handler after the timer: the lowest line with an interrupt.
int_handler ==
  /\ Interruptible /\ Pending # {}
  /\ LET line == Least({s.line : s \in Pending})
     IN  IF line = IL_TERMINAL THEN terminal_handler ELSE device_handler(line)

\* A thread makes a step only while no interrupt is pending.
Work ==
  /\ cpu = "run" => Pending = {}
  /\ SsiNext \/ ExceptionsNext
  /\ IF Serving({"DO_IO"}) /\ device_list[Argument] = NULL THEN RDoIo ELSE UNCHANGED hw

RNext ==
  \/ Work
  \/ int_handler
  \/ \E s \in Installed : Complete(s)
  \/ (SliceOver \/ Tick) /\ UNCHANGED hw
  \/ SchedulerNext /\ UNCHANGED hw
RSpec == RInit /\ [][RNext]_rvars

(***************************************************************************)
(* Fairness: as in Nucleus, but of the devices only that an operation ends *)
(* and that a pending interrupt is taken.  A waiter whose scheduling comes *)
(* again and again is woken by the clock in the end, and a processor that  *)
(* waits gets the interrupt of the timer: both are shown in Timer, where   *)
(* time passes.                                                            *)
(***************************************************************************)
RFairness ==
  /\ WF_rvars(SchedulerNext /\ UNCHANGED hw)
  /\ SF_rvars(ClockExpire /\ UNCHANGED hw)
  /\ WF_rvars(cpu = "idle" /\ Tick /\ UNCHANGED hw)
  /\ \A t \in Tcb : SF_rvars(current_thread = t /\ Work)
  /\ \A s \in Installed : WF_rvars(Complete(s))
  /\ SF_rvars(int_handler)
RFairSpec == RSpec /\ RFairness

(*------------------------------ properties -----------------------------*)

\* device_list and the machine agree: an entry is taken exactly while the
\* sub-device behind the register is at work or waits to be acknowledged.  The
\* way in (ssi_do_io, an address) and the way out (int_handler, a line and a
\* bit) compute the entry differently.
DeviceListExact ==
  \A s \in Installed :
    CommandRegister(s) \in Devices =>
      (device_list[CommandRegister(s)] # NULL <=> hw[s] # "ready")
==============================================================================
