---------------------------- MODULE MCRegisters ------------------------------
(* The instances of Registers that TLC checks.                              *)
EXTENDS Registers

CONSTANTS ssi, test, t3, rootp, testp

ThreeThreads == <<ssi, test, t3>>
TwoProcs     == <<rootp, testp>>

At(line, numb, port) == [line |-> line, numb |-> numb, port |-> port]
Terminals == {At(7, 0, "recv"), At(7, 0, "trsm")}
Disks     == {At(3, 0, "recv"), At(3, 1, "recv")}
FirstDisk == {At(3, 0, "recv")}
CommandsOf(S) == {CommandRegister(s) : s \in S}
TerminalRegisters == CommandsOf(Terminals)
DiskRegister      == CommandsOf(FirstDisk)
==============================================================================
