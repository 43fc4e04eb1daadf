------------------------------ MODULE MCNucleus ------------------------------
(* The instances of Nucleus that TLC checks.                                *)
EXTENDS Nucleus

CONSTANTS ssi, test, t3, t4, rootp, testp, p3, p4, disk, tty

TwoThreads   == <<ssi, test>>
ThreeThreads == <<ssi, test, t3>>
FourThreads  == <<ssi, test, t3, t4>>
TwoProcs     == <<rootp, testp>>
ThreeProcs   == <<rootp, testp, p3>>

\* Only the behaviours in which nobody is being killed.
NoKilling == \A who \in {"ssi", "nucleus"} : reap[who] = NoReap
==============================================================================
