------------------------------- MODULE MCTimer -------------------------------
(* The instances of Timer that TLC checks.                                  *)
EXTENDS Timer

CONSTANTS ssi, test, t3, rootp, testp, disk

TwoThreads   == <<ssi, test>>
ThreeThreads == <<ssi, test, t3>>
TwoProcs     == <<rootp, testp>>
==============================================================================
