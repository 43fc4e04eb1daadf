----------------------------- MODULE MCSsiGrain ------------------------------
(* The instances of SsiGrain that TLC checks.                               *)
EXTENDS SsiGrain

CONSTANTS ssi, test, t3, rootp, testp

ThreeThreads == <<ssi, test, t3>>
TwoProcs     == <<rootp, testp>>
==============================================================================
