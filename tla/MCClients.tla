------------------------------ MODULE MCClients ------------------------------
(* The instances of Clients that TLC checks.                                *)
EXTENDS Clients

CONSTANTS p8, child1, child2, grand1, grand2, test2, test4

\* p2test.c: p8 and its family.
Family     == {ssi, cs, p8, child1, child2, grand1, grand2}
FamilyTcbs == <<child1, child2, grand1, grand2>>
JustP8     == [t \in {p8} |-> "p8"]

\* p2p.c: two of the seven testers, that send to the part they start.
Parallel     == {ssi, cs, test2, test4, child1, child2}
ParallelTcbs == <<child1, child2>>
Testers      == [t \in {test2, test4} |-> "tester"]

Letters(T) == T \union {"none", "tmpstate"}
FamilyMail == Letters(Family)
ParallelMail == Letters(Parallel)
==============================================================================
