----------------------------- MODULE MCManager -----------------------------
(* Instantiation of Manager for TLC: three instances, two rebuild slots.  *)
EXTENDS Manager, TLC

CONSTANTS i1, i2, i3, r1, r2

MCInst == {i1, i2, i3}
MCInst2 == {i1, i2}
MCRSlots == {r1, r2}
MCRSlots1 == {r1}
\* i1 is an instance of tensor-parallel size 2, the others of size 1.
MCTp == [i \in MCInst |-> IF i = i1 THEN 2 ELSE 1]
MCTp2 == [i \in MCInst2 |-> IF i = i1 THEN 2 ELSE 1]
MCOrder == <<i1, i2, i3>>
MCOrder2 == <<i1, i2>>
=============================================================================
