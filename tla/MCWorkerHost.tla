--------------------------- MODULE MCWorkerHost ---------------------------
(***************************************************************************)
(* Instances of WorkerHost for TLC.                                        *)
(***************************************************************************)
EXTENDS WorkerHost, TLC

CONSTANTS m1, m2, c1, c2

One == {m1}
Two == {m1, m2}
OneComputer == {c1}
TwoComputers == {c1, c2}
Alike == Permutations(Two) \cup Permutations(TwoComputers)
=============================================================================
