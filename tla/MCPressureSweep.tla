---------------------------- MODULE MCPressureSweep ----------------------------
(***************************************************************************)
(* An instance of PressureSweep for TLC; the .cfg file gives the bounds.   *)
(* The unit is a tenth.  Gains and deadband are chosen so that the         *)
(* controller moves when the target of two memories is missed by two and   *)
(* rests when it is missed by one, as with the default deadband of 2% it   *)
(* does at a target of 1000 missed by less than 20.                        *)
(***************************************************************************)
EXTENDS PressureSweep

CONSTANTS m1, m2, m3, m4

\* Memories are interchangeable: it is enough to start with them in this order,
\* the missing ones first and then by pressure.  (A declared symmetry would not be
\* sound for liveness.)
Order == <<m1, m2, m3, m4>>
Rank(m) == <<IF life[m] = "live" THEN 1 ELSE 0, pressure[m]>>
Before(a, b) == a[1] < b[1] \/ (a[1] = b[1] /\ a[2] <= b[2])
MCInit ==
  /\ SweepInit
  /\ \A i \in 1..3 : Before(Rank(Order[i]), Rank(Order[i + 1]))

MCSpec == MCInit /\ [][SweepNext]_sweepVars /\ Fairness
=============================================================================
