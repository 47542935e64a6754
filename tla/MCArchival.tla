------------------------------ MODULE MCArchival ------------------------------
(***************************************************************************)
(* Instances of Archival for TLC; the .cfg files give the bounds.  Sources *)
(* differ by age; batches, compactors and requests are interchangeable.    *)
(***************************************************************************)
EXTENDS Archival, TLC

CONSTANTS m1, m2

\* m1 is the older of the two.
Ages == [m \in Sources |-> IF m = m1 THEN 1 ELSE 2]

Symmetry ==
  Permutations(Batches) \cup Permutations(Compactors) \cup Permutations(Restorers)
=============================================================================
