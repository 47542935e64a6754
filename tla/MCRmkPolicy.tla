------------------------------ MODULE MCRmkPolicy ------------------------------
(***************************************************************************)
(* Instances of RmkPolicy for TLC; the .cfg files give the bounds.         *)
(***************************************************************************)
EXTENDS RmkPolicy, TLC

\* Turns are interchangeable, and so are workers.
Symmetry == Permutations(Turns) \cup Permutations(Workers)
=============================================================================
