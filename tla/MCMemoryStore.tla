---------------------------- MODULE MCMemoryStore ----------------------------
(***************************************************************************)
(* Instances of MemoryStore for TLC; the .cfg files give the bounds.       *)
(***************************************************************************)
EXTENDS MemoryStore, TLC

\* Requests are interchangeable until they arrive; safety runs only.
Symmetry == Permutations(Requests)
=============================================================================
