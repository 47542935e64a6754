-------------------------- MODULE MCExtractionOutbox --------------------------
(***************************************************************************)
(* Instances of ExtractionOutbox for TLC; the .cfg files give the bounds.  *)
(***************************************************************************)
EXTENDS ExtractionOutbox, TLC

\* Jobs and workers are interchangeable; used by the safety run only.
Symmetry == Permutations(Jobs) \cup Permutations(Workers)
=============================================================================
