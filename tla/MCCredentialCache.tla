--------------------------- MODULE MCCredentialCache ---------------------------
(***************************************************************************)
(* Instances of CredentialCache for TLC; the .cfg files give the bounds.   *)
(* k1 expires a second after its issue, the other never.                   *)
(***************************************************************************)
EXTENDS CredentialCache, TLC

CONSTANTS k1, k2, r1

Lifetimes == [c \in Credentials |-> IF c = k1 THEN 1 ELSE NoExpiry]

\* Requests for one id overlap, and so do requests for two.
Asked == [r \in Requests |-> IF r = r1 THEN {k1, k2} ELSE {k2}]
=============================================================================
