--------------------------- MODULE MCAccessGrant ---------------------------
(***************************************************************************)
(* Instances of AccessGrant for TLC.                                       *)
(***************************************************************************)
EXTENDS AccessGrant, TLC

\* A trip whose invitation is issued at tick 1 and revoked at tick 2.
MCFirstWindow == [issue |-> 1, revoke |-> 2]

\* It may be extended, or moved to a later day.
MCWindows == {[issue |-> 1, revoke |-> 3], [issue |-> 2, revoke |-> 3]}

Symmetry == Permutations(Workers) \cup Permutations(Invites)
=============================================================================
