------------------------- MODULE MCProfileDeletion -------------------------
(* Small instances of ProfileDeletion.                                     *)
EXTENDS ProfileDeletion

CONSTANTS q1, t1, r1, r2, c1, c2, c3

=============================================================================
