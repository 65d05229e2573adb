-------------------------- MODULE MCPasswordUpdate --------------------------
(* Three updates of one user: two of the initial password, one of the next. *)
EXTENDS PasswordUpdate

CONSTANTS u1, u2, u3, p0, p1, p2

Given == [u \in Updates |-> IF u = u3 THEN p1 ELSE p0]
Wanted == [u \in Updates |-> IF u = u1 THEN p1 ELSE p2]
=============================================================================
