----------------------------- MODULE MCSsoLogin -----------------------------
(* Two logins whose claims map to one namespace. *)
EXTENDS SsoLogin

CONSTANTS r1, r2, n1

OneNamespace == [r \in Logins |-> n1]
=============================================================================
