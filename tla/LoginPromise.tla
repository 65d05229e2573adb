---------------------------- MODULE LoginPromise ----------------------------
(***************************************************************************)
(* What SSO logins promise, whoever provisions the namespace: a namespace  *)
(* gets one credential, once, and every login that is granted is given the *)
(* credential of its namespace.  A login may always be refused.            *)
(***************************************************************************)
CONSTANTS Namespaces, Logins, NamespaceOf, Credentials

VARIABLES credential,   \* of each namespace; "absent" before it has one
          answer        \* to each login: "none", "refused" or a credential

vars == <<credential, answer>>

Init ==
  /\ credential \in [Namespaces -> Credentials \cup {"absent"}]
  /\ answer = [r \in Logins |-> "none"]

Provision(n) ==
  /\ credential[n] = "absent"
  /\ \E c \in Credentials : credential' = [credential EXCEPT ![n] = c]
  /\ UNCHANGED answer

Grant(r) ==
  /\ answer[r] = "none"
  /\ credential[NamespaceOf[r]] # "absent"
  /\ answer' = [answer EXCEPT ![r] = credential[NamespaceOf[r]]]
  /\ UNCHANGED credential

Refuse(R) ==
  /\ \A r \in R : answer[r] = "none"
  /\ answer' = [r \in Logins |-> IF r \in R THEN "refused" ELSE answer[r]]
  /\ UNCHANGED credential

Next ==
  \/ \E n \in Namespaces : Provision(n)
  \/ \E r \in Logins : Grant(r)
  \/ \E R \in SUBSET Logins : Refuse(R)

Spec == Init /\ [][Next]_vars
=============================================================================
