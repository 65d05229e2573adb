--------------------------- MODULE PasswordUpdate ---------------------------
(***************************************************************************)
(* PATCH /auth/<login> (rest/auth.py password, AuthService.update_password *)
(* and KubeApiClient.update_whisk_user) for one user: the old password is  *)
(* compared with the CouchDB metadata, then the WhiskUser resource is read,*)
(* changed in memory and PUT back whole, with the resourceVersion it had.  *)
(* Others edit the resource meanwhile (the operator, an administrator, a   *)
(* tool that sets annotations) and the operator copies its password to the *)
(* metadata; both are external, as is the API server's version check.      *)
(***************************************************************************)
EXTENDS KubeApi, Naturals

CONSTANTS Updates,       \* the requests
          Passwords, InitialPassword,
          OldPassword,   \* the current password each request gives
          NewPassword,   \* the one it asks for
          Edits          \* edits others make, each once

ASSUME UpdatesAssumption == /\ InitialPassword \in Passwords
                            /\ OldPassword \in [Updates -> Passwords]
                            /\ NewPassword \in [Updates -> Passwords]
                            /\ Absent \notin Passwords

VARIABLES
  whiskUser,   \* the WhiskUser resource
  metadata,    \* the password in CouchDB
  pc, outcome,
  copy,        \* whisk_user, the resource as a request read it
  written      \* the requests whose PUT the API server executed

vars == <<whiskUser, metadata, pc, outcome, copy, written>>

Resource == [password : Passwords, edits : SUBSET Edits, version : Nat]
Ended == {"done", "dead"}

TypeOK ==
  /\ whiskUser \in Resource
  /\ metadata \in Passwords \cup {Absent}
  /\ pc \in [Updates -> {"idle", "read", "put"} \cup Ended]
  /\ outcome \in [Updates -> {"pending", "ok", "unauthorized", "crashed"}]
  /\ copy \in [Updates -> Resource]
  /\ written \subseteq Updates

Init ==
  /\ whiskUser = [password |-> InitialPassword, edits |-> {}, version |-> 0]
  /\ metadata \in {Absent, InitialPassword}
  /\ pc = [u \in Updates |-> "idle"]
  /\ outcome = [u \in Updates |-> "pending"]
  /\ copy = [u \in Updates |-> whiskUser]
  /\ written = {}

Goto(u, l) == pc' = [pc EXCEPT ![u] = l]
End(u, o) == Goto(u, "done") /\ outcome' = [outcome EXCEPT ![u] = o]

-----------------------------------------------------------------------------
\* Past authorization, the payload and the metadata query, the old password is
\* the one the metadata holds.  A request is turned away at any of these (401),
\* and raises KeyError when a field of the payload is missing.
Verify(u, f) ==
  /\ pc[u] = "idle"
  /\ \/ /\ f = NoFault /\ metadata = OldPassword[u]
        /\ Goto(u, "read")
        /\ UNCHANGED outcome
     \/ \E o \in {"unauthorized", "crashed"} : End(u, o)
  /\ UNCHANGED <<whiskUser, metadata, copy, written>>

\* Variant: takes only the version from the API server, the rest from a cache.
ReadUserCached(u, f) ==
  /\ pc[u] = "read"
  /\ f = NoFault
  /\ copy' = [copy EXCEPT ![u].version = whiskUser.version]
  /\ Goto(u, "put")
  /\ UNCHANGED <<whiskUser, metadata, outcome, written>>

\* get_whisk_user; None cannot be indexed: TypeError.
ReadUser(u, f) ==
  /\ pc[u] = "read"
  /\ \/ /\ f = NoFault
        /\ copy' = [copy EXCEPT ![u] = whiskUser]
        /\ Goto(u, "put")
        /\ UNCHANGED outcome
     \/ f # NoFault /\ End(u, "crashed") /\ UNCHANGED copy
  /\ UNCHANGED <<whiskUser, metadata, written>>

\* A PUT of a version that is no longer the latest is answered 409.
Accepted(r) == r.version = whiskUser.version

\* The next version of the resource.
Write(p, es) == [password |-> p, edits |-> es, version |-> whiskUser.version + 1]

\* Variant: sends the resource without its version.
PutAnyVersion(u, f) ==
  /\ pc[u] = "put"
  /\ IF f # "refused"
       THEN /\ whiskUser' = Write(NewPassword[u], copy[u].edits)
            /\ written' = written \cup {u}
       ELSE UNCHANGED <<whiskUser, written>>
  /\ End(u, "ok")
  /\ UNCHANGED <<metadata, copy>>

\* update_whisk_user; its result is not looked at.
Put(u, f) ==
  /\ pc[u] = "put"
  /\ IF f # "refused" /\ Accepted(copy[u])
       THEN /\ whiskUser' = Write(NewPassword[u], copy[u].edits)
            /\ written' = written \cup {u}
       ELSE UNCHANGED <<whiskUser, written>>
  /\ End(u, "ok")
  /\ UNCHANGED <<metadata, copy>>

Restart ==
  /\ \E u \in Updates : pc[u] \in {"read", "put"}
  /\ pc' = [u \in Updates |-> IF pc[u] \in {"read", "put"} THEN "dead" ELSE pc[u]]
  /\ UNCHANGED <<whiskUser, metadata, outcome, copy, written>>

\* Someone else changes another part of the resource.
Edit(e) ==
  /\ e \notin whiskUser.edits
  /\ whiskUser' = Write(whiskUser.password, whiskUser.edits \cup {e})
  /\ UNCHANGED <<metadata, pc, outcome, copy, written>>

\* The operator brings the metadata up to date.
Reconcile ==
  /\ metadata # whiskUser.password
  /\ metadata' = whiskUser.password
  /\ UNCHANGED <<whiskUser, pc, outcome, copy, written>>

Next ==
  \/ \E u \in Updates, f \in CallOutcomes : Verify(u, f) \/ ReadUser(u, f) \/ Put(u, f)
  \/ \E e \in Edits : Edit(e)
  \/ Reconcile
  \/ Restart

Spec == Init /\ [][Next]_vars

-----------------------------------------------------------------------------
\* What others wrote into a WhiskUser between the read and the PUT of a password
\* update, or during any other, is not undone: a resource keeps every edit.
ForeignEditsKept == [][whiskUser.edits \subseteq whiskUser'.edits]_vars

\* A request that is about to PUT holds an old version, or exactly the resource
\* as it is: two PUTs of one version cannot both be executed.
CopyInv ==
  \A u \in Updates : pc[u] = "put" =>
    copy[u].version <= whiskUser.version /\ (Accepted(copy[u]) => copy[u] = whiskUser)

PasswordInv == TypeOK /\ CopyInv

\* "Password updated successfully": a 200 means that the API server took the
\* new password.
PasswordUpdated == \A u \in Updates : outcome[u] = "ok" => u \in written
=============================================================================
