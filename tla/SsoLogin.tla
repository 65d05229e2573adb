------------------------------ MODULE SsoLogin ------------------------------
(***************************************************************************)
(* AuthService.login_oidc and the provisioning it triggers                 *)
(* (impl/auth/auth_service.py): concurrent logins read CouchDB metadata,   *)
(* create the WhiskUser resource of their namespace when there is none and *)
(* wait for the operator, external here, to turn it into metadata.         *)
(* A resource, and the metadata made of it, is identified by who drew its  *)
(* random AUTH: a login, or System for a user made by an administrator.    *)
(***************************************************************************)
EXTENDS KubeApi, Integers

CONSTANTS Logins, Namespaces,
          NamespaceOf,     \* what the claims of each login map to
          AutoProvision,   \* SSO_AUTOPROVISION_ON_LOGIN
          WithEmail,       \* the logins whose token has an email claim
          Timeout          \* SSO_AUTOPROVISION_TIMEOUT_SECONDS, in ticks

System == "system"

ASSUME LoginsAssumption == /\ {Absent, System, "none", "refused"} \cap Logins = {}
                           /\ NamespaceOf \in [Logins -> Namespaces]
                           /\ WithEmail \subseteq Logins
                           /\ AutoProvision \in BOOLEAN
                           /\ Timeout \in Nat \ {0}

VARIABLES
  whiskUsers,   \* the WhiskUser of each namespace
  unbound,      \* namespaces whose WhiskUser is annotated sso-disabled
  metadata,     \* the user's document in CouchDB
  pc, outcome,
  doc,          \* user_data
  left,         \* ticks left of wait_for_user_data
  late,         \* logins that arrived when their namespace was unbound
  hit           \* logins that met a failing call

vars == <<whiskUsers, unbound, metadata, pc, outcome, doc, left, late, hit>>

Credentials == Logins \cup {System}
Ended == {"done", "dead"}
Labels == {"idle", "disabled", "fetch", "ensure", "create", "recheck", "wait", "answer"} \cup Ended
Outcomes == {"pending", "ok", "invalid", "forbidden", "notfound", "noauth"}

TypeOK ==
  /\ whiskUsers \in [Namespaces -> Credentials \cup {Absent}]
  /\ unbound \subseteq Namespaces
  /\ metadata \in [Namespaces -> Credentials \cup {Absent}]
  /\ pc \in [Logins -> Labels]
  /\ outcome \in [Logins -> Outcomes]
  /\ doc \in [Logins -> Credentials \cup {Absent}]
  /\ left \in [Logins -> 0..Timeout]
  /\ late \subseteq Logins
  /\ hit \subseteq Logins

Init ==
  /\ whiskUsers \in [Namespaces -> {Absent, System}]
  /\ unbound = {}
  /\ metadata = [n \in Namespaces |-> Absent]
  /\ pc = [r \in Logins |-> "idle"]
  /\ outcome = [r \in Logins |-> "pending"]
  /\ doc = [r \in Logins |-> Absent]
  /\ left = [r \in Logins |-> Timeout]
  /\ late = {}
  /\ hit = {}

ns(r) == NamespaceOf[r]
Goto(r, l) == pc' = [pc EXCEPT ![r] = l]
End(r, o) == Goto(r, "done") /\ outcome' = [outcome EXCEPT ![r] = o]

-----------------------------------------------------------------------------
\* The token is validated, mapped to a namespace and compared with the one
\* asked for: 401, 403 or 400, or on to the WhiskUser.
Validate(r) ==
  /\ pc[r] = "idle"
  /\ late' = IF ns(r) \in unbound THEN late \cup {r} ELSE late
  /\ \/ Goto(r, "disabled") /\ UNCHANGED outcome
     \/ End(r, "invalid")
  /\ UNCHANGED <<whiskUsers, unbound, metadata, doc, left>>

\* Variant: never finds the annotation.
CheckDisabledNever(r, f) ==
  /\ pc[r] = "disabled"
  /\ Goto(r, "fetch")
  /\ UNCHANGED <<whiskUsers, unbound, metadata, outcome, doc, left, late>>

\* is_sso_login_disabled: what cannot be read is not disabled.
CheckDisabled(r, f) ==
  /\ pc[r] = "disabled"
  /\ IF GetReply(whiskUsers, ns(r), f) /\ ns(r) \in unbound
       THEN End(r, "forbidden")
       ELSE Goto(r, "fetch") /\ UNCHANGED outcome
  /\ UNCHANGED <<whiskUsers, unbound, metadata, doc, left, late>>

\* fetch_user_data: a document, or None when there is none or the query fails.
Found(r, f) == GetReply(metadata, ns(r), f)

FetchUserData(r, f) ==
  /\ pc[r] = "fetch"
  /\ \/ /\ Found(r, f)
        /\ doc' = [doc EXCEPT ![r] = metadata[ns(r)]]
        /\ Goto(r, "answer")
        /\ UNCHANGED outcome
     \/ /\ ~Found(r, f)
        /\ IF AutoProvision /\ r \in WithEmail
             THEN Goto(r, "ensure") /\ UNCHANGED outcome
             ELSE End(r, "notfound")
        /\ UNCHANGED doc
  /\ UNCHANGED <<whiskUsers, unbound, metadata, left, late>>

\* wait_for_user_data starts its clock.
StartWait(r) == Goto(r, "wait") /\ left' = [left EXCEPT ![r] = Timeout]

EnsureWhiskUser(r, f) ==
  /\ pc[r] = "ensure"
  /\ IF GetReply(whiskUsers, ns(r), f)
       THEN StartWait(r)
       ELSE Goto(r, "create") /\ UNCHANGED left
  /\ UNCHANGED <<whiskUsers, unbound, metadata, outcome, doc, late>>

\* Variant: writes over a WhiskUser that is there.
CreateWhiskUserUpsert(r, f) ==
  /\ pc[r] = "create"
  /\ whiskUsers' = IF f = "refused" THEN whiskUsers ELSE [whiskUsers EXCEPT ![ns(r)] = r]
  /\ IF f = NoFault THEN StartWait(r) ELSE Goto(r, "recheck") /\ UNCHANGED left
  /\ UNCHANGED <<unbound, metadata, outcome, doc, late>>

\* Variant: answers with the AUTH it drew, without waiting for the operator.
CreateWhiskUserNoWait(r, f) ==
  /\ pc[r] = "create"
  /\ whiskUsers' = PostEffect(whiskUsers, ns(r), r, f)
  /\ doc' = [doc EXCEPT ![r] = r]
  /\ Goto(r, "answer")
  /\ UNCHANGED <<unbound, metadata, outcome, left, late>>

\* Variant: gives up when the POST fails.
CreateWhiskUserNoRecheck(r, f) ==
  /\ pc[r] = "create"
  /\ whiskUsers' = PostEffect(whiskUsers, ns(r), r, f)
  /\ IF PostReply(whiskUsers, ns(r), f)
       THEN StartWait(r) /\ UNCHANGED outcome
       ELSE End(r, "notfound") /\ UNCHANGED left
  /\ UNCHANGED <<unbound, metadata, doc, late>>

CreateWhiskUser(r, f) ==
  /\ pc[r] = "create"
  /\ whiskUsers' = PostEffect(whiskUsers, ns(r), r, f)
  /\ IF PostReply(whiskUsers, ns(r), f)
       THEN StartWait(r)
       ELSE Goto(r, "recheck") /\ UNCHANGED left
  /\ UNCHANGED <<unbound, metadata, outcome, doc, late>>

\* "A concurrent login may have created the CR between get and create."
RecheckWhiskUser(r, f) ==
  /\ pc[r] = "recheck"
  /\ IF GetReply(whiskUsers, ns(r), f)
       THEN StartWait(r) /\ UNCHANGED outcome
       ELSE End(r, "notfound") /\ UNCHANGED left
  /\ UNCHANGED <<whiskUsers, unbound, metadata, doc, late>>

\* Variant: waits without a deadline.
PollUserDataForEver(r, f) ==
  /\ pc[r] = "wait"
  /\ Found(r, f)
  /\ doc' = [doc EXCEPT ![r] = metadata[ns(r)]]
  /\ Goto(r, "answer")
  /\ UNCHANGED <<whiskUsers, unbound, metadata, outcome, left, late>>

\* The loop looks at the clock only after a query that found nothing.
PollUserData(r, f) ==
  /\ pc[r] = "wait"
  /\ \/ /\ Found(r, f)
        /\ doc' = [doc EXCEPT ![r] = metadata[ns(r)]]
        /\ Goto(r, "answer")
        /\ UNCHANGED outcome
     \/ /\ ~Found(r, f)
        /\ left[r] = 0
        /\ End(r, "notfound")
        /\ UNCHANGED doc
  /\ UNCHANGED <<whiskUsers, unbound, metadata, left, late>>

\* map_login_data: metadata an administrator's tools wrote may lack AUTH.
Answer(r) ==
  /\ pc[r] = "answer"
  /\ \/ End(r, "ok")
     \/ doc[r] = System /\ End(r, "noauth")
  /\ UNCHANGED <<whiskUsers, unbound, metadata, doc, left, late>>

Tick(r) ==
  /\ pc[r] = "wait"
  /\ left[r] > 0
  /\ left' = [left EXCEPT ![r] = @ - 1]
  /\ UNCHANGED <<whiskUsers, unbound, metadata, pc, outcome, doc, late, hit>>

Running == {r \in Logins : pc[r] \notin Ended \cup {"idle"}}

Restart ==
  /\ Running # {}
  /\ pc' = [r \in Logins |-> IF r \in Running THEN "dead" ELSE pc[r]]
  /\ UNCHANGED <<whiskUsers, unbound, metadata, outcome, doc, left, late, hit>>

-----------------------------------------------------------------------------
(* The operator and the administrator *)

Reconcile(n) ==
  /\ whiskUsers[n] # Absent
  /\ metadata[n] = Absent
  /\ metadata' = [metadata EXCEPT ![n] = whiskUsers[n]]
  /\ UNCHANGED <<whiskUsers, unbound, pc, outcome, doc, left, late, hit>>

Unbind(n) ==
  /\ whiskUsers[n] # Absent
  /\ n \notin unbound
  /\ unbound' = unbound \cup {n}
  /\ UNCHANGED <<whiskUsers, metadata, pc, outcome, doc, left, late, hit>>

-----------------------------------------------------------------------------
\* A call of r; a login whose call fails is marked.
Call(r, f) ==
  /\ hit' = IF f = NoFault THEN hit ELSE hit \cup {r}
  /\ \/ CheckDisabled(r, f) \/ FetchUserData(r, f)
     \/ EnsureWhiskUser(r, f) \/ CreateWhiskUser(r, f) \/ RecheckWhiskUser(r, f)
     \/ PollUserData(r, f)

Local(r) == (Validate(r) \/ Answer(r)) /\ UNCHANGED hit

Step(r, f) == Call(r, f) \/ Local(r)

Next ==
  \/ \E r \in Logins, f \in CallOutcomes : Step(r, f)
  \/ \E r \in Logins : Tick(r)
  \/ \E n \in Namespaces : Reconcile(n) \/ Unbind(n)
  \/ Restart

Spec == Init /\ [][Next]_vars

\* The worker threads and the clock; nothing is assumed of the operator.
FairSpec == Spec /\ \A r \in Logins : WF_vars(Step(r, NoFault)) /\ WF_vars(Tick(r))

-----------------------------------------------------------------------------
\* Concurrent first logins, lost answers and restarts included, a namespace is
\* given one AUTH and every login answered 200 returns that AUTH: the logins
\* and the provisioning implement LoginPromise.
Promise == INSTANCE LoginPromise WITH
  credential <- whiskUsers,
  answer <- [r \in Logins |-> IF outcome[r] = "ok" THEN doc[r]
                              ELSE IF pc[r] \in Ended THEN "refused" ELSE "none"]

KeepsPromise == Promise!Spec

\* A login that arrives after its namespace was unbound, and whose calls get
\* through, is not answered with the namespace's data.
UnboundRefused == \A r \in late \ hit : outcome[r] # "ok"

\* When provisioning is on and its token has an email, a login whose calls get
\* through is told that its namespace does not exist only after it waited the
\* whole time for the operator to act on a WhiskUser that is there, also when it
\* lost the race to create it.
NotFoundNeedsTimeout ==
  AutoProvision => \A r \in WithEmail \ hit :
    outcome[r] = "notfound" => left[r] = 0 /\ whiskUsers[ns(r)] # Absent

\* Every login is answered, or dies with the process, although the operator may
\* never act and calls may fail.
EveryLoginEnds == \A r \in Logins : <>(pc[r] \in Ended)

\* What logins and the operator know of a namespace agrees with its WhiskUser.
AgreementInv ==
  /\ TypeOK
  /\ \A n \in Namespaces : metadata[n] \in {Absent, whiskUsers[n]}
  /\ \A r \in Logins : doc[r] \in {Absent, whiskUsers[ns(r)]}
  /\ \A r \in Logins : pc[r] = "answer" \/ outcome[r] = "ok" => doc[r] # Absent
  /\ \A r \in Logins : outcome[r] # "pending" <=> pc[r] = "done"
=============================================================================
