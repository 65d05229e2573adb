--------------------------- MODULE SsoLoginProofs ---------------------------
(***************************************************************************)
(* SsoLogin implements LoginPromise, for every set of logins, namespaces   *)
(* and faults.                                                             *)
(***************************************************************************)
EXTENDS SsoLogin, TLAPS

\* Nothing is known of a namespace at first.
LEMMA AgreementInit == Init => AgreementInv
  BY LoginsAssumption
  DEF Init, AgreementInv, TypeOK, Credentials, Labels, Outcomes, Ended, Absent

\* Every step keeps what is known in agreement with the WhiskUser.
LEMMA AgreementStep == AgreementInv /\ [Next]_vars => AgreementInv'
<1> SUFFICES ASSUME AgreementInv, [Next]_vars PROVE AgreementInv'
  OBVIOUS
<1> USE LoginsAssumption
    DEF AgreementInv, TypeOK, Credentials, Labels, Outcomes, Ended, ns, Goto, End, StartWait,
        GetReply, Found
<1>1. ASSUME NEW r \in Logins, NEW f \in CallOutcomes, Step(r, f) PROVE AgreementInv'
  <2>0. hit' \subseteq Logins
    BY <1>1 DEF Step, Call, Local
  <2>1. CASE Validate(r)
    BY <2>0, <2>1 DEF Validate
  <2>2. CASE CheckDisabled(r, f)
    BY <2>0, <2>2, SMTT(20) DEF CheckDisabled
  <2>3. CASE FetchUserData(r, f)
    BY <2>0, <2>3 DEF FetchUserData
  <2>4. CASE EnsureWhiskUser(r, f)
    BY <2>0, <2>4 DEF EnsureWhiskUser
  <2>5. CASE CreateWhiskUser(r, f)
    BY <2>0, <2>5 DEF CreateWhiskUser, PostEffect, PostReply
  <2>6. CASE RecheckWhiskUser(r, f)
    BY <2>0, <2>6 DEF RecheckWhiskUser
  <2>7. CASE PollUserData(r, f)
    BY <2>0, <2>7 DEF PollUserData
  <2>8. CASE Answer(r)
    BY <2>0, <2>8 DEF Answer
  <2>9. QED
    BY <1>1, <2>1, <2>2, <2>3, <2>4, <2>5, <2>6, <2>7, <2>8 DEF Step, Call, Local
<1>2. ASSUME NEW r \in Logins, Tick(r) PROVE AgreementInv'
  BY <1>2 DEF Tick
<1>3. ASSUME NEW n \in Namespaces, Reconcile(n) \/ Unbind(n) PROVE AgreementInv'
  BY <1>3 DEF Reconcile, Unbind
<1>4. CASE Restart
  BY <1>4 DEF Restart, Running
<1>5. CASE UNCHANGED vars
  BY <1>5 DEF vars
<1>6. QED
  BY <1>1, <1>2, <1>3, <1>4, <1>5 DEF Next

\* The answer LoginPromise sees.
answered == [r \in Logins |-> IF outcome[r] = "ok" THEN doc[r]
                              ELSE IF pc[r] \in Ended THEN "refused" ELSE "none"]

\* An initial state of the logins is one of the promise.
LEMMA PromiseInit == Init => Promise!Init
  BY LoginsAssumption DEF Init, Promise!Init, Credentials, Ended, Absent

\* A step of the logins is a step of the promise, or none.
LEMMA PromiseStep ==
  ASSUME AgreementInv, [Next]_vars
  PROVE  [Promise!Next]_(Promise!vars)
<1> USE LoginsAssumption
    DEF AgreementInv, TypeOK, Credentials, Labels, Outcomes, Ended, ns, Goto, End, StartWait,
        Promise!Next, Promise!vars
<1>1. ASSUME NEW r \in Logins, pc[r] \notin Ended, outcome[r] = "pending",
             whiskUsers' = whiskUsers, doc' = doc,
             NEW o \in Outcomes \ {"ok"}, End(r, o)
      PROVE  [Promise!Next]_(Promise!vars)
  <2>1. Promise!Refuse({r})
    BY <1>1 DEF Promise!Refuse
  <2>2. QED
    BY <2>1
<1>2. ASSUME NEW r \in Logins, NEW l \in Labels \ Ended, pc[r] \notin Ended, Goto(r, l),
             outcome' = outcome, outcome[r] = "pending",
             \A q \in Logins : q # r => doc'[q] = doc[q]
      PROVE  answered' = answered
  BY <1>2 DEF answered
<1>3. ASSUME whiskUsers' = whiskUsers, answered' = answered
      PROVE  [Promise!Next]_(Promise!vars)
  BY <1>3 DEF answered
<1>4. ASSUME NEW r \in Logins, NEW f \in CallOutcomes, Step(r, f)
      PROVE  [Promise!Next]_(Promise!vars)
  <2>1. CASE Validate(r)
    <3>1. CASE Goto(r, "disabled") /\ UNCHANGED outcome
      BY <1>2, <1>3, <2>1, <3>1 DEF Validate
    <3>2. CASE End(r, "invalid")
      BY <1>1, <2>1, <3>2 DEF Validate
    <3>3. QED
      BY <2>1, <3>1, <3>2 DEF Validate
  <2>2. CASE CheckDisabled(r, f)
    <3>1. CASE Goto(r, "fetch") /\ UNCHANGED outcome
      BY <1>2, <1>3, <2>2, <3>1 DEF CheckDisabled
    <3>2. CASE End(r, "forbidden")
      BY <1>1, <2>2, <3>2 DEF CheckDisabled
    <3>3. QED
      BY <2>2, <3>1, <3>2 DEF CheckDisabled
  <2>3. CASE FetchUserData(r, f)
    <3>1. CASE (Goto(r, "answer") \/ Goto(r, "ensure")) /\ UNCHANGED outcome
      BY <1>2, <1>3, <2>3, <3>1 DEF FetchUserData
    <3>2. CASE End(r, "notfound") /\ UNCHANGED doc
      BY <1>1, <2>3, <3>2 DEF FetchUserData
    <3>3. QED
      BY <2>3, <3>1, <3>2 DEF FetchUserData
  <2>4. CASE EnsureWhiskUser(r, f)
    BY <1>2, <1>3, <2>4 DEF EnsureWhiskUser
  <2>5. CASE CreateWhiskUser(r, f)
    <3>1. answered' = answered
      BY <1>2, <2>5 DEF CreateWhiskUser
    <3>2. whiskUsers' = whiskUsers \/ Promise!Provision(ns(r))
      BY <2>5, <3>1 DEF CreateWhiskUser, PostEffect, Promise!Provision, Absent, answered
    <3>3. QED
      BY <1>3, <3>1, <3>2
  <2>6. CASE RecheckWhiskUser(r, f)
    <3>1. CASE Goto(r, "wait") /\ UNCHANGED outcome
      BY <1>2, <1>3, <2>6, <3>1 DEF RecheckWhiskUser
    <3>2. CASE End(r, "notfound")
      BY <1>1, <2>6, <3>2 DEF RecheckWhiskUser
    <3>3. QED
      BY <2>6, <3>1, <3>2 DEF RecheckWhiskUser
  <2>7. CASE PollUserData(r, f)
    <3>1. CASE Goto(r, "answer") /\ UNCHANGED outcome
      BY <1>2, <1>3, <2>7, <3>1 DEF PollUserData
    <3>2. CASE End(r, "notfound") /\ UNCHANGED doc
      BY <1>1, <2>7, <3>2 DEF PollUserData
    <3>3. QED
      BY <2>7, <3>1, <3>2 DEF PollUserData
  <2>8. CASE Answer(r)
    <3>1. CASE End(r, "ok")
      <4>1. doc[r] = whiskUsers[NamespaceOf[r]] /\ doc[r] # "absent"
        BY <2>8 DEF Answer, Absent
      <4>2. answered[r] = "none" /\ whiskUsers' = whiskUsers
        BY <2>8 DEF Answer, answered
      <4>3. answered' = [answered EXCEPT ![r] = whiskUsers[NamespaceOf[r]]]
        <5>1. /\ doc' = doc /\ whiskUsers' = whiskUsers
              /\ pc' = [pc EXCEPT ![r] = "done"]
              /\ outcome' = [outcome EXCEPT ![r] = "ok"]
          BY <2>8, <3>1 DEF Answer
        <5>2. \A q \in Logins : answered'[q] = IF q = r THEN doc[r] ELSE answered[q]
          BY <5>1 DEF answered
        <5>3. /\ answered = [q \in Logins |-> answered[q]]
              /\ answered' = [q \in Logins |-> answered'[q]]
          BY DEF answered
        <5>4. QED
          BY <4>1, <5>2, <5>3
      <4>4. Promise!Grant(r)
        BY <4>1, <4>2, <4>3 DEF Promise!Grant, answered
      <4>5. QED
        BY <4>4
    <3>2. CASE End(r, "noauth")
      BY <1>1, <2>8, <3>2 DEF Answer
    <3>3. QED
      BY <2>8, <3>1, <3>2 DEF Answer
  <2>9. QED
    BY <1>4, <2>1, <2>2, <2>3, <2>4, <2>5, <2>6, <2>7, <2>8 DEF Step, Call, Local
<1>5. ASSUME NEW r \in Logins, Tick(r) PROVE [Promise!Next]_(Promise!vars)
  BY <1>5 DEF Tick
<1>6. ASSUME NEW n \in Namespaces, Reconcile(n) \/ Unbind(n) PROVE [Promise!Next]_(Promise!vars)
  BY <1>6 DEF Reconcile, Unbind
<1>7. CASE Restart
  <2>1. Running \in SUBSET Logins
    BY DEF Running
  <2>2. \A r \in Running : answered[r] = "none"
    BY <1>7 DEF Running, answered
  <2>3. answered' = [r \in Logins |-> IF r \in Running THEN "refused" ELSE answered[r]]
    BY <1>7 DEF Restart, Running, answered
  <2>4. UNCHANGED whiskUsers
    BY <1>7 DEF Restart
  <2>5. \E R \in SUBSET Logins :
          /\ \A r \in R : answered[r] = "none"
          /\ answered' = [r \in Logins |-> IF r \in R THEN "refused" ELSE answered[r]]
          /\ UNCHANGED whiskUsers
    BY <2>1, <2>2, <2>3, <2>4
  <2>6. \E R \in SUBSET Logins : Promise!Refuse(R)
    BY <2>5 DEF Promise!Refuse, answered
  <2>7. QED
    BY <2>6
<1>8. CASE UNCHANGED vars
  BY <1>8 DEF vars
<1>9. QED
  BY <1>4, <1>5, <1>6, <1>7, <1>8 DEF Next

\* The metadata of a namespace and what any login has read of it are those of its
\* one WhiskUser, and a login is answered with nothing it did not read.
THEOREM LoginAgreement == Spec => []AgreementInv
  BY AgreementInit, AgreementStep, PTL DEF Spec

\* Whatever concurrent logins, failed calls and restarts do, a namespace gets
\* one credential and every login answered 200 returns that one.
THEOREM LoginKeepsPromise == Spec => KeepsPromise
  BY LoginAgreement, PromiseInit, PromiseStep, PTL DEF Spec, KeepsPromise, Promise!Spec

-----------------------------------------------------------------------------
(* Logins whose calls get through *)

\* A namespace that was unbound has a WhiskUser, so a login that arrived later
\* is at the check of it, or has ended with another answer than 200.
LateOf(r) ==
  r \in late \ hit => pc[r] \in {"disabled"} \cup Ended /\ outcome[r] # "ok" /\ ns(r) \in unbound

\* Whoever waits, or lost the race for the WhiskUser, has one to wait for.
WaitOf(r) ==
  AutoProvision /\ r \in WithEmail \ hit =>
    /\ pc[r] \in {"wait", "recheck"} => whiskUsers[ns(r)] # Absent
    /\ outcome[r] = "notfound" => left[r] = 0 /\ whiskUsers[ns(r)] # Absent

ThroughInv ==
  /\ \A n \in unbound : whiskUsers[n] # Absent
  /\ \A r \in Logins : LateOf(r) /\ WaitOf(r)

\* A WhiskUser that is there stays, and so does an annotation.
LEMMA ThroughSame ==
  ASSUME NEW r \in Logins, LateOf(r), WaitOf(r),
         hit \subseteq hit', r \in late' <=> r \in late, pc'[r] \in {pc[r], "dead"},
         outcome'[r] = outcome[r], left'[r] = left[r] \/ outcome[r] # "notfound",
         unbound \subseteq unbound',
         whiskUsers[ns(r)] # Absent => whiskUsers'[ns(r)] # Absent
  PROVE  LateOf(r)' /\ WaitOf(r)'
BY DEF LateOf, WaitOf, Ended, ns

LEMMA ThroughStep == AgreementInv /\ ThroughInv /\ [Next]_vars => ThroughInv'
<1> SUFFICES ASSUME AgreementInv, ThroughInv, [Next]_vars PROVE ThroughInv'
  OBVIOUS
<1> USE LoginsAssumption
<1>1. TypeOK /\ \A r \in Logins : (outcome[r] # "pending" <=> pc[r] = "done") /\ ns(r) \in Namespaces
  BY DEF AgreementInv, ns
<1>2. ASSUME NEW r \in Logins, NEW f \in CallOutcomes, Step(r, f) PROVE ThroughInv'
  <2> USE DEF TypeOK, Goto, End, StartWait
  <2>1. /\ unbound' = unbound /\ hit \subseteq hit' /\ (f # NoFault => r \in hit' \/ pc[r] \in {"idle", "answer"})
        /\ \A n \in Namespaces : whiskUsers[n] # Absent => whiskUsers'[n] # Absent
    <3>1. \/ whiskUsers' = whiskUsers
          \/ whiskUsers' = PostEffect(whiskUsers, ns(r), r, f)
      BY <1>2 DEF Step, Call, Local, Validate, Answer, CheckDisabled, FetchUserData,
                  EnsureWhiskUser, CreateWhiskUser, RecheckWhiskUser, PollUserData
    <3>2. unbound' = unbound
      BY <1>2 DEF Step, Call, Local, Validate, Answer, CheckDisabled, FetchUserData,
                  EnsureWhiskUser, CreateWhiskUser, RecheckWhiskUser, PollUserData
    <3>3. hit \subseteq hit' /\ (f # NoFault => r \in hit' \/ pc[r] \in {"idle", "answer"})
      BY <1>2 DEF Step, Call, Local, Validate, Answer
    <3>4. \A n \in Namespaces : whiskUsers[n] # Absent => whiskUsers'[n] # Absent
      BY <1>1, <3>1 DEF PostEffect, Credentials
    <3> QED BY <3>2, <3>3, <3>4
  <2>2. \A q \in Logins \ {r} : LateOf(q)' /\ WaitOf(q)'
    <3> SUFFICES ASSUME NEW q \in Logins \ {r} PROVE LateOf(q)' /\ WaitOf(q)'
      OBVIOUS
    <3>1. /\ q \in late' <=> q \in late
          /\ pc'[q] = pc[q] /\ outcome'[q] = outcome[q] /\ left'[q] = left[q]
      BY <1>1, <1>2 DEF Step, Call, Local, Validate, Answer, CheckDisabled, FetchUserData,
                        EnsureWhiskUser, CreateWhiskUser, RecheckWhiskUser, PollUserData
    <3> QED BY <1>1, <2>1, <3>1, ThroughSame DEF ThroughInv
  <2>3. LateOf(r)'
    <3>1. CASE Validate(r)
      BY <1>1, <2>1, <3>1 DEF Validate, ThroughInv, LateOf, Ended, ns
    <3>2. CASE CheckDisabled(r, f) /\ r \notin hit'
      <4>1. f = NoFault /\ r \notin hit /\ late' = late
        BY <2>1, <3>2 DEF CheckDisabled
      <4>2. SUFFICES ASSUME r \in late PROVE LateOf(r)'
        BY <4>1 DEF LateOf
      <4>3. ns(r) \in unbound /\ whiskUsers[ns(r)] # Absent /\ outcome[r] # "ok"
        BY <4>1, <4>2 DEF ThroughInv, LateOf
      <4>4. End(r, "forbidden")
        BY <3>2, <4>1, <4>3 DEF CheckDisabled, GetReply
      <4> QED BY <1>1, <2>1, <4>3, <4>4 DEF LateOf, Ended, ns
    <3>3. CASE pc[r] \notin {"idle", "disabled"} \cup Ended /\ late' = late
      BY <2>1, <3>3 DEF ThroughInv, LateOf
    <3>4. CASE r \in hit'
      BY <3>4 DEF LateOf
    <3> QED BY <1>2, <3>1, <3>2, <3>3, <3>4
          DEF Step, Call, Local, Answer, FetchUserData, EnsureWhiskUser, CreateWhiskUser,
              RecheckWhiskUser, PollUserData, Ended
  <2>4. WaitOf(r)'
    <3>1. r \in hit' => WaitOf(r)'
      BY DEF WaitOf
    <3>2. SUFFICES ASSUME r \notin hit', r \notin hit, f = NoFault \/ pc[r] \in {"idle", "answer"}, WaitOf(r),
                          AutoProvision, r \in WithEmail
                   PROVE  WaitOf(r)'
      BY <2>1, <3>1 DEF WaitOf, ThroughInv
    <3> USE <1>1, <2>1, <3>2 DEF WaitOf, Ended, ns
    <3>3. CASE Validate(r)
      BY <3>3 DEF Validate
    <3>4. CASE CheckDisabled(r, f)
      BY <3>4 DEF CheckDisabled
    <3>5. CASE FetchUserData(r, f)
      BY <3>5 DEF FetchUserData
    <3>6. CASE EnsureWhiskUser(r, f)
      BY <3>6 DEF EnsureWhiskUser, GetReply
    <3>7. CASE CreateWhiskUser(r, f)
      BY <3>7 DEF CreateWhiskUser, PostEffect, PostReply, Credentials, NoFault
    <3>8. CASE RecheckWhiskUser(r, f)
      BY <3>8 DEF RecheckWhiskUser, GetReply
    <3>9. CASE PollUserData(r, f)
      BY <3>9 DEF PollUserData
    <3>10. CASE Answer(r)
      BY <3>10 DEF Answer
    <3> QED BY <1>2, <3>3, <3>4, <3>5, <3>6, <3>7, <3>8, <3>9, <3>10 DEF Step, Call, Local
  <2> QED BY <1>1, <2>1, <2>2, <2>3, <2>4 DEF ThroughInv
<1>3. ASSUME NEW q \in Logins, Tick(q) PROVE ThroughInv'
  <2>1. \A r \in Logins : outcome[r] = "notfound" => left'[r] = left[r]
    BY <1>1, <1>3 DEF Tick, TypeOK
  <2> QED BY <1>1, <1>3, <2>1, ThroughSame DEF ThroughInv, Tick
<1>4. ASSUME NEW n \in Namespaces, Reconcile(n) \/ Unbind(n) PROVE ThroughInv'
  <2>1. \A r \in Logins : LateOf(r)' /\ WaitOf(r)'
    BY <1>4, ThroughSame DEF ThroughInv, Reconcile, Unbind
  <2> QED BY <1>4, <2>1 DEF ThroughInv, Reconcile, Unbind
<1>5. CASE Restart
  BY <1>1, <1>5, ThroughSame DEF ThroughInv, Restart, TypeOK
<1>6. CASE UNCHANGED vars
  BY <1>6, ThroughSame DEF ThroughInv, vars
<1> QED BY <1>2, <1>3, <1>4, <1>5, <1>6 DEF Next

LEMMA ThroughSafe == Spec => []ThroughInv
<1>1. Init => ThroughInv
  BY DEF Init, ThroughInv, LateOf, WaitOf
<1> QED BY <1>1, AgreementInit, AgreementStep, ThroughStep, PTL DEF Spec

\* A login that arrives after its namespace was unbound, and whose calls get
\* through, is refused (is_sso_login_disabled in login_oidc).
THEOREM UnboundSafe == Spec => []UnboundRefused
<1>1. AgreementInv /\ ThroughInv => UnboundRefused
  BY DEF AgreementInv, TypeOK, ThroughInv, LateOf, UnboundRefused
<1> QED BY <1>1, LoginAgreement, ThroughSafe, PTL

\* A login whose calls get through gives up on its namespace only after the
\* whole time, with a WhiskUser there (_ensure_whisk_user, wait_for_user_data).
THEOREM NotFoundSafe == Spec => []NotFoundNeedsTimeout
<1>1. ThroughInv => NotFoundNeedsTimeout
  BY LoginsAssumption DEF ThroughInv, WaitOf, NotFoundNeedsTimeout
<1> QED BY <1>1, ThroughSafe, PTL

=============================================================================
