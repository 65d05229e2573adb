---------------------------- MODULE BuildProofs -----------------------------
(***************************************************************************)
(* Theorems about BuildService for every value of its constants.           *)
(***************************************************************************)
EXTENDS BuildService, TLAPS

\* A listing describes existing jobs.
LEMMA JobsOfType ==
  ASSUME NEW r, jobs \in [Builds -> JobStates], NEW u
  PROVE  JobsOf(u, r) \subseteq Listing
<1> SUFFICES ASSUME NEW b \in Builds
             PROVE  [job |-> b, status |-> jobs[b], old |-> b \in aged \/ r \in Impatient]
                      \in [job : Builds, status : JobStates, old : BOOLEAN]
  BY DEF JobsOf, Listing
<1> DEFINE old == b \in aged \/ r \in Impatient
<1>1. old \in BOOLEAN
  OBVIOUS
<1> HIDE DEF old
<1>2. [job |-> b, status |-> jobs[b], old |-> old] \in [job : Builds, status : JobStates, old : BOOLEAN]
  BY <1>1
<1>3. QED
  BY <1>2 DEF old

\* What a listing says of the jobs in it.
LEMMA JobsOfFacts ==
  ASSUME NEW r, NEW u, NEW x \in JobsOf(u, r)
  PROVE  /\ x.job \in Builds
         /\ jobs[x.job] # Absent
         /\ Owner[x.job] = u
         /\ x.status = jobs[x.job]
         /\ x.old => x.job \in aged \/ r \in Impatient
<1>1. PICK b \in {c \in Builds : jobs[c] # Absent /\ Owner[c] = u} :
        x = [job |-> b, status |-> jobs[b], old |-> b \in aged \/ r \in Impatient]
  BY DEF JobsOf
<1>2. x.job = b /\ x.status = jobs[b] /\ x.old = (b \in aged \/ r \in Impatient)
  BY <1>1
<1>3. QED
  BY <1>2

\* No step of a request, of the cluster or of the clock leaves the types.
LEMMA TypeStep == TypeOK /\ [Next]_vars => TypeOK'
<1> SUFFICES ASSUME TypeOK, [Next]_vars PROVE TypeOK'
  OBVIOUS
<1>0. hit' \subseteq Requests
  BY DEF TypeOK, Next, Receive, Refuse, Step, Tick, serviceVars, Restart, vars
<1> USE <1>0 DEF TypeOK, ClusterTypeOK, Labels, PreSubmit, Waiting, Ended, Outcomes,
            Goto, Decide, End, Requests
<1>1. ASSUME NEW r \in Requests, Receive(r) \/ Refuse(r) PROVE TypeOK'
  BY <1>1 DEF Receive, Refuse, clusterVars
<1>2. ASSUME NEW r \in Requests, NEW f \in CallOutcomes, SweepStep(r, f) PROVE TypeOK'
  <2> USE DEF AfterSweep, clusterVars
  <2>1. CASE ListJobs(r, f)
    BY <2>1, JobsOfType DEF ListJobs
  <2>2. CASE SweepAbort(r)
    BY <2>2 DEF SweepAbort
  <2>3. CASE SweepSkip(r)
    BY <2>3 DEF SweepSkip
  <2>4. CASE SweepDelete(r, f)
    BY <2>4 DEF SweepDelete, DeleteEffect, Listing, JobStates
  <2>5. CASE SweepEnd(r)
    BY <2>5 DEF SweepEnd
  <2>6. QED
    BY <1>2, <2>1, <2>2, <2>3, <2>4, <2>5 DEF SweepStep
<1>3. ASSUME NEW b \in Builds, NEW f \in CallOutcomes, BuildStep(b, f) PROVE TypeOK'
  <2> USE DEF clusterVars
  <2>1. CASE GetConf(b, f)
    BY <2>1 DEF GetConf
  <2>2. CASE PostConf(b, f)
    BY <2>2 DEF PostConf, PostEffect
  <2>3. CASE UseExistingSecret(b)
    BY <2>3 DEF UseExistingSecret, AuthNames, SecretNames
  <2>4. CASE CreateRegistrySecret(b, f)
    <3>1. PICK p \in RandomParts :
            /\ secrets' = PostEffect(secrets, <<Owner[b], p>>, b, f)
            /\ regAuth' = [regAuth EXCEPT ![b] =
                             IF PostReply(secrets, <<Owner[b], p>>, f)
                               THEN <<Owner[b], p>> ELSE DefaultSecret]
      BY <2>4 DEF CreateRegistrySecret
    <3> DEFINE name == <<Owner[b], p>>
    <3>2. name \in RandomSecrets
      BY RequestsAssumption DEF RandomSecrets
    <3> HIDE DEF name
    <3>3. /\ secrets' = PostEffect(secrets, name, b, f)
          /\ regAuth' \in [Builds -> AuthNames]
      BY <3>1, <3>2 DEF name, AuthNames, SecretNames, SystemSecrets
    <3>4. secrets' \in [SecretNames -> Builds \cup {Absent, System}]
      BY <3>2, <3>3 DEF PostEffect, SecretNames
    <3>5. QED
      BY <2>4, <3>3, <3>4 DEF CreateRegistrySecret
  <2>5. CASE MalformedCredentials(b)
    BY <2>5 DEF MalformedCredentials
  <2>6. CASE CheckSecret(b, f)
    BY <2>6 DEF CheckSecret
  <2>7. CASE Context(b)
    BY <2>7 DEF Context
  <2>8. CASE PostContext(b, f)
    BY <2>8 DEF PostContext, PostEffect
  <2>9. CASE SubmitJob(b, f)
    BY <2>9, BoundsAssumption, SMTT(20) DEF SubmitJob, PostEffect, JobStates
  <2>10. CASE WaitPod(b) \/ ListPods(b, f) \/ WaitInit(b, f)
    BY <2>10 DEF WaitPod, ListPods, WaitInit
  <2>11. CASE DelContext(b, f)
    BY <2>11 DEF DelContext, DeleteEffect
  <2>12. CASE DelSecret(b, f)
    BY <2>12 DEF DelSecret, DeleteEffect
  <2>13. QED
    BY <1>3, <2>1, <2>2, <2>3, <2>4, <2>5, <2>6, <2>7, <2>8, <2>9, <2>10, <2>11, <2>12
    DEF BuildStep
<1>4. ASSUME NEW b \in Builds, Tick(b) PROVE TypeOK'
  BY <1>4, BoundsAssumption DEF Tick, clusterVars
<1>5. ASSUME NEW b \in Builds, ClusterStep(b), UNCHANGED serviceVars PROVE TypeOK'
  BY <1>5 DEF ClusterStep, serviceVars, CreatePod, StartPod, InitExit, FinishJob, LosePod, Age,
              PodStates, JobStates, Terminated
<1>6. CASE Restart
  BY <1>6 DEF Restart, clusterVars, Running
<1>7. CASE UNCHANGED vars
  BY <1>7 DEF vars, clusterVars, serviceVars
<1>8. QED
  BY <1>1, <1>2, <1>3, <1>4, <1>5, <1>6, <1>7 DEF Next, Step

\* The initial states are well typed.
LEMMA TypeInit == Init => TypeOK
<1> SUFFICES ASSUME Init PROVE TypeOK
  OBVIOUS
<1>1. ClusterTypeOK
  BY BuildsAssumption DEF Init, ClusterInit, ClusterTypeOK, SecretNames, JobStates, PodStates
<1>2. QED
  BY <1>1, BoundsAssumption DEF Init, TypeOK, Labels, PreSubmit, Outcomes, AuthNames

\* Every reachable state is one the declarations of the service and of the
\* cluster's objects allow, the time left of a wait never being negative.
THEOREM TypeCorrect == Spec => []TypeOK
  BY TypeInit, TypeStep, PTL DEF Spec

-----------------------------------------------------------------------------

\* The strengthened invariant holds before any request.
LEMMA SafetyInit == Init => SafetyInv
<1> SUFFICES ASSUME Init PROVE SafetyInv
  OBVIOUS
<1>1. TypeOK
  BY TypeInit
<1>2. SystemSecretsInv
  BY DEF Init, ClusterInit, SystemSecretsInv, SecretNames
<1>3. SecretInv /\ SubmitInv /\ ContextInv
  BY DEF Init, ClusterInit, SecretInv, SubmitInv, ContextInv, NeedsContext, Checked, PreSubmit,
         Waiting, Requests
<1>4. ListedInv /\ SweptInv
  BY DEF Init, ListedInv, SweptInv
<1>5. QED
  BY <1>1, <1>2, <1>3, <1>4 DEF SafetyInv

\* Every step keeps it.
LEMMA SafetyStep == SafetyInv /\ [Next]_vars => SafetyInv'
<1> SUFFICES ASSUME SafetyInv, [Next]_vars PROVE SafetyInv'
  OBVIOUS
<1>0. TypeOK /\ TypeOK'
  BY TypeStep DEF SafetyInv
<1> USE <1>0 DEF TypeOK, ClusterTypeOK, Requests
<1> USE DEF PreSubmit, Waiting, Ended, Goto, Decide, End
<1>1. ASSUME NEW r \in Requests, Receive(r) \/ Refuse(r) PROVE SafetyInv'
  <2>1. SystemSecretsInv' /\ SecretInv'
    BY <1>1 DEF SafetyInv, Receive, Refuse, clusterVars, SystemSecretsInv, SecretInv,
      HoldsSecret, NeedsContext, CustomAuth, Checked
  <2>2. SubmitInv' /\ ContextInv'
    BY <1>1 DEF SafetyInv, Receive, Refuse, clusterVars, SubmitInv, ContextInv, NeedsContext
  <2>3. ListedInv' /\ SweptInv'
    BY <1>1 DEF SafetyInv, Receive, Refuse, clusterVars, ListedInv, Listing, SweptInv
  <2>4. QED
    BY <2>1, <2>2, <2>3 DEF SafetyInv
<1>2. ASSUME NEW r \in Requests, NEW f \in CallOutcomes, SweepStep(r, f) PROVE SafetyInv'
  <2> USE DEF AfterSweep, clusterVars
  <2>1. CASE ListJobs(r, f)
    <3>1. SystemSecretsInv' /\ SecretInv'
      BY <2>1 DEF SafetyInv, ListJobs, SystemSecretsInv, SecretInv, HoldsSecret,
        NeedsContext, CustomAuth, Checked
    <3>2. SubmitInv' /\ ContextInv'
      BY <2>1 DEF SafetyInv, ListJobs, SubmitInv, ContextInv, NeedsContext
    <3>3. ListedInv' /\ SweptInv'
      <4>1. pc[r] = "list" /\ UNCHANGED <<jobs, aged, swept>>
        BY <2>1 DEF ListJobs
      <4>2. \A q \in Requests \ {r} : pc'[q] = pc[q] /\ listed'[q] = listed[q]
        BY <2>1 DEF ListJobs
      <4>3. \A b \in Builds : jobs[b] # Absent => pc[b] \notin PreSubmit
        BY DEF SafetyInv, SubmitInv
      <4>4. r \in Builds => jobs[r] = Absent
        BY <4>1, <4>3
      <4>5. ASSUME NEW x \in listed'[r], f = NoFault, Goto(r, "sweep"),
                   listed' = [listed EXCEPT ![r] = JobsOf(Owner[r], r)]
            PROVE  /\ pc'[r] = "sweep"
                   /\ pc'[x.job] \notin PreSubmit
                   /\ Owner[x.job] = Owner[r]
                   /\ x.status = "complete" => jobs'[x.job] \in {"complete", Absent}
                   /\ x.old => x.job \in aged' \/ r \in Impatient
        <5>1. x \in JobsOf(Owner[r], r)
          BY <4>5
        <5>2. /\ x.job \in Builds /\ jobs[x.job] # Absent /\ Owner[x.job] = Owner[r]
              /\ x.status = jobs[x.job] /\ (x.old => x.job \in aged \/ r \in Impatient)
          BY <5>1, JobsOfFacts
        <5>3. x.job # r
          BY <5>2, <4>4
        <5>4. QED
          BY <4>1, <4>2, <4>3, <4>5, <5>2, <5>3
      <4>6. listed[r] = {}
        BY <4>1 DEF SafetyInv, ListedInv
      <4>7. \A x \in listed'[r] :
              /\ pc'[r] = "sweep"
              /\ pc'[x.job] \notin PreSubmit
              /\ Owner[x.job] = Owner[r]
              /\ x.status = "complete" => jobs'[x.job] \in {"complete", Absent}
              /\ x.old => x.job \in aged' \/ r \in Impatient
        BY <2>1, <4>5, <4>6 DEF ListJobs
      <4>8. \A q \in Requests : \A x \in listed[q] : x.job # r
        BY <4>1 DEF SafetyInv, ListedInv
      <4>9. ListedInv'
        BY <4>1, <4>2, <4>7, <4>8 DEF SafetyInv, ListedInv, Listing
      <4>10. SweptInv'
        BY <4>1, <4>2, <4>4 DEF SafetyInv, SweptInv
      <4>11. QED
        BY <4>9, <4>10
    <3>4. QED
      BY <3>1, <3>2, <3>3 DEF SafetyInv
  <2>2. CASE SweepAbort(r)
    <3>1. SystemSecretsInv' /\ SecretInv'
      BY <2>2 DEF SafetyInv, SweepAbort, SystemSecretsInv, SecretInv, HoldsSecret,
        NeedsContext, CustomAuth, Checked
    <3>2. SubmitInv' /\ ContextInv'
      BY <2>2 DEF SafetyInv, SweepAbort, SubmitInv, ContextInv, NeedsContext
    <3>3. ListedInv' /\ SweptInv'
      BY <2>2 DEF SafetyInv, SweepAbort, ListedInv, Listing, SweptInv
    <3>4. QED
      BY <3>1, <3>2, <3>3 DEF SafetyInv
  <2>3. CASE SweepSkip(r)
    <3>1. SystemSecretsInv' /\ SecretInv'
      BY <2>3 DEF SafetyInv, SweepSkip, SystemSecretsInv, SecretInv, HoldsSecret,
        NeedsContext, CustomAuth, Checked
    <3>2. SubmitInv' /\ ContextInv'
      BY <2>3 DEF SafetyInv, SweepSkip, SubmitInv, ContextInv, NeedsContext
    <3>3. ListedInv' /\ SweptInv'
      BY <2>3 DEF SafetyInv, SweepSkip, ListedInv, Listing, SweptInv
    <3>4. QED
      BY <3>1, <3>2, <3>3 DEF SafetyInv
  <2>4. CASE SweepDelete(r, f)
    <3>1. PICK x \in listed[r] :
            /\ Deletable(x)
            /\ jobs' = DeleteEffect(jobs, x.job, f)
            /\ listed' = [listed EXCEPT ![r] = @ \ {x}]
            /\ swept' = [swept EXCEPT ![r] =
                           IF DeleteReply(jobs, x.job, f) THEN @ \cup {x.job} ELSE @]
      BY <2>4 DEF SweepDelete
    <3>2. x.job \in Builds /\ jobs[x.job] \in {"complete", Absent} /\ pc[x.job] \notin PreSubmit
      BY <3>1 DEF SafetyInv, ListedInv, Deletable, Listing
    <3>3. \A b \in Builds : jobs'[b] = jobs[b] \/ (b = x.job /\ jobs'[b] = Absent)
      BY <3>1, <3>2 DEF DeleteEffect
    <3>4. UNCHANGED <<configMaps, secrets, pods, aged, pc, outcome, regAuth>>
      BY <2>4 DEF SweepDelete
    <3>5. SystemSecretsInv' /\ SecretInv'
      BY <3>2, <3>3, <3>4 DEF SafetyInv, SystemSecretsInv, SecretInv, HoldsSecret, NeedsContext, CustomAuth, Checked, Absent
    <3>6. SubmitInv' /\ ContextInv'
      BY <3>2, <3>3, <3>4 DEF SafetyInv, SubmitInv, ContextInv, NeedsContext, Absent
    <3>7. ListedInv'
      BY <3>1, <3>2, <3>3, <3>4 DEF SafetyInv, ListedInv, Listing
    <3>8. SweptInv'
      <4>1. swept'[r] \subseteq swept[r] \cup {x.job} /\ (x.job \in swept'[r] => jobs'[x.job] = Absent)
        BY <3>1, <3>2 DEF DeleteEffect, DeleteReply, NoFault, SafetyInv, SweptInv
      <4>2. \A q \in Requests : q # r => swept'[q] = swept[q]
        BY <3>1
      <4>3. QED
        BY <4>1, <4>2, <3>2, <3>3, <3>4, SMTT(20) DEF SafetyInv, SweptInv
    <3>9. QED
      BY <3>5, <3>6, <3>7, <3>8 DEF SafetyInv
  <2>5. CASE SweepEnd(r)
    <3>1. SystemSecretsInv' /\ SecretInv'
      BY <2>5 DEF SafetyInv, SweepEnd, SystemSecretsInv, SecretInv, HoldsSecret,
        NeedsContext, CustomAuth, Checked
    <3>2. SubmitInv' /\ ContextInv'
      BY <2>5 DEF SafetyInv, SweepEnd, SubmitInv, ContextInv, NeedsContext
    <3>3. ListedInv' /\ SweptInv'
      BY <2>5 DEF SafetyInv, SweepEnd, ListedInv, Listing, SweptInv
    <3>4. QED
      BY <3>1, <3>2, <3>3 DEF SafetyInv
  <2>6. QED
    BY <1>2, <2>1, <2>2, <2>3, <2>4, <2>5 DEF SweepStep
<1>3. ASSUME NEW b \in Builds, NEW f \in CallOutcomes, BuildStep(b, f) PROVE SafetyInv'
  <2> USE DEF clusterVars
  <2>1. CASE GetConf(b, f)
    <3>1. SystemSecretsInv' /\ SecretInv'
      BY <2>1 DEF SafetyInv, GetConf, SystemSecretsInv, SecretInv, HoldsSecret,
        NeedsContext, CustomAuth, Checked
    <3>2. SubmitInv' /\ ContextInv'
      BY <2>1 DEF SafetyInv, GetConf, SubmitInv, ContextInv, NeedsContext
    <3>3. ListedInv' /\ SweptInv'
      BY <2>1 DEF SafetyInv, GetConf, ListedInv, Listing, SweptInv
    <3>4. QED
      BY <3>1, <3>2, <3>3 DEF SafetyInv
  <2>2. CASE PostConf(b, f)
    <3>1. SystemSecretsInv' /\ SecretInv'
      BY <2>2 DEF SafetyInv, PostConf, PostEffect, SystemSecretsInv, SecretInv, HoldsSecret,
        NeedsContext, CustomAuth, Checked
    <3>2. SubmitInv' /\ ContextInv'
      BY <2>2, BuildsAssumption DEF SafetyInv, PostConf, PostEffect, SubmitInv, ContextInv,
        NeedsContext
    <3>3. ListedInv' /\ SweptInv'
      BY <2>2 DEF SafetyInv, PostConf, PostEffect, ListedInv, Listing, SweptInv
    <3>4. QED
      BY <3>1, <3>2, <3>3 DEF SafetyInv
  <2>3. CASE UseExistingSecret(b)
    <3>1. SystemSecretsInv' /\ SecretInv'
      BY <2>3, SecretNamesAssumption DEF SafetyInv, UseExistingSecret, SystemSecretsInv,
        SecretInv, HoldsSecret, NeedsContext, CustomAuth, Checked, SecretNames, SubmitInv
    <3>2. SubmitInv' /\ ContextInv'
      BY <2>3 DEF SafetyInv, UseExistingSecret, SubmitInv, ContextInv, NeedsContext
    <3>3. ListedInv' /\ SweptInv'
      BY <2>3 DEF SafetyInv, UseExistingSecret, ListedInv, Listing, SweptInv
    <3>4. QED
      BY <3>1, <3>2, <3>3 DEF SafetyInv
  <2>4. CASE CreateRegistrySecret(b, f)
    <3>1. PICK p \in RandomParts :
            /\ secrets' = PostEffect(secrets, <<Owner[b], p>>, b, f)
            /\ regAuth' = [regAuth EXCEPT ![b] =
                             IF PostReply(secrets, <<Owner[b], p>>, f)
                               THEN <<Owner[b], p>> ELSE DefaultSecret]
      BY <2>4 DEF CreateRegistrySecret
    <3> DEFINE name == <<Owner[b], p>>
    <3>2. name \in RandomSecrets /\ name \notin SystemSecrets /\ name \in SecretNames
      BY RequestsAssumption, SecretNamesAssumption DEF RandomSecrets, SecretNames
    <3>3. DefaultSecret \in SystemSecrets /\ DefaultSecret \in SecretNames /\ DefaultSecret \notin RandomSecrets
      BY SecretNamesAssumption DEF SystemSecrets, SecretNames
    <3> HIDE DEF name
    <3>4. /\ \A n \in SecretNames :
                secrets'[n] = secrets[n] \/ (n = name /\ secrets[n] = Absent)
          /\ \/ regAuth'[b] = name /\ secrets'[name] = b
             \/ regAuth'[b] = DefaultSecret
          /\ \A c \in Builds : c # b => regAuth'[c] = regAuth[c]
      BY <3>1, <3>2 DEF name, PostEffect, PostReply, NoFault
    <3>5. /\ pc[b] = "auth" /\ pc' = [pc EXCEPT ![b] = "check"]
          /\ UNCHANGED <<configMaps, jobs, pods, aged, outcome, listed, swept>>
      BY <2>4 DEF CreateRegistrySecret
    <3>6. SystemSecretsInv'
      BY <3>2, <3>4 DEF SafetyInv, SystemSecretsInv, SecretNames
    <3>7. SecretInv'
      <4>1. \A c \in Builds : c # b /\ HoldsSecret(c) => HoldsSecret(c)'
        BY <3>4, BuildsAssumption DEF HoldsSecret, CustomAuth, System, Absent
      <4>2. regAuth'[b] \in SecretNames /\ (CustomAuth(b)' => HoldsSecret(b)')
        BY <3>2, <3>3, <3>4 DEF HoldsSecret, CustomAuth
      <4>3. pc'[b] = "check" /\ outcome'[b] = "pending"
        BY <3>5 DEF SafetyInv, SubmitInv
      <4>4. QED
        BY <3>4, <3>5, <4>1, <4>2, <4>3 DEF SafetyInv, SecretInv, NeedsContext, CustomAuth, Checked
    <3>8. SubmitInv' /\ ContextInv' /\ ListedInv' /\ SweptInv'
      BY <3>5 DEF SafetyInv, SubmitInv, ContextInv, NeedsContext, ListedInv, SweptInv, Listing
    <3>9. QED
      BY <3>6, <3>7, <3>8 DEF SafetyInv
  <2>5. CASE MalformedCredentials(b)
    <3>1. SystemSecretsInv' /\ SecretInv'
      BY <2>5 DEF SafetyInv, MalformedCredentials, SystemSecretsInv, SecretInv, HoldsSecret,
        NeedsContext, CustomAuth, Checked
    <3>2. SubmitInv' /\ ContextInv'
      BY <2>5 DEF SafetyInv, MalformedCredentials, SubmitInv, ContextInv, NeedsContext
    <3>3. ListedInv' /\ SweptInv'
      BY <2>5 DEF SafetyInv, MalformedCredentials, ListedInv, Listing, SweptInv
    <3>4. QED
      BY <3>1, <3>2, <3>3 DEF SafetyInv
  <2>6. CASE CheckSecret(b, f)
    <3>1. SystemSecretsInv' /\ SecretInv'
      BY <2>6 DEF SafetyInv, CheckSecret, GetReply, SystemSecretsInv, SecretInv,
        HoldsSecret, NeedsContext, CustomAuth, Checked, SecretNames
    <3>2. SubmitInv' /\ ContextInv'
      BY <2>6 DEF SafetyInv, CheckSecret, GetReply, SubmitInv, ContextInv, NeedsContext
    <3>3. ListedInv' /\ SweptInv'
      BY <2>6 DEF SafetyInv, CheckSecret, GetReply, ListedInv, Listing, SweptInv
    <3>4. QED
      BY <3>1, <3>2, <3>3 DEF SafetyInv
  <2>7. CASE Context(b)
    <3>1. SystemSecretsInv' /\ SecretInv'
      BY <2>7 DEF SafetyInv, Context, SystemSecretsInv, SecretInv, HoldsSecret,
        NeedsContext, CustomAuth, Checked
    <3>2. SubmitInv' /\ ContextInv'
      BY <2>7 DEF SafetyInv, Context, SubmitInv, ContextInv, NeedsContext
    <3>3. ListedInv' /\ SweptInv'
      BY <2>7 DEF SafetyInv, Context, ListedInv, Listing, SweptInv
    <3>4. QED
      BY <3>1, <3>2, <3>3 DEF SafetyInv
  <2>8. CASE PostContext(b, f)
    <3>1. SystemSecretsInv' /\ SecretInv'
      BY <2>8 DEF SafetyInv, PostContext, PostEffect, PostReply, Absent, NoFault,
        SystemSecretsInv, SecretInv, HoldsSecret, NeedsContext, CustomAuth, Checked
    <3>2. SubmitInv' /\ ContextInv'
      BY <2>8 DEF SafetyInv, PostContext, PostEffect, PostReply, Absent, NoFault, SubmitInv,
        ContextInv, NeedsContext
    <3>3. ListedInv' /\ SweptInv'
      BY <2>8 DEF SafetyInv, PostContext, PostEffect, PostReply, Absent, NoFault, ListedInv,
        Listing, SweptInv
    <3>4. QED
      BY <3>1, <3>2, <3>3 DEF SafetyInv
  <2>9. CASE SubmitJob(b, f)
    <3>1. SystemSecretsInv' /\ SecretInv'
      BY <2>9 DEF SafetyInv, SubmitJob, PostEffect, PostReply, Absent, NoFault,
        SystemSecretsInv, SecretInv, HoldsSecret, NeedsContext, CustomAuth, Checked
    <3>2. SubmitInv' /\ ContextInv'
      BY <2>9 DEF SafetyInv, SubmitJob, PostEffect, PostReply, Absent, NoFault, SubmitInv,
        ContextInv, NeedsContext
    <3>3. ListedInv' /\ SweptInv'
      BY <2>9 DEF SafetyInv, SubmitJob, PostEffect, PostReply, Absent, NoFault, ListedInv,
        Listing, SweptInv
    <3>4. QED
      BY <3>1, <3>2, <3>3 DEF SafetyInv
  <2>10. CASE WaitPod(b) \/ ListPods(b, f) \/ WaitInit(b, f)
    <3>1. SystemSecretsInv' /\ SecretInv'
      BY <2>10 DEF SafetyInv, WaitPod, ListPods, WaitInit, SystemSecretsInv, SecretInv,
        HoldsSecret, NeedsContext, CustomAuth, Checked
    <3>2. SubmitInv' /\ ContextInv'
      BY <2>10 DEF SafetyInv, WaitPod, ListPods, WaitInit, SubmitInv, ContextInv,
        NeedsContext
    <3>3. ListedInv' /\ SweptInv'
      BY <2>10 DEF SafetyInv, WaitPod, ListPods, WaitInit, ListedInv, Listing, SweptInv
    <3>4. QED
      BY <3>1, <3>2, <3>3 DEF SafetyInv
  <2>11. CASE DelContext(b, f)
    <3>1. SystemSecretsInv' /\ SecretInv'
      BY <2>11 DEF SafetyInv, DelContext, DeleteEffect, SystemSecretsInv, SecretInv,
        HoldsSecret, NeedsContext, CustomAuth, Checked
    <3>2. SubmitInv' /\ ContextInv'
      BY <2>11 DEF SafetyInv, DelContext, DeleteEffect, SubmitInv, ContextInv, NeedsContext
    <3>3. ListedInv' /\ SweptInv'
      BY <2>11 DEF SafetyInv, DelContext, DeleteEffect, ListedInv, Listing, SweptInv
    <3>4. QED
      BY <3>1, <3>2, <3>3 DEF SafetyInv
  <2>12. CASE DelSecret(b, f)
    <3>1. /\ pc[b] = "delsecret" /\ pc' = [pc EXCEPT ![b] = "done"]
          /\ UNCHANGED <<configMaps, jobs, pods, aged, outcome, regAuth, listed, swept>>
      BY <2>12 DEF DelSecret
    <3>2. /\ CustomAuth(b) /\ secrets[regAuth[b]] = b /\ ~NeedsContext(b)
          /\ \A n \in SecretNames : n # regAuth[b] => secrets'[n] = secrets[n]
      BY <2>12 DEF DelSecret, DeleteEffect, SafetyInv, SecretInv, HoldsSecret, ContextInv, Checked
    <3>3. SystemSecretsInv'
      BY <3>2, SecretNamesAssumption, SMTT(20)
      DEF SafetyInv, SystemSecretsInv, CustomAuth, SecretNames
    <3>4. SecretInv'
      <4>1. \A c \in Builds : c # b /\ HoldsSecret(c) => HoldsSecret(c)'
        BY <3>1, <3>2, BuildsAssumption DEF HoldsSecret, CustomAuth
      <4>2. QED
        BY <3>1, <3>2, <4>1 DEF SafetyInv, SecretInv, NeedsContext, CustomAuth, Checked
    <3>5. SubmitInv' /\ ContextInv' /\ ListedInv' /\ SweptInv'
      BY <3>1 DEF SafetyInv, SubmitInv, ContextInv, NeedsContext, ListedInv, SweptInv, Listing
    <3>6. QED
      BY <3>3, <3>4, <3>5 DEF SafetyInv
  <2>13. QED
    BY <1>3, <2>1, <2>2, <2>3, <2>4, <2>5, <2>6, <2>7, <2>8, <2>9, <2>10, <2>11, <2>12 DEF BuildStep
<1>4. ASSUME NEW b \in Builds, Tick(b) PROVE SafetyInv'
  <2>1. SystemSecretsInv' /\ SecretInv'
    BY <1>4 DEF SafetyInv, Tick, clusterVars, SystemSecretsInv, SecretInv, HoldsSecret,
      NeedsContext, CustomAuth, Checked
  <2>2. SubmitInv' /\ ContextInv'
    BY <1>4 DEF SafetyInv, Tick, clusterVars, SubmitInv, ContextInv, NeedsContext
  <2>3. ListedInv' /\ SweptInv'
    BY <1>4 DEF SafetyInv, Tick, clusterVars, ListedInv, Listing, SweptInv
  <2>4. QED
    BY <2>1, <2>2, <2>3 DEF SafetyInv
<1>5. ASSUME NEW b \in Builds, ClusterStep(b), UNCHANGED serviceVars PROVE SafetyInv'
  <2>1. /\ UNCHANGED <<configMaps, secrets, pc, outcome, regAuth, listed, swept>>
        /\ aged \subseteq aged'
    BY <1>5 DEF ClusterStep, serviceVars, CreatePod, StartPod, InitExit, FinishJob, LosePod, Age
  <2>2. \A c \in Builds :
          /\ jobs'[c] = jobs[c] \/ (jobs[c] = "active" /\ jobs'[c] \in {"complete", "failed"})
          /\ jobs'[c] = "active" /\ pods[c] \in Terminated => pods'[c] \in Terminated
    <3>1. CASE CreatePod(b) \/ Age(b)
      BY <3>1 DEF CreatePod, Age, Terminated, Absent
    <3>2. CASE InitExit(b) \/ StartPod(b, regAuth[b])
      BY <3>2 DEF InitExit, StartPod, Terminated
    <3>3. CASE FinishJob(b)
      BY <3>3 DEF FinishJob
    <3>4. CASE LosePod(b)
      BY <3>4 DEF LosePod
    <3>5. QED
      BY <1>5, <3>1, <3>2, <3>3, <3>4 DEF ClusterStep
  <2>3. \A c \in Builds : NeedsContext(c)' => NeedsContext(c)
    BY <2>1, <2>2 DEF NeedsContext
  <2>4. SystemSecretsInv' /\ SecretInv'
    BY <2>1, <2>3 DEF SafetyInv, SystemSecretsInv, SecretInv, HoldsSecret, CustomAuth, Checked
  <2>5. SubmitInv' /\ ContextInv'
    BY <2>1, <2>2, <2>3 DEF SafetyInv, SubmitInv, ContextInv, Absent
  <2>6. ListedInv' /\ SweptInv'
    <3>1. \A r \in Requests : \A x \in listed[r] : x.job \in Builds
      BY DEF Listing
    <3>2. \A r \in Requests : \A c \in swept[r] : c \in Builds
      OBVIOUS
    <3> HIDE <1>0
    <3>3. ListedInv'
      BY <2>1, <2>2, <3>1 DEF SafetyInv, ListedInv, Absent
    <3>4. SweptInv'
      BY <2>1, <2>2, <3>2 DEF SafetyInv, SweptInv, Absent
    <3>5. QED
      BY <3>3, <3>4
  <2>7. QED
    BY <1>0, <2>4, <2>5, <2>6 DEF SafetyInv
<1>6. CASE Restart
  <2>1. SystemSecretsInv' /\ SecretInv'
    BY <1>6 DEF SafetyInv, Restart, clusterVars, Running, SystemSecretsInv, SecretInv,
      HoldsSecret, NeedsContext, CustomAuth, Checked
  <2>2. SubmitInv' /\ ContextInv'
    BY <1>6 DEF SafetyInv, Restart, clusterVars, Running, SubmitInv, ContextInv,
      NeedsContext
  <2>3. ListedInv' /\ SweptInv'
    BY <1>6 DEF SafetyInv, Restart, clusterVars, Running, ListedInv, Listing, SweptInv
  <2>4. QED
    BY <2>1, <2>2, <2>3 DEF SafetyInv
<1>7. CASE UNCHANGED vars
  <2>1. SystemSecretsInv' /\ SecretInv'
    BY <1>7 DEF SafetyInv, vars, clusterVars, serviceVars, SystemSecretsInv, SecretInv,
      HoldsSecret, NeedsContext, CustomAuth, Checked
  <2>2. SubmitInv' /\ ContextInv'
    BY <1>7 DEF SafetyInv, vars, clusterVars, serviceVars, SubmitInv, ContextInv,
      NeedsContext
  <2>3. ListedInv' /\ SweptInv'
    BY <1>7 DEF SafetyInv, vars, clusterVars, serviceVars, ListedInv, Listing, SweptInv
  <2>4. QED
    BY <2>1, <2>2, <2>3 DEF SafetyInv
<1>8. QED
  BY <1>1, <1>2, <1>3, <1>4, <1>5, <1>6, <1>7 DEF Next, Step

\* The strengthened invariant the safety results below follow from.
THEOREM Safety == Spec => []SafetyInv
  BY SafetyInit, SafetyStep, PTL DEF Spec

\* However requests interleave, whichever calls fail or lose their answer and
\* whenever the process is killed, the ConfigMap and the Secret of an accepted
\* build exist until its init container has ended.
THEOREM ContextKept == Spec => []ContextKeptUntilCopied
<1>1. SafetyInv => ContextKeptUntilCopied
  BY BuildsAssumption
  DEF SafetyInv, ContextKeptUntilCopied, ContextInv, SecretInv, HoldsSecret, SecretThere, Absent,
      System
<1>2. QED
  BY <1>1, Safety, PTL

-----------------------------------------------------------------------------

\* Steps other than a sweep's deletions and the cluster's leave no job absent
\* that was not.
LEMMA JobsKept ==
  ASSUME SafetyInv, [Next]_vars,
         NEW b \in Builds, jobs[b] # Absent, jobs'[b] = Absent
  PROVE  \E r \in Requests, f \in CallOutcomes : SweepDelete(r, f)
<1> USE DEF clusterVars, serviceVars, SafetyInv, TypeOK, ClusterTypeOK
<1>1. ASSUME NEW c \in Builds, ClusterStep(c) PROVE FALSE
  BY <1>1 DEF ClusterStep, CreatePod, StartPod, InitExit, FinishJob, LosePod, Age, Absent
<1>2. ASSUME NEW c \in Builds, NEW f \in CallOutcomes, BuildStep(c, f) PROVE FALSE
  <2>1. CASE SubmitJob(c, f)
    BY <2>1 DEF SubmitJob, PostEffect, Absent
  <2>2. CASE ~SubmitJob(c, f)
    BY <1>2, <2>2
    DEF BuildStep, GetConf, PostConf, UseExistingSecret, CreateRegistrySecret,
        MalformedCredentials, CheckSecret, Context, PostContext, WaitPod, ListPods, WaitInit,
        DelContext, DelSecret
  <2>3. QED
    BY <2>1, <2>2
<1>3. ASSUME NEW r \in Requests, NEW f \in CallOutcomes, SweepStep(r, f)
      PROVE  SweepDelete(r, f)
  BY <1>3 DEF SweepStep, ListJobs, SweepAbort, SweepSkip, SweepEnd
<1>4. ~(\E r \in Requests : Receive(r) \/ Refuse(r)) /\ ~(\E c \in Builds : Tick(c)) /\ ~Restart
      /\ ~UNCHANGED vars
  BY DEF Receive, Refuse, Tick, Restart, vars
<1>5. QED
  BY <1>1, <1>2, <1>3, <1>4 DEF Next, Step

\* No interleaving of sweeps with builds and other sweeps makes a request
\* delete a job that is running, too young or another user's.
THEOREM SweepSafe == Spec => SweepRespectsAge
<1>1. SafetyInv /\ [Next]_vars => [OnlyOldJobsGo]_vars
  <2> SUFFICES ASSUME SafetyInv, [Next]_vars,
                      NEW b \in Builds, jobs[b] # Absent, jobs'[b] = Absent
               PROVE  /\ jobs[b] # "active"
                      /\ \E r \in Requests : pc[r] = "sweep" /\ Owner[r] = Owner[b]
                                             /\ (b \in aged \/ r \in Impatient)
    BY DEF OnlyOldJobsGo
  <2>1. PICK r \in Requests, f \in CallOutcomes : SweepDelete(r, f)
    BY JobsKept
  <2>2. PICK x \in listed[r] : Deletable(x) /\ jobs' = DeleteEffect(jobs, x.job, f)
    BY <2>1 DEF SweepDelete
  <2>3. x.job = b
    BY <2>2 DEF DeleteEffect, SafetyInv, TypeOK, ClusterTypeOK
  <2>4. QED
    BY <2>1, <2>2, <2>3 DEF SafetyInv, ListedInv, Deletable, SweepDelete
<1>2. QED
  BY <1>1, Safety, PTL DEF Spec, SweepRespectsAge

\* A secret outlives every request but the build that created it, whatever
\* names builds draw and whichever of their calls fail.
THEOREM SecretsSafe == Spec => SecretsDeletedByCreator
<1>1. SafetyInv /\ [Next]_vars => [OnlyOwnSecretsGo]_vars
  <2> SUFFICES ASSUME SafetyInv, [Next]_vars,
                      NEW n \in SecretNames, secrets[n] # Absent, secrets'[n] # secrets[n]
               PROVE  \E b \in Builds : secrets[n] = b /\ pc[b] = "delsecret" /\ regAuth[b] = n
    BY DEF OnlyOwnSecretsGo
  <2> USE DEF clusterVars, serviceVars
  <2>1. ASSUME NEW b \in Builds, NEW f \in CallOutcomes, CreateRegistrySecret(b, f) PROVE FALSE
    <3>1. PICK p \in RandomParts : secrets' = PostEffect(secrets, <<Owner[b], p>>, b, f)
      BY <2>1 DEF CreateRegistrySecret
    <3>2. QED
      BY <3>1 DEF PostEffect, SafetyInv, TypeOK, ClusterTypeOK
  <2>2. ASSUME NEW b \in Builds, NEW f \in CallOutcomes, DelSecret(b, f)
        PROVE  secrets[n] = b /\ pc[b] = "delsecret" /\ regAuth[b] = n
    BY <2>2
    DEF DelSecret, DeleteEffect, SafetyInv, TypeOK, ClusterTypeOK, SecretInv, HoldsSecret, Checked
  <2>3. ASSUME NEW b \in Builds, NEW f \in CallOutcomes, BuildStep(b, f)
        PROVE  CreateRegistrySecret(b, f) \/ DelSecret(b, f)
    BY <2>3
    DEF BuildStep, GetConf, PostConf, UseExistingSecret, MalformedCredentials, CheckSecret,
        Context, PostContext, SubmitJob, WaitPod, ListPods, WaitInit, DelContext
  <2>4. ASSUME NEW r \in Requests, NEW f \in CallOutcomes, SweepStep(r, f) PROVE FALSE
    BY <2>4 DEF SweepStep, ListJobs, SweepAbort, SweepSkip, SweepDelete, SweepEnd
  <2>5. ASSUME NEW b \in Builds, ClusterStep(b) PROVE FALSE
    BY <2>5 DEF ClusterStep, CreatePod, StartPod, InitExit, FinishJob, LosePod, Age
  <2>6. ~(\E r \in Requests : Receive(r) \/ Refuse(r)) /\ ~(\E b \in Builds : Tick(b)) /\ ~Restart
        /\ ~UNCHANGED vars
    BY DEF Receive, Refuse, Tick, Restart, vars
  <2>7. QED
    BY <2>1, <2>2, <2>3, <2>4, <2>5, <2>6 DEF Next, Step
<1>2. QED
  BY <1>1, Safety, PTL DEF Spec, SecretsDeletedByCreator

\* Two sweeps that listed the same old job never both count it, and what a
\* sweep counted stays gone, given that the API server carries out a DELETE at
\* once and answers the second one with a 404.
THEOREM SweepCounts == Spec => []CountedOnce
<1> DEFINE Disjoint == \A r, q \in Requests : r # q => swept[r] \cap swept[q] = {}
<1>1. Init => Disjoint
  BY DEF Init
<1>2. SafetyInv /\ Disjoint /\ [Next]_vars => Disjoint'
  <2> SUFFICES ASSUME SafetyInv, Disjoint, [Next]_vars PROVE Disjoint'
    OBVIOUS
  <2> USE DEF clusterVars, serviceVars
  <2>1. ASSUME NEW r \in Requests, NEW f \in CallOutcomes, SweepDelete(r, f) PROVE Disjoint'
    <3>1. PICK x \in listed[r] :
            swept' = [swept EXCEPT ![r] =
                        IF DeleteReply(jobs, x.job, f) THEN @ \cup {x.job} ELSE @]
      BY <2>1 DEF SweepDelete
    <3>2. DeleteReply(jobs, x.job, f) => \A q \in Requests : x.job \notin swept[q]
      BY DEF DeleteReply, SafetyInv, SweptInv
    <3>3. QED
      BY <3>1, <3>2 DEF SafetyInv, TypeOK
  <2>2. CASE swept' = swept
    BY <2>2
  <2>3. ASSUME NEW r \in Requests, NEW f \in CallOutcomes, SweepStep(r, f)
        PROVE  SweepDelete(r, f) \/ swept' = swept
    BY <2>3 DEF SweepStep, ListJobs, SweepAbort, SweepSkip, SweepEnd
  <2>4. ASSUME NEW b \in Builds, NEW f \in CallOutcomes, BuildStep(b, f) PROVE swept' = swept
    BY <2>4
    DEF BuildStep, GetConf, PostConf, UseExistingSecret, CreateRegistrySecret,
        MalformedCredentials, CheckSecret, Context, PostContext, SubmitJob, WaitPod, ListPods,
        WaitInit, DelContext, DelSecret
  <2>5. QED
    BY <2>1, <2>2, <2>3, <2>4 DEF Next, Step, Receive, Refuse, Tick, Restart, vars
<1>3. SafetyInv /\ Disjoint => CountedOnce
  BY DEF SafetyInv, SweptInv, CountedOnce
<1>4. QED
  BY <1>1, <1>2, <1>3, Safety, PTL DEF Spec
=============================================================================
