--------------------------- MODULE BuildLeftovers ---------------------------
(***************************************************************************)
(* Proofs that a build whose own calls got through submits its job only    *)
(* with the buildkitd configuration in place and leaves nothing behind     *)
(* without a cause, whatever the other requests, the cluster and the       *)
(* faults of others do.                                                    *)
(***************************************************************************)
EXTENDS BuildProofs

\* Past BuildService.init the configuration is there.
ConfOf(b) ==
  pc[b] \in {"auth", "check", "list", "sweep", "context", "postcm", "postjob"}
    \/ jobs[b] # Absent
  => configMaps[BuildkitdConf] # Absent

Early(b) == outcome[b] \in {"failed", "crashed"}

\* The wait ran out of time, or its pod went for good: unlike
\* pods[b] = Absent alone, this is never undone.
GaveUp(b) == left[b] = 0 \/ (pods[b] = Absent /\ jobs[b] # "active")

\* What b may have left behind, by where in build() it is.
LeftOf(b) ==
  /\ pc[b] \in PreSubmit \ {"postjob"} => configMaps[b] = Absent
  /\ pc[b] = "idle" => ~CustomAuth(b)
  /\ pc[b] \in Waiting \cup {"delcm", "delsecret"} => outcome[b] = "accepted"
  /\ pc[b] = "waitinit" /\ pods[b] = Absent => jobs[b] # "active"
  /\ pc[b] = "delsecret" => configMaps[b] = Absent
  /\ pc[b] = "done" =>
       /\ configMaps[b] # Absent => GaveUp(b) /\ ~Early(b)
       /\ CustomAuth(b) /\ secrets[regAuth[b]] = b => Early(b) \/ GaveUp(b)
  /\ b \in tmpdirs => pc[b] = "postcm" \/ (pc[b] = "done" /\ Early(b))

ThroughOf(b) == ConfOf(b) /\ LeftOf(b)

ThroughInv == \A b \in Builds \ hit : ThroughOf(b)

\* What a step of anything but the thread of b leaves as it is for b.
OthersStep(b) ==
  /\ pc'[b] = pc[b] \/ pc'[b] = "dead"
  /\ outcome'[b] = outcome[b] /\ regAuth'[b] = regAuth[b]
  /\ left'[b] = left[b] \/ pc[b] \in Waiting
  /\ b \in tmpdirs' => b \in tmpdirs /\ pc'[b] = pc[b]
  /\ configMaps'[b] = configMaps[b]
  /\ configMaps[BuildkitdConf] # Absent => configMaps'[BuildkitdConf] # Absent
  /\ \A n \in SecretNames : secrets'[n] = b => secrets[n] = b
  /\ jobs'[b] # Absent => jobs[b] # Absent
  /\ jobs'[b] = "active" => jobs[b] = "active" /\ (pods'[b] = Absent => pods[b] = Absent)
  /\ jobs[b] # "active" /\ pods[b] = Absent => pods'[b] = Absent

-----------------------------------------------------------------------------

\* A step that is not b's own is one that leaves b's things alone.
LEMMA OthersLeaveAlone ==
  ASSUME TypeOK, [Next]_vars, NEW b \in Builds,
         ~Receive(b), ~Refuse(b), \A f \in CallOutcomes : ~Step(b, f)
  PROVE  OthersStep(b)
<1> USE DEF TypeOK, ClusterTypeOK, Requests, clusterVars, Goto, Decide, End, OthersStep, Waiting
<1>1. ASSUME NEW r \in Requests, Receive(r) \/ Refuse(r) PROVE OthersStep(b)
  BY <1>1 DEF Receive, Refuse
<1>2. ASSUME NEW r \in Requests \ {b}, NEW f \in CallOutcomes, SweepStep(r, f)
      PROVE  OthersStep(b)
  <2> USE DEF AfterSweep
  <2>1. CASE SweepDelete(r, f)
    <3>1. PICK x \in listed[r] : jobs' = DeleteEffect(jobs, x.job, f)
      BY <2>1 DEF SweepDelete
    <3>2. jobs'[b] = jobs[b] \/ jobs'[b] = Absent
      BY <3>1 DEF DeleteEffect
    <3>3. /\ pc'[b] = pc[b] /\ outcome'[b] = outcome[b] /\ regAuth'[b] = regAuth[b]
          /\ left'[b] = left[b] /\ tmpdirs' = tmpdirs
          /\ configMaps' = configMaps /\ secrets' = secrets /\ pods' = pods
      BY <2>1 DEF SweepDelete
    <3>4. QED
      BY <3>2, <3>3 DEF Absent
  <2>2. CASE ListJobs(r, f)
    BY <2>2 DEF ListJobs
  <2>3. CASE SweepAbort(r) \/ SweepSkip(r) \/ SweepEnd(r)
    BY <2>3 DEF SweepAbort, SweepSkip, SweepEnd
  <2>4. QED
    BY <1>2, <2>1, <2>2, <2>3 DEF SweepStep
<1>3. ASSUME NEW r \in Builds \ {b}, NEW f \in CallOutcomes, BuildStep(r, f)
      PROVE  OthersStep(b)
  <2>1. CASE PostConf(r, f)
    BY <2>1, BuildsAssumption DEF PostConf, PostEffect, Absent
  <2>2. CASE CreateRegistrySecret(r, f)
    <3>1. \A n \in SecretNames : secrets'[n] = secrets[n] \/ secrets'[n] = r
      <4>1. PICK p \in RandomParts : secrets' = PostEffect(secrets, <<Owner[r], p>>, r, f)
        BY <2>2 DEF CreateRegistrySecret
      <4>2. QED
        BY <4>1 DEF PostEffect
    <3>2. regAuth'[b] = regAuth[b]
      BY <2>2 DEF CreateRegistrySecret
    <3>3. QED
      BY <2>2, <3>1, <3>2 DEF CreateRegistrySecret
  <2>3. CASE PostContext(r, f)
    BY <2>3, BuildsAssumption DEF PostContext, PostEffect
  <2>4. CASE SubmitJob(r, f)
    BY <2>4 DEF SubmitJob, PostEffect
  <2>5. CASE DelContext(r, f)
    BY <2>5, BuildsAssumption DEF DelContext, DeleteEffect
  <2>6. CASE DelSecret(r, f)
    BY <2>6, BuildsAssumption DEF DelSecret, DeleteEffect
  <2>7. CASE GetConf(r, f) \/ UseExistingSecret(r) \/ MalformedCredentials(r)
             \/ CheckSecret(r, f) \/ Context(r)
    BY <2>7 DEF GetConf, UseExistingSecret, MalformedCredentials, CheckSecret, Context
  <2>8. CASE WaitPod(r) \/ ListPods(r, f) \/ WaitInit(r, f)
    BY <2>8 DEF WaitPod, ListPods, WaitInit
  <2>9. QED
    BY <1>3, <2>1, <2>2, <2>3, <2>4, <2>5, <2>6, <2>7, <2>8 DEF BuildStep
<1>4. ASSUME NEW c \in Builds, Tick(c) PROVE OthersStep(b)
  BY <1>4 DEF Tick
<1>5. ASSUME NEW c \in Builds, ClusterStep(c), UNCHANGED serviceVars PROVE OthersStep(b)
  BY <1>5
  DEF ClusterStep, serviceVars, CreatePod, StartPod, InitExit, FinishJob, LosePod, Age, Absent,
      Terminated
<1>6. CASE Restart
  BY <1>6 DEF Restart
<1>7. CASE UNCHANGED vars
  BY <1>7 DEF vars, serviceVars
<1>8. QED
  BY <1>1, <1>2, <1>3, <1>4, <1>5, <1>6, <1>7 DEF Next, Step

\* So what holds of b holds after it.
LEMMA OthersKeep ==
  ASSUME TypeOK, TypeOK', NEW b \in Builds, ThroughOf(b), OthersStep(b)
  PROVE  ThroughOf(b)'
<1> USE DEF OthersStep, ThroughOf
<1>1. ConfOf(b)'
  BY DEF ConfOf
<1>2. CustomAuth(b)' <=> CustomAuth(b)
  BY DEF CustomAuth
<1>3. CustomAuth(b) /\ secrets'[regAuth[b]] = b => secrets[regAuth[b]] = b
  BY DEF CustomAuth, SecretNames
<1>4. pc[b] = "done" /\ GaveUp(b) => GaveUp(b)'
  BY DEF GaveUp, Waiting
<1>5. Early(b)' <=> Early(b)
  BY DEF Early
<1>6. LeftOf(b)'
  BY <1>2, <1>3, <1>4, <1>5 DEF LeftOf, PreSubmit, Waiting
<1>7. QED
  BY <1>1, <1>6

\* The thread of b, its calls getting through, up to the submission.
LEMMA OwnStepsBefore ==
  ASSUME SafetyInv, NEW b \in Builds, ThroughOf(b),
         \/ Receive(b) \/ Refuse(b) \/ SweepStep(b, NoFault)
         \/ GetConf(b, NoFault) \/ PostConf(b, NoFault)
         \/ UseExistingSecret(b) \/ CreateRegistrySecret(b, NoFault) \/ MalformedCredentials(b)
         \/ CheckSecret(b, NoFault) \/ Context(b) \/ PostContext(b, NoFault)
  PROVE  ThroughOf(b)'
<1> USE DEF SafetyInv, SubmitInv, TypeOK, ClusterTypeOK, Requests, clusterVars,
            Goto, Decide, End, ThroughOf, ConfOf, LeftOf, Early, GaveUp, PreSubmit, Waiting
<1>1. CASE Receive(b) \/ Refuse(b)
  BY <1>1 DEF Receive, Refuse, CustomAuth
<1>2. CASE SweepStep(b, NoFault)
  <2>1. /\ pc[b] \in {"list", "sweep"} /\ pc'[b] \in {"sweep", "context"}
        /\ UNCHANGED <<configMaps, tmpdirs>>
    BY <1>2 DEF SweepStep, ListJobs, SweepAbort, SweepSkip, SweepDelete, SweepEnd, AfterSweep
  <2>2. QED
    BY <2>1
<1>3. CASE GetConf(b, NoFault)
  BY <1>3 DEF GetConf, GetReply
<1>4. CASE PostConf(b, NoFault)
  BY <1>4, BuildsAssumption DEF PostConf, PostEffect, NoFault, Absent
<1>5. CASE UseExistingSecret(b) \/ CheckSecret(b, NoFault)
  BY <1>5 DEF UseExistingSecret, CheckSecret
<1>6. CASE CreateRegistrySecret(b, NoFault)
  BY <1>6 DEF CreateRegistrySecret
<1>7. CASE MalformedCredentials(b) \/ Context(b)
  BY <1>7 DEF MalformedCredentials, Context
<1>8. CASE PostContext(b, NoFault)
  BY <1>8, BuildsAssumption DEF PostContext, PostEffect, PostReply, NoFault, Absent
<1>9. QED
  BY <1>1, <1>2, <1>3, <1>4, <1>5, <1>6, <1>7, <1>8

\* The submission, the wait and the clean-up.
LEMMA OwnStepsAfter ==
  ASSUME SafetyInv, NEW b \in Builds, ThroughOf(b),
         \/ SubmitJob(b, NoFault) \/ WaitPod(b) \/ ListPods(b, NoFault) \/ WaitInit(b, NoFault)
         \/ DelContext(b, NoFault) \/ DelSecret(b, NoFault)
  PROVE  ThroughOf(b)'
<1> USE DEF SafetyInv, SubmitInv, TypeOK, ClusterTypeOK, Requests, clusterVars,
            Goto, Decide, End, ThroughOf, ConfOf, LeftOf, Early, GaveUp, PreSubmit, Waiting
<1>1. CASE SubmitJob(b, NoFault)
  BY <1>1 DEF SubmitJob, PostEffect, PostReply, NoFault
<1>2. CASE WaitPod(b)
  <2>1. left[b] > 0 \/ left[b] = 0
    BY BoundsAssumption
  <2>2. QED
    BY <1>2, <2>1 DEF WaitPod, CustomAuth
<1>3. CASE ListPods(b, NoFault)
  BY <1>3 DEF ListPods, GetReply
<1>4. CASE WaitInit(b, NoFault)
  BY <1>4 DEF WaitInit, GetReply, CustomAuth
<1>5. CASE DelContext(b, NoFault)
  BY <1>5, BuildsAssumption DEF DelContext, DeleteEffect, NoFault, CustomAuth
<1>6. CASE DelSecret(b, NoFault)
  <2>1. CustomAuth(b) /\ regAuth[b] \in SecretNames
    BY <1>6 DEF DelSecret, SecretInv, CustomAuth, SecretNames
  <2>2. secrets'[regAuth[b]] # b
    BY <1>6, <2>1, BuildsAssumption DEF DelSecret, DeleteEffect, NoFault
  <2>3. QED
    BY <1>6, <2>2 DEF DelSecret
<1>7. QED
  BY <1>1, <1>2, <1>3, <1>4, <1>5, <1>6

-----------------------------------------------------------------------------

LEMMA ThroughInit == Init => ThroughInv
<1> SUFFICES ASSUME Init, NEW b \in Builds PROVE ThroughOf(b)
  BY DEF ThroughInv
<1>1. CustomAuth(b) => FALSE
  BY DEF Init, CustomAuth, NoAuth, RandomSecrets
<1>2. QED
  BY <1>1, BuildsAssumption
  DEF Init, ClusterInit, ThroughOf, ConfOf, LeftOf, PreSubmit, Waiting, Requests

LEMMA ThroughStep == SafetyInv /\ ThroughInv /\ [Next]_vars => ThroughInv'
<1> SUFFICES ASSUME SafetyInv, ThroughInv, [Next]_vars, NEW b \in Builds \ hit'
             PROVE  ThroughOf(b)'
  BY DEF ThroughInv
<1>1. TypeOK /\ TypeOK'
  BY TypeStep DEF SafetyInv
<1>2. b \notin hit
  BY DEF Next, Receive, Refuse, Step, Tick, Restart, vars, serviceVars
<1>3. ThroughOf(b)
  BY <1>2 DEF ThroughInv
<1>4. ASSUME NEW f \in CallOutcomes, Step(b, f)
      PROVE  f = NoFault /\ (SweepStep(b, NoFault) \/ BuildStep(b, NoFault))
  BY <1>4 DEF Step
<1>5. CASE \E f \in CallOutcomes : Step(b, f)
  BY <1>3, <1>4, <1>5, OwnStepsBefore, OwnStepsAfter DEF BuildStep
<1>6. CASE Receive(b) \/ Refuse(b)
  BY <1>3, <1>6, OwnStepsBefore
<1>7. CASE ~Receive(b) /\ ~Refuse(b) /\ \A f \in CallOutcomes : ~Step(b, f)
  BY <1>1, <1>3, <1>7, OthersLeaveAlone, OthersKeep
<1>8. QED
  BY <1>5, <1>6, <1>7

\* The invariant behind the two results below.
THEOREM Through == Spec => []ThroughInv
  BY ThroughInit, ThroughStep, Safety, PTL DEF Spec

\* However first builds race to create the buildkitd ConfigMap, the job of one
\* whose calls got through finds it.
THEOREM ConfSafe == Spec => []ConfBeforeJob
<1>1. ThroughInv => ConfBeforeJob
  BY DEF ThroughInv, ThroughOf, ConfOf, ConfBeforeJob
<1>2. QED
  BY <1>1, Through, PTL

\* A build whose calls got through leaves its ConfigMap, its secret or its
\* directory behind only for the causes the property names.
THEOREM LeftoverSafe == Spec => []LeftoverNeedsCause
<1>1. ThroughInv => LeftoverNeedsCause
  BY DEF ThroughInv, ThroughOf, LeftOf, GaveUp, Early, LeftoverNeedsCause
<1>2. QED
  BY <1>1, Through, PTL
=============================================================================
