------------------------- MODULE BuildPromiseProofs -------------------------
(***************************************************************************)
(* BuildService implements BuildPromise, for every set of builds, users,   *)
(* clean-ups and faults.                                                   *)
(***************************************************************************)
EXTENDS BuildProofs

\* The state of the promise.
stages == [b \in Builds |-> StageOf(b)]
verdicts == [b \in Builds |-> VerdictOn(b)]
contexts == {b \in Builds : configMaps[b] # Absent}

\* A request that waits or cleans up has decided what it will answer.
DecidedInv ==
  \A b \in Builds : pc[b] \in Waiting \cup {"delcm", "delsecret"} => outcome[b] # "pending"

\* No pod of a build is there before its job.
UnstartedInv ==
  \A b \in Builds : pc[b] \in PreSubmit => pods[b] = Absent

PromiseInv == SafetyInv /\ DecidedInv /\ UnstartedInv

\* What a step of one request, or of one build's job, leaves of the other builds.
LeavesOthers(b) ==
  \A c \in Builds \ {b} :
    /\ pc'[c] = pc[c] /\ outcome'[c] = outcome[c]
    /\ jobs'[c] = jobs[c] /\ pods'[c] = pods[c] /\ configMaps'[c] = configMaps[c]

\* The promise changes in one place.
LEMMA OnePlace ==
  ASSUME NEW b \in Builds, LeavesOthers(b)
  PROVE  /\ stages' = [stages EXCEPT ![b] = StageOf(b)']
         /\ verdicts' = [verdicts EXCEPT ![b] = VerdictOn(b)']
         /\ contexts' = IF configMaps'[b] = Absent THEN contexts \ {b} ELSE contexts \cup {b}
<1>1. \A c \in Builds \ {b} :
        /\ StageOf(c)' = StageOf(c) /\ VerdictOn(c)' = VerdictOn(c)
        /\ configMaps'[c] = configMaps[c]
  BY DEF LeavesOthers, StageOf, VerdictOn
<1>2. stages' = [stages EXCEPT ![b] = StageOf(b)']
  BY <1>1 DEF stages
<1>3. verdicts' = [verdicts EXCEPT ![b] = VerdictOn(b)']
  BY <1>1 DEF verdicts
<1>4. contexts' = IF configMaps'[b] = Absent THEN contexts \ {b} ELSE contexts \cup {b}
  BY <1>1 DEF contexts
<1> QED BY <1>2, <1>3, <1>4

\* Nothing of the promise changes.
Stutters == UNCHANGED <<stages, verdicts, contexts>>

LEMMA SameEverywhere ==
  ASSUME \A b \in Builds :
           /\ StageOf(b)' = StageOf(b) /\ VerdictOn(b)' = VerdictOn(b)
           /\ (configMaps'[b] = Absent) = (configMaps[b] = Absent)
  PROVE  Stutters
<1>1. stages' = stages
  BY DEF stages
<1>2. verdicts' = verdicts
  BY DEF verdicts
<1>3. contexts' = contexts
  BY DEF contexts
<1> QED BY <1>1, <1>2, <1>3 DEF Stutters

Fulfils == Stutters \/ Promise!Next

\* A step that keeps what the promise says of b, and leaves the others alone.
LEMMA QuietFor ==
  ASSUME NEW b \in Builds, LeavesOthers(b),
         StageOf(b)' = StageOf(b), VerdictOn(b)' = VerdictOn(b),
         (configMaps'[b] = Absent) = (configMaps[b] = Absent)
  PROVE  Fulfils
<1>1. \A c \in Builds \ {b} :
        /\ StageOf(c)' = StageOf(c) /\ VerdictOn(c)' = VerdictOn(c)
        /\ configMaps'[c] = configMaps[c]
  BY DEF LeavesOthers, StageOf, VerdictOn
<1>2. \A c \in Builds :
        /\ StageOf(c)' = StageOf(c) /\ VerdictOn(c)' = VerdictOn(c)
        /\ (configMaps'[c] = Absent) = (configMaps[c] = Absent)
  BY <1>1
<1> QED BY <1>2, SameEverywhere DEF Fulfils

\* A build that has yet to submit its job is undecided.
LEMMA EarlyIsUndecided ==
  ASSUME SafetyInv, NEW b \in Builds, pc[b] \in PreSubmit
  PROVE  /\ StageOf(b) = "awaited" /\ VerdictOn(b) = "pending"
         /\ jobs[b] = Absent /\ outcome[b] = "pending"
<1>1. jobs[b] = Absent /\ outcome[b] = "pending"
  BY DEF SafetyInv, SubmitInv
<1>2. Absent # "active"
  BY DEF Absent
<1> QED BY <1>1, <1>2 DEF StageOf, VerdictOn

\* Such a build goes on ...
LEMMA GoesOn ==
  ASSUME SafetyInv, NEW b \in Builds, pc[b] \in PreSubmit, LeavesOthers(b),
         pc'[b] \in PreSubmit, outcome'[b] = outcome[b], jobs'[b] = jobs[b],
         configMaps'[b] = configMaps[b]
  PROVE  Fulfils
<1>1. StageOf(b) = "awaited" /\ jobs[b] = Absent
  BY EarlyIsUndecided
<1>2. Absent # "active"
  BY DEF Absent
<1>3. StageOf(b)' = "awaited"
  BY <1>1, <1>2 DEF StageOf
<1>4. VerdictOn(b)' = VerdictOn(b)
  BY DEF VerdictOn
<1> QED BY <1>1, <1>3, <1>4, QuietFor

\* ... or ends without a job.
LEMMA EndsEarly ==
  ASSUME SafetyInv, NEW b \in Builds, pc[b] \in PreSubmit, LeavesOthers(b),
         pc'[b] \in {"done", "delcm"}, outcome'[b] \in {"failed", "crashed", "refused"},
         jobs'[b] = jobs[b],
         configMaps[b] # Absent => configMaps'[b] # Absent
  PROVE  Fulfils
<1>1. StageOf(b) = "awaited" /\ VerdictOn(b) = "pending" /\ jobs[b] = Absent
  BY EarlyIsUndecided
<1>2. Absent # "active" /\ pc'[b] \notin PreSubmit
  BY DEF Absent, PreSubmit
<1>3. StageOf(b)' = "gone" /\ VerdictOn(b)' = "refused"
  BY <1>1, <1>2 DEF StageOf, VerdictOn
<1>4. stages[b] = "awaited" /\ verdicts[b] = "pending"
  BY <1>1 DEF stages, verdicts
<1>5. /\ stages' = [stages EXCEPT ![b] = "gone"]
      /\ verdicts' = [verdicts EXCEPT ![b] = "refused"]
  BY <1>3, OnePlace
<1>6. contexts' \in {contexts, contexts \cup {b}}
  <2>1. CASE configMaps'[b] = Absent
    <3>1. b \notin contexts
      BY <2>1 DEF contexts
    <3> QED BY <2>1, <3>1, OnePlace
  <2>2. CASE configMaps'[b] # Absent
    BY <2>2, OnePlace
  <2> QED BY <2>1, <2>2
<1>7. Promise!Refuse(b)
  BY <1>4, <1>5, <1>6 DEF Promise!Refuse, Promise!Undecided, stages, verdicts, contexts
<1> QED BY <1>7 DEF Fulfils, Promise!Next

-----------------------------------------------------------------------------

\* The invariant the refinement needs.

LEMMA PromiseInvInit == Init => PromiseInv
<1>1. Init => DecidedInv /\ UnstartedInv
  BY DEF Init, ClusterInit, DecidedInv, UnstartedInv, Waiting, Requests
<1> QED BY <1>1, SafetyInit DEF PromiseInv

LEMMA PromiseInvStep == PromiseInv /\ [Next]_vars => PromiseInv'
<1> SUFFICES ASSUME PromiseInv, [Next]_vars PROVE DecidedInv' /\ UnstartedInv'
  BY SafetyStep DEF PromiseInv
<1> USE DEF PromiseInv, SafetyInv, TypeOK, ClusterTypeOK, Requests, PreSubmit, Waiting, Ended,
            Goto, Decide, End, DecidedInv, UnstartedInv, clusterVars, serviceVars
<1>1. ASSUME NEW r \in Requests, Receive(r) \/ Refuse(r) PROVE DecidedInv' /\ UnstartedInv'
  BY <1>1 DEF Receive, Refuse
<1>2. ASSUME NEW r \in Requests, NEW f \in CallOutcomes, SweepStep(r, f)
      PROVE  DecidedInv' /\ UnstartedInv'
  BY <1>2 DEF SweepStep, ListJobs, SweepAbort, SweepSkip, SweepDelete, SweepEnd, AfterSweep
<1>3. ASSUME NEW b \in Builds, NEW f \in CallOutcomes, BuildStep(b, f)
      PROVE  DecidedInv' /\ UnstartedInv'
  <2>1. CASE GetConf(b, f) \/ PostConf(b, f) \/ UseExistingSecret(b) \/ MalformedCredentials(b)
    BY <2>1 DEF GetConf, PostConf, UseExistingSecret, MalformedCredentials
  <2>2. CASE CreateRegistrySecret(b, f) \/ CheckSecret(b, f) \/ Context(b) \/ PostContext(b, f)
    BY <2>2 DEF CreateRegistrySecret, CheckSecret, Context, PostContext
  <2>3. CASE SubmitJob(b, f)
    BY <2>3 DEF SubmitJob
  <2>4. CASE WaitPod(b) \/ ListPods(b, f) \/ WaitInit(b, f)
    BY <2>4 DEF WaitPod, ListPods, WaitInit
  <2>5. CASE DelContext(b, f) \/ DelSecret(b, f)
    BY <2>5 DEF DelContext, DelSecret
  <2> QED BY <1>3, <2>1, <2>2, <2>3, <2>4, <2>5 DEF BuildStep
<1>4. ASSUME NEW b \in Builds, Tick(b) PROVE DecidedInv' /\ UnstartedInv'
  BY <1>4 DEF Tick
<1>5. ASSUME NEW b \in Builds, ClusterStep(b), UNCHANGED serviceVars
      PROVE  DecidedInv' /\ UnstartedInv'
  BY <1>5
  DEF ClusterStep, CreatePod, StartPod, InitExit, FinishJob, LosePod, Age, SubmitInv, Absent
<1>6. CASE Restart
  BY <1>6 DEF Restart, Running
<1>7. CASE UNCHANGED vars
  BY <1>7 DEF vars
<1> QED BY <1>1, <1>2, <1>3, <1>4, <1>5, <1>6, <1>7 DEF Next, Step

\* A build that waits, cleans up or has ended keeps what is promised of it.
LEMMA LateIsQuiet ==
  ASSUME NEW b \in Builds, LeavesOthers(b),
         pc[b] \notin PreSubmit, pc'[b] \notin PreSubmit, outcome'[b] = outcome[b],
         jobs'[b] = jobs[b], pods'[b] = pods[b],
         (configMaps'[b] = Absent) = (configMaps[b] = Absent)
  PROVE  Fulfils
<1>1. StageOf(b)' = StageOf(b) /\ VerdictOn(b)' = VerdictOn(b)
  BY DEF StageOf, VerdictOn
<1> QED BY <1>1, QuietFor

-----------------------------------------------------------------------------
(* Every step fulfils the promise. *)

\* A worker takes a request, or its handler refuses it.
LEMMA ReceiveFulfils ==
  ASSUME PromiseInv, NEW r \in Requests, Receive(r) \/ Refuse(r)
  PROVE  Fulfils
<1> USE DEF PromiseInv, SafetyInv, TypeOK, ClusterTypeOK, Goto, Decide, End, clusterVars
<1>1. CASE r \in Builds
  <2>1. pc[r] \in PreSubmit
    BY DEF Receive, Refuse, PreSubmit
  <2>2. CASE Receive(r)
    BY <1>1, <2>1, <2>2, GoesOn DEF Receive, LeavesOthers, PreSubmit, Requests
  <2>3. CASE Refuse(r)
    BY <1>1, <2>1, <2>3, EndsEarly DEF Refuse, LeavesOthers, Requests
  <2> QED BY <2>2, <2>3
<1>2. CASE r \notin Builds
  <2>1. \A b \in Builds : pc'[b] = pc[b] /\ outcome'[b] = outcome[b]
    BY <1>2 DEF Receive, Refuse, Requests
  <2>2. UNCHANGED <<jobs, pods, configMaps>>
    BY DEF Receive, Refuse
  <2> QED BY <2>1, <2>2, SameEverywhere DEF StageOf, VerdictOn, Fulfils
<1> QED BY <1>1, <1>2

\* The deletion a sweep asks for removes a job that ran to completion.
LEMMA SweepDeleteFulfils ==
  ASSUME PromiseInv, NEW r \in Requests, NEW f \in CallOutcomes, SweepDelete(r, f)
  PROVE  Fulfils
<1>1. PICK x \in listed[r] : Deletable(x) /\ jobs' = DeleteEffect(jobs, x.job, f)
  BY DEF SweepDelete
<1> DEFINE b == x.job
<1>2. b \in Builds /\ jobs[b] \in {"complete", Absent} /\ pc[b] \notin PreSubmit
  BY <1>1 DEF PromiseInv, SafetyInv, TypeOK, ListedInv, Deletable, Listing
<1>3. UNCHANGED <<configMaps, pods, pc, outcome>>
  BY DEF SweepDelete
<1>4. jobs \in [Builds -> JobStates]
  BY DEF PromiseInv, SafetyInv, TypeOK, ClusterTypeOK
<1> HIDE DEF b
<1>5. jobs' = jobs \/ jobs' = [jobs EXCEPT ![b] = Absent]
  BY <1>1 DEF DeleteEffect, b
<1>6. LeavesOthers(b)
  BY <1>3, <1>4, <1>5 DEF LeavesOthers
<1>7. CASE jobs'[b] = jobs[b]
  BY <1>2, <1>3, <1>6, <1>7, LateIsQuiet
<1>8. CASE jobs'[b] # jobs[b]
  <2>1. jobs[b] = "complete" /\ jobs'[b] = Absent
    BY <1>2, <1>4, <1>5, <1>8
  <2>2. StageOf(b) = "complete" /\ StageOf(b)' = "gone" /\ VerdictOn(b)' = VerdictOn(b)
    BY <1>2, <1>3, <2>1 DEF StageOf, VerdictOn, Absent
  <2>3. stages[b] = "complete" /\ stages' = [stages EXCEPT ![b] = "gone"]
    BY <1>2, <1>6, <2>2, OnePlace DEF stages
  <2>4. verdicts' = verdicts /\ contexts' = contexts
    BY <1>3 DEF verdicts, contexts, VerdictOn
  <2>5. Promise!Remove(b)
    BY <2>3, <2>4 DEF Promise!Remove, stages, verdicts, contexts
  <2> QED BY <1>2, <2>5 DEF Fulfils, Promise!Next
<1> QED BY <1>7, <1>8

LEMMA SweepFulfils ==
  ASSUME PromiseInv, NEW r \in Requests, NEW f \in CallOutcomes, SweepStep(r, f)
  PROVE  Fulfils
<1> USE DEF PromiseInv, SafetyInv, TypeOK, ClusterTypeOK, Goto, Decide, End, clusterVars
<1>1. CASE SweepDelete(r, f)
  BY <1>1, SweepDeleteFulfils
<1>2. CASE ~SweepDelete(r, f)
  <2>1. ListJobs(r, f) \/ SweepAbort(r) \/ SweepSkip(r) \/ SweepEnd(r)
    BY <1>2 DEF SweepStep
  <2>2. UNCHANGED <<jobs, pods, configMaps>>
    BY <2>1 DEF ListJobs, SweepAbort, SweepSkip, SweepEnd
  <2>3. /\ \A b \in Builds \ {r} : pc'[b] = pc[b] /\ outcome'[b] = outcome[b]
        /\ r \in Builds => /\ pc[r] \in {"list", "sweep"}
                           /\ pc'[r] \in {"sweep", "context"}
                           /\ outcome'[r] = outcome[r]
    BY <2>1 DEF ListJobs, SweepAbort, SweepSkip, SweepEnd, AfterSweep, Requests
  <2>4. CASE r \in Builds
    BY <2>2, <2>3, <2>4, GoesOn DEF LeavesOthers, PreSubmit
  <2>5. CASE r \notin Builds
    BY <2>2, <2>3, <2>5, SameEverywhere DEF StageOf, VerdictOn, Fulfils
  <2> QED BY <2>4, <2>5
<1> QED BY <1>1, <1>2

\* The steps of build() up to its context.
LEMMA PrepareFulfils ==
  ASSUME PromiseInv, NEW b \in Builds, NEW f \in CallOutcomes,
         \/ GetConf(b, f) \/ PostConf(b, f) \/ UseExistingSecret(b)
         \/ CreateRegistrySecret(b, f) \/ MalformedCredentials(b) \/ CheckSecret(b, f)
         \/ Context(b)
  PROVE  Fulfils
<1> USE DEF PromiseInv, SafetyInv, TypeOK, ClusterTypeOK, Goto, Decide, End, clusterVars
<1>1. pc[b] \in PreSubmit
  BY DEF GetConf, PostConf, UseExistingSecret, CreateRegistrySecret, MalformedCredentials,
         CheckSecret, Context, PreSubmit
<1>2. UNCHANGED <<jobs, pods>> /\ \A c \in Builds : configMaps'[c] = configMaps[c]
  <2>1. CASE PostConf(b, f)
    BY <2>1, BuildsAssumption DEF PostConf, PostEffect
  <2>2. CASE ~PostConf(b, f)
    BY <2>2 DEF GetConf, UseExistingSecret, CreateRegistrySecret, MalformedCredentials,
                CheckSecret, Context
  <2> QED BY <2>1, <2>2
<1>3. /\ \A c \in Builds \ {b} : pc'[c] = pc[c] /\ outcome'[c] = outcome[c]
      /\ \/ pc'[b] \in PreSubmit /\ outcome'[b] = outcome[b]
         \/ pc'[b] = "done" /\ outcome'[b] \in {"failed", "crashed"}
  BY DEF GetConf, PostConf, UseExistingSecret, CreateRegistrySecret, MalformedCredentials,
         CheckSecret, Context, PreSubmit, Requests
<1>4. LeavesOthers(b)
  BY <1>2, <1>3 DEF LeavesOthers
<1> QED BY <1>1, <1>2, <1>3, <1>4, GoesOn, EndsEarly

LEMMA PostContextFulfils ==
  ASSUME PromiseInv, NEW b \in Builds, NEW f \in CallOutcomes, PostContext(b, f)
  PROVE  Fulfils
<1> USE DEF PromiseInv, SafetyInv, TypeOK, ClusterTypeOK, Goto, Decide, End
<1>1. pc[b] \in PreSubmit
  BY DEF PostContext, PreSubmit
<1>2. /\ UNCHANGED <<jobs, pods>>
      /\ \A c \in Builds \ {b} :
           pc'[c] = pc[c] /\ outcome'[c] = outcome[c] /\ configMaps'[c] = configMaps[c]
  BY DEF PostContext, PostEffect, Requests
<1>3. LeavesOthers(b)
  BY <1>2 DEF LeavesOthers
<1>4. configMaps[b] # Absent => configMaps'[b] # Absent
  BY DEF PostContext, PostEffect
<1>5. CASE PostReply(configMaps, b, f)
  <2>1. pc'[b] = "postjob" /\ outcome'[b] = outcome[b]
    BY <1>5 DEF PostContext, Requests
  <2>2. configMaps'[b] # Absent
    BY <1>5 DEF PostContext, PostEffect, PostReply, NoFault, Absent
  <2>3. /\ StageOf(b) = "awaited" /\ VerdictOn(b) = "pending"
        /\ jobs[b] = Absent /\ outcome[b] = "pending"
    BY <1>1, EarlyIsUndecided
  <2>4. StageOf(b)' = "awaited" /\ VerdictOn(b)' = "pending"
    BY <1>2, <2>1, <2>3 DEF StageOf, VerdictOn, PreSubmit, Absent
  <2>5. /\ stages[b] = "awaited" /\ verdicts[b] = "pending"
        /\ stages \in [Builds -> {StageOf(c) : c \in Builds}]
        /\ verdicts \in [Builds -> {VerdictOn(c) : c \in Builds}]
    BY <2>3 DEF stages, verdicts
  <2>6. /\ stages' = stages /\ verdicts' = verdicts
        /\ contexts' = contexts \cup {b}
    BY <1>3, <2>2, <2>4, <2>5, OnePlace
  <2>7. Promise!Publish(b)
    BY <2>5, <2>6 DEF Promise!Publish, Promise!Undecided, stages, verdicts, contexts
  <2> QED BY <2>7 DEF Fulfils, Promise!Next
<1>6. CASE ~PostReply(configMaps, b, f)
  <2>1. pc'[b] = "done" /\ outcome'[b] = "failed"
    BY <1>6 DEF PostContext, Requests
  <2> QED BY <1>1, <1>2, <1>3, <1>4, <2>1, EndsEarly
<1> QED BY <1>5, <1>6

\* The job is created with its context there; if it was not created, its build
\* is not accepted, but a build may be refused whose job was.
LEMMA SubmitFulfils ==
  ASSUME PromiseInv, NEW b \in Builds, NEW f \in CallOutcomes, SubmitJob(b, f)
  PROVE  Fulfils
<1> USE DEF PromiseInv, SafetyInv, TypeOK, ClusterTypeOK, Goto, Decide, End
<1>1. pc[b] \in PreSubmit
  BY DEF SubmitJob, PreSubmit
<1>2. /\ UNCHANGED <<configMaps, pods>>
      /\ \A c \in Builds \ {b} : pc'[c] = pc[c] /\ outcome'[c] = outcome[c] /\ jobs'[c] = jobs[c]
  BY DEF SubmitJob, PostEffect, Requests
<1>3. LeavesOthers(b)
  BY <1>2 DEF LeavesOthers
<1>4. jobs[b] = Absent /\ pods[b] = Absent /\ configMaps[b] # Absent
  BY <1>1 DEF SubmitInv, UnstartedInv, SubmitJob
<1>5. pc'[b] = (IF f = NoFault THEN "waitpod" ELSE "delcm")
      /\ outcome'[b] = (IF f = NoFault THEN "accepted" ELSE "failed")
  BY <1>4 DEF SubmitJob, PostReply, Requests
<1>6. CASE f = "refused"
  BY <1>1, <1>2, <1>3, <1>5, <1>6, EndsEarly DEF SubmitJob, PostEffect, NoFault
<1>7. CASE f # "refused"
  <2>1. jobs'[b] = "active"
    BY <1>4, <1>7 DEF SubmitJob, PostEffect
  <2>2. StageOf(b)' = "copying" /\ VerdictOn(b)' \in {"accepted", "refused"}
    BY <1>2, <1>4, <1>5, <2>1 DEF StageOf, VerdictOn, Terminated, Absent
  <2>3. stages[b] = "awaited" /\ verdicts[b] = "pending" /\ b \in contexts
    BY <1>1, <1>4, EarlyIsUndecided DEF stages, verdicts, contexts
  <2>4. /\ stages' = [stages EXCEPT ![b] = "copying"]
        /\ \E v \in {"accepted", "refused"} : verdicts' = [verdicts EXCEPT ![b] = v]
        /\ contexts' = contexts
    <3>1. /\ stages' = [stages EXCEPT ![b] = StageOf(b)']
          /\ verdicts' = [verdicts EXCEPT ![b] = VerdictOn(b)']
      BY <1>3, OnePlace
    <3>2. contexts' = contexts
      BY <1>2 DEF contexts
    <3> QED BY <2>2, <3>1, <3>2
  <2>5. Promise!Submit(b)
    BY <2>3, <2>4 DEF Promise!Submit, Promise!Undecided, stages, verdicts, contexts
  <2> QED BY <2>5 DEF Fulfils, Promise!Next
<1> QED BY <1>6, <1>7

\* The wait and the clean-up of a build: only its context may go, and not that
\* of an accepted build before it was copied.
LEMMA DelContextFulfils ==
  ASSUME PromiseInv, NEW b \in Builds, NEW f \in CallOutcomes, DelContext(b, f)
  PROVE  Fulfils
<1> USE DEF PromiseInv, SafetyInv, TypeOK, ClusterTypeOK, Goto, Decide, End
<1>1. /\ pc[b] = "delcm" /\ pc'[b] \in {"delsecret", "done"}
      /\ UNCHANGED <<jobs, pods, outcome>>
      /\ \A c \in Builds \ {b} : pc'[c] = pc[c] /\ configMaps'[c] = configMaps[c]
  BY DEF DelContext, DeleteEffect, Requests
<1>2. LeavesOthers(b)
  BY <1>1 DEF LeavesOthers
<1>3. pc[b] \notin PreSubmit /\ pc'[b] \notin PreSubmit
  BY <1>1 DEF PreSubmit
<1>4. CASE (configMaps'[b] = Absent) = (configMaps[b] = Absent)
  BY <1>1, <1>2, <1>3, <1>4, LateIsQuiet
<1>5. CASE (configMaps'[b] = Absent) # (configMaps[b] = Absent)
  <2>1. configMaps'[b] = Absent
    BY <1>5 DEF DelContext, DeleteEffect
  <2>2. outcome[b] # "pending" /\ ~NeedsContext(b)
    BY <1>1 DEF DecidedInv, ContextInv
  <2>3. VerdictOn(b) # "pending" /\ ~(VerdictOn(b) = "accepted" /\ StageOf(b) = "copying")
    <3>1. VerdictOn(b) # "pending" /\ (VerdictOn(b) = "accepted" => outcome[b] = "accepted")
      BY <2>2 DEF VerdictOn
    <3>2. StageOf(b) = "copying" => jobs[b] = "active" /\ pods[b] \notin Terminated
      BY DEF StageOf, JobStates
    <3> QED BY <2>2, <3>1, <3>2 DEF NeedsContext
  <2>4. StageOf(b)' = StageOf(b) /\ VerdictOn(b)' = VerdictOn(b)
    BY <1>1, <1>3 DEF StageOf, VerdictOn
  <2>5. verdicts[b] = VerdictOn(b) /\ stages[b] = StageOf(b)
    BY DEF verdicts, stages
  <2>6. stages' = stages /\ verdicts' = verdicts
    BY <1>2, <2>4, OnePlace DEF stages, verdicts
  <2>7. contexts' = contexts \ {b}
    BY <1>2, <2>1, OnePlace
  <2>8. Promise!Withdraw(b)
    BY <2>3, <2>5, <2>6, <2>7 DEF Promise!Withdraw, stages, verdicts, contexts
  <2> QED BY <2>8 DEF Fulfils, Promise!Next
<1> QED BY <1>4, <1>5

LEMMA WaitFulfils ==
  ASSUME PromiseInv, NEW b \in Builds, NEW f \in CallOutcomes,
         WaitPod(b) \/ ListPods(b, f) \/ WaitInit(b, f) \/ DelSecret(b, f)
  PROVE  Fulfils
<1> USE DEF PromiseInv, SafetyInv, TypeOK, Goto, clusterVars
<1>1. /\ pc[b] \notin PreSubmit /\ pc'[b] \notin PreSubmit
      /\ UNCHANGED <<jobs, pods, configMaps, outcome>>
      /\ \A c \in Builds \ {b} : pc'[c] = pc[c]
  BY DEF WaitPod, ListPods, WaitInit, DelSecret, PreSubmit, Requests
<1>2. LeavesOthers(b)
  BY <1>1 DEF LeavesOthers
<1> QED BY <1>1, <1>2, LateIsQuiet

LEMMA BuildFulfils ==
  ASSUME PromiseInv, NEW b \in Builds, NEW f \in CallOutcomes, BuildStep(b, f)
  PROVE  Fulfils
  BY PrepareFulfils, PostContextFulfils, SubmitFulfils, WaitFulfils, DelContextFulfils
  DEF BuildStep

\* What becomes of a job in the cluster.
LEMMA ClusterFulfils ==
  ASSUME PromiseInv, NEW b \in Builds, ClusterStep(b), UNCHANGED serviceVars
  PROVE  Fulfils
<1> USE DEF PromiseInv, SafetyInv, TypeOK, ClusterTypeOK, serviceVars
<1>1. /\ UNCHANGED <<configMaps, pc, outcome>>
      /\ \A c \in Builds \ {b} : jobs'[c] = jobs[c] /\ pods'[c] = pods[c]
  BY DEF ClusterStep, CreatePod, StartPod, InitExit, FinishJob, LosePod, Age
<1>2. LeavesOthers(b)
  BY <1>1 DEF LeavesOthers
<1>3. VerdictOn(b)' = VerdictOn(b)
  BY <1>1 DEF VerdictOn
<1>4. \/ StageOf(b)' = StageOf(b)
      \/ StageOf(b) = "copying" /\ StageOf(b)' \in {"building", "failed"}
      \/ StageOf(b) = "building" /\ StageOf(b)' \in {"complete", "failed"}
  <2>1. CASE CreatePod(b) \/ Age(b) \/ StartPod(b, regAuth[b])
    <3>1. jobs' = jobs /\ (pods'[b] \in Terminated <=> pods[b] \in Terminated)
      BY <2>1 DEF CreatePod, Age, StartPod, Terminated, Absent
    <3> QED BY <1>1, <3>1 DEF StageOf
  <2>2. CASE InitExit(b)
    <3>1. jobs' = jobs /\ pods[b] \notin Terminated /\ pods'[b] \in Terminated
      BY <2>2 DEF InitExit, Terminated
    <3> QED BY <1>1, <3>1 DEF StageOf
  <2>3. CASE FinishJob(b)
    <3>1. jobs[b] = "active" /\ pods[b] \in Terminated /\ jobs'[b] \in {"complete", "failed"}
      BY <2>3 DEF FinishJob
    <3> QED BY <3>1 DEF StageOf, Absent
  <2>4. CASE LosePod(b)
    <3>1. jobs'[b] = IF jobs[b] = "active" THEN "failed" ELSE jobs[b]
      BY <2>4 DEF LosePod
    <3> QED BY <1>1, <3>1 DEF StageOf, Absent
  <2> QED BY <2>1, <2>2, <2>3, <2>4 DEF ClusterStep
<1>5. CASE StageOf(b)' = StageOf(b)
  BY <1>1, <1>2, <1>3, <1>5, QuietFor
<1>6. CASE StageOf(b)' # StageOf(b)
  <2>1. stages[b] = StageOf(b) /\ stages' = [stages EXCEPT ![b] = StageOf(b)']
    BY <1>2, OnePlace DEF stages
  <2>2. verdicts' = verdicts /\ contexts' = contexts
    BY <1>1 DEF verdicts, contexts, VerdictOn
  <2>3. Promise!Advance(b)
    BY <1>4, <1>6, <2>1, <2>2 DEF Promise!Advance, stages, verdicts, contexts
  <2> QED BY <2>3 DEF Fulfils, Promise!Next
<1> QED BY <1>5, <1>6

\* The process is killed: what it had not decided it never will.
LEMMA RestartFulfils ==
  ASSUME PromiseInv, Restart
  PROVE  Fulfils
<1> DEFINE Lost == {b \in Builds : pc[b] \in PreSubmit \ {"idle"}}
<1>1. \A b \in Builds : pc'[b] = IF pc[b] \in Ended \cup {"idle"} THEN pc[b] ELSE "dead"
  BY DEF Restart, Running, Requests
<1>2. UNCHANGED <<configMaps, jobs, pods, outcome>>
  BY DEF Restart, clusterVars
<1>3. \A b \in Lost : StageOf(b)' = "gone" /\ stages[b] = "awaited" /\ verdicts[b] = "pending"
  <2> TAKE b \in Lost
  <2>1. StageOf(b) = "awaited" /\ VerdictOn(b) = "pending" /\ jobs[b] = Absent
    BY EarlyIsUndecided DEF PromiseInv
  <2>2. pc'[b] = "dead"
    BY <1>1 DEF Ended, PreSubmit
  <2>3. StageOf(b)' = "gone"
    BY <1>2, <2>1, <2>2 DEF StageOf, PreSubmit, Absent
  <2> QED BY <2>1, <2>3 DEF stages, verdicts
<1>4. \A b \in Builds \ Lost : StageOf(b)' = StageOf(b)
  <2> TAKE b \in Builds \ Lost
  <2>1. pc'[b] \in PreSubmit <=> pc[b] \in PreSubmit
    BY <1>1 DEF Ended, PreSubmit
  <2> QED BY <1>2, <2>1 DEF StageOf
<1>5. stages' = [b \in Builds |-> IF b \in Lost THEN "gone" ELSE stages[b]]
  BY <1>3, <1>4 DEF stages
<1>6. verdicts' = verdicts /\ contexts' = contexts
  BY <1>2 DEF verdicts, contexts, VerdictOn
<1>7. Lost \in SUBSET Builds
  OBVIOUS
<1> HIDE DEF Lost
<1>8. Promise!Abandon(Lost)
  BY <1>3, <1>5, <1>6
  DEF Promise!Abandon, Promise!Undecided, stages, verdicts, contexts
<1> QED BY <1>7, <1>8 DEF Fulfils, Promise!Next

LEMMA StepFulfils == PromiseInv /\ [Next]_vars => Fulfils
<1> SUFFICES ASSUME PromiseInv, [Next]_vars PROVE Fulfils
  OBVIOUS
<1>1. ASSUME NEW b \in Builds, Tick(b) PROVE Fulfils
  <2>1. UNCHANGED <<pc, outcome, jobs, pods, configMaps>>
    BY <1>1 DEF Tick, clusterVars
  <2> QED BY <2>1, SameEverywhere DEF StageOf, VerdictOn, Fulfils
<1>2. CASE UNCHANGED vars
  <2>1. UNCHANGED <<pc, outcome, jobs, pods, configMaps>>
    BY <1>2 DEF vars, clusterVars, serviceVars
  <2> QED BY <2>1, SameEverywhere DEF StageOf, VerdictOn, Fulfils
<1> QED
  BY <1>1, <1>2, ReceiveFulfils, SweepFulfils, BuildFulfils, ClusterFulfils, RestartFulfils
  DEF Next, Step

LEMMA InitFulfils == Init => Promise!Init
<1> SUFFICES ASSUME Init PROVE Promise!Init
  OBVIOUS
<1>1. \A b \in Builds : pc[b] = "idle" /\ outcome[b] = "pending" /\ jobs[b] = Absent
  BY DEF Init, ClusterInit, Requests
<1>2. \A b \in Builds : StageOf(b) = "awaited" /\ VerdictOn(b) = "pending"
  BY <1>1 DEF StageOf, VerdictOn, PreSubmit, Absent
<1>3. \A b \in Builds : configMaps[b] = Absent
  BY BuildsAssumption DEF Init, ClusterInit
<1> QED BY <1>2, <1>3 DEF Promise!Init

\* Whoever else builds and cleans up, whichever calls fail or lose their answer
\* and whenever the process is killed, each build keeps the promise: its job is
\* created at most once and only with its context there, it is reported as
\* accepted only if it was, its context is not withdrawn before it was copied,
\* and its job is removed only after it has ended.
THEOREM BuildsKeepPromise == Spec => KeepsPromise
<1>1. PromiseInv /\ [Next]_vars => [Promise!Next]_(Promise!vars)
  BY StepFulfils DEF Fulfils, Stutters, Promise!vars, stages, verdicts, contexts
<1>2. Spec => []PromiseInv
  BY PromiseInvInit, PromiseInvStep, PTL DEF Spec
<1> QED
  BY <1>1, <1>2, InitFulfils, PTL DEF Spec, KeepsPromise, Promise!Spec
=============================================================================
