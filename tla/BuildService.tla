---------------------------- MODULE BuildService ----------------------------
(***************************************************************************)
(* impl/builder/build_service.py as the handlers of rest/build.py run it:  *)
(* each POST /build/start is a request in Builds, each POST /build/cleanup *)
(* a request in Cleanups.  waitress runs every request on a worker thread  *)
(* of one process; a step here is one call to the API server together with *)
(* the local code up to the next one, so the requests interleave at their  *)
(* calls.  The process may be killed between any two steps.                *)
(***************************************************************************)
EXTENDS BuildCluster, FiniteSets, Integers

CONSTANTS Cleanups,     \* clean-up requests
          Impatient,    \* the clean-ups sent with max_age_hours = 0
          Workers,      \* threads of the waitress pool
          Timeout,      \* timeout_seconds = 120, in ticks
          TomlShipped   \* deploy/buildkit/buildkitd.toml is in the image

Requests == Builds \cup Cleanups

ASSUME RequestsAssumption == /\ Builds \cap Cleanups = {}
                             /\ Owner \in [Requests -> Users]
                             /\ Impatient \subseteq Cleanups

ASSUME BoundsAssumption == /\ Workers \in Nat \ {0}
                           /\ Timeout \in Nat \ {0}
                           /\ TomlShipped \in BOOLEAN

VARIABLES
  pc,        \* the next step of each request
  outcome,   \* what its answer will say, once decided
  regAuth,   \* self.registry_auth
  left,      \* ticks left of wait_for_init_container_completion
  tmpdirs,   \* builds whose temporary directory exists
  listed,    \* the jobs a sweep has listed and not yet visited
  swept,     \* the jobs a sweep has counted as deleted
  hit        \* the requests that met a failing call

serviceVars == <<pc, outcome, regAuth, left, tmpdirs, listed, swept, hit>>
vars == <<clusterVars, serviceVars>>

NoAuth == <<>>
AuthNames == SecretNames \cup {NoAuth}

Ended == {"done", "dead"}
PreSubmit == {"idle", "conf", "postconf", "auth", "check", "list", "sweep",
              "context", "postcm", "postjob"}
Waiting == {"waitpod", "listpods", "waitinit"}
Labels == PreSubmit \cup Waiting \cup {"delcm", "delsecret"} \cup Ended
Outcomes == {"pending", "accepted", "cleaned", "failed", "crashed", "refused"}

\* What delete_old_build_jobs knows of a job it listed.
Listing == [job : Builds, status : JobStates, old : BOOLEAN]

TypeOK ==
  /\ ClusterTypeOK
  /\ pc \in [Requests -> Labels]
  /\ outcome \in [Requests -> Outcomes]
  /\ regAuth \in [Builds -> AuthNames]
  /\ left \in [Builds -> 0..Timeout]
  /\ tmpdirs \subseteq Builds
  /\ listed \in [Requests -> SUBSET Listing]
  /\ swept \in [Requests -> SUBSET Builds]
  /\ hit \subseteq Requests

Init ==
  /\ ClusterInit
  /\ pc = [r \in Requests |-> "idle"]
  /\ outcome = [r \in Requests |-> "pending"]
  /\ regAuth = [b \in Builds |-> NoAuth]
  /\ left = [b \in Builds |-> 0]
  /\ tmpdirs = {}
  /\ listed = [r \in Requests |-> {}]
  /\ swept = [r \in Requests |-> {}]
  /\ hit = {}

Running == {r \in Requests : pc[r] \notin Ended \cup {"idle"}}

Goto(r, l) == pc' = [pc EXCEPT ![r] = l]
Decide(r, o) == outcome' = [outcome EXCEPT ![r] = o]
End(r, o) == Goto(r, "done") /\ Decide(r, o)

\* self.custom_registry_auth: the secret was created for this build.
CustomAuth(b) == regAuth[b] \in RandomSecrets

-----------------------------------------------------------------------------
(* The request reaches a worker. *)

\* A worker takes the request and its handler lets it through.
Receive(r) ==
  /\ pc[r] = "idle"
  /\ Cardinality(Running) < Workers
  /\ Goto(r, IF r \in Builds THEN "conf" ELSE "list")
  /\ UNCHANGED <<clusterVars, outcome, regAuth, left, tmpdirs, listed, swept, hit>>

\* No or bad credentials (401), no payload, a field missing, a foreign target.
Refuse(r) ==
  /\ pc[r] = "idle"
  /\ Cardinality(Running) < Workers
  /\ End(r, "refused")
  /\ UNCHANGED <<clusterVars, regAuth, left, tmpdirs, listed, swept, hit>>

(* BuildService.init: the shared buildkitd configuration. *)

\* Variant: posts the configuration when it is there.
GetConfInverted(b, f) ==
  /\ pc[b] = "conf"
  /\ Goto(b, IF GetReply(configMaps, BuildkitdConf, f) THEN "postconf" ELSE "auth")
  /\ UNCHANGED <<clusterVars, outcome, regAuth, left, tmpdirs, listed, swept>>

GetConf(b, f) ==
  /\ pc[b] = "conf"
  /\ Goto(b, IF GetReply(configMaps, BuildkitdConf, f) THEN "auth" ELSE "postconf")
  /\ UNCHANGED <<clusterVars, outcome, regAuth, left, tmpdirs, listed, swept>>

\* post_config_map raises when the file is not there; a failed POST is logged.
PostConf(b, f) ==
  /\ pc[b] = "postconf"
  /\ \/ /\ ~TomlShipped
        /\ End(b, "crashed")
        /\ UNCHANGED configMaps
     \/ /\ TomlShipped
        /\ configMaps' = PostEffect(configMaps, BuildkitdConf, "present", f)
        /\ Goto(b, "auth")
        /\ UNCHANGED outcome
  /\ UNCHANGED <<secrets, jobs, pods, aged, regAuth, left, tmpdirs, listed, swept>>

(* get_registry_auth and the check of the secret it names. *)

UseExistingSecret(b) ==
  /\ pc[b] = "auth"
  /\ \E n \in SystemSecrets : regAuth' = [regAuth EXCEPT ![b] = n]
  /\ Goto(b, "check")
  /\ UNCHANGED <<clusterVars, outcome, left, tmpdirs, listed, swept>>

\* Variant: goes on with a name whose secret could not be created.
CreateRegistrySecretUnchecked(b, f) ==
  /\ pc[b] = "auth"
  /\ \E p \in RandomParts :
       /\ secrets' = PostEffect(secrets, <<Owner[b], p>>, b, f)
       /\ regAuth' = [regAuth EXCEPT ![b] = <<Owner[b], p>>]
  /\ Goto(b, "check")
  /\ UNCHANGED <<configMaps, jobs, pods, aged, outcome, left, tmpdirs, listed, swept>>

\* "user:password" becomes a secret of its own, the default one if that fails.
CreateRegistrySecret(b, f) ==
  /\ pc[b] = "auth"
  /\ \E p \in RandomParts :
       LET name == <<Owner[b], p>> IN
       /\ secrets' = PostEffect(secrets, name, b, f)
       /\ regAuth' = [regAuth EXCEPT ![b] =
                        IF PostReply(secrets, name, f) THEN name ELSE DefaultSecret]
  /\ Goto(b, "check")
  /\ UNCHANGED <<configMaps, jobs, pods, aged, outcome, left, tmpdirs, listed, swept>>

\* More than one ":": the unpacking of split(":") raises.
MalformedCredentials(b) ==
  /\ pc[b] = "auth"
  /\ End(b, "crashed")
  /\ UNCHANGED <<clusterVars, regAuth, left, tmpdirs, listed, swept>>

CheckSecret(b, f) ==
  /\ pc[b] = "check"
  /\ IF GetReply(secrets, regAuth[b], f)
       THEN Goto(b, "list") /\ UNCHANGED outcome
       ELSE End(b, "failed")
  /\ UNCHANGED <<clusterVars, regAuth, left, tmpdirs, listed, swept>>

-----------------------------------------------------------------------------
(* delete_old_build_jobs, for a build (24 hours, result ignored) and for a *)
(* clean-up (its max_age_hours; -1 is answered with a 500).                *)

AfterSweep(r, ok) ==
  IF r \in Builds THEN Goto(r, "context") /\ UNCHANGED outcome
                  ELSE End(r, IF ok THEN "cleaned" ELSE "failed")

\* The jobs a filter on build-<user>- lets through, as they are now.
JobsOf(u, r) ==
  {[job |-> b, status |-> jobs[b], old |-> b \in aged \/ r \in Impatient] :
     b \in {c \in Builds : jobs[c] # Absent /\ Owner[c] = u}}

ListJobs(r, f) ==
  /\ pc[r] = "list"
  /\ \/ /\ f = NoFault
        /\ listed' = [listed EXCEPT ![r] = JobsOf(Owner[r], r)]
        /\ Goto(r, "sweep")
        /\ UNCHANGED outcome
     \/ /\ f # NoFault
        /\ AfterSweep(r, FALSE)
        /\ UNCHANGED listed
  /\ UNCHANGED <<clusterVars, regAuth, left, tmpdirs, swept>>

\* A job that is still active has no status.conditions: AttributeError.
SweepAbort(r) ==
  /\ pc[r] = "sweep"
  /\ \E x \in listed[r] : x.status = "active"
  /\ listed' = [listed EXCEPT ![r] = {}]
  /\ AfterSweep(r, FALSE)
  /\ UNCHANGED <<clusterVars, regAuth, left, tmpdirs, swept>>

\* Variant: looks at the condition only.
DeletableAtAnyAge(x) == x.status = "complete"

\* Only a job with the condition Complete that is old enough is deleted.
Deletable(x) == x.status = "complete" /\ x.old

SweepSkip(r) ==
  /\ pc[r] = "sweep"
  /\ \E x \in listed[r] :
       /\ x.status # "active"
       /\ ~Deletable(x)
       /\ listed' = [listed EXCEPT ![r] = @ \ {x}]
  /\ UNCHANGED <<clusterVars, pc, outcome, regAuth, left, tmpdirs, swept>>

\* Variant: counts before looking at the result.
SweepDeleteCountsAll(r, f) ==
  /\ pc[r] = "sweep"
  /\ \E x \in listed[r] :
       /\ Deletable(x)
       /\ jobs' = DeleteEffect(jobs, x.job, f)
       /\ listed' = [listed EXCEPT ![r] = @ \ {x}]
       /\ swept' = [swept EXCEPT ![r] = @ \cup {x.job}]
  /\ UNCHANGED <<configMaps, secrets, pods, aged, pc, outcome, regAuth, left, tmpdirs>>

SweepDelete(r, f) ==
  /\ pc[r] = "sweep"
  /\ \E x \in listed[r] :
       /\ Deletable(x)
       /\ jobs' = DeleteEffect(jobs, x.job, f)
       /\ listed' = [listed EXCEPT ![r] = @ \ {x}]
       /\ swept' = [swept EXCEPT ![r] =
                      IF DeleteReply(jobs, x.job, f) THEN @ \cup {x.job} ELSE @]
  /\ UNCHANGED <<configMaps, secrets, pods, aged, pc, outcome, regAuth, left, tmpdirs>>

SweepEnd(r) ==
  /\ pc[r] = "sweep"
  /\ listed[r] = {}
  /\ AfterSweep(r, TRUE)
  /\ UNCHANGED <<clusterVars, regAuth, left, tmpdirs, listed, swept>>

-----------------------------------------------------------------------------
(* The rest of build. *)

\* mkdtemp, the requirements file and the Dockerfile.  A file that is too
\* large or not base64/UTF-8 returns early; an unknown kind raises.
Context(b) ==
  /\ pc[b] = "context"
  /\ tmpdirs' = tmpdirs \cup {b}
  /\ \/ Goto(b, "postcm") /\ UNCHANGED outcome
     \/ End(b, "failed")
     \/ End(b, "crashed")
  /\ UNCHANGED <<clusterVars, regAuth, left, listed, swept>>

PostContext(b, f) ==
  /\ pc[b] = "postcm"
  /\ configMaps' = PostEffect(configMaps, b, "present", f)
  /\ tmpdirs' = tmpdirs \ {b}
  /\ IF PostReply(configMaps, b, f)
       THEN Goto(b, "postjob") /\ UNCHANGED outcome
       ELSE End(b, "failed")
  /\ UNCHANGED <<secrets, jobs, pods, aged, regAuth, left, listed, swept>>

\* Variant: looks at no result.
SubmitJobUnchecked(b, f) ==
  /\ pc[b] = "postjob"
  /\ jobs' = PostEffect(jobs, b, "active", f)
  /\ Goto(b, "waitpod")
  /\ Decide(b, "accepted")
  /\ left' = [left EXCEPT ![b] = Timeout]
  /\ UNCHANGED <<configMaps, secrets, pods, aged, regAuth, tmpdirs, listed, swept>>

SubmitJob(b, f) ==
  /\ pc[b] = "postjob"
  /\ jobs' = PostEffect(jobs, b, "active", f)
  /\ \/ /\ PostReply(jobs, b, f)
        /\ Goto(b, "waitpod")
        /\ Decide(b, "accepted")
        /\ left' = [left EXCEPT ![b] = Timeout]
     \/ /\ ~PostReply(jobs, b, f)
        /\ Goto(b, "delcm")
        /\ Decide(b, "failed")
        /\ UNCHANGED left
  /\ UNCHANGED <<configMaps, secrets, pods, aged, regAuth, tmpdirs, listed, swept>>

(* wait_for_init_container_completion *)

\* The head of the first loop, and the return after it.
WaitPod(b) ==
  /\ pc[b] = "waitpod"
  /\ Goto(b, IF left[b] > 0 THEN "listpods" ELSE "done")
  /\ UNCHANGED <<clusterVars, outcome, regAuth, left, tmpdirs, listed, swept>>

\* get_pod_by_job_name polls until the pod is there or a call fails; the
\* time left is not looked at.
ListPods(b, f) ==
  /\ pc[b] = "listpods"
  /\ \/ f # NoFault /\ Goto(b, "waitpod")
     \/ GetReply(pods, b, f) /\ Goto(b, "waitinit")
  /\ UNCHANGED <<clusterVars, outcome, regAuth, left, tmpdirs, listed, swept>>

\* Variant: cleans up whether or not the wait succeeded.
WaitInitThenClean(b, f) ==
  /\ pc[b] = "waitinit"
  /\ \/ left[b] = 0
     \/ ~GetReply(pods, b, f)
     \/ pods[b] \in Terminated
  /\ Goto(b, "delcm")
  /\ UNCHANGED <<clusterVars, outcome, regAuth, left, tmpdirs, listed, swept>>

\* Variant: waits without a deadline.
WaitInitForEver(b, f) ==
  /\ pc[b] = "waitinit"
  /\ \/ ~GetReply(pods, b, f) /\ Goto(b, "done")
     \/ GetReply(pods, b, f) /\ pods[b] \in Terminated /\ Goto(b, "delcm")
  /\ UNCHANGED <<clusterVars, outcome, regAuth, left, tmpdirs, listed, swept>>

\* The second loop; nothing to do while the init container has not ended.
WaitInit(b, f) ==
  /\ pc[b] = "waitinit"
  /\ \/ left[b] = 0 /\ Goto(b, "done")
     \/ left[b] > 0 /\ ~GetReply(pods, b, f) /\ Goto(b, "done")
     \/ left[b] > 0 /\ GetReply(pods, b, f) /\ pods[b] \in Terminated /\ Goto(b, "delcm")
  /\ UNCHANGED <<clusterVars, outcome, regAuth, left, tmpdirs, listed, swept>>

\* Variant: the countdown does not stop at zero.
TickPastZero(b) ==
  /\ pc[b] \in Waiting
  /\ left' = [left EXCEPT ![b] = @ - 1]
  /\ UNCHANGED <<clusterVars, pc, outcome, regAuth, tmpdirs, listed, swept, hit>>

Tick(b) ==
  /\ pc[b] \in Waiting
  /\ left[b] > 0
  /\ left' = [left EXCEPT ![b] = @ - 1]
  /\ UNCHANGED <<clusterVars, pc, outcome, regAuth, tmpdirs, listed, swept, hit>>

(* _cleanup_build_resources *)

\* Variant: deletes the secret whoever created it.
DelContextThenSecret(b, f) ==
  /\ pc[b] = "delcm"
  /\ configMaps' = DeleteEffect(configMaps, b, f)
  /\ Goto(b, "delsecret")
  /\ UNCHANGED <<secrets, jobs, pods, aged, outcome, regAuth, left, tmpdirs, listed, swept>>

\* Variant: forgets the secret.
DelContextOnly(b, f) ==
  /\ pc[b] = "delcm"
  /\ configMaps' = DeleteEffect(configMaps, b, f)
  /\ Goto(b, "done")
  /\ UNCHANGED <<secrets, jobs, pods, aged, outcome, regAuth, left, tmpdirs, listed, swept>>

DelContext(b, f) ==
  /\ pc[b] = "delcm"
  /\ configMaps' = DeleteEffect(configMaps, b, f)
  /\ Goto(b, IF CustomAuth(b) THEN "delsecret" ELSE "done")
  /\ UNCHANGED <<secrets, jobs, pods, aged, outcome, regAuth, left, tmpdirs, listed, swept>>

DelSecret(b, f) ==
  /\ pc[b] = "delsecret"
  /\ secrets' = DeleteEffect(secrets, regAuth[b], f)
  /\ Goto(b, "done")
  /\ UNCHANGED <<configMaps, jobs, pods, aged, outcome, regAuth, left, tmpdirs, listed, swept>>

-----------------------------------------------------------------------------
\* The API pod is replaced: the requests it ran and its files are gone.
Restart ==
  /\ Running # {}
  /\ pc' = [r \in Requests |-> IF r \in Running THEN "dead" ELSE pc[r]]
  /\ tmpdirs' = {}
  /\ listed' = [r \in Requests |-> {}]
  /\ UNCHANGED <<clusterVars, outcome, regAuth, left, swept, hit>>

SweepStep(r, f) ==
  \/ ListJobs(r, f) \/ SweepAbort(r) \/ SweepSkip(r) \/ SweepDelete(r, f) \/ SweepEnd(r)

BuildStep(b, f) ==
  \/ GetConf(b, f) \/ PostConf(b, f)
  \/ UseExistingSecret(b) \/ CreateRegistrySecret(b, f) \/ MalformedCredentials(b)
  \/ CheckSecret(b, f)
  \/ Context(b) \/ PostContext(b, f) \/ SubmitJob(b, f)
  \/ WaitPod(b) \/ ListPods(b, f) \/ WaitInit(b, f)
  \/ DelContext(b, f) \/ DelSecret(b, f)

\* A step of the thread that runs request r, its call ending as f says.
Step(r, f) ==
  /\ SweepStep(r, f) \/ (r \in Builds /\ BuildStep(r, f))
  /\ hit' = IF f = NoFault THEN hit ELSE hit \cup {r}

ClusterStep(b) ==
  \/ CreatePod(b) \/ InitExit(b) \/ FinishJob(b) \/ Age(b)
  \/ regAuth[b] \in SecretNames /\ StartPod(b, regAuth[b])
  \/ Faults # {} /\ LosePod(b)

Next ==
  \/ \E r \in Requests : Receive(r) \/ Refuse(r)
  \/ \E r \in Requests, f \in CallOutcomes : Step(r, f)
  \/ \E b \in Builds : Tick(b)
  \/ \E b \in Builds : ClusterStep(b) /\ UNCHANGED serviceVars
  \/ Restart

Spec == Init /\ [][Next]_vars

\* Worker threads keep running, the clock keeps ticking, and the job
\* controller gives an active job its pod.  Nothing is assumed of the kubelet
\* (an image may never be pulled) and no fault is ever due.
Fairness ==
  /\ \A r \in Requests : WF_vars(Receive(r) \/ Step(r, NoFault))
  /\ \A b \in Builds : WF_vars(Tick(b)) /\ WF_vars(CreatePod(b) /\ UNCHANGED serviceVars)

FairSpec == Spec /\ Fairness

-----------------------------------------------------------------------------
(* Safety *)

\* The pod of an accepted build still has its build context to copy.
NeedsContext(b) ==
  outcome[b] = "accepted" /\ jobs[b] = "active" /\ pods[b] \notin Terminated

\* While the init container of an accepted build has yet to end, the ConfigMap
\* it copies and the registry Secret its pod mounts both exist: the clean-up
\* in build() never comes too early, whatever the wait returned, whichever
\* calls failed and whatever other builds of the same user delete.
ContextKeptUntilCopied ==
  \A b \in Builds : NeedsContext(b) =>
    configMaps[b] # Absent /\ regAuth[b] \in SecretNames /\ SecretThere(regAuth[b])

\* A job that goes away has ended, and is old enough for a sweep that a request
\* of its user is in.
OnlyOldJobsGo ==
  \A b \in Builds : jobs[b] # Absent /\ jobs'[b] = Absent =>
    /\ jobs[b] # "active"
    /\ \E r \in Requests :
         pc[r] = "sweep" /\ Owner[r] = Owner[b] /\ (b \in aged \/ r \in Impatient)

\* A sweep deletes a job only when it no longer runs and is old enough for the
\* request and of the request's user, although the sweep decides on a list that
\* may be stale and other sweeps of the user delete at the same time.
SweepRespectsAge == [][OnlyOldJobsGo]_vars

\* A secret that changes was created by a build that now deletes it.
OnlyOwnSecretsGo ==
  \A n \in SecretNames : secrets[n] # Absent /\ secrets'[n] # secrets[n] =>
    \E b \in Builds : secrets[n] = b /\ pc[b] = "delsecret" /\ regAuth[b] = n

\* A registry secret disappears only in the clean-up of the build that created
\* it: not the default or a named secret, and not the secret of another build
\* that drew the same random name.
SecretsDeletedByCreator == [][OnlyOwnSecretsGo]_vars

\* What a sweep counted as deleted is gone for good, and no job is counted by
\* two sweeps that listed it at the same time, given that a DELETE takes effect
\* at once and that only one is answered as done (delete_job in kube_api_client).
CountedOnce ==
  /\ \A r \in Requests : \A b \in swept[r] : jobs[b] = Absent
  /\ \A r, q \in Requests : r # q => swept[r] \cap swept[q] = {}

\* A finished build whose own calls got through leaves its ConfigMap behind only
\* if the wait for the init container used up its time or the pod was lost, its
\* own registry secret only then or when build() returned early or raised, and
\* its temporary directory only in the latter cases, whatever fails for others.
LeftoverNeedsCause ==
  \A b \in Builds \ hit : pc[b] = "done" =>
    LET early == outcome[b] \in {"failed", "crashed"}
        gaveUp == left[b] = 0 \/ pods[b] = Absent IN
    /\ configMaps[b] # Absent => gaveUp /\ ~early
    /\ CustomAuth(b) /\ secrets[regAuth[b]] = b => early \/ gaveUp
    /\ b \in tmpdirs => early

\* A build whose own calls got through submits its job only once the buildkitd
\* ConfigMap its pod mounts is there, also when several first builds race to
\* create it and the calls of the others fail.
ConfBeforeJob ==
  \A b \in Builds \ hit : jobs[b] # Absent => configMaps[BuildkitdConf] # Absent

-----------------------------------------------------------------------------
(* The promise *)

StageOf(b) ==
  IF jobs[b] = "active" THEN IF pods[b] \in Terminated THEN "building" ELSE "copying"
  ELSE IF jobs[b] # Absent THEN jobs[b]
  ELSE IF pc[b] \in PreSubmit THEN "awaited" ELSE "gone"

VerdictOn(b) == IF outcome[b] \in {"pending", "accepted"} THEN outcome[b] ELSE "refused"

Promise == INSTANCE BuildPromise
  WITH stage <- [b \in Builds |-> StageOf(b)],
       verdict <- [b \in Builds |-> VerdictOn(b)],
       published <- {b \in Builds : configMaps[b] # Absent}

\* Builds keep their promise: one job each, reported as what it is, its context
\* there until copied, removed only after it has ended (build,
\* delete_old_build_jobs and _cleanup_build_resources together).
KeepsPromise == Promise!Spec

-----------------------------------------------------------------------------
(* Liveness *)

Answered(r) == <>(pc[r] \in Ended)

\* A build polls for a pod that does not exist.
Stuck(r) == r \in Builds /\ pc[r] = "listpods" /\ pods[r] = Absent

\* A request that never reaches a worker, because such builds hold them all.
Starved(r) == pc[r] = "idle" /\ Cardinality({b \in Builds : Stuck(b)}) = Workers

\* Although calls fail and pods are lost, and the kubelet may never start one, a
\* request is only left without an answer when it is a build that polls for ever
\* for a pod that does not exist, or when such builds hold every worker.
AnsweredUnlessHung ==
  \A r \in Requests : Answered(r) \/ <>[]Stuck(r) \/ <>[]Starved(r)

-----------------------------------------------------------------------------
(* What the repository says and the code does not do *)

\* timeout_seconds is the "Maximum time to wait in seconds": a build that waits
\* for its init container gets its answer.
WaitHonoursTimeout ==
  \A b \in Builds : pc[b] = "waitpod" ~> pc[b] \in Ended

\* "if not completed: continue": jobs that have not completed do not keep a
\* clean-up from doing its work.
RunningJobsAreSkipped ==
  \A r \in Cleanups : outcome[r] # "failed"

\* "deletes build jobs older than a specified number of hours": a job that ended
\* so long ago, whether it is complete or failed, is gone some time after a
\* clean-up of its user has begun, unless that one fails or dies.
OldJobsAreDeleted ==
  \A r \in Cleanups, b \in Builds :
    (pc[r] = "list" /\ Owner[b] = Owner[r] /\ b \in aged)
      ~> (jobs[b] = Absent \/ pc[r] = "dead" \/ outcome[r] = "failed")

-----------------------------------------------------------------------------
(* The inductive invariant behind the safety properties *)

\* b may rely on the secret it names: its own, or one of the system.
HoldsSecret(b) ==
  /\ regAuth[b] \in SecretNames
  /\ secrets[regAuth[b]] = IF CustomAuth(b) THEN b ELSE System

Checked == (PreSubmit \ {"idle", "conf", "postconf", "auth", "check"})
             \cup Waiting \cup {"delcm", "delsecret"}

SystemSecretsInv == \A n \in SystemSecrets : secrets[n] \in {Absent, System}

SecretInv ==
  \A b \in Builds :
    /\ pc[b] \in Checked \/ NeedsContext(b) => HoldsSecret(b)
    /\ pc[b] = "check" => regAuth[b] \in SecretNames /\ (CustomAuth(b) => HoldsSecret(b))
    /\ pc[b] = "delsecret" => CustomAuth(b)

SubmitInv ==
  \A b \in Builds :
    /\ pc[b] \in PreSubmit => jobs[b] = Absent /\ outcome[b] = "pending"
    /\ pc[b] = "postjob" => configMaps[b] # Absent

ContextInv ==
  \A b \in Builds : NeedsContext(b) =>
    configMaps[b] # Absent /\ pc[b] \notin {"delcm", "delsecret"}

ListedInv ==
  \A r \in Requests : \A x \in listed[r] :
    /\ pc[r] = "sweep"
    /\ pc[x.job] \notin PreSubmit
    /\ Owner[x.job] = Owner[r]
    /\ x.status = "complete" => jobs[x.job] \in {"complete", Absent}
    /\ x.old => x.job \in aged \/ r \in Impatient

SweptInv ==
  \A r \in Requests : \A b \in swept[r] : jobs[b] = Absent /\ pc[b] \notin PreSubmit

SafetyInv ==
  /\ TypeOK
  /\ SystemSecretsInv
  /\ SecretInv
  /\ SubmitInv
  /\ ContextInv
  /\ ListedInv
  /\ SweptInv
=============================================================================
