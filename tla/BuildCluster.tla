---------------------------- MODULE BuildCluster ----------------------------
(***************************************************************************)
(* The Kubernetes side of a build, external to the repository and modelled *)
(* from how build_service.py and kube_api_client.py use it: the objects of *)
(* namespace "nuvolaris" that a build creates, the job controller that     *)
(* gives a job its pod, and the kubelet that runs it.                      *)
(* A build's own objects are named after its uuid, so they are indexed by  *)
(* the build.                                                              *)
(***************************************************************************)
EXTENDS KubeApi

CONSTANTS Builds,        \* build requests, each with its own uuid
          Users,
          Owner,         \* the user of each request
          RandomParts,   \* the 5 random characters of a registry secret's name
          NamedSecrets,  \* secrets users refer to by name in REGISTRY_SECRET
          DefaultSecret, \* "registry-pull-secret"
          BuildkitdConf  \* "nuvolaris-buildkitd-conf"

\* reg-<user>-<random>
RandomSecrets == Users \X RandomParts
SystemSecrets == NamedSecrets \cup {DefaultSecret}
SecretNames == SystemSecrets \cup RandomSecrets

ASSUME SecretNamesAssumption == SystemSecrets \cap RandomSecrets = {}

\* Marks a secret that no build created.
System == "system"

ASSUME BuildsAssumption == /\ {Absent, System} \cap Builds = {}
                           /\ BuildkitdConf \notin Builds

VARIABLES
  configMaps,   \* the build contexts and the shared buildkitd configuration
  secrets,      \* by whom each secret was created
  jobs,         \* status of each build's job
  pods,         \* progress of its pod's init container copy-build-context
  aged          \* jobs that ended more than 24 hours ago

clusterVars == <<configMaps, secrets, jobs, pods, aged>>

JobStates == {Absent, "active", "complete", "failed"}
PodStates == {Absent, "waiting", "running", "copied", "broken"}

\* The init container has a "terminated" state.
Terminated == {"copied", "broken"}

ClusterTypeOK ==
  /\ configMaps \in [Builds \cup {BuildkitdConf} -> {Absent, "present"}]
  /\ secrets \in [SecretNames -> Builds \cup {Absent, System}]
  /\ jobs \in [Builds -> JobStates]
  /\ pods \in [Builds -> PodStates]
  /\ aged \subseteq Builds

ClusterInit ==
  /\ configMaps \in {[k \in Builds \cup {BuildkitdConf} |->
                        IF k = BuildkitdConf THEN conf ELSE Absent] :
                          conf \in {Absent, "present"}}
  /\ secrets \in {[n \in SecretNames |-> IF n \in there THEN System ELSE Absent] :
                          there \in SUBSET SystemSecrets}
  /\ jobs = [b \in Builds |-> Absent]
  /\ pods = [b \in Builds |-> Absent]
  /\ aged = {}

\* A secret a pod may mount.
SecretThere(n) == secrets[n] # Absent

\* The job controller creates the one pod of a job (backoffLimit 0).
CreatePod(b) ==
  /\ jobs[b] = "active"
  /\ pods[b] = Absent
  /\ pods' = [pods EXCEPT ![b] = "waiting"]
  /\ UNCHANGED <<configMaps, secrets, jobs, aged>>

\* The kubelet mounts every volume of the pod, then runs the init container.
StartPod(b, n) ==
  /\ pods[b] = "waiting"
  /\ configMaps[b] # Absent
  /\ configMaps[BuildkitdConf] # Absent
  /\ SecretThere(n)
  /\ pods' = [pods EXCEPT ![b] = "running"]
  /\ UNCHANGED <<configMaps, secrets, jobs, aged>>

InitExit(b) ==
  /\ pods[b] = "running"
  /\ \E s \in Terminated : pods' = [pods EXCEPT ![b] = s]
  /\ UNCHANGED <<configMaps, secrets, jobs, aged>>

\* restartPolicy Never: the job ends with its pod's first run.
FinishJob(b) ==
  /\ jobs[b] = "active"
  /\ pods[b] \in Terminated
  /\ \E s \in {"complete", "failed"} :
       /\ s = "complete" => pods[b] = "copied"
       /\ jobs' = [jobs EXCEPT ![b] = s]
  /\ UNCHANGED <<configMaps, secrets, pods, aged>>

\* Eviction, a lost node, `kubectl delete pod`: the job has no second pod.
LosePod(b) ==
  /\ pods[b] # Absent
  /\ pods' = [pods EXCEPT ![b] = Absent]
  /\ jobs' = [jobs EXCEPT ![b] = IF @ = "active" THEN "failed" ELSE @]
  /\ UNCHANGED <<configMaps, secrets, aged>>

Age(b) ==
  /\ jobs[b] \in {"complete", "failed"}
  /\ b \notin aged
  /\ aged' = aged \cup {b}
  /\ UNCHANGED <<configMaps, secrets, jobs, pods>>
=============================================================================
