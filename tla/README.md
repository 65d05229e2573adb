# A TLA+ model of the OpenServerless admin API

Modules, model-checking configurations and proofs about the Python service in
`src/openserverless`: a Flask application that `waitress` serves from one process with a
fixed pool of worker threads. It builds user images as Kubernetes jobs, logs users in with
OIDC, provisions namespaces and changes passwords. Nearly all of its state is elsewhere (the
Kubernetes API server, CouchDB, the identity provider), and requests interleave at every
call they make there. That is what the models are about.

## The system

| Component | State | Operations | Interacts with |
| --- | --- | --- | --- |
| Build service (`impl/builder/build_service.py`, `rest/build.py`) | per request: names, the registry secret, a temporary directory, a deadline | `POST /build/start`, `POST /build/cleanup` | Kubernetes: ConfigMaps, Secrets, Jobs, Pods |
| Kubernetes client (`common/kube_api_client.py`) | none | one HTTP call per method; None/False for every failure | API server |
| Device flow service (`impl/auth/oidc_device_flow_service.py`) | `_DEVICE_FLOWS`, one dictionary shared by all threads, in memory | start, poll, password grant, sweep of expired flows | identity provider, login |
| Login and provisioning (`impl/auth/auth_service.py`) | none of its own | `login`, `login_oidc`, `update_password` | CouchDB metadata, WhiskUser resources, the operator |
| Token validation, namespace mapping, authorization (`common/`, `security/`) | none | pure functions and reads | JWKS endpoint, CouchDB |
| Worker pool (`__main__.py`) | the running requests | accept, run | everything |

What is hard here, and to test:

* **Interleaving.** Two builds draw the same secret name; sweeps delete from stale lists;
  logins race between get and create; threads change a dictionary another one iterates;
  a password PUT races with other edits of the same resource.
* **Failure.** Every client method turns an error status, a refused connection and a lost
  answer into the same None/False, so a caller cannot know whether the call took effect.
* **Crashes.** The pod may be replaced at any time: running requests, temporary directories
  and device flows are gone, cluster objects stay.
* **Reads that do not belong together.** A key is looked up in one database and its owner in
  another, a token is checked against keys that rotate, by a clock that is not the issuer's.
* **Time.** The wait for an init container, the wait for the operator and the expiry of
  device flows each have a deadline, and only some loops look at it.

What makes each component correct: a build's objects live until its pod has copied or mounted
them and no longer than needed; a sweep deletes only what it may; a secret is deleted by who
made it; requests end. A device flow the user can complete is not lost; a sweep removes the
expired ones it comes to.
A namespace gets one credential and every login returns that one. Who holds a live token or a
key is let through as who he is, and nobody else; two users never share a derived namespace. A password update changes
the password and nothing else. `PROJECT.json` lists the hazards with their source lines.

## Modules

| Module | Models |
| --- | --- |
| `KubeApi` | the effect and the reply of a GET, POST and DELETE under a fault: `refused` (no effect, no reply) or `lost` (effect, no reply) |
| `BuildCluster` | the cluster objects of builds and what Kubernetes does with them (external, from how the code uses it) |
| `BuildService` | every build and clean-up request, one action per API call with the local code up to the next call |
| `BuildPromise` | the abstract specification: a job submitted once, reported as what it is, its context there until copied |
| `BuildProofs`, `BuildLeftovers` | proofs about `BuildService`: what may not go too early, and what must go |
| `BuildPromiseProofs` | proof that `BuildService` implements `BuildPromise` |
| `DeviceFlow`, `DeviceFlowProofs` | `start`, `poll` and the sweep, item by item; the provider and the user are external |
| `LoginPromise` | the abstract specification: one credential per namespace, logins granted it or refused |
| `SsoLogin`, `SsoLoginProofs` | `login_oidc` and provisioning, which implement `LoginPromise` |
| `PasswordUpdate`, `PasswordProofs` | `update_password`: metadata check, read, whole-resource PUT with its version |
| `OidcToken` | `OidcTokenValidator.validate`: the checks of a token in their order and what a failing one raises |
| `SsoNamespace` | `SsoNamespaceMapper.namespace_for` and `is_valid_username` over sequences of characters |
| `OwCredentials` | `encode` and `decode` of an OpenWhisk key |
| `UserEnv` | `env_to_dict` and the two merges of a document's environments |
| `AuthRequests` | every endpoint from the request to the service it hands it to, over the four modules above, with CouchDB, JWKS, clocks and administrators changing between the calls |
| `TextProofs` | lemmas and a theorem about the operators of `OwCredentials` and `SsoNamespace` |
| `AuthProofs` | proofs about `AuthRequests` |
| `MC*` | instances for TLC, and the situations that `MCSweeps` and `MCFlows` begin in |

In each module `pc[r]` is the next step of request `r` and `outcome[r]` what its answer says.
A step is one remote call together with the local code that follows it, so the order of the
calls and the reaction to each reply are the code's. `f` is how the call goes. `Restart` ends
every running request (`"dead"`) and drops what the process held. Operators commented
"Variant" are single faults put into an action: nothing of the specifications uses them, they
show that the properties notice such a fault.

What is abstracted, and why it may be:

* The text of Dockerfiles, manifests, answers and logs, and the registry host, which no guard
  depends on (`get_registry_host` never returns None, so the early return for it is dead).
* A build's ConfigMap, job and pod are named after its uuid and indexed by the build. A
  registry secret's name is the user and a member of `RandomParts`, so two builds of a user
  may collide. Users' own names for secrets are assumed not to have the form
  `reg-<user>-<5 characters>` (`SecretNamesAssumption`).
* `get_jobs` filters by substring; user names are `[a-z0-9]+` (`common/validation.py`), so
  the filter `build-<user>-` lets exactly the user's jobs through.
* Ages and times: a job is older than 24 hours or not (`aged`), or the clean-up was sent with
  `max_age_hours` 0 (`Impatient`). A deadline is a countdown `left` of `Timeout` ticks, which
  the clock decrements at any time; sleeps are not modelled.
* A DELETE takes effect at once and only one of two is answered as done. `delete_job` sends no
  `propagationPolicy` (`kube_api_client.py:488`), so that a Kubernetes that keeps a deleted job for a
  while under a finalizer might answer 202 twice: then two clean-ups count it. Deleting a job leaves
  its pod alone (the pod is orphaned).
* Iterating a dictionary is what CPython 3.12 does: `next` raises when the *size* differs from that
  at the beginning (`SameSize`), and when an entry is left after as many as there were then (`due`);
  it goes by positions (`ahead`), and an insertion into a full table rebuilds it without the entries
  popped before, so that entries may come to lie before an iterator's position (`skipped`). The order
  of the entries and the capacity of the table are left open: every insertion may do that, to any entries.
* The device flow's `expires_at` is computed after the provider issued the code from the same
  number of seconds, so it is later than the provider's own deadline (`Expire`).
* The provider's 200 answers are well formed (a `device_code`, numbers that parse).
* A token is a record of what its parts turn out to be; base64, JSON, RSA and sha256 are a
  library's. Whether it came in the header or in the body is left out.
* The header of a key carries a text of `:`, `%`, the codes `3A` and `25` and other characters,
  base64 or not: `_parse_b64` takes a word as it stands when decoding fails, and what base64
  makes of a word that is not encoded is assumed not to have the form of credentials.
* `AuthRequests` stops where a service begins: `"accepted"` is where `BuildService` and
  `PasswordUpdate` go on, `"provision"` where `SsoLogin` makes the namespace; its `Validate` stands
  for what `AuthRequests` has in full, `DeviceFlow`'s token for the start of a `"device"` request.
* No key of a document's `env` begins with `SYSTEM_` (`DocsAssumption`).
* A WhiskUser is identified by who drew its random AUTH; it is never deleted.

## Runs

Each run's exact constants are in its cfg; `tlc -config MCx.cfg <module>` repeats it.

| Run | Instance | Shows |
| --- | --- | --- |
| `MCBuilds` | 2 builds, 1 random name, faults `refused` and `lost` | `TypeOK`, `SafetyInv`, `ContextKeptUntilCopied`, `LeftoverNeedsCause`, `ConfBeforeJob`, `SecretsDeletedByCreator`, `KeepsPromise` |
| `MCSweeps` | from 3 situations: 2 builds, 2 clean-ups, 2 users, 2 workers, both faults, `buildkitd.toml` not shipped, fair | `SweepRespectsAge`, `CountedOnce`, `AnsweredUnlessHung` |
| `MCWait` | 1 build, fair | violated: `WaitHonoursTimeout` |
| `MCRunningJob` | builds and a clean-up, no faults | violated: `RunningJobsAreSkipped` |
| `MCFailedJob` | 1 build, 1 clean-up, no faults, fair | violated: `OldJobsAreDeleted` |
| `MCFlows` | from 2 situations: 5 starts, 2 clients of one flow, faults `refused`, `lost`, fair | `FlowInv`, `LiveFlowKept`, `SweepComplete`, `PollingEnds` |
| `MCStartRace` | 2 starts, 1 client, no faults | violated: `StartAnswersAsDocumented` |
| `MCSso` | 2 logins of one namespace, Timeout 2, both faults, fair | `AgreementInv`, `UnboundRefused`, `NotFoundNeedsTimeout`, `KeepsPromise`, `EveryLoginEnds` |
| `MCPassword` | 3 updates, 2 edits by others, both faults | `PasswordInv`, `ForeignEditsKept` |
| `MCPasswordAnswer` | 2 updates, no faults | violated: `PasswordUpdated` |
| `MCAuth` | 46 worlds, see below; `refused` | `TypeOK`, `GenuineAccepted`, `ForbiddenIsGenuine`, `NamespaceDerived`, `NamespacesApart`, `WorkspaceKept`, `GoodKeyAccepted`, `RevokedKeyRefused`, `NoValueLost` |
| `MCBadToken` | the same worlds, no faults | violated: `MalformedTokenIs401` |

Why the bounds are enough: what can go wrong between builds goes wrong between two (one name,
one list, one configuration), and a second user's build is only needed to show that sweeps stay
away from it; a dictionary changes under an iteration when a second start or a poll pops or stores,
and keeps its size when that start's sweep pops a flow before it stores its own (what is checked of
the sweep is proved for any number of starts); two logins race for one resource; three updates cover two on the same old password and
one on the new. A timeout of one tick already separates "in time" from "too late"; two let a
call come between. `CHECK_DEADLOCK FALSE` because every instance ends when its requests have.
The safety properties with theorems hold whatever the bounds.

Some instances begin where a part of the requests is over, so that what is left of them fits. The
situations are states that `Init` leads to, written out in the MC modules. `MCSweeps`: a build and
two clean-ups to come; an old complete job of one user, which the sweep in another's build must leave
alone; a build that polls for a pod that was lost and whose job has ended, beside which a build
and a clean-up have the other of the two workers. `MCFlows`: two starts to come, with two clients of the
flow of the first; two stored flows, one of them expired, which two starts begin to sweep before they
store their own: one pops and stores while the other iterates.

The worlds of `MCAuth` (`MCAuthRequests`) each fix the environment variables, the skew of the
clocks and what may happen outside. In nine of them a token is sent: a good one, all that differ
from it in one respect (in the default world in two), under every skew from -2 to 2 around a leeway
of one second, with three ticks or rotations of the JWKS document; times lie on both sides of each
boundary. In one, requests of all other kinds are sent while a user's documents are deleted or the
namespace is unbound, two events at any place. In 36, two users with names of 1 to 62 characters
log in under hash lengths 5, 8 and 17 and namespace lengths 12, 20 and 99, which lie at and beyond
both ends of what the code clamps to, so negative slices, cuts and the fallback all occur.

Failing calls: some things hold only for a request whose own calls get through, by design of the
code (results of deletions and of the configuration's POST are only logged; what cannot be read
counts as absent). In `BuildService`, `SsoLogin` and `AuthRequests` the variable `hit` marks the
requests that met a failing call, so that `LeftoverNeedsCause`, `ConfBeforeJob`, `UnboundRefused`,
`NotFoundNeedsTimeout`, `GenuineAccepted` and `GoodKeyAccepted` speak of the other requests while
calls of their competitors fail.

### Fairness

* Builds: worker threads take requests and run (`Receive` or a `Step` with a call that gets
  through, one condition for each request), the clock ticks, and the job controller creates the pod of an active job. Nothing
  is assumed of the kubelet, and no fault is ever due. That a call ends, by an answer or a fault, is
  an assumption: requests to Kubernetes and CouchDB are made without a timeout. A fair step is the code's own loop going
  on, so a call that is refused for ever is not excluded where the code would end by itself.
* Logins: threads and the clock. Nothing of the operator: a login must end when it never acts.
* Device flows: the threads of polls, and the clock for the flows that are polled (their codes lapse,
  they expire); clients poll again after 202 and 502, as the documented protocol asks of them.
  Nothing is assumed of the provider's answers, nor of the starts.

### What the violated runs show

`PROJECT.json` has them as findings. In short: the poll for a job's pod has no deadline and a
lost pod holds a worker for ever (`kube_api_client.py:552`); one running job makes a clean-up
fail (`build_service.py:360`), and a job that failed is never swept, however old
(`build_service.py:366`); a sweep of device flows may fail when another thread stores a
flow (`oidc_device_flow_service.py:241`); a password update is answered 200 when its PUT was
refused or conflicted (`auth_service.py:334`); a token that cannot be decoded is answered 500
(`auth_service.py:126`).

Noted while modelling, without a run of its own: a header that `decode` cannot read makes
`POST /build/start` and `/build/cleanup` answer 500, since `authorize()` catches
`AuthorizationError` alone, while `PATCH /auth/<login>` answers 401 for every exception, bad JSON and
missing fields included, where its text says 400; a missing field in `POST /auth` is answered 500
where its text says 400; a failing JWKS request is answered 500; 403 is also the answer for an
unbound namespace and for another workspace than the one asked for; when the hash is longer than
the configured namespace, the derived name may exceed `SSO_NAMESPACE_MAX_LENGTH` (never 61) and the
fallback is used for names that are too long, not for an empty base as its comment has it; a build
merges `env` and `userenv`, a clean-up looks at `env` alone and refuses a user who has only the other.

## Proofs

`tlapm` checks every proof, for all values of the constants under the named assumptions (which
TLC evaluates on the runs): `LoginsAssumption`, `BuildsAssumption` and their like say that names of
different kinds differ, and that functions have the right domain.

* `BuildProofs`. `ContextKeptUntilCopied` is not inductive: that the ConfigMap is not deleted
  early depends on where in `build()` the request is, and that the secret is not depends on
  *all* other builds, which may have drawn its name. `SafetyInv` adds: system secrets are never
  a build's (`SystemSecretsInv`); past the check of the secret a build holds one it created
  itself or the system's, and only its own is deleted (`SecretInv`); there is no job before it is
  submitted and its context is there by then (`SubmitInv`); no request cleans up while
  its pod has still to copy (`ContextInv`); what a sweep listed is old, complete and of its
  user, or gone (`ListedInv`, `SweptInv`). From it follow `ContextKept`, `SweepSafe`,
  `SecretsSafe` and `SweepCounts`; the action properties have one lemma for the steps that
  delete nothing.
* `BuildLeftovers`. `ThroughInv` is about a build whose own calls got through. Its part `ConfOf`
  says that the configuration is there past `init()`; `LeftOf` says by where the request is in
  `build()` which of its objects can exist. `pods[b] = Absent` in `LeftoverNeedsCause` is not
  inductive alone: an active job gets a pod later. `GaveUp` adds that the job is no longer
  active, so that it is never undone. `OthersStep` is the frame: what a step of another request,
  the cluster, the clock or a restart leaves of a build's things. From it follow `ConfSafe` and
  `LeftoverSafe`.
* `DeviceFlowProofs`. `FlowInv` adds to `LiveFlowKept` that ids a sweep collected belong to
  expired flows (which are no longer live), that an error or a token in a thread's hands
  means that the code is settled, and which flows can be in the dictionary. `FlowsSafe` and
  `LiveFlowSafe` follow. Assumed: finitely many starts (the sweep counts) and no `"busy"` fault: a
  provider that answers a poll with an error status other than RFC 8628's makes the service drop a
  flow that is still live. `SweepInv` says that an expired flow still stored is, at each point of a
  sweep, ahead of its position, collected or was moved past it (`skipped`); `SweepRemovesExpired`
  follows from it for all faults. It promises nothing of what a rebuild of the table moved: such a
  flow is left to a later sweep, or to the poll that finds it expired.
* `SsoLoginProofs`. `SsoLogin` implements `LoginPromise`: `whiskUsers` is the credential, a
  finished login's answer is `doc` or a refusal. The invariant `AgreementInv` says that
  metadata and what a login read agree with the WhiskUser. Each step maps to a step of the
  promise or none; `Restart` maps to refusing all running logins. `ThroughInv` is about logins whose
  calls get through: one that came after the unbinding is at the check of it or has another answer
  than 200 (`UnboundSafe`; of a login that was under way when its namespace was unbound, or whose
  read of the annotation failed, nothing is claimed), and one that waits has a WhiskUser to wait for (`NotFoundSafe`).
* `PasswordProofs`. A request about to PUT holds an older version or exactly the resource as it
  is (`CopyInv`), so an executed PUT carries every edit.
* `AuthProofs`. `AuthInv` relates, for each request, where it is to its kind, its answer, its
  namespace and, for a key that came after a deletion, to what is left of the user. What
  `validate` does with a token rests on lemmas about the list of its checks: the verdict is
  that of the first that fails (`VerdictIsFirst`), so a 403 means that all before the group's passed
  (`PassedChecks`), and a genuine token fails none but the group's (`NoOtherCheckFails`).
  `AlwaysMapped` does the arithmetic of the clamped lengths for `namespace_for`, `MergeKeeps` the
  merge of the environments for a login, from which `AnswerInv` and `NothingLost` follow (the merge for a
  build overwrites values by design). `NamesApart` adds to it that a made
  name ends in its hash (`MadeEndsInHash`). For `GoodKeySafe`, `KeyInv` says where a request with a key
  spelled by `encode()` is, what it has read so far and that a failing call or a deletion is the only
  excuse for a denial. The assumptions are `DocsAssumption` and `InputsAssumption`: the types of what may
  be sent, and that the first part of a key, a uuid, has no colon (`IsKey`): `encode()` raises for one
  that has.
* `TextProofs`. What `decode` makes of a header that `encode` wrote, for keys of any length
  (`DecodeInvertsEncode`), and that a name made with a hash ends in it. Induction is done by the
  smallest counterexample (`SmallestOf`): `FlattenAppend` says what a filter or a quoting
  does with one more character, `Pieces` are the places where `unquote` takes up a piece of
  what `quote` wrote, and `PiecesBefore` shows that pieces begin where characters were quoted, so
  that `%3A` in a key, spelled `%253A`, is not taken for a colon.
* `BuildPromiseProofs`. `BuildService` implements `BuildPromise`: the stage of a build is read off its
  job, its pod and whether its request has yet to submit; the verdict is its outcome. A step changes the
  promise of one build at most (`OnePlace`, with the frame `LeavesOthers`), `Restart` maps to
  abandoning all undecided builds, and every other step to an action of the promise or a stutter, one
  lemma for each kind (`...Fulfils`). `PromiseInv` adds to `SafetyInv` that who waits or cleans up has
  decided its answer (`DecidedInv`) and that no pod is there before the job (`UnstartedInv`); that a
  context is not withdrawn too early is `ContextInv`, that a job is removed only after it has ended follows from `ListedInv`.

Only model-checked: liveness (`AnsweredUnlessHung`, `PollingEnds`, `EveryLoginEnds`), which the
prover does not do. Every safety property and action property of the passing runs has a theorem. What
the library operators compute (folds over sets, sha256, `re.sub` as a whole) is not proved beyond the
lemmas named here.

## Not modelled

The endpoints `/system/info` and `/system/config`, the formatting of answers, configuration lookup
and password hashing have no control of their own. `WhiskUserData`, `whisk_user_generator`,
`UserValidation`, `validate_ow_auth`, the writers of the CouchDB client and the unused methods of the
Kubernetes client are not reachable from an endpoint. Deletion of a WhiskUser by an administrator
is in `AuthRequests` (documents go) but not in `SsoLogin`, where a namespace never changes hands. The
worker pool bounds builds and clean-ups only; logins and polls share it in the program.

## Plan

The order of the work, most important behaviour first. Done: 1 to 6, with proofs of all
their safety properties.

1. Builds and sweeps (`BuildService`), with proofs of its safety.
2. Device flows (`DeviceFlow`), with the proofs that live flows are kept and expired ones go.
3. Logins and provisioning (`SsoLogin` implements `LoginPromise`), proved.
4. Password updates (`PasswordUpdate`), proved.
5. Authentication (`AuthRequests` over the pure modules).
6. `BuildPromise`: an abstract build that `BuildService` implements, proved.
7. `WhiskUsers`: `SsoLogin` and `PasswordUpdate` composed over one resource and one metadata
   store, with deletion by an administrator; the promise is then one credential per life of a
   namespace.
