---------------------------- MODULE AuthRequests ----------------------------
(***************************************************************************)
(* How a request is authenticated: the endpoints of rest/auth.py and       *)
(* rest/build.py from the request to the service they hand it to.          *)
(*                                                                         *)
(*   oidc     POST /auth/oidc with a token                                 *)
(*   grant    POST /auth/oidc/password (the provider is external)          *)
(*   device   a device poll that got a token, with what its start stored   *)
(*   login    POST /auth                                                   *)
(*   build, cleanup, patch   endpoints that take an OpenWhisk key          *)
(*                                                                         *)
(* CouchDB, the JWKS document, WhiskUser annotations and the clocks change *)
(* between a request's calls.  A CouchDB query or a JWKS request that      *)
(* fails gives no reply, like a call of KubeApi.                           *)
(***************************************************************************)
EXTENDS KubeApi, OidcToken, OwCredentials, SsoNamespace, UserEnv

CONSTANTS
  Requests,
  Users,            \* namespaces with documents, each a name
  KeyOf,            \* the OpenWhisk key of each, a pair uuid, key
  DocOf,            \* the document of each in users_metadata
  Worlds,           \* [cfg, skew, events, touched]: the environment variables, how
                    \* far the issuer's clock is ahead, a bound on outside events,
                    \* the users that administrators touch
  InputsOf,         \* the inputs of each request in each world
  JwksVersions      \* the documents the issuer publishes in turn

KeyKinds == {"build", "cleanup", "patch"}
LoginKinds == {"oidc", "grant", "device"}

\* The provider's digests are hexadecimal, longer than any suffix of them.
IsToken(t) ==
  /\ {t.header, t.claims} \subseteq {"object", "other", "garbled"}
  /\ t.signature \in {"good", "forged", "garbled"}
  /\ {t.exp.is, t.nbf.is} \subseteq {"number", "absent", "text"}
  /\ t.user \in Seq(STRING) /\ t.claimed \in Seq(STRING)
  /\ t.digest \in Seq(HexDigits) /\ Len(t.digest) >= 16
  /\ t.exp.value \in Int /\ t.nbf.value \in Int

\* A uuid has no ":", or encode() would refuse it.
IsKey(k) ==
  /\ k \in (Seq(STRING) \ {<<>>}) \X (Seq(STRING) \ {<<>>})
  /\ Colons(k[1]) = {}

ASSUME InputsAssumption ==
  /\ \A document \in JwksVersions : \A k \in DOMAIN document :
       document[k] \in {"rsa", "other", "garbled"}
  /\ \A u, v \in Users : KeyOf[u] = KeyOf[v] => u = v
  /\ \A u \in Users : u \in Seq(STRING) \ {<<>>} /\ IsKey(KeyOf[u])
  /\ \A w \in Worlds :
       /\ w.touched \subseteq Users
       /\ w.cfg.hashLength \in Int /\ w.cfg.maxLength \in Int
       /\ w.cfg.leeway \in Nat /\ w.skew \in Int /\ w.events \in Nat
       /\ \A r \in Requests : \A i \in InputsOf[w][r] :
            /\ i.kind \in KeyKinds \cup LoginKinds \cup {"login"}
            /\ IsToken(i.token) /\ i.host.name \in Seq(Seq(STRING))

\* A key of env is not empty and does not begin with SYSTEM_.
ASSUME DocsAssumption ==
  \A u \in Users : \A k \in DOMAIN EnvToDict(DocOf[u].env) :
    k \in Seq(STRING) \ {<<>>} /\ Head(k) # "SYSTEM"

VARIABLES
  world, clock, keys,
  subjects, metadata,   \* users with a document in each database
  gone,                 \* users being deleted for good
  unbound,              \* namespaces annotated sso-disabled
  left,                 \* outside events left
  pc, input, outcome,
  subject,              \* the subject a key belongs to
  namespace,            \* what a token's claims map to
  answer,               \* the environment answered or handed to the build
  ready,                \* requests with the key of a user who had both documents
  late,                 \* requests with the key of a user already deleted
  hit                   \* requests that met a failing call

outside == <<world, clock, keys, subjects, metadata, gone, unbound, left>>
vars == <<outside, pc, input, outcome, subject, namespace, answer, ready, late, hit>>

cfg == world.cfg
Labels == {"idle", "exchange", "validate", "disabled", "subject", "metadata", "done"}

\* What a request is answered, or "accepted" by its service, or "provision" when
\* a login goes on to make its namespace (SsoLogin).
Granted == {"ok", "noauth", "accepted", "provision"}
Status ==
  [o \in {"bad", "unmapped", "missing", "denied", "rejected", "invalid", "noenv", "forbidden",
          "mismatch", "unbound", "error", "noauth", "provider", "ok"} |->
     CASE o \in {"bad", "unmapped"} -> 400
       [] o \in {"missing", "denied", "rejected", "invalid", "noenv"} -> 401
       [] o \in {"forbidden", "mismatch", "unbound"} -> 403
       [] o \in {"error", "noauth"} -> 500
       [] o = "provider" -> 502
       [] o = "ok" -> 200]
Outcomes == DOMAIN Status \cup Granted \cup {"pending"}

\* No user, no namespace.
Nobody == <<>>
None == [kind |-> "none"]

TypeOK ==
  /\ world \in Worlds /\ keys \in JwksVersions
  /\ {subjects, metadata, gone, unbound} \subseteq SUBSET Users
  /\ pc \in [Requests -> Labels]
  /\ outcome \in [Requests -> Outcomes]
  /\ \A r \in Requests :
       /\ input[r] \in InputsOf[world][r] \cup {None}
       /\ input[r] = None <=> pc[r] = "idle"
       /\ outcome[r] = "pending" <=> pc[r] # "done"
       /\ subject[r] \in Users \cup {Nobody}
       /\ namespace[r] = Nobody \/ IsValidUsername(namespace[r])
  /\ {ready, late, hit} \subseteq SUBSET Requests

Init ==
  /\ world \in Worlds
  /\ clock = 0
  /\ keys \in JwksVersions
  /\ subjects = Users /\ metadata = Users
  /\ gone = {} /\ unbound = {}
  /\ left = world.events
  /\ pc = [r \in Requests |-> "idle"]
  /\ input = [r \in Requests |-> None]
  /\ outcome = [r \in Requests |-> "pending"]
  /\ subject = [r \in Requests |-> Nobody]
  /\ namespace = [r \in Requests |-> Nobody]
  /\ answer = [r \in Requests |-> <<>>]
  /\ ready = {} /\ late = {} /\ hit = {}

Goto(r, l) == pc' = [pc EXCEPT ![r] = l] /\ UNCHANGED outcome
End(r, o) == pc' = [pc EXCEPT ![r] = "done"] /\ outcome' = [outcome EXCEPT ![r] = o]

-----------------------------------------------------------------------------
(* Before the first call *)

\* Variant: compares the Origin with a host that still has its port.
RequestedNamespaceWithPort(origin, host) ==
  IF ~host.port /\ Len(origin) = Len(host.name) + 1 /\ Tail(origin) = host.name
    THEN Head(origin) ELSE Nobody

\* _requested_namespace_from_origin: the one label before the host of the API.
\* Host names are sequences of labels, a label the sequence of its characters.
RequestedNamespace(origin, host) ==
  IF Len(origin) = Len(host.name) + 1 /\ Tail(origin) = host.name
    THEN Head(origin) ELSE Nobody

\* The namespace a login asked for, if any.
Expected(i) ==
  CASE i.kind = "device" ->
         IF i.wanted # Nobody THEN i.wanted ELSE RequestedNamespace(i.origin, i.host)
    [] i.kind = "grant" -> i.wanted
    [] OTHER -> Nobody

\* The user whose key the header spells as encode() does.
SpellsKeyOf(i, u) ==
  /\ i.kind \in KeyKinds /\ i.header.scheme \in {"none", "basic"}
  /\ i.header.text = Encode(KeyOf[u][1], KeyOf[u][2]).text

\* The user whose key the header is read as.
HasKeyOf(i, u) == i.kind \in KeyKinds /\ Decode(i.header) = KeyOf[u]

\* A request is answered at once or goes on to its first call.  The decorator of
\* patch turns every exception into 401, authorize() catches AuthorizationError
\* alone.
Begin(r, i) ==
  CASE i.kind \in KeyKinds ->
         IF i.header.scheme = "absent" THEN End(r, "missing")
         ELSE IF Decode(i.header) = Unreadable
           THEN End(r, IF i.kind = "patch" THEN "rejected" ELSE "error")
         ELSE Goto(r, "subject")
    [] i.kind = "grant" -> IF i.complete THEN Goto(r, "exchange") ELSE End(r, "bad")
    [] i.kind = "login" ->
         IF i.body # "object" THEN End(r, IF i.body = "null" THEN "error" ELSE "bad")
         ELSE IF i.complete THEN Goto(r, "metadata")
         ELSE End(r, "error")
    [] OTHER -> Goto(r, "validate")

Arrive(r) ==
  /\ pc[r] = "idle"
  /\ \E i \in InputsOf[world][r] :
       /\ input' = [input EXCEPT ![r] = i]
       /\ Begin(r, i)
       /\ ready' = IF \E u \in (subjects \cap metadata) \ gone : SpellsKeyOf(i, u)
                     THEN ready \cup {r} ELSE ready
       /\ late' = IF \E u \in gone \ subjects : HasKeyOf(i, u) THEN late \cup {r} ELSE late
  /\ UNCHANGED <<outside, subject, namespace, answer, hit>>

-----------------------------------------------------------------------------
\* find_doc, and fetch_user_data and fetch_subject with it: a query that fails
\* finds nothing.
Finds(documents, u, f) == f = NoFault /\ u \in documents

(* Logins with a token *)

\* password(): the provider's reply to the grant.
Exchange(r, f) ==
  /\ pc[r] = "exchange"
  /\ IF f # NoFault THEN End(r, "provider")
     ELSE IF input[r].reply = "token" THEN Goto(r, "validate")
     ELSE End(r, "rejected")
  /\ UNCHANGED <<outside, input, subject, namespace, answer, ready, late>>

\* The head of login_oidc: the token's checks, with one request for the JWKS
\* document, then the mapping, then the namespace asked for.
ValidateToken(r, f) ==
  LET i == input[r]
      verdict == Validate(cfg, IF f = NoFault THEN keys ELSE Unavailable, clock, i.token)
      ns == NamespaceFor(cfg, i.token)
  IN
  /\ pc[r] = "validate"
  /\ CASE verdict = "invalid" -> End(r, "invalid") /\ UNCHANGED namespace
       [] verdict = "forbidden" -> End(r, "forbidden") /\ UNCHANGED namespace
       [] verdict = "raises" -> End(r, "error") /\ UNCHANGED namespace
       [] verdict = "ok" /\ ns = Underivable -> End(r, "unmapped") /\ UNCHANGED namespace
       [] verdict = "ok" /\ ns # Underivable ->
            /\ namespace' = [namespace EXCEPT ![r] = ns]
            /\ IF Expected(i) \notin {Nobody, ns} THEN End(r, "mismatch")
               ELSE Goto(r, "disabled")
  /\ UNCHANGED <<outside, input, subject, answer, ready, late>>

\* is_sso_login_disabled
CheckDisabled(r, f) ==
  /\ pc[r] = "disabled"
  /\ IF f = NoFault /\ namespace[r] \in unbound THEN End(r, "unbound") ELSE Goto(r, "metadata")
  /\ UNCHANGED <<outside, input, subject, namespace, answer, ready, late>>

\* From the user's document, or from there being none, to the answer.
FinishLogin(r, found) ==
  LET data == LoginData(DocOf[namespace[r]]) IN
  IF ~found THEN End(r, "provision") /\ UNCHANGED answer
  ELSE IF <<"AUTH">> \notin DOMAIN data THEN End(r, "noauth") /\ UNCHANGED answer
  ELSE End(r, "ok") /\ answer' = [answer EXCEPT ![r] = Answer(namespace[r], data)]

-----------------------------------------------------------------------------
(* Requests with an OpenWhisk key *)

\* Variant: remembers subjects of users who are gone.
ReadSubjectCached(r, f) ==
  LET owners == {u \in Users : /\ KeyOf[u] = Decode(input[r].header)
                               /\ Finds(subjects \cup gone, u, f)} IN
  /\ pc[r] = "subject"
  /\ IF owners # {}
       THEN /\ Goto(r, "metadata")
            /\ subject' = [subject EXCEPT ![r] = CHOOSE u \in owners : TRUE]
       ELSE End(r, "denied") /\ UNCHANGED subject
  /\ UNCHANGED <<outside, input, namespace, answer, ready, late>>

\* fetch_subject
ReadSubject(r, f) ==
  LET owners == {u \in Users : KeyOf[u] = Decode(input[r].header) /\ Finds(subjects, u, f)} IN
  /\ pc[r] = "subject"
  /\ IF owners # {}
       THEN /\ Goto(r, "metadata")
            /\ subject' = [subject EXCEPT ![r] = CHOOSE u \in owners : TRUE]
       ELSE End(r, "denied") /\ UNCHANGED subject
  /\ UNCHANGED <<outside, input, namespace, answer, ready, late>>

\* build(): the merged environment, the fields, and who the image is for.
FinishBuild(r, i) ==
  LET env == BuildEnv(DocOf[subject[r]]) IN
  IF DOMAIN env = {} THEN End(r, "noenv") /\ UNCHANGED answer
  ELSE IF i.body # "object" \/ ~i.complete THEN End(r, "bad") /\ UNCHANGED answer
  ELSE IF i.strict /\ i.target # subject[r] THEN End(r, "bad") /\ UNCHANGED answer
  ELSE End(r, "accepted") /\ answer' = [answer EXCEPT ![r] = env]

\* clean() looks at env alone and converts max_age_hours.
FinishCleanup(r, i) ==
  /\ IF DOMAIN EnvToDict(DocOf[subject[r]].env) = {} THEN End(r, "noenv")
     ELSE IF i.body # "object" THEN End(r, "bad")
     ELSE IF i.ageIsText THEN End(r, "error")
     ELSE End(r, "accepted")
  /\ UNCHANGED answer

\* login in authorized_data['login'] looks for a part of the name.
PartOf(part, s) == \E k \in 1..(Len(s) - Len(part) + 1) : SubSeq(s, k, k + Len(part) - 1) = part

\* password(login) inside its decorator.
FinishPatch(r, i) ==
  /\ IF i.body = "object" /\ i.complete /\ PartOf(i.target, subject[r])
       THEN End(r, "accepted") ELSE End(r, "rejected")
  /\ UNCHANGED answer

\* fetch_user_data of a login, of a subject and of POST /auth, then the rest of
\* the handler.
ReadMetadata(r, f) ==
  LET i == input[r]
      Found(u) == Finds(metadata, u, f)
  IN
  /\ pc[r] = "metadata"
  /\ CASE i.kind \in LoginKinds -> FinishLogin(r, Found(namespace[r]))
       [] i.kind = "login" ->
            End(r, IF Found(i.target) /\ i.rightPassword THEN "ok" ELSE "denied")
            /\ UNCHANGED answer
       [] i.kind \in KeyKinds /\ ~Found(subject[r]) -> End(r, "denied") /\ UNCHANGED answer
       [] i.kind = "build" /\ Found(subject[r]) -> FinishBuild(r, i)
       [] i.kind = "cleanup" /\ Found(subject[r]) -> FinishCleanup(r, i)
       [] i.kind = "patch" /\ Found(subject[r]) -> FinishPatch(r, i)
  /\ UNCHANGED <<outside, input, subject, namespace, ready, late>>

-----------------------------------------------------------------------------
(* The outside *)

Event == left > 0 /\ left' = left - 1

Tick ==
  /\ Event /\ clock' = clock + 1
  /\ UNCHANGED <<keys, subjects, metadata, gone, unbound>>

Rotate ==
  /\ Event /\ keys' \in JwksVersions \ {keys}
  /\ UNCHANGED <<clock, subjects, metadata, gone, unbound>>

\* The operator deletes a user's documents one after the other.
DeleteUser(u) ==
  /\ Event /\ gone' = gone \cup {u}
  /\ \/ u \in subjects /\ subjects' = subjects \ {u} /\ UNCHANGED metadata
     \/ u \in metadata /\ metadata' = metadata \ {u} /\ UNCHANGED subjects
  /\ UNCHANGED <<clock, keys, unbound>>

Unbind(u) ==
  /\ Event /\ u \notin unbound /\ unbound' = unbound \cup {u}
  /\ UNCHANGED <<clock, keys, subjects, metadata, gone>>

Outside ==
  /\ Tick \/ Rotate \/ \E u \in world.touched : DeleteUser(u) \/ Unbind(u)
  /\ UNCHANGED <<world, pc, input, outcome, subject, namespace, answer, ready, late, hit>>

-----------------------------------------------------------------------------
Call(r, f) ==
  /\ hit' = IF f = NoFault THEN hit ELSE hit \cup {r}
  /\ \/ Exchange(r, f) \/ ValidateToken(r, f) \/ CheckDisabled(r, f)
     \/ ReadSubject(r, f) \/ ReadMetadata(r, f)

Next ==
  \/ \E r \in Requests : Arrive(r) \/ \E f \in CallOutcomes : Call(r, f)
  \/ Outside

Spec == Init /\ [][Next]_vars

-----------------------------------------------------------------------------
IssuerClock == clock + world.skew

\* What the issuer signed for this audience, by a key that it publishes.
Signed(t) ==
  /\ t.parts = 3 /\ t.header = "object" /\ t.claims = "object"
  /\ t.alg = "RS256" /\ t.signature = "good" /\ KeyKind(keys, t.kid) = "rsa"
  /\ t.iss = cfg.issuer /\ cfg.audience \in t.aud

\* Live by the issuer's clock, give or take some seconds.
Live(t, slack) ==
  /\ t.exp.is = "number" /\ t.exp.value >= IssuerClock - slack
  /\ \/ t.nbf.is = "absent"
     \/ t.nbf.is = "number" /\ t.nbf.value <= IssuerClock + slack

\* How far from the issuer's clock a time claim may be judged.
Slack == cfg.leeway + (IF world.skew < 0 THEN -world.skew ELSE world.skew)

Genuine(t) ==
  /\ Signed(t) /\ Live(t, 0)
  /\ t.user # <<>> /\ Unsearchable \notin t.groups
  /\ cfg.jwksUrl /\ cfg.issuer # "" /\ cfg.audience # ""

\* A token that the issuer still stands for when it is looked at is not called
\* invalid (401) and raises nothing, however the two clocks differ within the
\* leeway and whatever keys were rotated before (OidcTokenValidator.validate).
GenuineAccepted ==
  [][\A r \in Requests :
       /\ pc[r] = "validate" /\ pc'[r] # "validate" /\ r \notin hit'
       /\ Genuine(input[r].token) /\ world.skew \in (-cfg.leeway)..cfg.leeway
       => outcome'[r] \notin {"invalid", "error"}]_vars

\* "Token is valid but required group is missing": a login is told 403 for its
\* group, and a token is mapped to a namespace, only when it is signed for this
\* API and, but for leeway and skew, live (the order of validate's checks).
ForbiddenIsGenuine ==
  [][\A r \in Requests :
       \/ outcome'[r] = "forbidden" /\ outcome[r] = "pending"
       \/ namespace'[r] # namespace[r]
       => Signed(input[r].token) /\ Live(input[r].token, Slack)]_vars

\* Whatever lengths are configured and whatever the user is called, a token that
\* passed is mapped to a namespace: the 400 of login_oidc is never answered.
NamespaceDerived == \A r \in Requests : outcome[r] # "unmapped"

\* Names made with a hash keep users apart whose hashes differ as far as they are
\* used, however long the users' own names are and however they are cut.
NamespacesApart ==
  LET Made(r) == /\ namespace[r] # Nobody
                 /\ namespace[r] \notin {input[r].token.claimed, input[r].token.user}
  IN
  \A r, q \in Requests :
    Made(r) /\ Made(q) /\ Suffix(cfg, input[r].token.digest) # Suffix(cfg, input[q].token.digest)
    => namespace[r] # namespace[q]

\* A browser on the page of a workspace, or a password login that names one, is
\* never logged in to another, also when the Origin and the Host header spell the
\* API's host with and without a port (start, poll and password with login_oidc).
WorkspaceKept ==
  \A r \in Requests, w \in Users :
    LET i == input[r] IN
    /\ outcome[r] \in Granted
    /\ \/ i.kind = "device" /\ i.wanted = Nobody /\ i.origin = <<w>> \o i.host.name
       \/ i.kind = "grant" /\ i.wanted = w
    => namespace[r] = w

\* The key of a user who stays, spelled as encode() does, leads to that user's
\* subject and is not denied when the calls get through (decode, login).
GoodKeyAccepted ==
  \A r \in ready \ hit, u \in Users \ gone :
    SpellsKeyOf(input[r], u) /\ pc[r] = "done" => subject[r] = u /\ outcome[r] # "denied"

\* A key sent after the user's subject was deleted is denied, although the user's
\* metadata may still be there (login reads both databases every time).
RevokedKeyRefused == \A r \in late : outcome[r] \in {"pending", "denied"}

\* A login's answer has every value of both environments: the user's under its
\* key, the system's under its key or under SYSTEM_key (map_login_data).  Keys
\* that the answer or a renamed system value takes over are left aside.
NoValueLost ==
  \A r \in Requests :
    outcome[r] = "ok" /\ input[r].kind \in LoginKinds =>
      LET system == EnvToDict(DocOf[namespace[r]].env)
          user == EnvToDict(DocOf[namespace[r]].userenv)
          Taken == {<<"LOGIN">>, <<"NAMESPACE">>} \cup {SystemKey(k) : k \in DOMAIN system}
          Has(k, v) == k \in DOMAIN answer[r] /\ answer[r][k] = v
      IN /\ \A k \in DOMAIN user \ Taken : Has(k, user[k])
         /\ \A k \in DOMAIN system \ Taken : Has(k, system[k]) \/ Has(SystemKey(k), system[k])

\* "401: Unauthorized. Invalid or missing OIDC token.": so is a token whose parts
\* cannot be decoded answered (POST /auth/oidc).
MalformedTokenIs401 ==
  \A r \in Requests :
    /\ pc[r] = "done" /\ input[r].kind = "oidc"
    /\ "garbled" \in {input[r].token.header, input[r].token.claims, input[r].token.signature}
    => Status[outcome[r]] = 401
=============================================================================
