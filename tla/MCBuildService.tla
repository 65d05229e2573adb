--------------------------- MODULE MCBuildService ---------------------------
(***************************************************************************)
(* Small instances of BuildService: up to two builds and two clean-ups of  *)
(* the users alice and bob.  MCSweeps begins in one of three situations in *)
(* which the program can be: the build b1 and both clean-ups are to come;  *)
(* b1 has left an old job and bob's build b2, which sweeps too, is to      *)
(* come; or b2, whose time is up, holds a worker for want of its pod, and  *)
(* b1 and a clean-up are to come.                                          *)
(***************************************************************************)
EXTENDS BuildService, TLC

CONSTANTS b1, b2, c1, c2, alice, bob

OwnerAlice == [r \in Requests |-> alice]
OwnerBoth == [r \in Requests |-> IF r = b2 THEN bob ELSE alice]

SameBuilds == Permutations(Builds)

\* The requests of R are to come, those of past have been answered as it says
\* and all others were refused; no sweep is under way and no call has failed.
ToCome(R, past) ==
  /\ outcome = [r \in Requests |-> IF r \in R THEN "pending"
                                  ELSE IF r \in past THEN "accepted" ELSE "refused"]
  /\ tmpdirs = {}
  /\ listed = [r \in Requests |-> {}]
  /\ swept = [r \in Requests |-> {}]
  /\ hit = {}
  /\ regAuth = [b \in Builds |-> IF b \in past THEN DefaultSecret ELSE NoAuth]
  /\ left = [b \in Builds |-> IF b \in past /\ pods[b] # Absent THEN Timeout ELSE 0]
  /\ pc = [r \in Requests |-> IF r \in R THEN "idle"
                             ELSE IF r \in past /\ pods[r] = Absent THEN "listpods" ELSE "done"]

AtFirst == ClusterInit /\ ToCome({b1, c1, c2}, {})

\* The configuration and the default secret are there, and what b left.
Left(b, job, pod, context) ==
  /\ configMaps = [k \in Builds \cup {BuildkitdConf} |->
                     IF k \in {BuildkitdConf} \cup context THEN "present" ELSE Absent]
  /\ secrets = [n \in SecretNames |-> IF n = DefaultSecret THEN System ELSE Absent]
  /\ jobs = [d \in Builds |-> IF d = b THEN job ELSE Absent]
  /\ pods = [d \in Builds |-> IF d = b THEN pod ELSE Absent]

AfterBuild == Left(b1, "complete", "copied", {}) /\ aged = {b1} /\ ToCome({b2}, {b1})
WhileHung == Left(b2, "failed", Absent, {b2}) /\ aged = {b2} /\ ToCome({b1, c1}, {b2})

MCInit == AtFirst \/ AfterBuild \/ WhileHung

\* Behaviours of the program from then on.
MCSpec == MCInit /\ [][Next]_vars /\ Fairness
=============================================================================
