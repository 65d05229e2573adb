---------------------------- MODULE BuildPromise ----------------------------
(***************************************************************************)
(* What POST /build/start promises of each build, whoever else builds and  *)
(* cleans up, and whatever fails: its job is created at most once, and     *)
(* only while its context is published; it is reported as accepted if and  *)
(* only if it was seen to be created, once and for all; the context of an  *)
(* accepted build is not withdrawn before it was copied; a job is removed  *)
(* only after it has ended, and never comes back.  A build that is not     *)
(* accepted has no such promise, though its job may exist: the answer of   *)
(* its creation may have been lost.                                        *)
(***************************************************************************)
CONSTANT Builds

VARIABLES
  stage,     \* of each build's job: "awaited", "copying" the context, "building",
             \* "complete", "failed", or "gone" when there is and will be none
  verdict,   \* on each build: "pending", "accepted" or "refused"
  published  \* the builds whose context can be copied

vars == <<stage, verdict, published>>

Init ==
  /\ stage = [b \in Builds |-> "awaited"]
  /\ verdict = [b \in Builds |-> "pending"]
  /\ published = {}

Undecided(b) == stage[b] = "awaited" /\ verdict[b] = "pending"

Publish(b) ==
  /\ Undecided(b)
  /\ published' = published \cup {b}
  /\ UNCHANGED <<stage, verdict>>

\* The answer that its context is published may be lost.
Refuse(b) ==
  /\ Undecided(b)
  /\ stage' = [stage EXCEPT ![b] = "gone"]
  /\ verdict' = [verdict EXCEPT ![b] = "refused"]
  /\ published' \in {published, published \cup {b}}

\* The process dies with requests that it has not decided.
Abandon(B) ==
  /\ \A b \in B : Undecided(b)
  /\ stage' = [b \in Builds |-> IF b \in B THEN "gone" ELSE stage[b]]
  /\ UNCHANGED <<verdict, published>>

Submit(b) ==
  /\ Undecided(b) /\ b \in published
  /\ stage' = [stage EXCEPT ![b] = "copying"]
  /\ \E v \in {"accepted", "refused"} : verdict' = [verdict EXCEPT ![b] = v]
  /\ UNCHANGED published

\* What the cluster does with a job.
Advance(b) ==
  /\ \/ stage[b] = "copying" /\ stage' = [stage EXCEPT ![b] = "building"]
     \/ stage[b] = "building" /\ stage' = [stage EXCEPT ![b] = "complete"]
     \/ stage[b] \in {"copying", "building"} /\ stage' = [stage EXCEPT ![b] = "failed"]
  /\ UNCHANGED <<verdict, published>>

Withdraw(b) ==
  /\ verdict[b] # "pending"
  /\ ~(verdict[b] = "accepted" /\ stage[b] = "copying")
  /\ published' = published \ {b}
  /\ UNCHANGED <<stage, verdict>>

Remove(b) ==
  /\ stage[b] \in {"complete", "failed"}
  /\ stage' = [stage EXCEPT ![b] = "gone"]
  /\ UNCHANGED <<verdict, published>>

Next ==
  \/ \E b \in Builds :
       Publish(b) \/ Refuse(b) \/ Submit(b) \/ Advance(b) \/ Withdraw(b) \/ Remove(b)
  \/ \E B \in SUBSET Builds : Abandon(B)

Spec == Init /\ [][Next]_vars
=============================================================================
