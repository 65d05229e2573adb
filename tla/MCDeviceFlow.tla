---------------------------- MODULE MCDeviceFlow ----------------------------
(***************************************************************************)
(* Small instances of DeviceFlow.  All clients poll the flow of s1.        *)
(* MCFlows begins in one of two situations in which the program can be:    *)
(* all starts but s1 and s2 have failed and nothing else has happened; or  *)
(* that of s1 has failed, the flows of s4 and s5 are stored, the codes of  *)
(* both have lapsed, the flow of s4 has expired, and s2 and s3 begin to    *)
(* sweep.                                                                  *)
(***************************************************************************)
EXTENDS DeviceFlow

CONSTANTS s1, s2, s3, s4, s5, p1, p2

SameFlow == [p \in Clients |-> s1]

\* Variables of requests that are not in a loop.
Quiet ==
  /\ size = [s \in Starts |-> 0]
  /\ due = [s \in Starts |-> 0]
  /\ ahead = [s \in Starts |-> {}]
  /\ now = [s \in Starts |-> {}]
  /\ dead = [s \in Starts |-> {}]
  /\ skipped = [s \in Starts |-> {}]
  /\ reply = [p \in Clients |-> "none"]
  /\ wiped = {}

TwoStart ==
  /\ store = {}
  /\ expired = {}
  /\ code = [s \in Starts |-> "none"]
  /\ pc = [r \in Requests |-> IF r \in {s3, s4, s5} THEN "done" ELSE "idle"]
  /\ outcome = [r \in Requests |-> IF r \in {s3, s4, s5} THEN "unavailable" ELSE "none"]

TwoStored ==
  /\ store = {s4, s5}
  /\ expired = {s4}
  /\ code = [s \in Starts |-> CASE s = s1 -> "none"
                              [] s \in store -> "expired"
                              [] OTHER -> "pending"]
  /\ pc = [r \in Requests |-> CASE r \in store \cup {s1} -> "done"
                               [] r \in {s2, s3} -> "scan"
                               [] OTHER -> "idle"]
  /\ outcome = [r \in Requests |-> CASE r = s1 -> "unavailable"
                                    [] r \in store -> "started"
                                    [] OTHER -> "none"]

MCInit == Quiet /\ (TwoStart \/ TwoStored)

\* Behaviours of the program from then on.
MCSpec == MCInit /\ [][Next]_vars /\ Fairness
=============================================================================
