----------------------------- MODULE DeviceFlow -----------------------------
(***************************************************************************)
(* impl/auth/oidc_device_flow_service.py: the device authorization flows   *)
(* kept in the dictionary _DEVICE_FLOWS, which every worker thread of the  *)
(* process reads and changes without a lock.  A request in Starts runs     *)
(* start(), a client in Clients polls the flow one start returned to it.   *)
(* flow ids are random and never reused, so a flow is named by its start.  *)
(* What the identity provider does (code) is external, modelled from the   *)
(* answers poll() distinguishes.                                           *)
(***************************************************************************)
EXTENDS Naturals, FiniteSets

CONSTANTS Starts, Clients,
          FlowOf,    \* the flow each client polls
          Faults     \* "refused": no answer, no effect; "lost": no answer;
                     \* "busy": an error status other than those of RFC 8628

ASSUME ClientsAssumption == /\ Starts \cap Clients = {}
                            /\ FlowOf \in [Clients -> Starts]

ASSUME FaultsAssumption == Faults \subseteq {"refused", "lost", "busy"}

VARIABLES
  store,     \* the flows in _DEVICE_FLOWS
  expired,   \* the flows whose expires_at has passed
  code,      \* the provider's view of each device code
  pc, outcome,
  size,      \* length of the dictionary when a start began to iterate it
  due,       \* how many items the iterator has yet to give (CPython's di_len)
  ahead,     \* entries that lie beyond its position in the table
  now,       \* flows that had expired when the start read the clock
  dead,      \* expired ids it has collected and not yet removed
  skipped,   \* history: entries that were moved past its position unvisited
  reply,     \* what the provider answered to a poll
  wiped      \* flows lost in a restart of the process

scanVars == <<size, due, ahead, now, dead, skipped>>
vars == <<store, expired, code, pc, outcome, scanVars, reply, wiped>>

Requests == Starts \cup Clients
NoFault == "none"
Outcomes200 == {"started", "login", "pending"}
OutcomesErr == {"unavailable", "crashed", "unknown", "expired", "rejected"}

\* The user may still complete the login.
Live == {"pending", "approved"}
Codes == Live \cup {"none", "denied", "expired", "redeemed"}

TypeOK ==
  /\ store \subseteq Starts
  /\ expired \subseteq Starts
  /\ code \in [Starts -> Codes]
  /\ pc \in [Requests -> {"idle", "scan", "scanning", "popping", "insert",
                          "ask", "handle", "done", "dead"}]
  /\ outcome \in [Requests -> {"none"} \cup Outcomes200 \cup OutcomesErr]
  /\ size \in [Starts -> Nat]
  /\ due \in [Starts -> Nat]
  /\ ahead \in [Starts -> SUBSET Starts]
  /\ now \in [Starts -> SUBSET Starts]
  /\ dead \in [Starts -> SUBSET Starts]
  /\ skipped \in [Starts -> SUBSET Starts]
  /\ reply \in [Clients -> {"none", "pending", "error", "token"}]
  /\ wiped \subseteq Starts

Init ==
  /\ store = {}
  /\ expired = {}
  /\ code = [s \in Starts |-> "none"]
  /\ pc = [r \in Requests |-> "idle"]
  /\ outcome = [r \in Requests |-> "none"]
  /\ size = [s \in Starts |-> 0]
  /\ due = [s \in Starts |-> 0]
  /\ ahead = [s \in Starts |-> {}]
  /\ now = [s \in Starts |-> {}]
  /\ dead = [s \in Starts |-> {}]
  /\ skipped = [s \in Starts |-> {}]
  /\ reply = [p \in Clients |-> "none"]
  /\ wiped = {}

Goto(r, l) == pc' = [pc EXCEPT ![r] = l]
End(r, o) == Goto(r, "done") /\ outcome' = [outcome EXCEPT ![r] = o]

\* The variables of a sweep go with the call.
Forget(s) ==
  /\ size' = [size EXCEPT ![s] = 0]
  /\ due' = [due EXCEPT ![s] = 0]
  /\ now' = [now EXCEPT ![s] = {}]
  /\ dead' = [dead EXCEPT ![s] = {}]

-----------------------------------------------------------------------------
(* start *)

\* POST to the device authorization endpoint; any failure is answered 502.
RequestCode(s, f) ==
  /\ pc[s] = "idle"
  /\ \/ /\ f = NoFault
        /\ code' = [code EXCEPT ![s] = "pending"]
        /\ Goto(s, "scan")
        /\ UNCHANGED outcome
     \/ /\ f # NoFault
        /\ End(s, "unavailable")
        /\ UNCHANGED code
  /\ UNCHANGED <<store, expired, scanVars, reply, wiped>>

\* _cleanup_expired reads the clock and starts iterating store.items().
BeginScan(s) ==
  /\ pc[s] = "scan"
  /\ now' = [now EXCEPT ![s] = expired]
  /\ size' = [size EXCEPT ![s] = Cardinality(store)]
  /\ due' = [due EXCEPT ![s] = Cardinality(store)]
  /\ ahead' = [ahead EXCEPT ![s] = store]
  /\ Goto(s, "scanning")
  /\ UNCHANGED <<store, expired, code, outcome, dead, skipped, reply, wiped>>

(* What the iterator of CPython 3.12 does when it is asked for the next item. *)

SameSize(s) == Cardinality(store) = size[s]

\* The next entry in the table is one of these; in which order is left open.
ToCome(s) == ahead[s] \cap store

\* Variant: catches the error and goes on with the ids it has collected.
ScanFailsTolerated(s) ==
  /\ pc[s] = "scanning"
  /\ ~SameSize(s) \/ (ToCome(s) # {} /\ due[s] = 0)
  /\ Goto(s, "popping")
  /\ UNCHANGED <<store, expired, code, outcome, scanVars, reply, wiped>>

\* RuntimeError: "dictionary changed size during iteration", or "dictionary keys
\* changed during iteration" at an entry beyond the number it began with.
ScanFails(s) ==
  /\ pc[s] = "scanning"
  /\ ~SameSize(s) \/ (ToCome(s) # {} /\ due[s] = 0)
  /\ End(s, "crashed")
  /\ Forget(s)
  /\ ahead' = [ahead EXCEPT ![s] = {}]
  /\ skipped' = [skipped EXCEPT ![s] = {}]
  /\ UNCHANGED <<store, expired, code, reply, wiped>>

\* Variant: compares the wrong way round.
ScanItemInverted(s) ==
  /\ pc[s] = "scanning" /\ SameSize(s) /\ due[s] > 0
  /\ \E x \in ToCome(s) :
       /\ ahead' = [ahead EXCEPT ![s] = @ \ {x}]
       /\ dead' = [dead EXCEPT ![s] = IF x \in now[s] THEN @ ELSE @ \cup {x}]
  /\ due' = [due EXCEPT ![s] = @ - 1]
  /\ UNCHANGED <<store, expired, code, pc, outcome, size, now, skipped, reply, wiped>>

ScanItem(s) ==
  /\ pc[s] = "scanning" /\ SameSize(s) /\ due[s] > 0
  /\ \E x \in ToCome(s) :
       /\ ahead' = [ahead EXCEPT ![s] = @ \ {x}]
       /\ dead' = [dead EXCEPT ![s] = IF x \in now[s] THEN @ \cup {x} ELSE @]
  /\ due' = [due EXCEPT ![s] = @ - 1]
  /\ UNCHANGED <<store, expired, code, pc, outcome, size, now, skipped, reply, wiped>>

\* No entry is left beyond the position, whether or not all were visited.
ScanEnds(s) ==
  /\ pc[s] = "scanning" /\ SameSize(s)
  /\ ToCome(s) = {}
  /\ Goto(s, "popping")
  /\ size' = [size EXCEPT ![s] = 0]
  /\ due' = [due EXCEPT ![s] = 0]
  /\ ahead' = [ahead EXCEPT ![s] = {}]
  /\ UNCHANGED <<store, expired, code, outcome, now, dead, skipped, reply, wiped>>

PopExpired(s) ==
  /\ pc[s] = "popping"
  /\ \E x \in dead[s] :
       /\ store' = store \ {x}
       /\ dead' = [dead EXCEPT ![s] = @ \ {x}]
  /\ UNCHANGED <<expired, code, pc, outcome, size, due, ahead, now, skipped, reply, wiped>>

PopsEnd(s) ==
  /\ pc[s] = "popping"
  /\ dead[s] = {}
  /\ Goto(s, "insert")
  /\ UNCHANGED <<store, expired, code, outcome, scanVars, reply, wiped>>

Scanning == {t \in Starts : pc[t] = "scanning"}

\* The flow is stored, behind all others, and its id returned.  A full table is
\* rebuilt without the entries popped before, which moves up the rest: what then
\* lies before the position of an iterator (lost) it will not visit.  It may be
\* any entry: the capacity of the table and the order of the entries are left open.
Insert(s) ==
  /\ pc[s] = "insert"
  /\ store' = store \cup {s}
  /\ \E lost \in [Scanning -> SUBSET store'] :
       /\ \A t \in Scanning : lost[t] \subseteq ToCome(t) \cup {s}
       /\ ahead' = [t \in Starts |-> IF t \in Scanning THEN (ahead[t] \cup {s}) \ lost[t]
                                                     ELSE ahead[t]]
       /\ skipped' = [t \in Starts |-> IF t = s THEN {}
                                       ELSE IF t \in Scanning THEN skipped[t] \cup lost[t]
                                       ELSE skipped[t]]
  /\ End(s, "started")
  /\ Forget(s)
  /\ UNCHANGED <<expired, code, reply, wiped>>

-----------------------------------------------------------------------------
(* poll *)

\* Variant: does not look at expires_at.
LookupIgnoresExpiry(p) ==
  LET s == FlowOf[p] IN
  /\ outcome[s] = "started"
  /\ \/ pc[p] \in {"idle", "dead"}
     \/ pc[p] = "done" /\ outcome[p] \in {"pending", "unavailable"}
  /\ \/ s \notin store /\ End(p, "unknown")
     \/ s \in store /\ Goto(p, "ask") /\ UNCHANGED outcome
  /\ UNCHANGED <<store, expired, code, scanVars, reply, wiped>>

\* A client that was given its flow id polls; so it does again after an answer
\* that does not settle the flow (202, 502) or a dropped connection.
Lookup(p) ==
  LET s == FlowOf[p] IN
  /\ outcome[s] = "started"
  /\ \/ pc[p] \in {"idle", "dead"}
     \/ pc[p] = "done" /\ outcome[p] \in {"pending", "unavailable"}
  /\ \/ s \notin store /\ End(p, "unknown") /\ UNCHANGED store
     \/ s \in store /\ s \in expired /\ store' = store \ {s} /\ End(p, "expired")
     \/ s \in store /\ s \notin expired /\ Goto(p, "ask") /\ UNCHANGED <<store, outcome>>
  /\ UNCHANGED <<expired, code, scanVars, reply, wiped>>

\* The provider answers the token request.  A device code gives one token.
Ask(p, f) ==
  LET s == FlowOf[p]
      answer == CASE code[s] = "pending" -> "pending"
                  [] code[s] = "approved" -> "token"
                  [] OTHER -> "error" IN
  /\ pc[p] = "ask"
  /\ code' = IF answer = "token" /\ f \in {NoFault, "lost"}
               THEN [code EXCEPT ![s] = "redeemed"] ELSE code
  /\ reply' = [reply EXCEPT ![p] = CASE f = NoFault -> answer
                                     [] f = "busy" -> "error"
                                     [] OTHER -> "none"]
  /\ Goto(p, "handle")
  /\ UNCHANGED <<store, expired, outcome, scanVars, wiped>>

\* Variant: drops the flow before it looks at the error of the answer.
HandlePopsFirst(p) ==
  /\ pc[p] = "handle"
  /\ \/ reply[p] = "none" /\ End(p, "unavailable") /\ UNCHANGED store
     \/ /\ reply[p] # "none"
        /\ End(p, CASE reply[p] = "pending" -> "pending"
                    [] reply[p] = "error" -> "rejected"
                    [] OTHER -> "login")
        /\ store' = store \ {FlowOf[p]}
  /\ reply' = [reply EXCEPT ![p] = "none"]
  /\ UNCHANGED <<expired, code, scanVars, wiped>>

\* An exception keeps the flow (502), as does a pending login (202); an error
\* status drops it (401), and a token drops it and goes on to login_oidc.
Handle(p) ==
  LET s == FlowOf[p] IN
  /\ pc[p] = "handle"
  /\ \/ reply[p] = "none" /\ End(p, "unavailable") /\ UNCHANGED store
     \/ reply[p] = "pending" /\ End(p, "pending") /\ UNCHANGED store
     \/ reply[p] = "error" /\ End(p, "rejected") /\ store' = store \ {s}
     \/ reply[p] = "token" /\ End(p, "login") /\ store' = store \ {s}
  /\ reply' = [reply EXCEPT ![p] = "none"]
  /\ UNCHANGED <<expired, code, scanVars, wiped>>

-----------------------------------------------------------------------------
\* The API pod is replaced: the dictionary and the running requests are gone.
Running == {r \in Requests : pc[r] \notin {"idle", "done", "dead"}}

Restart ==
  /\ store # {} \/ Running # {}
  /\ wiped' = wiped \cup store
  /\ store' = {}
  /\ pc' = [r \in Requests |-> IF r \in Running THEN "dead" ELSE pc[r]]
  /\ size' = [s \in Starts |-> 0]
  /\ due' = [s \in Starts |-> 0]
  /\ ahead' = [s \in Starts |-> {}]
  /\ now' = [s \in Starts |-> {}]
  /\ dead' = [s \in Starts |-> {}]
  /\ skipped' = [s \in Starts |-> {}]
  /\ reply' = [p \in Clients |-> "none"]
  /\ UNCHANGED <<expired, code, outcome>>

\* The user approves or denies at the provider, or the device code lapses.
UserActs(s) ==
  /\ \/ code[s] = "pending" /\ \E a \in {"approved", "denied"} : code' = [code EXCEPT ![s] = a]
     \/ code[s] \in Live /\ code' = [code EXCEPT ![s] = "expired"]
  /\ UNCHANGED <<store, expired, pc, outcome, scanVars, reply, wiped>>

\* expires_at is later than the provider's own deadline: both count expires_in
\* seconds, the provider from when it issued the code.
Expire(s) ==
  /\ outcome[s] = "started"
  /\ s \notin expired
  /\ code[s] \notin Live
  /\ expired' = expired \cup {s}
  /\ UNCHANGED <<store, code, pc, outcome, scanVars, reply, wiped>>

StartStep(s, f) ==
  \/ RequestCode(s, f) \/ BeginScan(s) \/ ScanFails(s) \/ ScanItem(s) \/ ScanEnds(s)
  \/ PopExpired(s) \/ PopsEnd(s) \/ Insert(s)

PollStep(p, f) == Lookup(p) \/ Ask(p, f) \/ Handle(p)

Next ==
  \/ \E f \in Faults \cup {NoFault} :
       (\E s \in Starts : StartStep(s, f)) \/ (\E p \in Clients : PollStep(p, f))
  \/ \E s \in Starts : UserActs(s) \/ Expire(s)
  \/ Restart

Spec == Init /\ [][Next]_vars

\* Clients poll on, their threads run and time passes for the flows they poll
\* (codes lapse, flows expire).  Nothing is assumed of the starts.
Fairness ==
  /\ \A s \in {FlowOf[p] : p \in Clients} :
       WF_vars(code[s] \in Live /\ UserActs(s)) /\ WF_vars(Expire(s))
  /\ \A p \in Clients : WF_vars(\E f \in Faults \cup {NoFault} : PollStep(p, f))

FairSpec == Spec /\ Fairness

-----------------------------------------------------------------------------
\* The flow a user can still complete is in the dictionary, unless the process
\* was replaced: no sweep of another start takes it, whatever was stale in what
\* it iterated, and no concurrent poll does on an answer that RFC 8628 knows (on
\* another error status, the fault "busy", a poll drops it all the same).
LiveFlowKept ==
  \A s \in Starts :
    outcome[s] = "started" /\ code[s] \in Live => s \in store \cup wiped

\* When a start is about to store its flow, every flow that had expired when its
\* sweep read the clock is out of the dictionary, although polls and other sweeps
\* popped and stored flows while it iterated; only an entry moved past its position
\* by a rebuild of the table, when another start stored a flow, is left to the
\* next sweep.
SweepComplete ==
  \A s \in Starts : pc[s] = "insert" => store \cap now[s] \subseteq skipped[s]

\* A client that keeps polling is told how its login ended, even if the
\* provider never answers again.
Settled(p) == pc[p] = "done" /\ outcome[p] \notin {"pending", "unavailable"}
PollingEnds ==
  \A p \in Clients : outcome[FlowOf[p]] = "started" ~> Settled(p)

\* The documented answers of POST /auth/oidc/device/start are 200 and 502.
StartAnswersAsDocumented ==
  \A s \in Starts : pc[s] = "done" => outcome[s] \in {"started", "unavailable"}

-----------------------------------------------------------------------------
(* The inductive invariant behind LiveFlowKept *)

ExpiredInv ==
  /\ \A s \in expired : code[s] \notin Live \cup {"none"} /\ outcome[s] = "started"
  /\ \A s \in Starts : now[s] \subseteq expired /\ dead[s] \subseteq expired

ReplyInv ==
  \A p \in Clients : pc[p] = "handle" /\ reply[p] \in {"error", "token"} =>
    code[FlowOf[p]] \notin Live \cup {"none"}

\* A flow has a code once its start is past the provider's answer.
IssuedInv ==
  \A s \in Starts :
    /\ pc[s] # "idle" /\ outcome[s] # "unavailable" => code[s] # "none"
    /\ s \in store => outcome[s] = "started"
    /\ outcome[s] \in {"started", "unavailable"} => pc[s] = "done"

PolledInv ==
  \A p \in Clients : pc[p] \in {"ask", "handle"} => outcome[FlowOf[p]] = "started"

FlowInv == TypeOK /\ ExpiredInv /\ ReplyInv /\ IssuedInv /\ PolledInv /\ LiveFlowKept
=============================================================================
