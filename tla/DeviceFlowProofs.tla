-------------------------- MODULE DeviceFlowProofs --------------------------
(***************************************************************************)
(* Theorems about DeviceFlow for every set of starts and clients.          *)
(***************************************************************************)
EXTENDS DeviceFlow, FiniteSetTheorems, TLAPS

\* The invariant holds of the empty dictionary.
LEMMA FlowInit == Init => FlowInv
  BY ClientsAssumption
  DEF Init, FlowInv, TypeOK, ExpiredInv, ReplyInv, IssuedInv, PolledInv, LiveFlowKept, Requests, Codes, Live

\* Every step keeps it when the provider's error answers are final.
LEMMA FlowStep ==
  ASSUME "busy" \notin Faults, IsFiniteSet(Starts), FlowInv, [Next]_vars
  PROVE  FlowInv'
<1> USE DEF FlowInv, TypeOK, ExpiredInv, ReplyInv, IssuedInv, PolledInv, LiveFlowKept, Requests, Codes, Live,
            Outcomes200, OutcomesErr, Goto, End, Forget, scanVars, NoFault
<1> USE ClientsAssumption
<1>1. ASSUME NEW s \in Starts, NEW f \in Faults \cup {NoFault}, StartStep(s, f) PROVE FlowInv'
  <2>1. CASE RequestCode(s, f)
    <3>1. TypeOK'
      <4>1. CASE f = NoFault
        <5>1. /\ code' = [code EXCEPT ![s] = "pending"]
              /\ pc' = [pc EXCEPT ![s] = "scan"] /\ outcome' = outcome
              /\ UNCHANGED <<store, expired, scanVars, reply, wiped>>
          BY <2>1, <4>1 DEF RequestCode
        <5>2. QED
          BY <5>1
      <4>2. CASE f # NoFault
        <5>1. /\ pc' = [pc EXCEPT ![s] = "done"]
              /\ outcome' = [outcome EXCEPT ![s] = "unavailable"] /\ code' = code
              /\ UNCHANGED <<store, expired, scanVars, reply, wiped>>
          BY <2>1, <4>2 DEF RequestCode
        <5>2. QED
          BY <5>1
      <4>3. QED
        BY <4>1, <4>2
    <3>2. ExpiredInv'
      BY <2>1 DEF RequestCode
    <3>3. ReplyInv'
      BY <2>1 DEF RequestCode
    <3>4. IssuedInv'
      BY <2>1 DEF RequestCode
    <3>5. LiveFlowKept'
      BY <2>1 DEF RequestCode
    <3>6. PolledInv'
      BY <2>1 DEF RequestCode
    <3>7. QED
      BY <3>1, <3>2, <3>3, <3>4, <3>5, <3>6
  <2>2. CASE BeginScan(s)
    <3>1. Cardinality(store) \in Nat
      BY FS_Subset, FS_CardinalityType
    <3>2. QED
      BY <2>2, <3>1 DEF BeginScan
  <2>3. CASE ScanFails(s)
    <3>1. TypeOK'
      BY <2>3 DEF ScanFails
    <3>2. ExpiredInv'
      BY <2>3 DEF ScanFails
    <3>3. ReplyInv'
      BY <2>3 DEF ScanFails
    <3>4. IssuedInv'
      <4>1. /\ pc' = [pc EXCEPT ![s] = "done"] /\ outcome' = [outcome EXCEPT ![s] = "crashed"]
            /\ store' = store /\ code' = code /\ pc[s] \notin {"idle", "done"}
        BY <2>3 DEF ScanFails
      <4>2. outcome[s] # "started"
        BY <4>1
      <4>3. code[s] # "none"
        BY <2>3 DEF ScanFails
      <4> SUFFICES ASSUME NEW t \in Starts
                   PROVE  /\ pc'[t] # "idle" /\ outcome'[t] # "unavailable" => code'[t] # "none"
                          /\ t \in store' => outcome'[t] = "started"
                          /\ outcome'[t] \in {"started", "unavailable"} => pc'[t] = "done"
        OBVIOUS
      <4>4. CASE t = s
        BY <4>1, <4>2, <4>3, <4>4
      <4>5. CASE t # s
        BY <4>1, <4>5
      <4>6. QED
        BY <4>4, <4>5
    <3>5. LiveFlowKept'
      BY <2>3 DEF ScanFails
    <3>6. PolledInv'
      BY <2>3 DEF ScanFails
    <3>7. QED
      BY <3>1, <3>2, <3>3, <3>4, <3>5, <3>6
  <2>4. CASE ScanItem(s)
    <3>1. TypeOK'
      BY <2>4 DEF ScanItem
    <3>2. ExpiredInv'
      BY <2>4 DEF ScanItem
    <3>3. ReplyInv' /\ IssuedInv'
      BY <2>4 DEF ScanItem
    <3>4. LiveFlowKept' /\ PolledInv'
      BY <2>4 DEF ScanItem
    <3>5. QED
      BY <3>1, <3>2, <3>3, <3>4
  <2>5. CASE ScanEnds(s)
    <3>1. TypeOK'
      BY <2>5 DEF ScanEnds
    <3>2. ExpiredInv'
      BY <2>5 DEF ScanEnds
    <3>3. ReplyInv' /\ IssuedInv'
      BY <2>5 DEF ScanEnds
    <3>4. LiveFlowKept' /\ PolledInv'
      BY <2>5 DEF ScanEnds
    <3>5. QED
      BY <3>1, <3>2, <3>3, <3>4
  <2>6. CASE PopExpired(s)
    <3>1. TypeOK'
      BY <2>6 DEF PopExpired
    <3>2. ExpiredInv'
      BY <2>6 DEF PopExpired
    <3>3. ReplyInv' /\ IssuedInv'
      BY <2>6 DEF PopExpired
    <3>4. LiveFlowKept' /\ PolledInv'
      BY <2>6 DEF PopExpired
    <3>5. QED
      BY <3>1, <3>2, <3>3, <3>4
  <2>7. CASE PopsEnd(s)
    <3>1. TypeOK'
      BY <2>7 DEF PopsEnd
    <3>2. ExpiredInv'
      BY <2>7 DEF PopsEnd
    <3>3. ReplyInv' /\ IssuedInv'
      BY <2>7 DEF PopsEnd
    <3>4. LiveFlowKept' /\ PolledInv'
      BY <2>7 DEF PopsEnd
    <3>5. QED
      BY <3>1, <3>2, <3>3, <3>4
  <2>8. CASE Insert(s)
    <3>1. TypeOK'
      BY <2>8 DEF Insert
    <3>2. ExpiredInv'
      BY <2>8 DEF Insert
    <3>3. ReplyInv'
      BY <2>8 DEF Insert
    <3>4. IssuedInv'
      <4>1. /\ pc' = [pc EXCEPT ![s] = "done"] /\ outcome' = [outcome EXCEPT ![s] = "started"]
            /\ store' = store \cup {s} /\ code' = code /\ pc[s] \notin {"idle", "done"}
        BY <2>8 DEF Insert
      <4>2. outcome[s] # "started"
        BY <4>1
      <4>3. code[s] # "none"
        BY <2>8 DEF Insert
      <4> SUFFICES ASSUME NEW t \in Starts
                   PROVE  /\ pc'[t] # "idle" /\ outcome'[t] # "unavailable" => code'[t] # "none"
                          /\ t \in store' => outcome'[t] = "started"
                          /\ outcome'[t] \in {"started", "unavailable"} => pc'[t] = "done"
        OBVIOUS
      <4>4. CASE t = s
        BY <4>1, <4>2, <4>3, <4>4
      <4>5. CASE t # s
        BY <4>1, <4>5
      <4>6. QED
        BY <4>4, <4>5
    <3>5. LiveFlowKept'
      BY <2>8 DEF Insert
    <3>6. PolledInv'
      BY <2>8 DEF Insert
    <3>7. QED
      BY <3>1, <3>2, <3>3, <3>4, <3>5, <3>6
  <2>9. QED
    BY <1>1, <2>1, <2>2, <2>3, <2>4, <2>5, <2>6, <2>7, <2>8 DEF StartStep
<1>2. ASSUME NEW p \in Clients, NEW f \in Faults \cup {NoFault}, PollStep(p, f) PROVE FlowInv'
  <2>1. CASE Lookup(p)
    <3>1. /\ outcome[FlowOf[p]] = "started"
          /\ UNCHANGED <<expired, code, scanVars, reply, wiped>>
          /\ \/ store' = store /\ End(p, "unknown")
             \/ store' = store \ {FlowOf[p]} /\ FlowOf[p] \in expired /\ End(p, "expired")
             \/ store' = store /\ Goto(p, "ask") /\ outcome' = outcome
      BY <2>1 DEF Lookup
    <3>2. TypeOK'
      <4>1. store' \subseteq Starts /\ UNCHANGED <<expired, code, scanVars, reply, wiped>>
        BY <3>1
      <4>2. pc' \in [Requests -> {"idle", "scan", "scanning", "popping", "insert",
                                "ask", "handle", "done", "dead"}]
        <5>1. \E l \in {"ask", "done"} : pc' = [pc EXCEPT ![p] = l]
          BY <3>1
        <5>2. QED
          BY <5>1
      <4>3. outcome' \in [Requests -> {"none"} \cup Outcomes200 \cup OutcomesErr]
        <5>1. \/ outcome' = outcome
              \/ \E o \in OutcomesErr : outcome' = [outcome EXCEPT ![p] = o]
          BY <3>1
        <5>2. QED
          BY <5>1
      <4>4. QED
        BY <4>1, <4>2, <4>3
    <3>3. ExpiredInv' /\ ReplyInv'
      BY <3>1
    <3>4. IssuedInv' /\ PolledInv'
      BY <3>1
    <3>5. LiveFlowKept'
      BY <3>1
    <3>6. QED
      BY <3>2, <3>3, <3>4, <3>5
  <2>2. CASE Ask(p, f)
    BY <2>2, SMTT(20) DEF Ask
  <2>3. CASE Handle(p)
    <3>1. TypeOK'
      <4>1. pc' = [pc EXCEPT ![p] = "done"] /\ store' \subseteq store
        BY <2>3 DEF Handle
      <4>2. \E o \in {"unavailable", "pending", "rejected", "login"} :
              outcome' = [outcome EXCEPT ![p] = o]
        BY <2>3 DEF Handle
      <4>3. reply' = [reply EXCEPT ![p] = "none"]
            /\ UNCHANGED <<expired, code, scanVars, wiped>>
        BY <2>3 DEF Handle
      <4>4. QED
        BY <4>1, <4>2, <4>3
    <3>2. ExpiredInv'
      BY <2>3 DEF Handle
    <3>3. ReplyInv'
      BY <2>3 DEF Handle
    <3>4. IssuedInv'
      BY <2>3 DEF Handle
    <3>5. LiveFlowKept'
      BY <2>3 DEF Handle
    <3>6. PolledInv'
      BY <2>3 DEF Handle
    <3>7. QED
      BY <3>1, <3>2, <3>3, <3>4, <3>5, <3>6
  <2>4. QED
    BY <1>2, <2>1, <2>2, <2>3 DEF PollStep
<1>3. ASSUME NEW s \in Starts, UserActs(s) \/ Expire(s) PROVE FlowInv'
  BY <1>3 DEF UserActs, Expire
<1>4. CASE Restart
  BY <1>4 DEF Restart, Running
<1>5. CASE UNCHANGED vars
  BY <1>5 DEF vars
<1>6. QED
  BY <1>1, <1>2, <1>3, <1>4, <1>5 DEF Next

\* If the provider reports only the errors of RFC 8628, flows that expired or
\* whose code is settled are the only ones a sweep or a poll can take.
THEOREM FlowsSafe ==
  ASSUME "busy" \notin Faults, IsFiniteSet(Starts)
  PROVE  Spec => []FlowInv
<1>1. FlowInv /\ [Next]_vars => FlowInv'
  BY FlowStep
<1>2. QED
  BY <1>1, FlowInit, PTL DEF Spec

\* Then a flow the user can still complete is lost by nothing but a restart, for
\* any number of starts that sweep and clients that poll at the same time.
THEOREM LiveFlowSafe ==
  ASSUME "busy" \notin Faults, IsFiniteSet(Starts)
  PROVE  Spec => []LiveFlowKept
<1>1. FlowInv => LiveFlowKept
  BY DEF FlowInv
<1>2. QED
  BY <1>1, FlowsSafe, PTL

-----------------------------------------------------------------------------
(* What a sweep removes of the flows that had expired when it read the clock. *)
(* While it iterates, such a flow is collected, lies ahead or was skipped;    *)
(* then what it collected or skipped alone can still be in the dictionary.    *)
(* No other start adds an expired flow: it would be one never returned.       *)

SweepTypes ==
  /\ store \subseteq Starts
  /\ now \in [Starts -> SUBSET Starts]
  /\ ahead \in [Starts -> SUBSET Starts]
  /\ dead \in [Starts -> SUBSET Starts]
  /\ skipped \in [Starts -> SUBSET Starts]
  /\ pc \in [Requests -> {"idle", "scan", "scanning", "popping", "insert",
                          "ask", "handle", "done", "dead"}]
  /\ outcome \in [Requests -> {"none"} \cup Outcomes200 \cup OutcomesErr]

\* What a start knows of its own sweep.
SweepOf(s) ==
  /\ now[s] \subseteq expired
  /\ outcome[s] = "started" => pc[s] = "done"
  /\ pc[s] = "scanning" => store \cap now[s] \subseteq dead[s] \cup ahead[s] \cup skipped[s]
  /\ pc[s] = "popping" => store \cap now[s] \subseteq dead[s] \cup skipped[s]
  /\ pc[s] = "insert" => store \cap now[s] \subseteq skipped[s]

ExpiredStarted == \A s \in expired : s \in Starts /\ outcome[s] = "started"

SweepInv ==
  /\ SweepTypes
  /\ ExpiredStarted
  /\ \A s \in Starts : SweepOf(s)

\* Steps of the polls leave the sweeps alone but for flows they remove.
LEMMA PollKeepsSweep ==
  ASSUME SweepInv, NEW p \in Clients, NEW f \in Faults \cup {NoFault}, PollStep(p, f)
  PROVE  SweepInv'
<1> USE DEF PollStep, Lookup, Ask, Handle, Goto, End, scanVars
<1>0. store' \subseteq store /\ UNCHANGED <<expired, now, ahead, dead, skipped>>
  OBVIOUS
<1>1. \E l \in {"ask", "handle", "done"} : pc' = [pc EXCEPT ![p] = l]
  OBVIOUS
<1>1a. \/ outcome' = outcome
       \/ \E o \in Outcomes200 \cup OutcomesErr : outcome' = [outcome EXCEPT ![p] = o]
  <2>1. CASE Lookup(p)
    BY <2>1 DEF OutcomesErr
  <2>2. CASE Ask(p, f)
    BY <2>2
  <2>3. CASE Handle(p)
    BY <2>3 DEF Outcomes200, OutcomesErr
  <2>4. QED
    BY <2>1, <2>2, <2>3
<1> USE <1>0, <1>1a
<1> HIDE DEF PollStep, Lookup, Ask, Handle, Goto, End, scanVars
<1>2. p \notin Starts /\ p \in Requests
  BY ClientsAssumption DEF Requests
<1>3. \A s \in Starts : pc'[s] = pc[s] /\ outcome'[s] = outcome[s]
  BY <1>1, <1>2 DEF SweepInv, SweepTypes, Requests
<1>4. SweepTypes'
  BY <1>1, <1>2 DEF SweepInv, SweepTypes, Outcomes200, OutcomesErr
<1>5. ExpiredStarted'
  BY <1>1, <1>3 DEF SweepInv, ExpiredStarted
<1>6. ASSUME NEW s \in Starts PROVE SweepOf(s)'
  BY <1>1, <1>3 DEF SweepInv, SweepOf
<1>7. QED
  BY <1>4, <1>5, <1>6 DEF SweepInv

\* What a step of one start may do to the sweep of another: the flow it stores
\* was not returned before, so it is not one that had expired, and what leaves
\* the entries ahead of an iterator is noted as skipped.
MayDisturb(s, t) ==
  /\ expired' = expired
  /\ store' \subseteq store \/ (pc[s] = "insert" /\ store' = store \cup {s})
  /\ pc'[t] = pc[t] /\ outcome'[t] = outcome[t]
  /\ now'[t] = now[t] /\ dead'[t] = dead[t]
  /\ skipped[t] \subseteq skipped'[t]
  /\ ahead[t] \subseteq ahead'[t] \cup skipped'[t]

LEMMA OtherSweepsKept ==
  ASSUME SweepInv, NEW s \in Starts, NEW t \in Starts, t # s, MayDisturb(s, t)
  PROVE  SweepOf(t)'
<1>1. pc[s] = "insert" => s \notin now[t]
  BY DEF SweepInv, SweepOf, ExpiredStarted
<1>2. store' \cap now'[t] \subseteq store \cap now[t]
  BY <1>1 DEF MayDisturb
<1>3. QED
  BY <1>2 DEF SweepInv, SweepOf, MayDisturb

\* Every step of a start keeps SweepInv.
LEMMA StartKeepsSweep ==
  ASSUME SweepInv, NEW s \in Starts, NEW f \in Faults \cup {NoFault}, StartStep(s, f)
  PROVE  SweepInv'
<1> USE DEF Goto, End, Forget, scanVars, SweepInv
<1> DEFINE Effect == /\ SweepTypes'
                     /\ outcome[s] # "started"
                     /\ outcome' = outcome \/ pc'[s] = "done"
                     /\ expired' = expired
                     /\ \A t \in Starts \ {s} : MayDisturb(s, t)
<1>1. ASSUME RequestCode(s, f) PROVE Effect /\ SweepOf(s)'
  <2>1. Effect
    BY <1>1 DEF RequestCode, MayDisturb, SweepTypes, SweepOf, Requests, Outcomes200, OutcomesErr
  <2>2. SweepOf(s)'
    BY <1>1 DEF RequestCode, SweepTypes, SweepOf, Requests, Outcomes200, OutcomesErr
  <2>3. QED
    BY <2>1, <2>2
<1>2. ASSUME BeginScan(s) PROVE Effect /\ SweepOf(s)'
  <2>1. Effect
    BY <1>2 DEF BeginScan, MayDisturb, SweepTypes, SweepOf, Requests, Outcomes200, OutcomesErr, ExpiredStarted
  <2>2. SweepOf(s)'
    BY <1>2 DEF BeginScan, SweepTypes, SweepOf, Requests, Outcomes200, OutcomesErr
  <2>3. QED
    BY <2>1, <2>2
<1>3. ASSUME ScanFails(s) PROVE Effect /\ SweepOf(s)'
  <2>1. Effect
    BY <1>3 DEF ScanFails, MayDisturb, SweepTypes, SweepOf, Requests, Outcomes200, OutcomesErr
  <2>2. SweepOf(s)'
    BY <1>3 DEF ScanFails, SweepTypes, SweepOf, Requests, Outcomes200, OutcomesErr
  <2>3. QED
    BY <2>1, <2>2
<1>4. ASSUME ScanItem(s) PROVE Effect /\ SweepOf(s)'
  <2>1. Effect
    <3>1. PICK x \in ToCome(s) :
            /\ ahead' = [ahead EXCEPT ![s] = @ \ {x}]
            /\ dead' = [dead EXCEPT ![s] = IF x \in now[s] THEN @ \cup {x} ELSE @]
      BY <1>4 DEF ScanItem
    <3>2. pc[s] = "scanning" /\ UNCHANGED <<store, expired, pc, outcome, now, skipped>>
      BY <1>4 DEF ScanItem
    <3>3. SweepTypes'
      BY <3>1, <3>2 DEF SweepTypes, ToCome
    <3>4. QED
      BY <3>1, <3>2, <3>3 DEF SweepTypes, SweepOf, MayDisturb
  <2>2. SweepOf(s)'
    BY <1>4 DEF ScanItem, ToCome, SweepTypes, SweepOf, Requests, Outcomes200, OutcomesErr
  <2>3. QED
    BY <2>1, <2>2
<1>5. ASSUME ScanEnds(s) PROVE Effect /\ SweepOf(s)'
  <2>1. Effect
    BY <1>5 DEF ScanEnds, MayDisturb, SweepTypes, SweepOf, Requests, Outcomes200, OutcomesErr
  <2>2. SweepOf(s)'
    BY <1>5 DEF ScanEnds, ToCome, SweepTypes, SweepOf, Requests, Outcomes200, OutcomesErr
  <2>3. QED
    BY <2>1, <2>2
<1>6. ASSUME PopExpired(s) PROVE Effect /\ SweepOf(s)'
  <2>1. Effect
    BY <1>6 DEF PopExpired, MayDisturb, SweepTypes, SweepOf, Requests, Outcomes200, OutcomesErr
  <2>2. SweepOf(s)'
    BY <1>6 DEF PopExpired, SweepTypes, SweepOf, Requests, Outcomes200, OutcomesErr
  <2>3. QED
    BY <2>1, <2>2
<1>7. ASSUME PopsEnd(s) PROVE Effect /\ SweepOf(s)'
  <2>1. Effect
    BY <1>7 DEF PopsEnd, MayDisturb, SweepTypes, SweepOf, Requests, Outcomes200, OutcomesErr
  <2>2. SweepOf(s)'
    BY <1>7 DEF PopsEnd, SweepTypes, SweepOf, Requests, Outcomes200, OutcomesErr
  <2>3. QED
    BY <2>1, <2>2
<1>8. ASSUME Insert(s) PROVE Effect /\ SweepOf(s)'
  <2>1. PICK lost \in [Scanning -> SUBSET store'] :
          /\ ahead' = [t \in Starts |-> IF t \in Scanning THEN (ahead[t] \cup {s}) \ lost[t]
                                                        ELSE ahead[t]]
          /\ skipped' = [t \in Starts |-> IF t = s THEN {}
                                          ELSE IF t \in Scanning THEN skipped[t] \cup lost[t]
                                          ELSE skipped[t]]
    BY <1>8 DEF Insert
  <2>2. /\ pc[s] = "insert" /\ store' = store \cup {s} /\ expired' = expired
        /\ pc' = [pc EXCEPT ![s] = "done"] /\ outcome' = [outcome EXCEPT ![s] = "started"]
        /\ now' = [now EXCEPT ![s] = {}] /\ dead' = [dead EXCEPT ![s] = {}]
    BY <1>8 DEF Insert
  <2>3. \A t \in Scanning : lost[t] \subseteq Starts
    BY <2>2 DEF SweepTypes
  <2>4. SweepTypes'
    BY <2>1, <2>2, <2>3 DEF SweepTypes, Requests, Outcomes200
  <2>5. \A t \in Starts \ {s} : MayDisturb(s, t)
    BY <2>1, <2>2 DEF SweepTypes, MayDisturb, Requests
  <2>6. outcome[s] # "started"
    BY <2>2 DEF SweepOf
  <2>7. SweepOf(s)'
    BY <2>2 DEF SweepTypes, SweepOf, Requests
  <2>8. QED
    BY <2>2, <2>4, <2>5, <2>6, <2>7 DEF SweepTypes, Requests
<1>9. Effect /\ SweepOf(s)'
  BY <1>1, <1>2, <1>3, <1>4, <1>5, <1>6, <1>7, <1>8 DEF StartStep
<1>10. ExpiredStarted'
  BY <1>9 DEF ExpiredStarted, MayDisturb
<1>11. \A t \in Starts \ {s} : SweepOf(t)'
  BY <1>9, OtherSweepsKept
<1>12. QED
  BY <1>9, <1>10, <1>11

\* Every step keeps SweepInv.
LEMMA SweepStep == SweepInv /\ [Next]_vars => SweepInv'
<1> SUFFICES ASSUME SweepInv, [Next]_vars PROVE SweepInv'
  OBVIOUS
<1>1. ASSUME NEW s \in Starts, NEW f \in Faults \cup {NoFault}, StartStep(s, f) PROVE SweepInv'
  BY <1>1, StartKeepsSweep
<1>2. ASSUME NEW p \in Clients, NEW f \in Faults \cup {NoFault}, PollStep(p, f) PROVE SweepInv'
  BY <1>2, PollKeepsSweep
<1>3. ASSUME NEW s \in Starts, UserActs(s) PROVE SweepInv'
  BY <1>3 DEF UserActs, SweepInv, SweepTypes, SweepOf, ExpiredStarted, scanVars
<1>4. ASSUME NEW s \in Starts, Expire(s) PROVE SweepInv'
  <2>1. /\ outcome[s] = "started" /\ expired' = expired \cup {s}
        /\ UNCHANGED <<store, pc, outcome, now, ahead, dead, skipped>>
    BY <1>4 DEF Expire, scanVars
  <2>2. QED
    BY <2>1 DEF SweepInv, SweepTypes, SweepOf, ExpiredStarted
<1>5. CASE Restart
  <2>1. SweepTypes'
    BY <1>5 DEF Restart, SweepInv, SweepTypes, Requests
  <2>2. ExpiredStarted'
    BY <1>5 DEF Restart, SweepInv, ExpiredStarted
  <2>3. ASSUME NEW t \in Starts PROVE SweepOf(t)'
    BY <1>5 DEF Restart, Running, SweepInv, SweepTypes, SweepOf, Requests
  <2>4. QED
    BY <2>1, <2>2, <2>3 DEF SweepInv
<1>6. CASE UNCHANGED vars
  BY <1>6 DEF vars, scanVars, SweepInv, SweepTypes, SweepOf, ExpiredStarted
<1>7. QED
  BY <1>1, <1>2, <1>3, <1>4, <1>5, <1>6 DEF Next

\* A start that gets through its iteration has removed every flow that had
\* expired when it read the clock, but for those that a rebuild of the table
\* moved past its position, for any number of starts that store, of sweeps and
\* polls that pop at the same time, and for any faults.
THEOREM SweepRemovesExpired == Spec => []SweepComplete
<1>1. Init => SweepInv
  BY DEF Init, SweepInv, SweepTypes, SweepOf, ExpiredStarted, Requests
<1>2. SweepInv => SweepComplete
  BY DEF SweepInv, SweepOf, SweepComplete
<1>3. QED
  BY <1>1, <1>2, SweepStep, PTL DEF Spec
=============================================================================
