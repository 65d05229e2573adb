--------------------------- MODULE PasswordProofs ---------------------------
(***************************************************************************)
(* Password updates keep what others wrote, for any number of updates and  *)
(* edits and whatever calls fail.                                          *)
(***************************************************************************)
EXTENDS PasswordUpdate, TLAPS

\* The invariant holds before any request.
LEMMA PasswordInit == Init => PasswordInv
  BY UpdatesAssumption DEF Init, PasswordInv, TypeOK, CopyInv, Resource, Ended

\* No step of a request, of others or of the operator breaks it.
LEMMA PasswordStep == PasswordInv /\ [Next]_vars => PasswordInv'
<1> SUFFICES ASSUME PasswordInv, [Next]_vars PROVE PasswordInv'
  OBVIOUS
<1> USE UpdatesAssumption DEF PasswordInv, TypeOK, CopyInv, Resource, Ended, Accepted, Goto, End, Write
<1>1. ASSUME NEW u \in Updates, NEW f \in CallOutcomes, Verify(u, f) PROVE PasswordInv'
  <2>1. CASE Goto(u, "read") /\ UNCHANGED outcome
    BY <1>1, <2>1 DEF Verify
  <2>2. ASSUME NEW o \in {"unauthorized", "crashed"}, End(u, o) PROVE PasswordInv'
    BY <1>1, <2>2 DEF Verify
  <2>3. QED
    BY <1>1, <2>1, <2>2 DEF Verify
<1>2. ASSUME NEW u \in Updates, NEW f \in CallOutcomes, ReadUser(u, f) PROVE PasswordInv'
  <2>1. CASE f = NoFault
    <3>1. /\ copy' = [copy EXCEPT ![u] = whiskUser] /\ pc' = [pc EXCEPT ![u] = "put"]
          /\ UNCHANGED <<whiskUser, metadata, outcome, written>>
      BY <1>2, <2>1 DEF ReadUser
    <3>2. TypeOK'
      BY <3>1
    <3>3. ASSUME NEW q \in Updates, pc'[q] = "put"
          PROVE  copy'[q].version <= whiskUser.version
                 /\ (copy'[q].version = whiskUser.version => copy'[q] = whiskUser)
      <4>1. CASE q = u
        BY <3>1, <4>1
      <4>2. CASE q # u
        BY <3>1, <3>3, <4>2
      <4>3. QED
        BY <4>1, <4>2
    <3>4. QED
      BY <3>1, <3>2, <3>3
  <2>2. CASE f # NoFault
    BY <1>2, <2>2 DEF ReadUser
  <2>3. QED
    BY <2>1, <2>2
<1>3. ASSUME NEW u \in Updates, NEW f \in CallOutcomes, Put(u, f) PROVE PasswordInv'
  <2>1. pc[u] = "put" /\ copy' = copy /\ pc' = [pc EXCEPT ![u] = "done"]
    BY <1>3 DEF Put
  <2>2. \/ whiskUser' = whiskUser
        \/ /\ copy[u].version = whiskUser.version
           /\ whiskUser' = Write(NewPassword[u], copy[u].edits)
    BY <1>3 DEF Put
  <2>3. whiskUser' \in Resource /\ whiskUser.version <= whiskUser'.version
    <3>1. copy[u] \in Resource
      OBVIOUS
    <3>2. CASE whiskUser' = Write(NewPassword[u], copy[u].edits)
      BY <2>2, <3>1, <3>2
    <3>3. QED
      BY <2>2, <3>2
  <2>4. whiskUser' = whiskUser \/ whiskUser'.version = whiskUser.version + 1
    BY <2>2
  <2>5. TypeOK'
    BY <1>3, <2>3 DEF Put
  <2>6. CopyInv'
    BY <2>1, <2>3, <2>4
  <2>7. QED
    BY <2>5, <2>6
<1>4. CASE Restart
  BY <1>4 DEF Restart
<1>5. ASSUME NEW e \in Edits, Edit(e) PROVE PasswordInv'
  <2>1. /\ whiskUser' = Write(whiskUser.password, whiskUser.edits \cup {e})
        /\ UNCHANGED <<metadata, pc, outcome, copy, written>>
    BY <1>5 DEF Edit
  <2>2. whiskUser' \in Resource /\ whiskUser'.version = whiskUser.version + 1
    BY <2>1
  <2>3. TypeOK'
    BY <2>1, <2>2
  <2>4. CopyInv'
    BY <2>1, <2>2
  <2>5. QED
    BY <2>3, <2>4
<1>6. CASE Reconcile
  BY <1>6 DEF Reconcile
<1>7. CASE UNCHANGED vars
  BY <1>7 DEF vars
<1>8. QED
  BY <1>1, <1>2, <1>3, <1>4, <1>5, <1>6, <1>7 DEF Next

\* A PUT that is executed carries every edit of the resource it replaces.
LEMMA EditsStep ==
  PasswordInv /\ [Next]_vars => [whiskUser.edits \subseteq whiskUser'.edits]_vars
<1> SUFFICES ASSUME PasswordInv, [Next]_vars PROVE whiskUser.edits \subseteq whiskUser'.edits
  OBVIOUS
<1>1. ASSUME NEW u \in Updates, NEW f \in CallOutcomes, Put(u, f)
      PROVE  whiskUser.edits \subseteq whiskUser'.edits
  <2>1. CASE Accepted(copy[u])
    <3>1. copy[u] = whiskUser
      BY <1>1, <2>1 DEF Put, PasswordInv, CopyInv
    <3>2. \/ whiskUser' = whiskUser
          \/ whiskUser' = Write(NewPassword[u], whiskUser.edits)
      BY <1>1, <3>1 DEF Put
    <3>3. QED
      BY <3>2 DEF Write
  <2>2. CASE ~Accepted(copy[u])
    BY <1>1, <2>2 DEF Put
  <2>3. QED
    BY <2>1, <2>2
<1>2. ASSUME NEW e \in Edits, Edit(e) PROVE whiskUser.edits \subseteq whiskUser'.edits
  BY <1>2 DEF Edit, Write
<1>3. QED
  BY <1>1, <1>2 DEF Next, Verify, ReadUser, Restart, Reconcile, vars

\* A request that is about to PUT holds an older version of the WhiskUser or
\* exactly the one that is there, whoever else writes it.
THEOREM PasswordSafe == Spec => []PasswordInv
  BY PasswordInit, PasswordStep, PTL DEF Spec

\* A password update never undoes what others wrote into the WhiskUser.
THEOREM ForeignEditsSafe == Spec => ForeignEditsKept
  BY PasswordSafe, EditsStep, PTL DEF Spec, ForeignEditsKept
=============================================================================
