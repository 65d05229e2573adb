----------------------------- MODULE AuthProofs -----------------------------
(***************************************************************************)
(* Proofs about AuthRequests, for every set of users, requests, worlds and *)
(* inputs that InputsAssumption allows.                                    *)
(***************************************************************************)
EXTENDS AuthRequests, TextProofs

(* The checks of a token and its mapping *)

\* The smallest of a set of numbers is one of them.
LEMMA MinOfSet ==
  ASSUME NEW S \in SUBSET Nat, S # {}
  PROVE  Min(S) \in S /\ \A i \in S : Min(S) <= i
BY SmallestOf, Zenon DEF Min

\* A verdict other than "ok" is that of a check that fails while none before it
\* does, and "ok" is that of none failing.
Speaks(all, verdict) ==
  \/ verdict = "ok" /\ \A i \in 1..20 : ~all[i][1]
  \/ \E i \in 1..20 : verdict = all[i][2] /\ all[i][1] /\ \A j \in 1..(i - 1) : ~all[j][1]

LEMMA VerdictIsFirst ==
  ASSUME NEW c, NEW k, NEW now, NEW t
  PROVE  Speaks(Checks(c, k, now, t), Validate(c, k, now, t))
<1> DEFINE all == Checks(c, k, now, t)
<1> DEFINE failing == {i \in 1..20 : all[i][1]}
<1>1. Len(all) = 20
  BY DEF Checks
<1>2. Validate(c, k, now, t) = IF failing = {} THEN "ok" ELSE all[Min(failing)][2]
  BY <1>1, Zenon DEF Validate, FirstFailing
<1> HIDE DEF all
<1> SUFFICES Speaks(all, Validate(c, k, now, t))
  BY DEF all
<1>3. CASE failing = {}
  BY <1>2, <1>3, Zenon DEF Speaks
<1>4. CASE failing # {}
  <2>1. failing \in SUBSET Nat
    BY SMT
  <2>2. Min(failing) \in failing /\ \A i \in failing : Min(failing) <= i
    BY <1>4, <2>1, MinOfSet, Zenon
  <2>3. \A m, j \in Int : j \in 1..(m - 1) => ~(m <= j)
    BY SMT
  <2>4. \A j \in 1..(Min(failing) - 1) : j \in 1..20 /\ j \in Int
    BY <2>2
  <2>5. \A j \in 1..(Min(failing) - 1) : ~all[j][1]
    BY <2>2, <2>3, <2>4
  <2>6. Validate(c, k, now, t) = all[Min(failing)][2]
    BY <1>2, <1>4, Zenon
  <2> QED BY <2>2, <2>5, <2>6, Zenon DEF Speaks
<1> QED BY <1>3, <1>4, Zenon

\* A token that is good but, maybe, for its group, passes every check but those
\* of the group and of the user name.
LEMMA PassedChecks ==
  ASSUME NEW c, NEW k, NEW now, NEW t, Validate(c, k, now, t) \in {"ok", "forbidden"}
  PROVE  /\ t.parts = 3 /\ t.header \notin {"other", "garbled"} /\ t.claims \notin {"other", "garbled"}
         /\ t.alg = "RS256" /\ t.signature \notin {"forged", "garbled"}
         /\ k # Unavailable /\ KeyKind(k, t.kid) \notin {"none", "other", "garbled"}
         /\ t.iss = c.issuer /\ c.audience \in t.aud
         /\ t.exp.is # "text" /\ ~ExpiredAt(c, t, now)
         /\ t.nbf.is # "text" /\ ~NotYetAt(c, t, now)
<1>1. PICK all : all = Checks(c, k, now, t) /\ Speaks(all, Validate(c, k, now, t))
  BY VerdictIsFirst, Zenon
<1>2. \A i \in 1..20 : i \in 1..18 \/ i = 19 \/ i = 20
  OBVIOUS
<1>3. /\ all[1][2] = "invalid" /\ all[3][2] = "invalid" /\ all[5][2] = "invalid" /\ all[7][2] = "invalid"
      /\ all[9][2] = "invalid" /\ all[10][2] = "invalid" /\ all[12][2] = "invalid" /\ all[13][2] = "invalid"
      /\ all[15][2] = "invalid" /\ all[17][2] = "invalid" /\ all[20][2] = "invalid"
      /\ all[2][2] = "raises" /\ all[4][2] = "raises" /\ all[6][2] = "raises" /\ all[8][2] = "raises"
      /\ all[11][2] = "raises" /\ all[14][2] = "raises" /\ all[16][2] = "raises" /\ all[18][2] = "raises"
  BY <1>1 DEF Checks
<1>4. \A i \in 1..20 : i \in {1, 3, 5, 7, 9, 10, 12, 13, 15, 17, 20} \/ i \in {2, 4, 6, 8, 11, 14, 16, 18} \/ i = 19
  OBVIOUS
<1>5. \A i \in 1..20 : all[i][2] \in {"ok", "forbidden"} => i = 19
  BY <1>3, <1>4
<1>7. \A j \in 1..18 : ~all[j][1]
  BY <1>1, <1>5 DEF Speaks
<1>8. /\ ~all[1][1] /\ ~all[2][1] /\ ~all[3][1] /\ ~all[4][1] /\ ~all[6][1] /\ ~all[7][1]
      /\ ~all[8][1] /\ ~all[9][1] /\ ~all[11][1] /\ ~all[12][1] /\ ~all[13][1] /\ ~all[14][1]
      /\ ~all[15][1] /\ ~all[16][1] /\ ~all[17][1]
  BY <1>7
<1> QED
  BY <1>1, <1>8 DEF Checks

\* What the issuer stands for fails no check but that of the group.
Configured(c) == c.jwksUrl /\ c.issuer # "" /\ c.audience # ""

LEMMA NoOtherCheckFails ==
  ASSUME NEW c, NEW k, NEW now \in Int, NEW t,
         c.leeway \in Nat, NEW skew \in Int, -c.leeway <= skew, skew <= c.leeway,
         t.parts = 3, t.header = "object", t.claims = "object", t.alg = "RS256",
         t.signature = "good", KeyKind(k, t.kid) = "rsa", t.iss = c.issuer, c.audience \in t.aud,
         t.exp.is = "number", t.exp.value \in Int, t.exp.value >= now + skew,
         t.nbf.is \in {"absent", "number"}, t.nbf.value \in Int,
         t.nbf.is = "number" => t.nbf.value <= now + skew,
         t.user # <<>>, Unsearchable \notin t.groups,
         Configured(c)
  PROVE  Validate(c, k, now, t) \in {"ok", "forbidden"}
<1>1. PICK all : all = Checks(c, k, now, t) /\ Speaks(all, Validate(c, k, now, t))
  BY VerdictIsFirst, Zenon
<1>2. k # Unavailable
  <2>1. KeyKind(Unavailable, t.kid) # "rsa"
    BY DEF Unavailable, KeyKind
  <2> QED BY <2>1
<1>3. ~ExpiredAt(c, t, now)
  BY DEF ExpiredAt
<1>4. ~NotYetAt(c, t, now)
  BY DEF NotYetAt
<1>5. /\ ~all[1][1] /\ ~all[2][1] /\ ~all[3][1] /\ ~all[4][1] /\ ~all[5][1] /\ ~all[6][1]
      /\ ~all[7][1] /\ ~all[8][1] /\ ~all[9][1] /\ ~all[10][1] /\ ~all[11][1] /\ ~all[12][1]
      /\ ~all[13][1] /\ ~all[14][1] /\ ~all[15][1] /\ ~all[16][1] /\ ~all[17][1] /\ ~all[18][1]
      /\ ~all[20][1]
  BY <1>1, <1>2, <1>3, <1>4 DEF Checks, Configured
<1>6. \A i \in 1..20 : i \in {1, 2, 3, 4, 5, 6, 7, 8, 9, 10, 11, 12, 13, 14, 15, 16, 17, 18, 20} \/ i = 19
  OBVIOUS
<1>7. \A i \in 1..20 : i = 19 \/ ~all[i][1]
  BY <1>5, <1>6
<1>8. all[19][2] = "forbidden"
  BY <1>1 DEF Checks
<1> QED BY <1>1, <1>7, <1>8, ZenonT(30) DEF Speaks

\* The fallback name is valid: "user" and 6 to 16 hexadecimal digits.
LEMMA FallbackValid ==
  ASSUME NEW c, c.hashLength \in Int, NEW digest \in Seq(HexDigits), Len(digest) >= 16
  PROVE  IsValidUsername(UserWord \o Suffix(c, digest))
<1> DEFINE n == SuffixLen(c)
           tail == Suffix(c, digest)
<1>1. n \in 6..16 /\ tail \in Seq(HexDigits) /\ Len(tail) = n
  BY SuffixType, Zenon
<1>2. HexDigits \subseteq Alnum
  BY DEF Alnum
<1> HIDE DEF n, tail
<1>3. tail \in Seq(Alnum)
  BY <1>1, <1>2
<1>4. UserWord \o tail \in Seq(Alnum) /\ Len(UserWord \o tail) = 4 + n
  <2>1. /\ UserWord \o tail \in Seq(Alnum)
        /\ Len(UserWord \o tail) = Len(UserWord) + Len(tail)
    BY <1>3, UserWordType, ConcatProperties, Zenon
  <2> QED BY <1>1, <2>1, UserWordType
<1>5. Len(UserWord \o tail) \in 5..61
  BY <1>1, <1>4
<1>6. \A i \in 1..Len(UserWord \o tail) : (UserWord \o tail)[i] \in Alnum
  BY <1>4, ElementOfSeq
<1> QED BY <1>5, <1>6 DEF IsValidUsername, tail

\* Every token that passed is mapped, and to a valid name.
LEMMA AlwaysMapped ==
  ASSUME NEW c, c.hashLength \in Int, NEW t, IsToken(t)
  PROVE  IsValidUsername(NamespaceFor(c, t)) /\ NamespaceFor(c, t) # Underivable
<1>1. IsValidUsername(UserWord \o Suffix(c, t.digest))
  BY FallbackValid DEF IsToken
<1>2. IsValidUsername(Normalized(c, t.user, t.digest))
  BY <1>1, Zenon DEF Normalized
<1>3. IsValidUsername(NamespaceFor(c, t))
  BY <1>2, Zenon DEF NamespaceFor
<1>4. ~IsValidUsername(Underivable)
  BY DEF IsValidUsername, Underivable
<1> QED BY <1>3, <1>4, Zenon

LEMMA KeysReadable == \A u \in Users : KeyOf[u] # Unreadable
<1>1. ASSUME NEW k, IsKey(k) PROVE k # Unreadable
  <2>1. PICK x \in Seq(STRING), y \in Seq(STRING) : k = <<x, y>>
    BY <1>1 DEF IsKey
  <2> QED BY <2>1 DEF Unreadable
<1> QED BY <1>1, InputsAssumption

-----------------------------------------------------------------------------
(* The invariant *)

\* A request's label fits its input, its outcome and its subject.
FlowOf(r) ==
  /\ input[r] = None <=> pc[r] = "idle"
  /\ pc[r] # "idle" => input[r] \in InputsOf[world][r]
  /\ outcome[r] = "pending" <=> pc[r] # "done"
  /\ outcome[r] # "unmapped"
  /\ pc[r] \in {"exchange", "validate", "disabled"} => input[r].kind \in LoginKinds
  /\ pc[r] = "subject" => input[r].kind \in KeyKinds
  /\ subject[r] \in Users \cup {Nobody}

\* A request's namespace is what its token maps to, and a login that goes on or
\* was granted has one that it may have asked for.
NamespaceOf(r) ==
  /\ namespace[r] # Nobody =>
       /\ pc[r] # "idle"
       /\ namespace[r] = NamespaceFor(cfg, input[r].token)
       /\ IsValidUsername(namespace[r])
  /\ (pc[r] \in {"disabled", "metadata"} \/ outcome[r] \in Granted) /\ input[r].kind \in LoginKinds
     => namespace[r] # Nobody /\ Expected(input[r]) \in {Nobody, namespace[r]}

\* A key sent too late is looked up in vain.
LateOf(r) ==
  r \in late =>
    /\ pc[r] \in {"subject", "done"} /\ outcome[r] \in {"pending", "denied"}
    /\ \E u \in gone \ subjects : HasKeyOf(input[r], u)

Each(r) == FlowOf(r) /\ NamespaceOf(r) /\ LateOf(r)

Shape ==
  /\ world \in Worlds /\ clock \in Int /\ keys \in JwksVersions
  /\ subjects \in SUBSET Users /\ metadata \in SUBSET Users
  /\ gone \in SUBSET Users /\ unbound \in SUBSET Users
  /\ pc \in [Requests -> Labels] /\ outcome \in [Requests -> Outcomes]
  /\ DOMAIN input = Requests /\ DOMAIN subject = Requests /\ DOMAIN namespace = Requests
  /\ ready \in SUBSET Requests /\ late \in SUBSET Requests /\ hit \in SUBSET Requests

AuthInv == Shape /\ \A r \in Requests : Each(r)

\* A step of r leaves the other requests alone.
Moves(r) ==
  /\ UNCHANGED outside
  /\ pc' \in [Requests -> Labels] /\ outcome' \in [Requests -> Outcomes]
  /\ DOMAIN input' = Requests /\ DOMAIN subject' = Requests /\ DOMAIN namespace' = Requests
  /\ ready' \in SUBSET Requests /\ late' \in SUBSET Requests /\ hit' \in SUBSET Requests
  /\ \A q \in Requests \ {r} :
       /\ pc'[q] = pc[q] /\ outcome'[q] = outcome[q] /\ input'[q] = input[q]
       /\ subject'[q] = subject[q] /\ namespace'[q] = namespace[q]
       /\ q \in late' <=> q \in late

LEMMA OutcomesAre ==
  Outcomes = {"bad", "unmapped", "missing", "denied", "rejected", "invalid", "noenv", "forbidden",
              "mismatch", "unbound", "error", "noauth", "provider", "ok", "accepted", "provision",
              "pending"}
BY DEF Outcomes, Status, Granted

LEMMA MovesKeeps ==
  ASSUME AuthInv, NEW r \in Requests, Moves(r), Each(r)'
  PROVE  AuthInv'
<1>1. Shape'
  BY DEF AuthInv, Shape, Moves, outside
<1>2. ASSUME NEW q \in Requests \ {r} PROVE Each(q)'
  <2>1. /\ Each(q)
        /\ UNCHANGED <<world, gone, subjects>>
        /\ pc'[q] = pc[q] /\ outcome'[q] = outcome[q] /\ input'[q] = input[q]
        /\ subject'[q] = subject[q] /\ namespace'[q] = namespace[q]
        /\ q \in late' <=> q \in late
    BY <1>2 DEF AuthInv, Moves, outside
  <2>2. FlowOf(q)'
    BY <2>1 DEF Each, FlowOf
  <2>3. NamespaceOf(q)'
    BY <2>1 DEF Each, NamespaceOf, cfg
  <2>4. LateOf(q)'
    BY <2>1 DEF Each, LateOf
  <2> QED BY <2>2, <2>3, <2>4 DEF Each
<1> QED BY <1>1, <1>2 DEF AuthInv

\* Ends and jumps.
LEMMA GotoEffect ==
  ASSUME Shape, NEW r \in Requests, NEW l \in Labels, Goto(r, l)
  PROVE  /\ pc' \in [Requests -> Labels] /\ outcome' \in [Requests -> Outcomes]
         /\ pc'[r] = l /\ outcome'[r] = outcome[r]
         /\ \A q \in Requests \ {r} : pc'[q] = pc[q] /\ outcome'[q] = outcome[q]
BY DEF Shape, Goto

LEMMA EndEffect ==
  ASSUME Shape, NEW r \in Requests, NEW o \in Outcomes, End(r, o)
  PROVE  /\ pc' \in [Requests -> Labels] /\ outcome' \in [Requests -> Outcomes]
         /\ pc'[r] = "done" /\ outcome'[r] = o
         /\ \A q \in Requests \ {r} : pc'[q] = pc[q] /\ outcome'[q] = outcome[q]
<1>1. "done" \in Labels
  BY DEF Labels
<1> QED BY <1>1 DEF Shape, End

\* Where a request goes when it arrives: to a label that its kind allows, or to
\* a refusal.
LEMMA BeginGoes ==
  ASSUME NEW r, NEW i, Begin(r, i), i.kind \in KeyKinds \cup LoginKinds \cup {"login"}
  PROVE  \/ \E l \in Labels \ {"idle", "done", "disabled"} :
              /\ Goto(r, l)
              /\ l \in {"exchange", "validate"} => i.kind \in LoginKinds
              /\ l = "subject" => i.kind \in KeyKinds
              /\ l = "metadata" => i.kind = "login"
         \/ \E o \in {"missing", "rejected", "error", "bad"} :
              /\ End(r, o)
              /\ i.kind \in KeyKinds => Decode(i.header) = Unreadable
<1>1. CASE i.kind \in KeyKinds
  <2>1. i.header.scheme = "absent" => Decode(i.header) = Unreadable
    BY DEF Decode
  <2>2. \/ Goto(r, "subject")
        \/ \E o \in {"missing", "rejected", "error"} : End(r, o) /\ Decode(i.header) = Unreadable
    BY <1>1, <2>1 DEF Begin, KeyKinds
  <2> QED BY <1>1, <2>2 DEF Labels
<1>2. CASE i.kind \in LoginKinds
  BY <1>2 DEF Begin, KeyKinds, LoginKinds, Labels
<1>3. CASE i.kind = "login"
  BY <1>3 DEF Begin, KeyKinds, LoginKinds, Labels
<1> QED BY <1>1, <1>2, <1>3

LEMMA ArriveKeeps ==
  ASSUME AuthInv, NEW r \in Requests, Arrive(r)
  PROVE  AuthInv'
<1>1. Shape /\ Each(r) /\ pc[r] = "idle"
  BY DEF AuthInv, Arrive
<1>2. PICK i \in InputsOf[world][r] :
        /\ input' = [input EXCEPT ![r] = i] /\ Begin(r, i)
        /\ ready' = IF \E u \in (subjects \cap metadata) \ gone : SpellsKeyOf(i, u)
                      THEN ready \cup {r} ELSE ready
        /\ late' = IF \E u \in gone \ subjects : HasKeyOf(i, u) THEN late \cup {r} ELSE late
  BY Zenon DEF Arrive
<1>3. UNCHANGED <<outside, subject, namespace, hit>>
  BY DEF Arrive
<1>4. i.kind \in KeyKinds \cup LoginKinds \cup {"login"}
  BY <1>1, <1>2, InputsAssumption, Zenon DEF Shape
<1>5. \E l \in Labels, o \in Outcomes :
        /\ pc' \in [Requests -> Labels] /\ outcome' \in [Requests -> Outcomes]
        /\ pc'[r] = l /\ outcome'[r] = o
        /\ \A q \in Requests \ {r} : pc'[q] = pc[q] /\ outcome'[q] = outcome[q]
        /\ l \notin {"idle", "disabled"}
        /\ l \in {"exchange", "validate"} => i.kind \in LoginKinds
        /\ l = "subject" => i.kind \in KeyKinds
        /\ l = "metadata" => i.kind = "login"
        /\ l = "done" => /\ o \in {"missing", "rejected", "error", "bad"}
                         /\ i.kind \in KeyKinds => Decode(i.header) = Unreadable
        /\ l # "done" => o = "pending"
  <2>1. outcome[r] = "pending" /\ "pending" \in Outcomes
    BY <1>1, OutcomesAre DEF Each, FlowOf
  <2>2. ASSUME NEW l \in Labels \ {"idle", "done", "disabled"}, Goto(r, l)
        PROVE  /\ pc' \in [Requests -> Labels] /\ outcome' \in [Requests -> Outcomes]
               /\ pc'[r] = l /\ outcome'[r] = "pending"
               /\ \A q \in Requests \ {r} : pc'[q] = pc[q] /\ outcome'[q] = outcome[q]
    BY <1>1, <2>1, <2>2, GotoEffect
  <2>3. ASSUME NEW o \in {"missing", "rejected", "error", "bad"}, End(r, o)
        PROVE  /\ pc' \in [Requests -> Labels] /\ outcome' \in [Requests -> Outcomes]
               /\ pc'[r] = "done" /\ outcome'[r] = o /\ o \in Outcomes
               /\ \A q \in Requests \ {r} : pc'[q] = pc[q] /\ outcome'[q] = outcome[q]
    <3>1. o \in Outcomes
      BY OutcomesAre
    <3> QED BY <1>1, <2>3, <3>1, EndEffect
  <2>4. "done" \in Labels
    BY DEF Labels
  <2> QED BY <1>2, <1>4, <2>1, <2>2, <2>3, <2>4, BeginGoes
<1>6. input'[r] = i /\ DOMAIN input' = Requests /\ \A q \in Requests \ {r} : input'[q] = input[q]
  BY <1>1, <1>2 DEF Shape
<1>7. Moves(r)
  BY <1>1, <1>2, <1>3, <1>5, <1>6 DEF Moves, Shape
<1>8. FlowOf(r)'
  <2>1. i # None
    BY <1>4 DEF None, KeyKinds, LoginKinds
  <2>2. i \in InputsOf[world'][r] /\ subject'[r] \in Users \cup {Nobody}
    BY <1>1, <1>2, <1>3 DEF Each, FlowOf, outside
  <2> QED BY <1>5, <1>6, <2>1, <2>2 DEF FlowOf
<1>9. NamespaceOf(r)'
  <2>1. namespace'[r] = Nobody
    BY <1>1, <1>3 DEF Each, NamespaceOf
  <2>2. i.kind = "login" => i.kind \notin LoginKinds
    BY DEF LoginKinds
  <2>3. pc'[r] = "metadata" => i.kind = "login"
    BY <1>5
  <2>4. pc'[r] # "disabled" /\ outcome'[r] \notin Granted
    BY <1>5 DEF Granted
  <2> QED BY <1>6, <2>1, <2>2, <2>3, <2>4 DEF NamespaceOf
<1>10. LateOf(r)'
  <2>1. r \notin late
    BY <1>1 DEF Each, LateOf
  <2>2. SUFFICES ASSUME r \in late'
        PROVE  LateOf(r)'
    BY DEF LateOf
  <2>3. PICK u \in gone \ subjects : HasKeyOf(i, u)
    BY <1>2, <2>1, <2>2
  <2>4. i.kind \in KeyKinds /\ Decode(i.header) # Unreadable
    BY <1>1, <2>3, KeysReadable DEF HasKeyOf, Shape
  <2>5. i.kind \notin LoginKinds \cup {"login"}
    BY <2>4 DEF KeyKinds, LoginKinds
  <2>6. pc'[r] = "subject" /\ outcome'[r] = "pending"
    BY <1>5, <2>4, <2>5 DEF Labels
  <2>7. \E v \in gone' \ subjects' : HasKeyOf(i, v)
    BY <1>3, <2>3 DEF outside
  <2>8. \E v \in gone' \ subjects' : HasKeyOf(input'[r], v)
    BY <1>6, <2>7
  <2> QED BY <2>6, <2>8, Zenon DEF LateOf
<1> QED BY <1>7, <1>8, <1>9, <1>10, MovesKeeps DEF Each

\* A request's kind is one of seven.
LEMMA KindOf ==
  ASSUME AuthInv, NEW r \in Requests, pc[r] # "idle"
  PROVE  /\ input[r].kind \in KeyKinds \cup LoginKinds \cup {"login"}
         /\ IsToken(input[r].token) /\ input[r].host.name \in Seq(Seq(STRING))
<1>1. world \in Worlds /\ input[r] \in InputsOf[world][r]
  BY DEF AuthInv, Shape, Each, FlowOf
<1> QED BY <1>1, InputsAssumption, Zenon

\* What a request's call keeps that only changes its label and its outcome.
LEMMA CallKeeps ==
  ASSUME AuthInv, NEW r \in Requests, pc[r] # "idle", r \in late => pc[r] = "subject",
         UNCHANGED <<outside, input, namespace, ready, late>>,
         hit' \in SUBSET Requests,
         pc' \in [Requests -> Labels], outcome' \in [Requests -> Outcomes],
         DOMAIN subject' = Requests, subject'[r] \in Users \cup {Nobody},
         \A q \in Requests \ {r} :
           pc'[q] = pc[q] /\ outcome'[q] = outcome[q] /\ subject'[q] = subject[q],
         pc'[r] \notin {"idle", "exchange", "subject"},
         pc'[r] \in {"validate", "disabled"} => input[r].kind \in LoginKinds,
         outcome'[r] = "pending" <=> pc'[r] # "done",
         outcome'[r] # "unmapped",
         (pc'[r] \in {"disabled", "metadata"} \/ outcome'[r] \in Granted)
           /\ input[r].kind \in LoginKinds => pc[r] \in {"disabled", "metadata"},
         r \in late => pc'[r] = "done" /\ outcome'[r] = "denied"
  PROVE  AuthInv'
<1>1. Shape /\ Each(r)
  BY DEF AuthInv
<1>2. Moves(r)
  BY <1>1 DEF Moves, Shape
<1>3. FlowOf(r)'
  BY <1>1 DEF Each, FlowOf, outside
<1>4. NamespaceOf(r)'
  BY <1>1 DEF Each, NamespaceOf, cfg, outside
<1>5. LateOf(r)'
  BY <1>1 DEF Each, LateOf, outside
<1> QED BY <1>2, <1>3, <1>4, <1>5, MovesKeeps DEF Each

LEMMA ExchangeKeeps ==
  ASSUME AuthInv, NEW r \in Requests, NEW f, Exchange(r, f), hit' \in SUBSET Requests
  PROVE  AuthInv'
<1>1. Shape /\ Each(r) /\ pc[r] = "exchange"
  BY DEF AuthInv, Exchange
<1>2. /\ input[r].kind \in LoginKinds /\ outcome[r] = "pending" /\ r \notin late
      /\ subject[r] \in Users \cup {Nobody} /\ DOMAIN subject = Requests
  BY <1>1 DEF Each, FlowOf, LateOf, Shape
<1>3. UNCHANGED <<outside, input, subject, namespace, answer, ready, late>>
  BY DEF Exchange
<1>4. CASE Goto(r, "validate")
  <2>1. "validate" \in Labels
    BY DEF Labels
  <2> QED BY <1>1, <1>2, <1>3, <1>4, <2>1, GotoEffect, CallKeeps DEF Granted
<1>5. CASE \E o \in {"provider", "rejected"} : End(r, o)
  <2>1. PICK o \in {"provider", "rejected"} : End(r, o)
    BY <1>5
  <2>2. o \in Outcomes /\ o \notin Granted
    BY OutcomesAre DEF Granted
  <2> QED BY <1>1, <1>2, <1>3, <2>1, <2>2, EndEffect, CallKeeps
<1> QED BY <1>4, <1>5 DEF Exchange

LEMMA DisabledKeeps ==
  ASSUME AuthInv, NEW r \in Requests, NEW f, CheckDisabled(r, f), hit' \in SUBSET Requests
  PROVE  AuthInv'
<1>1. Shape /\ Each(r) /\ pc[r] = "disabled"
  BY DEF AuthInv, CheckDisabled
<1>2. /\ input[r].kind \in LoginKinds /\ outcome[r] = "pending" /\ r \notin late
      /\ subject[r] \in Users \cup {Nobody} /\ DOMAIN subject = Requests
  BY <1>1 DEF Each, FlowOf, LateOf, Shape
<1>3. UNCHANGED <<outside, input, subject, namespace, answer, ready, late>>
  BY DEF CheckDisabled
<1>4. CASE Goto(r, "metadata")
  <2>1. "metadata" \in Labels
    BY DEF Labels
  <2> QED BY <1>1, <1>2, <1>3, <1>4, <2>1, GotoEffect, CallKeeps
<1>5. CASE End(r, "unbound")
  <2>1. "unbound" \in Outcomes
    BY OutcomesAre
  <2> QED BY <1>1, <1>2, <1>3, <1>5, <2>1, EndEffect, CallKeeps
<1> QED BY <1>4, <1>5 DEF CheckDisabled

\* The owner of a key is unique, and one who has no subject is not found.
LEMMA SubjectKeeps ==
  ASSUME AuthInv, NEW r \in Requests, NEW f, ReadSubject(r, f), hit' \in SUBSET Requests
  PROVE  AuthInv'
<1> DEFINE owners == {u \in Users : KeyOf[u] = Decode(input[r].header) /\ Finds(subjects, u, f)}
<1>1. Shape /\ Each(r) /\ pc[r] = "subject"
  BY DEF AuthInv, ReadSubject
<1>2. /\ input[r].kind \in KeyKinds /\ outcome[r] = "pending"
      /\ subject[r] \in Users \cup {Nobody} /\ DOMAIN subject = Requests
  BY <1>1 DEF Each, FlowOf, Shape
<1>3. UNCHANGED <<outside, input, namespace, answer, ready, late>>
  BY DEF ReadSubject
<1>4. input[r].kind \notin LoginKinds
  BY <1>2 DEF KeyKinds, LoginKinds
<1>5. r \in late => owners = {}
  <2>1. SUFFICES ASSUME r \in late, NEW v \in Users, KeyOf[v] = Decode(input[r].header), v \in subjects
        PROVE  FALSE
    BY DEF Finds
  <2>2. PICK u \in gone \ subjects : HasKeyOf(input[r], u)
    BY <1>1, <2>1 DEF Each, LateOf
  <2>3. u = v
    BY <1>1, <2>1, <2>2, InputsAssumption DEF HasKeyOf, Shape
  <2> QED BY <2>1, <2>2, <2>3
<1>6. CASE owners # {}
  <2>1. /\ Goto(r, "metadata")
        /\ subject' = [subject EXCEPT ![r] = CHOOSE u \in owners : TRUE]
    BY <1>6, Zenon DEF ReadSubject
  <2>2. (CHOOSE u \in owners : TRUE) \in Users
    BY <1>6
  <2>3. /\ DOMAIN subject' = Requests /\ subject'[r] \in Users
        /\ \A q \in Requests \ {r} : subject'[q] = subject[q]
    BY <1>2, <2>1, <2>2
  <2>4. "metadata" \in Labels
    BY DEF Labels
  <2> QED BY <1>1, <1>2, <1>3, <1>4, <1>5, <1>6, <2>1, <2>3, <2>4, GotoEffect, CallKeeps
<1>7. CASE owners = {}
  <2>1. End(r, "denied") /\ UNCHANGED subject
    BY <1>7, Zenon DEF ReadSubject
  <2>2. "denied" \in Outcomes /\ "denied" \notin Granted
    BY OutcomesAre DEF Granted
  <2> QED BY <1>1, <1>2, <1>3, <1>4, <2>1, <2>2, EndEffect, CallKeeps
<1> QED BY <1>6, <1>7

\* How a token is judged in a state.
Verdict(r, f) == Validate(cfg, IF f = NoFault THEN keys ELSE Unavailable, clock, input[r].token)

\* A token that passed is mapped, and then compared with what was asked for.
LEMMA ValidateEffect ==
  ASSUME AuthInv, NEW r \in Requests, NEW f, ValidateToken(r, f)
  PROVE  LET i == input[r]
             ns == NamespaceFor(cfg, i.token)
         IN
         \/ /\ Verdict(r, f) = "invalid" /\ End(r, "invalid") /\ UNCHANGED namespace
         \/ /\ Verdict(r, f) = "forbidden" /\ End(r, "forbidden") /\ UNCHANGED namespace
         \/ /\ Verdict(r, f) = "raises" /\ End(r, "error") /\ UNCHANGED namespace
         \/ /\ Verdict(r, f) = "ok" /\ ns # Underivable /\ IsValidUsername(ns)
            /\ namespace' = [namespace EXCEPT ![r] = ns]
            /\ \/ Expected(i) \notin {Nobody, ns} /\ End(r, "mismatch")
               \/ Expected(i) \in {Nobody, ns} /\ Goto(r, "disabled")
<1> DEFINE ns == NamespaceFor(cfg, input[r].token)
<1>1. world \in Worlds /\ pc[r] = "validate"
  BY DEF AuthInv, Shape, ValidateToken
<1>2. cfg.hashLength \in Int
  BY <1>1, InputsAssumption DEF cfg
<1>3. IsToken(input[r].token)
  BY <1>1, KindOf
<1>4. IsValidUsername(ns) /\ ns # Underivable
  BY <1>2, <1>3, AlwaysMapped
<1>5. Verdict(r, f) \in {"ok", "invalid", "raises", "forbidden"}
  <2>1. PICK all : all = Checks(cfg, IF f = NoFault THEN keys ELSE Unavailable, clock, input[r].token)
                   /\ Speaks(all, Verdict(r, f))
    BY VerdictIsFirst, Zenon DEF Verdict
  <2>2. /\ \A i \in 1..5 : all[i][2] \in {"invalid", "raises", "forbidden"}
        /\ \A i \in 6..10 : all[i][2] \in {"invalid", "raises", "forbidden"}
        /\ \A i \in 11..15 : all[i][2] \in {"invalid", "raises", "forbidden"}
        /\ \A i \in 16..20 : all[i][2] \in {"invalid", "raises", "forbidden"}
    <3>1. \A i \in 1..5 : i = 1 \/ i = 2 \/ i = 3 \/ i = 4 \/ i = 5
      OBVIOUS
    <3>2. \A i \in 6..10 : i = 6 \/ i = 7 \/ i = 8 \/ i = 9 \/ i = 10
      OBVIOUS
    <3>3. \A i \in 11..15 : i = 11 \/ i = 12 \/ i = 13 \/ i = 14 \/ i = 15
      OBVIOUS
    <3>4. \A i \in 16..20 : i = 16 \/ i = 17 \/ i = 18 \/ i = 19 \/ i = 20
      OBVIOUS
    <3>5. /\ {all[1][2], all[2][2], all[3][2], all[4][2], all[5][2]} \subseteq {"invalid", "raises", "forbidden"}
          /\ {all[6][2], all[7][2], all[8][2], all[9][2], all[10][2]} \subseteq {"invalid", "raises", "forbidden"}
          /\ {all[11][2], all[12][2], all[13][2], all[14][2], all[15][2]} \subseteq {"invalid", "raises", "forbidden"}
          /\ {all[16][2], all[17][2], all[18][2], all[19][2], all[20][2]} \subseteq {"invalid", "raises", "forbidden"}
      BY <2>1 DEF Checks
    <3> QED BY <3>1, <3>2, <3>3, <3>4, <3>5
  <2>3. \A i \in 1..20 : i \in 1..5 \/ i \in 6..10 \/ i \in 11..15 \/ i \in 16..20
    OBVIOUS
  <2>4. \A i \in 1..20 : all[i][2] \in {"invalid", "raises", "forbidden"}
    BY <2>2, <2>3, Zenon
  <2> QED BY <2>1, <2>4, Zenon DEF Speaks
<1> HIDE DEF ns
<1>6. CASE Verdict(r, f) = "ok"
  <2>1. /\ namespace' = [namespace EXCEPT ![r] = ns]
        /\ IF Expected(input[r]) \notin {Nobody, ns} THEN End(r, "mismatch") ELSE Goto(r, "disabled")
    BY <1>4, <1>6 DEF ValidateToken, Verdict, ns
  <2> QED BY <1>4, <1>6, <2>1 DEF ns
<1>7. CASE Verdict(r, f) = "invalid"
  BY <1>7 DEF ValidateToken, Verdict
<1>8. CASE Verdict(r, f) = "forbidden"
  BY <1>8 DEF ValidateToken, Verdict
<1>9. CASE Verdict(r, f) = "raises"
  BY <1>9 DEF ValidateToken, Verdict
<1> QED BY <1>5, <1>6, <1>7, <1>8, <1>9

LEMMA ValidateKeeps ==
  ASSUME AuthInv, NEW r \in Requests, NEW f, ValidateToken(r, f), hit' \in SUBSET Requests
  PROVE  AuthInv'
<1> DEFINE ns == NamespaceFor(cfg, input[r].token)
<1>1. Shape /\ Each(r) /\ pc[r] = "validate"
  BY DEF AuthInv, ValidateToken
<1>2. /\ input[r].kind \in LoginKinds /\ outcome[r] = "pending" /\ r \notin late
      /\ subject[r] \in Users \cup {Nobody} /\ DOMAIN subject = Requests
      /\ DOMAIN namespace = Requests /\ input[r] # None
  BY <1>1 DEF Each, FlowOf, LateOf, Shape
<1>3. UNCHANGED <<outside, input, subject, answer, ready, late>>
  BY DEF ValidateToken
<1>4. CASE \E o \in {"invalid", "forbidden", "error"} : End(r, o) /\ UNCHANGED namespace
  <2>1. PICK o \in {"invalid", "forbidden", "error"} : End(r, o) /\ UNCHANGED namespace
    BY <1>4
  <2>2. o \in Outcomes /\ o \notin Granted
    BY OutcomesAre DEF Granted
  <2> QED BY <1>1, <1>2, <1>3, <2>1, <2>2, EndEffect, CallKeeps
<1>5. ASSUME ns # Underivable, IsValidUsername(ns), namespace' = [namespace EXCEPT ![r] = ns],
             \/ End(r, "mismatch")
             \/ Expected(input[r]) \in {Nobody, ns} /\ Goto(r, "disabled")
      PROVE  AuthInv'
  <2> HIDE DEF ns
  <2>1. /\ pc' \in [Requests -> Labels] /\ outcome' \in [Requests -> Outcomes]
        /\ \A q \in Requests \ {r} : pc'[q] = pc[q] /\ outcome'[q] = outcome[q]
        /\ \/ pc'[r] = "done" /\ outcome'[r] = "mismatch"
           \/ pc'[r] = "disabled" /\ outcome'[r] = "pending" /\ Expected(input[r]) \in {Nobody, ns}
    <3>1. "mismatch" \in Outcomes /\ "disabled" \in Labels
      BY OutcomesAre DEF Labels
    <3> QED BY <1>1, <1>2, <1>5, <3>1, EndEffect, GotoEffect
  <2>2. /\ namespace'[r] = ns /\ DOMAIN namespace' = Requests
        /\ \A q \in Requests \ {r} : namespace'[q] = namespace[q]
    BY <1>2, <1>5
  <2>3. Moves(r)
    BY <1>1, <1>3, <2>1, <2>2 DEF Moves, Shape
  <2>4. FlowOf(r)'
    BY <1>1, <1>2, <1>3, <2>1 DEF Each, FlowOf, outside
  <2>5. NamespaceOf(r)'
    <3>1. ns = NamespaceFor(cfg', input'[r].token) /\ input'[r] = input[r]
      BY <1>3 DEF ns, cfg, outside
    <3>2. ns # Nobody
      BY <1>5 DEF Underivable, Nobody
    <3>3. outcome'[r] \notin Granted
      BY <2>1 DEF Granted
    <3>4. pc'[r] \notin {"idle", "metadata"}
      BY <2>1
    <3> QED BY <1>5, <2>1, <2>2, <3>1, <3>2, <3>3, <3>4 DEF NamespaceOf
  <2>6. LateOf(r)'
    BY <1>2, <1>3 DEF LateOf
  <2> QED BY <2>3, <2>4, <2>5, <2>6, MovesKeeps DEF Each
<1> QED BY <1>4, <1>5, ValidateEffect

\* The last call of a request ends it.
LEMMA MetadataEnds ==
  ASSUME AuthInv, NEW r \in Requests, NEW f, ReadMetadata(r, f)
  PROVE  \E o \in {"provision", "noauth", "ok", "denied", "noenv", "bad", "error", "accepted", "rejected"} : End(r, o)
<1> DEFINE i == input[r]
           Found(u) == Finds(metadata, u, f)
<1>0. input[r].kind \in KeyKinds \cup LoginKinds \cup {"login"}
  BY KindOf DEF ReadMetadata
<1>1. CASE i.kind \in LoginKinds
  <2>1. FinishLogin(r, Found(namespace[r]))
    BY <1>1 DEF ReadMetadata, LoginKinds, KeyKinds
  <2> QED BY <2>1, Zenon DEF FinishLogin
<1>2. CASE i.kind = "login"
  BY <1>2 DEF ReadMetadata, LoginKinds, KeyKinds
<1>3. CASE i.kind \in KeyKinds /\ ~Found(subject[r])
  BY <1>3 DEF ReadMetadata, LoginKinds, KeyKinds
<1>4. CASE i.kind = "build" /\ Found(subject[r])
  <2>1. FinishBuild(r, i)
    BY <1>4 DEF ReadMetadata, LoginKinds, KeyKinds
  <2> QED BY <2>1, Zenon DEF FinishBuild
<1>5. CASE i.kind = "cleanup" /\ Found(subject[r])
  <2>1. FinishCleanup(r, i)
    BY <1>5 DEF ReadMetadata, LoginKinds, KeyKinds
  <2> QED BY <2>1, Zenon DEF FinishCleanup
<1>6. CASE i.kind = "patch" /\ Found(subject[r])
  <2>1. FinishPatch(r, i)
    BY <1>6 DEF ReadMetadata, LoginKinds, KeyKinds
  <2> QED BY <2>1, Zenon DEF FinishPatch
<1> QED BY <1>0, <1>1, <1>2, <1>3, <1>4, <1>5, <1>6 DEF KeyKinds

LEMMA MetadataKeeps ==
  ASSUME AuthInv, NEW r \in Requests, NEW f, ReadMetadata(r, f), hit' \in SUBSET Requests
  PROVE  AuthInv'
<1>1. Shape /\ Each(r) /\ pc[r] = "metadata"
  BY DEF AuthInv, ReadMetadata
<1>2. /\ outcome[r] = "pending" /\ r \notin late
      /\ subject[r] \in Users \cup {Nobody} /\ DOMAIN subject = Requests
  BY <1>1 DEF Each, FlowOf, LateOf, Shape
<1>3. UNCHANGED <<outside, input, subject, namespace, ready, late>>
  BY DEF ReadMetadata
<1>4. PICK o \in {"provision", "noauth", "ok", "denied", "noenv", "bad", "error", "accepted", "rejected"} : End(r, o)
  BY MetadataEnds
<1>5. o \in Outcomes
  BY OutcomesAre
<1> QED BY <1>1, <1>2, <1>3, <1>4, <1>5, EndEffect, CallKeeps

\* Outside events change no request, and a user who is gone stays so.
LEMMA OutsideKeeps ==
  ASSUME AuthInv, Outside
  PROVE  AuthInv'
<1>1. Shape /\ UNCHANGED <<world, pc, input, outcome, subject, namespace, answer, ready, late, hit>>
  BY DEF AuthInv, Outside
<1>2. world.touched \in SUBSET Users
  BY <1>1, InputsAssumption DEF Shape
<1>3. /\ clock' \in Int /\ keys' \in JwksVersions
      /\ subjects' \in SUBSET subjects /\ metadata' \in SUBSET metadata
      /\ gone' \in SUBSET Users /\ unbound' \in SUBSET Users
      /\ gone \subseteq gone'
  <2>1. CASE Tick
    BY <1>1, <2>1 DEF Tick, Shape
  <2>2. CASE Rotate
    BY <1>1, <2>2 DEF Rotate, Shape
  <2>3. CASE \E u \in world.touched : DeleteUser(u)
    BY <1>1, <1>2, <2>3 DEF DeleteUser, Shape
  <2>4. CASE \E u \in world.touched : Unbind(u)
    BY <1>1, <1>2, <2>4 DEF Unbind, Shape
  <2> QED BY <2>1, <2>2, <2>3, <2>4 DEF Outside
<1>4. Shape'
  BY <1>1, <1>3 DEF Shape
<1>5. ASSUME NEW r \in Requests PROVE Each(r)'
  <2>1. Each(r)
    BY DEF AuthInv
  <2>2. FlowOf(r)'
    BY <1>1, <2>1 DEF Each, FlowOf
  <2>3. NamespaceOf(r)'
    BY <1>1, <2>1 DEF Each, NamespaceOf, cfg
  <2>4. LateOf(r)'
    BY <1>1, <1>3, <2>1 DEF Each, LateOf
  <2> QED BY <2>2, <2>3, <2>4 DEF Each
<1> QED BY <1>4, <1>5 DEF AuthInv

LEMMA InitAuth == Init => AuthInv
<1> SUFFICES ASSUME Init PROVE AuthInv
  OBVIOUS
<1>1. "idle" \in Labels /\ "pending" \in Outcomes /\ "pending" \notin Granted
  BY OutcomesAre DEF Labels, Granted
<1>2. Shape
  BY <1>1 DEF Init, Shape
<1>3. ASSUME NEW r \in Requests PROVE Each(r)
  BY <1>1 DEF Init, Each, FlowOf, NamespaceOf, LateOf
<1> QED BY <1>2, <1>3 DEF AuthInv

LEMMA StepAuth == AuthInv /\ [Next]_vars => AuthInv'
<1> SUFFICES ASSUME AuthInv, [Next]_vars PROVE AuthInv'
  OBVIOUS
<1>1. ASSUME NEW r \in Requests, Arrive(r) PROVE AuthInv'
  BY <1>1, ArriveKeeps
<1>2. ASSUME NEW r \in Requests, NEW f \in CallOutcomes, Call(r, f) PROVE AuthInv'
  <2>1. hit' \in SUBSET Requests
    BY <1>2 DEF Call, AuthInv, Shape
  <2> QED BY <1>2, <2>1, ExchangeKeeps, ValidateKeeps, DisabledKeeps, SubjectKeeps, MetadataKeeps DEF Call
<1>3. CASE Outside
  BY <1>3, OutsideKeeps
<1>4. CASE UNCHANGED vars
  <2>1. Shape'
    BY <1>4 DEF vars, outside, AuthInv, Shape
  <2>2. ASSUME NEW r \in Requests PROVE Each(r)'
    <3>1. Each(r)
      BY DEF AuthInv
    <3>2. FlowOf(r)' /\ LateOf(r)'
      BY <1>4, <3>1 DEF vars, outside, Each, FlowOf, LateOf
    <3>3. NamespaceOf(r)'
      BY <1>4, <3>1 DEF vars, outside, Each, NamespaceOf, cfg
    <3> QED BY <3>2, <3>3 DEF Each
  <2> QED BY <2>1, <2>2 DEF AuthInv
<1> QED BY <1>1, <1>2, <1>3, <1>4, Zenon DEF Next

LEMMA AuthSafe == Spec => []AuthInv
BY InitAuth, StepAuth, PTL DEF Spec

-----------------------------------------------------------------------------
(* Theorems *)

\* Every variable has its type: labels and outcomes fit (every handler of
\* rest/auth.py and rest/build.py).
THEOREM TypeCorrect == Spec => []TypeOK
<1>1. AuthInv => TypeOK
  BY Zenon DEF AuthInv, Shape, Each, FlowOf, NamespaceOf, TypeOK
<1> QED BY <1>1, AuthSafe, PTL

\* However the lengths are configured and whatever a user is called, a token
\* that passed is mapped to a namespace (namespace_for).
THEOREM EveryUserMapped == Spec => []NamespaceDerived
<1>1. AuthInv => NamespaceDerived
  BY DEF AuthInv, Each, FlowOf, NamespaceDerived
<1> QED BY <1>1, AuthSafe, PTL

\* Names made with different hashes differ (namespace_for).
THEOREM NamesApart == Spec => []NamespacesApart
<1>1. ASSUME AuthInv PROVE NamespacesApart
  <2> DEFINE Made(r) == /\ namespace[r] # Nobody
                        /\ namespace[r] \notin {input[r].token.claimed, input[r].token.user}
  <2>1. SUFFICES ASSUME NEW r \in Requests, NEW q \in Requests, Made(r), Made(q),
                        Suffix(cfg, input[r].token.digest) # Suffix(cfg, input[q].token.digest)
                 PROVE  namespace[r] # namespace[q]
    BY Zenon DEF NamespacesApart
  <2>2. ASSUME NEW p \in Requests, Made(p)
        PROVE  /\ IsToken(input[p].token)
               /\ namespace[p] = Normalized(cfg, input[p].token.user, input[p].token.digest)
    <3>1. pc[p] # "idle" /\ namespace[p] = NamespaceFor(cfg, input[p].token)
      BY <1>1, <2>2 DEF AuthInv, Each, NamespaceOf
    <3>2. IsToken(input[p].token)
      BY <1>1, <3>1, KindOf
    <3> QED BY <2>2, <3>1, <3>2, Zenon DEF NamespaceFor
  <2>3. cfg.hashLength \in Int /\ cfg.maxLength \in Int
    BY <1>1, InputsAssumption DEF AuthInv, Shape, cfg
  <2>4. /\ input[r].token.user \in Seq(STRING) /\ input[q].token.user \in Seq(STRING)
        /\ input[r].token.digest \in Seq(HexDigits) /\ Len(input[r].token.digest) >= 16
        /\ input[q].token.digest \in Seq(HexDigits) /\ Len(input[q].token.digest) >= 16
    BY <2>1, <2>2, Zenon DEF IsToken
  <2>5. namespace[r] # Underivable
    BY <2>1 DEF Nobody, Underivable
  <2> QED BY <2>1, <2>2, <2>3, <2>4, <2>5, MadeApart, ZenonT(30)
<1> QED BY <1>1, AuthSafe, PTL

\* A key sent after its owner's subject was deleted is never accepted, whatever
\* happens to the documents meanwhile (login of authorize).
THEOREM RevokedKeySafe == Spec => []RevokedKeyRefused
<1>1. AuthInv => RevokedKeyRefused
  BY DEF AuthInv, Shape, Each, LateOf, RevokedKeyRefused
<1> QED BY <1>1, AuthSafe, PTL

\* A login asked for from the page of a workspace, or with its name, is granted
\* for that workspace alone (login_oidc).
THEOREM WorkspaceSafe == Spec => []WorkspaceKept
<1>1. ASSUME AuthInv PROVE WorkspaceKept
  <2> SUFFICES ASSUME NEW r \in Requests, NEW w \in Users, outcome[r] \in Granted,
                      \/ /\ input[r].kind = "device" /\ input[r].wanted = Nobody
                         /\ input[r].origin = <<w>> \o input[r].host.name
                      \/ input[r].kind = "grant" /\ input[r].wanted = w
               PROVE  namespace[r] = w
    BY DEF WorkspaceKept
  <2>1. w \in Seq(STRING) /\ w # Nobody
    BY InputsAssumption DEF Nobody
  <2>2. pc[r] = "done"
    BY <1>1 DEF AuthInv, Each, FlowOf, Granted
  <2>3. input[r].host.name \in Seq(Seq(STRING))
    BY <1>1, <2>2, KindOf
  <2>4. Expected(input[r]) = w
    <3>1. CASE input[r].kind = "grant" /\ input[r].wanted = w
      BY <3>1 DEF Expected
    <3>2. CASE /\ input[r].kind = "device" /\ input[r].wanted = Nobody
               /\ input[r].origin = <<w>> \o input[r].host.name
      <4>1. RequestedNamespace(input[r].origin, input[r].host) = w
        <5> DEFINE n == input[r].host.name
        <5>1. \A s \in Seq(Seq(STRING)) :
                Len(<<w>> \o s) = Len(s) + 1 /\ Tail(<<w>> \o s) = s /\ Head(<<w>> \o s) = w
          BY <2>1
        <5>2. Len(<<w>> \o n) = Len(n) + 1 /\ Tail(<<w>> \o n) = n /\ Head(<<w>> \o n) = w
          BY <2>3, <5>1
        <5> QED BY <3>2, <5>2 DEF RequestedNamespace
      <4> QED BY <3>2, <4>1 DEF Expected
    <3> QED BY <3>1, <3>2
  <2>5. input[r].kind \in LoginKinds
    BY DEF LoginKinds
  <2> QED BY <1>1, <2>1, <2>4, <2>5 DEF AuthInv, Each, NamespaceOf
<1> QED BY <1>1, AuthSafe, PTL

\* A token with the verdict "ok" or "forbidden" is signed for this API and live.
LEMMA PassedIsGenuine ==
  ASSUME AuthInv, NEW r \in Requests, NEW f, pc[r] = "validate",
         Verdict(r, f) \in {"ok", "forbidden"}
  PROVE  Signed(input[r].token) /\ Live(input[r].token, Slack)
<1> DEFINE t == input[r].token
           k == IF f = NoFault THEN keys ELSE Unavailable
<1>1. /\ world.cfg.leeway \in Nat /\ world.skew \in Int /\ clock \in Int
      /\ \A id \in DOMAIN keys : keys[id] \in {"rsa", "other", "garbled"}
  BY InputsAssumption DEF AuthInv, Shape
<1>2. /\ t.header \in {"object", "other", "garbled"} /\ t.claims \in {"object", "other", "garbled"}
      /\ t.signature \in {"good", "forged", "garbled"}
      /\ t.exp.is \in {"number", "absent", "text"} /\ t.nbf.is \in {"number", "absent", "text"}
      /\ t.exp.value \in Int /\ t.nbf.value \in Int
  BY KindOf DEF IsToken
<1>10. Validate(cfg, k, clock, t) \in {"ok", "forbidden"}
  BY DEF Verdict
<1> HIDE DEF t, k
<1>3. /\ t.parts = 3 /\ t.header \notin {"other", "garbled"} /\ t.claims \notin {"other", "garbled"}
      /\ t.alg = "RS256" /\ t.signature \notin {"forged", "garbled"}
      /\ k # Unavailable /\ KeyKind(k, t.kid) \notin {"none", "other", "garbled"}
      /\ t.iss = cfg.issuer /\ cfg.audience \in t.aud
      /\ t.exp.is # "text" /\ ~ExpiredAt(cfg, t, clock)
      /\ t.nbf.is # "text" /\ ~NotYetAt(cfg, t, clock)
  BY <1>10, PassedChecks
<1>4. KeyKind(keys, t.kid) = "rsa"
  <2>1. k = keys
    BY <1>3 DEF k
  <2> QED BY <1>1, <1>3, <2>1 DEF KeyKind
<1>5. Signed(t)
  BY <1>2, <1>3, <1>4 DEF Signed
<1>6. t.exp.is = "number" /\ t.exp.value >= clock - cfg.leeway
  BY <1>1, <1>2, <1>3 DEF ExpiredAt, cfg
<1>7. /\ t.nbf.is = "absent" \/ t.nbf.is = "number"
      /\ t.nbf.is = "number" => t.nbf.value <= clock + cfg.leeway
  <2>1. cfg.leeway \in Int
    BY <1>1 DEF cfg
  <2>2. t.nbf.is = "number" => t.nbf.value <= clock + cfg.leeway
    BY <1>1, <1>2, <1>3, <2>1 DEF NotYetAt
  <2> QED BY <1>2, <1>3, <2>2
<1>8. /\ IssuerClock - Slack <= clock - cfg.leeway
      /\ clock + cfg.leeway <= IssuerClock + Slack
      /\ IssuerClock \in Int /\ Slack \in Int
  BY <1>1 DEF IssuerClock, Slack, cfg
<1>9. Live(t, Slack)
  <2>1. cfg.leeway \in Int /\ clock \in Int
    BY <1>1 DEF cfg
  <2> QED BY <1>2, <1>6, <1>7, <1>8, <2>1 DEF Live
<1> QED BY <1>5, <1>9 DEF t

\* A step of q that tells it neither 403 for its group nor 200, and maps no token.
Quiet(q) ==
  /\ UNCHANGED <<namespace, answer>> /\ pc[q] # "validate"
  /\ \/ \E l \in Labels : Goto(q, l)
     \/ \E o \in Outcomes \ {"forbidden", "ok"} : End(q, o)

LEMMA QuietSteps ==
  ASSUME AuthInv, NEW q \in Requests, NEW f,
         Arrive(q) \/ Exchange(q, f) \/ CheckDisabled(q, f) \/ ReadSubject(q, f)
  PROVE  Quiet(q)
<1>1. /\ \A o \in {"missing", "rejected", "error", "bad", "provider", "unbound", "denied"} :
           o \in Outcomes \ {"forbidden", "ok"}
      /\ "validate" \in Labels /\ "metadata" \in Labels
  BY OutcomesAre DEF Labels
<1>2. CASE Arrive(q)
  <2>1. /\ UNCHANGED <<namespace, answer>> /\ pc[q] = "idle"
        /\ \E i \in InputsOf[world][q] : Begin(q, i)
    BY <1>2 DEF Arrive
  <2>2. \A i \in InputsOf[world][q] : i.kind \in KeyKinds \cup LoginKinds \cup {"login"}
    BY InputsAssumption, Zenon DEF AuthInv, Shape
  <2> QED BY <1>1, <2>1, <2>2, BeginGoes DEF Quiet
<1>3. CASE Exchange(q, f)
  BY <1>1, <1>3 DEF Exchange, Quiet
<1>4. CASE CheckDisabled(q, f)
  BY <1>1, <1>4 DEF CheckDisabled, Quiet
<1>5. CASE ReadSubject(q, f)
  <2>1. /\ UNCHANGED <<namespace, answer>> /\ pc[q] = "subject"
        /\ Goto(q, "metadata") \/ End(q, "denied")
    BY <1>5, Zenon DEF ReadSubject
  <2> QED BY <1>1, <2>1 DEF Quiet
<1> QED BY <1>2, <1>3, <1>4, <1>5

LEMMA QuietEffect ==
  ASSUME Shape, NEW q \in Requests, Quiet(q), NEW r \in Requests
  PROVE  /\ outcome'[r] \in {"forbidden", "ok"} => outcome[r] = outcome'[r]
         /\ namespace'[r] = namespace[r] /\ answer' = answer
         /\ pc[r] = "validate" => pc'[r] = "validate"
BY GotoEffect, EndEffect DEF Quiet

\* Only the validation of r's token tells r 403 for its group, gives r its
\* namespace or takes it past the validation.
LEMMA OnlyValidation ==
  ASSUME AuthInv, [Next]_vars, NEW r \in Requests,
         \/ outcome'[r] = "forbidden" /\ outcome[r] = "pending"
         \/ namespace'[r] # namespace[r]
         \/ pc[r] = "validate" /\ pc'[r] # "validate"
  PROVE  \E f \in CallOutcomes : ValidateToken(r, f) /\ (f # NoFault => r \in hit')
<1>1. Shape
  BY DEF AuthInv
<1>2. \A q \in Requests : ~Quiet(q)
  BY <1>1, QuietEffect
<1>3. \A q \in Requests, f \in CallOutcomes :
        ~Arrive(q) /\ ~Exchange(q, f) /\ ~CheckDisabled(q, f) /\ ~ReadSubject(q, f)
  BY <1>2, QuietSteps
<1>4. CallOutcomes # {}
  BY DEF CallOutcomes
<1>5. \A q \in Requests : ~Arrive(q)
  BY <1>3, <1>4
<1>7. \A q \in Requests, f \in CallOutcomes : ~ReadMetadata(q, f)
  <2> SUFFICES ASSUME NEW q \in Requests, NEW f \in CallOutcomes, ReadMetadata(q, f) PROVE FALSE
    OBVIOUS
  <2>1. UNCHANGED namespace /\ pc[q] = "metadata"
    BY DEF ReadMetadata
  <2>2. PICK o \in {"provision", "noauth", "ok", "denied", "noenv", "bad", "error", "accepted", "rejected"} : End(q, o)
    BY MetadataEnds
  <2>3. o \in Outcomes /\ o # "forbidden"
    BY OutcomesAre
  <2> QED BY <1>1, <2>1, <2>2, <2>3, EndEffect
<1>8. ~Outside
  BY DEF Outside
<1>9. ~UNCHANGED vars
  BY DEF vars
<1>10. PICK q \in Requests, f \in CallOutcomes : ValidateToken(q, f) /\ Call(q, f)
  BY <1>3, <1>5, <1>7, <1>8, <1>9, Zenon DEF Next, Call
<1>11. q = r
  <2>1. SUFFICES ASSUME q # r PROVE FALSE
    OBVIOUS
  <2>2. PICK o \in Outcomes, l \in Labels : Goto(q, l) \/ End(q, o)
    <3>1. {"mismatch", "invalid", "forbidden", "error"} \subseteq Outcomes /\ "disabled" \in Labels
      BY OutcomesAre DEF Labels
    <3> QED BY <1>10, <3>1, ValidateEffect
  <2>3. pc'[r] = pc[r] /\ outcome'[r] = outcome[r]
    BY <1>1, <2>1, <2>2, GotoEffect, EndEffect
  <2>4. namespace'[r] = namespace[r]
    BY <1>1, <1>10, <2>1, ValidateEffect DEF Shape
  <2> QED BY <2>3, <2>4
<1>12. f # NoFault => r \in hit'
  BY <1>10, <1>11 DEF Call
<1> QED BY <1>10, <1>11, <1>12, Zenon

\* A login is told 403 for its group, and given a namespace, for a token that is
\* signed for this API and live, but for leeway and skew (validate).
THEOREM ForbiddenOnlyGenuine == Spec => ForbiddenIsGenuine
<1>1. ASSUME AuthInv, [Next]_vars, NEW r \in Requests,
             \/ outcome'[r] = "forbidden" /\ outcome[r] = "pending"
             \/ namespace'[r] # namespace[r]
      PROVE  Signed(input[r].token) /\ Live(input[r].token, Slack)
  <2>1. PICK f \in CallOutcomes : ValidateToken(r, f)
    BY <1>1, OnlyValidation
  <2>2. pc[r] = "validate" /\ Shape
    BY <1>1, <2>1 DEF ValidateToken, AuthInv
  <2>3. Verdict(r, f) \in {"ok", "forbidden"}
    <3>1. ASSUME NEW o \in {"invalid", "error"}, End(r, o) PROVE outcome'[r] # "forbidden"
      <4>1. o \in Outcomes
        BY OutcomesAre
      <4> QED BY <2>2, <3>1, <4>1, EndEffect
    <3> QED BY <1>1, <2>1, <3>1, ValidateEffect
  <2> QED BY <1>1, <2>2, <2>3, PassedIsGenuine
<1>2. AuthInv /\ [Next]_vars =>
        [\A r \in Requests :
           \/ outcome'[r] = "forbidden" /\ outcome[r] = "pending"
           \/ namespace'[r] # namespace[r]
           => Signed(input[r].token) /\ Live(input[r].token, Slack)]_vars
  BY <1>1
<1> QED BY <1>2, AuthSafe, PTL DEF Spec, ForbiddenIsGenuine

\* A token the issuer stands for is never called invalid and raises nothing,
\* when its keys can be read and the clocks differ by the leeway at most
\* (validate).
THEOREM GenuineNotRefused == Spec => GenuineAccepted
<1>1. ASSUME AuthInv, [Next]_vars, NEW r \in Requests,
             pc[r] = "validate", pc'[r] # "validate", r \notin hit',
             Genuine(input[r].token), world.skew \in (-cfg.leeway)..cfg.leeway
      PROVE  outcome'[r] \notin {"invalid", "error"}
  <2> DEFINE t == input[r].token
  <2>1. ValidateToken(r, NoFault)
    BY <1>1, OnlyValidation
  <2>2. Verdict(r, NoFault) = Validate(cfg, keys, clock, t)
    BY DEF Verdict
  <2>3. /\ cfg.leeway \in Nat /\ world.skew \in Int /\ clock \in Int
        /\ -cfg.leeway <= world.skew /\ world.skew <= cfg.leeway
    <3>1. world.cfg.leeway \in Nat /\ world.skew \in Int /\ clock \in Int
      BY <1>1, InputsAssumption DEF AuthInv, Shape
    <3> QED BY <1>1, <3>1 DEF cfg
  <2>4. t.exp.value \in Int /\ t.nbf.value \in Int
    BY <1>1, KindOf DEF IsToken
  <2>5. Signed(t) /\ Configured(cfg) /\ t.user # <<>> /\ Unsearchable \notin t.groups
    BY <1>1, Zenon DEF Genuine, Configured
  <2>6. Live(t, 0)
    BY <1>1, Zenon DEF Genuine
  <2> HIDE DEF t
  <2>7. /\ t.exp.is = "number" /\ t.exp.value >= clock + world.skew
        /\ t.nbf.is \in {"absent", "number"}
        /\ t.nbf.is = "number" => t.nbf.value <= clock + world.skew
    BY <2>3, <2>4, <2>6 DEF Live, IssuerClock
  <2>8. Validate(cfg, keys, clock, t) \in {"ok", "forbidden"}
    BY <2>3, <2>4, <2>5, <2>7, NoOtherCheckFails DEF Signed
  <2>9. \/ outcome'[r] \in {"forbidden", "mismatch"}
        \/ outcome'[r] = outcome[r] /\ outcome[r] = "pending"
    <3>1. {"forbidden", "mismatch"} \subseteq Outcomes /\ "disabled" \in Labels
      BY OutcomesAre DEF Labels
    <3>2. Shape /\ outcome[r] = "pending"
      BY <1>1 DEF AuthInv, Each, FlowOf
    <3>3. \/ End(r, "forbidden") \/ End(r, "mismatch") \/ Goto(r, "disabled")
      BY <1>1, <2>1, <2>2, <2>8, ValidateEffect
    <3> QED BY <3>1, <3>2, <3>3, EndEffect, GotoEffect
  <2> QED BY <2>9
<1>2. AuthInv /\ [Next]_vars =>
        [\A r \in Requests :
           /\ pc[r] = "validate" /\ pc'[r] # "validate" /\ r \notin hit'
           /\ Genuine(input[r].token) /\ world.skew \in (-cfg.leeway)..cfg.leeway
           => outcome'[r] \notin {"invalid", "error"}]_vars
  BY <1>1
<1> QED BY <1>2, AuthSafe, PTL DEF Spec, GenuineAccepted

-----------------------------------------------------------------------------
(* What a login is answered *)

\* The keys that the answer or a renamed system value takes over.
TakenOf(doc) ==
  {<<"LOGIN">>, <<"NAMESPACE">>} \cup {SystemKey(k) : k \in DOMAIN EnvToDict(doc.env)}

CleanEnv(doc) ==
  \A k \in DOMAIN EnvToDict(doc.env) : k \in Seq(STRING) \ {<<>>} /\ Head(k) # "SYSTEM"

\* The values under k are in the answer made of doc.
KeptIn(doc, made, k) ==
  LET system == EnvToDict(doc.env)
      user == EnvToDict(doc.userenv)
      Has(x, v) == x \in DOMAIN made /\ made[x] = v
  IN /\ k \in DOMAIN user => Has(k, user[k])
     /\ k \in DOMAIN system => Has(k, system[k]) \/ Has(SystemKey(k), system[k])

\* Every value of both environments is in the merged one, under its key or,
\* for the system's, under its SYSTEM_ key.
LEMMA MergeKeeps ==
  ASSUME NEW doc, NEW ns, NEW k, CleanEnv(doc), k \notin TakenOf(doc)
  PROVE  KeptIn(doc, Answer(ns, LoginData(doc)), k)
<1> DEFINE system == EnvToDict(doc.env)
           user == EnvToDict(doc.userenv)
           Renamed(s) == IF s \in DOMAIN user THEN SystemKey(s) ELSE s
           renamed == {Renamed(s) : s \in DOMAIN system}
           Original(x) == CHOOSE s \in DOMAIN system : Renamed(s) = x
           data == LoginData(doc)
           answered == Answer(ns, data)
<1>1. data = [x \in renamed \cup DOMAIN user |->
                IF x \in renamed THEN system[Original(x)] ELSE user[x]]
  BY Zenon DEF LoginData
<1>2. ASSUME NEW x \in DOMAIN data, x \notin {<<"LOGIN">>, <<"NAMESPACE">>}
      PROVE  x \in DOMAIN answered /\ answered[x] = data[x]
  BY <1>2 DEF Answer
<1> HIDE DEF data, answered, system, user
<1>3. \A s \in DOMAIN system : s \in Seq(STRING) \ {<<>>} /\ Head(s) # "SYSTEM"
  BY DEF system, CleanEnv
<1>4. /\ \A s \in DOMAIN system : k # SystemKey(s)
      /\ k \notin {<<"LOGIN">>, <<"NAMESPACE">>}
  BY DEF system, TakenOf
<1>5. k \in DOMAIN user => k \notin renamed
  BY <1>4
<1>6. ASSUME k \in DOMAIN user PROVE k \in DOMAIN answered /\ answered[k] = user[k]
  <2>1. k \in DOMAIN data /\ data[k] = user[k]
    BY <1>1, <1>5, <1>6
  <2> QED BY <1>2, <1>4, <2>1
<1>7. ASSUME NEW s \in DOMAIN system, NEW x, x = Renamed(s), x \notin {<<"LOGIN">>, <<"NAMESPACE">>},
             \A v \in DOMAIN system : Renamed(v) = x => v = s
      PROVE  x \in DOMAIN answered /\ answered[x] = system[s]
  <2>1. Original(x) = s
    BY <1>7
  <2>2. x \in DOMAIN data /\ data[x] = system[s]
    BY <1>1, <1>7, <2>1
  <2> QED BY <1>2, <1>7, <2>2
<1>8. ASSUME k \in DOMAIN system, k \notin DOMAIN user
      PROVE  k \in DOMAIN answered /\ answered[k] = system[k]
  <2>1. \A v \in DOMAIN system : Renamed(v) = k => v = k
    BY <1>4
  <2>2. Renamed(k) = k
    BY <1>8
  <2> QED BY <1>4, <1>7, <1>8, <2>1, <2>2
<1>9. ASSUME k \in DOMAIN system, k \in DOMAIN user
      PROVE  SystemKey(k) \in DOMAIN answered /\ answered[SystemKey(k)] = system[k]
  <2>1. \A s \in Seq(STRING) : Head(SystemKey(s)) = "SYSTEM" /\ Tail(SystemKey(s)) = s
    BY DEF SystemKey
  <2>2. Renamed(k) = SystemKey(k)
    BY <1>9
  <2>3. SystemKey(k) \notin {<<"LOGIN">>, <<"NAMESPACE">>}
    <3>1. Head(<<"LOGIN">>) = "LOGIN" /\ Head(<<"NAMESPACE">>) = "NAMESPACE"
      OBVIOUS
    <3> QED BY <1>3, <1>9, <2>1, <3>1
  <2>4. \A v \in DOMAIN system : Renamed(v) = SystemKey(k) => v = k
    <3> SUFFICES ASSUME NEW v \in DOMAIN system, Renamed(v) = SystemKey(k) PROVE v = k
      OBVIOUS
    <3>1. CASE v \in DOMAIN user
      BY <1>3, <1>9, <2>1, <3>1
    <3>2. CASE v \notin DOMAIN user
      BY <1>3, <1>9, <2>1, <3>2
    <3> QED BY <3>1, <3>2
  <2> QED BY <1>7, <1>9, <2>2, <2>3, <2>4
<1> QED BY <1>6, <1>8, <1>9 DEF KeptIn, answered, data, system, user

\* A login's answer is made of its namespace and of the document found there.
AnswerOf(r) ==
  outcome[r] = "ok" /\ input[r].kind \in LoginKinds =>
    namespace[r] \in Users /\ answer[r] = Answer(namespace[r], LoginData(DocOf[namespace[r]]))

AnswerInv == DOMAIN answer = Requests /\ \A r \in Requests : AnswerOf(r)

LEMMA AnswerSame ==
  ASSUME NEW r \in Requests, AnswerOf(r),
         outcome'[r] = "ok" =>
           /\ outcome[r] = "ok" /\ input'[r] = input[r]
           /\ namespace'[r] = namespace[r] /\ answer'[r] = answer[r]
  PROVE  AnswerOf(r)'
BY DEF AnswerOf

LEMMA StepAnswer == AuthInv /\ AnswerInv /\ [Next]_vars => AnswerInv'
<1> SUFFICES ASSUME AuthInv, AnswerInv, [Next]_vars PROVE AnswerInv'
  OBVIOUS
<1>1. Shape /\ \A r \in Requests : AnswerOf(r) /\ FlowOf(r)
  BY DEF AuthInv, AnswerInv, Each
<1>2. ASSUME NEW q \in Requests, NEW f,
             Arrive(q) \/ Exchange(q, f) \/ CheckDisabled(q, f) \/ ReadSubject(q, f)
      PROVE  AnswerInv'
  <2>1. Quiet(q)
    BY <1>2, QuietSteps
  <2>2. \A r \in Requests : outcome[r] = "ok" => input'[r] = input[r]
    <3>1. CASE Arrive(q)
      <4>1. pc[q] = "idle" /\ \E i : input' = [input EXCEPT ![q] = i]
        BY <3>1 DEF Arrive
      <4>2. outcome[q] # "ok"
        BY <1>1, <4>1 DEF FlowOf
      <4> QED BY <1>1, <4>1, <4>2 DEF Shape
    <3>2. CASE UNCHANGED input
      BY <3>2
    <3> QED BY <1>2, <3>1, <3>2 DEF Exchange, CheckDisabled, ReadSubject
  <2>3. \A r \in Requests : AnswerOf(r)'
    BY <1>1, <2>1, <2>2, QuietEffect, AnswerSame
  <2>4. answer' = answer
    BY <2>1 DEF Quiet
  <2> QED BY <2>3, <2>4 DEF AnswerInv
<1>3. ASSUME NEW q \in Requests, NEW f, ValidateToken(q, f)
      PROVE  AnswerInv'
  <2>1. UNCHANGED <<answer, input>> /\ pc[q] = "validate"
    BY <1>3 DEF ValidateToken
  <2>2. PICK o \in {"invalid", "forbidden", "error", "mismatch"}, l \in {"disabled"} : End(q, o) \/ Goto(q, l)
    BY <1>3, ValidateEffect
  <2>3. o \in Outcomes /\ l \in Labels
    BY OutcomesAre DEF Labels
  <2>4. outcome[q] # "ok"
    BY <1>1, <2>1 DEF FlowOf
  <2>5. outcome'[q] # "ok" /\ \A r \in Requests \ {q} : outcome'[r] = outcome[r]
    BY <1>1, <2>2, <2>3, <2>4, EndEffect, GotoEffect
  <2>6. \A r \in Requests \ {q} : namespace'[r] = namespace[r]
    BY <1>1, <1>3, ValidateEffect DEF Shape
  <2>7. \A r \in Requests : AnswerOf(r)'
    BY <1>1, <2>1, <2>5, <2>6, AnswerSame
  <2> QED BY <2>1, <2>7 DEF AnswerInv
<1>4. ASSUME NEW q \in Requests, NEW f, ReadMetadata(q, f)
      PROVE  AnswerInv'
  <2> DEFINE data == LoginData(DocOf[namespace[q]])
  <2>1. UNCHANGED <<namespace, input>> /\ pc[q] = "metadata"
    BY <1>4 DEF ReadMetadata
  <2>2. PICK o \in {"provision", "noauth", "ok", "denied", "noenv", "bad", "error", "accepted", "rejected"} : End(q, o)
    BY <1>4, MetadataEnds
  <2>3. o \in Outcomes
    BY OutcomesAre
  <2>4. outcome'[q] = o /\ \A r \in Requests \ {q} : outcome'[r] = outcome[r]
    BY <1>1, <2>2, <2>3, EndEffect
  <2>5. DOMAIN answer' = Requests /\ \A r \in Requests \ {q} : answer'[r] = answer[r]
    <3>1. \/ UNCHANGED answer
          \/ \E v : answer' = [answer EXCEPT ![q] = v]
      <4>1. input[q].kind \in KeyKinds \cup LoginKinds \cup {"login"}
        BY <2>1, KindOf
      <4>2. CASE input[q].kind \in LoginKinds
        <5>1. \E found : FinishLogin(q, found)
          BY <1>4, <4>2 DEF ReadMetadata, LoginKinds, KeyKinds
        <5> QED BY <5>1, Zenon DEF FinishLogin
      <4>3. CASE input[q].kind \notin LoginKinds
        <5>1. \/ UNCHANGED answer
              \/ FinishBuild(q, input[q]) \/ FinishCleanup(q, input[q]) \/ FinishPatch(q, input[q])
          BY <1>4, <4>1, <4>3 DEF ReadMetadata, LoginKinds, KeyKinds
        <5> QED BY <5>1, Zenon DEF FinishBuild, FinishCleanup, FinishPatch
      <4> QED BY <4>2, <4>3
    <3> QED BY <3>1 DEF AnswerInv
  <2>6. ASSUME input[q].kind \in LoginKinds, outcome'[q] = "ok"
        PROVE  namespace[q] \in Users /\ answer'[q] = Answer(namespace[q], data)
    <3>1. FinishLogin(q, Finds(metadata, namespace[q], f))
      BY <1>4, <2>6 DEF ReadMetadata, LoginKinds, KeyKinds
    <3>2. {"provision", "noauth"} \subseteq Outcomes
      BY OutcomesAre
    <3>3. ~End(q, "provision") /\ ~End(q, "noauth")
      BY <1>1, <2>6, <3>2, EndEffect
    <3>4. /\ Finds(metadata, namespace[q], f)
          /\ answer' = [answer EXCEPT ![q] = Answer(namespace[q], data)]
      BY <3>1, <3>3, Zenon DEF FinishLogin
    <3>5. namespace[q] \in Users
      BY <1>1, <3>4 DEF Finds, Shape
    <3> QED BY <3>4, <3>5 DEF AnswerInv
  <2>7. AnswerOf(q)'
    BY <2>1, <2>6 DEF AnswerOf
  <2>8. \A r \in Requests \ {q} : AnswerOf(r)'
    BY <1>1, <2>1, <2>4, <2>5, AnswerSame
  <2> QED BY <2>5, <2>7, <2>8 DEF AnswerInv
<1>5. CASE UNCHANGED <<outcome, input, namespace, answer>>
  BY <1>1, <1>5, AnswerSame DEF AnswerInv
<1> QED BY <1>2, <1>3, <1>4, <1>5 DEF Next, Call, Outside, vars

\* A login's answer has every value of the user's document (map_login_data and
\* the end of login_oidc), but for the keys it gives a meaning of its own: LOGIN,
\* NAMESPACE and the names SYSTEM_k of the system's values.  A document is as
\* DocsAssumption says; of the merge for a build nothing is claimed.
THEOREM NothingLost == Spec => []NoValueLost
<1>1. Init => AnswerInv
  BY DEF Init, AnswerInv, AnswerOf
<1>2. ASSUME AnswerInv PROVE NoValueLost
  <2> SUFFICES ASSUME NEW r \in Requests, outcome[r] = "ok", input[r].kind \in LoginKinds
               PROVE  LET system == EnvToDict(DocOf[namespace[r]].env)
                          user == EnvToDict(DocOf[namespace[r]].userenv)
                          Taken == {<<"LOGIN">>, <<"NAMESPACE">>} \cup {SystemKey(k) : k \in DOMAIN system}
                          Has(k, v) == k \in DOMAIN answer[r] /\ answer[r][k] = v
                      IN /\ \A k \in DOMAIN user \ Taken : Has(k, user[k])
                         /\ \A k \in DOMAIN system \ Taken :
                              Has(k, system[k]) \/ Has(SystemKey(k), system[k])
    BY Zenon DEF NoValueLost
  <2>1. /\ namespace[r] \in Users
        /\ answer[r] = Answer(namespace[r], LoginData(DocOf[namespace[r]]))
    BY <1>2 DEF AnswerInv, AnswerOf
  <2>2. CleanEnv(DocOf[namespace[r]])
    BY <2>1, DocsAssumption DEF CleanEnv
  <2>3. ASSUME NEW k, k \notin TakenOf(DocOf[namespace[r]])
        PROVE  KeptIn(DocOf[namespace[r]], answer[r], k)
    BY <2>1, <2>2, <2>3, MergeKeeps
  <2> QED BY <2>3, Zenon DEF KeptIn, TakenOf
<1> QED BY <1>1, <1>2, AuthSafe, StepAnswer, PTL DEF Spec

-----------------------------------------------------------------------------
(* Keys that were spelled with encode() *)

\* Such a header is read as the key, whatever characters the key has.
LEMMA SpelledIsRead ==
  ASSUME NEW u \in Users, NEW i, SpellsKeyOf(i, u)
  PROVE  Decode(i.header) = KeyOf[u] /\ Decode(i.header) # Unreadable
<1> DEFINE C == STRING \cup {":", "%", "3A", "25"}
<1>1. Spells(C)
  BY DEF Spells
<1>2. IsKey(KeyOf[u])
  BY InputsAssumption
<1>3. PICK name \in Seq(STRING) \ {<<>>}, word \in Seq(STRING) \ {<<>>} : KeyOf[u] = <<name, word>>
  BY <1>2 DEF IsKey
<1>4. Colons(name) = {}
  BY <1>2, <1>3 DEF IsKey
<1>5. i.header.scheme \in {"none", "basic"} /\ i.header.text = Encode(name, word).text
  BY <1>3 DEF SpellsKeyOf
<1>6. STRING \subseteq C
  OBVIOUS
<1> HIDE DEF C
<1>7. name \in Seq(C) /\ word \in Seq(C) /\ name # <<>> /\ word # <<>>
  <2>1. \A A, B, s : A \subseteq B /\ s \in Seq(A) => s \in Seq(B)
    OBVIOUS
  <2> QED BY <1>3, <1>6, <2>1, Zenon
<1>8. Decode(i.header) = <<name, word>> /\ Decode(i.header) # Unreadable
  BY <1>1, <1>4, <1>5, <1>7, DecodeInvertsEncode
<1> QED BY <1>3, <1>8

\* Who stays has both documents.
DocumentsStay == Users \ gone \subseteq subjects \cap metadata

\* A request with the key of a user who stays has read the subject or will, and
\* was not denied, if its calls got through.
KeyReadOf(r) ==
  \A u \in Users \ gone :
    r \notin hit /\ SpellsKeyOf(input[r], u) =>
      /\ pc[r] \in {"subject", "metadata", "done"}
      /\ pc[r] # "subject" => subject[r] = u
      /\ outcome[r] # "denied"

KeyInv == DocumentsStay /\ \A r \in Requests : KeyReadOf(r)

LEMMA KeyReadSame ==
  ASSUME NEW r \in Requests, KeyReadOf(r), gone \subseteq gone', hit \subseteq hit',
         pc'[r] = pc[r], outcome'[r] = outcome[r], input'[r] = input[r], subject'[r] = subject[r]
  PROVE  KeyReadOf(r)'
BY Zenon DEF KeyReadOf

LEMMA DocumentsKept ==
  ASSUME Shape, DocumentsStay, Outside
  PROVE  DocumentsStay' /\ gone \subseteq gone'
<1>1. ASSUME NEW u, DeleteUser(u) PROVE DocumentsStay' /\ gone \subseteq gone'
  BY <1>1 DEF DeleteUser, DocumentsStay
<1>2. CASE UNCHANGED <<subjects, metadata, gone>>
  BY <1>2 DEF DocumentsStay
<1> QED BY <1>1, <1>2 DEF Outside, Tick, Rotate, Unbind

LEMMA ArriveReads ==
  ASSUME AuthInv, KeyInv, NEW q \in Requests, Arrive(q)
  PROVE  KeyReadOf(q)'
<1>1. PICK i \in InputsOf[world][q] : input' = [input EXCEPT ![q] = i] /\ Begin(q, i)
  BY DEF Arrive
<1>2. Shape /\ FlowOf(q) /\ pc[q] = "idle" /\ UNCHANGED <<outside, hit>>
  BY DEF AuthInv, Each, Arrive
<1>3. input'[q] = i
  BY <1>1, <1>2 DEF Shape
<1>4. SUFFICES ASSUME NEW u \in Users, SpellsKeyOf(i, u)
               PROVE  pc'[q] = "subject" /\ outcome'[q] # "denied"
  BY <1>2, <1>3 DEF KeyReadOf, outside
<1>5. i.kind \in KeyKinds /\ i.header.scheme # "absent"
  BY <1>4 DEF SpellsKeyOf
<1>6. Goto(q, "subject")
  <2>1. Decode(i.header) # Unreadable
    BY <1>4, SpelledIsRead
  <2> QED BY <1>1, <1>5, <2>1 DEF Begin, KeyKinds
<1>7. "subject" \in Labels /\ outcome[q] = "pending"
  BY <1>2 DEF Labels, FlowOf
<1> QED BY <1>2, <1>6, <1>7, GotoEffect

LEMMA SubjectReads ==
  ASSUME AuthInv, KeyInv, NEW q \in Requests, NEW f, ReadSubject(q, f),
         hit' = IF f = NoFault THEN hit ELSE hit \cup {q}
  PROVE  KeyReadOf(q)'
<1> DEFINE owners == {u \in Users : KeyOf[u] = Decode(input[q].header) /\ Finds(subjects, u, f)}
<1>1. Shape /\ pc[q] = "subject" /\ UNCHANGED <<outside, input>>
  BY DEF AuthInv, ReadSubject
<1>2. outcome[q] = "pending"
  BY <1>1 DEF AuthInv, Each, FlowOf
<1>3. SUFFICES ASSUME NEW u \in Users \ gone, q \notin hit', SpellsKeyOf(input[q], u)
               PROVE  pc'[q] = "metadata" /\ subject'[q] = u /\ outcome'[q] # "denied"
  BY <1>1, Zenon DEF KeyReadOf, outside
<1>4. f = NoFault /\ u \in subjects
  BY <1>3 DEF KeyInv, DocumentsStay
<1>5. Decode(input[q].header) = KeyOf[u]
  BY <1>3, SpelledIsRead
<1>6. owners = {u}
  BY <1>3, <1>4, <1>5, InputsAssumption DEF Finds
<1>7. Goto(q, "metadata") /\ subject' = [subject EXCEPT ![q] = CHOOSE v \in owners : TRUE]
  <2>1. owners # {}
    BY <1>6
  <2> QED BY <2>1, Zenon DEF ReadSubject
<1>8. subject'[q] = u
  BY <1>1, <1>6, <1>7 DEF Shape
<1>9. "metadata" \in Labels
  BY DEF Labels
<1> QED BY <1>1, <1>2, <1>7, <1>8, <1>9, GotoEffect

LEMMA MetadataReads ==
  ASSUME AuthInv, KeyInv, NEW q \in Requests, NEW f, ReadMetadata(q, f),
         hit' = IF f = NoFault THEN hit ELSE hit \cup {q}
  PROVE  KeyReadOf(q)'
<1>1. Shape /\ pc[q] = "metadata" /\ UNCHANGED <<outside, input, subject>>
  BY DEF AuthInv, ReadMetadata
<1>2. SUFFICES ASSUME NEW u \in Users \ gone, q \notin hit', SpellsKeyOf(input[q], u)
               PROVE  pc'[q] = "done" /\ subject[q] = u /\ outcome'[q] # "denied"
  BY <1>1, Zenon DEF KeyReadOf, outside
<1>3. f = NoFault /\ q \notin hit
  BY <1>2
<1>4. subject[q] = u
  BY <1>1, <1>2, <1>3 DEF KeyInv, KeyReadOf
<1>5. Finds(metadata, subject[q], f)
  BY <1>2, <1>3, <1>4 DEF Finds, KeyInv, DocumentsStay
<1>6. input[q].kind \in KeyKinds /\ input[q].kind \notin LoginKinds \cup {"login"}
  BY <1>2 DEF SpellsKeyOf, KeyKinds, LoginKinds
<1>7. FinishBuild(q, input[q]) \/ FinishCleanup(q, input[q]) \/ FinishPatch(q, input[q])
  BY <1>5, <1>6 DEF ReadMetadata, KeyKinds
<1>8. \E o \in Outcomes \ {"denied"} : End(q, o)
  <2>1. {"noenv", "bad", "accepted", "error", "rejected"} \subseteq Outcomes \ {"denied"}
    BY OutcomesAre
  <2> QED BY <1>7, <2>1 DEF FinishBuild, FinishCleanup, FinishPatch
<1> QED BY <1>1, <1>4, <1>8, EndEffect

LEMMA StepReads == AuthInv /\ KeyInv /\ [Next]_vars => KeyInv'
<1> SUFFICES ASSUME AuthInv, KeyInv, [Next]_vars PROVE KeyInv'
  OBVIOUS
<1>1. Shape /\ DocumentsStay /\ \A r \in Requests : KeyReadOf(r) /\ FlowOf(r)
  BY DEF AuthInv, KeyInv, Each
<1>2. ASSUME NEW q \in Requests, gone \subseteq gone', hit \subseteq hit', DocumentsStay',
             KeyReadOf(q)',
             \A r \in Requests \ {q} :
               /\ pc'[r] = pc[r] /\ outcome'[r] = outcome[r]
               /\ input'[r] = input[r] /\ subject'[r] = subject[r]
      PROVE  KeyInv'
  <2>1. \A r \in Requests \ {q} : KeyReadOf(r)'
    BY <1>1, <1>2, KeyReadSame
  <2> QED BY <1>2, <2>1 DEF KeyInv
<1>3. ASSUME NEW q \in Requests, UNCHANGED outside
      PROVE  DocumentsStay' /\ gone \subseteq gone'
  BY <1>1, <1>3 DEF DocumentsStay, outside
<1>4. ASSUME NEW q \in Requests, (\E l \in Labels : Goto(q, l)) \/ (\E o \in Outcomes : End(q, o))
      PROVE  \A r \in Requests \ {q} : pc'[r] = pc[r] /\ outcome'[r] = outcome[r]
  BY <1>1, <1>4, GotoEffect, EndEffect
<1>5. ASSUME NEW q \in Requests, Arrive(q) PROVE KeyInv'
  <2>1. UNCHANGED <<outside, hit, subject>> /\ \E i : input' = [input EXCEPT ![q] = i]
    BY <1>5 DEF Arrive
  <2>2. Quiet(q)
    BY <1>5, QuietSteps
  <2>3. \A r \in Requests \ {q} : pc'[r] = pc[r] /\ outcome'[r] = outcome[r]
    BY <1>4, <2>2 DEF Quiet
  <2>4. \A r \in Requests \ {q} : input'[r] = input[r] /\ subject'[r] = subject[r]
    BY <1>1, <2>1 DEF Shape
  <2>5. KeyReadOf(q)'
    BY <1>5, ArriveReads
  <2> QED BY <1>2, <1>3, <2>1, <2>3, <2>4, <2>5
<1>6. ASSUME NEW q \in Requests, NEW f \in CallOutcomes, Call(q, f) PROVE KeyInv'
  <2>1. hit' = (IF f = NoFault THEN hit ELSE hit \cup {q}) /\ hit \subseteq hit'
    BY <1>6 DEF Call
  <2>2. UNCHANGED <<outside, input>>
    BY <1>6 DEF Call, Exchange, ValidateToken, CheckDisabled, ReadSubject, ReadMetadata
  <2>3. \A r \in Requests \ {q} : subject'[r] = subject[r]
    <3>1. CASE ReadSubject(q, f)
      <4>1. UNCHANGED subject \/ \E u : subject' = [subject EXCEPT ![q] = u]
        BY <3>1, Zenon DEF ReadSubject
      <4> QED BY <1>1, <4>1 DEF Shape
    <3>2. CASE UNCHANGED subject
      BY <3>2
    <3> QED BY <1>6, <3>1, <3>2 DEF Call, Exchange, ValidateToken, CheckDisabled, ReadMetadata
  <2>4. \A r \in Requests \ {q} : pc'[r] = pc[r] /\ outcome'[r] = outcome[r]
    <3>1. CASE Exchange(q, f) \/ CheckDisabled(q, f) \/ ReadSubject(q, f)
      <4>1. Quiet(q)
        BY <3>1, QuietSteps
      <4> QED BY <1>4, <4>1 DEF Quiet
    <3>2. CASE ValidateToken(q, f)
      <4>1. \/ \E o \in {"invalid", "forbidden", "error", "mismatch"} : End(q, o)
            \/ Goto(q, "disabled")
        BY <3>2, ValidateEffect
      <4>2. {"invalid", "forbidden", "error", "mismatch"} \subseteq Outcomes /\ "disabled" \in Labels
        BY OutcomesAre DEF Labels
      <4> QED BY <1>4, <4>1, <4>2
    <3>3. CASE ReadMetadata(q, f)
      <4>1. \E o \in Outcomes : End(q, o)
        BY <3>3, MetadataEnds, OutcomesAre
      <4> QED BY <1>1, <4>1, EndEffect
    <3> QED BY <1>6, <3>1, <3>2, <3>3 DEF Call
  <2>5. KeyReadOf(q)'
    <3>1. CASE ReadSubject(q, f)
      BY <2>1, <3>1, SubjectReads
    <3>2. CASE ReadMetadata(q, f)
      BY <2>1, <3>2, MetadataReads
    <3>3. CASE pc[q] \in {"exchange", "validate", "disabled"}
      \* No such request has a key.
      <4>1. input[q].kind \in LoginKinds
        BY <1>1, <3>3 DEF FlowOf
      <4>2. input'[q].kind \notin KeyKinds
        BY <2>2, <4>1 DEF KeyKinds, LoginKinds
      <4> QED BY <4>2 DEF KeyReadOf, SpellsKeyOf
    <3> QED BY <1>6, <3>1, <3>2, <3>3 DEF Call, Exchange, ValidateToken, CheckDisabled
  <2> QED BY <1>2, <1>3, <2>1, <2>2, <2>3, <2>4, <2>5
<1>7. CASE Outside
  <2>1. UNCHANGED <<pc, input, outcome, subject, hit>>
    BY <1>7 DEF Outside
  <2>2. DocumentsStay' /\ gone \subseteq gone'
    BY <1>1, <1>7, DocumentsKept
  <2>3. \A r \in Requests : KeyReadOf(r)'
    BY <1>1, <2>1, <2>2, KeyReadSame
  <2> QED BY <2>2, <2>3 DEF KeyInv
<1>8. CASE UNCHANGED vars
  <2>1. UNCHANGED <<subjects, metadata, gone, pc, input, outcome, subject, hit>>
    BY <1>8 DEF vars, outside
  <2>2. \A r \in Requests : KeyReadOf(r)'
    BY <1>1, <2>1, KeyReadSame
  <2> QED BY <1>1, <2>1, <2>2 DEF KeyInv, DocumentsStay
<1> QED BY <1>5, <1>6, <1>7, <1>8, Zenon DEF Next

\* The key of a user who stays leads to that user, however it had to be escaped
\* in the header and whatever happens to other users meanwhile (decode, login).
THEOREM GoodKeySafe == Spec => []GoodKeyAccepted
<1>1. ASSUME Init PROVE KeyInv
  <2>1. DocumentsStay
    BY <1>1 DEF Init, DocumentsStay
  <2>2. ASSUME NEW r \in Requests PROVE KeyReadOf(r)
    <3>1. input[r].kind \notin KeyKinds
      BY <1>1 DEF Init, None, KeyKinds
    <3> QED BY <3>1 DEF KeyReadOf, SpellsKeyOf
  <2> QED BY <2>1, <2>2 DEF KeyInv
<1>2. ASSUME AuthInv, KeyInv PROVE GoodKeyAccepted
  <2>1. SUFFICES ASSUME NEW r \in Requests, r \notin hit, NEW u \in Users \ gone,
                        SpellsKeyOf(input[r], u), pc[r] = "done"
                 PROVE  subject[r] = u /\ outcome[r] # "denied"
    BY <1>2, Zenon DEF GoodKeyAccepted, AuthInv, Shape
  <2> QED BY <1>2, <2>1 DEF KeyInv, KeyReadOf
<1> QED BY <1>1, <1>2, AuthSafe, StepReads, PTL DEF Spec
=============================================================================
