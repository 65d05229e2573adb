--------------------------- MODULE MCAuthRequests ---------------------------
(* Two requests: in worlds with the default configuration everything r1 may *)
(* send, while the outside changes; in worlds with other configurations the *)
(* names of two users of the identity provider.                             *)
EXTENDS AuthRequests

CONSTANTS r1, r2

Alice == <<"a", "l", "i", "c", "e">>
Bobby == <<"b", "o", "b", "b", "y">>
Word(c, n) == [i \in 1..n |-> c]

MCUsers == {Alice, Bobby}
MCKeyOf == (Alice :> << <<"u", "1">>, <<"k", ":">> >>) @@ (Bobby :> << <<"u", "2">>, <<"%", "3A">> >>)

Entry(k, v) == [key |-> <<k>>, value |-> <<v>>]
MCDocOf ==
  (Alice :> [env |-> <<Entry("AUTH", "s1"), Entry("A", "s2"), Entry("B", "s3"), Entry("B", "s4")>>,
             userenv |-> <<Entry("A", "u1"), Entry("C", "u2")>>])
  @@ (Bobby :> [env |-> <<>>, userenv |-> <<Entry("C", "u3")>>])

MCJwksVersions == {[k1 |-> "rsa", k2 |-> "other"], [k2 |-> "garbled", k3 |-> "rsa"]}

-----------------------------------------------------------------------------
DefaultCfg ==
  [leeway |-> 1, group |-> "staff", jwksUrl |-> TRUE, issuer |-> "issuer", audience |-> "api",
   hashLength |-> 8, maxLength |-> 61, namespaceClaim |-> FALSE, preserveValid |-> TRUE]

\* Clocks and keys change.
TokenWorlds ==
  [cfg : {DefaultCfg}, skew : -2..2, events : {3}, touched : {{}}]
  \cup [cfg : {[DefaultCfg EXCEPT !.leeway = 0, !.group = ""],
               [DefaultCfg EXCEPT !.jwksUrl = FALSE],
               [DefaultCfg EXCEPT !.issuer = ""],
               [DefaultCfg EXCEPT !.audience = ""]}, skew : {0}, events : {3}, touched : {{}}]

\* Users change.
UserWorlds == [cfg : {DefaultCfg}, skew : {0}, events : {2}, touched : {{Alice}}]

\* Nothing changes.
NameWorlds ==
  [cfg : [leeway : {1}, group : {""}, jwksUrl : {TRUE}, issuer : {"issuer"}, audience : {"api"},
          hashLength : {5, 8, 17}, maxLength : {12, 20, 99}, namespaceClaim : BOOLEAN,
          preserveValid : BOOLEAN],
   skew : {0}, events : {0}, touched : {{}}]

MCWorlds == TokenWorlds \cup UserWorlds \cup NameWorlds

-----------------------------------------------------------------------------
Digest1 == Word("a", 17)
Digest2 == <<"b">> \o Word("a", 16)

GoodToken ==
  [parts |-> 3, header |-> "object", claims |-> "object", alg |-> "RS256", kid |-> "k1",
   signature |-> "good", iss |-> "issuer", aud |-> {"api", "other"}, groups |-> {"staff"},
   exp |-> At(2), nbf |-> At(1), user |-> Alice, claimed |-> <<>>, digest |-> Digest1]

\* The tokens that differ from t in one respect.
Variations(t) ==
  {[t EXCEPT !.parts = n] : n \in {0, 2}}
  \cup {[t EXCEPT !.header = h] : h \in {"other", "garbled"}}
  \cup {[t EXCEPT !.claims = h] : h \in {"other", "garbled"}}
  \cup {[t EXCEPT !.alg = "HS256"]}
  \cup {[t EXCEPT !.kid = k] : k \in {"k2", "k3"}}
  \cup {[t EXCEPT !.signature = s] : s \in {"forged", "garbled"}}
  \cup {[t EXCEPT !.iss = "elsewhere"]}
  \cup {[t EXCEPT !.aud = {"other"}]}
  \cup {[t EXCEPT !.groups = g] : g \in {{}, {Unsearchable}}}
  \cup {[t EXCEPT !.exp = x] : x \in {At(0), At(1), NotGiven, NoNumber}}
  \cup {[t EXCEPT !.nbf = x] : x \in {At(0), At(2), NotGiven, NoNumber}}
  \cup {[t EXCEPT !.user = <<>>]}

Tokens == {GoodToken} \cup UNION {{t} \cup Variations(t) : t \in Variations(GoodToken)}

LongNames == {Word("x", 12) \o <<"-", "@">>, Word("x", 49) \o <<"-">>, Word("x", 61), Word("x", 62)}
UserNames == {Alice, <<"A">> \o Word("a", 4), <<"-">>, Word("x", 4)} \cup LongNames

\* A token of a user, with a namespace claim or none.
NameToken(u, c, d) ==
  [GoodToken EXCEPT !.nbf = NotGiven, !.user = u, !.claimed = c, !.digest = d]
NameTokens1 ==
  {NameToken(u, <<>>, Digest1) : u \in UserNames}
  \cup {NameToken(u, c, Digest1) : u \in {Alice, <<"-">>}, c \in {Bobby, <<"B">>}}
NameTokens2 == {NameToken(u, <<>>, Digest2) : u \in LongNames}

-----------------------------------------------------------------------------
Host == [name |-> <<Word("s", 1), Word("t", 1)>>, port |-> FALSE]
Blank ==
  [kind |-> "oidc", token |-> GoodToken, header |-> [scheme |-> "absent", text |-> <<>>],
   wanted |-> Nobody, origin |-> <<>>, host |-> Host, reply |-> "token", complete |-> TRUE,
   body |-> "object", target |-> Alice, strict |-> TRUE, ageIsText |-> FALSE,
   rightPassword |-> TRUE]

TokenInputs(tokens) == {[Blank EXCEPT !.token = t] : t \in tokens}

\* A login of Alice and one of Bobby, from pages of the one, of the other, of
\* the API itself, of a deeper host and of another site.
Pages == {<<>>, Host.name, <<Alice>> \o Host.name, <<Bobby>> \o Host.name,
          <<Alice, Bobby>> \o Host.name, <<Alice, Word("z", 1)>>}
GoodTokens == {[GoodToken EXCEPT !.user = u] : u \in {Alice, Bobby, Word("x", 6)}}
PageInputs ==
  {[Blank EXCEPT !.kind = "device", !.token = t, !.wanted = n, !.origin = o, !.host.port = p] :
     t \in GoodTokens, n \in {Nobody, Bobby}, o \in Pages, p \in BOOLEAN}
GrantInputs ==
  {[Blank EXCEPT !.kind = "grant", !.token = t, !.wanted = n, !.reply = a, !.complete = c] :
     t \in GoodTokens, n \in {Nobody, Bobby}, a \in {"token", "error", "noToken"}, c \in BOOLEAN}

Headers ==
  {[scheme |-> s, text |-> Encode(MCKeyOf[u][1], MCKeyOf[u][2]).text] :
     s \in {"absent", "none", "basic", "other", "many"}, u \in {Alice, Bobby}}
  \cup {[scheme |-> "basic", text |-> t] :
          t \in {<<"u", "1">>, <<":", "k">>, <<"u", ":">>, <<"u", ":", "k", ":">>, <<"u", "9", ":", "k">>}}
Bodies == {"object", "null", "garbled"}
KeyInputs ==
  {[Blank EXCEPT !.kind = k, !.header = h] : k \in KeyKinds, h \in Headers}
  \cup {[Blank EXCEPT !.kind = k, !.header = [scheme |-> "basic", text |-> Encode(MCKeyOf[u][1], MCKeyOf[u][2]).text],
                      !.body = b, !.complete = c, !.target = t, !.strict = s, !.ageIsText = ~s] :
          k \in KeyKinds, u \in {Alice, Bobby}, b \in Bodies, c \in BOOLEAN,
          t \in {Alice, Bobby, <<"l", "i">>}, s \in BOOLEAN}
PasswordInputs ==
  {[Blank EXCEPT !.kind = "login", !.target = u, !.rightPassword = p, !.body = b, !.complete = c] :
     u \in {Alice, Word("x", 5)}, p \in BOOLEAN, b \in Bodies, c \in BOOLEAN}

MCInputsOf ==
  [w \in MCWorlds |-> [r \in {r1, r2} |->
     CASE w \in NameWorlds ->
            TokenInputs(IF r = r1 THEN NameTokens1 ELSE NameTokens2)
       [] w \in TokenWorlds /\ r = r1 ->
            TokenInputs(IF w.cfg = DefaultCfg /\ w.skew = 0 THEN Tokens
                        ELSE {GoodToken} \cup Variations(GoodToken))
       [] w \in UserWorlds /\ r = r1 -> PageInputs \cup GrantInputs \cup KeyInputs \cup PasswordInputs
       [] OTHER -> {}]]
=============================================================================
