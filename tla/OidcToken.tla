----------------------------- MODULE OidcToken ------------------------------
(***************************************************************************)
(* OidcTokenValidator.validate (common/oidc_validator.py).  A token is a   *)
(* record of what its parts turn out to be:                                *)
(*   parts              how many its dots separate, 0 for no token         *)
(*   header, claims     a JSON "object", "other" JSON, or "garbled"        *)
(*   alg, kid           of the header                                      *)
(*   signature          "good" for the key kid, "forged" or "garbled"      *)
(*   iss, aud, groups   of the claims, a single value being a singleton    *)
(*   exp, nbf           a time, or not there, or no number                 *)
(*   user               the user name, a sequence, <<>> if not there       *)
(* keys are the keys of the JWKS document by kid, or Unavailable when the  *)
(* request for it fails.                                                   *)
(***************************************************************************)
EXTENDS Integers, Sequences, FiniteSetsExt

Unavailable == [failed |-> "unavailable"]

\* A groups claim that cannot be searched (null, a number).
Unsearchable == "unsearchable"

At(n) == [is |-> "number", value |-> n]
NotGiven == [is |-> "absent", value |-> 0]
NoNumber == [is |-> "text", value |-> 0]

KeyKind(keys, kid) == IF kid \in DOMAIN keys THEN keys[kid] ELSE "none"

ExpiredAt(cfg, t, now) == t.exp.is = "absent" \/ t.exp.value < now - cfg.leeway

\* Variant: no leeway.
NotYetAtOnce(cfg, t, now) == t.nbf.is = "number" /\ t.nbf.value > now

NotYetAt(cfg, t, now) == t.nbf.is = "number" /\ t.nbf.value > now + cfg.leeway

\* Whether the check of the required group fails.
GroupMissing(cfg, t) == cfg.group # "" /\ cfg.group \notin t.groups

\* The checks in their order, each with what a failing one raises: "invalid"
\* for OidcValidationError, "forbidden" for OidcForbiddenError, "raises" for
\* any other exception.
Checks(cfg, keys, now, t) ==
  << <<t.parts # 3, "invalid">>,
     <<"garbled" \in {t.header, t.claims} \/ t.header = "other", "raises">>,
     <<t.alg # "RS256", "invalid">>,
     <<t.signature = "garbled", "raises">>,
     <<~cfg.jwksUrl, "invalid">>,
     <<keys = Unavailable, "raises">>,
     <<KeyKind(keys, t.kid) \in {"none", "other"}, "invalid">>,
     <<KeyKind(keys, t.kid) = "garbled", "raises">>,
     <<t.signature = "forged", "invalid">>,
     <<cfg.issuer = "", "invalid">>,
     <<t.claims = "other", "raises">>,
     <<t.iss # cfg.issuer, "invalid">>,
     <<cfg.audience = "" \/ cfg.audience \notin t.aud, "invalid">>,
     <<t.exp.is = "text", "raises">>,
     <<ExpiredAt(cfg, t, now), "invalid">>,
     <<t.nbf.is = "text", "raises">>,
     <<NotYetAt(cfg, t, now), "invalid">>,
     <<GroupMissing(cfg, t) /\ Unsearchable \in t.groups, "raises">>,
     <<GroupMissing(cfg, t), "forbidden">>,
     <<t.user = <<>>, "invalid">> >>

\* The check that fails first speaks.
FirstFailing(checks) ==
  LET failing == {i \in 1..Len(checks) : checks[i][1]} IN
  IF failing = {} THEN "ok" ELSE checks[Min(failing)][2]

\* Variant: looks at the group before the signature.
ValidateGroupFirst(cfg, keys, now, t) ==
  IF GroupMissing(cfg, t) THEN "forbidden" ELSE FirstFailing(Checks(cfg, keys, now, t))

Validate(cfg, keys, now, t) == FirstFailing(Checks(cfg, keys, now, t))
=============================================================================
