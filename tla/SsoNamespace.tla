---------------------------- MODULE SsoNamespace ----------------------------
(***************************************************************************)
(* common/sso_namespace.py and common/validation.py: the namespace a user  *)
(* of the identity provider gets.  Names are sequences of characters.  The *)
(* hash is external: digest is the hexadecimal sha256 of the issuer, the   *)
(* subject and the user name.                                              *)
(***************************************************************************)
EXTENDS Integers, Sequences, SequencesExt

HexDigits == {"0", "1", "2", "3", "4", "5", "6", "7", "8", "9", "a", "b", "c", "d", "e", "f"}
Alnum == HexDigits \cup {"g", "h", "i", "j", "k", "l", "m", "n", "o", "p", "q", "r", "s", "t",
                         "u", "v", "w", "x", "y", "z"}

\* Two capital letters stand for all.
CapitalLetters == [A |-> "a", B |-> "b"]
Lower(c) == IF c \in DOMAIN CapitalLetters THEN CapitalLetters[c] ELSE c

\* ^[a-z0-9]{5,60}(?:[a-z0-9])?$
IsValidUsername(n) == Len(n) \in 5..61 /\ \A i \in 1..Len(n) : n[i] \in Alnum

Clamp(x, low, high) == IF x < low THEN low ELSE IF x > high THEN high ELSE x

\* The environment's values; one that is missing or no number is the default.
SuffixLen(cfg) == Clamp(cfg.hashLength, 6, 16)
MaxLen(cfg) == Clamp(cfg.maxLength, 13, 61)

\* s[:k], where a negative k counts from the end.
Slice(s, k) ==
  SubSeq(s, 1, IF k < 0 THEN Len(s) + k ELSE IF k < Len(s) THEN k ELSE Len(s))

Suffix(cfg, digest) == SubSeq(digest, 1, SuffixLen(cfg))

UserWord == <<"u", "s", "e", "r">>

\* re.sub drops every other character.
Kept(user) ==
  FlattenSeq([i \in 1..Len(user) |-> IF Lower(user[i]) \in Alnum THEN <<Lower(user[i])>> ELSE <<>>])

Base(user) == IF Len(Kept(user)) < 5 THEN Kept(user) \o UserWord ELSE Kept(user)

\* Variant: cuts the name after the suffix was appended.
PrefixedCutLast(cfg, user, digest) ==
  Slice(Base(user) \o Suffix(cfg, digest), MaxLen(cfg))

Prefixed(cfg, user, digest) ==
  Slice(Base(user), MaxLen(cfg) - SuffixLen(cfg)) \o Suffix(cfg, digest)

\* ValueError.
Underivable == <<>>

\* Variant: gives up when the name made of the user's is not valid.
NormalizedNoFallback(cfg, user, digest) ==
  IF IsValidUsername(Prefixed(cfg, user, digest)) THEN Prefixed(cfg, user, digest)
  ELSE Underivable

Normalized(cfg, user, digest) ==
  LET fallback == UserWord \o Suffix(cfg, digest) IN
  IF IsValidUsername(Prefixed(cfg, user, digest)) THEN Prefixed(cfg, user, digest)
  ELSE IF IsValidUsername(fallback) THEN fallback
  ELSE Underivable

\* Variant: takes the namespace claim as it is.
NamespaceForUnchecked(cfg, claims) ==
  IF cfg.namespaceClaim /\ claims.claimed # <<>> THEN claims.claimed
  ELSE IF cfg.preserveValid /\ IsValidUsername(claims.user) THEN claims.user
  ELSE Normalized(cfg, claims.user, claims.digest)

\* namespace_for.  claimed is the value of the namespace claim, <<>> if none.
NamespaceFor(cfg, claims) ==
  IF cfg.namespaceClaim /\ IsValidUsername(claims.claimed) THEN claims.claimed
  ELSE IF cfg.preserveValid /\ IsValidUsername(claims.user) THEN claims.user
  ELSE Normalized(cfg, claims.user, claims.digest)
=============================================================================
