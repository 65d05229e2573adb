------------------------------ MODULE UserEnv -------------------------------
(***************************************************************************)
(* The two environments in a user's CouchDB document, env of the system    *)
(* and userenv of the user, and how the services merge them.  Each is a    *)
(* list of [key, value] records; a key is a sequence of words, so that     *)
(* "SYSTEM_" \o key can be told.                                           *)
(***************************************************************************)
EXTENDS Naturals, Sequences, FiniteSetsExt

\* env_to_dict: of two entries with one key the last one counts.
EnvToDict(pairs) ==
  LET Places(k) == {i \in 1..Len(pairs) : pairs[i].key = k} IN
  [k \in {pairs[i].key : i \in 1..Len(pairs)} |-> pairs[Max(Places(k))].value]

SystemKey(k) == <<"SYSTEM">> \o k

\* The environment of a build: userenv over env.
BuildEnv(doc) ==
  LET system == EnvToDict(doc.env)
      user == EnvToDict(doc.userenv)
  IN [k \in DOMAIN system \cup DOMAIN user |->
        IF k \in DOMAIN user THEN user[k] ELSE system[k]]

\* Variant: merges like a build.
LoginDataLikeBuild(doc) == BuildEnv(doc)

\* map_login_data: a key of env that userenv has too is answered as SYSTEM_key,
\* over what userenv may have there.  No key of env begins with SYSTEM_.
LoginData(doc) ==
  LET system == EnvToDict(doc.env)
      user == EnvToDict(doc.userenv)
      Renamed(k) == IF k \in DOMAIN user THEN SystemKey(k) ELSE k
      renamed == {Renamed(k) : k \in DOMAIN system}
      Original(k) == CHOOSE s \in DOMAIN system : Renamed(s) = k
  IN [k \in renamed \cup DOMAIN user |->
        IF k \in renamed THEN system[Original(k)] ELSE user[k]]

\* A login's answer names its namespace whatever the document says.
Answer(ns, data) ==
  LET fixed == {<<"LOGIN">>, <<"NAMESPACE">>} IN
  [k \in DOMAIN data \cup fixed |-> IF k \in fixed THEN ns ELSE data[k]]
=============================================================================
