--------------------------- MODULE OwCredentials ----------------------------
(***************************************************************************)
(* The OpenWhisk key in an Authorization header, as encode and decode of   *)
(* common/openwhisk_authorize.py spell it.  A text is a sequence of ":",   *)
(* "%", the two-digit codes "3A" and "25" and other characters.            *)
(*                                                                         *)
(* _parse_b64 decodes base64 first and takes the word as it stands if that *)
(* fails, so a header carries a text whether or not it is encoded.  What   *)
(* base64 makes of a word that is not encoded is assumed not to have the   *)
(* form of credentials.                                                    *)
(***************************************************************************)
EXTENDS Naturals, Sequences, SequencesExt

\* EncodeError, DecodeError
Unreadable == <<>>

Quote(s) ==
  FlattenSeq([i \in 1..Len(s) |->
    CASE s[i] = ":" -> <<"%", "3A">> [] s[i] = "%" -> <<"%", "25">> [] OTHER -> <<s[i]>>])

\* Whether a "%" and a code stand at i and i + 1.
CodeAt(s, i) == i \in 1..(Len(s) - 1) /\ s[i] = "%" /\ s[i + 1] \in {"3A", "25"}

Unquote(s) ==
  FlattenSeq([i \in 1..Len(s) |->
    IF CodeAt(s, i) THEN (IF s[i + 1] = "3A" THEN <<":">> ELSE <<"%">>)
    ELSE IF CodeAt(s, i - 1) THEN <<>>
    ELSE <<s[i]>>])

Colons(s) == {i \in 1..Len(s) : s[i] = ":"}

\* The two parts of a text with exactly one ":", none of them empty.
Split(text) ==
  LET i == CHOOSE c \in Colons(text) : TRUE IN
  IF \E c \in 2..(Len(text) - 1) : Colons(text) = {c}
    THEN <<SubSeq(text, 1, i - 1), SubSeq(text, i + 1, Len(text))>>
    ELSE Unreadable

\* A header is a text alone ("none"), after the word Basic or after another
\* word, or has more words than two ("many").
Encode(username, password) ==
  IF Colons(username) # {} THEN Unreadable
  ELSE [scheme |-> "basic", text |-> Quote(username) \o <<":">> \o Quote(password)]

\* Variant: replaces the codes before it looks for the colon.
DecodeUnquotesFirst(header) ==
  IF header.scheme \in {"none", "basic"} THEN Split(Unquote(header.text)) ELSE Unreadable

Decode(header) ==
  LET parts == Split(header.text) IN
  IF header.scheme \in {"none", "basic"} /\ parts # Unreadable
    THEN <<Unquote(parts[1]), Unquote(parts[2])>>
    ELSE Unreadable
=============================================================================
