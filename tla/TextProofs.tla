----------------------------- MODULE TextProofs -----------------------------
(***************************************************************************)
(* Proofs about texts: what the flattening that both a key's spelling and  *)
(* a namespace's name are made with computes, that decode inverts encode,  *)
(* and that names made with a hash end in it.                              *)
(***************************************************************************)
EXTENDS OwCredentials, SsoNamespace, SequenceTheorems, WellFoundedInduction, TLAPS

(* Flattening.  An induction over a sequence is an argument about a smallest *)
(* counterexample.                                                           *)

\* A set of numbers that is not empty has a smallest one.
LEMMA SmallestOf ==
  ASSUME NEW S \in SUBSET Nat, S # {}
  PROVE  \E m \in S : \A i \in S : m <= i
<1> DEFINE R == {ss \in Nat \X Nat : ss[1] < ss[2]}
<1>1. IsWellFoundedOn(R, Nat)
  BY NatLessThanWellFounded DEF OpToRel
<1>2. \E m \in S : \A i \in S : <<i, m>> \notin R
  BY <1>1, WFMin, Zenon
<1>3. \A i, m \in S : <<i, m>> \notin R => m <= i
  BY SMT
<1> QED BY <1>2, <1>3, Zenon

\* f holds the partial results of flattening the first n of ss.
Flattens(ss, n, f) ==
  f = [i \in 1..n |-> IF i = 1 THEN ss[i] ELSE f[i - 1] \o ss[i]]

LEMMA FlattensAt ==
  ASSUME NEW ss, NEW n, NEW f, Flattens(ss, n, f), NEW i \in 1..n
  PROVE  f[i] = IF i = 1 THEN ss[i] ELSE f[i - 1] \o ss[i]
BY Zenon DEF Flattens

LEMMA FlattensExists ==
  ASSUME NEW ss, NEW n \in Nat
  PROVE  \E f : Flattens(ss, n, f)
<1> DEFINE Bad == {k \in Nat : ~\E f : Flattens(ss, k, f)}
<1>1. SUFFICES ASSUME Bad # {} PROVE FALSE
  OBVIOUS
<1>2. PICK m \in Bad : \A i \in Bad : m <= i
  BY <1>1, SmallestOf
<1>3. m # 0
  <2> DEFINE f == [i \in 1..0 |-> ss[i]]
  <2>1. 1..0 = {}
    OBVIOUS
  <2>2. f = [i \in 1..0 |-> IF i = 1 THEN ss[i] ELSE f[i - 1] \o ss[i]]
    BY <2>1
  <2>3. Flattens(ss, 0, f)
    BY <2>2 DEF Flattens
  <2> QED BY <2>3
<1>4. m - 1 \in Nat /\ m - 1 \notin Bad
  BY <1>2, <1>3
<1>5. PICK g : Flattens(ss, m - 1, g)
  BY <1>4
<1> DEFINE f == [i \in 1..m |-> IF i = m THEN IF m = 1 THEN ss[m] ELSE g[m - 1] \o ss[m] ELSE g[i]]
<1>6. ASSUME NEW i \in 1..m PROVE f[i] = IF i = 1 THEN ss[i] ELSE f[i - 1] \o ss[i]
  <2>1. CASE i = m
    BY <2>1
  <2>2. CASE i # m
    <3>1. i \in 1..(m - 1) /\ g[i] = f[i] /\ (i # 1 => g[i - 1] = f[i - 1])
      BY <2>2
    <3>2. g[i] = IF i = 1 THEN ss[i] ELSE g[i - 1] \o ss[i]
      BY <1>5, <3>1, Zenon DEF Flattens
    <3> QED BY <3>1, <3>2
  <2> QED BY <2>1, <2>2
<1>7. Flattens(ss, m, f)
  <2>1. f = [i \in 1..m |-> f[i]]
    OBVIOUS
  <2> HIDE DEF f
  <2> QED BY <1>6, <2>1 DEF Flattens
<1> QED BY <1>2, <1>7

SameUpTo(ss, tt, n) == \A i \in 1..n : ss[i] = tt[i]

\* Partial results depend only on what was flattened so far.
LEMMA FlattensAgree ==
  ASSUME NEW ss, NEW tt, NEW n \in Nat, NEW m \in Nat, n <= m,
         SameUpTo(ss, tt, n),
         NEW f, NEW g, Flattens(ss, n, f), Flattens(tt, m, g)
  PROVE  SameUpTo(f, g, n)
<1> DEFINE Bad == {k \in 1..n : f[k] # g[k]}
<1>1. SUFFICES ASSUME Bad # {} PROVE FALSE
  BY DEF SameUpTo
<1>2. PICK k \in Bad : \A i \in Bad : k <= i
  <2>1. Bad \in SUBSET Nat
    OBVIOUS
  <2> QED BY <1>1, <2>1, SmallestOf, Zenon
<1>3. k # 1 => f[k - 1] = g[k - 1]
  BY <1>2
<1>4. f[k] = IF k = 1 THEN ss[k] ELSE f[k - 1] \o ss[k]
  BY Zenon DEF Flattens
<1>5. g[k] = IF k = 1 THEN tt[k] ELSE g[k - 1] \o tt[k]
  <2>1. k \in 1..m
    OBVIOUS
  <2> QED BY <2>1, Zenon DEF Flattens
<1> QED BY <1>2, <1>3, <1>4, <1>5 DEF SameUpTo

LEMMA FlattenOf ==
  ASSUME NEW ss, Len(ss) \in Nat, Len(ss) # 0
  PROVE  \E f : Flattens(ss, Len(ss), f) /\ FlattenSeq(ss) = f[Len(ss)]
<1>1. FlattenSeq(ss) = (CHOOSE f : Flattens(ss, Len(ss), f))[Len(ss)]
  BY Zenon DEF FlattenSeq, Flattens
<1> QED BY <1>1, FlattensExists, Zenon

\* Flattening goes from left to right.
LEMMA FlattenStep ==
  ASSUME NEW ss, NEW tt, NEW n \in Nat, Len(ss) = n, Len(tt) = n + 1, SameUpTo(ss, tt, n)
  PROVE  FlattenSeq(tt) = IF n = 0 THEN tt[1] ELSE FlattenSeq(ss) \o tt[n + 1]
<1>1. PICK g : Flattens(tt, n + 1, g) /\ FlattenSeq(tt) = g[n + 1]
  BY FlattenOf
<1>2. g[n + 1] = IF n + 1 = 1 THEN tt[n + 1] ELSE g[n + 1 - 1] \o tt[n + 1]
  <2>1. n + 1 \in 1..(n + 1)
    OBVIOUS
  <2> QED BY <1>1, <2>1, FlattensAt
<1>3. CASE n = 0
  BY <1>1, <1>2, <1>3
<1>4. CASE n # 0
  <2>1. PICK f : Flattens(ss, n, f) /\ FlattenSeq(ss) = f[n]
    BY <1>4, FlattenOf
  <2>2. n + 1 \in Nat /\ n <= n + 1
    OBVIOUS
  <2>3. SameUpTo(f, g, n)
    BY <1>1, <2>1, <2>2, FlattensAgree
  <2>4. f[n] = g[n] /\ n + 1 # 1 /\ n + 1 - 1 = n
    BY <1>4, <2>3 DEF SameUpTo
  <2> QED BY <1>1, <1>2, <1>4, <2>1, <2>4
<1> QED BY <1>3, <1>4

LEMMA FlattenEmpty == FlattenSeq(<<>>) = <<>>
BY Zenon, EmptySeq DEF FlattenSeq

LEMMA FlattenAppend ==
  ASSUME NEW S, NEW ss \in Seq(Seq(S)), NEW x \in Seq(S)
  PROVE  FlattenSeq(Append(ss, x)) = FlattenSeq(ss) \o x
<1>1. /\ Len(ss) \in Nat /\ Len(Append(ss, x)) = Len(ss) + 1
      /\ SameUpTo(ss, Append(ss, x), Len(ss))
      /\ Append(ss, x)[Len(ss) + 1] = x
      /\ Len(ss) = 0 <=> ss = <<>>
  BY DEF SameUpTo
<1>2. FlattenSeq(Append(ss, x)) = IF Len(ss) = 0 THEN Append(ss, x)[1]
                                   ELSE FlattenSeq(ss) \o Append(ss, x)[Len(ss) + 1]
  BY <1>1, FlattenStep
<1>3. CASE ss = <<>>
  BY <1>1, <1>2, <1>3, FlattenEmpty, ConcatEmptySeq
<1>4. CASE ss # <<>>
  BY <1>1, <1>2, <1>4
<1> QED BY <1>3, <1>4

\* What it makes of sequences over S is one.
LEMMA FlattenType ==
  ASSUME NEW S, NEW ss \in Seq(Seq(S))
  PROVE  FlattenSeq(ss) \in Seq(S)
<1> DEFINE Bad == {n \in Nat : \E tt \in Seq(Seq(S)) : Len(tt) = n /\ FlattenSeq(tt) \notin Seq(S)}
<1>1. SUFFICES ASSUME Bad # {} PROVE FALSE
  OBVIOUS
<1>2. PICK m \in Bad : \A i \in Bad : m <= i
  BY <1>1, SmallestOf
<1>3. PICK tt \in Seq(Seq(S)) : Len(tt) = m /\ FlattenSeq(tt) \notin Seq(S)
  BY <1>2
<1>5. tt # <<>>
  BY <1>3, FlattenEmpty, EmptySeq
<1>6. PICK front \in Seq(Seq(S)), x \in Seq(S) : tt = Append(front, x)
  BY <1>5, SequenceEmptyOrAppend
<1>7. Len(front) \in Nat /\ Len(front) < m
  BY <1>3, <1>6
<1>8. FlattenSeq(front) \in Seq(S)
  BY <1>2, <1>7
<1>9. FlattenSeq(front) \o x \in Seq(S)
  BY <1>6, <1>8, ConcatProperties
<1>10. FlattenSeq(tt) = FlattenSeq(front) \o x
  BY <1>6, FlattenAppend, Zenon
<1> QED BY <1>3, <1>6, <1>9, <1>10

-----------------------------------------------------------------------------
(* Names *)

LEMMA KeptType ==
  ASSUME NEW user \in Seq(STRING)
  PROVE  Kept(user) \in Seq(Alnum)
<1> DEFINE parts == [i \in 1..Len(user) |->
                       IF Lower(user[i]) \in Alnum THEN <<Lower(user[i])>> ELSE <<>>]
<1>1. \A c : c \in Alnum => <<c>> \in Seq(Alnum)
  OBVIOUS
<1>2. <<>> \in Seq(Alnum) /\ Len(user) \in Nat
  OBVIOUS
<1> HIDE DEF parts
<1>3. \A i \in 1..Len(user) : parts[i] \in Seq(Alnum)
  BY <1>1, <1>2, Zenon DEF parts
<1>4. parts \in Seq(Seq(Alnum))
  <2>1. parts = [i \in 1..Len(user) |-> parts[i]]
    BY Zenon DEF parts
  <2> QED BY <1>2, <1>3, <2>1
<1>5. Kept(user) = FlattenSeq(parts)
  BY Zenon DEF Kept, parts
<1> QED BY <1>4, <1>5, FlattenType, Zenon

LEMMA UserWordType == UserWord \in Seq(Alnum) /\ Len(UserWord) = 4
<1>1. {"u", "s", "e", "r"} \subseteq Alnum
  BY Zenon DEF Alnum, HexDigits
<1>2. \A X : {"u", "s", "e", "r"} \subseteq X => UserWord \in Seq(X)
  BY DEF UserWord
<1>3. Len(UserWord) = 4
  BY DEF UserWord
<1> QED BY <1>1, <1>2, <1>3, Zenon

LEMMA SuffixType ==
  ASSUME NEW c, c.hashLength \in Int, NEW digest \in Seq(HexDigits), Len(digest) >= 16
  PROVE  /\ SuffixLen(c) \in 6..16
         /\ Suffix(c, digest) \in Seq(HexDigits) /\ Len(Suffix(c, digest)) = SuffixLen(c)
<1> DEFINE n == SuffixLen(c)
<1>1. n \in 6..16
  BY DEF SuffixLen, Clamp
<1> HIDE DEF n
<1>2. \A i \in 1..n : digest[i] \in HexDigits
  BY <1>1
<1>3. Suffix(c, digest) = SubSeq(digest, 1, n)
  BY DEF Suffix, n
<1> QED BY <1>1, <1>2, <1>3, SubSeqProperties DEF n

\* A name made with a hash ends in it.
LEMMA MadeEndsInHash ==
  ASSUME NEW c, c.hashLength \in Int, c.maxLength \in Int, NEW user \in Seq(STRING),
         NEW digest \in Seq(HexDigits), Len(digest) >= 16,
         Normalized(c, user, digest) # Underivable
  PROVE  \E front \in Seq(Alnum) : Normalized(c, user, digest) = front \o Suffix(c, digest)
<1> DEFINE room == MaxLen(c) - SuffixLen(c)
<1>1. Base(user) \in Seq(Alnum)
  BY KeptType, UserWordType, ConcatProperties DEF Base
<1>2. room \in Int
  <2>1. SuffixLen(c) \in Int
    BY DEF SuffixLen, Clamp
  <2>2. MaxLen(c) \in Int
    BY DEF MaxLen, Clamp
  <2> QED BY <2>1, <2>2
<1>3. Slice(Base(user), room) \in Seq(Alnum)
  <2> HIDE DEF room
  <2>1. PICK n \in Int : n <= Len(Base(user)) /\ Slice(Base(user), room) = SubSeq(Base(user), 1, n)
    <3>1. Len(Base(user)) \in Int
      BY <1>1
    <3> QED BY <1>2, <3>1, SMTT(20) DEF Slice
  <2>2. \A i \in 1..n : Base(user)[i] \in Alnum
    BY <1>1, <2>1, ElementOfSeq
  <2> QED BY <1>1, <2>1, <2>2, SubSeqProperties
<1>4. \/ Normalized(c, user, digest) = Slice(Base(user), room) \o Suffix(c, digest)
      \/ Normalized(c, user, digest) = UserWord \o Suffix(c, digest)
  BY Zenon DEF Normalized, Prefixed
<1> QED BY <1>3, <1>4, UserWordType, Zenon

\* What is added at the end of a text can be told from it, when its length is known.
LEMMA SameEnding ==
  ASSUME NEW S, NEW x \in Seq(S), NEW y \in Seq(S), NEW a \in Seq(S), NEW b \in Seq(S),
         Len(a) = Len(b), x \o a = y \o b
  PROVE  a = b
<1>1. Len(x \o a) = Len(x) + Len(a) /\ Len(y \o b) = Len(y) + Len(b)
  BY ConcatProperties
<1>2. Len(x) = Len(y) /\ {Len(x), Len(a), Len(b)} \subseteq Nat
  BY <1>1
<1>3. ASSUME NEW i \in 1..Len(a) PROVE a[i] = b[i]
  <2>1. (x \o a)[Len(x) + i] = a[i] /\ (y \o b)[Len(y) + i] = b[i]
    BY <1>2
  <2> QED BY <1>2, <2>1
<1> QED BY <1>3, SeqEqual

\* Names that are made with different hashes differ.
LEMMA MadeApart ==
  ASSUME NEW c, c.hashLength \in Int, c.maxLength \in Int,
         NEW user \in Seq(STRING), NEW digest \in Seq(HexDigits), Len(digest) >= 16,
         NEW other \in Seq(STRING), NEW digest2 \in Seq(HexDigits), Len(digest2) >= 16,
         Suffix(c, digest) # Suffix(c, digest2),
         Normalized(c, user, digest) # Underivable
  PROVE  Normalized(c, user, digest) # Normalized(c, other, digest2)
<1>1. SUFFICES ASSUME Normalized(c, user, digest) = Normalized(c, other, digest2) PROVE FALSE
  OBVIOUS
<1>2. PICK x \in Seq(Alnum) : Normalized(c, user, digest) = x \o Suffix(c, digest)
  BY MadeEndsInHash
<1>3. PICK y \in Seq(Alnum) : Normalized(c, other, digest2) = y \o Suffix(c, digest2)
  BY <1>1, MadeEndsInHash
<1>4. /\ Suffix(c, digest) \in Seq(HexDigits) /\ Suffix(c, digest2) \in Seq(HexDigits)
      /\ Len(Suffix(c, digest)) = Len(Suffix(c, digest2))
  BY SuffixType
<1>5. HexDigits \subseteq Alnum
  BY DEF Alnum
<1>6. Suffix(c, digest) \in Seq(Alnum) /\ Suffix(c, digest2) \in Seq(Alnum)
  BY <1>4, <1>5
<1>7. x \o Suffix(c, digest) = y \o Suffix(c, digest2)
  BY <1>1, <1>2, <1>3, Zenon
<1>8. Suffix(c, digest) = Suffix(c, digest2)
  <2> DEFINE a == Suffix(c, digest)
             b == Suffix(c, digest2)
  <2>1. a \in Seq(Alnum) /\ b \in Seq(Alnum) /\ Len(a) = Len(b) /\ x \o a = y \o b
    BY <1>4, <1>6, <1>7
  <2> HIDE DEF a, b
  <2>2. a = b
    BY <2>1, SameEnding
  <2> QED BY <2>2 DEF a, b
<1> QED BY <1>8

-----------------------------------------------------------------------------
(* Keys *)

\* What quote() makes of one character.
Spelled(c) == CASE c = ":" -> <<"%", "3A">> [] c = "%" -> <<"%", "25">> [] OTHER -> <<c>>

\* What texts may be made of.
Spells(C) == {":", "%", "3A", "25"} \subseteq C

LEMMA SpelledType ==
  ASSUME NEW C, Spells(C), NEW c \in C
  PROVE  Spelled(c) \in Seq(C)
<1>1. \A d, e : d \in C /\ e \in C => <<d, e>> \in Seq(C) /\ <<d>> \in Seq(C)
  OBVIOUS
<1>2. "%" \in C /\ "3A" \in C /\ "25" \in C
  BY DEF Spells
<1> QED BY <1>1, <1>2, Zenon DEF Spelled

LEMMA QuoteAppend ==
  ASSUME NEW C, Spells(C), NEW s \in Seq(C), NEW c \in C
  PROVE  /\ Quote(s) \in Seq(C)
         /\ Quote(Append(s, c)) = Quote(s) \o Spelled(c)
<1> DEFINE Parts(t) == [i \in 1..Len(t) |-> Spelled(t[i])]
           longer == Append(s, c)
<1>1. \A t : Quote(t) = FlattenSeq(Parts(t))
  BY Zenon DEF Quote, Spelled
<1>2. ASSUME NEW t \in Seq(C) PROVE Parts(t) \in Seq(Seq(C)) /\ Len(Parts(t)) = Len(t)
  <2>1. \A i \in 1..Len(t) : Spelled(t[i]) \in Seq(C)
    BY SpelledType, ElementOfSeq
  <2> QED BY <2>1
<1>3. longer \in Seq(C) /\ Len(longer) = Len(s) + 1 /\ longer[Len(s) + 1] = c
  OBVIOUS
<1>4. \A i \in 1..Len(s) : longer[i] = s[i]
  OBVIOUS
<1>5. Spelled(c) \in Seq(C)
  BY SpelledType
<1>6. Parts(longer) = Append(Parts(s), Spelled(c))
  <2> DEFINE a == Parts(longer)
             b == Append(Parts(s), Spelled(c))
  <2>1. Len(a) = Len(s) + 1 /\ Len(b) = Len(s) + 1 /\ a \in Seq(Seq(C)) /\ b \in Seq(Seq(C))
    BY <1>2, <1>3, <1>5
  <2>2. \A i \in 1..Len(s) : b[i] = Spelled(s[i])
    BY <1>2
  <2>3. b[Len(s) + 1] = Spelled(c)
    BY <1>2
  <2>4. \A i \in 1..(Len(s) + 1) : a[i] = Spelled(longer[i])
    BY <1>3
  <2>5. \A i \in 1..(Len(s) + 1) : i \in 1..Len(s) \/ i = Len(s) + 1
    OBVIOUS
  <2> HIDE DEF a, b, longer
  <2>6. \A i \in 1..(Len(s) + 1) : a[i] = b[i]
    BY <1>3, <1>4, <2>2, <2>3, <2>4, <2>5
  <2>7. a = b
    BY <2>1, <2>6, SeqEqual
  <2> QED BY <2>7 DEF a, b
<1> HIDE DEF Parts, longer
<1>7. FlattenSeq(Parts(longer)) = FlattenSeq(Parts(s)) \o Spelled(c)
  BY <1>2, <1>5, <1>6, FlattenAppend
<1>8. Quote(s) \in Seq(C)
  BY <1>1, <1>2, FlattenType
<1> QED BY <1>1, <1>7, <1>8 DEF longer

\* What unquote() makes of the character at i.
PieceAt(t, i) ==
  IF CodeAt(t, i) THEN (IF t[i + 1] = "3A" THEN <<":">> ELSE <<"%">>)
  ELSE IF CodeAt(t, i - 1) THEN <<>>
  ELSE <<t[i]>>

Pieces(t) == [i \in 1..Len(t) |-> PieceAt(t, i)]

\* The last character may begin a code.
Unfinished(t) == t # <<>> /\ t[Len(t)] = "%"

LEMMA PieceType ==
  ASSUME NEW C, Spells(C), NEW t \in Seq(C), NEW i \in 1..Len(t)
  PROVE  PieceAt(t, i) \in Seq(C)
<1>1. \A d : d \in C => <<d>> \in Seq(C)
  OBVIOUS
<1>2. ":" \in C /\ "%" \in C /\ t[i] \in C
  BY ElementOfSeq DEF Spells
<1>3. <<>> \in Seq(C)
  OBVIOUS
<1> QED BY <1>1, <1>2, <1>3, Zenon DEF PieceAt

LEMMA PiecesType ==
  ASSUME NEW C, Spells(C), NEW t \in Seq(C)
  PROVE  /\ Pieces(t) \in Seq(Seq(C)) /\ Len(Pieces(t)) = Len(t)
         /\ Unquote(t) = FlattenSeq(Pieces(t)) /\ Unquote(t) \in Seq(C)
<1>1. \A i \in 1..Len(t) : PieceAt(t, i) \in Seq(C)
  BY PieceType
<1>2. Pieces(t) \in Seq(Seq(C)) /\ Len(Pieces(t)) = Len(t)
  BY <1>1 DEF Pieces
<1>3. Unquote(t) = FlattenSeq(Pieces(t))
  BY Zenon DEF Unquote, Pieces, PieceAt
<1> QED BY <1>2, <1>3, FlattenType

\* Pieces that nothing added at the end changes.
LEMMA PiecesBefore ==
  ASSUME NEW C, NEW t \in Seq(C), ~Unfinished(t), NEW u \in Seq(C), Len(u) >= Len(t),
         SameUpTo(t, u, Len(t))
  PROVE  \A i \in 1..Len(t) : PieceAt(u, i) = PieceAt(t, i)
<1> SUFFICES ASSUME NEW i \in 1..Len(t) PROVE PieceAt(u, i) = PieceAt(t, i)
  OBVIOUS
<1>1. \A j \in 1..Len(t) : u[j] = t[j]
  BY DEF SameUpTo
<1>2. t[Len(t)] # "%"
  BY DEF Unfinished
<1>3. CodeAt(u, i) <=> CodeAt(t, i)
  BY <1>1, <1>2 DEF CodeAt
<1>4. CodeAt(u, i - 1) <=> CodeAt(t, i - 1)
  BY <1>1 DEF CodeAt
<1>5. CodeAt(t, i) => u[i + 1] = t[i + 1]
  BY <1>1 DEF CodeAt
<1>6. u[i] = t[i]
  BY <1>1
<1> QED BY <1>3, <1>4, <1>5, <1>6, Zenon DEF PieceAt

\* A character after a finished text stands for itself.
LEMMA UnquoteAppend ==
  ASSUME NEW C, Spells(C), NEW t \in Seq(C), ~Unfinished(t), NEW c \in C
  PROVE  Unquote(Append(t, c)) = Unquote(t) \o <<c>>
<1> DEFINE u == Append(t, c)
<1>1. u \in Seq(C) /\ Len(u) = Len(t) + 1 /\ u[Len(t) + 1] = c
  BY AppendProperties
<1>2. \A j \in 1..Len(t) : u[j] = t[j]
  BY AppendProperties
<1>3. PieceAt(u, Len(t) + 1) = <<c>>
  <2> HIDE DEF u
  <2>1. ~CodeAt(u, Len(t) + 1)
    BY <1>1 DEF CodeAt
  <2>2. ~CodeAt(u, Len(t) + 1 - 1)
    BY <1>1, <1>2 DEF CodeAt, Unfinished
  <2> QED BY <1>1, <2>1, <2>2 DEF PieceAt
<1>4. \A i \in 1..Len(t) : PieceAt(u, i) = PieceAt(t, i)
  <2>1. SameUpTo(t, u, Len(t)) /\ Len(u) >= Len(t)
    BY <1>1, <1>2 DEF SameUpTo
  <2> HIDE DEF u
  <2> QED BY <1>1, <2>1, PiecesBefore
<1>5. /\ Pieces(t) \in Seq(Seq(C)) /\ Len(Pieces(t)) = Len(t)
      /\ Unquote(t) = FlattenSeq(Pieces(t)) /\ Unquote(t) \in Seq(C)
      /\ Pieces(u) \in Seq(Seq(C)) /\ Len(Pieces(u)) = Len(u) /\ Unquote(u) = FlattenSeq(Pieces(u))
  BY <1>1, PiecesType
<1>6. <<c>> \in Seq(C)
  OBVIOUS
<1>7. Pieces(u) = Append(Pieces(t), <<c>>)
  <2> DEFINE b == Append(Pieces(t), <<c>>)
  <2>1. b \in Seq(Seq(C)) /\ Len(b) = Len(t) + 1 /\ b[Len(t) + 1] = <<c>>
    BY <1>5, <1>6, AppendProperties
  <2>2. \A i \in 1..Len(t) : b[i] = Pieces(t)[i]
    BY <1>5, AppendProperties
  <2>3. \A i \in 1..Len(t) : Pieces(t)[i] = PieceAt(t, i)
    BY DEF Pieces
  <2>4. \A i \in 1..(Len(t) + 1) : Pieces(u)[i] = PieceAt(u, i)
    BY <1>1 DEF Pieces
  <2>5. \A i \in 1..(Len(t) + 1) : i \in 1..Len(t) \/ i = Len(t) + 1
    OBVIOUS
  <2> HIDE DEF b, u
  <2>6. \A i \in 1..(Len(t) + 1) : Pieces(u)[i] = b[i]
    BY <1>3, <1>4, <2>1, <2>2, <2>3, <2>4, <2>5
  <2>7. Pieces(u) = b
    BY <1>1, <1>5, <2>1, <2>6, SeqEqual
  <2> QED BY <2>7 DEF b
<1>8. Unquote(u) = Unquote(t) \o <<c>>
  BY <1>5, <1>6, <1>7, FlattenAppend
<1> QED BY <1>8

\* A code after a finished text stands for the character it is the code of.
LEMMA UnquoteCode ==
  ASSUME NEW C, Spells(C), NEW t \in Seq(C), ~Unfinished(t),
         NEW code \in {"3A", "25"}, NEW c, c = IF code = "3A" THEN ":" ELSE "%"
  PROVE  Unquote(Append(Append(t, "%"), code)) = Unquote(t) \o <<c>>
<1> DEFINE n == Len(t)
           u == Append(Append(t, "%"), code)
<1>1. "%" \in C /\ code \in C /\ c \in C /\ n \in Nat
  BY DEF Spells
<1>2. u \in Seq(C) /\ Len(u) = n + 2 /\ u[n + 1] = "%" /\ u[n + 2] = code
  BY <1>1, AppendProperties
<1>3. \A j \in 1..n : u[j] = t[j]
  BY <1>1, AppendProperties
<1>4. /\ Pieces(t) \in Seq(Seq(C)) /\ Len(Pieces(t)) = n
      /\ Unquote(t) = FlattenSeq(Pieces(t)) /\ Unquote(t) \in Seq(C)
      /\ Pieces(u) \in Seq(Seq(C)) /\ Len(Pieces(u)) = n + 2 /\ Unquote(u) = FlattenSeq(Pieces(u))
  BY <1>2, PiecesType
<1>5. <<c>> \in Seq(C) /\ <<>> \in Seq(C)
  BY <1>1
<1> DEFINE b == Append(Append(Pieces(t), <<c>>), <<>>)
<1>6. /\ Append(Pieces(t), <<c>>) \in Seq(Seq(C)) /\ b \in Seq(Seq(C)) /\ Len(b) = n + 2
      /\ b[n + 1] = <<c>> /\ b[n + 2] = <<>>
  BY <1>4, <1>5, AppendProperties
<1>7. \A i \in 1..n : b[i] = Pieces(t)[i]
  BY <1>4, <1>5, AppendProperties
<1> HIDE DEF u, b
<1>8. \A i \in 1..n : PieceAt(u, i) = PieceAt(t, i)
  <2>1. SameUpTo(t, u, n) /\ Len(u) >= n
    BY <1>1, <1>2, <1>3 DEF SameUpTo
  <2> QED BY <1>2, <2>1, PiecesBefore
<1>9. CodeAt(u, n + 1) /\ ~CodeAt(u, n + 2)
  BY <1>1, <1>2 DEF CodeAt
<1>10. PieceAt(u, n + 1) = <<c>> /\ PieceAt(u, n + 2) = <<>>
  <2>1. n + 1 + 1 = n + 2 /\ n + 2 - 1 = n + 1
    BY <1>1
  <2> QED BY <1>2, <1>9, <2>1 DEF PieceAt
<1>11. Pieces(u) = b
  <2>1. \A i \in 1..n : Pieces(t)[i] = PieceAt(t, i)
    BY DEF Pieces
  <2>2. \A i \in 1..(n + 2) : Pieces(u)[i] = PieceAt(u, i)
    BY <1>2 DEF Pieces
  <2>3. \A i \in 1..(n + 2) : i \in 1..n \/ i = n + 1 \/ i = n + 2
    BY <1>1
  <2>4. \A i \in 1..(n + 2) : Pieces(u)[i] = b[i]
    BY <1>6, <1>7, <1>8, <1>10, <2>1, <2>2, <2>3
  <2> QED BY <1>4, <1>6, <2>4, SeqEqual
<1>12. FlattenSeq(b) = (Unquote(t) \o <<c>>) \o <<>>
  <2> DEFINE a == Append(Pieces(t), <<c>>)
  <2>1. FlattenSeq(a) = FlattenSeq(Pieces(t)) \o <<c>>
    BY <1>4, <1>5, FlattenAppend, Zenon
  <2>2. a \in Seq(Seq(C)) /\ b = Append(a, <<>>)
    BY <1>6 DEF b
  <2> HIDE DEF a
  <2>3. FlattenSeq(b) = FlattenSeq(a) \o <<>>
    BY <1>5, <2>2, FlattenAppend, Zenon
  <2> QED BY <1>4, <2>1, <2>3
<1>13. Unquote(t) \o <<c>> \in Seq(C)
  BY <1>4, <1>5, ConcatProperties
<1> QED BY <1>4, <1>11, <1>12, <1>13, ConcatEmptySeq DEF u

\* A quoted text is finished, has no colon, and stands for what was quoted.
Reads(t, s) ==
  /\ Colons(t) = {} /\ ~Unfinished(t) /\ (s # <<>> => t # <<>>)
  /\ Unquote(t) = s

LEMMA ReadsEmpty == Quote(<<>>) = <<>> /\ Reads(<<>>, <<>>)
<1>1. 1..Len(<<>>) = {} /\ Len(<<>>) = 0
  BY EmptySeq
<1>2. Quote(<<>>) = <<>>
  <2> DEFINE Parts == [i \in 1..Len(<<>>) |-> Spelled(<<>>[i])]
  <2>1. Parts = <<>>
    BY <1>1
  <2>2. Quote(<<>>) = FlattenSeq(Parts)
    BY Zenon DEF Quote, Spelled
  <2> QED BY <2>1, <2>2, FlattenEmpty
<1>3. Unquote(<<>>) = <<>>
  <2>1. Pieces(<<>>) = <<>>
    BY <1>1 DEF Pieces
  <2>2. Unquote(<<>>) = FlattenSeq(Pieces(<<>>))
    BY Zenon DEF Unquote, Pieces, PieceAt
  <2> QED BY <2>1, <2>2, FlattenEmpty
<1> QED BY <1>1, <1>2, <1>3 DEF Reads, Colons, Unfinished

LEMMA ReadsAppend ==
  ASSUME NEW C, Spells(C), NEW s \in Seq(C), NEW c \in C, NEW t \in Seq(C), Reads(t, s)
  PROVE  Reads(t \o Spelled(c), Append(s, c))
<1>1. Append(s, c) = s \o <<c>>
  OBVIOUS
<1>2. ASSUME NEW code \in {"3A", "25"}, c = IF code = "3A" THEN ":" ELSE "%"
      PROVE  Reads(t \o <<"%", code>>, Append(s, c))
  <2> DEFINE u == Append(Append(t, "%"), code)
  <2>1. "%" \in C /\ code \in C
    BY DEF Spells
  <2>2. t \o <<"%", code>> = u
    BY <2>1
  <2>3. u \in Seq(C) /\ Len(u) = Len(t) + 2 /\ u[Len(t) + 1] = "%" /\ u[Len(t) + 2] = code
    BY <2>1, AppendProperties
  <2>4. \A j \in 1..Len(t) : u[j] = t[j]
    BY <2>1, AppendProperties
  <2>5. Unquote(u) = Append(s, c)
    BY <1>1, <1>2, UnquoteCode DEF Reads
  <2> HIDE DEF u
  <2>6. Colons(u) = {}
    <3>1. \A j \in 1..(Len(t) + 2) : j \in 1..Len(t) \/ j = Len(t) + 1 \/ j = Len(t) + 2
      OBVIOUS
    <3>2. \A j \in 1..Len(t) : t[j] # ":"
      BY DEF Reads, Colons
    <3> QED BY <2>3, <2>4, <3>1, <3>2 DEF Colons
  <2>7. ~Unfinished(u) /\ u # <<>>
    BY <2>3 DEF Unfinished
  <2> QED BY <2>2, <2>5, <2>6, <2>7 DEF Reads
<1>3. ASSUME c \notin {":", "%"}
      PROVE  Reads(t \o <<c>>, Append(s, c))
  <2> DEFINE u == Append(t, c)
  <2>1. t \o <<c>> = u
    OBVIOUS
  <2>2. u \in Seq(C) /\ Len(u) = Len(t) + 1 /\ u[Len(t) + 1] = c
    BY AppendProperties
  <2>3. \A j \in 1..Len(t) : u[j] = t[j]
    BY AppendProperties
  <2>4. Unquote(u) = Append(s, c)
    BY <1>1, UnquoteAppend DEF Reads
  <2> HIDE DEF u
  <2>5. Colons(u) = {}
    <3>1. \A j \in 1..(Len(t) + 1) : j \in 1..Len(t) \/ j = Len(t) + 1
      OBVIOUS
    <3>2. \A j \in 1..Len(t) : t[j] # ":"
      BY DEF Reads, Colons
    <3> QED BY <1>3, <2>2, <2>3, <3>1, <3>2 DEF Colons
  <2>6. ~Unfinished(u) /\ u # <<>>
    BY <1>3, <2>2 DEF Unfinished
  <2> QED BY <2>1, <2>4, <2>5, <2>6 DEF Reads
<1> QED BY <1>2, <1>3, Zenon DEF Spelled

LEMMA QuoteReads ==
  ASSUME NEW C, Spells(C), NEW s \in Seq(C)
  PROVE  Quote(s) \in Seq(C) /\ Reads(Quote(s), s)
<1> DEFINE Bad == {n \in Nat : \E t \in Seq(C) : Len(t) = n /\ ~Reads(Quote(t), t)}
<1>1. Quote(s) \in Seq(C)
  <2>1. "%" \in C
    BY DEF Spells
  <2> QED BY <2>1, QuoteAppend
<1>2. SUFFICES ASSUME Bad # {} PROVE FALSE
  BY <1>1
<1>3. PICK m \in Bad : \A i \in Bad : m <= i
  BY <1>2, SmallestOf
<1>4. PICK t \in Seq(C) : Len(t) = m /\ ~Reads(Quote(t), t)
  BY <1>3
<1>5. t # <<>>
  BY <1>4, ReadsEmpty
<1>6. PICK front \in Seq(C), c \in C : t = Append(front, c)
  BY <1>5, SequenceEmptyOrAppend
<1>7. Len(front) \in Nat /\ Len(front) < m
  BY <1>4, <1>6
<1>8. Reads(Quote(front), front)
  BY <1>3, <1>7
<1>9. Quote(front) \in Seq(C) /\ Quote(t) = Quote(front) \o Spelled(c)
  BY <1>6, QuoteAppend
<1>10. Reads(Quote(t), t)
  BY <1>6, <1>8, <1>9, ReadsAppend
<1> QED BY <1>4, <1>10

\* A text of two parts around its only colon is split there.
LEMMA SplitAtColon ==
  ASSUME NEW C, Spells(C), NEW x \in Seq(C), NEW y \in Seq(C), x # <<>>, y # <<>>,
         Colons(x) = {}, Colons(y) = {}
  PROVE  Split(x \o <<":">> \o y) = <<x, y>>
<1> DEFINE text == x \o <<":">> \o y
           n == Len(x)
<1>1. <<":">> \in Seq(C) /\ n \in Nat /\ Len(y) \in Nat /\ n # 0 /\ Len(y) # 0
  BY EmptySeq DEF Spells
<1>2. x \o <<":">> \in Seq(C) /\ Len(x \o <<":">>) = n + 1
  BY <1>1, ConcatProperties
<1>3. text \in Seq(C) /\ Len(text) = n + 1 + Len(y)
  BY <1>2, ConcatProperties
<1>4. \A i \in 1..n : text[i] = x[i]
  BY <1>1, <1>2
<1>5. text[n + 1] = ":"
  BY <1>1, <1>2
<1>6. \A i \in 1..Len(y) : text[n + 1 + i] = y[i]
  BY <1>1, <1>2
<1> HIDE DEF text, n
<1>7. Colons(text) = {n + 1}
  <2>1. \A i \in 1..Len(text) : i \in 1..n \/ i = n + 1 \/ (i - (n + 1) \in 1..Len(y) /\ i = n + 1 + (i - (n + 1)))
    BY <1>1, <1>3
  <2>2. \A i \in 1..n : text[i] # ":"
    BY <1>4 DEF Colons, n
  <2>3. \A i \in 1..Len(y) : text[n + 1 + i] # ":"
    BY <1>6 DEF Colons
  <2>4. n + 1 \in 1..Len(text)
    BY <1>1, <1>3
  <2>5. \A i \in 1..Len(text) : text[i] = ":" <=> i = n + 1
    BY <1>5, <2>1, <2>2, <2>3
  <2> QED BY <2>4, <2>5 DEF Colons
<1>8. n + 1 \in 2..(Len(text) - 1)
  BY <1>1, <1>3
<1>9. PICK i : i = CHOOSE c \in Colons(text) : TRUE
  OBVIOUS
<1>10. i = n + 1
  BY <1>7, <1>9
<1>11. \E c \in 2..(Len(text) - 1) : Colons(text) = {c}
  BY <1>7, <1>8
<1>12. Split(text) = <<SubSeq(text, 1, i - 1), SubSeq(text, i + 1, Len(text))>>
  BY <1>9, <1>11, Zenon DEF Split
<1>13. SubSeq(text, 1, i - 1) = x
  <2>1. i - 1 = n
    BY <1>1, <1>10
  <2>2. SubSeq(text, 1, n) \in Seq(C) /\ Len(SubSeq(text, 1, n)) = n
    BY <1>1, <1>3, SubSeqProperties
  <2>3. \A j \in 1..n : SubSeq(text, 1, n)[j] = x[j]
    BY <1>1, <1>3, <1>4, SubSeqProperties
  <2> QED BY <2>1, <2>2, <2>3, SeqEqual DEF n
<1>14. SubSeq(text, i + 1, Len(text)) = y
  <2> DEFINE z == SubSeq(text, i + 1, Len(text))
  <2>1. z \in Seq(C) /\ Len(z) = Len(y)
    BY <1>1, <1>3, <1>10, SubSeqProperties
  <2>2. \A j \in 1..Len(y) : z[j] = text[n + 1 + j]
    <3> TAKE j \in 1..Len(y)
    <3>1. /\ i + 1 \in Int /\ Len(text) \in Int
          /\ \A k \in i + 1 .. Len(text) : text[k] \in C
          /\ j \in 1 .. Len(text) - (i + 1) + 1 /\ i + 1 + j - 1 = n + 1 + j
      BY <1>1, <1>3, <1>10
    <3>2. z[j] = text[i + 1 + j - 1]
      BY <3>1, SubSeqProperties
    <3> QED BY <3>1, <3>2
  <2> HIDE DEF z
  <2>3. z = y
    BY <1>6, <2>1, <2>2, SeqEqual
  <2> QED BY <2>3 DEF z
<1> QED BY <1>12, <1>13, <1>14 DEF text

\* A header made of a user's key with encode() is read as that key by decode(),
\* whatever colons and percent signs the key has.
THEOREM DecodeInvertsEncode ==
  ASSUME NEW C, Spells(C), NEW username \in Seq(C), NEW password \in Seq(C),
         username # <<>>, password # <<>>, Colons(username) = {},
         NEW header, header.scheme \in {"none", "basic"},
         header.text = Encode(username, password).text
  PROVE  Decode(header) = <<username, password>> /\ Decode(header) # Unreadable
<1>1. header.text = Quote(username) \o <<":">> \o Quote(password)
  BY DEF Encode
<1>2. /\ Quote(username) \in Seq(C) /\ Reads(Quote(username), username)
      /\ Quote(password) \in Seq(C) /\ Reads(Quote(password), password)
  BY QuoteReads
<1>3. Split(header.text) = <<Quote(username), Quote(password)>>
  BY <1>1, <1>2, SplitAtColon DEF Reads
<1>4. \A x, y : <<x, y>> # Unreadable
  BY DEF Unreadable
<1> QED BY <1>2, <1>3, <1>4 DEF Decode, Reads
=============================================================================
