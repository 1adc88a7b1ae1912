---------------------------- MODULE CommandIOProofs ----------------------------
(***************************************************************************)
(* What a command may do and what is seen of what it prints, for any       *)
(* number of clients, projects and streams and any sizes.  Of JobOutput:   *)
(* no character of a secret is stored, everything else is, the output is   *)
(* the end of it that there is room for, and what is held back is bounded. *)
(* Of ProjectPolicy: a policy file that cannot be parsed changes nothing,  *)
(* a connection is tested by a policy of the call's own time, and every    *)
(* process runs as one policy of its project says.                         *)
(***************************************************************************)
EXTENDS MCCommandIO, FiniteSetTheorems, TLAPS

------------------------------------------------------------------------------
\* Numbers

Below == {ss \in Nat \X Nat : ss[1] < ss[2]}

\* A set of numbers has a least one.
LEMMA LeastNumber ==
  ASSUME NEW S, S \subseteq Nat, S # {}
  PROVE  Least(S) \in S /\ \A y \in S : Least(S) <= y
<1>1. IsWellFoundedOn(Below, Nat)
  BY NatLessThanWellFounded DEF OpToRel, Below
<1>2. PICK x \in S : \A y \in S : ~ (<<y, x>> \in Below)
  BY <1>1, WFMin
<1>3. ASSUME NEW y \in S PROVE x <= y
  <2>1. x \in Nat /\ y \in Nat /\ <<y, x>> \notin Below
    BY <1>2
  <2>2. y < x => <<y, x>> \in Below
    BY <2>1 DEF Below
  <2> QED
    BY <2>1, <2>2
<1> QED
  BY <1>3 DEF Least

\* A set of numbers below another number has a greatest one.
LEMMA GreatestNumber ==
  ASSUME NEW S, S \subseteq Nat, S # {}, NEW n \in Nat, \A x \in S : x <= n
  PROVE  Greatest(S) \in S /\ \A y \in S : y <= Greatest(S)
<1> DEFINE U == {u \in Nat : \A x \in S : x <= u}
           m == Least(U)
<1>1. m \in U /\ \A u \in U : m <= u
  <2>1. n \in U
    OBVIOUS
  <2> HIDE DEF U
  <2>2. U \subseteq Nat
    BY DEF U
  <2> QED
    BY <2>1, <2>2, LeastNumber
<1> HIDE DEF m
<1>2. m \in Nat /\ \A x \in S : x <= m
  BY <1>1
<1>3. m \in S
  <2> SUFFICES ASSUME m \notin S PROVE FALSE
    OBVIOUS
  <2>1. \A x \in S : x \in Nat /\ x < m
    BY <1>2
  <2>2. m # 0
    <3>1. PICK x \in S : TRUE
      OBVIOUS
    <3> QED
      BY <1>2, <2>1, <3>1
  <2>3. m - 1 \in Nat /\ \A x \in S : x <= m - 1
    BY <1>2, <2>1, <2>2
  <2>4. m - 1 \in U
    BY <2>3
  <2> QED
    BY <1>1, <1>2, <2>4
<1> QED
  BY <1>2, <1>3 DEF Greatest

\* What is true of zero, and of a number when it is true of the one before, is
\* true of all numbers up to n.  The set holds those of which it is true.
LEMMA UpTo ==
  ASSUME NEW n \in Nat, NEW T, 0 \in T, \A k \in 1..n : k - 1 \in T => k \in T
  PROVE  \A k \in 0..n : k \in T
<1> DEFINE S == (0..n) \ T
<1> SUFFICES ASSUME S # {} PROVE FALSE
  OBVIOUS
<1> DEFINE m == Least(S)
<1>1. m \in S /\ \A y \in S : m <= y
  BY LeastNumber
<1> HIDE DEF m
<1>2. m \in 0..n /\ m \notin T /\ \A y \in (0..n) \ T : m <= y
  BY <1>1
<1>3. m # 0 /\ m - 1 \in 0..n /\ m \in 1..n /\ ~ (m <= m - 1)
  BY <1>2
<1>4. m - 1 \in T
  BY <1>2, <1>3
<1> QED
  BY <1>2, <1>3, <1>4

\* Sequences of the same elements are the same.
LEMMA SameSequence ==
  ASSUME NEW S, NEW p \in Seq(S), NEW q \in Seq(S), Len(p) = Len(q), \A j \in 1..Len(p) : p[j] = q[j]
  PROVE  p = q
OBVIOUS

\* The end of a sequence.
LEMMA EndOf ==
  ASSUME NEW S, NEW q \in Seq(S), NEW d \in 1..Len(q)
  PROVE  /\ SubSeq(q, d, Len(q)) \in Seq(S) /\ Len(SubSeq(q, d, Len(q))) = Len(q) + 1 - d
         /\ \A j \in 1..Len(q) + 1 - d : SubSeq(q, d, Len(q))[j] = q[d + j - 1]
OBVIOUS

------------------------------------------------------------------------------
\* Secrets in a text

SecretAt(t, q) ==
  /\ Assigns(t, q) /\ IsSecretName(t, q)
  /\ \A r \in 1..q - 1 : InToken(t, r, q) => ~Assigns(t, r)

\* Where the text that is pending may begin: between tokens, ...
Clean(t, b) == b = 1 \/ IsSpace(t[b - 1]) \/ (b <= Len(t) /\ IsSpace(t[b]))
\* ... or in one that is longer than a name may be, and is no secret.
Forced(t, b) ==
  /\ ~Hidden(t, b - 1)
  /\ \E a \in 1..b - 1 : InToken(t, a, b - 1) /\ b - a >= Threshold - Reserve

\* What is hidden is the value of a secret.
LEMMA HiddenBySecret ==
  ASSUME NEW t, NEW k \in Nat
  PROVE  Hidden(t, k) <=> \E q \in 1..k - 1 : SecretAt(t, q) /\ InToken(t, q, k)
BY DEF Hidden, SecretAt

\* Whether a character is hidden, those before it decide.
LEMMA SecretsOfPrefix ==
  ASSUME NEW t, NEW u, NEW k \in Nat, Len(t) \in Nat, Len(u) \in Nat, k <= Len(t), k <= Len(u),
         \A j \in 1..k : t[j] = u[j], NEW q \in 1..k - 1
  PROVE  SecretAt(t, q) <=> SecretAt(u, q)
<1>1. \A r \in 1..k - 1 : Assigns(t, r) <=> Assigns(u, r)
  BY DEF Assigns
<1>2. \A r \in 1..k - 1 : InToken(t, r, q) <=> InToken(u, r, q)
  BY DEF InToken
<1>3. IsSecretName(t, q) <=> IsSecretName(u, q)
  <2>1. \A j \in 1..q - 1 : t[j] = u[j]
    OBVIOUS
  <2> QED
    BY <2>1 DEF IsSecretName
<1> QED
  BY <1>1, <1>2, <1>3 DEF SecretAt

\* ... and so is what is hidden.
LEMMA HiddenInPrefix ==
  ASSUME NEW t, NEW u, NEW k \in Nat, Len(t) \in Nat, Len(u) \in Nat, k <= Len(t), k <= Len(u),
         \A j \in 1..k : t[j] = u[j]
  PROVE  Hidden(t, k) <=> Hidden(u, k)
<1>1. \A q \in 1..k - 1 : SecretAt(t, q) <=> SecretAt(u, q)
  BY SecretsOfPrefix
<1>2. \A q \in 1..k - 1 : InToken(t, q, k) <=> InToken(u, q, k)
  BY DEF InToken
<1> QED
  BY <1>1, <1>2, HiddenBySecret

\* v is what t says from b on.
From(t, b, v) == Len(v) \in Nat /\ b + Len(v) - 1 <= Len(t) /\ \A j \in 1..Len(v) : v[j] = t[b + j - 1]

\* A secret whose name begins after a cut is one in the text after it.
LEMMA SecretAfterCut ==
  ASSUME NEW t, Len(t) \in Nat, NEW b \in Nat \ {0}, NEW v, From(t, b, v),
         NEW q \in Nat, NEW m \in b..q - 1, NEW k \in Nat, q < k, k <= b + Len(v) - 1,
         SecretAt(t, q), t[m] = "s", \A l \in m..q - 1 : IsLetter(t[l]), InToken(t, q, k)
  PROVE  Hidden(v, k + 1 - b) /\ SecretAt(v, q + 1 - b)
<1> DEFINE p == q + 1 - b
           i == m + 1 - b
           h == k + 1 - b
<1>1. /\ p \in 1..h - 1 /\ h \in 1..Len(v) /\ i \in 1..p - 1 /\ p \in 2..Len(v) - 1
      /\ b + p - 1 = q /\ b + i - 1 = m /\ b + h - 1 = k
  BY DEF From
<1>2. \A j \in 1..Len(v) : v[j] = t[b + j - 1]
  BY DEF From
<1>3. t[q] = "=" /\ IsLetter(t[q - 1]) /\ ~IsSpace(t[q + 1])
  BY DEF SecretAt, Assigns
<1>4. v[p] = t[q] /\ v[p - 1] = t[q - 1] /\ v[p + 1] = t[q + 1] /\ v[i] = t[m]
  <2>1. b + (p - 1) - 1 = q - 1 /\ b + (p + 1) - 1 = q + 1 /\ p - 1 \in 1..Len(v) /\ p + 1 \in 1..Len(v)
        /\ p \in 1..Len(v) /\ i \in 1..Len(v)
    BY <1>1
  <2> HIDE DEF p, i, h
  <2> QED
    BY <1>1, <1>2, <2>1
<1> HIDE DEF p, i, h
<1>5. Assigns(v, p)
  BY <1>1, <1>3, <1>4 DEF Assigns
<1>6. IsSecretName(v, p)
  <2>1. ASSUME NEW l \in i..p - 1 PROVE IsLetter(v[l])
    <3>1. l \in 1..Len(v) /\ b + l - 1 \in m..q - 1
      BY <1>1
    <3> QED
      BY <1>2, <3>1
  <2> QED
    BY <1>1, <1>4, <2>1 DEF IsSecretName
<1>7. ASSUME NEW r \in 1..p - 1, InToken(v, r, p), Assigns(v, r) PROVE FALSE
  <2>1. /\ r \in 2..Len(v) - 1 /\ b + r - 1 \in 1..q - 1
        /\ b + (r - 1) - 1 = (b + r - 1) - 1 /\ b + (r + 1) - 1 = (b + r - 1) + 1
        /\ r - 1 \in 1..Len(v) /\ r + 1 \in 1..Len(v) /\ r \in 1..Len(v)
    BY <1>1, <1>7 DEF Assigns
  <2>2. v[r] = t[b + r - 1] /\ v[r - 1] = t[(b + r - 1) - 1] /\ v[r + 1] = t[(b + r - 1) + 1]
    BY <1>2, <2>1
  <2>3. 1 < b + r - 1 /\ b + r - 1 < Len(t)
    BY <1>1, <2>1 DEF From
  <2>4. Assigns(t, b + r - 1)
    BY <1>7, <2>2, <2>3 DEF Assigns
  <2>5. InToken(t, b + r - 1, q)
    <3>1. ASSUME NEW l \in b + r - 1..q PROVE ~IsSpace(t[l])
      <4>1. l + 1 - b \in r..p /\ l + 1 - b \in 1..Len(v) /\ b + (l + 1 - b) - 1 = l
        BY <1>1, <2>1
      <4>2. v[l + 1 - b] = t[l]
        BY <1>2, <4>1
      <4> QED
        BY <1>7, <4>1, <4>2 DEF InToken
    <3> QED
      BY <3>1 DEF InToken
  <2> QED
    BY <2>1, <2>4, <2>5 DEF SecretAt
<1>8. SecretAt(v, p)
  BY <1>5, <1>6, <1>7 DEF SecretAt
<1>9. InToken(v, p, h)
  <2>1. ASSUME NEW l \in p..h PROVE ~IsSpace(v[l])
    <3>1. l \in 1..Len(v) /\ b + l - 1 \in q..k
      BY <1>1
    <3> QED
      BY <1>2, <3>1 DEF InToken
  <2> QED
    BY <2>1 DEF InToken
<1>10. h \in Nat /\ p \in 1..h - 1
  BY <1>1
<1>11. Hidden(v, h)
  BY <1>8, <1>9, <1>10, HiddenBySecret
<1> QED
  BY <1>8, <1>11 DEF p, h

\* A name fits before a cut that is forced.
LEMMA CutsMissSecrets ==
  ASSUME NEW t \in Seq(Chars), NamesFit(t), NEW b \in 1..Len(t), Clean(t, b) \/ Forced(t, b),
         NEW q \in Nat, NEW m \in 1..q - 1, NEW k \in b..Len(t), q < k,
         SecretAt(t, q), \A l \in m..q - 1 : IsLetter(t[l]), InToken(t, q, k)
  PROVE  b <= m
<1> SUFFICES ASSUME m < b PROVE FALSE
  OBVIOUS
<1>1. /\ \A l \in m..k : ~IsSpace(t[l])
      /\ t[q] = "="
  <2>1. ASSUME NEW l \in m..k PROVE ~IsSpace(t[l])
    <3>1. CASE l < q
      <4>1. IsLetter(t[l])
        BY <3>1
      <4> QED
        BY <4>1 DEF IsLetter, IsSpace
    <3>2. CASE l >= q
      BY <3>2 DEF InToken
    <3> QED
      BY <3>1, <3>2
  <2> QED
    BY <2>1 DEF SecretAt, Assigns
<1>2. CASE Clean(t, b)
  <2>1. b - 1 \in m..k /\ b \in m..k /\ b # 1
    OBVIOUS
  <2> QED
    BY <1>1, <1>2, <2>1 DEF Clean
<1>3. CASE Forced(t, b)
  <2>1. PICK a \in 1..b - 1 : InToken(t, a, b - 1) /\ b - a >= Threshold - Reserve
    BY <1>3 DEF Forced
  <2> DEFINE c == IF a < m THEN a ELSE m
  <2>2. \A l \in a..b - 1 : ~IsSpace(t[l])
    BY <2>1 DEF InToken
  <2>3. a \in 1..k
    OBVIOUS
  <2>4. ASSUME NEW l \in a..k PROVE ~IsSpace(t[l])
    <3>1. l \in a..b - 1 \/ l \in m..k
      BY <2>1
    <3> QED
      BY <1>1, <2>2, <3>1
  <2>5. CASE q >= b - 1
    <3>1. InToken(t, a, q) /\ q \in DOMAIN t /\ a \in 1..q
      BY <2>4, <2>5 DEF InToken
    <3>2. q + 1 - a <= Threshold - Reserve + 1 - Chunk
      BY <1>1, <3>1 DEF NamesFit, Room
    <3> QED
      BY <2>1, <2>5, <3>2, SizesAreNumbers
  <2>6. CASE q < b - 1
    <3>1. InToken(t, q, b - 1)
      BY <1>1 DEF InToken
    <3>2. q \in 1..(b - 1) - 1 /\ b - 1 \in Nat
      BY <2>6
    <3>3. Hidden(t, b - 1)
      BY <3>1, <3>2, HiddenBySecret
    <3> QED
      BY <1>3, <3>3 DEF Forced
  <2> QED
    BY <2>5, <2>6
<1> QED
  BY <1>2, <1>3

\* What a text hides, it still hides in what begins at a cut.
LEMMA HiddenAfterCut ==
  ASSUME NEW t \in Seq(Chars), NamesFit(t), NEW b \in 1..Len(t), Clean(t, b) \/ Forced(t, b),
         NEW v, From(t, b, v), NEW k \in b..Len(t), k <= b + Len(v) - 1, Hidden(t, k)
  PROVE  Hidden(v, k + 1 - b)
<1>1. PICK q \in 1..k - 1 : SecretAt(t, q) /\ InToken(t, q, k)
  BY HiddenBySecret
<1>2. PICK m \in 1..q - 1 : t[m] = "s" /\ \A l \in m..q - 1 : IsLetter(t[l])
  BY <1>1 DEF SecretAt, IsSecretName
<1>3. b <= m
  <2>1. q \in Nat /\ q < k
    OBVIOUS
  <2> QED
    BY <1>1, <1>2, <2>1, CutsMissSecrets
<1> QED
  BY <1>1, <1>2, <1>3, SecretAfterCut

\* What begins between tokens hides nothing else.
LEMMA HiddenFromClean ==
  ASSUME NEW t, Len(t) \in Nat, NEW b \in 1..Len(t), Clean(t, b),
         NEW v, From(t, b, v), NEW h \in 1..Len(v), Hidden(v, h)
  PROVE  Hidden(t, b + h - 1)
<1>1. PICK p \in 1..h - 1 : SecretAt(v, p) /\ InToken(v, p, h)
  BY HiddenBySecret DEF From
<1> DEFINE q == b + p - 1
           k == b + h - 1
<1>2. \A j \in 1..Len(v) : v[j] = t[b + j - 1]
  BY DEF From
<1>3. Len(v) \in Nat /\ b + Len(v) - 1 <= Len(t) /\ p \in 2..Len(v) - 1
      /\ v[p] = "=" /\ IsLetter(v[p - 1]) /\ ~IsSpace(v[p + 1])
  BY <1>1 DEF From, SecretAt, Assigns
<1>4. v[p] = t[q] /\ v[p - 1] = t[q - 1] /\ v[p + 1] = t[q + 1]
  <2>1. b + (p - 1) - 1 = q - 1 /\ b + (p + 1) - 1 = q + 1 /\ p - 1 \in 1..Len(v) /\ p + 1 \in 1..Len(v)
        /\ p \in 1..Len(v) /\ b + p - 1 = q
    BY <1>3
  <2> HIDE DEF q
  <2> QED
    BY <1>2, <2>1
<1>5. q \in 2..k - 1 /\ k \in Nat /\ k <= Len(t) /\ b < q
  BY <1>3
<1>6. Assigns(t, q)
  <2> HIDE DEF q, k
  <2> QED
    BY <1>3, <1>4, <1>5 DEF Assigns
<1>7. IsSecretName(t, q)
  <2>1. PICK i \in 1..p - 1 : v[i] = "s" /\ \A l \in i..p - 1 : IsLetter(v[l])
    BY <1>1 DEF SecretAt, IsSecretName
  <2>2. b + i - 1 \in 1..q - 1 /\ t[b + i - 1] = "s"
    <3>1. i \in 1..Len(v) /\ b + i - 1 \in 1..q - 1
      BY <1>3
    <3> QED
      BY <1>2, <2>1, <3>1
  <2>3. ASSUME NEW l \in b + i - 1..q - 1 PROVE IsLetter(t[l])
    <3>1. l + 1 - b \in i..p - 1 /\ l + 1 - b \in 1..Len(v) /\ b + (l + 1 - b) - 1 = l
      BY <1>3
    <3>2. v[l + 1 - b] = t[l]
      BY <1>2, <3>1
    <3> QED
      BY <2>1, <3>1, <3>2
  <2> HIDE DEF q, k
  <2> QED
    BY <2>2, <2>3 DEF IsSecretName
<1>8. InToken(t, q, k)
  <2>1. ASSUME NEW l \in q..k PROVE ~IsSpace(t[l])
    <3>1. l + 1 - b \in p..h /\ l + 1 - b \in 1..Len(v) /\ b + (l + 1 - b) - 1 = l
      BY <1>3
    <3>2. v[l + 1 - b] = t[l]
      BY <1>2, <3>1
    <3> QED
      BY <1>1, <3>1, <3>2 DEF InToken
  <2> HIDE DEF q, k
  <2> QED
    BY <2>1 DEF InToken
<1>9. ASSUME NEW r \in 1..q - 1, InToken(t, r, q), Assigns(t, r) PROVE FALSE
  <2>1. CASE r <= b
    <3>1. t[r] = "=" /\ IsLetter(t[r - 1]) /\ 1 < r
      BY <1>9 DEF Assigns
    <3>2. ~IsSpace(t[b]) /\ ~IsSpace(t[r])
      BY <1>5, <1>9, <2>1 DEF InToken
    <3>3. b # 1 /\ ~IsSpace(t[b - 1])
      <4>1. CASE r = b
        <5>1. IsLetter(t[b - 1]) /\ 1 < b
          BY <3>1, <4>1
        <5>2. b # 1
          BY <5>1
        <5>3. ~IsSpace(t[b - 1])
          BY <5>1 DEF IsLetter, IsSpace
        <5> QED
          BY <5>2, <5>3
      <4>2. CASE r < b
        <5>1. b - 1 \in r..q
          BY <1>5, <4>2
        <5> QED
          BY <1>9, <3>1, <4>2, <5>1 DEF InToken
      <4> QED
        <5>1. r = b \/ r < b
          BY <2>1
        <5> HIDE DEF q, k
        <5> QED
          BY <4>1, <4>2, <5>1
    <3> QED
      BY <3>2, <3>3 DEF Clean
  <2>2. CASE b < r
    <3> DEFINE i == r + 1 - b
    <3>1. /\ i \in 1..p - 1 /\ i \in 2..Len(v) - 1 /\ b + i - 1 = r
          /\ b + (i - 1) - 1 = r - 1 /\ b + (i + 1) - 1 = r + 1
          /\ i - 1 \in 1..Len(v) /\ i + 1 \in 1..Len(v) /\ i \in 1..Len(v)
      BY <1>3, <1>9, <2>2
    <3> HIDE DEF i
    <3>2. v[i] = t[r] /\ v[i - 1] = t[r - 1] /\ v[i + 1] = t[r + 1]
      BY <1>2, <3>1
    <3>3. Assigns(v, i)
      BY <1>9, <3>1, <3>2 DEF Assigns
    <3>4. InToken(v, i, p)
      <4>1. ASSUME NEW l \in i..p PROVE ~IsSpace(v[l])
        <5>1. l \in 1..Len(v) /\ b + l - 1 \in r..q
          BY <1>3, <3>1
        <5> QED
          BY <1>2, <1>9, <5>1 DEF InToken
      <4> QED
        BY <4>1 DEF InToken
    <3> QED
      BY <1>1, <3>1, <3>3, <3>4 DEF SecretAt
  <2> QED
    BY <1>5, <1>9, <2>1, <2>2
<1> HIDE DEF q, k
<1>10. SecretAt(t, q)
  BY <1>6, <1>7, <1>9 DEF SecretAt
<1>11. Hidden(t, k)
  BY <1>5, <1>8, <1>10, HiddenBySecret
<1> QED
  BY <1>11 DEF k

------------------------------------------------------------------------------
\* Texts of positions

IsText(t, text) == text \in Seq(Nat) /\ \A k \in 1..Len(text) : text[k] <= Len(t)

\* A span holds the positions between its ends.
LEMMA SpanIs ==
  ASSUME NEW b \in Nat \ {0}, NEW e \in Nat, b <= e + 1
  PROVE  /\ Span(b, e) \in Seq(Nat) /\ Len(Span(b, e)) = e + 1 - b
         /\ Span(b, e) = [k \in 1..e + 1 - b |-> b + k - 1]
<1>1. (IF e < b THEN 0 ELSE e - b + 1) = e + 1 - b
  OBVIOUS
<1>2. Span(b, e) = [k \in 1..e + 1 - b |-> b + k - 1]
  BY <1>1 DEF Span
<1>3. e + 1 - b \in Nat /\ \A k \in 1..e + 1 - b : b + k - 1 \in Nat
  OBVIOUS
<1> QED
  BY <1>2, <1>3

\* What a text says is as long as the text.
LEMMA SpelledIs ==
  ASSUME NEW t \in Seq(Chars), NEW text, IsText(t, text)
  PROVE  /\ Len(Spelled(t, text)) = Len(text)
         /\ Spelled(t, text) = [k \in 1..Len(text) |-> Char(t, text[k])]
         /\ Spelled(t, text) \in Seq(Chars \cup {"-"})
<1>1. DOMAIN text = 1..Len(text) /\ Len(text) \in Nat
  BY DEF IsText
<1>2. ASSUME NEW k \in 1..Len(text) PROVE Char(t, text[k]) \in Chars \cup {"-"}
  <2>1. text[k] \in Nat /\ text[k] <= Len(t)
    BY DEF IsText
  <2> QED
    BY <2>1 DEF Char, Mark
<1>3. Spelled(t, text) = [k \in 1..Len(text) |-> Char(t, text[k])]
  BY <1>1 DEF Spelled
<1> QED
  BY <1>1, <1>2, <1>3

\* A span says what its stream says there.
LEMMA SpelledSpan ==
  ASSUME NEW t \in Seq(Chars), NEW b \in Nat \ {0}, NEW e \in Nat, b <= e + 1, e <= Len(t)
  PROVE  /\ IsText(t, Span(b, e)) /\ From(t, b, Spelled(t, Span(b, e)))
         /\ Len(Spelled(t, Span(b, e))) = e + 1 - b
<1> DEFINE w == Span(b, e)
<1>1. w \in Seq(Nat) /\ Len(w) = e + 1 - b /\ e + 1 - b \in Nat
  <2>1. w \in Seq(Nat) /\ Len(w) = e + 1 - b
    BY SpanIs
  <2>2. e + 1 - b \in Nat
    OBVIOUS
  <2> QED
    BY <2>1, <2>2
<1>0. \A k \in 1..Len(w) : w[k] = b + k - 1 /\ b + k - 1 \in 1..Len(t) /\ w[k] # Mark
  <2>1. w = [k \in 1..e + 1 - b |-> b + k - 1]
    BY SpanIs
  <2> HIDE DEF w
  <2> QED
    BY <1>1, <2>1 DEF Mark
<1> HIDE DEF w
<1>2. IsText(t, w)
  BY <1>0, <1>1 DEF IsText
<1>3. Len(Spelled(t, w)) = Len(w) /\ \A k \in 1..Len(w) : Spelled(t, w)[k] = t[b + k - 1]
  <2>1. Spelled(t, w) = [k \in 1..Len(w) |-> Char(t, w[k])] /\ Len(Spelled(t, w)) = Len(w)
    BY <1>2, SpelledIs
  <2>2. \A k \in 1..Len(w) : Char(t, w[k]) = t[b + k - 1]
    BY <1>0 DEF Char
  <2> QED
    BY <2>1, <2>2
<1>4. From(t, b, Spelled(t, w))
  BY <1>1, <1>3 DEF From
<1> QED
  BY <1>1, <1>2, <1>3, <1>4 DEF w

\* A stream that prints on leaves what was said as it is.
LEMMA SpelledStays ==
  ASSUME NEW t \in Seq(Chars), NEW u \in Seq(Chars), Len(t) <= Len(u),
         \A k \in 1..Len(t) : t[k] = u[k], NEW text, IsText(t, text)
  PROVE  IsText(u, text) /\ Spelled(u, text) = Spelled(t, text)
<1>1. ASSUME NEW k \in 1..Len(text) PROVE Char(u, text[k]) = Char(t, text[k]) /\ text[k] <= Len(u)
  <2>1. text[k] \in Nat /\ text[k] <= Len(t)
    BY DEF IsText
  <2> QED
    BY <2>1 DEF Char, Mark
<1>2. IsText(u, text)
  BY <1>1 DEF IsText
<1> QED
  BY <1>1, <1>2, SpelledIs

------------------------------------------------------------------------------
\* Redaction, character by character

\* What the redaction of a text makes of its first characters.
Redacts(says, text, F) ==
  /\ F[0] = <<>>
  /\ \A n \in 1..Len(text) :
       F[n] = IF ~Hidden(says, n) THEN Append(F[n - 1], text[n])
              ELSE IF Hidden(says, n - 1) THEN F[n - 1] ELSE Append(F[n - 1], Mark)

\* Such texts exist.
LEMMA RedactionExists ==
  ASSUME NEW says, NEW text \in Seq(Nat)
  PROVE  \E F \in [0..Len(text) -> Seq(Nat)] :
           Redacts(says, text, F)
<1> DEFINE n == Len(text)
           Step(q, k) == IF ~Hidden(says, k) THEN Append(q, text[k])
                         ELSE IF Hidden(says, k - 1) THEN q ELSE Append(q, Mark)
           Good(m) == \E F \in [0..m -> Seq(Nat)] : F[0] = <<>> /\ \A k \in 1..m : F[k] = Step(F[k - 1], k)
           T == {m \in 0..n : Good(m)}
<1>0. n \in Nat /\ \A q \in Seq(Nat), k \in 1..n : Step(q, k) \in Seq(Nat)
  BY DEF Mark
<1> HIDE DEF Step
<1>1. 0 \in T
  <2> DEFINE F == [k \in 0..0 |-> <<>>]
  <2>1. F \in [0..0 -> Seq(Nat)] /\ F[0] = <<>> /\ \A k \in 1..0 : F[k] = Step(F[k - 1], k)
    OBVIOUS
  <2> HIDE DEF F
  <2>2. Good(0)
    BY <2>1
  <2> QED
    BY <2>2
<1>2. ASSUME NEW m \in 1..n, m - 1 \in T PROVE m \in T
  <2>1. PICK F \in [0..m - 1 -> Seq(Nat)] : F[0] = <<>> /\ \A k \in 1..m - 1 : F[k] = Step(F[k - 1], k)
    BY <1>2
  <2> DEFINE G == [k \in 0..m |-> IF k = m THEN Step(F[m - 1], m) ELSE F[k]]
  <2>2. G \in [0..m -> Seq(Nat)]
    <3>1. m - 1 \in 0..m - 1 /\ \A k \in 0..m : k # m => k \in 0..m - 1
      BY <1>0
    <3>2. Step(F[m - 1], m) \in Seq(Nat)
      BY <1>0, <2>1, <3>1
    <3> QED
      BY <2>1, <3>1, <3>2
  <2>3. G[0] = <<>>
    BY <1>0, <2>1
  <2>4. \A k \in 1..m : G[k] = Step(G[k - 1], k)
    <3>1. \A k \in 1..m : k - 1 \in 0..m /\ k - 1 # m /\ k \in 0..m /\ (k # m => k \in 1..m - 1)
      BY <1>0
    <3> QED
      BY <2>1, <3>1
  <2>5. Good(m)
    <3> HIDE DEF G
    <3> QED
      BY <2>2, <2>3, <2>4
  <2>6. m \in 0..n
    OBVIOUS
  <2> HIDE DEF Good
  <2> QED
    BY <2>5, <2>6
<1> HIDE DEF T
<1>3. n \in T
  <2>1. n \in 0..n
    OBVIOUS
  <2>2. \A k \in 0..n : k \in T
    BY <1>0, <1>1, <1>2, UpTo
  <2> QED
    BY <2>1, <2>2
<1>4. PICK F \in [0..n -> Seq(Nat)] : F[0] = <<>> /\ \A k \in 1..n : F[k] = Step(F[k - 1], k)
  BY <1>3 DEF T
<1> HIDE DEF n
<1>5. Redacts(says, text, F)
  BY <1>4 DEF Redacts, Step, n
<1> QED
  BY <1>4, <1>5 DEF n

\* Redacted is the last of these texts.
LEMMA RedactedIs ==
  ASSUME NEW t, NEW text \in Seq(Nat)
  PROVE  \E F \in [0..Len(text) -> Seq(Nat)] :
           Redacts(Spelled(t, text), text, F) /\ Redacted(t, text) = F[Len(text)]
<1> DEFINE says == Spelled(t, text)
           Step(F, n) == IF n = 0 THEN <<>>
                         ELSE IF ~Hidden(says, n) THEN Append(F[n - 1], text[n])
                         ELSE IF Hidden(says, n - 1) THEN F[n - 1] ELSE Append(F[n - 1], Mark)
           U == CHOOSE F : F = [n \in 0..Len(text) |-> Step(F, n)]
<1>0. Len(text) \in Nat /\ \A n \in 0..Len(text) : n # 0 => n \in 1..Len(text)
  OBVIOUS
<1>1. PICK G \in [0..Len(text) -> Seq(Nat)] : Redacts(says, text, G)
  BY RedactionExists
<1>2. G = [n \in 0..Len(text) |-> Step(G, n)]
  <2>1. \A n \in 0..Len(text) : G[n] = Step(G, n)
    BY <1>0, <1>1 DEF Redacts
  <2> HIDE DEF Step
  <2> QED
    BY <2>1
<1>3. U = [n \in 0..Len(text) |-> Step(U, n)]
  <2> HIDE DEF Step
  <2> QED
    BY <1>2
<1>4. Redacted(t, text) = U[Len(text)]
  BY DEF Redacted
<1> HIDE DEF U
<1>5. \A n \in 0..Len(text) : U[n] = Step(U, n)
  BY <1>3
<1>6. Redacts(says, text, U)
  <2>1. 0 \in 0..Len(text) /\ \A n \in 1..Len(text) : n \in 0..Len(text) /\ n # 0
    BY <1>0
  <2> QED
    BY <1>5, <2>1 DEF Redacts
<1>7. U \in [0..Len(text) -> Seq(Nat)]
  <2> HIDE DEF Step, says
  <2> DEFINE T == {n \in 0..Len(text) : U[n] \in Seq(Nat)}
  <2>1. 0 \in T
    <3>1. U[0] = <<>> /\ 0 \in 0..Len(text)
      BY <1>0, <1>6 DEF Redacts
    <3>2. U[0] \in Seq(Nat)
      BY <3>1
    <3> QED
      BY <3>1, <3>2
  <2>2. ASSUME NEW n \in 1..Len(text), n - 1 \in T PROVE n \in T
    <3>1. text[n] \in Nat /\ Mark \in Nat /\ n \in 0..Len(text)
      BY <1>0 DEF Mark
    <3>0. U[n - 1] \in Seq(Nat)
      BY <2>2
    <3>2. U[n] \in {U[n - 1], Append(U[n - 1], text[n]), Append(U[n - 1], Mark)}
      BY <1>6 DEF Redacts
    <3>3. \A q \in Seq(Nat), p \in Nat : Append(q, p) \in Seq(Nat)
      OBVIOUS
    <3>4. Append(U[n - 1], text[n]) \in Seq(Nat) /\ Append(U[n - 1], Mark) \in Seq(Nat)
      BY <3>0, <3>1, <3>3
    <3>5. U[n] \in Seq(Nat)
      BY <3>0, <3>2, <3>4, Zenon
    <3> QED
      BY <3>1, <3>5
  <2> HIDE DEF T
  <2>3. \A n \in 0..Len(text) : n \in T
    BY <1>0, <2>1, <2>2, UpTo
  <2>4. \A n \in 0..Len(text) : U[n] \in Seq(Nat)
    BY <2>3 DEF T
  <2> QED
    BY <1>3, <2>4
<1> QED
  BY <1>4, <1>6, <1>7

\* What is left of a text is marks and what it does not hide.
LEMMA RedactedHides ==
  ASSUME NEW t, NEW text \in Seq(Nat)
  PROVE  /\ Redacted(t, text) \in Seq(Nat)
         /\ \A i \in 1..Len(Redacted(t, text)) :
              \/ Redacted(t, text)[i] = Mark
              \/ \E k \in 1..Len(text) : Redacted(t, text)[i] = text[k] /\ ~Hidden(Spelled(t, text), k)
<1> DEFINE says == Spelled(t, text)
           Shown(p) == p = Mark \/ \E k \in 1..Len(text) : p = text[k] /\ ~Hidden(says, k)
<1>0. Len(text) \in Nat
  OBVIOUS
<1>1. PICK F \in [0..Len(text) -> Seq(Nat)] : Redacts(says, text, F) /\ Redacted(t, text) = F[Len(text)]
  BY RedactedIs
<1> DEFINE T == {n \in 0..Len(text) : \A i \in 1..Len(F[n]) : Shown(F[n][i])}
<1> HIDE DEF Shown
<1>2. 0 \in T
  <2>1. F[0] = <<>> /\ 0 \in 0..Len(text)
    BY <1>0, <1>1 DEF Redacts
  <2>2. \A i \in 1..Len(<<>>) : Shown(<<>>[i])
    OBVIOUS
  <2> QED
    BY <2>1, <2>2
<1>3. ASSUME NEW n \in 1..Len(text), n - 1 \in T PROVE n \in T
  <2>1. F[n - 1] \in Seq(Nat) /\ \A i \in 1..Len(F[n - 1]) : Shown(F[n - 1][i])
    <3>1. n - 1 \in 0..Len(text)
      BY <1>0
    <3>2. F[n - 1] \in Seq(Nat)
      BY <1>1, <3>1
    <3>3. \A i \in 1..Len(F[n - 1]) : Shown(F[n - 1][i])
      BY <1>3
    <3> QED
      BY <3>2, <3>3
  <2>2. text[n] \in Nat /\ Mark \in Nat /\ Shown(Mark) /\ (~Hidden(says, n) => Shown(text[n]))
    BY DEF Shown, Mark
  <2>3. ASSUME NEW p \in Nat, Shown(p) PROVE \A i \in 1..Len(Append(F[n - 1], p)) : Shown(Append(F[n - 1], p)[i])
    <3> DEFINE a == F[n - 1]
               w == Append(a, p)
    <3>1. Len(w) = Len(a) + 1 /\ Len(a) \in Nat /\ w[Len(a) + 1] = p /\ \A i \in 1..Len(a) : w[i] = a[i]
      BY <2>1, <2>3
    <3>2. \A m \in Nat : \A i \in 1..m + 1 : i \in 1..m \/ i = m + 1
      OBVIOUS
    <3> HIDE DEF w
    <3>3. \A i \in 1..Len(w) : Shown(w[i])
      BY <2>1, <2>3, <3>1, <3>2
    <3> QED
      BY <3>3 DEF w
  <2>4. \A i \in 1..Len(F[n]) : Shown(F[n][i])
    <3>1. CASE ~Hidden(says, n)
      <4>1. F[n] = Append(F[n - 1], text[n])
        BY <1>1, <3>1 DEF Redacts
      <4> QED
        BY <2>2, <2>3, <3>1, <4>1
    <3>2. CASE Hidden(says, n) /\ Hidden(says, n - 1)
      <4>1. F[n] = F[n - 1]
        BY <1>1, <3>2 DEF Redacts
      <4> QED
        BY <2>1, <4>1
    <3>3. CASE Hidden(says, n) /\ ~Hidden(says, n - 1)
      <4>1. F[n] = Append(F[n - 1], Mark)
        BY <1>1, <3>3 DEF Redacts
      <4> QED
        BY <2>2, <2>3, <4>1
    <3> QED
      BY <3>1, <3>2, <3>3
  <2>5. n \in 0..Len(text)
    BY <1>0
  <2> QED
    BY <2>4, <2>5
<1> HIDE DEF T
<1>4. \A n \in 0..Len(text) : n \in T
  BY <1>0, <1>2, <1>3, UpTo
<1>5. Len(text) \in T /\ F[Len(text)] \in Seq(Nat)
  BY <1>0, <1>1, <1>4
<1>6. \A i \in 1..Len(Redacted(t, text)) : Shown(Redacted(t, text)[i])
  BY <1>1, <1>5 DEF T
<1> QED
  BY <1>1, <1>5, <1>6 DEF Shown

------------------------------------------------------------------------------
\* What may be stored

Hides(t, text) ==
  IsText(t, text) /\ \A i \in 1..Len(text) : text[i] # Mark => ~Hidden(t, text[i])
PieceHides(t, piece) == IsText(t, piece) /\ Hides(t, Redacted(t, piece))

\* A piece hides what its positions hide in the whole text.
LEMMA PieceIsSafe ==
  ASSUME NEW t \in Seq(Chars), NEW piece, IsText(t, piece),
         \A k \in 1..Len(piece) :
           \/ piece[k] = Mark \/ Hidden(Spelled(t, piece), k)
           \/ ~Hidden(t, piece[k])
  PROVE  PieceHides(t, piece)
<1> DEFINE w == Redacted(t, piece)
<1>1. piece \in Seq(Nat) /\ \A k \in 1..Len(piece) : piece[k] <= Len(t)
  BY DEF IsText
<1>2. /\ w \in Seq(Nat)
      /\ \A i \in 1..Len(w) :
           \/ w[i] = Mark
           \/ \E k \in 1..Len(piece) : w[i] = piece[k] /\ ~Hidden(Spelled(t, piece), k)
  BY <1>1, RedactedHides
<1> HIDE DEF w
<1>3. \A i \in 1..Len(w) : w[i] <= Len(t) /\ (w[i] # Mark => ~Hidden(t, w[i]))
  <2>1. Mark <= Len(t)
    BY DEF Mark
  <2> QED
    BY <1>1, <1>2, <2>1
<1>4. Hides(t, w)
  BY <1>2, <1>3 DEF Hides, IsText
<1> QED
  BY <1>4 DEF PieceHides, w

\* What is cut at a clean or a forced cut shows no secret of the whole text.
LEMMA SpanHides ==
  ASSUME NEW t \in Seq(Chars), NamesFit(t), NEW b \in Nat \ {0}, NEW e \in Nat,
         b <= e + 1, e <= Len(t), b <= Len(t) => Clean(t, b) \/ Forced(t, b)
  PROVE  PieceHides(t, Span(b, e))
<1> DEFINE w == Span(b, e)
           v == Spelled(t, w)
<1>1. IsText(t, w) /\ From(t, b, v) /\ Len(v) = e + 1 - b
  BY SpelledSpan
<1>2. Len(w) = e + 1 - b /\ w = [k \in 1..e + 1 - b |-> b + k - 1]
  BY SpanIs
<1> HIDE DEF w, v
<1>3. ASSUME NEW k \in 1..Len(w), Hidden(t, w[k]) PROVE Hidden(v, k)
  <2> DEFINE p == b + k - 1
  <2>1. w[k] = p
    BY <1>2, <1>3
  <2>2. b \in 1..Len(t) /\ p \in b..Len(t) /\ p <= b + Len(v) - 1 /\ p + 1 - b = k
    BY <1>1, <1>2
  <2> HIDE DEF p
  <2>3. Hidden(v, p + 1 - b)
    BY <1>1, <1>3, <2>1, <2>2, HiddenAfterCut
  <2> QED
    BY <2>2, <2>3
<1>4. PieceHides(t, w)
  BY <1>1, <1>3, PieceIsSafe DEF v
<1> QED
  BY <1>4 DEF w

\* Nor does the beginning of a token before the first character that is hidden.
LEMMA MarkedHides ==
  ASSUME NEW t \in Seq(Chars), NEW b \in 1..Len(t), NEW l \in b..Len(t),
         \A k \in b..l - 1 : ~Hidden(t, k)
  PROVE  PieceHides(t, Append(Span(b, l - 1), Mark)) /\ Len(Append(Span(b, l - 1), Mark)) = l - b + 1
<1> DEFINE w == Span(b, l - 1)
           x == Append(w, Mark)
<1>0. b \in Nat \ {0} /\ l - 1 \in Nat /\ b <= (l - 1) + 1 /\ (l - 1) + 1 - b = l - b /\ l - b \in Nat
  OBVIOUS
<1>1. w \in Seq(Nat) /\ Len(w) = l - b /\ w = [k \in 1..l - b |-> b + k - 1]
  BY <1>0, SpanIs
<1> HIDE DEF w
<1>2. /\ x \in Seq(Nat) /\ Len(x) = l - b + 1 /\ x[l - b + 1] = Mark
      /\ \A k \in 1..l - b : x[k] = b + k - 1
  BY <1>0, <1>1 DEF Mark
<1> HIDE DEF x
<1>3. ASSUME NEW k \in 1..Len(x) PROVE x[k] <= Len(t) /\ (x[k] = Mark \/ ~Hidden(t, x[k]))
  <2>1. CASE k = l - b + 1
    BY <1>2, <2>1 DEF Mark
  <2>2. CASE k # l - b + 1
    <3>1. k \in 1..l - b /\ b + k - 1 \in b..l - 1 /\ b + k - 1 <= Len(t)
      BY <1>0, <1>2, <2>2
    <3> QED
      BY <1>2, <3>1
  <2> QED
    BY <2>1, <2>2
<1>4. IsText(t, x)
  BY <1>2, <1>3 DEF IsText
<1>5. PieceHides(t, x)
  BY <1>3, <1>4, PieceIsSafe
<1> QED
  BY <1>2, <1>5 DEF x, w

------------------------------------------------------------------------------
\* Where a flush cuts

\* A secret that is being redacted ends at a space, or goes on.
LEMMA AfterSecretIs ==
  ASSUME NEW t \in Seq(Chars), NEW b \in 1..Len(t) + 1
  PROVE  /\ AfterSecret(t, b) \in b..Len(t) + 1
         /\ AfterSecret(t, b) <= Len(t) => IsSpace(t[AfterSecret(t, b)])
         /\ \A k \in b..AfterSecret(t, b) - 1 : ~IsSpace(t[k])
<1> DEFINE spaces == {k \in b..Len(t) : IsSpace(t[k])}
<1>1. CASE spaces = {}
  BY <1>1 DEF AfterSecret
<1>2. CASE spaces # {}
  <2>1. AfterSecret(t, b) = Least(spaces)
    BY <1>2 DEF AfterSecret
  <2>2. spaces \subseteq Nat
    OBVIOUS
  <2>3. Least(spaces) \in spaces /\ \A y \in spaces : Least(spaces) <= y
    BY <1>2, <2>2, LeastNumber
  <2>4. AfterSecret(t, b) \in b..Len(t)
    BY <2>1, <2>3
  <2>5. \A k \in b..AfterSecret(t, b) - 1 : k \in b..Len(t) /\ k \notin spaces
    BY <2>1, <2>3, <2>4
  <2> QED
    BY <2>1, <2>3, <2>4, <2>5
<1> QED
  BY <1>1, <1>2

\* The last token of what is pending.
LEMMA TokenStartIs ==
  ASSUME NEW t \in Seq(Chars), NEW b \in 1..Len(t)
  PROVE  /\ TokenStart(t, b) \in b..Len(t) + 1
         /\ TokenStart(t, b) # b => TokenStart(t, b) > 1 /\ IsSpace(t[TokenStart(t, b) - 1])
         /\ \A k \in TokenStart(t, b)..Len(t) : ~IsSpace(t[k])
<1> DEFINE spaces == {k \in b..Len(t) : IsSpace(t[k])}
<1>1. CASE spaces = {}
  BY <1>1 DEF TokenStart
<1>2. CASE spaces # {}
  <2>1. TokenStart(t, b) = Greatest(spaces) + 1
    BY <1>2 DEF TokenStart
  <2>2. spaces \subseteq Nat /\ Len(t) \in Nat /\ \A x \in spaces : x <= Len(t)
    OBVIOUS
  <2>3. Greatest(spaces) \in spaces /\ \A y \in spaces : y <= Greatest(spaces)
    BY <1>2, <2>2, GreatestNumber
  <2> DEFINE g == Greatest(spaces)
  <2> HIDE DEF g
  <2>4. g \in b..Len(t) /\ IsSpace(t[g]) /\ \A y \in b..Len(t) : IsSpace(t[y]) => y <= g
    BY <2>3 DEF g
  <2>5. TokenStart(t, b) = g + 1
    BY <2>1 DEF g
  <2>6. \A k \in g + 1..Len(t) : ~IsSpace(t[k])
    BY <2>4
  <2>7. (g + 1) - 1 = g
    BY <2>4
  <2> QED
    BY <2>4, <2>5, <2>6, <2>7
<1> QED
  BY <1>1, <1>2

\* What is stored in one flush ends at a line break, or at the last space before
\* the reserve, or at the reserve.
LEMMA KeptIs ==
  ASSUME NEW t \in Seq(Chars), NEW b \in 1..Len(t)
  PROVE  \/ /\ Kept(t, b) \in b + 1..Len(t) + 1 /\ t[Kept(t, b) - 1] = "n"
            /\ \A k \in Kept(t, b)..Len(t) : t[k] # "n"
         \/ /\ \A k \in b..Len(t) : t[k] # "n"
            /\ \/ Kept(t, b) = b /\ Len(t) + 1 - b < Threshold
               \/ /\ Len(t) + 1 - b >= Threshold
                  /\ Kept(t, b) \in b + 1..Len(t) + 1 - Reserve /\ IsSpace(t[Kept(t, b) - 1])
                  /\ \A k \in Kept(t, b)..Len(t) - Reserve : ~IsSpace(t[k])
               \/ /\ Len(t) + 1 - b >= Threshold /\ Kept(t, b) = Len(t) + 1 - Reserve
                  /\ \A k \in b..Len(t) - Reserve : ~IsSpace(t[k])
<1> DEFINE lines == {k \in b..Len(t) : t[k] = "n"}
           spaces == {k \in b..Len(t) - Reserve : IsSpace(t[k])}
<1>0. Reserve \in Nat \ {0} /\ Threshold \in Nat /\ Len(t) \in Nat
  BY SizesAreNumbers
<1>1. CASE lines # {}
  <2>1. Kept(t, b) = Greatest(lines) + 1
    BY <1>1 DEF Kept
  <2>2. lines \subseteq Nat /\ \A x \in lines : x <= Len(t)
    OBVIOUS
  <2>3. Greatest(lines) \in lines /\ \A y \in lines : y <= Greatest(lines)
    BY <1>0, <1>1, <2>2, GreatestNumber
  <2> DEFINE g == Greatest(lines)
  <2> HIDE DEF g
  <2>4. g \in b..Len(t) /\ t[g] = "n" /\ \A y \in b..Len(t) : t[y] = "n" => y <= g
    BY <2>3 DEF g
  <2>5. Kept(t, b) = g + 1
    BY <2>1 DEF g
  <2>6. (\A k \in g + 1..Len(t) : t[k] # "n") /\ (g + 1) - 1 = g
    BY <2>4
  <2> QED
    BY <2>4, <2>5, <2>6
<1>2. CASE lines = {} /\ Len(t) + 1 - b < Threshold
  BY <1>2 DEF Kept
<1>3. CASE lines = {} /\ ~ (Len(t) + 1 - b < Threshold)
  <2>0. Kept(t, b) = FlushBoundary(t, b)
    BY <1>3 DEF Kept
  <2>9. Len(t) + 1 - b >= Threshold /\ \A k \in b..Len(t) : t[k] # "n"
    BY <1>0, <1>3
  <2>1. CASE spaces = {}
    <3>1. FlushBoundary(t, b) = Len(t) + 1 - Reserve
      BY <2>1 DEF FlushBoundary
    <3> QED
      BY <2>0, <2>1, <2>9, <3>1
  <2>2. CASE spaces # {}
    <3>1. FlushBoundary(t, b) = Greatest(spaces) + 1
      BY <2>2 DEF FlushBoundary
    <3>2. spaces \subseteq Nat /\ \A x \in spaces : x <= Len(t)
      BY <1>0
    <3>3. Greatest(spaces) \in spaces /\ \A y \in spaces : y <= Greatest(spaces)
      BY <1>0, <2>2, <3>2, GreatestNumber
    <3> DEFINE g == Greatest(spaces)
    <3> HIDE DEF g
    <3>4. /\ g \in b..Len(t) - Reserve /\ IsSpace(t[g])
          /\ \A y \in b..Len(t) - Reserve : IsSpace(t[y]) => y <= g
      BY <3>3 DEF g
    <3>5. Kept(t, b) = g + 1
      BY <2>0, <3>1 DEF g
    <3>6. /\ \A k \in g + 1..Len(t) - Reserve : ~IsSpace(t[k])
          /\ (g + 1) - 1 = g /\ g + 1 \in b + 1..Len(t) + 1 - Reserve
      BY <1>0, <3>4
    <3> QED
      BY <2>9, <3>4, <3>5, <3>6
  <2> QED
    BY <2>1, <2>2
<1> QED
  BY <1>1, <1>2, <1>3

------------------------------------------------------------------------------
\* A flush hides secrets

\* A value that was not redacted ended in the chunk in which it began.
ValuesEnd(t, b) ==
  \A q \in b..Len(t) - 1 :
    SecretAt(t, q) => \E sp \in q + 2..Len(t) : sp <= q + Chunk /\ IsSpace(t[sp])

\* Where the pending text of a stream begins, when secrets have been hidden so far.
Cuts(t, b, on) ==
  /\ b \in 1..Len(t) + 1
  /\ IF on THEN b = Len(t) + 1 ELSE (Clean(t, b) \/ Forced(t, b)) /\ ValuesEnd(t, b)

\* u is t and what was printed after it.
Extends(t, u) == Len(t) <= Len(u) /\ \A k \in 1..Len(t) : t[k] = u[k]

\* A cut stays one.
LEMMA CutsStay ==
  ASSUME NEW t \in Seq(Chars), NEW u \in Seq(Chars), Extends(t, u), NEW b \in 1..Len(t) + 1,
         Clean(t, b) \/ Forced(t, b)
  PROVE  Clean(u, b) \/ Forced(u, b)
<1>1. CASE Clean(t, b)
  <2>1. b # 1 => b - 1 \in 1..Len(t)
    OBVIOUS
  <2> QED
    BY <1>1, <2>1 DEF Clean, Extends
<1>2. CASE Forced(t, b)
  <2>1. PICK a \in 1..b - 1 : InToken(t, a, b - 1) /\ b - a >= Threshold - Reserve
    BY <1>2 DEF Forced
  <2>2. InToken(u, a, b - 1)
    <3>1. \A k \in a..b - 1 : k \in 1..Len(t)
      OBVIOUS
    <3> QED
      BY <2>1, <3>1 DEF InToken, Extends
  <2>3. Hidden(t, b - 1) <=> Hidden(u, b - 1)
    <3>1. b - 1 \in Nat /\ b - 1 <= Len(t) /\ b - 1 <= Len(u) /\ \A j \in 1..b - 1 : t[j] = u[j]
      BY DEF Extends
    <3> QED
      BY <3>1, HiddenInPrefix
  <2> QED
    BY <1>2, <2>1, <2>2, <2>3 DEF Forced
<1> QED
  BY <1>1, <1>2

\* A flush begins at a cut.
LEMMA FlushStart ==
  ASSUME NEW t \in Seq(Chars), NEW u \in Seq(Chars), Extends(t, u), Len(t) < Len(u),
         NEW start, NEW on \in BOOLEAN, Cuts(t, start, on),
         NEW b, b = IF on THEN AfterSecret(u, start) ELSE start
  PROVE  /\ b \in start..Len(u) + 1 /\ b \in 1..Len(u) + 1
         /\ b <= Len(u) => Clean(u, b) \/ Forced(u, b)
         /\ on => b > Len(t)
         /\ ~on => b <= Len(u)
<1>1. start \in 1..Len(t) + 1 /\ start \in 1..Len(u) + 1
  BY DEF Cuts
<1>2. CASE on
  <2>1. b \in start..Len(u) + 1 /\ (b <= Len(u) => IsSpace(u[b])) /\ start = Len(t) + 1
    BY <1>1, <1>2, AfterSecretIs DEF Cuts
  <2> QED
    BY <1>1, <1>2, <2>1 DEF Clean
<1>3. CASE ~on
  BY <1>1, <1>3, CutsStay DEF Cuts
<1> QED
  BY <1>2, <1>3

\* The last token begins at a cut, too.
LEMMA TokenIsCut ==
  ASSUME NEW t \in Seq(Chars), NEW b \in 1..Len(t), Clean(t, b) \/ Forced(t, b)
  PROVE  Clean(t, TokenStart(t, b)) \/ Forced(t, TokenStart(t, b))
BY TokenStartIs DEF Clean

\* What the last token does not hide by itself, the text does not hide.
LEMMA TokenHides ==
  ASSUME NEW t \in Seq(Chars), NamesFit(t), NEW b \in 1..Len(t), Clean(t, b) \/ Forced(t, b),
         NEW k \in b..Len(t), Hidden(t, k)
  PROVE  Hidden(SubSeq(t, b, Len(t)), k + 1 - b)
<1> DEFINE v == SubSeq(t, b, Len(t))
<1>1. Len(v) = Len(t) + 1 - b /\ \A j \in 1..Len(v) : v[j] = t[b + j - 1]
  OBVIOUS
<1> HIDE DEF v
<1>2. From(t, b, v) /\ k <= b + Len(v) - 1
  BY <1>1 DEF From
<1>3. Hidden(v, k + 1 - b)
  BY <1>2, HiddenAfterCut
<1> QED
  BY <1>3 DEF v

\* When the last token hides nothing, the values that began in this chunk have ended.
LEMMA ValuesEndOn ==
  ASSUME NEW t \in Seq(Chars), NEW u \in Seq(Chars), Extends(t, u),
         Len(u) <= Len(t) + Chunk, NamesFit(u),
         NEW start, NEW on \in BOOLEAN, Cuts(t, start, on),
         NEW b \in 1..Len(u), start <= b, on => b > Len(t), Clean(u, b) \/ Forced(u, b),
         \A k \in TokenStart(u, b)..Len(u) :
           ~Hidden(SubSeq(u, TokenStart(u, b), Len(u)), k + 1 - TokenStart(u, b))
  PROVE  ValuesEnd(u, b)
<1> DEFINE token == TokenStart(u, b)
<1>1. /\ token \in b..Len(u) + 1 /\ \A k \in token..Len(u) : ~IsSpace(u[k])
      /\ (token # b => token > 1 /\ IsSpace(u[token - 1]))
      /\ (Clean(u, token) \/ Forced(u, token))
  BY TokenStartIs, TokenIsCut
<1> HIDE DEF token
<1> SUFFICES ASSUME NEW q \in b..Len(u) - 1, SecretAt(u, q)
             PROVE  \E sp \in q + 2..Len(u) : sp <= q + Chunk /\ IsSpace(u[sp])
  BY DEF ValuesEnd
<1>0. Chunk \in Nat /\ Len(t) \in Nat /\ Len(u) \in Nat /\ start \in Nat /\ start >= 1
  BY SizesAreNumbers DEF Cuts
<1>2. CASE q < Len(t)
  <2>1. ~on /\ ValuesEnd(t, start) /\ q \in start..Len(t) - 1
    BY <1>0, <1>2 DEF Cuts
  <2>2. SecretAt(t, q)
    <3>1. /\ q + 1 \in Nat /\ q + 1 <= Len(t) /\ q + 1 <= Len(u)
          /\ \A j \in 1..q + 1 : t[j] = u[j]
          /\ q \in 1..(q + 1) - 1
      BY <1>0, <1>2 DEF Extends
    <3> QED
      BY <3>1, SecretsOfPrefix
  <2>3. PICK sp \in q + 2..Len(t) : sp <= q + Chunk /\ IsSpace(t[sp])
    BY <2>1, <2>2 DEF ValuesEnd
  <2>4. sp \in q + 2..Len(u) /\ sp \in 1..Len(t)
    BY <1>0 DEF Extends
  <2> QED
    BY <2>3, <2>4 DEF Extends
<1>3. CASE q >= Len(t)
  <2> SUFFICES ASSUME \A sp \in q + 2..Len(u) : ~IsSpace(u[sp]) PROVE FALSE
    BY <1>0, <1>3
  <2>1. u[q] = "=" /\ ~IsSpace(u[q + 1])
    BY DEF SecretAt, Assigns
  <2>2. ~IsSpace(u[q])
    BY <2>1 DEF IsSpace
  <2>3. \A l \in q..Len(u) : ~IsSpace(u[l])
    <3>1. \A l \in q..Len(u) : l = q \/ l = q + 1 \/ l \in q + 2..Len(u)
      OBVIOUS
    <3> QED
      BY <2>1, <2>2, <3>1
  <2>4. Hidden(u, Len(u))
    <3>1. InToken(u, q, Len(u)) /\ q \in 1..Len(u) - 1
      BY <2>3 DEF InToken
    <3> QED
      BY <3>1, <1>0, HiddenBySecret
  <2>5. token <= q
    <3>1. CASE token = b
      BY <3>1
    <3>2. CASE token # b
      <4>1. ~ (token - 1 \in q..Len(u))
        BY <1>1, <2>3, <3>2
      <4> QED
        BY <1>1, <4>1
    <3> QED
      BY <3>1, <3>2
  <2>6. token \in 1..Len(u) /\ Len(u) \in token..Len(u)
    BY <1>1, <2>5
  <2>7. Hidden(SubSeq(u, token, Len(u)), Len(u) + 1 - token)
    BY <1>1, <2>4, <2>6, TokenHides
  <2> QED
    BY <2>6, <2>7 DEF token
<1> QED
  BY <1>0, <1>2, <1>3

\* Where a flush cuts is a cut again.
LEMMA KeptIsCut ==
  ASSUME NEW t \in Seq(Chars), NamesFit(t), NEW b \in 1..Len(t), Clean(t, b) \/ Forced(t, b),
         ValuesEnd(t, b)
  PROVE  Cuts(t, Kept(t, b), FALSE) /\ b <= Kept(t, b)
<1> DEFINE c == Kept(t, b)
<1>0. /\ Reserve \in Nat \ {0} /\ Threshold \in Nat /\ Chunk \in Nat /\ Len(t) \in Nat
      /\ Reserve < Threshold /\ Chunk > 1
  BY SizesAreNumbers
<1>1. c \in b..Len(t) + 1
  BY <1>0, KeptIs
<1>2. ValuesEnd(t, c)
  BY <1>1 DEF ValuesEnd
<1>3. ASSUME c > 1, IsSpace(t[c - 1]) PROVE Clean(t, c)
  BY <1>3 DEF Clean
<1>4. Clean(t, c) \/ Forced(t, c)
  <2>1. CASE c \in b + 1..Len(t) + 1 /\ t[c - 1] = "n"
    BY <1>3, <2>1 DEF IsSpace
  <2>2. CASE c = b
    BY <2>2
  <2>3. CASE c \in b + 1..Len(t) + 1 - Reserve /\ IsSpace(t[c - 1])
    BY <1>3, <2>3
  <2>4. CASE Len(t) + 1 - b >= Threshold /\ c = Len(t) + 1 - Reserve /\ \A k \in b..Len(t) - Reserve : ~IsSpace(t[k])
    <3> HIDE DEF c
    <3>1. c - 1 \in b..Len(t) /\ c \in 1..Len(t) /\ Len(t) - Reserve = c - 1
      BY <1>0, <2>4
    <3>2. InToken(t, b, c - 1)
      BY <2>4, <3>1 DEF InToken
    <3>3. CASE ~Hidden(t, c - 1)
      <4>1. b \in 1..c - 1 /\ c - b >= Threshold - Reserve
        BY <1>0, <2>4, <3>1
      <4> QED
        BY <3>2, <3>3, <4>1 DEF Forced
    <3>4. CASE Hidden(t, c - 1)
      <4>1. PICK q \in 1..(c - 1) - 1 : SecretAt(t, q) /\ InToken(t, q, c - 1)
        BY <3>1, <3>4, HiddenBySecret
      <4>2. PICK m \in 1..q - 1 : t[m] = "s" /\ \A l \in m..q - 1 : IsLetter(t[l])
        BY <4>1 DEF SecretAt, IsSecretName
      <4>3. b <= m
        <5>1. q \in Nat /\ q < c - 1 /\ c - 1 \in b..Len(t)
          BY <3>1
        <5> QED
          BY <4>1, <4>2, <5>1, CutsMissSecrets
      <4>4. q \in b..Len(t) - 1
        BY <3>1, <4>3
      <4>5. PICK sp \in q + 2..Len(t) : sp <= q + Chunk /\ IsSpace(t[sp])
        BY <4>1, <4>4 DEF ValuesEnd
      <4>6. sp >= c
        <5>1. ~ (sp \in q..c - 1)
          BY <4>1, <4>5 DEF InToken
        <5> QED
          BY <3>1, <5>1
      <4>7. q + 1 - b <= Threshold - Reserve + 1 - Chunk
        <5>1. InToken(t, b, q)
          BY <3>1, <3>2 DEF InToken
        <5>2. t[q] = "=" /\ q \in DOMAIN t /\ b \in 1..q
          BY <4>1, <4>4 DEF SecretAt, Assigns
        <5> QED
          BY <5>1, <5>2 DEF NamesFit, Room
      <4>8. sp = c
        <5>1. sp \in Nat /\ q \in Nat /\ c \in Nat /\ b \in Nat /\ sp <= q + Chunk
          BY <1>0, <3>1, <4>4, <4>5
        <5>2. Len(t) + 1 - b >= Threshold /\ c = Len(t) + 1 - Reserve
          BY <2>4
        <5>3. q + Chunk <= b + Threshold - Reserve
          BY <1>0, <4>7, <5>1
        <5>4. b + Threshold - Reserve <= c
          BY <1>0, <5>1, <5>2
        <5> QED
          BY <1>0, <4>6, <5>1, <5>3, <5>4
      <4> QED
        BY <3>1, <4>5, <4>8 DEF Clean
    <3> QED
      BY <3>3, <3>4
  <2> QED
    BY <1>0, <2>1, <2>2, <2>3, <2>4, KeptIs
<1> QED
  BY <1>1, <1>2, <1>4 DEF Cuts

------------------------------------------------------------------------------
\* What a flush does

\* What the last token hides, by itself.
TokenHidesAt(t, b, k) ==
  Hidden(SubSeq(t, TokenStart(t, b), Len(t)), k + 1 - TokenStart(t, b))

\* Nothing is left of a secret that goes on, or the last token is redacted, or what
\* Kept leaves is stored.
LEMMA FlushIs ==
  ASSUME NEW t \in Seq(Chars), NEW start, NEW on \in BOOLEAN,
         NEW b \in 1..Len(t) + 1, b = IF on THEN AfterSecret(t, start) ELSE start
  PROVE  \/ b > Len(t) /\ Flushed(t, start, on) = Flush(b, on, <<>>)
         \/ /\ b <= Len(t)
            /\ \E l \in TokenStart(t, b)..Len(t) :
                 /\ TokenHidesAt(t, b, l) /\ \A k \in TokenStart(t, b)..l - 1 : ~TokenHidesAt(t, b, k)
                 /\ Flushed(t, start, on) =
                      Flush(Len(t) + 1, TRUE,
                            <<Span(b, TokenStart(t, b) - 1),
                              Append(Span(TokenStart(t, b), l - 1), Mark)>>)
         \/ /\ b <= Len(t) /\ \A k \in TokenStart(t, b)..Len(t) : ~TokenHidesAt(t, b, k)
            /\ Flushed(t, start, on) = Flush(Kept(t, b), FALSE, <<Span(b, Kept(t, b) - 1)>>)
<1> DEFINE bb == IF on THEN AfterSecret(t, start) ELSE start
           token(c) == TokenStart(t, c)
           secret(c) == {k \in token(c)..Len(t) : TokenHidesAt(t, c, k)}
           Is(c) ==
             /\ c > Len(t) => Flushed(t, start, on) = Flush(c, on, <<>>)
             /\ ~(c > Len(t)) /\ secret(c) # {} =>
                  Flushed(t, start, on) =
                    Flush(Len(t) + 1, TRUE,
                          <<Span(c, token(c) - 1), Append(Span(token(c), Least(secret(c)) - 1), Mark)>>)
             /\ ~(c > Len(t)) /\ ~(secret(c) # {}) =>
                  Flushed(t, start, on) = Flush(Kept(t, c), FALSE, <<Span(c, Kept(t, c) - 1)>>)
<1>0. Is(b)
  <2>1. Is(bb)
    BY DEF Flushed, TokenHidesAt
  <2> HIDE DEF Is, bb
  <2>2. b = bb
    BY DEF bb
  <2> QED
    BY <2>1, <2>2
<1>4. b > Len(t) <=> ~(b <= Len(t))
  OBVIOUS
<1>1. CASE b > Len(t)
  BY <1>0, <1>1
<1>2. CASE b <= Len(t) /\ secret(b) # {}
  <2>1. token(b) \in Nat /\ token(b) >= 1
    BY <1>2, TokenStartIs
  <2>2. Least(secret(b)) \in secret(b) /\ \A k \in secret(b) : Least(secret(b)) <= k
    <3> HIDE DEF token
    <3>1. secret(b) \subseteq Nat
      BY <2>1
    <3> HIDE DEF secret
    <3> QED
      BY <1>2, <3>1, LeastNumber
  <2> DEFINE l == Least(secret(b))
  <2>3. Flushed(t, start, on) =
          Flush(Len(t) + 1, TRUE, <<Span(b, token(b) - 1), Append(Span(token(b), l - 1), Mark)>>)
    <3> HIDE DEF secret, token, l
    <3>1. Flushed(t, start, on) =
            Flush(Len(t) + 1, TRUE,
                  <<Span(b, token(b) - 1), Append(Span(token(b), Least(secret(b)) - 1), Mark)>>)
      BY <1>0, <1>2, <1>4, Zenon
    <3> QED
      BY <3>1 DEF l
  <2> HIDE DEF l, token
  <2>4. /\ l \in token(b)..Len(t) /\ TokenHidesAt(t, b, l)
        /\ \A k \in token(b)..Len(t) : TokenHidesAt(t, b, k) => l <= k
    BY <2>2 DEF l
  <2>5. \A k \in token(b)..l - 1 : ~TokenHidesAt(t, b, k)
    BY <2>1, <2>4
  <2> QED
    BY <1>2, <2>3, <2>4, <2>5 DEF token
<1>3. CASE b <= Len(t) /\ secret(b) = {}
  <2>1. Flushed(t, start, on) = Flush(Kept(t, b), FALSE, <<Span(b, Kept(t, b) - 1)>>)
    <3> HIDE DEF secret, token
    <3> QED
      BY <1>0, <1>3, <1>4, Zenon
  <2> QED
    BY <1>3, <2>1
<1>5. b > Len(t) \/ (b <= Len(t) /\ secret(b) # {}) \/ (b <= Len(t) /\ secret(b) = {})
  <2> HIDE DEF secret
  <2> QED
    BY <1>4
<1> HIDE DEF secret
<1> QED
  BY <1>1, <1>2, <1>3, <1>5, Zenon

\* A flush keeps types, and redacts only what it has taken.
LEMMA FlushTypes ==
  ASSUME NEW t \in Seq(Chars), NEW start, NEW on \in BOOLEAN,
         NEW b \in 1..Len(t) + 1, b = IF on THEN AfterSecret(t, start) ELSE start
  PROVE  LET f == Flushed(t, start, on) IN
         /\ f.from \in 1..Len(t) + 1 /\ f.redacting \in BOOLEAN /\ f.pieces \in Seq(Seq(Nat))
         /\ f.redacting => f.from = Len(t) + 1 \/ (on /\ b > Len(t))
         /\ \A i \in 1..Len(f.pieces) : IsText(t, f.pieces[i])
<1> DEFINE f == Flushed(t, start, on)
<1> HIDE DEF f
<1>0. Len(t) \in Nat /\ Reserve \in Nat \ {0} /\ Threshold \in Nat /\ Reserve < Threshold
  BY SizesAreNumbers
<1>1. ASSUME b > Len(t), f = Flush(b, on, <<>>)
      PROVE  /\ f.from \in 1..Len(t) + 1 /\ f.redacting \in BOOLEAN /\ f.pieces \in Seq(Seq(Nat))
             /\ f.redacting => on
             /\ \A i \in 1..Len(f.pieces) : IsText(t, f.pieces[i])
  <2>1. f.from = b /\ f.redacting = on /\ f.pieces = <<>>
    BY <1>1 DEF Flush
  <2> QED
    BY <2>1
<1>2. ASSUME b <= Len(t),
             NEW l \in TokenStart(t, b)..Len(t),
             f = Flush(Len(t) + 1, TRUE,
                       <<Span(b, TokenStart(t, b) - 1), Append(Span(TokenStart(t, b), l - 1), Mark)>>)
      PROVE  /\ f.from \in 1..Len(t) + 1 /\ f.redacting \in BOOLEAN /\ f.pieces \in Seq(Seq(Nat))
             /\ f.redacting => f.from = Len(t) + 1
             /\ \A i \in 1..Len(f.pieces) : IsText(t, f.pieces[i])
  <2> DEFINE token == TokenStart(t, b)
             w == Span(b, token - 1)
             x == Span(token, l - 1)
  <2>1. token \in b..Len(t) + 1 /\ token \in Nat /\ token >= 1
    BY <1>2, TokenStartIs
  <2>2. token \in Nat \ {0} /\ l \in token..Len(t) /\ token - 1 \in Nat /\ l - 1 \in Nat /\ token <= (l - 1) + 1
        /\ b <= (token - 1) + 1 /\ token - 1 <= Len(t) /\ l - 1 <= Len(t) /\ b \in Nat \ {0}
    BY <1>0, <1>2, <2>1
  <2> HIDE DEF token
  <2>3. IsText(t, w) /\ IsText(t, x)
    BY <2>2, SpelledSpan
  <2> HIDE DEF w, x
  <2>4. IsText(t, Append(x, Mark))
    <3>1. x \in Seq(Nat) /\ Mark \in Nat /\ Mark <= Len(t) /\ \A k \in 1..Len(x) : x[k] <= Len(t)
      BY <2>3 DEF IsText, Mark
    <3>2. Append(x, Mark) \in Seq(Nat) /\ Len(Append(x, Mark)) = Len(x) + 1 /\ Len(x) \in Nat
          /\ Append(x, Mark)[Len(x) + 1] = Mark /\ \A k \in 1..Len(x) : Append(x, Mark)[k] = x[k]
      BY <3>1
    <3>3. \A k \in 1..Len(x) + 1 : k \in 1..Len(x) \/ k = Len(x) + 1
      BY <3>2
    <3> QED
      BY <3>1, <3>2, <3>3 DEF IsText
  <2>5. w \in Seq(Nat) /\ Append(x, Mark) \in Seq(Nat)
    BY <2>3, <2>4 DEF IsText
  <2>6. f.from = Len(t) + 1 /\ f.redacting = TRUE /\ f.pieces = <<w, Append(x, Mark)>>
    BY <1>2 DEF Flush, w, x, token
  <2>7. Len(f.pieces) = 2 /\ f.pieces[1] = w /\ f.pieces[2] = Append(x, Mark) /\ f.pieces \in Seq(Seq(Nat))
    BY <2>5, <2>6
  <2>8. \A i \in 1..2 : i = 1 \/ i = 2
    OBVIOUS
  <2>9. \A i \in 1..Len(f.pieces) : IsText(t, f.pieces[i])
    BY <2>3, <2>4, <2>7, <2>8
  <2>10. f.from \in 1..Len(t) + 1
    BY <1>0, <2>6
  <2> QED
    BY <2>6, <2>7, <2>9, <2>10
<1>3. ASSUME b <= Len(t), f = Flush(Kept(t, b), FALSE, <<Span(b, Kept(t, b) - 1)>>)
      PROVE  /\ f.from \in 1..Len(t) + 1 /\ f.redacting = FALSE /\ f.pieces \in Seq(Seq(Nat))
             /\ \A i \in 1..Len(f.pieces) : IsText(t, f.pieces[i])
  <2> DEFINE c == Kept(t, b)
             w == Span(b, c - 1)
  <2>0. b \in 1..Len(t)
    BY <1>0, <1>3
  <2>1. c \in b..Len(t) + 1
    BY <1>0, <2>0, KeptIs
  <2> HIDE DEF c
  <2>2. b \in Nat \ {0} /\ c - 1 \in Nat /\ b <= (c - 1) + 1 /\ c - 1 <= Len(t) /\ c \in 1..Len(t) + 1
    BY <1>0, <1>3, <2>1
  <2>3. IsText(t, w)
    BY <2>2, SpelledSpan
  <2>4. f.from = c /\ f.redacting = FALSE /\ f.pieces = <<w>>
    BY <1>3 DEF Flush, c, w
  <2> HIDE DEF w
  <2>5. Len(f.pieces) = 1 /\ f.pieces[1] = w /\ f.pieces \in Seq(Seq(Nat))
    BY <2>3, <2>4 DEF IsText
  <2> QED
    BY <2>2, <2>3, <2>4, <2>5
<1>4. \/ b > Len(t) /\ f = Flush(b, on, <<>>)
      \/ /\ b <= Len(t)
         /\ \E l \in TokenStart(t, b)..Len(t) :
              f = Flush(Len(t) + 1, TRUE,
                        <<Span(b, TokenStart(t, b) - 1), Append(Span(TokenStart(t, b), l - 1), Mark)>>)
      \/ b <= Len(t) /\ f = Flush(Kept(t, b), FALSE, <<Span(b, Kept(t, b) - 1)>>)
  <2>1. \/ b > Len(t) /\ f = Flush(b, on, <<>>)
        \/ /\ b <= Len(t)
           /\ \E l \in TokenStart(t, b)..Len(t) :
                /\ TokenHidesAt(t, b, l) /\ \A k \in TokenStart(t, b)..l - 1 : ~TokenHidesAt(t, b, k)
                /\ f = Flush(Len(t) + 1, TRUE,
                             <<Span(b, TokenStart(t, b) - 1),
                               Append(Span(TokenStart(t, b), l - 1), Mark)>>)
        \/ /\ b <= Len(t) /\ \A k \in TokenStart(t, b)..Len(t) : ~TokenHidesAt(t, b, k)
           /\ f = Flush(Kept(t, b), FALSE, <<Span(b, Kept(t, b) - 1)>>)
    BY FlushIs DEF f
  <2> QED
    BY <2>1, Zenon
<1>5. /\ f.from \in 1..Len(t) + 1 /\ f.redacting \in BOOLEAN /\ f.pieces \in Seq(Seq(Nat))
      /\ f.redacting => f.from = Len(t) + 1 \/ (on /\ b > Len(t))
      /\ \A i \in 1..Len(f.pieces) : IsText(t, f.pieces[i])
  BY <1>1, <1>2, <1>3, <1>4
<1> QED
  BY <1>5 DEF f

\* A flush cuts between tokens, or where no secret is, and hides what is secret.
LEMMA FlushHides ==
  ASSUME NEW t \in Seq(Chars), NEW u \in Seq(Chars), Extends(t, u), Len(t) < Len(u),
         Len(u) <= Len(t) + Chunk, NamesFit(u),
         NEW start, NEW on \in BOOLEAN, Cuts(t, start, on)
  PROVE  /\ Cuts(u, Flushed(u, start, on).from, Flushed(u, start, on).redacting)
         /\ \A i \in 1..Len(Flushed(u, start, on).pieces) : PieceHides(u, Flushed(u, start, on).pieces[i])
<1> DEFINE f == Flushed(u, start, on)
           b == IF on THEN AfterSecret(u, start) ELSE start
<1>0. Len(u) \in Nat /\ Len(t) \in Nat
  OBVIOUS
<1>1. /\ b \in start..Len(u) + 1 /\ b \in 1..Len(u) + 1
      /\ b <= Len(u) => Clean(u, b) \/ Forced(u, b)
      /\ on => b > Len(t)
      /\ ~on => b <= Len(u)
  BY FlushStart
<1>2. \/ b > Len(u) /\ f = Flush(b, on, <<>>)
      \/ /\ b <= Len(u)
         /\ \E l \in TokenStart(u, b)..Len(u) :
              /\ \A k \in TokenStart(u, b)..l - 1 : ~TokenHidesAt(u, b, k)
              /\ f = Flush(Len(u) + 1, TRUE,
                           <<Span(b, TokenStart(u, b) - 1), Append(Span(TokenStart(u, b), l - 1), Mark)>>)
      \/ /\ b <= Len(u) /\ \A k \in TokenStart(u, b)..Len(u) : ~TokenHidesAt(u, b, k)
         /\ f = Flush(Kept(u, b), FALSE, <<Span(b, Kept(u, b) - 1)>>)
  BY <1>1, FlushIs, ZenonT(60)
<1>6. start <= b /\ start \in Nat
  BY <1>1 DEF Cuts
<1> HIDE DEF f, b
<1>3. CASE b > Len(u) /\ f = Flush(b, on, <<>>)
  <2>1. f.from = b /\ f.redacting = on /\ f.pieces = <<>> /\ b = Len(u) + 1 /\ on
    BY <1>0, <1>1, <1>3 DEF Flush
  <2>2. Cuts(u, f.from, f.redacting) /\ \A i \in 1..Len(f.pieces) : PieceHides(u, f.pieces[i])
    BY <1>0, <2>1 DEF Cuts
  <2> QED
    BY <2>2 DEF f
<1>4. ASSUME b <= Len(u), NEW l \in TokenStart(u, b)..Len(u),
             \A k \in TokenStart(u, b)..l - 1 : ~TokenHidesAt(u, b, k),
             f = Flush(Len(u) + 1, TRUE,
                       <<Span(b, TokenStart(u, b) - 1), Append(Span(TokenStart(u, b), l - 1), Mark)>>)
      PROVE  Cuts(u, f.from, f.redacting) /\ \A i \in 1..Len(f.pieces) : PieceHides(u, f.pieces[i])
  <2> DEFINE token == TokenStart(u, b)
             w == Span(b, token - 1)
             x == Append(Span(token, l - 1), Mark)
  <2>0. b \in 1..Len(u) /\ (Clean(u, b) \/ Forced(u, b))
    BY <1>1, <1>4
  <2>1. token \in b..Len(u) + 1 /\ (Clean(u, token) \/ Forced(u, token))
    BY <2>0, TokenStartIs, TokenIsCut
  <2>2. f.from = Len(u) + 1 /\ f.redacting = TRUE /\ f.pieces = <<w, x>>
    BY <1>4 DEF Flush
  <2>7. \A k \in token..l - 1 : ~Hidden(SubSeq(u, token, Len(u)), k + 1 - token)
    BY <1>4 DEF TokenHidesAt
  <2> HIDE DEF token
  <2>3. token \in 1..Len(u) /\ l \in token..Len(u) /\ b \in Nat \ {0} /\ token - 1 \in Nat
        /\ b <= (token - 1) + 1 /\ token - 1 <= Len(u)
    <3>1. l \in token..Len(u)
      BY <1>4 DEF token
    <3> QED
      BY <1>0, <2>0, <2>1, <3>1
  <2>4. PieceHides(u, w)
    BY <2>0, <2>3, SpanHides
  <2>5. PieceHides(u, x)
    <3>1. ASSUME NEW k \in token..l - 1 PROVE ~Hidden(u, k)
      <4>1. k \in token..Len(u)
        BY <2>3
      <4> QED
        BY <2>1, <2>3, <2>7, <4>1, TokenHides
    <3> QED
      BY <2>3, <3>1, MarkedHides
  <2> HIDE DEF w, x
  <2>6. \A i \in 1..Len(f.pieces) : PieceHides(u, f.pieces[i])
    <3>1. Len(f.pieces) = 2 /\ f.pieces[1] = w /\ f.pieces[2] = x
      BY <2>2
    <3> QED
      BY <2>4, <2>5, <3>1
  <2> QED
    BY <1>0, <2>2, <2>6 DEF Cuts
<1>5. ASSUME b <= Len(u), \A k \in TokenStart(u, b)..Len(u) : ~TokenHidesAt(u, b, k),
             f = Flush(Kept(u, b), FALSE, <<Span(b, Kept(u, b) - 1)>>)
      PROVE  Cuts(u, f.from, f.redacting) /\ \A i \in 1..Len(f.pieces) : PieceHides(u, f.pieces[i])
  <2> DEFINE c == Kept(u, b)
             w == Span(b, c - 1)
  <2>0. b \in 1..Len(u) /\ (Clean(u, b) \/ Forced(u, b))
    BY <1>1, <1>5
  <2>1. ValuesEnd(u, b)
    <3>1. \A k \in TokenStart(u, b)..Len(u) :
            ~Hidden(SubSeq(u, TokenStart(u, b), Len(u)), k + 1 - TokenStart(u, b))
      BY <1>5 DEF TokenHidesAt
    <3> QED
      BY <1>1, <1>6, <2>0, <3>1, ValuesEndOn
  <2>2. Cuts(u, c, FALSE) /\ b <= c
    BY <2>0, <2>1, KeptIsCut
  <2>3. f.from = c /\ f.redacting = FALSE /\ f.pieces = <<w>>
    BY <1>5 DEF Flush
  <2> HIDE DEF c
  <2>4. b \in Nat \ {0} /\ c - 1 \in Nat /\ b <= (c - 1) + 1 /\ c - 1 <= Len(u)
    <3>1. c \in 1..Len(u) + 1
      BY <2>2 DEF Cuts
    <3> QED
      BY <1>0, <2>0, <2>2, <3>1
  <2>5. PieceHides(u, w)
    BY <2>0, <2>4, SpanHides
  <2> HIDE DEF w
  <2>6. Len(f.pieces) = 1 /\ f.pieces[1] = w
    BY <2>3
  <2>7. Cuts(u, f.from, f.redacting)
    BY <2>2, <2>3, Zenon
  <2>8. \A i \in 1..Len(f.pieces) : PieceHides(u, f.pieces[i])
    BY <2>5, <2>6
  <2> QED
    BY <2>7, <2>8
<1>7. Cuts(u, f.from, f.redacting) /\ \A i \in 1..Len(f.pieces) : PieceHides(u, f.pieces[i])
  BY <1>2, <1>3, <1>4, <1>5 DEF f
<1> QED
  BY <1>7 DEF f

------------------------------------------------------------------------------
\* What is held back

\* Pending text has no line break, and when it is long no space before the reserve.
Bound(t, b, on) ==
  ~on => /\ \A k \in b..Len(t) : t[k] # "n"
         /\ Len(t) + 1 - b <= Threshold + Chunk - 2
         /\ Len(t) + 1 - b >= Threshold => \A k \in b..Len(t) - Reserve : ~IsSpace(t[k])

\* A flush bounds what it leaves.
LEMMA FlushBounds ==
  ASSUME NEW t \in Seq(Chars), NEW u \in Seq(Chars), Extends(t, u), Len(t) < Len(u),
         Len(u) <= Len(t) + Chunk, NEW on \in BOOLEAN,
         NEW start \in 1..Len(t) + 1, on => start = Len(t) + 1, Bound(t, start, on)
  PROVE  Bound(u, Flushed(u, start, on).from, Flushed(u, start, on).redacting)
<1> DEFINE f == Flushed(u, start, on)
           b == IF on THEN AfterSecret(u, start) ELSE start
<1>0. /\ Len(u) \in Nat /\ Len(t) \in Nat /\ Reserve \in Nat /\ Threshold \in Nat /\ Chunk \in Nat
      /\ 1 <= Chunk /\ Chunk <= Reserve /\ Reserve < Threshold
  BY SizesAreNumbers
<1>1. b \in start..Len(u) + 1 /\ (on => b > Len(t)) /\ (~on => b = start /\ b <= Len(u))
  <2>1. start \in 1..Len(u) + 1
    BY <1>0
  <2>2. CASE on
    <3>1. AfterSecret(u, start) \in start..Len(u) + 1
      BY <2>1, AfterSecretIs
    <3> QED
      BY <1>0, <2>2, <3>1
  <2>3. CASE ~on
    BY <1>0, <2>3
  <2> QED
    BY <2>2, <2>3
<1>2. b \in 1..Len(u) + 1
  BY <1>0, <1>1
<1>3. \/ b > Len(u) /\ f = Flush(b, on, <<>>)
      \/ f.redacting = TRUE
      \/ b <= Len(u) /\ f.from = Kept(u, b) /\ f.redacting = FALSE
  BY <1>2, FlushIs DEF Flush
<1> HIDE DEF f, b
<1>4. CASE b > Len(u) /\ f = Flush(b, on, <<>>)
  <2>1. on /\ f.redacting = on
    BY <1>0, <1>1, <1>4 DEF Flush
  <2> QED
    BY <2>1 DEF Bound, f
<1>5. CASE f.redacting = TRUE
  BY <1>5 DEF Bound, f
<1>6. CASE b <= Len(u) /\ f.from = Kept(u, b) /\ f.redacting = FALSE
  <2> DEFINE c == Kept(u, b)
  <2>0. b \in 1..Len(u)
    BY <1>0, <1>2, <1>6
  <2>1. \/ /\ c \in b + 1..Len(u) + 1 /\ u[c - 1] = "n"
           /\ \A k \in c..Len(u) : u[k] # "n"
        \/ /\ \A k \in b..Len(u) : u[k] # "n"
           /\ \/ c = b /\ Len(u) + 1 - b < Threshold
              \/ /\ Len(u) + 1 - b >= Threshold
                 /\ c \in b + 1..Len(u) + 1 - Reserve /\ IsSpace(u[c - 1])
                 /\ \A k \in c..Len(u) - Reserve : ~IsSpace(u[k])
              \/ /\ Len(u) + 1 - b >= Threshold /\ c = Len(u) + 1 - Reserve
                 /\ \A k \in b..Len(u) - Reserve : ~IsSpace(u[k])
    BY <2>0, KeptIs
  <2> HIDE DEF c
  <2>2. CASE /\ c \in b + 1..Len(u) + 1 /\ u[c - 1] = "n"
             /\ \A k \in c..Len(u) : u[k] # "n"
    <3>1. c - 1 > Len(t)
      <4>1. CASE on
        BY <1>0, <1>1, <2>0, <2>2, <4>1
      <4>2. CASE ~on /\ c - 1 <= Len(t)
        <5>1. c - 1 \in start..Len(t) /\ c - 1 \in 1..Len(t)
          BY <1>0, <1>1, <2>0, <2>2, <4>2
        <5>2. t[c - 1] # "n"
          BY <4>2, <5>1 DEF Bound
        <5> QED
          BY <2>2, <5>1, <5>2 DEF Extends
      <4> QED
        BY <1>0, <2>0, <2>2, <4>1, <4>2
    <3>2. Len(u) + 1 - c < Chunk
      BY <1>0, <2>0, <2>2, <3>1
    <3>3. Len(u) + 1 - c <= Threshold + Chunk - 2 /\ ~ (Len(u) + 1 - c >= Threshold)
      BY <1>0, <2>0, <2>2, <3>2
    <3>4. Bound(u, c, FALSE)
      BY <2>2, <3>3 DEF Bound
    <3> QED
      BY <1>6, <3>4 DEF Bound, f, c
  <2>3. CASE /\ \A k \in b..Len(u) : u[k] # "n"
             /\ c = b /\ Len(u) + 1 - b < Threshold
    <3>1. Len(u) + 1 - c <= Threshold + Chunk - 2 /\ ~ (Len(u) + 1 - c >= Threshold)
      BY <1>0, <2>0, <2>3
    <3>2. Bound(u, c, FALSE)
      BY <2>3, <3>1 DEF Bound
    <3> QED
      BY <1>6, <3>2 DEF Bound, f, c
  <2>4. CASE /\ \A k \in b..Len(u) : u[k] # "n"
             /\ Len(u) + 1 - b >= Threshold
             /\ c \in b + 1..Len(u) + 1 - Reserve /\ IsSpace(u[c - 1])
             /\ \A k \in c..Len(u) - Reserve : ~IsSpace(u[k])
    <3>1. ~on /\ b = start
      BY <1>0, <1>1, <2>0, <2>4
    <3>2. Len(u) + 1 - c <= Threshold + Chunk - 2
      <4>1. CASE Len(t) + 1 - start < Threshold
        BY <1>0, <2>0, <2>4, <3>1, <4>1
      <4>2. CASE ~ (Len(t) + 1 - start < Threshold)
        <5>1. \A k \in b..Len(t) - Reserve : ~IsSpace(t[k])
          BY <1>0, <3>1, <4>2 DEF Bound
        <5>2. ~ (c - 1 \in b..Len(t) - Reserve)
          <6> SUFFICES ASSUME c - 1 \in b..Len(t) - Reserve PROVE FALSE
            OBVIOUS
          <6>1. c - 1 \in 1..Len(t)
            BY <1>0, <2>0
          <6> QED
            BY <2>4, <5>1, <6>1 DEF Extends
        <5> QED
          BY <1>0, <2>0, <2>4, <5>2
      <4> QED
        BY <4>1, <4>2
    <3>3. \A k \in c..Len(u) : u[k] # "n"
      BY <1>0, <2>0, <2>4
    <3>4. Bound(u, c, FALSE)
      BY <2>4, <3>2, <3>3 DEF Bound
    <3> QED
      BY <1>6, <3>4 DEF Bound, f, c
  <2>5. CASE /\ \A k \in b..Len(u) : u[k] # "n"
             /\ Len(u) + 1 - b >= Threshold /\ c = Len(u) + 1 - Reserve
             /\ \A k \in b..Len(u) - Reserve : ~IsSpace(u[k])
    <3>1. Len(u) + 1 - c = Reserve
      BY <1>0, <2>5
    <3>2. Len(u) + 1 - c <= Threshold + Chunk - 2 /\ ~ (Len(u) + 1 - c >= Threshold)
      BY <1>0, <3>1
    <3>3. \A k \in c..Len(u) : u[k] # "n"
      BY <1>0, <2>0, <2>5
    <3>4. Bound(u, c, FALSE)
      BY <3>2, <3>3 DEF Bound
    <3> QED
      BY <1>6, <3>4 DEF Bound, f, c
  <2> QED
    BY <2>1, <2>2, <2>3, <2>4, <2>5
<1> QED
  BY <1>3, <1>4, <1>5, <1>6

------------------------------------------------------------------------------
\* The invariant of a stream

StoredChunk == [stream : Streams, text : Seq(Nat) \ {<<>>}]

CaptureTypes ==
  /\ read \in [Streams -> Seq(Chars)] /\ from \in [Streams -> Nat]
  /\ redacting \in [Streams -> BOOLEAN] /\ pieces \in [Streams -> Seq(Seq(Nat))]
  /\ ends \in [Streams -> {"open", "last", "closed", "broken"}] /\ job \in Jobs
  /\ stored \in Seq(StoredChunk)
  /\ \A s \in Streams :
       /\ from[s] \in 1..Len(read[s]) + 1
       /\ redacting[s] => from[s] = Len(read[s]) + 1
       /\ \A i \in 1..Len(pieces[s]) : IsText(read[s], pieces[s][i])
  /\ \A i \in 1..Len(stored) : IsText(read[stored[i].stream], stored[i].text)

\* What is about to be stored, what is stored and where the rest begins hide secrets.
HideInv(s) ==
  NamesFit(read[s]) =>
    /\ \A i \in 1..Len(pieces[s]) : PieceHides(read[s], pieces[s][i])
    /\ ends[s] # "closed" => Cuts(read[s], from[s], redacting[s])
    /\ \A i \in 1..Len(stored) : stored[i].stream = s => Hides(read[s], stored[i].text)

BoundInv(s) == Bound(read[s], from[s], redacting[s])

CaptureInv == CaptureTypes /\ \A s \in Streams : HideInv(s) /\ BoundInv(s)

\* What was printed stays, and with it what it hides.
LEMMA FitsBefore ==
  ASSUME NEW t \in Seq(Chars), NEW u \in Seq(Chars), Extends(t, u), NamesFit(u)
  PROVE  NamesFit(t)
<1> SUFFICES ASSUME NEW q \in 1..Len(t), NEW k \in 1..q, t[q] = "=", InToken(t, k, q)
             PROVE  q + 1 - k <= Room
  BY DEF NamesFit
<1>1. q \in DOMAIN u /\ u[q] = "="
  BY DEF Extends
<1>2. InToken(u, k, q)
  <2>1. \A l \in k..q : l \in 1..Len(t)
    OBVIOUS
  <2> QED
    BY <2>1 DEF InToken, Extends
<1> QED
  BY <1>1, <1>2 DEF NamesFit

\* What is stored goes on hiding what it hid.
LEMMA HidesStay ==
  ASSUME NEW t \in Seq(Chars), NEW u \in Seq(Chars), Extends(t, u), NEW text
  PROVE  /\ IsText(t, text) => IsText(u, text)
         /\ Hides(t, text) => Hides(u, text)
<1>1. IsText(t, text) => IsText(u, text)
  <2> SUFFICES ASSUME IsText(t, text) PROVE IsText(u, text)
    OBVIOUS
  <2>1. text \in Seq(Nat) /\ \A k \in 1..Len(text) : text[k] \in Nat /\ text[k] <= Len(t)
    BY DEF IsText
  <2> QED
    BY <2>1 DEF IsText, Extends
<1>2. ASSUME Hides(t, text) PROVE Hides(u, text)
  <2>1. IsText(t, text) /\ IsText(u, text)
    BY <1>1, <1>2 DEF Hides
  <2>2. ASSUME NEW i \in 1..Len(text), text[i] # Mark PROVE ~Hidden(u, text[i])
    <3>1. text[i] \in Nat /\ text[i] <= Len(t) /\ ~Hidden(t, text[i])
      BY <1>2, <2>1, <2>2 DEF Hides, IsText
    <3>2. text[i] <= Len(u) /\ \A j \in 1..text[i] : t[j] = u[j]
      BY <3>1 DEF Extends
    <3> QED
      BY <3>1, <3>2, HiddenInPrefix
  <2> QED
    BY <2>1, <2>2 DEF Hides
<1> QED
  BY <1>1, <1>2

\* What a read adds.
LEMMA ReadExtends ==
  ASSUME NEW t \in Seq(Chars), NEW text \in Seq(Chars), Len(text) >= 1, Len(text) <= Chunk
  PROVE  /\ t \o text \in Seq(Chars) /\ Extends(t, t \o text)
         /\ Len(t) < Len(t \o text) /\ Len(t \o text) <= Len(t) + Chunk
<1>1. Len(t \o text) = Len(t) + Len(text) /\ \A k \in 1..Len(t) : (t \o text)[k] = t[k]
  OBVIOUS
<1> QED
  BY <1>1, SizesAreNumbers DEF Extends

\* At the start nothing is read, pending or stored.
LEMMA CaptureInvInit == CaptureInit => CaptureInv
<1> SUFFICES ASSUME CaptureInit PROVE CaptureInv
  OBVIOUS
<1>1. CaptureTypes
  BY DEF CaptureInit, CaptureTypes, IsText
<1>2. ASSUME NEW s \in Streams PROVE HideInv(s) /\ BoundInv(s)
  <2>1. /\ read[s] = <<>> /\ from[s] = 1 /\ ~redacting[s] /\ pieces[s] = <<>> /\ stored = <<>>
        /\ redacting[s] = FALSE
    BY DEF CaptureInit
  <2>2. Cuts(<<>>, 1, FALSE)
    BY DEF Cuts, Clean, ValuesEnd
  <2>3. Bound(<<>>, 1, FALSE)
    BY SizesAreNumbers DEF Bound
  <2>4. Cuts(read[s], from[s], redacting[s]) /\ Bound(read[s], from[s], redacting[s])
    BY <2>1, <2>2, <2>3, Zenon
  <2> QED
    BY <2>1, <2>4 DEF HideInv, BoundInv
<1> QED
  BY <1>1, <1>2 DEF CaptureInv

\* A read keeps it.
LEMMA ReadsKeep ==
  ASSUME CaptureInv, NEW s \in Streams, Reads(s)
  PROVE  CaptureInv'
<1> USE DEF CaptureInv
<1>1. PICK text \in UNION {[1..k -> job.chars] : k \in 1..Chunk} :
        /\ Len(read[s]) + Len(text) <= job.texts[s]
        /\ ends' = IF Len(text) < Chunk THEN [ends EXCEPT ![s] = "last"] ELSE ends
        /\ read' = [read EXCEPT ![s] = @ \o text]
        /\ LET flush == Flushed(read[s] \o text, from[s], redacting[s]) IN
           /\ from' = [from EXCEPT ![s] = flush.from]
           /\ redacting' = [redacting EXCEPT ![s] = flush.redacting]
           /\ pieces' = [pieces EXCEPT ![s] = flush.pieces]
  BY DEF Reads
<1> DEFINE t == read[s]
           u == t \o text
           f == Flushed(u, from[s], redacting[s])
           b == IF redacting[s] THEN AfterSecret(u, from[s]) ELSE from[s]
<1>2. /\ pieces[s] = <<>> /\ ends[s] = "open" /\ UNCHANGED <<output, stored, job>>
  BY DEF Reads
<1>3. /\ t \in Seq(Chars) /\ from[s] \in 1..Len(t) + 1 /\ redacting[s] \in BOOLEAN
      /\ (redacting[s] => from[s] = Len(t) + 1)
  BY DEF CaptureTypes
<1>4. text \in Seq(Chars) /\ Len(text) >= 1 /\ Len(text) <= Chunk
  <2>1. PICK k \in 1..Chunk : text \in [1..k -> job.chars]
    BY <1>1
  <2>2. job.chars \subseteq Chars
    BY JobsAreKnown DEF CaptureTypes
  <2>3. k \in Nat /\ k >= 1 /\ k <= Chunk
    BY SizesAreNumbers
  <2>4. text \in [1..k -> Chars]
    BY <2>1, <2>2
  <2> QED
    BY <2>3, <2>4
<1>5. /\ u \in Seq(Chars) /\ Extends(t, u) /\ Len(t) < Len(u) /\ Len(u) <= Len(t) + Chunk
  BY <1>3, <1>4, ReadExtends
<1>6. read' = [read EXCEPT ![s] = u] /\ from' = [from EXCEPT ![s] = f.from]
      /\ redacting' = [redacting EXCEPT ![s] = f.redacting] /\ pieces' = [pieces EXCEPT ![s] = f.pieces]
  BY <1>1
<1> HIDE DEF t, u, f
<1>7. b \in 1..Len(u) + 1
  <2>1. from[s] \in 1..Len(u) + 1
    BY <1>3, <1>5
  <2>2. redacting[s] => AfterSecret(u, from[s]) \in from[s]..Len(u) + 1
    BY <1>5, <2>1, AfterSecretIs
  <2> QED
    BY <2>1, <2>2
<1>8. /\ f.from \in 1..Len(u) + 1 /\ f.redacting \in BOOLEAN /\ f.pieces \in Seq(Seq(Nat))
      /\ f.redacting => f.from = Len(u) + 1 \/ b > Len(u)
      /\ \A i \in 1..Len(f.pieces) : IsText(u, f.pieces[i])
  <2> HIDE DEF b
  <2>1. b = IF redacting[s] THEN AfterSecret(u, from[s]) ELSE from[s]
    BY DEF b
  <2> QED
    BY <1>3, <1>5, <1>7, <2>1, FlushTypes DEF f
<1>9. f.redacting => f.from = Len(u) + 1
  <2> SUFFICES ASSUME f.redacting, b > Len(u) PROVE f.from = Len(u) + 1
    BY <1>8
  <2>1. f = Flush(b, redacting[s], <<>>)
    <3> HIDE DEF b
    <3>1. b = IF redacting[s] THEN AfterSecret(u, from[s]) ELSE from[s]
      BY DEF b
    <3>2. ~ (b <= Len(u))
      BY <1>5, <1>7
    <3> QED
      BY <1>3, <1>5, <1>7, <3>1, <3>2, FlushIs DEF f
  <2>2. f.from = b
    BY <2>1 DEF Flush
  <2> QED
    BY <1>5, <1>7, <2>2
<1>10. /\ read'[s] = u /\ from'[s] = f.from /\ redacting'[s] = f.redacting /\ pieces'[s] = f.pieces
       /\ \A z \in Streams \ {s} : /\ read'[z] = read[z] /\ from'[z] = from[z]
                                   /\ redacting'[z] = redacting[z] /\ pieces'[z] = pieces[z]
                                   /\ ends'[z] = ends[z]
       /\ ends'[s] # "closed"
  BY <1>1, <1>2, <1>6 DEF CaptureTypes
<1>11. CaptureTypes'
  <2>1. /\ read' \in [Streams -> Seq(Chars)] /\ from' \in [Streams -> Nat]
        /\ redacting' \in [Streams -> BOOLEAN] /\ pieces' \in [Streams -> Seq(Seq(Nat))]
    BY <1>5, <1>6, <1>8 DEF CaptureTypes
  <2>2. ends' \in [Streams -> {"open", "last", "closed", "broken"}] /\ job' \in Jobs /\ stored' \in Seq(StoredChunk)
    BY <1>1, <1>2 DEF CaptureTypes
  <2>3. ASSUME NEW z \in Streams
        PROVE  /\ from'[z] \in 1..Len(read'[z]) + 1
               /\ redacting'[z] => from'[z] = Len(read'[z]) + 1
               /\ \A i \in 1..Len(pieces'[z]) : IsText(read'[z], pieces'[z][i])
    <3>1. CASE z = s
      BY <1>8, <1>9, <1>10, <3>1
    <3>2. CASE z # s
      BY <1>10, <3>2 DEF CaptureTypes
    <3> QED
      BY <3>1, <3>2
  <2>4. ASSUME NEW i \in 1..Len(stored) PROVE IsText(read'[stored[i].stream], stored[i].text)
    <3>0. stored[i] \in StoredChunk
      BY DEF CaptureTypes
    <3>1. IsText(read[stored[i].stream], stored[i].text) /\ stored[i].stream \in Streams
      BY <3>0 DEF CaptureTypes, StoredChunk
    <3>2. CASE stored[i].stream = s
      <4>1. IsText(t, stored[i].text)
        BY <3>1, <3>2 DEF t
      <4>2. IsText(u, stored[i].text)
        BY <1>3, <1>5, <4>1, HidesStay
      <4> QED
        BY <1>10, <3>2, <4>2
    <3>3. CASE stored[i].stream # s
      BY <1>10, <3>1, <3>3
    <3> QED
      BY <3>2, <3>3
  <2> QED
    BY <1>2, <2>1, <2>2, <2>3, <2>4 DEF CaptureTypes
<1>12. ASSUME NEW z \in Streams PROVE HideInv(z)'
  <2>1. CASE z = s
    <3> SUFFICES ASSUME NamesFit(u)
                 PROVE  /\ \A i \in 1..Len(f.pieces) : PieceHides(u, f.pieces[i])
                        /\ Cuts(u, f.from, f.redacting)
                        /\ \A i \in 1..Len(stored) : stored[i].stream = s => Hides(u, stored[i].text)
      BY <1>2, <1>10, <2>1 DEF HideInv
    <3>1. NamesFit(t)
      BY <1>3, <1>5, FitsBefore
    <3>2. /\ Cuts(t, from[s], redacting[s])
          /\ \A i \in 1..Len(stored) : stored[i].stream = s => Hides(t, stored[i].text)
      BY <1>2, <3>1 DEF HideInv, t
    <3>3. /\ Cuts(u, f.from, f.redacting) /\ \A i \in 1..Len(f.pieces) : PieceHides(u, f.pieces[i])
      BY <1>3, <1>5, <3>2, FlushHides DEF f
    <3>4. \A i \in 1..Len(stored) : stored[i].stream = s => Hides(u, stored[i].text)
      BY <1>3, <1>5, <3>2, HidesStay
    <3> QED
      BY <3>3, <3>4
  <2>2. CASE z # s
    BY <1>2, <1>10, <2>2 DEF HideInv
  <2> QED
    BY <2>1, <2>2
<1>13. ASSUME NEW z \in Streams PROVE BoundInv(z)'
  <2>1. CASE z = s
    <3>1. Bound(t, from[s], redacting[s])
      BY DEF BoundInv, t
    <3>2. Bound(u, f.from, f.redacting)
      BY <1>3, <1>5, <3>1, FlushBounds DEF f
    <3> QED
      BY <1>10, <2>1, <3>2 DEF BoundInv
  <2>2. CASE z # s
    BY <1>10, <2>2 DEF BoundInv
  <2> QED
    BY <2>1, <2>2
<1> QED
  BY <1>11, <1>12, <1>13

\* So does the end of a stream.
LEMMA EndsKeep ==
  ASSUME CaptureInv, NEW s \in Streams, EndsStream(s)
  PROVE  CaptureInv'
<1> USE DEF CaptureInv
<1> DEFINE t == read[s]
           b == from[s]
           w == Span(b, Len(t))
<1>1. /\ pieces[s] = <<>> /\ ends[s] # "closed" /\ ends' = [ends EXCEPT ![s] = "closed"]
      /\ from' = [from EXCEPT ![s] = Len(t) + 1]
      /\ pieces' = [pieces EXCEPT ![s] = IF redacting[s] THEN <<>> ELSE <<w>>]
      /\ UNCHANGED <<read, redacting, output, stored, job>>
  BY DEF EndsStream
<1>2. t \in Seq(Chars) /\ b \in 1..Len(t) + 1 /\ redacting[s] \in BOOLEAN
  BY DEF CaptureTypes
<1> HIDE DEF t, b
<1>3. b \in Nat \ {0} /\ Len(t) \in Nat /\ b <= Len(t) + 1
  BY <1>2
<1>4. IsText(t, w)
  BY <1>2, <1>3, SpelledSpan
<1>5. NamesFit(t) /\ ~redacting[s] => PieceHides(t, w)
  <2> SUFFICES ASSUME NamesFit(t), ~redacting[s] PROVE PieceHides(t, w)
    OBVIOUS
  <2>1. Cuts(t, b, redacting[s])
    BY <1>1 DEF HideInv, t, b
  <2>2. Clean(t, b) \/ Forced(t, b)
    BY <2>1 DEF Cuts
  <2> QED
    BY <1>2, <1>3, <2>2, SpanHides
<1> HIDE DEF w
<1>6. /\ from'[s] = Len(t) + 1 /\ pieces'[s] = IF redacting[s] THEN <<>> ELSE <<w>>
      /\ ends'[s] = "closed"
      /\ \A z \in Streams \ {s} : from'[z] = from[z] /\ pieces'[z] = pieces[z] /\ ends'[z] = ends[z]
  BY <1>1 DEF CaptureTypes
<1>7. /\ pieces'[s] \in Seq(Seq(Nat)) /\ \A i \in 1..Len(pieces'[s]) : pieces'[s][i] = w /\ ~redacting[s]
  <2>1. CASE redacting[s]
    BY <1>6, <2>1
  <2>2. CASE ~redacting[s]
    <3>1. pieces'[s] = <<w>> /\ w \in Seq(Nat)
      BY <1>4, <1>6, <2>2 DEF IsText
    <3> QED
      BY <2>2, <3>1
  <2> QED
    BY <2>1, <2>2
<1>8. CaptureTypes'
  <2>1. /\ from' \in [Streams -> Nat] /\ pieces' \in [Streams -> Seq(Seq(Nat))]
        /\ ends' \in [Streams -> {"open", "last", "closed", "broken"}]
    <3>1. from' \in [Streams -> Nat] /\ ends' \in [Streams -> {"open", "last", "closed", "broken"}]
      BY <1>1, <1>3 DEF CaptureTypes
    <3>2. pieces' = [pieces EXCEPT ![s] = pieces'[s]]
      BY <1>1, <1>6
    <3>3. pieces' \in [Streams -> Seq(Seq(Nat))]
      BY <1>7, <3>2 DEF CaptureTypes
    <3> QED
      BY <3>1, <3>3
  <2>2. ASSUME NEW z \in Streams
        PROVE  /\ from'[z] \in 1..Len(read[z]) + 1
               /\ redacting[z] => from'[z] = Len(read[z]) + 1
               /\ \A i \in 1..Len(pieces'[z]) : IsText(read[z], pieces'[z][i])
    <3>1. CASE z = s
      BY <1>3, <1>4, <1>6, <1>7, <3>1 DEF t
    <3>2. CASE z # s
      BY <1>6, <3>2 DEF CaptureTypes
    <3> QED
      BY <3>1, <3>2
  <2> QED
    BY <1>1, <2>1, <2>2 DEF CaptureTypes
<1>9. ASSUME NEW z \in Streams PROVE HideInv(z)'
  <2>1. CASE z = s
    <3> SUFFICES ASSUME NamesFit(t)
                 PROVE  /\ \A i \in 1..Len(pieces'[s]) : PieceHides(t, pieces'[s][i])
                        /\ \A i \in 1..Len(stored) : stored[i].stream = s => Hides(t, stored[i].text)
      BY <1>1, <1>6, <2>1 DEF HideInv, t
    <3> QED
      BY <1>5, <1>7 DEF HideInv, t
  <2>2. CASE z # s
    BY <1>1, <1>6, <2>2 DEF HideInv
  <2> QED
    BY <2>1, <2>2
<1>10. ASSUME NEW z \in Streams PROVE BoundInv(z)'
  <2>1. CASE z = s
    <3>1. Bound(t, Len(t) + 1, redacting[s])
      BY <1>3, SizesAreNumbers DEF Bound
    <3> QED
      BY <1>1, <1>6, <2>1, <3>1 DEF BoundInv, t
  <2>2. CASE z # s
    BY <1>1, <1>6, <2>2 DEF BoundInv
  <2> QED
    BY <2>1, <2>2
<1> QED
  BY <1>8, <1>9, <1>10

\* A thread that breaks off keeps it.
LEMMA BreaksKeep ==
  ASSUME CaptureInv, NEW s \in Streams, Breaks(s)
  PROVE  CaptureInv'
<1>1. /\ ends[s] # "closed" /\ ends' = [ends EXCEPT ![s] = "broken"]
      /\ UNCHANGED <<read, from, redacting, pieces, output, stored, job>>
  BY DEF Breaks
<1>2. CaptureTypes'
  BY <1>1 DEF CaptureInv, CaptureTypes
<1>3. \A z \in Streams : ends'[z] # "closed" => ends[z] # "closed"
  BY <1>1 DEF CaptureInv, CaptureTypes
<1>4. ASSUME NEW z \in Streams PROVE HideInv(z)' /\ BoundInv(z)'
  BY <1>1, <1>3 DEF CaptureInv, HideInv, BoundInv
<1> QED
  BY <1>2, <1>4 DEF CaptureInv

\* And an append.
LEMMA StoresKeep ==
  ASSUME CaptureInv, NEW s \in Streams, Stores(s)
  PROVE  CaptureInv'
<1> USE DEF CaptureInv
<1> DEFINE t == read[s]
           piece == Head(pieces[s])
           text == Redacted(t, piece)
           chunk == [stream |-> s, text |-> text]
<1>1. /\ pieces[s] # <<>> /\ pieces' = [pieces EXCEPT ![s] = Tail(@)]
      /\ stored' = IF text = <<>> THEN stored ELSE Append(stored, chunk)
      /\ UNCHANGED <<read, from, redacting, ends, job>>
  BY DEF Stores
<1>2. /\ t \in Seq(Chars) /\ pieces[s] \in Seq(Seq(Nat))
      /\ \A i \in 1..Len(pieces[s]) : IsText(t, pieces[s][i])
  BY DEF CaptureTypes
<1>3. /\ piece = pieces[s][1] /\ IsText(t, piece) /\ Tail(pieces[s]) \in Seq(Seq(Nat))
      /\ \A i \in 1..Len(Tail(pieces[s])) : i + 1 \in 1..Len(pieces[s]) /\ Tail(pieces[s])[i] = pieces[s][i + 1]
  <2> DEFINE ps == pieces[s]
  <2>1. ps \in Seq(Seq(Nat)) /\ ps # <<>> /\ \A i \in 1..Len(ps) : IsText(t, ps[i])
    BY <1>1, <1>2
  <2> HIDE DEF ps, t
  <2>2. Len(ps) \in Nat /\ Len(ps) >= 1 /\ 1 \in 1..Len(ps) /\ Head(ps) = ps[1]
    BY <2>1
  <2>3. /\ Tail(ps) \in Seq(Seq(Nat)) /\ Len(Tail(ps)) = Len(ps) - 1
        /\ \A i \in 1..Len(ps) - 1 : Tail(ps)[i] = ps[i + 1]
    BY <2>1, <2>2
  <2>4. \A i \in 1..Len(ps) - 1 : i + 1 \in 1..Len(ps)
    BY <2>2
  <2> QED
    BY <2>1, <2>2, <2>3, <2>4 DEF ps
<1>4. text \in Seq(Nat) /\ IsText(t, text)
  <2>1. piece \in Seq(Nat) /\ \A k \in 1..Len(piece) : piece[k] <= Len(t)
    BY <1>3 DEF IsText
  <2> HIDE DEF piece, t
  <2>2. /\ text \in Seq(Nat)
        /\ \A i \in 1..Len(text) : text[i] = Mark \/ \E k \in 1..Len(piece) : text[i] = piece[k]
    BY <2>1, RedactedHides
  <2>3. Mark <= Len(t)
    BY <1>2 DEF Mark
  <2> HIDE DEF text
  <2> QED
    BY <2>1, <2>2, <2>3 DEF IsText
<1>5. NamesFit(t) => Hides(t, text)
  BY <1>1, <1>2, <1>3 DEF HideInv, PieceHides
<1> HIDE DEF t, piece, text
<1>6. /\ stored' \in Seq(StoredChunk) /\ Len(stored) \in Nat /\ Len(stored') \in Nat
      /\ \A i \in 1..Len(stored') :
           \/ i \in 1..Len(stored) /\ stored'[i] = stored[i]
           \/ stored'[i].stream = s /\ stored'[i].text = text
  <2>0. stored \in Seq(StoredChunk)
    BY DEF CaptureTypes
  <2>1. CASE text = <<>>
    BY <1>1, <2>0, <2>1
  <2>2. CASE text # <<>>
    <3>1. chunk \in StoredChunk
      BY <1>4, <2>2 DEF StoredChunk
    <3>2. stored' = Append(stored, chunk)
      BY <1>1, <2>2
    <3>3. chunk.stream = s /\ chunk.text = text
      OBVIOUS
    <3> HIDE DEF chunk
    <3>4. /\ Append(stored, chunk) \in Seq(StoredChunk) /\ Len(Append(stored, chunk)) = Len(stored) + 1
          /\ Len(stored) \in Nat /\ Append(stored, chunk)[Len(stored) + 1] = chunk
          /\ \A i \in 1..Len(stored) : Append(stored, chunk)[i] = stored[i]
      BY <2>0, <3>1
    <3>5. \A i \in 1..Len(stored) + 1 : i \in 1..Len(stored) \/ i = Len(stored) + 1
      BY <3>4
    <3> QED
      BY <3>2, <3>3, <3>4, <3>5
  <2> QED
    BY <2>1, <2>2
<1>7. /\ pieces'[s] = Tail(pieces[s])
      /\ \A z \in Streams \ {s} : pieces'[z] = pieces[z]
      /\ pieces' \in [Streams -> Seq(Seq(Nat))]
  BY <1>1, <1>3 DEF CaptureTypes
<1>8. CaptureTypes'
  <2>1. ASSUME NEW z \in Streams, NEW i \in 1..Len(pieces'[z]) PROVE IsText(read[z], pieces'[z][i])
    <3>1. CASE z = s
      BY <1>2, <1>3, <1>7, <2>1, <3>1 DEF t
    <3>2. CASE z # s
      BY <1>7, <2>1, <3>2 DEF CaptureTypes
    <3> QED
      BY <3>1, <3>2
  <2>2. ASSUME NEW i \in 1..Len(stored') PROVE IsText(read[stored'[i].stream], stored'[i].text)
    BY <1>4, <1>6 DEF t, CaptureTypes
  <2> QED
    BY <1>1, <1>6, <1>7, <2>1, <2>2 DEF CaptureTypes
<1>9. ASSUME NEW z \in Streams PROVE HideInv(z)'
  <2> SUFFICES ASSUME NamesFit(read[z])
               PROVE  /\ \A i \in 1..Len(pieces'[z]) : PieceHides(read[z], pieces'[z][i])
                      /\ ends[z] # "closed" => Cuts(read[z], from[z], redacting[z])
                      /\ \A i \in 1..Len(stored') : stored'[i].stream = z => Hides(read[z], stored'[i].text)
    BY <1>1 DEF HideInv
  <2>1. /\ \A i \in 1..Len(pieces[z]) : PieceHides(read[z], pieces[z][i])
        /\ ends[z] # "closed" => Cuts(read[z], from[z], redacting[z])
        /\ \A i \in 1..Len(stored) : stored[i].stream = z => Hides(read[z], stored[i].text)
    BY DEF HideInv
  <2>2. \A i \in 1..Len(pieces'[z]) : PieceHides(read[z], pieces'[z][i])
    BY <1>3, <1>7, <2>1
  <2>3. ASSUME NEW i \in 1..Len(stored'), stored'[i].stream = z PROVE Hides(read[z], stored'[i].text)
    BY <1>5, <1>6, <2>1, <2>3 DEF t
  <2> QED
    BY <2>1, <2>2, <2>3
<1>10. ASSUME NEW z \in Streams PROVE BoundInv(z)'
  BY <1>1 DEF BoundInv
<1> QED
  BY <1>8, <1>9, <1>10

\* Every step keeps the invariant of the capture.
LEMMA CaptureStep == CaptureInv /\ [CaptureNext]_captureVars => CaptureInv'
<1> SUFFICES ASSUME CaptureInv, [CaptureNext]_captureVars PROVE CaptureInv'
  OBVIOUS
<1>1. ASSUME NEW s \in Streams, Reads(s) \/ EndsStream(s) \/ Breaks(s) \/ Stores(s) PROVE CaptureInv'
  BY <1>1, ReadsKeep, EndsKeep, BreaksKeep, StoresKeep
<1>2. CASE UNCHANGED captureVars
  BY <1>2 DEF captureVars, CaptureInv, CaptureTypes, HideInv, BoundInv
<1> QED
  BY <1>1, <1>2 DEF CaptureNext

\* Texts that are stored hide secrets, and what is pending is bounded, in every
\* reachable state.
THEOREM CaptureInvariant == CaptureSpec => []CaptureInv
  BY CaptureInvInit, CaptureStep, PTL DEF CaptureSpec

\* service.py:335-433: no character of a secret is ever stored, whatever is printed
\* and wherever the reads cut it.
THEOREM SecretsStay == CaptureSpec => []SecretsStayHidden
<1>1. CaptureInv => SecretsStayHidden
  <2> SUFFICES ASSUME CaptureInv, NEW s \in Streams, NamesFit(read[s]),
                      NEW i \in DOMAIN stored, stored[i].stream = s,
                      NEW k \in DOMAIN stored[i].text, stored[i].text[k] # Mark
               PROVE  ~Hidden(read[s], stored[i].text[k])
    BY DEF SecretsStayHidden
  <2>0. i \in 1..Len(stored) /\ stored[i] \in StoredChunk
    BY DEF CaptureInv, CaptureTypes
  <2>1. i \in 1..Len(stored) /\ stored[i].text \in Seq(Nat)
    BY <2>0 DEF StoredChunk
  <2>2. k \in 1..Len(stored[i].text)
    BY <2>1
  <2>3. Hides(read[s], stored[i].text)
    BY <2>1 DEF CaptureInv, HideInv
  <2> QED
    BY <2>2, <2>3 DEF Hides
<1> QED
  BY CaptureInvariant, <1>1, PTL

\* service.py:410-433: what a thread holds back is bounded, whatever is printed.
THEOREM PendingStaysBounded == CaptureSpec => []PendingIsBounded
<1>1. CaptureInv => PendingIsBounded
  <2> SUFFICES ASSUME CaptureInv, NEW s \in Streams
               PROVE  Len(read[s]) + 1 - from[s] < Threshold + Chunk - 1
    BY DEF PendingIsBounded
  <2>1. /\ read[s] \in Seq(Chars) /\ from[s] \in 1..Len(read[s]) + 1 /\ redacting[s] \in BOOLEAN
        /\ (redacting[s] => from[s] = Len(read[s]) + 1) /\ Bound(read[s], from[s], redacting[s])
    BY DEF CaptureInv, CaptureTypes, BoundInv
  <2>2. Threshold \in Nat /\ Chunk \in Nat /\ Threshold + Chunk - 1 > 0
    BY SizesAreNumbers
  <2>3. CASE redacting[s]
    BY <2>1, <2>2, <2>3
  <2>4. CASE ~redacting[s]
    <3>1. Len(read[s]) + 1 - from[s] <= Threshold + Chunk - 2
      BY <2>1, <2>4 DEF Bound
    <3> QED
      BY <2>1, <2>2, <3>1
  <2> QED
    BY <2>3, <2>4
<1> QED
  BY CaptureInvariant, <1>1, PTL

------------------------------------------------------------------------------
\* Sums of widths

\* F holds the sums of the first values of g.
Sums(n, g, F) ==
  /\ F \in [0..n -> Nat] /\ F[0] = 0
  /\ \A k \in 1..n : F[k] = F[k - 1] + g[k] /\ g[k] \in Nat

\* Sums exist.
LEMMA SumsExist ==
  ASSUME NEW n \in Nat, NEW g \in [1..n -> Nat]
  PROVE  \E F : Sums(n, g, F)
<1> DEFINE Good(m) == \E F \in [0..m -> Nat] : F[0] = 0 /\ \A k \in 1..m : F[k] = F[k - 1] + g[k]
           T == {m \in 0..n : Good(m)}
<1>1. 0 \in T
  <2> DEFINE F == [k \in 0..0 |-> 0]
  <2>1. F \in [0..0 -> Nat] /\ F[0] = 0 /\ \A k \in 1..0 : F[k] = F[k - 1] + g[k]
    OBVIOUS
  <2> HIDE DEF F
  <2>2. Good(0)
    BY <2>1
  <2> QED
    BY <2>2
<1>2. ASSUME NEW m \in 1..n, m - 1 \in T PROVE m \in T
  <2>1. PICK F \in [0..m - 1 -> Nat] : F[0] = 0 /\ \A k \in 1..m - 1 : F[k] = F[k - 1] + g[k]
    BY <1>2
  <2> DEFINE G == [k \in 0..m |-> IF k = m THEN F[m - 1] + g[m] ELSE F[k]]
  <2>2. G \in [0..m -> Nat]
    <3>1. m - 1 \in 0..m - 1 /\ \A k \in 0..m : k # m => k \in 0..m - 1
      OBVIOUS
    <3>2. F[m - 1] + g[m] \in Nat
      BY <2>1, <3>1
    <3> QED
      BY <2>1, <3>1, <3>2
  <2>3. G[0] = 0
    BY <2>1
  <2>4. \A k \in 1..m : G[k] = G[k - 1] + g[k]
    <3>1. \A k \in 1..m : k - 1 \in 0..m /\ k - 1 # m /\ k \in 0..m /\ (k # m => k \in 1..m - 1)
      OBVIOUS
    <3> QED
      BY <2>1, <3>1
  <2>5. Good(m)
    <3> HIDE DEF G
    <3> QED
      BY <2>2, <2>3, <2>4
  <2>6. m \in 0..n
    OBVIOUS
  <2> HIDE DEF Good
  <2> QED
    BY <2>5, <2>6
<1> HIDE DEF T
<1>3. \A k \in 0..n : k \in T
  BY <1>1, <1>2, UpTo
<1>4. Good(n)
  <2>1. n \in 0..n
    OBVIOUS
  <2> HIDE DEF Good
  <2> QED
    BY <1>3, <2>1 DEF T
<1> QED
  BY <1>4 DEF Sums

\* The m values of h are those of g after the first a.
Segment(g, a, m, h) == \A k \in 1..m : h[k] = g[a + k]

\* The sums of a segment.
LEMMA SegmentSums ==
  ASSUME NEW n \in Nat, NEW g, NEW F, Sums(n, g, F), NEW m \in Nat, NEW h, NEW G, Sums(m, h, G),
         NEW a \in Nat, a + m <= n, Segment(g, a, m, h)
  PROVE  F[a + m] = F[a] + G[m]
<1> DEFINE T == {k \in 0..m : F[a + k] = F[a] + G[k]}
<1>1. 0 \in T
  <2>1. F[a] \in Nat /\ a + 0 = a /\ G[0] = 0
    BY DEF Sums
  <2> QED
    BY <2>1
<1>2. ASSUME NEW k \in 1..m, k - 1 \in T PROVE k \in T
  <2>1. F[a + (k - 1)] = F[a] + G[k - 1]
    BY <1>2
  <2>2. /\ a + k \in 1..n /\ (a + k) - 1 = a + (k - 1) /\ a + (k - 1) \in 0..n /\ k - 1 \in 0..m
        /\ a \in 0..n /\ k \in 0..m /\ a + k \in 0..n
    OBVIOUS
  <2>3. F[a + k] = F[a + (k - 1)] + g[a + k]
    BY <2>2 DEF Sums
  <2>4. G[k] = G[k - 1] + g[a + k]
    BY DEF Sums, Segment
  <2>5. F[a] \in Nat /\ G[k - 1] \in Nat /\ F[a + k] \in Nat /\ G[k] \in Nat /\ F[a + (k - 1)] \in Nat
    BY <2>2 DEF Sums
  <2>6. F[a + k] = F[a] + G[k]
    <3> DEFINE d == g[a + k]
    <3>1. F[a + k] = (F[a] + G[k - 1]) + d /\ G[k] = G[k - 1] + d
      BY <2>1, <2>3, <2>4
    <3>2. d \in Nat
      BY <2>2 DEF Sums
    <3> HIDE DEF d
    <3> QED
      BY <2>5, <3>1, <3>2
  <2>7. k \in 0..m
    OBVIOUS
  <2> QED
    BY <2>6, <2>7
<1> HIDE DEF T
<1>3. \A k \in 0..m : k \in T
  BY <1>1, <1>2, UpTo
<1>4. m \in 0..m
  OBVIOUS
<1> QED
  BY <1>3, <1>4 DEF T

\* Sums grow.
LEMMA SumsGrow ==
  ASSUME NEW n \in Nat, NEW g, NEW F, Sums(n, g, F),
         NEW a \in 0..n, NEW b \in a..n
  PROVE  F[a] <= F[b]
<1> DEFINE m == n - a
           T == {k \in 0..m : F[a] <= F[a + k]}
<1>1. m \in Nat /\ \A k \in 0..m : a + k \in 0..n
  OBVIOUS
<1>2. 0 \in T
  <2>1. F[a] \in Nat /\ a + 0 = a
    BY DEF Sums
  <2> QED
    BY <1>1, <2>1
<1>3. ASSUME NEW k \in 1..m, k - 1 \in T PROVE k \in T
  <2>1. F[a] <= F[a + (k - 1)]
    BY <1>3
  <2>2. a + k \in 1..n /\ (a + k) - 1 = a + (k - 1) /\ a + (k - 1) \in 0..n /\ a + k \in 0..n /\ k \in 0..m
    BY <1>1
  <2>3. F[a + k] = F[a + (k - 1)] + g[a + k] /\ g[a + k] \in Nat
    BY <2>2 DEF Sums
  <2>4. F[a] \in Nat /\ F[a + k] \in Nat /\ F[a + (k - 1)] \in Nat
    BY <2>2 DEF Sums
  <2>5. F[a] <= F[a + k]
    BY <2>1, <2>3, <2>4
  <2> QED
    BY <2>2, <2>5
<1> HIDE DEF T
<1>4. \A k \in 0..m : k \in T
  <2> HIDE DEF m
  <2> QED
    BY <1>1, <1>2, <1>3, UpTo
<1>5. b - a \in 0..m /\ a + (b - a) = b
  OBVIOUS
<1> QED
  BY <1>4, <1>5 DEF T

------------------------------------------------------------------------------
\* How many bytes a text takes

Widths(t, text) == [k \in 1..Len(text) |-> Width(t, text[k])]

\* A character takes one byte or two.
LEMMA WidthIs == ASSUME NEW t, NEW p PROVE Width(t, p) \in Nat /\ Width(t, p) >= 1
BY DEF Width

\* Bytes is the last of the sums of the widths.
LEMMA BytesAre ==
  ASSUME NEW t, NEW text \in Seq(Nat)
  PROVE  \E F : Sums(Len(text), Widths(t, text), F) /\ Bytes(t, text) = F[Len(text)]
<1> DEFINE Step(F, n) == IF n = 0 THEN 0 ELSE F[n - 1] + Width(t, text[n])
           U == CHOOSE F : F = [n \in 0..Len(text) |-> Step(F, n)]
<1>0. Len(text) \in Nat /\ \A n \in 0..Len(text) : n # 0 => n \in 1..Len(text)
  OBVIOUS
<1>1. PICK G : Sums(Len(text), Widths(t, text), G)
  <2>1. Widths(t, text) \in [1..Len(text) -> Nat]
    BY WidthIs DEF Widths
  <2> QED
    BY <1>0, <2>1, SumsExist
<1>2. G = [n \in 0..Len(text) |-> Step(G, n)]
  <2>1. \A n \in 0..Len(text) : G[n] = Step(G, n)
    BY <1>0, <1>1 DEF Sums, Widths
  <2> HIDE DEF Step
  <2> QED
    BY <1>1, <2>1 DEF Sums
<1>3. U = [n \in 0..Len(text) |-> Step(U, n)]
  <2> HIDE DEF Step
  <2> QED
    BY <1>2
<1>4. Bytes(t, text) = U[Len(text)]
  BY DEF Bytes
<1> HIDE DEF U
<1>5. \A n \in 0..Len(text) : U[n] = Step(U, n)
  BY <1>3
<1>6. U[0] = 0 /\ \A k \in 1..Len(text) : U[k] = U[k - 1] + Width(t, text[k])
  <2>1. 0 \in 0..Len(text) /\ \A k \in 1..Len(text) : k \in 0..Len(text) /\ k # 0
    BY <1>0
  <2> QED
    BY <1>5, <2>1
<1>7. U \in [0..Len(text) -> Nat]
  <2> DEFINE T == {n \in 0..Len(text) : U[n] \in Nat}
  <2>1. 0 \in T
    BY <1>0, <1>6
  <2>2. ASSUME NEW n \in 1..Len(text), n - 1 \in T PROVE n \in T
    <3>1. U[n - 1] \in Nat /\ Width(t, text[n]) \in Nat /\ n \in 0..Len(text)
      BY <1>0, <2>2, WidthIs
    <3>2. U[n] = U[n - 1] + Width(t, text[n])
      BY <1>6
    <3> QED
      BY <3>1, <3>2
  <2> HIDE DEF T
  <2>3. \A n \in 0..Len(text) : n \in T
    BY <1>0, <2>1, <2>2, UpTo
  <2>4. \A n \in 0..Len(text) : U[n] \in Nat
    BY <2>3 DEF T
  <2> HIDE DEF Step
  <2> QED
    BY <1>3, <2>4
<1>8. Sums(Len(text), Widths(t, text), U)
  BY <1>6, <1>7, WidthIs DEF Sums, Widths
<1> QED
  BY <1>4, <1>8

\* The bytes of a part are a difference of sums.
LEMMA BytesOfPart ==
  ASSUME NEW t, NEW text \in Seq(Nat), NEW F, Sums(Len(text), Widths(t, text), F),
         NEW a \in 1..Len(text) + 1, NEW b \in a - 1..Len(text)
  PROVE  Bytes(t, SubSeq(text, a, b)) = F[b] - F[a - 1] /\ F[b] - F[a - 1] \in Nat
<1> DEFINE w == SubSeq(text, a, b)
           c == a - 1
           m == b - c
<1>1. w \in Seq(Nat) /\ Len(w) = m /\ \A k \in 1..m : w[k] = text[c + k]
  OBVIOUS
<1>2. m \in Nat /\ c \in Nat /\ c + m = b /\ b <= Len(text) /\ Len(text) \in Nat /\ a - 1 = c
  OBVIOUS
<1> HIDE DEF w, m, c
<1>3. PICK G : Sums(m, Widths(t, w), G) /\ Bytes(t, w) = G[m]
  BY <1>1, BytesAre
<1>4. \A k \in 1..m : Widths(t, w)[k] = Widths(t, text)[c + k]
  <2>1. \A k \in 1..m : c + k \in 1..Len(text)
    BY <1>2
  <2> QED
    BY <1>1, <2>1 DEF Widths
<1>5. F[c + m] = F[c] + G[m]
  <2>1. Segment(Widths(t, text), c, m, Widths(t, w))
    BY <1>4 DEF Segment
  <2>2. c + m <= Len(text) /\ c \in Nat /\ m \in Nat /\ Len(text) \in Nat
    BY <1>2
  <2>3. Sums(m, Widths(t, w), G) /\ Sums(Len(text), Widths(t, text), F)
    BY <1>3
  <2> QED
    BY <2>1, <2>2, <2>3, SegmentSums
<1>6. G[m] \in Nat /\ F[c] \in Nat /\ F[b] \in Nat
  <2>1. m \in 0..m /\ c \in 0..Len(text) /\ b \in 0..Len(text)
    BY <1>2
  <2> QED
    BY <1>3, <2>1 DEF Sums
<1>7. Bytes(t, w) = F[b] - F[c] /\ F[b] - F[c] \in Nat
  <2>1. F[b] = F[c] + G[m]
    <3>1. c + m = b
      BY <1>2
    <3> QED
      BY <1>5, <3>1
  <2>2. G[m] = F[b] - F[c]
    BY <1>6, <2>1
  <2>3. Bytes(t, w) = G[m] /\ G[m] \in Nat
    BY <1>3, <1>6
  <2> QED
    BY <2>2, <2>3
<1> QED
  BY <1>2, <1>7 DEF w

\* What is cut from the start is no less than what is too much, by less than a character.
LEMMA WithoutStartIs ==
  ASSUME NEW t, NEW text \in Seq(Nat), NEW bytes \in Nat, bytes <= Bytes(t, text)
  PROVE  \E cut \in 0..Len(text) :
           /\ WithoutStart(t, text, bytes) = SubSeq(text, cut + 1, Len(text))
           /\ Bytes(t, SubSeq(text, cut + 1, Len(text))) + bytes <= Bytes(t, text)
           /\ IF cut = 0 THEN bytes = 0
              ELSE Bytes(t, SubSeq(text, cut + 1, Len(text))) + Width(t, text[cut]) + bytes > Bytes(t, text)
<1>0. Len(text) \in Nat
  OBVIOUS
<1>1. PICK F : Sums(Len(text), Widths(t, text), F) /\ Bytes(t, text) = F[Len(text)]
  BY BytesAre
<1>2. \A k \in 0..Len(text) : Bytes(t, SubSeq(text, 1, k)) = F[k] /\ F[k] \in Nat
  <2>1. F[0] = 0 /\ \A k \in 0..Len(text) : F[k] \in Nat
    BY <1>1 DEF Sums
  <2>2. ASSUME NEW k \in 0..Len(text) PROVE Bytes(t, SubSeq(text, 1, k)) = F[k] - F[1 - 1]
    <3>1. 1 \in 1..Len(text) + 1 /\ k \in 1 - 1..Len(text)
      BY <1>0
    <3> QED
      BY <1>1, <3>1, BytesOfPart
  <2> QED
    BY <2>1, <2>2
<1> DEFINE Is(k) == /\ Bytes(t, SubSeq(text, 1, k)) >= bytes
                    /\ \A l \in 0..k - 1 : Bytes(t, SubSeq(text, 1, l)) < bytes
           cut == CHOOSE k \in 0..Len(text) : Is(k)
           ok == {k \in 0..Len(text) : F[k] >= bytes}
<1>3. \E k \in 0..Len(text) : Is(k)
  <2>1. Len(text) \in ok
    BY <1>0, <1>1
  <2>2. ok \subseteq Nat
    BY <1>0
  <2> HIDE DEF ok
  <2>3. Least(ok) \in ok /\ \A y \in ok : Least(ok) <= y
    BY <2>1, <2>2, LeastNumber
  <2> DEFINE k == Least(ok)
  <2> HIDE DEF k
  <2>4. k \in 0..Len(text) /\ F[k] >= bytes /\ \A y \in 0..Len(text) : F[y] >= bytes => k <= y
    BY <2>3 DEF k, ok
  <2>5. \A l \in 0..k - 1 : l \in 0..Len(text) /\ F[l] < bytes
    BY <1>0, <1>2, <2>4
  <2>6. Is(k)
    BY <1>2, <2>4, <2>5
  <2> HIDE DEF Is
  <2> QED
    BY <2>4, <2>6
<1>4. cut \in 0..Len(text) /\ Is(cut)
  <2> HIDE DEF Is
  <2> QED
    BY <1>3
<1>5. WithoutStart(t, text, bytes) = SubSeq(text, cut + 1, Len(text))
  BY DEF WithoutStart
<1> HIDE DEF cut
<1>6. F[cut] >= bytes /\ F[cut] \in Nat /\ \A l \in 0..cut - 1 : F[l] < bytes
  <2>1. \A l \in 0..cut - 1 : l \in 0..Len(text)
    BY <1>0, <1>4
  <2> QED
    BY <1>2, <1>4, <2>1
<1>7. Bytes(t, SubSeq(text, cut + 1, Len(text))) = F[Len(text)] - F[cut] /\ F[Len(text)] \in Nat
  <2>1. cut + 1 \in 1..Len(text) + 1 /\ Len(text) \in (cut + 1) - 1..Len(text) /\ (cut + 1) - 1 = cut
    BY <1>0, <1>4
  <2>2. F[Len(text)] \in Nat
    BY <1>0, <1>2
  <2> QED
    BY <1>1, <2>1, <2>2, BytesOfPart
<1>8. CASE cut = 0
  <2>1. F[0] = 0
    BY <1>1 DEF Sums
  <2>2. bytes = 0
    BY <1>6, <1>8, <2>1
  <2> QED
    BY <1>1, <1>4, <1>5, <1>6, <1>7, <1>8, <2>2
<1>9. CASE cut # 0
  <2>1. cut \in 1..Len(text) /\ cut - 1 \in 0..cut - 1
    BY <1>0, <1>4, <1>9
  <2>2. F[cut] = F[cut - 1] + Width(t, text[cut])
    BY <1>1, <2>1 DEF Sums, Widths
  <2>3. F[cut - 1] < bytes /\ F[cut - 1] \in Nat /\ Width(t, text[cut]) \in Nat
    <3>1. cut - 1 \in 0..Len(text)
      BY <1>0, <2>1
    <3> QED
      BY <1>2, <1>6, <2>1, <3>1, WidthIs
  <2>4. Bytes(t, SubSeq(text, cut + 1, Len(text))) + Width(t, text[cut]) + bytes > Bytes(t, text)
    BY <1>1, <1>6, <1>7, <2>2, <2>3
  <2>5. Bytes(t, SubSeq(text, cut + 1, Len(text))) + bytes <= Bytes(t, text)
    BY <1>1, <1>6, <1>7
  <2> QED
    BY <1>4, <1>5, <1>9, <2>4, <2>5
<1> QED
  BY <1>8, <1>9

------------------------------------------------------------------------------
\* How many bytes chunks take

ChunkBytes(printed, chunk) == Bytes(printed[chunk.stream], chunk.text)
Sizes(printed, chunks) == [k \in 1..Len(chunks) |-> ChunkBytes(printed, chunks[k])]

\* The bytes of a text are a number.
LEMMA BytesCount == ASSUME NEW t, NEW text \in Seq(Nat) PROVE Bytes(t, text) \in Nat
<1>1. PICK F : Sums(Len(text), Widths(t, text), F) /\ Bytes(t, text) = F[Len(text)]
  BY BytesAre
<1>2. Len(text) \in 0..Len(text)
  OBVIOUS
<1> QED
  BY <1>1, <1>2 DEF Sums

\* And those of a chunk.
LEMMA ChunkBytesIs ==
  ASSUME NEW printed, NEW chunks \in Seq(StoredChunk), NEW k \in 1..Len(chunks)
  PROVE  /\ chunks[k] \in StoredChunk /\ chunks[k].text \in Seq(Nat) /\ chunks[k].text # <<>>
         /\ ChunkBytes(printed, chunks[k]) \in Nat
<1>1. chunks[k] \in StoredChunk
  OBVIOUS
<1>2. chunks[k].text \in Seq(Nat) /\ chunks[k].text # <<>>
  BY <1>1 DEF StoredChunk
<1> QED
  BY <1>1, <1>2, BytesCount DEF ChunkBytes

\* Size is the last of the sums of the chunks' bytes.
LEMMA SizeIs ==
  ASSUME NEW printed, NEW chunks \in Seq(StoredChunk)
  PROVE  \E F : Sums(Len(chunks), Sizes(printed, chunks), F) /\ Size(printed, chunks) = F[Len(chunks)]
<1> DEFINE Step(F, n) == IF n = 0 THEN 0 ELSE F[n - 1] + ChunkBytes(printed, chunks[n])
           U == CHOOSE F : F = [n \in 0..Len(chunks) |-> Step(F, n)]
<1>0. Len(chunks) \in Nat /\ \A n \in 0..Len(chunks) : n # 0 => n \in 1..Len(chunks)
  OBVIOUS
<1>b. \A n \in 1..Len(chunks) : ChunkBytes(printed, chunks[n]) \in Nat
  BY ChunkBytesIs
<1>1. PICK G : Sums(Len(chunks), Sizes(printed, chunks), G)
  <2>1. Sizes(printed, chunks) \in [1..Len(chunks) -> Nat]
    BY <1>b DEF Sizes
  <2> QED
    BY <1>0, <2>1, SumsExist
<1>2. G = [n \in 0..Len(chunks) |-> Step(G, n)]
  <2>1. \A n \in 0..Len(chunks) : G[n] = Step(G, n)
    BY <1>0, <1>1 DEF Sums, Sizes
  <2> HIDE DEF Step
  <2> QED
    BY <1>1, <2>1 DEF Sums
<1>3. U = [n \in 0..Len(chunks) |-> Step(U, n)]
  <2> HIDE DEF Step
  <2> QED
    BY <1>2
<1>4. Size(printed, chunks) = U[Len(chunks)]
  BY DEF Size, ChunkBytes
<1> HIDE DEF U
<1>5. \A n \in 0..Len(chunks) : U[n] = Step(U, n)
  BY <1>3
<1>6. U[0] = 0 /\ \A k \in 1..Len(chunks) : U[k] = U[k - 1] + ChunkBytes(printed, chunks[k])
  <2>1. 0 \in 0..Len(chunks) /\ \A k \in 1..Len(chunks) : k \in 0..Len(chunks) /\ k # 0
    BY <1>0
  <2> QED
    BY <1>5, <2>1
<1>7. U \in [0..Len(chunks) -> Nat]
  <2> DEFINE T == {n \in 0..Len(chunks) : U[n] \in Nat}
  <2>1. 0 \in T
    BY <1>0, <1>6
  <2>2. ASSUME NEW n \in 1..Len(chunks), n - 1 \in T PROVE n \in T
    <3>1. U[n - 1] \in Nat /\ ChunkBytes(printed, chunks[n]) \in Nat /\ n \in 0..Len(chunks)
      BY <1>0, <2>2, <1>b
    <3>2. U[n] = U[n - 1] + ChunkBytes(printed, chunks[n])
      BY <1>6
    <3> QED
      BY <3>1, <3>2
  <2> HIDE DEF T
  <2>3. \A n \in 0..Len(chunks) : n \in T
    BY <1>0, <2>1, <2>2, UpTo
  <2>4. \A n \in 0..Len(chunks) : U[n] \in Nat
    BY <2>3 DEF T
  <2> HIDE DEF Step
  <2> QED
    BY <1>3, <2>4
<1>8. Sums(Len(chunks), Sizes(printed, chunks), U)
  BY <1>6, <1>7, <1>b DEF Sums, Sizes
<1> QED
  BY <1>4, <1>8

\* The size of a part is a difference of sums.
LEMMA SizeOfPart ==
  ASSUME NEW printed, NEW chunks \in Seq(StoredChunk), NEW F, Sums(Len(chunks), Sizes(printed, chunks), F),
         NEW a \in 1..Len(chunks) + 1, NEW b \in a - 1..Len(chunks)
  PROVE  Size(printed, SubSeq(chunks, a, b)) = F[b] - F[a - 1] /\ F[b] - F[a - 1] \in Nat
<1> DEFINE w == SubSeq(chunks, a, b)
           c == a - 1
           m == b - c
<1>1. w \in Seq(StoredChunk) /\ Len(w) = m /\ \A k \in 1..m : w[k] = chunks[c + k]
  OBVIOUS
<1>2. m \in Nat /\ c \in Nat /\ c + m = b /\ b <= Len(chunks) /\ Len(chunks) \in Nat /\ a - 1 = c
  OBVIOUS
<1> HIDE DEF w, m, c
<1>3. PICK G : Sums(m, Sizes(printed, w), G) /\ Size(printed, w) = G[m]
  BY <1>1, SizeIs
<1>4. \A k \in 1..m : Sizes(printed, w)[k] = Sizes(printed, chunks)[c + k]
  <2>1. \A k \in 1..m : c + k \in 1..Len(chunks)
    BY <1>2
  <2> QED
    BY <1>1, <2>1 DEF Sizes
<1>5. F[c + m] = F[c] + G[m]
  <2>1. Segment(Sizes(printed, chunks), c, m, Sizes(printed, w))
    BY <1>4 DEF Segment
  <2>2. c + m <= Len(chunks) /\ c \in Nat /\ m \in Nat /\ Len(chunks) \in Nat
    BY <1>2
  <2>3. Sums(m, Sizes(printed, w), G) /\ Sums(Len(chunks), Sizes(printed, chunks), F)
    BY <1>3
  <2> QED
    BY <2>1, <2>2, <2>3, SegmentSums
<1>6. G[m] \in Nat /\ F[c] \in Nat /\ F[b] \in Nat
  <2>1. m \in 0..m /\ c \in 0..Len(chunks) /\ b \in 0..Len(chunks)
    BY <1>2
  <2> QED
    BY <1>3, <2>1 DEF Sums
<1>7. Size(printed, w) = F[b] - F[c] /\ F[b] - F[c] \in Nat
  <2>1. F[b] = F[c] + G[m]
    <3>1. c + m = b
      BY <1>2
    <3> QED
      BY <1>5, <3>1
  <2>2. G[m] = F[b] - F[c]
    BY <1>6, <2>1
  <2>3. Size(printed, w) = G[m] /\ G[m] \in Nat
    BY <1>3, <1>6
  <2> QED
    BY <2>2, <2>3
<1> QED
  BY <1>2, <1>7 DEF w

------------------------------------------------------------------------------
\* The latest chunks

StartsAt(chunks, i, k) ==
  i \in 1..Len(chunks) + 1 /\ k \in 1..IF i > Len(chunks) THEN 1 ELSE Len(chunks[i].text)

\* A chunk with another text.
LEMMA ChunkWith ==
  ASSUME NEW chunk \in StoredChunk, NEW text
  PROVE  [chunk EXCEPT !.text = text] = [stream |-> chunk.stream, text |-> text]
BY DEF StoredChunk

\* What Latest returns, chunk by chunk.
LEMMA LatestIs ==
  ASSUME NEW chunks \in Seq(StoredChunk), NEW i \in 1..Len(chunks), NEW k \in 1..Len(chunks[i].text)
  PROVE  /\ Latest(chunks, i, k) \in Seq(StoredChunk)
         /\ Len(Latest(chunks, i, k)) = Len(chunks) + 1 - i
         /\ Latest(chunks, i, k)[1] =
              [stream |-> chunks[i].stream, text |-> SubSeq(chunks[i].text, k, Len(chunks[i].text))]
         /\ \A j \in 2..Len(chunks) + 1 - i : Latest(chunks, i, k)[j] = chunks[i + j - 1]
<1> DEFINE text == SubSeq(chunks[i].text, k, Len(chunks[i].text))
           c == [stream |-> chunks[i].stream, text |-> text]
           rest == SubSeq(chunks, i + 1, Len(chunks))
           n == Len(chunks)
<1>1. chunks[i] \in StoredChunk /\ chunks[i].text \in Seq(Nat) /\ chunks[i].stream \in Streams
  BY ChunkBytesIs DEF StoredChunk
<1>2. text \in Seq(Nat) /\ text # <<>>
  <2> DEFINE whole == chunks[i].text
  <2>1. whole \in Seq(Nat) /\ k \in 1..Len(whole)
    BY <1>1
  <2> HIDE DEF whole
  <2>2. SubSeq(whole, k, Len(whole)) \in Seq(Nat) /\ Len(SubSeq(whole, k, Len(whole))) = Len(whole) - k + 1
    BY <2>1
  <2> DEFINE v == SubSeq(whole, k, Len(whole))
  <2>3. v \in Seq(Nat) /\ Len(v) >= 1
    BY <2>1, <2>2
  <2>4. v = text
    BY DEF whole
  <2> HIDE DEF v
  <2>5. v # <<>>
    BY <2>3
  <2> HIDE DEF text
  <2> QED
    BY <2>3, <2>4, <2>5
<1>3. c \in StoredChunk
  BY <1>1, <1>2 DEF StoredChunk
<1>4. [chunks[i] EXCEPT !.text = text] = c
  <2> HIDE DEF text
  <2> QED
    BY <1>1, ChunkWith
<1>5. rest \in Seq(StoredChunk) /\ Len(rest) = n - i /\ \A j \in 1..n - i : rest[j] = chunks[i + j]
  <2>1. i + 1 \in 1..n + 1 /\ n \in Nat
    OBVIOUS
  <2> QED
    BY <2>1
<1>6. Latest(chunks, i, k) = <<c>> \o rest
  <2>1. ~ (i > n)
    OBVIOUS
  <2> QED
    BY <1>4, <2>1 DEF Latest, CutIn, Rest
<1>7. n \in Nat /\ i \in 1..n
  OBVIOUS
<1> HIDE DEF c, rest, n
<1> DEFINE w == <<c>> \o rest
<1>8. w \in Seq(StoredChunk) /\ Len(w) = 1 + Len(rest) /\ w[1] = c
  BY <1>3, <1>5
<1>9. ASSUME NEW j \in 2..n + 1 - i PROVE w[j] = chunks[i + j - 1]
  <2>1. j - 1 \in 1..n - i /\ i + (j - 1) = i + j - 1
    BY <1>7
  <2>2. w[j] = rest[j - 1]
    BY <1>3, <1>5, <1>7
  <2> QED
    BY <1>5, <2>1, <2>2
<1>10. Len(w) = n + 1 - i
  BY <1>5, <1>7, <1>8
<1> QED
  BY <1>6, <1>8, <1>9, <1>10 DEF c, n

\* When it is whole chunks.
LEMMA LatestWhole ==
  ASSUME NEW chunks \in Seq(StoredChunk), NEW i \in 1..Len(chunks) + 1
  PROVE  Latest(chunks, i, 1) = SubSeq(chunks, i, Len(chunks)) /\ StartsAt(chunks, i, 1)
<1>1. CASE i > Len(chunks)
  <2>1. SubSeq(chunks, i, Len(chunks)) = <<>>
    BY <1>1
  <2> QED
    BY <1>1, <2>1 DEF Latest, StartsAt
<1>2. CASE i <= Len(chunks)
  <2>0. i \in 1..Len(chunks) /\ Len(chunks) \in Nat
    BY <1>2
  <2>1. chunks[i] \in StoredChunk /\ chunks[i].text \in Seq(Nat) /\ chunks[i].text # <<>>
    BY <2>0, ChunkBytesIs
  <2>2. 1 \in 1..Len(chunks[i].text) /\ SubSeq(chunks[i].text, 1, Len(chunks[i].text)) = chunks[i].text
    <3> DEFINE text == chunks[i].text
    <3>1. text \in Seq(Nat) /\ text # <<>>
      BY <2>1
    <3> HIDE DEF text
    <3>2. 1 \in 1..Len(text) /\ SubSeq(text, 1, Len(text)) = text
      BY <3>1
    <3> QED
      BY <3>2 DEF text
  <2> DEFINE w == Latest(chunks, i, 1)
             v == SubSeq(chunks, i, Len(chunks))
             m == Len(chunks) + 1 - i
  <2>3. /\ w \in Seq(StoredChunk) /\ Len(w) = m
        /\ w[1] = [stream |-> chunks[i].stream, text |-> chunks[i].text]
        /\ \A j \in 2..m : w[j] = chunks[i + j - 1]
    BY <2>0, <2>2, LatestIs
  <2>4. v \in Seq(StoredChunk) /\ Len(v) = m /\ \A j \in 1..m : v[j] = chunks[i + j - 1]
    BY <2>0
  <2>5. w[1] = chunks[i]
    BY <2>1, <2>3 DEF StoredChunk
  <2>6. m \in Nat /\ i + 1 - 1 = i
    BY <2>0
  <2>7. StartsAt(chunks, i, 1)
    BY <2>0, <2>2 DEF StartsAt
  <2> HIDE DEF w, v, m
  <2>8. \A j \in 1..m : w[j] = v[j]
    <3>1. \A j \in 1..m : j # 1 => j \in 2..m
      BY <2>6
    <3>2. ASSUME NEW j \in 1..m PROVE w[j] = v[j]
      <4>1. CASE j = 1
        BY <2>4, <2>5, <2>6, <4>1
      <4>2. CASE j # 1
        BY <2>3, <2>4, <3>1, <4>2
      <4> QED
        BY <4>1, <4>2
    <3> QED
      BY <3>2
  <2>9. w = v
    BY <2>3, <2>4, <2>6, <2>8
  <2> QED
    BY <2>7, <2>9 DEF w, v
<1> QED
  BY <1>1, <1>2

\* How many bytes it takes.
LEMMA SizeOfLatest ==
  ASSUME NEW printed, NEW chunks \in Seq(StoredChunk),
         NEW i \in 1..Len(chunks), NEW k \in 1..Len(chunks[i].text)
  PROVE  /\ Size(printed, Latest(chunks, i, k)) =
              Bytes(printed[chunks[i].stream], SubSeq(chunks[i].text, k, Len(chunks[i].text)))
                + Size(printed, SubSeq(chunks, i + 1, Len(chunks)))
         /\ Bytes(printed[chunks[i].stream], SubSeq(chunks[i].text, k, Len(chunks[i].text))) \in Nat
         /\ Size(printed, SubSeq(chunks, i + 1, Len(chunks))) \in Nat
<1> DEFINE w == Latest(chunks, i, k)
           m == Len(chunks) + 1 - i
           c == [stream |-> chunks[i].stream, text |-> SubSeq(chunks[i].text, k, Len(chunks[i].text))]
           rest == SubSeq(chunks, i + 1, Len(chunks))
<1>0. m \in Nat \ {0} /\ Len(chunks) \in Nat
  OBVIOUS
<1>1. w \in Seq(StoredChunk) /\ Len(w) = m /\ w[1] = c /\ \A j \in 2..m : w[j] = chunks[i + j - 1]
  BY LatestIs
<1>2. rest \in Seq(StoredChunk) /\ Len(rest) = m - 1 /\ \A j \in 1..m - 1 : rest[j] = chunks[i + j]
  BY <1>0
<1>3. \A j \in 1..m - 1 : j + 1 \in 2..m /\ i + (j + 1) - 1 = i + j
  BY <1>0
<1>r. c.stream = chunks[i].stream /\ c.text = SubSeq(chunks[i].text, k, Len(chunks[i].text))
  OBVIOUS
<1> HIDE DEF w, m, c, rest
<1>4. SubSeq(w, 2, m) = rest
  <2> DEFINE v == SubSeq(w, 2, m)
  <2>1. v \in Seq(StoredChunk) /\ Len(v) = m - 1 /\ \A j \in 1..m - 1 : v[j] = w[j + 1]
    BY <1>0, <1>1
  <2> HIDE DEF v
  <2>2. \A j \in 1..m - 1 : v[j] = rest[j]
    BY <1>1, <1>2, <1>3, <2>1
  <2>3. m - 1 \in Nat
    BY <1>0
  <2>4. v = rest
    <3> DEFINE p == m - 1
    <3>1. /\ v \in Seq(StoredChunk) /\ rest \in Seq(StoredChunk) /\ Len(v) = p /\ Len(rest) = p
          /\ \A j \in 1..p : v[j] = rest[j]
      BY <1>2, <2>1, <2>2
    <3> HIDE DEF p
    <3> QED
      BY <3>1, SameSequence
  <2> QED
    BY <2>4 DEF v
<1>5. PICK F : Sums(m, Sizes(printed, w), F) /\ Size(printed, w) = F[m]
  BY <1>1, SizeIs
<1>6. Size(printed, SubSeq(w, 2, m)) = F[m] - F[1] /\ F[m] - F[1] \in Nat
  <2>1. 2 \in 1..Len(w) + 1 /\ m \in 2 - 1..Len(w) /\ 2 - 1 = 1
    BY <1>0, <1>1
  <2>2. Sums(Len(w), Sizes(printed, w), F)
    BY <1>1, <1>5
  <2>3. Size(printed, SubSeq(w, 2, m)) = F[m] - F[2 - 1] /\ F[m] - F[2 - 1] \in Nat
    BY <1>1, <2>1, <2>2, SizeOfPart, ZenonT(60)
  <2> QED
    BY <2>1, <2>3
<1>7. F[1] = ChunkBytes(printed, c) /\ F[1] \in Nat /\ F[m] \in Nat
  <2>1. 1 \in 1..m /\ 1 - 1 = 0 /\ 1 \in 0..m /\ m \in 0..m
    BY <1>0
  <2>2. F[1] = F[0] + Sizes(printed, w)[1] /\ F[0] = 0 /\ Sizes(printed, w)[1] \in Nat
    BY <1>5, <2>1 DEF Sums
  <2>3. Sizes(printed, w)[1] = ChunkBytes(printed, c)
    BY <1>1, <2>1 DEF Sizes
  <2>4. F[1] \in Nat /\ F[m] \in Nat
    BY <1>5, <2>1 DEF Sums
  <2> QED
    BY <2>2, <2>3, <2>4
<1>8. Size(printed, w) = ChunkBytes(printed, c) + Size(printed, rest)
  <2>1. Size(printed, rest) = F[m] - F[1]
    BY <1>4, <1>6
  <2> QED
    BY <1>5, <1>7, <2>1
<1>9. Size(printed, rest) \in Nat
  BY <1>4, <1>6
<1>10. ChunkBytes(printed, c) = Bytes(printed[chunks[i].stream], SubSeq(chunks[i].text, k, Len(chunks[i].text)))
  BY <1>r DEF ChunkBytes
<1> QED
  BY <1>7, <1>8, <1>9, <1>10 DEF w, rest

------------------------------------------------------------------------------
\* Trimming

\* Where trimming begins: the first chunk after which there is less than the limit.
LEMMA FirstKeptIs ==
  ASSUME NEW printed, NEW chunks \in Seq(StoredChunk), NEW limit \in Nat
  PROVE  /\ FirstKept(printed, limit, chunks) \in 1..Len(chunks) + 1
         /\ \/ FirstKept(printed, limit, chunks) > Len(chunks)
            \/ Size(printed, Rest(chunks, FirstKept(printed, limit, chunks) + 1)) < limit
         /\ \A l \in 1..FirstKept(printed, limit, chunks) - 1 :
              Size(printed, Rest(chunks, l + 1)) >= limit
<1> DEFINE n == Len(chunks)
           Fits(k) == k > n \/ Size(printed, Rest(chunks, k + 1)) < limit
           Is(k) == Fits(k) /\ \A l \in 1..k - 1 : Size(printed, Rest(chunks, l + 1)) >= limit
           first == FirstKept(printed, limit, chunks)
<1>0. n \in Nat
  OBVIOUS
<1>1. ASSUME NEW k \in 1..n PROVE Size(printed, Rest(chunks, k + 1)) \in Nat
  <2>1. k + 1 \in 1..n + 1 /\ n \in (k + 1) - 1..n
    BY <1>0
  <2>2. PICK F : Sums(n, Sizes(printed, chunks), F)
    BY SizeIs
  <2> QED
    BY <2>1, <2>2, SizeOfPart DEF Rest
<1>2. \E k \in 1..n + 1 : Is(k)
  <2> DEFINE ok == {k \in 1..n + 1 : Fits(k)}
  <2>1. n + 1 \in ok
    BY <1>0
  <2>2. ok \subseteq Nat
    BY <1>0
  <2> HIDE DEF ok
  <2>3. Least(ok) \in ok /\ \A y \in ok : Least(ok) <= y
    BY <2>1, <2>2, LeastNumber
  <2> DEFINE k == Least(ok)
  <2> HIDE DEF k
  <2> HIDE DEF Fits
  <2>4. k \in 1..n + 1 /\ Fits(k) /\ \A y \in 1..n + 1 : Fits(y) => k <= y
    BY <2>3 DEF k, ok
  <2>5. \A l \in 1..k - 1 : l \in 1..n /\ ~Fits(l)
    BY <1>0, <2>4
  <2>6. \A l \in 1..k - 1 : Size(printed, Rest(chunks, l + 1)) >= limit
    <3>1. ASSUME NEW l \in 1..k - 1 PROVE Size(printed, Rest(chunks, l + 1)) >= limit
      <4>1. l \in 1..n /\ ~ (Size(printed, Rest(chunks, l + 1)) < limit)
        BY <2>5 DEF Fits
      <4>2. Size(printed, Rest(chunks, l + 1)) \in Nat
        BY <1>1, <4>1
      <4> QED
        BY <4>1, <4>2
    <3> QED
      BY <3>1
  <2> QED
    BY <2>4, <2>6
<1>3. first = CHOOSE k \in 1..n + 1 : Is(k)
  BY DEF FirstKept
<1> HIDE DEF first
<1>4. first \in 1..n + 1 /\ Is(first)
  <2> HIDE DEF Is
  <2> QED
    BY <1>2, <1>3
<1> QED
  BY <1>4 DEF first

\* Where a text of chunks starts, and what trimming leaves of it.
TrimsTo(limit, chunks, i, k) ==
  /\ StartsAt(chunks, i, k) /\ Trimmed(read, limit, chunks) = Latest(chunks, i, k)
  /\ Size(read, Trimmed(read, limit, chunks)) <= limit
  /\ <<i, k>> # <<1, 1>> => Size(read, Trimmed(read, limit, chunks)) + WidthBefore(chunks, i, k) > limit

\* The width of the last character of a chunk.
LEMMA WidthOfLast ==
  ASSUME NEW chunks \in Seq(StoredChunk), NEW i \in 1..Len(chunks) + 1, NEW k \in Nat
  PROVE  WidthBefore(chunks, i, k) \in Nat /\ WidthBefore(chunks, i, k) >= 1
BY WidthIs DEF WidthBefore

\* A size is a number.
LEMMA SizeCount == ASSUME NEW printed, NEW chunks \in Seq(StoredChunk) PROVE Size(printed, chunks) \in Nat
<1>1. PICK F : Sums(Len(chunks), Sizes(printed, chunks), F) /\ Size(printed, chunks) = F[Len(chunks)]
  BY SizeIs
<1>2. Len(chunks) \in 0..Len(chunks)
  OBVIOUS
<1> QED
  BY <1>1, <1>2 DEF Sums

\* What takes no bytes.
LEMMA NothingTakesNone == ASSUME NEW t, NEW printed PROVE Bytes(t, <<>>) = 0 /\ Size(printed, <<>>) = 0
<1>1. Len(<<>>) = 0 /\ <<>> \in Seq(Nat) /\ <<>> \in Seq(StoredChunk)
  OBVIOUS
<1>2. PICK F : Sums(Len(<<>>), Widths(t, <<>>), F) /\ Bytes(t, <<>>) = F[Len(<<>>)]
  BY <1>1, BytesAre
<1>3. PICK G : Sums(Len(<<>>), Sizes(printed, <<>>), G) /\ Size(printed, <<>>) = G[Len(<<>>)]
  BY <1>1, SizeIs
<1>4. F[0] = 0 /\ G[0] = 0
  BY <1>2, <1>3 DEF Sums
<1> QED
  BY <1>1, <1>2, <1>3, <1>4

\* Trimming keeps as much of the end as there is room for.
LEMMA TrimmedIs ==
  ASSUME NEW chunks \in Seq(StoredChunk), NEW limit \in Nat, chunks # <<>>
  PROVE  \E i, k : TrimsTo(limit, chunks, i, k)
<1> DEFINE n == Len(chunks)
           first == FirstKept(read, limit, chunks)
           rest == Size(read, Rest(chunks, first + 1))
           over == Size(read, Rest(chunks, first)) - limit
           stream == chunks[first].stream
           whole == chunks[first].text
           text == WithoutStart(read[stream], whole, over)
           all == Size(read, chunks)
<1>0. n \in Nat \ {0} /\ all \in Nat
  BY SizeCount
<1>1. CASE all <= limit
  <2>1. Trimmed(read, limit, chunks) = chunks
    BY <1>1 DEF Trimmed
  <2>2. Latest(chunks, 1, 1) = chunks /\ StartsAt(chunks, 1, 1)
    <3>1. SubSeq(chunks, 1, Len(chunks)) = chunks /\ 1 \in 1..Len(chunks) + 1
      BY <1>0
    <3> QED
      BY <3>1, LatestWhole
  <2>3. TrimsTo(limit, chunks, 1, 1)
    BY <1>1, <2>1, <2>2 DEF TrimsTo
  <2> QED
    BY <2>3
<1>2. ASSUME ~ (all <= limit) PROVE \E i, k : TrimsTo(limit, chunks, i, k)
  <2>1. /\ first \in 1..n + 1
        /\ first > n \/ rest < limit
        /\ \A l \in 1..first - 1 : Size(read, Rest(chunks, l + 1)) >= limit
    BY FirstKeptIs
  <2>2. Trimmed(read, limit, chunks) =
          IF first > n \/ text = <<>> THEN Rest(chunks, first + 1) ELSE CutIn(chunks, first, text)
    BY <1>2 DEF Trimmed
  <2>3. CASE first > n
    <3>1. first = n + 1
      BY <1>0, <2>1, <2>3
    <3>2. Rest(chunks, first + 1) = <<>> /\ Rest(chunks, n + 1) = <<>>
      BY <1>0, <3>1 DEF Rest
    <3>3. limit = 0
      <4>1. n \in 1..first - 1
        BY <1>0, <3>1
      <4>2. Size(read, Rest(chunks, n + 1)) >= limit
        BY <2>1, <4>1
      <4>3. Size(read, <<>>) = 0
        BY NothingTakesNone
      <4> QED
        BY <3>2, <4>2, <4>3
    <3>4. Latest(chunks, n + 1, 1) = <<>> /\ StartsAt(chunks, n + 1, 1)
      <4>1. n + 1 \in 1..Len(chunks) + 1
        BY <1>0
      <4> QED
        BY <3>2, <4>1, LatestWhole DEF Rest
    <3>5. Size(read, <<>>) = 0
      BY NothingTakesNone
    <3>6. WidthBefore(chunks, n + 1, 1) \in Nat /\ WidthBefore(chunks, n + 1, 1) >= 1
      <4>1. n + 1 \in 1..Len(chunks) + 1
        BY <1>0
      <4> QED
        BY <4>1, WidthOfLast
    <3>7. Trimmed(read, limit, chunks) = <<>>
      BY <2>2, <2>3, <3>2
    <3>8. TrimsTo(limit, chunks, n + 1, 1)
      BY <3>3, <3>4, <3>5, <3>6, <3>7 DEF TrimsTo
    <3> QED
      BY <3>8
  <2>4. CASE first <= n
    <3>1. first \in 1..n /\ ~ (first > n) /\ first \in 1..Len(chunks)
      BY <1>0, <2>1, <2>4
    <3>2. /\ chunks[first] \in StoredChunk /\ whole \in Seq(Nat) /\ whole # <<>>
      BY <3>1, ChunkBytesIs
    <3> DEFINE w == Len(whole)
               bytes == Bytes(read[stream], whole)
    <3>3. w \in Nat \ {0}
      <4> HIDE DEF whole
      <4> QED
        BY <3>2
    <3>4. rest \in Nat /\ rest < limit /\ bytes \in Nat /\ Size(read, Rest(chunks, first)) = bytes + rest
      <4>1. Rest(chunks, first) = Latest(chunks, first, 1) /\ 1 \in 1..w /\ StartsAt(chunks, first, 1)
        <5>1. first \in 1..Len(chunks) + 1
          BY <1>0, <3>1
        <5>2. 1 \in 1..w
          <6> HIDE DEF w
          <6> QED
            BY <3>3
        <5> QED
          BY <5>1, <5>2, LatestWhole DEF Rest
      <4>2. SubSeq(whole, 1, w) = whole
        <5> HIDE DEF whole
        <5> QED
          BY <3>2
      <4>3. Size(read, Latest(chunks, first, 1)) = Bytes(read[stream], SubSeq(whole, 1, w)) + rest
            /\ Bytes(read[stream], SubSeq(whole, 1, w)) \in Nat /\ rest \in Nat
        BY <3>1, <4>1, SizeOfLatest DEF Rest
      <4> HIDE DEF first, whole, w, stream, rest
      <4> QED
        BY <2>1, <3>1, <4>1, <4>2, <4>3
    <3>5. over \in Nat /\ over < bytes /\ bytes + rest = limit + over /\ (first = 1 => over # 0)
      <4>1. first = 1 => Size(read, Rest(chunks, first)) > limit
        <5>1. Rest(chunks, 1) = chunks
          BY DEF Rest
        <5> HIDE DEF first
        <5> QED
          BY <1>0, <1>2, <5>1
      <4>2. first # 1 => Size(read, Rest(chunks, first)) >= limit
        <5>1. first # 1 => first - 1 \in 1..first - 1 /\ (first - 1) + 1 = first
          <6> HIDE DEF first
          <6> QED
            BY <3>1
        <5> HIDE DEF first
        <5> QED
          BY <2>1, <5>1
      <4> DEFINE size == Size(read, Rest(chunks, first))
      <4>3. size \in Nat /\ size = bytes + rest /\ (first = 1 => size > limit) /\ (first # 1 => size >= limit)
            /\ over = size - limit /\ rest \in Nat /\ bytes \in Nat /\ rest < limit
        BY <3>4, <4>1, <4>2
      <4> HIDE DEF first, size, bytes, rest, over
      <4> QED
        BY <4>3
    <3>6. PICK cut \in 0..w :
            /\ text = SubSeq(whole, cut + 1, w)
            /\ Bytes(read[stream], SubSeq(whole, cut + 1, w)) + over <= bytes
            /\ IF cut = 0 THEN over = 0
               ELSE Bytes(read[stream], SubSeq(whole, cut + 1, w)) + Width(read[stream], whole[cut]) + over > bytes
      <4>1. over \in Nat /\ over <= bytes
        <5> HIDE DEF over, bytes
        <5> QED
          BY <3>4, <3>5
      <4> HIDE DEF over, stream
      <4> QED
        BY <3>2, <4>1, WithoutStartIs
    <3> DEFINE size == Bytes(read[stream], text)
               wide == Width(read[stream], whole[cut])
    <3>7. /\ size \in Nat /\ size + rest <= limit
          /\ cut = 0 => size + rest = limit
          /\ cut # 0 => size + rest + wide > limit
      <4>1. size \in Nat
        <5>1. SubSeq(whole, cut + 1, w) \in Seq(Nat)
          <6> HIDE DEF whole
          <6> QED
            BY <3>2, <3>3
        <5> HIDE DEF text
        <5> QED
          BY <3>6, <5>1, BytesCount
      <4>2. size + over <= bytes /\ (cut # 0 => size + wide + over > bytes) /\ (cut = 0 => over = 0)
        <5> HIDE DEF text, whole, over, bytes
        <5> QED
          BY <3>6
      <4>3. wide \in Nat
        BY WidthIs
      <4>4. cut = 0 => size = bytes
        <5>1. SubSeq(whole, 1, w) = whole
          <6> HIDE DEF whole
          <6> QED
            BY <3>2
        <5>2. text = SubSeq(whole, cut + 1, w)
          <6> HIDE DEF text, whole, w
          <6> QED
            BY <3>6
        <5>3. cut = 0 => text = whole
          <6> HIDE DEF text, whole, w
          <6>1. 0 + 1 = 1
            OBVIOUS
          <6> QED
            BY <5>1, <5>2, <6>1
        <5> HIDE DEF text, whole
        <5> QED
          BY <5>3
      <4> HIDE DEF size, wide, over, bytes, rest, w, first
      <4> QED
        BY <3>4, <3>5, <4>1, <4>2, <4>3, <4>4
    <3>8. text = <<>> <=> cut = w
      <4>1. SubSeq(whole, cut + 1, w) = <<>> <=> cut = w
        <5> HIDE DEF whole
        <5>1. Len(SubSeq(whole, cut + 1, w)) = w - cut /\ SubSeq(whole, cut + 1, w) \in Seq(Nat)
          BY <3>2, <3>3
        <5> DEFINE v == SubSeq(whole, cut + 1, w)
        <5>2. v = <<>> <=> Len(v) = 0
          <6> HIDE DEF v
          <6>1. v \in Seq(Nat)
            BY <5>1 DEF v
          <6> QED
            BY <6>1
        <5> HIDE DEF w
        <5> QED
          BY <3>3, <5>1, <5>2
      <4> HIDE DEF text, whole, w
      <4> QED
        BY <3>6, <4>1
    <3>9. CASE cut = w
      <4>1. Trimmed(read, limit, chunks) = Rest(chunks, first + 1)
        <5> HIDE DEF text, first, w
        <5> QED
          BY <2>2, <3>8, <3>9
      <4>2. Rest(chunks, first + 1) = Latest(chunks, first + 1, 1) /\ StartsAt(chunks, first + 1, 1)
        <5>1. first + 1 \in 1..Len(chunks) + 1
          BY <1>0, <3>1
        <5> QED
          BY <5>1, LatestWhole DEF Rest
      <4>3. WidthBefore(chunks, first + 1, 1) = wide
        <5>1. ~ (1 > 1) /\ (first + 1) - 1 = first
          <6> HIDE DEF first
          <6> QED
            BY <3>1
        <5>2. WidthBefore(chunks, first + 1, 1) = Width(read[stream], whole[w])
          <6> HIDE DEF first
          <6> QED
            BY <5>1 DEF WidthBefore
        <5> HIDE DEF w, whole
        <5> QED
          BY <3>9, <5>2
      <4>4. size = 0
        <5>1. Bytes(read[stream], <<>>) = 0
          BY NothingTakesNone
        <5> HIDE DEF text, w
        <5> QED
          BY <3>8, <3>9, <5>1
      <4>5. rest <= limit /\ rest + wide > limit
        <5> HIDE DEF size, rest, wide, w
        <5> QED
          BY <3>3, <3>4, <3>7, <3>9, <4>4
      <4>6. TrimsTo(limit, chunks, first + 1, 1)
        <5> HIDE DEF first, wide
        <5> QED
          BY <4>1, <4>2, <4>3, <4>5 DEF TrimsTo
      <4> QED
        BY <4>6
    <3>10. CASE cut # w
      <4>1. Trimmed(read, limit, chunks) = Latest(chunks, first, cut + 1)
        <5>1. Trimmed(read, limit, chunks) = CutIn(chunks, first, text)
          <6> HIDE DEF text, first, w
          <6> QED
            BY <2>2, <3>1, <3>8, <3>10
        <5>2. Latest(chunks, first, cut + 1) = CutIn(chunks, first, text)
          <6> HIDE DEF text, first
          <6> QED
            BY <3>1, <3>6 DEF Latest
        <5> QED
          BY <5>1, <5>2
      <4>2. cut + 1 \in 1..w
        <5> HIDE DEF w
        <5> QED
          BY <3>3, <3>10
      <4>3. Size(read, Latest(chunks, first, cut + 1)) = size + rest
        <5>1. Size(read, Latest(chunks, first, cut + 1)) = Bytes(read[stream], SubSeq(whole, cut + 1, w)) + rest
          BY <3>1, <4>2, SizeOfLatest DEF Rest
        <5> HIDE DEF text, whole, w, rest, first
        <5> QED
          BY <3>6, <5>1
      <4>4. StartsAt(chunks, first, cut + 1)
        <5> HIDE DEF first
        <5> QED
          BY <1>0, <3>1, <4>2 DEF StartsAt
      <4>5. <<first, cut + 1>> # <<1, 1>> => size + rest + WidthBefore(chunks, first, cut + 1) > limit
        <5>1. CASE cut = 0
          <6>1. WidthBefore(chunks, first, cut + 1) \in Nat /\ WidthBefore(chunks, first, cut + 1) >= 1
            <7>1. first \in 1..Len(chunks) + 1 /\ cut + 1 \in Nat
              BY <1>0, <3>1
            <7> QED
              BY <7>1, WidthOfLast
          <6> HIDE DEF size, rest, first
          <6> QED
            BY <3>4, <3>7, <5>1, <6>1
        <5>2. CASE cut # 0
          <6>1. cut + 1 > 1 /\ (cut + 1) - 1 = cut
            <7> HIDE DEF w
            <7> QED
              BY <3>3, <5>2
          <6>2. WidthBefore(chunks, first, cut + 1) = wide
            <7> HIDE DEF first
            <7> QED
              BY <6>1 DEF WidthBefore
          <6> HIDE DEF size, rest, first, wide
          <6> QED
            BY <3>7, <5>2, <6>2
        <5> QED
          BY <5>1, <5>2
      <4>6. TrimsTo(limit, chunks, first, cut + 1)
        <5> HIDE DEF first, size, rest
        <5> QED
          BY <3>7, <4>1, <4>3, <4>4, <4>5 DEF TrimsTo
      <4> QED
        BY <4>6
    <3> QED
      BY <3>9, <3>10
  <2> QED
    <3> HIDE DEF first, n
    <3> QED
      BY <1>0, <2>1, <2>3, <2>4
<1> QED
  BY <1>1, <1>2

\* A chunk more is one more of the latest.
LEMMA LatestAppend ==
  ASSUME NEW chunks \in Seq(StoredChunk), NEW c \in StoredChunk, NEW i, NEW k, StartsAt(chunks, i, k)
  PROVE  /\ StartsAt(Append(chunks, c), i, k) /\ i \in 1..Len(Append(chunks, c))
         /\ k \in 1..Len(Append(chunks, c)[i].text)
         /\ Latest(chunks, i, k) \in Seq(StoredChunk)
         /\ Latest(Append(chunks, c), i, k) = Append(Latest(chunks, i, k), c)
         /\ <<i, k>> # <<1, 1>> => WidthBefore(Append(chunks, c), i, k) = WidthBefore(chunks, i, k)
<1> DEFINE n == Len(chunks)
           more == Append(chunks, c)
<1>0. n \in Nat /\ i \in 1..n + 1 /\ k \in Nat /\ k >= 1
  BY DEF StartsAt
<1>1. /\ more \in Seq(StoredChunk) /\ Len(more) = n + 1 /\ more[n + 1] = c
      /\ \A j \in 1..n : more[j] = chunks[j]
  OBVIOUS
<1>2. c.text \in Seq(Nat) /\ c.text # <<>>
  BY DEF StoredChunk
<1>3. Len(c.text) \in Nat \ {0}
  <2> DEFINE text == c.text
  <2>1. text \in Seq(Nat) /\ text # <<>>
    BY <1>2
  <2> HIDE DEF text
  <2>2. Len(text) \in Nat \ {0}
    BY <2>1
  <2> QED
    BY <2>2 DEF text
<1> HIDE DEF more
<1>4. k \in 1..Len(more[i].text) /\ i \in 1..Len(more) /\ StartsAt(more, i, k)
  <2>1. k \in 1..Len(more[i].text)
    <3>1. CASE i = n + 1
      BY <1>0, <1>1, <1>3, <3>1 DEF StartsAt
    <3>2. CASE i # n + 1
      <4>1. i \in 1..n
        BY <1>0, <3>2
      <4> QED
        BY <1>0, <1>1, <4>1 DEF StartsAt
    <3> QED
      BY <3>1, <3>2
  <2> QED
    BY <1>0, <1>1, <2>1 DEF StartsAt
<1>5. <<i, k>> # <<1, 1>> => WidthBefore(more, i, k) = WidthBefore(chunks, i, k)
  <2> SUFFICES ASSUME <<i, k>> # <<1, 1>> PROVE WidthBefore(more, i, k) = WidthBefore(chunks, i, k)
    OBVIOUS
  <2>1. CASE k > 1
    <3>1. i \in 1..n
      BY <1>0, <2>1 DEF StartsAt
    <3> QED
      BY <1>1, <2>1, <3>1 DEF WidthBefore
  <2>2. CASE ~ (k > 1)
    <3>1. i - 1 \in 1..n
      BY <1>0, <2>2
    <3>2. more[i - 1] = chunks[i - 1]
      BY <1>1, <3>1
    <3> QED
      BY <2>2, <3>2 DEF WidthBefore
  <2> QED
    BY <2>1, <2>2
<1> DEFINE w == Latest(more, i, k)
           v == Latest(chunks, i, k)
           m == n + 2 - i
           first == [stream |-> more[i].stream, text |-> SubSeq(more[i].text, k, Len(more[i].text))]
<1>6. w \in Seq(StoredChunk) /\ Len(w) = m /\ w[1] = first /\ \A j \in 2..m : w[j] = more[i + j - 1]
  <2>1. Len(more) + 1 - i = m
    BY <1>0, <1>1
  <2> QED
    BY <1>1, <1>4, <2>1, LatestIs, ZenonT(60)
<1>7. CASE i = n + 1
  <2>1. k = 1 /\ v = <<>>
    BY <1>0, <1>7 DEF StartsAt, Latest
  <2>2. more[i] = c /\ m = 1
    BY <1>0, <1>1, <1>7
  <2>3. first = c
    <3>1. SubSeq(c.text, 1, Len(c.text)) = c.text
      <4> DEFINE text == c.text
      <4>1. text \in Seq(Nat)
        BY <1>2
      <4> HIDE DEF text
      <4>2. SubSeq(text, 1, Len(text)) = text
        BY <4>1
      <4> QED
        BY <4>2 DEF text
    <3>2. first = [stream |-> c.stream, text |-> c.text]
      BY <2>1, <2>2, <3>1
    <3> QED
      BY <3>2 DEF StoredChunk
  <2> HIDE DEF w, v, m, first
  <2>4. w = <<c>>
    BY <1>6, <2>2, <2>3
  <2>5. w = Append(v, c) /\ v \in Seq(StoredChunk)
    BY <2>1, <2>4
  <2> QED
    BY <1>4, <1>5, <2>5 DEF w, v, more
<1>8. CASE i # n + 1
  <2>0. i \in 1..n /\ k \in 1..Len(chunks[i].text) /\ more[i] = chunks[i] /\ m - 1 = n + 1 - i /\ m \in Nat /\ m >= 2
    BY <1>0, <1>1, <1>8 DEF StartsAt
  <2>1. v \in Seq(StoredChunk) /\ Len(v) = m - 1 /\ v[1] = first /\ \A j \in 2..m - 1 : v[j] = chunks[i + j - 1]
    BY <2>0, LatestIs
  <2>2. /\ \A j \in 2..m - 1 : j \in 2..m /\ i + j - 1 \in 1..n
        /\ i + m - 1 = n + 1
    BY <1>0, <2>0
  <2> HIDE DEF w, v, first, m
  <2> DEFINE u == Append(v, c)
  <2>3. u \in Seq(StoredChunk) /\ Len(u) = m /\ u[m] = c /\ \A j \in 1..m - 1 : u[j] = v[j]
    BY <2>0, <2>1
  <2> HIDE DEF u
  <2>4. \A j \in 1..m : w[j] = u[j]
    <3>1. w[1] = u[1]
      BY <1>6, <2>0, <2>1, <2>3
    <3>2. ASSUME NEW j \in 2..m - 1 PROVE w[j] = u[j]
      <4>1. j \in 1..m - 1
        BY <2>0
      <4> QED
        BY <1>1, <1>6, <2>1, <2>2, <2>3, <4>1
    <3>3. w[m] = u[m]
      <4>1. m \in 2..m
        BY <2>0
      <4> QED
        BY <1>1, <1>6, <2>2, <2>3, <4>1
    <3>4. \A j \in 1..m : j = 1 \/ j = m \/ j \in 2..m - 1
      BY <2>0
    <3> QED
      BY <3>1, <3>2, <3>3, <3>4
  <2>5. w = u
    BY <1>6, <2>0, <2>3, <2>4
  <2> QED
    BY <1>4, <1>5, <2>1, <2>5 DEF w, v, u, more
<1> QED
  BY <1>7, <1>8

\* The latest of the latest.
LEMMA LatestAgain ==
  ASSUME NEW chunks \in Seq(StoredChunk), NEW i \in 1..Len(chunks), NEW k \in 1..Len(chunks[i].text),
         NEW a, NEW b, StartsAt(Latest(chunks, i, k), a, b)
  PROVE  \E c, d :
           /\ StartsAt(chunks, c, d) /\ Latest(Latest(chunks, i, k), a, b) = Latest(chunks, c, d)
           /\ <<a, b>> = <<1, 1>> => c = i /\ d = k
           /\ <<a, b>> # <<1, 1>> => WidthBefore(Latest(chunks, i, k), a, b) = WidthBefore(chunks, c, d)
<1> DEFINE n == Len(chunks)
           w == Latest(chunks, i, k)
           m == n + 1 - i
           whole == chunks[i].text
           size == Len(whole)
           text == SubSeq(whole, k, size)
           c == i + a - 1
<1>0. n \in Nat /\ m \in Nat \ {0} /\ i + m = n + 1 /\ i \in 1..n
  OBVIOUS
<1>1. /\ w \in Seq(StoredChunk) /\ Len(w) = m
      /\ w[1] = [stream |-> chunks[i].stream, text |-> text]
      /\ \A j \in 2..m : w[j] = chunks[i + j - 1]
  BY LatestIs
<1>2. whole \in Seq(Nat) /\ k \in 1..size
  BY ChunkBytesIs
<1> HIDE DEF w, m, whole
<1>3. /\ text \in Seq(Nat) /\ Len(text) = size + 1 - k
      /\ \A j \in 1..size + 1 - k : text[j] = whole[k + j - 1]
      /\ size \in Nat
  BY <1>2
<1>4. w[1].stream = chunks[i].stream /\ w[1].text = text
  BY <1>1
<1> HIDE DEF text
<1>5. a \in 1..m + 1 /\ b \in Nat /\ b >= 1 /\ StartsAt(w, a, b)
  BY <1>0, <1>1 DEF StartsAt, w
<1>6. c \in 1..n + 1 /\ (a = 1 => c = i) /\ (a = m + 1 <=> c = n + 1) /\ c - 1 = i + (a - 1) - 1
  BY <1>0, <1>5
<1> HIDE DEF n, size, c
<1>7. CASE a = 1
  <2>1. b \in 1..size + 1 - k
    <3>1. ~ (1 > m)
      BY <1>0
    <3> QED
      BY <1>1, <1>3, <1>4, <1>5, <1>7, <3>1 DEF StartsAt
  <2> DEFINE d == k + b - 1
  <2>2. d \in 1..size /\ d \in 1..Len(chunks[i].text) /\ i \in 1..Len(chunks)
    <3>1. d \in 1..size
      BY <1>2, <1>3, <2>1
    <3> QED
      BY <1>0, <3>1 DEF size, whole, n
  <2>3. StartsAt(chunks, i, d)
    BY <1>0, <2>2 DEF StartsAt, n
  <2>4. Latest(w, 1, b) = Latest(chunks, i, d)
    <3> DEFINE x == Latest(w, 1, b)
               y == Latest(chunks, i, d)
    <3>1. 1 \in 1..Len(w) /\ b \in 1..Len(w[1].text)
      BY <1>0, <1>1, <1>3, <1>4, <2>1
    <3>2. /\ x \in Seq(StoredChunk) /\ Len(x) = m
          /\ x[1] = [stream |-> chunks[i].stream, text |-> SubSeq(text, b, size + 1 - k)]
          /\ \A j \in 2..m : x[j] = w[j]
      <4>1. Len(w) + 1 - 1 = m /\ \A j \in 2..m : 1 + j - 1 = j
        BY <1>0, <1>1
      <4>2. Len(w[1].text) = size + 1 - k
        BY <1>3, <1>4
      <4>3. /\ x \in Seq(StoredChunk) /\ Len(x) = Len(w) + 1 - 1
            /\ x[1] = [stream |-> w[1].stream, text |-> SubSeq(w[1].text, b, Len(w[1].text))]
            /\ \A j \in 2..Len(w) + 1 - 1 : x[j] = w[1 + j - 1]
        BY <1>1, <3>1, LatestIs
      <4> HIDE DEF x
      <4>4. \A j \in 2..m : x[j] = w[j]
        BY <4>1, <4>3
      <4> QED
        BY <1>4, <4>1, <4>2, <4>3, <4>4
    <3>3. /\ y \in Seq(StoredChunk) /\ Len(y) = m
          /\ y[1] = [stream |-> chunks[i].stream, text |-> SubSeq(whole, d, size)]
          /\ \A j \in 2..m : y[j] = chunks[i + j - 1]
      BY <2>2, LatestIs DEF m, n, whole, size
    <3>4. SubSeq(text, b, size + 1 - k) = SubSeq(whole, d, size)
      <4> DEFINE p == SubSeq(text, b, size + 1 - k)
                 q == SubSeq(whole, d, size)
                 l == size + 1 - d
      <4>1. p \in Seq(Nat) /\ Len(p) = (size + 1 - k) - b + 1 /\ \A j \in 1..(size + 1 - k) - b + 1 : p[j] = text[b + j - 1]
        BY <1>3, <2>1
      <4>2. q \in Seq(Nat) /\ Len(q) = l /\ \A j \in 1..l : q[j] = whole[d + j - 1]
        <5>1. whole \in Seq(Nat) /\ d \in 1..Len(whole) /\ size = Len(whole)
          BY <1>2, <2>2 DEF size
        <5> HIDE DEF d, size, whole
        <5> QED
          BY <5>1, EndOf
      <4>3. (size + 1 - k) - b + 1 = l /\ l \in Nat
        BY <1>2, <1>3, <2>1, <2>2
      <4>4. \A j \in 1..l : b + j - 1 \in 1..size + 1 - k /\ k + (b + j - 1) - 1 = d + j - 1
        BY <1>2, <1>3, <2>1, <2>2
      <4> HIDE DEF p, q, l, d
      <4>5. \A j \in 1..l : p[j] = q[j]
        BY <1>3, <4>1, <4>2, <4>3, <4>4
      <4>6. p = q
        BY <4>1, <4>2, <4>3, <4>5
      <4> QED
        BY <4>6 DEF p, q
    <3>5. x[1] = y[1]
      BY <3>2, <3>3, <3>4
    <3> HIDE DEF x, y, d
    <3>6. \A j \in 1..m : x[j] = y[j]
      <4>1. \A j \in 1..m : j = 1 \/ j \in 2..m
        BY <1>0
      <4> QED
        BY <1>1, <3>2, <3>3, <3>5, <4>1
    <3>7. x = y
      BY <1>0, <3>2, <3>3, <3>6
    <3> QED
      BY <3>7 DEF x, y
  <2>5. b = 1 => d = k
    BY <1>2, <1>3
  <2>6. b # 1 => WidthBefore(w, 1, b) = WidthBefore(chunks, i, d)
    <3> SUFFICES ASSUME b # 1 PROVE WidthBefore(w, 1, b) = WidthBefore(chunks, i, d)
      OBVIOUS
    <3>1. b > 1 /\ d > 1 /\ b - 1 \in 1..size + 1 - k /\ k + (b - 1) - 1 = d - 1
      BY <1>2, <1>3, <2>1
    <3>2. text[b - 1] = whole[d - 1]
      BY <1>3, <3>1
    <3> HIDE DEF d
    <3> QED
      BY <1>4, <3>1, <3>2 DEF WidthBefore, whole
  <2> HIDE DEF d
  <2> QED
    BY <1>7, <2>3, <2>4, <2>5, <2>6 DEF w
<1>8. CASE a # 1
  <2>1. CASE a = m + 1
    <3>1. c = n + 1 /\ b = 1
      <4>1. m + 1 > m
        BY <1>0
      <4> QED
        BY <1>1, <1>5, <1>6, <2>1, <4>1 DEF StartsAt
    <3>2. Latest(w, a, b) = <<>> /\ Latest(chunks, c, b) = <<>> /\ StartsAt(chunks, c, b)
      <4>1. a > Len(w) /\ c > Len(chunks) /\ c \in 1..Len(chunks) + 1
        BY <1>0, <1>1, <1>6, <2>1, <3>1 DEF n
      <4> QED
        BY <3>1, <4>1 DEF Latest, StartsAt
    <3>3. WidthBefore(w, a, b) = WidthBefore(chunks, c, b)
      <4>1. ~ (b > 1)
        BY <3>1
      <4>2. a - 1 = m /\ c - 1 = n /\ m >= 1 /\ i + m - 1 = n
        BY <1>0, <2>1, <3>1
      <4>3. CASE m = 1
        <5>1. Len(text) = size + 1 - k /\ k + (size + 1 - k) - 1 = size /\ size + 1 - k \in 1..size + 1 - k
          BY <1>2, <1>3
        <5>2. text[Len(text)] = whole[size]
          BY <1>3, <5>1
        <5>3. n = i
          BY <1>0, <4>3
        <5> QED
          BY <1>4, <4>1, <4>2, <4>3, <5>2, <5>3 DEF WidthBefore, whole, size
      <4>4. CASE m # 1
        <5>1. m \in 2..m
          BY <1>0, <4>4
        <5>2. w[m] = chunks[n]
          BY <1>1, <4>2, <5>1
        <5> QED
          BY <4>1, <4>2, <5>2 DEF WidthBefore
      <4> QED
        BY <4>3, <4>4
    <3> QED
      BY <1>8, <3>2, <3>3 DEF w
  <2>2. CASE a # m + 1
    <3>0. a \in 2..m /\ c \in 1..n /\ w[a] = chunks[c] /\ ~ (a > m) /\ ~ (c > n)
      <4>1. a \in 2..m /\ c \in 1..n /\ i + a - 1 = c
        BY <1>0, <1>5, <1>6, <1>8, <2>2 DEF c
      <4>2. w[a] = chunks[c]
        BY <1>1, <4>1
      <4>3. ~ (a > m) /\ ~ (c > n)
        BY <1>0, <4>1
      <4> QED
        BY <4>1, <4>2, <4>3
    <3>1. b \in 1..Len(chunks[c].text) /\ b \in 1..Len(w[a].text) /\ a \in 1..Len(w) /\ c \in 1..Len(chunks)
      <4>1. b \in 1..Len(w[a].text)
        BY <1>1, <1>5, <3>0 DEF StartsAt
      <4>2. a \in 1..Len(w)
        BY <1>1, <3>0
      <4> QED
        BY <3>0, <4>1, <4>2 DEF n
    <3>2. StartsAt(chunks, c, b)
      BY <1>6, <3>0, <3>1 DEF StartsAt, n
    <3>3. Latest(w, a, b) = Latest(chunks, c, b)
      <4> DEFINE x == Latest(w, a, b)
                 y == Latest(chunks, c, b)
                 l == m + 1 - a
      <4>1. /\ x \in Seq(StoredChunk) /\ Len(x) = l
            /\ x[1] = [stream |-> chunks[c].stream, text |-> SubSeq(chunks[c].text, b, Len(chunks[c].text))]
            /\ \A j \in 2..l : x[j] = w[a + j - 1]
        BY <1>1, <3>0, <3>1, LatestIs
      <4>2. /\ y \in Seq(StoredChunk) /\ Len(y) = n + 1 - c
            /\ y[1] = [stream |-> chunks[c].stream, text |-> SubSeq(chunks[c].text, b, Len(chunks[c].text))]
            /\ \A j \in 2..n + 1 - c : y[j] = chunks[c + j - 1]
        BY <3>1, LatestIs DEF n
      <4>3. n + 1 - c = l /\ l \in Nat
        BY <1>0, <3>0, SMTT(60) DEF c
      <4>4. \A j \in 2..l : a + j - 1 \in 2..m /\ i + (a + j - 1) - 1 = c + j - 1
        BY <1>0, <3>0 DEF c
      <4> HIDE DEF x, y, l
      <4>5. \A j \in 1..l : x[j] = y[j]
        <5>1. \A j \in 1..l : j = 1 \/ j \in 2..l
          BY <4>3
        <5>2. ASSUME NEW j \in 2..l PROVE x[j] = y[j]
          BY <1>1, <4>1, <4>2, <4>3, <4>4
        <5>3. x[1] = y[1]
          BY <4>1, <4>2
        <5> QED
          BY <5>1, <5>2, <5>3
      <4>6. x = y
        BY <4>1, <4>2, <4>3, <4>5
      <4> QED
        BY <4>6 DEF x, y
    <3>4. WidthBefore(w, a, b) = WidthBefore(chunks, c, b)
      <4>1. CASE b > 1
        BY <3>0, <4>1 DEF WidthBefore
      <4>2. CASE ~ (b > 1)
        <5>1. CASE a = 2
          <6>1. a - 1 = 1 /\ c - 1 = i
            BY <1>0, <5>1 DEF c
          <6>2. text[Len(text)] = whole[size]
            <7>1. Len(text) = size + 1 - k /\ k + (size + 1 - k) - 1 = size /\ size + 1 - k \in 1..size + 1 - k
              BY <1>2, <1>3
            <7> QED
              BY <1>3, <7>1
          <6> QED
            BY <1>4, <4>2, <6>1, <6>2 DEF WidthBefore, whole, size
        <5>2. CASE a # 2
          <6>1. a - 1 \in 2..m /\ i + (a - 1) - 1 = c - 1
            BY <1>0, <3>0, <5>2 DEF c
          <6>2. w[a - 1] = chunks[c - 1]
            BY <1>1, <6>1
          <6> QED
            BY <4>2, <6>2 DEF WidthBefore
        <5> QED
          BY <5>1, <5>2
      <4> QED
        BY <4>1, <4>2
    <3> QED
      BY <1>8, <3>2, <3>3, <3>4 DEF w
  <2> QED
    BY <2>1, <2>2
<1> QED
  BY <1>7, <1>8

------------------------------------------------------------------------------
\* The output of a job

\* Equal values have equal sums.
LEMMA SumsAgree ==
  ASSUME NEW n \in Nat, NEW g, NEW F, NEW G, Sums(n, g, F), Sums(n, g, G)
  PROVE  F[n] = G[n]
<1>1. Segment(g, 0, n, g)
  BY DEF Segment
<1>2. 0 + n <= n /\ 0 \in Nat
  OBVIOUS
<1>3. F[0 + n] = F[0] + G[n]
  BY <1>1, <1>2, SegmentSums
<1>4. F[0] = 0 /\ G[n] \in Nat /\ 0 + n = n
  <2>1. n \in 0..n
    OBVIOUS
  <2> QED
    BY <2>1 DEF Sums
<1> QED
  BY <1>3, <1>4

\* What is printed later makes no chunk longer.
LEMMA BytesStay ==
  ASSUME NEW t \in Seq(Chars), NEW u \in Seq(Chars), Extends(t, u), NEW text, IsText(t, text)
  PROVE  /\ Bytes(u, text) = Bytes(t, text)
         /\ \A k \in 1..Len(text) : Width(u, text[k]) = Width(t, text[k])
<1>1. ASSUME NEW k \in 1..Len(text) PROVE Width(u, text[k]) = Width(t, text[k])
  <2>1. text[k] \in Nat /\ text[k] <= Len(t)
    BY DEF IsText
  <2>2. text[k] # Mark => t[text[k]] = u[text[k]]
    BY <2>1 DEF Extends, Mark
  <2> QED
    BY <2>2 DEF Width, Char
<1>2. Widths(u, text) = Widths(t, text)
  BY <1>1 DEF Widths
<1>3. text \in Seq(Nat) /\ Len(text) \in Nat
  BY DEF IsText
<1>4. PICK F : Sums(Len(text), Widths(t, text), F) /\ Bytes(t, text) = F[Len(text)]
  BY <1>3, BytesAre
<1>5. PICK G : Sums(Len(text), Widths(u, text), G) /\ Bytes(u, text) = G[Len(text)]
  BY <1>3, BytesAre
<1>6. F[Len(text)] = G[Len(text)]
  <2>1. Sums(Len(text), Widths(t, text), F) /\ Sums(Len(text), Widths(t, text), G)
    BY <1>2, <1>4, <1>5
  <2> QED
    BY <1>3, <2>1, SumsAgree
<1> QED
  BY <1>1, <1>4, <1>5, <1>6

\* p and q are what was printed before and after, chunks of what was printed before.
Continues(p, q, chunks) ==
  \A i \in 1..Len(chunks) :
    /\ p[chunks[i].stream] \in Seq(Chars) /\ q[chunks[i].stream] \in Seq(Chars)
    /\ Extends(p[chunks[i].stream], q[chunks[i].stream])
    /\ IsText(p[chunks[i].stream], chunks[i].text)

\* What is printed later makes no output longer.
LEMMA SizeStays ==
  ASSUME NEW p, NEW q, NEW chunks \in Seq(StoredChunk), Continues(p, q, chunks)
  PROVE  Size(q, chunks) = Size(p, chunks)
<1>1. \A k \in 1..Len(chunks) : ChunkBytes(q, chunks[k]) = ChunkBytes(p, chunks[k])
  BY BytesStay DEF Continues, ChunkBytes
<1>2. Sizes(q, chunks) = Sizes(p, chunks)
  BY <1>1 DEF Sizes
<1>3. PICK F : Sums(Len(chunks), Sizes(p, chunks), F) /\ Size(p, chunks) = F[Len(chunks)]
  BY SizeIs
<1>4. PICK G : Sums(Len(chunks), Sizes(q, chunks), G) /\ Size(q, chunks) = G[Len(chunks)]
  BY SizeIs
<1>5. F[Len(chunks)] = G[Len(chunks)]
  <2>1. Sums(Len(chunks), Sizes(p, chunks), F) /\ Sums(Len(chunks), Sizes(p, chunks), G) /\ Len(chunks) \in Nat
    BY <1>2, <1>3, <1>4
  <2> QED
    BY <2>1, SumsAgree
<1> QED
  BY <1>3, <1>4, <1>5

\* The latest of some chunks is text of the same streams.
LEMMA LatestIsText ==
  ASSUME NEW p, NEW q, NEW chunks \in Seq(StoredChunk), Continues(p, q, chunks),
         NEW i, NEW k, StartsAt(chunks, i, k)
  PROVE  Latest(chunks, i, k) \in Seq(StoredChunk) /\ Continues(p, q, Latest(chunks, i, k))
<1>1. CASE i > Len(chunks)
  BY <1>1 DEF Latest, Continues
<1>2. CASE ~ (i > Len(chunks))
  <2> DEFINE w == Latest(chunks, i, k)
             m == Len(chunks) + 1 - i
             whole == chunks[i].text
             text == SubSeq(whole, k, Len(whole))
  <2>0. i \in 1..Len(chunks) /\ k \in 1..Len(chunks[i].text) /\ Len(chunks) \in Nat
    BY <1>2 DEF StartsAt
  <2>1. /\ w \in Seq(StoredChunk) /\ Len(w) = m
        /\ w[1] = [stream |-> chunks[i].stream, text |-> text]
        /\ \A j \in 2..m : w[j] = chunks[i + j - 1]
    BY <2>0, LatestIs
  <2>2. w[1].stream = chunks[i].stream /\ w[1].text = text
    <3> HIDE DEF w, text
    <3> QED
      BY <2>1
  <2>3. IsText(p[chunks[i].stream], text)
    <3> DEFINE t == p[chunks[i].stream]
    <3>1. whole \in Seq(Nat) /\ k \in 1..Len(whole) /\ IsText(t, whole)
      BY <2>0, ChunkBytesIs DEF Continues
    <3> HIDE DEF whole, t
    <3>2. /\ text \in Seq(Nat) /\ Len(text) = Len(whole) - k + 1 /\ Len(whole) \in Nat
          /\ \A j \in 1..Len(whole) - k + 1 : text[j] = whole[k + j - 1] /\ k + j - 1 \in 1..Len(whole)
      BY <3>1
    <3> HIDE DEF text
    <3>3. IsText(t, text)
      BY <3>1, <3>2 DEF IsText
    <3> QED
      BY <3>3 DEF t
  <2>4. \A j \in 1..m : j = 1 \/ (j \in 2..m /\ i + j - 1 \in 1..Len(chunks))
    BY <2>0
  <2> HIDE DEF w, m, text
  <2>5. Continues(p, q, w)
    <3> SUFFICES ASSUME NEW j \in 1..m
                 PROVE  /\ p[w[j].stream] \in Seq(Chars) /\ q[w[j].stream] \in Seq(Chars)
                        /\ Extends(p[w[j].stream], q[w[j].stream]) /\ IsText(p[w[j].stream], w[j].text)
      BY <2>1 DEF Continues
    <3>1. CASE j = 1
      BY <2>0, <2>2, <2>3, <3>1 DEF Continues
    <3>2. CASE j # 1
      <4>1. i + j - 1 \in 1..Len(chunks) /\ w[j] = chunks[i + j - 1]
        BY <2>1, <2>4, <3>2
      <4> QED
        BY <4>1 DEF Continues
    <3> QED
      BY <3>1, <3>2
  <2> QED
    BY <2>1, <2>5 DEF w
<1> QED
  BY <1>1, <1>2

\* The output starts with character k of the stored chunk i.
OutputAt(i, k) ==
  /\ StartsAt(stored, i, k) /\ output = Latest(stored, i, k)
  /\ <<i, k>> # <<1, 1>> => Size(read, output) + WidthBefore(stored, i, k) > job.limit

OutInv == CaptureTypes /\ Size(read, output) <= job.limit /\ \E i, k : OutputAt(i, k)

\* It is what the property says.
LEMMA OutInvIs == OutInv => OutputIsTheLatest
<1> SUFFICES ASSUME OutInv PROVE OutputIsTheLatest
  OBVIOUS
<1>1. PICK i, k : OutputAt(i, k)
  BY DEF OutInv
<1>2. i \in 1..Len(stored) + 1 /\ k \in 1..IF i > Len(stored) THEN 1 ELSE Len(stored[i].text)
  BY <1>1 DEF OutputAt, StartsAt
<1> QED
  BY <1>1, <1>2 DEF OutInv, OutputAt, OutputIsTheLatest

\* At the start there is no output.
LEMMA OutInvInit == CaptureInit => OutInv
<1> SUFFICES ASSUME CaptureInit PROVE OutInv
  OBVIOUS
<1>1. CaptureTypes
  BY CaptureInvInit DEF CaptureInv
<1>2. output = <<>> /\ stored = <<>> /\ job \in Jobs
  BY DEF CaptureInit
<1>3. job.limit \in Nat
  BY <1>2, JobsAreKnown
<1>4. Size(read, output) = 0
  BY <1>2, NothingTakesNone
<1>5. OutputAt(1, 1)
  BY <1>2 DEF OutputAt, StartsAt, Latest
<1> QED
  BY <1>1, <1>3, <1>4, <1>5 DEF OutInv

\* Printing more leaves it.
LEMMA OutputStays ==
  ASSUME OutInv, CaptureTypes', UNCHANGED <<output, stored, job>>,
         \A s \in Streams : read[s] \in Seq(Chars) /\ read'[s] \in Seq(Chars) /\ Extends(read[s], read'[s])
  PROVE  OutInv'
<1>1. PICK i, k : OutputAt(i, k)
  BY DEF OutInv
<1>2. stored \in Seq(StoredChunk) /\ Continues(read, read', stored)
  <2>1. \A j \in 1..Len(stored) : stored[j].stream \in Streams /\ IsText(read[stored[j].stream], stored[j].text)
    <3>1. \A j \in 1..Len(stored) : stored[j] \in StoredChunk
      BY DEF OutInv, CaptureTypes
    <3> QED
      BY <3>1 DEF OutInv, CaptureTypes, StoredChunk
  <2>2. stored \in Seq(StoredChunk)
    BY DEF OutInv, CaptureTypes
  <2> QED
    BY <2>1, <2>2 DEF Continues
<1>3. StartsAt(stored, i, k) /\ output = Latest(stored, i, k)
  BY <1>1 DEF OutputAt
<1>4. Size(read', output) = Size(read, output)
  <2>1. output \in Seq(StoredChunk) /\ Continues(read, read', output)
    BY <1>2, <1>3, LatestIsText
  <2> QED
    BY <2>1, SizeStays
<1>5. <<i, k>> # <<1, 1>> => WidthBefore(stored, i, k)' = WidthBefore(stored, i, k)
  <2> SUFFICES ASSUME <<i, k>> # <<1, 1>> PROVE WidthBefore(stored, i, k)' = WidthBefore(stored, i, k)
    OBVIOUS
  <2> DEFINE j == IF k > 1 THEN i ELSE i - 1
             l == IF k > 1 THEN k - 1 ELSE Len(stored[j].text)
  <2>1. j \in 1..Len(stored) /\ l \in 1..Len(stored[j].text)
    <3>1. CASE k > 1
      <4>1. i \in 1..Len(stored) /\ k \in 1..Len(stored[i].text)
        BY <1>2, <1>3, <3>1 DEF StartsAt
      <4>2. k - 1 \in 1..Len(stored[i].text)
        BY <3>1, <4>1
      <4> QED
        BY <3>1, <4>1, <4>2
    <3>2. CASE ~ (k > 1)
      <4>1. i - 1 \in 1..Len(stored)
        BY <1>2, <1>3, <3>2 DEF StartsAt
      <4>2. stored[i - 1].text \in Seq(Nat) /\ stored[i - 1].text # <<>>
        BY <1>2, <4>1, ChunkBytesIs
      <4> DEFINE text == stored[i - 1].text
      <4>3. Len(text) \in 1..Len(text)
        <5>1. text \in Seq(Nat) /\ text # <<>>
          BY <4>2
        <5> HIDE DEF text
        <5> QED
          BY <5>1
      <4> QED
        BY <3>2, <4>1, <4>3
    <3> QED
      BY <3>1, <3>2
  <2>2. WidthBefore(stored, i, k) = Width(read[stored[j].stream], stored[j].text[l])
    BY DEF WidthBefore
  <2>3. WidthBefore(stored, i, k)' = Width(read'[stored[j].stream], stored[j].text[l])
    BY DEF WidthBefore
  <2> HIDE DEF j, l
  <2> QED
    BY <1>2, <2>1, <2>2, <2>3, BytesStay DEF Continues
<1>6. OutputAt(i, k)'
  BY <1>1, <1>4, <1>5 DEF OutputAt
<1> QED
  BY <1>4, <1>6 DEF OutInv

\* An append keeps what there is room for.
LEMMA OutputGrows ==
  ASSUME OutInv, CaptureTypes', NEW c \in StoredChunk, UNCHANGED <<read, job>>,
         stored' = Append(stored, c), output' = Trimmed(read, job.limit, Append(output, c))
  PROVE  OutInv'
<1> DEFINE more == Append(stored, c)
           all == Append(output, c)
           limit == job.limit
<1>0. stored \in Seq(StoredChunk) /\ limit \in Nat
  BY JobsAreKnown DEF OutInv, CaptureTypes
<1>1. PICK i, k : OutputAt(i, k)
  BY DEF OutInv
<1>2. /\ i \in 1..Len(more) /\ k \in 1..Len(more[i].text)
      /\ output \in Seq(StoredChunk) /\ all = Latest(more, i, k)
      /\ <<i, k>> # <<1, 1>> => WidthBefore(more, i, k) = WidthBefore(stored, i, k)
  BY <1>0, <1>1, LatestAppend DEF OutputAt
<1>3. more \in Seq(StoredChunk) /\ all \in Seq(StoredChunk) /\ all # <<>>
  BY <1>0, <1>2, SMTT(60)
<1>4. PICK a, b : TrimsTo(limit, all, a, b)
  BY <1>0, <1>3, TrimmedIs
<1> HIDE DEF more, all, limit
<1>5. PICK d, e : /\ StartsAt(more, d, e) /\ Latest(all, a, b) = Latest(more, d, e)
                  /\ <<a, b>> = <<1, 1>> => d = i /\ e = k
                  /\ <<a, b>> # <<1, 1>> => WidthBefore(all, a, b) = WidthBefore(more, d, e)
  <2>1. StartsAt(Latest(more, i, k), a, b)
    BY <1>2, <1>4 DEF TrimsTo
  <2> QED
    BY <1>2, <1>3, <2>1, LatestAgain
<1>6. output' = Latest(all, a, b) /\ Size(read, output') <= limit
  BY <1>4 DEF TrimsTo, all, limit
<1>7. <<d, e>> # <<1, 1>> => Size(read, output') + WidthBefore(more, d, e) > limit
  <2> SUFFICES ASSUME <<d, e>> # <<1, 1>> PROVE Size(read, output') + WidthBefore(more, d, e) > limit
    OBVIOUS
  <2>1. CASE <<a, b>> # <<1, 1>>
    <3>1. Size(read, output') + WidthBefore(all, a, b) > limit
      BY <1>4, <2>1 DEF TrimsTo, all, limit
    <3> QED
      BY <1>5, <2>1, <3>1
  <2>2. CASE <<a, b>> = <<1, 1>>
    <3>1. d = i /\ e = k /\ a = 1 /\ b = 1
      BY <1>5, <2>2
    <3>2. output' = all
      <4>1. 1 \in 1..Len(all) + 1 /\ SubSeq(all, 1, Len(all)) = all
        BY <1>3
      <4>2. Latest(all, 1, 1) = all
        BY <1>3, <4>1, LatestWhole
      <4> QED
        BY <1>6, <3>1, <4>2
    <3>3. Size(read, output) + WidthBefore(more, d, e) > limit
      BY <1>1, <1>2, <3>1 DEF OutputAt, limit
    <3>4. Size(read, all) >= Size(read, output) /\ Size(read, all) \in Nat /\ Size(read, output) \in Nat
      <4> DEFINE n == Len(output)
      <4>1. n \in Nat /\ Len(all) = n + 1 /\ SubSeq(all, 1, n) = output
        BY <1>2 DEF all
      <4>2. PICK F : Sums(Len(all), Sizes(read, all), F) /\ Size(read, all) = F[Len(all)]
        BY <1>3, SizeIs
      <4>3. Size(read, SubSeq(all, 1, n)) = F[n] - F[1 - 1]
        <5>1. 1 \in 1..Len(all) + 1 /\ n \in 1 - 1..Len(all)
          BY <4>1
        <5> QED
          BY <1>3, <4>2, <5>1, SizeOfPart
      <4>4. F[0] = 0 /\ F[n] \in Nat /\ F[n] <= F[Len(all)]
        <5>1. n \in 0..Len(all) /\ Len(all) \in n..Len(all) /\ Len(all) \in Nat
          BY <4>1
        <5>2. F[n] <= F[Len(all)]
          BY <4>2, <5>1, SumsGrow
        <5> QED
          BY <4>2, <5>1, <5>2 DEF Sums
      <4>5. Size(read, output) = F[n]
        <5>1. 1 - 1 = 0
          OBVIOUS
        <5>2. Size(read, output) = F[n] - F[0]
          BY <4>1, <4>3, <5>1
        <5> HIDE DEF n
        <5> QED
          BY <4>4, <5>2
      <4>6. Size(read, all) \in Nat
        BY <1>3, SizeCount
      <4> HIDE DEF n
      <4> QED
        BY <4>2, <4>4, <4>5, <4>6
    <3>5. WidthBefore(more, d, e) \in Nat
      BY WidthIs DEF WidthBefore
    <3> QED
      BY <1>0, <3>2, <3>3, <3>4, <3>5
  <2> QED
    BY <2>1, <2>2
<1>8. OutputAt(d, e)'
  <2>1. WidthBefore(stored, d, e)' = WidthBefore(more, d, e)
    BY DEF WidthBefore, more
  <2> QED
    BY <1>5, <1>6, <1>7, <2>1 DEF OutputAt, more, limit
<1> QED
  BY <1>6, <1>8 DEF OutInv, limit

\* Every step keeps it.
LEMMA OutStep == CaptureInv /\ OutInv /\ [CaptureNext]_captureVars => OutInv'
<1> SUFFICES ASSUME CaptureInv, OutInv, [CaptureNext]_captureVars PROVE OutInv'
  OBVIOUS
<1>0. CaptureTypes /\ CaptureTypes'
  BY CaptureStep DEF CaptureInv
<1>r. \A z \in Streams : read[z] \in Seq(Chars) /\ read'[z] \in Seq(Chars)
  BY <1>0 DEF CaptureTypes
<1>1. ASSUME NEW s \in Streams, Reads(s) PROVE OutInv'
  <2>1. \A z \in Streams : Extends(read[z], read'[z])
    <3>1. PICK text : /\ read' = [read EXCEPT ![s] = @ \o text]
                      /\ text \in UNION {[1..k -> job.chars] : k \in 1..Chunk}
      BY <1>1 DEF Reads
    <3>2. text \in Seq(Chars)
      <4>1. PICK k \in 1..Chunk : text \in [1..k -> job.chars]
        BY <3>1
      <4>2. job.chars \subseteq Chars /\ k \in Nat
        BY <1>0, SizesAreNumbers, JobsAreKnown DEF CaptureTypes
      <4> QED
        BY <4>1, <4>2
    <3>3. ASSUME NEW t \in Seq(Chars) PROVE Extends(t, t \o text)
      <4>1. Len(t \o text) = Len(t) + Len(text) /\ \A k \in 1..Len(t) : (t \o text)[k] = t[k]
        BY <3>2
      <4>2. Len(t) \in Nat /\ Len(text) \in Nat
        BY <3>2
      <4> QED
        BY <4>1, <4>2 DEF Extends
    <3>4. ASSUME NEW z \in Streams PROVE Extends(read[z], read'[z])
      <4>1. CASE z = s
        <5>1. read'[s] = read[s] \o text
          BY <1>0, <3>1 DEF CaptureTypes
        <5> QED
          BY <1>r, <3>3, <4>1, <5>1
      <4>2. CASE z # s
        <5>1. read'[z] = read[z]
          BY <1>0, <3>1, <4>2 DEF CaptureTypes
        <5>2. Len(read[z]) \in Nat
          BY <1>r
        <5> QED
          BY <5>1, <5>2 DEF Extends
      <4> QED
        BY <4>1, <4>2
    <3> QED
      BY <3>4
  <2>2. UNCHANGED <<output, stored, job>>
    BY <1>1 DEF Reads
  <2> QED
    BY <1>0, <1>r, <2>1, <2>2, OutputStays
<1>2. ASSUME UNCHANGED <<read, output, stored, job>> PROVE OutInv'
  <2>1. \A z \in Streams : Extends(read[z], read'[z])
    <3>1. \A z \in Streams : Len(read[z]) \in Nat
      BY <1>r
    <3> QED
      BY <1>2, <3>1 DEF Extends
  <2> QED
    BY <1>0, <1>r, <1>2, <2>1, OutputStays
<1>3. ASSUME NEW s \in Streams, Stores(s) PROVE OutInv'
  <2> DEFINE text == Redacted(read[s], Head(pieces[s]))
             c == [stream |-> s, text |-> text]
  <2>1. /\ UNCHANGED <<read, job>>
        /\ IF text = <<>> THEN UNCHANGED <<output, stored>>
           ELSE stored' = Append(stored, c) /\ output' = Trimmed(read, job.limit, Append(output, c))
    BY <1>3 DEF Stores
  <2>2. CASE text = <<>>
    BY <1>2, <2>1, <2>2
  <2>3. CASE text # <<>>
    <3>1. Head(pieces[s]) \in Seq(Nat)
      <4> DEFINE ps == pieces[s]
      <4>1. ps \in Seq(Seq(Nat)) /\ ps # <<>>
        BY <1>0, <1>3 DEF CaptureTypes, Stores
      <4> HIDE DEF ps
      <4>2. Head(ps) \in Seq(Nat)
        <5>1. 1 \in 1..Len(ps) /\ Head(ps) = ps[1]
          BY <4>1
        <5> QED
          BY <4>1, <5>1
      <4> QED
        BY <4>2 DEF ps
    <3>2. text \in Seq(Nat)
      BY <3>1, RedactedHides
    <3>3. c \in StoredChunk
      <4> HIDE DEF text
      <4> QED
        BY <2>3, <3>2 DEF StoredChunk
    <3> HIDE DEF text
    <3>4. stored' = Append(stored, c) /\ output' = Trimmed(read, job.limit, Append(output, c))
      BY <2>1, <2>3
    <3> HIDE DEF c
    <3> QED
      BY <1>0, <2>1, <3>3, <3>4, OutputGrows
  <2> QED
    BY <2>2, <2>3
<1>4. ASSUME NEW s \in Streams, EndsStream(s) \/ Breaks(s) PROVE OutInv'
  BY <1>2, <1>4 DEF EndsStream, Breaks
<1>5. CASE UNCHANGED captureVars
  BY <1>2, <1>5 DEF captureVars
<1> QED
  BY <1>1, <1>3, <1>4, <1>5 DEF CaptureNext

\* jobs.py:91-124: the output is the end of what was stored, as much of it as
\* there is room for, and what a thread holds back is bounded: in every reachable
\* state, whatever is printed and however the appends of two streams interleave.
THEOREM OutputStaysBounded == CaptureSpec => []OutputIsBounded
<1>1. CaptureSpec => []OutInv
  BY OutInvInit, OutStep, CaptureInvariant, PTL DEF CaptureSpec
<1>2. OutInv /\ PendingIsBounded => OutputIsBounded
  BY OutInvIs DEF OutputIsBounded
<1> QED
  BY <1>1, <1>2, PendingStaysBounded, PTL

\* Every variable keeps its type, and no chunk is empty.
THEOREM CaptureTypesHold == CaptureSpec => []CaptureTypeOK
<1>1. OutInv => CaptureTypeOK
  <2> SUFFICES ASSUME OutInv, NEW i \in DOMAIN output
               PROVE  output[i].stream \in Streams /\ output[i].text # <<>>
    BY DEF OutInv, CaptureTypes, CaptureTypeOK
  <2>1. PICK j, k : OutputAt(j, k)
    BY DEF OutInv
  <2>2. stored \in Seq(StoredChunk) /\ Continues(read, read, stored)
    <3>1. \A n \in 1..Len(stored) : /\ stored[n].stream \in Streams
                                    /\ IsText(read[stored[n].stream], stored[n].text)
      <4>1. \A n \in 1..Len(stored) : stored[n] \in StoredChunk
        BY DEF OutInv, CaptureTypes
      <4> QED
        BY <4>1 DEF OutInv, CaptureTypes, StoredChunk
    <3>2. \A s \in Streams : read[s] \in Seq(Chars) /\ Extends(read[s], read[s])
      <4>1. \A s \in Streams : read[s] \in Seq(Chars)
        BY DEF OutInv, CaptureTypes
      <4>2. \A t \in Seq(Chars) : Len(t) \in Nat /\ Extends(t, t)
        BY DEF Extends
      <4> QED
        BY <4>1, <4>2
    <3>3. stored \in Seq(StoredChunk)
      BY DEF OutInv, CaptureTypes
    <3> QED
      BY <3>1, <3>2, <3>3 DEF Continues
  <2>3. output \in Seq(StoredChunk)
    BY <2>1, <2>2, LatestIsText DEF OutputAt
  <2>4. output[i] \in StoredChunk
    BY <2>3
  <2> QED
    BY <2>4 DEF StoredChunk
<1>2. CaptureSpec => []OutInv
  BY OutInvInit, OutStep, CaptureInvariant, PTL DEF CaptureSpec
<1> QED
  BY <1>1, <1>2, PTL

------------------------------------------------------------------------------
\* Redaction in parts

\* Joining and appending.
LEMMA JoinAppend ==
  ASSUME NEW q \in Seq(Nat), NEW r \in Seq(Nat), NEW p \in Nat
  PROVE  Append(q \o r, p) = q \o Append(r, p)
BY SMTT(60)

\* Joining three.
LEMMA JoinThree ==
  ASSUME NEW q \in Seq(Nat), NEW r \in Seq(Nat), NEW z \in Seq(Nat)
  PROVE  (q \o r) \o z = q \o (r \o z) /\ q \o <<>> = q /\ <<>> \o q = q /\ q \o r \in Seq(Nat)
OBVIOUS

\* The first m characters of part are those of text after a, and as hidden as they are.
SamePart(says, text, w, part, a, m) ==
  \A k \in 1..m : part[k] = text[a + k] /\ (Hidden(w, k) <=> Hidden(says, a + k))

\* A part is redacted as it is in the whole.
LEMMA RedactsAgree ==
  ASSUME NEW text \in Seq(Nat), NEW part \in Seq(Nat), NEW says, NEW w,
         NEW F \in [0..Len(text) -> Seq(Nat)], NEW G \in [0..Len(part) -> Seq(Nat)],
         Redacts(says, text, F), Redacts(w, part, G),
         NEW a \in Nat, NEW m \in Nat, a + m <= Len(text), m <= Len(part),
         SamePart(says, text, w, part, a, m)
  PROVE  F[a + m] = F[a] \o G[m]
<1> DEFINE T == {k \in 0..m : F[a + k] = F[a] \o G[k]}
<1>0. Len(text) \in Nat /\ Len(part) \in Nat /\ a \in 0..Len(text)
  OBVIOUS
<1>f. \A j \in 0..Len(text) : F[j] \in Seq(Nat)
  OBVIOUS
<1>g. \A j \in 0..Len(part) : G[j] \in Seq(Nat)
  OBVIOUS
<1>1. 0 \in T
  <2>1. G[0] = <<>>
    BY DEF Redacts
  <2>2. F[a] \in Seq(Nat)
    BY <1>0, <1>f
  <2>3. F[a] \o <<>> = F[a]
    BY <2>2
  <2>4. a + 0 = a /\ 0 \in 0..m
    OBVIOUS
  <2> QED
    BY <2>1, <2>3, <2>4
<1>2. ASSUME NEW k \in 1..m, k - 1 \in T PROVE k \in T
  <2>0. /\ a + k \in 1..Len(text) /\ k \in 1..Len(part) /\ (a + k) - 1 = a + (k - 1)
        /\ k - 1 \in 0..Len(part) /\ k \in 0..m
    BY <1>0
  <2>1. F[a + (k - 1)] = F[a] \o G[k - 1]
    BY <1>2
  <2>2. F[a] \in Seq(Nat) /\ G[k - 1] \in Seq(Nat) /\ part[k] \in Nat /\ Mark \in Nat
    <3>1. F[a] \in Seq(Nat) /\ G[k - 1] \in Seq(Nat)
      BY <1>0, <1>f, <1>g, <2>0
    <3>2. part[k] \in Nat
      BY <2>0, SMTT(60)
    <3> QED
      BY <3>1, <3>2 DEF Mark
  <2>3. part[k] = text[a + k] /\ (Hidden(w, k) <=> Hidden(says, a + k))
    BY DEF SamePart
  <2>4. F[a + k] = IF ~Hidden(says, a + k) THEN Append(F[a + (k - 1)], text[a + k])
                   ELSE IF Hidden(says, a + (k - 1)) THEN F[a + (k - 1)] ELSE Append(F[a + (k - 1)], Mark)
    BY <2>0 DEF Redacts
  <2>5. G[k] = IF ~Hidden(w, k) THEN Append(G[k - 1], part[k])
               ELSE IF Hidden(w, k - 1) THEN G[k - 1] ELSE Append(G[k - 1], Mark)
    BY <2>0 DEF Redacts
  <2>6. /\ Append(F[a + (k - 1)], part[k]) = F[a] \o Append(G[k - 1], part[k])
        /\ Append(F[a + (k - 1)], Mark) = F[a] \o Append(G[k - 1], Mark)
    <3>1. /\ Append(F[a] \o G[k - 1], part[k]) = F[a] \o Append(G[k - 1], part[k])
          /\ Append(F[a] \o G[k - 1], Mark) = F[a] \o Append(G[k - 1], Mark)
      BY <2>2, JoinAppend, ZenonT(60)
    <3> QED
      BY <2>1, <3>1, Zenon
  <2>7. Hidden(w, k) => (Hidden(w, k - 1) <=> Hidden(says, a + (k - 1)))
    <3>1. CASE k = 1
      BY <3>1 DEF Hidden
    <3>2. CASE k # 1
      <4>1. k - 1 \in 1..m
        BY <3>2
      <4> QED
        BY <4>1 DEF SamePart
    <3> QED
      BY <3>1, <3>2
  <2>8. F[a + k] = F[a] \o G[k]
    <3>1. CASE ~Hidden(w, k)
      BY <2>3, <2>4, <2>5, <2>6, <3>1
    <3>2. CASE Hidden(w, k)
      <4>1. CASE Hidden(w, k - 1)
        BY <2>1, <2>3, <2>4, <2>5, <2>7, <3>2, <4>1
      <4>2. CASE ~Hidden(w, k - 1)
        BY <2>3, <2>4, <2>5, <2>6, <2>7, <3>2, <4>2
      <4> QED
        BY <4>1, <4>2
    <3> QED
      BY <3>1, <3>2
  <2> QED
    BY <2>0, <2>8
<1> HIDE DEF T
<1>3. \A k \in 0..m : k \in T
  BY <1>1, <1>2, UpTo
<1>4. m \in 0..m
  OBVIOUS
<1> QED
  BY <1>3, <1>4 DEF T

\* F holds what redaction makes of the first characters of all that was printed.
Whole(t, F) == F \in [0..Len(t) -> Seq(Nat)] /\ Redacts(t, Span(1, Len(t)), F)

\* There is such an F.
LEMMA WholeExists == ASSUME NEW t \in Seq(Chars) PROVE \E F : Whole(t, F)
<1> DEFINE w == Span(1, Len(t))
<1>1. w \in Seq(Nat) /\ Len(w) = Len(t)
  <2>1. 1 \in Nat \ {0} /\ Len(t) \in Nat /\ 1 <= Len(t) + 1 /\ Len(t) + 1 - 1 = Len(t)
    OBVIOUS
  <2> QED
    BY <2>1, SpanIs
<1>2. PICK F \in [0..Len(w) -> Seq(Nat)] : Redacts(t, w, F)
  BY <1>1, RedactionExists
<1> QED
  BY <1>1, <1>2 DEF Whole

\* After a cut between tokens a text is redacted as if nothing were before it.
LEMMA SegmentIs ==
  ASSUME NEW t \in Seq(Chars), NEW F, Whole(t, F), NamesFit(t),
         NEW b \in 1..Len(t) + 1, Clean(t, b), NEW e \in b - 1..Len(t)
  PROVE  /\ F[e] = F[b - 1] \o Redacted(t, Span(b, e))
         /\ Redacted(t, Span(b, e)) \in Seq(Nat) /\ F[b - 1] \in Seq(Nat) /\ F[e] \in Seq(Nat)
<1> DEFINE w == Span(1, Len(t))
           part == Span(b, e)
           says == Spelled(t, part)
           a == b - 1
           m == e + 1 - b
<1>0. /\ a \in Nat /\ m \in Nat /\ a + m = e /\ Len(t) \in Nat /\ e \in Nat /\ b \in Nat \ {0} /\ b <= e + 1 /\ e <= Len(t)
      /\ 1 \in Nat \ {0} /\ 1 <= Len(t) + 1 /\ Len(t) + 1 - 1 = Len(t)
  OBVIOUS
<1>1. w \in Seq(Nat) /\ Len(w) = Len(t) /\ w = [k \in 1..Len(t) |-> 1 + k - 1]
  <2>1. w \in Seq(Nat) /\ Len(w) = Len(t) + 1 - 1 /\ w = [k \in 1..Len(t) + 1 - 1 |-> 1 + k - 1]
    BY <1>0, SpanIs
  <2> QED
    BY <1>0, <2>1
<1>2. part \in Seq(Nat) /\ Len(part) = m /\ part = [k \in 1..m |-> b + k - 1]
  BY <1>0, SpanIs
<1>3. From(t, b, says) /\ Len(says) = m
  BY <1>0, SpelledSpan
<1> HIDE DEF w, says
<1>4. PICK G \in [0..Len(part) -> Seq(Nat)] : Redacts(says, part, G) /\ Redacted(t, part) = G[Len(part)]
  BY <1>2, RedactedIs DEF says
<1> HIDE DEF part
<1>5. SamePart(t, w, says, part, a, m)
  <2> SUFFICES ASSUME NEW k \in 1..m PROVE part[k] = w[a + k] /\ (Hidden(says, k) <=> Hidden(t, a + k))
    BY DEF SamePart
  <2>1. a + k \in 1..Len(t) /\ 1 + (a + k) - 1 = b + k - 1
    BY <1>0
  <2>2. part[k] = w[a + k]
    BY <1>1, <1>2, <2>1
  <2>3. Hidden(says, k) => Hidden(t, a + k)
    <3>1. b \in 1..Len(t) /\ k \in 1..Len(says) /\ b + k - 1 = a + k
      BY <1>0, <1>3
    <3> QED
      BY <1>0, <1>3, <3>1, HiddenFromClean
  <2>4. Hidden(t, a + k) => Hidden(says, k)
    <3>1. b \in 1..Len(t) /\ a + k \in b..Len(t) /\ a + k <= b + Len(says) - 1 /\ (a + k) + 1 - b = k
      BY <1>0, <1>3
    <3> HIDE DEF a
    <3> QED
      BY <1>3, <3>1, HiddenAfterCut
  <2> QED
    BY <2>2, <2>3, <2>4
<1>6. F \in [0..Len(w) -> Seq(Nat)] /\ Redacts(t, w, F)
  BY <1>1 DEF Whole, w
<1>7. F[a + m] = F[a] \o G[m]
  <2>1. a + m <= Len(w) /\ m <= Len(part)
    BY <1>0, <1>1, <1>2
  <2>2. /\ w \in Seq(Nat) /\ part \in Seq(Nat) /\ a \in Nat /\ m \in Nat
        /\ Redacts(says, part, G) /\ Redacts(t, w, F)
    BY <1>0, <1>1, <1>2, <1>4, <1>6
  <2> HIDE DEF a, m
  <2> QED
    BY <1>4, <1>5, <1>6, <2>1, <2>2, RedactsAgree, ZenonT(60)
<1>8. F[a] \in Seq(Nat) /\ F[e] \in Seq(Nat) /\ G[m] \in Seq(Nat)
  <2>1. a \in 0..Len(w) /\ e \in 0..Len(w) /\ m \in 0..Len(part)
    BY <1>0, <1>1, <1>2
  <2> QED
    BY <1>4, <1>6, <2>1
<1>9. Redacted(t, part) = G[m] /\ F[a + m] = F[e]
  BY <1>0, <1>2, <1>4
<1> QED
  BY <1>7, <1>8, <1>9 DEF part

\* What is redacted of the first characters.
LEMMA FirstIs ==
  ASSUME NEW t \in Seq(Chars), NEW F, Whole(t, F), NamesFit(t), NEW e \in 0..Len(t)
  PROVE  Redacted(t, Span(1, e)) = F[e] /\ F[e] \in Seq(Nat)
<1>1. 1 \in 1..Len(t) + 1 /\ e \in 1 - 1..Len(t) /\ 1 - 1 = 0 /\ Clean(t, 1)
  BY DEF Clean
<1>2. F[e] = F[1 - 1] \o Redacted(t, Span(1, e)) /\ Redacted(t, Span(1, e)) \in Seq(Nat) /\ F[e] \in Seq(Nat)
  BY <1>1, SegmentIs
<1>3. F[0] = <<>>
  BY DEF Whole, Redacts
<1>4. F[e] = <<>> \o Redacted(t, Span(1, e))
  BY <1>1, <1>2, <1>3
<1> QED
  BY <1>2, <1>4, JoinThree

\* A value is hidden to the end of its token.
LEMMA HiddenStays ==
  ASSUME NEW t \in Seq(Chars), NEW a \in 1..Len(t), Hidden(t, a),
         NEW e \in a..Len(t), \A k \in a + 1..e : ~IsSpace(t[k])
  PROVE  \A k \in a..e : Hidden(t, k)
<1>1. PICK q \in 1..a - 1 : SecretAt(t, q) /\ InToken(t, q, a)
  BY HiddenBySecret
<1>2. ASSUME NEW k \in a..e PROVE Hidden(t, k)
  <2>1. InToken(t, q, k)
    <3>1. \A l \in q..k : l \in q..a \/ l \in a + 1..e
      OBVIOUS
    <3> QED
      BY <1>1, <3>1 DEF InToken
  <2>2. q \in 1..k - 1 /\ k \in Nat
    OBVIOUS
  <2> QED
    BY <1>1, <2>1, <2>2, HiddenBySecret
<1> QED
  BY <1>2

\* And nothing more is kept of it.
LEMMA HiddenAddsNothing ==
  ASSUME NEW t \in Seq(Chars), NEW F, Whole(t, F), NEW a \in 1..Len(t), NEW e \in a..Len(t),
         \A k \in a..e : Hidden(t, k)
  PROVE  F[e] = F[a]
<1> DEFINE m == e - a
           T == {k \in 0..m : F[a + k] = F[a]}
<1>0. m \in Nat /\ Len(t) \in Nat /\ a + m = e /\ m \in 0..m
  OBVIOUS
<1>1. 0 \in T
  BY <1>0
<1>2. ASSUME NEW k \in 1..m, k - 1 \in T PROVE k \in T
  <2>1. /\ a + k \in 1..Len(t) /\ (a + k) - 1 = a + (k - 1) /\ a + k \in a..e /\ a + (k - 1) \in a..e
        /\ k \in 0..m
    BY <1>0
  <2>2. a + k \in 1..Len(Span(1, Len(t)))
    <3>1. 1 \in Nat \ {0} /\ 1 <= Len(t) + 1 /\ Len(t) + 1 - 1 = Len(t)
      BY <1>0
    <3>2. Len(Span(1, Len(t))) = Len(t)
      BY <1>0, <3>1, SpanIs
    <3> QED
      BY <2>1, <3>2
  <2>3. F[a + k] = F[a + (k - 1)]
    BY <2>1, <2>2 DEF Whole, Redacts
  <2>4. F[a + (k - 1)] = F[a]
    BY <1>2
  <2> QED
    BY <2>1, <2>3, <2>4
<1> HIDE DEF T
<1>3. \A k \in 0..m : k \in T
  BY <1>0, <1>1, <1>2, UpTo
<1> QED
  BY <1>0, <1>3 DEF T

\* A mark after a text that hides nothing at its end stays.
LEMMA MarkedIs ==
  ASSUME NEW t \in Seq(Chars), NEW text, IsText(t, text), ~Hidden(Spelled(t, text), Len(text))
  PROVE  Redacted(t, Append(text, Mark)) = Append(Redacted(t, text), Mark)
<1> DEFINE m == Len(text)
           more == Append(text, Mark)
           says == Spelled(t, text)
           all == Spelled(t, more)
<1>0. text \in Seq(Nat) /\ m \in Nat
  BY DEF IsText
<1>1. /\ more \in Seq(Nat) /\ Len(more) = m + 1 /\ more[m + 1] = Mark
      /\ \A k \in 1..m : more[k] = text[k]
  BY <1>0 DEF Mark
<1> HIDE DEF more
<1>2. IsText(t, more)
  <2>1. Len(t) \in Nat /\ Mark <= Len(t)
    BY DEF Mark
  <2>2. \A k \in 1..Len(more) : k = m + 1 \/ k \in 1..m
    BY <1>0, <1>1
  <2>3. \A k \in 1..m : text[k] <= Len(t)
    BY DEF IsText
  <2> QED
    BY <1>1, <2>1, <2>2, <2>3 DEF IsText
<1>3. /\ Len(says) = m /\ says = [k \in 1..m |-> Char(t, text[k])]
      /\ Len(all) = m + 1 /\ all = [k \in 1..m + 1 |-> Char(t, more[k])]
  <2>1. Len(says) = m /\ says = [k \in 1..m |-> Char(t, text[k])]
    BY SpelledIs
  <2>2. Len(all) = Len(more) /\ all = [k \in 1..Len(more) |-> Char(t, more[k])]
    BY <1>2, SpelledIs
  <2> QED
    BY <1>1, <2>1, <2>2
<1>4. PICK G \in [0..m -> Seq(Nat)] : Redacts(says, text, G) /\ Redacted(t, text) = G[m]
  BY <1>0, RedactedIs
<1>5. PICK F \in [0..Len(more) -> Seq(Nat)] : Redacts(all, more, F) /\ Redacted(t, more) = F[Len(more)]
  BY <1>1, RedactedIs
<1> HIDE DEF says, all
<1>6. \A k \in 1..m : Hidden(says, k) <=> Hidden(all, k)
  <2> SUFFICES ASSUME NEW k \in 1..m PROVE Hidden(says, k) <=> Hidden(all, k)
    OBVIOUS
  <2>1. \A j \in 1..k : says[j] = all[j]
    <3>1. \A j \in 1..k : j \in 1..m /\ j \in 1..m + 1 /\ more[j] = text[j]
      BY <1>0, <1>1
    <3> QED
      BY <1>3, <3>1
  <2>2. k \in Nat /\ Len(says) \in Nat /\ Len(all) \in Nat /\ k <= Len(says) /\ k <= Len(all)
    BY <1>0, <1>3
  <2> QED
    BY <2>1, <2>2, HiddenInPrefix
<1>7. SamePart(all, more, says, text, 0, m)
  <2> SUFFICES ASSUME NEW k \in 1..m PROVE text[k] = more[0 + k] /\ (Hidden(says, k) <=> Hidden(all, 0 + k))
    BY DEF SamePart
  <2>1. 0 + k = k
    BY <1>0
  <2> QED
    BY <1>1, <1>6, <2>1
<1>8. F[0 + m] = F[0] \o G[m]
  <2>1. 0 \in Nat /\ 0 + m <= Len(more) /\ m <= Len(text)
    BY <1>0, <1>1
  <2>2. G \in [0..Len(text) -> Seq(Nat)]
    BY <1>4
  <2>3. Redacts(all, more, F) /\ Redacts(says, text, G)
    BY <1>4, <1>5
  <2> HIDE DEF m
  <2> QED
    BY <1>0, <1>1, <1>5, <1>7, <2>1, <2>2, <2>3, RedactsAgree
<1>9. F[m] = G[m]
  <2>1. F[0] = <<>> /\ 0 + m = m
    BY <1>0, <1>5 DEF Redacts
  <2>2. G[m] \in Seq(Nat)
    <3>1. m \in 0..m
      BY <1>0
    <3> QED
      BY <1>4, <3>1
  <2>3. <<>> \o G[m] = G[m]
    BY <2>2
  <2> QED
    BY <1>8, <2>1, <2>3
<1>10. ~Hidden(all, m)
  <2>1. CASE m = 0
    BY <2>1 DEF Hidden
  <2>2. CASE m # 0
    <3>1. m \in 1..m
      BY <1>0, <2>2
    <3> QED
      BY <1>6, <3>1 DEF says
  <2> QED
    BY <2>1, <2>2
<1>11. F[m + 1] = Append(F[m], Mark)
  <2>1. m + 1 \in 1..Len(more) /\ (m + 1) - 1 = m
    BY <1>0, <1>1
  <2> HIDE DEF m
  <2> QED
    BY <1>1, <1>5, <1>10, <2>1 DEF Redacts
<1> QED
  BY <1>1, <1>4, <1>5, <1>9, <1>11 DEF more

\* When tokens fit, a flush never cuts one.
LEMMA KeptIsClean ==
  ASSUME NEW t \in Seq(Chars), TokensFit(t), NEW b \in 1..Len(t), Clean(t, b)
  PROVE  Clean(t, Kept(t, b)) /\ Kept(t, b) \in b..Len(t) + 1
<1> DEFINE c == Kept(t, b)
<1>0. /\ Reserve \in Nat \ {0} /\ Threshold \in Nat /\ Chunk \in Nat /\ Len(t) \in Nat
      /\ Reserve < Threshold /\ Chunk > 1
  BY SizesAreNumbers
<1>1. \/ c \in b + 1..Len(t) + 1 /\ t[c - 1] = "n"
      \/ c = b
      \/ c \in b + 1..Len(t) + 1 - Reserve /\ IsSpace(t[c - 1])
      \/ /\ Len(t) + 1 - b >= Threshold /\ c = Len(t) + 1 - Reserve
         /\ \A k \in b..Len(t) - Reserve : ~IsSpace(t[k])
  BY KeptIs
<1> HIDE DEF c
<1>2. CASE c \in b + 1..Len(t) + 1 /\ t[c - 1] = "n"
  <2>1. IsSpace(t[c - 1])
    BY <1>2 DEF IsSpace
  <2> QED
    BY <1>0, <1>2, <2>1 DEF Clean, c
<1>3. CASE c = b
  BY <1>0, <1>3 DEF c
<1>4. CASE c \in b + 1..Len(t) + 1 - Reserve /\ IsSpace(t[c - 1])
  BY <1>0, <1>4 DEF Clean, c
<1>5. CASE /\ Len(t) + 1 - b >= Threshold /\ c = Len(t) + 1 - Reserve
           /\ \A k \in b..Len(t) - Reserve : ~IsSpace(t[k])
  <2> DEFINE q == Len(t) - Reserve
  <2>1. q \in 1..Len(t) /\ b \in 1..q /\ q + 1 - b > Room
    BY <1>0, <1>5 DEF Room
  <2>2. InToken(t, b, q)
    BY <1>5 DEF InToken
  <2>3. q \in DOMAIN t /\ q + 1 - b \in Nat /\ Room \in Int
    BY <1>0, <2>1 DEF Room
  <2>4. q + 1 - b <= Room
    BY <2>1, <2>2, <2>3 DEF TokensFit
  <2> HIDE DEF q
  <2> QED
    BY <2>1, <2>3, <2>4
<1> QED
  BY <1>1, <1>2, <1>3, <1>4, <1>5

\* What storing some pieces adds.
Added(t, ps) ==
  IF Len(ps) = 0 THEN <<>>
  ELSE IF Len(ps) = 1 THEN Redacted(t, ps[1]) ELSE Redacted(t, ps[1]) \o Redacted(t, ps[2])

\* Where the rest of a text begins when nothing of it has been lost.
Follows(t, b, on) == IF on THEN b = Len(t) + 1 /\ Len(t) > 0 /\ Hidden(t, Len(t)) ELSE Clean(t, b)

\* A token begins between tokens.
LEMMA TokenIsClean ==
  ASSUME NEW t \in Seq(Chars), NamesFit(t), NEW b \in 1..Len(t), Clean(t, b)
  PROVE  /\ TokenStart(t, b) \in b..Len(t) + 1 /\ Clean(t, TokenStart(t, b))
         /\ \A k \in TokenStart(t, b)..Len(t) : ~IsSpace(t[k])
         /\ \A k \in TokenStart(t, b)..Len(t) : TokenHidesAt(t, b, k) <=> Hidden(t, k)
<1> DEFINE c == TokenStart(t, b)
<1>1. c \in b..Len(t) + 1 /\ Clean(t, c) /\ \A k \in c..Len(t) : ~IsSpace(t[k])
  <2>1. /\ c \in b..Len(t) + 1 /\ (c # b => c > 1 /\ IsSpace(t[c - 1]))
        /\ \A k \in c..Len(t) : ~IsSpace(t[k])
    BY TokenStartIs
  <2> HIDE DEF c
  <2>2. Clean(t, c)
    BY <2>1 DEF Clean
  <2> QED
    BY <2>1, <2>2
<1>2. ASSUME NEW k \in c..Len(t) PROVE TokenHidesAt(t, b, k) <=> Hidden(t, k)
  <2> DEFINE v == SubSeq(t, c, Len(t))
             h == k + 1 - c
  <2>1. TokenHidesAt(t, b, k) <=> Hidden(v, h)
    BY DEF TokenHidesAt
  <2> HIDE DEF c
  <2>2. c \in 1..Len(t) /\ k \in 1..Len(t) /\ Len(t) \in Nat
    BY <1>1
  <2>3. Len(v) = Len(t) + 1 - c /\ \A j \in 1..Len(v) : v[j] = t[c + j - 1]
    BY <2>2
  <2> HIDE DEF v
  <2>4. From(t, c, v)
    BY <2>2, <2>3 DEF From
  <2>5. h \in 1..Len(v) /\ c + h - 1 = k /\ k <= c + Len(v) - 1
    BY <2>2, <2>3
  <2>6. Hidden(v, h) => Hidden(t, c + h - 1)
    <3> HIDE DEF h
    <3> QED
      BY <1>1, <2>2, <2>4, <2>5, HiddenFromClean
  <2>7. Hidden(t, k) => Hidden(v, k + 1 - c)
    BY <1>1, <2>2, <2>4, <2>5, HiddenAfterCut
  <2> QED
    BY <2>1, <2>5, <2>6, <2>7
<1> QED
  BY <1>1, <1>2

\* A flush that has taken f of u loses nothing, when what is redacted so far is F's.
Lossless(u, F, b, f) ==
  /\ F[b - 1] \o Added(u, f.pieces) = F[f.from - 1]
  /\ Len(f.pieces) \in 0..2 /\ f.from \in 1..Len(u) + 1 /\ Follows(u, f.from, f.redacting)

\* The whole has a value for each of its beginnings.
LEMMA WholeIs ==
  ASSUME NEW t \in Seq(Chars), NEW F, Whole(t, F)
  PROVE  Len(Span(1, Len(t))) = Len(t) /\ Len(t) \in Nat /\ \A k \in 0..Len(t) : F[k] \in Seq(Nat)
<1>1. 1 \in Nat \ {0} /\ Len(t) \in Nat /\ 1 <= Len(t) + 1 /\ Len(t) + 1 - 1 = Len(t)
  OBVIOUS
<1>2. Len(Span(1, Len(t))) = Len(t)
  BY <1>1, SpanIs
<1> QED
  BY <1>1, <1>2 DEF Whole

\* Where a flush begins: after the rest of a value, which adds nothing.
LEMMA FlushBegins ==
  ASSUME NEW t \in Seq(Chars), NEW u \in Seq(Chars), Extends(t, u), Len(t) < Len(u),
         NEW start \in 1..Len(t) + 1, NEW on \in BOOLEAN, Follows(t, start, on),
         NEW F, Whole(u, F), NEW b, b = IF on THEN AfterSecret(u, start) ELSE start
  PROVE  /\ b \in 1..Len(u) + 1 /\ F[b - 1] = F[start - 1]
         /\ b <= Len(u) => Clean(u, b)
         /\ b > Len(u) => on /\ Hidden(u, Len(u))
<1>0. Len(u) \in Nat /\ Len(t) \in Nat /\ start \in 1..Len(u) + 1 /\ start <= Len(u) /\ Len(t) <= Len(u)
  OBVIOUS
<1>1. CASE on
  <2>1. start = Len(t) + 1 /\ Len(t) > 0 /\ Hidden(t, Len(t))
    BY <1>1 DEF Follows
  <2>2. b = AfterSecret(u, start)
    BY <1>1
  <2>3. /\ b \in start..Len(u) + 1 /\ (b <= Len(u) => IsSpace(u[b]))
        /\ \A k \in start..b - 1 : ~IsSpace(u[k])
    BY <1>0, <2>2, AfterSecretIs
  <2>4. /\ b \in 1..Len(u) + 1 /\ Len(t) \in 1..Len(u) /\ b - 1 \in Len(t)..Len(u) /\ start - 1 = Len(t)
        /\ b > Len(u) => b - 1 = Len(u)
    BY <1>0, <2>1, <2>3
  <2>5. Hidden(u, Len(t))
    <3>1. Len(t) \in Nat /\ Len(t) <= Len(t) /\ Len(t) <= Len(u) /\ \A j \in 1..Len(t) : t[j] = u[j]
      BY <1>0 DEF Extends
    <3> QED
      BY <2>1, <3>1, HiddenInPrefix
  <2>6. \A k \in Len(t)..b - 1 : Hidden(u, k)
    <3>1. \A k \in Len(t) + 1..b - 1 : ~IsSpace(u[k])
      BY <2>1, <2>3
    <3> QED
      BY <2>4, <2>5, <3>1, HiddenStays
  <2>7. F[b - 1] = F[Len(t)]
    BY <2>4, <2>6, HiddenAddsNothing
  <2>8. b - 1 \in Len(t)..b - 1
    BY <2>4
  <2>9. b > Len(u) => Hidden(u, Len(u))
    BY <2>4, <2>6, <2>8
  <2>10. b <= Len(u) => Clean(u, b)
    BY <2>3 DEF Clean
  <2> QED
    BY <1>1, <2>4, <2>7, <2>9, <2>10
<1>2. CASE ~on
  <2>1. b = start /\ Clean(t, start)
    BY <1>2 DEF Follows
  <2>2. Clean(u, start)
    <3>1. start # 1 => start - 1 \in 1..Len(t)
      BY <1>0
    <3>2. \A k \in 1..Len(t) : t[k] = u[k]
      BY DEF Extends
    <3>3. u[start] = t[start] \/ start = Len(t) + 1
      BY <3>2
    <3> QED
      BY <1>0, <2>1, <3>1, <3>2, <3>3 DEF Clean
  <2>3. ~ (start > Len(u))
    BY <1>0
  <2> QED
    BY <1>0, <2>1, <2>2, <2>3
<1> QED
  BY <1>1, <1>2

\* A value at the end of a text is one mark, after what precedes it.
LEMMA SecretLosesNothing ==
  ASSUME NEW u \in Seq(Chars), TokensFit(u), NamesFit(u), NEW F, Whole(u, F),
         NEW b \in 1..Len(u), Clean(u, b), NEW c, c = TokenStart(u, b), NEW l \in c..Len(u),
         TokenHidesAt(u, b, l), \A k \in c..l - 1 : ~TokenHidesAt(u, b, k)
  PROVE  Lossless(u, F, b, Flush(Len(u) + 1, TRUE, <<Span(b, c - 1), Append(Span(c, l - 1), Mark)>>))
<1> DEFINE v == Span(b, c - 1)
           w == Span(c, l - 1)
           x == Append(w, Mark)
<1>0. Len(u) \in Nat
  OBVIOUS
<1>1. /\ c \in b..Len(u) + 1 /\ Clean(u, c)
      /\ \A k \in c..Len(u) : ~IsSpace(u[k])
      /\ \A k \in c..Len(u) : TokenHidesAt(u, b, k) <=> Hidden(u, k)
  BY TokenIsClean
<1>3. Hidden(u, l) /\ \A k \in c..l - 1 : ~Hidden(u, k)
  <2>1. \A k \in c..l - 1 : k \in c..Len(u)
    BY <1>0, <1>1
  <2> QED
    BY <1>1, <2>1
<1>4. /\ c \in 1..Len(u) /\ l \in 1..Len(u) /\ b \in Nat \ {0} /\ c \in Nat \ {0}
      /\ c - 1 \in b - 1..Len(u) /\ l - 1 \in c - 1..Len(u) /\ c \in 1..Len(u) + 1 /\ b \in 1..Len(u) + 1
      /\ c - 1 \in 0..Len(u) /\ l - 1 \in 0..Len(u) /\ l - 1 \in Nat /\ c <= (l - 1) + 1 /\ l - 1 <= Len(u)
      /\ (l - 1) + 1 - c = l - c /\ l - c \in Nat /\ b - 1 \in 0..Len(u)
  BY <1>0, <1>1
<1>w. Len(Span(1, Len(u))) = Len(u) /\ \A k \in 0..Len(u) : F[k] \in Seq(Nat)
  BY WholeIs
<1>5. F[c - 1] = F[b - 1] \o Redacted(u, v) /\ Redacted(u, v) \in Seq(Nat)
  <2>1. b \in 1..Len(u) + 1 /\ c - 1 \in b - 1..Len(u)
    BY <1>4
  <2> QED
    BY <2>1, SegmentIs, Zenon
<1>6. F[l - 1] = F[c - 1] \o Redacted(u, w) /\ Redacted(u, w) \in Seq(Nat)
  <2>1. c \in 1..Len(u) + 1 /\ l - 1 \in c - 1..Len(u) /\ Clean(u, c)
    BY <1>1, <1>4
  <2> QED
    BY <2>1, SegmentIs, ZenonT(60)
<1>7. l > c
  <2>1. TokenHidesAt(u, b, c) => FALSE
    <3> DEFINE s == SubSeq(u, c, Len(u))
    <3>1. TokenHidesAt(u, b, c) <=> Hidden(s, c + 1 - c)
      BY DEF TokenHidesAt
    <3>2. c + 1 - c = 1
      BY <1>4
    <3>3. ~Hidden(s, 1)
      BY DEF Hidden
    <3> QED
      BY <3>1, <3>2, <3>3
  <2>2. l # c
    BY <2>1
  <2> QED
    BY <1>4, <2>2
<1>8. Redacted(u, x) = Append(Redacted(u, w), Mark)
  <2> DEFINE says == Spelled(u, w)
  <2>1. IsText(u, w) /\ From(u, c, says) /\ Len(says) = l - c
    BY <1>0, <1>4, SpelledSpan
  <2>2. Len(w) = l - c
    BY <1>4, SpanIs
  <2> HIDE DEF w
  <2>3. ~Hidden(says, l - c)
    <3>1. l - c \in 1..Len(says) /\ c + (l - c) - 1 = l - 1 /\ l - 1 \in c..l - 1
      BY <1>4, <1>7, <2>1
    <3>2. Hidden(says, l - c) => Hidden(u, c + (l - c) - 1)
      <4> HIDE DEF says
      <4> QED
        BY <1>0, <1>1, <1>4, <2>1, <3>1, HiddenFromClean
    <3> QED
      BY <1>3, <3>1, <3>2
  <2>4. ~Hidden(Spelled(u, w), Len(w))
    BY <2>2, <2>3
  <2> QED
    BY <2>1, <2>4, MarkedIs
<1>9. F[l] = Append(F[l - 1], Mark)
  <2>1. l - 1 \in c..l - 1
    BY <1>4, <1>7
  <2>2. l \in 1..Len(Span(1, Len(u))) /\ Hidden(u, l) /\ ~Hidden(u, l - 1)
    BY <1>3, <1>4, <1>w, <2>1
  <2> QED
    BY <2>2 DEF Whole, Redacts
<1>10. F[Len(u)] = F[l] /\ Hidden(u, Len(u))
  <2>1. Len(u) \in l..Len(u) /\ \A k \in l + 1..Len(u) : k \in c..Len(u)
    BY <1>0, <1>1, <1>4
  <2>2. \A k \in l + 1..Len(u) : ~IsSpace(u[k])
    BY <1>1, <2>1
  <2>3. \A k \in l..Len(u) : Hidden(u, k)
    BY <1>3, <1>4, <2>1, <2>2, HiddenStays
  <2>4. F[Len(u)] = F[l]
    BY <1>4, <2>1, <2>3, HiddenAddsNothing
  <2> QED
    BY <2>1, <2>3, <2>4
<1> HIDE DEF v, w, x
<1>11. F[b - 1] \o (Redacted(u, v) \o Redacted(u, x)) = F[l]
  <2>1. F[b - 1] \in Seq(Nat) /\ F[c - 1] \in Seq(Nat) /\ F[l - 1] \in Seq(Nat) /\ Mark \in Nat
    BY <1>4, <1>w DEF Mark
  <2>2. Append(Redacted(u, w), Mark) \in Seq(Nat)
    BY <1>6, <2>1
  <2>3. Append(F[c - 1] \o Redacted(u, w), Mark) = F[c - 1] \o Append(Redacted(u, w), Mark)
    BY <1>6, <2>1, JoinAppend
  <2>4. F[l] = F[c - 1] \o Append(Redacted(u, w), Mark)
    BY <1>6, <1>9, <2>3, Zenon
  <2>5. (F[b - 1] \o Redacted(u, v)) \o Append(Redacted(u, w), Mark) = F[b - 1] \o (Redacted(u, v) \o Append(Redacted(u, w), Mark))
    <3> DEFINE q == F[b - 1]
               r == Redacted(u, v)
               z == Append(Redacted(u, w), Mark)
    <3>1. q \in Seq(Nat) /\ r \in Seq(Nat) /\ z \in Seq(Nat)
      BY <1>5, <2>1, <2>2
    <3> HIDE DEF q, r, z
    <3>2. (q \o r) \o z = q \o (r \o z)
      BY <3>1, JoinThree, SMTT(60)
    <3> QED
      BY <3>2 DEF q, r, z
  <2> QED
    BY <1>5, <1>8, <2>4, <2>5, Zenon
<1>12. Added(u, <<v, x>>) = Redacted(u, v) \o Redacted(u, x) /\ Len(<<v, x>>) \in 0..2
  BY DEF Added
<1>13. Follows(u, Len(u) + 1, TRUE)
  <2>1. Len(u) > 0
    BY <1>4
  <2> QED
    BY <1>10, <2>1 DEF Follows
<1>14. (Len(u) + 1) - 1 = Len(u) /\ Len(u) + 1 \in 1..Len(u) + 1
  BY <1>0
<1>15. F[b - 1] \o Added(u, <<v, x>>) = F[(Len(u) + 1) - 1]
  BY <1>10, <1>11, <1>12, <1>14, Zenon
<1>16. Lossless(u, F, b, Flush(Len(u) + 1, TRUE, <<v, x>>))
  <2> DEFINE ps == <<v, x>>
  <2>1. F[b - 1] \o Added(u, ps) = F[(Len(u) + 1) - 1] /\ Len(ps) \in 0..2
    BY <1>12, <1>15
  <2> HIDE DEF ps
  <2>2. Lossless(u, F, b, Flush(Len(u) + 1, TRUE, ps))
    BY <1>13, <1>14, <2>1 DEF Lossless, Flush
  <2> QED
    BY <2>2 DEF ps
<1> QED
  BY <1>16 DEF v, w, x

\* So is a text without one, up to where it is kept.
LEMMA PartLosesNothing ==
  ASSUME NEW u \in Seq(Chars), TokensFit(u), NamesFit(u), NEW F, Whole(u, F),
         NEW b \in 1..Len(u), Clean(u, b)
  PROVE  Lossless(u, F, b, Flush(Kept(u, b), FALSE, <<Span(b, Kept(u, b) - 1)>>))
<1> DEFINE e == Kept(u, b)
           v == Span(b, e - 1)
<1>1. Clean(u, e) /\ e \in b..Len(u) + 1
  BY KeptIsClean
<1> HIDE DEF e
<1>3. e - 1 \in b - 1..Len(u) /\ e \in 1..Len(u) + 1 /\ b \in 1..Len(u) + 1
  BY <1>1
<1>4. F[e - 1] = F[b - 1] \o Redacted(u, v)
  BY <1>3, SegmentIs
<1> HIDE DEF v
<1>5. Added(u, <<v>>) = Redacted(u, v) /\ Len(<<v>>) \in 0..2
  BY DEF Added
<1>6. Follows(u, e, FALSE)
  BY <1>1 DEF Follows
<1>7. Lossless(u, F, b, Flush(e, FALSE, <<v>>))
  <2> DEFINE ps == <<v>>
  <2>1. F[b - 1] \o Added(u, ps) = F[e - 1] /\ Len(ps) \in 0..2
    BY <1>4, <1>5
  <2> HIDE DEF ps
  <2>2. Lossless(u, F, b, Flush(e, FALSE, ps))
    BY <1>3, <1>6, <2>1 DEF Lossless, Flush
  <2> QED
    BY <2>2 DEF ps
<1> QED
  BY <1>7 DEF e, v

\* A flush loses nothing.
LEMMA FlushLosesNothing ==
  ASSUME NEW t \in Seq(Chars), NEW u \in Seq(Chars), Extends(t, u), Len(t) < Len(u),
         TokensFit(u), NEW start \in 1..Len(t) + 1, NEW on \in BOOLEAN, Follows(t, start, on),
         NEW F, Whole(u, F)
  PROVE  Lossless(u, F, start, Flushed(u, start, on))
<1>1. PICK b : b = IF on THEN AfterSecret(u, start) ELSE start
  OBVIOUS
<1>2. /\ b \in 1..Len(u) + 1 /\ F[b - 1] = F[start - 1]
      /\ b <= Len(u) => Clean(u, b)
      /\ b > Len(u) => on /\ Hidden(u, Len(u))
  BY <1>1, FlushBegins
<1>3. NamesFit(u) /\ Len(u) \in Nat
  BY DEF TokensFit, NamesFit
<1>4. \/ b > Len(u) /\ Flushed(u, start, on) = Flush(b, on, <<>>)
      \/ /\ b <= Len(u)
         /\ \E l \in TokenStart(u, b)..Len(u) :
              /\ TokenHidesAt(u, b, l) /\ \A k \in TokenStart(u, b)..l - 1 : ~TokenHidesAt(u, b, k)
              /\ Flushed(u, start, on) =
                   Flush(Len(u) + 1, TRUE,
                         <<Span(b, TokenStart(u, b) - 1),
                           Append(Span(TokenStart(u, b), l - 1), Mark)>>)
      \/ /\ b <= Len(u) /\ \A k \in TokenStart(u, b)..Len(u) : ~TokenHidesAt(u, b, k)
         /\ Flushed(u, start, on) = Flush(Kept(u, b), FALSE, <<Span(b, Kept(u, b) - 1)>>)
  BY <1>1, <1>2, FlushIs, ZenonT(60)
<1>5. Lossless(u, F, b, Flushed(u, start, on))
  <2>1. CASE b > Len(u) /\ Flushed(u, start, on) = Flush(b, on, <<>>)
    <3>1. b = Len(u) + 1 /\ on /\ Hidden(u, Len(u)) /\ b - 1 \in 0..Len(u)
      BY <1>2, <1>3, <2>1
    <3>2. Len(u) > 0
      <4>1. Len(u) = 0 => ~Hidden(u, Len(u))
        BY DEF Hidden
      <4> QED
        BY <1>3, <3>1, <4>1
    <3>3. F[b - 1] \in Seq(Nat)
      BY <3>1, WholeIs
    <3>4. F[b - 1] \o <<>> = F[b - 1]
      BY <3>3, JoinThree
    <3>5. Added(u, <<>>) = <<>> /\ Len(<<>>) \in 0..2
      BY DEF Added
    <3>6. Follows(u, b, on)
      BY <3>1, <3>2 DEF Follows
    <3>7. Lossless(u, F, b, Flush(b, on, <<>>))
      BY <1>2, <3>4, <3>5, <3>6 DEF Lossless, Flush
    <3> QED
      BY <2>1, <3>7
  <2>2. CASE /\ b <= Len(u)
             /\ \E l \in TokenStart(u, b)..Len(u) :
                  /\ TokenHidesAt(u, b, l) /\ \A k \in TokenStart(u, b)..l - 1 : ~TokenHidesAt(u, b, k)
                  /\ Flushed(u, start, on) =
                       Flush(Len(u) + 1, TRUE,
                             <<Span(b, TokenStart(u, b) - 1),
                               Append(Span(TokenStart(u, b), l - 1), Mark)>>)
    <3>1. PICK l \in TokenStart(u, b)..Len(u) :
            /\ TokenHidesAt(u, b, l) /\ \A k \in TokenStart(u, b)..l - 1 : ~TokenHidesAt(u, b, k)
            /\ Flushed(u, start, on) =
                 Flush(Len(u) + 1, TRUE,
                       <<Span(b, TokenStart(u, b) - 1),
                         Append(Span(TokenStart(u, b), l - 1), Mark)>>)
      BY <2>2
    <3>2. b \in 1..Len(u) /\ Clean(u, b)
      BY <1>2, <1>3, <2>2
    <3>3. Lossless(u, F, b, Flush(Len(u) + 1, TRUE, <<Span(b, TokenStart(u, b) - 1),
                                                      Append(Span(TokenStart(u, b), l - 1), Mark)>>))
      BY <1>3, <3>1, <3>2, SecretLosesNothing
    <3> QED
      BY <3>1, <3>3, Zenon
  <2>3. CASE b <= Len(u) /\ Flushed(u, start, on) = Flush(Kept(u, b), FALSE, <<Span(b, Kept(u, b) - 1)>>)
    <3>1. b \in 1..Len(u) /\ Clean(u, b)
      BY <1>2, <1>3, <2>3
    <3>2. Lossless(u, F, b, Flush(Kept(u, b), FALSE, <<Span(b, Kept(u, b) - 1)>>))
      BY <1>3, <3>1, PartLosesNothing
    <3> QED
      BY <2>3, <3>2, Zenon
  <2> QED
    BY <1>4, <2>1, <2>2, <2>3, Zenon
<1> QED
  BY <1>2, <1>5, Zenon DEF Lossless

------------------------------------------------------------------------------
\* What a stream has stored

\* F holds what joining the first of the texts gives.
Joins(n, texts, F) ==
  /\ F \in [0..n -> Seq(Nat)] /\ F[0] = <<>>
  /\ \A k \in 1..n : F[k] = F[k - 1] \o texts[k]

\* Joined texts exist.
LEMMA JoinsExist ==
  ASSUME NEW n \in Nat, NEW texts \in [1..n -> Seq(Nat)]
  PROVE  \E F : Joins(n, texts, F)
<1> DEFINE T == {m \in 0..n : \E F : Joins(m, texts, F)}
<1>1. 0 \in T
  <2> DEFINE F == [k \in 0..0 |-> <<>>]
  <2>1. Joins(0, texts, F)
    BY DEF Joins
  <2> HIDE DEF F
  <2>2. 0 \in 0..n
    OBVIOUS
  <2>3. \E H : Joins(0, texts, H)
    BY <2>1
  <2> QED
    BY <2>2, <2>3, Zenon
<1>2. ASSUME NEW m \in 1..n, m - 1 \in T PROVE m \in T
  <2>1. PICK F : Joins(m - 1, texts, F)
    BY <1>2
  <2>2. F \in [0..m - 1 -> Seq(Nat)] /\ F[0] = <<>> /\ \A k \in 1..m - 1 : F[k] = F[k - 1] \o texts[k]
    BY <2>1 DEF Joins
  <2> DEFINE z == F[m - 1] \o texts[m]
             G == [k \in 0..m |-> IF k = m THEN z ELSE F[k]]
  <2>3. z \in Seq(Nat)
    <3>1. m - 1 \in 0..m - 1
      OBVIOUS
    <3>2. F[m - 1] \in Seq(Nat) /\ texts[m] \in Seq(Nat)
      BY <2>2, <3>1
    <3> QED
      BY <3>2, JoinThree
  <2>4. \A k \in 0..m : k # m => k \in 0..m - 1
    OBVIOUS
  <2>5. \A k \in 1..m : k - 1 \in 0..m /\ k - 1 # m /\ k \in 0..m /\ (k # m => k \in 1..m - 1)
    OBVIOUS
  <2>6. G[0] = <<>>
    <3>1. 0 \in 0..m /\ 0 # m
      OBVIOUS
    <3> QED
      BY <2>2, <3>1
  <2>7. ASSUME NEW k \in 1..m PROVE G[k] = G[k - 1] \o texts[k]
    <3>1. G[k - 1] = F[k - 1]
      BY <2>5
    <3>2. G[k] = IF k = m THEN z ELSE F[k]
      BY <2>5
    <3> HIDE DEF G
    <3>3. CASE k = m
      BY <3>1, <3>2, <3>3
    <3>4. CASE k # m
      BY <2>2, <2>5, <3>1, <3>2, <3>4
    <3> QED
      BY <3>3, <3>4
  <2> HIDE DEF z
  <2>8. G \in [0..m -> Seq(Nat)]
    BY <2>2, <2>3, <2>4
  <2> HIDE DEF G
  <2>9. Joins(m, texts, G)
    BY <2>6, <2>7, <2>8 DEF Joins
  <2>10. m \in 0..n /\ \E H : Joins(m, texts, H)
    BY <2>9
  <2> QED
    BY <2>10
<1> HIDE DEF T
<1>3. \A k \in 0..n : k \in T
  BY <1>1, <1>2, UpTo
<1>4. n \in 0..n
  OBVIOUS
<1> QED
  BY <1>3, <1>4 DEF T

\* And there is one of them: they agree as far as the texts do.
LEMMA JoinsAgree ==
  ASSUME NEW n \in Nat, NEW texts, NEW F, Joins(n, texts, F),
         NEW m \in Nat, m >= n, NEW more, NEW G, Joins(m, more, G), \A k \in 1..n : texts[k] = more[k]
  PROVE  \A k \in 0..n : F[k] = G[k]
<1> DEFINE T == {k \in 0..n : F[k] = G[k]}
<1>1. 0 \in T
  BY DEF Joins
<1>2. ASSUME NEW k \in 1..n, k - 1 \in T PROVE k \in T
  <2>1. k \in 1..m /\ k \in 0..n
    OBVIOUS
  <2>2. F[k] = F[k - 1] \o texts[k] /\ G[k] = G[k - 1] \o more[k]
    BY <2>1 DEF Joins
  <2>3. F[k - 1] = G[k - 1] /\ texts[k] = more[k]
    BY <1>2
  <2>4. F[k] = G[k]
    BY <2>2, <2>3, Zenon
  <2> QED
    BY <2>1, <2>4
<1> HIDE DEF T
<1>3. \A k \in 0..n : k \in T
  BY <1>1, <1>2, UpTo
<1> QED
  BY <1>3 DEF T

\* What a stream has of a chunk, and of the chunks.
TextOf(s, chunk) == IF chunk.stream = s THEN chunk.text ELSE <<>>
TextsOf(s, chunks) == [k \in 1..Len(chunks) |-> TextOf(s, chunks[k])]

\* What a stream has of a chunk is a text.
LEMMA TextOfIs ==
  ASSUME NEW s, NEW chunk \in StoredChunk
  PROVE  TextOf(s, chunk) \in Seq(Nat)
<1>1. chunk.text \in Seq(Nat)
  BY DEF StoredChunk
<1> QED
  BY <1>1 DEF TextOf

\* StoredOf is the last of the joined texts.
LEMMA StoredOfIs ==
  ASSUME NEW s, NEW chunks \in Seq(StoredChunk)
  PROVE  \E F : Joins(Len(chunks), TextsOf(s, chunks), F) /\ StoredOf(s, chunks) = F[Len(chunks)]
<1> DEFINE Step(F, n) == IF n = 0 THEN <<>>
                         ELSE F[n - 1] \o IF chunks[n].stream = s THEN chunks[n].text ELSE <<>>
           U == CHOOSE F : F = [n \in 0..Len(chunks) |-> Step(F, n)]
<1>0. Len(chunks) \in Nat /\ \A n \in 0..Len(chunks) : n # 0 => n \in 1..Len(chunks)
  OBVIOUS
<1>b. \A n \in 1..Len(chunks) : TextOf(s, chunks[n]) \in Seq(Nat)
  <2>1. \A n \in 1..Len(chunks) : chunks[n] \in StoredChunk
    OBVIOUS
  <2> QED
    BY <2>1, TextOfIs
<1>1. PICK G : Joins(Len(chunks), TextsOf(s, chunks), G)
  <2>1. TextsOf(s, chunks) \in [1..Len(chunks) -> Seq(Nat)]
    BY <1>b DEF TextsOf
  <2> QED
    BY <1>0, <2>1, JoinsExist
<1>2. G = [n \in 0..Len(chunks) |-> Step(G, n)]
  <2>1. ASSUME NEW n \in 0..Len(chunks) PROVE G[n] = Step(G, n)
    <3>1. CASE n = 0
      BY <1>1, <3>1 DEF Joins
    <3>2. CASE n # 0
      <4>1. n \in 1..Len(chunks)
        BY <1>0, <3>2
      <4>2. G[n] = G[n - 1] \o TextsOf(s, chunks)[n]
        BY <1>1, <4>1 DEF Joins
      <4>3. TextsOf(s, chunks)[n] = IF chunks[n].stream = s THEN chunks[n].text ELSE <<>>
        BY <4>1 DEF TextsOf, TextOf
      <4> QED
        BY <3>2, <4>2, <4>3, Zenon
    <3> QED
      BY <3>1, <3>2
  <2> HIDE DEF Step
  <2> QED
    BY <1>1, <2>1 DEF Joins
<1>3. U = [n \in 0..Len(chunks) |-> Step(U, n)]
  <2> HIDE DEF Step
  <2> QED
    BY <1>2
<1>4. StoredOf(s, chunks) = U[Len(chunks)]
  BY DEF StoredOf
<1> HIDE DEF U
<1>5. \A n \in 0..Len(chunks) : U[n] = Step(U, n)
  BY <1>3
<1>6. U[0] = <<>> /\ \A k \in 1..Len(chunks) : U[k] = U[k - 1] \o TextsOf(s, chunks)[k]
  <2>1. 0 \in 0..Len(chunks) /\ \A k \in 1..Len(chunks) : k \in 0..Len(chunks) /\ k # 0
    BY <1>0
  <2>2. ASSUME NEW k \in 1..Len(chunks) PROVE U[k] = U[k - 1] \o TextsOf(s, chunks)[k]
    <3>1. TextsOf(s, chunks)[k] = IF chunks[k].stream = s THEN chunks[k].text ELSE <<>>
      BY DEF TextsOf, TextOf
    <3>2. U[k] = U[k - 1] \o IF chunks[k].stream = s THEN chunks[k].text ELSE <<>>
      BY <1>5, <2>1
    <3> QED
      BY <3>1, <3>2, Zenon
  <2> QED
    BY <1>5, <2>1, <2>2
<1>7. U \in [0..Len(chunks) -> Seq(Nat)]
  <2> DEFINE T == {n \in 0..Len(chunks) : U[n] \in Seq(Nat)}
  <2>1. 0 \in T
    <3>1. 0 \in 0..Len(chunks)
      BY <1>0
    <3>2. U[0] \in Seq(Nat)
      <4>1. <<>> \in Seq(Nat)
        OBVIOUS
      <4> QED
        BY <1>6, <4>1, Zenon
    <3> QED
      BY <3>1, <3>2, Zenon
  <2>2. ASSUME NEW n \in 1..Len(chunks), n - 1 \in T PROVE n \in T
    <3>1. U[n - 1] \in Seq(Nat) /\ n \in 0..Len(chunks)
      BY <1>0, <2>2
    <3>2. TextsOf(s, chunks)[n] \in Seq(Nat)
      BY <1>b DEF TextsOf
    <3>3. U[n] = U[n - 1] \o TextsOf(s, chunks)[n]
      BY <1>6
    <3>4. U[n] \in Seq(Nat)
      BY <3>1, <3>2, <3>3, JoinThree
    <3> QED
      BY <3>1, <3>4
  <2> HIDE DEF T
  <2>3. \A n \in 0..Len(chunks) : n \in T
    BY <1>0, <2>1, <2>2, UpTo
  <2>4. \A n \in 0..Len(chunks) : U[n] \in Seq(Nat)
    BY <2>3 DEF T
  <2> HIDE DEF Step
  <2> QED
    BY <1>3, <2>4
<1>8. Joins(Len(chunks), TextsOf(s, chunks), U)
  BY <1>6, <1>7 DEF Joins
<1> QED
  BY <1>4, <1>8

\* It is a text.
LEMMA StoredOfText ==
  ASSUME NEW s, NEW chunks \in Seq(StoredChunk)
  PROVE  StoredOf(s, chunks) \in Seq(Nat)
<1>1. PICK F : Joins(Len(chunks), TextsOf(s, chunks), F) /\ StoredOf(s, chunks) = F[Len(chunks)]
  BY StoredOfIs
<1>2. Len(chunks) \in 0..Len(chunks)
  OBVIOUS
<1> QED
  BY <1>1, <1>2 DEF Joins

\* An append adds the chunk's text, or nothing.
LEMMA StoredOfAppend ==
  ASSUME NEW s, NEW chunks \in Seq(StoredChunk), NEW chunk \in StoredChunk
  PROVE  StoredOf(s, Append(chunks, chunk)) = StoredOf(s, chunks) \o TextOf(s, chunk)
<1> DEFINE n == Len(chunks)
           more == Append(chunks, chunk)
<1>0. /\ n \in Nat /\ n + 1 \in Nat /\ n + 1 >= n /\ more \in Seq(StoredChunk) /\ Len(more) = n + 1
      /\ more[n + 1] = chunk /\ \A k \in 1..n : more[k] = chunks[k] /\ k \in 1..n + 1
  OBVIOUS
<1> HIDE DEF more
<1>1. PICK F : Joins(n, TextsOf(s, chunks), F) /\ StoredOf(s, chunks) = F[n]
  BY StoredOfIs
<1>2. PICK G : Joins(n + 1, TextsOf(s, more), G) /\ StoredOf(s, more) = G[n + 1]
  BY <1>0, StoredOfIs
<1>3. \A k \in 1..n : TextsOf(s, chunks)[k] = TextsOf(s, more)[k]
  BY <1>0 DEF TextsOf
<1> HIDE DEF n
<1>4. \A k \in 0..n : F[k] = G[k]
  BY <1>0, <1>1, <1>2, <1>3, JoinsAgree
<1>5. n \in 0..n /\ n + 1 \in 1..n + 1 /\ (n + 1) - 1 = n
  BY <1>0
<1>6. G[n + 1] = G[n] \o TextsOf(s, more)[n + 1]
  BY <1>2, <1>5 DEF Joins
<1>7. TextsOf(s, more)[n + 1] = TextOf(s, chunk)
  BY <1>0, <1>5 DEF TextsOf
<1>8. F[n] = G[n]
  BY <1>4, <1>5
<1> QED
  BY <1>1, <1>2, <1>6, <1>7, <1>8, Zenon DEF more

------------------------------------------------------------------------------
\* Nothing else is lost

\* What a text is redacted to stays when more is printed.
LEMMA RedactedStays ==
  ASSUME NEW t \in Seq(Chars), NEW u \in Seq(Chars), Extends(t, u), NEW text, IsText(t, text)
  PROVE  Redacted(u, text) = Redacted(t, text)
<1>1. Len(t) <= Len(u) /\ \A k \in 1..Len(t) : t[k] = u[k]
  BY DEF Extends
<1>2. Spelled(u, text) = Spelled(t, text)
  BY <1>1, SpelledStays
<1> QED
  BY <1>2, Zenon DEF Redacted

\* Tokens that fit did so before.
LEMMA TokensBefore ==
  ASSUME NEW t \in Seq(Chars), NEW u \in Seq(Chars), Extends(t, u), TokensFit(u)
  PROVE  TokensFit(t)
<1> SUFFICES ASSUME NEW q \in 1..Len(t), NEW k \in 1..q, InToken(t, k, q)
             PROVE  q + 1 - k <= Room
  BY DEF TokensFit
<1>1. q \in DOMAIN u
  BY DEF Extends
<1>2. InToken(u, k, q)
  <2>1. \A l \in k..q : l \in 1..Len(t)
    OBVIOUS
  <2> QED
    BY <2>1 DEF InToken, Extends
<1> QED
  BY <1>1, <1>2 DEF TokensFit

\* Storing the first piece leaves the others to be added.
LEMMA AddedHead ==
  ASSUME NEW t, NEW ps \in Seq(Seq(Nat)), Len(ps) \in 1..2
  PROVE  /\ Added(t, ps) = Redacted(t, Head(ps)) \o Added(t, Tail(ps))
         /\ Redacted(t, Head(ps)) \in Seq(Nat) /\ Added(t, Tail(ps)) \in Seq(Nat)
         /\ Len(Tail(ps)) \in 0..1
<1>1. /\ Head(ps) = ps[1] /\ ps[1] \in Seq(Nat)
      /\ Len(ps) = 2 => ps[2] \in Seq(Nat) /\ Tail(ps)[1] = ps[2]
      /\ Len(Tail(ps)) = Len(ps) - 1
  OBVIOUS
<1>2. Redacted(t, ps[1]) \in Seq(Nat)
  BY <1>1, RedactedHides
<1>3. CASE Len(ps) = 1
  <2>1. Added(t, ps) = Redacted(t, ps[1]) /\ Added(t, Tail(ps)) = <<>> /\ Len(Tail(ps)) = 0
    BY <1>1, <1>3 DEF Added
  <2>2. Redacted(t, ps[1]) \o <<>> = Redacted(t, ps[1]) /\ <<>> \in Seq(Nat)
    BY <1>2, JoinThree
  <2>3. 0 \in 0..1
    OBVIOUS
  <2> QED
    BY <1>1, <1>2, <2>1, <2>2, <2>3, Zenon
<1>4. CASE Len(ps) = 2
  <2>1. Len(Tail(ps)) = 1 /\ 1 \in 0..1
    BY <1>1, <1>4
  <2>2. /\ Added(t, ps) = Redacted(t, ps[1]) \o Redacted(t, ps[2])
        /\ Added(t, Tail(ps)) = Redacted(t, Tail(ps)[1])
    <3>1. Len(ps) # 0 /\ Len(ps) # 1
      BY <1>4
    <3>2. Len(Tail(ps)) # 0
      <4> DEFINE m == Len(Tail(ps))
      <4>1. m = 1
        BY <2>1
      <4> HIDE DEF m
      <4>2. m # 0
        BY <4>1
      <4> QED
        BY <4>2 DEF m
    <3> QED
      BY <2>1, <3>1, <3>2, Zenon DEF Added
  <2>3. Redacted(t, ps[2]) \in Seq(Nat)
    BY <1>1, <1>4, RedactedHides
  <2>4. Tail(ps)[1] = ps[2]
    BY <1>1, <1>4
  <2> QED
    BY <1>1, <1>2, <2>1, <2>2, <2>3, <2>4, Zenon
<1> QED
  BY <1>3, <1>4

\* What is stored and what is about to be are what was printed up to where the
\* rest begins, redacted at once; and nothing of the rest is lost yet.
Complete(t, kept, ps, b, on, end) ==
  /\ kept \o Added(t, ps) = Redacted(t, Span(1, b - 1)) /\ Len(ps) \in 0..2
  /\ end # "closed" => Follows(t, b, on)
  /\ end = "closed" => b = Len(t) + 1

WholeInv(s) ==
  TokensFit(read[s]) =>
    Complete(read[s], StoredOf(s, stored), pieces[s], from[s], redacting[s], ends[s])

\* At the start nothing is.
LEMMA WholeInvInit == CaptureInit => \A s \in Streams : WholeInv(s)
<1> SUFFICES ASSUME CaptureInit, NEW s \in Streams PROVE WholeInv(s)
  OBVIOUS
<1>1. /\ read[s] = <<>> /\ from[s] = 1 /\ pieces[s] = <<>> /\ redacting[s] = FALSE
      /\ ends[s] = "open" /\ stored = <<>>
  BY DEF CaptureInit
<1>2. StoredOf(s, <<>>) = <<>>
  <2>1. <<>> \in Seq(StoredChunk) /\ Len(<<>>) = 0
    OBVIOUS
  <2>2. PICK F : Joins(Len(<<>>), TextsOf(s, <<>>), F) /\ StoredOf(s, <<>>) = F[Len(<<>>)]
    BY <2>1, StoredOfIs
  <2> QED
    BY <2>1, <2>2 DEF Joins
<1>3. Redacted(<<>>, Span(1, 1 - 1)) = <<>>
  <2>1. 1 \in Nat \ {0} /\ 0 \in Nat /\ 1 <= 0 + 1 /\ 1 - 1 = 0 /\ 0 + 1 - 1 = 0
    OBVIOUS
  <2>2. Span(1, 0) \in Seq(Nat) /\ Len(Span(1, 0)) = 0
    BY <2>1, SpanIs
  <2>3. PICK F \in [0..Len(Span(1, 0)) -> Seq(Nat)] :
          Redacts(Spelled(<<>>, Span(1, 0)), Span(1, 0), F) /\ Redacted(<<>>, Span(1, 0)) = F[Len(Span(1, 0))]
    BY <2>2, RedactedIs
  <2>4. F[0] = <<>>
    BY <2>3 DEF Redacts
  <2> QED
    BY <2>1, <2>2, <2>3, <2>4, Zenon
<1>4. Added(<<>>, <<>>) = <<>> /\ <<>> \o <<>> = <<>> /\ Len(<<>>) \in 0..2
  BY DEF Added
<1>5. Follows(<<>>, 1, FALSE) /\ "open" # "closed"
  BY DEF Follows, Clean
<1>6. Complete(<<>>, StoredOf(s, <<>>), <<>>, 1, FALSE, "open")
  BY <1>2, <1>3, <1>4, <1>5 DEF Complete
<1> QED
  BY <1>1, <1>6, Zenon DEF WholeInv

\* A read that loses nothing.
LEMMA ReadIsComplete ==
  ASSUME NEW t \in Seq(Chars), NEW u \in Seq(Chars), Extends(t, u), Len(t) < Len(u),
         TokensFit(u), NEW b \in 1..Len(t) + 1, NEW on \in BOOLEAN, NEW kept \in Seq(Nat),
         NEW end, end # "closed", Complete(t, kept, <<>>, b, on, end), NEW next, next # "closed"
  PROVE  Complete(u, kept, Flushed(u, b, on).pieces, Flushed(u, b, on).from,
                  Flushed(u, b, on).redacting, next)
<1>1. Follows(t, b, on) /\ kept \o Added(t, <<>>) = Redacted(t, Span(1, b - 1))
  BY DEF Complete
<1>2. kept = Redacted(t, Span(1, b - 1))
  <2>1. Added(t, <<>>) = <<>>
    BY DEF Added
  <2>2. kept \o <<>> = kept
    BY JoinThree
  <2> QED
    BY <1>1, <2>1, <2>2, Zenon
<1>3. Redacted(u, Span(1, b - 1)) = Redacted(t, Span(1, b - 1))
  <2>1. 1 \in Nat \ {0} /\ b - 1 \in Nat /\ 1 <= (b - 1) + 1 /\ b - 1 <= Len(t)
    OBVIOUS
  <2>2. IsText(t, Span(1, b - 1))
    BY <2>1, SpelledSpan
  <2> QED
    BY <2>2, RedactedStays
<1>4. PICK F : Whole(u, F)
  BY WholeExists
<1>5. Lossless(u, F, b, Flushed(u, b, on))
  BY <1>1, <1>4, FlushLosesNothing
<1> DEFINE f == Flushed(u, b, on)
<1> HIDE DEF f
<1>6. /\ F[b - 1] \o Added(u, f.pieces) = F[f.from - 1]
      /\ Len(f.pieces) \in 0..2 /\ f.from \in 1..Len(u) + 1 /\ Follows(u, f.from, f.redacting)
  BY <1>5 DEF Lossless, f
<1>7. NamesFit(u) /\ b - 1 \in 0..Len(u) /\ f.from - 1 \in 0..Len(u)
  <2>1. NamesFit(u)
    BY DEF TokensFit, NamesFit
  <2>2. b - 1 \in 0..Len(u) /\ f.from - 1 \in 0..Len(u)
    BY <1>6
  <2> QED
    BY <2>1, <2>2
<1>8. Redacted(u, Span(1, b - 1)) = F[b - 1] /\ Redacted(u, Span(1, f.from - 1)) = F[f.from - 1]
  BY <1>4, <1>7, FirstIs
<1>9. kept \o Added(u, f.pieces) = Redacted(u, Span(1, f.from - 1))
  BY <1>2, <1>3, <1>6, <1>8, Zenon
<1>10. Complete(u, kept, f.pieces, f.from, f.redacting, next)
  BY <1>6, <1>9 DEF Complete
<1> QED
  BY <1>10 DEF f

\* So does the end of a stream.
LEMMA EndIsComplete ==
  ASSUME NEW t \in Seq(Chars), TokensFit(t), NEW b \in 1..Len(t) + 1, NEW on \in BOOLEAN,
         NEW kept \in Seq(Nat), NEW end, end # "closed", Complete(t, kept, <<>>, b, on, end)
  PROVE  Complete(t, kept, IF on THEN <<>> ELSE <<Span(b, Len(t))>>, Len(t) + 1, on, "closed")
<1>1. Follows(t, b, on) /\ kept \o Added(t, <<>>) = Redacted(t, Span(1, b - 1))
  BY DEF Complete
<1>2. CASE on
  <2>1. b = Len(t) + 1
    BY <1>1, <1>2 DEF Follows
  <2>2. kept \o Added(t, <<>>) = Redacted(t, Span(1, (Len(t) + 1) - 1)) /\ Len(<<>>) \in 0..2
    BY <1>1, <2>1
  <2>3. Complete(t, kept, <<>>, Len(t) + 1, on, "closed")
    BY <2>2 DEF Complete
  <2> QED
    BY <1>2, <2>3, Zenon
<1>3. CASE ~on
  <2> DEFINE v == Span(b, Len(t))
  <2>1. Clean(t, b) /\ NamesFit(t)
    <3>1. Clean(t, b)
      BY <1>1, <1>3 DEF Follows
    <3>2. NamesFit(t)
      BY DEF TokensFit, NamesFit
    <3> QED
      BY <3>1, <3>2
  <2>2. Len(t) \in b - 1..Len(t) /\ b - 1 \in 0..Len(t) /\ Len(t) \in 0..Len(t) /\ (Len(t) + 1) - 1 = Len(t)
    OBVIOUS
  <2>3. PICK F : Whole(t, F)
    BY WholeExists
  <2>4. F[Len(t)] = F[b - 1] \o Redacted(t, v)
    BY <2>1, <2>2, <2>3, SegmentIs
  <2>5. Redacted(t, Span(1, b - 1)) = F[b - 1] /\ Redacted(t, Span(1, Len(t))) = F[Len(t)]
    BY <2>1, <2>2, <2>3, FirstIs
  <2>6. kept = Redacted(t, Span(1, b - 1))
    <3>1. Added(t, <<>>) = <<>>
      BY DEF Added
    <3>2. kept \o <<>> = kept
      BY JoinThree
    <3> QED
      BY <1>1, <3>1, <3>2, Zenon
  <2> HIDE DEF v
  <2>7. Added(t, <<v>>) = Redacted(t, v) /\ Len(<<v>>) \in 0..2
    BY DEF Added
  <2> DEFINE ps == <<v>>
  <2>8. kept \o Added(t, ps) = Redacted(t, Span(1, (Len(t) + 1) - 1)) /\ Len(ps) \in 0..2
    BY <2>2, <2>4, <2>5, <2>6, <2>7, Zenon
  <2> HIDE DEF ps
  <2>9. Complete(t, kept, ps, Len(t) + 1, on, "closed")
    BY <2>8 DEF Complete
  <2> QED
    BY <1>3, <2>9, Zenon DEF ps, v
<1> QED
  BY <1>2, <1>3

\* Every step keeps it.
LEMMA WholeStep ==
  CaptureInv /\ (\A s \in Streams : WholeInv(s)) /\ [CaptureNext]_captureVars
    => \A s \in Streams : WholeInv(s)'
<1> SUFFICES ASSUME CaptureInv, \A s \in Streams : WholeInv(s), [CaptureNext]_captureVars
             PROVE  \A s \in Streams : WholeInv(s)'
  OBVIOUS
<1>0. CaptureTypes
  BY DEF CaptureInv
<1>t. stored \in Seq(StoredChunk)
  BY <1>0 DEF CaptureTypes
<1>s. \A z \in Streams : StoredOf(z, stored) \in Seq(Nat)
  BY <1>t, StoredOfText
<1>1. ASSUME NEW s \in Streams, Reads(s), NEW z \in Streams PROVE WholeInv(z)'
  <2>1. PICK text \in UNION {[1..k -> job.chars] : k \in 1..Chunk} :
          /\ ends' = IF Len(text) < Chunk THEN [ends EXCEPT ![s] = "last"] ELSE ends
          /\ read' = [read EXCEPT ![s] = @ \o text]
          /\ LET flush == Flushed(read[s] \o text, from[s], redacting[s]) IN
             /\ from' = [from EXCEPT ![s] = flush.from]
             /\ redacting' = [redacting EXCEPT ![s] = flush.redacting]
             /\ pieces' = [pieces EXCEPT ![s] = flush.pieces]
    BY <1>1 DEF Reads
  <2> DEFINE t == read[s]
             u == t \o text
             f == Flushed(u, from[s], redacting[s])
  <2>2. /\ pieces[s] = <<>> /\ ends[s] = "open" /\ UNCHANGED <<output, stored, job>>
    BY <1>1 DEF Reads
  <2>3. /\ t \in Seq(Chars) /\ from[s] \in 1..Len(t) + 1 /\ redacting[s] \in BOOLEAN
    BY <1>0 DEF CaptureTypes
  <2>4. text \in Seq(Chars) /\ Len(text) >= 1 /\ Len(text) <= Chunk
    <3>1. PICK k \in 1..Chunk : text \in [1..k -> job.chars]
      BY <2>1
    <3>2. job.chars \subseteq Chars
      BY <1>0, JobsAreKnown DEF CaptureTypes
    <3>3. k \in Nat /\ k >= 1 /\ k <= Chunk
      BY SizesAreNumbers
    <3>4. text \in [1..k -> Chars]
      BY <3>1, <3>2
    <3> QED
      BY <3>3, <3>4
  <2>5. u \in Seq(Chars) /\ Extends(t, u) /\ Len(t) < Len(u)
    BY <2>3, <2>4, ReadExtends
  <2>6. /\ read' = [read EXCEPT ![s] = u] /\ from' = [from EXCEPT ![s] = f.from]
        /\ redacting' = [redacting EXCEPT ![s] = f.redacting] /\ pieces' = [pieces EXCEPT ![s] = f.pieces]
    BY <2>1
  <2> HIDE DEF t, u, f
  <2>7. /\ read'[s] = u /\ from'[s] = f.from /\ redacting'[s] = f.redacting /\ pieces'[s] = f.pieces
        /\ \A y \in Streams \ {s} : /\ read'[y] = read[y] /\ from'[y] = from[y]
                                    /\ redacting'[y] = redacting[y] /\ pieces'[y] = pieces[y]
                                    /\ ends'[y] = ends[y]
        /\ ends'[s] # "closed"
    BY <1>0, <2>1, <2>2, <2>6, SMTT(60) DEF CaptureTypes
  <2>8. CASE z = s
    <3> SUFFICES ASSUME TokensFit(u)
                 PROVE  Complete(u, StoredOf(s, stored), f.pieces, f.from, f.redacting, ends'[s])
      BY <2>2, <2>7, <2>8, Zenon DEF WholeInv
    <3>1. TokensFit(t)
      BY <2>3, <2>5, TokensBefore
    <3>2. WholeInv(s)
      OBVIOUS
    <3>3. Complete(t, StoredOf(s, stored), <<>>, from[s], redacting[s], ends[s])
      BY <2>2, <3>1, <3>2, Zenon DEF WholeInv, t
    <3>4. ends[s] # "closed" /\ StoredOf(s, stored) \in Seq(Nat)
      BY <1>s, <2>2
    <3>5. ends'[s] # "closed"
      BY <2>7
    <3> QED
      BY <2>3, <2>5, <3>3, <3>4, <3>5, ReadIsComplete DEF f
  <2>9. CASE z # s
    <3>1. WholeInv(z)
      OBVIOUS
    <3> QED
      BY <2>2, <2>7, <2>9, <3>1, Zenon DEF WholeInv
  <2> QED
    BY <2>8, <2>9
<1>2. ASSUME NEW s \in Streams, EndsStream(s), NEW z \in Streams PROVE WholeInv(z)'
  <2> DEFINE t == read[s]
             b == from[s]
             ps == IF redacting[s] THEN <<>> ELSE <<Span(b, Len(t))>>
  <2>1. /\ pieces[s] = <<>> /\ ends[s] # "closed" /\ ends' = [ends EXCEPT ![s] = "closed"]
        /\ from' = [from EXCEPT ![s] = Len(t) + 1]
        /\ pieces' = [pieces EXCEPT ![s] = ps]
        /\ UNCHANGED <<read, redacting, output, stored, job>>
    BY <1>2 DEF EndsStream
  <2>2. t \in Seq(Chars) /\ b \in 1..Len(t) + 1 /\ redacting[s] \in BOOLEAN
    BY <1>0 DEF CaptureTypes
  <2> HIDE DEF t, b, ps
  <2>3. /\ from'[s] = Len(t) + 1 /\ pieces'[s] = ps /\ ends'[s] = "closed"
        /\ \A y \in Streams \ {s} : from'[y] = from[y] /\ pieces'[y] = pieces[y] /\ ends'[y] = ends[y]
    BY <1>0, <2>1 DEF CaptureTypes
  <2>4. CASE z = s
    <3> SUFFICES ASSUME TokensFit(t)
                 PROVE  Complete(t, StoredOf(s, stored), ps, Len(t) + 1, redacting[s], "closed")
      BY <2>1, <2>3, <2>4, Zenon DEF WholeInv, t
    <3>1. WholeInv(s)
      OBVIOUS
    <3>2. Complete(t, StoredOf(s, stored), <<>>, b, redacting[s], ends[s])
      BY <2>1, <3>1, Zenon DEF WholeInv, t, b
    <3>3. ends[s] # "closed" /\ StoredOf(s, stored) \in Seq(Nat)
      BY <1>s, <2>1
    <3> QED
      BY <2>2, <3>2, <3>3, EndIsComplete DEF ps
  <2>5. CASE z # s
    <3>1. WholeInv(z)
      OBVIOUS
    <3> QED
      BY <2>1, <2>3, <2>5, <3>1, Zenon DEF WholeInv
  <2> QED
    BY <2>4, <2>5
<1>3. ASSUME NEW s \in Streams, Stores(s), NEW z \in Streams PROVE WholeInv(z)'
  <2> DEFINE t == read[s]
             ps == pieces[s]
             text == Redacted(t, Head(ps))
             chunk == [stream |-> s, text |-> text]
  <2>1. /\ ps # <<>> /\ pieces' = [pieces EXCEPT ![s] = Tail(@)]
        /\ stored' = IF text = <<>> THEN stored ELSE Append(stored, chunk)
        /\ UNCHANGED <<read, from, redacting, ends, job>>
    BY <1>3 DEF Stores
  <2>2. t \in Seq(Chars) /\ ps \in Seq(Seq(Nat))
    BY <1>0 DEF CaptureTypes
  <2>3. pieces'[s] = Tail(ps) /\ \A y \in Streams \ {s} : pieces'[y] = pieces[y]
    BY <1>0, <2>1 DEF CaptureTypes
  <2>4. text \in Seq(Nat)
    <3> HIDE DEF ps, t
    <3>1. Head(ps) \in Seq(Nat)
      <4>1. 1 \in 1..Len(ps) /\ Head(ps) = ps[1]
        BY <2>1, <2>2
      <4> QED
        BY <2>2, <4>1
    <3> QED
      BY <3>1, RedactedHides
  <2> HIDE DEF text, ps, t
  <2>5. ASSUME NEW y \in Streams
        PROVE  StoredOf(y, stored') = StoredOf(y, stored) \o IF y = s THEN text ELSE <<>>
    <3>1. StoredOf(y, stored) \o <<>> = StoredOf(y, stored)
      BY <1>s, JoinThree
    <3>2. CASE text = <<>>
      <4>1. stored' = stored
        BY <2>1, <3>2
      <4> QED
        BY <3>1, <3>2, <4>1, Zenon
    <3>3. CASE text # <<>>
      <4>1. stored' = Append(stored, chunk)
        BY <2>1, <3>3
      <4>2. chunk \in StoredChunk /\ chunk.stream = s /\ chunk.text = text
        BY <2>4, <3>3 DEF StoredChunk
      <4>3. TextOf(y, chunk) = IF y = s THEN text ELSE <<>>
        <5> HIDE DEF chunk
        <5> QED
          BY <4>2 DEF TextOf
      <4> HIDE DEF chunk
      <4>4. StoredOf(y, Append(stored, chunk)) = StoredOf(y, stored) \o TextOf(y, chunk)
        BY <1>t, <4>2, StoredOfAppend
      <4> QED
        BY <4>1, <4>3, <4>4, Zenon
    <3> QED
      BY <3>2, <3>3
  <2>6. CASE z = s
    <3> DEFINE kept == StoredOf(s, stored)
    <3> SUFFICES ASSUME TokensFit(t)
                 PROVE  Complete(t, StoredOf(s, stored'), Tail(ps), from[s], redacting[s], ends[s])
      BY <2>1, <2>3, <2>6, Zenon DEF WholeInv, t
    <3>1. WholeInv(s)
      OBVIOUS
    <3>2. Complete(t, kept, ps, from[s], redacting[s], ends[s])
      BY <3>1, Zenon DEF WholeInv, t, ps
    <3>3. StoredOf(s, stored') = kept \o text /\ kept \in Seq(Nat)
      BY <1>s, <2>5
    <3> HIDE DEF kept
    <3>4. Len(ps) \in 1..2
      <4>1. Len(ps) \in 0..2 /\ Len(ps) # 0
        BY <2>1, <2>2, <3>2 DEF Complete
      <4> QED
        BY <4>1
    <3>5. /\ Added(t, ps) = text \o Added(t, Tail(ps)) /\ Added(t, Tail(ps)) \in Seq(Nat)
          /\ Len(Tail(ps)) \in 0..1
      BY <2>2, <3>4, AddedHead DEF text
    <3>6. (kept \o text) \o Added(t, Tail(ps)) = kept \o (text \o Added(t, Tail(ps)))
      <4> DEFINE rest == Added(t, Tail(ps))
      <4>1. rest \in Seq(Nat)
        BY <3>5
      <4> HIDE DEF rest
      <4>2. (kept \o text) \o rest = kept \o (text \o rest)
        BY <2>4, <3>3, <4>1, JoinThree, SMTT(60)
      <4> QED
        BY <4>2 DEF rest
    <3>7. StoredOf(s, stored') \o Added(t, Tail(ps)) = Redacted(t, Span(1, from[s] - 1))
      <4>1. kept \o Added(t, ps) = Redacted(t, Span(1, from[s] - 1))
        BY <3>2 DEF Complete
      <4> QED
        BY <3>3, <3>5, <3>6, <4>1, Zenon
    <3>8. Len(Tail(ps)) \in 0..2
      BY <3>5
    <3> QED
      BY <3>2, <3>7, <3>8 DEF Complete
  <2>7. CASE z # s
    <3>1. WholeInv(z)
      OBVIOUS
    <3>2. StoredOf(z, stored') = StoredOf(z, stored)
      <4>1. StoredOf(z, stored') = StoredOf(z, stored) \o <<>>
        BY <2>5, <2>7
      <4>2. StoredOf(z, stored) \o <<>> = StoredOf(z, stored)
        BY <1>s, JoinThree
      <4> QED
        BY <4>1, <4>2, Zenon
    <3> QED
      BY <2>1, <2>3, <2>7, <3>1, <3>2, Zenon DEF WholeInv
  <2> QED
    BY <2>6, <2>7
<1>4. ASSUME NEW s \in Streams, Breaks(s), NEW z \in Streams PROVE WholeInv(z)'
  <2>1. /\ ends[s] # "closed" /\ ends' = [ends EXCEPT ![s] = "broken"]
        /\ UNCHANGED <<read, from, redacting, pieces, output, stored, job>>
    BY <1>4 DEF Breaks
  <2>2. /\ ends'[z] # "closed" => ends[z] # "closed"
        /\ ends'[z] = "closed" => ends[z] = "closed"
    BY <1>0, <2>1 DEF CaptureTypes
  <2>3. WholeInv(z)
    OBVIOUS
  <2> QED
    BY <2>1, <2>2, <2>3 DEF WholeInv, Complete
<1>5. CASE UNCHANGED captureVars
  <2> SUFFICES ASSUME NEW z \in Streams PROVE WholeInv(z)'
    OBVIOUS
  <2>1. WholeInv(z)
    OBVIOUS
  <2> QED
    BY <1>5, <2>1 DEF captureVars, WholeInv
<1> QED
  BY <1>1, <1>2, <1>3, <1>4, <1>5 DEF CaptureNext

\* service.py:335-361: a stream has stored what redacting all it has read but the
\* pending text at once gives, however its thread ends, when its tokens are not
\* longer than a thread can hold back; when it is over nothing is pending.
THEOREM NothingIsLost == CaptureSpec => []NothingElseIsLost
<1> DEFINE Inv == CaptureInv /\ \A s \in Streams : WholeInv(s)
<1>1. CaptureInit => Inv
  BY CaptureInvInit, WholeInvInit
<1>2. Inv /\ [CaptureNext]_captureVars => Inv'
  BY CaptureStep, WholeStep
<1>3. Inv => NothingElseIsLost
  <2> SUFFICES ASSUME Inv, NEW s \in Streams, pieces[s] = <<>>, TokensFit(read[s])
               PROVE  /\ StoredOf(s, stored) = Redacted(read[s], Span(1, from[s] - 1))
                      /\ ends[s] = "closed" => from[s] = Len(read[s]) + 1
    BY DEF NothingElseIsLost
  <2> DEFINE t == read[s]
             kept == StoredOf(s, stored)
  <2>1. Complete(t, kept, <<>>, from[s], redacting[s], ends[s])
    BY Zenon DEF WholeInv
  <2>2. stored \in Seq(StoredChunk)
    BY DEF CaptureInv, CaptureTypes
  <2>3. kept \in Seq(Nat)
    BY <2>2, StoredOfText
  <2> HIDE DEF t, kept
  <2>4. /\ ends[s] = "closed" => from[s] = Len(t) + 1
        /\ kept \o Added(t, <<>>) = Redacted(t, Span(1, from[s] - 1))
    BY <2>1 DEF Complete
  <2>5. kept = Redacted(t, Span(1, from[s] - 1))
    <3>1. Added(t, <<>>) = <<>>
      BY DEF Added
    <3>2. kept \o <<>> = kept
      BY <2>3, JoinThree
    <3> QED
      BY <2>4, <3>1, <3>2, Zenon
  <2> QED
    BY <2>4, <2>5, Zenon DEF t, kept
<1> QED
  BY <1>1, <1>2, <1>3, PTL DEF CaptureSpec

------------------------------------------------------------------------------
\* The policy of a project


\* A policy that denies arguments denies whatever they are followed by
\* (allowlist.py:78-84, 105-108).
THEOREM DenialCoversLongerArguments ==
  ASSUME NEW S, NEW args \in Seq(S), NEW more \in Seq(S),
         NEW rule, rule.deny \subseteq Seq(S), MatchesAny(args, rule.deny)
  PROVE  ~RuleAllows(rule, args \o more)
<1>1. PICK pattern \in rule.deny : Matches(args, pattern)
  BY DEF MatchesAny
<1>2. Len(pattern) \in Nat /\ Len(pattern) <= Len(args)
  BY <1>1 DEF Matches
<1>3. ASSUME NEW k \in 1..Len(pattern) PROVE (args \o more)[k] = pattern[k]
  BY <1>1, <1>2 DEF Matches
<1>4. Matches(args \o more, pattern)
  BY <1>2, <1>3 DEF Matches
<1> QED
  BY <1>4 DEF RuleAllows, MatchesAny

------------------------------------------------------------------------------
\* What a call has read, its project's file may have held meanwhile.

ProjectOf(c) == request[c].project

HeldFiles ==
  /\ result = [c \in Clients |-> result[c]]
  /\ \A p \in Projects : files[p] \in held[p] /\ known[p] \in held[p]
  /\ \A c \in Clients : \A k \in 1..Len(draft[c]) : k \in Projects /\ draft[c][k] \in held[k]

Recent ==
  \A c \in Clients : at[c] # "idle" =>
    /\ files[ProjectOf(c)] \in since[c]
    /\ \A d \in Clients : (Reading(d) /\ ProjectOf(c) \in 1..Len(draft[d]))
                            => draft[d][ProjectOf(c)] \in since[c]

Tested ==
  \A c \in Clients : at[c] # "idle" /\ request[c].op = "test" =>
    /\ at[c] = "take" => known[ProjectOf(c)] \in since[c]
    /\ at[c] = "act" => taken[c] \in since[c]

PolicyInv == PolicyTypeOK /\ HeldFiles /\ Recent /\ Tested /\ TestsUseTheFile

\* It holds at the start, ...
LEMMA PolicyInitInv == PolicyInit => PolicyInv
<1> SUFFICES ASSUME PolicyInit PROVE PolicyInv
  OBVIOUS
<1> USE PolicyAssumption
<1>1. PolicyTypeOK
  BY DEF PolicyInit, PolicyTypeOK, Projects
<1>2. HeldFiles
  BY DEF PolicyInit, HeldFiles, Projects
<1>3. Recent /\ Tested
  BY DEF PolicyInit, Recent, Tested
<1>4. TestsUseTheFile
  BY DEF PolicyInit, TestsUseTheFile, NoResult
<1> QED
  BY <1>1, <1>2, <1>3, <1>4 DEF PolicyInv

\* A step that only ends the call of c, as one without an effect on policies.
LEMMA EndsInv ==
  ASSUME PolicyInv, NEW c \in Clients, at[c] = "act",
         NEW r, result' = [result EXCEPT ![c] = r],
         (r.outcome = "reached" /\ request[c].op = "test") => Permits(taken[c], r.host),
         at' = [at EXCEPT ![c] = "idle"],
         UNCHANGED <<files, agentEnv, known, request, draft, taken, held, since, left>>
  PROVE  PolicyInv'
<1> USE DEF PolicyInv
<1>1. PolicyTypeOK'
  BY DEF PolicyTypeOK
<1>2. HeldFiles'
  BY DEF HeldFiles
<1>3. Recent'
  BY DEF Recent, PolicyTypeOK, Reading, ProjectOf
<1>4. Tested'
  BY DEF Tested, PolicyTypeOK, ProjectOf
<1>5. TestsUseTheFile'
  <2> SUFFICES ASSUME NEW d \in Clients, request[d] # None, request[d].op = "test",
                      result'[d].outcome = "reached"
               PROVE  \E policy \in since[d] \ {Bad} : Permits(policy, result'[d].host)
    BY DEF TestsUseTheFile
  <2>1. CASE d = c
    <3>1. result'[c] = r
      BY DEF HeldFiles
    <3>2. taken[c] \in since[c] \ {Bad}
      BY <2>1 DEF Tested, PolicyTypeOK
    <3> QED
      BY <2>1, <3>1, <3>2
  <2>2. CASE d # c
    BY <2>2 DEF HeldFiles, TestsUseTheFile
  <2> QED
    BY <2>1, <2>2
<1> QED
  BY <1>1, <1>2, <1>3, <1>4, <1>5

\* ... and every step keeps it.
LEMMA PolicyStep == PolicyInv /\ [PolicyNext]_policyVars => PolicyInv'
<1> SUFFICES ASSUME PolicyInv, [PolicyNext]_policyVars PROVE PolicyInv'
  OBVIOUS
<1> USE PolicyAssumption
<1>t. PolicyTypeOK /\ HeldFiles /\ Recent /\ Tested /\ TestsUseTheFile
  BY DEF PolicyInv
<1>1. ASSUME NEW c \in Clients, NEW r \in left.asked, Calls(c, r) PROVE PolicyInv'
  <2> USE <1>1, <1>t
  <2>0. r \in Requests /\ r.project \in Projects
    BY DEF PolicyTypeOK, Projects
  <2>1. PolicyTypeOK'
    <3>1. since' \in [Clients -> SUBSET Files]
      <4>1. \A d \in Clients : r.project \in DOMAIN draft[d] => draft[d][r.project] \in Files
        BY DEF PolicyTypeOK
      <4> QED
        BY <2>0, <4>1 DEF Calls, PolicyTypeOK
    <3> QED
      BY <2>0, <3>1 DEF Calls, PolicyTypeOK, FirstStep
  <2>2. HeldFiles'
    <3>1. draft'[c] = <<>> /\ \A d \in Clients : d # c => draft'[d] = draft[d]
      BY DEF Calls, PolicyTypeOK
    <3>2. \A d \in Clients : \A k \in 1..Len(draft'[d]) : k \in Projects /\ draft'[d][k] \in held[k]
      BY <3>1 DEF HeldFiles
    <3> QED
      BY <3>2 DEF Calls, HeldFiles
  <2>3. Recent'
    <3> SUFFICES ASSUME NEW d \in Clients, at'[d] # "idle"
                 PROVE  /\ files[ProjectOf(d)'] \in since'[d]
                        /\ \A o \in Clients : (Reading(o)' /\ ProjectOf(d)' \in 1..Len(draft'[o]))
                                                => draft'[o][ProjectOf(d)'] \in since'[d]
      BY DEF Calls, Recent
    <3>1. CASE d = c
      <4>1. ProjectOf(d)' = r.project
        BY <3>1 DEF Calls, ProjectOf, PolicyTypeOK
      <4>2. files[r.project] \in since'[c]
        BY DEF Calls, PolicyTypeOK
      <4>3. ASSUME NEW o \in Clients, Reading(o)', r.project \in 1..Len(draft'[o])
            PROVE  draft'[o][r.project] \in since'[c]
        <5>1. o # c /\ draft'[o] = draft[o] /\ at'[o] = at[o]
          BY <4>3 DEF Calls, PolicyTypeOK
        <5>2. Reading(o) /\ r.project \in DOMAIN draft[o]
          BY <4>3, <5>1 DEF Reading, PolicyTypeOK
        <5> QED
          BY <5>1, <5>2 DEF Calls, PolicyTypeOK
      <4> QED
        BY <3>1, <4>1, <4>2, <4>3
    <3>2. CASE d # c
      <4>1. at[d] # "idle" /\ ProjectOf(d)' = ProjectOf(d) /\ since'[d] = since[d]
        BY <3>2 DEF Calls, ProjectOf, PolicyTypeOK
      <4>2. ASSUME NEW o \in Clients, Reading(o)', ProjectOf(d) \in 1..Len(draft'[o])
            PROVE  o # c /\ draft'[o] = draft[o] /\ Reading(o)
        <5>1. draft'[c] = <<>>
          BY DEF Calls, PolicyTypeOK
        <5>2. o # c
          BY <4>2, <5>1
        <5> QED
          BY <4>2, <5>2 DEF Calls, PolicyTypeOK, Reading
      <4> QED
        BY <4>1, <4>2 DEF Recent
    <3> QED
      BY <3>1, <3>2
  <2>4. Tested'
    BY <2>0 DEF Calls, Tested, PolicyTypeOK, FirstStep, ProjectOf
  <2>5. TestsUseTheFile'
    BY DEF Calls, TestsUseTheFile, PolicyTypeOK, HeldFiles, NoResult
  <2> QED
    BY <2>1, <2>2, <2>3, <2>4, <2>5 DEF PolicyInv
<1>2. ASSUME NEW c \in Clients, ReadsPolicy(c) PROVE PolicyInv'
  <2> USE <1>2, <1>t
  <2> DEFINE k == Len(draft[c]) + 1
             policy == files[k]
  <2>0. /\ draft[c] \in Seq(Files \ {Bad}) /\ k \in Projects /\ request[c] \in Requests
        /\ Len(draft[c]) \in Nat /\ Len(draft[c]) < Count
    BY DEF ReadsPolicy, PolicyTypeOK, Projects
  <2>1. CASE policy = Bad
    <3>1. Ends(c, "raised") /\ UNCHANGED draft
      BY <2>1 DEF ReadsPolicy, Loaded
    <3>2. PolicyTypeOK'
      BY <3>1 DEF ReadsPolicy, Ends, PolicyTypeOK
    <3>3. HeldFiles'
      BY <3>1 DEF ReadsPolicy, Ends, HeldFiles
    <3>4. Recent'
      BY <3>1 DEF ReadsPolicy, Ends, Recent, PolicyTypeOK, Reading, ProjectOf
    <3>5. Tested'
      BY <3>1 DEF ReadsPolicy, Ends, Tested, PolicyTypeOK, ProjectOf
    <3>6. TestsUseTheFile'
      BY <3>1 DEF ReadsPolicy, Ends, TestsUseTheFile, PolicyTypeOK, HeldFiles, NoResult
    <3> QED
      BY <3>2, <3>3, <3>4, <3>5, <3>6 DEF PolicyInv
  <2>2. CASE policy # Bad
    <3>1. /\ draft' = [draft EXCEPT ![c] = Append(@, policy)]
          /\ at' = IF HasAll(Append(draft[c], policy)) THEN [at EXCEPT ![c] = "swap"] ELSE at
          /\ UNCHANGED <<result, files, agentEnv, known, request, taken, held, since, left>>
          /\ at[c] = "read"
      BY <2>2 DEF ReadsPolicy, Loaded
    <3>2. /\ policy \in Files \ {Bad} /\ draft'[c] = Append(draft[c], policy)
          /\ draft'[c] \in Seq(Files \ {Bad}) /\ Len(draft'[c]) = k
          /\ \A d \in Clients : d # c => draft'[d] = draft[d]
      BY <2>0, <2>2, <3>1 DEF PolicyTypeOK
    <3>3. /\ at'[c] = IF k = Count THEN "swap" ELSE "read"
          /\ \A d \in Clients : d # c => at'[d] = at[d]
      BY <2>0, <3>1, <3>2 DEF PolicyTypeOK, HasAll
    <3>4. PolicyTypeOK'
      <4>1. at' \in [Clients -> {"idle", "read", "swap", "take", "act"}] /\ draft' \in [Clients -> Seq(Files \ {Bad})]
        BY <3>1, <3>2 DEF PolicyTypeOK
      <4>2. ASSUME NEW d \in Clients
            PROVE  /\ at'[d] # "idle" => request[d] \in Requests
                   /\ at'[d] = "read" => Len(draft'[d]) < Count
                   /\ at'[d] = "swap" => Len(draft'[d]) = Count
        BY <2>0, <3>2, <3>3 DEF PolicyTypeOK, Projects
      <4> QED
        BY <3>1, <4>1, <4>2 DEF PolicyTypeOK
    <3>5. \A j \in 1..Len(draft'[c]) : draft'[c][j] = IF j = k THEN policy ELSE draft[c][j]
      BY <2>0, <3>2
    <3>6. HeldFiles'
      <4>1. \A j \in 1..Len(draft'[c]) : j \in Projects /\ draft'[c][j] \in held[j]
        BY <2>0, <3>2, <3>5 DEF HeldFiles
      <4> QED
        BY <3>1, <3>2, <4>1 DEF HeldFiles
    <3>7. Recent'
      <4> SUFFICES ASSUME NEW d \in Clients, at'[d] # "idle"
                   PROVE  /\ files[ProjectOf(d)] \in since[d]
                          /\ \A o \in Clients : (Reading(o)' /\ ProjectOf(d) \in 1..Len(draft'[o]))
                                                  => draft'[o][ProjectOf(d)] \in since[d]
        BY <3>1 DEF Recent, ProjectOf
      <4>1. at[d] # "idle"
        BY <3>1, <3>3
      <4>2. ASSUME NEW o \in Clients, Reading(o)', ProjectOf(d) \in 1..Len(draft'[o])
            PROVE  draft'[o][ProjectOf(d)] \in since[d]
        <5>1. CASE o # c
          BY <3>2, <3>3, <4>1, <4>2, <5>1 DEF Recent, Reading
        <5>2. CASE o = c
          BY <2>0, <3>1, <3>2, <3>5, <4>1, <4>2, <5>2 DEF Recent, Reading
        <5> QED
          BY <5>1, <5>2
      <4> QED
        BY <4>1, <4>2 DEF Recent
    <3>8. Tested' /\ TestsUseTheFile'
      BY <3>1, <3>3 DEF Tested, TestsUseTheFile, ProjectOf
    <3> QED
      BY <3>4, <3>6, <3>7, <3>8 DEF PolicyInv
  <2> QED
    BY <2>1, <2>2
<1>3. ASSUME NEW c \in Clients, Swaps(c) PROVE PolicyInv'
  <2> USE <1>3, <1>t
  <2>1. /\ at[c] = "swap" /\ request[c] \in Requests /\ draft[c] \in Seq(Files \ {Bad})
        /\ Len(draft[c]) = Count
    BY DEF Swaps, PolicyTypeOK
  <2>2. /\ known' \in [Projects -> Files \ {Bad}]
        /\ \A p \in Projects : p \in 1..Len(draft[c]) /\ known'[p] = draft[c][p]
    BY <2>1 DEF Swaps, Projects
  <2>3. /\ at' = [at EXCEPT ![c] = IF request[c].op = "test" THEN "take" ELSE "idle"]
        /\ draft' = [draft EXCEPT ![c] = <<>>]
        /\ UNCHANGED <<files, agentEnv, request, taken, held, since, left>>
        /\ result' = result \/ result' = [result EXCEPT ![c] = [NoResult EXCEPT !.outcome = "refreshed"]]
    BY DEF Swaps, Ends
  <2>4. /\ draft'[c] = <<>> /\ \A d \in Clients : d # c => draft'[d] = draft[d] /\ at'[d] = at[d]
        /\ at'[c] = IF request[c].op = "test" THEN "take" ELSE "idle"
    BY <2>3 DEF PolicyTypeOK
  <2>5. PolicyTypeOK'
    <3>1. at' \in [Clients -> {"idle", "read", "swap", "take", "act"}] /\ draft' \in [Clients -> Seq(Files \ {Bad})]
      BY <2>3 DEF PolicyTypeOK
    <3>2. ASSUME NEW d \in Clients
          PROVE  /\ at'[d] # "idle" => request[d] \in Requests
                 /\ at'[d] = "read" => Len(draft'[d]) < Count
                 /\ at'[d] = "swap" => Len(draft'[d]) = Count
      BY <2>1, <2>4 DEF PolicyTypeOK
    <3> QED
      BY <2>2, <2>3, <3>1, <3>2 DEF PolicyTypeOK
  <2>6. HeldFiles'
    BY <2>1, <2>2, <2>3, <2>4 DEF HeldFiles
  <2>7. Recent'
    <3> SUFFICES ASSUME NEW d \in Clients, at'[d] # "idle"
                 PROVE  /\ files[ProjectOf(d)] \in since[d]
                        /\ \A o \in Clients : (Reading(o)' /\ ProjectOf(d) \in 1..Len(draft'[o]))
                                                => draft'[o][ProjectOf(d)] \in since[d]
      BY <2>3 DEF Recent, ProjectOf
    <3>1. at[d] # "idle"
      BY <2>1, <2>4
    <3>2. ASSUME NEW o \in Clients, Reading(o)', ProjectOf(d) \in 1..Len(draft'[o])
          PROVE  draft'[o][ProjectOf(d)] \in since[d]
      <4>1. o # c
        BY <2>4, <3>2
      <4> QED
        BY <2>4, <3>1, <3>2, <4>1 DEF Recent, Reading
    <3> QED
      BY <3>1, <3>2 DEF Recent
  <2>8. Tested'
    <3> SUFFICES ASSUME NEW d \in Clients, at'[d] # "idle", request[d].op = "test"
                 PROVE  /\ at'[d] = "take" => known'[ProjectOf(d)] \in since[d]
                        /\ at'[d] = "act" => taken[d] \in since[d]
      BY <2>3 DEF Tested, ProjectOf
    <3>1. at[d] # "idle" /\ ProjectOf(d) \in Projects
      BY <2>1, <2>4 DEF PolicyTypeOK, ProjectOf, Projects
    <3>2. draft[c][ProjectOf(d)] \in since[d]
      BY <2>1, <2>2, <3>1 DEF Recent, Reading
    <3> QED
      BY <2>2, <2>4, <3>1, <3>2 DEF Tested
  <2>9. TestsUseTheFile'
    BY <2>3 DEF TestsUseTheFile, HeldFiles, NoResult
  <2> QED
    BY <2>5, <2>6, <2>7, <2>8, <2>9 DEF PolicyInv
<1>4. ASSUME NEW c \in Clients, Takes(c) PROVE PolicyInv'
  <2> USE <1>4, <1>t
  <2>0. request[c] \in Requests /\ ProjectOf(c) \in Projects
    BY DEF Takes, PolicyTypeOK, ProjectOf, Projects
  <2>1. PolicyTypeOK'
    BY <2>0 DEF Takes, PolicyTypeOK, ProjectOf
  <2>2. HeldFiles'
    BY DEF Takes, HeldFiles
  <2>3. Recent'
    BY DEF Takes, Recent, PolicyTypeOK, Reading, ProjectOf
  <2>4. Tested'
    BY <2>0 DEF Takes, Tested, PolicyTypeOK, ProjectOf
  <2>5. TestsUseTheFile'
    BY DEF Takes, TestsUseTheFile
  <2> QED
    BY <2>1, <2>2, <2>3, <2>4, <2>5 DEF PolicyInv
<1>5. ASSUME NEW c \in Clients, RunsCommand(c) \/ Probes(c) \/ ChecksHealth(c) PROVE PolicyInv'
  <2>1. PICK r : /\ at[c] = "act" /\ at' = [at EXCEPT ![c] = "idle"]
                 /\ result' = [result EXCEPT ![c] = r] /\ r.outcome # "reached"
                 /\ UNCHANGED <<files, agentEnv, known, request, draft, taken, held, since, left>>
    BY <1>5 DEF RunsCommand, Probes, ChecksHealth, Starts, Ends, NoResult
  <2> QED
    BY <2>1, EndsInv
<1>6. ASSUME NEW c \in Clients, RequestsUrl(c) \/ Tests(c) PROVE PolicyInv'
  <2>1. PICK r : /\ at[c] = "act" /\ at' = [at EXCEPT ![c] = "idle"]
                 /\ result' = [result EXCEPT ![c] = r]
                 /\ r.outcome = "reached" => Permits(taken[c], r.host)
                 /\ UNCHANGED <<files, agentEnv, known, request, draft, taken, held, since, left>>
    BY <1>6 DEF RequestsUrl, Tests, Reaches, Ends, NoResult
  <2> QED
    BY <2>1, EndsInv
<1>7. ASSUME NEW p \in Projects, NEW file \in left.written, EditsPolicy(p, file) PROVE PolicyInv'
  <2> USE <1>7, <1>t
  <2>0. file \in Files
    BY DEF PolicyTypeOK
  <2>1. PolicyTypeOK'
    BY <2>0 DEF EditsPolicy, PolicyTypeOK
  <2>2. HeldFiles'
    <3>1. \A q \in Projects : held[q] \subseteq held'[q] /\ files'[q] \in held'[q]
      BY DEF EditsPolicy, PolicyTypeOK, HeldFiles
    <3> QED
      BY <3>1 DEF EditsPolicy, HeldFiles
  <2>3. \A c \in Clients : since[c] \subseteq since'[c]
    BY DEF EditsPolicy
  <2>4. Recent'
    BY <2>3 DEF EditsPolicy, Recent, PolicyTypeOK, Reading, ProjectOf
  <2>5. Tested'
    BY <2>3 DEF EditsPolicy, Tested, ProjectOf
  <2>6. TestsUseTheFile'
    BY <2>3 DEF EditsPolicy, TestsUseTheFile
  <2> QED
    BY <2>1, <2>2, <2>4, <2>5, <2>6 DEF PolicyInv
<1>8. ASSUME NEW p \in Projects, NEW env \in AgentEnvs, EditsAgentEnv(p, env) PROVE PolicyInv'
  BY <1>8, <1>t DEF EditsAgentEnv, PolicyInv, PolicyTypeOK, HeldFiles, Recent, Tested, TestsUseTheFile,
       Reading, ProjectOf
<1>9. CASE UNCHANGED policyVars
  BY <1>9, <1>t DEF policyVars, PolicyInv, PolicyTypeOK, HeldFiles, Recent, Tested, TestsUseTheFile,
       Reading, ProjectOf
<1> QED
  BY <1>1, <1>2, <1>3, <1>4, <1>5, <1>6, <1>7, <1>8, <1>9 DEF PolicyNext

\* Types, and what follows from them, in every reachable state
\* (registry.py:20-30, connections.py:89-148).
THEOREM PolicyInvariant == PolicySpec => []PolicyInv
  BY PolicyInitInv, PolicyStep, PTL DEF PolicySpec

\* A policy file that cannot be parsed changes nothing (policy/service.py:19-33).
THEOREM PoliciesComeFromFiles == PolicySpec => []InvalidFilesChangeNothing
<1>1. PolicyInv => InvalidFilesChangeNothing
  BY DEF PolicyInv, PolicyTypeOK, HeldFiles, InvalidFilesChangeNothing
<1> QED
  BY <1>1, PolicyInvariant, PTL

\* A connection is tested by a policy of the call's own time
\* (connections.py:89-148).
THEOREM TestsAreRecent == PolicySpec => []TestsUseTheFile
<1>1. PolicyInv => TestsUseTheFile
  BY DEF PolicyInv
<1> QED
  BY <1>1, PolicyInvariant, PTL

\* Every variable keeps its type.
THEOREM PolicyTypes == PolicySpec => []PolicyTypeOK
<1>1. PolicyInv => PolicyTypeOK
  BY DEF PolicyInv
<1> QED
  BY <1>1, PolicyInvariant, PTL

------------------------------------------------------------------------------
\* A call acts by a policy that its project has had.
TakenInv ==
  \A c \in Clients :
    /\ at[c] = "act" => taken[c] \in held[ProjectOf(c)]
    /\ result[c].outcome = "started" => request[c] # None

\* The two halves of ProcessesFollowThePolicy, for the result of one call.
FollowsPolicy(c) ==
  result[c].outcome = "started" =>
    \E policy \in held[ProjectOf(c)] \ {Bad} :
      /\ Allows(policy, ArgvOf(request[c]))
      /\ result[c].env = Environment(policy, request[c].env)
      /\ result[c].seconds = Seconds(policy, ArgvOf(request[c]), request[c].seconds)
VariablesAllowed(c) ==
  (/\ request[c] # None /\ request[c].op = "test" /\ result[c].outcome = "reached"
   /\ \A env \in AgentEnvs \ {Bad} : env[HostVar] # result[c].host) =>
    \E policy \in since[c] \ {Bad} :
      Inherited(policy)[HostVar] = result[c].host /\ Permits(policy, result[c].host)

EnforcedInv ==
  PolicyInv /\ TakenInv /\ \A c \in Clients : FollowsPolicy(c) /\ VariablesAllowed(c)

\* A call keeps its result, or gets one that starts and reaches nothing: what was
\* true of it stays true, since the history only grows.
LEMMA ResultsStay ==
  ASSUME EnforcedInv, NEW c \in Clients,
         \/ /\ request'[c] = request[c] /\ result'[c] = result[c]
            /\ since[c] \subseteq since'[c]
         \/ result'[c].outcome \notin {"started", "reached"},
         \A p \in Projects : held[p] \subseteq held'[p]
  PROVE  FollowsPolicy(c)' /\ VariablesAllowed(c)'
<1>1. CASE result'[c].outcome \notin {"started", "reached"}
  BY <1>1 DEF FollowsPolicy, VariablesAllowed
<1>2. CASE request'[c] = request[c] /\ result'[c] = result[c] /\ since[c] \subseteq since'[c]
  <2>1. result[c].outcome = "started" => ProjectOf(c) \in Projects
    BY PolicyAssumption DEF EnforcedInv, TakenInv, PolicyInv, PolicyTypeOK, ProjectOf, Projects
  <2>2. FollowsPolicy(c)'
    BY <1>2, <2>1 DEF EnforcedInv, FollowsPolicy, ProjectOf
  <2>3. VariablesAllowed(c)'
    BY <1>2 DEF EnforcedInv, VariablesAllowed
  <2> QED
    BY <2>2, <2>3
<1> QED
  BY <1>1, <1>2

\* What a call does with the policy it has taken: it starts a process, reaches a
\* host, or neither.
LEMMA ActsByPolicy ==
  ASSUME EnforcedInv, NEW c \in Clients,
         RunsCommand(c) \/ Probes(c) \/ ChecksHealth(c) \/ RequestsUrl(c) \/ Tests(c)
  PROVE  FollowsPolicy(c)' /\ VariablesAllowed(c)'
<1>t. /\ PolicyTypeOK /\ HeldFiles /\ Tested /\ request[c] \in Requests /\ at[c] = "act"
      /\ taken[c] \in held[ProjectOf(c)] /\ taken[c] # Bad
      /\ request[c].op # "run" => request[c].preset = None
      /\ UNCHANGED <<request, held, since>>
  BY PolicyAssumption
  DEF EnforcedInv, PolicyInv, PolicyTypeOK, TakenInv, RunsCommand, Probes, ChecksHealth,
      RequestsUrl, Tests
<1>1. ASSUME Starts(c), Allows(taken[c], ArgvOf(request[c]))
      PROVE  FollowsPolicy(c)' /\ VariablesAllowed(c)'
  <2>1. /\ result'[c].outcome = "started"
        /\ result'[c].env = Environment(taken[c], request[c].env)
        /\ result'[c].seconds = Seconds(taken[c], ArgvOf(request[c]), request[c].seconds)
    BY <1>t, <1>1 DEF Starts, HeldFiles, RecordPolicy
  <2> QED
    BY <1>t, <1>1, <2>1 DEF FollowsPolicy, VariablesAllowed, ProjectOf
<1>2. ASSUME NEW outcome, Ends(c, outcome), outcome \notin {"started", "reached"}
      PROVE  FollowsPolicy(c)' /\ VariablesAllowed(c)'
  <2>1. result'[c].outcome = outcome
    BY <1>t, <1>2 DEF Ends, HeldFiles, NoResult
  <2> QED
    BY <1>2, <2>1 DEF FollowsPolicy, VariablesAllowed
<1>3. ASSUME NEW host, Reaches(c, host),
             request[c].op = "test" =>
               \/ Inherited(taken[c])[HostVar] = host
               \/ \E env \in AgentEnvs \ {Bad} : env[HostVar] = host
      PROVE  FollowsPolicy(c)' /\ VariablesAllowed(c)'
  <2>1. CASE Permits(taken[c], host)
    <3>1. result'[c].outcome = "reached" /\ result'[c].host = host
      BY <1>t, <1>3, <2>1 DEF Reaches, HeldFiles, NoResult
    <3>2. request[c].op = "test" => taken[c] \in since[c]
      BY <1>t DEF Tested
    <3> QED
      BY <1>t, <1>3, <2>1, <3>1, <3>2 DEF FollowsPolicy, VariablesAllowed
  <2>2. CASE ~Permits(taken[c], host)
    BY <1>2, <1>3, <2>2 DEF Reaches
  <2> QED
    BY <2>1, <2>2
<1>4. CASE RunsCommand(c)
  BY <1>1, <1>2, <1>4 DEF RunsCommand
<1>5. CASE Probes(c) \/ ChecksHealth(c)
  <2>1. ArgvOf(request[c]) = request[c].argv
    BY <1>t, <1>5 DEF Probes, ChecksHealth, ArgvOf
  <2> QED
    BY <1>1, <1>2, <1>5, <2>1 DEF Probes, ChecksHealth
<1>6. CASE RequestsUrl(c)
  BY <1>3, <1>6 DEF RequestsUrl
<1>7. CASE Tests(c)
  <2> DEFINE env == agentEnv[request[c].project]
             found == ConnectionEnv(taken[c], env)
  <2>1. env \in AgentEnvs
    BY <1>t, PolicyAssumption DEF PolicyTypeOK, Projects
  <2>2. found[HostVar] = IF env[HostVar] # None THEN env[HostVar] ELSE Inherited(taken[c])[HostVar]
    BY PolicyAssumption DEF ConnectionEnv
  <2>3. Ends(c, "raised") \/ (env # Bad /\ Reaches(c, found[HostVar]))
    BY <1>7 DEF Tests
  <2> QED
    BY <1>2, <1>3, <2>1, <2>2, <2>3
<1> QED
  BY <1>4, <1>5, <1>6, <1>7

\* Every step keeps it.
LEMMA EnforcedStep == EnforcedInv /\ [PolicyNext]_policyVars => EnforcedInv'
<1> SUFFICES ASSUME EnforcedInv, [PolicyNext]_policyVars PROVE EnforcedInv'
  OBVIOUS
<1>t. PolicyInv /\ PolicyInv' /\ PolicyTypeOK /\ HeldFiles /\ TakenInv
  BY PolicyStep DEF EnforcedInv, PolicyInv
<1> SUFFICES TakenInv' /\ \A c \in Clients : FollowsPolicy(c)' /\ VariablesAllowed(c)'
  BY <1>t DEF EnforcedInv
<1>1. ASSUME NEW c \in Clients, NEW r \in left.asked, Calls(c, r)
      PROVE  TakenInv' /\ \A d \in Clients : FollowsPolicy(d)' /\ VariablesAllowed(d)'
  <2>1. /\ result'[c].outcome = "none" /\ at'[c] # "act" /\ held' = held
        /\ \A d \in Clients \ {c} : /\ request'[d] = request[d] /\ result'[d] = result[d]
                                    /\ since'[d] = since[d] /\ at'[d] = at[d] /\ taken'[d] = taken[d]
    BY <1>t, <1>1 DEF Calls, PolicyTypeOK, HeldFiles, NoResult, FirstStep
  <2>2. TakenInv'
    BY <1>t, <2>1 DEF TakenInv, ProjectOf
  <2>3. \A d \in Clients : FollowsPolicy(d)' /\ VariablesAllowed(d)'
    BY <2>1, ResultsStay
  <2> QED
    BY <2>2, <2>3
<1>2. ASSUME NEW c \in Clients, ReadsPolicy(c) \/ Swaps(c) \/ Takes(c)
      PROVE  TakenInv' /\ \A d \in Clients : FollowsPolicy(d)' /\ VariablesAllowed(d)'
  <2>1. /\ result'[c] = result[c] \/ result'[c].outcome \in {"raised", "refreshed"}
        /\ \A d \in Clients \ {c} : result'[d] = result[d]
        /\ UNCHANGED <<request, held, since>>
    BY <1>t, <1>2 DEF ReadsPolicy, Swaps, Takes, Ends, HeldFiles, NoResult
  <2>2. ASSUME NEW d \in Clients, at'[d] = "act"
        PROVE  \/ taken'[d] = taken[d] /\ at[d] = "act"
               \/ at[d] = "take" /\ taken'[d] = known[ProjectOf(d)]
    <3>1. CASE ReadsPolicy(c) \/ Swaps(c)
      <4>1. /\ taken' = taken
            /\ \E where \in {"idle", "read", "swap", "take"} : at' = [at EXCEPT ![c] = where]
        <5>1. CASE Swaps(c)
          BY <5>1 DEF Swaps, Ends
        <5>2. CASE ReadsPolicy(c)
          <6>1. at' = at => at' = [at EXCEPT ![c] = "read"]
            BY <1>t, <5>2 DEF ReadsPolicy, PolicyTypeOK
          <6> QED
            BY <5>2, <6>1 DEF ReadsPolicy, Ends
        <5> QED
          BY <3>1, <5>1, <5>2
      <4> QED
        BY <1>t, <2>2, <4>1 DEF PolicyTypeOK
    <3>2. CASE Takes(c)
      BY <1>t, <2>2, <3>2 DEF Takes, PolicyTypeOK, ProjectOf
    <3> QED
      BY <1>2, <3>1, <3>2
  <2>3. TakenInv'
    <3>1. ASSUME NEW d \in Clients, at'[d] = "act" PROVE taken'[d] \in held'[ProjectOf(d)]
      <4>1. at[d] = "take" => ProjectOf(d) \in Projects
        BY <1>t, PolicyAssumption DEF PolicyTypeOK, ProjectOf, Projects
      <4> QED
        BY <1>t, <2>1, <2>2, <3>1, <4>1 DEF TakenInv, HeldFiles
    <3> QED
      BY <1>t, <2>1, <3>1 DEF TakenInv, ProjectOf
  <2>4. \A d \in Clients : FollowsPolicy(d)' /\ VariablesAllowed(d)'
    BY <2>1, ResultsStay
  <2> QED
    BY <2>3, <2>4
<1>3. ASSUME NEW c \in Clients,
             RunsCommand(c) \/ Probes(c) \/ ChecksHealth(c) \/ RequestsUrl(c) \/ Tests(c)
      PROVE  TakenInv' /\ \A d \in Clients : FollowsPolicy(d)' /\ VariablesAllowed(d)'
  <2>1. /\ at[c] = "act" /\ at' = [at EXCEPT ![c] = "idle"] /\ UNCHANGED <<request, taken, held, since>>
        /\ \E r : result' = [result EXCEPT ![c] = r]
    BY <1>3 DEF RunsCommand, Probes, ChecksHealth, RequestsUrl, Tests, Reaches, Starts, Ends
  <2>2. /\ at'[c] = "idle" /\ request[c] \in Requests
        /\ \A d \in Clients \ {c} : at'[d] = at[d] /\ result'[d] = result[d]
    BY <1>t, <2>1 DEF PolicyTypeOK, HeldFiles
  <2>3. request[c] # None
    BY <2>2, PolicyAssumption
  <2>4. TakenInv'
    BY <1>t, <2>1, <2>2, <2>3 DEF TakenInv, ProjectOf
  <2>5. \A d \in Clients : FollowsPolicy(d)' /\ VariablesAllowed(d)'
    BY <1>3, <2>1, <2>2, ActsByPolicy, ResultsStay
  <2> QED
    BY <2>4, <2>5
<1>4. ASSUME NEW p \in Projects,
             \/ \E file \in left.written : EditsPolicy(p, file)
             \/ \E env \in AgentEnvs : EditsAgentEnv(p, env)
      PROVE  TakenInv' /\ \A d \in Clients : FollowsPolicy(d)' /\ VariablesAllowed(d)'
  <2>1. /\ UNCHANGED <<at, request, taken, result>>
        /\ \A q \in Projects : held[q] \subseteq held'[q]
        /\ \A d \in Clients : since[d] \subseteq since'[d]
    <3>1. CASE \E env \in AgentEnvs : EditsAgentEnv(p, env)
      BY <3>1 DEF EditsAgentEnv
    <3>2. ASSUME NEW file \in left.written, EditsPolicy(p, file)
          PROVE  /\ UNCHANGED <<at, request, taken, result>>
                 /\ \A q \in Projects : held[q] \subseteq held'[q]
                 /\ \A d \in Clients : since[d] \subseteq since'[d]
      <4>1. \A q \in Projects : held'[q] = IF q = p THEN held[p] \cup {file} ELSE held[q]
        BY <1>t, <3>2 DEF EditsPolicy, PolicyTypeOK
      <4>2. \A d \in Clients : since'[d] = since[d] \/ since'[d] = since[d] \cup {file}
        BY <3>2 DEF EditsPolicy
      <4> QED
        BY <3>2, <4>1, <4>2 DEF EditsPolicy
    <3> QED
      BY <1>4, <3>1, <3>2
  <2>2. \A d \in Clients : at[d] = "act" => ProjectOf(d) \in Projects
    BY <1>t, PolicyAssumption DEF PolicyTypeOK, ProjectOf, Projects
  <2>3. TakenInv'
    BY <1>t, <2>1, <2>2 DEF TakenInv, ProjectOf
  <2>4. \A d \in Clients : FollowsPolicy(d)' /\ VariablesAllowed(d)'
    BY <2>1, ResultsStay
  <2> QED
    BY <2>3, <2>4
<1>5. CASE UNCHANGED policyVars
  <2>1. \A d \in Clients : FollowsPolicy(d)' /\ VariablesAllowed(d)'
    BY <1>5, ResultsStay DEF policyVars
  <2> QED
    BY <1>t, <1>5, <2>1 DEF policyVars, TakenInv, ProjectOf
<1> QED
  BY <1>1, <1>2, <1>3, <1>4, <1>5 DEF PolicyNext

\* Whatever runs has been allowed by one policy of its project, which also gave
\* its environment and its time; a variable of the server's own environment names
\* the host of a test only where a policy lets it (commands/service.py:60-109,
\* probes/service.py:45-82, connections.py:186-217).
THEOREM ProcessesAreEnforced == PolicySpec => []ProcessesFollowThePolicy
<1>1. PolicyInit => EnforcedInv
  <2> SUFFICES ASSUME PolicyInit PROVE TakenInv /\ \A c \in Clients : FollowsPolicy(c) /\ VariablesAllowed(c)
    BY PolicyInitInv DEF EnforcedInv
  <2> QED
    BY DEF PolicyInit, NoResult, TakenInv, FollowsPolicy, VariablesAllowed
<1>2. EnforcedInv => ProcessesFollowThePolicy
  BY DEF EnforcedInv, ProcessesFollowThePolicy, ProcessesFollowOnePolicy,
         ProcessVariablesAreAllowed, FollowsPolicy, VariablesAllowed, ProjectOf
<1> QED
  BY <1>1, <1>2, EnforcedStep, PTL DEF PolicySpec

------------------------------------------------------------------------------
\* Both

\* Of what the capture and the policies do beside each other, each sees steps of
\* its own and others that change nothing.
LEMMA CommandIOIsBoth == StartSpec => CaptureSpec /\ PolicySpec
<1>1. StartInit => CaptureInit /\ PolicyInit
  BY DEF StartInit
<1>2. [StartNext]_<<captureVars, policyVars>> => [CaptureNext]_captureVars /\ [PolicyNext]_policyVars
  BY DEF StartNext
<1> QED
  BY <1>1, <1>2, PTL DEF StartSpec, CaptureSpec, PolicySpec

\* MCCommandIO!TypeOK: the capture and the policies keep their types beside each
\* other (commands/jobs.py, policy/service.py).
THEOREM CommandIOKeepsTypes == StartSpec => []TypeOK
<1>1. CaptureTypeOK /\ PolicyTypeOK => TypeOK
  BY DEF TypeOK
<1> QED
  BY <1>1, CommandIOIsBoth, CaptureTypesHold, PolicyTypes, PTL
================================================================================
