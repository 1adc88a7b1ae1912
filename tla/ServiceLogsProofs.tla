--------------------------- MODULE ServiceLogsProofs ---------------------------
(***************************************************************************)
(* What the log buffer of a service keeps, for any number of capture       *)
(* threads, any limit and any text: it counts and numbers its lines, drops *)
(* no line too early, leaves no fragment behind, and its pages skip        *)
(* nothing.                                                                *)
(***************************************************************************)
EXTENDS ServiceLogs, FiniteSetTheorems, TLAPS

------------------------------------------------------------------------------
\* Numbers

Below == {ss \in Nat \X Nat : ss[1] < ss[2]}

\* A set of numbers has a least one.
LEMMA LeastNumber ==
  ASSUME NEW S, S \subseteq Nat, S # {}
  PROVE  Min(S) \in S /\ \A y \in S : Min(S) <= y
<1>1. IsWellFoundedOn(Below, Nat)
  BY NatLessThanWellFounded DEF OpToRel, Below
<1>2. PICK x \in S : \A y \in S : ~ (<<y, x>> \in Below)
  BY <1>1, WFMin
<1>3. ASSUME NEW y \in S PROVE x <= y
  <2>1. x \in Nat /\ y \in Nat /\ <<y, x>> \notin Below
    BY <1>2
  <2>2. y < x => <<y, x>> \in Below
    BY <2>1 DEF Below
  <2> QED
    BY <2>1, <2>2
<1> QED
  BY <1>3 DEF Min

\* What is true of zero, and of a number when it is true of the one before, is
\* true of all numbers up to n.  The set holds those of which it is true.
LEMMA UpTo ==
  ASSUME NEW n \in Nat, NEW T, 0 \in T, \A k \in 1..n : k - 1 \in T => k \in T
  PROVE  \A k \in 0..n : k \in T
<1> DEFINE S == (0..n) \ T
<1> SUFFICES ASSUME S # {} PROVE FALSE
  OBVIOUS
<1>1. Min(S) \in S /\ \A y \in S : Min(S) <= y
  BY LeastNumber
<1> DEFINE m == Min(S)
<1> HIDE DEF m
<1>2. m \in 0..n /\ m \notin T /\ \A y \in (0..n) \ T : m <= y
  BY <1>1 DEF m
<1>3. m # 0 /\ m - 1 \in 0..n /\ m \in 1..n /\ ~ (m <= m - 1)
  BY <1>2
<1>4. m - 1 \in T
  BY <1>2, <1>3
<1> QED
  BY <1>2, <1>3, <1>4

------------------------------------------------------------------------------
\* How much room lines take

Lines == [number : Nat, stream : Streams, text : Seq(Chars)]
SumsOf(ls, sum) == sum = [k \in 0..Len(ls) |-> IF k = 0 THEN 0 ELSE sum[k - 1] + Size(ls[k].text)]
Sums(ls) == CHOOSE sum : SumsOf(ls, sum)

\* There are such sums.
LEMMA SumsExist ==
  ASSUME NEW n \in Nat, NEW f \in [1..n -> Nat]
  PROVE  \E g \in [0..n -> Nat] : g = [k \in 0..n |-> IF k = 0 THEN 0 ELSE g[k - 1] + f[k]]
<1> DEFINE Good(m) == \E g \in [0..m -> Nat] : g[0] = 0 /\ \A k \in 1..m : g[k] = g[k - 1] + f[k]
           T == {m \in 0..n : Good(m)}
<1>1. 0 \in T
  <2> DEFINE g == [k \in 0..0 |-> 0]
  <2>1. g \in [0..0 -> Nat] /\ g[0] = 0 /\ \A k \in 1..0 : g[k] = g[k - 1] + f[k]
    OBVIOUS
  <2>2. Good(0)
    BY <2>1
  <2> QED
    BY <2>2
<1>2. ASSUME NEW m \in 1..n, m - 1 \in T PROVE m \in T
  <2>1. PICK g \in [0..m - 1 -> Nat] : g[0] = 0 /\ \A k \in 1..m - 1 : g[k] = g[k - 1] + f[k]
    BY <1>2
  <2> DEFINE h == [k \in 0..m |-> IF k = m THEN g[m - 1] + f[m] ELSE g[k]]
  <2>2. h \in [0..m -> Nat]
    OBVIOUS
  <2>3. h[0] = 0
    BY <2>1
  <2>4. \A k \in 1..m : h[k] = h[k - 1] + f[k]
    BY <2>1
  <2>5. Good(m)
    <3> HIDE DEF h
    <3> QED
      BY <2>2, <2>3, <2>4
  <2>6. m \in 0..n
    OBVIOUS
  <2> HIDE DEF Good
  <2> QED
    BY <2>5, <2>6
<1> HIDE DEF T
<1>3. n \in T
  <2>1. n \in 0..n
    OBVIOUS
  <2>2. \A k \in 0..n : k \in T
    BY <1>1, <1>2, UpTo
  <2> QED
    BY <2>1, <2>2
<1>4. PICK g \in [0..n -> Nat] : g[0] = 0 /\ \A k \in 1..n : g[k] = g[k - 1] + f[k]
  BY <1>3 DEF T
<1>5. \A k \in 0..n : g[k] = IF k = 0 THEN 0 ELSE g[k - 1] + f[k]
  BY <1>4
<1>6. g = [k \in 0..n |-> IF k = 0 THEN 0 ELSE g[k - 1] + f[k]]
  BY <1>5
<1> QED
  BY <1>6

\* Every line takes room.
LEMMA SizesAreNumbers ==
  ASSUME NEW ls \in Seq(Lines), NEW k \in 1..Len(ls)
  PROVE  Size(ls[k].text) \in Nat /\ Size(ls[k].text) > 0 /\ ls[k] \in Lines
<1>1. ls[k] \in Lines
  OBVIOUS
<1>2. ls[k].text \in Seq(Chars)
  BY <1>1 DEF Lines
<1> QED
  BY <1>1, <1>2 DEF Size

\* The sums of the sizes, up to each line.
LEMMA SumsGrow ==
  ASSUME NEW ls \in Seq(Lines)
  PROVE  /\ Sums(ls) \in [0..Len(ls) -> Nat] /\ Sums(ls)[0] = 0
         /\ \A k \in 1..Len(ls) : Sums(ls)[k] = Sums(ls)[k - 1] + Size(ls[k].text)
         /\ Bytes(ls) = Sums(ls)[Len(ls)] /\ Bytes(ls) \in Nat
<1> DEFINE n == Len(ls)
           f == [k \in 1..n |-> Size(ls[k].text)]
<1>1. n \in Nat /\ f \in [1..n -> Nat]
  BY SizesAreNumbers
<1>2. PICK g \in [0..n -> Nat] : g = [k \in 0..n |-> IF k = 0 THEN 0 ELSE g[k - 1] + f[k]]
  <2> HIDE DEF n, f
  <2> QED
    BY <1>1, SumsExist
<1>3. g = [k \in 0..n |-> IF k = 0 THEN 0 ELSE g[k - 1] + Size(ls[k].text)]
  <2>1. \A k \in 0..n : g[k] = IF k = 0 THEN 0 ELSE g[k - 1] + Size(ls[k].text)
    <3>1. \A k \in 0..n : k # 0 => f[k] = Size(ls[k].text)
      BY <1>1
    <3> HIDE DEF f
    <3> QED
      BY <1>2, <3>1
  <2> QED
    BY <2>1
<1>4. SumsOf(ls, Sums(ls))
  <2>1. SumsOf(ls, g)
    BY <1>3 DEF SumsOf
  <2> QED
    BY <2>1 DEF Sums
<1> DEFINE s == Sums(ls)
<1>5. Bytes(ls) = s[n]
  BY DEF Bytes, Sums, SumsOf
<1> HIDE DEF s
<1>6. s = [k \in 0..n |-> IF k = 0 THEN 0 ELSE s[k - 1] + Size(ls[k].text)]
  BY <1>4 DEF SumsOf, s
<1>7. s[0] = 0 /\ \A k \in 1..n : s[k] = s[k - 1] + Size(ls[k].text)
  <2>1. \A k \in 0..n : s[k] = IF k = 0 THEN 0 ELSE s[k - 1] + Size(ls[k].text)
    BY <1>6
  <2> QED
    BY <1>1, <2>1
<1>8. \A k \in 0..n : s[k] \in Nat
  <2> DEFINE T == {k \in 0..n : s[k] \in Nat}
  <2>1. 0 \in T
    BY <1>1, <1>7
  <2>2. ASSUME NEW k \in 1..n, k - 1 \in T PROVE k \in T
    BY <1>1, <1>7, <2>2, SizesAreNumbers
  <2> HIDE DEF T
  <2>3. \A k \in 0..n : k \in T
    BY <1>1, <2>1, <2>2, UpTo
  <2> QED
    BY <2>3 DEF T
<1>9. s \in [0..n -> Nat]
  BY <1>6, <1>8
<1> QED
  BY <1>1, <1>5, <1>7, <1>8, <1>9 DEF s

\* Lines of the same sizes take the same room, wherever they are.
LEMMA SameSizesSameRoom ==
  ASSUME NEW a \in Seq(Lines), NEW b \in Seq(Lines), NEW i \in 0..Len(a), NEW x \in i..Len(a),
         NEW j \in 0..Len(b), NEW y \in j..Len(b), x - i = y - j,
         \A p \in 1..Len(a), q \in 1..Len(b) :
           i < p /\ p <= x /\ p - i = q - j => Size(a[p].text) = Size(b[q].text)
  PROVE  Sums(a)[x] - Sums(a)[i] = Sums(b)[y] - Sums(b)[j]
<1> DEFINE f == Sums(a)
           g == Sums(b)
           n == Len(a)
           l == Len(b)
           T == {k \in 0..x - i : \A p \in 0..n, q \in 0..l : p - i = k /\ q - j = k => f[p] - f[i] = g[q] - g[j]}
<1>0. /\ n \in Nat /\ l \in Nat /\ i \in Int /\ j \in Int /\ x \in Int /\ y \in Int
      /\ 0 <= i /\ i <= x /\ x <= n /\ 0 <= j /\ j <= y /\ y <= l /\ x - i = y - j
  OBVIOUS
<1>1. /\ f \in [0..n -> Nat] /\ \A k \in 1..n : f[k] = f[k - 1] + Size(a[k].text)
      /\ g \in [0..l -> Nat] /\ \A k \in 1..l : g[k] = g[k - 1] + Size(b[k].text)
  BY SumsGrow
<1>2. /\ \A p \in 1..n : Size(a[p].text) \in Nat
      /\ \A p \in 1..n, q \in 1..l :
           i < p /\ p <= x /\ p - i = q - j => Size(a[p].text) = Size(b[q].text)
  BY SizesAreNumbers
<1> HIDE DEF f, g, n, l
<1>3. 0 \in T
  <2>1. \A p \in 0..n, q \in 0..l : p - i = 0 /\ q - j = 0 => p = i /\ q = j
    BY <1>0
  <2>2. f[i] \in Nat /\ g[j] \in Nat
    <3>1. i \in 0..n /\ j \in 0..l
      BY <1>0
    <3> QED
      BY <1>1, <3>1
  <2>3. \A p \in 0..n, q \in 0..l : p - i = 0 /\ q - j = 0 => f[p] - f[i] = g[q] - g[j]
    BY <2>1, <2>2
  <2>4. 0 \in 0..x - i
    BY <1>0
  <2> QED
    BY <2>3, <2>4
<1>4. ASSUME NEW k \in 1..x - i, k - 1 \in T PROVE k \in T
  <2>1. ASSUME NEW p \in 0..n, NEW q \in 0..l, p - i = k, q - j = k PROVE f[p] - f[i] = g[q] - g[j]
    <3>1. /\ p \in 1..n /\ q \in 1..l /\ p - 1 \in 0..n /\ q - 1 \in 0..l
          /\ (p - 1) - i = k - 1 /\ (q - 1) - j = k - 1 /\ i < p /\ p <= x /\ p - i = q - j
          /\ i \in 0..n /\ j \in 0..l
      BY <1>0, <2>1
    <3>2. f[p - 1] - f[i] = g[q - 1] - g[j]
      BY <1>4, <3>1
    <3>3. f[p] = f[p - 1] + Size(a[p].text) /\ g[q] = g[q - 1] + Size(b[q].text)
      BY <1>1, <3>1
    <3>4. Size(a[p].text) = Size(b[q].text) /\ Size(a[p].text) \in Nat
      BY <1>2, <3>1
    <3>5. f[p - 1] \in Nat /\ g[q - 1] \in Nat /\ f[i] \in Nat /\ g[j] \in Nat
      BY <1>1, <3>1
    <3>6. f[p] = f[p - 1] + Size(a[p].text) /\ g[q] = g[q - 1] + Size(a[p].text)
      BY <3>3, <3>4
    <3>7. (f[p - 1] + Size(a[p].text)) - f[i] = (g[q - 1] + Size(a[p].text)) - g[j]
      <4> DEFINE u == f[p - 1]
                 v == f[i]
                 w == g[q - 1]
                 z == g[j]
                 s == Size(a[p].text)
      <4>1. u \in Nat /\ v \in Nat /\ w \in Nat /\ z \in Nat /\ s \in Nat /\ u - v = w - z
        BY <3>2, <3>4, <3>5
      <4> HIDE DEF u, v, w, z, s
      <4>2. (u + s) - v = (w + s) - z
        BY <4>1
      <4> QED
        BY <4>2 DEF u, v, w, z, s
    <3> QED
      BY <3>6, <3>7
  <2>2. k \in 0..x - i
    BY <1>0
  <2> QED
    BY <2>1, <2>2
<1>5. x - i \in T
  <2>1. x - i \in Nat /\ x - i \in 0..x - i
    BY <1>0
  <2> HIDE DEF T
  <2>2. \A k \in 0..x - i : k \in T
    BY <1>3, <1>4, <2>1, UpTo
  <2> QED
    BY <2>1, <2>2
<1>6. x \in 0..n /\ y \in 0..l
  BY <1>0
<1>7. f[x] - f[i] = g[y] - g[j]
  BY <1>0, <1>5, <1>6
<1> QED
  BY <1>7 DEF f, g

\* The first k lines, and the others.
LEMMA RoomOfParts ==
  ASSUME NEW ls \in Seq(Lines), NEW k \in 0..Len(ls)
  PROVE  /\ SubSeq(ls, 1, k) \in Seq(Lines) /\ SubSeq(ls, k + 1, Len(ls)) \in Seq(Lines)
         /\ Bytes(SubSeq(ls, 1, k)) = Sums(ls)[k]
         /\ Bytes(SubSeq(ls, k + 1, Len(ls))) = Bytes(ls) - Sums(ls)[k]
         /\ Sums(ls)[k] \in Nat /\ Sums(ls)[k] <= Bytes(ls)
<1> DEFINE n == Len(ls)
           a == SubSeq(ls, 1, k)
           b == SubSeq(ls, k + 1, n)
<1>1. n \in Nat /\ k \in 0..n
  OBVIOUS
<1>2. a \in Seq(Lines) /\ Len(a) = k /\ \A i \in 1..k : a[i] = ls[i]
  OBVIOUS
<1>3. b \in Seq(Lines) /\ Len(b) = n - k /\ \A i \in 1..n - k : b[i] = ls[k + i]
  OBVIOUS
<1>4. /\ Sums(ls) \in [0..n -> Nat] /\ Sums(ls)[0] = 0 /\ Bytes(ls) = Sums(ls)[n]
      /\ Sums(a)[0] = 0 /\ Bytes(a) = Sums(a)[k] /\ Bytes(a) \in Nat
      /\ Sums(b)[0] = 0 /\ Bytes(b) = Sums(b)[n - k] /\ Bytes(b) \in Nat
  BY <1>2, <1>3, SumsGrow
<1> HIDE DEF a, b
<1>5. Sums(a)[k] - Sums(a)[0] = Sums(ls)[k] - Sums(ls)[0]
  <2>1. \A p \in 1..k, q \in 1..n : 0 < p /\ p <= k /\ p - 0 = q - 0 => Size(a[p].text) = Size(ls[q].text)
    <3>1. \A p \in 1..k, q \in 1..n : p - 0 = q - 0 => p = q
      BY <1>1
    <3> QED
      BY <1>2, <3>1
  <2>2. 0 \in 0..Len(a) /\ k \in 0..Len(a) /\ 0 \in 0..n /\ k \in 0..n /\ k - 0 = k - 0
    BY <1>1, <1>2
  <2> QED
    BY <1>2, <2>1, <2>2, SameSizesSameRoom
<1>6. Sums(b)[n - k] - Sums(b)[0] = Sums(ls)[n] - Sums(ls)[k]
  <2>1. ASSUME NEW p \in 1..n - k, NEW q \in 1..n, p - 0 = q - k PROVE Size(b[p].text) = Size(ls[q].text)
    <3>1. q = k + p
      BY <1>1, <2>1
    <3> QED
      BY <1>3, <3>1
  <2>2. 0 \in 0..Len(b) /\ n - k \in 0..Len(b) /\ k \in 0..n /\ n \in k..n /\ (n - k) - 0 = n - k
    BY <1>1, <1>3
  <2> QED
    BY <1>3, <2>1, <2>2, SameSizesSameRoom, SMTT(60)
<1>7. Bytes(a) = Sums(ls)[k]
  <2>1. Sums(ls)[k] \in Nat
    BY <1>1, <1>4
  <2> QED
    BY <1>4, <1>5, <2>1
<1>8. Bytes(b) = Bytes(ls) - Sums(ls)[k]
  <2>1. Sums(ls)[k] \in Nat /\ Sums(ls)[n] \in Nat
    BY <1>1, <1>4
  <2> QED
    BY <1>4, <1>6, <2>1
<1>9. Sums(ls)[k] \in Nat /\ Bytes(ls) \in Nat
  BY <1>1, <1>4
<1>10. Sums(ls)[k] <= Bytes(ls)
  BY <1>4, <1>8, <1>9
<1> QED
  BY <1>2, <1>3, <1>7, <1>8, <1>9, <1>10 DEF a, b

\* Two sequences of lines, one after the other.
LEMMA RoomTogether ==
  ASSUME NEW a \in Seq(Lines), NEW b \in Seq(Lines)
  PROVE  a \o b \in Seq(Lines) /\ Bytes(a \o b) = Bytes(a) + Bytes(b)
<1> DEFINE ls == a \o b
           k == Len(a)
<1>1. ls \in Seq(Lines) /\ Len(ls) = k + Len(b) /\ k \in 0..Len(ls) /\ Len(b) \in Nat
  OBVIOUS
<1>2. SubSeq(ls, 1, k) = a /\ SubSeq(ls, k + 1, Len(ls)) = b
  OBVIOUS
<1>3. Bytes(a) \in Nat /\ Bytes(b) \in Nat /\ Bytes(ls) \in Nat
  <2> HIDE DEF ls
  <2> QED
    BY <1>1, SumsGrow
<1> HIDE DEF ls, k
<1>4. Bytes(a) = Sums(ls)[k] /\ Bytes(b) = Bytes(ls) - Sums(ls)[k]
  BY <1>1, <1>2, RoomOfParts
<1>5. Bytes(ls) = Bytes(a) + Bytes(b)
  BY <1>3, <1>4
<1> QED
  BY <1>1, <1>5 DEF ls

\* A line at the end.
LEMMA RoomOfOneMore ==
  ASSUME NEW ls \in Seq(Lines), NEW l \in Lines
  PROVE  Append(ls, l) \in Seq(Lines) /\ Bytes(Append(ls, l)) = Bytes(ls) + Size(l.text)
<1> DEFINE m == Append(ls, l)
           n == Len(ls)
<1>1. m \in Seq(Lines) /\ Len(m) = n + 1 /\ n \in Nat /\ m[n + 1] = l
  OBVIOUS
<1>2. SubSeq(m, 1, n) = ls
  OBVIOUS
<1> HIDE DEF m, n
<1>3. Bytes(m) = Sums(m)[n + 1] /\ Sums(m)[n + 1] = Sums(m)[n] + Size(l.text)
  <2>1. n + 1 \in 1..Len(m) /\ n + 1 - 1 = n
    BY <1>1
  <2> QED
    BY <1>1, <2>1, SumsGrow
<1>4. Bytes(ls) = Sums(m)[n]
  <2>1. n \in 0..Len(m)
    BY <1>1
  <2> QED
    BY <1>1, <1>2, <2>1, RoomOfParts
<1> QED
  BY <1>1, <1>3, <1>4 DEF m

\* A line in place of another.
LEMMA RoomOfAnother ==
  ASSUME NEW ls \in Seq(Lines), NEW at \in 1..Len(ls), NEW l \in Lines
  PROVE  /\ [ls EXCEPT ![at] = l] \in Seq(Lines) /\ Len([ls EXCEPT ![at] = l]) = Len(ls)
         /\ Bytes([ls EXCEPT ![at] = l]) = Bytes(ls) - Size(ls[at].text) + Size(l.text)
<1> DEFINE m == [ls EXCEPT ![at] = l]
           n == Len(ls)
<1>1. m \in Seq(Lines) /\ Len(m) = n /\ n \in Nat /\ at \in 1..n /\ n = Len(ls)
  OBVIOUS
<1>2. m[at] = l /\ \A i \in 1..n : i # at => m[i] = ls[i]
  OBVIOUS
<1> HIDE DEF m, n
<1>3. /\ Sums(m) \in [0..n -> Nat] /\ Sums(m)[0] = 0 /\ Bytes(m) = Sums(m)[n]
      /\ Sums(m)[at] = Sums(m)[at - 1] + Size(l.text)
  BY <1>1, <1>2, SumsGrow
<1>4. /\ Sums(ls) \in [0..n -> Nat] /\ Sums(ls)[0] = 0 /\ Bytes(ls) = Sums(ls)[n]
      /\ Sums(ls)[at] = Sums(ls)[at - 1] + Size(ls[at].text)
  BY <1>1, SumsGrow DEF n
<1>5. Sums(m)[at - 1] - Sums(m)[0] = Sums(ls)[at - 1] - Sums(ls)[0]
  <2>1. \A p \in 1..Len(m), q \in 1..Len(ls) : 0 < p /\ p <= at - 1 /\ p - 0 = q - 0 => Size(m[p].text) = Size(ls[q].text)
    <3>1. \A p \in 1..n, q \in 1..n : p <= at - 1 /\ p - 0 = q - 0 => p = q /\ p # at
      BY <1>1
    <3> QED
      BY <1>1, <1>2, <3>1
  <2>2. 0 \in 0..Len(m) /\ at - 1 \in 0..Len(m) /\ 0 \in 0..Len(ls) /\ at - 1 \in 0..Len(ls)
    BY <1>1
  <2> QED
    BY <1>1, <2>1, <2>2, SameSizesSameRoom
<1>6. Sums(m)[n] - Sums(m)[at] = Sums(ls)[n] - Sums(ls)[at]
  <2>1. \A p \in 1..Len(m), q \in 1..Len(ls) : at < p /\ p <= n /\ p - at = q - at => Size(m[p].text) = Size(ls[q].text)
    <3>1. \A p \in 1..n, q \in 1..n : at < p /\ p - at = q - at => p = q /\ p # at
      BY <1>1
    <3> QED
      BY <1>1, <1>2, <3>1
  <2>2. at \in 0..Len(m) /\ n \in at..Len(m) /\ at \in 0..Len(ls) /\ n \in at..Len(ls)
    BY <1>1
  <2> QED
    BY <1>1, <2>1, <2>2, SameSizesSameRoom
<1>7. at - 1 \in 0..n /\ at \in 0..n /\ n \in 0..n
  BY <1>1
<1>8. /\ Sums(m)[at - 1] \in Nat /\ Sums(m)[at] \in Nat /\ Sums(m)[n] \in Nat
      /\ Sums(ls)[at - 1] \in Nat /\ Sums(ls)[at] \in Nat /\ Sums(ls)[n] \in Nat
  BY <1>3, <1>4, <1>7
<1>9. Sums(m)[at - 1] = Sums(ls)[at - 1]
  BY <1>3, <1>4, <1>5, <1>8
<1>10. Size(ls[at].text) \in Nat /\ Size(l.text) \in Nat
  <2>1. l.text \in Seq(Chars)
    BY DEF Lines
  <2> QED
    BY <1>1, <2>1, SizesAreNumbers DEF Size, n
<1>11. Sums(m)[n] - (Sums(ls)[at - 1] + Size(l.text)) = Sums(ls)[n] - (Sums(ls)[at - 1] + Size(ls[at].text))
  BY <1>3, <1>4, <1>6, <1>9
<1>12. Sums(m)[n] = Sums(ls)[n] - Size(ls[at].text) + Size(l.text)
  <2> DEFINE u == Sums(m)[n]
             w == Sums(ls)[n]
             c == Sums(ls)[at - 1]
             r == Size(ls[at].text)
             s == Size(l.text)
  <2>1. u \in Nat /\ w \in Nat /\ c \in Nat /\ r \in Nat /\ s \in Nat /\ u - (c + s) = w - (c + r)
    BY <1>8, <1>10, <1>11
  <2> HIDE DEF u, w, c, r, s
  <2>2. u = w - r + s
    BY <2>1
  <2> QED
    BY <2>2 DEF u, w, r, s
<1>13. Bytes(m) = Bytes(ls) - Size(ls[at].text) + Size(l.text)
  BY <1>3, <1>4, <1>12
<1> QED
  BY <1>1, <1>13 DEF m, n

------------------------------------------------------------------------------
\* What is trimmed

\* The numbers of lines follow each other, and nx is the one after the last.
Numbered(ls, nx) == Len(ls) <= nx /\ \A k \in 1..Len(ls) : ls[k].number = nx - Len(ls) + k - 1

\* So a number is that of one line.
LEMMA NumbersTellLinesApart ==
  ASSUME NEW ls \in Seq(Lines), NEW nx \in Nat, Numbered(ls, nx)
  PROVE  /\ \A l \in ToSet(ls) : l \in Lines /\ l.number \in Nat /\ l.number < nx /\ nx - Len(ls) <= l.number
         /\ \A l, m \in ToSet(ls) : l.number = m.number => l = m
         /\ \A n : n \in Numbers(ls) <=> \E l \in ToSet(ls) : l.number = n
         /\ \A n \in Nat : nx - Len(ls) <= n /\ n < nx => n \in Numbers(ls)
<1>0. Len(ls) \in Nat /\ DOMAIN ls = 1..Len(ls)
  OBVIOUS
<1>1. \A k \in 1..Len(ls) : ls[k] \in Lines /\ ls[k].number = nx - Len(ls) + k - 1
  BY DEF Numbered
<1>2. ASSUME NEW l \in ToSet(ls)
      PROVE l \in Lines /\ l.number \in Nat /\ l.number < nx /\ nx - Len(ls) <= l.number
  <2>1. PICK k \in 1..Len(ls) : l = ls[k]
    BY <1>0 DEF ToSet
  <2>2. l \in Lines /\ l.number = nx - Len(ls) + k - 1
    BY <1>1, <2>1
  <2>3. l.number \in Nat
    BY <2>2 DEF Lines
  <2> QED
    BY <1>0, <2>2, <2>3
<1>3. ASSUME NEW l \in ToSet(ls), NEW m \in ToSet(ls), l.number = m.number PROVE l = m
  <2>1. PICK i \in 1..Len(ls) : l = ls[i]
    BY <1>0 DEF ToSet
  <2>2. PICK k \in 1..Len(ls) : m = ls[k]
    BY <1>0 DEF ToSet
  <2>3. nx - Len(ls) + i - 1 = nx - Len(ls) + k - 1
    BY <1>1, <1>3, <2>1, <2>2
  <2>4. i = k
    BY <1>0, <2>3
  <2> QED
    BY <2>1, <2>2, <2>4
<1>4. \A n : n \in Numbers(ls) <=> \E l \in ToSet(ls) : l.number = n
  BY DEF Numbers, ToSet
<1>5. ASSUME NEW n \in Nat, nx - Len(ls) <= n, n < nx PROVE n \in Numbers(ls)
  <2>1. PICK k \in 1..Len(ls) : nx - Len(ls) + k - 1 = n
    <3>1. n - (nx - Len(ls)) + 1 \in 1..Len(ls) /\ nx - Len(ls) + (n - (nx - Len(ls)) + 1) - 1 = n
      BY <1>0, <1>5
    <3> QED
      BY <3>1
  <2>2. ls[k].number = n
    BY <1>1, <2>1
  <2> QED
    BY <1>0, <2>2 DEF Numbers
<1> QED
  BY <1>2, <1>3, <1>4, <1>5

\* No more lines go than must.
LEMMA ExcessIsLeast ==
  ASSUME NEW ls \in Seq(Lines), NEW bytes \in Nat
  PROVE  LET e == Excess(ls, bytes)
         IN  /\ e \in 0..Len(ls)
             /\ e = Len(ls) \/ bytes - Bytes(SubSeq(ls, 1, e)) <= MaxBytes
             /\ \A m \in 0..e - 1 : bytes - Bytes(SubSeq(ls, 1, m)) > MaxBytes
<1> DEFINE Fits(k) == k = Len(ls) \/ bytes - Bytes(SubSeq(ls, 1, k)) <= MaxBytes
           S == {k \in 0..Len(ls) : Fits(k)}
<1>1. Len(ls) \in Nat
  OBVIOUS
<1>2. S \subseteq Nat /\ Len(ls) \in S
  BY <1>1
<1>3. Min(S) \in S /\ \A y \in S : Min(S) <= y
  <2> HIDE DEF S
  <2> QED
    BY <1>2, LeastNumber
<1> DEFINE k == Min(S)
<1> HIDE DEF k
<1>4. k \in 0..Len(ls) /\ Fits(k) /\ \A y \in 0..Len(ls) : Fits(y) => k <= y
  BY <1>3 DEF k
<1>5. \A m \in 0..k - 1 : m \in 0..Len(ls) /\ ~Fits(m)
  BY <1>1, <1>4
<1>6. \A m \in 0..k - 1 : bytes - Bytes(SubSeq(ls, 1, m)) > MaxBytes
  <2> SUFFICES ASSUME NEW m \in 0..k - 1 PROVE bytes - Bytes(SubSeq(ls, 1, m)) > MaxBytes
    OBVIOUS
  <2>1. Bytes(SubSeq(ls, 1, m)) \in Nat
    BY <1>5, RoomOfParts
  <2> QED
    BY <1>5, <2>1, BytesArePositive
<1>7. \E e \in 0..Len(ls) :
        /\ e = Len(ls) \/ bytes - Bytes(SubSeq(ls, 1, e)) <= MaxBytes
        /\ \A m \in 0..e - 1 : bytes - Bytes(SubSeq(ls, 1, m)) > MaxBytes
  BY <1>4, <1>6
<1> QED
  BY <1>7 DEF Excess

\* The lines that stay, and those that go.
Kept(ls) == Trimmed(ls, Bytes(ls))
Dropped(ls) == SubSeq(ls, 1, Excess(ls, Bytes(ls)))

\* They keep their order and fit, and the last one that goes would not have.
LEMMA TrimmingKeepsTheLast ==
  ASSUME NEW ls \in Seq(Lines), NEW nx \in Nat, Numbered(ls, nx)
  PROVE  /\ Kept(ls) \in Seq(Lines) /\ Numbered(Kept(ls), nx)
         /\ Bytes(ls) - Bytes(Dropped(ls)) = Bytes(Kept(ls)) /\ Bytes(Kept(ls)) \in Nat
         /\ Bytes(Kept(ls)) <= MaxBytes
         /\ ToSet(Kept(ls)) = {l \in ToSet(ls) : nx - Len(Kept(ls)) <= l.number}
         /\ \A n : n \in Numbers(Dropped(ls)) <=> n \in Numbers(ls) /\ n \notin Numbers(Kept(ls))
         /\ \A l \in ToSet(ls) :
              l.number + 1 = nx - Len(Kept(ls)) => Bytes(Kept(ls)) + Size(l.text) > MaxBytes
<1> DEFINE n == Len(ls)
           e == Excess(ls, Bytes(ls))
           kept == Kept(ls)
           dropped == Dropped(ls)
<1>0. n \in Nat /\ Bytes(ls) \in Nat /\ n <= nx
  BY SumsGrow DEF Numbered
<1>1. /\ e \in 0..n /\ (e = n \/ Bytes(ls) - Bytes(SubSeq(ls, 1, e)) <= MaxBytes)
      /\ \A m \in 0..e - 1 : Bytes(ls) - Bytes(SubSeq(ls, 1, m)) > MaxBytes
  BY <1>0, ExcessIsLeast
<1>2. kept = SubSeq(ls, e + 1, n) /\ dropped = SubSeq(ls, 1, e)
  BY DEF Kept, Dropped, Trimmed
<1> HIDE DEF e, kept, dropped, n
<1>3. /\ kept \in Seq(Lines) /\ dropped \in Seq(Lines)
      /\ Bytes(dropped) = Sums(ls)[e] /\ Bytes(kept) = Bytes(ls) - Sums(ls)[e]
      /\ Sums(ls)[e] \in Nat /\ Sums(ls)[e] <= Bytes(ls)
  BY <1>1, <1>2, RoomOfParts DEF n
<1>4. /\ Len(kept) = n - e /\ Len(dropped) = e
      /\ \A i \in 1..n - e : kept[i] = ls[e + i]
      /\ \A i \in 1..e : dropped[i] = ls[i]
  <2>1. ls \in Seq(Lines) /\ n = Len(ls) /\ e \in 0..n /\ e \in Nat /\ e + 1 \in Nat /\ n \in Nat
    BY <1>0, <1>1 DEF n
  <2>2. Len(kept) = n - e
    BY <2>1, <1>2
  <2>3. Len(dropped) = e
    BY <2>1, <1>2
  <2>4. \A i \in 1..n - e : kept[i] = ls[e + i]
    BY <2>1, <1>2
  <2>5. \A i \in 1..e : dropped[i] = ls[i]
    BY <2>1, <1>2
  <2> QED
    BY <2>2, <2>3, <2>4, <2>5
<1>5. Bytes(ls) - Bytes(dropped) = Bytes(kept) /\ Bytes(kept) \in Nat
  BY <1>0, <1>3
<1>6. Bytes(kept) <= MaxBytes
  <2>1. CASE e = n
    <3>1. Sums(ls)[e] = Bytes(ls)
      BY <2>1, SumsGrow DEF n
    <3>2. Bytes(kept) = 0
      BY <1>0, <1>3, <3>1
    <3> QED
      BY <3>2, BytesArePositive
  <2>2. CASE Bytes(ls) - Bytes(SubSeq(ls, 1, e)) <= MaxBytes
    BY <1>2, <1>5, <2>2
  <2> QED
    BY <1>1, <2>1, <2>2
<1>n. \A k \in 1..n : ls[k] \in Lines /\ ls[k].number = nx - n + k - 1
  BY DEF Numbered, n
<1>7. Numbered(kept, nx)
  <2>1. ASSUME NEW i \in 1..n - e PROVE kept[i].number = nx - (n - e) + i - 1
    <3>1. e + i \in 1..n
      BY <1>0, <1>1
    <3>2. kept[i].number = nx - n + (e + i) - 1
      BY <1>4, <1>n, <3>1
    <3> QED
      BY <1>0, <1>1, <3>2
  <2>2. n - e <= nx
    BY <1>0, <1>1
  <2> QED
    BY <1>4, <2>1, <2>2 DEF Numbered
<1>8. \A l \in ToSet(kept) : l \in ToSet(ls) /\ nx - Len(kept) <= l.number
  <2>1. ASSUME NEW l \in ToSet(kept) PROVE l \in ToSet(ls)
    <3>1. PICK i \in 1..n - e : l = kept[i]
      BY <1>3, <1>4 DEF ToSet
    <3>2. e + i \in 1..n /\ l = ls[e + i]
      BY <1>0, <1>1, <1>4, <3>1
    <3> QED
      BY <3>2 DEF ToSet, n
  <2> QED
    BY <1>3, <1>7, <2>1, NumbersTellLinesApart
<1>9. \A l \in ToSet(ls) : nx - Len(kept) <= l.number => l \in ToSet(kept)
  <2> SUFFICES ASSUME NEW l \in ToSet(ls), nx - Len(kept) <= l.number PROVE l \in ToSet(kept)
    OBVIOUS
  <2>1. PICK k \in 1..n : l = ls[k]
    BY DEF ToSet, n
  <2>2. nx - (n - e) <= nx - n + k - 1
    BY <1>4, <1>n, <2>1
  <2>3. PICK i \in 1..n - e : k = e + i
    <3>1. k - e \in 1..n - e /\ k = e + (k - e)
      BY <1>0, <1>1, <2>2
    <3> QED
      BY <3>1
  <2>4. l = kept[i]
    BY <1>4, <2>1, <2>3
  <2>5. DOMAIN kept = 1..n - e
    BY <1>3, <1>4
  <2> QED
    BY <2>4, <2>5 DEF ToSet
<1>10. ToSet(kept) = {l \in ToSet(ls) : nx - Len(kept) <= l.number}
  BY <1>8, <1>9
<1>11. \A k \in Numbers(dropped) : k \in Numbers(ls) /\ k \notin Numbers(kept)
  <2> SUFFICES ASSUME NEW k \in Numbers(dropped) PROVE k \in Numbers(ls) /\ k \notin Numbers(kept)
    OBVIOUS
  <2>1. PICK i \in 1..e : k = dropped[i].number
    BY <1>3, <1>4 DEF Numbers
  <2>2. i \in 1..n /\ k = ls[i].number /\ k = nx - n + i - 1
    BY <1>0, <1>1, <1>4, <1>n, <2>1
  <2>3. k \in Numbers(ls)
    <3>1. i \in DOMAIN ls
      BY <2>2 DEF n
    <3> QED
      BY <2>2, <3>1 DEF Numbers
  <2>4. ~ (nx - (n - e) <= k)
    BY <1>0, <1>1, <2>2
  <2>5. k \notin Numbers(kept)
    BY <1>3, <1>4, <1>7, <2>4, NumbersTellLinesApart
  <2> QED
    BY <2>3, <2>5
<1>12. \A k \in Numbers(ls) : k \notin Numbers(kept) => k \in Numbers(dropped)
  <2> SUFFICES ASSUME NEW k \in Numbers(ls), k \notin Numbers(kept) PROVE k \in Numbers(dropped)
    OBVIOUS
  <2>1. PICK i \in 1..n : k = ls[i].number
    BY DEF Numbers, n
  <2>2. i \in 1..e
    <3> SUFFICES ASSUME ~ (i <= e) PROVE FALSE
      BY <1>1
    <3>1. k = nx - n + i - 1 /\ k \in Nat /\ nx - (n - e) <= k /\ k < nx
      BY <1>0, <1>1, <1>n, <2>1
    <3> QED
      BY <1>3, <1>4, <1>7, <2>1, <3>1, NumbersTellLinesApart
  <2>3. k = dropped[i].number /\ i \in DOMAIN dropped
    BY <1>3, <1>4, <2>1, <2>2
  <2> QED
    BY <2>3 DEF Numbers
<1>13. ASSUME NEW l \in ToSet(ls), l.number + 1 = nx - Len(kept)
       PROVE  Bytes(kept) + Size(l.text) > MaxBytes
  <2>1. PICK k \in 1..n : l = ls[k]
    BY DEF ToSet, n
  <2>2. k = e
    <3>1. l.number = nx - n + k - 1
      BY <1>n, <2>1
    <3>2. nx - n + k - 1 + 1 = nx - (n - e)
      BY <1>4, <1>13, <3>1
    <3> QED
      BY <1>0, <1>1, <3>2
  <2>3. e \in 1..n /\ e - 1 \in 0..e - 1 /\ e - 1 \in 0..n
    BY <1>0, <2>1, <2>2
  <2>4. Bytes(ls) - Bytes(SubSeq(ls, 1, e - 1)) > MaxBytes
    BY <1>1, <2>3
  <2>5. Bytes(SubSeq(ls, 1, e - 1)) = Sums(ls)[e - 1] /\ Sums(ls)[e - 1] \in Nat
    BY <2>3, RoomOfParts DEF n
  <2>6. Sums(ls)[e] = Sums(ls)[e - 1] + Size(l.text) /\ Size(l.text) \in Nat
    BY <2>1, <2>2, <2>3, SumsGrow, SizesAreNumbers DEF n
  <2> DEFINE b == Sums(ls)[e - 1]
             s == Size(l.text)
             all == Bytes(ls)
  <2>7. all \in Nat /\ b \in Nat /\ s \in Nat /\ all - b > MaxBytes /\ Bytes(kept) = all - (b + s)
    BY <1>0, <1>3, <2>4, <2>5, <2>6
  <2> HIDE DEF b, s, all
  <2>8. Bytes(kept) + s > MaxBytes
    BY <2>7, BytesArePositive
  <2> QED
    BY <2>8 DEF s
<1> QED
  BY <1>3, <1>5, <1>6, <1>7, <1>10, <1>11, <1>12, <1>13 DEF kept, dropped

------------------------------------------------------------------------------
\* What is written

\* Every variable has its type.
Types ==
  /\ lines \in Seq(Lines) /\ total \in Nat /\ next \in Nat
  /\ open \in [Streams -> Nat \cup {None}]
  /\ final \subseteq 0..next - 1
  /\ streamOf \in Captures
  /\ pc \in [Writers -> {"read", "cut", "drain", "done"}]
  /\ buffer \in [Writers -> Seq(Chars)]
  /\ visible \in [Writers -> BOOLEAN]
  /\ unread \in [Writers -> 0..MaxText]
  /\ offset \in Nat \cup {None} /\ seen \subseteq 0..next - 1 /\ upto \in Nat

\* The open line of a stream is one of its lines, and not whole.
OpenLines ==
  \A s \in Streams : open[s] # None => open[s] \notin final /\ \E l \in ToSet(lines) : l.number = open[s] /\ l.stream = s

Bucket == Numbered(lines, next) /\ total = Bytes(lines) /\ total <= MaxBytes /\ OpenLines

\* The lines `new` were written for a stream, and ls was trimmed.
Stores(s, ls, new) ==
  /\ ls \in Seq(Lines) /\ next' \in Nat /\ next <= next' /\ Numbered(ls, next')
  /\ ToSet(ls) = {l \in ToSet(lines) : \A m \in new : m.number # l.number} \cup new
  /\ \A m \in new : m.stream = s /\ ((open[s] # None /\ m.number = open[s]) \/ next <= m.number)
  /\ lines' = Kept(ls) /\ total' = Bytes(ls) - Bytes(Dropped(ls))
  /\ open' \in [Streams -> Nat \cup {None}]
  /\ \A t \in Streams : t # s => open'[t] = IF open[t] \in Numbers(Dropped(ls)) THEN None ELSE open[t]

\* One line, that stays open if it stays at all.
Shows(s, ls, new) ==
  /\ Stores(s, ls, new) /\ final' = final
  /\ \E m \in new : /\ new = {m} /\ (open[s] # None => m.number = open[s])
                    /\ open'[s] = IF m.number \in Numbers(Kept(ls)) THEN m.number ELSE None

\* Whole lines.
Finishes(s, ls, new) ==
  /\ Stores(s, ls, new) /\ final' = final \cup {m.number : m \in new}
  /\ \/ open'[s] = None
     \/ open'[s] = open[s] /\ open[s] \notin Numbers(Dropped(ls)) /\ \A m \in new : m.number # open[s]

Clears(s) ==
  /\ lines' = lines /\ total' = total /\ next' = next /\ final' = final
  /\ open' = [open EXCEPT ![s] = None]

\* What fits a line.
LEMMA TruncatedTexts ==
  ASSUME NEW text \in Seq(Chars)
  PROVE  Truncate(text) \in Seq(Chars)
<1> DEFINE S == {MaxBytes - 1, Len(text)}
<1>1. Len(text) \in Nat /\ MaxBytes - 1 \in Nat
  BY BytesArePositive
<1>2. S \subseteq Nat /\ S # {} /\ Len(text) \in S
  BY <1>1
<1> HIDE DEF S
<1>3. Min(S) \in S /\ Min(S) <= Len(text)
  BY <1>2, LeastNumber
<1>4. Min(S) \in Nat
  BY <1>2, <1>3
<1>5. SubSeq(text, 1, Min(S)) \in Seq(Chars)
  BY <1>1, <1>3, <1>4
<1> QED
  BY <1>5 DEF Truncate, S

\* The pieces of a text are texts.
LEMMA PiecesAreTexts ==
  ASSUME NEW text \in Seq(Chars)
  PROVE  Pieces(text) \in Seq(Seq(Chars))
<1> DEFINE n == Len(text)
           starts == {k \in DOMAIN text : k = 1 \/ text[k - 1] = "r"}
           at(i) == {k \in DOMAIN text : Cardinality({m \in starts : m <= k}) >= i}
           start(i) == Min(at(i))
           ends(k) == {e \in k..Len(text) : text[e] = "r"} \cup {Len(text) + 1}
           end(k) == Min(ends(k))
           c == Cardinality(starts)
<1>1. n \in Nat /\ DOMAIN text = 1..n
  OBVIOUS
<1>2. c \in Nat
  <2>1. IsFiniteSet(1..n)
    BY <1>1, FS_Interval
  <2>2. starts \subseteq 1..n
    BY <1>1
  <2> HIDE DEF starts
  <2>3. IsFiniteSet(starts)
    BY <2>1, <2>2, FS_Subset
  <2> QED
    BY <2>3, FS_CardinalityType
<1>3. ASSUME NEW i \in 1..c PROVE SubSeq(text, start(i), end(start(i)) - 1) \in Seq(Chars)
  <2>1. n \in 1..n
    <3>1. CASE n = 0
      <4>1. starts = {}
        BY <1>1, <3>1
      <4> HIDE DEF starts
      <4>2. c = 0
        BY <4>1, FS_EmptySet
      <4> QED
        BY <4>2
    <3> QED
      BY <1>1, <3>1
  <2>2. n \in at(i)
    <3> DEFINE all == {m \in starts : m <= n}
    <3>1. all = starts
      BY <1>1
    <3>2. Cardinality(all) >= i
      <4>1. c >= i
        BY <1>2
      <4> HIDE DEF starts, all
      <4> QED
        BY <3>1, <4>1
    <3> HIDE DEF starts
    <3> QED
      BY <1>1, <2>1, <3>2
  <2>3. at(i) \subseteq Nat /\ at(i) \subseteq 1..n
    BY <1>1
  <2> HIDE DEF at
  <2>4. start(i) \in 1..n
    <3>1. at(i) # {}
      BY <2>2
    <3>2. Min(at(i)) \in at(i)
      BY <2>3, <3>1, LeastNumber
    <3> QED
      BY <2>3, <3>2
  <2> DEFINE k == start(i)
  <2> HIDE DEF start
  <2>5. ends(k) \subseteq Nat /\ ends(k) # {} /\ n + 1 \in ends(k)
    BY <1>1, <2>4
  <2> HIDE DEF ends
  <2>6. end(k) \in Nat /\ end(k) <= n + 1
    <3>1. Min(ends(k)) \in ends(k) /\ Min(ends(k)) <= n + 1
      BY <2>5, LeastNumber
    <3> QED
      BY <2>5, <3>1
  <2> HIDE DEF end
  <2>7. SubSeq(text, k, end(k) - 1) \in Seq(Chars)
    BY <1>1, <2>4, <2>6
  <2> QED
    BY <2>7
<1>4. Pieces(text) = [i \in 1..c |-> SubSeq(text, start(i), end(start(i)) - 1)]
  BY DEF Pieces
<1> HIDE DEF c, start, end
<1>5. \A i \in 1..c : Pieces(text)[i] \in Seq(Chars)
  BY <1>3, <1>4
<1>6. DOMAIN Pieces(text) = 1..c
  BY <1>4
<1>7. Pieces(text) = [i \in 1..c |-> Pieces(text)[i]]
  BY <1>4
<1> QED
  BY <1>2, <1>5, <1>7

\* A text that replaces the open line, or becomes a line.
LEMMA PutGivesALine ==
  ASSUME Types, Bucket, NEW s \in Streams, NEW text \in Seq(Chars)
  PROVE  LET p == Put(s, text)
         IN  /\ p.ls \in Seq(Lines) /\ p.bytes = Bytes(p.ls) /\ p.next \in Nat /\ next <= p.next
             /\ Numbered(p.ls, p.next) /\ p.number \in Nat /\ p.number < p.next
             /\ (open[s] # None /\ p.number = open[s]) \/ (open[s] = None /\ next <= p.number)
             /\ \E row : /\ row.number = p.number /\ row.stream = s
                         /\ ToSet(p.ls) = {l \in ToSet(lines) : l.number # p.number} \cup {row}
<1> DEFINE p == Put(s, text)
           line(n) == [number |-> n, stream |-> s, text |-> Truncate(text)]
           at == CHOOSE k \in DOMAIN lines : lines[k].number = open[s]
<1>0. lines \in Seq(Lines) /\ next \in Nat /\ total = Bytes(lines) /\ Numbered(lines, next)
      /\ DOMAIN lines = 1..Len(lines) /\ Len(lines) \in Nat
  BY DEF Types, Bucket
<1>t. Truncate(text) \in Seq(Chars)
  BY TruncatedTexts
<1>l. \A n \in Nat : line(n) \in Lines /\ line(n).number = n /\ line(n).stream = s /\ line(n).text = Truncate(text)
  BY <1>t DEF Lines
<1>1. CASE open[s] \in Numbers(lines)
  <2>1. at \in 1..Len(lines) /\ lines[at].number = open[s]
    <3>1. \E k \in DOMAIN lines : lines[k].number = open[s]
      BY <1>1 DEF Numbers
    <3> QED
      BY <1>0, <3>1
  <2> HIDE DEF at
  <2>2. open[s] \in Nat /\ open[s] # None /\ open[s] < next
    <3>1. lines[at] \in ToSet(lines)
      BY <1>0, <2>1 DEF ToSet
    <3>2. open[s] \in Nat /\ open[s] < next
      BY <1>0, <2>1, <3>1, NumbersTellLinesApart
    <3> QED
      BY <3>2, NoneIsNoNumber
  <2> DEFINE row == line(open[s])
  <2>3. /\ p.ls = [lines EXCEPT ![at] = row] /\ p.number = open[s] /\ p.next = next
        /\ p.bytes = total - Frees(at) + Size(Truncate(text))
    BY <1>1 DEF Put, at
  <2>4. row \in Lines /\ row.number = open[s] /\ row.stream = s /\ row.text = Truncate(text)
    BY <1>l, <2>2
  <2> HIDE DEF row, p
  <2>5. p.ls \in Seq(Lines) /\ Len(p.ls) = Len(lines) /\ Bytes(p.ls) = Bytes(lines) - Size(lines[at].text) + Size(row.text)
    <3>1. /\ [lines EXCEPT ![at] = row] \in Seq(Lines) /\ Len([lines EXCEPT ![at] = row]) = Len(lines)
          /\ Bytes([lines EXCEPT ![at] = row]) = Bytes(lines) - Size(lines[at].text) + Size(row.text)
      BY <1>0, <2>1, <2>4, RoomOfAnother
    <3> QED
      BY <2>3, <3>1
  <2>6. p.bytes = Bytes(p.ls)
    BY <1>0, <2>3, <2>4, <2>5 DEF Frees
  <2>7. p.ls[at] = row /\ \A k \in 1..Len(lines) : k # at => p.ls[k] = lines[k]
    BY <1>0, <2>1, <2>3
  <2>8. Numbered(p.ls, p.next)
    <3>1. \A k \in 1..Len(lines) : p.ls[k].number = lines[k].number
      BY <2>1, <2>4, <2>7
    <3> QED
      BY <1>0, <2>3, <2>5, <3>1 DEF Numbered
  <2>9. ToSet(p.ls) = {l \in ToSet(lines) : l.number # p.number} \cup {row}
    <3>1. ASSUME NEW l \in ToSet(p.ls) PROVE l = row \/ (l \in ToSet(lines) /\ l.number # p.number)
      <4>1. PICK k \in 1..Len(lines) : l = p.ls[k]
        BY <2>5 DEF ToSet
      <4>2. CASE k = at
        BY <2>7, <4>1, <4>2
      <4>3. CASE k # at
        <5>1. l = lines[k] /\ l \in ToSet(lines) /\ lines[at] \in ToSet(lines)
          BY <1>0, <2>1, <2>7, <4>1, <4>3 DEF ToSet
        <5>2. l.number # open[s]
          <6>1. k = at \/ lines[k].number # lines[at].number
            BY <1>0, <2>1 DEF Numbered
          <6> QED
            BY <2>1, <4>3, <5>1, <6>1
        <5> QED
          BY <2>3, <5>1, <5>2
      <4> QED
        BY <4>2, <4>3
    <3>2. row \in ToSet(p.ls)
      BY <1>0, <2>1, <2>5, <2>7 DEF ToSet
    <3>3. ASSUME NEW l \in ToSet(lines), l.number # p.number PROVE l \in ToSet(p.ls)
      <4>1. PICK k \in 1..Len(lines) : l = lines[k]
        BY <1>0 DEF ToSet
      <4>2. l = p.ls[k]
        BY <2>1, <2>3, <2>7, <3>3, <4>1
      <4> QED
        BY <2>5, <4>2 DEF ToSet
    <3> QED
      BY <3>1, <3>2, <3>3
  <2>10. p.next \in Nat /\ next <= p.next /\ p.number \in Nat /\ p.number < p.next
    BY <1>0, <2>2, <2>3
  <2>11. row.number = p.number /\ row.stream = s
    BY <2>3, <2>4
  <2>12. open[s] # None /\ p.number = open[s]
    BY <2>2, <2>3
  <2> QED
    BY <2>5, <2>6, <2>8, <2>9, <2>10, <2>11, <2>12 DEF p
<1>2. CASE open[s] \notin Numbers(lines)
  <2>1. open[s] = None
    BY <1>0, <1>2, NumbersTellLinesApart DEF Bucket, OpenLines
  <2> DEFINE row == line(next)
  <2>2. /\ p.ls = Append(lines, row) /\ p.number = next /\ p.next = next + 1
        /\ p.bytes = total + Size(Truncate(text))
    BY <1>2 DEF Put, AdvancesNumber
  <2>3. row \in Lines /\ row.number = next /\ row.stream = s /\ row.text = Truncate(text)
    BY <1>0, <1>l
  <2> HIDE DEF row, p, at
  <2>4. p.ls \in Seq(Lines) /\ Bytes(p.ls) = Bytes(lines) + Size(row.text)
    BY <1>0, <2>2, <2>3, RoomOfOneMore
  <2>5. p.bytes = Bytes(p.ls)
    BY <1>0, <2>2, <2>3, <2>4
  <2>6. Len(p.ls) = Len(lines) + 1 /\ p.ls[Len(lines) + 1] = row /\ \A k \in 1..Len(lines) : p.ls[k] = lines[k]
    BY <1>0, <2>2, <2>3
  <2>7. Numbered(p.ls, p.next)
    <3>1. ASSUME NEW k \in 1..Len(lines) + 1 PROVE p.ls[k].number = next + 1 - (Len(lines) + 1) + k - 1
      <4>1. CASE k = Len(lines) + 1
        BY <1>0, <2>3, <2>6, <4>1
      <4>2. CASE k # Len(lines) + 1
        <5>1. k \in 1..Len(lines)
          BY <1>0, <4>2
        <5>2. p.ls[k].number = next - Len(lines) + k - 1
          BY <1>0, <2>6, <5>1 DEF Numbered
        <5> QED
          BY <1>0, <5>2
      <4> QED
        BY <4>1, <4>2
    <3> QED
      BY <1>0, <2>2, <2>6, <3>1 DEF Numbered
  <2>8. \A l \in ToSet(lines) : l.number # p.number
    BY <1>0, <2>2, NumbersTellLinesApart
  <2>9. ToSet(p.ls) = ToSet(lines) \cup {row}
    <3>1. DOMAIN p.ls = 1..Len(lines) + 1
      BY <2>4, <2>6
    <3>2. ASSUME NEW l \in ToSet(p.ls) PROVE l \in ToSet(lines) \/ l = row
      <4>1. PICK k \in 1..Len(lines) + 1 : l = p.ls[k]
        BY <3>1 DEF ToSet
      <4>2. k \in 1..Len(lines) \/ k = Len(lines) + 1
        BY <1>0
      <4> QED
        BY <1>0, <2>6, <4>1, <4>2 DEF ToSet
    <3>3. row \in ToSet(p.ls)
      <4>1. Len(lines) + 1 \in DOMAIN p.ls
        BY <1>0, <3>1
      <4> QED
        BY <2>6, <4>1 DEF ToSet
    <3>4. ASSUME NEW l \in ToSet(lines) PROVE l \in ToSet(p.ls)
      <4>1. PICK k \in 1..Len(lines) : l = lines[k]
        BY <1>0 DEF ToSet
      <4>2. k \in DOMAIN p.ls /\ l = p.ls[k]
        BY <1>0, <2>6, <3>1, <4>1
      <4> QED
        BY <4>2 DEF ToSet
    <3> QED
      BY <3>2, <3>3, <3>4
  <2>10. ToSet(p.ls) = {l \in ToSet(lines) : l.number # p.number} \cup {row}
    BY <2>8, <2>9
  <2> QED
    BY <1>0, <2>1, <2>2, <2>3, <2>4, <2>5, <2>7, <2>10 DEF p
<1> QED
  BY <1>1, <1>2

\* A text that becomes lines of its own.
LEMMA AppendAddsLines ==
  ASSUME Types, Bucket, NEW s \in Streams, NEW text \in Seq(Chars), AppendText(s, text)
  PROVE  \E ls, new : Finishes(s, ls, new) /\ \A m \in new : next <= m.number
<1> DEFINE pieces == Pieces(text)
           added == [k \in DOMAIN pieces |-> [number |-> next + k - 1, stream |-> s, text |-> Truncate(pieces[k])]]
           ls == lines \o added
           new == ToSet(added)
<1>0. lines \in Seq(Lines) /\ next \in Nat /\ total = Bytes(lines) /\ Numbered(lines, next)
      /\ DOMAIN lines = 1..Len(lines) /\ Len(lines) \in Nat /\ Len(lines) <= next
  BY DEF Types, Bucket, Numbered
<1>1. /\ Store(ls, total + Bytes(added)) /\ next' = next + Len(added)
      /\ open' = StillOpen(ls, total + Bytes(added)) /\ final' = final \cup Numbers(added)
  BY DEF AppendText
<1>2. pieces \in Seq(Seq(Chars))
  BY PiecesAreTexts
<1> HIDE DEF pieces
<1>3. /\ added \in Seq(Lines)
      /\ \A k \in 1..Len(added) : added[k].number = next + k - 1 /\ added[k].stream = s
  <2> DEFINE c == Len(pieces)
  <2>1. c \in Nat /\ DOMAIN pieces = 1..c
    BY <1>2
  <2>2. ASSUME NEW k \in 1..c
        PROVE  [number |-> next + k - 1, stream |-> s, text |-> Truncate(pieces[k])] \in Lines
    <3>1. pieces[k] \in Seq(Chars)
      BY <1>2, <2>1
    <3>2. Truncate(pieces[k]) \in Seq(Chars) /\ next + k - 1 \in Nat
      BY <1>0, <2>1, <3>1, TruncatedTexts
    <3> QED
      BY <3>2 DEF Lines
  <2>3. added = [k \in 1..c |-> [number |-> next + k - 1, stream |-> s, text |-> Truncate(pieces[k])]]
    BY <2>1
  <2> HIDE DEF added, c
  <2>4. added \in Seq(Lines)
    BY <2>1, <2>2, <2>3
  <2>5. Len(added) = c
    BY <2>1, <2>3, <2>4
  <2> QED
    BY <2>3, <2>4, <2>5
<1> HIDE DEF added
<1>4. ls \in Seq(Lines) /\ Bytes(ls) = total + Bytes(added)
  BY <1>0, <1>3, RoomTogether
<1>5. /\ Len(ls) = Len(lines) + Len(added) /\ Len(added) \in Nat
      /\ \A k \in 1..Len(lines) : ls[k] = lines[k]
      /\ \A k \in 1..Len(added) : ls[Len(lines) + k] = added[k]
  BY <1>0, <1>3
<1> HIDE DEF ls
<1>6. Numbered(ls, next')
  <2>1. ASSUME NEW k \in 1..Len(ls) PROVE ls[k].number = next' - Len(ls) + k - 1
    <3>0. next' - Len(ls) = next - Len(lines)
      BY <1>0, <1>1, <1>5
    <3>1. CASE k \in 1..Len(lines)
      BY <1>0, <1>5, <3>0, <3>1 DEF Numbered
    <3>2. CASE k \notin 1..Len(lines)
      <4>1. PICK i \in 1..Len(added) : k = Len(lines) + i
        <5>1. k - Len(lines) \in 1..Len(added) /\ k = Len(lines) + (k - Len(lines))
          BY <1>0, <1>5, <3>2
        <5> QED
          BY <5>1
      <4>2. ls[k].number = next + i - 1
        BY <1>3, <1>5, <4>1
      <4> QED
        BY <1>0, <1>5, <3>0, <4>1, <4>2
    <3> QED
      BY <3>1, <3>2
  <2>2. Len(ls) <= next'
    BY <1>0, <1>1, <1>5
  <2> QED
    BY <2>1, <2>2 DEF Numbered
<1>7. \A m \in new : m.stream = s /\ next <= m.number
  <2> SUFFICES ASSUME NEW m \in new PROVE m.stream = s /\ next <= m.number
    OBVIOUS
  <2>1. PICK k \in 1..Len(added) : m = added[k]
    BY <1>3 DEF ToSet
  <2> QED
    BY <1>0, <1>3, <2>1
<1>8. ToSet(ls) = ToSet(lines) \cup new
  <2>0. DOMAIN ls = 1..Len(ls) /\ DOMAIN added = 1..Len(added)
    BY <1>3, <1>4
  <2>1. ASSUME NEW l \in ToSet(ls) PROVE l \in ToSet(lines) \/ l \in new
    <3>1. PICK k \in 1..Len(ls) : l = ls[k]
      BY <2>0 DEF ToSet
    <3>2. CASE k \in 1..Len(lines)
      BY <1>0, <1>5, <3>1, <3>2 DEF ToSet
    <3>3. CASE k \notin 1..Len(lines)
      <4>1. k - Len(lines) \in 1..Len(added) /\ k = Len(lines) + (k - Len(lines))
        BY <1>0, <1>5, <3>3
      <4>2. l = added[k - Len(lines)]
        BY <1>5, <3>1, <4>1
      <4> QED
        BY <2>0, <4>1, <4>2 DEF ToSet
    <3> QED
      BY <3>2, <3>3
  <2>2. ASSUME NEW l \in ToSet(lines) PROVE l \in ToSet(ls)
    <3>1. PICK k \in 1..Len(lines) : l = lines[k]
      BY <1>0 DEF ToSet
    <3>2. k \in 1..Len(ls) /\ l = ls[k]
      BY <1>0, <1>5, <3>1
    <3> QED
      BY <2>0, <3>2 DEF ToSet
  <2>3. ASSUME NEW l \in new PROVE l \in ToSet(ls)
    <3>1. PICK k \in 1..Len(added) : l = added[k]
      BY <2>0 DEF ToSet
    <3>2. Len(lines) + k \in 1..Len(ls) /\ l = ls[Len(lines) + k]
      BY <1>0, <1>5, <3>1
    <3> QED
      BY <2>0, <3>2 DEF ToSet
  <2> QED
    BY <2>1, <2>2, <2>3
<1>9. \A l \in ToSet(lines) : \A m \in new : m.number # l.number
  <2> SUFFICES ASSUME NEW l \in ToSet(lines), NEW m \in new PROVE m.number # l.number
    OBVIOUS
  <2>1. l.number \in Nat /\ l.number < next
    BY <1>0, NumbersTellLinesApart
  <2>2. m \in ToSet(ls)
    BY <1>8
  <2>3. m.number \in Nat
    BY <1>0, <1>1, <1>4, <1>5, <1>6, <2>2, NumbersTellLinesApart
  <2> QED
    BY <1>0, <1>7, <2>1, <2>3
<1>10. Numbers(added) = {m.number : m \in new}
  BY DEF Numbers, ToSet
<1> HIDE DEF new
<1>11. /\ lines' = Kept(ls) /\ total' = Bytes(ls) - Bytes(Dropped(ls))
       /\ open' = [t \in Streams |-> IF open[t] \in Numbers(Dropped(ls)) THEN None ELSE open[t]]
  BY <1>1, <1>4 DEF Store, StillOpen, Kept, Dropped
<1>12. Stores(s, ls, new)
  <2>1. next' \in Nat /\ next <= next'
    BY <1>0, <1>1, <1>5
  <2>2. open' \in [Streams -> Nat \cup {None}]
    BY <1>11 DEF Types
  <2>3. ToSet(ls) = {l \in ToSet(lines) : \A m \in new : m.number # l.number} \cup new
    BY <1>8, <1>9
  <2> QED
    BY <1>4, <1>6, <1>7, <1>11, <2>1, <2>2, <2>3 DEF Stores
<1>13. \/ open'[s] = None
       \/ open'[s] = open[s] /\ open[s] \notin Numbers(Dropped(ls)) /\ \A m \in new : m.number # open[s]
  <2>1. CASE open'[s] = None
    BY <2>1
  <2>2. CASE open'[s] # None
    <3>1. open'[s] = open[s] /\ open[s] \notin Numbers(Dropped(ls))
      BY <1>11, <2>2
    <3>2. PICK l \in ToSet(lines) : l.number = open[s]
      BY <2>2, <3>1 DEF Bucket, OpenLines
    <3>3. \A m \in new : m.number # open[s]
      BY <1>9, <3>2
    <3> QED
      BY <3>1, <3>3
  <2> QED
    BY <2>1, <2>2
<1> QED
  BY <1>1, <1>7, <1>10, <1>12, <1>13 DEF Finishes

\* The open lines after a Put.
Reopens(s, ls, o) ==
  open' = [[t \in Streams |-> IF open[t] \in Numbers(Dropped(ls)) THEN None ELSE open[t]] EXCEPT ![s] = o]

\* The line a Put stores.
StoresLine(s, p, o, row) ==
  /\ row.number = p.number /\ Stores(s, p.ls, {row}) /\ open'[s] = o
  /\ open[s] # None => row.number = open[s]

\* What a Put stores.
LEMMA PutStores ==
  ASSUME Types, Bucket, NEW s \in Streams, NEW text \in Seq(Chars), NEW p, p = Put(s, text),
         Store(p.ls, p.bytes), next' = p.next, NEW o \in Nat \cup {None}, Reopens(s, p.ls, o)
  PROVE  \E row : StoresLine(s, p, o, row)
<1>1. /\ p.ls \in Seq(Lines) /\ p.bytes = Bytes(p.ls) /\ p.next \in Nat /\ next <= p.next
      /\ Numbered(p.ls, p.next) /\ p.number \in Nat /\ p.number < p.next
      /\ (open[s] # None /\ p.number = open[s]) \/ (open[s] = None /\ next <= p.number)
      /\ \E row : /\ row.number = p.number /\ row.stream = s
                  /\ ToSet(p.ls) = {l \in ToSet(lines) : l.number # p.number} \cup {row}
  BY PutGivesALine
<1>2. PICK row : /\ row.number = p.number /\ row.stream = s
                 /\ ToSet(p.ls) = {l \in ToSet(lines) : l.number # p.number} \cup {row}
  BY <1>1
<1>3. ToSet(p.ls) = {l \in ToSet(lines) : \A m \in {row} : m.number # l.number} \cup {row}
  BY <1>2
<1>4. lines' = Kept(p.ls) /\ total' = Bytes(p.ls) - Bytes(Dropped(p.ls))
  BY <1>1 DEF Store, Kept, Dropped
<1>5. /\ open' \in [Streams -> Nat \cup {None}] /\ open'[s] = o
      /\ \A t \in Streams : t # s => open'[t] = IF open[t] \in Numbers(Dropped(p.ls)) THEN None ELSE open[t]
  BY DEF Types, Reopens
<1>6. Stores(s, p.ls, {row})
  BY <1>1, <1>2, <1>3, <1>4, <1>5 DEF Stores
<1> QED
  BY <1>1, <1>2, <1>5, <1>6 DEF StoresLine

\* A fragment is shown.
LEMMA FragmentsAreShown ==
  ASSUME Types, Bucket, NEW s \in Streams, NEW text \in Seq(Chars), SetOpenFragment(s, text)
  PROVE  \E ls, new : Shows(s, ls, new)
<1> DEFINE p == Put(s, text)
           o == IF p.number \in Numbers(Kept(p.ls)) THEN p.number ELSE None
<1>1. p.bytes = Bytes(p.ls) /\ p.number \in Nat
  BY PutGivesALine
<1>2. /\ Store(p.ls, p.bytes) /\ next' = p.next /\ final' = final
      /\ open' = [StillOpen(p.ls, p.bytes) EXCEPT ![s] = o]
  BY <1>1 DEF SetOpenFragment, Kept
<1>3. Reopens(s, p.ls, o)
  BY <1>1, <1>2 DEF StillOpen, Dropped, Reopens
<1>4. p = Put(s, text) /\ o \in Nat \cup {None}
  BY <1>1
<1> HIDE DEF p, o
<1>5. PICK row : StoresLine(s, p, o, row)
  BY <1>2, <1>3, <1>4, PutStores
<1>6. Shows(s, p.ls, {row})
  BY <1>2, <1>5 DEF Shows, StoresLine, o
<1> QED
  BY <1>6

\* A fragment is cleared, or finished.
LEMMA FragmentsAreClosed ==
  ASSUME Types, Bucket, NEW s \in Streams, NEW text \in Seq(Chars), CloseOpenFragment(s, text)
  PROVE  \/ text = <<>> /\ Clears(s)
         \/ \E ls, new : Finishes(s, ls, new) /\ open'[s] = None /\ (open[s] # None => \E m \in new : m.number = open[s])
<1>1. CASE text = <<>> /\ ClearOpenFragment(s)
  BY <1>1 DEF ClearOpenFragment, Clears
<1> DEFINE p == Put(s, text)
           o == None
<1>2. CASE /\ Store(p.ls, p.bytes) /\ next' = p.next
           /\ open' = Closes(s, p.ls, p.bytes) /\ final' = final \cup {p.number}
  <2>1. p.bytes = Bytes(p.ls) /\ p = Put(s, text)
    BY PutGivesALine
  <2>2. Reopens(s, p.ls, o)
    BY <1>2, <2>1 DEF Closes, StillOpen, Dropped, Reopens
  <2>3. Store(p.ls, p.bytes) /\ next' = p.next /\ o \in Nat \cup {None}
    BY <1>2
  <2> HIDE DEF p, o
  <2>4. PICK row : StoresLine(s, p, o, row)
    BY <2>1, <2>2, <2>3, PutStores
  <2>5. final' = final \cup {m.number : m \in {row}}
    BY <1>2, <2>4 DEF StoresLine
  <2>6. Finishes(s, p.ls, {row})
    BY <2>4, <2>5 DEF Finishes, StoresLine, o
  <2>7. open[s] # None => \E m \in {row} : m.number = open[s]
    BY <2>4 DEF StoresLine
  <2>8. open'[s] = None
    BY <2>4 DEF StoresLine, o
  <2> QED
    BY <2>6, <2>7, <2>8
<1> QED
  BY <1>1, <1>2 DEF CloseOpenFragment

------------------------------------------------------------------------------
\* What stays true of the buffer

\* The lines after something was stored: those there were, and the new ones.
LEMMA StoredLines ==
  ASSUME Types, Bucket, NEW s \in Streams, NEW ls, NEW new, Stores(s, ls, new)
  PROVE  /\ lines' \in Seq(Lines) /\ Numbered(lines', next') /\ total' \in Nat
         /\ total' = Bytes(lines') /\ total' <= MaxBytes
         /\ \A l : l \in ToSet(lines') <=> l \in ToSet(ls) /\ next' - Len(lines') <= l.number
         /\ \A l \in ToSet(lines') : l \in new \/ (l \in ToSet(lines) /\ \A m \in new : m.number # l.number)
         /\ \A n : n \in Numbers(Dropped(ls)) => n \notin Numbers(lines')
         /\ \A l \in ToSet(ls) : l.number \in Numbers(Dropped(ls)) \/ l \in ToSet(lines')
         /\ \A l \in ToSet(ls) :
              l.number + 1 = next' - Len(lines') => Bytes(lines') + Size(l.text) > MaxBytes
         /\ \A m \in new : m \in ToSet(ls) /\ m.number \in Nat /\ m.number < next'
<1>1. /\ ls \in Seq(Lines) /\ next' \in Nat /\ Numbered(ls, next')
      /\ ToSet(ls) = {l \in ToSet(lines) : \A m \in new : m.number # l.number} \cup new
      /\ lines' = Kept(ls) /\ total' = Bytes(ls) - Bytes(Dropped(ls))
  BY DEF Stores
<1>2. /\ Kept(ls) \in Seq(Lines) /\ Numbered(Kept(ls), next')
      /\ Bytes(ls) - Bytes(Dropped(ls)) = Bytes(Kept(ls)) /\ Bytes(Kept(ls)) \in Nat
      /\ Bytes(Kept(ls)) <= MaxBytes
      /\ ToSet(Kept(ls)) = {l \in ToSet(ls) : next' - Len(Kept(ls)) <= l.number}
      /\ \A n : n \in Numbers(Dropped(ls)) <=> n \in Numbers(ls) /\ n \notin Numbers(Kept(ls))
      /\ \A l \in ToSet(ls) :
           l.number + 1 = next' - Len(Kept(ls)) => Bytes(Kept(ls)) + Size(l.text) > MaxBytes
  <2> DEFINE nx == next'
  <2>1. nx \in Nat /\ Numbered(ls, nx)
    BY <1>1
  <2> HIDE DEF nx
  <2>2. /\ Kept(ls) \in Seq(Lines) /\ Numbered(Kept(ls), nx)
        /\ Bytes(ls) - Bytes(Dropped(ls)) = Bytes(Kept(ls)) /\ Bytes(Kept(ls)) \in Nat
        /\ Bytes(Kept(ls)) <= MaxBytes
        /\ ToSet(Kept(ls)) = {l \in ToSet(ls) : nx - Len(Kept(ls)) <= l.number}
        /\ \A n : n \in Numbers(Dropped(ls)) <=> n \in Numbers(ls) /\ n \notin Numbers(Kept(ls))
        /\ \A l \in ToSet(ls) :
             l.number + 1 = nx - Len(Kept(ls)) => Bytes(Kept(ls)) + Size(l.text) > MaxBytes
    BY <1>1, <2>1, TrimmingKeepsTheLast
  <2> QED
    BY <2>2 DEF nx
<1>3. ASSUME NEW l \in ToSet(ls) PROVE l.number \in Numbers(Dropped(ls)) \/ l \in ToSet(lines')
  <2>1. l.number \in Numbers(ls)
    BY <1>1, NumbersTellLinesApart
  <2>2. CASE l.number \in Numbers(Kept(ls))
    <3>1. PICK m \in ToSet(Kept(ls)) : m.number = l.number
      BY <1>1, <1>2, <2>2, NumbersTellLinesApart
    <3>2. m = l
      BY <1>1, <1>2, <3>1, NumbersTellLinesApart
    <3> QED
      BY <1>1, <3>1, <3>2
  <2> QED
    BY <1>2, <2>1, <2>2
<1>4. \A l : l \in ToSet(lines') <=> l \in ToSet(ls) /\ next' - Len(lines') <= l.number
  BY <1>1, <1>2
<1>5. \A m \in new : m \in ToSet(ls) /\ m.number \in Nat /\ m.number < next'
  BY <1>1, NumbersTellLinesApart
<1>6. \A l \in ToSet(lines') : l \in new \/ (l \in ToSet(lines) /\ \A m \in new : m.number # l.number)
  BY <1>1, <1>4
<1> QED
  BY <1>1, <1>2, <1>3, <1>4, <1>5, <1>6

\* The open lines of the other streams stay what they are.
LEMMA OtherLinesStayOpen ==
  ASSUME Types, Bucket, NEW s \in Streams, NEW ls, NEW new, Stores(s, ls, new), NEW t \in Streams, t # s, open'[t] # None
  PROVE  /\ open'[t] = open[t] /\ open[t] \notin final /\ (\A m \in new : m.number # open[t])
         /\ \E l \in ToSet(lines') : l.number = open[t] /\ l.stream = t
<1>1. open'[t] = open[t] /\ open[t] \notin Numbers(Dropped(ls))
  BY DEF Stores
<1>2. open[t] \notin final
  BY <1>1 DEF Bucket, OpenLines
<1>3. PICK l \in ToSet(lines) : l.number = open[t] /\ l.stream = t
  BY <1>1 DEF Bucket, OpenLines
<1>4. l.number \in Nat /\ l.number < next
  BY <1>3, NumbersTellLinesApart DEF Types, Bucket
<1>5. ASSUME NEW m \in new PROVE m.number # open[t]
  <2>1. m.number \in Nat
    BY StoredLines
  <2>2. CASE open[s] # None /\ m.number = open[s]
    <3>1. PICK k \in ToSet(lines) : k.number = open[s] /\ k.stream = s
      BY <2>2 DEF Bucket, OpenLines
    <3>2. l.number # k.number
      BY <1>3, <3>1, NumbersTellLinesApart DEF Types, Bucket
    <3> QED
      BY <1>3, <2>2, <3>1, <3>2
  <2>3. CASE next <= m.number
    BY <1>3, <1>4, <2>1, <2>3 DEF Types
  <2> QED
    BY <2>2, <2>3 DEF Stores
<1>6. l \in ToSet(lines')
  <2>1. l \in ToSet(ls)
    BY <1>3, <1>5 DEF Stores
  <2> QED
    BY <1>1, <1>3, <2>1, StoredLines
<1> QED
  BY <1>1, <1>2, <1>3, <1>5, <1>6

\* Numbers that were given are not given again.
LEMMA WholeNumbers ==
  ASSUME Types, Bucket, NEW s \in Streams, NEW ls, NEW new, Stores(s, ls, new),
         final' = final \/ final' = final \cup {m.number : m \in new}
  PROVE  final' \subseteq 0..next' - 1 /\ seen \subseteq 0..next' - 1 /\ \A m \in new : m.number \notin final
<1>0. next \in Nat /\ next' \in Nat /\ next <= next' /\ final \subseteq 0..next - 1 /\ seen \subseteq 0..next - 1
  BY DEF Types, Stores
<1>1. \A m \in new : m.number \in Nat /\ m.number < next'
  BY StoredLines
<1> DEFINE nx == next'
<1>2. \A n \in 0..next - 1 : n \in 0..nx - 1
  <2>1. next \in Nat /\ nx \in Nat /\ next <= nx
    BY <1>0
  <2> HIDE DEF nx
  <2> QED
    BY <2>1
<1>3. final' \subseteq 0..nx - 1
  <2>1. ASSUME NEW n \in final' PROVE n \in 0..nx - 1
    <3>1. CASE n \in final
      BY <1>0, <1>2, <3>1
    <3>2. CASE n \notin final
      <4>1. n \in Nat /\ n < nx /\ nx \in Nat
        BY <1>0, <1>1, <2>1, <3>2
      <4> HIDE DEF nx
      <4> QED
        BY <4>1
    <3> QED
      BY <3>1, <3>2
  <2> QED
    BY <2>1
<1>4. ASSUME NEW m \in new PROVE m.number \notin final
  <2>1. CASE open[s] # None /\ m.number = open[s]
    BY <2>1 DEF Bucket, OpenLines
  <2>2. CASE next <= m.number
    BY <1>0, <1>1, <2>2
  <2> QED
    BY <2>1, <2>2 DEF Stores
<1> QED
  BY <1>0, <1>2, <1>3, <1>4

\* The buffer is sound after a line was shown, or lines were finished.
LEMMA BucketStays ==
  ASSUME Types, Bucket, NEW s \in Streams, NEW ls, NEW new, Shows(s, ls, new) \/ Finishes(s, ls, new)
  PROVE  Bucket' /\ lines' \in Seq(Lines) /\ total' \in Nat /\ next' \in Nat /\ next <= next'
         /\ open' \in [Streams -> Nat \cup {None}]
         /\ final' \subseteq 0..next' - 1 /\ seen \subseteq 0..next' - 1
<1>1. Stores(s, ls, new)
  BY DEF Shows, Finishes
<1>2. final' = final \/ final' = final \cup {m.number : m \in new}
  BY DEF Shows, Finishes
<1>3. /\ lines' \in Seq(Lines) /\ Numbered(lines', next') /\ total' \in Nat /\ total' = Bytes(lines') /\ total' <= MaxBytes
  BY <1>1, StoredLines
<1>4. final' \subseteq 0..next' - 1 /\ seen \subseteq 0..next' - 1 /\ \A m \in new : m.number \notin final
  BY <1>1, <1>2, WholeNumbers
<1>5. ASSUME NEW t \in Streams, open'[t] # None
      PROVE  open'[t] \notin final' /\ \E l \in ToSet(lines') : l.number = open'[t] /\ l.stream = t
  <2>1. CASE t # s
    BY <1>1, <1>2, <1>5, <2>1, OtherLinesStayOpen
  <2>2. CASE t = s /\ Shows(s, ls, new)
    <3>1. PICK m \in new : new = {m} /\ open'[s] = IF m.number \in Numbers(Kept(ls)) THEN m.number ELSE None
      BY <2>2 DEF Shows
    <3>2. open'[s] = m.number /\ m.number \in Numbers(lines')
      BY <1>1, <1>5, <2>2, <3>1 DEF Stores
    <3>3. m \in ToSet(ls) /\ m.stream = s
      BY <1>1, StoredLines DEF Stores
    <3>4. m \in ToSet(lines')
      BY <1>1, <3>2, <3>3, StoredLines
    <3>5. m.number \notin final'
      BY <1>4, <2>2 DEF Shows
    <3> QED
      BY <2>2, <3>2, <3>3, <3>4, <3>5
  <2>3. CASE t = s /\ Finishes(s, ls, new)
    <3>1. open'[s] = open[s] /\ open[s] \notin Numbers(Dropped(ls)) /\ \A m \in new : m.number # open[s]
      BY <1>5, <2>3 DEF Finishes
    <3>2. PICK l \in ToSet(lines) : l.number = open[s] /\ l.stream = s
      BY <1>5, <2>3, <3>1 DEF Bucket, OpenLines
    <3>3. l \in ToSet(ls)
      BY <1>1, <3>1, <3>2 DEF Stores
    <3>4. l \in ToSet(lines')
      BY <1>1, <3>1, <3>2, <3>3, StoredLines
    <3>5. open[s] \notin final'
      <4>1. open[s] \notin final
        BY <1>5, <2>3, <3>1 DEF Bucket, OpenLines
      <4> QED
        BY <2>3, <3>1, <4>1 DEF Finishes
    <3> QED
      BY <2>3, <3>1, <3>2, <3>4, <3>5
  <2> QED
    BY <2>1, <2>2, <2>3
<1>6. OpenLines'
  BY <1>5 DEF OpenLines
<1> QED
  BY <1>1, <1>3, <1>4, <1>6 DEF Bucket, Stores

------------------------------------------------------------------------------
\* What stays true of a capture thread

Alone(w) == \A v \in Writers : streamOf[v] = streamOf[w] => v = w

\* What a thread shows is the beginning of a line.
ShowsABeginning(w) == visible[w] => buffer[w] # <<>> /\ buffer[w][1] # "n"

\* The one line of its stream that is not whole is the one it shows.
OneFragment(w) ==
  Alone(w) => \A l \in ToSet(lines) :
    l.stream = streamOf[w] /\ l.number \notin final =>
      pc[w] # "done" /\ visible[w] /\ open[streamOf[w]] = l.number

Fragments == \A w \in Writers : ShowsABeginning(w) /\ OneFragment(w)

\* What a thread wrote when it had a whole line.
Ends(w, ls, new) ==
  /\ Finishes(streamOf[w], ls, new)
  /\ visible[w] => (open[streamOf[w]] # None => \E m \in new : m.number = open[streamOf[w]])

\* A thread writes for one of the streams.
LEMMA StreamsAreStreams ==
  ASSUME Types, NEW w \in Writers
  PROVE  streamOf[w] \in Streams
<1>1. streamOf \in [Writers -> Streams]
  BY StreamsAreKnown DEF Types
<1> QED
  BY <1>1

\* A thread that shows something cuts a line that is not empty.
LEMMA CutsALine ==
  ASSUME Types, NEW w \in Writers, ShowsABeginning(w), CutLine(w)
  PROVE  /\ buffer' \in [Writers -> Seq(Chars)]
         /\ \E line \in Seq(Chars) :
              IF visible[w] THEN line # <<>> /\ CloseOpenFragment(streamOf[w], line)
                            ELSE AppendText(streamOf[w], line)
<1> DEFINE text == buffer[w]
           n == Len(text)
           cut == CHOOSE k \in Newlines(buffer[w]) : \A m \in Newlines(buffer[w]) : k <= m
           line == SubSeq(buffer[w], 1, cut - 1)
<1>1. text \in Seq(Chars) /\ n \in Nat /\ DOMAIN text = 1..n
  <2>1. text \in Seq(Chars)
    BY DEF Types
  <2> QED
    BY <2>1
<1>2. /\ IF visible[w] THEN CloseOpenFragment(streamOf[w], line) ELSE AppendText(streamOf[w], line)
      /\ buffer' = [buffer EXCEPT ![w] = SubSeq(buffer[w], cut + 1, Len(buffer[w]))]
      /\ Newlines(buffer[w]) # {}
  BY DEF CutLine
<1>3. cut \in 1..n /\ text[cut] = "n"
  <2> DEFINE S == Newlines(buffer[w])
  <2>1. S \subseteq Nat /\ S # {}
    BY <1>1, <1>2 DEF Newlines
  <2>2. Min(S) \in S /\ \A y \in S : Min(S) <= y
    BY <2>1, LeastNumber
  <2>3. cut \in S
    BY <2>2
  <2> QED
    BY <1>1, <2>3 DEF Newlines
<1> HIDE DEF cut
<1>4. SubSeq(text, cut + 1, n) \in Seq(Chars)
  BY <1>1, <1>3
<1>5. buffer' \in [Writers -> Seq(Chars)]
  BY <1>2, <1>4 DEF Types
<1>6. SubSeq(text, 1, cut - 1) \in Seq(Chars) /\ Len(SubSeq(text, 1, cut - 1)) = cut - 1
  BY <1>1, <1>3
<1>7. line \in Seq(Chars) /\ Len(line) = cut - 1
  BY <1>6
<1> HIDE DEF line
<1>8. visible[w] => line # <<>>
  <2> SUFFICES ASSUME visible[w] PROVE line # <<>>
    OBVIOUS
  <2>1. text[1] # "n"
    BY DEF ShowsABeginning
  <2>2. cut # 1
    BY <1>3, <2>1
  <2>3. Len(line) # 0
    BY <1>3, <1>7, <2>2
  <2> QED
    BY <2>3
<1> QED
  BY <1>2, <1>5, <1>7, <1>8

\* So it finishes its fragment, or appends lines.
LEMMA LinesAreFinished ==
  ASSUME Types, Bucket, NEW w \in Writers, NEW line \in Seq(Chars),
         IF visible[w] THEN line # <<>> /\ CloseOpenFragment(streamOf[w], line)
                       ELSE AppendText(streamOf[w], line)
  PROVE  \E ls, new : Ends(w, ls, new)
<1>0. streamOf[w] \in Streams
  BY StreamsAreStreams
<1>1. CASE visible[w]
  <2>1. line # <<>> /\ CloseOpenFragment(streamOf[w], line)
    BY <1>1
  <2>2. \E ls, new : /\ Finishes(streamOf[w], ls, new) /\ open'[streamOf[w]] = None
                     /\ (open[streamOf[w]] # None => \E m \in new : m.number = open[streamOf[w]])
    BY <1>0, <2>1, FragmentsAreClosed
  <2> QED
    BY <2>2 DEF Ends
<1>2. CASE ~ visible[w]
  <2>1. AppendText(streamOf[w], line)
    BY <1>2
  <2>2. \E ls, new : Finishes(streamOf[w], ls, new) /\ \A m \in new : next <= m.number
    BY <1>0, <2>1, AppendAddsLines
  <2> QED
    BY <1>2, <2>2 DEF Ends
<1> QED
  BY <1>1, <1>2

\* Then all lines of a stream captured alone are whole.
LEMMA EndsAreWhole ==
  ASSUME Types, Bucket, NEW w \in Writers, NEW ls, NEW new, Ends(w, ls, new), OneFragment(w), Alone(w),
         NEW l \in ToSet(lines'), l.stream = streamOf[w]
  PROVE  l.number \in final'
<1> DEFINE s == streamOf[w]
<1>0. s \in Streams /\ Stores(s, ls, new) /\ final' = final \cup {m.number : m \in new}
  BY StreamsAreStreams DEF Ends, Finishes
<1>1. l \in new \/ (l \in ToSet(lines) /\ \A m \in new : m.number # l.number)
  BY <1>0, StoredLines
<1>2. CASE l \in new
  BY <1>0, <1>2
<1>3. CASE l \in ToSet(lines) /\ \A m \in new : m.number # l.number
  <2>1. CASE l.number \in final
    BY <1>0, <2>1
  <2>2. CASE l.number \notin final
    <3>1. visible[w] /\ open[s] = l.number
      BY <1>3, <2>2 DEF OneFragment
    <3>2. l.number \in Nat
      BY <1>3, NumbersTellLinesApart DEF Types, Bucket
    <3>3. \E m \in new : m.number = open[s]
      BY <3>1, <3>2, NoneIsNoNumber DEF Ends
    <3> QED
      BY <1>3, <3>1, <3>3
  <2> QED
    BY <2>1, <2>2
<1> QED
  BY <1>1, <1>2, <1>3

\* What a thread writes does not touch the fragments of the others.
LEMMA OthersKeepTheirFragment ==
  ASSUME Types, Bucket, NEW w \in Writers, NEW ls, NEW new,
         Shows(streamOf[w], ls, new) \/ Finishes(streamOf[w], ls, new),
         NEW v \in Writers, v # w, OneFragment(v),
         streamOf' = streamOf, pc'[v] = pc[v], visible'[v] = visible[v]
  PROVE  OneFragment(v)'
<1> DEFINE s == streamOf[w]
           t == streamOf[v]
<1>0. s \in Streams /\ t \in Streams /\ Stores(s, ls, new)
  BY StreamsAreStreams DEF Shows, Finishes
<1>1. ASSUME Alone(v), NEW l \in ToSet(lines'), l.stream = t, l.number \notin final'
      PROVE  pc'[v] # "done" /\ visible'[v] /\ open'[t] = l.number
  <2>1. t # s
    BY <1>1 DEF Alone
  <2>2. l \in ToSet(lines)
    <3>1. \A m \in new : m.stream = s
      BY <1>0 DEF Stores
    <3> QED
      BY <1>0, <1>1, <2>1, <3>1, StoredLines
  <2>3. l.number \notin final
    BY <1>1 DEF Shows, Finishes
  <2>4. pc[v] # "done" /\ visible[v] /\ open[t] = l.number
    BY <1>1, <2>2, <2>3 DEF OneFragment
  <2>5. l.number \notin Numbers(Dropped(ls))
    <3>1. next' \in Nat /\ lines' \in Seq(Lines) /\ Numbered(lines', next')
      BY <1>0, StoredLines DEF Stores
    <3>2. l.number \in Numbers(lines')
      BY <1>1 DEF Numbers, ToSet
    <3> QED
      BY <1>0, <3>2, StoredLines
  <2>6. open'[t] = open[t]
    BY <1>0, <2>1, <2>4, <2>5 DEF Stores
  <2> QED
    BY <2>4, <2>6
<1>2. Alone(v)' <=> Alone(v)
  BY DEF Alone
<1> QED
  BY <1>1, <1>2 DEF OneFragment

------------------------------------------------------------------------------
\* What stays true of a client

\* It has seen every line before the end of its last page.
Pages ==
  /\ upto <= next /\ (offset # None => upto = offset)
  /\ \A l \in ToSet(lines) : l.number < upto => l.number \in seen

\* A line that is written is no line before it.
LEMMA PagesStay ==
  ASSUME Types, Bucket, Pages, NEW s \in Streams, NEW ls, NEW new, Stores(s, ls, new), UNCHANGED client
  PROVE  Pages'
<1>0. next \in Nat /\ next' \in Nat /\ next <= next' /\ upto \in Nat
  BY DEF Types, Stores
<1>1. upto' = upto /\ offset' = offset /\ seen' = seen
  BY DEF client
<1>2. upto' <= next'
  BY <1>0, <1>1 DEF Pages
<1>3. ASSUME NEW l \in ToSet(lines'), l.number < upto PROVE l.number \in seen
  <2>1. CASE l \in ToSet(lines)
    BY <1>3, <2>1 DEF Pages
  <2>2. CASE l \in new
    <3>1. l.number \in Nat
      BY <2>2, StoredLines
    <3>2. CASE open[s] # None /\ l.number = open[s]
      <4>1. PICK m \in ToSet(lines) : m.number = open[s]
        BY <3>2 DEF Bucket, OpenLines
      <4> QED
        BY <1>3, <3>2, <4>1 DEF Pages
    <3>3. CASE next <= l.number
      BY <1>0, <1>3, <3>1, <3>3 DEF Pages
    <3> QED
      BY <2>2, <3>2, <3>3 DEF Stores
  <2> QED
    BY <2>1, <2>2, StoredLines
<1> QED
  BY <1>1, <1>2, <1>3 DEF Pages

\* bisect_left finds the first line of a page.
LEMMA PagesStartAtTheirOffset ==
  ASSUME Types, Bucket, offset \in Nat, offset <= next
  PROVE  /\ PageStart \in 0..Len(lines)
         /\ \A k \in 1..Len(lines) : lines[k].number < offset <=> k <= PageStart
<1> DEFINE n == Len(lines)
           P == {k \in DOMAIN lines : lines[k].number < offset}
           c == IF offset <= next - n THEN 0 ELSE offset - (next - n)
<1>1. n \in Nat /\ next \in Nat /\ n <= next /\ DOMAIN lines = 1..n /\ \A k \in 1..n : lines[k].number = next - n + k - 1
  BY DEF Types, Bucket, Numbered
<1> HIDE DEF n
<1>2. c \in 0..n
  BY <1>1
<1>3. ASSUME NEW k \in 1..n PROVE lines[k].number < offset <=> k <= c
  BY <1>1
<1> HIDE DEF c
<1>4. P = 1..c
  BY <1>1, <1>2, <1>3
<1>5. Cardinality(1..c) = c
  <2>1. Cardinality(1..c) = IF 1 > c THEN 0 ELSE c - 1 + 1
    BY <1>2, FS_Interval
  <2> QED
    BY <1>2, <2>1
<1>6. PageStart = c
  BY <1>4, <1>5 DEF PageStart
<1> QED
  BY <1>2, <1>3, <1>6 DEF n

\* A page begins where the last one ended, and ends before the next offset.
LEMMA PagesGoOn ==
  ASSUME Types, Bucket, Pages, NextPage
  PROVE  /\ Pages'
         /\ offset' \in Nat \cup {None} /\ seen' \subseteq 0..next' - 1 /\ upto' \in Nat
<1> DEFINE n == Len(lines)
           start == PageStart
<1>1. /\ n \in Nat /\ next \in Nat /\ n <= next /\ DOMAIN lines = 1..n /\ lines \in Seq(Lines)
      /\ \A k \in 1..n : lines[k].number = next - n + k - 1
      /\ offset \in Nat /\ upto = offset /\ upto <= next /\ seen \subseteq 0..next - 1
  BY DEF Types, Bucket, Numbered, Pages, NextPage
<1>2. start \in 0..n /\ \A k \in 1..n : lines[k].number < offset <=> k <= start
  BY <1>1, PagesStartAtTheirOffset
<1>3. lines' = lines /\ next' = next
  BY DEF NextPage, bucket
<1>4. PICK limit \in 1..MaxPage :
        LET page == SubSeq(lines, start + 1, Min({start + limit, Len(lines)}))
            more == start + limit < Len(lines) /\ page # <<>>
        IN  /\ offset' = IF more THEN Last(page).number + 1 ELSE None
            /\ seen' = seen \cup Numbers(page)
            /\ upto' = IF more THEN Last(page).number + 1 ELSE next
  BY DEF NextPage
<1> DEFINE last == Min({start + limit, Len(lines)})
           page == SubSeq(lines, start + 1, last)
           more == start + limit < n /\ page # <<>>
<1>5. /\ offset' = IF more THEN Last(page).number + 1 ELSE None
      /\ seen' = seen \cup Numbers(page)
      /\ upto' = IF more THEN Last(page).number + 1 ELSE next
  BY <1>4
<1> HIDE DEF start, n
<1>6. limit \in Nat /\ limit >= 1
  BY BoundsAreNat
<1>7. last = IF start + limit < n THEN start + limit ELSE n
  <2> DEFINE S == {start + limit, n}
  <2>1. S \subseteq Nat /\ S # {} /\ start + limit \in S /\ n \in S
    BY <1>1, <1>2, <1>6
  <2>2. Min(S) \in S /\ Min(S) <= start + limit /\ Min(S) <= n
    BY <2>1, LeastNumber
  <2>3. last = Min(S)
    BY DEF n
  <2>4. last = start + limit \/ last = n
    BY <2>2, <2>3
  <2> HIDE DEF S, last
  <2> QED
    BY <1>1, <1>2, <1>6, <2>2, <2>3, <2>4
<1> HIDE DEF last
<1>8. last \in 0..n /\ start <= last
  BY <1>1, <1>2, <1>6, <1>7
<1>9. /\ page \in Seq(Lines) /\ Len(page) = last - start
      /\ \A k \in 1..last - start : page[k] = lines[start + k]
  BY <1>1, <1>2, <1>8
<1> HIDE DEF page
<1>10. ASSUME NEW k \in 1..n, k <= last PROVE lines[k].number \in seen'
  <2>1. CASE k <= start
    <3>1. lines[k].number < upto /\ lines[k] \in ToSet(lines)
      BY <1>1, <1>2, <2>1 DEF ToSet
    <3> QED
      BY <1>5, <3>1 DEF Pages
  <2>2. CASE k > start
    <3>1. k - start \in 1..last - start /\ start + (k - start) = k
      BY <1>1, <1>2, <1>8, <1>10, <2>2
    <3>2. page[k - start] = lines[k] /\ k - start \in DOMAIN page
      BY <1>9, <3>1
    <3>3. lines[k].number \in Numbers(page)
      BY <3>2 DEF Numbers
    <3> QED
      BY <1>5, <3>3
  <2> QED
    BY <1>1, <1>2, <2>1, <2>2
<1>11. Numbers(page) \subseteq 0..next - 1
  <2> SUFFICES ASSUME NEW m \in Numbers(page) PROVE m \in 0..next - 1
    OBVIOUS
  <2>1. PICK k \in 1..last - start : m = page[k].number
    BY <1>9 DEF Numbers
  <2>2. start + k \in 1..n
    BY <1>1, <1>2, <1>8
  <2>3. m = next - n + (start + k) - 1
    BY <1>1, <1>9, <2>1, <2>2
  <2> QED
    BY <1>1, <2>2, <2>3
<1>12. seen' \subseteq 0..next' - 1
  BY <1>1, <1>3, <1>5, <1>11
<1>13. CASE more
  <2>1. last = start + limit /\ last \in 1..n /\ last < n
    BY <1>1, <1>2, <1>6, <1>7, <1>13
  <2>2. Last(page) = lines[last]
    <3>1. Len(page) \in 1..last - start /\ start + Len(page) = last
      BY <1>2, <1>6, <1>9, <2>1
    <3>2. page[Len(page)] = lines[start + Len(page)]
      BY <1>9, <3>1
    <3> QED
      BY <3>1, <3>2 DEF Last
  <2>3. upto' = next - n + last /\ offset' = upto'
    <3>1. lines[last].number = next - n + last - 1
      BY <1>1, <2>1
    <3>2. lines[last].number + 1 = next - n + last
      BY <1>1, <2>1, <3>1
    <3> QED
      BY <1>5, <1>13, <2>2, <3>2
  <2>4. upto' \in Nat /\ upto' <= next
    BY <1>1, <2>1, <2>3
  <2>5. ASSUME NEW l \in ToSet(lines), l.number < upto' PROVE l.number \in seen'
    <3>1. PICK k \in 1..n : l = lines[k]
      BY <1>1 DEF ToSet
    <3>2. next - n + k - 1 < next - n + last
      BY <1>1, <2>3, <2>5, <3>1
    <3>3. k <= last
      BY <1>1, <2>1, <3>2
    <3> QED
      BY <1>10, <3>1, <3>3
  <2> QED
    BY <1>3, <1>12, <2>3, <2>4, <2>5 DEF Pages
<1>14. CASE ~ more
  <2>1. offset' = None /\ upto' = next
    BY <1>5, <1>14
  <2>2. last = n
    <3>1. CASE start + limit < n
      <4>1. last - start = limit
        BY <1>2, <1>6, <1>7, <3>1
      <4>2. Len(page) # 0
        BY <1>6, <1>9, <4>1
      <4>3. page # <<>>
        BY <4>2
      <4> QED
        BY <1>14, <3>1, <4>3
    <3> QED
      BY <1>7, <3>1
  <2>3. ASSUME NEW l \in ToSet(lines) PROVE l.number \in seen'
    <3>1. PICK k \in 1..n : l = lines[k]
      BY <1>1 DEF ToSet
    <3>2. k <= last
      BY <2>2
    <3> QED
      BY <1>10, <3>1, <3>2
  <2> QED
    BY <1>1, <1>3, <1>12, <2>1, <2>3 DEF Pages
<1> QED
  BY <1>13, <1>14

------------------------------------------------------------------------------
\* What stays true of the logs

LogInv == Types /\ Bucket /\ Fragments /\ Pages

\* A line was shown, or lines were finished.
LEMMA WritingKeepsTheRest ==
  ASSUME LogInv, NEW w \in Writers, NEW ls, NEW new,
         Shows(streamOf[w], ls, new) \/ Finishes(streamOf[w], ls, new),
         UNCHANGED <<streamOf, unread, client>>,
         pc' \in [Writers -> {"read", "cut", "drain", "done"}],
         buffer' \in [Writers -> Seq(Chars)], visible' \in [Writers -> BOOLEAN],
         \A v \in Writers : v # w => pc'[v] = pc[v] /\ buffer'[v] = buffer[v] /\ visible'[v] = visible[v],
         ShowsABeginning(w)', OneFragment(w)'
  PROVE  LogInv'
<1>0. streamOf[w] \in Streams /\ Stores(streamOf[w], ls, new)
  BY StreamsAreStreams DEF LogInv, Shows, Finishes
<1>1. /\ Bucket' /\ lines' \in Seq(Lines) /\ total' \in Nat /\ next' \in Nat /\ next <= next'
      /\ open' \in [Streams -> Nat \cup {None}]
      /\ final' \subseteq 0..next' - 1 /\ seen \subseteq 0..next' - 1
  BY <1>0, BucketStays DEF LogInv
<1>2. Types'
  BY <1>1 DEF LogInv, Types, client
<1>3. Pages'
  BY <1>0, PagesStay DEF LogInv
<1>4. ASSUME NEW v \in Writers PROVE ShowsABeginning(v)' /\ OneFragment(v)'
  <2>1. CASE v = w
    BY <2>1
  <2>2. CASE v # w
    <3>1. ShowsABeginning(v)'
      BY <2>2 DEF LogInv, Fragments, ShowsABeginning
    <3>2. OneFragment(v)'
      BY <2>2, OthersKeepTheirFragment DEF LogInv, Fragments
    <3> QED
      BY <3>1, <3>2
  <2> QED
    BY <2>1, <2>2
<1> QED
  BY <1>1, <1>2, <1>3, <1>4 DEF LogInv, Fragments

\* Nothing was written.
LEMMA RestingKeepsTheRest ==
  ASSUME LogInv, UNCHANGED bucket
  PROVE  Bucket' /\ lines' \in Seq(Lines) /\ total' \in Nat /\ next' = next /\ lines' = lines /\ final' = final
         /\ open' = open /\ open' \in [Streams -> Nat \cup {None}] /\ final' \subseteq 0..next' - 1
<1>1. lines' = lines /\ total' = total /\ next' = next /\ open' = open /\ final' = final
  BY DEF bucket
<1> QED
  BY <1>1 DEF LogInv, Types, Bucket, OpenLines

\* An open line is cleared.
LEMMA ClearingKeepsTheRest ==
  ASSUME LogInv, NEW w \in Writers, Clears(streamOf[w]),
         UNCHANGED <<streamOf, buffer, visible, unread, client>>,
         pc' \in [Writers -> {"read", "cut", "drain", "done"}],
         \A v \in Writers : v # w => pc'[v] = pc[v],
         ~ visible[w]
  PROVE  LogInv'
<1> DEFINE s == streamOf[w]
<1>0. s \in Streams
  BY StreamsAreStreams DEF LogInv
<1>1. /\ lines' = lines /\ total' = total /\ next' = next /\ final' = final
      /\ open' \in [Streams -> Nat \cup {None}] /\ open'[s] = None
      /\ \A t \in Streams : t # s => open'[t] = open[t]
  BY <1>0 DEF Clears, LogInv, Types
<1>2. Bucket'
  <2>1. OpenLines'
    <3> SUFFICES ASSUME NEW t \in Streams, open'[t] # None
                 PROVE  open'[t] \notin final' /\ \E l \in ToSet(lines') : l.number = open'[t] /\ l.stream = t
      BY DEF OpenLines
    <3>1. open'[t] = open[t]
      BY <1>1
    <3> QED
      BY <1>1, <3>1 DEF LogInv, Bucket, OpenLines
  <2> QED
    BY <1>1, <2>1 DEF LogInv, Bucket
<1>3. Types'
  BY <1>1 DEF LogInv, Types, client
<1>4. Pages'
  BY <1>1 DEF LogInv, Pages, client
<1>5. ASSUME NEW v \in Writers PROVE ShowsABeginning(v)' /\ OneFragment(v)'
  <2>1. ShowsABeginning(v)'
    BY DEF LogInv, Fragments, ShowsABeginning
  <2>2. ASSUME Alone(v), NEW l \in ToSet(lines), l.stream = streamOf[v], l.number \notin final
        PROVE  pc'[v] # "done" /\ visible'[v] /\ open'[streamOf[v]] = l.number
    <3>1. pc[v] # "done" /\ visible[v] /\ open[streamOf[v]] = l.number
      BY <2>2 DEF LogInv, Fragments, OneFragment
    <3>2. v # w
      BY <3>1
    <3>3. streamOf[v] # s /\ streamOf[v] \in Streams
      BY <2>2, <3>2, StreamsAreStreams DEF Alone, LogInv
    <3> QED
      BY <1>1, <3>1, <3>2, <3>3
  <2>3. Alone(v)' <=> Alone(v)
    BY DEF Alone
  <2> QED
    BY <1>1, <2>1, <2>2, <2>3 DEF OneFragment
<1> QED
  BY <1>2, <1>3, <1>4, <1>5 DEF LogInv, Fragments

\* No thread writes while it reads.
LEMMA ReadingKeepsTheRest ==
  ASSUME LogInv, NEW w \in Writers, ReadChunk(w) \/ EndOfFile(w)
  PROVE  LogInv'
<1>1. /\ UNCHANGED bucket /\ UNCHANGED <<streamOf, visible, client>> /\ pc[w] = "read"
      /\ pc' \in [Writers -> {"read", "cut", "drain", "done"}] /\ pc'[w] # "done"
      /\ \A v \in Writers : v # w => pc'[v] = pc[v]
  BY DEF ReadChunk, EndOfFile, Goes, LogInv, Types
<1>2. /\ buffer' \in [Writers -> Seq(Chars)] /\ unread' \in [Writers -> 0..MaxText]
      /\ \A v \in Writers : v # w => buffer'[v] = buffer[v]
      /\ buffer[w] # <<>> => buffer'[w] # <<>> /\ buffer'[w][1] = buffer[w][1]
  <2>1. CASE EndOfFile(w)
    BY <2>1 DEF EndOfFile, LogInv, Types
  <2>2. CASE ReadChunk(w)
    <3>1. PICK chunk \in Texts(MaxChunk) \ {<<>>} :
            /\ Len(chunk) <= unread[w]
            /\ buffer' = [buffer EXCEPT ![w] = buffer[w] \o chunk]
            /\ unread' = [unread EXCEPT ![w] = unread[w] - Len(chunk)]
      BY <2>2 DEF ReadChunk
    <3>2. chunk \in Seq(Chars) /\ Len(chunk) \in Nat
      <4>1. PICK k \in 0..MaxChunk : chunk \in [1..k -> Chars]
        BY <3>1 DEF Texts
      <4>2. k \in Nat
        BY BoundsAreNat
      <4>3. chunk \in Seq(Chars)
        BY <4>1, <4>2
      <4> QED
        BY <4>3
    <3>3. buffer[w] \in Seq(Chars) /\ unread[w] \in 0..MaxText
      BY DEF LogInv, Types
    <3>4. buffer[w] \o chunk \in Seq(Chars)
      BY <3>2, <3>3
    <3>5. unread[w] - Len(chunk) \in 0..MaxText
      BY <3>1, <3>2, <3>3, BoundsAreNat
    <3>6. buffer[w] # <<>> => buffer[w] \o chunk # <<>> /\ (buffer[w] \o chunk)[1] = buffer[w][1]
      <4> SUFFICES ASSUME buffer[w] # <<>>
                   PROVE  buffer[w] \o chunk # <<>> /\ (buffer[w] \o chunk)[1] = buffer[w][1]
        OBVIOUS
      <4>1. Len(buffer[w]) \in Nat /\ Len(buffer[w]) # 0
        BY <3>3
      <4>2. Len(buffer[w] \o chunk) # 0
        BY <3>2, <3>3, <4>1
      <4>3. (buffer[w] \o chunk)[1] = buffer[w][1]
        BY <3>2, <3>3, <4>1
      <4> QED
        BY <4>2, <4>3
    <3>7. buffer'[w] = buffer[w] \o chunk
      BY <3>1 DEF LogInv, Types
    <3>8. buffer' \in [Writers -> Seq(Chars)]
      BY <3>1, <3>4 DEF LogInv, Types
    <3>9. unread' \in [Writers -> 0..MaxText]
      BY <3>1, <3>5 DEF LogInv, Types
    <3>10. \A v \in Writers : v # w => buffer'[v] = buffer[v]
      BY <3>1 DEF LogInv, Types
    <3> QED
      BY <3>6, <3>7, <3>8, <3>9, <3>10
  <2> QED
    BY <2>1, <2>2
<1>3. /\ Bucket' /\ lines' = lines /\ next' = next /\ total' \in Nat /\ final' = final /\ open' = open
      /\ lines' \in Seq(Lines) /\ open' \in [Streams -> Nat \cup {None}] /\ final' \subseteq 0..next' - 1
  BY <1>1, RestingKeepsTheRest
<1>4. Types'
  BY <1>1, <1>2, <1>3 DEF LogInv, Types, client
<1>5. Pages'
  BY <1>1, <1>3 DEF LogInv, Pages, client
<1>6. ASSUME NEW v \in Writers PROVE ShowsABeginning(v)' /\ OneFragment(v)'
  <2>1. ShowsABeginning(v)'
    <3>1. CASE v = w
      BY <1>1, <1>2, <3>1 DEF LogInv, Fragments, ShowsABeginning
    <3>2. CASE v # w
      BY <1>1, <1>2, <3>2 DEF LogInv, Fragments, ShowsABeginning
    <3> QED
      BY <3>1, <3>2
  <2>2. Alone(v)' <=> Alone(v)
    BY <1>1 DEF Alone
  <2>3. pc[v] # "done" => pc'[v] # "done"
    BY <1>1
  <2>4. OneFragment(v)'
    BY <1>1, <1>3, <2>2, <2>3 DEF LogInv, Fragments, OneFragment
  <2> QED
    BY <2>1, <2>4
<1> QED
  BY <1>3, <1>4, <1>5, <1>6 DEF LogInv, Fragments

\* A thread that finishes its line is left with none.
LEMMA EndingLeavesNoFragment ==
  ASSUME LogInv, NEW w \in Writers, NEW ls, NEW new, Ends(w, ls, new), streamOf' = streamOf
  PROVE  OneFragment(w)'
<1>1. ASSUME Alone(w), NEW l \in ToSet(lines'), l.stream = streamOf[w]
      PROVE  l.number \in final'
  BY <1>1, EndsAreWhole DEF LogInv, Fragments
<1>2. Alone(w)' <=> Alone(w)
  BY DEF Alone
<1> QED
  BY <1>1, <1>2 DEF OneFragment

\* A line that is cut is a whole line.
LEMMA CuttingKeepsTheRest ==
  ASSUME LogInv, NEW w \in Writers, CutLine(w)
  PROVE  LogInv'
<1>1. PICK line \in Seq(Chars) :
        IF visible[w] THEN line # <<>> /\ CloseOpenFragment(streamOf[w], line)
                      ELSE AppendText(streamOf[w], line)
  BY CutsALine DEF LogInv, Fragments
<1>2. PICK ls, new : Ends(w, ls, new)
  BY <1>1, LinesAreFinished DEF LogInv
<1>3. /\ UNCHANGED <<streamOf, unread, client>>
      /\ pc' = [pc EXCEPT ![w] = "cut"] /\ visible' = [visible EXCEPT ![w] = FALSE]
      /\ \A v \in Writers : v # w => buffer'[v] = buffer[v]
  BY DEF CutLine, Goes, LogInv, Types
<1>4. buffer' \in [Writers -> Seq(Chars)]
  BY CutsALine DEF LogInv, Fragments
<1>5. /\ pc' \in [Writers -> {"read", "cut", "drain", "done"}] /\ visible' \in [Writers -> BOOLEAN]
      /\ ~ visible'[w]
      /\ \A v \in Writers : v # w => pc'[v] = pc[v] /\ visible'[v] = visible[v]
  BY <1>3 DEF LogInv, Types
<1>6. ShowsABeginning(w)'
  BY <1>5 DEF ShowsABeginning
<1>7. OneFragment(w)'
  BY <1>2, <1>3, EndingLeavesNoFragment
<1>8. Finishes(streamOf[w], ls, new)
  BY <1>2 DEF Ends
<1> QED
  BY <1>3, <1>4, <1>5, <1>6, <1>7, <1>8, WritingKeepsTheRest

\* At the end of its file, what is left is a line.
LEMMA DrainingKeepsTheRest ==
  ASSUME LogInv, NEW w \in Writers, Drain(w)
  PROVE  LogInv'
<1>1. /\ UNCHANGED <<streamOf, buffer, visible, unread, client>>
      /\ pc' = [pc EXCEPT ![w] = "done"]
  BY DEF Drain, Goes
<1>2. /\ pc' \in [Writers -> {"read", "cut", "drain", "done"}]
      /\ \A v \in Writers : v # w => pc'[v] = pc[v]
  BY <1>1 DEF LogInv, Types
<1>3. CASE buffer[w] = <<>>
  <2>1. ~ visible[w]
    BY <1>3 DEF LogInv, Fragments, ShowsABeginning
  <2>2. Clears(streamOf[w])
    BY <1>3 DEF Drain, ClearOpenFragment, Clears
  <2> QED
    BY <1>1, <1>2, <2>1, <2>2, ClearingKeepsTheRest
<1>4. CASE buffer[w] # <<>>
  <2>1. /\ buffer[w] \in Seq(Chars)
        /\ IF visible[w] THEN buffer[w] # <<>> /\ CloseOpenFragment(streamOf[w], buffer[w])
                         ELSE AppendText(streamOf[w], buffer[w])
    BY <1>4 DEF Drain, LogInv, Types
  <2>2. PICK ls, new : Ends(w, ls, new)
    BY <2>1, LinesAreFinished DEF LogInv
  <2>3. OneFragment(w)'
    BY <1>1, <2>2, EndingLeavesNoFragment
  <2>4. ShowsABeginning(w)'
    BY <1>1 DEF LogInv, Fragments, ShowsABeginning
  <2>5. /\ buffer' \in [Writers -> Seq(Chars)] /\ visible' \in [Writers -> BOOLEAN]
        /\ \A v \in Writers : v # w => pc'[v] = pc[v] /\ buffer'[v] = buffer[v] /\ visible'[v] = visible[v]
    BY <1>1, <1>2 DEF LogInv, Types
  <2>6. Finishes(streamOf[w], ls, new)
    BY <2>2 DEF Ends
  <2> QED
    BY <1>1, <1>2, <2>3, <2>4, <2>5, <2>6, WritingKeepsTheRest
<1> QED
  BY <1>3, <1>4

\* The fragment a thread shows is the only one of a stream captured alone.
LEMMA ShowingKeepsTheRest ==
  ASSUME LogInv, NEW w \in Writers, ShowFragment(w)
  PROVE  LogInv'
<1> DEFINE s == streamOf[w]
<1>0. s \in Streams
  BY StreamsAreStreams DEF LogInv
<1>1. /\ UNCHANGED <<streamOf, buffer, unread, client>> /\ Newlines(buffer[w]) = {}
      /\ pc' = [pc EXCEPT ![w] = "read"]
  BY DEF ShowFragment, Goes
<1>2. /\ pc' \in [Writers -> {"read", "cut", "drain", "done"}] /\ pc'[w] = "read"
      /\ \A v \in Writers : v # w => pc'[v] = pc[v]
  BY <1>1 DEF LogInv, Types
<1>3. CASE /\ buffer[w] # <<>> /\ SetOpenFragment(streamOf[w], buffer[w])
           /\ visible' = [visible EXCEPT ![w] = TRUE]
  <2>1. buffer[w] \in Seq(Chars)
    BY DEF LogInv, Types
  <2>2. PICK ls, new : Shows(s, ls, new)
    BY <1>0, <1>3, <2>1, FragmentsAreShown DEF LogInv
  <2>3. /\ visible' \in [Writers -> BOOLEAN] /\ visible'[w]
        /\ \A v \in Writers : v # w => visible'[v] = visible[v]
    BY <1>3 DEF LogInv, Types
  <2>4. ShowsABeginning(w)'
    <3>1. Len(buffer[w]) \in Nat /\ DOMAIN buffer[w] = 1..Len(buffer[w]) /\ Len(buffer[w]) # 0
      BY <1>3, <2>1
    <3>2. 1 \in DOMAIN buffer[w]
      BY <3>1
    <3>3. buffer[w][1] # "n"
      BY <1>1, <3>2 DEF Newlines
    <3> QED
      BY <1>1, <1>3, <3>3 DEF ShowsABeginning
  <2>5. OneFragment(w)'
    <3>0. Stores(s, ls, new) /\ final' = final
      BY <2>2 DEF Shows
    <3>1. PICK m \in new : /\ new = {m} /\ (open[s] # None => m.number = open[s])
                           /\ open'[s] = IF m.number \in Numbers(Kept(ls)) THEN m.number ELSE None
      BY <2>2 DEF Shows
    <3>2. ASSUME Alone(w), NEW l \in ToSet(lines'), l.stream = s, l.number \notin final'
          PROVE  open'[s] = l.number
      <4>1. CASE l \in new
        <5>1. l = m
          BY <3>1, <4>1
        <5>2. l.number \in Numbers(lines')
          BY <3>2 DEF Numbers, ToSet
        <5>3. lines' = Kept(ls)
          BY <3>0 DEF Stores
        <5> QED
          BY <3>1, <5>1, <5>2, <5>3
      <4>2. CASE l \in ToSet(lines) /\ \A k \in new : k.number # l.number
        <5>1. open[s] = l.number
          BY <3>0, <3>2, <4>2 DEF LogInv, Fragments, OneFragment
        <5>2. l.number \in Nat
          BY <4>2, NumbersTellLinesApart DEF LogInv, Types, Bucket
        <5>3. m.number = l.number
          BY <3>1, <5>1, <5>2, NoneIsNoNumber
        <5> QED
          BY <3>1, <4>2, <5>3
      <4>3. l \in new \/ (l \in ToSet(lines) /\ \A k \in new : k.number # l.number)
        BY <1>0, <3>0, <3>2, StoredLines DEF LogInv
      <4> QED
        BY <4>1, <4>2, <4>3
    <3>3. Alone(w)' <=> Alone(w)
      BY <1>1 DEF Alone
    <3> QED
      BY <1>1, <1>2, <2>3, <3>2, <3>3 DEF OneFragment
  <2>6. /\ buffer' \in [Writers -> Seq(Chars)]
        /\ \A v \in Writers : v # w => pc'[v] = pc[v] /\ buffer'[v] = buffer[v] /\ visible'[v] = visible[v]
    BY <1>1, <1>2, <2>3 DEF LogInv, Types
  <2> QED
    BY <1>1, <1>2, <2>2, <2>3, <2>4, <2>5, <2>6, WritingKeepsTheRest
<1>4. CASE UNCHANGED <<bucket, visible>>
  <2>1. /\ Bucket' /\ lines' = lines /\ next' = next /\ total' \in Nat /\ final' = final /\ open' = open
        /\ lines' \in Seq(Lines) /\ open' \in [Streams -> Nat \cup {None}] /\ final' \subseteq 0..next' - 1
    BY <1>4, RestingKeepsTheRest
  <2>2. Types'
    BY <1>1, <1>2, <1>4, <2>1 DEF LogInv, Types, client
  <2>3. Pages'
    BY <1>1, <2>1 DEF LogInv, Pages, client
  <2>4. ASSUME NEW v \in Writers PROVE ShowsABeginning(v)' /\ OneFragment(v)'
    <3>1. ShowsABeginning(v)'
      BY <1>1, <1>4 DEF LogInv, Fragments, ShowsABeginning
    <3>2. Alone(v)' <=> Alone(v)
      BY <1>1 DEF Alone
    <3>3. pc[v] # "done" => pc'[v] # "done"
      BY <1>2
    <3>4. OneFragment(v)'
      BY <1>1, <1>4, <2>1, <3>2, <3>3 DEF LogInv, Fragments, OneFragment
    <3> QED
      BY <3>1, <3>4
  <2> QED
    BY <2>1, <2>2, <2>3, <2>4 DEF LogInv, Fragments
<1> QED
  BY <1>3, <1>4 DEF ShowFragment

\* A client only reads.
LEMMA ClientsKeepTheRest ==
  ASSUME LogInv, NextPage \/ ListAgain
  PROVE  LogInv'
<1>1. UNCHANGED bucket /\ UNCHANGED threads
  BY DEF NextPage, ListAgain
<1>2. /\ Bucket' /\ lines' = lines /\ next' = next /\ total' \in Nat /\ final' = final /\ open' = open
      /\ lines' \in Seq(Lines) /\ open' \in [Streams -> Nat \cup {None}] /\ final' \subseteq 0..next' - 1
  BY <1>1, RestingKeepsTheRest
<1>3. /\ Pages' /\ offset' \in Nat \cup {None} /\ seen' \subseteq 0..next' - 1 /\ upto' \in Nat
  <2>1. CASE NextPage
    BY <2>1, PagesGoOn DEF LogInv
  <2>2. CASE ListAgain
    <3>1. offset' = 0 /\ seen' = {} /\ upto' = 0 /\ next \in Nat
      BY <2>2 DEF ListAgain, LogInv, Types
    <3>2. \A l \in ToSet(lines) : ~ l.number < 0
      <4>1. \A l \in ToSet(lines) : l.number \in Nat
        BY NumbersTellLinesApart DEF LogInv, Types, Bucket
      <4> QED
        BY <4>1
    <3> QED
      BY <1>2, <3>1, <3>2 DEF Pages
  <2> QED
    BY <2>1, <2>2
<1>4. Types'
  BY <1>1, <1>2, <1>3 DEF LogInv, Types, threads
<1>5. Fragments'
  BY <1>1, <1>2 DEF LogInv, Fragments, ShowsABeginning, OneFragment, Alone, threads
<1> QED
  BY <1>2, <1>3, <1>4, <1>5 DEF LogInv

\* The invariant is inductive,
LEMMA LogInvStays ==
  ASSUME LogInv, [Next]_vars
  PROVE  LogInv'
<1>1. ASSUME NEW w \in Writers, WriterStep(w) PROVE LogInv'
  BY <1>1, ReadingKeepsTheRest, CuttingKeepsTheRest, ShowingKeepsTheRest, DrainingKeepsTheRest DEF WriterStep
<1>2. CASE NextPage \/ ListAgain
  BY <1>2, ClientsKeepTheRest
<1>3. CASE UNCHANGED vars
  <2>1. UNCHANGED bucket /\ UNCHANGED threads /\ UNCHANGED client
    BY <1>3 DEF vars
  <2>2. Bucket' /\ lines' = lines /\ next' = next /\ total' = total /\ final' = final /\ open' = open
    BY <2>1, RestingKeepsTheRest DEF bucket
  <2>3. Types'
    BY <2>1, <2>2 DEF LogInv, Types, threads, client
  <2>4. Fragments'
    BY <2>1, <2>2 DEF LogInv, Fragments, ShowsABeginning, OneFragment, Alone, threads
  <2>5. Pages'
    BY <2>1, <2>2 DEF LogInv, Pages, client
  <2> QED
    BY <2>2, <2>3, <2>4, <2>5 DEF LogInv
<1> QED
  BY <1>1, <1>2, <1>3 DEF Next

\* it holds at first,
LEMMA LogInvStarts ==
  ASSUME Init
  PROVE  LogInv
<1>1. /\ lines = <<>> /\ total = 0 /\ next = 0 /\ final = {} /\ open = [s \in Streams |-> None]
      /\ streamOf \in Captures /\ pc = [w \in Writers |-> "read"] /\ buffer = [w \in Writers |-> <<>>]
      /\ visible = [w \in Writers |-> FALSE] /\ unread = [w \in Writers |-> MaxText]
      /\ offset = 0 /\ seen = {} /\ upto = 0
  BY DEF Init
<1>2. lines \in Seq(Lines) /\ Len(lines) = 0 /\ ToSet(lines) = {}
  BY <1>1 DEF ToSet
<1>3. Types
  BY <1>1, <1>2, BoundsAreNat DEF Types
<1>4. Bucket
  <2>1. Bytes(lines) = 0
    BY <1>2, SumsGrow
  <2>2. Numbered(lines, next)
    BY <1>1, <1>2 DEF Numbered
  <2>3. OpenLines
    BY <1>1 DEF OpenLines
  <2> QED
    BY <1>1, <2>1, <2>2, <2>3, BytesArePositive DEF Bucket
<1>5. Fragments
  BY <1>1, <1>2 DEF Fragments, ShowsABeginning, OneFragment
<1>6. Pages
  BY <1>1, <1>2 DEF Pages
<1> QED
  BY <1>3, <1>4, <1>5, <1>6 DEF LogInv

\* and so it holds.
LEMMA LogInvHolds == Spec => []LogInv
<1>1. Init => LogInv
  BY LogInvStarts
<1>2. LogInv /\ [Next]_vars => LogInv'
  BY LogInvStays
<1> QED
  BY <1>1, <1>2, PTL DEF Spec

------------------------------------------------------------------------------
\* The properties

\* A number finds its line.
LEMMA NumbersFindLines ==
  ASSUME NEW ls \in Seq(Lines), NEW nx \in Nat, Numbered(ls, nx), NEW l \in ToSet(ls)
  PROVE  l.number \in Numbers(ls) /\ ls[CHOOSE k \in DOMAIN ls : ls[k].number = l.number] = l
<1> DEFINE at == CHOOSE k \in DOMAIN ls : ls[k].number = l.number
<1>1. \E k \in DOMAIN ls : ls[k].number = l.number
  BY DEF ToSet
<1>2. at \in DOMAIN ls /\ ls[at].number = l.number
  BY <1>1
<1>3. ls[at] \in ToSet(ls)
  BY <1>2 DEF ToSet
<1>4. ls[at] = l
  BY <1>2, <1>3, NumbersTellLinesApart
<1>5. l.number \in Numbers(ls)
  BY NumbersTellLinesApart
<1> QED
  BY <1>4, <1>5

\* Whatever is appended, replaced and trimmed, the buffer counts its bytes within
\* its limit, numbers its lines, and its open lines are there (logs.py:95-155).
THEOREM BufferStaysSound == Spec => []BufferIsSound
<1>1. LogInv => BufferIsSound
  <2> SUFFICES ASSUME LogInv PROVE BufferIsSound
    OBVIOUS
  <2>1. /\ lines \in Seq(Lines) /\ next \in Nat /\ Numbered(lines, next)
        /\ total = Bytes(lines) /\ total <= MaxBytes
    BY DEF LogInv, Types, Bucket
  <2>2. TypeOK
    <3>1. ASSUME NEW k \in DOMAIN lines PROVE lines[k].number \in Nat /\ lines[k].stream \in Streams
      <4>1. lines[k] \in Lines
        BY <2>1
      <4> QED
        BY <4>1 DEF Lines
    <3> QED
      BY <3>1 DEF LogInv, Types, TypeOK
  <2>3. ASSUME NEW s \in Streams, open[s] # None
        PROVE  Retained(open[s]) /\ LineOf(open[s]).stream = s /\ open[s] \notin final
    <3>1. PICK l \in ToSet(lines) : l.number = open[s] /\ l.stream = s
      BY <2>3 DEF LogInv, Bucket, OpenLines
    <3>2. Retained(open[s]) /\ LineOf(open[s]) = l
      BY <2>1, <3>1, NumbersFindLines DEF Retained, LineOf
    <3>3. open[s] \notin final
      BY <2>3 DEF LogInv, Bucket, OpenLines
    <3> QED
      BY <3>1, <3>2, <3>3
  <2> QED
    BY <2>1, <2>2, <2>3 DEF BufferIsSound, BytesAddUp, OpenIsRetained
<1> QED
  BY <1>1, LogInvHolds, PTL

\* A client that follows next_offset misses no retained line, whatever is
\* appended and trimmed between its pages (logs.py:157-213).
THEOREM PagesAreComplete == Spec => []PagesSkipNothing
<1>1. LogInv => PagesSkipNothing
  <2> SUFFICES ASSUME LogInv, NEW n \in Numbers(lines), n < upto PROVE n \in seen
    BY DEF PagesSkipNothing
  <2>1. PICK l \in ToSet(lines) : l.number = n
    BY NumbersTellLinesApart DEF LogInv, Types, Bucket
  <2> QED
    BY <2>1 DEF LogInv, Pages
<1> QED
  BY <1>1, LogInvHolds, PTL

\* No beginning of a line is left behind as a line by a thread that has its
\* stream for itself (manager.py:317-359).
THEOREM FragmentsAreFinished == Spec => []NoFragmentIsLeft
<1>1. LogInv => NoFragmentIsLeft
  <2> SUFFICES ASSUME LogInv, \A w \in Writers : pc[w] = "done", NEW k \in DOMAIN lines,
                      Cardinality({w \in Writers : streamOf[w] = lines[k].stream}) = 1
               PROVE  lines[k].number \in final
    BY DEF NoFragmentIsLeft
  <2> DEFINE S == {w \in Writers : streamOf[w] = lines[k].stream}
  <2>1. IsFiniteSet(S) /\ Cardinality(S) = 1
    BY WritersAreFinite, FS_Subset
  <2>2. PICK w : S = {w}
    BY <2>1, FS_Singleton
  <2>3. w \in Writers /\ streamOf[w] = lines[k].stream /\ Alone(w)
    BY <2>2 DEF Alone
  <2>4. lines[k] \in ToSet(lines)
    BY DEF ToSet
  <2> QED
    BY <2>3, <2>4 DEF LogInv, Fragments, OneFragment
<1> QED
  BY <1>1, LogInvHolds, PTL

\* A step leaves the lines as they are, or stores some.
LEMMA StepsStore ==
  ASSUME LogInv, [Next]_vars
  PROVE  \/ lines' = lines /\ next' = next
         \/ \E s \in Streams : \E ls, new : Shows(s, ls, new) \/ Finishes(s, ls, new)
<1>1. CASE UNCHANGED bucket
  BY <1>1 DEF bucket
<1>2. ASSUME NEW w \in Writers, CutLine(w)
      PROVE  \E s \in Streams : \E ls, new : Finishes(s, ls, new)
  <2>1. \E line \in Seq(Chars) :
          IF visible[w] THEN line # <<>> /\ CloseOpenFragment(streamOf[w], line)
                        ELSE AppendText(streamOf[w], line)
    BY <1>2, CutsALine DEF LogInv, Fragments
  <2>2. \E ls, new : Ends(w, ls, new)
    BY <2>1, LinesAreFinished DEF LogInv
  <2> QED
    BY <2>2, StreamsAreStreams DEF Ends, LogInv
<1>3. ASSUME NEW w \in Writers, ShowFragment(w)
      PROVE  \/ UNCHANGED bucket
             \/ \E s \in Streams : \E ls, new : Shows(s, ls, new)
  <2>1. CASE SetOpenFragment(streamOf[w], buffer[w])
    <3>1. streamOf[w] \in Streams /\ buffer[w] \in Seq(Chars)
      BY StreamsAreStreams DEF LogInv, Types
    <3> QED
      BY <2>1, <3>1, FragmentsAreShown DEF LogInv
  <2> QED
    BY <1>3, <2>1 DEF ShowFragment
<1>4. ASSUME NEW w \in Writers, Drain(w)
      PROVE  \/ lines' = lines /\ next' = next
             \/ \E s \in Streams : \E ls, new : Finishes(s, ls, new)
  <2>1. CASE buffer[w] = <<>>
    BY <1>4, <2>1 DEF Drain, ClearOpenFragment
  <2>2. CASE buffer[w] # <<>>
    <3>1. /\ buffer[w] \in Seq(Chars)
          /\ IF visible[w] THEN buffer[w] # <<>> /\ CloseOpenFragment(streamOf[w], buffer[w])
                           ELSE AppendText(streamOf[w], buffer[w])
      BY <1>4, <2>2 DEF Drain, LogInv, Types
    <3>2. \E ls, new : Ends(w, ls, new)
      BY <3>1, LinesAreFinished DEF LogInv
    <3> QED
      BY <3>2, StreamsAreStreams DEF Ends, LogInv
  <2> QED
    BY <2>1, <2>2
<1>5. ASSUME NEW w \in Writers, WriterStep(w)
      PROVE  \/ UNCHANGED bucket \/ CutLine(w) \/ ShowFragment(w) \/ Drain(w)
  BY <1>5 DEF WriterStep, ReadChunk, EndOfFile
<1>6. CASE \E w \in Writers : WriterStep(w)
  BY <1>1, <1>2, <1>3, <1>4, <1>5, <1>6
<1>7. CASE NextPage \/ ListAgain \/ UNCHANGED vars
  <2>1. UNCHANGED bucket
    BY <1>7 DEF NextPage, ListAgain, vars
  <2> QED
    BY <1>1, <2>1
<1> QED
  BY <1>6, <1>7 DEF Next

\* A line that is written is not one that was whole.
LEMMA WholeLinesAreNotWritten ==
  ASSUME LogInv, NEW s \in Streams, NEW ls, NEW new, Shows(s, ls, new) \/ Finishes(s, ls, new), NEW n \in final
  PROVE  Stores(s, ls, new) /\ \A m \in new : m.number # n
<1>1. Stores(s, ls, new) /\ (final' = final \/ final' = final \cup {m.number : m \in new})
  BY DEF Shows, Finishes
<1> QED
  BY <1>1, WholeNumbers DEF LogInv

\* Nobody overwrites a line that was whole, and it only goes when there is no
\* room for it, although threads of two processes share streams (logs.py:95-155).
THEOREM WholeLinesStayWhole == Spec => WholeLinesAreKept
<1> DEFINE Keeps == \A n \in final : Retained(n) /\ Retained(n)' => LineOf(n)' = LineOf(n)
           FallsLast == \A n \in final :
             Retained(n) /\ n + 1 = next' - Len(lines') => Bytes(lines') + Size(LineOf(n).text) > MaxBytes
<1>0. ASSUME LogInv, NEW n \in final, Retained(n)
      PROVE  \E l \in ToSet(lines) : l.number = n /\ LineOf(n) = l
  <2>1. PICK l \in ToSet(lines) : l.number = n
    BY <1>0, NumbersTellLinesApart DEF LogInv, Types, Bucket, Retained
  <2>2. lines \in Seq(Lines) /\ next \in Nat /\ Numbered(lines, next)
    BY <1>0 DEF LogInv, Types, Bucket
  <2>3. lines[CHOOSE k \in DOMAIN lines : lines[k].number = l.number] = l
    BY <2>2, NumbersFindLines
  <2>4. LineOf(n) = l
    BY <2>1, <2>3 DEF LineOf
  <2> QED
    BY <2>1, <2>4
<1>1. LogInv /\ [Next]_vars => Keeps
  <2> SUFFICES ASSUME LogInv, [Next]_vars, NEW n \in final, Retained(n), Retained(n)'
               PROVE  LineOf(n)' = LineOf(n)
    OBVIOUS
  <2>1. PICK l \in ToSet(lines) : l.number = n /\ LineOf(n) = l
    BY <1>0
  <2>2. CASE lines' = lines
    BY <2>2 DEF LineOf
  <2>3. ASSUME NEW s \in Streams, NEW ls, NEW new, Shows(s, ls, new) \/ Finishes(s, ls, new)
        PROVE  LineOf(n)' = LineOf(n)
    <3>1. Stores(s, ls, new) /\ \A m \in new : m.number # n
      BY <2>3, WholeLinesAreNotWritten
    <3>2. lines' \in Seq(Lines) /\ next' \in Nat /\ Numbered(lines', next')
      BY <3>1, StoredLines DEF LogInv, Stores
    <3>3. n \in Numbers(lines')
      BY DEF Retained
    <3>4. PICK m \in ToSet(lines') : m.number = n
      BY <3>2, <3>3, NumbersTellLinesApart
    <3>5. m \in ToSet(lines)
      BY <3>1, <3>4, StoredLines DEF LogInv
    <3>6. m = l
      BY <2>1, <3>4, <3>5, NumbersTellLinesApart DEF LogInv, Types, Bucket
    <3>7. lines'[CHOOSE k \in DOMAIN lines' : lines'[k].number = n] = m
      BY <3>2, <3>4, NumbersFindLines
    <3> QED
      BY <2>1, <3>6, <3>7 DEF LineOf
  <2> QED
    BY <2>2, <2>3, StepsStore
<1>2. LogInv /\ [Next]_vars => FallsLast
  <2> SUFFICES ASSUME LogInv, [Next]_vars, NEW n \in final, Retained(n), n + 1 = next' - Len(lines')
               PROVE  Bytes(lines') + Size(LineOf(n).text) > MaxBytes
    OBVIOUS
  <2>1. PICK l \in ToSet(lines) : l.number = n /\ LineOf(n) = l
    BY <1>0
  <2>2. ASSUME lines' = lines, next' = next PROVE FALSE
    <3>1. next - Len(lines) <= n /\ n \in Nat /\ next \in Nat /\ Len(lines) \in Nat
      BY <2>1, NumbersTellLinesApart DEF LogInv, Types, Bucket
    <3>2. n + 1 = next - Len(lines)
      BY <2>2
    <3> QED
      BY <3>1, <3>2
  <2>3. ASSUME NEW s \in Streams, NEW ls, NEW new, Shows(s, ls, new) \/ Finishes(s, ls, new)
        PROVE  Bytes(lines') + Size(l.text) > MaxBytes
    <3>1. Stores(s, ls, new) /\ \A m \in new : m.number # n
      BY <2>3, WholeLinesAreNotWritten
    <3>2. l \in ToSet(ls)
      BY <2>1, <3>1 DEF Stores
    <3> QED
      BY <2>1, <3>1, <3>2, StoredLines DEF LogInv
  <2> QED
    BY <2>1, <2>2, <2>3, StepsStore
<1>3. LogInv /\ [Next]_vars => (Keeps /\ FallsLast)
  BY <1>1, <1>2
<1>4. Spec => [][Keeps]_vars /\ [][FallsLast]_vars
  <2> HIDE DEF Keeps, FallsLast
  <2> QED
    BY <1>3, LogInvHolds, PTL DEF Spec
<1> QED
  BY <1>4 DEF WholeLinesAreKept, WholeLinesStay, WholeLinesFallOffLast

===============================================================================
