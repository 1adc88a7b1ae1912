--------------------------- MODULE FileServiceProofs ---------------------------
(***************************************************************************)
(* What patches, moves, deletions and writes leave, for any number of      *)
(* clients, any paths, any texts and any edit scripts.  The argument has   *)
(* three parts.  The parser reads what diff writes: of every patch that it *)
(* makes of whole lines, the file patches that the patch was rendered from *)
(* come out, or it is refused when a removed line reads like a header      *)
(* (PatchIsParsed).  The hunks of a script, whatever they show around its  *)
(* changes as long as each shows an old line or is at the head, turn its   *)
(* old lines into its new ones (HunksApply, FitsApplies).  And a call that *)
(* nobody disturbs is, at each of its steps, where it was bound to be:     *)
(* FileInv says for every step what is on the disk by then.                *)
(*                                                                         *)
(* The folds of the model are over sequences of any length; the lemmas     *)
(* about them are by induction on prefixes, with UpTo in place of an       *)
(* induction theorem.  No and Yes, and OldOps and NewOps, keep truth       *)
(* values and one-character strings out of the provers' way.               *)
(***************************************************************************)
EXTENDS FileService, StateDocs, FiniteSetTheorems, SequenceTheorems, TLAPS

------------------------------------------------------------------------------
\* Numbers

Smaller == {ss \in Nat \X Nat : ss[1] < ss[2]}
Least(S) == CHOOSE m \in S : \A n \in S : m <= n

\* A set of numbers has a least one.
LEMMA LeastNumber ==
  ASSUME NEW S, S \subseteq Nat, S # {}
  PROVE  Least(S) \in S /\ \A y \in S : Least(S) <= y
<1>1. IsWellFoundedOn(Smaller, Nat)
  BY NatLessThanWellFounded DEF OpToRel, Smaller
<1>2. PICK x \in S : \A y \in S : ~ (<<y, x>> \in Smaller)
  BY <1>1, WFMin
<1>3. ASSUME NEW y \in S PROVE x <= y
  <2>1. x \in Nat /\ y \in Nat /\ <<y, x>> \notin Smaller
    BY <1>2
  <2>2. y < x => <<y, x>> \in Smaller
    BY <2>1 DEF Smaller
  <2> QED
    BY <2>1, <2>2
<1> QED
  BY <1>3 DEF Least

\* What is true of zero, and of a number when it is true of the one before, is
\* true of all numbers up to n.  The set holds those of which it is true.
LEMMA UpTo ==
  ASSUME NEW n \in Nat, NEW T, 0 \in T, \A k \in 1..n : k - 1 \in T => k \in T
  PROVE  \A k \in 0..n : k \in T
<1> DEFINE S == (0..n) \ T
<1> SUFFICES ASSUME S # {} PROVE FALSE
  OBVIOUS
<1> DEFINE m == Least(S)
<1>1. m \in S /\ \A y \in S : m <= y
  BY LeastNumber
<1> HIDE DEF m
<1>2. m \in 0..n /\ m \notin T /\ \A y \in (0..n) \ T : m <= y
  BY <1>1
<1>3. m # 0 /\ m - 1 \in 0..n /\ m \in 1..n /\ ~ (m <= m - 1)
  BY <1>2
<1>4. m - 1 \in T
  BY <1>2, <1>3
<1> QED
  BY <1>2, <1>3, <1>4

\* Sequences of the same elements are the same.
LEMMA SameSequence ==
  ASSUME NEW S, NEW p \in Seq(S), NEW q \in Seq(S), Len(p) = Len(q), \A j \in 1..Len(p) : p[j] = q[j]
  PROVE  p = q
OBVIOUS

\* A set of numbers below another number has a greatest one.
LEMMA MaxIsThere ==
  ASSUME NEW S, S \subseteq Nat, S # {}, NEW n \in Nat, \A j \in S : j <= n
  PROVE  Max(S) \in S /\ \A j \in S : Max(S) >= j
<1> DEFINE U == {u \in Nat : \A j \in S : j <= u}
           m == Least(U)
<1>1. m \in U /\ \A u \in U : m <= u
  BY LeastNumber
<1> HIDE DEF m
<1>2. m \in Nat /\ \A j \in S : j <= m
  BY <1>1
<1>3. m \in S
  <2> SUFFICES ASSUME m \notin S PROVE FALSE
    OBVIOUS
  <2>1. PICK j \in S : TRUE
    OBVIOUS
  <2>2. j \in Nat /\ j <= m /\ j # m
    BY <1>2
  <2>3. m - 1 \in Nat /\ ~ (m <= m - 1)
    BY <1>2, <2>2
  <2>4. \A k \in S : k \in Nat /\ k <= m /\ k # m
    BY <1>2
  <2>5. \A k \in S : k <= m - 1
    BY <2>4, <1>2
  <2>6. m - 1 \in U
    BY <2>3, <2>5
  <2> QED
    BY <2>3, <2>6, <1>1
<1>4. \E k \in S : \A j \in S : k >= j
  BY <1>2, <1>3
<1> QED
  BY <1>4 DEF Max

------------------------------------------------------------------------------
\* Folds

\* What is folded over the lines of a diff and of a hunk, over hunks and file
\* patches, and over scripts; and over the lines, the sections and the updates of a
\* document (for the proofs about StateDocs, in WorkspaceProofs).
Step(fold, par, st, e) ==
  IF fold = "files" THEN With(st, e)
  ELSE IF fold = "diff" THEN ParsesLine(st, e)
  ELSE IF fold = "hunks" THEN AppliesHunk(par, st, e)
  ELSE IF fold = "lines" THEN AppliesLine(par, st, e)
  ELSE IF fold = "side" THEN AddsSide(par, st, e)
  ELSE IF fold = "doc" THEN ReadsLine(st, e)
  ELSE IF fold = "parts" THEN AddsPart(st, e)
  ELSE IF fold = "updates" THEN Takes(par, st, e)
  ELSE AddsShown(par, st, e)

\* I is what a fold over s makes of every part of it.
Folded(fold, par, b, s, I) ==
  /\ I = [t \in SUBSET (DOMAIN s) |-> I[t]] /\ I[{}] = b
  /\ \A t \in SUBSET (DOMAIN s) : t # {} => I[t] = Step(fold, par, I[t \ {Max(t)}], s[Max(t)])

\* There is such an I.
LEMMA FoldIsThere ==
  ASSUME NEW fold, NEW par, NEW b, NEW S, NEW s \in Seq(S)
  PROVE  \E I : Folded(fold, par, b, s, I)
<1> DEFINE Is(m, I) == /\ I = [t \in SUBSET (1..m) |-> I[t]] /\ I[{}] = b
                       /\ \A t \in SUBSET (1..m) :
                            t # {} => I[t] = Step(fold, par, I[t \ {Max(t)}], s[Max(t)])
           T == {m \in 0..Len(s) : \E I : Is(m, I)}
<1>1. 0 \in T
  <2> DEFINE I == [t \in SUBSET (1..0) |-> b]
  <2>1. 1..0 = {} /\ 0 \in 0..Len(s)
    OBVIOUS
  <2>2. I[{}] = b /\ I = [t \in SUBSET (1..0) |-> I[t]] /\ \A t \in SUBSET (1..0) : t = {}
    BY <2>1
  <2> HIDE DEF I
  <2>3. Is(0, I)
    BY <2>2
  <2> QED
    BY <2>1, <2>3
<1>2. ASSUME NEW m \in 1..Len(s), m - 1 \in T PROVE m \in T
  <2>0. m - 1 \in Nat /\ m \in Nat /\ m \in 0..Len(s)
    OBVIOUS
  <2>1. PICK I : Is(m - 1, I)
    BY <1>2
  <2> DEFINE J == [t \in SUBSET (1..m) |->
                     IF m \in t THEN Step(fold, par, I[t \ {m}], s[m]) ELSE I[t]]
  <2>2. ASSUME NEW t \in SUBSET (1..m), m \in t
        PROVE  J[t] = Step(fold, par, J[t \ {Max(t)}], s[Max(t)])
    <3>1. t \subseteq Nat /\ t # {} /\ \A j \in t : j <= m
      BY <2>0, <2>2
    <3>2. Max(t) \in t /\ \A j \in t : Max(t) >= j
      BY <3>1, <2>0, MaxIsThere
    <3>3. Max(t) \in Nat /\ Max(t) <= m /\ Max(t) >= m
      BY <3>1, <3>2, <2>2
    <3>4. Max(t) = m
      BY <3>3, <2>0
    <3>5. t \ {m} \in SUBSET (1..m) /\ m \notin t \ {m}
      BY <2>2
    <3>6. J[t \ {m}] = I[t \ {m}] /\ J[t] = Step(fold, par, I[t \ {m}], s[m])
      BY <3>5, <2>2
    <3> QED
      BY <3>4, <3>6
  <2>3. ASSUME NEW t \in SUBSET (1..m), m \notin t, t # {}
        PROVE  J[t] = Step(fold, par, J[t \ {Max(t)}], s[Max(t)])
    <3>1. t \subseteq Nat /\ \A j \in t : j <= m
      BY <2>0, <2>3
    <3>2. Max(t) \in t
      BY <3>1, <2>0, <2>3, MaxIsThere
    <3>3. ASSUME NEW j \in t PROVE j \in 1..m - 1
      <4>1. j \in 1..m /\ j # m
        BY <2>3
      <4> QED
        BY <4>1, <2>0
    <3>4. t \in SUBSET (1..m - 1)
      BY <3>3
    <3>5. I[t] = Step(fold, par, I[t \ {Max(t)}], s[Max(t)])
      BY <2>1, <2>3, <3>4
    <3>6. J[t] = I[t] /\ J[t \ {Max(t)}] = I[t \ {Max(t)}]
      BY <2>3
    <3> QED
      BY <3>5, <3>6
  <2>4. J[{}] = b /\ J = [t \in SUBSET (1..m) |-> J[t]]
    BY <2>1
  <2> HIDE DEF J
  <2>5. Is(m, J)
    BY <2>2, <2>3, <2>4
  <2> QED
    BY <2>5, <2>0
<1>3. Len(s) \in Nat /\ DOMAIN s = 1..Len(s) /\ Len(s) \in 0..Len(s)
  OBVIOUS
<1> HIDE DEF T
<1>4. Len(s) \in T
  BY <1>1, <1>2, <1>3, UpTo
<1>5. \E I : Is(Len(s), I)
  BY <1>4 DEF T
<1> QED
  BY <1>5, <1>3 DEF Folded

\* The greatest of the first k numbers.
LEMMA UpToMax ==
  ASSUME NEW k \in Nat, k > 0
  PROVE  Max(1..k) = k /\ (1..k) \ {Max(1..k)} = 1..k - 1
<1>1. 1..k \subseteq Nat /\ 1..k # {} /\ \A j \in 1..k : j <= k
  OBVIOUS
<1>2. Max(1..k) \in 1..k /\ \A j \in 1..k : Max(1..k) >= j
  BY <1>1, MaxIsThere
<1>3. Max(1..k) \in Nat /\ Max(1..k) <= k /\ Max(1..k) >= k
  BY <1>2
<1>4. Max(1..k) = k
  BY <1>3
<1>5. (1..k) \ {k} = 1..k - 1
  OBVIOUS
<1> QED
  BY <1>4, <1>5

\* The first k elements are folded, and then the next.
LEMMA FoldAt ==
  ASSUME NEW fold, NEW par, NEW b, NEW S, NEW s \in Seq(S), NEW I, Folded(fold, par, b, s, I),
         NEW k \in 1..Len(s)
  PROVE  I[1..k] = Step(fold, par, I[1..k - 1], s[k])
<1>1. Max(1..k) = k /\ (1..k) \ {Max(1..k)} = 1..k - 1
  BY UpToMax
<1>2. 1..k \in SUBSET (DOMAIN s) /\ 1..k # {}
  OBVIOUS
<1>3. I[1..k] = Step(fold, par, I[(1..k) \ {Max(1..k)}], s[Max(1..k)])
  BY <1>2 DEF Folded
<1> QED
  BY <1>1, <1>3

\* What is folded over one more element.
LEMMA FoldMore ==
  ASSUME NEW fold, NEW par, NEW b, NEW S, NEW s \in Seq(S), NEW e \in S, NEW I, NEW J,
         Folded(fold, par, b, s, I), Folded(fold, par, b, Append(s, e), J)
  PROVE  J[DOMAIN Append(s, e)] = Step(fold, par, I[DOMAIN s], e)
<1> DEFINE r == Append(s, e)
           n == Len(s)
           T == {k \in 0..n : I[1..k] = J[1..k]}
<1>1. r \in Seq(S) /\ n \in Nat /\ Len(r) = n + 1 /\ r[n + 1] = e /\ \A k \in 1..n : r[k] = s[k]
  OBVIOUS
<1>2. DOMAIN s = 1..n /\ DOMAIN r = 1..n + 1 /\ 1..0 = {}
  OBVIOUS
<1>3. Folded(fold, par, b, r, J)
  OBVIOUS
<1> HIDE DEF r
<1>4. \A k \in 1..Len(s) : I[1..k] = Step(fold, par, I[1..k - 1], s[k])
  BY FoldAt
<1>5. \A k \in 1..Len(r) : J[1..k] = Step(fold, par, J[1..k - 1], r[k])
  BY <1>1, <1>3, FoldAt
<1>6. 0 \in T
  BY <1>1, <1>2, <1>3 DEF Folded
<1>7. ASSUME NEW k \in 1..n, k - 1 \in T PROVE k \in T
  <2>1. k \in 1..Len(r) /\ k \in 0..n /\ k \in 1..Len(s)
    BY <1>1
  <2>2. I[1..k - 1] = J[1..k - 1]
    BY <1>7
  <2>3. I[1..k] = J[1..k]
    BY <2>1, <2>2, <1>4, <1>5, <1>1
  <2> QED
    BY <2>1, <2>3
<1>8. n \in T
  <2> HIDE DEF T
  <2>1. \A k \in 0..n : k \in T
    BY <1>1, <1>6, <1>7, UpTo
  <2> QED
    BY <2>1, <1>1
<1>9. n + 1 \in 1..Len(r) /\ (n + 1) - 1 = n
  BY <1>1
<1>10. J[1..n + 1] = Step(fold, par, J[1..n], e)
  BY <1>5, <1>9, <1>1
<1>11. J[1..n] = I[1..n]
  BY <1>8
<1>12. J[DOMAIN r] = Step(fold, par, I[DOMAIN s], e)
  BY <1>10, <1>11, <1>2
<1> QED
  BY <1>12 DEF r

WithIter(b, s) ==
  CHOOSE I : I = [t \in SUBSET (DOMAIN s) |-> IF t = {} THEN b ELSE With(I[t \ {Max(t)}], s[Max(t)])]

\* With folded over a sequence, ...
LEMMA WithFolds ==
  ASSUME NEW b, NEW S, NEW s \in Seq(S)
  PROVE  \E I : Folded("files", 0, b, s, I) /\ FoldLeft(With, b, s) = I[DOMAIN s]
<1>1. PICK I : Folded("files", 0, b, s, I)
  BY FoldIsThere
<1>2. I = [t \in SUBSET (DOMAIN s) |-> IF t = {} THEN b ELSE With(I[t \ {Max(t)}], s[Max(t)])]
  BY <1>1 DEF Folded, Step
<1> DEFINE J == WithIter(b, s)
<1>3. J = [t \in SUBSET (DOMAIN s) |-> IF t = {} THEN b ELSE With(J[t \ {Max(t)}], s[Max(t)])]
  BY <1>2 DEF WithIter
<1>4. FoldLeft(With, b, s) = J[DOMAIN s]
  BY DEF FoldLeft, MapThenFoldSet, WithIter
<1> HIDE DEF J
<1>5. Folded("files", 0, b, s, J)
  BY <1>3 DEF Folded, Step
<1> QED
  BY <1>4, <1>5

\* ... over nothing, ...
LEMMA WithNothing ==
  ASSUME NEW b
  PROVE  FoldLeft(With, b, <<>>) = b
<1>1. <<>> \in Seq({}) /\ DOMAIN <<>> = {}
  OBVIOUS
<1>2. PICK I : Folded("files", 0, b, <<>>, I) /\ FoldLeft(With, b, <<>>) = I[DOMAIN <<>>]
  BY <1>1, WithFolds
<1> QED
  BY <1>1, <1>2 DEF Folded

\* ... and over one more element.
LEMMA WithMore ==
  ASSUME NEW b, NEW S, NEW s \in Seq(S), NEW e \in S
  PROVE  FoldLeft(With, b, Append(s, e)) = With(FoldLeft(With, b, s), e)
<1>1. PICK I : Folded("files", 0, b, s, I) /\ FoldLeft(With, b, s) = I[DOMAIN s]
  BY WithFolds
<1>2. Append(s, e) \in Seq(S)
  OBVIOUS
<1>3. PICK J : Folded("files", 0, b, Append(s, e), J) /\ FoldLeft(With, b, Append(s, e)) = J[DOMAIN Append(s, e)]
  BY <1>2, WithFolds
<1>4. J[DOMAIN Append(s, e)] = Step("files", 0, I[DOMAIN s], e)
  BY <1>1, <1>3, FoldMore
<1> QED
  BY <1>1, <1>3, <1>4 DEF Step

ParsesLineIter(b, s) ==
  CHOOSE I : I = [t \in SUBSET (DOMAIN s) |-> IF t = {} THEN b ELSE ParsesLine(I[t \ {Max(t)}], s[Max(t)])]

\* ParsesLine folded over a sequence, ...
LEMMA ParsesLineFolds ==
  ASSUME NEW b, NEW S, NEW s \in Seq(S)
  PROVE  \E I : Folded("diff", 0, b, s, I) /\ FoldLeft(ParsesLine, b, s) = I[DOMAIN s]
<1>1. PICK I : Folded("diff", 0, b, s, I)
  BY FoldIsThere
<1>2. I = [t \in SUBSET (DOMAIN s) |-> IF t = {} THEN b ELSE ParsesLine(I[t \ {Max(t)}], s[Max(t)])]
  BY <1>1 DEF Folded, Step
<1> DEFINE J == ParsesLineIter(b, s)
<1>3. J = [t \in SUBSET (DOMAIN s) |-> IF t = {} THEN b ELSE ParsesLine(J[t \ {Max(t)}], s[Max(t)])]
  BY <1>2 DEF ParsesLineIter
<1>4. FoldLeft(ParsesLine, b, s) = J[DOMAIN s]
  BY DEF FoldLeft, MapThenFoldSet, ParsesLineIter
<1> HIDE DEF J
<1>5. Folded("diff", 0, b, s, J)
  BY <1>3 DEF Folded, Step
<1> QED
  BY <1>4, <1>5

\* ... over nothing, ...
LEMMA ParsesLineNothing ==
  ASSUME NEW b
  PROVE  FoldLeft(ParsesLine, b, <<>>) = b
<1>1. <<>> \in Seq({}) /\ DOMAIN <<>> = {}
  OBVIOUS
<1>2. PICK I : Folded("diff", 0, b, <<>>, I) /\ FoldLeft(ParsesLine, b, <<>>) = I[DOMAIN <<>>]
  BY <1>1, ParsesLineFolds
<1> QED
  BY <1>1, <1>2 DEF Folded

\* ... and over one more element.
LEMMA ParsesLineMore ==
  ASSUME NEW b, NEW S, NEW s \in Seq(S), NEW e \in S
  PROVE  FoldLeft(ParsesLine, b, Append(s, e)) = ParsesLine(FoldLeft(ParsesLine, b, s), e)
<1>1. PICK I : Folded("diff", 0, b, s, I) /\ FoldLeft(ParsesLine, b, s) = I[DOMAIN s]
  BY ParsesLineFolds
<1>2. Append(s, e) \in Seq(S)
  OBVIOUS
<1>3. PICK J : Folded("diff", 0, b, Append(s, e), J) /\ FoldLeft(ParsesLine, b, Append(s, e)) = J[DOMAIN Append(s, e)]
  BY <1>2, ParsesLineFolds
<1>4. J[DOMAIN Append(s, e)] = Step("diff", 0, I[DOMAIN s], e)
  BY <1>1, <1>3, FoldMore
<1> QED
  BY <1>1, <1>3, <1>4 DEF Step

AppliesHunkIter(lines, b, s) ==
  CHOOSE I : I = [t \in SUBSET (DOMAIN s) |-> IF t = {} THEN b ELSE AppliesHunk(lines, I[t \ {Max(t)}], s[Max(t)])]

\* AppliesHunk folded over a sequence, ...
LEMMA AppliesHunkFolds ==
  ASSUME NEW lines, NEW b, NEW S, NEW s \in Seq(S)
  PROVE  \E I : Folded("hunks", lines, b, s, I) /\ AppliesHunks(lines, b, s) = I[DOMAIN s]
<1>1. PICK I : Folded("hunks", lines, b, s, I)
  BY FoldIsThere
<1>2. I = [t \in SUBSET (DOMAIN s) |-> IF t = {} THEN b ELSE AppliesHunk(lines, I[t \ {Max(t)}], s[Max(t)])]
  BY <1>1 DEF Folded, Step
<1> DEFINE J == AppliesHunkIter(lines, b, s)
<1>3. J = [t \in SUBSET (DOMAIN s) |-> IF t = {} THEN b ELSE AppliesHunk(lines, J[t \ {Max(t)}], s[Max(t)])]
  BY <1>2 DEF AppliesHunkIter
<1>4. AppliesHunks(lines, b, s) = J[DOMAIN s]
  BY DEF AppliesHunks, FoldLeft, MapThenFoldSet, AppliesHunkIter
<1> HIDE DEF J
<1>5. Folded("hunks", lines, b, s, J)
  BY <1>3 DEF Folded, Step
<1> QED
  BY <1>4, <1>5

\* ... over nothing, ...
LEMMA AppliesHunkNothing ==
  ASSUME NEW lines, NEW b
  PROVE  AppliesHunks(lines, b, <<>>) = b
<1>1. <<>> \in Seq({}) /\ DOMAIN <<>> = {}
  OBVIOUS
<1>2. PICK I : Folded("hunks", lines, b, <<>>, I) /\ AppliesHunks(lines, b, <<>>) = I[DOMAIN <<>>]
  BY <1>1, AppliesHunkFolds
<1> QED
  BY <1>1, <1>2 DEF Folded

\* ... and over one more element.
LEMMA AppliesHunkMore ==
  ASSUME NEW lines, NEW b, NEW S, NEW s \in Seq(S), NEW e \in S
  PROVE  AppliesHunks(lines, b, Append(s, e)) = AppliesHunk(lines, AppliesHunks(lines, b, s), e)
<1>1. PICK I : Folded("hunks", lines, b, s, I) /\ AppliesHunks(lines, b, s) = I[DOMAIN s]
  BY AppliesHunkFolds
<1>2. Append(s, e) \in Seq(S)
  OBVIOUS
<1>3. PICK J : Folded("hunks", lines, b, Append(s, e), J) /\ AppliesHunks(lines, b, Append(s, e)) = J[DOMAIN Append(s, e)]
  BY <1>2, AppliesHunkFolds
<1>4. J[DOMAIN Append(s, e)] = Step("hunks", lines, I[DOMAIN s], e)
  BY <1>1, <1>3, FoldMore
<1> QED
  BY <1>1, <1>3, <1>4 DEF Step

AppliesLineIter(lines, b, s) ==
  CHOOSE I : I = [t \in SUBSET (DOMAIN s) |-> IF t = {} THEN b ELSE AppliesLine(lines, I[t \ {Max(t)}], s[Max(t)])]

\* AppliesLine folded over a sequence, ...
LEMMA AppliesLineFolds ==
  ASSUME NEW lines, NEW b, NEW S, NEW s \in Seq(S)
  PROVE  \E I : Folded("lines", lines, b, s, I) /\ AppliesLines(lines, b, s) = I[DOMAIN s]
<1>1. PICK I : Folded("lines", lines, b, s, I)
  BY FoldIsThere
<1>2. I = [t \in SUBSET (DOMAIN s) |-> IF t = {} THEN b ELSE AppliesLine(lines, I[t \ {Max(t)}], s[Max(t)])]
  BY <1>1 DEF Folded, Step
<1> DEFINE J == AppliesLineIter(lines, b, s)
<1>3. J = [t \in SUBSET (DOMAIN s) |-> IF t = {} THEN b ELSE AppliesLine(lines, J[t \ {Max(t)}], s[Max(t)])]
  BY <1>2 DEF AppliesLineIter
<1>4. AppliesLines(lines, b, s) = J[DOMAIN s]
  BY DEF AppliesLines, FoldLeft, MapThenFoldSet, AppliesLineIter
<1> HIDE DEF J
<1>5. Folded("lines", lines, b, s, J)
  BY <1>3 DEF Folded, Step
<1> QED
  BY <1>4, <1>5

\* ... over nothing, ...
LEMMA AppliesLineNothing ==
  ASSUME NEW lines, NEW b
  PROVE  AppliesLines(lines, b, <<>>) = b
<1>1. <<>> \in Seq({}) /\ DOMAIN <<>> = {}
  OBVIOUS
<1>2. PICK I : Folded("lines", lines, b, <<>>, I) /\ AppliesLines(lines, b, <<>>) = I[DOMAIN <<>>]
  BY <1>1, AppliesLineFolds
<1> QED
  BY <1>1, <1>2 DEF Folded

\* ... and over one more element.
LEMMA AppliesLineMore ==
  ASSUME NEW lines, NEW b, NEW S, NEW s \in Seq(S), NEW e \in S
  PROVE  AppliesLines(lines, b, Append(s, e)) = AppliesLine(lines, AppliesLines(lines, b, s), e)
<1>1. PICK I : Folded("lines", lines, b, s, I) /\ AppliesLines(lines, b, s) = I[DOMAIN s]
  BY AppliesLineFolds
<1>2. Append(s, e) \in Seq(S)
  OBVIOUS
<1>3. PICK J : Folded("lines", lines, b, Append(s, e), J) /\ AppliesLines(lines, b, Append(s, e)) = J[DOMAIN Append(s, e)]
  BY <1>2, AppliesLineFolds
<1>4. J[DOMAIN Append(s, e)] = Step("lines", lines, I[DOMAIN s], e)
  BY <1>1, <1>3, FoldMore
<1> QED
  BY <1>1, <1>3, <1>4 DEF Step

AddsSideIter(ops, s) ==
  CHOOSE I : I = [t \in SUBSET (DOMAIN s) |-> IF t = {} THEN <<>> ELSE AddsSide(ops, I[t \ {Max(t)}], s[Max(t)])]

\* AddsSide folded over a sequence, ...
LEMMA AddsSideFolds ==
  ASSUME NEW ops, NEW S, NEW s \in Seq(S)
  PROVE  \E I : Folded("side", ops, <<>>, s, I) /\ Side(s, ops) = I[DOMAIN s]
<1>1. PICK I : Folded("side", ops, <<>>, s, I)
  BY FoldIsThere
<1>2. I = [t \in SUBSET (DOMAIN s) |-> IF t = {} THEN <<>> ELSE AddsSide(ops, I[t \ {Max(t)}], s[Max(t)])]
  BY <1>1 DEF Folded, Step
<1> DEFINE J == AddsSideIter(ops, s)
<1>3. J = [t \in SUBSET (DOMAIN s) |-> IF t = {} THEN <<>> ELSE AddsSide(ops, J[t \ {Max(t)}], s[Max(t)])]
  BY <1>2 DEF AddsSideIter
<1>4. Side(s, ops) = J[DOMAIN s]
  BY DEF Side, FoldLeft, MapThenFoldSet, AddsSideIter
<1> HIDE DEF J
<1>5. Folded("side", ops, <<>>, s, J)
  BY <1>3 DEF Folded, Step
<1> QED
  BY <1>4, <1>5

\* ... over nothing, ...
LEMMA AddsSideNothing ==
  ASSUME NEW ops
  PROVE  Side(<<>>, ops) = <<>>
<1>1. <<>> \in Seq({}) /\ DOMAIN <<>> = {}
  OBVIOUS
<1>2. PICK I : Folded("side", ops, <<>>, <<>>, I) /\ Side(<<>>, ops) = I[DOMAIN <<>>]
  BY <1>1, AddsSideFolds
<1> QED
  BY <1>1, <1>2 DEF Folded

\* ... and over one more element.
LEMMA AddsSideMore ==
  ASSUME NEW ops, NEW S, NEW s \in Seq(S), NEW e \in S
  PROVE  Side(Append(s, e), ops) = AddsSide(ops, Side(s, ops), e)
<1>1. PICK I : Folded("side", ops, <<>>, s, I) /\ Side(s, ops) = I[DOMAIN s]
  BY AddsSideFolds
<1>2. Append(s, e) \in Seq(S)
  OBVIOUS
<1>3. PICK J : Folded("side", ops, <<>>, Append(s, e), J) /\ Side(Append(s, e), ops) = J[DOMAIN Append(s, e)]
  BY <1>2, AddsSideFolds
<1>4. J[DOMAIN Append(s, e)] = Step("side", ops, I[DOMAIN s], e)
  BY <1>1, <1>3, FoldMore
<1> QED
  BY <1>1, <1>3, <1>4 DEF Step

RunsOf(s, shown) == FoldLeft(LAMBDA runs, i : AddsShown(shown, runs, i), <<>>, s)

AddsShownIter(shown, s) ==
  CHOOSE I : I = [t \in SUBSET (DOMAIN s) |-> IF t = {} THEN <<>> ELSE AddsShown(shown, I[t \ {Max(t)}], s[Max(t)])]

\* AddsShown folded over a sequence, ...
LEMMA AddsShownFolds ==
  ASSUME NEW shown, NEW S, NEW s \in Seq(S)
  PROVE  \E I : Folded("runs", shown, <<>>, s, I) /\ RunsOf(s, shown) = I[DOMAIN s]
<1>1. PICK I : Folded("runs", shown, <<>>, s, I)
  BY FoldIsThere
<1>2. I = [t \in SUBSET (DOMAIN s) |-> IF t = {} THEN <<>> ELSE AddsShown(shown, I[t \ {Max(t)}], s[Max(t)])]
  BY <1>1 DEF Folded, Step
<1> DEFINE J == AddsShownIter(shown, s)
<1>3. J = [t \in SUBSET (DOMAIN s) |-> IF t = {} THEN <<>> ELSE AddsShown(shown, J[t \ {Max(t)}], s[Max(t)])]
  BY <1>2 DEF AddsShownIter
<1>4. RunsOf(s, shown) = J[DOMAIN s]
  BY DEF RunsOf, FoldLeft, MapThenFoldSet, AddsShownIter
<1> HIDE DEF J
<1>5. Folded("runs", shown, <<>>, s, J)
  BY <1>3 DEF Folded, Step
<1> QED
  BY <1>4, <1>5

\* ... over nothing, ...
LEMMA AddsShownNothing ==
  ASSUME NEW shown
  PROVE  RunsOf(<<>>, shown) = <<>>
<1>1. <<>> \in Seq({}) /\ DOMAIN <<>> = {}
  OBVIOUS
<1>2. PICK I : Folded("runs", shown, <<>>, <<>>, I) /\ RunsOf(<<>>, shown) = I[DOMAIN <<>>]
  BY <1>1, AddsShownFolds
<1> QED
  BY <1>1, <1>2 DEF Folded

\* ... and over one more element.
LEMMA AddsShownMore ==
  ASSUME NEW shown, NEW S, NEW s \in Seq(S), NEW e \in S
  PROVE  RunsOf(Append(s, e), shown) = AddsShown(shown, RunsOf(s, shown), e)
<1>1. PICK I : Folded("runs", shown, <<>>, s, I) /\ RunsOf(s, shown) = I[DOMAIN s]
  BY AddsShownFolds
<1>2. Append(s, e) \in Seq(S)
  OBVIOUS
<1>3. PICK J : Folded("runs", shown, <<>>, Append(s, e), J) /\ RunsOf(Append(s, e), shown) = J[DOMAIN Append(s, e)]
  BY <1>2, AddsShownFolds
<1>4. J[DOMAIN Append(s, e)] = Step("runs", shown, I[DOMAIN s], e)
  BY <1>1, <1>3, FoldMore
<1> QED
  BY <1>1, <1>3, <1>4 DEF Step

------------------------------------------------------------------------------
\* Sequences

\* The first k elements of a sequence.
LEMMA FirstElements ==
  ASSUME NEW S, NEW s \in Seq(S)
  PROVE  /\ SubSeq(s, 1, 0) = <<>> /\ SubSeq(s, 1, Len(s)) = s
         /\ \A k \in 1..Len(s) : SubSeq(s, 1, k) = Append(SubSeq(s, 1, k - 1), s[k])
         /\ \A k \in 0..Len(s) : /\ SubSeq(s, 1, k) \in Seq(S) /\ Len(SubSeq(s, 1, k)) = k
                                 /\ \A i \in 1..k : SubSeq(s, 1, k)[i] = s[i]
         /\ \A k \in 1..Len(s) : s[k] \in S
OBVIOUS

\* A part of a sequence that grows.
LEMMA Parts ==
  ASSUME NEW S, NEW s \in Seq(S), NEW from \in 1..Len(s), NEW k \in from..Len(s)
  PROVE  /\ SubSeq(s, from, k) = Append(SubSeq(s, from, k - 1), s[k]) /\ s[k] \in S
         /\ SubSeq(s, from, k) \in Seq(S) /\ SubSeq(s, from, k - 1) \in Seq(S)
         /\ SubSeq(s, from, from - 1) = <<>> /\ Len(SubSeq(s, from, k)) = k + 1 - from
         /\ \A i \in 1..k + 1 - from : SubSeq(s, from, k)[i] = s[from + i - 1]
OBVIOUS

\* One more element.
LEMMA AppendIs ==
  ASSUME NEW S, NEW s \in Seq(S), NEW e \in S
  PROVE  /\ Append(s, e) \in Seq(S) /\ Append(s, e) # <<>> /\ Len(Append(s, e)) = Len(s) + 1
         /\ Append(s, e)[Len(s) + 1] = e /\ \A i \in 1..Len(s) : Append(s, e)[i] = s[i]
OBVIOUS

\* What is joined to a sequence that grows.
LEMMA JoinsMore ==
  ASSUME NEW S, NEW p \in Seq(S), NEW q \in Seq(S), NEW e \in S
  PROVE  /\ p \o Append(q, e) = Append(p \o q, e) /\ p \o <<>> = p /\ <<>> \o p = p
         /\ p \o q \in Seq(S) /\ Append(q, e) \in Seq(S)
OBVIOUS

FlatIter(ss) ==
  CHOOSE f : f = [i \in 1..Len(ss) |-> IF i = 1 THEN ss[i] ELSE f[i - 1] \o ss[i]]

\* FlattenSeq joins its parts one after the other.
LEMMA FlatIs ==
  ASSUME NEW S, NEW ss \in Seq(Seq(S)), ss # <<>>
  PROVE  \E f : /\ f[1] = ss[1] /\ \A i \in 2..Len(ss) : f[i] = f[i - 1] \o ss[i]
                /\ FlattenSeq(ss) = f[Len(ss)]
<1> DEFINE Is(m, f) == f = [i \in 1..m |-> IF i = 1 THEN ss[i] ELSE f[i - 1] \o ss[i]]
           T == {m \in 0..Len(ss) : \E f : Is(m, f)}
<1>0. Len(ss) \in Nat /\ Len(ss) >= 1
  OBVIOUS
<1>1. 0 \in T
  <2> DEFINE f == [i \in 1..0 |-> 0]
  <2>1. Is(0, f) /\ 0 \in 0..Len(ss)
    BY <1>0
  <2> HIDE DEF f
  <2> QED
    BY <2>1
<1>2. ASSUME NEW m \in 1..Len(ss), m - 1 \in T PROVE m \in T
  <2>1. PICK f : Is(m - 1, f)
    BY <1>2
  <2> DEFINE g == [i \in 1..m |-> IF i < m THEN f[i] ELSE IF m = 1 THEN ss[1] ELSE f[m - 1] \o ss[m]]
  <2>2. \A i \in 1..m - 1 : g[i] = f[i] /\ f[i] = IF i = 1 THEN ss[i] ELSE f[i - 1] \o ss[i]
    <3>1. \A i \in 1..m - 1 : g[i] = f[i]
      OBVIOUS
    <3>2. \A i \in 1..m - 1 : f[i] = IF i = 1 THEN ss[i] ELSE f[i - 1] \o ss[i]
      BY <2>1
    <3> QED
      BY <3>1, <3>2
  <2>3. g[m] = IF m = 1 THEN ss[1] ELSE f[m - 1] \o ss[m]
    OBVIOUS
  <2>4. g = [i \in 1..m |-> g[i]]
    OBVIOUS
  <2> HIDE DEF g
  <2>5. ASSUME NEW i \in 1..m PROVE g[i] = IF i = 1 THEN ss[i] ELSE g[i - 1] \o ss[i]
    <3>1. CASE i = m
      <4>1. m # 1 => m - 1 \in 1..m - 1
        OBVIOUS
      <4>2. m # 1 => g[m - 1] = f[m - 1]
        BY <4>1, <2>2
      <4> QED
        BY <3>1, <4>2, <2>3
    <3>2. CASE i # m
      <4>1. i \in 1..m - 1 /\ (i # 1 => i - 1 \in 1..m - 1)
        BY <3>2
      <4>2. g[i] = f[i] /\ (i # 1 => g[i - 1] = f[i - 1])
        BY <4>1, <2>2
      <4>3. f[i] = IF i = 1 THEN ss[i] ELSE f[i - 1] \o ss[i]
        BY <4>1, <2>2
      <4> QED
        BY <4>2, <4>3
    <3> QED
      BY <3>1, <3>2
  <2>a. [i \in 1..m |-> g[i]] = [i \in 1..m |-> IF i = 1 THEN ss[i] ELSE g[i - 1] \o ss[i]]
    BY <2>5
  <2>b. g = [i \in 1..m |-> IF i = 1 THEN ss[i] ELSE g[i - 1] \o ss[i]]
    BY <2>4, <2>a, Zenon
  <2>6. Is(m, g)
    BY <2>b, Zenon
  <2>7. \E f2 : Is(m, f2)
    BY <2>6, Zenon
  <2>8. m \in 0..Len(ss)
    OBVIOUS
  <2> HIDE DEF Is
  <2> QED
    BY <2>7, <2>8
<1>3. Len(ss) \in T
  <2> HIDE DEF T
  <2>1. \A m \in 0..Len(ss) : m \in T
    BY <1>0, <1>1, <1>2, UpTo
  <2> QED
    BY <2>1, <1>0
<1>4. \E f : f = [i \in 1..Len(ss) |-> IF i = 1 THEN ss[i] ELSE f[i - 1] \o ss[i]]
  BY <1>3
<1> DEFINE f == FlatIter(ss)
<1>5. f = [i \in 1..Len(ss) |-> IF i = 1 THEN ss[i] ELSE f[i - 1] \o ss[i]]
  BY <1>4 DEF FlatIter
<1>6. FlattenSeq(ss) = f[Len(ss)]
  BY <1>0 DEF FlattenSeq, FlatIter
<1> HIDE DEF f
<1>7. f[1] = ss[1]
  BY <1>5, <1>0
<1>8. ASSUME NEW i \in 2..Len(ss) PROVE f[i] = f[i - 1] \o ss[i]
  <2>1. i \in 1..Len(ss) /\ i # 1
    OBVIOUS
  <2> QED
    BY <2>1, <1>5
<1> QED
  BY <1>6, <1>7, <1>8

\* FlattenSeq of nothing, ...
LEMMA FlatNothing == FlattenSeq(<<>>) = <<>>
BY DEF FlattenSeq

\* ... and of one more.
LEMMA FlatMore ==
  ASSUME NEW S, NEW ss \in Seq(Seq(S)), NEW s \in Seq(S)
  PROVE  /\ FlattenSeq(<<>>) = <<>>
         /\ FlattenSeq(Append(ss, s)) = FlattenSeq(ss) \o s
<1> DEFINE r == Append(ss, s)
           n == Len(ss)
<1>1. r \in Seq(Seq(S)) /\ r # <<>> /\ n \in Nat /\ Len(r) = n + 1 /\ r[n + 1] = s
      /\ \A i \in 1..n : r[i] = ss[i]
  <2>1. /\ Append(ss, s) \in Seq(Seq(S)) /\ Append(ss, s) # <<>> /\ Len(Append(ss, s)) = Len(ss) + 1
        /\ Append(ss, s)[Len(ss) + 1] = s /\ \A i \in 1..Len(ss) : Append(ss, s)[i] = ss[i]
    BY AppendIs
  <2> QED
    BY <2>1
<1>2. FlattenSeq(<<>>) = <<>>
  BY DEF FlattenSeq
<1> HIDE DEF r
<1>3. PICK g : /\ g[1] = r[1] /\ \A i \in 2..Len(r) : g[i] = g[i - 1] \o r[i]
               /\ FlattenSeq(r) = g[Len(r)]
  BY <1>1, FlatIs
<1>4. CASE ss = <<>>
  <2>1. n = 0 /\ <<>> \o s = s
    BY <1>4
  <2> QED
    BY <2>1, <1>1, <1>2, <1>3, <1>4 DEF r
<1>5. CASE ss # <<>>
  <2>1. PICK f : /\ f[1] = ss[1] /\ \A i \in 2..Len(ss) : f[i] = f[i - 1] \o ss[i]
                 /\ FlattenSeq(ss) = f[Len(ss)]
    BY <1>5, FlatIs
  <2> DEFINE T == {k \in 0..n : k = 0 \/ f[k] = g[k]}
  <2>2. 0 \in T
    BY <1>1
  <2>3. ASSUME NEW k \in 1..n, k - 1 \in T PROVE k \in T
    <3>1. CASE k = 1
      <4>1. f[1] = g[1]
        BY <2>1, <1>3, <1>1, <3>1
      <4> QED
        BY <4>1, <3>1
    <3>2. CASE k # 1
      <4>1. k \in 2..Len(ss) /\ k \in 2..Len(r) /\ k - 1 # 0
        BY <3>2, <1>1
      <4>2. f[k] = f[k - 1] \o ss[k]
        BY <4>1, <2>1
      <4>3. g[k] = g[k - 1] \o r[k]
        BY <4>1, <1>3
      <4>4. f[k - 1] = g[k - 1]
        BY <4>1, <2>3
      <4>a. r[k] = ss[k]
        BY <1>1
      <4>b. f[k] = g[k]
        BY <4>2, <4>3, <4>4, <4>a, Zenon
      <4>5. f[k] = g[k] /\ k \in 0..n
        BY <4>b
      <4> QED
        BY <4>5
    <3> QED
      BY <3>1, <3>2
  <2>4. n \in T
    <3> HIDE DEF T
    <3>1. \A k \in 0..n : k \in T
      BY <1>1, <2>2, <2>3, UpTo
    <3> QED
      BY <3>1, <1>1
  <2>5. n # 0
    BY <1>5
  <2>6. f[n] = g[n] /\ n + 1 \in 2..Len(r) /\ (n + 1) - 1 = n
    BY <2>4, <2>5, <1>1
  <2>7. g[n + 1] = g[n] \o s
    BY <1>3, <2>6, <1>1
  <2>8. FlattenSeq(r) = FlattenSeq(ss) \o s
    BY <2>7, <2>6, <2>1, <1>3, <1>1
  <2> QED
    BY <2>8, <1>2 DEF r
<1> QED
  BY <1>4, <1>5

\* A part that is flattened one after the other keeps its elements.
LEMMA FlatType ==
  ASSUME NEW S, NEW ss \in Seq(Seq(S))
  PROVE  FlattenSeq(ss) \in Seq(S)
<1> DEFINE n == Len(ss)
           T == {k \in 0..n : FlattenSeq(SubSeq(ss, 1, k)) \in Seq(S)}
<1>1. n \in Nat /\ SubSeq(ss, 1, 0) = <<>> /\ SubSeq(ss, 1, n) = ss
  OBVIOUS
<1>2. FlattenSeq(<<>>) = <<>>
  BY FlatMore
<1>b. FlattenSeq(SubSeq(ss, 1, 0)) = <<>>
  BY <1>1, <1>2, Zenon
<1>c. <<>> \in Seq(S) /\ 0 \in 0..n
  BY <1>1
<1>a. FlattenSeq(SubSeq(ss, 1, 0)) \in Seq(S) /\ 0 \in 0..n
  BY <1>b, <1>c, Zenon
<1>3. 0 \in T
  BY <1>a
<1>4. ASSUME NEW k \in 1..n, k - 1 \in T PROVE k \in T
  <2>1. SubSeq(ss, 1, k) = Append(SubSeq(ss, 1, k - 1), ss[k]) /\ ss[k] \in Seq(S)
        /\ SubSeq(ss, 1, k - 1) \in Seq(Seq(S))
    OBVIOUS
  <2>2. FlattenSeq(SubSeq(ss, 1, k)) = FlattenSeq(SubSeq(ss, 1, k - 1)) \o ss[k]
    BY <2>1, FlatMore
  <2>a. FlattenSeq(SubSeq(ss, 1, k - 1)) \in Seq(S) /\ k \in 0..n
    BY <1>4
  <2>b. FlattenSeq(SubSeq(ss, 1, k - 1)) \o ss[k] \in Seq(S)
    BY <2>a, <2>1, JoinsMore
  <2>3. FlattenSeq(SubSeq(ss, 1, k)) \in Seq(S) /\ k \in 0..n
    BY <2>a, <2>b, <2>2
  <2> QED
    BY <2>3
<1>5. n \in T
  <2> HIDE DEF T
  <2>1. \A k \in 0..n : k \in T
    BY <1>1, <1>3, <1>4, UpTo
  <2> QED
    BY <2>1, <1>1
<1> QED
  BY <1>5, <1>1

\* What is parsed after what has been parsed.
LEMMA ParsesBoth ==
  ASSUME NEW b, NEW S, NEW p \in Seq(S), NEW q \in Seq(S)
  PROVE  FoldLeft(ParsesLine, b, p \o q) = FoldLeft(ParsesLine, FoldLeft(ParsesLine, b, p), q)
<1> DEFINE n == Len(q)
           st == FoldLeft(ParsesLine, b, p)
           T == {k \in 0..n : FoldLeft(ParsesLine, b, p \o SubSeq(q, 1, k))
                                = FoldLeft(ParsesLine, st, SubSeq(q, 1, k))}
<1>1. n \in Nat /\ SubSeq(q, 1, 0) = <<>> /\ SubSeq(q, 1, n) = q /\ p \o <<>> = p
  OBVIOUS
<1>2. FoldLeft(ParsesLine, st, <<>>) = st
  BY ParsesLineNothing
<1>b. p \o SubSeq(q, 1, 0) = p /\ SubSeq(q, 1, 0) = <<>>
  BY <1>1
<1>c. FoldLeft(ParsesLine, b, p \o SubSeq(q, 1, 0)) = FoldLeft(ParsesLine, st, SubSeq(q, 1, 0))
  BY <1>b, <1>2, Zenon
<1>a. FoldLeft(ParsesLine, b, p \o SubSeq(q, 1, 0)) = FoldLeft(ParsesLine, st, SubSeq(q, 1, 0)) /\ 0 \in 0..n
  BY <1>1, <1>c
<1>3. 0 \in T
  BY <1>a
<1>4. ASSUME NEW k \in 1..n, k - 1 \in T PROVE k \in T
  <2> DEFINE u == SubSeq(q, 1, k - 1)
  <2>1. SubSeq(q, 1, k) = Append(u, q[k]) /\ q[k] \in S /\ u \in Seq(S)
    OBVIOUS
  <2>2. p \o Append(u, q[k]) = Append(p \o u, q[k]) /\ p \o u \in Seq(S)
    BY <2>1, JoinsMore
  <2>3. FoldLeft(ParsesLine, b, p \o u) = FoldLeft(ParsesLine, st, u)
    BY <1>4
  <2> HIDE DEF u, st
  <2>4. FoldLeft(ParsesLine, b, Append(p \o u, q[k])) = ParsesLine(FoldLeft(ParsesLine, b, p \o u), q[k])
    BY <2>1, <2>2, ParsesLineMore, ZenonT(60)
  <2>5. FoldLeft(ParsesLine, st, Append(u, q[k])) = ParsesLine(FoldLeft(ParsesLine, st, u), q[k])
    BY <2>1, ParsesLineMore
  <2>6. FoldLeft(ParsesLine, b, p \o SubSeq(q, 1, k)) = FoldLeft(ParsesLine, st, SubSeq(q, 1, k))
    BY <2>1, <2>2, <2>3, <2>4, <2>5
  <2> QED
    BY <2>6 DEF st
<1>5. n \in T
  <2> HIDE DEF T
  <2>1. \A k \in 0..n : k \in T
    BY <1>1, <1>3, <1>4, UpTo
  <2> QED
    BY <2>1, <1>1
<1> QED
  BY <1>5, <1>1

------------------------------------------------------------------------------
\* Parsing what diff rendered

FileRecord(old, new, hunks) == [old |-> old, new |-> new, hunks |-> hunks]
DiffLines ==
  {Rendered(l) : l \in ScriptLines} \cup {[kind |-> "git"]}
  \cup {[kind |-> "@@", hunk |-> [h EXCEPT !.lines = <<>>]] : h \in HunkSet}
  \cup {Header("---", path) : path \in Paths \cup {None}}
  \cup {Header("+++", path) : path \in Paths \cup {None}}

Yes == TRUE
No == FALSE

\* The state of the parser, ...
State(files, in, head, old, failed) ==
  [patches |-> files, inHunk |-> in, header |-> head, old |-> old, failed |-> failed]
\* ... after whole lines, ...
At(files, in, old) == State(files, in, No, old, No)
\* ... and when it has failed or will fail at the next line.
HasFailed(st) == \E files, in, head, old : st = State(files, in, head, old, Yes)
Doomed(st) == HasFailed(st) \/ \E files, in, old : st = State(files, in, Yes, old, No)

\* It has read these files.
Reads(st, files) == \E in, old : st = At(files, in, old)
IsDashed(hunk) == \E i \in DOMAIN hunk.lines : hunk.lines[i] = Line("-", Dashes)
\* Its lines stay whole, as splitlines() finds them.
Whole(hunk) == \A i \in DOMAIN hunk.lines : hunk.lines[i].content \notin Cut

\* The last element of a sequence is changed.
LEMMA LastChanges ==
  ASSUME NEW S, NEW s \in Seq(S), NEW e, NEW f
  PROVE  /\ Len(Append(s, e)) = Len(s) + 1 /\ Append(s, e)[Len(s) + 1] = e
         /\ [Append(s, e) EXCEPT ![Len(s) + 1] = f] = Append(s, f)
<1> DEFINE R == S \cup {e, f}
           p == [Append(s, e) EXCEPT ![Len(s) + 1] = f]
           q == Append(s, f)
<1>1. s \in Seq(R) /\ e \in R /\ f \in R
  OBVIOUS
<1> HIDE DEF R
<1>2. /\ Append(s, e) \in Seq(R) /\ Len(Append(s, e)) = Len(s) + 1 /\ Append(s, e)[Len(s) + 1] = e
      /\ \A i \in 1..Len(s) : Append(s, e)[i] = s[i]
  BY <1>1, AppendIs
<1>3. /\ q \in Seq(R) /\ Len(q) = Len(s) + 1 /\ q[Len(s) + 1] = f /\ \A i \in 1..Len(s) : q[i] = s[i]
  BY <1>1, AppendIs
<1>4. p \in Seq(R) /\ Len(p) = Len(s) + 1
  BY <1>1, <1>2
<1>5. p[Len(s) + 1] = f /\ \A i \in 1..Len(s) : p[i] = s[i]
  <2> DEFINE u == Append(s, e)
             m == Len(s) + 1
  <2>1. DOMAIN u = 1..m /\ m \in 1..m /\ u = [i \in 1..m |-> u[i]] /\ Len(s) \in Nat
    <3>1. u \in Seq(R) /\ Len(u) = m /\ Len(s) \in Nat
      BY <1>1, <1>2
    <3> HIDE DEF u
    <3> QED
      BY <3>1
  <2>2. \A i \in 1..Len(s) : i \in 1..m /\ i # m /\ u[i] = s[i]
    BY <1>2, <2>1
  <2> HIDE DEF u, m
  <2>3. [u EXCEPT ![m] = f][m] = f /\ \A i \in 1..Len(s) : [u EXCEPT ![m] = f][i] = s[i]
    BY <2>1, <2>2
  <2> QED
    BY <2>3 DEF u, m
<1>6. \A i \in 1..Len(p) : p[i] = q[i]
  <2> HIDE DEF p, q
  <2>1. ASSUME NEW i \in 1..Len(p) PROVE p[i] = q[i]
    <3>1. i = Len(s) + 1 \/ i \in 1..Len(s)
      BY <1>4
    <3> QED
      BY <3>1, <1>3, <1>5
  <2> QED
    BY <2>1
<1>7. p = q
  <2> HIDE DEF p, q
  <2> QED
    BY <1>3, <1>4, <1>6, SameSequence
<1> QED
  BY <1>2, <1>7

\* A state of the parser with one field changed.
LEMMA StatePatches ==
  ASSUME NEW a, NEW b, NEW c, NEW d, NEW e, NEW new
  PROVE  [State(a, b, c, d, e) EXCEPT !.patches = new] = State(new, b, c, d, e)
BY DEF State

\* The same for .inHunk.
LEMMA StateInHunk ==
  ASSUME NEW a, NEW b, NEW c, NEW d, NEW e, NEW new
  PROVE  [State(a, b, c, d, e) EXCEPT !.inHunk = new] = State(a, new, c, d, e)
BY DEF State

\* The same for .header.
LEMMA StateHeader ==
  ASSUME NEW a, NEW b, NEW c, NEW d, NEW e, NEW new
  PROVE  [State(a, b, c, d, e) EXCEPT !.header = new] = State(a, b, new, d, e)
BY DEF State

\* The same for .old.
LEMMA StateOld ==
  ASSUME NEW a, NEW b, NEW c, NEW d, NEW e, NEW new
  PROVE  [State(a, b, c, d, e) EXCEPT !.old = new] = State(a, b, c, new, e)
BY DEF State

\* The same for .failed.
LEMMA StateFailed ==
  ASSUME NEW a, NEW b, NEW c, NEW d, NEW e, NEW new
  PROVE  [State(a, b, c, d, e) EXCEPT !.failed = new] = State(a, b, c, d, new)
BY DEF State

\* What is in a state.
LEMMA StateIs ==
  ASSUME NEW a, NEW b, NEW c, NEW d, NEW e
  PROVE  /\ State(a, b, c, d, e).patches = a /\ State(a, b, c, d, e).inHunk = b
         /\ State(a, b, c, d, e).header = c /\ State(a, b, c, d, e).old = d
         /\ State(a, b, c, d, e).failed = e
BY DEF State

\* A state that is broken has failed.
LEMMA BrokenIs ==
  ASSUME NEW a, NEW b, NEW c, NEW d, NEW e
  PROVE  Broken(State(a, b, c, d, e)) = State(a, b, c, d, Yes)
<1>1. [State(a, b, c, d, e) EXCEPT !.failed = Yes] = State(a, b, c, d, Yes)
  BY StateFailed
<1> QED
  BY <1>1 DEF Broken, Yes

HunksSet(files, hunks) == [files EXCEPT ![Len(files)].hunks = hunks]

\* A state with other hunks.
LEMMA WithHunksIs ==
  ASSUME NEW a, NEW b, NEW c, NEW d, NEW e, NEW hunks,
         NEW new, new = HunksSet(a, hunks)
  PROVE  WithHunks(State(a, b, c, d, e), hunks) = State(new, Yes, c, d, e)
<1> DEFINE st == State(a, b, c, d, e)
<1>1. Yes = TRUE
  BY DEF Yes
<1>2. st.patches = a
  BY StateIs
<1>3. WithHunks(st, hunks) = [st EXCEPT !.patches[Len(a)].hunks = hunks, !.inHunk = Yes]
  BY <1>1, <1>2 DEF WithHunks
<1>4. [st EXCEPT !.patches[Len(a)].hunks = hunks, !.inHunk = Yes] = [st EXCEPT !.patches = new, !.inHunk = Yes]
  BY <1>2 DEF HunksSet
<1>5. ASSUME NEW f PROVE [st EXCEPT !.patches = f, !.inHunk = Yes] = State(f, Yes, c, d, e)
  <2>1. [State(a, b, c, d, e) EXCEPT !.patches = f] = State(f, b, c, d, e)
    BY StatePatches
  <2>2. [State(f, b, c, d, e) EXCEPT !.inHunk = Yes] = State(f, Yes, c, d, e)
    BY StateInHunk
  <2> QED
    BY <2>1, <2>2
<1>6. [st EXCEPT !.patches = new, !.inHunk = Yes] = State(new, Yes, c, d, e)
  BY <1>5
<1> QED
  BY <1>1, <1>3, <1>4, <1>6

UnderHeader(st, old) == [st EXCEPT !.header = Yes, !.old = old]

\* A header is read, ...
LEMMA HeaderIs ==
  ASSUME NEW a, NEW b, NEW c, NEW d, NEW e, NEW new
  PROVE  UnderHeader(State(a, b, c, d, e), new) = State(a, b, Yes, new, e)
<1>1. [State(a, b, c, d, e) EXCEPT !.header = Yes] = State(a, b, Yes, d, e)
  BY StateHeader
<1>2. [State(a, b, Yes, d, e) EXCEPT !.old = new] = State(a, b, Yes, new, e)
  BY StateOld
<1> QED
  BY <1>1, <1>2 DEF UnderHeader

\* ... and the name after it.
LEMMA NewNameIs ==
  ASSUME NEW a, NEW b, NEW c, NEW d, NEW e, NEW t, t.kind = "+++"
  PROVE  ReadsNewName(State(a, b, c, d, e), t) = State(Append(a, FileRecord(d, t.path, <<>>)), No, No, d, e)
<1> DEFINE st == State(a, b, c, d, e)
           new == Append(a, FileRecord(d, t.path, <<>>))
<1>1. No = FALSE
  BY DEF No
<1>2. st.patches = a /\ st.old = d
  BY StateIs
<1>3. ReadsNewName(st, t) = [st EXCEPT !.patches = new, !.inHunk = No, !.header = No]
  BY <1>1, <1>2 DEF ReadsNewName, FileRecord
<1>4. ASSUME NEW f PROVE [st EXCEPT !.patches = f, !.inHunk = No, !.header = No] = State(f, No, No, d, e)
  <2>1. [State(a, b, c, d, e) EXCEPT !.patches = f] = State(f, b, c, d, e)
    BY StatePatches
  <2>2. [State(f, b, c, d, e) EXCEPT !.inHunk = No] = State(f, No, c, d, e)
    BY StateInHunk
  <2>3. [State(f, No, c, d, e) EXCEPT !.header = No] = State(f, No, No, d, e)
    BY StateHeader
  <2> QED
    BY <2>1, <2>2, <2>3
<1>5. [st EXCEPT !.patches = new, !.inHunk = No, !.header = No] = State(new, No, No, d, e)
  BY <1>4
<1> QED
  BY <1>1, <1>3, <1>5

\* The last file gets other hunks.
LEMMA HunksChange ==
  ASSUME NEW S, NEW files \in Seq(S), NEW in, NEW x, NEW o, NEW n, NEW hs, NEW hunks
  PROVE  WithHunks(At(Append(files, FileRecord(o, n, hs)), in, x), hunks)
           = At(Append(files, FileRecord(o, n, hunks)), Yes, x)
<1> DEFINE f == FileRecord(o, n, hs)
           ps == Append(files, f)
           m == Len(files) + 1
           more == Append(files, FileRecord(o, n, hunks))
<1>1. Len(ps) = m /\ ps[m] = f /\ [ps EXCEPT ![m] = FileRecord(o, n, hunks)] = more
  BY LastChanges
<1>2. [f EXCEPT !.hunks = hunks] = FileRecord(o, n, hunks)
  BY DEF FileRecord
<1> HIDE DEF ps, f, more
<1>3. [ps EXCEPT ![m].hunks = hunks] = [ps EXCEPT ![m] = [ps[m] EXCEPT !.hunks = hunks]]
  OBVIOUS
<1>4. [ps EXCEPT ![m].hunks = hunks] = more
  BY <1>1, <1>2, <1>3
<1>5. more = HunksSet(ps, hunks)
  BY <1>1, <1>4 DEF HunksSet
<1>6. WithHunks(State(ps, in, No, x, No), hunks) = State(more, Yes, No, x, No)
  BY <1>5, WithHunksIs
<1>7. WithHunks(At(ps, in, x), hunks) = At(more, Yes, x)
  BY <1>6 DEF At
<1> QED
  BY <1>7 DEF ps, f, more

\* The hunks of the last file.
LEMMA HunksAre ==
  ASSUME NEW S, NEW files \in Seq(S), NEW in, NEW x, NEW o, NEW n, NEW hs
  PROVE  LastHunks(At(Append(files, FileRecord(o, n, hs)), in, x)) = hs
<1> DEFINE f == FileRecord(o, n, hs)
           ps == Append(files, f)
<1>1. Len(ps) = Len(files) + 1 /\ ps[Len(files) + 1] = f
  BY LastChanges
<1>2. f.hunks = hs
  BY DEF FileRecord
<1>3. At(ps, in, x).patches = ps
  BY DEF At, State
<1> HIDE DEF ps, f
<1>4. LastHunks(At(ps, in, x)) = hs
  BY <1>1, <1>2, <1>3 DEF LastHunks, Last
<1> QED
  BY <1>4 DEF ps, f

\* A line is added to the last hunk of the last file.
LEMMA LineIsAdded ==
  ASSUME NEW S, NEW files \in Seq(S), NEW in, NEW x, NEW o, NEW n,
         NEW hs \in Seq(HunkSet), NEW h \in HunkSet, NEW l
  PROVE  AddsLine(At(Append(files, FileRecord(o, n, Append(hs, h))), in, x), l)
           = At(Append(files, FileRecord(o, n, Append(hs, [h EXCEPT !.lines = Append(@, l)]))), Yes, x)
<1> DEFINE hunks == Append(hs, h)
           st == At(Append(files, FileRecord(o, n, hunks)), in, x)
           more == [h EXCEPT !.lines = Append(@, l)]
           m == Len(hs) + 1
<1>1. Len(hunks) = m /\ hunks[m] = h /\ [hunks EXCEPT ![m] = more] = Append(hs, more)
  BY LastChanges
<1> HIDE DEF hunks
<1>2. [hunks EXCEPT ![m].lines = Append(@, l)] = [hunks EXCEPT ![m] = [hunks[m] EXCEPT !.lines = Append(hunks[m].lines, l)]]
  OBVIOUS
<1>3. [hunks EXCEPT ![m].lines = Append(@, l)] = Append(hs, more)
  BY <1>1, <1>2
<1>4. LastHunks(st) = hunks
  BY HunksAre
<1>5. AddsLine(st, l) = WithHunks(st, Append(hs, more))
  <2> HIDE DEF st, more
  <2> QED
    BY <1>1, <1>3, <1>4 DEF AddsLine
<1>6. WithHunks(st, Append(hs, more)) = At(Append(files, FileRecord(o, n, Append(hs, more))), Yes, x)
  <2>1. ASSUME NEW other
        PROVE  WithHunks(st, other) = At(Append(files, FileRecord(o, n, other)), Yes, x)
    BY HunksChange
  <2> QED
    BY <2>1
<1> QED
  BY <1>5, <1>6 DEF hunks

\* A rendered line is read as it was, or as a header.
LEMMA LineIsRead ==
  ASSUME NEW files, NEW x, NEW l \in ScriptLines, l.content \notin Cut
  PROVE  /\ l # Line("-", Dashes) =>
              ParsesLine(At(files, Yes, x), Rendered(l)) = AddsLine(At(files, Yes, x), l)
         /\ l = Line("-", Dashes) => Doomed(ParsesLine(At(files, Yes, x), Rendered(l)))
<1> DEFINE st == At(files, Yes, x)
<1>1. st.failed = FALSE /\ st.header = FALSE /\ st.inHunk = TRUE
  BY DEF At, State, Yes, No
<1>2. CASE l = Line(" ", Blank)
  <2>1. Rendered(l) = [kind |-> "empty"] /\ l # Line("-", Dashes)
    BY <1>2 DEF Rendered, Line
  <2> HIDE DEF st
  <2>2. ParsesLine(st, [kind |-> "empty"]) = AddsLine(st, Line(" ", Blank))
    BY <1>1 DEF ParsesLine
  <2> QED
    BY <2>1, <2>2, <1>2 DEF st
<1>3. CASE l = Line("-", Dashes)
  <2>1. Rendered(l) = Header("---", Dashes)
    BY <1>3 DEF Rendered, Line
  <2> DEFINE t == Header("---", Dashes)
  <2>2. t.kind = "---" /\ t.path = Dashes
    BY DEF Header
  <2> HIDE DEF t
  <2>3. ParsesLine(st, t) = UnderHeader(st, Dashes)
    <3> HIDE DEF st
    <3> QED
      BY <1>1, <2>2 DEF ParsesLine, UnderHeader, Yes
  <2>4. UnderHeader(State(files, Yes, No, x, No), Dashes) = State(files, Yes, Yes, Dashes, No)
    BY HeaderIs
  <2>5. Yes = TRUE
    BY DEF Yes
  <2>6. ParsesLine(st, t) = State(files, Yes, Yes, Dashes, No)
    BY <2>3, <2>4 DEF At
  <2>7. Doomed(ParsesLine(st, t))
    <3> HIDE DEF st, t
    <3> QED
      BY <2>6 DEF Doomed
  <2> QED
    BY <2>1, <2>7, <1>3 DEF t
<1>4. CASE l # Line(" ", Blank) /\ l # Line("-", Dashes)
  <2> DEFINE t == [kind |-> "line", line |-> l]
  <2>1. Rendered(l) = t
    BY <1>4 DEF Rendered
  <2>2. t.kind = "line" /\ t.line = l
    OBVIOUS
  <2> HIDE DEF t
  <2>3. ParsesLine(st, t) = AddsLine(st, l)
    <3> HIDE DEF st
    <3> QED
      BY <1>1, <2>2 DEF ParsesLine, ReadsContent
  <2> QED
    BY <2>1, <2>3, <1>4
<1> QED
  BY <1>2, <1>3, <1>4

\* A parser that is doomed stays so until the next new name, ...
LEMMA DoomedStays ==
  ASSUME NEW st, Doomed(st), NEW t, t.kind # "+++"
  PROVE  HasFailed(ParsesLine(st, t))
<1>1. CASE HasFailed(st)
  <2>1. st.failed = TRUE
    BY <1>1 DEF HasFailed, State, Yes
  <2>2. ParsesLine(st, t) = st
    BY <2>1 DEF ParsesLine
  <2> QED
    BY <2>2, <1>1
<1>2. CASE \E files, in, old : st = State(files, in, Yes, old, No)
  <2>1. PICK files, in, old : st = State(files, in, Yes, old, No)
    BY <1>2
  <2>2. Broken(State(files, in, Yes, old, No)) = State(files, in, Yes, old, Yes)
    BY BrokenIs
  <2>3. st.failed = FALSE /\ st.header = TRUE
    BY <2>1 DEF State, Yes, No
  <2>4. ParsesLine(st, t) = Broken(st)
    <3>1. ParsesLine(st, t) = ReadsNewName(st, t)
      BY <2>3 DEF ParsesLine
    <3> QED
      BY <3>1 DEF ReadsNewName
  <2>5. ParsesLine(st, t) = State(files, in, Yes, old, Yes)
    BY <2>1, <2>2, <2>4
  <2> QED
    BY <2>5 DEF HasFailed
<1> QED
  BY <1>1, <1>2 DEF Doomed

\* ... and one that has failed for good.
LEMMA FailsForGood ==
  ASSUME NEW st, HasFailed(st), NEW S, NEW q \in Seq(S)
  PROVE  FoldLeft(ParsesLine, st, q) = st
<1> DEFINE n == Len(q)
           T == {k \in 0..n : FoldLeft(ParsesLine, st, SubSeq(q, 1, k)) = st}
<1>1. n \in Nat /\ SubSeq(q, 1, 0) = <<>> /\ SubSeq(q, 1, n) = q /\ 0 \in 0..n
  BY FirstElements
<1>2. FoldLeft(ParsesLine, st, <<>>) = st
  BY ParsesLineNothing
<1>3. FoldLeft(ParsesLine, st, SubSeq(q, 1, 0)) = st
  BY <1>1, <1>2, Zenon
<1>4. 0 \in T
  BY <1>1, <1>3
<1>5. ASSUME NEW k \in 1..n, k - 1 \in T PROVE k \in T
  <2> DEFINE u == SubSeq(q, 1, k - 1)
  <2>1. SubSeq(q, 1, k) = Append(u, q[k]) /\ q[k] \in S /\ u \in Seq(S)
    OBVIOUS
  <2>2. FoldLeft(ParsesLine, st, u) = st
    BY <1>5
  <2> HIDE DEF u
  <2>3. FoldLeft(ParsesLine, st, Append(u, q[k])) = ParsesLine(FoldLeft(ParsesLine, st, u), q[k])
    BY <2>1, ParsesLineMore
  <2>4. ParsesLine(st, q[k]) = st
    <3>1. st.failed = TRUE
      BY DEF HasFailed, State, Yes
    <3> QED
      BY <3>1 DEF ParsesLine
  <2>5. FoldLeft(ParsesLine, st, SubSeq(q, 1, k)) = st
    BY <2>1, <2>2, <2>3, <2>4
  <2> QED
    BY <2>5
<1>6. n \in T
  <2> HIDE DEF T
  <2>1. \A k \in 0..n : k \in T
    BY <1>1, <1>4, <1>5, UpTo
  <2> QED
    BY <2>1, <1>1
<1> QED
  BY <1>6, <1>1


HunkWith(h, lines) == [h EXCEPT !.lines = lines]
RenderedLines(h) == [i \in DOMAIN h.lines |-> Rendered(h.lines[i])]
HunkHeader(h) == [kind |-> "@@", hunk |-> HunkWith(h, <<>>)]

\* A hunk and its lines.
LEMMA HunkIs ==
  ASSUME NEW h \in HunkSet
  PROVE  /\ h.lines \in Seq(ScriptLines) /\ HunkWith(h, h.lines) = h
         /\ \A lines \in Seq(ScriptLines) :
              /\ HunkWith(h, lines) \in HunkSet /\ HunkWith(h, lines).lines = lines
              /\ \A more : HunkWith(HunkWith(h, lines), more) = HunkWith(h, more)
BY DEF HunkSet, HunkWith

\* The tokens of a hunk.
LEMMA BodyIs ==
  ASSUME NEW h \in HunkSet
  PROVE  /\ RenderedLines(h) \in Seq(DiffLines) /\ Len(RenderedLines(h)) = Len(h.lines)
         /\ \A i \in 1..Len(h.lines) : RenderedLines(h)[i] = Rendered(h.lines[i])
         /\ HunkHeader(h) \in DiffLines
         /\ BodyOf(h) = Append(<<>>, HunkHeader(h)) \o RenderedLines(h) /\ BodyOf(h) \in Seq(DiffLines)
<1>1. h.lines \in Seq(ScriptLines)
  BY HunkIs
<1> DEFINE lines == h.lines
           r == [i \in DOMAIN lines |-> Rendered(lines[i])]
<1>2. \A i \in DOMAIN lines : Rendered(lines[i]) \in DiffLines
  <2>1. \A l \in ScriptLines : Rendered(l) \in DiffLines
    BY DEF DiffLines
  <2> HIDE DEF lines
  <2>2. lines \in Seq(ScriptLines)
    BY <1>1 DEF lines
  <2> QED
    BY <2>1, <2>2
<1>3. /\ r \in Seq(DiffLines) /\ Len(r) = Len(lines) /\ \A i \in 1..Len(lines) : r[i] = Rendered(lines[i])
  <2> HIDE DEF lines
  <2>2. lines \in Seq(ScriptLines)
    BY <1>1 DEF lines
  <2> QED
    BY <1>2, <2>2
<1>4. r = RenderedLines(h)
  BY DEF RenderedLines
<1>5. HunkHeader(h) \in DiffLines
  BY DEF HunkHeader, HunkWith, DiffLines
<1> DEFINE head == HunkHeader(h)
<1>6. BodyOf(h) = <<head>> \o r
  BY DEF BodyOf, HunkHeader, HunkWith
<1> HIDE DEF r, lines, head
<1>7. <<head>> = Append(<<>>, head) /\ <<head>> \in Seq(DiffLines) /\ <<head>> \o r \in Seq(DiffLines)
  BY <1>3, <1>5 DEF head
<1> QED
  BY <1>3, <1>4, <1>5, <1>6, <1>7 DEF head, lines

\* A rendered line is read into the last hunk, or as a header.
LEMMA LineIsReadInto ==
  ASSUME NEW S, NEW files \in Seq(S), NEW x, NEW o, NEW n, NEW hs \in Seq(HunkSet), NEW h \in HunkSet,
         NEW l \in ScriptLines, l.content \notin Cut
  PROVE  LET st == ParsesLine(At(Append(files, FileRecord(o, n, Append(hs, h))), Yes, x), Rendered(l))
         IN  /\ l # Line("-", Dashes) =>
                  st = At(Append(files, FileRecord(o, n, Append(hs, HunkWith(h, Append(h.lines, l))))), Yes, x)
             /\ l = Line("-", Dashes) => Doomed(st)
<1> DEFINE fs == Append(files, FileRecord(o, n, Append(hs, h)))
           more == Append(files, FileRecord(o, n, Append(hs, HunkWith(h, Append(h.lines, l)))))
<1>1. AddsLine(At(fs, Yes, x), l) = At(more, Yes, x)
  BY LineIsAdded DEF HunkWith
<1> HIDE DEF fs, more
<1>2. /\ l # Line("-", Dashes) => ParsesLine(At(fs, Yes, x), Rendered(l)) = AddsLine(At(fs, Yes, x), l)
      /\ l = Line("-", Dashes) => Doomed(ParsesLine(At(fs, Yes, x), Rendered(l)))
  BY LineIsRead
<1>3. l # Line("-", Dashes) => ParsesLine(At(fs, Yes, x), Rendered(l)) = At(more, Yes, x)
  BY <1>1, <1>2
<1> QED
  BY <1>2, <1>3 DEF fs, more

\* The first line of a diff is passed over.
LEMMA GitIsRead ==
  ASSUME NEW files, NEW in, NEW x
  PROVE  ParsesLine(At(files, in, x), [kind |-> "git"]) = At(files, in, x)
<1> DEFINE st == At(files, in, x)
           t == [kind |-> "git"]
<1>1. st.failed = FALSE /\ st.header = FALSE /\ t.kind = "git"
  BY DEF At, State, No
<1> HIDE DEF st, t
<1>2. ParsesLine(st, t) = st
  BY <1>1 DEF ParsesLine
<1> QED
  BY <1>2 DEF st, t

\* The old name is kept until the new one is read.
LEMMA OldNameIsRead ==
  ASSUME NEW files, NEW in, NEW x, NEW o
  PROVE  ParsesLine(At(files, in, x), Header("---", o)) = State(files, in, Yes, o, No)
<1> DEFINE st == At(files, in, x)
           t == Header("---", o)
<1>1. st.failed = FALSE /\ st.header = FALSE
  BY DEF At, State, No
<1>2. t.kind = "---" /\ t.path = o
  BY DEF Header
<1>3. UnderHeader(State(files, in, No, x, No), o) = State(files, in, Yes, o, No)
  BY HeaderIs
<1>4. UnderHeader(st, o) = State(files, in, Yes, o, No)
  BY <1>3 DEF At
<1> HIDE DEF st, t
<1>5. ParsesLine(st, t) = UnderHeader(st, o)
  BY <1>1, <1>2 DEF ParsesLine, UnderHeader, Yes
<1> QED
  BY <1>4, <1>5 DEF st, t

\* The new name begins a file without hunks.
LEMMA NewNameIsRead ==
  ASSUME NEW files, NEW in, NEW o, NEW n
  PROVE  ParsesLine(State(files, in, Yes, o, No), Header("+++", n)) = At(Append(files, FileRecord(o, n, <<>>)), No, o)
<1> DEFINE st == State(files, in, Yes, o, No)
           t == Header("+++", n)
<1>1. st.failed = FALSE /\ st.header = TRUE
  BY DEF State, Yes, No
<1>2. t.kind = "+++" /\ t.path = n
  BY DEF Header
<1> HIDE DEF t
<1>3. ReadsNewName(State(files, in, Yes, o, No), t) = State(Append(files, FileRecord(o, t.path, <<>>)), No, No, o, No)
  BY <1>2, NewNameIs
<1>4. ParsesLine(st, t) = ReadsNewName(st, t)
  <2> HIDE DEF st
  <2> QED
    BY <1>1 DEF ParsesLine
<1> QED
  BY <1>2, <1>3, <1>4 DEF At, t

\* The header of a hunk begins a hunk without lines.
LEMMA HunkHeaderIsRead ==
  ASSUME NEW S, NEW files \in Seq(S), NEW in, NEW x, NEW o, NEW n, NEW hs, NEW h
  PROVE  ParsesLine(At(Append(files, FileRecord(o, n, hs)), in, x), HunkHeader(h))
           = At(Append(files, FileRecord(o, n, Append(hs, HunkWith(h, <<>>)))), Yes, x)
<1> DEFINE fs == Append(files, FileRecord(o, n, hs))
           st == At(fs, in, x)
           t == HunkHeader(h)
           first == HunkWith(h, <<>>)
<1>1. st.failed = FALSE /\ st.header = FALSE /\ st.patches = fs
  BY DEF At, State, No
<1>2. t.kind = "@@" /\ t.hunk = first
  BY DEF HunkHeader
<1>3. fs # <<>>
  BY LastChanges
<1>4. LastHunks(st) = hs
  BY HunksAre
<1>5. ASSUME NEW other PROVE WithHunks(st, other) = At(Append(files, FileRecord(o, n, other)), Yes, x)
  BY HunksChange
<1> HIDE DEF st, t, fs, first
<1>6. ParsesLine(st, t) = WithHunks(st, Append(hs, first))
  BY <1>1, <1>2, <1>3, <1>4 DEF ParsesLine
<1> QED
  BY <1>5, <1>6 DEF st, t, fs, first

\* A doomed parser is doomed after a hunk, and after the first line of a diff.
LEMMA DoomedStaysDoomed ==
  ASSUME NEW st, Doomed(st), NEW S, NEW t \in S, t.kind # "+++", NEW q \in Seq(S)
  PROVE  Doomed(FoldLeft(ParsesLine, st, Append(<<>>, t) \o q))
<1>1. Append(<<>>, t) \in Seq(S) /\ <<>> \in Seq(S)
  OBVIOUS
<1>2. FoldLeft(ParsesLine, st, Append(<<>>, t)) = ParsesLine(FoldLeft(ParsesLine, st, <<>>), t)
  BY <1>1, ParsesLineMore
<1>3. FoldLeft(ParsesLine, st, <<>>) = st
  BY ParsesLineNothing
<1> DEFINE next == ParsesLine(st, t)
<1>4. FoldLeft(ParsesLine, st, Append(<<>>, t)) = next
  BY <1>2, <1>3
<1>5. HasFailed(next)
  BY DoomedStays
<1> HIDE DEF next
<1>6. FoldLeft(ParsesLine, next, q) = next
  BY <1>5, FailsForGood
<1> DEFINE p == Append(<<>>, t)
<1>7. FoldLeft(ParsesLine, st, p) = next /\ p \in Seq(S)
  BY <1>1, <1>4
<1> HIDE DEF p
<1>8. FoldLeft(ParsesLine, st, p \o q) = FoldLeft(ParsesLine, FoldLeft(ParsesLine, st, p), q)
  BY <1>7, ParsesBoth
<1>9. FoldLeft(ParsesLine, st, p \o q) = next
  BY <1>6, <1>7, <1>8
<1> QED
  BY <1>5, <1>9 DEF Doomed, p

\* The parser in the last hunk, when it has read some lines of it.
In(files, o, n, hs, h, lines, x) == At(Append(files, FileRecord(o, n, Append(hs, HunkWith(h, lines)))), Yes, x)

\* The rendered lines of a hunk are read into it, or one of them as a header.
LEMMA LinesAreRead ==
  ASSUME NEW S, NEW files \in Seq(S), NEW x, NEW o, NEW n, NEW hs \in Seq(HunkSet), NEW h \in HunkSet,
         Whole(h)
  PROVE  LET st == FoldLeft(ParsesLine, In(files, o, n, hs, h, <<>>, x), RenderedLines(h))
         IN  st = In(files, o, n, hs, h, h.lines, x) \/ (Doomed(st) /\ IsDashed(h))
<1> DEFINE lines == h.lines
           r == RenderedLines(h)
           m == Len(lines)
           b == In(files, o, n, hs, h, <<>>, x)
           st(k) == FoldLeft(ParsesLine, b, SubSeq(r, 1, k))
           T == {k \in 0..m : st(k) = In(files, o, n, hs, h, SubSeq(lines, 1, k), x)
                              \/ (Doomed(st(k)) /\ IsDashed(h))}
<1>1. /\ r \in Seq(DiffLines) /\ Len(r) = m /\ lines \in Seq(ScriptLines) /\ m \in Nat
      /\ \A i \in 1..m : r[i] = Rendered(lines[i])
  <2>1. h.lines \in Seq(ScriptLines)
    BY HunkIs
  <2>2. /\ RenderedLines(h) \in Seq(DiffLines) /\ Len(RenderedLines(h)) = Len(h.lines)
        /\ \A i \in 1..Len(h.lines) : RenderedLines(h)[i] = Rendered(h.lines[i])
    BY BodyIs
  <2>3. Len(h.lines) \in Nat
    BY <2>1
  <2> QED
    BY <2>1, <2>2, <2>3
<1> HIDE DEF r
<1>2. /\ SubSeq(r, 1, 0) = <<>> /\ SubSeq(r, 1, m) = r
      /\ \A k \in 1..m : SubSeq(r, 1, k) = Append(SubSeq(r, 1, k - 1), r[k]) /\ r[k] \in DiffLines
      /\ \A k \in 0..m : SubSeq(r, 1, k) \in Seq(DiffLines)
  BY <1>1, FirstElements
<1>3. /\ SubSeq(lines, 1, 0) = <<>> /\ SubSeq(lines, 1, m) = lines
      /\ \A k \in 1..m : /\ SubSeq(lines, 1, k) = Append(SubSeq(lines, 1, k - 1), lines[k])
                         /\ lines[k] \in ScriptLines
      /\ \A k \in 0..m : SubSeq(lines, 1, k) \in Seq(ScriptLines)
  BY <1>1, FirstElements
<1>4. 0 \in T
  <2>1. FoldLeft(ParsesLine, b, <<>>) = b
    BY ParsesLineNothing
  <2>2. st(0) = b
    BY <2>1, <1>2, Zenon
  <2>3. In(files, o, n, hs, h, SubSeq(lines, 1, 0), x) = b
    BY <1>3, Zenon
  <2> QED
    BY <2>2, <2>3, <1>1
<1>5. ASSUME NEW k \in 1..m, k - 1 \in T PROVE k \in T
  <2> DEFINE before == SubSeq(lines, 1, k - 1)
             l == lines[k]
             s == st(k - 1)
  <2>1. k - 1 \in 0..m /\ k \in 0..m
    BY <1>1
  <2>2. SubSeq(r, 1, k) = Append(SubSeq(r, 1, k - 1), r[k]) /\ SubSeq(r, 1, k - 1) \in Seq(DiffLines) /\ r[k] \in DiffLines
    BY <1>2, <2>1
  <2>3. st(k) = ParsesLine(s, r[k])
    <3> DEFINE u == SubSeq(r, 1, k - 1)
    <3>1. FoldLeft(ParsesLine, b, Append(u, r[k])) = ParsesLine(FoldLeft(ParsesLine, b, u), r[k])
      <4> HIDE DEF u, b
      <4>1. u \in Seq(DiffLines) /\ r[k] \in DiffLines
        BY <2>2 DEF u
      <4> QED
        BY <4>1, ParsesLineMore
    <3> QED
      BY <3>1, <2>2
  <2>4. r[k] = Rendered(l) /\ l \in ScriptLines /\ before \in Seq(ScriptLines)
        /\ SubSeq(lines, 1, k) = Append(before, l)
    BY <1>1, <1>3, <2>1
  <2>a. l.content \notin Cut
    <3>1. k \in DOMAIN lines
      BY <1>1
    <3> QED
      BY <3>1 DEF Whole
  <2>5. s = In(files, o, n, hs, h, before, x) \/ (Doomed(s) /\ IsDashed(h))
    BY <1>5
  <2> HIDE DEF st, T
  <2>6. CASE s = In(files, o, n, hs, h, before, x)
    <3> DEFINE g == HunkWith(h, before)
    <3>1. g \in HunkSet /\ g.lines = before /\ HunkWith(g, Append(before, l)) = HunkWith(h, Append(before, l))
      BY <2>4, HunkIs, ZenonT(60)
    <3> HIDE DEF g, before, l, lines
    <3>2. LET st1 == ParsesLine(At(Append(files, FileRecord(o, n, Append(hs, g))), Yes, x), Rendered(l))
          IN  /\ l # Line("-", Dashes) =>
                   st1 = At(Append(files, FileRecord(o, n, Append(hs, HunkWith(g, Append(g.lines, l))))), Yes, x)
              /\ l = Line("-", Dashes) => Doomed(st1)
      BY <3>1, <2>4, <2>a, LineIsReadInto
    <3>3. s = At(Append(files, FileRecord(o, n, Append(hs, g))), Yes, x)
      BY <2>6 DEF In, g
    <3>4. CASE l # Line("-", Dashes)
      <4>1. st(k) = In(files, o, n, hs, h, Append(before, l), x)
        BY <3>1, <3>2, <3>3, <3>4, <2>3, <2>4 DEF In
      <4>2. st(k) = In(files, o, n, hs, h, SubSeq(lines, 1, k), x)
        BY <4>1, <2>4
      <4> QED
        BY <4>2, <2>1 DEF T
    <3>5. CASE l = Line("-", Dashes)
      <4>1. Doomed(st(k))
        BY <3>2, <3>3, <3>5, <2>3, <2>4
      <4>2. k \in DOMAIN lines
        BY <1>1
      <4>3. IsDashed(h)
        BY <4>2, <3>5 DEF IsDashed, l, lines
      <4> QED
        BY <4>1, <4>3, <2>1 DEF T
    <3> QED
      BY <3>4, <3>5
  <2>7. CASE Doomed(s) /\ IsDashed(h)
    <3>1. r[k].kind # "+++"
      <4>1. Rendered(l).kind # "+++"
        BY DEF Rendered, Header
      <4> QED
        BY <4>1, <2>4
    <3>2. HasFailed(ParsesLine(s, r[k]))
      BY <2>7, <3>1, DoomedStays
    <3>3. Doomed(st(k))
      BY <2>3, <3>2 DEF Doomed
    <3> QED
      BY <3>3, <2>7, <2>1 DEF T
  <2> QED
    BY <2>5, <2>6, <2>7
<1>6. m \in T
  <2> HIDE DEF T, m
  <2>1. \A k \in 0..m : k \in T
    BY <1>1, <1>4, <1>5, UpTo
  <2> QED
    BY <2>1, <1>1
<1>7. st(m) = FoldLeft(ParsesLine, b, r)
  BY <1>2, Zenon
<1>8. In(files, o, n, hs, h, SubSeq(lines, 1, m), x) = In(files, o, n, hs, h, lines, x)
  BY <1>3, Zenon
<1>9. st(m) = In(files, o, n, hs, h, SubSeq(lines, 1, m), x) \/ (Doomed(st(m)) /\ IsDashed(h))
  BY <1>6
<1> QED
  BY <1>7, <1>8, <1>9 DEF r

\* A hunk is read behind those before it.
LEMMA BodyIsRead ==
  ASSUME NEW S, NEW files \in Seq(S), NEW in, NEW x, NEW o, NEW n, NEW hs \in Seq(HunkSet), NEW h \in HunkSet,
         Whole(h)
  PROVE  LET st == FoldLeft(ParsesLine, At(Append(files, FileRecord(o, n, hs)), in, x), BodyOf(h))
         IN  st = At(Append(files, FileRecord(o, n, Append(hs, h))), Yes, x) \/ (Doomed(st) /\ IsDashed(h))
<1> DEFINE b == At(Append(files, FileRecord(o, n, hs)), in, x)
           head == HunkHeader(h)
           r == RenderedLines(h)
           first == In(files, o, n, hs, h, <<>>, x)
<1>1. head \in DiffLines /\ r \in Seq(DiffLines) /\ BodyOf(h) = Append(<<>>, head) \o r
  BY BodyIs
<1>2. ParsesLine(b, head) = first
  BY HunkHeaderIsRead DEF In
<1>3. FoldLeft(ParsesLine, first, r) = In(files, o, n, hs, h, h.lines, x)
      \/ (Doomed(FoldLeft(ParsesLine, first, r)) /\ IsDashed(h))
  BY LinesAreRead
<1>4. In(files, o, n, hs, h, h.lines, x) = At(Append(files, FileRecord(o, n, Append(hs, h))), Yes, x)
  BY HunkIs DEF In
<1> HIDE DEF b, head, r, first
<1>5. <<>> \in Seq(DiffLines) /\ Append(<<>>, head) \in Seq(DiffLines)
  BY <1>1
<1>6. FoldLeft(ParsesLine, b, Append(<<>>, head)) = ParsesLine(FoldLeft(ParsesLine, b, <<>>), head)
  BY <1>1, <1>5, ParsesLineMore
<1>7. FoldLeft(ParsesLine, b, <<>>) = b
  BY ParsesLineNothing
<1> DEFINE p == Append(<<>>, head)
<1>8. FoldLeft(ParsesLine, b, p) = first /\ p \in Seq(DiffLines) /\ BodyOf(h) = p \o r
  BY <1>1, <1>2, <1>5, <1>6, <1>7
<1> HIDE DEF p
<1>9. FoldLeft(ParsesLine, b, p \o r) = FoldLeft(ParsesLine, FoldLeft(ParsesLine, b, p), r)
  BY <1>1, <1>8, ParsesBoth
<1>10. FoldLeft(ParsesLine, b, BodyOf(h)) = FoldLeft(ParsesLine, first, r)
  BY <1>8, <1>9
<1> QED
  BY <1>3, <1>4, <1>10 DEF b

\* What diff renders of a file.
Bodies(hunks) == [k \in DOMAIN hunks |-> BodyOf(hunks[k])]
Headers(o, n) == Append(Append(Append(<<>>, [kind |-> "git"]), Header("---", o)), Header("+++", n))
SomeDashed(hunks) == \E k \in DOMAIN hunks : IsDashed(hunks[k])

\* The parts of a diff.
LEMMA DiffIs ==
  ASSUME NEW o \in Paths \cup {None}, NEW n \in Paths \cup {None}, NEW hunks \in Seq(HunkSet)
  PROVE  /\ Bodies(hunks) \in Seq(Seq(DiffLines)) /\ Len(Bodies(hunks)) = Len(hunks)
         /\ \A k \in 1..Len(hunks) : Bodies(hunks)[k] = BodyOf(hunks[k])
         /\ Headers(o, n) \in Seq(DiffLines) /\ FlattenSeq(Bodies(hunks)) \in Seq(DiffLines)
         /\ Diff(o, n, hunks) = Headers(o, n) \o FlattenSeq(Bodies(hunks)) /\ Diff(o, n, hunks) \in Seq(DiffLines)
         /\ [kind |-> "git"] \in DiffLines /\ Header("---", o) \in DiffLines /\ Header("+++", n) \in DiffLines
<1>1. \A k \in 1..Len(hunks) : BodyOf(hunks[k]) \in Seq(DiffLines)
  <2>1. \A k \in 1..Len(hunks) : hunks[k] \in HunkSet
    OBVIOUS
  <2>2. \A h \in HunkSet : BodyOf(h) \in Seq(DiffLines)
    BY BodyIs
  <2> QED
    BY <2>1, <2>2
<1>2. /\ Bodies(hunks) \in Seq(Seq(DiffLines)) /\ Len(Bodies(hunks)) = Len(hunks)
      /\ \A k \in 1..Len(hunks) : Bodies(hunks)[k] = BodyOf(hunks[k])
  <2> DEFINE T == Seq(DiffLines)
  <2>1. \A k \in 1..Len(hunks) : BodyOf(hunks[k]) \in T
    BY <1>1
  <2> HIDE DEF T
  <2>2. /\ Bodies(hunks) \in Seq(T) /\ Len(Bodies(hunks)) = Len(hunks)
        /\ \A k \in 1..Len(hunks) : Bodies(hunks)[k] = BodyOf(hunks[k])
    BY <2>1 DEF Bodies
  <2> QED
    BY <2>2 DEF T
<1>3. [kind |-> "git"] \in DiffLines /\ Header("---", o) \in DiffLines /\ Header("+++", n) \in DiffLines
  BY DEF DiffLines
<1>4. FlattenSeq(Bodies(hunks)) \in Seq(DiffLines)
  BY <1>2, FlatType
<1> DEFINE g == [kind |-> "git"]
           a == Header("---", o)
           c == Header("+++", n)
           p == FlattenSeq(Bodies(hunks))
<1>5. Diff(o, n, hunks) = <<g, a, c>> \o p
  BY DEF Diff, Bodies
<1> HIDE DEF g, a, c, p
<1>6. <<g, a, c>> = Append(Append(Append(<<>>, g), a), c)
  OBVIOUS
<1>7. Append(Append(Append(<<>>, g), a), c) \in Seq(DiffLines) /\ p \in Seq(DiffLines)
  BY <1>3, <1>4 DEF g, a, c, p
<1>8. Append(Append(Append(<<>>, g), a), c) \o p \in Seq(DiffLines)
  BY <1>7, JoinsMore
<1>9. Headers(o, n) = Append(Append(Append(<<>>, g), a), c)
  BY DEF Headers, g, a, c
<1> QED
  BY <1>2, <1>3, <1>4, <1>5, <1>6, <1>7, <1>8, <1>9 DEF p


\* A parser that has failed reads nothing more.
LEMMA FailsStays ==
  ASSUME NEW st, HasFailed(st), NEW t
  PROVE  ParsesLine(st, t) = st
<1>1. st.failed = TRUE
  BY DEF HasFailed, State, Yes
<1> QED
  BY <1>1 DEF ParsesLine

\* All the hunks of a file are read, unless a removed line was read as a header.
LEMMA BodiesAreRead ==
  ASSUME NEW S, NEW files \in Seq(S), NEW x, NEW o, NEW n, NEW hunks \in Seq(HunkSet),
         \A k \in DOMAIN hunks : Whole(hunks[k])
  PROVE  LET st == FoldLeft(ParsesLine, At(Append(files, FileRecord(o, n, <<>>)), No, x), FlattenSeq(Bodies(hunks)))
         IN  Reads(st, Append(files, FileRecord(o, n, hunks))) \/ (Doomed(st) /\ SomeDashed(hunks))
<1> DEFINE bs == Bodies(hunks)
           m == Len(hunks)
           b == At(Append(files, FileRecord(o, n, <<>>)), No, x)
           flat(k) == FlattenSeq(SubSeq(bs, 1, k))
           st(k) == FoldLeft(ParsesLine, b, flat(k))
           read(k) == Append(files, FileRecord(o, n, SubSeq(hunks, 1, k)))
           bad == SomeDashed(hunks)
           T == {k \in 0..m : Reads(st(k), read(k)) \/ (Doomed(st(k)) /\ bad)}
<1>1. /\ bs \in Seq(Seq(DiffLines)) /\ Len(bs) = m /\ m \in Nat
      /\ \A k \in 1..m : bs[k] = BodyOf(hunks[k])
  <2>1. /\ Bodies(hunks) \in Seq(Seq(DiffLines)) /\ Len(Bodies(hunks)) = Len(hunks)
        /\ \A k \in 1..Len(hunks) : Bodies(hunks)[k] = BodyOf(hunks[k])
    BY DiffIs
  <2>2. Len(hunks) \in Nat
    OBVIOUS
  <2> QED
    BY <2>1, <2>2
<1> HIDE DEF bs
<1>2. /\ SubSeq(bs, 1, 0) = <<>> /\ SubSeq(bs, 1, m) = bs
      /\ \A k \in 1..m : SubSeq(bs, 1, k) = Append(SubSeq(bs, 1, k - 1), bs[k]) /\ bs[k] \in Seq(DiffLines)
      /\ \A k \in 0..m : SubSeq(bs, 1, k) \in Seq(Seq(DiffLines))
  BY <1>1, FirstElements
<1>3. /\ SubSeq(hunks, 1, 0) = <<>> /\ SubSeq(hunks, 1, m) = hunks
      /\ \A k \in 1..m : SubSeq(hunks, 1, k) = Append(SubSeq(hunks, 1, k - 1), hunks[k]) /\ hunks[k] \in HunkSet
      /\ \A k \in 0..m : SubSeq(hunks, 1, k) \in Seq(HunkSet)
  BY <1>1, FirstElements
<1>4. 0 \in T
  <2>0. FlattenSeq(<<>>) = <<>>
    BY FlatNothing
  <2>1. flat(0) = <<>>
    BY <1>2, <2>0, Zenon
  <2>2. FoldLeft(ParsesLine, b, <<>>) = b
    BY ParsesLineNothing
  <2>3. st(0) = b
    BY <2>1, <2>2, Zenon
  <2>4. read(0) = Append(files, FileRecord(o, n, <<>>))
    BY <1>3, Zenon
  <2>5. st(0) = At(read(0), No, x)
    BY <2>3, <2>4, Zenon
  <2> HIDE DEF st, read
  <2> QED
    BY <2>5, <1>1 DEF Reads
<1>5. ASSUME NEW k \in 1..m, k - 1 \in T PROVE k \in T
  <2> DEFINE s == st(k - 1)
             before == SubSeq(hunks, 1, k - 1)
             h == hunks[k]
  <2>1. k - 1 \in 0..m /\ k \in 0..m
    BY <1>1
  <2>2. flat(k) = flat(k - 1) \o bs[k] /\ bs[k] = BodyOf(h) /\ flat(k - 1) \in Seq(DiffLines) /\ BodyOf(h) \in Seq(DiffLines)
    <3>1. FlattenSeq(Append(SubSeq(bs, 1, k - 1), bs[k])) = FlattenSeq(SubSeq(bs, 1, k - 1)) \o bs[k]
      BY <1>2, <2>1, FlatMore
    <3>2. FlattenSeq(SubSeq(bs, 1, k - 1)) \in Seq(DiffLines)
      BY <1>2, <2>1, FlatType
    <3>3. h \in HunkSet
      BY <1>3
    <3>4. BodyOf(h) \in Seq(DiffLines)
      BY <3>3, BodyIs
    <3> QED
      BY <3>1, <3>2, <3>4, <1>1, <1>2
  <2>3. st(k) = FoldLeft(ParsesLine, s, BodyOf(h))
    <3> DEFINE p == flat(k - 1)
               q == BodyOf(h)
    <3>1. p \in Seq(DiffLines) /\ q \in Seq(DiffLines)
      BY <2>2
    <3>2. FoldLeft(ParsesLine, b, p \o q) = FoldLeft(ParsesLine, FoldLeft(ParsesLine, b, p), q)
      <4> HIDE DEF p, q, b
      <4> QED
        BY <3>1, ParsesBoth
    <3>3. flat(k) = p \o q
      BY <2>2
    <3> QED
      BY <3>2, <3>3, Zenon
  <2>4. h \in HunkSet /\ before \in Seq(HunkSet) /\ SubSeq(hunks, 1, k) = Append(before, h)
    BY <1>3, <2>1
  <2>5. Reads(s, read(k - 1)) \/ (Doomed(s) /\ bad)
    BY <1>5
  <2>6. CASE \E in, old : s = At(read(k - 1), in, old)
    <3>1. PICK in, old : s = At(Append(files, FileRecord(o, n, before)), in, old)
      BY <2>6
    <3>2. LET st1 == FoldLeft(ParsesLine, At(Append(files, FileRecord(o, n, before)), in, old), BodyOf(h))
          IN  st1 = At(Append(files, FileRecord(o, n, Append(before, h))), Yes, old) \/ (Doomed(st1) /\ IsDashed(h))
      <4>1. k \in DOMAIN hunks
        BY <1>1
      <4>2. Whole(h)
        BY <4>1
      <4> HIDE DEF h, before
      <4> QED
        BY <4>2, <2>4, BodyIsRead
    <3>3. read(k) = Append(files, FileRecord(o, n, Append(before, h)))
      BY <2>4
    <3>4. st(k) = FoldLeft(ParsesLine, At(Append(files, FileRecord(o, n, before)), in, old), BodyOf(h))
      BY <2>3, <3>1
    <3>5. IsDashed(h) => bad
      <4>1. k \in DOMAIN hunks
        BY <1>1
      <4> QED
        BY <4>1 DEF SomeDashed
    <3> HIDE DEF st, read, h, before, bad, s, T
    <3>6. st(k) = At(read(k), Yes, old) \/ (Doomed(st(k)) /\ bad)
      BY <3>2, <3>3, <3>4, <3>5
    <3>7. Reads(st(k), read(k)) \/ (Doomed(st(k)) /\ bad)
      BY <3>6 DEF Reads
    <3> QED
      BY <3>7, <2>1 DEF T
  <2>7. CASE Doomed(s) /\ bad
    <3>1. /\ HunkHeader(h) \in DiffLines /\ RenderedLines(h) \in Seq(DiffLines)
          /\ BodyOf(h) = Append(<<>>, HunkHeader(h)) \o RenderedLines(h)
      BY <2>4, BodyIs
    <3>2. HunkHeader(h).kind # "+++"
      BY DEF HunkHeader
    <3> DEFINE t == HunkHeader(h)
               q == RenderedLines(h)
    <3>3. Doomed(FoldLeft(ParsesLine, s, Append(<<>>, t) \o q))
      <4> HIDE DEF s, t, q
      <4>1. t \in DiffLines /\ q \in Seq(DiffLines) /\ t.kind # "+++"
        BY <3>1, <3>2 DEF t, q
      <4> QED
        BY <4>1, <2>7, DoomedStaysDoomed
    <3>4. Doomed(st(k))
      BY <3>1, <3>3, <2>3, Zenon
    <3> HIDE DEF st, read, bad, T
    <3> QED
      BY <3>4, <2>7, <2>1 DEF T
  <2> HIDE DEF s, bad, read, T
  <2> QED
    BY <2>5, <2>6, <2>7 DEF Reads
<1>6. m \in T
  <2> HIDE DEF T, m
  <2>1. \A k \in 0..m : k \in T
    BY <1>1, <1>4, <1>5, UpTo
  <2> QED
    BY <2>1, <1>1
<1>7. Reads(st(m), read(m)) \/ (Doomed(st(m)) /\ bad)
  BY <1>6
<1>8. st(m) = FoldLeft(ParsesLine, b, FlattenSeq(bs)) /\ read(m) = Append(files, FileRecord(o, n, hunks))
  BY <1>2, <1>3, Zenon
<1> QED
  BY <1>7, <1>8, Zenon DEF bs

\* The three lines before the hunks.
LEMMA HeadersAreFolded ==
  ASSUME NEW b, NEW o \in Paths \cup {None}, NEW n \in Paths \cup {None}
  PROVE  FoldLeft(ParsesLine, b, Headers(o, n))
           = ParsesLine(ParsesLine(ParsesLine(b, [kind |-> "git"]), Header("---", o)), Header("+++", n))
<1> DEFINE g == [kind |-> "git"]
           a == Header("---", o)
           c == Header("+++", n)
           e == <<>>
           p == Append(e, g)
           q == Append(p, a)
<1>1. g \in DiffLines /\ a \in DiffLines /\ c \in DiffLines
  BY DEF DiffLines
<1>2. Headers(o, n) = Append(q, c)
  BY DEF Headers
<1> HIDE DEF g, a, c
<1>3. e \in Seq(DiffLines) /\ p \in Seq(DiffLines) /\ q \in Seq(DiffLines)
  BY <1>1
<1>4. FoldLeft(ParsesLine, b, e) = b
  BY ParsesLineNothing
<1> HIDE DEF e
<1>a. e \in Seq(DiffLines) /\ g \in DiffLines
  BY <1>1, <1>3
<1>b. FoldLeft(ParsesLine, b, Append(e, g)) = ParsesLine(FoldLeft(ParsesLine, b, e), g)
  BY <1>a, ParsesLineMore
<1>5. FoldLeft(ParsesLine, b, p) = ParsesLine(b, g)
  BY <1>4, <1>b
<1> HIDE DEF p
<1>6. FoldLeft(ParsesLine, b, q) = ParsesLine(FoldLeft(ParsesLine, b, p), a)
  BY <1>1, <1>3, ParsesLineMore
<1> HIDE DEF q
<1>7. FoldLeft(ParsesLine, b, Append(q, c)) = ParsesLine(FoldLeft(ParsesLine, b, q), c)
  BY <1>1, <1>3, ParsesLineMore
<1> QED
  BY <1>2, <1>5, <1>6, <1>7 DEF g, a, c

\* The diff of a file is read behind those before it.
LEMMA DiffIsRead ==
  ASSUME NEW S, NEW files \in Seq(S), NEW b, NEW bad, Reads(b, files) \/ (Doomed(b) /\ bad),
         NEW o \in Paths \cup {None}, NEW n \in Paths \cup {None}, NEW hunks \in Seq(HunkSet),
         \A k \in DOMAIN hunks : Whole(hunks[k])
  PROVE  LET st == FoldLeft(ParsesLine, b, Diff(o, n, hunks))
         IN  Reads(st, Append(files, FileRecord(o, n, hunks))) \/ (Doomed(st) /\ (bad \/ SomeDashed(hunks)))
<1> DEFINE p == Headers(o, n)
           q == FlattenSeq(Bodies(hunks))
           mid == FoldLeft(ParsesLine, b, p)
           st == FoldLeft(ParsesLine, b, Diff(o, n, hunks))
           read == Append(files, FileRecord(o, n, hunks))
           g == [kind |-> "git"]
           a == Header("---", o)
           c == Header("+++", n)
<1>1. p \in Seq(DiffLines) /\ q \in Seq(DiffLines) /\ Diff(o, n, hunks) = p \o q
  BY DiffIs
<1>2. mid = ParsesLine(ParsesLine(ParsesLine(b, g), a), c)
  BY HeadersAreFolded
<1>3. st = FoldLeft(ParsesLine, mid, q)
  <2>1. FoldLeft(ParsesLine, b, p \o q) = FoldLeft(ParsesLine, FoldLeft(ParsesLine, b, p), q)
    <3> HIDE DEF p, q
    <3> QED
      BY <1>1, ParsesBoth
  <2> QED
    BY <2>1, <1>1, Zenon
<1>4. CASE \E in, old : b = At(files, in, old)
  <2>1. PICK in, x : b = At(files, in, x)
    BY <1>4
  <2>2. /\ ParsesLine(At(files, in, x), g) = At(files, in, x)
        /\ ParsesLine(At(files, in, x), a) = State(files, in, Yes, o, No)
        /\ ParsesLine(State(files, in, Yes, o, No), c) = At(Append(files, FileRecord(o, n, <<>>)), No, o)
    BY GitIsRead, OldNameIsRead, NewNameIsRead
  <2>3. mid = At(Append(files, FileRecord(o, n, <<>>)), No, o)
    <3> HIDE DEF mid, g, a, c
    <3> QED
      BY <1>2, <2>1, <2>2
  <2>4. LET st1 == FoldLeft(ParsesLine, At(Append(files, FileRecord(o, n, <<>>)), No, o), q)
        IN  Reads(st1, read) \/ (Doomed(st1) /\ SomeDashed(hunks))
    BY BodiesAreRead
  <2>5. Reads(st, read) \/ (Doomed(st) /\ SomeDashed(hunks))
    BY <2>3, <2>4, <1>3, Zenon
  <2> QED
    BY <2>5
<1>5. CASE Doomed(b) /\ bad
  <2> DEFINE next == ParsesLine(b, g)
  <2>1. HasFailed(next)
    <3> g.kind # "+++"
      OBVIOUS
    <3> HIDE DEF g
    <3> QED
      BY <1>5, DoomedStays
  <2> HIDE DEF next
  <2>2. ParsesLine(next, a) = next /\ ParsesLine(next, c) = next
    BY <2>1, FailsStays
  <2>3. mid = next
    <3> HIDE DEF mid, g, a, c
    <3> QED
      BY <1>2, <2>2 DEF next
  <2>4. FoldLeft(ParsesLine, next, q) = next
    <3> HIDE DEF q
    <3> QED
      BY <1>1, <2>1, FailsForGood
  <2>5. st = next
    BY <2>3, <2>4, <1>3, Zenon
  <2>6. Doomed(st)
    BY <2>1, <2>5 DEF Doomed
  <2> QED
    BY <2>6, <1>5
<1> QED
  BY <1>4, <1>5 DEF Reads

\* What a file patch names.
LEMMA FilePatchIs ==
  ASSUME NEW f \in FilePatches
  PROVE  /\ f.old \in Flat \cup {None} /\ f.new \in Flat \cup {None} /\ Flat \subseteq Paths
         /\ f.old \in Paths \cup {None} /\ f.new \in Paths \cup {None}
         /\ f.script \in Seq(ScriptLines) /\ f.shown \in SUBSET Nat
<1>1. Flat \subseteq Paths
  BY DEF Flat
<1> QED
  BY <1>1 DEF FilePatches

\* What diff makes of a patch, and what the parser should make of that.
FileOf(file) == FileRecord(file.old, file.new, Hunks(file.script, file.shown))
FilesOf(patch) == [i \in DOMAIN patch |-> FileOf(patch[i])]
Diffs(patch) ==
  [i \in DOMAIN patch |-> Diff(patch[i].old, patch[i].new, Hunks(patch[i].script, patch[i].shown))]
Shows(patch) ==
  /\ patch \in Seq(FilePatches)
  /\ \A i \in DOMAIN patch : Hunks(patch[i].script, patch[i].shown) \in Seq(HunkSet)
PatchDashed(patch) == \E i \in DOMAIN patch : SomeDashed(Hunks(patch[i].script, patch[i].shown))
PatchWhole(patch) ==
  \A i \in DOMAIN patch : LET hunks == Hunks(patch[i].script, patch[i].shown) IN
    \A k \in DOMAIN hunks : Whole(hunks[k])

\* The parser reads the files of a patch, unless a removed line looks like a header.
LEMMA PatchIsRead ==
  ASSUME NEW patch, Shows(patch), PatchWhole(patch)
  PROVE  LET st == FoldLeft(ParsesLine, NotParsed, DiffOf(patch))
         IN  Reads(st, FilesOf(patch)) \/ (Doomed(st) /\ PatchDashed(patch))
<1> DEFINE ds == Diffs(patch)
           fs == FilesOf(patch)
           m == Len(patch)
           S == {FileOf(patch[i]) : i \in 1..m}
           flat(k) == FlattenSeq(SubSeq(ds, 1, k))
           st(k) == FoldLeft(ParsesLine, NotParsed, flat(k))
           bad == PatchDashed(patch)
           T == {k \in 0..m : Reads(st(k), SubSeq(fs, 1, k)) \/ (Doomed(st(k)) /\ bad)}
<1>1. m \in Nat /\ DOMAIN patch = 1..m /\ \A i \in 1..m : patch[i] \in FilePatches
  BY DEF Shows
<1>2. \A i \in 1..m : /\ patch[i].old \in Paths \cup {None} /\ patch[i].new \in Paths \cup {None}
                      /\ Hunks(patch[i].script, patch[i].shown) \in Seq(HunkSet)
  BY <1>1, FilePatchIs DEF Shows
<1>3. \A i \in 1..m : Diff(patch[i].old, patch[i].new, Hunks(patch[i].script, patch[i].shown)) \in Seq(DiffLines)
  BY <1>2, DiffIs
<1>4. /\ ds \in Seq(Seq(DiffLines)) /\ Len(ds) = m
      /\ \A i \in 1..m : ds[i] = Diff(patch[i].old, patch[i].new, Hunks(patch[i].script, patch[i].shown))
  <2> DEFINE D == Seq(DiffLines)
             d(i) == Diff(patch[i].old, patch[i].new, Hunks(patch[i].script, patch[i].shown))
  <2>1. \A i \in 1..m : d(i) \in D
    BY <1>3
  <2>2. ds = [i \in 1..m |-> d(i)]
    BY <1>1 DEF Diffs
  <2> HIDE DEF D, d, m, ds
  <2>3. ds \in Seq(D) /\ Len(ds) = m /\ \A i \in 1..m : ds[i] = d(i)
    BY <1>1, <2>1, <2>2
  <2> QED
    BY <2>3 DEF D, d
<1>5. fs \in Seq(S) /\ Len(fs) = m /\ \A i \in 1..m : fs[i] = FileOf(patch[i])
  <2>1. fs = [i \in 1..m |-> FileOf(patch[i])]
    BY <1>1 DEF FilesOf
  <2>2. \A i \in 1..m : FileOf(patch[i]) \in S
    OBVIOUS
  <2> HIDE DEF S, m, fs
  <2> QED
    BY <1>1, <2>1, <2>2
<1> HIDE DEF ds, fs, S, m
<1>6. /\ SubSeq(ds, 1, 0) = <<>> /\ SubSeq(ds, 1, m) = ds
      /\ \A k \in 1..m : SubSeq(ds, 1, k) = Append(SubSeq(ds, 1, k - 1), ds[k]) /\ ds[k] \in Seq(DiffLines)
      /\ \A k \in 0..m : SubSeq(ds, 1, k) \in Seq(Seq(DiffLines))
  BY <1>4, FirstElements
<1>7. /\ SubSeq(fs, 1, 0) = <<>> /\ SubSeq(fs, 1, m) = fs
      /\ \A k \in 1..m : SubSeq(fs, 1, k) = Append(SubSeq(fs, 1, k - 1), fs[k])
      /\ \A k \in 0..m : SubSeq(fs, 1, k) \in Seq(S)
  BY <1>5, FirstElements
<1>8. 0 \in T
  <2>0. FlattenSeq(<<>>) = <<>>
    BY FlatNothing
  <2>1. flat(0) = <<>>
    BY <1>6, <2>0, Zenon
  <2>2. FoldLeft(ParsesLine, NotParsed, <<>>) = NotParsed
    BY ParsesLineNothing
  <2>3. st(0) = NotParsed
    BY <2>1, <2>2, Zenon
  <2>4. NotParsed = At(<<>>, No, None)
    BY DEF NotParsed, At, State, No
  <2>5. st(0) = At(SubSeq(fs, 1, 0), No, None)
    BY <2>3, <2>4, <1>7, Zenon
  <2> HIDE DEF st
  <2> QED
    BY <2>5, <1>1 DEF Reads
<1>9. ASSUME NEW k \in 1..m, k - 1 \in T PROVE k \in T
  <2> DEFINE s == st(k - 1)
             o == patch[k].old
             n == patch[k].new
             hunks == Hunks(patch[k].script, patch[k].shown)
             before == SubSeq(fs, 1, k - 1)
  <2>1. k - 1 \in 0..m /\ k \in 0..m
    BY <1>1
  <2>2. ds[k] = Diff(o, n, hunks) /\ fs[k] = FileRecord(o, n, hunks)
        /\ o \in Paths \cup {None} /\ n \in Paths \cup {None} /\ hunks \in Seq(HunkSet)
    BY <1>2, <1>4, <1>5 DEF FileOf
  <2>3. /\ Reads(s, before) \/ (Doomed(s) /\ bad)
        /\ before \in Seq(S) /\ SubSeq(fs, 1, k) = Append(before, FileRecord(o, n, hunks))
    BY <1>7, <1>9, <2>1, <2>2
  <2>4. flat(k) = flat(k - 1) \o ds[k] /\ flat(k - 1) \in Seq(DiffLines) /\ ds[k] \in Seq(DiffLines)
    <3>1. FlattenSeq(Append(SubSeq(ds, 1, k - 1), ds[k])) = FlattenSeq(SubSeq(ds, 1, k - 1)) \o ds[k]
      BY <1>6, <2>1, FlatMore
    <3>2. FlattenSeq(SubSeq(ds, 1, k - 1)) \in Seq(DiffLines)
      BY <1>6, <2>1, FlatType
    <3> QED
      BY <3>1, <3>2, <1>6
  <2>5. st(k) = FoldLeft(ParsesLine, s, ds[k])
    <3> DEFINE p == flat(k - 1)
               q == ds[k]
    <3>1. p \in Seq(DiffLines) /\ q \in Seq(DiffLines) /\ flat(k) = p \o q
      BY <2>4
    <3>2. FoldLeft(ParsesLine, NotParsed, p \o q) = FoldLeft(ParsesLine, FoldLeft(ParsesLine, NotParsed, p), q)
      <4> HIDE DEF p, q
      <4> QED
        BY <3>1, ParsesBoth
    <3> QED
      BY <3>1, <3>2, Zenon
  <2>6. LET st1 == FoldLeft(ParsesLine, s, Diff(o, n, hunks))
        IN  Reads(st1, Append(before, FileRecord(o, n, hunks))) \/ (Doomed(st1) /\ (bad \/ SomeDashed(hunks)))
    <3>1. \A i \in DOMAIN hunks : Whole(hunks[i])
      <4>1. k \in DOMAIN patch
        BY <1>1
      <4> QED
        BY <4>1 DEF PatchWhole
    <3> HIDE DEF s, before, o, n, hunks, bad
    <3> QED
      BY <3>1, <2>2, <2>3, DiffIsRead
  <2>7. SomeDashed(hunks) => bad
    BY <1>1 DEF PatchDashed
  <2>8. Reads(st(k), SubSeq(fs, 1, k)) \/ (Doomed(st(k)) /\ (bad \/ SomeDashed(hunks)))
    BY <2>2, <2>3, <2>5, <2>6, Zenon
  <2> HIDE DEF st, bad, hunks, T
  <2> QED
    BY <2>1, <2>7, <2>8 DEF T
<1>10. m \in T
  <2> HIDE DEF T
  <2>1. \A k \in 0..m : k \in T
    BY <1>1, <1>8, <1>9, UpTo
  <2> QED
    BY <2>1, <1>1
<1>11. Reads(st(m), SubSeq(fs, 1, m)) \/ (Doomed(st(m)) /\ bad)
  BY <1>10
<1>12. st(m) = FoldLeft(ParsesLine, NotParsed, FlattenSeq(ds)) /\ SubSeq(fs, 1, m) = fs
  BY <1>6, <1>7, Zenon
<1>13. DiffOf(patch) = FlattenSeq(ds)
  BY DEF DiffOf, Diffs, ds
<1> QED
  BY <1>11, <1>12, <1>13, Zenon DEF fs

\* What is parsed of a patch: the files it was made of, or, when a removed line
\* looks like a header, perhaps nothing.
LEMMA PatchIsParsed ==
  ASSUME NEW patch, Shows(patch), patch # <<>>, PatchWhole(patch)
  PROVE  Parsed(DiffOf(patch)) = FilesOf(patch) \/ (Parsed(DiffOf(patch)) = None /\ PatchDashed(patch))
<1> DEFINE d == DiffOf(patch)
           fs == FilesOf(patch)
           st == FoldLeft(ParsesLine, NotParsed, d)
<1>1. Reads(st, fs) \/ (Doomed(st) /\ PatchDashed(patch))
  BY PatchIsRead
<1>2. fs # <<>>
  BY DEF FilesOf, Shows
<1>3. Parsed(d) = IF st.failed \/ st.header \/ st.patches = <<>> THEN None ELSE st.patches
  BY DEF Parsed
<1> HIDE DEF st, d, fs
<1>4. CASE \E in, old : st = At(fs, in, old)
  <2>1. st.failed = FALSE /\ st.header = FALSE /\ st.patches = fs
    BY <1>4 DEF At, State, No
  <2> QED
    BY <2>1, <1>2, <1>3 DEF fs, d
<1>5. CASE Doomed(st) /\ PatchDashed(patch)
  <2>1. st.failed = TRUE \/ st.header = TRUE
    BY <1>5 DEF Doomed, HasFailed, State, Yes, No
  <2> QED
    BY <2>1, <1>3, <1>5 DEF d
<1> QED
  BY <1>1, <1>4, <1>5 DEF Reads
------------------------------------------------------------------------------
\* Whatever lines a diff has, the parser makes files of them.

\* The last hunk is there when the parser is in one.
ParserStates ==
  [patches : Seq(FileSet), inHunk : BOOLEAN, header : BOOLEAN, old : Paths \cup {None, Dashes}, failed : BOOLEAN]
Built(st) ==
  st \in ParserStates /\ (st.inHunk => st.patches # <<>> /\ Last(st.patches).hunks # <<>>)

\* The last element of a sequence.
LEMMA LastIs ==
  ASSUME NEW S, NEW s \in Seq(S), s # <<>>
  PROVE  Len(s) \in 1..Len(s) /\ Last(s) = s[Len(s)] /\ Last(s) \in S
BY DEF Last

\* What a line of a diff may be.
LEMMA TokenIs ==
  ASSUME NEW t \in DiffLines
  PROVE  \/ t.kind \in {"empty", "git"}
         \/ t.kind = "---" /\ t.path \in Paths \cup {None, Dashes}
         \/ t.kind = "+++" /\ t.path \in Paths \cup {None}
         \/ t.kind = "@@" /\ t.hunk \in HunkSet
         \/ t.kind \in {"line", "cut"} /\ t.line \in ScriptLines
<1>1. CASE t \in {Rendered(l) : l \in ScriptLines}
  <2>1. PICK l \in ScriptLines : t = Rendered(l)
    BY <1>1
  <2>2. CASE l = Line(" ", Blank)
    BY <2>1, <2>2 DEF Rendered
  <2>3. CASE l # Line(" ", Blank) /\ l = Line("-", Dashes)
    BY <2>1, <2>3 DEF Rendered, Header
  <2>4. CASE l # Line(" ", Blank) /\ l # Line("-", Dashes) /\ l.content \in Cut
    <3>1. Halves[l.content].first \in Contents
      BY <2>4, HalvesAreLines
    <3>2. Line(l.op, Halves[l.content].first) \in ScriptLines
      BY <3>1 DEF ScriptLines, Line
    <3> QED
      BY <2>1, <2>4, <3>2 DEF Rendered
  <2>5. CASE l # Line(" ", Blank) /\ l # Line("-", Dashes) /\ l.content \notin Cut
    BY <2>1, <2>5 DEF Rendered
  <2> QED
    BY <2>2, <2>3, <2>4, <2>5
<1>2. CASE t \in {[kind |-> "@@", hunk |-> [h EXCEPT !.lines = <<>>]] : h \in HunkSet}
  <2>0. <<>> \in Seq(ScriptLines)
    OBVIOUS
  <2>1. PICK h \in HunkSet : t = [kind |-> "@@", hunk |-> [h EXCEPT !.lines = <<>>]]
    BY <1>2
  <2>2. [h EXCEPT !.lines = <<>>] \in HunkSet
    BY <2>0 DEF HunkSet
  <2> QED
    BY <2>1, <2>2
<1>3. CASE t = [kind |-> "git"]
  BY <1>3
<1>4. CASE \E path \in Paths \cup {None} : t = Header("---", path) \/ t = Header("+++", path)
  BY <1>4 DEF Header
<1> QED
  BY <1>1, <1>2, <1>3, <1>4 DEF DiffLines

\* The last file gets other hunks.
LEMMA WithHunksIsBuilt ==
  ASSUME NEW st \in ParserStates, st.patches # <<>>, NEW hunks \in Seq(HunkSet), hunks # <<>>
  PROVE  Built(WithHunks(st, hunks)) /\ WithHunks(st, hunks).inHunk
<1> DEFINE fs == st.patches
           n == Len(fs)
           f == [fs[n] EXCEPT !.hunks = hunks]
           more == [fs EXCEPT ![n] = f]
           next == [st EXCEPT !.patches = more, !.inHunk = TRUE]
<1>1. fs \in Seq(FileSet) /\ n \in 1..n /\ fs[n] \in FileSet
  <2>1. fs \in Seq(FileSet)
    BY DEF ParserStates
  <2> QED
    BY <2>1, LastIs
<1>2. f \in FileSet /\ f.hunks = hunks
  BY <1>1 DEF FileSet
<1>3. more \in Seq(FileSet) /\ Len(more) = n /\ more[n] = f
  <2> HIDE DEF fs, f
  <2> QED
    BY <1>1, <1>2
<1>4. more # <<>> /\ Last(more) = f
  BY <1>1, <1>3 DEF Last
<1>5. WithHunks(st, hunks) = next
  BY DEF WithHunks
<1> HIDE DEF more, f, fs, n
<1>6. next \in ParserStates /\ next.patches = more /\ next.inHunk
  BY <1>3 DEF ParserStates
<1> QED
  BY <1>2, <1>4, <1>5, <1>6 DEF Built

\* A line is added to the last hunk.
LEMMA AddsLineIsBuilt ==
  ASSUME NEW st, Built(st), st.inHunk, NEW l \in ScriptLines
  PROVE  Built(AddsLine(st, l)) /\ AddsLine(st, l).inHunk
<1> DEFINE hunks == LastHunks(st)
           m == Len(hunks)
           h == [hunks[m] EXCEPT !.lines = Append(@, l)]
           more == [hunks EXCEPT ![m] = h]
<1>1. st \in ParserStates /\ st.patches # <<>> /\ hunks # <<>>
  BY DEF Built, LastHunks
<1>2. hunks \in Seq(HunkSet)
  <2>1. st.patches \in Seq(FileSet)
    BY <1>1 DEF ParserStates
  <2>2. Last(st.patches) \in FileSet
    BY <1>1, <2>1, LastIs
  <2> QED
    BY <2>2 DEF LastHunks, FileSet
<1>3. m \in 1..m /\ hunks[m] \in HunkSet
  <2> HIDE DEF hunks
  <2> QED
    BY <1>1, <1>2, LastIs
<1>4. h \in HunkSet
  <2> HIDE DEF hunks, m
  <2>1. hunks[m].lines \in Seq(ScriptLines)
    BY <1>3 DEF HunkSet
  <2>2. Append(hunks[m].lines, l) \in Seq(ScriptLines)
    BY <2>1, AppendIs
  <2> QED
    BY <1>3, <2>2 DEF HunkSet
<1>5. AddsLine(st, l) = WithHunks(st, more)
  BY DEF AddsLine
<1> HIDE DEF h, hunks
<1>6. more \in Seq(HunkSet) /\ more # <<>>
  BY <1>1, <1>2, <1>3, <1>4
<1> HIDE DEF more
<1> QED
  BY <1>1, <1>5, <1>6, WithHunksIsBuilt

\* A parser that breaks keeps what it has.
LEMMA BrokenIsBuilt ==
  ASSUME NEW st, Built(st)
  PROVE  Built(Broken(st))
<1> DEFINE next == [st EXCEPT !.failed = TRUE]
<1>1. next \in ParserStates /\ next.patches = st.patches /\ next.inHunk = st.inHunk
  BY DEF Built, ParserStates
<1>2. Broken(st) = next
  BY DEF Broken
<1> HIDE DEF next
<1> QED
  BY <1>1, <1>2 DEF Built

\* The name of a new file.
LEMMA NewNameIsBuilt ==
  ASSUME NEW st, Built(st), NEW t, t.kind = "+++" => t.path \in Paths \cup {None}
  PROVE  Built(ReadsNewName(st, t))
<1>1. CASE t.kind # "+++"
  BY <1>1, BrokenIsBuilt DEF ReadsNewName
<1>2. CASE t.kind = "+++"
  <2> DEFINE f == [old |-> st.old, new |-> t.path, hunks |-> <<>>]
             more == Append(st.patches, f)
             next == [st EXCEPT !.patches = more, !.inHunk = FALSE, !.header = FALSE]
  <2>1. st \in ParserStates /\ st.patches \in Seq(FileSet) /\ st.old \in Paths \cup {None, Dashes}
    BY DEF Built, ParserStates
  <2>2. f \in FileSet
    BY <2>1, <1>2 DEF FileSet
  <2>3. ReadsNewName(st, t) = next
    BY <1>2 DEF ReadsNewName
  <2> HIDE DEF f
  <2>4. more \in Seq(FileSet)
    BY <2>1, <2>2, AppendIs
  <2> HIDE DEF more
  <2>5. next \in ParserStates /\ next.inHunk = FALSE
    BY <2>1, <2>4 DEF ParserStates
  <2> QED
    BY <2>3, <2>5 DEF Built
<1> QED
  BY <1>1, <1>2

\* One more line of a diff; the name of the new file comes after that of the old.
LEMMA LineIsBuilt ==
  ASSUME NEW st, Built(st), NEW t \in DiffLines, t.kind # "+++" \/ st.failed \/ st.header
  PROVE  Built(ParsesLine(st, t))
<1>1. CASE st.failed
  BY <1>1 DEF ParsesLine
<1>2. CASE ~st.failed /\ st.header
  <2>1. t.kind = "+++" => t.path \in Paths \cup {None}
    BY TokenIs
  <2>2. ParsesLine(st, t) = ReadsNewName(st, t)
    BY <1>2 DEF ParsesLine
  <2> QED
    BY <2>1, <2>2, NewNameIsBuilt
<1>3. CASE ~st.failed /\ ~st.header
  <2> USE <1>3
  <2>0. st \in ParserStates /\ Built(Broken(st))
    BY BrokenIsBuilt DEF Built
  <2>1. CASE t.kind = "empty"
    <3>1. Line(" ", Blank) \in ScriptLines
      BY HalvesAreLines DEF ScriptLines, Line
    <3>2. ParsesLine(st, t) = IF st.inHunk THEN AddsLine(st, Line(" ", Blank)) ELSE st
      BY <2>1 DEF ParsesLine
    <3> QED
      BY <3>1, <3>2, AddsLineIsBuilt
  <2>2. CASE t.kind = "git"
    <3>1. ParsesLine(st, t) = st
      BY <2>2 DEF ParsesLine
    <3> QED
      BY <3>1
  <2>3. CASE t.kind = "---"
    <3> DEFINE next == [st EXCEPT !.header = TRUE, !.old = t.path]
    <3>1. ParsesLine(st, t) = next
      BY <2>3 DEF ParsesLine
    <3>2. t.path \in Paths \cup {None, Dashes}
      BY <2>3, TokenIs
    <3>3. next \in ParserStates /\ next.patches = st.patches /\ next.inHunk = st.inHunk
      BY <2>0, <3>2 DEF ParserStates
    <3> HIDE DEF next
    <3> QED
      BY <3>1, <3>3 DEF Built
  <2>4. CASE t.kind = "@@"
    <3>1. CASE st.patches = <<>>
      <4>1. ParsesLine(st, t) = Broken(st)
        BY <2>4, <3>1 DEF ParsesLine
      <4> QED
        BY <4>1, <2>0
    <3>2. CASE st.patches # <<>>
      <4>1. ParsesLine(st, t) = WithHunks(st, Append(LastHunks(st), t.hunk))
        BY <2>4, <3>2 DEF ParsesLine
      <4>2. t.hunk \in HunkSet
        BY <2>4, TokenIs
      <4>3. LastHunks(st) \in Seq(HunkSet)
        <5>1. st.patches \in Seq(FileSet)
          BY <2>0 DEF ParserStates
        <5>2. Last(st.patches) \in FileSet
          BY <3>2, <5>1, LastIs
        <5> QED
          BY <5>2 DEF LastHunks, FileSet
      <4>4. Append(LastHunks(st), t.hunk) \in Seq(HunkSet) /\ Append(LastHunks(st), t.hunk) # <<>>
        BY <4>2, <4>3, AppendIs
      <4> QED
        BY <4>1, <4>4, <3>2, <2>0, WithHunksIsBuilt
    <3> QED
      BY <3>1, <3>2
  <2>5. CASE t.kind = "line"
    <3>1. t.line \in ScriptLines
      BY <2>5, TokenIs
    <3>2. ParsesLine(st, t) = IF st.inHunk THEN AddsLine(st, t.line) ELSE Broken(st)
      BY <2>5 DEF ParsesLine, ReadsContent
    <3> QED
      BY <3>1, <3>2, <2>0, AddsLineIsBuilt
  <2>6. CASE t.kind = "cut"
    <3>1. t.line \in ScriptLines /\ Line(" ", Blank) \in ScriptLines
      BY <2>6, TokenIs, HalvesAreLines DEF ScriptLines, Line
    <3>2. ParsesLine(st, t) = IF st.inHunk /\ t.rest = Blank
                              THEN AddsLine(AddsLine(st, t.line), Line(" ", Blank)) ELSE Broken(st)
      BY <2>6 DEF ParsesLine
    <3>3. st.inHunk => Built(AddsLine(st, t.line)) /\ AddsLine(st, t.line).inHunk
      BY <3>1, AddsLineIsBuilt
    <3>4. st.inHunk => Built(AddsLine(AddsLine(st, t.line), Line(" ", Blank)))
      BY <3>1, <3>3, AddsLineIsBuilt
    <3> QED
      BY <3>2, <3>4, <2>0
  <2> QED
    BY <2>1, <2>2, <2>3, <2>4, <2>5, <2>6, TokenIs
<1> QED
  BY <1>1, <1>2, <1>3

\* The lines of hunks.
PlainLines == {t \in DiffLines : t.kind # "+++"}

\* They are read one after the other.
LEMMA PlainIsBuilt ==
  ASSUME NEW b, Built(b), NEW q \in Seq(PlainLines)
  PROVE  Built(FoldLeft(ParsesLine, b, q))
<1> DEFINE n == Len(q)
           st(k) == FoldLeft(ParsesLine, b, SubSeq(q, 1, k))
           T == {k \in 0..n : Built(st(k))}
<1>1. /\ n \in Nat /\ SubSeq(q, 1, 0) = <<>> /\ SubSeq(q, 1, n) = q
      /\ \A k \in 1..n : SubSeq(q, 1, k) = Append(SubSeq(q, 1, k - 1), q[k]) /\ q[k] \in PlainLines
      /\ \A k \in 0..n : SubSeq(q, 1, k) \in Seq(PlainLines)
  BY FirstElements
<1>2. FoldLeft(ParsesLine, b, <<>>) = b
  BY ParsesLineNothing
<1>3. st(0) = b
  BY <1>1, <1>2, Zenon
<1>4. 0 \in T
  BY <1>1, <1>3
<1>5. ASSUME NEW k \in 1..n, k - 1 \in T PROVE k \in T
  <2> DEFINE u == SubSeq(q, 1, k - 1)
             t == q[k]
  <2>1. k - 1 \in 0..n /\ k \in 0..n
    BY <1>1
  <2>2. u \in Seq(PlainLines) /\ t \in PlainLines /\ SubSeq(q, 1, k) = Append(u, t)
    BY <1>1, <2>1
  <2>3. Built(FoldLeft(ParsesLine, b, u))
    BY <1>5
  <2> HIDE DEF u, t
  <2>4. FoldLeft(ParsesLine, b, Append(u, t)) = ParsesLine(FoldLeft(ParsesLine, b, u), t)
    BY <2>2, ParsesLineMore
  <2>5. t \in DiffLines /\ t.kind # "+++"
    BY <2>2 DEF PlainLines
  <2>6. Built(ParsesLine(FoldLeft(ParsesLine, b, u), t))
    BY <2>3, <2>5, LineIsBuilt
  <2>7. st(k) = ParsesLine(FoldLeft(ParsesLine, b, u), t)
    BY <2>2, <2>4, Zenon
  <2>8. Built(st(k))
    BY <2>6, <2>7, Zenon
  <2> QED
    BY <2>1, <2>8
<1>6. n \in T
  <2> HIDE DEF T
  <2>1. \A k \in 0..n : k \in T
    BY <1>1, <1>4, <1>5, UpTo
  <2> QED
    BY <2>1, <1>1
<1>7. Built(st(n))
  BY <1>6
<1> QED
  BY <1>1, <1>7, Zenon

\* The hunks of a file.
LEMMA BodiesArePlain ==
  ASSUME NEW hunks \in Seq(HunkSet)
  PROVE  FlattenSeq(Bodies(hunks)) \in Seq(PlainLines)
<1>1. ASSUME NEW h \in HunkSet PROVE BodyOf(h) \in Seq(PlainLines)
  <2> DEFINE head == HunkHeader(h)
             r == RenderedLines(h)
  <2>1. /\ r \in Seq(DiffLines) /\ Len(r) = Len(h.lines) /\ \A i \in 1..Len(h.lines) : r[i] = Rendered(h.lines[i])
        /\ head \in DiffLines /\ BodyOf(h) = Append(<<>>, head) \o r
    BY BodyIs
  <2>2. head \in PlainLines
    <3>1. head.kind = "@@"
      BY DEF HunkHeader
    <3> QED
      BY <3>1, <2>1 DEF PlainLines
  <2>3. \A l : Rendered(l).kind # "+++"
    BY DEF Rendered, Header
  <2> HIDE DEF head, r
  <2>4. \A i \in 1..Len(r) : r[i] \in PlainLines
    BY <2>1, <2>3 DEF PlainLines
  <2>5. r \in Seq(PlainLines)
    BY <2>1, <2>4
  <2>6. Append(<<>>, head) \in Seq(PlainLines)
    BY <2>2
  <2>7. Append(<<>>, head) \o r \in Seq(PlainLines)
    BY <2>5, <2>6, JoinsMore
  <2> QED
    BY <2>1, <2>7
<1> DEFINE S == Seq(PlainLines)
           bs == Bodies(hunks)
<1>2. bs = [k \in 1..Len(hunks) |-> BodyOf(hunks[k])] /\ Len(hunks) \in Nat
  BY DEF Bodies
<1>3. \A k \in 1..Len(hunks) : BodyOf(hunks[k]) \in S
  BY <1>1
<1> HIDE DEF S, bs
<1>4. bs \in Seq(S)
  BY <1>2, <1>3
<1>5. bs \in Seq(Seq(PlainLines))
  BY <1>4 DEF S
<1> QED
  BY <1>5, FlatType DEF bs

\* The diff of a file.
LEMMA DiffIsBuilt ==
  ASSUME NEW b, Built(b), NEW o \in Paths \cup {None}, NEW n \in Paths \cup {None}, NEW hunks \in Seq(HunkSet)
  PROVE  Built(FoldLeft(ParsesLine, b, Diff(o, n, hunks)))
<1> DEFINE g == [kind |-> "git"]
           a == Header("---", o)
           c == Header("+++", n)
           p == Headers(o, n)
           q == FlattenSeq(Bodies(hunks))
           s1 == ParsesLine(b, g)
           s2 == ParsesLine(s1, a)
           s3 == ParsesLine(s2, c)
<1>1. g \in DiffLines /\ a \in DiffLines /\ c \in DiffLines /\ p \in Seq(DiffLines) /\ q \in Seq(DiffLines)
      /\ Diff(o, n, hunks) = p \o q
  BY DiffIs
<1>2. g.kind = "git" /\ a.kind = "---" /\ c.kind = "+++"
  BY DEF Header
<1>3. FoldLeft(ParsesLine, b, p) = s3
  BY HeadersAreFolded
<1> HIDE DEF g, a, c, p, q
<1>4. Built(s1)
  BY <1>1, <1>2, LineIsBuilt
<1> HIDE DEF s1
<1>5. Built(s2)
  BY <1>1, <1>2, <1>4, LineIsBuilt
<1>6. s2.failed \/ s2.header
  <2>1. CASE s1.failed
    BY <2>1 DEF ParsesLine
  <2>2. CASE ~s1.failed /\ s1.header
    <3>1. s2 = Broken(s1) /\ s1 \in ParserStates
      BY <2>2, <1>2, <1>4 DEF ParsesLine, ReadsNewName, Built
    <3> HIDE DEF s2
    <3> QED
      BY <3>1 DEF Broken, ParserStates
  <2>3. CASE ~s1.failed /\ ~s1.header
    <3>1. s2 = [s1 EXCEPT !.header = TRUE, !.old = a.path] /\ s1 \in ParserStates
      BY <2>3, <1>2, <1>4 DEF ParsesLine, Built
    <3> HIDE DEF s2
    <3> QED
      BY <3>1 DEF ParserStates
  <2> QED
    BY <2>1, <2>2, <2>3
<1> HIDE DEF s2
<1>7. Built(s3)
  BY <1>1, <1>5, <1>6, LineIsBuilt
<1> HIDE DEF s3
<1>8. q \in Seq(PlainLines)
  BY BodiesArePlain DEF q
<1>9. Built(FoldLeft(ParsesLine, s3, q))
  BY <1>7, <1>8, PlainIsBuilt
<1>10. FoldLeft(ParsesLine, b, p \o q) = FoldLeft(ParsesLine, FoldLeft(ParsesLine, b, p), q)
  BY <1>1, ParsesBoth
<1> QED
  BY <1>1, <1>3, <1>9, <1>10

\* The diff of a patch, parsed to the end.
LEMMA PatchIsBuilt ==
  ASSUME NEW patch, Shows(patch)
  PROVE  Built(FoldLeft(ParsesLine, NotParsed, DiffOf(patch)))
<1> DEFINE ds == Diffs(patch)
           m == Len(patch)
           flat(k) == FlattenSeq(SubSeq(ds, 1, k))
           st(k) == FoldLeft(ParsesLine, NotParsed, flat(k))
           T == {k \in 0..m : Built(st(k))}
<1>1. m \in Nat /\ DOMAIN patch = 1..m /\ \A i \in 1..m : patch[i] \in FilePatches
  BY DEF Shows
<1>2. \A i \in 1..m : /\ patch[i].old \in Paths \cup {None} /\ patch[i].new \in Paths \cup {None}
                      /\ Hunks(patch[i].script, patch[i].shown) \in Seq(HunkSet)
  BY <1>1, FilePatchIs DEF Shows
<1>3. \A i \in 1..m : Diff(patch[i].old, patch[i].new, Hunks(patch[i].script, patch[i].shown)) \in Seq(DiffLines)
  BY <1>2, DiffIs
<1>4. /\ ds \in Seq(Seq(DiffLines)) /\ Len(ds) = m
      /\ \A i \in 1..m : ds[i] = Diff(patch[i].old, patch[i].new, Hunks(patch[i].script, patch[i].shown))
  <2> DEFINE D == Seq(DiffLines)
             d(i) == Diff(patch[i].old, patch[i].new, Hunks(patch[i].script, patch[i].shown))
  <2>1. \A i \in 1..m : d(i) \in D
    BY <1>3
  <2>2. ds = [i \in 1..m |-> d(i)]
    BY <1>1 DEF Diffs
  <2> HIDE DEF D, d, m, ds
  <2>3. ds \in Seq(D) /\ Len(ds) = m /\ \A i \in 1..m : ds[i] = d(i)
    BY <1>1, <2>1, <2>2
  <2> QED
    BY <2>3 DEF D, d
<1> HIDE DEF ds, m
<1>6. /\ SubSeq(ds, 1, 0) = <<>> /\ SubSeq(ds, 1, m) = ds
      /\ \A k \in 1..m : SubSeq(ds, 1, k) = Append(SubSeq(ds, 1, k - 1), ds[k]) /\ ds[k] \in Seq(DiffLines)
      /\ \A k \in 0..m : SubSeq(ds, 1, k) \in Seq(Seq(DiffLines))
  BY <1>4, FirstElements
<1>8. 0 \in T
  <2>0. FlattenSeq(<<>>) = <<>>
    BY FlatNothing
  <2>1. flat(0) = <<>>
    BY <1>6, <2>0, Zenon
  <2>2. FoldLeft(ParsesLine, NotParsed, <<>>) = NotParsed
    BY ParsesLineNothing
  <2>3. st(0) = NotParsed
    BY <2>1, <2>2, Zenon
  <2>4. Built(NotParsed)
    BY DEF NotParsed, Built, ParserStates
  <2>5. Built(st(0))
    BY <2>3, <2>4, Zenon
  <2> QED
    BY <2>5, <1>1
<1>9. ASSUME NEW k \in 1..m, k - 1 \in T PROVE k \in T
  <2> DEFINE s == st(k - 1)
             p == flat(k - 1)
             q == ds[k]
  <2>1. k - 1 \in 0..m /\ k \in 0..m
    BY <1>1
  <2>2. Built(s)
    BY <1>9
  <2>3. flat(k) = p \o q /\ p \in Seq(DiffLines) /\ q \in Seq(DiffLines)
    <3>1. FlattenSeq(Append(SubSeq(ds, 1, k - 1), ds[k])) = FlattenSeq(SubSeq(ds, 1, k - 1)) \o ds[k]
      BY <1>6, <2>1, FlatMore
    <3>2. FlattenSeq(SubSeq(ds, 1, k - 1)) \in Seq(DiffLines)
      BY <1>6, <2>1, FlatType
    <3> QED
      BY <3>1, <3>2, <1>6
  <2>4. FoldLeft(ParsesLine, NotParsed, p \o q) = FoldLeft(ParsesLine, FoldLeft(ParsesLine, NotParsed, p), q)
    <3> HIDE DEF p, q
    <3> QED
      BY <2>3, ParsesBoth
  <2>5. st(k) = FoldLeft(ParsesLine, s, q)
    BY <2>3, <2>4, Zenon
  <2>6. Built(FoldLeft(ParsesLine, s, q))
    <3> DEFINE o == patch[k].old
               n == patch[k].new
               hunks == Hunks(patch[k].script, patch[k].shown)
    <3>1. q = Diff(o, n, hunks) /\ o \in Paths \cup {None} /\ n \in Paths \cup {None} /\ hunks \in Seq(HunkSet)
      BY <1>2, <1>4
    <3> HIDE DEF s, q, o, n, hunks
    <3> QED
      BY <2>2, <3>1, DiffIsBuilt
  <2>7. Built(st(k))
    BY <2>5, <2>6, Zenon
  <2> HIDE DEF st
  <2> QED
    BY <2>1, <2>7
<1>10. m \in T
  <2> HIDE DEF T
  <2>1. \A k \in 0..m : k \in T
    BY <1>1, <1>8, <1>9, UpTo
  <2> QED
    BY <2>1, <1>1
<1>11. Built(st(m))
  BY <1>10
<1>12. st(m) = FoldLeft(ParsesLine, NotParsed, FlattenSeq(ds))
  BY <1>6, Zenon
<1>13. DiffOf(patch) = FlattenSeq(ds)
  BY DEF DiffOf, Diffs, ds
<1> QED
  BY <1>11, <1>12, <1>13, Zenon

\* What is parsed of a patch is files.
LEMMA ParsedType ==
  ASSUME NEW patch, Shows(patch), Parsed(DiffOf(patch)) # None
  PROVE  Parsed(DiffOf(patch)) \in Seq(FileSet)
<1> DEFINE st == FoldLeft(ParsesLine, NotParsed, DiffOf(patch))
<1>1. Built(st)
  BY PatchIsBuilt
<1>2. Parsed(DiffOf(patch)) = IF st.failed \/ st.header \/ st.patches = <<>> THEN None ELSE st.patches
  BY DEF Parsed
<1> HIDE DEF st
<1>3. st.patches \in Seq(FileSet)
  BY <1>1 DEF Built, ParserStates
<1> QED
  BY <1>2, <1>3
------------------------------------------------------------------------------
\* The two sides of a script

\* What one more line adds to a side.
LEMMA SideMore ==
  ASSUME NEW ops, NEW s \in Seq(ScriptLines), NEW l \in ScriptLines
  PROVE  /\ l.op \in ops => Side(Append(s, l), ops) = Append(Side(s, ops), l.content)
         /\ l.op \notin ops => Side(Append(s, l), ops) = Side(s, ops)
<1>1. Side(Append(s, l), ops) = AddsSide(ops, Side(s, ops), l)
  BY AddsSideMore
<1> QED
  BY <1>1 DEF AddsSide

\* A side says what its lines say.
LEMMA SideSays ==
  ASSUME NEW ops, NEW s \in Seq(ScriptLines), NEW W, \A i \in 1..Len(s) : s[i].content \in W
  PROVE  Side(s, ops) \in Seq(W)
<1> DEFINE n == Len(s)
           side(k) == Side(SubSeq(s, 1, k), ops)
           T == {k \in 0..n : side(k) \in Seq(W)}
<1>1. /\ SubSeq(s, 1, 0) = <<>> /\ SubSeq(s, 1, n) = s /\ n \in Nat
      /\ \A k \in 1..n : SubSeq(s, 1, k) = Append(SubSeq(s, 1, k - 1), s[k]) /\ s[k] \in ScriptLines
      /\ \A k \in 0..n : SubSeq(s, 1, k) \in Seq(ScriptLines)
  <2>1. n \in Nat
    OBVIOUS
  <2> QED
    BY <2>1, FirstElements
<1>2. 0 \in T
  <2>1. Side(<<>>, ops) = <<>>
    BY AddsSideNothing
  <2>2. side(0) = <<>>
    BY <1>1, <2>1, Zenon
  <2>3. <<>> \in Seq(W) /\ 0 \in 0..n
    BY <1>1
  <2> QED
    BY <2>2, <2>3, Zenon
<1>3. ASSUME NEW k \in 1..n, k - 1 \in T PROVE k \in T
  <2> DEFINE u == SubSeq(s, 1, k - 1)
             l == s[k]
  <2>1. SubSeq(s, 1, k) = Append(u, l) /\ l \in ScriptLines /\ u \in Seq(ScriptLines) /\ k \in 0..n
    BY <1>1
  <2>2. Side(u, ops) \in Seq(W)
    BY <1>3
  <2>3. l.content \in W
    OBVIOUS
  <2> HIDE DEF u, l
  <2>4. /\ l.op \in ops => Side(Append(u, l), ops) = Append(Side(u, ops), l.content)
        /\ l.op \notin ops => Side(Append(u, l), ops) = Side(u, ops)
    BY <2>1, SideMore
  <2>5. Append(Side(u, ops), l.content) \in Seq(W)
    BY <2>2, <2>3
  <2>6. side(k) \in Seq(W)
    BY <2>1, <2>2, <2>4, <2>5
  <2> QED
    BY <2>1, <2>6
<1>4. n \in T
  <2> HIDE DEF T, n
  <2>1. \A k \in 0..n : k \in T
    BY <1>1, <1>2, <1>3, UpTo
  <2> QED
    BY <2>1, <1>1
<1>5. side(n) = Side(s, ops)
  BY <1>1, Zenon
<1> QED
  BY <1>4, <1>5

\* A side is a text.
LEMMA SideType ==
  ASSUME NEW ops, NEW s \in Seq(ScriptLines)
  PROVE  Side(s, ops) \in Seq(Contents)
<1>1. \A i \in 1..Len(s) : s[i] \in ScriptLines
  OBVIOUS
<1>2. \A i \in 1..Len(s) : s[i].content \in Contents
  BY <1>1 DEF ScriptLines
<1> QED
  BY <1>2, SideSays

Leads(p, q) == Len(p) <= Len(q) /\ \A i \in 1..Len(p) : p[i] = q[i]

\* The side of the first k lines.
LEMMA SideUpto ==
  ASSUME NEW ops, NEW s \in Seq(ScriptLines)
  PROVE  /\ Side(SubSeq(s, 1, 0), ops) = <<>> /\ Side(SubSeq(s, 1, Len(s)), ops) = Side(s, ops)
         /\ \A k \in 0..Len(s) : Side(SubSeq(s, 1, k), ops) \in Seq(Contents)
         /\ \A k \in 1..Len(s) :
              /\ s[k] \in ScriptLines /\ s[k].content \in Contents
              /\ s[k].op \in ops =>
                   Side(SubSeq(s, 1, k), ops) = Append(Side(SubSeq(s, 1, k - 1), ops), s[k].content)
              /\ s[k].op \notin ops => Side(SubSeq(s, 1, k), ops) = Side(SubSeq(s, 1, k - 1), ops)
<1> DEFINE n == Len(s)
<1>1. /\ SubSeq(s, 1, 0) = <<>> /\ SubSeq(s, 1, n) = s /\ n \in Nat
      /\ \A k \in 1..n : SubSeq(s, 1, k) = Append(SubSeq(s, 1, k - 1), s[k]) /\ s[k] \in ScriptLines
      /\ \A k \in 0..n : SubSeq(s, 1, k) \in Seq(ScriptLines)
  <2>1. n \in Nat
    OBVIOUS
  <2> QED
    BY <2>1, FirstElements
<1>2. Side(<<>>, ops) = <<>>
  BY AddsSideNothing
<1>3. Side(SubSeq(s, 1, 0), ops) = <<>> /\ Side(SubSeq(s, 1, Len(s)), ops) = Side(s, ops)
  BY <1>1, <1>2, Zenon
<1>4. \A k \in 0..Len(s) : Side(SubSeq(s, 1, k), ops) \in Seq(Contents)
  BY <1>1, SideType
<1>5. ASSUME NEW k \in 1..Len(s)
      PROVE  /\ s[k] \in ScriptLines /\ s[k].content \in Contents
             /\ s[k].op \in ops =>
                  Side(SubSeq(s, 1, k), ops) = Append(Side(SubSeq(s, 1, k - 1), ops), s[k].content)
             /\ s[k].op \notin ops => Side(SubSeq(s, 1, k), ops) = Side(SubSeq(s, 1, k - 1), ops)
  <2> DEFINE u == SubSeq(s, 1, k - 1)
             l == s[k]
  <2>1. SubSeq(s, 1, k) = Append(u, l) /\ l \in ScriptLines /\ u \in Seq(ScriptLines)
    <3>1. k - 1 \in 0..n
      BY <1>1
    <3> QED
      BY <1>1, <3>1
  <2>2. l.content \in Contents
    BY <2>1 DEF ScriptLines
  <2> HIDE DEF u, l
  <2>3. /\ l.op \in ops => Side(Append(u, l), ops) = Append(Side(u, ops), l.content)
        /\ l.op \notin ops => Side(Append(u, l), ops) = Side(u, ops)
    BY <2>1, SideMore
  <2> QED
    BY <2>1, <2>2, <2>3 DEF u, l
<1> QED
  BY <1>3, <1>4, <1>5

\* The side of fewer lines begins that of more.
LEMMA SideLeads ==
  ASSUME NEW ops, NEW s \in Seq(ScriptLines), NEW j \in 0..Len(s), NEW k \in j..Len(s)
  PROVE  Leads(Side(SubSeq(s, 1, j), ops), Side(SubSeq(s, 1, k), ops))
<1> DEFINE n == Len(s)
           side(i) == Side(SubSeq(s, 1, i), ops)
           T == {i \in 0..n : i < j \/ Leads(side(j), side(i))}
<1>0. n \in Nat /\ j \in Nat /\ j <= n
  OBVIOUS
<1>1. /\ \A i \in 0..n : side(i) \in Seq(Contents)
      /\ \A i \in 1..n : /\ s[i].content \in Contents
                         /\ s[i].op \in ops => side(i) = Append(side(i - 1), s[i].content)
                         /\ s[i].op \notin ops => side(i) = side(i - 1)
  BY SideUpto
<1> HIDE DEF side
<1>2. \A i \in 0..n : i = j => Leads(side(j), side(i))
  BY DEF Leads
<1>3. 0 \in T
  BY <1>0, <1>2
<1>4. ASSUME NEW i \in 1..n, i - 1 \in T PROVE i \in T
  <2>1. i \in 0..n /\ i - 1 \in 0..n
    BY <1>0
  <2>2. CASE i <= j
    BY <2>1, <2>2, <1>2
  <2>3. CASE i > j
    <3>1. Leads(side(j), side(i - 1))
      BY <1>4, <2>3, <1>0
    <3>2. side(j) \in Seq(Contents) /\ side(i - 1) \in Seq(Contents)
      BY <1>0, <1>1, <2>1
    <3>3. CASE s[i].op \in ops
      <4> DEFINE q == Append(side(i - 1), s[i].content)
      <4>1. side(i) = q /\ s[i].content \in Contents
        BY <1>1, <3>3
      <4>2. Len(q) = Len(side(i - 1)) + 1 /\ \A m \in 1..Len(side(i - 1)) : q[m] = side(i - 1)[m]
        BY <3>2, <4>1, AppendIs
      <4> HIDE DEF q
      <4>3. Len(side(i - 1)) \in Nat /\ Len(side(j)) \in Nat
        BY <3>2
      <4>4. Leads(side(j), q)
        BY <3>1, <4>2, <4>3 DEF Leads
      <4> QED
        BY <4>1, <4>4, <2>1
    <3>4. CASE s[i].op \notin ops
      <4>1. side(i) = side(i - 1)
        BY <1>1, <3>4
      <4> QED
        BY <3>1, <4>1, <2>1
    <3> QED
      BY <3>3, <3>4
  <2> QED
    BY <2>2, <2>3, <2>1, <1>0
<1>5. k \in T
  <2> HIDE DEF T
  <2>1. \A i \in 0..n : i \in T
    BY <1>0, <1>3, <1>4, UpTo
  <2> QED
    BY <2>1, <1>0
<1>6. Leads(side(j), side(k))
  BY <1>5, <1>0
<1> QED
  BY <1>6 DEF side

\* The side of the lines from..k is as long as what it adds.
LEMMA SideParts ==
  ASSUME NEW ops, NEW s \in Seq(ScriptLines), NEW from \in 1..Len(s), NEW k \in from - 1..Len(s)
  PROVE  /\ Side(SubSeq(s, from, k), ops) \in Seq(Contents)
         /\ Len(Side(SubSeq(s, from, k), ops))
              = Len(Side(SubSeq(s, 1, k), ops)) - Len(Side(SubSeq(s, 1, from - 1), ops))
<1> DEFINE n == Len(s)
           part(i) == Side(SubSeq(s, from, i), ops)
           side(i) == Side(SubSeq(s, 1, i), ops)
           T == {i \in 0..n : i < from - 1 \/ Len(part(i)) = Len(side(i)) - Len(side(from - 1))}
<1>0. n \in Nat /\ from \in Nat /\ from - 1 \in 0..n /\ from >= 1
  OBVIOUS
<1>1. /\ \A i \in 0..n : side(i) \in Seq(Contents) /\ Len(side(i)) \in Nat
      /\ \A i \in 1..n : /\ s[i].content \in Contents
                         /\ s[i].op \in ops => side(i) = Append(side(i - 1), s[i].content)
                         /\ s[i].op \notin ops => side(i) = side(i - 1)
  <2>1. /\ \A i \in 0..n : side(i) \in Seq(Contents)
        /\ \A i \in 1..n : /\ s[i].content \in Contents
                           /\ s[i].op \in ops => side(i) = Append(side(i - 1), s[i].content)
                           /\ s[i].op \notin ops => side(i) = side(i - 1)
    BY SideUpto
  <2>2. \A i \in 0..n : Len(side(i)) \in Nat
    <3> HIDE DEF side
    <3> QED
      BY <2>1
  <2> QED
    BY <2>1, <2>2
<1>2. SubSeq(s, from, from - 1) = <<>>
  OBVIOUS
<1>3. part(from - 1) = <<>>
  <2>1. Side(<<>>, ops) = <<>>
    BY AddsSideNothing
  <2> QED
    BY <1>2, <2>1, Zenon
<1>4. \A i \in from..n : /\ part(i - 1) \in Seq(Contents) /\ part(i) \in Seq(Contents)
                         /\ s[i].op \in ops => part(i) = Append(part(i - 1), s[i].content)
                         /\ s[i].op \notin ops => part(i) = part(i - 1)
  <2> SUFFICES ASSUME NEW i \in from..n
               PROVE  /\ part(i - 1) \in Seq(Contents) /\ part(i) \in Seq(Contents)
                      /\ s[i].op \in ops => part(i) = Append(part(i - 1), s[i].content)
                      /\ s[i].op \notin ops => part(i) = part(i - 1)
    OBVIOUS
  <2> DEFINE u == SubSeq(s, from, i - 1)
             l == s[i]
  <2>1. SubSeq(s, from, i) = Append(u, l) /\ l \in ScriptLines /\ u \in Seq(ScriptLines)
        /\ SubSeq(s, from, i) \in Seq(ScriptLines)
    BY Parts, ZenonT(60)
  <2>2. part(i - 1) \in Seq(Contents) /\ part(i) \in Seq(Contents)
    BY <2>1, SideType
  <2>3. /\ l.op \in ops => Side(Append(u, l), ops) = Append(Side(u, ops), l.content)
        /\ l.op \notin ops => Side(Append(u, l), ops) = Side(u, ops)
    <3> HIDE DEF u, l
    <3> QED
      BY <2>1, SideMore
  <2> QED
    BY <2>1, <2>2, <2>3
<1> HIDE DEF side, part
<1>5. Len(part(from - 1)) = 0 /\ part(from - 1) \in Seq(Contents)
  <2>1. Len(<<>>) = 0 /\ <<>> \in Seq(Contents)
    OBVIOUS
  <2> QED
    BY <1>3, <2>1, Zenon
<1>6. 0 \in T
  <2>1. CASE from = 1
    <3>1. Len(part(0)) = Len(side(0)) - Len(side(0)) /\ from - 1 = 0
      BY <2>1, <1>1, <1>5, <1>0
    <3> QED
      BY <3>1, <1>0
  <2>2. CASE from # 1
    BY <2>2, <1>0
  <2> QED
    BY <2>1, <2>2
<1>7. ASSUME NEW i \in 1..n, i - 1 \in T PROVE i \in T
  <2>1. i \in 0..n /\ i - 1 \in 0..n
    BY <1>0
  <2>2. CASE i < from - 1
    BY <2>1, <2>2
  <2>3. CASE i = from - 1
    <3>1. Len(part(i)) = Len(side(i)) - Len(side(from - 1))
      BY <2>3, <2>1, <1>1, <1>5
    <3> QED
      BY <2>1, <3>1
  <2>4. CASE i > from - 1
    <3>1. i \in from..n
      BY <2>4, <1>0
    <3>2. Len(part(i - 1)) = Len(side(i - 1)) - Len(side(from - 1))
      BY <1>7, <3>1, <1>0
    <3>3. Len(side(i)) \in Nat /\ Len(side(i - 1)) \in Nat /\ Len(side(from - 1)) \in Nat
          /\ side(i - 1) \in Seq(Contents) /\ part(i - 1) \in Seq(Contents) /\ s[i].content \in Contents
      BY <1>0, <1>1, <1>4, <2>1, <3>1
    <3>4. CASE s[i].op \in ops
      <4>1. part(i) = Append(part(i - 1), s[i].content) /\ side(i) = Append(side(i - 1), s[i].content)
        BY <1>1, <1>4, <3>1, <3>4
      <4>2. Len(part(i)) = Len(part(i - 1)) + 1
        BY <3>3, <4>1, AppendIs
      <4>3. Len(side(i)) = Len(side(i - 1)) + 1
        BY <3>3, <4>1, AppendIs
      <4> DEFINE a == Len(part(i - 1))
                 b == Len(side(i - 1))
                 d == Len(side(from - 1))
      <4>a. a = b - d /\ a \in Nat /\ b \in Nat /\ d \in Nat
        BY <3>2, <3>3
      <4>b. Len(part(i)) = a + 1 /\ Len(side(i)) = b + 1
        BY <4>2, <4>3
      <4>4. Len(part(i)) = Len(side(i)) - d
        <5> HIDE DEF a, b, d
        <5> QED
          BY <4>a, <4>b
      <4> QED
        BY <4>4, <2>1
    <3>5. CASE s[i].op \notin ops
      <4>1. part(i) = part(i - 1) /\ side(i) = side(i - 1)
        BY <1>1, <1>4, <3>1, <3>5
      <4>2. Len(part(i)) = Len(side(i)) - Len(side(from - 1))
        BY <3>2, <4>1
      <4> QED
        BY <4>2, <2>1
    <3> QED
      BY <3>4, <3>5
  <2> QED
    BY <2>2, <2>3, <2>4, <2>1, <1>0
<1>8. k \in T /\ k \in 0..n
  <2>0. k \in 0..n
    BY <1>0
  <2> HIDE DEF T
  <2>1. \A i \in 0..n : i \in T
    BY <1>0, <1>6, <1>7, UpTo
  <2> QED
    BY <2>0, <2>1
<1>9. Len(part(k)) = Len(side(k)) - Len(side(from - 1))
  BY <1>8, <1>0
<1>10. part(k) \in Seq(Contents)
  <2>1. CASE k = from - 1
    BY <2>1, <1>5
  <2>2. CASE k # from - 1
    <3>1. k \in from..n
      BY <2>2, <1>0
    <3> QED
      BY <3>1, <1>4
  <2> QED
    BY <2>1, <2>2
<1> QED
  BY <1>9, <1>10 DEF part, side

\* A side that is not empty has a line.
LEMMA SideHas ==
  ASSUME NEW ops, NEW s \in Seq(ScriptLines), Side(s, ops) # <<>>
  PROVE  \E i \in 1..Len(s) : s[i].op \in ops
<1> SUFFICES ASSUME \A i \in 1..Len(s) : s[i].op \notin ops
             PROVE  FALSE
  OBVIOUS
<1> DEFINE n == Len(s)
           side(i) == Side(SubSeq(s, 1, i), ops)
           T == {i \in 0..n : side(i) = <<>>}
<1>0. n \in Nat
  OBVIOUS
<1>1. /\ side(0) = <<>> /\ side(n) = Side(s, ops)
      /\ \A i \in 1..n : s[i].op \notin ops => side(i) = side(i - 1)
  BY SideUpto
<1> HIDE DEF side
<1>2. 0 \in T
  BY <1>0, <1>1
<1>3. ASSUME NEW i \in 1..n, i - 1 \in T PROVE i \in T
  <2>1. side(i) = side(i - 1) /\ i \in 0..n
    BY <1>0, <1>1
  <2> QED
    BY <2>1, <1>3
<1>4. n \in T
  <2> HIDE DEF T, n
  <2>1. \A i \in 0..n : i \in T
    BY <1>0, <1>2, <1>3, UpTo
  <2> QED
    BY <2>1, <1>0
<1> QED
  BY <1>1, <1>4

\* A line of a side makes it longer.
LEMMA HasSide ==
  ASSUME NEW ops, NEW s \in Seq(ScriptLines), NEW i \in 1..Len(s), s[i].op \in ops
  PROVE  Side(s, ops) # <<>>
<1> DEFINE side(k) == Side(SubSeq(s, 1, k), ops)
           c == s[i].content
<1>1. i \in 0..Len(s) /\ i - 1 \in 0..Len(s) /\ Len(s) \in i..Len(s) /\ Len(s) \in Nat
  OBVIOUS
<1>2. /\ side(i) = Append(side(i - 1), c) /\ side(i - 1) \in Seq(Contents) /\ side(Len(s)) = Side(s, ops)
      /\ c \in Contents
  BY <1>1, SideUpto
<1>3. Leads(side(i), side(Len(s)))
  BY <1>1, SideLeads
<1> HIDE DEF side, c
<1>4. Len(side(i)) = Len(side(i - 1)) + 1 /\ Len(side(i - 1)) \in Nat
  BY <1>2, AppendIs
<1> QED
  BY <1>2, <1>3, <1>4 DEF Leads
------------------------------------------------------------------------------
\* The runs of shown lines

RunSet == [from : Nat, upto : Nat]
EndOf(runs, j) == IF j = 0 THEN 0 ELSE runs[j].upto

\* These runs follow each other upto line k, and no line between them is shown.
Follow(runs, shown) ==
  \A j \in 1..Len(runs) :
    /\ EndOf(runs, j - 1) < runs[j].from /\ runs[j].from <= runs[j].upto
    /\ \A i \in EndOf(runs, j - 1) + 1..runs[j].from - 1 : i \notin shown
Covers(runs, shown, k) ==
  /\ runs \in Seq(RunSet) /\ Follow(runs, shown)
  /\ EndOf(runs, Len(runs)) <= k
  /\ \A i \in EndOf(runs, Len(runs)) + 1..k : i \notin shown
  /\ k \in shown => EndOf(runs, Len(runs)) = k

\* The end of a run is a number.
LEMMA EndIs ==
  ASSUME NEW runs \in Seq(RunSet), NEW j \in 0..Len(runs)
  PROVE  /\ EndOf(runs, j) \in Nat
         /\ j # 0 => runs[j] \in RunSet /\ runs[j].from \in Nat /\ runs[j].upto \in Nat /\ EndOf(runs, j) = runs[j].upto
<1>1. CASE j = 0
  BY <1>1 DEF EndOf
<1>2. CASE j # 0
  <2>1. runs[j] \in RunSet
    BY <1>2
  <2>2. runs[j].from \in Nat /\ runs[j].upto \in Nat
    BY <2>1 DEF RunSet
  <2> QED
    BY <1>2, <2>1, <2>2 DEF EndOf
<1> QED
  BY <1>1, <1>2

\* A run is begun.
LEMMA RunBegins ==
  ASSUME NEW shown, NEW i \in Nat \ {0}, NEW runs, Covers(runs, shown, i - 1), i - 1 \notin shown
  PROVE  Covers(Append(runs, [from |-> i, upto |-> i]), shown, i)
<1> DEFINE r == [from |-> i, upto |-> i]
           more == Append(runs, r)
           m == Len(runs)
<1>0. runs \in Seq(RunSet) /\ m \in Nat /\ r \in RunSet /\ r.from = i /\ r.upto = i
  BY DEF Covers, RunSet
<1> HIDE DEF r
<1>1. more \in Seq(RunSet) /\ Len(more) = m + 1 /\ more[m + 1] = r /\ \A j \in 1..m : more[j] = runs[j]
  BY <1>0, AppendIs
<1> HIDE DEF more
<1>2. \A j \in 0..m : EndOf(more, j) = EndOf(runs, j)
  BY <1>1 DEF EndOf
<1>3. EndOf(more, m + 1) = i
  BY <1>0, <1>1 DEF EndOf
<1>4. EndOf(runs, m) \in Nat /\ EndOf(runs, m) <= i - 1 /\ \A q \in EndOf(runs, m) + 1..i - 1 : q \notin shown
  BY <1>0, EndIs DEF Covers
<1>5. ASSUME NEW j \in 1..Len(more)
      PROVE  /\ EndOf(more, j - 1) < more[j].from /\ more[j].from <= more[j].upto
             /\ \A q \in EndOf(more, j - 1) + 1..more[j].from - 1 : q \notin shown
  <2>1. CASE j = m + 1
    <3>1. j - 1 = m /\ m \in 0..m
      BY <2>1, <1>0
    <3>2. EndOf(more, j - 1) = EndOf(runs, m) /\ more[j] = r
      BY <3>1, <2>1, <1>1, <1>2
    <3> QED
      BY <3>2, <1>0, <1>4
  <2>2. CASE j # m + 1
    <3>1. j \in 1..m /\ j - 1 \in 0..m
      BY <2>2, <1>1, <1>0
    <3>2. EndOf(more, j - 1) = EndOf(runs, j - 1) /\ more[j] = runs[j]
      BY <3>1, <1>1, <1>2
    <3>3. /\ EndOf(runs, j - 1) < runs[j].from /\ runs[j].from <= runs[j].upto
          /\ \A q \in EndOf(runs, j - 1) + 1..runs[j].from - 1 : q \notin shown
      BY <3>1 DEF Covers, Follow
    <3> QED
      BY <3>2, <3>3
  <2> QED
    BY <2>1, <2>2
<1>6. Follow(more, shown)
  BY <1>5 DEF Follow
<1>7. EndOf(more, Len(more)) = i
  BY <1>1, <1>3
<1>8. Covers(more, shown, i)
  BY <1>1, <1>6, <1>7 DEF Covers
<1> QED
  BY <1>8 DEF more, r

\* A run goes on.
LEMMA RunGoesOn ==
  ASSUME NEW shown, 0 \notin shown, NEW i \in Nat \ {0}, NEW runs, Covers(runs, shown, i - 1), i - 1 \in shown
  PROVE  Covers([runs EXCEPT ![Len(runs)].upto = i], shown, i)
<1> DEFINE m == Len(runs)
           r == [runs[m] EXCEPT !.upto = i]
           more == [runs EXCEPT ![m] = r]
<1>0. runs \in Seq(RunSet) /\ m \in Nat /\ EndOf(runs, m) = i - 1 /\ i - 1 # 0
  BY DEF Covers
<1>1. m \in 1..m /\ m - 1 \in 0..m
  BY <1>0 DEF EndOf
<1>2. runs[m] \in RunSet /\ runs[m].upto = i - 1 /\ runs[m].from \in Nat
  BY <1>0, <1>1, EndIs
<1>3. r \in RunSet /\ r.from = runs[m].from /\ r.upto = i
  BY <1>2 DEF RunSet
<1> HIDE DEF r
<1>4. more \in Seq(RunSet) /\ Len(more) = m /\ more[m] = r /\ \A j \in 1..m - 1 : more[j] = runs[j]
  BY <1>0, <1>1, <1>3
<1> HIDE DEF more, m
<1>5. \A j \in 0..m - 1 : EndOf(more, j) = EndOf(runs, j)
  BY <1>4 DEF EndOf
<1>6. EndOf(more, m) = i
  BY <1>1, <1>3, <1>4 DEF EndOf
<1>7. ASSUME NEW j \in 1..m
      PROVE  /\ EndOf(more, j - 1) < more[j].from /\ more[j].from <= more[j].upto
             /\ \A q \in EndOf(more, j - 1) + 1..more[j].from - 1 : q \notin shown
  <2>0. j - 1 \in 0..m - 1
    BY <1>0
  <2>1. EndOf(more, j - 1) = EndOf(runs, j - 1)
    BY <2>0, <1>5
  <2>2. /\ EndOf(runs, j - 1) < runs[j].from /\ runs[j].from <= runs[j].upto
        /\ \A q \in EndOf(runs, j - 1) + 1..runs[j].from - 1 : q \notin shown
    BY DEF Covers, Follow, m
  <2>3. CASE j = m
    <3>1. more[j].from = runs[j].from /\ more[j].upto = i /\ runs[j].upto = i - 1 /\ runs[j].from \in Nat
      BY <2>3, <1>2, <1>3, <1>4
    <3> QED
      BY <3>1, <2>1, <2>2
  <2>4. CASE j # m
    <3>1. j \in 1..m - 1
      BY <2>4, <1>0
    <3>2. more[j] = runs[j]
      BY <3>1, <1>4
    <3> QED
      BY <3>2, <2>1, <2>2
  <2> QED
    BY <2>3, <2>4
<1>8. Follow(more, shown)
  BY <1>4, <1>7 DEF Follow
<1>9. Covers(more, shown, i)
  BY <1>4, <1>6, <1>8 DEF Covers
<1>10. more = [runs EXCEPT ![Len(runs)].upto = i]
  BY DEF more, m, r
<1> QED
  BY <1>9, <1>10

\* The runs cover what is shown.
LEMMA RunsCover ==
  ASSUME NEW S, NEW script \in Seq(S), NEW shown, 0 \notin shown
  PROVE  Covers(Runs(script, shown), shown, Len(script))
<1> DEFINE n == Len(script)
           s == [i \in DOMAIN script |-> i]
           r(k) == RunsOf(SubSeq(s, 1, k), shown)
           T == {k \in 0..n : Covers(r(k), shown, k)}
<1>1. n \in Nat /\ s \in Seq(Nat) /\ Len(s) = n /\ \A i \in 1..n : s[i] = i
  OBVIOUS
<1>2. Runs(script, shown) = RunsOf(s, shown)
  BY DEF Runs, RunsOf, FoldLeftDomain
<1> HIDE DEF s, n
<1>3. /\ SubSeq(s, 1, 0) = <<>> /\ SubSeq(s, 1, n) = s
      /\ \A k \in 1..n : SubSeq(s, 1, k) = Append(SubSeq(s, 1, k - 1), s[k]) /\ s[k] \in Nat
      /\ \A k \in 0..n : SubSeq(s, 1, k) \in Seq(Nat)
  BY <1>1, FirstElements
<1>4. 0 \in T
  <2>1. RunsOf(<<>>, shown) = <<>>
    BY AddsShownNothing
  <2>2. r(0) = <<>>
    BY <1>3, <2>1, Zenon
  <2> DEFINE e == <<>>
  <2>3. e \in Seq(RunSet) /\ Len(e) = 0
    OBVIOUS
  <2> HIDE DEF e
  <2>4. Covers(e, shown, 0)
    BY <2>3 DEF Covers, Follow, EndOf
  <2> HIDE DEF r
  <2> QED
    BY <2>2, <2>4, <1>1 DEF e
<1>5. ASSUME NEW k \in 1..n, k - 1 \in T PROVE k \in T
  <2> DEFINE u == SubSeq(s, 1, k - 1)
             runs == r(k - 1)
  <2>0. k - 1 \in 0..n /\ k \in 0..n /\ k \in Nat \ {0}
    BY <1>1
  <2>1. SubSeq(s, 1, k) = Append(u, k) /\ u \in Seq(Nat) /\ k \in Nat
    BY <1>1, <1>3, <2>0
  <2>2. RunsOf(Append(u, k), shown) = AddsShown(shown, RunsOf(u, shown), k)
    <3> HIDE DEF u
    <3> QED
      BY <2>1, AddsShownMore
  <2>3. r(k) = AddsShown(shown, runs, k)
    BY <2>1, <2>2, Zenon
  <2>4. Covers(runs, shown, k - 1)
    BY <1>5
  <2> HIDE DEF runs, r, T
  <2>5. CASE k \notin shown
    <3>1. r(k) = runs
      BY <2>3, <2>5 DEF AddsShown
    <3>2. runs \in Seq(RunSet) /\ Len(runs) \in 0..Len(runs)
      BY <2>4 DEF Covers
    <3>3. EndOf(runs, Len(runs)) \in Nat
      BY <3>2, EndIs
    <3>4. Covers(runs, shown, k)
      <4>1. ASSUME NEW q \in EndOf(runs, Len(runs)) + 1..k PROVE q \notin shown
        <5>1. q = k \/ q \in EndOf(runs, Len(runs)) + 1..k - 1
          BY <3>3, <2>0
        <5> QED
          BY <5>1, <2>4, <2>5 DEF Covers
      <4>2. EndOf(runs, Len(runs)) <= k
        BY <3>3, <2>4, <2>0 DEF Covers
      <4> QED
        BY <4>1, <4>2, <2>4, <2>5 DEF Covers
    <3> QED
      BY <3>1, <3>4, <2>0 DEF T
  <2>6. CASE k \in shown /\ k - 1 \notin shown
    <3>1. r(k) = Append(runs, [from |-> k, upto |-> k])
      BY <2>3, <2>6 DEF AddsShown
    <3>2. Covers(Append(runs, [from |-> k, upto |-> k]), shown, k)
      BY <2>0, <2>4, <2>6, RunBegins
    <3> QED
      BY <3>1, <3>2, <2>0 DEF T
  <2>7. CASE k \in shown /\ k - 1 \in shown
    <3>1. r(k) = [runs EXCEPT ![Len(runs)].upto = k]
      BY <2>3, <2>7 DEF AddsShown
    <3>2. Covers([runs EXCEPT ![Len(runs)].upto = k], shown, k)
      BY <2>0, <2>4, <2>7, RunGoesOn
    <3> QED
      BY <3>1, <3>2, <2>0 DEF T
  <2> QED
    BY <2>5, <2>6, <2>7
<1>6. n \in T
  <2> HIDE DEF T
  <2>1. \A k \in 0..n : k \in T
    BY <1>1, <1>4, <1>5, UpTo
  <2> QED
    BY <2>1, <1>1
<1>7. r(n) = Runs(script, shown)
  BY <1>2, <1>3, Zenon
<1>8. Covers(r(n), shown, n)
  BY <1>6
<1> QED
  BY <1>7, <1>8, Zenon DEF n
------------------------------------------------------------------------------
\* Applying what diff made

Pos(out, where, old, new, failed) == [out |-> out, at |-> where, old |-> old, new |-> new, failed |-> failed]

\* What an applier has read and written, with one field changed.
LEMMA PosOut ==
  ASSUME NEW a, NEW b, NEW c, NEW d, NEW e, NEW x
  PROVE  [Pos(a, b, c, d, e) EXCEPT !.out = x] = Pos(x, b, c, d, e)
BY DEF Pos

\* The same for .at.
LEMMA PosAt ==
  ASSUME NEW a, NEW b, NEW c, NEW d, NEW e, NEW x
  PROVE  [Pos(a, b, c, d, e) EXCEPT !.at = x] = Pos(a, x, c, d, e)
BY DEF Pos

\* The same for .old.
LEMMA PosOld ==
  ASSUME NEW a, NEW b, NEW c, NEW d, NEW e, NEW x
  PROVE  [Pos(a, b, c, d, e) EXCEPT !.old = x] = Pos(a, b, x, d, e)
BY DEF Pos

\* The same for .new.
LEMMA PosNew ==
  ASSUME NEW a, NEW b, NEW c, NEW d, NEW e, NEW x
  PROVE  [Pos(a, b, c, d, e) EXCEPT !.new = x] = Pos(a, b, c, x, e)
BY DEF Pos

\* The same for .failed.
LEMMA PosFailed ==
  ASSUME NEW a, NEW b, NEW c, NEW d, NEW e, NEW x
  PROVE  [Pos(a, b, c, d, e) EXCEPT !.failed = x] = Pos(a, b, c, d, x)
BY DEF Pos

\* What is in it.
LEMMA PosIs ==
  ASSUME NEW a, NEW b, NEW c, NEW d, NEW e
  PROVE  /\ Pos(a, b, c, d, e).out = a /\ Pos(a, b, c, d, e).at = b
         /\ Pos(a, b, c, d, e).old = c /\ Pos(a, b, c, d, e).new = d
         /\ Pos(a, b, c, d, e).failed = e
BY DEF Pos

FoundAt(st, out, new) == [st EXCEPT !.at = st.at + 1, !.old = st.old + 1, !.out = out, !.new = new]

\* A line that is found.
LEMMA FoundIs ==
  ASSUME NEW a, NEW b, NEW c, NEW d, NEW e, NEW out, NEW new
  PROVE  FoundAt(Pos(a, b, c, d, e), out, new) = Pos(out, b + 1, c + 1, new, e)
<1>1. [Pos(a, b, c, d, e) EXCEPT !.at = b + 1] = Pos(a, b + 1, c, d, e)
  BY PosAt
<1>2. [Pos(a, b + 1, c, d, e) EXCEPT !.old = c + 1] = Pos(a, b + 1, c + 1, d, e)
  BY PosOld
<1>3. [Pos(a, b + 1, c + 1, d, e) EXCEPT !.out = out] = Pos(out, b + 1, c + 1, d, e)
  BY PosOut
<1>4. [Pos(out, b + 1, c + 1, d, e) EXCEPT !.new = new] = Pos(out, b + 1, c + 1, new, e)
  BY PosNew
<1>5. Pos(a, b, c, d, e).at = b /\ Pos(a, b, c, d, e).old = c
  BY PosIs
<1> QED
  BY <1>1, <1>2, <1>3, <1>4, <1>5, ZenonT(60) DEF FoundAt

OldOps == {" ", "-"}
NewOps == {" ", "+"}
OldUpto(s, k) == OldLines(SubSeq(s, 1, k))
NewUpto(s, k) == NewLines(SubSeq(s, 1, k))

\* The two sides of a text.
LEMMA SidesOf ==
  ASSUME NEW t
  PROVE  OldLines(t) = Side(t, OldOps) /\ NewLines(t) = Side(t, NewOps)
BY Zenon DEF OldLines, NewLines, OldOps, NewOps

\* What a line of a script does, by the sides it is on.
LEMMA LineDoes ==
  ASSUME NEW lines, NEW a, NEW b, NEW c, NEW d, NEW e, NEW l \in ScriptLines
  PROVE  LET st == Pos(a, b, c, d, e)
         IN  /\ l.op \notin OldOps /\ l.op \notin NewOps => AppliesLine(lines, st, l) = st
             /\ l.op \notin OldOps /\ l.op \in NewOps
                  => AppliesLine(lines, st, l) = Pos(Append(a, l.content), b, c, d + 1, e)
             /\ l.op \in OldOps /\ l.op \in NewOps /\ Matches(lines, b, l.content)
                  => AppliesLine(lines, st, l) = Pos(Append(a, l.content), b + 1, c + 1, d + 1, e)
             /\ l.op \in OldOps /\ l.op \notin NewOps /\ Matches(lines, b, l.content)
                  => AppliesLine(lines, st, l) = Pos(a, b + 1, c + 1, d, e)
             /\ l.op \in OldOps /\ ~Matches(lines, b, l.content)
                  => AppliesLine(lines, st, l) = Pos(a, b, c, d, Yes)
<1> DEFINE st == Pos(a, b, c, d, e)
           more == Append(a, l.content)
<1>1. st.out = a /\ st.at = b /\ st.old = c /\ st.new = d
  BY PosIs
<1>2. ASSUME NEW x, NEW y PROVE [st EXCEPT !.out = x, !.new = y] = Pos(x, b, c, y, e)
  <2>1. [Pos(a, b, c, d, e) EXCEPT !.out = x] = Pos(x, b, c, d, e)
    BY PosOut
  <2>2. [Pos(x, b, c, d, e) EXCEPT !.new = y] = Pos(x, b, c, y, e)
    BY PosNew
  <2> QED
    BY <2>1, <2>2
<1>3. [st EXCEPT !.failed = Yes] = Pos(a, b, c, d, Yes)
  BY PosFailed
<1>4. ASSUME NEW x, NEW y PROVE FoundAt(st, x, y) = Pos(x, b + 1, c + 1, y, e)
  BY FoundIs
<1> HIDE DEF st
<1>5. l.op = "\\" => AppliesLine(lines, st, l) = st
  BY DEF AppliesLine
<1>6. l.op = "+" => AppliesLine(lines, st, l) = Pos(more, b, c, d + 1, e)
  <2>1. l.op = "+" => AppliesLine(lines, st, l) = [st EXCEPT !.out = more, !.new = d + 1]
    BY <1>1 DEF AppliesLine
  <2>2. [st EXCEPT !.out = more, !.new = d + 1] = Pos(more, b, c, d + 1, e)
    BY <1>2
  <2> QED
    BY <2>1, <2>2
<1>7. l.op = " " /\ Matches(lines, b, l.content) => AppliesLine(lines, st, l) = Pos(more, b + 1, c + 1, d + 1, e)
  <2>1. l.op = " " /\ Matches(lines, b, l.content) => AppliesLine(lines, st, l) = FoundAt(st, more, d + 1)
    BY <1>1 DEF AppliesLine, FoundAt
  <2>2. FoundAt(st, more, d + 1) = Pos(more, b + 1, c + 1, d + 1, e)
    BY <1>4
  <2> QED
    BY <2>1, <2>2
<1>8. l.op \notin {"\\", "+", " "} /\ Matches(lines, b, l.content)
        => AppliesLine(lines, st, l) = Pos(a, b + 1, c + 1, d, e)
  <2>1. l.op \notin {"\\", "+", " "} /\ Matches(lines, b, l.content) => AppliesLine(lines, st, l) = FoundAt(st, a, d)
    BY <1>1 DEF AppliesLine, FoundAt
  <2>2. FoundAt(st, a, d) = Pos(a, b + 1, c + 1, d, e)
    BY <1>4
  <2> QED
    BY <2>1, <2>2
<1>9. l.op \notin {"\\", "+"} /\ ~Matches(lines, b, l.content) => AppliesLine(lines, st, l) = Pos(a, b, c, d, Yes)
  BY <1>1, <1>3 DEF AppliesLine, Yes
<1>10. l.op \in {" ", "-", "+", "\\"}
  BY Zenon DEF ScriptLines
<1>11. /\ l.op \notin OldOps /\ l.op \notin NewOps => l.op = "\\"
       /\ l.op \notin OldOps /\ l.op \in NewOps => l.op = "+"
       /\ l.op \in OldOps /\ l.op \in NewOps => l.op = " "
       /\ l.op \in OldOps /\ l.op \notin NewOps => l.op \notin {"\\", "+", " "}
       /\ l.op \in OldOps => l.op \notin {"\\", "+"}
  BY <1>10, Zenon DEF OldOps, NewOps
<1> QED
  BY <1>5, <1>6, <1>7, <1>8, <1>9, <1>11, Zenon DEF st

\* The two sides, line by line.
LEMMA SidesAre ==
  ASSUME NEW s \in Seq(ScriptLines)
  PROVE  /\ OldUpto(s, 0) = <<>> /\ NewUpto(s, 0) = <<>> /\ OldUpto(s, Len(s)) = OldLines(s)
         /\ NewUpto(s, Len(s)) = NewLines(s)
         /\ \A k \in 0..Len(s) :
              /\ OldUpto(s, k) \in Seq(Contents) /\ NewUpto(s, k) \in Seq(Contents)
              /\ Len(OldUpto(s, k)) \in Nat /\ Len(NewUpto(s, k)) \in Nat
         /\ \A k \in 1..Len(s) :
              /\ s[k] \in ScriptLines /\ s[k].content \in Contents
              /\ s[k].op \in OldOps => OldUpto(s, k) = Append(OldUpto(s, k - 1), s[k].content)
              /\ s[k].op \notin OldOps => OldUpto(s, k) = OldUpto(s, k - 1)
              /\ s[k].op \in NewOps => NewUpto(s, k) = Append(NewUpto(s, k - 1), s[k].content)
              /\ s[k].op \notin NewOps => NewUpto(s, k) = NewUpto(s, k - 1)
<1>1. ASSUME NEW ops
      PROVE  /\ Side(SubSeq(s, 1, 0), ops) = <<>> /\ Side(SubSeq(s, 1, Len(s)), ops) = Side(s, ops)
             /\ \A k \in 0..Len(s) : Side(SubSeq(s, 1, k), ops) \in Seq(Contents)
             /\ \A k \in 1..Len(s) :
                  /\ s[k] \in ScriptLines /\ s[k].content \in Contents
                  /\ s[k].op \in ops =>
                       Side(SubSeq(s, 1, k), ops) = Append(Side(SubSeq(s, 1, k - 1), ops), s[k].content)
                  /\ s[k].op \notin ops => Side(SubSeq(s, 1, k), ops) = Side(SubSeq(s, 1, k - 1), ops)
  BY SideUpto
<1>2. /\ \A k : OldUpto(s, k) = Side(SubSeq(s, 1, k), OldOps) /\ NewUpto(s, k) = Side(SubSeq(s, 1, k), NewOps)
      /\ OldLines(s) = Side(s, OldOps) /\ NewLines(s) = Side(s, NewOps)
  BY SidesOf DEF OldUpto, NewUpto
<1>3. /\ OldUpto(s, 0) = <<>> /\ OldUpto(s, Len(s)) = OldLines(s)
      /\ \A k \in 0..Len(s) : OldUpto(s, k) \in Seq(Contents)
      /\ \A k \in 1..Len(s) :
           /\ s[k] \in ScriptLines /\ s[k].content \in Contents
           /\ s[k].op \in OldOps => OldUpto(s, k) = Append(OldUpto(s, k - 1), s[k].content)
           /\ s[k].op \notin OldOps => OldUpto(s, k) = OldUpto(s, k - 1)
  BY <1>1, <1>2
<1>4. /\ NewUpto(s, 0) = <<>> /\ NewUpto(s, Len(s)) = NewLines(s)
      /\ \A k \in 0..Len(s) : NewUpto(s, k) \in Seq(Contents)
      /\ \A k \in 1..Len(s) :
           /\ s[k].op \in NewOps => NewUpto(s, k) = Append(NewUpto(s, k - 1), s[k].content)
           /\ s[k].op \notin NewOps => NewUpto(s, k) = NewUpto(s, k - 1)
  BY <1>1, <1>2
<1>5. \A k \in 0..Len(s) : Len(OldUpto(s, k)) \in Nat /\ Len(NewUpto(s, k)) \in Nat
  <2>1. \A t \in Seq(Contents) : Len(t) \in Nat
    OBVIOUS
  <2> QED
    BY <2>1, <1>3, <1>4, Zenon
<1> QED
  BY <1>3, <1>4, <1>5

\* An old line is found where the lines before it end.
LEMMA OldLineIsFound ==
  ASSUME NEW s \in Seq(ScriptLines), NEW k \in 1..Len(s), s[k].op \in OldOps
  PROVE  /\ Len(OldUpto(s, k)) = Len(OldUpto(s, k - 1)) + 1
         /\ Len(OldUpto(s, k)) <= Len(OldLines(s)) /\ OldLines(s)[Len(OldUpto(s, k))] = s[k].content
         /\ Matches(OldLines(s), Len(OldUpto(s, k - 1)), s[k].content)
<1> DEFINE lines == OldLines(s)
           p == OldUpto(s, k - 1)
           q == OldUpto(s, k)
           c == s[k].content
<1>0. Len(s) \in Nat /\ k \in 0..Len(s) /\ k - 1 \in 0..Len(s) /\ Len(s) \in k..Len(s) /\ Len(s) \in 0..Len(s)
  <2> DEFINE n == Len(s)
  <2>1. n \in Nat /\ k \in 1..n
    OBVIOUS
  <2> HIDE DEF n
  <2>2. k \in 0..n /\ k - 1 \in 0..n /\ n \in k..n /\ n \in 0..n
    BY <2>1
  <2> QED
    BY <2>1, <2>2 DEF n
<1>1. p \in Seq(Contents) /\ q = Append(p, c) /\ c \in Contents /\ lines = OldUpto(s, Len(s)) /\ lines \in Seq(Contents)
  BY <1>0, SidesAre
<1>2. Leads(q, lines)
  <2>1. Leads(Side(SubSeq(s, 1, k), OldOps), Side(SubSeq(s, 1, Len(s)), OldOps))
    BY <1>0, SideLeads
  <2> QED
    BY <2>1, <1>1, SidesOf DEF OldUpto
<1> HIDE DEF lines, p, q, c
<1>3. Len(q) = Len(p) + 1 /\ q[Len(p) + 1] = c
  BY <1>1, AppendIs
<1> DEFINE m == Len(p)
           n == Len(lines)
<1>a. m \in Nat /\ n \in Nat
  <2>1. \A t \in Seq(Contents) : Len(t) \in Nat
    OBVIOUS
  <2> QED
    BY <2>1, <1>1, Zenon
<1>b. Len(q) = m + 1 /\ q[m + 1] = c /\ Len(q) <= n /\ \A i \in 1..Len(q) : q[i] = lines[i]
  BY <1>2, <1>3 DEF Leads
<1>4. m + 1 <= n /\ lines[m + 1] = c
  <2> HIDE DEF m, n
  <2>1. m + 1 \in 1..Len(q)
    BY <1>a, <1>b
  <2> QED
    BY <1>b, <2>1
<1>5. Matches(lines, m, c)
  <2> HIDE DEF m
  <2>1. m < n
    BY <1>a, <1>4
  <2> QED
    BY <1>4, <2>1 DEF Matches
<1> QED
  BY <1>3, <1>4, <1>5, <1>b DEF lines, p, q, c

\* The state of the applier when it stands behind line k of a script, in a hunk
\* that began behind line j.
Stands(s, j, k) ==
  Pos(NewUpto(s, k), Len(OldUpto(s, k)), Len(OldUpto(s, k)) - Len(OldUpto(s, j)),
      Len(NewUpto(s, k)) - Len(NewUpto(s, j)), No)

\* One more line of the script moves it on by one.
LEMMA StandsNext ==
  ASSUME NEW s \in Seq(ScriptLines), NEW j \in 0..Len(s), NEW k \in 1..Len(s)
  PROVE  AppliesLine(OldLines(s), Stands(s, j, k - 1), s[k]) = Stands(s, j, k)
<1> DEFINE lines == OldLines(s)
           l == s[k]
           c == l.content
           p == OldUpto(s, k - 1)
           q == NewUpto(s, k - 1)
           a == Len(p)
           b == Len(q)
           oldAt == Len(OldUpto(s, j))
           newAt == Len(NewUpto(s, j))
           st == Pos(q, a, a - oldAt, b - newAt, No)
<1>1. /\ p \in Seq(Contents) /\ q \in Seq(Contents) /\ a \in Nat /\ b \in Nat /\ oldAt \in Nat /\ newAt \in Nat
      /\ l \in ScriptLines /\ c \in Contents
      /\ l.op \in OldOps => OldUpto(s, k) = Append(p, c)
      /\ l.op \notin OldOps => OldUpto(s, k) = p
      /\ l.op \in NewOps => NewUpto(s, k) = Append(q, c)
      /\ l.op \notin NewOps => NewUpto(s, k) = q
  <2>1. k - 1 \in 0..Len(s)
    OBVIOUS
  <2> QED
    BY <2>1, SidesAre
<1>2. l.op \in OldOps => Matches(lines, a, c)
  BY OldLineIsFound
<1>3. /\ l.op \notin OldOps /\ l.op \notin NewOps => AppliesLine(lines, st, l) = st
      /\ l.op \notin OldOps /\ l.op \in NewOps
           => AppliesLine(lines, st, l) = Pos(Append(q, c), a, a - oldAt, b - newAt + 1, No)
      /\ l.op \in OldOps /\ l.op \in NewOps
           => AppliesLine(lines, st, l) = Pos(Append(q, c), a + 1, a - oldAt + 1, b - newAt + 1, No)
      /\ l.op \in OldOps /\ l.op \notin NewOps
           => AppliesLine(lines, st, l) = Pos(q, a + 1, a - oldAt + 1, b - newAt, No)
  <2> HIDE DEF lines, l, p, q, a, b, oldAt, newAt
  <2> DEFINE x == a - oldAt
             y == b - newAt
  <2> HIDE DEF x, y
  <2>1. LET st1 == Pos(q, a, x, y, No)
        IN  /\ l.op \notin OldOps /\ l.op \notin NewOps => AppliesLine(lines, st1, l) = st1
            /\ l.op \notin OldOps /\ l.op \in NewOps
                 => AppliesLine(lines, st1, l) = Pos(Append(q, l.content), a, x, y + 1, No)
            /\ l.op \in OldOps /\ l.op \in NewOps /\ Matches(lines, a, l.content)
                 => AppliesLine(lines, st1, l) = Pos(Append(q, l.content), a + 1, x + 1, y + 1, No)
            /\ l.op \in OldOps /\ l.op \notin NewOps /\ Matches(lines, a, l.content)
                 => AppliesLine(lines, st1, l) = Pos(q, a + 1, x + 1, y, No)
    BY <1>1, LineDoes
  <2> QED
    BY <1>2, <2>1 DEF x, y
<1>4. Len(Append(p, c)) = a + 1 /\ Len(Append(q, c)) = b + 1
  <2> HIDE DEF p, q, c
  <2> QED
    BY <1>1, AppendIs
<1>5. a - oldAt + 1 = (a + 1) - oldAt /\ b - newAt + 1 = (b + 1) - newAt
  <2> HIDE DEF a, b, oldAt, newAt
  <2> QED
    BY <1>1
<1>6. Stands(s, j, k - 1) = st
  BY DEF Stands
<1>7. Stands(s, j, k) = Pos(NewUpto(s, k), Len(OldUpto(s, k)), Len(OldUpto(s, k)) - oldAt,
                            Len(NewUpto(s, k)) - newAt, No)
  BY DEF Stands
<1> HIDE DEF st, p, q, l, lines, c
<1>8. CASE l.op \in OldOps /\ l.op \in NewOps
  <2>1. OldUpto(s, k) = Append(p, c) /\ NewUpto(s, k) = Append(q, c)
    BY <1>1, <1>8
  <2>2. Stands(s, j, k) = Pos(Append(q, c), a + 1, (a + 1) - oldAt, (b + 1) - newAt, No)
    BY <2>1, <1>4, <1>7, Zenon
  <2>3. AppliesLine(lines, st, l) = Pos(Append(q, c), a + 1, a - oldAt + 1, b - newAt + 1, No)
    BY <1>3, <1>8
  <2> QED
    BY <2>2, <2>3, <1>5, <1>6, Zenon DEF lines, l
<1>9. CASE l.op \in OldOps /\ l.op \notin NewOps
  <2>1. OldUpto(s, k) = Append(p, c) /\ NewUpto(s, k) = q
    BY <1>1, <1>9
  <2>2. Stands(s, j, k) = Pos(q, a + 1, (a + 1) - oldAt, b - newAt, No)
    BY <2>1, <1>4, <1>7, Zenon
  <2>3. AppliesLine(lines, st, l) = Pos(q, a + 1, a - oldAt + 1, b - newAt, No)
    BY <1>3, <1>9
  <2> QED
    BY <2>2, <2>3, <1>5, <1>6, Zenon DEF lines, l
<1>10. CASE l.op \notin OldOps /\ l.op \in NewOps
  <2>1. OldUpto(s, k) = p /\ NewUpto(s, k) = Append(q, c)
    BY <1>1, <1>10
  <2>2. Stands(s, j, k) = Pos(Append(q, c), a, a - oldAt, (b + 1) - newAt, No)
    BY <2>1, <1>4, <1>7, Zenon
  <2>3. AppliesLine(lines, st, l) = Pos(Append(q, c), a, a - oldAt, b - newAt + 1, No)
    BY <1>3, <1>10
  <2> QED
    BY <2>2, <2>3, <1>5, <1>6, Zenon DEF lines, l
<1>11. CASE l.op \notin OldOps /\ l.op \notin NewOps
  <2>1. OldUpto(s, k) = p /\ NewUpto(s, k) = q
    BY <1>1, <1>11
  <2>2. Stands(s, j, k) = Pos(q, a, a - oldAt, b - newAt, No)
    BY <2>1, <1>7, Zenon
  <2>3. AppliesLine(lines, st, l) = st
    BY <1>3, <1>11
  <2> QED
    BY <2>2, <2>3, <1>6, Zenon DEF lines, l, st
<1> QED
  BY <1>8, <1>9, <1>10, <1>11

\* The lines of a hunk move it to the end of the hunk.
LEMMA LinesApply ==
  ASSUME NEW s \in Seq(ScriptLines), NEW from \in 1..Len(s), NEW upto \in from..Len(s)
  PROVE  AppliesLines(OldLines(s), Stands(s, from - 1, from - 1), SubSeq(s, from, upto))
           = Stands(s, from - 1, upto)
<1> DEFINE n == Len(s)
           lines == OldLines(s)
           j == from - 1
           b == Stands(s, j, j)
           st(k) == AppliesLines(lines, b, SubSeq(s, from, k))
           T == {k \in 0..n : k < j \/ st(k) = Stands(s, j, k)}
<1>0. n \in Nat /\ from \in 1..n /\ j \in 0..n /\ upto \in 0..n /\ upto \in from..n
  <2>1. n \in Nat /\ from \in 1..n
    OBVIOUS
  <2> QED
    BY <2>1
<1>1. st(j) = Stands(s, j, j)
  <2>1. SubSeq(s, from, j) = <<>>
    OBVIOUS
  <2>2. AppliesLines(lines, b, <<>>) = b
    BY AppliesLineNothing
  <2> QED
    BY <2>1, <2>2, Zenon
<1>2. \A k \in from..n : st(k) = AppliesLine(lines, st(k - 1), s[k])
  <2> SUFFICES ASSUME NEW k \in from..n PROVE st(k) = AppliesLine(lines, st(k - 1), s[k])
    OBVIOUS
  <2> DEFINE u == SubSeq(s, from, k - 1)
  <2>1. SubSeq(s, from, k) = Append(u, s[k]) /\ s[k] \in ScriptLines /\ u \in Seq(ScriptLines)
    BY Parts, ZenonT(60)
  <2>2. AppliesLines(lines, b, Append(u, s[k])) = AppliesLine(lines, AppliesLines(lines, b, u), s[k])
    <3> HIDE DEF u, b, lines
    <3> QED
      BY <2>1, AppliesLineMore
  <2> QED
    BY <2>1, <2>2, Zenon
<1>3. \A k \in from..n : AppliesLine(lines, Stands(s, j, k - 1), s[k]) = Stands(s, j, k)
  <2>1. \A k \in from..n : k \in 1..n
    BY <1>0
  <2> QED
    BY <2>1, <1>0, StandsNext
<1> HIDE DEF st, b, lines
<1>4. 0 \in T
  BY <1>0, <1>1
<1>5. ASSUME NEW k \in 1..n, k - 1 \in T PROVE k \in T
  <2>0. k \in 0..n
    BY <1>0
  <2>1. CASE k < j
    BY <2>0, <2>1
  <2>2. CASE k = j
    BY <2>0, <2>2, <1>1
  <2>3. CASE k > j
    <3>1. k \in from..n /\ ~(k - 1 < j)
      BY <2>3, <1>0
    <3>2. st(k - 1) = Stands(s, j, k - 1)
      BY <1>5, <3>1
    <3>3. st(k) = Stands(s, j, k)
      BY <1>2, <1>3, <3>1, <3>2
    <3> QED
      BY <2>0, <3>3
  <2> QED
    BY <2>1, <2>2, <2>3, <1>0
<1>6. upto \in T
  <2> HIDE DEF T, n
  <2>1. \A k \in 0..n : k \in T
    BY <1>0, <1>4, <1>5, UpTo
  <2> QED
    BY <2>1, <1>0
<1>7. st(upto) = Stands(s, j, upto)
  BY <1>6, <1>0
<1> QED
  BY <1>7 DEF st, b, lines

\* Lines that are on both sides or on none.
LEMMA GapIs ==
  ASSUME NEW s \in Seq(ScriptLines), NEW j \in 0..Len(s), NEW k \in j..Len(s),
         \A i \in j + 1..k : (s[i].op \in OldOps) <=> (s[i].op \in NewOps)
  PROVE  NewUpto(s, k) = NewUpto(s, j) \o SubSeq(OldLines(s), Len(OldUpto(s, j)) + 1, Len(OldUpto(s, k)))
<1> DEFINE n == Len(s)
           lines == OldLines(s)
           at0 == Len(OldUpto(s, j))
           len(i) == Len(OldUpto(s, i))
           p == NewUpto(s, j)
           T == {i \in 0..n : i < j \/ i > k \/ (at0 <= len(i) /\ NewUpto(s, i) = p \o SubSeq(lines, at0 + 1, len(i)))}
<1>0. n \in Nat /\ j \in 0..n /\ k \in 0..n /\ j <= k
  <2>1. n \in Nat /\ j \in 0..n /\ k \in j..n
    OBVIOUS
  <2> QED
    BY <2>1
<1>1. /\ lines \in Seq(Contents) /\ p \in Seq(Contents) /\ at0 \in Nat /\ at0 = len(j)
      /\ \A i \in 0..n : len(i) \in Nat /\ NewUpto(s, i) \in Seq(Contents)
      /\ \A i \in 1..n : /\ s[i].content \in Contents
                         /\ s[i].op \notin OldOps => len(i) = len(i - 1)
                         /\ s[i].op \in NewOps => NewUpto(s, i) = Append(NewUpto(s, i - 1), s[i].content)
                         /\ s[i].op \notin NewOps => NewUpto(s, i) = NewUpto(s, i - 1)
  <2>1. n \in 0..n
    BY <1>0
  <2>2. lines \in Seq(Contents)
    BY <2>1, SidesAre
  <2>3. /\ p \in Seq(Contents) /\ at0 \in Nat
        /\ \A i \in 0..n : len(i) \in Nat /\ NewUpto(s, i) \in Seq(Contents)
    BY <1>0, SidesAre
  <2>4. \A i \in 1..n : /\ s[i].content \in Contents
                        /\ s[i].op \notin OldOps => len(i) = len(i - 1)
                        /\ s[i].op \in NewOps => NewUpto(s, i) = Append(NewUpto(s, i - 1), s[i].content)
                        /\ s[i].op \notin NewOps => NewUpto(s, i) = NewUpto(s, i - 1)
    BY SidesAre
  <2> QED
    BY <2>2, <2>3, <2>4
<1>2. \A i \in 1..n : s[i].op \in OldOps =>
        len(i) = len(i - 1) + 1 /\ len(i) <= Len(lines) /\ lines[len(i)] = s[i].content
  BY OldLineIsFound
<1> HIDE DEF lines, at0, len, p
<1>3. SubSeq(lines, at0 + 1, at0) = <<>>
  BY <1>1
<1>4. at0 <= len(j) /\ NewUpto(s, j) = p \o SubSeq(lines, at0 + 1, len(j))
  <2>1. p \o <<>> = p
    BY <1>1
  <2>2. p \o SubSeq(lines, at0 + 1, at0) = p
    BY <2>1, <1>3, Zenon
  <2> QED
    BY <2>2, <1>1 DEF p
<1>5. 0 \in T
  <2>1. CASE j = 0
    BY <2>1, <1>0, <1>4
  <2>2. CASE j # 0
    BY <2>2, <1>0
  <2> QED
    BY <2>1, <2>2
<1>6. ASSUME NEW i \in 1..n, i - 1 \in T PROVE i \in T
  <2>0. i \in 0..n /\ i - 1 \in 0..n
    BY <1>0
  <2>1. CASE i < j \/ i > k
    BY <2>0, <2>1
  <2>2. CASE i = j
    BY <2>0, <2>2, <1>4
  <2>3. CASE i > j /\ i <= k
    <3>1. i \in j + 1..k /\ ~(i - 1 < j) /\ ~(i - 1 > k)
      BY <2>3, <1>0
    <3>2. at0 <= len(i - 1) /\ NewUpto(s, i - 1) = p \o SubSeq(lines, at0 + 1, len(i - 1))
      BY <1>6, <3>1
    <3>3. (s[i].op \in OldOps) <=> (s[i].op \in NewOps)
      BY <3>1
    <3>4. CASE s[i].op \in OldOps
      <4> DEFINE m == len(i)
                 u == SubSeq(lines, at0 + 1, m - 1)
                 c == s[i].content
      <4>1. m = len(i - 1) + 1 /\ m <= Len(lines) /\ lines[m] = c /\ len(i - 1) \in Nat /\ m \in Nat /\ m - 1 = len(i - 1)
        <5>1. m = len(i - 1) + 1 /\ m <= Len(lines) /\ lines[m] = c /\ len(i - 1) \in Nat
          BY <1>1, <1>2, <3>4, <2>0
        <5> QED
          BY <5>1
      <4>2. at0 + 1 \in 1..Len(lines) /\ m \in at0 + 1..Len(lines)
        <5> DEFINE w == len(i - 1)
                   z == Len(lines)
        <5>1. z \in Nat /\ at0 \in Nat /\ at0 <= w /\ m = w + 1 /\ m <= z /\ w \in Nat
          <6>1. z \in Nat
            BY <1>1
          <6>2. at0 \in Nat /\ at0 <= w
            BY <1>1, <3>2
          <6> QED
            BY <6>1, <6>2, <4>1
        <5> HIDE DEF m, w, z
        <5>2. at0 + 1 \in 1..z /\ m \in at0 + 1..z
          BY <5>1
        <5> QED
          BY <5>2 DEF z
      <4>3. SubSeq(lines, at0 + 1, m) = Append(u, lines[m]) /\ u \in Seq(Contents)
        <5> DEFINE f == at0 + 1
        <5>1. f \in 1..Len(lines) /\ m \in f..Len(lines) /\ lines \in Seq(Contents)
          BY <4>2, <1>1
        <5> HIDE DEF m, f
        <5>2. SubSeq(lines, f, m) = Append(SubSeq(lines, f, m - 1), lines[m]) /\ SubSeq(lines, f, m - 1) \in Seq(Contents)
          BY <5>1, Parts
        <5> QED
          BY <5>2 DEF f
      <4>4. NewUpto(s, i) = Append(p \o u, c)
        BY <1>1, <3>2, <3>3, <3>4, <4>1
      <4>5. p \o Append(u, c) = Append(p \o u, c)
        <5> HIDE DEF u, c
        <5>1. c \in Contents
          BY <1>1 DEF c
        <5>2. u \in Seq(Contents) /\ p \in Seq(Contents)
          BY <4>3, <1>1
        <5> QED
          BY <5>1, <5>2, JoinsMore
      <4>6. NewUpto(s, i) = p \o SubSeq(lines, at0 + 1, m)
        BY <4>1, <4>3, <4>4, <4>5, Zenon
      <4>7. at0 <= m
        BY <4>1, <3>2, <1>1
      <4> QED
        BY <4>6, <4>7, <2>0
    <3>5. CASE s[i].op \notin OldOps
      <4>1. len(i) = len(i - 1) /\ NewUpto(s, i) = NewUpto(s, i - 1)
        BY <1>1, <3>3, <3>5
      <4> QED
        BY <4>1, <3>2, <2>0
    <3> QED
      BY <3>4, <3>5
  <2>4. i < j \/ i > k \/ i = j \/ (i > j /\ i <= k)
    BY <1>0
  <2> HIDE DEF T
  <2> QED
    BY <2>1, <2>2, <2>3, <2>4
<1>7. k \in T
  <2> HIDE DEF T, n
  <2>1. \A i \in 0..n : i \in T
    BY <1>0, <1>5, <1>6, UpTo
  <2> QED
    BY <2>1, <1>0
<1>8. NewUpto(s, k) = p \o SubSeq(lines, at0 + 1, len(k))
  <2>1. ~(k < j) /\ ~(k > k)
    BY <1>0
  <2> QED
    BY <1>7, <2>1
<1> QED
  BY <1>8 DEF p, lines, at0, len

\* No run ends behind the last.
LEMMA EndsBefore ==
  ASSUME NEW runs, NEW shown, NEW n \in Nat, Covers(runs, shown, n), NEW j \in 0..Len(runs)
  PROVE  EndOf(runs, j) \in 0..n
<1> DEFINE m == Len(runs)
           T == {q \in 0..m : EndOf(runs, m - q) <= n}
<1>0. runs \in Seq(RunSet) /\ m \in Nat /\ j \in 0..m
  BY DEF Covers
<1>1. \A q \in 0..m : EndOf(runs, q) \in Nat
  BY <1>0, EndIs
<1>2. \A q \in 1..m : EndOf(runs, q - 1) <= EndOf(runs, q)
  <2>1. ASSUME NEW q \in 1..m PROVE EndOf(runs, q - 1) <= EndOf(runs, q)
    <3>1. q \in 0..m /\ q - 1 \in 0..m /\ q # 0
      BY <1>0
    <3>2. runs[q].from \in Nat /\ runs[q].upto \in Nat /\ EndOf(runs, q) = runs[q].upto
      BY <1>0, <3>1, EndIs
    <3>3. EndOf(runs, q - 1) < runs[q].from /\ runs[q].from <= runs[q].upto
      BY DEF Covers, Follow
    <3>4. EndOf(runs, q - 1) \in Nat
      BY <1>1, <3>1
    <3> QED
      BY <3>2, <3>3, <3>4
  <2> QED
    BY <2>1
<1>3. EndOf(runs, m) <= n
  BY DEF Covers
<1> HIDE DEF m
<1>4. 0 \in T
  <2>1. m - 0 = m /\ 0 \in 0..m
    BY <1>0
  <2> QED
    BY <2>1, <1>3
<1>5. ASSUME NEW q \in 1..m, q - 1 \in T PROVE q \in T
  <2> DEFINE a == m - q
  <2>1. a + 1 \in 1..m /\ (a + 1) - 1 = a /\ m - (q - 1) = a + 1 /\ a \in 0..m /\ a + 1 \in 0..m /\ q \in 0..m
    BY <1>0
  <2>2. EndOf(runs, a + 1) <= n
    BY <1>5, <2>1
  <2> HIDE DEF a
  <2>3. EndOf(runs, a) <= EndOf(runs, a + 1)
    BY <1>2, <2>1
  <2>4. EndOf(runs, a) \in Nat /\ EndOf(runs, a + 1) \in Nat
    BY <1>1, <2>1
  <2>5. EndOf(runs, a) <= n
    BY <2>2, <2>3, <2>4
  <2> QED
    BY <2>1, <2>5 DEF a
<1>6. m - j \in T
  <2> HIDE DEF T
  <2>1. \A q \in 0..m : q \in T
    BY <1>0, <1>4, <1>5, UpTo
  <2>2. m - j \in 0..m
    BY <1>0
  <2> QED
    BY <2>1, <2>2
<1>7. m - (m - j) = j
  BY <1>0
<1>8. EndOf(runs, j) <= n /\ EndOf(runs, j) \in Nat
  BY <1>6, <1>7, <1>0, <1>1
<1> QED
  BY <1>8

\* What a hunk says of the script it was cut from.
LEMMA HunkOfIs ==
  ASSUME NEW s \in Seq(ScriptLines), NEW from \in 1..Len(s), NEW upto \in from..Len(s)
  PROVE  LET h == HunkOf(s, from, upto)
         IN  /\ h \in HunkSet /\ h.lines = SubSeq(s, from, upto)
             /\ h.old = Len(OldUpto(s, upto)) - Len(OldUpto(s, from - 1))
             /\ h.new = Len(NewUpto(s, upto)) - Len(NewUpto(s, from - 1))
             /\ h.old > 0 \/ h.start = 0 => StartOf(h) = Len(OldUpto(s, from - 1))
<1> DEFINE h == HunkOf(s, from, upto)
           lines == SubSeq(s, from, upto)
           old == Len(OldLines(lines))
           new == Len(NewLines(lines))
           before == Len(OldUpto(s, from - 1))
           upold == Len(OldUpto(s, upto))
<1>0. Len(s) \in Nat /\ from - 1 \in 0..Len(s) /\ upto \in 0..Len(s) /\ upto \in from - 1..Len(s)
      /\ lines \in Seq(ScriptLines) /\ Len(s) \in from - 1..Len(s) /\ Len(s) \in 0..Len(s)
  <2>1. Len(s) \in Nat /\ lines \in Seq(ScriptLines)
    BY Parts
  <2> QED
    BY <2>1
<1>1. /\ OldLines(lines) \in Seq(Contents) /\ old = upold - before
      /\ NewLines(lines) \in Seq(Contents) /\ new = Len(NewUpto(s, upto)) - Len(NewUpto(s, from - 1))
  <2>1. \A ops : /\ Side(SubSeq(s, from, upto), ops) \in Seq(Contents)
                 /\ Len(Side(SubSeq(s, from, upto), ops))
                      = Len(Side(SubSeq(s, 1, upto), ops)) - Len(Side(SubSeq(s, 1, from - 1), ops))
    BY <1>0, SideParts
  <2> QED
    BY <2>1, SidesOf DEF OldUpto, NewUpto
<1>2. old \in Nat /\ new \in Nat /\ before \in Nat /\ upold \in Nat
  <2>1. \A t \in Seq(Contents) : Len(t) \in Nat
    OBVIOUS
  <2>2. before \in Nat /\ upold \in Nat
    BY <1>0, SidesAre
  <2> QED
    BY <2>1, <2>2, <1>1, Zenon
<1>3. h = [start |-> before + (IF old = 0 THEN 0 ELSE 1), old |-> old, new |-> new, lines |-> lines]
  BY DEF HunkOf, OldUpto
<1> HIDE DEF h, lines, old, new, before, upold
<1>5. h.start = (before + IF old = 0 THEN 0 ELSE 1) /\ h.old = old /\ h.new = new /\ h.lines = lines
  BY <1>3
<1>6. h \in HunkSet
  <2>1. before + (IF old = 0 THEN 0 ELSE 1) \in Nat
    BY <1>2
  <2> QED
    BY <2>1, <1>0, <1>2, <1>3 DEF HunkSet
<1>7. h.old > 0 \/ h.start = 0 => StartOf(h) = before
  <2>1. CASE old > 0
    <3>1. h.start = before + 1 /\ before + 1 # 0 /\ (before + 1) - 1 = before
      BY <2>1, <1>2, <1>5
    <3> QED
      BY <3>1 DEF StartOf
  <2>2. CASE h.start = 0
    <3>1. before = 0
      BY <2>2, <1>2, <1>5
    <3> QED
      BY <2>2, <3>1 DEF StartOf
  <2> QED
    BY <2>1, <2>2, <1>5
<1> QED
  BY <1>1, <1>5, <1>6, <1>7 DEF h, lines, before, new, upold

BegunAt(st, out, start) == [st EXCEPT !.out = out, !.at = start, !.old = 0, !.new = 0]

\* Where a hunk begins.
LEMMA BegunIs ==
  ASSUME NEW a, NEW b, NEW c, NEW d, NEW e, NEW out, NEW start
  PROVE  BegunAt(Pos(a, b, c, d, e), out, start) = Pos(out, start, 0, 0, e)
<1>1. [Pos(a, b, c, d, e) EXCEPT !.out = out] = Pos(out, b, c, d, e)
  BY PosOut
<1>2. [Pos(out, b, c, d, e) EXCEPT !.at = start] = Pos(out, start, c, d, e)
  BY PosAt
<1>3. [Pos(out, start, c, d, e) EXCEPT !.old = 0] = Pos(out, start, 0, d, e)
  BY PosOld
<1>4. [Pos(out, start, 0, d, e) EXCEPT !.new = 0] = Pos(out, start, 0, 0, e)
  BY PosNew
<1> QED
  BY <1>1, <1>2, <1>3, <1>4 DEF BegunAt

\* A hunk moves the applier from the end of the one before to its own.
LEMMA HunkApplies ==
  ASSUME NEW s \in Seq(ScriptLines), NEW e \in 0..Len(s), NEW from \in e + 1..Len(s), NEW upto \in from..Len(s),
         \A i \in e + 1..from - 1 : (s[i].op \in OldOps) <=> (s[i].op \in NewOps),
         HunkOf(s, from, upto).old > 0 \/ HunkOf(s, from, upto).start = 0, NEW x, NEW y
  PROVE  AppliesHunk(OldLines(s), Pos(NewUpto(s, e), Len(OldUpto(s, e)), x, y, No), HunkOf(s, from, upto))
           = Stands(s, from - 1, upto)
<1> DEFINE lines == OldLines(s)
           j == from - 1
           st == Pos(NewUpto(s, e), Len(OldUpto(s, e)), x, y, No)
           h == HunkOf(s, from, upto)
           start == Len(OldUpto(s, j))
           ended == Stands(s, j, upto)
<1>0. Len(s) \in Nat /\ from \in 1..Len(s) /\ j \in 0..Len(s) /\ j \in e..Len(s) /\ Len(s) \in j..Len(s)
      /\ e \in 0..Len(s) /\ upto \in 0..Len(s) /\ Len(s) \in 0..Len(s)
  <2> DEFINE n == Len(s)
  <2>1. n \in Nat
    OBVIOUS
  <2> HIDE DEF n
  <2>2. e \in 0..n /\ from \in e + 1..n /\ upto \in from..n
    BY DEF n
  <2>3. n \in Nat /\ from \in 1..n /\ j \in 0..n /\ j \in e..n /\ n \in j..n /\ e \in 0..n /\ upto \in 0..n /\ n \in 0..n
    BY <2>1, <2>2
  <2> QED
    BY <2>3 DEF n
<1>1. /\ h.lines = SubSeq(s, from, upto) /\ StartOf(h) = start
      /\ h.old = Len(OldUpto(s, upto)) - start /\ h.new = Len(NewUpto(s, upto)) - Len(NewUpto(s, j))
  BY <1>0, HunkOfIs
<1>2. NewUpto(s, j) = NewUpto(s, e) \o SubSeq(lines, Len(OldUpto(s, e)) + 1, start)
  <2>1. \A i \in e + 1..j : (s[i].op \in OldOps) <=> (s[i].op \in NewOps)
    OBVIOUS
  <2> QED
    BY <2>1, <1>0, GapIs
<1>3. start \in Nat /\ Len(lines) \in Nat /\ Len(OldUpto(s, e)) \in Nat
      /\ Len(OldUpto(s, upto)) \in Nat /\ Len(NewUpto(s, upto)) \in Nat /\ Len(NewUpto(s, j)) \in Nat
  <2>1. lines \in Seq(Contents)
    BY <1>0, SidesAre
  <2>2. Len(lines) \in Nat
    BY <2>1
  <2> QED
    BY <1>0, <2>2, SidesAre
<1>4. Len(OldUpto(s, e)) <= start /\ start <= Len(lines)
  <2>1. Leads(Side(SubSeq(s, 1, e), OldOps), Side(SubSeq(s, 1, j), OldOps))
        /\ Leads(Side(SubSeq(s, 1, j), OldOps), Side(SubSeq(s, 1, Len(s)), OldOps))
    BY <1>0, SideLeads
  <2>2. Leads(OldUpto(s, e), OldUpto(s, j)) /\ Leads(OldUpto(s, j), OldUpto(s, Len(s)))
    BY <2>1, SidesOf DEF OldUpto
  <2>3. OldUpto(s, Len(s)) = lines
    BY SidesAre
  <2> QED
    BY <2>2, <2>3 DEF Leads
<1>5. /\ st.out = NewUpto(s, e) /\ st.at = Len(OldUpto(s, e))
      /\ ended.old = Len(OldUpto(s, upto)) - start /\ ended.new = Len(NewUpto(s, upto)) - Len(NewUpto(s, j))
  BY PosIs DEF Stands
<1> DEFINE a == Len(OldUpto(s, e))
<1>6. Slice(lines, a + 1, start) = SubSeq(lines, a + 1, start)
  <2> HIDE DEF start, lines, a
  <2>1. ~(start > Len(lines))
    BY <1>3, <1>4
  <2> QED
    BY <2>1 DEF Slice
<1> DEFINE begun == [st EXCEPT !.out = @ \o Slice(lines, st.at + 1, start), !.at = start, !.old = 0, !.new = 0]
<1>7. begun = Stands(s, j, j)
  <2>1. begun = BegunAt(st, st.out \o Slice(lines, st.at + 1, start), start)
    BY DEF BegunAt
  <2>2. st.out \o Slice(lines, st.at + 1, start) = NewUpto(s, j)
    BY <1>2, <1>5, <1>6, Zenon
  <2>3. BegunAt(st, NewUpto(s, j), start) = Pos(NewUpto(s, j), start, 0, 0, No)
    BY BegunIs
  <2>4. start - start = 0 /\ Len(NewUpto(s, j)) - Len(NewUpto(s, j)) = 0
    BY <1>3
  <2>5. Stands(s, j, j) = Pos(NewUpto(s, j), start, start - start, Len(NewUpto(s, j)) - Len(NewUpto(s, j)), No)
    BY DEF Stands
  <2> QED
    BY <2>1, <2>2, <2>3, <2>4, <2>5, Zenon
<1>8. AppliesLines(lines, begun, h.lines) = ended
  <2>1. AppliesLines(lines, Stands(s, j, j), SubSeq(s, from, upto)) = ended
    BY <1>0, LinesApply
  <2> QED
    BY <2>1, <1>1, <1>7, Zenon
<1>9. ~(start < st.at)
  BY <1>3, <1>4, <1>5
<1>10. ~(StartOf(h) < st.at \/ ended.old # h.old \/ ended.new # h.new)
  <2> HIDE DEF h, st, ended, start
  <2> QED
    BY <1>1, <1>5, <1>9
<1>11. AppliesHunk(lines, st, h) =
        IF StartOf(h) < st.at \/ AppliesLines(lines, begun, h.lines).old # h.old
             \/ AppliesLines(lines, begun, h.lines).new # h.new
        THEN [AppliesLines(lines, begun, h.lines) EXCEPT !.failed = TRUE]
        ELSE AppliesLines(lines, begun, h.lines)
  BY <1>1 DEF AppliesHunk
<1> HIDE DEF begun, ended, st, h, lines
<1>12. AppliesHunk(lines, st, h) = ended
  BY <1>8, <1>10, <1>11
<1> QED
  BY <1>12 DEF begun, ended, st, h, lines
\* The runs and the hunks that are made of a script.
LEMMA HunksMade ==
  ASSUME NEW s \in Seq(ScriptLines), NEW shown, 0 \notin shown, NEW runs, runs = Runs(s, shown)
  PROVE  /\ Covers(runs, shown, Len(s)) /\ Len(runs) \in Nat /\ Len(s) \in Nat
         /\ Hunks(s, shown) \in Seq(HunkSet) /\ Len(Hunks(s, shown)) = Len(runs)
         /\ \A k \in 1..Len(runs) :
              /\ EndOf(runs, k - 1) \in 0..Len(s) /\ EndOf(runs, k) = runs[k].upto
              /\ runs[k].from \in EndOf(runs, k - 1) + 1..Len(s) /\ runs[k].from \in 1..Len(s)
              /\ runs[k].upto \in runs[k].from..Len(s)
              /\ Hunks(s, shown)[k] = HunkOf(s, runs[k].from, runs[k].upto)
              /\ \A i \in EndOf(runs, k - 1) + 1..runs[k].from - 1 : i \notin shown
<1> DEFINE n == Len(s)
           m == Len(runs)
           hs == Hunks(s, shown)
           h(k) == HunkOf(s, runs[k].from, runs[k].upto)
<1>1. Covers(runs, shown, n)
  BY RunsCover
<1>2. m \in Nat /\ n \in Nat /\ runs \in Seq(RunSet) /\ DOMAIN runs = 1..m
  BY <1>1 DEF Covers
<1>3. ASSUME NEW k \in 1..m
      PROVE  /\ EndOf(runs, k - 1) \in 0..n /\ EndOf(runs, k) = runs[k].upto
             /\ runs[k].from \in EndOf(runs, k - 1) + 1..n /\ runs[k].from \in 1..n
             /\ runs[k].upto \in runs[k].from..n
             /\ \A i \in EndOf(runs, k - 1) + 1..runs[k].from - 1 : i \notin shown
  <2>0. k \in 0..m /\ k - 1 \in 0..m /\ k # 0
    BY <1>2
  <2>1. EndOf(runs, k - 1) \in 0..n /\ EndOf(runs, k) \in 0..n
    BY <1>1, <1>2, <2>0, EndsBefore
  <2>2. runs[k].from \in Nat /\ runs[k].upto \in Nat /\ EndOf(runs, k) = runs[k].upto
    BY <1>2, <2>0, EndIs
  <2>3. /\ EndOf(runs, k - 1) < runs[k].from /\ runs[k].from <= runs[k].upto
        /\ \A i \in EndOf(runs, k - 1) + 1..runs[k].from - 1 : i \notin shown
    BY <1>1 DEF Covers, Follow
  <2> HIDE DEF n, m
  <2> QED
    BY <2>1, <2>2, <2>3, <1>2
<1>4. \A k \in 1..m : h(k) \in HunkSet
  <2>1. ASSUME NEW k \in 1..m PROVE h(k) \in HunkSet
    <3>1. runs[k].from \in 1..n /\ runs[k].upto \in runs[k].from..n
      BY <1>3
    <3> QED
      BY <3>1, HunkOfIs
  <2> QED
    BY <2>1
<1>5. hs = [k \in 1..m |-> h(k)]
  BY <1>2 DEF Hunks
<1> HIDE DEF hs, h, m, n
<1>6. hs \in Seq(HunkSet) /\ Len(hs) = m /\ \A k \in 1..m : hs[k] = h(k)
  BY <1>2, <1>4, <1>5
<1> QED
  BY <1>1, <1>2, <1>3, <1>6 DEF hs, h, m, n

\* A line of a hunk is a line of the script.
LEMMA HunkLinesAre ==
  ASSUME NEW s \in Seq(ScriptLines), NEW shown, 0 \notin shown,
         NEW k \in DOMAIN Hunks(s, shown), NEW i \in DOMAIN Hunks(s, shown)[k].lines
  PROVE  \E j \in 1..Len(s) : Hunks(s, shown)[k].lines[i] = s[j]
<1> DEFINE runs == Runs(s, shown)
           hs == Hunks(s, shown)
           from == runs[k].from
           upto == runs[k].upto
<1>1. /\ Len(runs) \in Nat /\ Len(s) \in Nat /\ hs \in Seq(HunkSet) /\ Len(hs) = Len(runs)
      /\ \A q \in 1..Len(runs) :
           /\ runs[q].from \in 1..Len(s) /\ runs[q].upto \in runs[q].from..Len(s)
           /\ hs[q] = HunkOf(s, runs[q].from, runs[q].upto)
  BY HunksMade
<1>2. k \in 1..Len(runs)
  BY <1>1
<1>3. from \in 1..Len(s) /\ upto \in from..Len(s) /\ hs[k] = HunkOf(s, from, upto)
  BY <1>1, <1>2
<1> HIDE DEF hs, from, upto
<1>4. hs[k].lines = SubSeq(s, from, upto)
  BY <1>3, HunkOfIs
<1>5. /\ Len(SubSeq(s, from, upto)) = upto + 1 - from /\ SubSeq(s, from, upto) \in Seq(ScriptLines)
      /\ \A q \in 1..upto + 1 - from : SubSeq(s, from, upto)[q] = s[from + q - 1]
  BY <1>3, Parts
<1>6. i \in 1..upto + 1 - from
  <2>1. i \in DOMAIN SubSeq(s, from, upto)
    BY <1>4 DEF hs
  <2> QED
    BY <2>1, <1>5
<1>7. from + i - 1 \in 1..Len(s)
  BY <1>1, <1>3, <1>6
<1> QED
  BY <1>4, <1>5, <1>6, <1>7 DEF hs

\* The lines of a script, and which of them are shown.
Shown(file) == file.script \in Seq(ScriptLines) /\ file.shown \subseteq 1..Len(file.script) /\ 0 \notin file.shown

\* A patch that may be applied is one that shows what can be shown.
LEMMA PatchesShow ==
  ASSUME NEW patch \in Patches
  PROVE  Shows(patch) /\ patch # <<>> /\ \A i \in DOMAIN patch : Shown(patch[i]) /\ patch[i] \in FilePatches
<1>1. patch \in Seq(FilePatches) /\ patch # <<>> /\ \A i \in DOMAIN patch : patch[i].shown \subseteq DOMAIN patch[i].script
  BY PatchesShowScripts
<1>2. \A i \in DOMAIN patch : patch[i] \in FilePatches
  BY <1>1
<1>3. ASSUME NEW i \in DOMAIN patch PROVE Shown(patch[i]) /\ Hunks(patch[i].script, patch[i].shown) \in Seq(HunkSet)
  <2> DEFINE script == patch[i].script
             shown == patch[i].shown
  <2>1. script \in Seq(ScriptLines)
    BY <1>2, Zenon DEF FilePatches
  <2>2. shown \subseteq DOMAIN script
    BY <1>1
  <2> HIDE DEF script, shown
  <2>3. DOMAIN script = 1..Len(script) /\ Len(script) \in Nat
    BY <2>1
  <2>4. 0 \notin shown /\ shown \subseteq 1..Len(script)
    BY <2>2, <2>3
  <2>5. Hunks(script, shown) \in Seq(HunkSet)
    BY <2>1, <2>4, HunksMade
  <2> QED
    BY <2>1, <2>4, <2>5 DEF Shown, script, shown
<1> QED
  BY <1>1, <1>2, <1>3 DEF Shows

\* The lines of a script that splitlines() does not cut stay whole.
LEMMA UncutIsWhole ==
  ASSUME NEW file, Shown(file), Uncut(file.script)
  PROVE  \A k \in DOMAIN Hunks(file.script, file.shown) : Whole(Hunks(file.script, file.shown)[k])
<1> DEFINE s == file.script
           hs == Hunks(s, file.shown)
<1>1. s \in Seq(ScriptLines) /\ 0 \notin file.shown
  BY DEF Shown
<1>2. ASSUME NEW k \in DOMAIN hs, NEW i \in DOMAIN hs[k].lines PROVE hs[k].lines[i].content \notin Cut
  <2>1. \E j \in 1..Len(s) : hs[k].lines[i] = s[j]
    <3> HIDE DEF s
    <3> QED
      BY <1>1, HunkLinesAre
  <2>2. \A j \in 1..Len(s) : s[j].content \notin Cut
    <3>1. DOMAIN s = 1..Len(s)
      BY <1>1
    <3> QED
      BY <3>1 DEF Uncut
  <2> QED
    BY <2>1, <2>2
<1> QED
  BY <1>2 DEF Whole

\* What a patch that fits removes never looks like a header.
LEMMA FitsPlainly ==
  ASSUME NEW d, NEW file, Shown(file), Fits(d, file)
  PROVE  ~SomeDashed(Hunks(file.script, file.shown))
<1> DEFINE s == file.script
           hs == Hunks(s, file.shown)
<1>1. s \in Seq(ScriptLines) /\ 0 \notin file.shown
  BY DEF Shown
<1>2. Line("-", Dashes) \notin ToSet(s)
  BY Zenon DEF Fits
<1>3. ASSUME NEW k \in DOMAIN hs, NEW i \in DOMAIN hs[k].lines PROVE hs[k].lines[i] # Line("-", Dashes)
  <2>1. \E j \in 1..Len(s) : hs[k].lines[i] = s[j]
    <3> HIDE DEF s
    <3> QED
      BY <1>1, HunkLinesAre
  <2>2. \A j \in 1..Len(s) : s[j] \in ToSet(s)
    BY <1>1 DEF ToSet
  <2> QED
    BY <1>2, <2>1, <2>2
<1> QED
  BY <1>3 DEF SomeDashed, IsDashed

\* A line that is shown is in a run.
LEMMA RunHolds ==
  ASSUME NEW runs, NEW shown, NEW n \in Nat, Covers(runs, shown, n), NEW i \in 1..n, i \in shown
  PROVE  \E k \in 1..Len(runs) : runs[k].from <= i /\ i <= runs[k].upto
<1> DEFINE m == Len(runs)
           S == {k \in 0..m : EndOf(runs, k) >= i}
           k == Least(S)
<1>1. m \in Nat /\ runs \in Seq(RunSet) /\ EndOf(runs, m) \in Nat
  <2>1. runs \in Seq(RunSet)
    BY DEF Covers
  <2>2. m \in Nat /\ m \in 0..m
    BY <2>1
  <2> QED
    BY <2>1, <2>2, EndIs
<1>2. m \in S
  <2>1. ~(i \in EndOf(runs, m) + 1..n)
    BY DEF Covers
  <2> QED
    BY <2>1, <1>1
<1>3. S \subseteq Nat
  OBVIOUS
<1>4. k \in S /\ \A q \in S : k <= q
  <2> HIDE DEF S
  <2> QED
    BY <1>2, <1>3, LeastNumber
<1>5. k \in 0..m /\ EndOf(runs, k) >= i
  BY <1>4
<1>6. k # 0
  BY <1>5 DEF EndOf
<1>7. k - 1 \in 0..m /\ k \in 1..m /\ k - 1 < k
  BY <1>1, <1>5, <1>6
<1>8. k - 1 \notin S
  <2> HIDE DEF S, k
  <2>1. ~(k <= k - 1)
    BY <1>7
  <2> QED
    BY <2>1, <1>4
<1> HIDE DEF k, m
<1>9. EndOf(runs, k - 1) < i
  <2>1. EndOf(runs, k - 1) \in Nat
    BY <1>1, <1>7, EndIs DEF m
  <2> QED
    BY <2>1, <1>7, <1>8
<1>10. /\ runs[k].from \in Nat /\ runs[k].upto \in Nat /\ EndOf(runs, k) = runs[k].upto
       /\ EndOf(runs, k - 1) \in Nat
  BY <1>1, <1>5, <1>6, <1>7, EndIs DEF m
<1>11. runs[k].from <= i
  <2>1. \A q \in EndOf(runs, k - 1) + 1..runs[k].from - 1 : q \notin shown
    BY <1>7 DEF Covers, Follow, m
  <2> QED
    BY <2>1, <1>9, <1>10
<1> QED
  BY <1>5, <1>7, <1>10, <1>11 DEF m

\* What is not shown is kept or not there.
ShowsChanges(s, shown) == \A i \in DOMAIN s : s[i].op \in {"+", "-"} => i \in shown
IsPlaced(h) == h.old > 0 \/ (h.start = 0 /\ h.new > 0)
HunksStand(s, shown) == \A k \in DOMAIN Hunks(s, shown) : IsPlaced(Hunks(s, shown)[k])

\* Lines between hunks are on both sides or on none.
LEMMA NotShownIsKept ==
  ASSUME NEW s \in Seq(ScriptLines), NEW shown, ShowsChanges(s, shown), NEW i \in 1..Len(s), i \notin shown
  PROVE  (s[i].op \in OldOps) <=> (s[i].op \in NewOps)
<1>1. s[i] \in ScriptLines /\ i \in DOMAIN s
  OBVIOUS
<1>2. s[i].op \in {" ", "-", "+", "\\"}
  BY <1>1, Zenon DEF ScriptLines
<1>3. s[i].op \notin {"+", "-"}
  BY <1>1, Zenon DEF ShowsChanges
<1> QED
  BY <1>2, <1>3, Zenon DEF OldOps, NewOps

\* The hunks of a script turn its old lines into its new ones, up to where they end.
LEMMA HunksApply ==
  ASSUME NEW s \in Seq(ScriptLines), NEW shown, 0 \notin shown, ShowsChanges(s, shown), HunksStand(s, shown),
         NEW runs, runs = Runs(s, shown), NEW e, e = EndOf(runs, Len(runs))
  PROVE  \E x, y : AppliesHunks(OldLines(s), Pos(<<>>, 0, 0, 0, No), Hunks(s, shown))
                     = Pos(NewUpto(s, e), Len(OldUpto(s, e)), x, y, No)
<1> DEFINE m == Len(runs)
           lines == OldLines(s)
           hs == Hunks(s, shown)
           b == Pos(<<>>, 0, 0, 0, No)
           st(k) == AppliesHunks(lines, b, SubSeq(hs, 1, k))
           stands(k, x, y) == Pos(NewUpto(s, EndOf(runs, k)), Len(OldUpto(s, EndOf(runs, k))), x, y, No)
           T == {k \in 0..m : \E x, y : st(k) = stands(k, x, y)}
<1>1. /\ m \in Nat /\ Len(s) \in Nat /\ hs \in Seq(HunkSet) /\ Len(hs) = m
      /\ \A k \in 1..m :
           /\ EndOf(runs, k - 1) \in 0..Len(s) /\ EndOf(runs, k) = runs[k].upto
           /\ runs[k].from \in EndOf(runs, k - 1) + 1..Len(s) /\ runs[k].from \in 1..Len(s)
           /\ runs[k].upto \in runs[k].from..Len(s)
           /\ hs[k] = HunkOf(s, runs[k].from, runs[k].upto)
           /\ \A i \in EndOf(runs, k - 1) + 1..runs[k].from - 1 : i \notin shown
  BY HunksMade
<1>2. \A k \in 1..m : hs[k].old > 0 \/ hs[k].start = 0
  BY <1>1 DEF HunksStand, IsPlaced
<1> HIDE DEF hs
<1>3. /\ SubSeq(hs, 1, 0) = <<>> /\ SubSeq(hs, 1, m) = hs
      /\ \A k \in 1..m : SubSeq(hs, 1, k) = Append(SubSeq(hs, 1, k - 1), hs[k]) /\ hs[k] \in HunkSet
      /\ \A k \in 0..m : SubSeq(hs, 1, k) \in Seq(HunkSet)
  BY <1>1, FirstElements
<1> HIDE DEF m
<1>4. 0 \in T
  <2>1. AppliesHunks(lines, b, <<>>) = b
    BY AppliesHunkNothing
  <2>2. st(0) = b
    BY <1>3, <2>1, Zenon
  <2>3. EndOf(runs, 0) = 0
    BY DEF EndOf
  <2>4. NewUpto(s, 0) = <<>> /\ OldUpto(s, 0) = <<>>
    BY SidesAre
  <2>5. Len(<<>>) = 0
    OBVIOUS
  <2>6. stands(0, 0, 0) = b
    BY <2>3, <2>4, <2>5, Zenon
  <2>7. st(0) = stands(0, 0, 0)
    BY <2>2, <2>6, Zenon
  <2> HIDE DEF st, stands
  <2>8. \E x, y : st(0) = stands(0, x, y)
    BY <2>7
  <2>9. 0 \in 0..m
    BY <1>1
  <2> QED
    BY <2>8, <2>9
<1>5. ASSUME NEW k \in 1..m, k - 1 \in T PROVE k \in T
  <2> DEFINE from == runs[k].from
             upto == runs[k].upto
             before == EndOf(runs, k - 1)
  <2>0. k - 1 \in 0..m /\ k \in 0..m
    BY <1>1
  <2>1. PICK x, y : st(k - 1) = stands(k - 1, x, y)
    BY <1>5
  <2>2. st(k) = AppliesHunk(lines, st(k - 1), hs[k])
    <3> DEFINE p == SubSeq(hs, 1, k - 1)
               h == hs[k]
    <3>1. p \in Seq(HunkSet) /\ h \in HunkSet /\ SubSeq(hs, 1, k) = Append(p, h)
      BY <1>3, <2>0
    <3> HIDE DEF p, h, b, lines
    <3>2. AppliesHunks(lines, b, Append(p, h)) = AppliesHunk(lines, AppliesHunks(lines, b, p), h)
      BY <3>1, AppliesHunkMore
    <3> QED
      BY <3>1, <3>2, Zenon DEF p, h
  <2>3. /\ before \in 0..Len(s) /\ from \in before + 1..Len(s) /\ upto \in from..Len(s)
        /\ hs[k] = HunkOf(s, from, upto) /\ EndOf(runs, k) = upto
        /\ \A i \in before + 1..from - 1 : i \notin shown
    BY <1>1
  <2> HIDE DEF before, from, upto
  <2>4. \A i \in before + 1..from - 1 : (s[i].op \in OldOps) <=> (s[i].op \in NewOps)
    <3>1. \A i \in before + 1..from - 1 : i \in 1..Len(s)
      BY <2>3, <1>1
    <3> QED
      BY <3>1, <2>3, NotShownIsKept
  <2>5. HunkOf(s, from, upto).old > 0 \/ HunkOf(s, from, upto).start = 0
    BY <1>2, <2>3
  <2>6. AppliesHunk(OldLines(s), Pos(NewUpto(s, before), Len(OldUpto(s, before)), x, y, No), HunkOf(s, from, upto))
          = Stands(s, from - 1, upto)
    BY <2>3, <2>4, <2>5, HunkApplies
  <2>7. st(k) = Stands(s, from - 1, upto)
    <3>1. stands(k - 1, x, y) = Pos(NewUpto(s, before), Len(OldUpto(s, before)), x, y, No)
      BY DEF before
    <3> HIDE DEF st, stands
    <3> QED
      BY <2>1, <2>2, <2>3, <2>6, <3>1, Zenon
  <2>8. Stands(s, from - 1, upto)
          = stands(k, Len(OldUpto(s, upto)) - Len(OldUpto(s, from - 1)), Len(NewUpto(s, upto)) - Len(NewUpto(s, from - 1)))
    BY <2>3, Zenon DEF Stands
  <2> HIDE DEF st, stands
  <2>9. \E a, c : st(k) = stands(k, a, c)
    BY <2>7, <2>8, Zenon
  <2> QED
    BY <2>0, <2>9
<1>6. m \in T
  <2> HIDE DEF T
  <2>1. \A k \in 0..m : k \in T
    BY <1>1, <1>4, <1>5, UpTo
  <2> QED
    BY <2>1, <1>1
<1>7. PICK x, y : st(m) = stands(m, x, y)
  BY <1>6
<1>8. st(m) = AppliesHunks(lines, b, hs) /\ stands(m, x, y) = Pos(NewUpto(s, e), Len(OldUpto(s, e)), x, y, No)
  BY <1>3, Zenon DEF m
<1>9. AppliesHunks(lines, b, hs) = Pos(NewUpto(s, e), Len(OldUpto(s, e)), x, y, No)
  BY <1>7, <1>8, Zenon
<1> QED
  BY <1>9, Zenon DEF hs

\* A hunk that is placed has a line that is more than a remark.
LEMMA HunksSay ==
  ASSUME NEW s \in Seq(ScriptLines), NEW shown, shown \subseteq 1..Len(s), shown # {},
         HunksStand(s, shown)
  PROVE  \E i \in DOMAIN Hunks(s, shown) :
           \E k \in DOMAIN Hunks(s, shown)[i].lines : Hunks(s, shown)[i].lines[k].op # "\\"
<1> DEFINE runs == Runs(s, shown)
           m == Len(runs)
           hs == Hunks(s, shown)
           n == Len(s)
<1>0. 0 \notin shown /\ n \in Nat
  OBVIOUS
<1>1. /\ Covers(runs, shown, n) /\ m \in Nat /\ hs \in Seq(HunkSet) /\ Len(hs) = m
      /\ \A k \in 1..m :
           /\ runs[k].from \in 1..n /\ runs[k].upto \in runs[k].from..n
           /\ hs[k] = HunkOf(s, runs[k].from, runs[k].upto)
  BY <1>0, HunksMade
<1> HIDE DEF runs, m, n
<1>2. PICK j : j \in shown /\ j \in 1..n
  BY DEF n
<1>3. \E k \in 1..m : runs[k].from <= j /\ j <= runs[k].upto
  BY <1>0, <1>1, <1>2, RunHolds DEF m
<1>4. 1 \in 1..m /\ 1 \in DOMAIN hs
  <2>1. m >= 1
    BY <1>1, <1>3
  <2> HIDE DEF hs
  <2> QED
    BY <2>1, <1>1
<1>5. \A k \in 1..m : /\ hs[k].lines = SubSeq(s, runs[k].from, runs[k].upto)
                      /\ hs[k].lines \in Seq(ScriptLines) /\ Len(hs[k].lines) = runs[k].upto + 1 - runs[k].from
                      /\ \A q \in 1..runs[k].upto + 1 - runs[k].from : hs[k].lines[q] = s[runs[k].from + q - 1]
  <2>1. ASSUME NEW k \in 1..m
        PROVE  /\ hs[k].lines = SubSeq(s, runs[k].from, runs[k].upto)
               /\ hs[k].lines \in Seq(ScriptLines) /\ Len(hs[k].lines) = runs[k].upto + 1 - runs[k].from
               /\ \A q \in 1..runs[k].upto + 1 - runs[k].from : hs[k].lines[q] = s[runs[k].from + q - 1]
    <3> DEFINE from == runs[k].from
               upto == runs[k].upto
    <3>1. from \in 1..Len(s) /\ upto \in from..Len(s) /\ hs[k] = HunkOf(s, from, upto)
      BY <1>1 DEF n
    <3> HIDE DEF hs, from, upto
    <3>2. hs[k].lines = SubSeq(s, from, upto)
      BY <3>1, HunkOfIs
    <3>3. /\ SubSeq(s, from, upto) \in Seq(ScriptLines) /\ Len(SubSeq(s, from, upto)) = upto + 1 - from
          /\ \A q \in 1..upto + 1 - from : SubSeq(s, from, upto)[q] = s[from + q - 1]
      BY <3>1, Parts
    <3> QED
      BY <3>2, <3>3 DEF from, upto
  <2> QED
    BY <2>1
<1>6. "\\" \notin OldOps /\ "\\" \notin NewOps
  BY Zenon DEF OldOps, NewOps
<1> DEFINE from == runs[1].from
           upto == runs[1].upto
           lines == hs[1].lines
<1>7. /\ hs[1].old = Len(OldLines(lines)) /\ hs[1].new = Len(NewLines(lines))
      /\ lines \in Seq(ScriptLines) /\ IsPlaced(hs[1])
  <2>1. hs[1] = HunkOf(s, from, upto) /\ lines \in Seq(ScriptLines)
    BY <1>1, <1>4, <1>5
  <2>2. /\ HunkOf(s, from, upto).old = Len(OldLines(SubSeq(s, from, upto)))
        /\ HunkOf(s, from, upto).new = Len(NewLines(SubSeq(s, from, upto)))
        /\ HunkOf(s, from, upto).lines = SubSeq(s, from, upto)
    BY DEF HunkOf
  <2>3. IsPlaced(hs[1])
    BY <1>4 DEF HunksStand
  <2> HIDE DEF hs, from, upto
  <2> QED
    BY <2>1, <2>2, <2>3
<1>8. OldLines(lines) # <<>> \/ NewLines(lines) # <<>>
  <2>1. Len(<<>>) = 0
    OBVIOUS
  <2>2. hs[1].old # 0 \/ hs[1].new # 0
    <3> HIDE DEF hs
    <3> QED
      BY <1>7 DEF IsPlaced
  <2> HIDE DEF hs, lines
  <2>3. Len(OldLines(lines)) # 0 \/ Len(NewLines(lines)) # 0
    BY <1>7, <2>2, Zenon
  <2> QED
    BY <2>1, <2>3, Zenon
<1>9. Side(lines, OldOps) # <<>> \/ Side(lines, NewOps) # <<>>
  BY <1>8, SidesOf
<1> HIDE DEF lines
<1>10. \E i \in 1..Len(lines) : lines[i].op \in OldOps \/ lines[i].op \in NewOps
  BY <1>7, <1>9, SideHas
<1>11. DOMAIN lines = 1..Len(lines)
  BY <1>7
<1>12. \E k \in DOMAIN lines : lines[k].op # "\\"
  BY <1>6, <1>10, <1>11, Zenon
<1> QED
  BY <1>4, <1>12 DEF lines

\* Lines that are not cut are lines.
LEMMA UncutLines ==
  ASSUME NEW lines \in Seq(Contents \ Cut)
  PROVE  /\ lines \in Seq(Contents) /\ Len(lines) \in Nat
         /\ \A i \in 1..Len(lines) : lines[i] \in Contents /\ lines[i] \notin Cut
OBVIOUS

\* What splitlines() makes of a line, ...
LEMMA PiecesAre ==
  ASSUME NEW l \in Contents
  PROVE  Pieces(l) \in Seq(Contents) /\ (l \notin Cut => Pieces(l) = <<l>>)
<1>1. CASE l \in Cut
  <2>1. Halves[l].first \in Contents /\ Halves[l].rest \in Contents
    BY <1>1, HalvesAreLines
  <2>2. Pieces(l) = <<Halves[l].first, Halves[l].rest>>
    BY <1>1 DEF Pieces
  <2> QED
    BY <1>1, <2>1, <2>2
<1>2. CASE l \notin Cut
  <2>1. Pieces(l) = <<l>>
    BY <1>2 DEF Pieces
  <2> QED
    BY <2>1
<1> QED
  BY <1>1, <1>2

AllPieces(lines) == [i \in DOMAIN lines |-> Pieces(lines[i])]

\* ... of all of them, ...
LEMMA AllPiecesAre ==
  ASSUME NEW lines \in Seq(Contents)
  PROVE  /\ AllPieces(lines) \in Seq(Seq(Contents)) /\ Len(AllPieces(lines)) = Len(lines)
         /\ \A i \in 1..Len(lines) : AllPieces(lines)[i] = Pieces(lines[i])
<1> DEFINE S == Seq(Contents)
           p(i) == Pieces(lines[i])
           n == Len(lines)
           ps == AllPieces(lines)
<1>1. n \in Nat /\ \A i \in 1..n : lines[i] \in Contents
  OBVIOUS
<1>2. ps = [i \in 1..n |-> p(i)]
  BY DEF AllPieces
<1>3. \A i \in 1..n : p(i) \in S
  BY <1>1, PiecesAre
<1> HIDE DEF S, p, n, ps
<1>4. ps \in Seq(S) /\ Len(ps) = n /\ \A i \in 1..n : ps[i] = p(i)
  BY <1>1, <1>2, <1>3
<1> QED
  BY <1>4 DEF S, p, n, ps

\* ... and of a text.
LEMMA SplitType ==
  ASSUME NEW text, text.lines \in Seq(Contents)
  PROVE  Split(text) \in Seq(Contents)
<1> DEFINE all == FlattenSeq(AllPieces(text.lines))
           open == ~text.newline /\ text.lines # <<>>
           cuts == open /\ Last(text.lines) \in Cut /\ Last(all) = Blank
<1>1. all \in Seq(Contents)
  BY AllPiecesAre, FlatType
<1>2. Split(text) = IF cuts THEN Front(all) ELSE all
  BY DEF Split, AllPieces
<1>3. cuts => all # <<>>
  <2> SUFFICES ASSUME cuts PROVE all # <<>>
    OBVIOUS
  <2> DEFINE ls == text.lines
             ps == AllPieces(ls)
             n == Len(ls)
  <2>1. ls \in Seq(Contents) /\ ls # <<>> /\ n \in 1..n /\ Last(ls) = ls[n] /\ ls[n] \in Cut
    BY LastIs
  <2>2. ps \in Seq(Seq(Contents)) /\ Len(ps) = n /\ ps[n] = Pieces(ls[n])
    BY <2>1, AllPiecesAre
  <2>3. ps[n] = <<Halves[ls[n]].first, Halves[ls[n]].rest>>
    BY <2>1, <2>2 DEF Pieces
  <2> HIDE DEF ls, ps, n
  <2>4. ps[n] # <<>> /\ ps[n] \in Seq(Contents)
    <3>1. \A a, b : <<a, b>> # <<>>
      OBVIOUS
    <3>2. ps[n] \in Seq(Contents)
      BY <2>1, <2>2
    <3> QED
      BY <3>1, <3>2, <2>3
  <2> DEFINE before == SubSeq(ps, 1, n - 1)
  <2>5. ps = Append(before, ps[n]) /\ before \in Seq(Seq(Contents))
    <3>1. /\ SubSeq(ps, 1, n) = ps /\ SubSeq(ps, 1, n) = Append(SubSeq(ps, 1, n - 1), ps[n])
          /\ \A k \in 0..n : SubSeq(ps, 1, k) \in Seq(Seq(Contents))
      BY <2>1, <2>2, FirstElements
    <3>2. n - 1 \in 0..n
      BY <2>1
    <3> QED
      BY <3>1, <3>2
  <2> HIDE DEF before
  <2>6. FlattenSeq(Append(before, ps[n])) = FlattenSeq(before) \o ps[n] /\ FlattenSeq(before) \in Seq(Contents)
    BY <2>4, <2>5, FlatMore, FlatType
  <2>7. FlattenSeq(ps) = FlattenSeq(before) \o ps[n]
    BY <2>5, <2>6
  <2>8. FlattenSeq(before) \o ps[n] # <<>>
    BY <2>4, <2>6
  <2> QED
    BY <2>7, <2>8 DEF ps, ls
<1> HIDE DEF all, cuts
<1>4. all # <<>> => Front(all) \in Seq(Contents)
  BY <1>1 DEF Front
<1> QED
  BY <1>1, <1>2, <1>3, <1>4

\* It is the lines of the text, when it cuts none of them.
LEMMA SplitIs ==
  ASSUME NEW text, text.lines \in Seq(Contents \ Cut)
  PROVE  Split(text) = text.lines
<1> DEFINE lines == text.lines
           n == Len(lines)
           ps == AllPieces(lines)
           flat(k) == FlattenSeq(SubSeq(ps, 1, k))
           T == {k \in 0..n : flat(k) = SubSeq(lines, 1, k)}
<1>1. lines \in Seq(Contents) /\ n \in Nat /\ \A i \in 1..n : lines[i] \in Contents /\ lines[i] \notin Cut
  BY UncutLines
<1>2. ps \in Seq(Seq(Contents)) /\ Len(ps) = n /\ \A i \in 1..n : ps[i] = <<lines[i]>>
  BY <1>1, AllPiecesAre, PiecesAre
<1>3. Split(text) = FlattenSeq(ps)
  <2> DEFINE all == FlattenSeq(ps)
             open == ~text.newline /\ lines # <<>>
  <2>1. lines # <<>> => Last(lines) \notin Cut
    <3> HIDE DEF lines
    <3> QED
      BY <1>1, LastIs
  <2>2. Split(text) = IF open /\ Last(lines) \in Cut /\ Last(all) = Blank THEN Front(all) ELSE all
    BY DEF Split, AllPieces
  <2> HIDE DEF all, lines
  <2> QED
    BY <2>1, <2>2 DEF all
<1> HIDE DEF ps, lines
<1>4. /\ SubSeq(ps, 1, 0) = <<>> /\ SubSeq(ps, 1, n) = ps
      /\ \A k \in 1..n : SubSeq(ps, 1, k) = Append(SubSeq(ps, 1, k - 1), ps[k]) /\ ps[k] \in Seq(Contents)
      /\ \A k \in 0..n : SubSeq(ps, 1, k) \in Seq(Seq(Contents))
  BY <1>2, FirstElements
<1>5. /\ SubSeq(lines, 1, 0) = <<>> /\ SubSeq(lines, 1, n) = lines
      /\ \A k \in 1..n : SubSeq(lines, 1, k) = Append(SubSeq(lines, 1, k - 1), lines[k])
      /\ \A k \in 0..n : SubSeq(lines, 1, k) \in Seq(Contents)
  BY <1>1, FirstElements
<1> HIDE DEF n
<1>6. 0 \in T
  <2>1. FlattenSeq(<<>>) = <<>>
    BY FlatNothing
  <2>2. flat(0) = SubSeq(lines, 1, 0)
    BY <2>1, <1>4, <1>5, Zenon
  <2> HIDE DEF flat
  <2> QED
    BY <2>2, <1>1
<1>7. ASSUME NEW k \in 1..n, k - 1 \in T PROVE k \in T
  <2> DEFINE before == SubSeq(ps, 1, k - 1)
             some == SubSeq(lines, 1, k - 1)
  <2>1. k - 1 \in 0..n /\ k \in 0..n
    BY <1>1
  <2>2. FlattenSeq(before) = some
    BY <1>7
  <2>3. /\ SubSeq(ps, 1, k) = Append(before, ps[k]) /\ ps[k] = <<lines[k]>> /\ ps[k] \in Seq(Contents)
        /\ before \in Seq(Seq(Contents)) /\ SubSeq(lines, 1, k) = Append(some, lines[k]) /\ some \in Seq(Contents)
        /\ lines[k] \in Contents
    BY <1>1, <1>2, <1>4, <1>5, <2>1
  <2> HIDE DEF before, some
  <2>4. FlattenSeq(Append(before, ps[k])) = FlattenSeq(before) \o ps[k]
    BY <2>3, FlatMore
  <2>5. some \o <<lines[k]>> = Append(some, lines[k])
    BY <2>3
  <2>6. flat(k) = SubSeq(lines, 1, k)
    BY <2>2, <2>3, <2>4, <2>5, Zenon
  <2> HIDE DEF flat
  <2> QED
    BY <2>1, <2>6
<1>8. n \in T
  <2> HIDE DEF T
  <2>1. \A k \in 0..n : k \in T
    BY <1>1, <1>6, <1>7, UpTo
  <2> QED
    BY <2>1, <1>1
<1>9. flat(n) = SubSeq(lines, 1, n)
  BY <1>8
<1>10. FlattenSeq(ps) = lines
  BY <1>4, <1>5, <1>9, Zenon
<1> QED
  BY <1>3, <1>10 DEF lines

\* A script that is shown well enough turns the text it was made from into the
\* text it is for.
LEMMA AppliedIs ==
  ASSUME NEW s \in Seq(ScriptLines), NEW shown, shown \subseteq 1..Len(s), shown # {},
         ShowsChanges(s, shown), HunksStand(s, shown), Uncut(s), NEW text, text.lines = OldLines(s)
  PROVE  Applied(text, Hunks(s, shown))
           = [lines |-> NewLines(s), newline |-> NewLines(s) # <<>>, crlf |-> FALSE]
<1> DEFINE runs == Runs(s, shown)
           n == Len(s)
           e == EndOf(runs, Len(runs))
           lines == OldLines(s)
           hs == Hunks(s, shown)
           b == [out |-> <<>>, at |-> 0, old |-> 0, new |-> 0, failed |-> FALSE]
           st == AppliesHunks(lines, b, hs)
           out == st.out \o Slice(lines, st.at + 1, Len(lines))
           says == \E i \in DOMAIN hs : \E k \in DOMAIN hs[i].lines : hs[i].lines[k].op # "\\"
<1>0. 0 \notin shown /\ n \in Nat
  OBVIOUS
<1>1. Covers(runs, shown, n) /\ Len(runs) \in Nat /\ Len(runs) \in 0..Len(runs)
  <2>1. Covers(runs, shown, n) /\ Len(runs) \in Nat
    BY <1>0, HunksMade
  <2> QED
    BY <2>1
<1>2. e \in 0..n
  BY <1>0, <1>1, EndsBefore
<1>3. b = Pos(<<>>, 0, 0, 0, No)
  BY DEF Pos, No
<1> HIDE DEF runs
<1>4. \E x, y : AppliesHunks(OldLines(s), Pos(<<>>, 0, 0, 0, No), Hunks(s, shown))
                  = Pos(NewUpto(s, e), Len(OldUpto(s, e)), x, y, No)
  BY <1>0, HunksApply DEF runs
<1>5. PICK x, y : st = Pos(NewUpto(s, e), Len(OldUpto(s, e)), x, y, No)
  BY <1>3, <1>4, Zenon
<1> HIDE DEF st
<1>6. st.failed = No /\ st.out = NewUpto(s, e) /\ st.at = Len(OldUpto(s, e))
  <2> DEFINE o == NewUpto(s, e)
             a == Len(OldUpto(s, e))
  <2> HIDE DEF o, a
  <2>1. st = Pos(o, a, x, y, No)
    BY <1>5 DEF o, a
  <2>2. Pos(o, a, x, y, No).failed = No /\ Pos(o, a, x, y, No).out = o /\ Pos(o, a, x, y, No).at = a
    BY PosIs
  <2> QED
    BY <2>1, <2>2 DEF o, a
<1> HIDE DEF e
<1>7. NewUpto(s, n) = NewUpto(s, e) \o SubSeq(lines, Len(OldUpto(s, e)) + 1, Len(OldUpto(s, n)))
  <2>1. \A i \in e + 1..n : i \notin shown
    BY <1>1 DEF Covers, e
  <2>2. \A i \in e + 1..n : i \in 1..n
    BY <1>2
  <2>3. \A i \in e + 1..n : (s[i].op \in OldOps) <=> (s[i].op \in NewOps)
    BY <2>1, <2>2, NotShownIsKept
  <2>4. e \in 0..Len(s) /\ n \in e..Len(s)
    BY <1>0, <1>2
  <2> QED
    BY <2>3, <2>4, GapIs
<1>8. NewUpto(s, n) = NewLines(s) /\ OldUpto(s, n) = lines
  BY SidesAre
<1>9. Slice(lines, st.at + 1, Len(lines)) = SubSeq(lines, st.at + 1, Len(lines))
  <2>1. Len(lines) \in Nat
    <3>1. n \in 0..n
      BY <1>0
    <3> QED
      BY <3>1, <1>8, SidesAre
  <2>2. ~(Len(lines) > Len(lines))
    BY <2>1
  <2> QED
    BY <2>2 DEF Slice
<1>10. out = NewLines(s)
  BY <1>6, <1>7, <1>8, <1>9, Zenon
<1>a. Split(text) = lines
  <2>1. \A i \in 1..Len(s) : s[i].content \in Contents \ Cut
    <3>1. \A i \in 1..Len(s) : s[i] \in ScriptLines /\ i \in DOMAIN s
      OBVIOUS
    <3> QED
      BY <3>1 DEF ScriptLines, Uncut
  <2>2. Side(s, OldOps) \in Seq(Contents \ Cut)
    BY <2>1, SideSays
  <2>3. text.lines \in Seq(Contents \ Cut)
    BY <2>2, SidesOf
  <2> QED
    BY <2>3, SplitIs
<1>11. Applied(text, hs) = IF st.failed THEN None
                           ELSE [lines |-> out, crlf |-> FALSE, newline |-> out # <<>> /\ (text.newline \/ says)]
  <2> HIDE DEF lines
  <2> QED
    BY <1>a DEF Applied, st
<1>12. says
  BY HunksSay
<1> HIDE DEF hs, out, says
<1>13. (out # <<>> /\ (text.newline \/ says)) = (NewLines(s) # <<>>)
  BY <1>10, <1>12
<1> QED
  BY <1>6, <1>10, <1>11, <1>13, Zenon DEF hs, No
------------------------------------------------------------------------------
\* What any hunks make of any text

PosSet == [out : Seq(Contents), at : Nat, old : Nat, new : Nat, failed : BOOLEAN]

\* The type of what an applier has read and written.
LEMMA PosType ==
  ASSUME NEW a \in Seq(Contents), NEW b \in Nat, NEW c \in Nat, NEW d \in Nat, NEW e \in BOOLEAN
  PROVE  Pos(a, b, c, d, e) \in PosSet
BY DEF Pos, PosSet

\* ... and what is of this type.
LEMMA PosHas ==
  ASSUME NEW st \in PosSet
  PROVE  /\ st = Pos(st.out, st.at, st.old, st.new, st.failed)
         /\ st.out \in Seq(Contents) /\ st.at \in Nat /\ st.old \in Nat /\ st.new \in Nat /\ st.failed \in BOOLEAN
BY DEF Pos, PosSet

\* A line keeps it.
LEMMA LineKeepsType ==
  ASSUME NEW lines, NEW st \in PosSet, NEW l \in ScriptLines
  PROVE  AppliesLine(lines, st, l) \in PosSet
<1> DEFINE a == st.out
           b == st.at
           c == st.old
           d == st.new
           e == st.failed
           r == AppliesLine(lines, st, l)
           more == Append(a, l.content)
<1>1. /\ st = Pos(a, b, c, d, e)
      /\ a \in Seq(Contents) /\ b \in Nat /\ c \in Nat /\ d \in Nat /\ e \in BOOLEAN
  BY PosHas
<1>2. l.content \in Contents
  BY DEF ScriptLines
<1>3. more \in Seq(Contents) /\ b + 1 \in Nat /\ c + 1 \in Nat /\ d + 1 \in Nat /\ Yes \in BOOLEAN
  <2>1. more \in Seq(Contents)
    <3> HIDE DEF a
    <3> QED
      BY <1>1, <1>2, AppendIs
  <2>2. b + 1 \in Nat /\ c + 1 \in Nat /\ d + 1 \in Nat
    BY <1>1
  <2> QED
    BY <2>1, <2>2 DEF Yes
<1>4. LET st1 == Pos(a, b, c, d, e)
      IN  /\ l.op \notin OldOps /\ l.op \notin NewOps => AppliesLine(lines, st1, l) = st1
          /\ l.op \notin OldOps /\ l.op \in NewOps
               => AppliesLine(lines, st1, l) = Pos(Append(a, l.content), b, c, d + 1, e)
          /\ l.op \in OldOps /\ l.op \in NewOps /\ Matches(lines, b, l.content)
               => AppliesLine(lines, st1, l) = Pos(Append(a, l.content), b + 1, c + 1, d + 1, e)
          /\ l.op \in OldOps /\ l.op \notin NewOps /\ Matches(lines, b, l.content)
               => AppliesLine(lines, st1, l) = Pos(a, b + 1, c + 1, d, e)
          /\ l.op \in OldOps /\ ~Matches(lines, b, l.content)
               => AppliesLine(lines, st1, l) = Pos(a, b, c, d, Yes)
  <2> HIDE DEF a, b, c, d, e
  <2> QED
    BY LineDoes
<1> HIDE DEF a, b, c, d, e, more
<1>5. \/ r = st \/ r = Pos(more, b, c, d + 1, e) \/ r = Pos(more, b + 1, c + 1, d + 1, e)
      \/ r = Pos(a, b + 1, c + 1, d, e) \/ r = Pos(a, b, c, d, Yes)
  BY <1>1, <1>4, Zenon DEF more
<1>6. Pos(more, b, c, d + 1, e) \in PosSet /\ Pos(more, b + 1, c + 1, d + 1, e) \in PosSet
      /\ Pos(a, b + 1, c + 1, d, e) \in PosSet /\ Pos(a, b, c, d, Yes) \in PosSet
  BY <1>1, <1>3, PosType
<1> QED
  BY <1>5, <1>6

\* Lines keep it.
LEMMA LinesKeepType ==
  ASSUME NEW lines, NEW b \in PosSet, NEW added \in Seq(ScriptLines)
  PROVE  AppliesLines(lines, b, added) \in PosSet
<1> DEFINE m == Len(added)
           st(k) == AppliesLines(lines, b, SubSeq(added, 1, k))
           T == {k \in 0..m : st(k) \in PosSet}
<1>1. /\ SubSeq(added, 1, 0) = <<>> /\ SubSeq(added, 1, m) = added /\ m \in Nat
      /\ \A k \in 1..m : SubSeq(added, 1, k) = Append(SubSeq(added, 1, k - 1), added[k]) /\ added[k] \in ScriptLines
      /\ \A k \in 0..m : SubSeq(added, 1, k) \in Seq(ScriptLines)
  <2>1. m \in Nat
    OBVIOUS
  <2> QED
    BY <2>1, FirstElements
<1> HIDE DEF m
<1>2. 0 \in T
  <2>1. AppliesLines(lines, b, <<>>) = b
    BY AppliesLineNothing
  <2>2. st(0) = b
    BY <1>1, <2>1, Zenon
  <2> HIDE DEF st
  <2> QED
    BY <2>2, <1>1
<1>3. ASSUME NEW k \in 1..m, k - 1 \in T PROVE k \in T
  <2> DEFINE p == SubSeq(added, 1, k - 1)
             l == added[k]
  <2>0. k - 1 \in 0..m /\ k \in 0..m
    BY <1>1
  <2>1. p \in Seq(ScriptLines) /\ l \in ScriptLines /\ SubSeq(added, 1, k) = Append(p, l)
    BY <1>1, <2>0
  <2>2. st(k - 1) \in PosSet
    BY <1>3
  <2> HIDE DEF p, l
  <2>3. AppliesLines(lines, b, Append(p, l)) = AppliesLine(lines, AppliesLines(lines, b, p), l)
    BY <2>1, AppliesLineMore
  <2>4. st(k) = AppliesLine(lines, st(k - 1), l)
    BY <2>1, <2>3, Zenon DEF p
  <2> HIDE DEF st
  <2>5. st(k) \in PosSet
    BY <2>1, <2>2, <2>4, LineKeepsType
  <2> QED
    BY <2>0, <2>5
<1>4. m \in T
  <2> HIDE DEF T
  <2>1. \A k \in 0..m : k \in T
    BY <1>1, <1>2, <1>3, UpTo
  <2> QED
    BY <2>1, <1>1
<1>5. st(m) \in PosSet
  BY <1>4
<1> QED
  BY <1>1, <1>5, Zenon

\* A part of a text.
LEMMA SliceType ==
  ASSUME NEW lines \in Seq(Contents), NEW from \in Nat \ {0}, NEW upto \in Nat
  PROVE  Slice(lines, from, upto) \in Seq(Contents)
<1>1. Len(lines) \in Nat
  OBVIOUS
<1>2. \A k \in Nat : k <= Len(lines) => SubSeq(lines, from, k) \in Seq(Contents)
  OBVIOUS
<1>3. CASE upto > Len(lines)
  BY <1>1, <1>2, <1>3 DEF Slice
<1>4. CASE ~(upto > Len(lines))
  <2>1. upto <= Len(lines)
    BY <1>1, <1>4
  <2> QED
    BY <1>2, <1>4, <2>1 DEF Slice
<1> QED
  BY <1>3, <1>4

\* A hunk keeps it.
LEMMA HunkKeepsType ==
  ASSUME NEW lines \in Seq(Contents), NEW st \in PosSet, NEW h \in HunkSet
  PROVE  AppliesHunk(lines, st, h) \in PosSet
<1> DEFINE start == StartOf(h)
           out == st.out \o Slice(lines, st.at + 1, start)
           begun == [st EXCEPT !.out = @ \o Slice(lines, st.at + 1, start), !.at = start, !.old = 0, !.new = 0]
           ended == AppliesLines(lines, begun, h.lines)
<1>1. h.lines \in Seq(ScriptLines) /\ h.start \in Nat
  BY DEF HunkSet
<1>2. start \in Nat
  BY <1>1 DEF StartOf
<1>3. /\ st = Pos(st.out, st.at, st.old, st.new, st.failed)
      /\ st.out \in Seq(Contents) /\ st.at \in Nat /\ st.failed \in BOOLEAN
  BY PosHas
<1> HIDE DEF start
<1>4. out \in Seq(Contents)
  <2>1. Slice(lines, st.at + 1, start) \in Seq(Contents)
    <3>1. st.at + 1 \in Nat \ {0}
      BY <1>3
    <3> QED
      BY <3>1, <1>2, SliceType
  <2> QED
    BY <2>1, <1>3, JoinsMore
<1>5. begun = BegunAt(st, out, start)
  BY DEF BegunAt
<1>6. BegunAt(st, out, start) = Pos(out, start, 0, 0, st.failed)
  <2> DEFINE a == st.out
             b == st.at
             c == st.old
             d == st.new
             e == st.failed
  <2>1. st = Pos(a, b, c, d, e)
    BY <1>3
  <2> HIDE DEF a, b, c, d, e, out
  <2>2. BegunAt(Pos(a, b, c, d, e), out, start) = Pos(out, start, 0, 0, e)
    BY BegunIs
  <2> QED
    BY <2>1, <2>2 DEF e
<1> HIDE DEF out, begun
<1>7. begun \in PosSet
  <2>1. 0 \in Nat
    OBVIOUS
  <2>2. Pos(out, start, 0, 0, st.failed) \in PosSet
    BY <1>2, <1>3, <1>4, <2>1, PosType
  <2> QED
    BY <1>5, <1>6, <2>2
<1>8. ended \in PosSet
  BY <1>1, <1>7, LinesKeepType
<1>9. AppliesHunk(lines, st, h) \in {ended, [ended EXCEPT !.failed = TRUE]}
  BY DEF AppliesHunk, ended, begun, start
<1> HIDE DEF ended
<1>10. [ended EXCEPT !.failed = TRUE] \in PosSet
  BY <1>8 DEF PosSet
<1> QED
  BY <1>8, <1>9, <1>10

\* Hunks keep it.
LEMMA HunksKeepType ==
  ASSUME NEW lines \in Seq(Contents), NEW b \in PosSet, NEW hunks \in Seq(HunkSet)
  PROVE  AppliesHunks(lines, b, hunks) \in PosSet
<1> DEFINE m == Len(hunks)
           st(k) == AppliesHunks(lines, b, SubSeq(hunks, 1, k))
           T == {k \in 0..m : st(k) \in PosSet}
<1>1. /\ SubSeq(hunks, 1, 0) = <<>> /\ SubSeq(hunks, 1, m) = hunks /\ m \in Nat
      /\ \A k \in 1..m : SubSeq(hunks, 1, k) = Append(SubSeq(hunks, 1, k - 1), hunks[k]) /\ hunks[k] \in HunkSet
      /\ \A k \in 0..m : SubSeq(hunks, 1, k) \in Seq(HunkSet)
  <2>1. m \in Nat
    OBVIOUS
  <2> QED
    BY <2>1, FirstElements
<1> HIDE DEF m
<1>2. 0 \in T
  <2>1. AppliesHunks(lines, b, <<>>) = b
    BY AppliesHunkNothing
  <2>2. st(0) = b
    BY <1>1, <2>1, Zenon
  <2> HIDE DEF st
  <2> QED
    BY <2>2, <1>1
<1>3. ASSUME NEW k \in 1..m, k - 1 \in T PROVE k \in T
  <2> DEFINE p == SubSeq(hunks, 1, k - 1)
             h == hunks[k]
  <2>0. k - 1 \in 0..m /\ k \in 0..m
    BY <1>1
  <2>1. p \in Seq(HunkSet) /\ h \in HunkSet /\ SubSeq(hunks, 1, k) = Append(p, h)
    BY <1>1, <2>0
  <2>2. st(k - 1) \in PosSet
    BY <1>3
  <2> HIDE DEF p, h
  <2>3. AppliesHunks(lines, b, Append(p, h)) = AppliesHunk(lines, AppliesHunks(lines, b, p), h)
    BY <2>1, AppliesHunkMore
  <2>4. st(k) = AppliesHunk(lines, st(k - 1), h)
    BY <2>1, <2>3, Zenon DEF p
  <2> HIDE DEF st
  <2>5. st(k) \in PosSet
    BY <2>1, <2>2, <2>4, HunkKeepsType
  <2> QED
    BY <2>0, <2>5
<1>4. m \in T
  <2> HIDE DEF T
  <2>1. \A k \in 0..m : k \in T
    BY <1>1, <1>2, <1>3, UpTo
  <2> QED
    BY <2>1, <1>1
<1>5. st(m) \in PosSet
  BY <1>4
<1> QED
  BY <1>1, <1>5, Zenon

\* A patched text is a text.
LEMMA AppliedType ==
  ASSUME NEW text \in FileTexts, NEW hunks \in Seq(HunkSet)
  PROVE  Applied(text, hunks) \in FileTexts \cup {None}
<1> DEFINE b == [out |-> <<>>, at |-> 0, old |-> 0, new |-> 0, failed |-> FALSE]
           lines == Split(text)
           st == AppliesHunks(lines, b, hunks)
           out == st.out \o Slice(lines, st.at + 1, Len(lines))
           ends == out # <<>> /\ (text.newline \/ \E i \in DOMAIN hunks :
                                     \E k \in DOMAIN hunks[i].lines : hunks[i].lines[k].op # "\\")
<1>1. lines \in Seq(Contents)
  BY SplitType DEF FileTexts
<1>2. b \in PosSet
  BY DEF PosSet
<1> HIDE DEF lines, b
<1>3. st \in PosSet
  BY <1>1, <1>2, HunksKeepType
<1> HIDE DEF st
<1>4. st.out \in Seq(Contents) /\ st.at + 1 \in Nat \ {0}
  BY <1>3 DEF PosSet
<1>5. Len(lines) \in Nat
  BY <1>1
<1>6. Slice(lines, st.at + 1, Len(lines)) \in Seq(Contents)
  BY <1>1, <1>4, <1>5, SliceType
<1>7. out \in Seq(Contents)
  BY <1>4, <1>6, JoinsMore
<1>8. ends \in BOOLEAN
  OBVIOUS
<1>9. Applied(text, hunks) = IF st.failed THEN None ELSE [lines |-> out, crlf |-> FALSE, newline |-> ends]
  BY DEF Applied, st, lines, b
<1> HIDE DEF out, ends
<1>10. [lines |-> out, crlf |-> FALSE, newline |-> ends] \in FileTexts
  BY <1>7, <1>8 DEF FileTexts
<1> QED
  BY <1>9, <1>10
------------------------------------------------------------------------------
\* The invariant of the files

DiskSet == [Paths -> FileTexts \cup {None, Folder, Link}]
WriteCalls == [op : {"write"}, path : Paths, overwrite : BOOLEAN, text : {NewText}]
PatchCalls == [op : {"patch"}, patch : Patches, path : Paths \cup {None}, text : FileTexts]
DeleteCalls == [op : {"delete"}, path : Paths, recursive : BOOLEAN, missingOk : BOOLEAN]
MoveCalls ==
  {request \in [op : {"move"}, path : Paths, to : Paths, overwrite : BOOLEAN] :
     Related(request.path, request.to) \/ {request.path, request.to} \subseteq Flat}
Calls == WriteCalls \cup PatchCalls \cup DeleteCalls \cup MoveCalls

FileSteps ==
  {"idle", "check", "open", "fill", "raise", "next", "unlink", "check delete", "check move", "clear", "move"}
FileAnswers == {None, "done", "refused", "failed"}

\* A call is of the kind that its step belongs to.
CallFits(step, request) ==
  /\ step = "check" => request \in WriteCalls
  /\ step \in {"open", "fill"} => request \in WriteCalls \cup PatchCalls /\ request.path \in Paths
  /\ step \in {"raise", "next"} => request \in PatchCalls
  /\ step = "unlink" => request \in PatchCalls \cup DeleteCalls /\ request.path \in Paths
  /\ step = "check delete" => request \in DeleteCalls
  /\ step \in {"check move", "clear", "move"} => request \in MoveCalls
ClientIsRight(c) == CallFits(at[c], call[c]) /\ (answer[c] # None => at[c] = "idle")
OpenIsRight(c) == opened[c] # None => at[c] = "fill" /\ IsText(disk[opened[c]])

FileTypes ==
  /\ disk \in DiskSet
  /\ at \in [Clients -> FileSteps] /\ call \in [Clients -> Calls \cup {None}] /\ answer \in [Clients -> FileAnswers]
  /\ todo \in [Clients -> Seq(FileSet)]
  /\ opened \in [Clients -> Paths \cup {None}]
  /\ was \in [Clients -> DiskSet] /\ quiet \in [Clients -> BOOLEAN]
  /\ \A c \in Clients : ClientIsRight(c) /\ OpenIsRight(c)

\* While a call is undisturbed, nobody else is busy.
Alone(c) == quiet[c] => call[c] \in Calls /\ \A e \in Clients \ {c} : at[e] = "idle"

\* It has ended, but nobody decided how.
Unjudged(c) == answer[c] \in {None, "failed"}

\* How far an undisturbed call has come that writes, deletes or moves a file.
WriteIsRight(c) ==
  LET p == call[c].path
      d == was[c]
      may == call[c].overwrite \/ d[p] = None
  IN  /\ at[c] = "check" \/ (at[c] = "idle" /\ answer[c] = "refused") => disk = d
      /\ at[c] = "open" => disk = d /\ may
      /\ at[c] = "fill" => disk = [d EXCEPT ![p] = EmptyText] /\ opened[c] = p /\ may
      /\ at[c] = "idle" /\ answer[c] = "done" => disk = [d EXCEPT ![p] = NewText] /\ may
      /\ at[c] = "idle" /\ Unjudged(c) => disk \in {d, [d EXCEPT ![p] = EmptyText]}
DeleteIsRight(c) ==
  LET p == call[c].path
      d == was[c]
  IN  /\ at[c] = "check delete" \/ (at[c] = "idle" /\ answer[c] = "refused") => disk = d
      /\ at[c] = "unlink" => disk = d /\ d[p] # None
      /\ at[c] = "idle" /\ answer[c] = "done" => disk = IF d[p] = None THEN d ELSE Without(d, Tree(p))
      /\ at[c] = "idle" /\ Unjudged(c) => disk \in {d, Without(d, Below(p))}
Cleared(c, d) == LET q == call[c].to IN d[q] # None /\ call[c].overwrite /\ disk = Without(d, Tree(q))
MoveIsRight(c) ==
  LET p == call[c].path
      q == call[c].to
      d == was[c]
  IN  /\ at[c] = "check move" => disk = d
      /\ at[c] = "clear" => disk = d /\ d[p] # None /\ d[q] # None /\ call[c].overwrite
      /\ at[c] = "move" => d[p] # None /\ ((disk = d /\ d[q] = None) \/ Cleared(c, d))
      /\ at[c] = "idle" /\ answer[c] = "done" => disk = [d EXCEPT ![p] = None, ![q] = d[p]]
      /\ at[c] = "idle" /\ answer[c] = "refused" => disk = d \/ (Related(p, q) /\ Cleared(c, d))
      /\ at[c] = "idle" /\ Unjudged(c) => disk \in {d, Without(d, Below(q)), Without(d, Tree(q))}

\* How far it has come that patches files: d was the disk, and the first k files
\* are patched, or those before the k-th and it is at work on that one.
Reached(d, patch, k) == FitsUpto(d, patch, k) => disk = Upto(d, patch, k)
AllFound(d, patch, k) ==
  \A j \in 0..k - 1 : FitsUpto(d, patch, j) => ~NotFound(Upto(d, patch, j), patch[j + 1])
LeftOf(patch, k) == SubSeq(FilesOf(patch), k + 1, Len(patch))

AtNext(c, d, patch, k) ==
  todo[c] = LeftOf(patch, k) /\ AllFound(d, patch, k) /\ Reached(d, patch, k)
AtOpen(c, d, patch, k) ==
  /\ todo[c] = LeftOf(patch, k) /\ AllFound(d, patch, k - 1) /\ Reached(d, patch, k - 1)
  /\ call[c].path = patch[k].new /\ patch[k].new # None
  /\ FitsUpto(d, patch, k) => call[c].text = NewFile(patch[k])
  /\ ~NotFound(disk, patch[k]) \/ disk[call[c].path] = Folder
AtFill(c, d, patch, k) ==
  /\ todo[c] = LeftOf(patch, k) /\ AllFound(d, patch, k)
  /\ call[c].path = patch[k].new /\ patch[k].new # None /\ opened[c] = call[c].path
  /\ disk[call[c].path] = EmptyText
  /\ FitsUpto(d, patch, k - 1) => disk = [Upto(d, patch, k - 1) EXCEPT ![call[c].path] = EmptyText]
  /\ FitsUpto(d, patch, k) => call[c].text = NewFile(patch[k])
AtUnlink(c, d, patch, k) ==
  /\ todo[c] = LeftOf(patch, k) /\ AllFound(d, patch, k) /\ Reached(d, patch, k - 1)
  /\ call[c].path = patch[k].old /\ patch[k].new = None /\ disk[call[c].path] # None
Stopped(d, patch, k) ==
  /\ AllFound(d, patch, k) /\ Reached(d, patch, k)
  /\ FitsUpto(d, patch, k) => ~Fits(Upto(d, patch, k), patch[k + 1])
Torn(c, d, patch, k) ==
  disk = Upto(d, patch, k) \/ (call[c].path \in Paths /\ disk = [Upto(d, patch, k) EXCEPT ![call[c].path] = EmptyText])

AllUncut(patch) == \A i \in DOMAIN patch : Uncut(patch[i].script)

PatchIsRight(c) ==
  LET d == was[c]
      patch == call[c].patch
      n == Len(patch)
  IN  /\ at[c] = "raise" => Parsed(DiffOf(patch)) = None /\ disk = d
      /\ at[c] = "next" => \E k \in 0..n : AtNext(c, d, patch, k)
      /\ at[c] = "open" => \E k \in 1..n : AtOpen(c, d, patch, k)
      /\ at[c] = "fill" => \E k \in 1..n : AtFill(c, d, patch, k)
      /\ at[c] = "unlink" => \E k \in 1..n : AtUnlink(c, d, patch, k)
      /\ at[c] = "idle" /\ answer[c] = "done" => AllFound(d, patch, n) /\ Reached(d, patch, n)
      /\ at[c] = "idle" /\ answer[c] = "refused" =>
           Parsed(DiffOf(patch)) = None \/ \E k \in 0..n - 1 : Stopped(d, patch, k)
      /\ at[c] = "idle" /\ Unjudged(c) /\ FitsUpto(d, patch, n) => \E k \in 0..n : Torn(c, d, patch, k)

CallIsOnItsWay(c) ==
  quiet[c] => /\ call[c].op = "write" => WriteIsRight(c)
              /\ call[c].op = "delete" => DeleteIsRight(c)
              /\ call[c].op = "move" => MoveIsRight(c)
              /\ call[c].op = "patch" /\ AllUncut(call[c].patch) => PatchIsRight(c)

FileInv == FileTypes /\ \A c \in Clients : Alone(c) /\ CallIsOnItsWay(c)

\* The step of a client that others do not see.
OnlyMoves(c) ==
  /\ at' \in [Clients -> FileSteps] /\ answer' \in [Clients -> FileAnswers]
  /\ \A e \in Clients : e # c => at'[e] = at[e] /\ answer'[e] = answer[e]
  /\ answer'[c] # None => at'[c] = "idle"

\* What differs.
LEMMA FileValues ==
  /\ None # Folder /\ None # Link /\ Folder # Link /\ None \notin Paths /\ None \notin Seq(FileSet)
  /\ {"done", "refused"} \cap {None, "failed"} = {} /\ None # "failed" /\ None \notin FileTexts /\ Folder \notin FileTexts /\ Link \notin FileTexts
  /\ NewText \in FileTexts /\ EmptyText \in FileTexts
<1>1. EmptyText \in FileTexts
  <2> DEFINE nothing == <<>>
  <2>1. nothing \in Seq(Contents)
    OBVIOUS
  <2> HIDE DEF nothing
  <2>2. [lines |-> nothing, newline |-> FALSE, crlf |-> FALSE] \in FileTexts
    BY <2>1 DEF FileTexts
  <2> QED
    BY <2>2 DEF EmptyText, nothing
<1> HIDE DEF FileTexts
<1> QED
  BY <1>1, DisksHoldFiles

\* A call ends.
LEMMA EndsIs ==
  ASSUME FileTypes, NEW c \in Clients, NEW r \in {"done", "refused"}, Ends(c, r)
  PROVE  OnlyMoves(c) /\ at'[c] = "idle" /\ answer'[c] = r
<1>1. at \in [Clients -> FileSteps] /\ answer \in [Clients -> FileAnswers]
  BY DEF FileTypes
<1>2. r \in FileAnswers /\ "idle" \in FileSteps
  BY DEF FileAnswers, FileSteps
<1> QED
  BY <1>1, <1>2 DEF Ends, OnlyMoves

\* A call goes on.
LEMMA GoesIs ==
  ASSUME FileTypes, NEW c \in Clients, at[c] # "idle", NEW there \in FileSteps, Goes(c, there)
  PROVE  OnlyMoves(c) /\ at'[c] = there /\ answer'[c] = None
<1>1. at \in [Clients -> FileSteps] /\ answer \in [Clients -> FileAnswers] /\ answer[c] = None
  BY DEF FileTypes, ClientIsRight
<1> QED
  BY <1>1 DEF Goes, OnlyMoves

\* The types are kept by a step that keeps those of one client.
LEMMA TypesKept ==
  ASSUME FileTypes, NEW c \in Clients, OnlyMoves(c),
         disk' \in DiskSet, call' \in [Clients -> Calls \cup {None}], todo' \in [Clients -> Seq(FileSet)],
         opened' \in [Clients -> Paths \cup {None}], was' \in [Clients -> DiskSet], quiet' \in [Clients -> BOOLEAN],
         \A e \in Clients : e # c => call'[e] = call[e],
         CallFits(at'[c], call'[c]),
         \A e \in Clients : opened'[e] # None => at'[e] = "fill" /\ IsText(disk'[opened'[e]])
  PROVE  FileTypes'
<1>1. \A e \in Clients : ClientIsRight(e)'
  <2>1. ASSUME NEW e \in Clients, e # c PROVE ClientIsRight(e)'
    <3>1. ClientIsRight(e) /\ at'[e] = at[e] /\ answer'[e] = answer[e] /\ call'[e] = call[e]
      BY <2>1 DEF FileTypes, OnlyMoves
    <3> QED
      BY <3>1 DEF ClientIsRight
  <2>2. ClientIsRight(c)'
    BY DEF ClientIsRight, OnlyMoves
  <2> QED
    BY <2>1, <2>2
<1>2. \A e \in Clients : OpenIsRight(e)'
  BY DEF OpenIsRight
<1> QED
  BY <1>1, <1>2 DEF FileTypes, OnlyMoves

\* The same when only the step of a client changes.
LEMMA TypesKeptInPlace ==
  ASSUME FileTypes, NEW c \in Clients, OnlyMoves(c), at[c] # "fill",
         UNCHANGED <<disk, call, todo, opened, was, quiet>>, CallFits(at'[c], call[c])
  PROVE  FileTypes'
<1>1. /\ disk \in DiskSet /\ call \in [Clients -> Calls \cup {None}] /\ todo \in [Clients -> Seq(FileSet)]
      /\ opened \in [Clients -> Paths \cup {None}] /\ was \in [Clients -> DiskSet] /\ quiet \in [Clients -> BOOLEAN]
  BY DEF FileTypes
<1>2. \A e \in Clients : opened'[e] # None => at'[e] = "fill" /\ IsText(disk'[opened'[e]])
  <2>1. \A e \in Clients : opened[e] # None => at[e] = "fill" /\ IsText(disk[opened[e]])
    BY DEF FileTypes, OpenIsRight
  <2>2. opened[c] = None
    BY <2>1
  <2>3. \A e \in Clients : e # c => at'[e] = at[e]
    BY DEF OnlyMoves
  <2> QED
    BY <2>1, <2>2, <2>3
<1> QED
  BY <1>1, <1>2, TypesKept

\* A call that is not busy may be anything.
LEMMA IdleFits ==
  ASSUME NEW request
  PROVE  CallFits("idle", request)
BY DEF CallFits

\* A call begins.
LEMMA StartKeepsTypes ==
  ASSUME FileTypes, NEW c \in Clients, NEW what, NEW request \in Calls, NEW first \in FileSteps \ {"fill"},
         Starts(c, what, request, first), CallFits(first, request),
         NEW files \in Seq(FileSet), todo' = [todo EXCEPT ![c] = files]
  PROVE  /\ FileTypes' /\ at'[c] = first /\ call'[c] = request /\ answer'[c] = None /\ was'[c] = disk /\ disk' = disk
         /\ \A e \in Clients : quiet'[e] => e = c /\ \A a \in Clients : at[a] = "idle"
         /\ \A e \in Clients : e # c => at'[e] = at[e]
<1>1. /\ disk \in DiskSet /\ call \in [Clients -> Calls \cup {None}] /\ todo \in [Clients -> Seq(FileSet)]
      /\ opened \in [Clients -> Paths \cup {None}] /\ was \in [Clients -> DiskSet]
      /\ at \in [Clients -> FileSteps] /\ answer \in [Clients -> FileAnswers]
  BY DEF FileTypes
<1>2. /\ at[c] = "idle" /\ at' = [at EXCEPT ![c] = first] /\ call' = [call EXCEPT ![c] = request]
      /\ answer' = [answer EXCEPT ![c] = None] /\ was' = [was EXCEPT ![c] = disk]
      /\ quiet' = [e \in Clients |-> e = c /\ Busy = {}] /\ disk' = disk /\ opened' = opened
  BY DEF Starts, May
<1>3. at'[c] = first /\ call'[c] = request /\ answer'[c] = None /\ was'[c] = disk
  BY <1>1, <1>2
<1>4. OnlyMoves(c)
  <2>1. None \in FileAnswers
    BY DEF FileAnswers
  <2> QED
    BY <1>1, <1>2, <2>1 DEF OnlyMoves
<1>5. /\ call' \in [Clients -> Calls \cup {None}] /\ was' \in [Clients -> DiskSet] /\ quiet' \in [Clients -> BOOLEAN]
      /\ \A e \in Clients : e # c => call'[e] = call[e]
  BY <1>1, <1>2
<1>6. todo' \in [Clients -> Seq(FileSet)]
  BY <1>1
<1>7. \A e \in Clients : opened'[e] # None => at'[e] = "fill" /\ IsText(disk'[opened'[e]])
  <2>1. \A e \in Clients : opened[e] # None => at[e] = "fill" /\ IsText(disk[opened[e]])
    BY DEF FileTypes, OpenIsRight
  <2>2. opened[c] = None
    BY <2>1, <1>2
  <2> QED
    BY <2>1, <2>2, <1>2, <1>4 DEF OnlyMoves
<1>8. FileTypes'
  BY <1>1, <1>2, <1>3, <1>4, <1>5, <1>6, <1>7, TypesKept
<1>9. \A e \in Clients : quiet'[e] => e = c /\ \A a \in Clients : at[a] = "idle"
  BY <1>2 DEF Busy
<1> QED
  BY <1>2, <1>3, <1>4, <1>8, <1>9 DEF OnlyMoves

\* A step of a client keeps the invariant when it keeps the client's part of it.
LEMMA OthersDoNotMind ==
  ASSUME FileInv, NEW c \in Clients, at[c] # "idle", FileTypes', OnlyMoves(c), UNCHANGED <<was, quiet>>,
         quiet[c] => call'[c] \in Calls /\ CallIsOnItsWay(c)'
  PROVE  FileInv'
<1>1. \A e \in Clients : Alone(e) /\ CallIsOnItsWay(e)
  BY DEF FileInv
<1>2. \A e \in Clients : e # c => at'[e] = at[e]
  BY DEF OnlyMoves
<1>3. ASSUME NEW e \in Clients PROVE Alone(e)' /\ CallIsOnItsWay(e)'
  <2>1. CASE e # c
    <3>1. ~quiet[e]
      BY <1>1, <2>1 DEF Alone
    <3>2. ~quiet'[e]
      BY <3>1
    <3> QED
      BY <3>2 DEF Alone, CallIsOnItsWay
  <2>2. CASE e = c
    <3>1. quiet[c] => call'[c] \in Calls /\ \A a \in Clients \ {c} : at'[a] = "idle"
      BY <1>1, <1>2 DEF Alone
    <3>2. Alone(c)'
      BY <3>1 DEF Alone
    <3>3. CallIsOnItsWay(c)'
      BY DEF CallIsOnItsWay
    <3> QED
      BY <2>2, <3>2, <3>3
  <2> QED
    BY <2>1, <2>2
<1> QED
  BY <1>3 DEF FileInv

\* What kind of call it is.
LEMMA KindOf ==
  ASSUME NEW c \in Clients
  PROVE  /\ call[c] \in WriteCalls => call[c].op = "write" /\ call[c].path \in Paths /\ call[c].text = NewText
         /\ call[c] \in DeleteCalls => call[c].op = "delete" /\ call[c].path \in Paths
         /\ call[c] \in MoveCalls =>
              /\ call[c].op = "move" /\ call[c].path \in Paths /\ call[c].to \in Paths
              /\ Related(call[c].path, call[c].to) \/ {call[c].path, call[c].to} \subseteq Flat
         /\ call[c] \in PatchCalls => call[c].op = "patch" /\ call[c].patch \in Patches /\ call[c].text \in FileTexts
BY DEF WriteCalls, DeleteCalls, MoveCalls, PatchCalls

\* ChecksWrite keeps the invariant.
LEMMA ChecksWriteKeeps ==
  ASSUME FileInv, NEW c \in Clients, ChecksWrite(c)
  PROVE  FileInv'
<1>1. FileTypes /\ CallFits(at[c], call[c]) /\ CallIsOnItsWay(c)
  BY DEF FileInv, FileTypes, ClientIsRight
<1>2. /\ at[c] = "check" /\ UNCHANGED <<disk, call, todo, opened, was, quiet, left>>
      /\ IF Refuses(call[c]) THEN Ends(c, "refused") ELSE Goes(c, "open")
  BY DEF ChecksWrite
<1>3. call[c] \in WriteCalls /\ call[c].op = "write" /\ call[c].path \in Paths
  BY <1>1, <1>2, KindOf DEF CallFits
<1>4. OnlyMoves(c) /\ \/ Refuses(call[c]) /\ at'[c] = "idle" /\ answer'[c] = "refused"
                      \/ ~Refuses(call[c]) /\ at'[c] = "open" /\ answer'[c] = None
  <2>1. "open" \in FileSteps
    BY DEF FileSteps
  <2> QED
    BY <1>1, <1>2, <2>1, EndsIs, GoesIs
<1>5. FileTypes'
  <2>1. CallFits(at'[c], call[c])
    BY <1>3, <1>4 DEF CallFits
  <2> QED
    BY <1>1, <1>2, <1>4, <2>1, TypesKeptInPlace
<1>6. quiet[c] => WriteIsRight(c)'
  <2>1. quiet[c] => disk = was[c]
    BY <1>1, <1>2, <1>3 DEF CallIsOnItsWay, WriteIsRight
  <2>2. ~Refuses(call[c]) => disk[call[c].path] = None \/ call[c].overwrite
    BY DEF Refuses, Exists
  <2> QED
    BY <1>2, <1>4, <2>1, <2>2, FileValues DEF WriteIsRight, Unjudged
<1>7. quiet[c] => call'[c] \in Calls /\ CallIsOnItsWay(c)'
  BY <1>2, <1>3, <1>6 DEF CallIsOnItsWay, Calls
<1> QED
  BY <1>2, <1>4, <1>5, <1>7, OthersDoNotMind

\* Files are removed from a project.
LEMMA WithoutIs ==
  ASSUME NEW d \in DiskSet, NEW gone
  PROVE  /\ Without(d, gone) \in DiskSet
         /\ \A p \in Paths : Without(d, gone)[p] = IF p \in gone THEN None ELSE d[p]
<1>1. None \in FileTexts \cup {None, Folder, Link}
  OBVIOUS
<1> QED
  BY <1>1 DEF DiskSet, Without

\* What is not there is not missed.
LEMMA WithoutNothing ==
  ASSUME NEW d \in DiskSet, NEW gone, \A p \in Paths : p \in gone => d[p] = None
  PROVE  Without(d, gone) = d
BY DEF DiskSet, Without

\* One file is removed.
LEMMA WithoutOne ==
  ASSUME NEW d \in DiskSet, NEW p \in Flat
  PROVE  Below(p) = {} /\ Tree(p) = {p} /\ Without(d, Tree(p)) = [d EXCEPT ![p] = None] /\ Without(d, Below(p)) = d
<1>1. Below(p) = {}
  <2>1. ASSUME NEW q \in Below(p) PROVE FALSE
    <3>1. q \in Paths /\ p \in Paths /\ Related(p, q)
      BY DEF Below, Flat, Related
    <3>2. q = p
      BY <3>1 DEF Flat
    <3> QED
      BY <2>1, <3>1, <3>2, FoldersNest
  <2> QED
    BY <2>1
<1>2. Tree(p) = {p}
  BY <1>1 DEF Tree
<1>3. Without(d, {p}) = [d EXCEPT ![p] = None]
  BY DEF DiskSet, Without
<1>4. Without(d, {}) = d
  BY WithoutNothing
<1> QED
  BY <1>1, <1>2, <1>3, <1>4

\* ChecksDelete keeps it.
LEMMA ChecksDeleteKeeps ==
  ASSUME FileInv, NEW c \in Clients, ChecksDelete(c)
  PROVE  FileInv'
<1> DEFINE p == call[c].path
<1>1. FileTypes /\ CallFits(at[c], call[c]) /\ CallIsOnItsWay(c)
  BY DEF FileInv, FileTypes, ClientIsRight
<1>2. /\ at[c] = "check delete" /\ UNCHANGED <<disk, call, todo, opened, was, quiet, left>>
      /\ \/ disk[p] = None /\ Ends(c, "done")
         \/ Ends(c, "refused")
         \/ disk[p] # None /\ Goes(c, "unlink")
  BY DEF ChecksDelete
<1>3. call[c] \in DeleteCalls /\ call[c].op = "delete" /\ p \in Paths
  BY <1>1, <1>2, KindOf DEF CallFits
<1>4. OnlyMoves(c) /\ \/ disk[p] = None /\ at'[c] = "idle" /\ answer'[c] = "done"
                      \/ at'[c] = "idle" /\ answer'[c] = "refused"
                      \/ disk[p] # None /\ at'[c] = "unlink" /\ answer'[c] = None
  <2>1. "unlink" \in FileSteps
    BY DEF FileSteps
  <2> QED
    BY <1>1, <1>2, <2>1, EndsIs, GoesIs
<1>5. FileTypes'
  <2>1. CallFits(at'[c], call[c])
    BY <1>3, <1>4 DEF CallFits
  <2> QED
    BY <1>1, <1>2, <1>4, <2>1, TypesKeptInPlace
<1>6. quiet[c] => DeleteIsRight(c)'
  <2>1. quiet[c] => disk = was[c]
    BY <1>1, <1>2, <1>3 DEF CallIsOnItsWay, DeleteIsRight
  <2>2. disk' = disk /\ was' = was /\ call' = call
    BY <1>2
  <2> QED
    BY <1>4, <2>1, <2>2, FileValues DEF DeleteIsRight, Unjudged
<1>7. quiet[c] => call'[c] \in Calls /\ CallIsOnItsWay(c)'
  BY <1>2, <1>3, <1>6 DEF CallIsOnItsWay, Calls
<1> QED
  BY <1>2, <1>4, <1>5, <1>7, OthersDoNotMind

\* ChecksMove keeps it.
LEMMA ChecksMoveKeeps ==
  ASSUME FileInv, NEW c \in Clients, ChecksMove(c)
  PROVE  FileInv'
<1> DEFINE p == call[c].path
           q == call[c].to
<1>1. FileTypes /\ CallFits(at[c], call[c]) /\ CallIsOnItsWay(c)
  BY DEF FileInv, FileTypes, ClientIsRight
<1>2. /\ at[c] = "check move" /\ UNCHANGED <<disk, call, todo, opened, was, quiet, left>>
      /\ \/ Ends(c, "refused")
         \/ disk[p] # None /\ disk[q] # None /\ call[c].overwrite /\ Goes(c, "clear")
         \/ disk[p] # None /\ disk[q] = None /\ Goes(c, "move")
  BY DEF ChecksMove, RefusesMove, Exists
<1>3. call[c] \in MoveCalls /\ call[c].op = "move" /\ p \in Paths /\ q \in Paths
  BY <1>1, <1>2, KindOf DEF CallFits
<1>4. OnlyMoves(c) /\ \/ at'[c] = "idle" /\ answer'[c] = "refused"
                      \/ disk[p] # None /\ disk[q] # None /\ call[c].overwrite /\ at'[c] = "clear" /\ answer'[c] = None
                      \/ disk[p] # None /\ disk[q] = None /\ at'[c] = "move" /\ answer'[c] = None
  <2>1. "clear" \in FileSteps /\ "move" \in FileSteps
    BY DEF FileSteps
  <2> QED
    BY <1>1, <1>2, <2>1, EndsIs, GoesIs
<1>5. FileTypes'
  <2>1. CallFits(at'[c], call[c])
    BY <1>3, <1>4 DEF CallFits
  <2> QED
    BY <1>1, <1>2, <1>4, <2>1, TypesKeptInPlace
<1>6. quiet[c] => MoveIsRight(c)'
  <2>1. quiet[c] => disk = was[c]
    BY <1>1, <1>2, <1>3 DEF CallIsOnItsWay, MoveIsRight
  <2>2. disk' = disk /\ was' = was /\ call' = call
    BY <1>2
  <2> QED
    BY <1>4, <2>1, <2>2, FileValues DEF MoveIsRight, Unjudged
<1>7. quiet[c] => call'[c] \in Calls /\ CallIsOnItsWay(c)'
  BY <1>2, <1>3, <1>6 DEF CallIsOnItsWay, Calls
<1> QED
  BY <1>2, <1>4, <1>5, <1>7, OthersDoNotMind

\* A file that is removed is not written any more.
LEMMA RemovesIs ==
  ASSUME FileTypes, NEW gone, Removes(gone)
  PROVE  /\ disk' = Without(disk, gone) /\ disk' \in DiskSet /\ opened' \in [Clients -> Paths \cup {None}]
         /\ \A e \in Clients : opened'[e] # None =>
              opened[e] = opened'[e] /\ at[e] = "fill" /\ IsText(disk'[opened'[e]])
<1>1. disk \in DiskSet /\ opened \in [Clients -> Paths \cup {None}]
  BY DEF FileTypes
<1>2. \A e \in Clients : opened[e] # None => at[e] = "fill" /\ IsText(disk[opened[e]])
  BY DEF FileTypes, OpenIsRight
<1>3. /\ disk' = Without(disk, gone)
      /\ \A e \in Clients : opened'[e] = IF opened[e] \in gone THEN None ELSE opened[e]
  BY <1>1 DEF Removes
<1>4. disk' \in DiskSet /\ \A p \in Paths : disk'[p] = IF p \in gone THEN None ELSE disk[p]
  BY <1>1, <1>3, WithoutIs
<1>5. opened' \in [Clients -> Paths \cup {None}]
  BY <1>1 DEF Removes
<1>6. ASSUME NEW e \in Clients, opened'[e] # None
      PROVE  opened[e] = opened'[e] /\ at[e] = "fill" /\ IsText(disk'[opened'[e]])
  <2>1. opened'[e] = opened[e] /\ opened[e] \notin gone /\ opened[e] # None /\ opened[e] \in Paths
    BY <1>1, <1>3, <1>6
  <2>2. disk'[opened[e]] = disk[opened[e]]
    BY <1>4, <2>1
  <2> QED
    BY <1>2, <2>1, <2>2
<1> QED
  BY <1>3, <1>4, <1>5, <1>6

\* A step that removes a file keeps the types.
LEMMA TypesKeptByRemoving ==
  ASSUME FileTypes, NEW c \in Clients, OnlyMoves(c), at[c] # "fill", NEW gone, Removes(gone),
         UNCHANGED <<call, todo, was, quiet>>, CallFits(at'[c], call[c])
  PROVE  FileTypes'
<1>1. /\ call \in [Clients -> Calls \cup {None}] /\ todo \in [Clients -> Seq(FileSet)]
      /\ was \in [Clients -> DiskSet] /\ quiet \in [Clients -> BOOLEAN]
  BY DEF FileTypes
<1>2. /\ disk' \in DiskSet /\ opened' \in [Clients -> Paths \cup {None}]
      /\ \A e \in Clients : opened'[e] # None =>
           opened[e] = opened'[e] /\ at[e] = "fill" /\ IsText(disk'[opened'[e]])
  BY RemovesIs
<1>3. \A e \in Clients : opened'[e] # None => at'[e] = "fill" /\ IsText(disk'[opened'[e]])
  BY <1>2 DEF OnlyMoves
<1> QED
  BY <1>1, <1>2, <1>3, TypesKept

\* Clears keeps the invariant.
LEMMA ClearsKeeps ==
  ASSUME FileInv, NEW c \in Clients, Clears(c)
  PROVE  FileInv'
<1> DEFINE p == call[c].path
           q == call[c].to
<1>1. FileTypes /\ CallFits(at[c], call[c]) /\ CallIsOnItsWay(c)
  BY DEF FileInv, FileTypes, ClientIsRight
<1>2. /\ at[c] = "clear" /\ UNCHANGED <<call, todo, was, quiet, left>> /\ Removes(Tree(q))
      /\ \/ disk[q] # None /\ Goes(c, "move")
         \/ disk[q] = None /\ Ends(c, "refused")
  BY DEF Clears, Exists
<1>3. call[c] \in MoveCalls /\ call[c].op = "move" /\ p \in Paths /\ q \in Paths
  BY <1>1, <1>2, KindOf DEF CallFits
<1>4. OnlyMoves(c) /\ \/ disk[q] # None /\ at'[c] = "move" /\ answer'[c] = None
                      \/ disk[q] = None /\ at'[c] = "idle" /\ answer'[c] = "refused"
  <2>1. "move" \in FileSteps
    BY DEF FileSteps
  <2> QED
    BY <1>1, <1>2, <2>1, EndsIs, GoesIs
<1>5. FileTypes'
  <2>1. CallFits(at'[c], call[c])
    BY <1>3, <1>4 DEF CallFits
  <2> QED
    BY <1>1, <1>2, <1>3, <1>4, <2>1, TypesKeptByRemoving
<1>6. quiet[c] => MoveIsRight(c)'
  <2>1. quiet[c] => disk = was[c] /\ disk[p] # None /\ disk[q] # None /\ call[c].overwrite
    BY <1>1, <1>2, <1>3 DEF CallIsOnItsWay, MoveIsRight
  <2>2. disk' = Without(disk, Tree(q)) /\ was' = was /\ call' = call
    BY <1>1, <1>2, RemovesIs
  <2>3. quiet[c] => at'[c] = "move" /\ was[c][p] # None /\ was[c][q] # None /\ call[c].overwrite
                    /\ disk' = Without(was[c], Tree(q))
    BY <1>4, <2>1, <2>2
  <2> HIDE DEF p, q
  <2> QED
    BY <2>2, <2>3 DEF MoveIsRight, Cleared, p, q
<1>7. quiet[c] => call'[c] \in Calls /\ CallIsOnItsWay(c)'
  BY <1>2, <1>3, <1>6 DEF CallIsOnItsWay, Calls
<1> QED
  BY <1>2, <1>4, <1>5, <1>7, OthersDoNotMind

\* What a rename leaves.
LEMMA RenamesIs ==
  ASSUME FileTypes, NEW p \in Paths, NEW q \in Paths,
         disk' = [disk EXCEPT ![p] = None, ![q] = IF disk[q] = Folder THEN Folder ELSE disk[p]]
  PROVE  /\ disk' \in DiskSet
         /\ disk[q] # Folder => disk'[q] = disk[p]
         /\ \A r \in Paths : r \notin {p, q} => disk'[r] = disk[r]
         /\ p # q /\ disk[q] = None => disk' = [disk EXCEPT ![p] = None, ![q] = disk[p]]
<1> DEFINE mid == [disk EXCEPT ![p] = None]
           content == IF disk[q] = Folder THEN Folder ELSE disk[p]
           Contained == FileTexts \cup {None, Folder, Link}
<1>1. disk \in [Paths -> Contained]
  BY DEF FileTypes, DiskSet
<1>2. disk' = [mid EXCEPT ![q] = content]
  OBVIOUS
<1>3. Folder \in Contained /\ None \in Contained /\ None # Folder
  BY FileValues
<1> HIDE DEF Contained
<1>4. /\ mid \in [Paths -> Contained] /\ mid[p] = None /\ \A r \in Paths : r # p => mid[r] = disk[r]
      /\ content \in Contained
  BY <1>1, <1>3
<1>5. disk[q] # Folder => content = disk[p]
  BY <1>3, <1>4
<1>6. p # q /\ disk[q] = None => [disk EXCEPT ![p] = None, ![q] = disk[p]] = [mid EXCEPT ![q] = content]
  BY <1>3, <1>4
<1> HIDE DEF mid, content
<1>7. disk' \in [Paths -> Contained] /\ disk'[q] = content /\ \A r \in Paths : r # q => disk'[r] = mid[r]
  BY <1>2, <1>4
<1>8. \A r \in Paths : r \notin {p, q} => disk'[r] = disk[r]
  BY <1>4, <1>7
<1> QED
  BY <1>2, <1>5, <1>6, <1>7, <1>8 DEF DiskSet, Contained

\* Renames keeps the invariant.
LEMMA RenamesKeeps ==
  ASSUME FileInv, NEW c \in Clients, Renames(c)
  PROVE  FileInv'
<1> DEFINE p == call[c].path
           q == call[c].to
<1>1. FileTypes /\ CallFits(at[c], call[c]) /\ CallIsOnItsWay(c)
  BY DEF FileInv, FileTypes, ClientIsRight
<1>2. at[c] = "move" /\ UNCHANGED <<call, todo, was, quiet, left>>
  BY DEF Renames
<1>3. call[c] \in MoveCalls /\ call[c].op = "move" /\ p \in Paths /\ q \in Paths
  BY <1>1, <1>2, KindOf DEF CallFits
<1>4. quiet[c] => was[c][p] # None /\ ((disk = was[c] /\ was[c][q] = None) \/ Cleared(c, was[c]))
  BY <1>1, <1>2, <1>3 DEF CallIsOnItsWay, MoveIsRight
<1>5. was[c] \in DiskSet
  BY <1>1 DEF FileTypes
<1>6. quiet[c] => disk[q] = None
  <2>1. q \in Tree(q)
    BY DEF Tree
  <2>2. Without(was[c], Tree(q))[q] = None
    BY <1>3, <1>5, <2>1, WithoutIs
  <2> QED
    BY <1>4, <2>2 DEF Cleared
<1>7. /\ call \in [Clients -> Calls \cup {None}] /\ todo \in [Clients -> Seq(FileSet)]
      /\ was \in [Clients -> DiskSet] /\ quiet \in [Clients -> BOOLEAN]
  BY <1>1 DEF FileTypes
<1>8. CASE ~Exists(p) \/ (p # q /\ Related(p, q)) \/ (disk[p] = Folder /\ IsText(disk[q]))
  <2>1. Ends(c, "refused") /\ UNCHANGED <<disk, opened>>
    BY <1>8 DEF Renames
  <2>2. OnlyMoves(c) /\ at'[c] = "idle" /\ answer'[c] = "refused"
    BY <1>1, <2>1, EndsIs
  <2>3. FileTypes'
    <3>1. CallFits(at'[c], call[c])
      BY <2>2, IdleFits
    <3> QED
      BY <1>1, <1>2, <2>1, <2>2, <3>1, TypesKeptInPlace
  <2>4. quiet[c] => disk = was[c] \/ (Related(p, q) /\ Cleared(c, was[c]))
    <3>1. CASE ~Exists(p) /\ quiet[c] /\ Cleared(c, was[c])
      <4>1. disk[p] = None /\ disk = Without(was[c], Tree(q)) /\ was[c][p] # None
        BY <3>1, <1>4 DEF Exists, Cleared
      <4>2. p \in Tree(q)
        BY <4>1, <1>3, <1>5, WithoutIs
      <4>3. Related(p, q)
        BY <4>2 DEF Tree, Related
      <4> QED
        BY <4>3, <3>1
    <3>2. quiet[c] => ~IsText(disk[q])
      BY <1>6 DEF IsText
    <3> QED
      BY <1>4, <1>8, <3>1, <3>2
  <2>5. quiet[c] => MoveIsRight(c)'
    <3>1. answer'[c] \notin {None, "failed"} /\ answer'[c] # "done"
      BY <2>2, FileValues
    <3>2. Cleared(c, was[c]) => Cleared(c, was[c])'
      BY <1>2, <2>1 DEF Cleared
    <3> QED
      BY <1>2, <2>1, <2>2, <2>4, <3>1, <3>2 DEF MoveIsRight, Unjudged
  <2>6. quiet[c] => call'[c] \in Calls /\ CallIsOnItsWay(c)'
    BY <1>2, <1>3, <2>5 DEF CallIsOnItsWay, Calls
  <2> QED
    BY <1>2, <2>2, <2>3, <2>6, OthersDoNotMind
<1>9. CASE ~(~Exists(p) \/ (p # q /\ Related(p, q)) \/ (disk[p] = Folder /\ IsText(disk[q])))
  <2>1. /\ disk' = [disk EXCEPT ![p] = None, ![q] = IF disk[q] = Folder THEN Folder ELSE disk[p]]
        /\ opened' = [e \in Clients |-> IF opened[e] = p /\ disk[q] # Folder THEN q
                                        ELSE IF opened[e] \in {p, q} THEN None ELSE opened[e]]
        /\ Ends(c, "done")
    BY <1>9 DEF Renames
  <2>2. OnlyMoves(c) /\ at'[c] = "idle" /\ answer'[c] = "done"
    BY <1>1, <2>1, EndsIs
  <2>3. /\ disk' \in DiskSet
        /\ disk[q] # Folder => disk'[q] = disk[p]
        /\ \A r \in Paths : r \notin {p, q} => disk'[r] = disk[r]
        /\ p # q /\ disk[q] = None => disk' = [disk EXCEPT ![p] = None, ![q] = disk[p]]
    <3> HIDE DEF p, q
    <3> QED
      BY <1>1, <1>3, <2>1, RenamesIs
  <2>4. opened \in [Clients -> Paths \cup {None}]
    BY <1>1 DEF FileTypes
  <2>5. opened' \in [Clients -> Paths \cup {None}]
    BY <1>3, <2>1, <2>4
  <2>6. \A e \in Clients : opened'[e] # None => at'[e] = "fill" /\ IsText(disk'[opened'[e]])
    <3>1. ASSUME NEW e \in Clients, opened'[e] # None PROVE at'[e] = "fill" /\ IsText(disk'[opened'[e]])
      <4>1. opened[e] # None
        BY <2>1, <3>1, <1>3, FileValues
      <4>2. at[e] = "fill" /\ IsText(disk[opened[e]]) /\ e # c /\ opened[e] \in Paths
        BY <1>1, <1>2, <2>4, <4>1 DEF FileTypes, OpenIsRight
      <4>3. at'[e] = "fill"
        BY <2>2, <4>2 DEF OnlyMoves
      <4>4. CASE opened[e] = p /\ disk[q] # Folder
        BY <2>1, <2>3, <4>2, <4>3, <4>4
      <4>5. CASE ~(opened[e] = p /\ disk[q] # Folder)
        <5>1. opened'[e] = opened[e] /\ opened[e] \notin {p, q}
          BY <2>1, <3>1, <4>5
        <5> QED
          BY <2>3, <4>2, <4>3, <5>1
      <4> QED
        BY <4>4, <4>5
    <3> QED
      BY <3>1
  <2>7. FileTypes'
    <3>1. CallFits(at'[c], call'[c])
      BY <2>2, IdleFits
    <3>2. \A e \in Clients : e # c => call'[e] = call[e]
      BY <1>2
    <3> QED
      BY <1>1, <1>2, <1>7, <2>2, <2>3, <2>5, <2>6, <3>1, <3>2, TypesKept
  <2>8. quiet[c] => MoveIsRight(c)'
    <3> SUFFICES ASSUME quiet[c] PROVE MoveIsRight(c)'
      OBVIOUS
    <3>1. answer'[c] \notin {None, "failed"} /\ answer'[c] # "refused"
      BY <2>2, FileValues
    <3>2. p # q /\ ~Related(p, q)
      BY <1>6, <1>9 DEF Exists
    <3>3. p \in Flat /\ q \in Flat
      BY <1>3, <3>2, KindOf
    <3>4. disk = [was[c] EXCEPT ![q] = None]
      <4>1. was[c][q] = None => was[c] = [was[c] EXCEPT ![q] = None]
        BY <1>5 DEF DiskSet
      <4>2. Without(was[c], Tree(q)) = [was[c] EXCEPT ![q] = None]
        BY <1>5, <3>3, WithoutOne
      <4> QED
        BY <1>4, <4>1, <4>2 DEF Cleared
    <3>5. disk[p] = was[c][p]
      BY <1>3, <1>5, <3>2, <3>4 DEF DiskSet
    <3>6. disk' = [was[c] EXCEPT ![p] = None, ![q] = was[c][p]]
      <4>1. [[was[c] EXCEPT ![q] = None] EXCEPT ![p] = None, ![q] = was[c][p]]
              = [was[c] EXCEPT ![p] = None, ![q] = was[c][p]]
        <5> HIDE DEF p, q
        <5> QED
          BY <1>3, <1>5, <3>2 DEF DiskSet
      <4> QED
        BY <1>6, <2>3, <3>2, <3>4, <3>5, <4>1
    <3> QED
      BY <1>2, <2>2, <3>1, <3>6 DEF MoveIsRight, Unjudged
  <2>9. quiet[c] => call'[c] \in Calls /\ CallIsOnItsWay(c)'
    BY <1>2, <1>3, <2>8 DEF CallIsOnItsWay, Calls
  <2> QED
    BY <1>2, <2>2, <2>7, <2>9, OthersDoNotMind
<1> QED
  BY <1>8, <1>9
------------------------------------------------------------------------------
\* Patches, file by file

\* What is left of a patch.
LEMMA LeftIs ==
  ASSUME NEW patch \in Patches
  PROVE  /\ Len(patch) \in Nat /\ Len(patch) # 0 /\ FilesOf(patch) \in Seq(FileSet)
         /\ LeftOf(patch, 0) = FilesOf(patch) /\ LeftOf(patch, Len(patch)) = <<>>
         /\ \A k \in 0..Len(patch) : LeftOf(patch, k) \in Seq(FileSet)
         /\ \A k \in 1..Len(patch) :
              /\ LeftOf(patch, k - 1) # <<>> /\ Head(LeftOf(patch, k - 1)) = FileOf(patch[k])
              /\ Tail(LeftOf(patch, k - 1)) = LeftOf(patch, k)
              /\ patch[k] \in FilePatches /\ Shown(patch[k]) /\ FileOf(patch[k]) \in FileSet
<1> DEFINE n == Len(patch)
           fs == FilesOf(patch)
<1>1. /\ patch \in Seq(FilePatches) /\ patch # <<>>
      /\ \A i \in DOMAIN patch : /\ Hunks(patch[i].script, patch[i].shown) \in Seq(HunkSet)
                                 /\ patch[i] \in FilePatches /\ Shown(patch[i])
  BY PatchesShow DEF Shows
<1>2. n \in Nat /\ n # 0 /\ DOMAIN patch = 1..n
  BY <1>1
<1>3. \A i \in 1..n : FileOf(patch[i]) \in FileSet
  <2>1. ASSUME NEW i \in 1..n PROVE FileOf(patch[i]) \in FileSet
    <3>1. /\ patch[i].old \in Paths \cup {None} /\ patch[i].new \in Paths \cup {None}
          /\ Hunks(patch[i].script, patch[i].shown) \in Seq(HunkSet)
      BY <1>1, <1>2, FilePatchIs
    <3> QED
      BY <3>1 DEF FileOf, FileRecord, FileSet
  <2> QED
    BY <2>1
<1>4. fs = [i \in 1..n |-> FileOf(patch[i])]
  BY <1>2 DEF FilesOf
<1> HIDE DEF fs, n
<1>5. fs \in Seq(FileSet) /\ Len(fs) = n /\ \A i \in 1..n : fs[i] = FileOf(patch[i])
  BY <1>2, <1>3, <1>4
<1>6. /\ SubSeq(fs, 1, n) = fs /\ SubSeq(fs, n + 1, n) = <<>>
      /\ \A k \in 0..n : SubSeq(fs, k + 1, n) \in Seq(FileSet)
  BY <1>2, <1>5
<1>7. \A k \in 1..n : /\ SubSeq(fs, k, n) # <<>> /\ Head(SubSeq(fs, k, n)) = fs[k]
                      /\ Tail(SubSeq(fs, k, n)) = SubSeq(fs, k + 1, n)
  BY <1>2, <1>5
<1>8. \A k : LeftOf(patch, k) = SubSeq(fs, k + 1, n)
  BY DEF LeftOf, fs, n
<1>9. LeftOf(patch, 0) = fs /\ LeftOf(patch, n) = <<>> /\ \A k \in 0..n : LeftOf(patch, k) \in Seq(FileSet)
  <2>1. 0 + 1 = 1
    OBVIOUS
  <2> QED
    BY <1>6, <1>8, <2>1
<1>10. \A k \in 1..n : /\ LeftOf(patch, k - 1) # <<>> /\ Head(LeftOf(patch, k - 1)) = FileOf(patch[k])
                       /\ Tail(LeftOf(patch, k - 1)) = LeftOf(patch, k)
  <2>1. ASSUME NEW k \in 1..n
        PROVE  /\ LeftOf(patch, k - 1) # <<>> /\ Head(LeftOf(patch, k - 1)) = FileOf(patch[k])
               /\ Tail(LeftOf(patch, k - 1)) = LeftOf(patch, k)
    <3>1. (k - 1) + 1 = k
      BY <1>2
    <3>2. LeftOf(patch, k - 1) = SubSeq(fs, k, n) /\ LeftOf(patch, k) = SubSeq(fs, k + 1, n)
      BY <1>8, <3>1
    <3> QED
      BY <1>5, <1>7, <3>2
  <2> QED
    BY <2>1
<1> QED
  BY <1>1, <1>2, <1>3, <1>5, <1>9, <1>10 DEF fs, n

\* The project after one file patch more, and whether it fits.
LEMMA UptoMore ==
  ASSUME NEW d, NEW patch \in Patches
  PROVE  /\ Upto(d, patch, 0) = d /\ FitsUpto(d, patch, 0)
         /\ \A k \in 1..Len(patch) :
              /\ Upto(d, patch, k) = With(Upto(d, patch, k - 1), patch[k])
              /\ FitsUpto(d, patch, k) <=> FitsUpto(d, patch, k - 1) /\ Fits(Upto(d, patch, k - 1), patch[k])
         /\ \A j, k \in 0..Len(patch) : j <= k /\ FitsUpto(d, patch, k) => FitsUpto(d, patch, j)
<1> DEFINE n == Len(patch)
<1>1. patch \in Seq(FilePatches) /\ n \in Nat
  BY PatchesShowScripts
<1>2. /\ SubSeq(patch, 1, 0) = <<>>
      /\ \A k \in 1..n : SubSeq(patch, 1, k) = Append(SubSeq(patch, 1, k - 1), patch[k]) /\ patch[k] \in FilePatches
      /\ \A k \in 0..n : SubSeq(patch, 1, k) \in Seq(FilePatches)
  BY <1>1, FirstElements
<1>3. Upto(d, patch, 0) = d
  <2>1. FoldLeft(With, d, <<>>) = d
    BY WithNothing
  <2> QED
    BY <1>2, <2>1, Zenon DEF Upto
<1>4. ASSUME NEW k \in 1..n PROVE Upto(d, patch, k) = With(Upto(d, patch, k - 1), patch[k])
  <2> DEFINE p == SubSeq(patch, 1, k - 1)
             e == patch[k]
  <2>1. k - 1 \in 0..n
    BY <1>1
  <2>2. p \in Seq(FilePatches) /\ e \in FilePatches /\ SubSeq(patch, 1, k) = Append(p, e)
    BY <1>2, <2>1
  <2> HIDE DEF p, e
  <2>3. FoldLeft(With, d, Append(p, e)) = With(FoldLeft(With, d, p), e)
    BY <2>2, WithMore
  <2> QED
    BY <2>2, <2>3, Zenon DEF Upto, p, e
<1>5. FitsUpto(d, patch, 0)
  BY DEF FitsUpto
<1>6. ASSUME NEW k \in 1..n
      PROVE  FitsUpto(d, patch, k) <=> FitsUpto(d, patch, k - 1) /\ Fits(Upto(d, patch, k - 1), patch[k])
  <2>1. \A i : i \in 1..k <=> i \in 1..k - 1 \/ i = k
    BY <1>1
  <2> QED
    BY <2>1, Zenon DEF FitsUpto
<1>7. \A j, k \in 0..n : j <= k /\ FitsUpto(d, patch, k) => FitsUpto(d, patch, j)
  <2>1. \A j, k \in 0..n : j <= k => \A i \in 1..j : i \in 1..k
    BY <1>1
  <2> QED
    BY <2>1, Zenon DEF FitsUpto
<1> QED
  BY <1>3, <1>4, <1>5, <1>6, <1>7

\* A patch without cut lines is rendered whole.
LEMMA UncutPatchIsWhole ==
  ASSUME NEW patch \in Patches, AllUncut(patch)
  PROVE  PatchWhole(patch)
<1>1. \A i \in DOMAIN patch : Shown(patch[i])
  BY PatchesShow
<1>2. ASSUME NEW i \in DOMAIN patch
      PROVE  \A k \in DOMAIN Hunks(patch[i].script, patch[i].shown) : Whole(Hunks(patch[i].script, patch[i].shown)[k])
  <2> DEFINE file == patch[i]
  <2>1. Shown(file) /\ Uncut(file.script)
    BY <1>1 DEF AllUncut
  <2> HIDE DEF file
  <2>2. \A k \in DOMAIN Hunks(file.script, file.shown) : Whole(Hunks(file.script, file.shown)[k])
    BY <2>1, UncutIsWhole
  <2> QED
    BY <2>2 DEF file
<1> QED
  BY <1>2 DEF PatchWhole

\* A patch that fits is one.
LEMMA FittingIsUncut ==
  ASSUME NEW patch \in Patches, NEW d, FitsUpto(d, patch, Len(patch))
  PROVE  AllUncut(patch)
<1>1. DOMAIN patch = 1..Len(patch)
  BY PatchesShow DEF Shows
<1>2. \A i \in 1..Len(patch) : Fits(Upto(d, patch, i - 1), patch[i])
  BY DEF FitsUpto
<1>3. ASSUME NEW i \in DOMAIN patch PROVE Uncut(patch[i].script)
  <2> DEFINE file == patch[i]
             before == Upto(d, patch, i - 1)
  <2>1. Fits(before, file)
    BY <1>1, <1>2
  <2> HIDE DEF file, before
  <2>2. Uncut(file.script)
    BY <2>1 DEF Fits
  <2> QED
    BY <2>2 DEF file
<1> QED
  BY <1>3 DEF AllUncut

\* A patch that fits makes the new file.
LEMMA FitsApplies ==
  ASSUME NEW d, NEW file, Shown(file), Fits(d, file), file.new # None,
         NEW text, text = IF file.old = None THEN EmptyText ELSE d[file.old]
  PROVE  Applied(text, Hunks(file.script, file.shown)) = NewFile(file)
<1> DEFINE s == file.script
           shown == file.shown
           hs == Hunks(s, shown)
<1>1. s \in Seq(ScriptLines) /\ shown \subseteq 1..Len(s) /\ 0 \notin shown
  BY DEF Shown
<1>2. shown # {}
  BY DEF Fits
<1>3. ShowsChanges(s, shown)
  BY Zenon DEF Fits, ShowsChanges
<1>4. HunksStand(s, shown)
  <2>1. \A h \in ToSet(hs) : IsPlaced(h)
    BY DEF Fits, IsPlaced
  <2>2. \A k \in DOMAIN hs : hs[k] \in ToSet(hs)
    BY DEF ToSet
  <2> QED
    BY <2>1, <2>2 DEF HunksStand
<1>5. text.lines = OldLines(s)
  <2>1. CASE file.old = None
    <3>1. OldLines(s) = <<>>
      BY <2>1 DEF Fits
    <3>2. text.lines = <<>>
      BY <2>1 DEF EmptyText
    <3> QED
      BY <3>1, <3>2
  <2>2. CASE file.old # None
    <3>1. d[file.old].lines = OldLines(s)
      BY <2>2 DEF Fits
    <3> QED
      BY <2>2, <3>1
  <2> QED
    BY <2>1, <2>2
<1>7. Uncut(s)
  BY DEF Fits
<1> HIDE DEF s, shown
<1>6. Applied(text, Hunks(s, shown)) = [lines |-> NewLines(s), newline |-> NewLines(s) # <<>>, crlf |-> FALSE]
  BY <1>1, <1>2, <1>3, <1>4, <1>5, <1>7, AppliedIs
<1> QED
  BY <1>6 DEF NewFile, s, shown

\* A patch that is not parsed does not fit.
LEMMA UnparsedDoesNotFit ==
  ASSUME NEW patch \in Patches, NEW d, FitsUpto(d, patch, Len(patch))
  PROVE  Parsed(DiffOf(patch)) = FilesOf(patch) /\ Parsed(DiffOf(patch)) # None
<1>1. Shows(patch) /\ patch # <<>> /\ \A i \in DOMAIN patch : Shown(patch[i])
  BY PatchesShow
<1>2. Parsed(DiffOf(patch)) = FilesOf(patch) \/ PatchDashed(patch)
  BY <1>1, PatchIsParsed, FittingIsUncut, UncutPatchIsWhole
<1>3. \A i \in DOMAIN patch : ~SomeDashed(Hunks(patch[i].script, patch[i].shown))
  <2>1. DOMAIN patch = 1..Len(patch)
    BY <1>1 DEF Shows
  <2>2. \A i \in 1..Len(patch) : Fits(Upto(d, patch, i - 1), patch[i])
    BY DEF FitsUpto
  <2>3. ASSUME NEW i \in DOMAIN patch PROVE ~SomeDashed(Hunks(patch[i].script, patch[i].shown))
    <3> DEFINE file == patch[i]
               at0 == Upto(d, patch, i - 1)
    <3>1. Shown(file) /\ Fits(at0, file)
      BY <1>1, <2>1, <2>2
    <3> HIDE DEF file, at0
    <3>2. ~SomeDashed(Hunks(file.script, file.shown))
      BY <3>1, FitsPlainly
    <3> QED
      BY <3>2 DEF file
  <2> QED
    BY <2>3
<1>4. Parsed(DiffOf(patch)) = FilesOf(patch)
  BY <1>2, <1>3 DEF PatchDashed
<1>5. FilesOf(patch) # None
  BY LeftIs, FileValues
<1> QED
  BY <1>4, <1>5

\* What an undisturbed patch finds where it opens a file.
LEMMA OpensPatch ==
  ASSUME FileTypes, NEW c \in Clients, NEW d, NEW patch \in Patches, NEW k \in 1..Len(patch), AtOpen(c, d, patch, k),
         call' = call, todo' = todo, NEW p \in Paths, p = call[c].path
  PROVE  /\ disk[p] \in {Folder, Link} /\ disk' = disk => k - 1 \in 0..Len(patch) - 1 /\ Stopped(d, patch, k - 1)'
         /\ disk[p] \notin {Folder, Link} /\ disk' = [disk EXCEPT ![p] = EmptyText] /\ opened'[c] = p
              => AtFill(c, d, patch, k)'
<1> DEFINE n == Len(patch)
<1>0. n \in Nat /\ k - 1 \in 0..n - 1 /\ (k - 1) + 1 = k
  <2>1. n \in Nat
    BY LeftIs
  <2> HIDE DEF n
  <2>2. k \in 1..n
    BY DEF n
  <2> QED
    BY <2>1, <2>2
<1>1. /\ AllFound(d, patch, k - 1) /\ Reached(d, patch, k - 1) /\ todo[c] = LeftOf(patch, k)
      /\ p = patch[k].new /\ patch[k].new # None
      /\ FitsUpto(d, patch, k) => call[c].text = NewFile(patch[k])
      /\ ~NotFound(disk, patch[k]) \/ disk[p] = Folder
  BY DEF AtOpen
<1>2. ASSUME disk[p] \in {Folder, Link}, disk' = disk PROVE Stopped(d, patch, k - 1)'
  <2>1. FitsUpto(d, patch, k - 1) => disk' = Upto(d, patch, k - 1)
    BY <1>1, <1>2 DEF Reached
  <2>2. ~Fits(disk, patch[k])
    BY <1>1, <1>2 DEF Fits
  <2> QED
    BY <1>0, <1>1, <1>2, <2>1, <2>2 DEF Stopped, Reached
<1>3. ASSUME disk[p] \notin {Folder, Link}, disk' = [disk EXCEPT ![p] = EmptyText], opened'[c] = p
      PROVE  AtFill(c, d, patch, k)'
  <2>1. FitsUpto(d, patch, k - 1) => disk = Upto(d, patch, k - 1)
    BY <1>1 DEF Reached
  <2>2. ~NotFound(disk, patch[k])
    BY <1>1, <1>3
  <2>3. AllFound(d, patch, k)
    <3>1. \A j \in 0..k - 1 : j \in 0..(k - 1) - 1 \/ j = k - 1
      BY <1>0
    <3>2. FitsUpto(d, patch, k - 1) => ~NotFound(Upto(d, patch, k - 1), patch[(k - 1) + 1])
      BY <1>0, <2>1, <2>2
    <3> QED
      BY <1>1, <3>1, <3>2, Zenon DEF AllFound
  <2>4. disk'[p] = EmptyText
    BY <1>3 DEF FileTypes, DiskSet
  <2>5. FitsUpto(d, patch, k - 1) => disk' = [Upto(d, patch, k - 1) EXCEPT ![p] = EmptyText]
    BY <1>3, <2>1
  <2>6. call'[c].path = p /\ call'[c].text = call[c].text /\ todo'[c] = LeftOf(patch, k)
    BY <1>1
  <2> QED
    BY <1>1, <1>3, <2>3, <2>4, <2>5, <2>6 DEF AtFill
<1> QED
  BY <1>0, <1>2, <1>3

\* ... and leaves where it has written it.
LEMMA FillsPatch ==
  ASSUME FileTypes, NEW c \in Clients, NEW d, NEW patch \in Patches, NEW k \in 1..Len(patch), AtFill(c, d, patch, k),
         todo' = todo, NEW p \in Paths, p = call[c].path, disk' = [disk EXCEPT ![p] = call[c].text]
  PROVE  k \in 0..Len(patch) /\ AtNext(c, d, patch, k)'
<1> DEFINE n == Len(patch)
<1>0. n \in Nat /\ k \in 0..n /\ k \in 1..n
  <2>1. n \in Nat
    BY LeftIs
  <2> HIDE DEF n
  <2>2. k \in 1..n
    BY DEF n
  <2> QED
    BY <2>1, <2>2
<1>1. /\ todo[c] = LeftOf(patch, k) /\ AllFound(d, patch, k) /\ p = patch[k].new /\ patch[k].new # None
      /\ FitsUpto(d, patch, k - 1) => disk = [Upto(d, patch, k - 1) EXCEPT ![p] = EmptyText]
      /\ FitsUpto(d, patch, k) => call[c].text = NewFile(patch[k])
  BY DEF AtFill
<1>2. ASSUME FitsUpto(d, patch, k) PROVE disk' = Upto(d, patch, k)
  <2> DEFINE u == Upto(d, patch, k - 1)
             text == NewFile(patch[k])
  <2>1. FitsUpto(d, patch, k - 1) /\ Upto(d, patch, k) = With(u, patch[k])
    BY <1>0, <1>2, UptoMore
  <2>2. With(u, patch[k]) = [u EXCEPT ![p] = text]
    BY <1>1 DEF With
  <2>3. disk = [u EXCEPT ![p] = EmptyText] /\ disk' = [disk EXCEPT ![p] = text]
    BY <1>1, <1>2, <2>1
  <2> HIDE DEF u, text
  <2>4. [[u EXCEPT ![p] = EmptyText] EXCEPT ![p] = text] = [u EXCEPT ![p] = text]
    OBVIOUS
  <2> QED
    BY <2>1, <2>2, <2>3, <2>4
<1>3. todo'[c] = LeftOf(patch, k)
  BY <1>1
<1> QED
  BY <1>0, <1>1, <1>2, <1>3 DEF AtNext, Reached

\* ... and where it has deleted it.
LEMMA UnlinksPatch ==
  ASSUME NEW c \in Clients, NEW d, NEW patch \in Patches, NEW k \in 1..Len(patch), AtUnlink(c, d, patch, k),
         todo' = todo, disk' = [disk EXCEPT ![call[c].path] = None]
  PROVE  k \in 0..Len(patch) /\ AtNext(c, d, patch, k)'
<1> DEFINE n == Len(patch)
<1>0. n \in Nat /\ k \in 0..n /\ k \in 1..n
  <2>1. n \in Nat
    BY LeftIs
  <2> HIDE DEF n
  <2>2. k \in 1..n
    BY DEF n
  <2> QED
    BY <2>1, <2>2
<1>1. /\ todo[c] = LeftOf(patch, k) /\ AllFound(d, patch, k) /\ Reached(d, patch, k - 1)
      /\ call[c].path = patch[k].old /\ patch[k].new = None
  BY DEF AtUnlink
<1>2. ASSUME FitsUpto(d, patch, k) PROVE disk' = Upto(d, patch, k)
  <2> DEFINE u == Upto(d, patch, k - 1)
  <2>1. FitsUpto(d, patch, k - 1) /\ Upto(d, patch, k) = With(u, patch[k])
    BY <1>0, <1>2, UptoMore
  <2>2. With(u, patch[k]) = [u EXCEPT ![patch[k].old] = None]
    BY <1>1 DEF With
  <2>3. disk = u
    BY <1>1, <2>1 DEF Reached
  <2> QED
    BY <1>1, <2>1, <2>2, <2>3
<1>3. todo'[c] = LeftOf(patch, k)
  BY <1>1
<1> QED
  BY <1>0, <1>1, <1>2, <1>3 DEF AtNext, Reached

\* An undisturbed patch that begins its next file, or finds that it cannot.
LEMMA NextPatch ==
  ASSUME FileTypes, NEW c \in Clients, NEW d, NEW patch \in Patches, NEW k \in 1..Len(patch), AtNext(c, d, patch, k - 1),
         disk' = disk, NEW file, file = Head(todo[c]),
         NEW text, text = IF Source(file) = None THEN None ELSE Applied(Source(file), file.hunks)
  PROVE  /\ file = FileOf(patch[k]) /\ file \in FileSet
         /\ file.new = None /\ file.old \in Paths /\ IsText(disk[file.old])
            /\ call'[c].path = file.old /\ todo'[c] = Tail(todo[c])
              => AtUnlink(c, d, patch, k)'
         /\ file.new = None /\ ~(file.old \in Paths /\ IsText(disk[file.old])) => Stopped(d, patch, k - 1)'
         /\ file.new # None /\ (file.new \notin Paths \/ disk[file.new] = Link \/ text = None)
              => Stopped(d, patch, k - 1)'
         /\ file.new # None /\ file.new \in Paths /\ disk[file.new] # Link /\ text # None
            /\ call'[c].path = file.new /\ call'[c].text = text /\ todo'[c] = Tail(todo[c])
              => AtOpen(c, d, patch, k)'
<1> DEFINE n == Len(patch)
           f == patch[k]
<1>0. n \in Nat /\ k - 1 \in 0..n /\ (k - 1) + 1 = k /\ k \in 1..n
  <2>1. n \in Nat
    BY LeftIs
  <2> HIDE DEF n
  <2>2. k \in 1..n
    BY DEF n
  <2> QED
    BY <2>1, <2>2
<1>1. todo[c] = LeftOf(patch, k - 1) /\ AllFound(d, patch, k - 1) /\ Reached(d, patch, k - 1)
  BY DEF AtNext
<1>2. file = FileOf(f) /\ file \in FileSet /\ Tail(todo[c]) = LeftOf(patch, k) /\ f \in FilePatches /\ Shown(f)
  BY <1>0, <1>1, LeftIs
<1>3. /\ file.old = f.old /\ file.new = f.new /\ file.hunks = Hunks(f.script, f.shown)
      /\ f.old \in Paths \cup {None} /\ f.new \in Paths \cup {None}
  BY <1>2, FilePatchIs DEF FileOf, FileRecord
<1>4. FitsUpto(d, patch, k - 1) => disk = Upto(d, patch, k - 1)
  BY <1>1 DEF Reached
<1>5. FitsUpto(d, patch, k) => FitsUpto(d, patch, k - 1) /\ Fits(disk, f)
  BY <1>0, <1>4, UptoMore
<1>6. None # Folder /\ None # Link /\ None \notin Paths /\ None \notin FileTexts /\ EmptyText \in FileTexts
  BY FileValues
<1>7. Source(file) # None =>
        /\ Source(file) = IF f.old = None THEN EmptyText ELSE disk[f.old]
        /\ f.old # None => f.old \in Paths /\ IsText(disk[f.old])
  BY <1>3 DEF Source
<1>8. ASSUME ~Fits(disk, f) PROVE Stopped(d, patch, k - 1)'
  <2>1. Reached(d, patch, k - 1)'
    BY <1>1 DEF Reached
  <2>2. FitsUpto(d, patch, k - 1) => ~Fits(Upto(d, patch, k - 1), patch[(k - 1) + 1])
    BY <1>0, <1>4, <1>8
  <2> QED
    BY <1>1, <2>1, <2>2 DEF Stopped
<1>9. ASSUME file.new = None, file.old \in Paths, IsText(disk[file.old]),
             call'[c].path = file.old, todo'[c] = Tail(todo[c])
      PROVE  AtUnlink(c, d, patch, k)'
  <2>1. ~NotFound(disk, f)
    BY <1>3, <1>6, <1>9 DEF NotFound
  <2>2. AllFound(d, patch, k)
    <3>1. \A j \in 0..k - 1 : j \in 0..(k - 1) - 1 \/ j = k - 1
      BY <1>0
    <3>2. FitsUpto(d, patch, k - 1) => ~NotFound(Upto(d, patch, k - 1), patch[(k - 1) + 1])
      BY <1>0, <1>4, <2>1
    <3> QED
      BY <1>1, <3>1, <3>2, Zenon DEF AllFound
  <2>3. Reached(d, patch, k - 1)'
    BY <1>1 DEF Reached
  <2>4. disk'[call'[c].path] # None
    BY <1>9 DEF IsText
  <2> QED
    BY <1>2, <1>3, <1>9, <2>2, <2>3, <2>4 DEF AtUnlink
<1>10. ASSUME file.new = None, ~(file.old \in Paths /\ IsText(disk[file.old])) PROVE ~Fits(disk, f)
  <2>1. f.old = None \/ (f.old # None /\ ~IsText(disk[f.old]))
    BY <1>3, <1>10
  <2> QED
    BY <2>1, <1>3, <1>10 DEF Fits
<1>11. ASSUME Fits(disk, f), file.new # None
       PROVE  /\ file.new \in Paths /\ disk[file.new] # Link
              /\ Source(file) # None /\ text = NewFile(f) /\ text # None
  <2>1. file.new \in Paths
    BY <1>3, <1>11
  <2>2. disk[file.new] # Link
    BY <1>3, <1>11 DEF Fits
  <2>3. f.old = None \/ (f.old \in Paths /\ IsText(disk[f.old]))
    BY <1>3, <1>11 DEF Fits
  <2>4. Source(file) = IF f.old = None THEN EmptyText ELSE disk[f.old]
    BY <2>3, <1>3, <1>6 DEF Source
  <2>5. Source(file) # None
    BY <2>3, <2>4, <1>6 DEF IsText
  <2>6. Applied(Source(file), Hunks(f.script, f.shown)) = NewFile(f)
    BY <1>2, <1>3, <1>11, <2>4, FitsApplies
  <2>7. NewFile(f) \in FileTexts
    <3>1. f.script \in Seq(ScriptLines)
      BY <1>2 DEF Shown
    <3>2. NewLines(f.script) \in Seq(Contents)
      BY <3>1, SideType DEF NewLines
    <3> QED
      BY <3>2 DEF NewFile, FileTexts
  <2>8. text = NewFile(f) /\ text # None
    BY <1>3, <1>6, <2>5, <2>6, <2>7
  <2> QED
    BY <2>1, <2>2, <2>5, <2>8
<1>12. ASSUME file.new # None, file.new \in Paths, disk[file.new] # Link, text # None,
              call'[c].path = file.new, call'[c].text = text, todo'[c] = Tail(todo[c])
       PROVE  AtOpen(c, d, patch, k)'
  <2>1. FitsUpto(d, patch, k) => call'[c].text = NewFile(f)
    BY <1>5, <1>11, <1>12
  <2>2. Source(file) # None /\ text = Applied(Source(file), file.hunks)
    BY <1>12
  <2>3. ~NotFound(disk, f) \/ disk[file.new] = Folder
    <3>1. f.old # None => IsText(disk[f.old]) /\ Applied(disk[f.old], Hunks(f.script, f.shown)) # None
      BY <1>3, <1>7, <1>12, <2>2
    <3> QED
      BY <1>3, <1>12, <3>1 DEF NotFound
  <2>4. Reached(d, patch, k - 1)'
    BY <1>1 DEF Reached
  <2>5. (~NotFound(disk, f) \/ disk[call[c].path] = Folder)'
    BY <2>3, <1>12
  <2> QED
    BY <1>1, <1>2, <1>3, <1>12, <2>1, <2>4, <2>5 DEF AtOpen
<1> QED
  BY <1>2, <1>8, <1>9, <1>10, <1>11, <1>12
------------------------------------------------------------------------------
\* Every step keeps the invariant

\* The types are kept while texts stay texts.
LEMMA TypesKeptByWriting ==
  ASSUME FileTypes, NEW c \in Clients, OnlyMoves(c), UNCHANGED <<call, todo, was, quiet>>, CallFits(at'[c], call[c]),
         disk' \in DiskSet, \A r \in Paths : IsText(disk[r]) => IsText(disk'[r]),
         NEW x \in Paths \cup {None}, opened' = [opened EXCEPT ![c] = x],
         x # None => at'[c] = "fill" /\ IsText(disk'[x])
  PROVE  FileTypes'
<1>1. /\ call \in [Clients -> Calls \cup {None}] /\ todo \in [Clients -> Seq(FileSet)]
      /\ was \in [Clients -> DiskSet] /\ quiet \in [Clients -> BOOLEAN] /\ opened \in [Clients -> Paths \cup {None}]
  BY DEF FileTypes
<1>2. opened' \in [Clients -> Paths \cup {None}]
  BY <1>1
<1>3. ASSUME NEW e \in Clients, opened'[e] # None PROVE at'[e] = "fill" /\ IsText(disk'[opened'[e]])
  <2>1. CASE e = c
    <3>1. opened'[e] = x
      BY <1>1, <2>1
    <3> QED
      BY <1>3, <2>1, <3>1
  <2>2. CASE e # c
    <3>1. opened'[e] = opened[e] /\ opened[e] # None /\ opened[e] \in Paths
      BY <1>1, <1>3, <2>2
    <3>2. at[e] = "fill" /\ IsText(disk[opened[e]])
      BY <3>1 DEF FileTypes, OpenIsRight
    <3>3. at'[e] = at[e]
      BY <2>2 DEF OnlyMoves
    <3> QED
      BY <3>1, <3>2, <3>3
  <2> QED
    BY <2>1, <2>2
<1> QED
  BY <1>1, <1>2, <1>3, TypesKept

\* A text that is put somewhere.
LEMMA PutsText ==
  ASSUME FileTypes, NEW p \in Paths, NEW text \in FileTexts, disk' = [disk EXCEPT ![p] = text]
  PROVE  disk' \in DiskSet /\ disk'[p] = text /\ IsText(disk'[p]) /\ \A r \in Paths : IsText(disk[r]) => IsText(disk'[r])
<1>1. disk \in DiskSet
  BY DEF FileTypes
<1>2. IsText(text)
  BY FileValues DEF IsText
<1>3. disk' \in DiskSet
  BY <1>1 DEF DiskSet
<1>4. disk'[p] = text /\ \A r \in Paths : r # p => disk'[r] = disk[r]
  BY <1>1 DEF DiskSet
<1> QED
  BY <1>2, <1>3, <1>4

\* What is written over a text is a text, and the text itself over an empty one.
LEMMA OverIs ==
  ASSUME NEW text \in FileTexts, NEW old \in FileTexts
  PROVE  Over(text, old) \in FileTexts /\ Over(text, EmptyText) = text
<1>1. /\ text.lines \in Seq(Contents) /\ old.lines \in Seq(Contents) /\ old.newline \in BOOLEAN
      /\ Len(text.lines) \in Nat /\ Len(old.lines) \in Nat
  <2>1. \A t \in Seq(Contents) : Len(t) \in Nat
    OBVIOUS
  <2>2. text.lines \in Seq(Contents) /\ old.lines \in Seq(Contents) /\ old.newline \in BOOLEAN
    BY DEF FileTexts
  <2> QED
    BY <2>1, <2>2, Zenon
<1>2. Over(text, EmptyText) = text
  <2>1. EmptyText.lines = <<>>
    BY DEF EmptyText
  <2>2. Len(<<>>) = 0
    OBVIOUS
  <2>3. Len(EmptyText.lines) <= Len(text.lines)
    BY <1>1, <2>1, <2>2
  <2> QED
    BY <2>3 DEF Over
<1>3. CASE Len(old.lines) <= Len(text.lines)
  BY <1>2, <1>3 DEF Over
<1>4. CASE ~(Len(old.lines) <= Len(text.lines))
  <2> DEFINE m == Len(text.lines) + 1
             rest == SubSeq(old.lines, m, Len(old.lines))
             lines == text.lines \o rest
  <2>1. rest \in Seq(Contents)
    <3>1. \A t \in Seq(Contents), i \in Nat \ {0} : SubSeq(t, i, Len(t)) \in Seq(Contents)
      OBVIOUS
    <3>2. m \in Nat \ {0}
      BY <1>1
    <3> QED
      BY <1>1, <3>1, <3>2
  <2>2. lines \in Seq(Contents)
    <3> HIDE DEF rest
    <3> QED
      BY <1>1, <2>1, JoinsMore
  <2> DEFINE crlf == old.crlf \/ text.crlf
  <2>3. Over(text, old) = [old EXCEPT !.lines = lines, !.crlf = crlf]
    BY <1>4 DEF Over
  <2>5. crlf \in BOOLEAN
    OBVIOUS
  <2> HIDE DEF lines, crlf
  <2>4. [old EXCEPT !.lines = lines, !.crlf = crlf] \in FileTexts
    BY <2>2, <2>5 DEF FileTexts
  <2> QED
    BY <1>2, <2>3, <2>4
<1> QED
  BY <1>3, <1>4

\* Opens keeps the invariant.
LEMMA OpensKeeps ==
  ASSUME FileInv, NEW c \in Clients, Opens(c)
  PROVE  FileInv'
<1> DEFINE p == call[c].path
           d == was[c]
<1>1. FileTypes /\ CallFits(at[c], call[c]) /\ CallIsOnItsWay(c)
  BY DEF FileInv, FileTypes, ClientIsRight
<1>2. at[c] = "open" /\ UNCHANGED <<call, todo, was, quiet, left>>
  BY DEF Opens
<1>3. p \in Paths /\ \/ call[c] \in WriteCalls /\ call[c].op = "write"
                     \/ call[c] \in PatchCalls /\ call[c].op = "patch" /\ call[c].patch \in Patches
  BY <1>1, <1>2, KindOf DEF CallFits
<1>4. \/ disk[p] \in {Folder, Link} /\ Ends(c, "refused") /\ UNCHANGED <<disk, opened>>
      \/ /\ disk[p] \notin {Folder, Link} /\ disk' = [disk EXCEPT ![p] = EmptyText]
         /\ opened' = [opened EXCEPT ![c] = p] /\ Goes(c, "fill")
  BY DEF Opens, Puts
<1>5. opened \in [Clients -> Paths \cup {None}] /\ disk \in DiskSet /\ was[c] \in DiskSet
  BY <1>1 DEF FileTypes
<1>6. OnlyMoves(c) /\ \/ /\ disk[p] \in {Folder, Link} /\ at'[c] = "idle" /\ answer'[c] = "refused"
                         /\ UNCHANGED <<disk, opened>>
                      \/ /\ disk[p] \notin {Folder, Link} /\ at'[c] = "fill" /\ answer'[c] = None
                         /\ disk' = [disk EXCEPT ![p] = EmptyText] /\ opened' = [opened EXCEPT ![c] = p] /\ opened'[c] = p
  <2>1. "fill" \in FileSteps
    BY DEF FileSteps
  <2> QED
    BY <1>1, <1>2, <1>4, <1>5, <2>1, EndsIs, GoesIs
<1>7. FileTypes'
  <2>1. CallFits(at'[c], call[c])
    BY <1>3, <1>6 DEF CallFits
  <2>2. CASE UNCHANGED <<disk, opened>>
    BY <1>1, <1>2, <1>6, <2>1, <2>2, TypesKeptInPlace
  <2>3. CASE disk' = [disk EXCEPT ![p] = EmptyText] /\ opened' = [opened EXCEPT ![c] = p] /\ at'[c] = "fill"
    <3>1. /\ disk' \in DiskSet /\ IsText(disk'[p])
          /\ \A r \in Paths : IsText(disk[r]) => IsText(disk'[r])
      BY <1>1, <1>3, <2>3, FileValues, PutsText
    <3> QED
      BY <1>1, <1>2, <1>3, <1>6, <2>1, <2>3, <3>1, TypesKeptByWriting
  <2> QED
    BY <1>6, <2>2, <2>3
<1>8. quiet[c] /\ call[c].op = "write" => WriteIsRight(c)'
  <2>1. quiet[c] /\ call[c].op = "write" => disk = d /\ (call[c].overwrite \/ d[p] = None)
    BY <1>1, <1>2 DEF CallIsOnItsWay, WriteIsRight
  <2>2. answer'[c] = "refused" => answer'[c] \notin {None, "failed"} /\ answer'[c] # "done"
    BY FileValues
  <2>3. was' = was /\ call' = call
    BY <1>2
  <2> QED
    BY <1>6, <2>1, <2>2, <2>3 DEF WriteIsRight, Unjudged
<1>9. ASSUME quiet[c], call[c].op = "patch", AllUncut(call[c].patch) PROVE PatchIsRight(c)'
  <2>0. \E old, files : old = was[c] /\ files = call[c].patch
    OBVIOUS
  <2>1. PICK old, patch : old = was[c] /\ patch = call[c].patch
    BY <2>0
  <2> DEFINE n == Len(patch)
  <2>2. patch \in Patches
    BY <1>3, <1>9, <2>1
  <2>3. PICK k \in 1..n : AtOpen(c, old, patch, k)
    BY <1>1, <1>2, <1>9, <2>1 DEF CallIsOnItsWay, PatchIsRight
  <2>4. /\ disk[p] \in {Folder, Link} /\ disk' = disk => k - 1 \in 0..n - 1 /\ Stopped(old, patch, k - 1)'
        /\ disk[p] \notin {Folder, Link} /\ disk' = [disk EXCEPT ![p] = EmptyText] /\ opened'[c] = p
             => AtFill(c, old, patch, k)'
    <3>1. call' = call /\ todo' = todo
      BY <1>2
    <3> QED
      BY <1>1, <1>3, <2>2, <2>3, <3>1, OpensPatch
  <2>5. was'[c] = old /\ call'[c].patch = patch
    BY <1>2, <2>1
  <2>6. answer'[c] = "refused" => answer'[c] \notin {None, "failed"} /\ answer'[c] # "done"
    BY FileValues
  <2>7. \/ at'[c] = "idle" /\ answer'[c] = "refused" /\ \E j \in 0..n - 1 : Stopped(old, patch, j)'
        \/ at'[c] = "fill" /\ \E j \in 1..n : AtFill(c, old, patch, j)'
    BY <1>6, <2>3, <2>4
  <2> QED
    BY <2>5, <2>6, <2>7 DEF PatchIsRight, Stopped, Reached, AtFill, Unjudged
<1>10. quiet[c] => call'[c] \in Calls /\ CallIsOnItsWay(c)'
  BY <1>2, <1>3, <1>8, <1>9 DEF CallIsOnItsWay, Calls
<1> QED
  BY <1>2, <1>6, <1>7, <1>10, OthersDoNotMind

\* Fills keeps it.
LEMMA FillsKeeps ==
  ASSUME FileInv, NEW c \in Clients, Fills(c)
  PROVE  FileInv'
<1> DEFINE p == call[c].path
           d == was[c]
           text == call[c].text
           o == opened[c]
<1>1. FileTypes /\ CallFits(at[c], call[c]) /\ CallIsOnItsWay(c)
  BY DEF FileInv, FileTypes, ClientIsRight
<1>2. /\ at[c] = "fill" /\ UNCHANGED <<call, todo, was, quiet, left>> /\ opened' = [opened EXCEPT ![c] = None]
      /\ IF o # None THEN disk' = [disk EXCEPT ![o] = Over(text, disk[o])] ELSE UNCHANGED disk
      /\ IF call[c].op = "patch" THEN Goes(c, "next") ELSE Ends(c, "done")
  BY DEF Fills, Closes, Puts
<1>3. p \in Paths /\ \/ call[c] \in WriteCalls /\ call[c].op = "write" /\ text = NewText
                     \/ call[c] \in PatchCalls /\ call[c].op = "patch" /\ call[c].patch \in Patches
  BY <1>1, <1>2, KindOf DEF CallFits
<1>4. text \in FileTexts
  BY <1>3, KindOf, FileValues
<1>5. disk \in DiskSet /\ was[c] \in DiskSet /\ o \in Paths \cup {None}
  BY <1>1 DEF FileTypes
<1>6. OnlyMoves(c) /\ \/ call[c].op = "patch" /\ at'[c] = "next" /\ answer'[c] = None
                      \/ call[c].op = "write" /\ at'[c] = "idle" /\ answer'[c] = "done"
  <2>1. "next" \in FileSteps
    BY DEF FileSteps
  <2> QED
    BY <1>1, <1>2, <1>3, <2>1, EndsIs, GoesIs
<1>7. disk' \in DiskSet /\ \A r \in Paths : IsText(disk[r]) => IsText(disk'[r])
  <2>1. CASE o = None
    BY <1>2, <1>5, <2>1
  <2>2. CASE o # None
    <3>1. IsText(disk[o]) /\ o \in Paths
      BY <1>1, <1>5, <2>2 DEF FileTypes, OpenIsRight
    <3>2. disk[o] \in FileTexts
      BY <1>5, <3>1 DEF DiskSet, IsText
    <3>3. Over(text, disk[o]) \in FileTexts
      BY <1>4, <3>2, OverIs
    <3>4. disk' = [disk EXCEPT ![o] = Over(text, disk[o])]
      BY <1>2, <2>2
    <3> DEFINE w == Over(text, disk[o])
    <3> HIDE DEF w, o
    <3> QED
      BY <1>1, <3>1, <3>3, <3>4, PutsText DEF w
  <2> QED
    BY <2>1, <2>2
<1>8. FileTypes'
  <2>1. CallFits(at'[c], call[c])
    BY <1>3, <1>6 DEF CallFits
  <2>2. None \in Paths \cup {None}
    OBVIOUS
  <2> QED
    BY <1>1, <1>2, <1>6, <1>7, <2>1, <2>2, TypesKeptByWriting
<1>9. o = p /\ disk[p] = EmptyText => disk' = [disk EXCEPT ![p] = text]
  <2>1. Over(text, EmptyText) = text
    BY <1>4, FileValues, OverIs
  <2>2. p # None
    BY <1>3, FileValues
  <2> QED
    BY <1>2, <2>1, <2>2
<1>10. ASSUME quiet[c], call[c].op = "write" PROVE WriteIsRight(c)'
  <2>1. disk = [d EXCEPT ![p] = EmptyText] /\ o = p /\ (call[c].overwrite \/ d[p] = None)
    BY <1>1, <1>2, <1>10 DEF CallIsOnItsWay, WriteIsRight
  <2>2. text = NewText
    BY <1>3, <1>10, KindOf
  <2>3. disk[p] = EmptyText
    BY <1>3, <1>5, <2>1 DEF DiskSet
  <2>4. disk' = [d EXCEPT ![p] = NewText]
    <3>1. disk' = [disk EXCEPT ![p] = NewText]
      BY <1>9, <2>1, <2>2, <2>3
    <3> HIDE DEF d, p
    <3>2. [[d EXCEPT ![p] = EmptyText] EXCEPT ![p] = NewText] = [d EXCEPT ![p] = NewText]
      OBVIOUS
    <3> QED
      BY <2>1, <3>1, <3>2
  <2>5. was' = was /\ call' = call
    BY <1>2
  <2>6. at'[c] = "idle" /\ answer'[c] = "done" /\ answer'[c] \notin {None, "failed"}
    BY <1>6, <1>10, FileValues
  <2> QED
    BY <2>1, <2>4, <2>5, <2>6 DEF WriteIsRight, Unjudged
<1>11. ASSUME quiet[c], call[c].op = "patch", AllUncut(call[c].patch) PROVE PatchIsRight(c)'
  <2>0. \E old, files : old = was[c] /\ files = call[c].patch
    OBVIOUS
  <2>1. PICK old, patch : old = was[c] /\ patch = call[c].patch
    BY <2>0
  <2> DEFINE n == Len(patch)
  <2>2. patch \in Patches
    BY <1>3, <1>11, <2>1
  <2>3. PICK k \in 1..n : AtFill(c, old, patch, k)
    BY <1>1, <1>2, <1>11, <2>1 DEF CallIsOnItsWay, PatchIsRight
  <2>4. disk' = [disk EXCEPT ![p] = text]
    BY <1>9, <2>3 DEF AtFill
  <2>5. k \in 0..n /\ AtNext(c, old, patch, k)'
    <3>1. todo' = todo
      BY <1>2
    <3> QED
      BY <1>1, <1>3, <2>2, <2>3, <2>4, <3>1, FillsPatch
  <2>6. was'[c] = old /\ call'[c].patch = patch
    BY <1>2, <2>1
  <2>7. at'[c] = "next"
    BY <1>6, <1>11
  <2>8. \E j \in 0..n : AtNext(c, old, patch, j)'
    BY <2>5
  <2> QED
    BY <2>6, <2>7, <2>8 DEF PatchIsRight, AtNext, Reached
<1>12. quiet[c] => call'[c] \in Calls /\ CallIsOnItsWay(c)'
  BY <1>2, <1>3, <1>10, <1>11 DEF CallIsOnItsWay, Calls
<1> QED
  BY <1>2, <1>6, <1>8, <1>12, OthersDoNotMind

\* Unlinks keeps it.
LEMMA UnlinksKeeps ==
  ASSUME FileInv, NEW c \in Clients, Unlinks(c)
  PROVE  FileInv'
<1> DEFINE p == call[c].path
<1>1. FileTypes /\ CallFits(at[c], call[c]) /\ CallIsOnItsWay(c)
  BY DEF FileInv, FileTypes, ClientIsRight
<1>2. at[c] = "unlink" /\ UNCHANGED <<call, todo, was, quiet, left>>
  BY DEF Unlinks
<1>3. p \in Paths /\ \/ call[c] \in DeleteCalls /\ call[c].op = "delete"
                     \/ call[c] \in PatchCalls /\ call[c].op = "patch" /\ call[c].patch \in Patches
  BY <1>1, <1>2, KindOf DEF CallFits
<1>4. /\ quiet[c] /\ call[c].op = "delete" => disk = was[c] /\ was[c][p] # None
      /\ quiet[c] /\ call[c].op = "patch" /\ AllUncut(call[c].patch) =>
           \E k \in 1..Len(call[c].patch) : AtUnlink(c, was[c], call[c].patch, k)
  BY <1>1, <1>2 DEF CallIsOnItsWay, DeleteIsRight, PatchIsRight
<1>5. quiet[c] /\ (call[c].op = "patch" => AllUncut(call[c].patch)) => disk[p] # None
  BY <1>3, <1>4 DEF AtUnlink
<1>6. CASE disk[p] = None
  <2>1. Ends(c, "refused") /\ UNCHANGED <<disk, opened>>
    BY <1>6 DEF Unlinks, Exists
  <2>2. OnlyMoves(c) /\ at'[c] = "idle" /\ answer'[c] = "refused"
    BY <1>1, <2>1, EndsIs
  <2>3. FileTypes'
    <3>1. CallFits(at'[c], call[c])
      BY <2>2, IdleFits
    <3> QED
      BY <1>1, <1>2, <2>1, <2>2, <3>1, TypesKeptInPlace
  <2>4. quiet[c] => call'[c] \in Calls /\ CallIsOnItsWay(c)'
    BY <1>2, <1>3, <1>5, <1>6 DEF CallIsOnItsWay, Calls
  <2> QED
    BY <1>2, <2>2, <2>3, <2>4, OthersDoNotMind
<1>7. CASE disk[p] # None
  <2>1. Removes(Tree(p)) /\ IF call[c].op = "patch" THEN Goes(c, "next") ELSE Ends(c, "done")
    BY <1>7 DEF Unlinks, Exists
  <2>2. OnlyMoves(c) /\ \/ call[c].op = "patch" /\ at'[c] = "next" /\ answer'[c] = None
                        \/ call[c].op = "delete" /\ at'[c] = "idle" /\ answer'[c] = "done"
    <3>1. "next" \in FileSteps
      BY DEF FileSteps
    <3> QED
      BY <1>1, <1>2, <1>3, <2>1, <3>1, EndsIs, GoesIs
  <2>3. FileTypes'
    <3>1. CallFits(at'[c], call[c])
      BY <1>3, <2>2 DEF CallFits
    <3> QED
      BY <1>1, <1>2, <1>3, <2>1, <2>2, <3>1, TypesKeptByRemoving
  <2>4. disk' = Without(disk, Tree(p)) /\ disk \in DiskSet
    BY <1>1, <2>1, RemovesIs DEF FileTypes
  <2>5. quiet[c] /\ call[c].op = "delete" => DeleteIsRight(c)'
    <3>1. answer'[c] = "done" => answer'[c] # "refused" /\ answer'[c] \notin {None, "failed"}
      BY FileValues
    <3> QED
      BY <1>2, <1>4, <2>2, <2>4, <3>1 DEF DeleteIsRight, Unjudged
  <2>6. ASSUME quiet[c], call[c].op = "patch", AllUncut(call[c].patch) PROVE PatchIsRight(c)'
    <3>0. \E old, files : old = was[c] /\ files = call[c].patch
      OBVIOUS
    <3>1. PICK old, patch : old = was[c] /\ patch = call[c].patch
      BY <3>0
    <3> DEFINE n == Len(patch)
    <3>2. patch \in Patches
      BY <1>3, <2>6, <3>1
    <3>3. PICK k \in 1..n : AtUnlink(c, old, patch, k)
      BY <1>4, <2>6, <3>1
    <3>4. k \in 0..n /\ AtNext(c, old, patch, k)'
      <4>1. todo' = todo
        BY <1>2
      <4>2. p \in Flat
        <5>1. patch[k] \in FilePatches
          BY <3>2, LeftIs
        <5>2. patch[k].old \in Flat \cup {None}
          BY <5>1, FilePatchIs
        <5> QED
          BY <1>3, <3>3, <5>2, FileValues DEF AtUnlink
      <4>3. disk' = [disk EXCEPT ![p] = None]
        <5> HIDE DEF p
        <5> QED
          BY <2>4, <4>2, WithoutOne
      <4> QED
        BY <3>2, <3>3, <4>1, <4>3, UnlinksPatch
    <3>5. was'[c] = old /\ call'[c].patch = patch /\ at'[c] = "next"
      BY <1>2, <2>2, <2>6, <3>1
    <3>6. \E j \in 0..n : AtNext(c, old, patch, j)'
      BY <3>4
    <3> QED
      BY <3>5, <3>6 DEF PatchIsRight, AtNext, Reached
  <2>7. quiet[c] => call'[c] \in Calls /\ CallIsOnItsWay(c)'
    BY <1>2, <1>3, <2>5, <2>6 DEF CallIsOnItsWay, Calls
  <2> QED
    BY <1>2, <2>2, <2>3, <2>7, OthersDoNotMind
<1> QED
  BY <1>6, <1>7

\* Raises keeps it.
LEMMA RaisesKeeps ==
  ASSUME FileInv, NEW c \in Clients, Raises(c)
  PROVE  FileInv'
<1>1. FileTypes /\ CallFits(at[c], call[c]) /\ CallIsOnItsWay(c)
  BY DEF FileInv, FileTypes, ClientIsRight
<1>2. at[c] = "raise" /\ UNCHANGED <<disk, call, todo, opened, was, quiet, left>> /\ Ends(c, "refused")
  BY DEF Raises
<1>3. call[c] \in PatchCalls /\ call[c].op = "patch"
  BY <1>1, <1>2, KindOf DEF CallFits
<1>4. OnlyMoves(c) /\ at'[c] = "idle" /\ answer'[c] = "refused"
  BY <1>1, <1>2, EndsIs
<1>5. FileTypes'
  <2>1. CallFits(at'[c], call[c])
    BY <1>4, IdleFits
  <2> QED
    BY <1>1, <1>2, <1>4, <2>1, TypesKeptInPlace
<1>6. quiet[c] /\ AllUncut(call[c].patch) => PatchIsRight(c)'
  <2>1. quiet[c] /\ AllUncut(call[c].patch) => Parsed(DiffOf(call[c].patch)) = None
    BY <1>1, <1>2, <1>3 DEF CallIsOnItsWay, PatchIsRight
  <2>2. answer'[c] \notin {None, "failed"} /\ answer'[c] # "done"
    BY <1>4, FileValues
  <2>3. call' = call
    BY <1>2
  <2> QED
    BY <1>4, <2>1, <2>2, <2>3 DEF PatchIsRight, Unjudged
<1>7. quiet[c] => call'[c] \in Calls /\ CallIsOnItsWay(c)'
  BY <1>2, <1>3, <1>6 DEF CallIsOnItsWay, Calls
<1> QED
  BY <1>2, <1>4, <1>5, <1>7, OthersDoNotMind

\* Where a call is that has begun.
LEMMA StepOf ==
  ASSUME FileTypes, NEW c \in Clients, call[c] \in Calls, at[c] # "idle"
  PROVE  /\ call[c].op = "write" => call[c] \in WriteCalls /\ at[c] \in {"check", "open", "fill"}
         /\ call[c].op = "delete" => call[c] \in DeleteCalls /\ at[c] \in {"check delete", "unlink"}
         /\ call[c].op = "move" => call[c] \in MoveCalls /\ at[c] \in {"check move", "clear", "move"}
         /\ call[c].op = "patch" =>
              /\ call[c] \in PatchCalls /\ at[c] \in {"raise", "next", "open", "fill", "unlink"}
              /\ at[c] \in {"open", "fill", "unlink"} => call[c].path \in Paths
<1>1. CallFits(at[c], call[c]) /\ at[c] \in FileSteps \ {"idle"}
  BY DEF FileTypes, ClientIsRight
<1>2. CASE call[c].op = "write"
  <2>1. call[c] \notin PatchCalls /\ call[c] \notin DeleteCalls /\ call[c] \notin MoveCalls
    BY <1>2, KindOf
  <2> QED
    BY <1>1, <1>2, <2>1 DEF CallFits, FileSteps, Calls
<1>3. CASE call[c].op = "delete"
  <2>1. call[c] \notin PatchCalls /\ call[c] \notin WriteCalls /\ call[c] \notin MoveCalls
    BY <1>3, KindOf
  <2> QED
    BY <1>1, <1>3, <2>1 DEF CallFits, FileSteps, Calls
<1>4. CASE call[c].op = "move"
  <2>1. call[c] \notin PatchCalls /\ call[c] \notin WriteCalls /\ call[c] \notin DeleteCalls
    BY <1>4, KindOf
  <2> QED
    BY <1>1, <1>4, <2>1 DEF CallFits, FileSteps, Calls
<1>5. CASE call[c].op = "patch"
  <2>1. call[c] \notin DeleteCalls /\ call[c] \notin WriteCalls /\ call[c] \notin MoveCalls
    BY <1>5, KindOf
  <2> QED
    BY <1>1, <1>5, <2>1 DEF CallFits, FileSteps, Calls
<1> QED
  BY <1>2, <1>3, <1>4, <1>5

\* A patch that stops is between two files, or has one open.
LEMMA StopsPatch ==
  ASSUME FileTypes, NEW c \in Clients, at[c] # "idle", NEW d, NEW patch \in Patches, d = was[c], patch = call[c].patch,
         call[c] \in PatchCalls, at[c] \in {"raise", "next", "open", "fill", "unlink"},
         at[c] \in {"open", "fill", "unlink"} => call[c].path \in Paths, PatchIsRight(c)
  PROVE  /\ FitsUpto(d, patch, Len(patch)) => \E k \in 0..Len(patch) : Torn(c, d, patch, k)
         /\ at[c] = "unlink" => call[c].path \in Flat
<1> DEFINE n == Len(patch)
<1>1. n \in Nat /\ n # 0
  BY LeftIs
<1>2. /\ at[c] = "raise" => disk = d
      /\ at[c] = "next" => \E k \in 0..n : Reached(d, patch, k)
      /\ at[c] = "open" => \E k \in 1..n : Reached(d, patch, k - 1)
      /\ at[c] = "fill" => \E k \in 1..n :
           FitsUpto(d, patch, k - 1) => disk = [Upto(d, patch, k - 1) EXCEPT ![call[c].path] = EmptyText]
      /\ at[c] = "unlink" => \E k \in 1..n : Reached(d, patch, k - 1) /\ call[c].path = patch[k].old
  BY DEF PatchIsRight, AtNext, AtOpen, AtFill, AtUnlink
<1>3. ASSUME FitsUpto(d, patch, n) PROVE \E k \in 0..n : Torn(c, d, patch, k)
  <2>1. \A k \in 0..n : FitsUpto(d, patch, k)
    <3>1. \A j, k \in 0..n : j <= k /\ FitsUpto(d, patch, k) => FitsUpto(d, patch, j)
      BY UptoMore
    <3>2. n \in 0..n /\ \A j \in 0..n : j <= n
      BY <1>1
    <3> QED
      BY <1>3, <3>1, <3>2
  <2>2. \A k \in 1..n : k - 1 \in 0..n
    BY <1>1
  <2>3. Upto(d, patch, 0) = d /\ 0 \in 0..n
    BY <1>1, UptoMore
  <2>4. at[c] = "raise" => disk = Upto(d, patch, 0)
    BY <1>2, <2>3
  <2>5. at[c] \in {"next", "open", "unlink"} => \E k \in 0..n : disk = Upto(d, patch, k)
    BY <1>2, <2>1, <2>2 DEF Reached
  <2>6. at[c] = "fill" => \E k \in 0..n : disk = [Upto(d, patch, k) EXCEPT ![call[c].path] = EmptyText]
    BY <1>2, <2>1, <2>2
  <2> HIDE DEF n
  <2> QED
    BY <2>3, <2>4, <2>5, <2>6 DEF Torn
<1>4. ASSUME at[c] = "unlink" PROVE call[c].path \in Flat
  <2>1. PICK k \in 1..n : call[c].path = patch[k].old
    BY <1>2, <1>4
  <2>2. patch[k] \in FilePatches
    BY <2>1, LeftIs
  <2>3. patch[k].old \in Flat \cup {None}
    BY <2>2, FilePatchIs
  <2> QED
    BY <1>4, <2>1, <2>3, FileValues
<1> QED
  BY <1>3, <1>4

\* A call that stops leaves what it had done, and perhaps a folder without what
\* was in it.
LEMMA StopsKeeps ==
  ASSUME FileInv, NEW c \in Clients, NEW result \in {None, "failed"}, Stops(c, result)
  PROVE  FileInv'
<1>1. FileTypes /\ CallIsOnItsWay(c) /\ Alone(c)
  BY DEF FileInv
<1>2. /\ at[c] # "idle" /\ UNCHANGED <<call, todo, was, quiet>>
      /\ at' = [at EXCEPT ![c] = "idle"] /\ answer' = [answer EXCEPT ![c] = result]
  BY DEF Stops, Ends
<1>3. \/ disk' = disk /\ opened' = [opened EXCEPT ![c] = None]
      \/ at[c] = "unlink" /\ Removes(Below(call[c].path))
      \/ at[c] = "clear" /\ Removes(Below(call[c].to))
  BY DEF Stops, Closes
<1>4. /\ disk \in DiskSet /\ at \in [Clients -> FileSteps] /\ answer \in [Clients -> FileAnswers] /\ was[c] \in DiskSet
      /\ call' = call /\ was' = was /\ quiet' = quiet
  BY <1>1, <1>2 DEF FileTypes
<1>5. OnlyMoves(c) /\ at'[c] = "idle" /\ answer'[c] = result
  <2>1. "idle" \in FileSteps /\ result \in FileAnswers
    BY DEF FileSteps, FileAnswers
  <2> QED
    BY <1>2, <1>4, <2>1 DEF OnlyMoves
<1>6. FileTypes'
  <2>1. CallFits(at'[c], call[c])
    BY <1>5, IdleFits
  <2>2. CASE disk' = disk /\ opened' = [opened EXCEPT ![c] = None]
    <3>1. disk' \in DiskSet /\ None \in Paths \cup {None} /\ \A r \in Paths : IsText(disk[r]) => IsText(disk'[r])
      BY <1>4, <2>2
    <3> QED
      BY <1>1, <1>2, <1>5, <2>1, <2>2, <3>1, TypesKeptByWriting
  <2>3. ASSUME NEW gone, Removes(gone), at[c] # "fill" PROVE FileTypes'
    BY <1>1, <1>2, <1>5, <2>1, <2>3, TypesKeptByRemoving
  <2> QED
    BY <1>3, <2>2, <2>3
<1>7. answer'[c] # "done" /\ answer'[c] # "refused"
  BY <1>5, FileValues
<1>8. /\ disk' = disk \/ (at[c] = "unlink" /\ disk' = Without(disk, Below(call[c].path)))
         \/ (at[c] = "clear" /\ disk' = Without(disk, Below(call[c].to)))
      /\ at[c] \notin {"unlink", "clear"} => disk' = disk
  BY <1>3 DEF Removes
<1>9. ASSUME quiet[c], call[c].op = "write" PROVE WriteIsRight(c)'
  <2>1. at[c] \in {"check", "open", "fill"}
    BY <1>1, <1>2, <1>9, StepOf DEF Alone
  <2>2. disk' \in {was[c], [was[c] EXCEPT ![call[c].path] = EmptyText]}
    BY <1>1, <1>8, <1>9, <2>1 DEF CallIsOnItsWay, WriteIsRight
  <2> QED
    BY <1>4, <1>5, <1>7, <2>2 DEF WriteIsRight
<1>10. ASSUME quiet[c], call[c].op = "delete" PROVE DeleteIsRight(c)'
  <2>1. at[c] \in {"check delete", "unlink"}
    BY <1>1, <1>2, <1>10, StepOf DEF Alone
  <2>2. disk = was[c]
    BY <1>1, <1>10, <2>1 DEF CallIsOnItsWay, DeleteIsRight
  <2>3. disk' \in {was[c], Without(was[c], Below(call[c].path))}
    BY <1>8, <2>1, <2>2
  <2> QED
    BY <1>4, <1>5, <1>7, <2>3 DEF DeleteIsRight
<1>11. ASSUME quiet[c], call[c].op = "move" PROVE MoveIsRight(c)'
  <2> DEFINE q == call[c].to
             d == was[c]
  <2>1. at[c] \in {"check move", "clear", "move"}
    BY <1>1, <1>2, <1>11, StepOf DEF Alone
  <2>2. /\ at[c] \in {"check move", "clear"} => disk = d
        /\ at[c] = "move" => disk \in {d, Without(d, Tree(q))}
    BY <1>1, <1>11 DEF CallIsOnItsWay, MoveIsRight, Cleared
  <2>3. disk' \in {d, Without(d, Below(q)), Without(d, Tree(q))}
    BY <1>8, <2>1, <2>2
  <2> QED
    BY <1>4, <1>5, <1>7, <2>3 DEF MoveIsRight
<1>12. ASSUME quiet[c], call[c].op = "patch", AllUncut(call[c].patch) PROVE PatchIsRight(c)'
  <2>0. \E old, files : old = was[c] /\ files = call[c].patch
    OBVIOUS
  <2>1. PICK old, patch : old = was[c] /\ patch = call[c].patch
    BY <2>0
  <2>2. /\ call[c] \in PatchCalls /\ at[c] \in {"raise", "next", "open", "fill", "unlink"}
        /\ at[c] \in {"open", "fill", "unlink"} => call[c].path \in Paths
        /\ patch \in Patches /\ PatchIsRight(c)
    BY <1>1, <1>2, <1>12, <2>1, StepOf, KindOf DEF Alone, CallIsOnItsWay
  <2>3. /\ FitsUpto(old, patch, Len(patch)) => \E k \in 0..Len(patch) : Torn(c, old, patch, k)
        /\ at[c] = "unlink" => call[c].path \in Flat
    BY <1>1, <1>2, <2>1, <2>2, StopsPatch
  <2>4. disk' = disk
    <3>1. at[c] = "unlink" => Without(disk, Below(call[c].path)) = disk
      BY <1>4, <2>3, WithoutOne
    <3> QED
      BY <1>8, <2>2, <3>1
  <2>5. FitsUpto(old, patch, Len(patch)) => \E k \in 0..Len(patch) : Torn(c, old, patch, k)'
    BY <1>4, <2>3, <2>4 DEF Torn
  <2>6. was'[c] = old /\ call'[c].patch = patch
    BY <1>4, <2>1
  <2> QED
    BY <1>5, <1>7, <2>5, <2>6 DEF PatchIsRight, Torn
<1>13. quiet[c] => call'[c] \in Calls /\ CallIsOnItsWay(c)'
  <2>1. quiet[c] => call[c] \in Calls
    BY <1>1 DEF Alone
  <2> QED
    BY <1>4, <1>9, <1>10, <1>11, <1>12, <2>1 DEF CallIsOnItsWay
<1>14. UNCHANGED <<was, quiet>>
  BY <1>2
<1> QED
  BY <1>2, <1>5, <1>6, <1>13, <1>14, OthersDoNotMind

\* A patch that goes on to its next file keeps the types.
LEMMA BeginsKeepsTypes ==
  ASSUME FileTypes, NEW c \in Clients, at[c] = "next", call[c] \in PatchCalls, todo[c] \in Seq(FileSet), todo[c] # <<>>,
         NEW path \in Paths, NEW text \in FileTexts, Begins(c, path, text), NEW there \in {"open", "unlink"},
         Goes(c, there), UNCHANGED <<disk, opened, was, quiet>>
  PROVE  /\ FileTypes' /\ OnlyMoves(c) /\ at'[c] = there /\ todo'[c] = Tail(todo[c])
         /\ call'[c] \in PatchCalls /\ call'[c].path = path /\ call'[c].text = text /\ call'[c].patch = call[c].patch
<1>1. /\ call \in [Clients -> Calls \cup {None}] /\ todo \in [Clients -> Seq(FileSet)] /\ disk \in DiskSet
      /\ was \in [Clients -> DiskSet] /\ quiet \in [Clients -> BOOLEAN] /\ opened \in [Clients -> Paths \cup {None}]
  BY DEF FileTypes
<1>2. OnlyMoves(c) /\ at'[c] = there
  <2>1. there \in FileSteps /\ at[c] # "idle"
    BY DEF FileSteps
  <2> QED
    BY <2>1, GoesIs
<1>3. /\ todo' = [todo EXCEPT ![c] = Tail(todo[c])]
      /\ call' = [call EXCEPT ![c] = [call[c] EXCEPT !.path = path, !.text = text]]
  BY DEF Begins
<1> DEFINE request == [call[c] EXCEPT !.path = path, !.text = text]
<1>4. /\ request \in PatchCalls /\ request.path = path /\ request.text = text /\ request.patch = call[c].patch
  BY DEF PatchCalls
<1> HIDE DEF request
<1>5. /\ call'[c] = request /\ call' \in [Clients -> Calls \cup {None}]
      /\ \A e \in Clients : e # c => call'[e] = call[e]
  <2>1. call' = [call EXCEPT ![c] = request]
    BY <1>3 DEF request
  <2> QED
    BY <1>1, <1>4, <2>1 DEF Calls
<1>6. Tail(todo[c]) \in Seq(FileSet)
  BY HeadTailProperties
<1>7. todo' \in [Clients -> Seq(FileSet)] /\ todo'[c] = Tail(todo[c])
  BY <1>1, <1>3, <1>6
<1>8. CallFits(at'[c], call'[c])
  BY <1>2, <1>4, <1>5 DEF CallFits
<1>9. \A e \in Clients : opened'[e] # None => at'[e] = "fill" /\ IsText(disk'[opened'[e]])
  <2>1. \A e \in Clients : opened[e] # None => at[e] = "fill" /\ IsText(disk[opened[e]])
    BY DEF FileTypes, OpenIsRight
  <2>2. \A e \in Clients : e # c => at'[e] = at[e]
    BY <1>2 DEF OnlyMoves
  <2>3. opened[c] = None
    BY <2>1
  <2> QED
    BY <2>1, <2>2, <2>3
<1>10. FileTypes'
  BY <1>1, <1>2, <1>5, <1>7, <1>8, <1>9, TypesKept
<1> QED
  BY <1>2, <1>4, <1>5, <1>7, <1>10

\* PatchesNext keeps the invariant.
LEMMA PatchesNextKeeps ==
  ASSUME FileInv, NEW c \in Clients, PatchesNext(c)
  PROVE  FileInv'
<1> DEFINE file == Head(todo[c])
           text == IF Source(file) = None THEN None ELSE Applied(Source(file), file.hunks)
<1>1. FileTypes /\ CallFits(at[c], call[c]) /\ CallIsOnItsWay(c)
  BY DEF FileInv, FileTypes, ClientIsRight
<1>2. at[c] = "next" /\ UNCHANGED <<disk, opened, was, quiet, left>>
  BY DEF PatchesNext
<1>3. call[c] \in PatchCalls /\ call[c].op = "patch" /\ call[c].patch \in Patches
  BY <1>1, <1>2, KindOf DEF CallFits
<1>4. todo[c] \in Seq(FileSet) /\ disk \in DiskSet
  BY <1>1 DEF FileTypes
<1>5. quiet[c] /\ AllUncut(call[c].patch) => \E k \in 0..Len(call[c].patch) : AtNext(c, was[c], call[c].patch, k)
  BY <1>1, <1>2, <1>3 DEF CallIsOnItsWay, PatchIsRight
<1>6. todo[c] # <<>> => file \in FileSet
  BY <1>4, HeadTailProperties
<1>7. ASSUME todo[c] # <<>> PROVE text \in FileTexts \cup {None}
  <2>1. file.hunks \in Seq(HunkSet)
    BY <1>6, <1>7 DEF FileSet
  <2>2. Source(file) # None => Source(file) \in FileTexts
    BY <1>4, FileValues DEF Source, IsText, DiskSet
  <2> QED
    BY <2>1, <2>2, AppliedType
<1>8. CASE Nothing(c) /\ Ends(c, "done") /\ todo[c] = <<>>
  <2>1. OnlyMoves(c) /\ at'[c] = "idle" /\ answer'[c] = "done"
    BY <1>1, <1>8, EndsIs
  <2>2. call' = call /\ todo' = todo
    BY <1>8 DEF Nothing
  <2>3. FileTypes'
    <3>1. CallFits(at'[c], call[c])
      BY <2>1, IdleFits
    <3> QED
      BY <1>1, <1>2, <2>1, <2>2, <3>1, TypesKeptInPlace
  <2>4. ASSUME quiet[c], AllUncut(call[c].patch) PROVE PatchIsRight(c)'
    <3>0. \E old, files : old = was[c] /\ files = call[c].patch
      OBVIOUS
    <3>1. PICK old, patch : old = was[c] /\ patch = call[c].patch
      BY <3>0
    <3> DEFINE n == Len(patch)
    <3>2. PICK k \in 0..n : AtNext(c, old, patch, k)
      BY <1>5, <2>4, <3>1
    <3>3. n \in Nat /\ \A j \in 1..n : LeftOf(patch, j - 1) # <<>>
      BY <1>3, <3>1, LeftIs
    <3>4. k = n
      <4>1. LeftOf(patch, k) = <<>>
        BY <1>8, <3>2 DEF AtNext
      <4>2. k # n => k + 1 \in 1..n /\ (k + 1) - 1 = k
        BY <3>3
      <4> QED
        BY <3>3, <4>1, <4>2
    <3>5. AllFound(old, patch, n) /\ Reached(old, patch, n)
      BY <3>2, <3>4 DEF AtNext
    <3>6. answer'[c] \notin {None, "failed"} /\ answer'[c] # "refused"
      BY <2>1, FileValues
    <3>7. was'[c] = old /\ call'[c].patch = patch /\ disk' = disk
      BY <1>2, <2>2, <3>1
    <3> QED
      BY <2>1, <3>5, <3>6, <3>7 DEF PatchIsRight, Reached, Unjudged
  <2>5. quiet[c] => call'[c] \in Calls /\ CallIsOnItsWay(c)'
    BY <1>3, <2>2, <2>4 DEF CallIsOnItsWay, Calls
  <2> QED
    BY <1>2, <2>1, <2>3, <2>5, OthersDoNotMind
\* What an undisturbed call does with its next file.
<1>9. ASSUME quiet[c], AllUncut(call[c].patch), todo[c] # <<>>
      PROVE  \E old, patch : \E k \in 1..Len(patch) :
               /\ old = was[c] /\ patch = call[c].patch /\ k - 1 \in 0..Len(patch) - 1
               /\ file.new = None /\ file.old \in Paths /\ IsText(disk[file.old])
                  /\ call'[c].path = file.old /\ todo'[c] = Tail(todo[c])
                    => AtUnlink(c, old, patch, k)'
               /\ file.new = None /\ ~(file.old \in Paths /\ IsText(disk[file.old])) => Stopped(old, patch, k - 1)'
               /\ file.new # None /\ (file.new \notin Paths \/ disk[file.new] = Link \/ text = None)
                    => Stopped(old, patch, k - 1)'
               /\ file.new # None /\ file.new \in Paths /\ disk[file.new] # Link /\ text # None
                  /\ call'[c].path = file.new /\ call'[c].text = text /\ todo'[c] = Tail(todo[c])
                    => AtOpen(c, old, patch, k)'
  <2>0. \E old, files : old = was[c] /\ files = call[c].patch
    OBVIOUS
  <2>1. PICK old, patch : old = was[c] /\ patch = call[c].patch
    BY <2>0
  <2> DEFINE n == Len(patch)
  <2>2. PICK j \in 0..n : AtNext(c, old, patch, j)
    BY <1>5, <1>9, <2>1
  <2>3. n \in Nat /\ LeftOf(patch, n) = <<>> /\ patch \in Patches
    BY <1>3, <2>1, LeftIs
  <2>4. j # n
    BY <1>9, <2>2, <2>3 DEF AtNext
  <2> DEFINE k == j + 1
  <2>5. k \in 1..n /\ k - 1 = j /\ k - 1 \in 0..n - 1
    BY <2>3, <2>4
  <2> HIDE DEF k, n
  <2>6. AtNext(c, old, patch, k - 1)
    BY <2>2, <2>5
  <2>7. /\ file.new = None /\ file.old \in Paths /\ IsText(disk[file.old])
           /\ call'[c].path = file.old /\ todo'[c] = Tail(todo[c])
             => AtUnlink(c, old, patch, k)'
        /\ file.new = None /\ ~(file.old \in Paths /\ IsText(disk[file.old])) => Stopped(old, patch, k - 1)'
        /\ file.new # None /\ (file.new \notin Paths \/ disk[file.new] = Link \/ text = None)
             => Stopped(old, patch, k - 1)'
        /\ file.new # None /\ file.new \in Paths /\ disk[file.new] # Link /\ text # None
           /\ call'[c].path = file.new /\ call'[c].text = text /\ todo'[c] = Tail(todo[c])
             => AtOpen(c, old, patch, k)'
    <3>1. disk' = disk /\ k \in 1..Len(patch)
      BY <1>2, <2>5 DEF n
    <3> QED
      BY <1>1, <2>3, <2>6, <3>1, NextPatch
  <2> QED
    BY <2>1, <2>5, <2>7 DEF n
<1>10. ASSUME todo[c] # <<>>, Ends(c, "refused"), Nothing(c),
              (file.new = None /\ ~(file.old \in Paths /\ IsText(disk[file.old])))
              \/ (file.new # None /\ (file.new \notin Paths \/ disk[file.new] = Link \/ text = None))
       PROVE  FileInv'
  <2>1. OnlyMoves(c) /\ at'[c] = "idle" /\ answer'[c] = "refused"
    BY <1>1, <1>10, EndsIs
  <2>2. call' = call /\ todo' = todo
    BY <1>10 DEF Nothing
  <2>3. FileTypes'
    <3>1. CallFits(at'[c], call[c])
      BY <2>1, IdleFits
    <3> QED
      BY <1>1, <1>2, <2>1, <2>2, <3>1, TypesKeptInPlace
  <2>4. ASSUME quiet[c], AllUncut(call[c].patch) PROVE PatchIsRight(c)'
    <3>1. PICK old, patch : \E k \in 1..Len(patch) :
                old = was[c] /\ patch = call[c].patch /\ k - 1 \in 0..Len(patch) - 1 /\ Stopped(old, patch, k - 1)'
      BY <1>9, <1>10, <2>4
    <3>2. \E j \in 0..Len(patch) - 1 : Stopped(old, patch, j)'
      BY <3>1
    <3>3. was'[c] = old /\ call'[c].patch = patch
      BY <1>2, <2>2, <3>1
    <3>4. answer'[c] \notin {None, "failed"} /\ answer'[c] # "done"
      BY <2>1, FileValues
    <3> QED
      BY <2>1, <3>2, <3>3, <3>4 DEF PatchIsRight, Stopped, Reached, Unjudged
  <2>5. quiet[c] => call'[c] \in Calls /\ CallIsOnItsWay(c)'
    BY <1>3, <2>2, <2>4 DEF CallIsOnItsWay, Calls
  <2> QED
    BY <1>2, <2>1, <2>3, <2>5, OthersDoNotMind
<1>11. ASSUME todo[c] # <<>>, file.new = None, file.old \in Paths, IsText(disk[file.old]),
              Goes(c, "unlink"), Begins(c, file.old, EmptyText)
       PROVE  FileInv'
  <2>1. /\ FileTypes' /\ OnlyMoves(c) /\ at'[c] = "unlink" /\ todo'[c] = Tail(todo[c])
        /\ call'[c] \in PatchCalls /\ call'[c].path = file.old /\ call'[c].patch = call[c].patch
    <3> HIDE DEF file
    <3>1. EmptyText \in FileTexts
      BY FileValues
    <3> QED
      BY <1>1, <1>2, <1>3, <1>4, <1>11, <3>1, BeginsKeepsTypes
  <2>2. ASSUME quiet[c], AllUncut(call[c].patch) PROVE PatchIsRight(c)'
    <3>1. PICK old, patch : \E k \in 1..Len(patch) :
                old = was[c] /\ patch = call[c].patch /\ AtUnlink(c, old, patch, k)'
      BY <1>9, <1>11, <2>1, <2>2
    <3>2. \E j \in 1..Len(patch) : AtUnlink(c, old, patch, j)'
      BY <3>1
    <3>3. was'[c] = old /\ call'[c].patch = patch
      BY <1>2, <2>1, <3>1
    <3> QED
      BY <2>1, <3>2, <3>3 DEF PatchIsRight, AtUnlink, Reached
  <2>3. call'[c].op = "patch" /\ call'[c] \in Calls
    BY <2>1 DEF PatchCalls, Calls
  <2>4. quiet[c] => call'[c] \in Calls /\ CallIsOnItsWay(c)'
    <3>1. AllUncut(call'[c].patch) => AllUncut(call[c].patch)
      BY <2>1
    <3> QED
      BY <1>2, <2>2, <2>3, <3>1 DEF CallIsOnItsWay
  <2> QED
    BY <1>2, <2>1, <2>4, OthersDoNotMind
<1>12. ASSUME todo[c] # <<>>, file.new # None, file.new \in Paths, disk[file.new] # Link, text # None,
              Goes(c, "open"), Begins(c, file.new, text)
       PROVE  FileInv'
  <2>1. /\ FileTypes' /\ OnlyMoves(c) /\ at'[c] = "open" /\ todo'[c] = Tail(todo[c])
        /\ call'[c] \in PatchCalls /\ call'[c].path = file.new /\ call'[c].text = text /\ call'[c].patch = call[c].patch
    <3>1. text \in FileTexts
      BY <1>7, <1>12
    <3> HIDE DEF file, text
    <3> QED
      BY <1>1, <1>2, <1>3, <1>4, <1>12, <3>1, BeginsKeepsTypes
  <2>2. ASSUME quiet[c], AllUncut(call[c].patch) PROVE PatchIsRight(c)'
    <3>1. PICK old, patch : \E k \in 1..Len(patch) :
                old = was[c] /\ patch = call[c].patch /\ AtOpen(c, old, patch, k)'
      <4> HIDE DEF text
      <4> QED
        BY <1>9, <1>12, <2>1, <2>2
    <3>2. \E j \in 1..Len(patch) : AtOpen(c, old, patch, j)'
      BY <3>1
    <3>3. was'[c] = old /\ call'[c].patch = patch
      BY <1>2, <2>1, <3>1
    <3> QED
      BY <2>1, <3>2, <3>3 DEF PatchIsRight, AtOpen, Reached, NotFound, IsText
  <2>3. call'[c].op = "patch" /\ call'[c] \in Calls
    BY <2>1 DEF PatchCalls, Calls
  <2>4. quiet[c] => call'[c] \in Calls /\ CallIsOnItsWay(c)'
    <3>1. AllUncut(call'[c].patch) => AllUncut(call[c].patch)
      BY <2>1
    <3> QED
      BY <1>2, <2>2, <2>3, <3>1 DEF CallIsOnItsWay
  <2> QED
    BY <1>2, <2>1, <2>4, OthersDoNotMind
<1>13. \/ todo[c] = <<>> /\ Ends(c, "done") /\ Nothing(c)
       \/ /\ todo[c] # <<>>
          /\ \/ /\ file.new = None
                /\ IF file.old \in Paths /\ IsText(disk[file.old])
                   THEN Goes(c, "unlink") /\ Begins(c, file.old, EmptyText)
                   ELSE Ends(c, "refused") /\ Nothing(c)
             \/ /\ file.new # None
                /\ IF file.new \notin Paths \/ disk[file.new] = Link \/ text = None
                   THEN Ends(c, "refused") /\ Nothing(c)
                   ELSE Goes(c, "open") /\ Begins(c, file.new, text)
  BY DEF PatchesNext
<1> HIDE DEF file, text
<1> QED
  BY <1>8, <1>10, <1>11, <1>12, <1>13

\* A call that has just begun keeps the invariant.
LEMMA StartKeeps ==
  ASSUME FileInv, NEW c \in Clients, FileTypes', call'[c] \in Calls,
         \A e \in Clients : quiet'[e] => e = c /\ \A a \in Clients : at[a] = "idle",
         \A e \in Clients : e # c => at'[e] = at[e],
         CallIsOnItsWay(c)'
  PROVE  FileInv'
<1>1. ASSUME NEW e \in Clients PROVE Alone(e)' /\ CallIsOnItsWay(e)'
  <2>1. CASE ~quiet'[e]
    BY <2>1 DEF Alone, CallIsOnItsWay
  <2>2. CASE quiet'[e]
    <3>1. e = c /\ \A a \in Clients : at[a] = "idle"
      BY <2>2
    <3>2. \A a \in Clients \ {c} : at'[a] = "idle"
      BY <3>1
    <3> QED
      BY <3>1, <3>2 DEF Alone
  <2> QED
    BY <2>1, <2>2
<1> QED
  BY <1>1 DEF FileInv

\* A call keeps it that begins with a check.
LEMMA ChecksFirst ==
  ASSUME FileInv, NEW c \in Clients, NEW what, NEW request \in Calls, NEW first \in FileSteps,
         Starts(c, what, request, first), NEW files \in Seq(FileSet), todo' = [todo EXCEPT ![c] = files],
         \/ request \in WriteCalls /\ first = "check"
         \/ request \in DeleteCalls /\ first = "check delete"
         \/ request \in MoveCalls /\ first = "check move"
  PROVE  FileInv'
<1>1. FileTypes
  BY DEF FileInv
<1>2. /\ Starts(c, what, request, first) /\ request \in Calls
      /\ files \in Seq(FileSet) /\ todo' = [todo EXCEPT ![c] = files]
  OBVIOUS
<1>3. CallFits(first, request) /\ first \in FileSteps \ {"fill"}
  BY DEF CallFits
<1>4. /\ FileTypes' /\ at'[c] = first /\ call'[c] = request /\ answer'[c] = None /\ was'[c] = disk /\ disk' = disk
      /\ \A e \in Clients : quiet'[e] => e = c /\ \A a \in Clients : at[a] = "idle"
      /\ \A e \in Clients : e # c => at'[e] = at[e]
  BY <1>1, <1>2, <1>3, StartKeepsTypes
<1>5. CASE request \in WriteCalls /\ first = "check"
  <2>1. request.op = "write"
    BY <1>5 DEF WriteCalls
  <2>2. WriteIsRight(c)'
    BY <1>4, <1>5 DEF WriteIsRight
  <2>3. CallIsOnItsWay(c)'
    BY <1>4, <2>1, <2>2 DEF CallIsOnItsWay
  <2> QED
    BY <1>4, <2>3, StartKeeps
<1>6. CASE request \in DeleteCalls /\ first = "check delete"
  <2>1. request.op = "delete"
    BY <1>6 DEF DeleteCalls
  <2>2. DeleteIsRight(c)'
    BY <1>4, <1>6 DEF DeleteIsRight
  <2>3. CallIsOnItsWay(c)'
    BY <1>4, <2>1, <2>2 DEF CallIsOnItsWay
  <2> QED
    BY <1>4, <2>3, StartKeeps
<1>7. CASE request \in MoveCalls /\ first = "check move"
  <2>1. request.op = "move"
    BY <1>7 DEF MoveCalls
  <2>2. MoveIsRight(c)'
    BY <1>4, <1>7 DEF MoveIsRight
  <2>3. CallIsOnItsWay(c)'
    BY <1>4, <2>1, <2>2 DEF CallIsOnItsWay
  <2> QED
    BY <1>4, <2>3, StartKeeps
<1> QED
  BY <1>5, <1>6, <1>7

\* Writes, Deletes and Moves keep it.
LEMMA StartsKeep ==
  ASSUME FileInv, NEW c \in Clients, Writes(c) \/ Deletes(c) \/ Moves(c)
  PROVE  FileInv'
<1>1. \E request \in Calls, first \in FileSteps :
        /\ Starts(c, "calls", request, first) /\ UNCHANGED todo
        /\ \/ request \in WriteCalls /\ first = "check"
           \/ request \in DeleteCalls /\ first = "check delete"
           \/ request \in MoveCalls /\ first = "check move"
  <2>0. "check" \in FileSteps /\ "check delete" \in FileSteps /\ "check move" \in FileSteps
    BY DEF FileSteps
  <2>1. CASE Writes(c)
    <3>1. PICK p \in Flat, overwrite \in BOOLEAN :
            /\ Starts(c, "calls", [op |-> "write", path |-> p, overwrite |-> overwrite, text |-> NewText], "check")
            /\ UNCHANGED todo
      BY <2>1 DEF Writes
    <3> DEFINE request == [op |-> "write", path |-> p, overwrite |-> overwrite, text |-> NewText]
    <3>2. request \in WriteCalls /\ request \in Calls
      BY DEF WriteCalls, Calls, Flat
    <3> QED
      BY <2>0, <3>1, <3>2
  <2>2. CASE Deletes(c)
    <3>1. PICK p \in Paths, recursive \in BOOLEAN, missingOk \in BOOLEAN :
            /\ Starts(c, "calls", [op |-> "delete", path |-> p, recursive |-> recursive, missingOk |-> missingOk],
                      "check delete")
            /\ UNCHANGED todo
      BY <2>2 DEF Deletes
    <3> DEFINE request == [op |-> "delete", path |-> p, recursive |-> recursive, missingOk |-> missingOk]
    <3>2. request \in DeleteCalls /\ request \in Calls
      BY DEF DeleteCalls, Calls
    <3> QED
      BY <2>0, <3>1, <3>2
  <2>3. CASE Moves(c)
    <3>1. PICK p \in Paths, q \in Paths, overwrite \in BOOLEAN :
            /\ Related(p, q) \/ {p, q} \subseteq Flat
            /\ Starts(c, "calls", [op |-> "move", path |-> p, to |-> q, overwrite |-> overwrite], "check move")
            /\ UNCHANGED todo
      BY <2>3 DEF Moves
    <3> DEFINE request == [op |-> "move", path |-> p, to |-> q, overwrite |-> overwrite]
    <3>2. request \in MoveCalls /\ request \in Calls
      <4>1. request \in [op : {"move"}, path : Paths, to : Paths, overwrite : BOOLEAN]
        OBVIOUS
      <4>2. request.path = p /\ request.to = q
        OBVIOUS
      <4> HIDE DEF request
      <4> QED
        BY <3>1, <4>1, <4>2 DEF MoveCalls, Calls
    <3> QED
      BY <2>0, <3>1, <3>2
  <2> QED
    BY <2>1, <2>2, <2>3
<1>2. PICK files \in Seq(FileSet) : todo = [todo EXCEPT ![c] = files]
  <2>1. todo \in [Clients -> Seq(FileSet)]
    BY DEF FileInv, FileTypes
  <2>2. todo = [todo EXCEPT ![c] = todo[c]] /\ todo[c] \in Seq(FileSet)
    BY <2>1
  <2> QED
    BY <2>2
<1>3. todo' = [todo EXCEPT ![c] = files]
  BY <1>1, <1>2
<1> QED
  BY <1>1, <1>3, ChecksFirst

\* Patching keeps it: what is parsed are the files of the patch, or nothing.
LEMMA PatchingKeeps ==
  ASSUME FileInv, NEW c \in Clients, Patching(c)
  PROVE  FileInv'
<1>1. FileTypes
  BY DEF FileInv
<1>2. PICK patch \in Patches :
        /\ Starts(c, "patches", [op |-> "patch", patch |-> patch, path |-> None, text |-> EmptyText],
                  IF Parsed(DiffOf(patch)) = None THEN "raise" ELSE "next")
        /\ todo' = [todo EXCEPT ![c] = IF Parsed(DiffOf(patch)) = None THEN <<>> ELSE Parsed(DiffOf(patch))]
  BY DEF Patching
<1> DEFINE parsed == Parsed(DiffOf(patch))
           request == [op |-> "patch", patch |-> patch, path |-> None, text |-> EmptyText]
           first == IF parsed = None THEN "raise" ELSE "next"
           files == IF parsed = None THEN <<>> ELSE parsed
<1>3. Starts(c, "patches", request, first) /\ todo' = [todo EXCEPT ![c] = files]
  BY <1>2
<1>4. request \in PatchCalls /\ request \in Calls /\ request.op = "patch" /\ request.patch = patch
  BY FileValues DEF PatchCalls, Calls
<1>5. /\ AllUncut(patch) => parsed = FilesOf(patch) \/ parsed = None
      /\ parsed # None => parsed \in Seq(FileSet)
  BY PatchesShow, PatchIsParsed, UncutPatchIsWhole, ParsedType
<1>6. /\ Len(patch) \in Nat /\ FilesOf(patch) \in Seq(FileSet) /\ LeftOf(patch, 0) = FilesOf(patch)
      /\ \A d : Upto(d, patch, 0) = d
  BY LeftIs, UptoMore
<1>7. files \in Seq(FileSet) /\ (AllUncut(patch) /\ parsed # None => files = LeftOf(patch, 0))
  <2> HIDE DEF parsed
  <2> QED
    BY <1>5, <1>6
<1>8. /\ first \in FileSteps \ {"fill"} /\ CallFits(first, request)
      /\ first \in {"raise", "next"} /\ (first = "raise" => parsed = None) /\ (first = "next" => parsed # None)
  <2> HIDE DEF parsed, request
  <2> QED
    BY <1>4 DEF CallFits, FileSteps
<1> HIDE DEF request, first, files
<1>9. /\ FileTypes' /\ at'[c] = first /\ call'[c] = request /\ answer'[c] = None /\ was'[c] = disk /\ disk' = disk
      /\ \A e \in Clients : quiet'[e] => e = c /\ \A a \in Clients : at[a] = "idle"
      /\ \A e \in Clients : e # c => at'[e] = at[e]
  BY <1>1, <1>3, <1>4, <1>7, <1>8, StartKeepsTypes
<1>10. AllUncut(patch) /\ parsed # None => \E j \in 0..Len(patch) : AtNext(c, disk, patch, j)'
  <2>1. todo'[c] = files
    BY <1>1, <1>3 DEF FileTypes
  <2>0. \E old : old = disk
    OBVIOUS
  <2>2. PICK old : old = disk
    BY <2>0
  <2>3. AllFound(old, patch, 0)
    BY DEF AllFound
  <2>4. Upto(old, patch, 0) = disk'
    BY <1>6, <1>9, <2>2
  <2>5. AllUncut(patch) /\ parsed # None => AtNext(c, old, patch, 0)'
    BY <1>7, <2>1, <2>3, <2>4 DEF AtNext, Reached
  <2>6. 0 \in 0..Len(patch)
    BY <1>6
  <2>7. disk' = old
    BY <1>9, <2>2
  <2> QED
    BY <2>5, <2>6, <2>7
<1>11. ASSUME AllUncut(patch) PROVE PatchIsRight(c)'
  <2>1. was'[c] = disk' /\ call'[c].patch = patch
    BY <1>4, <1>9
  <2>2. at'[c] = "raise" => parsed = None /\ disk' = was'[c]
    BY <1>8, <1>9
  <2>3. at'[c] = "next" => \E j \in 0..Len(patch) : AtNext(c, disk, patch, j)'
    BY <1>8, <1>9, <1>10, <1>11
  <2> QED
    BY <1>8, <1>9, <2>1, <2>2, <2>3 DEF PatchIsRight, parsed
<1>12. CallIsOnItsWay(c)'
  BY <1>4, <1>9, <1>11 DEF CallIsOnItsWay
<1> QED
  BY <1>4, <1>9, <1>12, StartKeeps

\* It holds at first.
LEMMA FileInvAtFirst ==
  ASSUME FileInit
  PROVE  FileInv
<1>1. disk \in DiskSet
  BY DisksHoldFiles DEF FileInit, DiskSet
<1>2. /\ at = [c \in Clients |-> "idle"] /\ call = [c \in Clients |-> None] /\ todo = [c \in Clients |-> <<>>]
      /\ opened = [c \in Clients |-> None] /\ answer = [c \in Clients |-> None]
      /\ was = [c \in Clients |-> disk] /\ quiet = [c \in Clients |-> FALSE]
  BY DEF FileInit
<1>3. <<>> \in Seq(FileSet)
  OBVIOUS
<1>4. "idle" \in FileSteps /\ None \in FileAnswers
  BY DEF FileSteps, FileAnswers
<1>5. \A c \in Clients : ClientIsRight(c) /\ OpenIsRight(c)
  BY <1>2, IdleFits DEF ClientIsRight, OpenIsRight
<1>6. FileTypes
  BY <1>1, <1>2, <1>3, <1>4, <1>5 DEF FileTypes
<1>7. \A c \in Clients : Alone(c) /\ CallIsOnItsWay(c)
  BY <1>2 DEF Alone, CallIsOnItsWay
<1> QED
  BY <1>6, <1>7 DEF FileInv

\* Every step keeps it.
LEMMA FileInvIsKept ==
  FileInv /\ [FileNext]_fileVars => FileInv'
<1> SUFFICES ASSUME FileInv, [FileNext]_fileVars
             PROVE  FileInv'
  OBVIOUS
<1>1. CASE UNCHANGED fileVars
  <2>1. /\ disk' = disk /\ at' = at /\ call' = call /\ todo' = todo /\ opened' = opened /\ answer' = answer
        /\ was' = was /\ quiet' = quiet
    BY <1>1 DEF fileVars
  <2>2. FileTypes'
    BY <2>1 DEF FileInv, FileTypes, ClientIsRight, OpenIsRight
  <2>3. ASSUME NEW c \in Clients PROVE Alone(c)' /\ CallIsOnItsWay(c)'
    <3>1. Alone(c) /\ CallIsOnItsWay(c)
      BY DEF FileInv
    <3>2. Alone(c)'
      BY <2>1, <3>1 DEF Alone
    <3>3. /\ WriteIsRight(c)' <=> WriteIsRight(c)
          /\ DeleteIsRight(c)' <=> DeleteIsRight(c)
          /\ MoveIsRight(c)' <=> MoveIsRight(c)
      BY <2>1 DEF WriteIsRight, DeleteIsRight, MoveIsRight, Cleared, Unjudged
    <3>4. PatchIsRight(c) => PatchIsRight(c)'
      <4>0. \E old, files : old = was[c] /\ files = call[c].patch
        OBVIOUS
      <4>1. PICK old, patch : old = was[c] /\ patch = call[c].patch
        BY <4>0
      <4>2. was'[c] = old /\ call'[c].patch = patch
        BY <2>1, <4>1
      <4>3. ASSUME NEW k
            PROVE  /\ AtNext(c, old, patch, k)' <=> AtNext(c, old, patch, k)
                   /\ AtOpen(c, old, patch, k)' <=> AtOpen(c, old, patch, k)
                   /\ AtFill(c, old, patch, k)' <=> AtFill(c, old, patch, k)
                   /\ AtUnlink(c, old, patch, k)' <=> AtUnlink(c, old, patch, k)
                   /\ Stopped(old, patch, k)' <=> Stopped(old, patch, k)
                   /\ Torn(c, old, patch, k)' <=> Torn(c, old, patch, k)
                   /\ Reached(old, patch, k)' <=> Reached(old, patch, k)
        <5>1. AtNext(c, old, patch, k)' <=> AtNext(c, old, patch, k)
          BY <2>1 DEF AtNext, Reached
        <5>2. AtOpen(c, old, patch, k)' <=> AtOpen(c, old, patch, k)
          BY <2>1 DEF AtOpen, Reached, NotFound, IsText
        <5>3. AtFill(c, old, patch, k)' <=> AtFill(c, old, patch, k)
          BY <2>1 DEF AtFill
        <5>4. AtUnlink(c, old, patch, k)' <=> AtUnlink(c, old, patch, k)
          BY <2>1 DEF AtUnlink, Reached
        <5>5. Stopped(old, patch, k)' <=> Stopped(old, patch, k)
          BY <2>1 DEF Stopped, Reached
        <5>6. Torn(c, old, patch, k)' <=> Torn(c, old, patch, k)
          BY <2>1 DEF Torn
        <5>7. Reached(old, patch, k)' <=> Reached(old, patch, k)
          BY <2>1 DEF Reached
        <5> QED
          BY <5>1, <5>2, <5>3, <5>4, <5>5, <5>6, <5>7
      <4> QED
        BY <2>1, <4>1, <4>2, <4>3 DEF PatchIsRight, Unjudged
    <3>5. CallIsOnItsWay(c)'
      BY <2>1, <3>1, <3>3, <3>4 DEF CallIsOnItsWay
    <3> QED
      BY <3>2, <3>5
  <2> QED
    BY <2>2, <2>3 DEF FileInv
<1>2. ASSUME NEW c \in Clients, FileStep(c) PROVE FileInv'
  <2>1. CASE Writes(c) \/ Deletes(c) \/ Moves(c)
    BY <2>1, StartsKeep
  <2>2. CASE ChecksWrite(c)
    BY <2>2, ChecksWriteKeeps
  <2>3. CASE Opens(c)
    BY <2>3, OpensKeeps
  <2>4. CASE Fills(c)
    BY <2>4, FillsKeeps
  <2>5. CASE Patching(c)
    BY <2>5, PatchingKeeps
  <2>6. CASE Raises(c)
    BY <2>6, RaisesKeeps
  <2>7. CASE PatchesNext(c)
    BY <2>7, PatchesNextKeeps
  <2>8. CASE ChecksDelete(c)
    BY <2>8, ChecksDeleteKeeps
  <2>9. CASE Unlinks(c)
    BY <2>9, UnlinksKeeps
  <2>10. CASE ChecksMove(c)
    BY <2>10, ChecksMoveKeeps
  <2>11. CASE Clears(c)
    BY <2>11, ClearsKeeps
  <2>12. CASE Renames(c)
    BY <2>12, RenamesKeeps
  <2>13. CASE Dies(c) \/ Fails(c)
    BY <2>13, StopsKeeps DEF Dies, Fails
  <2> QED
    BY <1>2, <2>1, <2>2, <2>3, <2>4, <2>5, <2>6, <2>7, <2>8, <2>9, <2>10, <2>11, <2>12, <2>13 DEF FileStep
<1> QED
  BY <1>1, <1>2 DEF FileNext

\* FileInv implies FileTypeOK.
LEMMA FileInvGivesTypes ==
  ASSUME FileInv
  PROVE  FileTypeOK
<1>1. FileTypes
  BY DEF FileInv
<1>2. \A p \in Paths :
        IsText(disk[p]) => disk[p].lines \in Seq(Contents) /\ {disk[p].newline, disk[p].crlf} \subseteq BOOLEAN
  <2>1. ASSUME NEW p \in Paths, IsText(disk[p])
        PROVE  disk[p].lines \in Seq(Contents) /\ {disk[p].newline, disk[p].crlf} \subseteq BOOLEAN
    <3>1. disk[p] \in FileTexts
      BY <1>1, <2>1 DEF FileTypes, DiskSet, IsText
    <3> QED
      BY <3>1 DEF FileTexts
  <2> QED
    BY <2>1
<1>3. answer \in [Clients -> {None, "done", "refused", "failed"}]
  BY <1>1 DEF FileTypes, FileAnswers
<1>4. \A c \in Clients :
        /\ opened[c] # None => at[c] = "fill" /\ IsText(disk[opened[c]])
        /\ answer[c] # None => at[c] = "idle"
  BY <1>1 DEF FileTypes, ClientIsRight, OpenIsRight
<1> QED
  BY <1>2, <1>3, <1>4 DEF FileTypeOK

\* ... and CallsDoWhatTheySay and CrashTearsOneFile.
LEMMA FileInvGivesCalls ==
  ASSUME FileInv
  PROVE  CallsAreExact
<1>1. ASSUME NEW c \in Clients, at[c] = "idle", quiet[c]
      PROVE  call[c] \in Calls /\ CallIsOnItsWay(c)
  BY <1>1 DEF FileInv, Alone
<1>2. ASSUME NEW c \in Clients, Settled(c, "write"), answer[c] = "done"
      PROVE  /\ disk = [was[c] EXCEPT ![call[c].path] = NewText]
             /\ call[c].overwrite \/ was[c][call[c].path] = None
  <2>1. at[c] = "idle" /\ quiet[c] /\ call[c].op = "write"
    BY <1>2 DEF Settled
  <2>2. WriteIsRight(c)
    BY <1>1, <2>1 DEF CallIsOnItsWay
  <2> QED
    BY <1>2, <2>1, <2>2 DEF WriteIsRight
<1>3. ASSUME NEW c \in Clients, Settled(c, "delete"), answer[c] = "done"
      PROVE  disk = IF was[c][call[c].path] = None THEN was[c] ELSE Without(was[c], Tree(call[c].path))
  <2>1. at[c] = "idle" /\ quiet[c] /\ call[c].op = "delete"
    BY <1>3 DEF Settled
  <2>2. DeleteIsRight(c)
    BY <1>1, <2>1 DEF CallIsOnItsWay
  <2> QED
    BY <1>3, <2>1, <2>2 DEF DeleteIsRight
<1>4. ASSUME NEW c \in Clients, Settled(c, "move"), answer[c] = "done"
      PROVE  disk = [was[c] EXCEPT ![call[c].path] = None, ![call[c].to] = was[c][call[c].path]]
  <2>1. at[c] = "idle" /\ quiet[c] /\ call[c].op = "move"
    BY <1>4 DEF Settled
  <2>2. MoveIsRight(c)
    BY <1>1, <2>1 DEF CallIsOnItsWay
  <2> QED
    BY <1>4, <2>1, <2>2 DEF MoveIsRight
<1>5. ASSUME NEW c \in Clients, at[c] = "idle", quiet[c], answer[c] = "refused", call[c].op # "patch"
      PROVE  \/ disk = was[c]
             \/ /\ call[c].op = "move" /\ call[c].overwrite /\ Related(call[c].path, call[c].to)
                /\ disk = Without(was[c], Tree(call[c].to))
  <2>1. call[c] \in Calls /\ CallIsOnItsWay(c)
    BY <1>1, <1>5
  <2>2. \/ call[c].op = "write" /\ WriteIsRight(c)
        \/ call[c].op = "delete" /\ DeleteIsRight(c)
        \/ call[c].op = "move" /\ MoveIsRight(c)
    <3>1. call[c].op \in {"write", "patch", "delete", "move"}
      BY <2>1 DEF Calls, WriteCalls, PatchCalls, DeleteCalls, MoveCalls
    <3> QED
      BY <1>5, <2>1, <3>1 DEF CallIsOnItsWay
  <2> QED
    BY <1>5, <2>2 DEF WriteIsRight, DeleteIsRight, MoveIsRight, Cleared
<1>6. CallsDoWhatTheySay
  BY <1>2, <1>3, <1>4, <1>5 DEF CallsDoWhatTheySay
<1>7. ASSUME NEW c \in Clients, at[c] = "idle", quiet[c], Unjudged(c), call[c].op = "patch",
             FitsUpto(was[c], call[c].patch, Len(call[c].patch))
      PROVE  \E k \in 0..Len(call[c].patch) :
               LET d == Upto(was[c], call[c].patch, k) IN
               \/ disk = d
               \/ \E p \in Paths : disk = [d EXCEPT ![p] = EmptyText] /\ call[c].path = p
  <2>1. PatchIsRight(c)
    <3>1. call[c] \in Calls /\ CallIsOnItsWay(c)
      BY <1>1, <1>7
    <3>2. call[c].patch \in Patches
      BY <1>7, <3>1, KindOf DEF Calls
    <3>3. AllUncut(call[c].patch)
      BY <1>7, <3>2, FittingIsUncut
    <3> QED
      BY <1>7, <3>1, <3>3 DEF CallIsOnItsWay
  <2>2. PICK k \in 0..Len(call[c].patch) : Torn(c, was[c], call[c].patch, k)
    BY <1>7, <2>1 DEF PatchIsRight
  <2> DEFINE d == Upto(was[c], call[c].patch, k)
  <2>3. disk = d \/ \E p \in Paths : disk = [d EXCEPT ![p] = EmptyText] /\ call[c].path = p
    BY <2>2 DEF Torn
  <2> QED
    BY <2>3
<1>8. ASSUME NEW c \in Clients, at[c] = "idle", quiet[c], Unjudged(c)
      PROVE  /\ call[c].op = "write" => disk \in {was[c], [was[c] EXCEPT ![call[c].path] = EmptyText]}
             /\ call[c].op = "delete" => disk \in {was[c], Without(was[c], Below(call[c].path))}
             /\ call[c].op = "move" =>
                  disk \in {was[c], Without(was[c], Below(call[c].to)), Without(was[c], Tree(call[c].to))}
  <2>1. CallIsOnItsWay(c)
    BY <1>1, <1>8
  <2> QED
    BY <1>8, <2>1 DEF CallIsOnItsWay, WriteIsRight, DeleteIsRight, MoveIsRight
<1>9. CrashTearsOneFile
  BY <1>7, <1>8 DEF CrashTearsOneFile, Unjudged
<1> QED
  BY <1>6, <1>9 DEF CallsAreExact

\* A patch that was stopped did not fit, and every file before that one did not
\* stop it.
LEMMA StoppedIs ==
  ASSUME NEW d, NEW patch \in Patches, NEW j \in 0..Len(patch) - 1, Stopped(d, patch, j)
  PROVE  /\ ~FitsUpto(d, patch, Len(patch))
         /\ \A k \in 0..Len(patch) - 1 :
              FitsUpto(d, patch, k) /\ NotFound(Upto(d, patch, k), patch[k + 1]) => disk = Upto(d, patch, k)
<1> DEFINE n == Len(patch)
<1>1. n \in Nat
  BY LeftIs
<1>2. \A i \in 0..n - 1 : i \in 0..n /\ i + 1 \in 1..n /\ i + 1 \in 0..n /\ (i + 1) - 1 = i
  BY <1>1
<1>3. \A i, k \in 0..n : i <= k /\ FitsUpto(d, patch, k) => FitsUpto(d, patch, i)
  BY UptoMore
<1>4. ~FitsUpto(d, patch, j + 1)
  <2>1. FitsUpto(d, patch, j + 1) =>
          FitsUpto(d, patch, (j + 1) - 1) /\ Fits(Upto(d, patch, (j + 1) - 1), patch[j + 1])
    BY <1>2, UptoMore
  <2>2. FitsUpto(d, patch, j + 1) => FitsUpto(d, patch, j) /\ Fits(Upto(d, patch, j), patch[j + 1])
    BY <1>2, <2>1
  <2> QED
    BY <2>2 DEF Stopped
<1>5. ~FitsUpto(d, patch, n)
  <2>1. n \in 0..n /\ j + 1 <= n
    BY <1>1, <1>2
  <2> QED
    BY <1>2, <1>3, <1>4, <2>1
<1>6. ASSUME NEW k \in 0..n - 1, FitsUpto(d, patch, k), NotFound(Upto(d, patch, k), patch[k + 1])
      PROVE  disk = Upto(d, patch, k)
  <2>1. CASE k < j
    <3>1. k \in 0..j - 1
      BY <2>1
    <3> QED
      BY <1>6, <3>1 DEF Stopped, AllFound
  <2>2. CASE k = j
    BY <1>6, <2>2 DEF Stopped, Reached
  <2>3. CASE k > j
    <3>1. j + 1 <= k
      BY <2>3
    <3> QED
      BY <1>2, <1>3, <1>4, <1>6, <3>1
  <2> QED
    BY <2>1, <2>2, <2>3
<1> QED
  BY <1>5, <1>6

\* ... and PatchesAreExact.
LEMMA FileInvGivesPatches ==
  ASSUME FileInv
  PROVE  PatchesAreExact
<1> SUFFICES ASSUME NEW c \in Clients, Settled(c, "patch"), Judged(c)
             PROVE  /\ FitsUpto(was[c], call[c].patch, Len(call[c].patch))
                         => answer[c] = "done" /\ disk = Upto(was[c], call[c].patch, Len(call[c].patch))
                    /\ Parsed(DiffOf(call[c].patch)) # None /\ AllUncut(call[c].patch) =>
                         \A k \in 0..Len(call[c].patch) - 1 :
                           LET d == Upto(was[c], call[c].patch, k)
                               file == call[c].patch[k + 1]
                           IN  (FitsUpto(was[c], call[c].patch, k) /\ NotFound(d, file))
                               => answer[c] = "refused" /\ disk = d
  BY DEF PatchesAreExact, PatchesGiveTheNewFiles, MisfitStopsThePatch, AllUncut
<1>0. \E old, files : old = was[c] /\ files = call[c].patch
  OBVIOUS
<1>1. PICK old, patch : old = was[c] /\ patch = call[c].patch
  BY <1>0
<1> DEFINE n == Len(patch)
<1>2. at[c] = "idle" /\ quiet[c] /\ call[c].op = "patch"
  BY DEF Settled
<1>3. patch \in Patches /\ (AllUncut(patch) => PatchIsRight(c))
  <2>1. call[c] \in Calls /\ (AllUncut(patch) => PatchIsRight(c))
    BY <1>1, <1>2 DEF FileInv, Alone, CallIsOnItsWay
  <2>2. call[c] \in PatchCalls
    BY <1>2, <2>1 DEF Calls, WriteCalls, DeleteCalls, MoveCalls
  <2> QED
    BY <1>1, <2>1, <2>2, KindOf
<1>4. answer[c] = "done" \/ answer[c] = "refused"
  BY DEF Judged
<1>5. AllUncut(patch) =>
        /\ answer[c] = "done" => AllFound(old, patch, n) /\ Reached(old, patch, n)
        /\ answer[c] = "refused" => Parsed(DiffOf(patch)) = None \/ \E k \in 0..n - 1 : Stopped(old, patch, k)
  BY <1>1, <1>2, <1>3 DEF PatchIsRight
<1>6. ASSUME FitsUpto(old, patch, n)
      PROVE  answer[c] = "done" /\ disk = Upto(old, patch, n)
  <2>1. Parsed(DiffOf(patch)) # None /\ AllUncut(patch)
    BY <1>3, <1>6, UnparsedDoesNotFit, FittingIsUncut
  <2>2. \A k \in 0..n - 1 : ~Stopped(old, patch, k)
    BY <1>3, <1>6, StoppedIs
  <2>3. answer[c] = "done"
    BY <1>4, <1>5, <2>1, <2>2
  <2> QED
    BY <1>5, <1>6, <2>1, <2>3 DEF Reached
<1>7. ASSUME Parsed(DiffOf(patch)) # None, AllUncut(patch), NEW k \in 0..n - 1,
             FitsUpto(old, patch, k), NotFound(Upto(old, patch, k), patch[k + 1])
      PROVE  answer[c] = "refused" /\ disk = Upto(old, patch, k)
  <2>1. answer[c] # "done"
    BY <1>5, <1>7 DEF AllFound
  <2>2. PICK j \in 0..n - 1 : Stopped(old, patch, j)
    BY <1>4, <1>5, <1>7, <2>1
  <2> QED
    BY <1>3, <1>4, <1>7, <2>1, <2>2, StoppedIs
<1> QED
  BY <1>1, <1>6, <1>7

\* The invariant holds of every state.
LEMMA FileInvHolds == FileSpec => []FileInv
<1>1. FileInit => FileInv
  BY FileInvAtFirst
<1>2. FileInv /\ [FileNext]_fileVars => FileInv'
  BY FileInvIsKept
<1> QED
  BY <1>1, <1>2, PTL DEF FileSpec

\* FileService!FileTypeOK: what is on the disk are texts, folders and links, only
\* a client that writes has a file open, and that is a text (service.py:122-275).
THEOREM FilesKeepTypes == FileSpec => []FileTypeOK
<1>1. FileInv => FileTypeOK
  BY FileInvGivesTypes
<1> QED
  BY <1>1, FileInvHolds, PTL

\* FileService!CallsAreExact: a call that nobody disturbed left what it answers,
\* and one that died or failed at most one file short of it, or a folder half
\* removed; a refused move may have removed its destination when that is in the
\* source or around it (service.py:122-275).
THEOREM CallsAreExactAlways == FileSpec => []CallsAreExact
<1>1. FileInv => CallsAreExact
  BY FileInvGivesCalls
<1> QED
  BY <1>1, FileInvHolds, PTL

\* FileService!PatchesAreExact: the parser reads what diff writes, and the hunks of
\* a script make of the old lines the new ones, for every script without lines that
\* splitlines() cuts and whatever it shows around its changes, as long as each hunk
\* shows an old line or is at the head; a patch that does not fit is refused at its
\* first file that is not found (patching.py:30-159, service.py:157-199).
THEOREM PatchesAreExactAlways == FileSpec => []PatchesAreExact
<1>1. FileInv => PatchesAreExact
  BY FileInvGivesPatches
<1> QED
  BY <1>1, FileInvHolds, PTL
====
