-------------------------- MODULE MemoryIndexProofs --------------------------
(***************************************************************************)
(* What the memory index keeps, for any number of processes, documents,    *)
(* sessions, calls and edits: its tables agree with each other, a call     *)
(* that nobody disturbs is about the files as they are, and a session      *)
(* keeps its row.                                                          *)
(***************************************************************************)
EXTENDS MemoryIndex, FiniteSetTheorems, TLAPS

------------------------------------------------------------------------------
\* Numbers

Below == {ss \in Nat \X Nat : ss[1] < ss[2]}

\* A set of numbers has a least one.
LEMMA LeastNumber ==
  ASSUME NEW S, S \subseteq Nat, S # {}
  PROVE  Min(S) \in S /\ \A y \in S : Min(S) <= y
<1>1. IsWellFoundedOn(Below, Nat)
  BY NatLessThanWellFounded DEF OpToRel, Below
<1>2. PICK x \in S : \A y \in S : ~ (<<y, x>> \in Below)
  BY <1>1, WFMin
<1>3. ASSUME NEW y \in S PROVE x <= y
  <2>1. x \in Nat /\ y \in Nat /\ <<y, x>> \notin Below
    BY <1>2
  <2>2. y < x => <<y, x>> \in Below
    BY <2>1 DEF Below
  <2> QED
    BY <2>1, <2>2
<1> QED
  BY <1>3 DEF Min

\* A set of numbers below another number has a greatest one.
LEMMA GreatestNumber ==
  ASSUME NEW S, S \subseteq Nat, S # {}, NEW n \in Nat, \A x \in S : x <= n
  PROVE  Max(S) \in S /\ \A y \in S : y <= Max(S)
<1> DEFINE U == {u \in Nat : \A x \in S : x <= u}
<1>1. PICK m \in U : \A u \in U : m <= u
  <2>1. n \in U
    OBVIOUS
  <2>2. U \subseteq Nat /\ U # {}
    BY <2>1
  <2> HIDE DEF U
  <2> QED
    BY <2>2, LeastNumber
<1>2. m \in S
  <2> SUFFICES ASSUME m \notin S PROVE FALSE
    OBVIOUS
  <2>1. \A x \in S : x <= m - 1
    OBVIOUS
  <2>2. m - 1 \in Nat
    <3>1. PICK x \in S : TRUE
      OBVIOUS
    <3>2. x \in Nat /\ m \in Nat /\ x <= m - 1
      BY <2>1, <3>1
    <3> QED
      BY <3>2
  <2>3. m - 1 \in U
    BY <2>1, <2>2
  <2> QED
    BY <1>1, <2>3
<1>3. \E x \in S : \A y \in S : x >= y
  BY <1>1, <1>2
<1> QED
  BY <1>3 DEF Max

Bounded(table) == \E n \in Nat : \A r \in table : r.id \in Nat /\ r.id <= n

\* The id of a new row is free.
LEMMA NewIdIsFree ==
  ASSUME NEW table, Bounded(table)
  PROVE  NewId(table) \in Nat /\ \A r \in table : r.id < NewId(table)
<1>1. PICK n \in Nat : \A r \in table : r.id \in Nat /\ r.id <= n
  BY DEF Bounded
<1> DEFINE S == {r.id : r \in table} \cup {0}
<1>2. S \subseteq Nat /\ S # {} /\ \A x \in S : x <= n
  BY <1>1
<1>3. \A r \in table : r.id \in S
  OBVIOUS
<1>4. NewId(table) = Max(S) + 1
  BY DEF NewId
<1> HIDE DEF S
<1>5. Max(S) \in S /\ \A y \in S : y <= Max(S)
  BY <1>2, GreatestNumber
<1>6. Max(S) \in Nat
  BY <1>2, <1>5
<1>7. ASSUME NEW r \in table PROVE r.id < Max(S) + 1
  <2>1. r.id \in Nat /\ r.id <= Max(S)
    BY <1>1, <1>3, <1>5
  <2> QED
    BY <1>6, <2>1
<1> QED
  BY <1>4, <1>6, <1>7

\* A table with fewer rows, or with one more, is bounded too.
LEMMA BoundsStay ==
  ASSUME NEW table, Bounded(table)
  PROVE  /\ \A part \in SUBSET table : Bounded(part)
         /\ \A row : row.id \in Nat => Bounded(table \cup {row})
<1>1. PICK n \in Nat : \A r \in table : r.id \in Nat /\ r.id <= n
  BY DEF Bounded
<1>2. \A part \in SUBSET table : Bounded(part)
  BY <1>1 DEF Bounded
<1>3. ASSUME NEW row, row.id \in Nat PROVE Bounded(table \cup {row})
  <2>1. CASE row.id <= n
    BY <1>1, <1>3, <2>1 DEF Bounded
  <2>2. CASE n <= row.id
    <3>1. \A r \in table : r.id \in Nat /\ r.id <= row.id
      BY <1>1, <1>3, <2>2
    <3> QED
      BY <1>3, <3>1 DEF Bounded
  <2> QED
    BY <1>3, <2>1, <2>2
<1> QED
  BY <1>2, <1>3

------------------------------------------------------------------------------
\* Types

Initializing == {"initialize", "drop", "create"}
Requests == [ref : Refs, text : Texts, decides : BOOLEAN]

\* Where a call can be, and what it has in hand there.
Place(p) ==
  /\ pc[p] \in Initializing => after[p] \in {"lookup", "status", "upsert"}
  /\ pc[p] = "idle" => after[p] = None
  /\ pc[p] \in {"collect", "lookup", "replace", "delete"} => after[p] = "lookup"
  /\ after[p] = "lookup" /\ pc[p] \notin {"collect", "delete"} => todo[p] # {} /\ todo[p] \subseteq Present(collected[p])
  /\ pc[p] = "delete" => todo[p] = {}
  /\ pc[p] = "upsert" => after[p] = "upsert"
  /\ after[p] = "upsert" => request[p] \in Requests
  /\ pc[p] = "status" => after[p] = "status"
  /\ pc[p] \in {"counts", "rows", "compare"} => after[p] \in {None, "status"}

\* The ids are bounded, so that a new one can be found.
Tabled == Bounded(docs) /\ Bounded(chunks) /\ Bounded(summaries) /\ IsFiniteSet(docs)

Types ==
  /\ TypeOK /\ Tabled
  /\ found = [p \in Procs |-> found[p]] /\ counted = [p \in Procs |-> counted[p]]
  /\ rows = [p \in Procs |-> rows[p]] /\ request = [p \in Procs |-> request[p]]
  /\ \A p \in Procs : Place(p)

\* The two halves of TypeOK.
Documents(ds) == \A d \in ds : d.id \in Nat /\ d.path \in Paths /\ d.text \in Texts
Chunks(cs, ds) == \A c \in cs : c.id \in Nat /\ \E d \in ds : c.doc = d.id
DataOK ==
  /\ disk \in [Paths -> Texts \cup {None}] /\ edits \in 0..MaxEdits /\ calls \in 0..MaxCalls
  /\ file \in BOOLEAN /\ tables \in 0..Tables /\ identity \in BOOLEAN /\ crossed \in BOOLEAN
  /\ Documents(docs) /\ Chunks(chunks, docs)
  /\ \A s \in summaries : s.id \in Nat /\ s.ref \in Refs /\ s.text \in Texts
  /\ quiet \in [Procs -> BOOLEAN]
  /\ Tabled
LocalOK(p) ==
  /\ pc[p] \in {"idle", "initialize", "drop", "create", "collect", "lookup", "replace",
                "delete", "status", "counts", "rows", "compare", "upsert"}
  /\ after[p] \in {None, "lookup", "status", "upsert"}
  /\ collected[p] \in [Paths -> Texts \cup {None}]
  /\ todo[p] \in SUBSET Paths /\ existing[p] \in SUBSET Paths
  /\ answer[p] \in {None, "error", "missing", "empty", "ready", "stale", "recorded"}

------------------------------------------------------------------------------
\* What the steps do, with the lookups in the variables done.

\* What a step leaves alone: the other processes, the files, the data.
Others(p) ==
  /\ pc' = [pc EXCEPT ![p] = pc'[p]] /\ after' = [after EXCEPT ![p] = after'[p]]
  /\ collected' = [collected EXCEPT ![p] = collected'[p]] /\ todo' = [todo EXCEPT ![p] = todo'[p]]
  /\ existing' = [existing EXCEPT ![p] = existing'[p]] /\ found' = [found EXCEPT ![p] = found'[p]]
  /\ counted' = [counted EXCEPT ![p] = counted'[p]] /\ rows' = [rows EXCEPT ![p] = rows'[p]]
  /\ request' = [request EXCEPT ![p] = request'[p]] /\ answer' = [answer EXCEPT ![p] = answer'[p]]
SameFiles == disk' = disk /\ edits' = edits
SameIndex == docs' = docs /\ chunks' = chunks /\ fts' = fts /\ crossed' = crossed
SameSessions ==
  summaries' = summaries /\ summaryFts' = summaryFts /\ decisions' = decisions /\ decisionFts' = decisionFts
SameStore == file' = file /\ tables' = tables /\ identity' = identity
SameData == SameIndex /\ SameSessions
SameCall(p) == after'[p] = after[p] /\ answer'[p] = answer[p] /\ request'[p] = request[p] /\ calls' = calls
Nobody == SameFiles /\ SameData /\ quiet' = quiet

Begins(p) ==
  /\ pc[p] = "idle" /\ answer'[p] = None /\ calls' \in 0..MaxCalls
  /\ quiet' = [quiet EXCEPT ![p] = TRUE]
  /\ collected'[p] = collected[p] /\ existing'[p] = existing[p]
  /\ \/ pc'[p] = "collect" /\ after'[p] = "lookup" /\ todo'[p] = Paths
     \/ pc'[p] = "counts" /\ after'[p] = None /\ todo'[p] = todo[p]
     \/ pc'[p] = "initialize" /\ after'[p] = "upsert" /\ request'[p] \in Requests /\ todo'[p] = todo[p]
  /\ SameFiles /\ SameData /\ SameStore
Initializes(p) ==
  /\ pc[p] \in Initializing /\ (pc'[p] \in Initializing \/ (pc[p] = "create" /\ pc'[p] = after[p]))
  /\ file' \in BOOLEAN /\ tables' \in 0..Tables /\ identity' \in BOOLEAN
  /\ collected'[p] = collected[p] /\ todo'[p] = todo[p] /\ existing'[p] = existing[p]
  /\ SameCall(p) /\ Nobody
Collects(p) ==
  /\ pc[p] \in {"collect", "compare"} /\ pc'[p] = pc[p] /\ todo[p] # {}
  /\ collected'[p] = [collected[p] EXCEPT ![Min(todo[p])] = disk[Min(todo[p])]]
  /\ todo'[p] = todo[p] \ {Min(todo[p])}
  /\ existing'[p] = existing[p] /\ counted'[p] = counted[p] /\ rows'[p] = rows[p]
  /\ SameCall(p) /\ SameStore /\ Nobody
Advances(p, left) ==
  todo'[p] = left /\ pc'[p] = IF left = {} THEN "delete" ELSE "initialize"
ReadsExisting(p) ==
  /\ pc[p] = "collect" /\ todo[p] = {}
  /\ existing'[p] = {d.path : d \in docs} /\ Advances(p, Present(collected[p]))
  /\ collected'[p] = collected[p]
  /\ SameCall(p) /\ SameStore /\ Nobody
FindsSame(p) ==
  /\ pc[p] = "lookup"
  /\ \E d \in docs : d.path = Min(todo[p]) /\ d.text = collected[p][Min(todo[p])]
  /\ Advances(p, todo[p] \ {Min(todo[p])})
  /\ collected'[p] = collected[p] /\ existing'[p] = existing[p]
  /\ SameCall(p) /\ SameStore /\ Nobody
FindsOther(p) ==
  /\ pc[p] = "lookup" /\ pc'[p] = "replace" /\ todo'[p] = todo[p]
  /\ LET at == {d \in docs : d.path = Min(todo[p])}
     IN  found'[p] = IF at = {} THEN None ELSE (CHOOSE d \in at : TRUE).id
  /\ collected'[p] = collected[p] /\ existing'[p] = existing[p]
  /\ SameCall(p) /\ SameStore /\ Nobody

\* The tables when p replaces a document.
Rest(p) == {d \in docs : d.id # found[p]}
RestOfChunks(p) == ChunksWithout(docs \ Rest(p))
NewRow(p) == [id |-> NewId(Rest(p)), path |-> Min(todo[p]), text |-> collected[p][Min(todo[p])]]
NewChunks(p) ==
  IF collected[p][Min(todo[p])] \in Chunked
  THEN {[id |-> NewId(RestOfChunks(p)), doc |-> NewId(Rest(p))]} ELSE {}
Replaces(p) ==
  /\ pc[p] = "replace" /\ \A d \in Rest(p) : d.path # Min(todo[p])
  /\ docs' = Rest(p) \cup {NewRow(p)}
  /\ chunks' = RestOfChunks(p) \cup NewChunks(p)
  /\ fts' = SearchRowsWithout(found[p], Min(todo[p]))
              \cup {[id |-> c.id, path |-> Min(todo[p]), text |-> collected[p][Min(todo[p])]] : c \in NewChunks(p)}
  /\ crossed' = (crossed \/ \E d \in docs : d.id = found[p] /\ d.path # Min(todo[p]))
  /\ Advances(p, todo[p] \ {Min(todo[p])})
  /\ quiet' = [q \in Procs |-> quiet[q] /\ q = p]
  /\ collected'[p] = collected[p] /\ existing'[p] = existing[p]
  /\ SameCall(p) /\ SameFiles /\ SameSessions /\ SameStore
Gone(p) == {d \in docs : d.path \in Removed(p)}
Deletes(p) ==
  /\ pc[p] = "delete" /\ pc'[p] = "initialize" /\ after'[p] = "status"
  /\ docs' = docs \ Gone(p) /\ chunks' = ChunksWithout(Gone(p))
  /\ fts' = {r \in fts : r.path \notin Removed(p)}
  /\ quiet' = [q \in Procs |-> quiet[q] /\ q \in IF Gone(p) = {} THEN Procs ELSE {p}]
  /\ collected'[p] = collected[p] /\ todo'[p] = todo[p] /\ existing'[p] = existing[p]
  /\ answer'[p] = answer[p] /\ calls' = calls /\ crossed' = crossed
  /\ SameFiles /\ SameSessions /\ SameStore
SetsStatus(p) ==
  /\ pc[p] = "status" /\ pc'[p] = "counts"
  /\ collected'[p] = collected[p] /\ todo'[p] = todo[p] /\ existing'[p] = existing[p]
  /\ SameCall(p) /\ SameStore /\ Nobody
Counts(p) ==
  /\ pc[p] = "counts" /\ pc'[p] = "rows" /\ counted'[p] = Cardinality(docs)
  /\ collected'[p] = collected[p] /\ todo'[p] = todo[p] /\ existing'[p] = existing[p]
  /\ SameCall(p) /\ SameStore /\ Nobody
Lists(p) ==
  /\ pc[p] = "rows" /\ pc'[p] = "compare" /\ rows'[p] = TextOf(docs) /\ todo'[p] = Paths
  /\ collected'[p] = collected[p] /\ existing'[p] = existing[p] /\ counted'[p] = counted[p]
  /\ SameCall(p) /\ SameStore /\ Nobody

\* A call that is over has nothing in hand.
Ends(p) ==
  /\ pc[p] # "idle" /\ pc'[p] = "idle" /\ after'[p] = None /\ calls' = calls
  /\ collected'[p] = [x \in Paths |-> None] /\ todo'[p] = {} /\ existing'[p] = {}
  /\ SameFiles /\ SameIndex /\ SameStore /\ quiet' = quiet
Fails(p) == Ends(p) /\ SameSessions /\ answer'[p] \in {None, "error", "missing"}
Answers(p) ==
  /\ Ends(p) /\ SameSessions /\ pc[p] = "compare" /\ todo[p] = {}
  /\ answer'[p] = Verdict(counted[p], rows[p], collected[p])
Records(p) ==
  /\ Ends(p) /\ answer'[p] = "recorded" /\ pc[p] = "upsert"
  /\ LET q == request[p]
         id == SummaryId(q.ref)
         row == [id |-> id, ref |-> q.ref, text |-> q.text]
         rest == {d \in decisions : d.session # id}
     IN  /\ summaries' = {s \in summaries : s.id # id} \cup {row}
         /\ summaryFts' = {s \in summaryFts : s.id # id} \cup {row}
         /\ \E new : /\ \A d \in new : d.session = id
                     /\ decisions' = rest \cup new
                     /\ decisionFts' = DecisionRowsWithout(id) \cup new

StepOf(p) ==
  \/ Begins(p) \/ Initializes(p) \/ Collects(p) \/ ReadsExisting(p) \/ FindsSame(p) \/ FindsOther(p)
  \/ Replaces(p) \/ Deletes(p) \/ SetsStatus(p) \/ Counts(p) \/ Lists(p)
  \/ Fails(p) \/ Answers(p) \/ Records(p)

\* What Returns does.
LEMMA CallsEnd ==
  ASSUME Types, NEW p \in Procs, NEW result, Returns(p, result), pc[p] # "idle",
         UNCHANGED <<store, index, quiet, crossed>>
  PROVE  Ends(p) /\ answer'[p] = result /\ Others(p)
<1>1. Others(p)
  BY DEF Types, TypeOK, Returns, Others
<1>2. Ends(p) /\ answer'[p] = result
  BY DEF Types, TypeOK, Returns, Ends, SameFiles, SameIndex, SameStore, index, store
<1> QED
  BY <1>1, <1>2

\* What Proceeds does.
LEMMA LoopsAdvance ==
  ASSUME Types, NEW p \in Procs, NEW left, Proceeds(p, left)
  PROVE  /\ Advances(p, left)
         /\ pc' = [pc EXCEPT ![p] = pc'[p]] /\ todo' = [todo EXCEPT ![p] = todo'[p]]
BY DEF Types, TypeOK, Proceeds, Advances

\* Every step of a process is one of these.
LEMMA StepsOfProcesses ==
  ASSUME Types, NEW p \in Procs, Step(p)
  PROVE  StepOf(p) /\ Others(p)
<1> USE DEF Types, TypeOK, store, index, sessions, locals, Nobody, SameFiles, SameData, SameIndex, SameSessions,
            SameStore, SameCall
<1>g. ASSUME NEW there, NEW here, Goes(p, here, there) PROVE pc[p] = here /\ pc'[p] = there /\ pc' = [pc EXCEPT ![p] = pc'[p]]
  BY <1>g DEF Goes
<1>c. ASSUME NEW operation, NEW there, NEW then, Calls(p, operation, there, then)
      PROVE  /\ pc[p] = "idle" /\ pc'[p] = there /\ after'[p] = then /\ answer'[p] = None
             /\ calls' \in 0..MaxCalls /\ quiet' = [quiet EXCEPT ![p] = TRUE]
             /\ pc' = [pc EXCEPT ![p] = pc'[p]] /\ after' = [after EXCEPT ![p] = after'[p]]
             /\ answer' = [answer EXCEPT ![p] = answer'[p]]
             /\ SameFiles /\ SameData /\ SameStore
  BY <1>c, BoundsAreNumbers DEF Calls, Goes
<1>1. CASE CreateTables(p)
  <2>1. /\ pc[p] = "initialize" /\ pc'[p] \in {"initialize", "drop"}
        /\ file' \in BOOLEAN /\ identity' \in BOOLEAN
        /\ tables' = tables \/ (tables < Tables /\ tables' = tables + 1)
        /\ pc' = [pc EXCEPT ![p] = pc'[p]]
        /\ UNCHANGED <<disk, edits, index, sessions, after, locals, answer, quiet, calls, crossed>>
    BY <1>1 DEF CreateTables
  <2>2. tables' \in 0..Tables
    BY <2>1, BoundsAreNumbers
  <2>3. Initializes(p)
    BY <2>1, <2>2 DEF Initializes, Initializing
  <2> QED
    BY <2>1, <2>3 DEF StepOf, Others
<1>2. CASE DropIdentity(p)
  BY <1>2 DEF DropIdentity, Goes, Initializes, Initializing, StepOf, Others
<1>3. CASE CreateIdentity(p)
  BY <1>3 DEF CreateIdentity, Goes, Initializes, Initializing, StepOf, Others
<1>4. CASE StartReindex(p)
  <2>1. Calls(p, "reindex", "collect", "lookup")
    BY <1>4 DEF StartReindex
  <2>2. Begins(p)
    BY <1>4, <1>c, <2>1 DEF StartReindex, Begins
  <2>3. Others(p)
    BY <1>4, <1>c, <2>1 DEF StartReindex, Others
  <2> QED
    BY <2>2, <2>3 DEF StepOf
<1>5. CASE Collect(p)
  <2>1. Collects(p)
    BY <1>5 DEF Collect, Collects
  <2>2. Others(p)
    BY <1>5 DEF Collect, Others
  <2> QED
    BY <2>1, <2>2 DEF StepOf
<1>6. CASE ReadExisting(p)
  <2>1. CASE Raises(p)
    <3>1. pc[p] # "idle" /\ Returns(p, "error") /\ UNCHANGED <<store, index, sessions, quiet, crossed>>
      BY <1>6, <2>1 DEF ReadExisting, Raises
    <3> QED
      BY <3>1, CallsEnd DEF Fails, StepOf
  <2>2. CASE ~Raises(p)
    <3>1. /\ pc[p] = "collect" /\ todo[p] = {}
          /\ existing' = [existing EXCEPT ![p] = {d.path : d \in docs}]
          /\ Proceeds(p, Present(collected[p]))
          /\ UNCHANGED <<disk, edits, store, index, sessions, after, collected, found, counted, rows,
                         request, answer, quiet, calls, crossed>>
      BY <1>6, <2>2 DEF ReadExisting
    <3>2. Advances(p, Present(collected[p])) /\ pc' = [pc EXCEPT ![p] = pc'[p]] /\ todo' = [todo EXCEPT ![p] = todo'[p]]
      BY <3>1, LoopsAdvance
    <3>3. existing'[p] = {d.path : d \in docs}
      BY <3>1
    <3>4. ReadsExisting(p)
      BY <3>1, <3>2, <3>3 DEF ReadsExisting
    <3>5. Others(p)
      BY <3>1, <3>2, <3>3 DEF Others
    <3> QED
      BY <3>4, <3>5 DEF StepOf
  <2> QED
    BY <2>1, <2>2
<1>7. CASE LookUp(p)
  <2> DEFINE x == Min(todo[p])
             at == {d \in docs : d.path = x}
  <2>1. CASE /\ \E d \in at : Unchanged(d, collected[p][x])
             /\ Proceeds(p, todo[p] \ {x}) /\ UNCHANGED found
    <3>1. Advances(p, todo[p] \ {x}) /\ pc' = [pc EXCEPT ![p] = pc'[p]] /\ todo' = [todo EXCEPT ![p] = todo'[p]]
      BY <2>1, LoopsAdvance
    <3>2. FindsSame(p) /\ Others(p)
      BY <1>7, <2>1, <3>1 DEF LookUp, FindsSame, Others, Unchanged
    <3> QED
      BY <3>2 DEF StepOf
  <2>2. CASE /\ found' = [found EXCEPT ![p] = IF at = {} THEN None ELSE (CHOOSE d \in at : TRUE).id]
             /\ pc' = [pc EXCEPT ![p] = "replace"] /\ UNCHANGED todo
    <3>1. found'[p] = IF at = {} THEN None ELSE (CHOOSE d \in at : TRUE).id
      BY <2>2
    <3>2. FindsOther(p)
      BY <1>7, <2>2, <3>1 DEF LookUp, FindsOther
    <3>3. Others(p)
      BY <1>7, <2>2, <3>1 DEF LookUp, Others
    <3> QED
      BY <3>2, <3>3 DEF StepOf
  <2> QED
    BY <1>7, <2>1, <2>2 DEF LookUp
<1>8. CASE Replace(p)
  <2> DEFINE x == Min(todo[p])
             hits == SearchRowsWithout(found[p], x)
  <2>0. /\ pc[p] = "replace"
        /\ \/ Clash(x, Rest(p), hits, NewChunks(p)) /\ Raises(p)
           \/ /\ ~Clash(x, Rest(p), hits, NewChunks(p))
              /\ docs' = Rest(p) \cup {NewRow(p)}
              /\ chunks' = RestOfChunks(p) \cup NewChunks(p)
              /\ fts' = hits \cup {[id |-> c.id, path |-> x, text |-> collected[p][x]] : c \in NewChunks(p)}
              /\ crossed' = (crossed \/ \E d \in docs : d.id = found[p] /\ d.path # x)
              /\ found' = [found EXCEPT ![p] = None]
              /\ Proceeds(p, todo[p] \ {x})
              /\ Disturbs({p})
              /\ UNCHANGED <<disk, edits, store, sessions, after, collected, existing, counted, rows,
                             request, answer, calls>>
    BY <1>8 DEF Replace, Rest, RestOfChunks, NewRow, NewChunks
  <2>1. CASE Raises(p)
    <3>1. pc[p] # "idle" /\ Returns(p, "error") /\ UNCHANGED <<store, index, sessions, quiet, crossed>>
      BY <2>0, <2>1 DEF Raises
    <3> QED
      BY <3>1, CallsEnd DEF Fails, StepOf
  <2>2. CASE ~Raises(p)
    <3>1. Advances(p, todo[p] \ {x}) /\ pc' = [pc EXCEPT ![p] = pc'[p]] /\ todo' = [todo EXCEPT ![p] = todo'[p]]
      BY <2>0, <2>2, LoopsAdvance
    <3>2. quiet' = [q \in Procs |-> quiet[q] /\ q = p]
      BY <2>0, <2>2 DEF Disturbs
    <3>3. \A d \in Rest(p) : d.path # x
      BY <2>0, <2>2 DEF Clash
    <3>4. Replaces(p)
      BY <2>0, <2>2, <3>1, <3>2, <3>3 DEF Replaces
    <3>5. Others(p)
      BY <2>0, <2>2, <3>1 DEF Others
    <3> QED
      BY <3>4, <3>5 DEF StepOf
  <2> QED
    BY <2>1, <2>2
<1>9. CASE Delete(p)
  <2>1. quiet' = [q \in Procs |-> quiet[q] /\ q \in IF Gone(p) = {} THEN Procs ELSE {p}]
    BY <1>9 DEF Delete, Disturbs, Gone
  <2>2. Deletes(p)
    BY <1>9, <2>1 DEF Delete, Goes, Deletes, Gone
  <2>3. Others(p)
    BY <1>9 DEF Delete, Goes, Others
  <2> QED
    BY <2>2, <2>3 DEF StepOf
<1>10. CASE SetStatus(p)
  BY <1>10 DEF SetStatus, Goes, SetsStatus, StepOf, Others
<1>11. CASE StartStatus(p)
  <2>1. Calls(p, "status", "counts", None)
    BY <1>11 DEF StartStatus
  <2>2. Begins(p)
    BY <1>11, <1>c, <2>1 DEF StartStatus, Begins
  <2>3. Others(p)
    BY <1>11, <1>c, <2>1 DEF StartStatus, Others
  <2> QED
    BY <2>2, <2>3 DEF StepOf
<1>12. CASE ReadCounts(p)
  <2>1. CASE Returns(p, "missing") /\ UNCHANGED <<store, index, sessions, quiet, crossed>>
    <3>1. pc[p] # "idle"
      BY <1>12 DEF ReadCounts
    <3> QED
      BY <2>1, <3>1, CallsEnd DEF Fails, StepOf
  <2>2. CASE Raises(p)
    <3>1. pc[p] # "idle" /\ Returns(p, "error") /\ UNCHANGED <<store, index, sessions, quiet, crossed>>
      BY <1>12, <2>2 DEF ReadCounts, Raises
    <3> QED
      BY <3>1, CallsEnd DEF Fails, StepOf
  <2>3. CASE ~Raises(p) /\ ~(Returns(p, "missing") /\ UNCHANGED <<store, index, sessions, quiet, crossed>>)
    <3>1. /\ pc[p] = "counts" /\ counted' = [counted EXCEPT ![p] = Cardinality(docs)]
          /\ pc' = [pc EXCEPT ![p] = "rows"]
          /\ UNCHANGED <<disk, edits, store, index, sessions, after, collected, todo, existing, found, rows,
                         request, answer, quiet, calls, crossed>>
      BY <1>12, <2>3 DEF ReadCounts
    <3>2. counted'[p] = Cardinality(docs)
      BY <3>1
    <3> QED
      BY <3>1, <3>2 DEF Counts, StepOf, Others
  <2> QED
    BY <2>1, <2>2, <2>3
<1>13. CASE ReadRows(p)
  <2>1. rows'[p] = TextOf(docs)
    BY <1>13 DEF ReadRows
  <2>2. Lists(p)
    BY <1>13, <2>1 DEF ReadRows, Goes, Lists
  <2>3. Others(p)
    BY <1>13, <2>1 DEF ReadRows, Goes, Others
  <2> QED
    BY <2>2, <2>3 DEF StepOf
<1>14. CASE Answer(p)
  <2>1. /\ pc[p] = "compare" /\ todo[p] = {} /\ Returns(p, Verdict(counted[p], rows[p], collected[p]))
        /\ UNCHANGED <<store, index, sessions, quiet, crossed>>
    BY <1>14 DEF Answer
  <2>2. Ends(p) /\ answer'[p] = Verdict(counted[p], rows[p], collected[p]) /\ Others(p)
    BY <2>1, CallsEnd
  <2> QED
    BY <2>1, <2>2 DEF Answers, StepOf
<1>15. CASE StartRecord(p)
  <2>1. Calls(p, "record", "initialize", "upsert")
    BY <1>15 DEF StartRecord
  <2>2. request' = [request EXCEPT ![p] = request'[p]] /\ request'[p] \in Requests
    BY <1>15 DEF StartRecord, Requests
  <2>3. Begins(p)
    BY <1>15, <1>c, <2>1, <2>2 DEF StartRecord, Begins
  <2>4. Others(p)
    BY <1>15, <1>c, <2>1, <2>2 DEF StartRecord, Others
  <2> QED
    BY <2>3, <2>4 DEF StepOf
<1>16. CASE Upsert(p)
  <2>1. CASE Raises(p)
    <3>1. pc[p] # "idle" /\ Returns(p, "error") /\ UNCHANGED <<store, index, sessions, quiet, crossed>>
      BY <1>16, <2>1 DEF Upsert, Raises
    <3> QED
      BY <3>1, CallsEnd DEF Fails, StepOf
  <2>2. CASE ~Raises(p)
    <3> DEFINE q == request[p]
               id == SummaryId(q.ref)
               row == [id |-> id, ref |-> q.ref, text |-> q.text]
               rest == {d \in decisions : d.session # id}
               new == IF q.decides THEN {[id |-> NewId(rest), session |-> id, text |-> q.text]} ELSE {}
    <3>1. /\ pc[p] = "upsert"
          /\ summaries' = {s \in summaries : s.id # id} \cup {row}
          /\ summaryFts' = {s \in summaryFts : s.id # id} \cup {row}
          /\ decisions' = rest \cup new
          /\ decisionFts' = DecisionRowsWithout(id) \cup new
          /\ Returns(p, "recorded") /\ UNCHANGED <<store, index, quiet, crossed>>
      BY <1>16, <2>2 DEF Upsert
    <3>2. \A d \in new : d.session = id
      OBVIOUS
    <3>3. Ends(p) /\ answer'[p] = "recorded" /\ Others(p)
      BY <3>1, CallsEnd
    <3>4. Records(p)
      <4> HIDE DEF new
      <4> QED
        BY <3>1, <3>2, <3>3 DEF Records
    <3> QED
      BY <3>3, <3>4 DEF StepOf
  <2> QED
    BY <2>1, <2>2
<1>17. CASE GivesUp(p)
  <2>1. pc[p] # "idle" /\ Returns(p, None) /\ UNCHANGED <<store, index, sessions, quiet, crossed>>
    BY <1>17 DEF GivesUp
  <2> QED
    BY <2>1, CallsEnd DEF Fails, StepOf
<1> QED
  BY <1>1, <1>2, <1>3, <1>4, <1>5, <1>6, <1>7, <1>8, <1>9, <1>10, <1>11, <1>12, <1>13, <1>14, <1>15, <1>16, <1>17
  DEF Step

------------------------------------------------------------------------------
\* Types are kept

\* The ids in an index built from nothing.
LEMMA BuiltIdsAreNumbers ==
  ASSUME NEW texts \in [Paths -> Texts \cup {None}]
  PROVE  /\ IsFiniteSet(Present(texts)) /\ Cardinality(Present(texts)) \in Nat
         /\ \A x \in Present(texts) :
              /\ Built(texts)[x] \in Nat /\ Built(texts)[x] <= Cardinality(Present(texts))
              /\ BuiltChunk(texts, x) \in Nat /\ BuiltChunk(texts, x) <= Cardinality(Present(texts))
         /\ \A x, y \in Present(texts) : Built(texts)[x] = Built(texts)[y] => x = y
<1> DEFINE P == Present(texts)
           UpTo(x) == {y \in P : y <= x}
<1>1. P \subseteq Paths /\ P \subseteq Nat
  BY PathsAreNumbers DEF Present
<1>2. IsFiniteSet(P)
  BY <1>1, PathsAreNumbers, FS_Subset
<1>3. Cardinality(P) \in Nat
  BY <1>2, FS_CardinalityType
<1>4. ASSUME NEW S \in SUBSET P PROVE IsFiniteSet(S) /\ Cardinality(S) \in Nat /\ Cardinality(S) <= Cardinality(P)
  BY <1>2, FS_Subset, FS_CardinalityType
<1>5. ASSUME NEW x \in P PROVE Built(texts)[x] = Cardinality(UpTo(x))
  BY DEF Built
<1>6. ASSUME NEW x \in P
      PROVE  BuiltChunk(texts, x) = Cardinality({y \in P : y <= x /\ texts[y] \in Chunked})
  BY DEF BuiltChunk
<1>7. ASSUME NEW x \in P, NEW y \in P, x < y PROVE Built(texts)[x] # Built(texts)[y]
  <2>1. UpTo(x) \in SUBSET UpTo(y) /\ y \in UpTo(y) /\ y \notin UpTo(x)
    BY <1>1, <1>7
  <2>2. UpTo(x) # UpTo(y)
    BY <2>1
  <2>3. IsFiniteSet(UpTo(y)) /\ UpTo(y) \in SUBSET P
    BY <1>4
  <2> HIDE DEF UpTo
  <2>4. Cardinality(UpTo(x)) # Cardinality(UpTo(y))
    BY <2>1, <2>2, <2>3, FS_Subset
  <2> QED
    BY <1>5, <2>4
<1>8. ASSUME NEW x \in P
      PROVE  /\ Built(texts)[x] \in Nat /\ Built(texts)[x] <= Cardinality(P)
             /\ BuiltChunk(texts, x) \in Nat /\ BuiltChunk(texts, x) <= Cardinality(P)
  BY <1>4, <1>5, <1>6
<1>9. ASSUME NEW x \in P, NEW y \in P, Built(texts)[x] = Built(texts)[y] PROVE x = y
  <2>1. x \in Nat /\ y \in Nat
    BY <1>1
  <2> QED
    BY <1>7, <1>9, <2>1
<1> QED
  BY <1>2, <1>3, <1>8, <1>9

\* The documents and chunks of the first state.
LEMMA TablesInit ==
  ASSUME Init
  PROVE  /\ Documents(docs) /\ Chunks(chunks, docs) /\ Bounded(docs) /\ Bounded(chunks) /\ IsFiniteSet(docs)
         /\ \A d, e \in docs : d.id = e.id => d = e
         /\ \A d, e \in docs : d.path = e.path => d = e
<1>1. CASE docs = {} /\ chunks = {}
  BY <1>1, FS_EmptySet DEF Documents, Chunks, Bounded
<1>2. ASSUME NEW texts \in [Paths -> Texts \cup {None}],
             docs = {[id |-> Built(texts)[x], path |-> x, text |-> texts[x]] : x \in Present(texts)},
             chunks = {[id |-> BuiltChunk(texts, x), doc |-> Built(texts)[x]] :
                         x \in {y \in Present(texts) : texts[y] \in Chunked}}
      PROVE  /\ Documents(docs) /\ Chunks(chunks, docs) /\ Bounded(docs) /\ Bounded(chunks) /\ IsFiniteSet(docs)
             /\ \A d, e \in docs : d.id = e.id => d = e
             /\ \A d, e \in docs : d.path = e.path => d = e
  <2> DEFINE P == Present(texts)
             Row(x) == [id |-> Built(texts)[x], path |-> x, text |-> texts[x]]
             rowOf == [x \in P |-> Row(x)]
  <2>1. /\ IsFiniteSet(P) /\ Cardinality(P) \in Nat
        /\ \A x \in P : /\ Built(texts)[x] \in Nat /\ Built(texts)[x] <= Cardinality(P)
                        /\ BuiltChunk(texts, x) \in Nat /\ BuiltChunk(texts, x) <= Cardinality(P)
        /\ \A x, y \in P : Built(texts)[x] = Built(texts)[y] => x = y
    BY BuiltIdsAreNumbers
  <2>2. \A x \in P : x \in Paths /\ texts[x] \in Texts
    BY DEF Present
  <2>3. \A d \in docs : \E x \in P : d = Row(x)
    BY <1>2
  <2>4. \A x \in P : Row(x) \in docs
    BY <1>2
  <2>5. IsFiniteSet(docs)
    <3>1. rowOf \in Surjection(P, docs)
      BY <2>3, <2>4 DEF Surjection
    <3> HIDE DEF P, rowOf
    <3> QED
      BY <2>1, <3>1, FS_Surjection
  <2> HIDE DEF P
  <2>6. Documents(docs)
    BY <2>1, <2>2, <2>3 DEF Documents
  <2>7. \A c \in chunks : \E x \in P : c = [id |-> BuiltChunk(texts, x), doc |-> Built(texts)[x]]
    BY <1>2 DEF P
  <2>8. Chunks(chunks, docs)
    <3> SUFFICES ASSUME NEW c \in chunks PROVE c.id \in Nat /\ \E d \in docs : c.doc = d.id
      BY DEF Chunks
    <3>1. PICK x \in P : c = [id |-> BuiltChunk(texts, x), doc |-> Built(texts)[x]]
      BY <2>7
    <3>2. Row(x) \in docs /\ Row(x).id = Built(texts)[x]
      BY <2>4
    <3>3. c.id = BuiltChunk(texts, x) /\ c.doc = Built(texts)[x]
      BY <3>1
    <3> HIDE DEF Row
    <3> QED
      BY <2>1, <3>2, <3>3
  <2>9. Bounded(docs)
    BY <2>1, <2>3 DEF Bounded
  <2>10. Bounded(chunks)
    BY <2>1, <2>7 DEF Bounded
  <2>11. \A d, e \in docs : d.id = e.id => d = e
    BY <2>1, <2>3
  <2>12. \A d, e \in docs : d.path = e.path => d = e
    BY <2>3
  <2> QED
    BY <2>5, <2>6, <2>8, <2>9, <2>10, <2>11, <2>12
<1> QED
  BY <1>1, <1>2 DEF Init

\* Nobody calls yet.
LEMMA TypesInit == Init => Types
<1> SUFFICES ASSUME Init PROVE Types
  OBVIOUS
<1>1. Documents(docs) /\ Chunks(chunks, docs) /\ Bounded(docs) /\ Bounded(chunks) /\ IsFiniteSet(docs)
  BY TablesInit
<1>2. Tabled
  BY <1>1 DEF Tabled, Init, Bounded
<1>3. disk \in [Paths -> Texts \cup {None}] /\ edits \in 0..MaxEdits /\ calls \in 0..MaxCalls
  BY BoundsAreNumbers DEF Init
<1>4. file \in BOOLEAN /\ tables \in 0..Tables /\ identity \in BOOLEAN /\ crossed \in BOOLEAN
  <2>1. \/ file = FALSE /\ tables = 0 /\ identity = FALSE
        \/ file = TRUE /\ tables = Tables /\ identity = TRUE
    BY DEF Init
  <2>2. crossed = FALSE
    BY DEF Init
  <2>3. tables = 0 \/ tables = Tables
    BY <2>1
  <2>4. tables \in 0..Tables
    BY <2>3, BoundsAreNumbers
  <2>5. file \in BOOLEAN /\ identity \in BOOLEAN /\ crossed \in BOOLEAN
    BY <2>1, <2>2
  <2> QED
    BY <2>4, <2>5
<1>5. \A s \in summaries : s.id \in Nat /\ s.ref \in Refs /\ s.text \in Texts
  BY DEF Init
<1>6. /\ pc \in [Procs -> {"idle", "initialize", "drop", "create", "collect", "lookup", "replace",
                           "delete", "status", "counts", "rows", "compare", "upsert"}]
      /\ after \in [Procs -> {None, "lookup", "status", "upsert"}]
      /\ collected \in [Procs -> [Paths -> Texts \cup {None}]]
      /\ todo \in [Procs -> SUBSET Paths] /\ existing \in [Procs -> SUBSET Paths]
      /\ quiet \in [Procs -> BOOLEAN]
      /\ answer \in [Procs -> {None, "error", "missing", "empty", "ready", "stale", "recorded"}]
  BY DEF Init
<1>7. TypeOK
  BY <1>1, <1>3, <1>4, <1>5, <1>6 DEF TypeOK, Documents, Chunks
<1>8. \A p \in Procs : Place(p)
  BY NothingIsNoWord DEF Init, Place, Initializing
<1>9. /\ found = [p \in Procs |-> found[p]] /\ counted = [p \in Procs |-> counted[p]]
      /\ rows = [p \in Procs |-> rows[p]] /\ request = [p \in Procs |-> request[p]]
  BY DEF Init
<1> QED
  BY <1>2, <1>7, <1>8, <1>9 DEF Types

\* The next document of the loop.
LEMMA NextDocument ==
  ASSUME Types, NEW p \in Procs, after[p] = "lookup", pc[p] \notin {"collect", "delete"}
  PROVE  /\ Min(todo[p]) \in todo[p] /\ Min(todo[p]) \in Present(collected[p])
         /\ Min(todo[p]) \in Paths /\ collected[p][Min(todo[p])] \in Texts
<1>1. todo[p] # {} /\ todo[p] \subseteq Present(collected[p]) /\ todo[p] \subseteq Paths
  BY DEF Types, TypeOK, Place
<1>2. Min(todo[p]) \in todo[p]
  BY <1>1, PathsAreNumbers, LeastNumber
<1>3. collected[p] \in [Paths -> Texts \cup {None}]
  BY DEF Types, TypeOK
<1> QED
  BY <1>1, <1>2, <1>3 DEF Present

\* A step of one process, when what it changes has its type.
LEMMA TypesKept ==
  ASSUME Types, NEW p \in Procs, Others(p), DataOK', LocalOK(p)', Place(p)'
  PROVE  Types'
<1>1. /\ pc' \in [Procs -> {"idle", "initialize", "drop", "create", "collect", "lookup", "replace",
                            "delete", "status", "counts", "rows", "compare", "upsert"}]
      /\ after' \in [Procs -> {None, "lookup", "status", "upsert"}]
      /\ collected' \in [Procs -> [Paths -> Texts \cup {None}]]
      /\ todo' \in [Procs -> SUBSET Paths] /\ existing' \in [Procs -> SUBSET Paths]
      /\ answer' \in [Procs -> {None, "error", "missing", "empty", "ready", "stale", "recorded"}]
  BY DEF Types, TypeOK, Others, LocalOK
<1>2. /\ found' = [q \in Procs |-> found'[q]] /\ counted' = [q \in Procs |-> counted'[q]]
      /\ rows' = [q \in Procs |-> rows'[q]] /\ request' = [q \in Procs |-> request'[q]]
  BY DEF Types, Others
<1>3. ASSUME NEW q \in Procs, q # p PROVE Place(q)'
  <2>1. /\ pc'[q] = pc[q] /\ after'[q] = after[q] /\ todo'[q] = todo[q] /\ collected'[q] = collected[q]
        /\ request'[q] = request[q]
    BY <1>3 DEF Types, TypeOK, Others
  <2>2. Place(q)
    BY DEF Types
  <2> QED
    BY <2>1, <2>2 DEF Place, Present
<1>4. TypeOK'
  BY <1>1 DEF TypeOK, DataOK, Documents, Chunks
<1> QED
  BY <1>1, <1>2, <1>3, <1>4 DEF Types, DataOK

\* The tables after a document was replaced.
LEMMA ReplacedRows ==
  ASSUME Types, NEW p \in Procs, Replaces(p)
  PROVE  /\ Bounded(Rest(p)) /\ Bounded(RestOfChunks(p)) /\ NewId(Rest(p)) \in Nat
         /\ \A d \in Rest(p) : d.id < NewId(Rest(p))
         /\ Documents(docs') /\ Chunks(chunks', docs') /\ Bounded(docs') /\ Bounded(chunks') /\ IsFiniteSet(docs')
<1>1. Rest(p) \in SUBSET docs /\ RestOfChunks(p) \in SUBSET chunks
  BY DEF Rest, RestOfChunks, ChunksWithout
<1>2. Bounded(Rest(p)) /\ Bounded(RestOfChunks(p)) /\ IsFiniteSet(Rest(p))
  BY <1>1, BoundsStay, FS_Subset DEF Types, Tabled
<1>3. /\ NewId(Rest(p)) \in Nat /\ \A d \in Rest(p) : d.id < NewId(Rest(p))
      /\ NewId(RestOfChunks(p)) \in Nat
  BY <1>2, NewIdIsFree
<1>4. Min(todo[p]) \in Paths /\ collected[p][Min(todo[p])] \in Texts
  <2>1. after[p] = "lookup" /\ pc[p] \notin {"collect", "delete"}
    BY DEF Types, Place, Replaces
  <2> QED
    BY <2>1, NextDocument
<1>5. NewRow(p).id = NewId(Rest(p)) /\ NewRow(p).path = Min(todo[p]) /\ NewRow(p).text = collected[p][Min(todo[p])]
  BY DEF NewRow
<1>6. docs' = Rest(p) \cup {NewRow(p)} /\ chunks' = RestOfChunks(p) \cup NewChunks(p)
  BY DEF Replaces
<1>7. Documents(docs)
  BY DEF Types, TypeOK, Documents
<1>8. Documents(docs')
  BY <1>1, <1>3, <1>4, <1>5, <1>6, <1>7 DEF Documents
<1>9. Bounded(docs') /\ IsFiniteSet(docs')
  BY <1>2, <1>3, <1>5, <1>6, BoundsStay, FS_AddElement
<1>10. \A c \in NewChunks(p) : c.id = NewId(RestOfChunks(p)) /\ c.doc = NewId(Rest(p))
  BY DEF NewChunks
<1>11. Bounded(chunks')
  <2>1. CASE NewChunks(p) = {}
    BY <1>2, <1>6, <2>1
  <2>2. CASE NewChunks(p) # {}
    <3>1. PICK c : NewChunks(p) = {c} /\ c.id = NewId(RestOfChunks(p))
      BY <2>2, <1>10 DEF NewChunks
    <3> QED
      BY <1>2, <1>3, <1>6, <3>1, BoundsStay
  <2> QED
    BY <2>1, <2>2
<1>12. Chunks(chunks', docs')
  <2> SUFFICES ASSUME NEW c \in chunks' PROVE c.id \in Nat /\ \E d \in docs' : c.doc = d.id
    BY DEF Chunks
  <2>1. CASE c \in NewChunks(p)
    BY <1>3, <1>5, <1>6, <1>10, <2>1
  <2>2. CASE c \in RestOfChunks(p)
    <3>1. c.id \in Nat /\ c \in chunks
      BY <1>1, <2>2 DEF Types, TypeOK
    <3>2. PICK d \in docs : c.doc = d.id
      BY <3>1 DEF Types, TypeOK
    <3>3. d \in Rest(p)
      BY <2>2, <3>2 DEF RestOfChunks, ChunksWithout
    <3> QED
      BY <1>6, <3>1, <3>2, <3>3
  <2> QED
    BY <1>6, <2>1, <2>2
<1> QED
  BY <1>2, <1>3, <1>8, <1>9, <1>11, <1>12

\* The tables after documents were deleted.
LEMMA DeletedRows ==
  ASSUME Types, NEW p \in Procs, Deletes(p)
  PROVE  Documents(docs') /\ Chunks(chunks', docs') /\ Bounded(docs') /\ Bounded(chunks') /\ IsFiniteSet(docs')
<1>1. docs' \in SUBSET docs /\ chunks' \in SUBSET chunks /\ docs' = docs \ Gone(p)
      /\ \A c \in chunks' : \A d \in Gone(p) : c.doc # d.id
  BY DEF Deletes, ChunksWithout
<1>2. Bounded(docs') /\ Bounded(chunks') /\ IsFiniteSet(docs')
  BY <1>1, BoundsStay, FS_Subset DEF Types, Tabled
<1>3. Documents(docs')
  BY <1>1 DEF Types, TypeOK, Documents
<1>4. Chunks(chunks', docs')
  BY <1>1 DEF Types, TypeOK, Chunks
<1> QED
  BY <1>2, <1>3, <1>4

\* The sessions after one was recorded.
LEMMA RecordedRows ==
  ASSUME Types, NEW p \in Procs, Records(p)
  PROVE  /\ \A s \in summaries' : s.id \in Nat /\ s.ref \in Refs /\ s.text \in Texts
         /\ Bounded(summaries')
         /\ SummaryId(request[p].ref) \in Nat
<1> DEFINE id == SummaryId(request[p].ref)
           row == [id |-> id, ref |-> request[p].ref, text |-> request[p].text]
           rest == {s \in summaries : s.id # id}
<1>1. summaries' = rest \cup {row}
  BY DEF Records
<1>2. request[p].ref \in Refs /\ request[p].text \in Texts
  BY DEF Records, Types, Place, Requests
<1>3. \A s \in summaries : s.id \in Nat /\ s.ref \in Refs /\ s.text \in Texts
  BY DEF Types, TypeOK
<1>4. Bounded(summaries) /\ NewId(summaries) \in Nat
  BY NewIdIsFree DEF Types, Tabled
<1>5. id \in Nat
  BY <1>3, <1>4 DEF SummaryId
<1>6. row.id = id /\ row.ref \in Refs /\ row.text \in Texts /\ rest \in SUBSET summaries
  BY <1>2
<1> HIDE DEF row, rest, id
<1>7. Bounded(summaries')
  BY <1>1, <1>4, <1>5, <1>6, BoundsStay
<1>8. \A s \in summaries' : s.id \in Nat /\ s.ref \in Refs /\ s.text \in Texts
  BY <1>1, <1>3, <1>5, <1>6
<1> QED
  BY <1>5, <1>7, <1>8 DEF id

\* No step of a process gives a variable another type.
LEMMA TypesStep == ASSUME Types, NEW p \in Procs, Step(p) PROVE Types'
<1>s. StepOf(p) /\ Others(p)
  BY StepsOfProcesses
<1>t. DataOK /\ LocalOK(p) /\ Place(p)
  BY DEF Types, TypeOK, DataOK, LocalOK, Documents, Chunks
<1> SUFFICES DataOK' /\ LocalOK(p)' /\ Place(p)'
  BY <1>s, TypesKept
<1> USE DEF SameFiles, SameIndex, SameSessions, SameStore, SameData, SameCall, Nobody
<1>d. ASSUME SameIndex, SameSessions, SameFiles, file' \in BOOLEAN, tables' \in 0..Tables, identity' \in BOOLEAN,
             calls' \in 0..MaxCalls, quiet' \in [Procs -> BOOLEAN]
      PROVE  DataOK'
  BY <1>d, <1>t DEF DataOK, Documents, Chunks, Tabled, Bounded
<1>n. ASSUME SameStore, calls' = calls
      PROVE  file' \in BOOLEAN /\ tables' \in 0..Tables /\ identity' \in BOOLEAN /\ calls' \in 0..MaxCalls
  BY <1>n, <1>t DEF DataOK
<1>q. quiet \in [Procs -> BOOLEAN]
  BY <1>t DEF DataOK
<1>1. CASE Begins(p)
  <2>1. DataOK'
    <3>1. quiet' \in [Procs -> BOOLEAN]
      BY <1>1, <1>q DEF Begins
    <3>2. file' \in BOOLEAN /\ tables' \in 0..Tables /\ identity' \in BOOLEAN
      BY <1>1, <1>t DEF Begins, DataOK
    <3> QED
      BY <1>1, <1>d, <3>1, <3>2 DEF Begins
  <2>2. LocalOK(p)'
    BY <1>1, <1>t DEF Begins, LocalOK
  <2>3. Place(p)'
    BY <1>1, <1>t, NothingIsNoWord DEF Begins, Place, Initializing
  <2> QED
    BY <2>1, <2>2, <2>3
<1>2. CASE Initializes(p)
  <2>1. DataOK'
    BY <1>2, <1>d, <1>q, <1>t DEF Initializes, DataOK
  <2>2. LocalOK(p)'
    BY <1>2, <1>t DEF Initializes, LocalOK, Initializing, Place
  <2>3. Place(p)'
    BY <1>2, <1>t DEF Initializes, Place, Initializing, Present
  <2> QED
    BY <2>1, <2>2, <2>3
<1>3. CASE Collects(p)
  <2>1. DataOK'
    BY <1>3, <1>d, <1>n, <1>q DEF Collects
  <2>0. Min(todo[p]) \in Paths /\ disk[Min(todo[p])] \in Texts \cup {None}
    BY <1>3, <1>t, PathsAreNumbers, LeastNumber DEF Collects, LocalOK, DataOK
  <2>2. LocalOK(p)'
    BY <1>3, <1>t, <2>0 DEF Collects, LocalOK
  <2>3. Place(p)'
    BY <1>3, <1>t, NothingIsNoWord DEF Collects, Place, Initializing
  <2> QED
    BY <2>1, <2>2, <2>3
<1>4. CASE ReadsExisting(p)
  <2>1. DataOK'
    BY <1>4, <1>d, <1>n, <1>q DEF ReadsExisting
  <2>0. {d.path : d \in docs} \in SUBSET Paths /\ Present(collected[p]) \in SUBSET Paths
    BY <1>t DEF DataOK, Documents, Present
  <2>2. LocalOK(p)'
    BY <1>4, <1>t, <2>0 DEF ReadsExisting, Advances, LocalOK
  <2>3. Place(p)'
    BY <1>4, <1>t DEF ReadsExisting, Advances, Place, Initializing, Present
  <2> QED
    BY <2>1, <2>2, <2>3
<1>5. CASE FindsSame(p)
  <2>1. DataOK'
    BY <1>5, <1>d, <1>n, <1>q DEF FindsSame
  <2>2. LocalOK(p)'
    BY <1>5, <1>t DEF FindsSame, Advances, LocalOK
  <2>3. Place(p)'
    BY <1>5, <1>t DEF FindsSame, Advances, Place, Initializing, Present
  <2> QED
    BY <2>1, <2>2, <2>3
<1>6. CASE FindsOther(p)
  <2>1. DataOK'
    BY <1>6, <1>d, <1>n, <1>q DEF FindsOther
  <2>2. LocalOK(p)'
    BY <1>6, <1>t DEF FindsOther, LocalOK
  <2>3. Place(p)'
    BY <1>6, <1>t DEF FindsOther, Place, Initializing, Present
  <2> QED
    BY <2>1, <2>2, <2>3
<1>7. CASE Replaces(p)
  <2>1. DataOK'
    <3>1. Documents(docs') /\ Chunks(chunks', docs') /\ Bounded(docs') /\ Bounded(chunks') /\ IsFiniteSet(docs')
      BY <1>7, ReplacedRows
    <3>2. quiet' \in [Procs -> BOOLEAN] /\ crossed' \in BOOLEAN
      BY <1>7, <1>q, <1>t DEF Replaces, DataOK
    <3>3. UNCHANGED <<disk, edits, calls, file, tables, identity, summaries>>
      BY <1>7 DEF Replaces
    <3>4. Bounded(summaries')
      BY <1>t, <3>3 DEF DataOK, Tabled
    <3> QED
      BY <1>t, <3>1, <3>2, <3>3, <3>4 DEF DataOK, Tabled
  <2>2. LocalOK(p)'
    BY <1>7, <1>t DEF Replaces, Advances, LocalOK
  <2>3. Place(p)'
    BY <1>7, <1>t DEF Replaces, Advances, Place, Initializing, Present
  <2> QED
    BY <2>1, <2>2, <2>3
<1>8. CASE Deletes(p)
  <2>1. DataOK'
    <3>1. Documents(docs') /\ Chunks(chunks', docs') /\ Bounded(docs') /\ Bounded(chunks') /\ IsFiniteSet(docs')
      BY <1>8, DeletedRows
    <3>2. quiet' \in [Procs -> BOOLEAN]
      BY <1>8, <1>q DEF Deletes
    <3>3. UNCHANGED <<disk, edits, calls, file, tables, identity, summaries, crossed>>
      BY <1>8 DEF Deletes
    <3>4. Bounded(summaries')
      BY <1>t, <3>3 DEF DataOK, Tabled
    <3> QED
      BY <1>t, <3>1, <3>2, <3>3, <3>4 DEF DataOK, Tabled
  <2>2. LocalOK(p)'
    BY <1>8, <1>t DEF Deletes, LocalOK
  <2>3. Place(p)'
    BY <1>8, <1>t DEF Deletes, Place, Initializing
  <2> QED
    BY <2>1, <2>2, <2>3
<1>9. CASE SetsStatus(p)
  <2>1. DataOK'
    BY <1>9, <1>d, <1>n, <1>q DEF SetsStatus
  <2>2. LocalOK(p)'
    BY <1>9, <1>t DEF SetsStatus, LocalOK
  <2>3. Place(p)'
    BY <1>9, <1>t DEF SetsStatus, Place, Initializing
  <2> QED
    BY <2>1, <2>2, <2>3
<1>10. CASE Counts(p)
  <2>1. DataOK'
    BY <1>10, <1>d, <1>n, <1>q DEF Counts
  <2>2. LocalOK(p)'
    BY <1>10, <1>t DEF Counts, LocalOK
  <2>3. Place(p)'
    BY <1>10, <1>t, NothingIsNoWord DEF Counts, Place, Initializing
  <2> QED
    BY <2>1, <2>2, <2>3
<1>11. CASE Lists(p)
  <2>1. DataOK'
    BY <1>11, <1>d, <1>n, <1>q DEF Lists
  <2>2. LocalOK(p)'
    BY <1>11, <1>t DEF Lists, LocalOK
  <2>3. Place(p)'
    BY <1>11, <1>t, NothingIsNoWord DEF Lists, Place, Initializing
  <2> QED
    BY <2>1, <2>2, <2>3
<1>e. ASSUME Ends(p)
      PROVE  /\ file' \in BOOLEAN /\ tables' \in 0..Tables /\ identity' \in BOOLEAN /\ calls' \in 0..MaxCalls
             /\ quiet' \in [Procs -> BOOLEAN] /\ Place(p)'
             /\ answer'[p] \in {None, "error", "missing", "empty", "ready", "stale", "recorded"} => LocalOK(p)'
  <2>1. Place(p)'
    BY <1>e, NothingIsNoWord DEF Ends, Place, Initializing
  <2>2. answer'[p] \in {None, "error", "missing", "empty", "ready", "stale", "recorded"} => LocalOK(p)'
    BY <1>e DEF Ends, LocalOK
  <2> QED
    BY <1>e, <1>n, <1>q, <2>1, <2>2 DEF Ends
<1>12. CASE Fails(p)
  BY <1>12, <1>d, <1>e DEF Fails, Ends
<1>13. CASE Answers(p)
  <2>1. answer'[p] \in {"empty", "ready", "stale"}
    BY <1>13 DEF Answers, Verdict
  <2> QED
    BY <1>13, <1>d, <1>e, <2>1 DEF Answers, Ends
<1>14. CASE Records(p)
  <2>1. Ends(p) /\ answer'[p] = "recorded"
    BY <1>14 DEF Records
  <2>2. (\A s \in summaries' : s.id \in Nat /\ s.ref \in Refs /\ s.text \in Texts) /\ Bounded(summaries')
    BY <1>14, RecordedRows
  <2>3. DataOK'
    <3>1. UNCHANGED <<disk, edits, docs, chunks, crossed>>
      BY <2>1 DEF Ends
    <3>2. Documents(docs') /\ Chunks(chunks', docs') /\ Bounded(docs') /\ Bounded(chunks') /\ IsFiniteSet(docs')
      BY <1>t, <3>1 DEF DataOK, Tabled
    <3> QED
      BY <1>e, <1>t, <2>1, <2>2, <3>1, <3>2 DEF DataOK, Tabled
  <2> QED
    BY <1>e, <2>1, <2>3
<1> QED
  BY <1>s, <1>1, <1>2, <1>3, <1>4, <1>5, <1>6, <1>7, <1>8, <1>9, <1>10, <1>11, <1>12, <1>13, <1>14 DEF StepOf

\* Nor does an edit.
LEMMA TypesEdits == ASSUME Types, EditDocument PROVE Types'
<1>1. disk' \in [Paths -> Texts \cup {None}] /\ edits' \in 0..MaxEdits
  BY BoundsAreNumbers DEF EditDocument, Types, TypeOK
<1>2. quiet' \in [Procs -> BOOLEAN]
  BY DEF EditDocument, Disturbs, Types, TypeOK
<1>3. UNCHANGED <<store, index, sessions, pc, after, locals, answer, calls, crossed>>
  BY DEF EditDocument
<1>4. TypeOK'
  BY <1>1, <1>2, <1>3 DEF Types, TypeOK, store, index, sessions, locals
<1>5. Tabled'
  BY <1>3 DEF Types, Tabled, index, sessions, Bounded
<1>6. \A p \in Procs : Place(p)'
  BY <1>3 DEF Types, Place, Present, locals
<1> QED
  BY <1>3, <1>4, <1>5, <1>6 DEF Types, locals

------------------------------------------------------------------------------
\* The tables agree with each other

\* One row for an id, a path, a session.
Keys(ds) == (\A d, e \in ds : d.id = e.id => d = e) /\ \A d, e \in ds : d.path = e.path => d = e
SessionKeys == (\A s, t \in summaries : s.id = t.id => s = t) /\ \A s, t \in summaries : s.ref = t.ref => s = t
Searchable == crossed \/ fts = Mirror(docs, chunks)
SessionSearch ==
  /\ summaryFts = summaries
  /\ decisionFts = decisions /\ \A d \in decisions : \E s \in summaries : s.id = d.session

Sound == Keys(docs) /\ Searchable /\ SessionKeys /\ SessionSearch

\* What the search table has a row for.
LEMMA RowsOfMirror ==
  ASSUME NEW ds, NEW cs, NEW r
  PROVE  r \in Mirror(ds, cs) <=>
           \E c \in cs, d \in ds : d.id = c.doc /\ r = [id |-> c.id, path |-> d.path, text |-> d.text]
BY DEF Mirror

\* Nothing has been recorded, and the index was built at once.
LEMMA SoundInit == Init => Sound
<1> SUFFICES ASSUME Init PROVE Sound
  OBVIOUS
<1>1. Keys(docs)
  BY TablesInit DEF Keys
<1> QED
  BY <1>1 DEF Init, Sound, Searchable, SessionKeys, SessionSearch

\* A document that is replaced: its new row, its new chunk and its search row
\* belong together, and the old ones are gone.
LEMMA SoundReplace ==
  ASSUME Types, Sound, NEW p \in Procs, Replaces(p)
  PROVE  Keys(docs') /\ Searchable'
<1> DEFINE x == Min(todo[p])
           id == NewId(Rest(p))
           text == collected[p][x]
<1>1. /\ docs' = Rest(p) \cup {NewRow(p)} /\ chunks' = RestOfChunks(p) \cup NewChunks(p)
      /\ fts' = SearchRowsWithout(found[p], x) \cup {[id |-> c.id, path |-> x, text |-> text] : c \in NewChunks(p)}
      /\ crossed' = (crossed \/ \E d \in docs : d.id = found[p] /\ d.path # x)
      /\ \A d \in Rest(p) : d.path # x
  BY DEF Replaces
<1>2. NewRow(p).id = id /\ NewRow(p).path = x /\ NewRow(p).text = text
  BY DEF NewRow
<1>3. \A d \in Rest(p) : d \in docs /\ d.id # found[p] /\ d.id \in Nat
  BY DEF Rest, Types, TypeOK
<1>4. \A d \in Rest(p) : d.id # id
  <2>1. id \in Nat /\ \A d \in Rest(p) : d.id < id
    BY ReplacedRows
  <2> QED
    BY <1>3, <2>1
<1>5. Keys(docs')
  BY <1>1, <1>2, <1>3, <1>4 DEF Sound, Keys
<1>6. \A c \in NewChunks(p) : c.doc = id
  BY DEF NewChunks
<1> HIDE DEF x, id, text
\* A chunk that stays belongs to a document that stays.
<1>7. ASSUME NEW c \in RestOfChunks(p), NEW d \in docs, c.doc = d.id PROVE d \in Rest(p)
  BY <1>7 DEF RestOfChunks, ChunksWithout
<1>8. ASSUME NEW c \in RestOfChunks(p) PROVE c.doc # id
  <2>1. c \in chunks
    BY DEF RestOfChunks, ChunksWithout
  <2>2. PICK d \in docs : c.doc = d.id
    BY <2>1 DEF Types, TypeOK
  <2> QED
    BY <1>4, <1>7, <2>2
<1>9. ASSUME ~crossed' PROVE fts' = Mirror(docs', chunks')
  <2>1. fts = Mirror(docs, chunks) /\ \A d \in docs : d.id = found[p] => d.path = x
    BY <1>1, <1>9 DEF Sound, Searchable
  <2>2. \A d \in docs : d.path # x <=> d \in Rest(p)
    BY <1>1, <2>1 DEF Rest
  <2>3. \A r : r \in SearchRowsWithout(found[p], x) <=> r \in fts /\ r.path # x
    <3>1. CASE found[p] = None
      <4>1. \A d \in docs : d.path # x
        <5>1. \A d \in docs : d.id # None
          BY TextsAreKnown DEF Types, TypeOK
        <5> QED
          BY <2>2, <3>1, <5>1 DEF Rest
      <4>2. \A r \in fts : r.path # x
        <5> SUFFICES ASSUME NEW r \in fts PROVE r.path # x
          OBVIOUS
        <5>1. PICK c \in chunks, d \in docs : r = [id |-> c.id, path |-> d.path, text |-> d.text]
          BY <2>1, RowsOfMirror
        <5> QED
          BY <4>1, <5>1
      <4> QED
        BY <3>1, <4>2 DEF SearchRowsWithout
    <3>2. CASE found[p] # None
      BY <3>2 DEF SearchRowsWithout
    <3> QED
      BY <3>1, <3>2
  <2>4. ASSUME NEW r \in fts' PROVE r \in Mirror(docs', chunks')
    <3>1. CASE r \in fts /\ r.path # x
      <4>1. PICK c \in chunks, d \in docs : d.id = c.doc /\ r = [id |-> c.id, path |-> d.path, text |-> d.text]
        BY <2>1, <3>1, RowsOfMirror
      <4>2. d \in Rest(p)
        BY <2>2, <3>1, <4>1
      <4>3. c \in RestOfChunks(p)
        BY <4>1, <4>2 DEF RestOfChunks, ChunksWithout, Rest
      <4>4. d \in docs' /\ c \in chunks'
        BY <1>1, <4>2, <4>3
      <4> QED
        BY <4>1, <4>4, RowsOfMirror
    <3>2. CASE \E c \in NewChunks(p) : r = [id |-> c.id, path |-> x, text |-> text]
      <4>1. PICK c \in NewChunks(p) : r = [id |-> c.id, path |-> x, text |-> text]
        BY <3>2
      <4>2. c \in chunks' /\ NewRow(p) \in docs' /\ NewRow(p).id = c.doc
            /\ r = [id |-> c.id, path |-> NewRow(p).path, text |-> NewRow(p).text]
        BY <1>1, <1>2, <1>6, <4>1
      <4> QED
        BY <4>2, RowsOfMirror
    <3> QED
      BY <1>1, <2>3, <3>1, <3>2
  <2>5. ASSUME NEW r \in Mirror(docs', chunks') PROVE r \in fts'
    <3>1. PICK c \in chunks', d \in docs' : d.id = c.doc /\ r = [id |-> c.id, path |-> d.path, text |-> d.text]
      BY RowsOfMirror
    <3>2. CASE d \in Rest(p)
      <4>1. c \in RestOfChunks(p) /\ c \in chunks
        <5>1. c \in RestOfChunks(p)
          BY <1>1, <1>4, <1>6, <3>1, <3>2
        <5> QED
          BY <5>1 DEF RestOfChunks, ChunksWithout
      <4>2. r \in Mirror(docs, chunks)
        BY <1>3, <3>1, <3>2, <4>1, RowsOfMirror
      <4>3. r.path # x
        BY <1>1, <3>1, <3>2
      <4> QED
        BY <1>1, <2>1, <2>3, <4>2, <4>3
    <3>3. CASE d = NewRow(p)
      <4>1. c \in NewChunks(p)
        BY <1>1, <1>2, <1>8, <3>1, <3>3
      <4>2. r = [id |-> c.id, path |-> x, text |-> text]
        BY <1>2, <3>1, <3>3
      <4> QED
        BY <1>1, <4>1, <4>2
    <3> QED
      BY <1>1, <3>1, <3>2, <3>3
  <2> DEFINE hits == fts'
             mirror == Mirror(docs', chunks')
  <2>6. (\A r \in hits : r \in mirror) /\ \A r \in mirror : r \in hits
    BY <2>4, <2>5
  <2> HIDE DEF hits, mirror
  <2>7. hits = mirror
    BY <2>6
  <2> QED
    BY <2>7 DEF hits, mirror
<1> QED
  BY <1>5, <1>9 DEF Searchable

\* Documents that are deleted take their chunks and search rows with them.
LEMMA SoundDelete ==
  ASSUME Types, Sound, NEW p \in Procs, Deletes(p)
  PROVE  Keys(docs') /\ Searchable'
<1>1. /\ docs' = docs \ Gone(p) /\ chunks' = ChunksWithout(Gone(p))
      /\ fts' = {r \in fts : r.path \notin Removed(p)} /\ crossed' = crossed
  BY DEF Deletes
<1>2. Keys(docs')
  BY <1>1 DEF Sound, Keys
<1>3. ASSUME ~crossed PROVE fts' = Mirror(docs', chunks')
  <2>1. fts = Mirror(docs, chunks)
    BY <1>3 DEF Sound, Searchable
  <2>2. \A d \in docs : d \in docs' <=> d.path \notin Removed(p)
    BY <1>1 DEF Gone
  <2>3. ASSUME NEW r \in fts' PROVE r \in Mirror(docs', chunks')
    <3>1. r \in fts /\ r.path \notin Removed(p)
      BY <1>1
    <3>2. PICK c \in chunks, d \in docs : d.id = c.doc /\ r = [id |-> c.id, path |-> d.path, text |-> d.text]
      BY <2>1, <3>1, RowsOfMirror
    <3>3. d \in docs'
      BY <2>2, <3>1, <3>2
    <3>4. c \in chunks'
      <4>1. ASSUME NEW e \in Gone(p) PROVE c.doc # e.id
        <5>1. e \in docs /\ e # d
          BY <1>1, <3>3 DEF Gone
        <5> QED
          BY <3>2, <5>1 DEF Sound, Keys
      <4> QED
        BY <1>1, <4>1 DEF ChunksWithout
    <3> QED
      BY <3>2, <3>3, <3>4, RowsOfMirror
  <2>4. ASSUME NEW r \in Mirror(docs', chunks') PROVE r \in fts'
    <3>1. PICK c \in chunks', d \in docs' : d.id = c.doc /\ r = [id |-> c.id, path |-> d.path, text |-> d.text]
      BY RowsOfMirror
    <3>2. c \in chunks /\ d \in docs /\ d.path \notin Removed(p)
      BY <1>1, <2>2, <3>1 DEF ChunksWithout
    <3>3. r \in Mirror(docs, chunks)
      BY <3>1, <3>2, RowsOfMirror
    <3> QED
      BY <1>1, <2>1, <3>1, <3>2, <3>3
  <2> DEFINE hits == fts'
             mirror == Mirror(docs', chunks')
  <2>5. (\A r \in hits : r \in mirror) /\ \A r \in mirror : r \in hits
    BY <2>3, <2>4
  <2> HIDE DEF hits, mirror
  <2>6. hits = mirror
    BY <2>5
  <2> QED
    BY <2>6 DEF hits, mirror
<1> QED
  BY <1>1, <1>2, <1>3 DEF Searchable

\* A session that is recorded: its row keeps its id or gets one that is free.
LEMMA SoundRecord ==
  ASSUME Types, Sound, NEW p \in Procs, Records(p)
  PROVE  /\ SessionKeys' /\ SessionSearch'
         /\ \A s \in summaries : \E t \in summaries' : t.id = s.id /\ t.ref = s.ref
<1> DEFINE ref == request[p].ref
           id == SummaryId(ref)
           row == [id |-> id, ref |-> ref, text |-> request[p].text]
<1>1. PICK new : /\ \A d \in new : d.session = id
                 /\ decisions' = {d \in decisions : d.session # id} \cup new
                 /\ decisionFts' = DecisionRowsWithout(id) \cup new
  BY DEF Records
<1>2. /\ summaries' = {s \in summaries : s.id # id} \cup {row}
      /\ summaryFts' = {s \in summaryFts : s.id # id} \cup {row}
  BY DEF Records
<1>3. row.id = id /\ row.ref = ref
  OBVIOUS
<1>4. SessionKeys /\ SessionSearch
  BY DEF Sound
\* Whoever has that id is this session.
<1>5. \A s \in summaries : s.id = id <=> s.ref = ref
  <2>1. CASE \E s \in summaries : s.ref = ref
    <3>1. PICK s \in summaries : s.ref = ref
      BY <2>1
    <3>2. id = (CHOOSE t \in summaries : t.ref = ref).id
      BY <2>1 DEF SummaryId
    <3>3. (CHOOSE t \in summaries : t.ref = ref) = s
      BY <1>4, <3>1 DEF SessionKeys
    <3> HIDE DEF id
    <3> QED
      BY <1>4, <3>1, <3>2, <3>3 DEF SessionKeys
  <2>2. CASE ~\E s \in summaries : s.ref = ref
    <3>1. id = NewId(summaries)
      BY <2>2 DEF SummaryId
    <3>2. NewId(summaries) \in Nat /\ \A s \in summaries : s.id < NewId(summaries)
      BY NewIdIsFree DEF Types, Tabled
    <3>3. \A s \in summaries : s.id \in Nat
      BY DEF Types, TypeOK
    <3> HIDE DEF id
    <3> QED
      BY <2>2, <3>1, <3>2, <3>3
  <2> QED
    BY <2>1, <2>2
<1> HIDE DEF row, id, ref
<1>6. SessionKeys'
  BY <1>2, <1>3, <1>4, <1>5 DEF SessionKeys
<1>7. summaryFts' = summaries' /\ decisionFts' = decisions'
  BY <1>1, <1>2, <1>4 DEF SessionSearch, DecisionRowsWithout
<1>8. ASSUME NEW d \in decisions' PROVE \E s \in summaries' : s.id = d.session
  <2>1. CASE d.session = id
    BY <1>2, <1>3, <2>1
  <2>2. CASE d.session # id
    <3>1. d \in decisions
      BY <1>1, <2>2
    <3>2. PICK s \in summaries : s.id = d.session
      BY <1>4, <3>1 DEF SessionSearch
    <3> QED
      BY <1>2, <2>2, <3>2
  <2> QED
    BY <2>1, <2>2
<1>9. ASSUME NEW s \in summaries PROVE \E t \in summaries' : t.id = s.id /\ t.ref = s.ref
  BY <1>2, <1>3, <1>5
<1> QED
  BY <1>6, <1>7, <1>8, <1>9 DEF SessionSearch

\* What a step does to the tables.
LEMMA StepsOnTables ==
  ASSUME NEW p \in Procs, StepOf(p)
  PROVE  \/ SameIndex /\ SameSessions
         \/ Replaces(p) /\ SameSessions
         \/ Deletes(p) /\ SameSessions
         \/ Records(p) /\ SameIndex
BY DEF StepOf, Begins, Initializes, Collects, ReadsExisting, FindsSame, FindsOther, Replaces, Deletes,
       SetsStatus, Counts, Lists, Ends, Fails, Answers, Records, Nobody, SameData

\* No step of a process parts the tables.
LEMMA SoundStep == ASSUME Types, Sound, NEW p \in Procs, Step(p) PROVE Sound'
<1>1. StepOf(p)
  BY StepsOfProcesses
<1>2. ASSUME SameIndex PROVE Keys(docs') /\ Searchable'
  BY <1>2 DEF SameIndex, Sound, Searchable, Keys
<1>3. ASSUME SameSessions PROVE SessionKeys' /\ SessionSearch'
  BY <1>3 DEF SameSessions, Sound, SessionKeys, SessionSearch
<1>4. ASSUME Replaces(p) PROVE Keys(docs') /\ Searchable'
  BY <1>4, SoundReplace
<1>5. ASSUME Deletes(p) PROVE Keys(docs') /\ Searchable'
  BY <1>5, SoundDelete
<1>6. ASSUME Records(p) PROVE SessionKeys' /\ SessionSearch'
  BY <1>6, SoundRecord
<1>7. Keys(docs') /\ Searchable' /\ SessionKeys' /\ SessionSearch'
  BY <1>1, <1>2, <1>3, <1>4, <1>5, <1>6, StepsOnTables
<1> QED
  BY <1>7 DEF Sound, Keys

\* Nor does an edit.
LEMMA SoundEdits == ASSUME Sound, EditDocument PROVE Sound'
BY DEF EditDocument, index, sessions, Sound, Keys, Searchable, SessionKeys, SessionSearch

------------------------------------------------------------------------------
\* What a call knows while nobody disturbs it

\* The files that p has read.
ReadSoFar(p) == \A x \in Paths \ todo[p] : collected[p][x] = disk[x]

\* The reindex of p has collected every file; the documents on its way are in
\* the table, and no row is there that it does not know of.
OnItsWay(p) ==
  /\ collected[p] = disk
  /\ \A d \in docs : d.path \in existing[p] \cup Present(disk)
  /\ \A x \in Present(disk) \ todo[p] : \E d \in docs : d.path = x /\ d.text = disk[x]

\* The row that p is about to replace is the one of its document.
FoundItsRow(p) == \A d \in docs : d.path = Min(todo[p]) <=> d.id = found[p]

Honest(p) ==
  /\ answer[p] = "empty" <=> docs = {}
  /\ answer[p] = "ready" => TextOf(docs) = disk
  /\ answer[p] = "stale" => TextOf(docs) # disk

Knows(p) ==
  /\ pc[p] = "collect" => ReadSoFar(p)
  /\ after[p] = "lookup" /\ pc[p] # "collect" => OnItsWay(p)
  /\ pc[p] = "replace" => FoundItsRow(p)
  /\ after[p] = "status" => TextOf(docs) = disk
  /\ pc[p] \in {"rows", "compare"} => counted[p] = Cardinality(docs)
  /\ pc[p] = "compare" => rows[p] = TextOf(docs) /\ ReadSoFar(p)
  /\ pc[p] = "idle" /\ answer[p] \in {"empty", "ready", "stale"} => Honest(p)

Knowing == \A p \in Procs : quiet[p] => Knows(p)

IndexInv == Types /\ Sound /\ Knowing

\* A table that holds the documents as they are says so.
LEMMA RowsSayTheFiles ==
  ASSUME NEW ds, Keys(ds), NEW texts, texts \in [Paths -> Texts \cup {None}],
         \A d \in ds : d.path \in Present(texts),
         \A x \in Present(texts) : \E d \in ds : d.path = x /\ d.text = texts[x]
  PROVE  TextOf(ds) = texts
<1>1. ASSUME NEW x \in Paths PROVE TextOf(ds)[x] = texts[x]
  <2>0. TextOf(ds)[x] = IF \E d \in ds : d.path = x THEN (CHOOSE d \in ds : d.path = x).text ELSE None
    BY DEF TextOf
  <2>1. CASE texts[x] # None
    <3>1. PICK d \in ds : d.path = x /\ d.text = texts[x]
      BY <2>1 DEF Present
    <3>2. (CHOOSE e \in ds : e.path = x) = d
      BY <3>1 DEF Keys
    <3> QED
      BY <2>0, <3>1, <3>2
  <2>2. CASE texts[x] = None
    <3>1. \A d \in ds : d.path # x
      BY <2>2 DEF Present
    <3> QED
      BY <2>0, <2>2, <3>1
  <2> QED
    BY <2>1, <2>2
<1>2. TextOf(ds) = [x \in Paths |-> TextOf(ds)[x]]
  BY DEF TextOf
<1>3. texts = [x \in Paths |-> texts[x]]
  OBVIOUS
<1> QED
  BY <1>1, <1>2, <1>3

\* What the others do leaves a call that stays undisturbed as it was.
LEMMA OthersStayQuiet ==
  ASSUME Types, NEW p \in Procs, StepOf(p), Others(p), NEW q \in Procs, q # p, quiet'[q]
  PROVE  quiet[q] /\ disk' = disk /\ docs' = docs
<1> USE DEF SameFiles, SameIndex, SameData, Nobody
<1>0. quiet \in [Procs -> BOOLEAN]
  BY DEF Types, TypeOK
<1>1. CASE Begins(p)
  BY <1>0, <1>1 DEF Begins
<1>2. CASE Replaces(p)
  BY <1>0, <1>2 DEF Replaces
<1>3. CASE Deletes(p)
  <2>1. quiet[q] /\ Gone(p) = {}
    BY <1>0, <1>3 DEF Deletes
  <2> QED
    BY <1>3, <2>1 DEF Deletes
<1>4. CASE Nobody
  BY <1>4
<1>5. CASE Ends(p)
  BY <1>5 DEF Ends
<1> QED
  BY <1>1, <1>2, <1>3, <1>4, <1>5
  DEF StepOf, Initializes, Collects, ReadsExisting, FindsSame, FindsOther, SetsStatus, Counts, Lists,
      Fails, Answers, Records

\* So it knows what it knew.
LEMMA OthersKeepKnowing ==
  ASSUME Types, NEW p \in Procs, StepOf(p), Others(p), NEW q \in Procs, q # p, quiet'[q], quiet[q] => Knows(q)
  PROVE  Knows(q)'
<1>1. quiet[q] /\ disk' = disk /\ docs' = docs
  BY OthersStayQuiet
<1>2. /\ pc'[q] = pc[q] /\ after'[q] = after[q] /\ collected'[q] = collected[q] /\ todo'[q] = todo[q]
      /\ existing'[q] = existing[q] /\ answer'[q] = answer[q]
  BY DEF Others, Types, TypeOK
<1>3. found'[q] = found[q] /\ counted'[q] = counted[q] /\ rows'[q] = rows[q]
  BY DEF Others, Types
<1>4. Knows(q)
  BY <1>1
<1>5. ReadSoFar(q) => ReadSoFar(q)'
  BY <1>1, <1>2 DEF ReadSoFar
<1>6. OnItsWay(q) => OnItsWay(q)'
  BY <1>1, <1>2 DEF OnItsWay, Present
<1>7. FoundItsRow(q) => FoundItsRow(q)'
  BY <1>1, <1>2, <1>3 DEF FoundItsRow
<1>8. Honest(q) => Honest(q)'
  BY <1>1, <1>2 DEF Honest, TextOf
<1>9. TextOf(docs)' = TextOf(docs)
  BY <1>1 DEF TextOf
<1> QED
  BY <1>1, <1>2, <1>3, <1>4, <1>5, <1>6, <1>7, <1>8, <1>9 DEF Knows

\* The process that steps: what it reads and writes is what it claims to know.
LEMMA StepsKeepKnowing ==
  ASSUME Types, Keys(docs), Keys(docs'), NEW p \in Procs, StepOf(p), quiet'[p], quiet[p] => Knows(p), Types'
  PROVE  Knows(p)'
<1> USE DEF SameFiles, SameIndex, SameData, SameStore, SameCall, Nobody
<1>d. /\ \A d \in docs : d.id \in Nat /\ d.path \in Paths /\ d.text \in Texts
      /\ disk \in [Paths -> Texts \cup {None}] /\ IsFiniteSet(docs)
  BY DEF Types, TypeOK, Tabled
<1>p. /\ collected[p] \in [Paths -> Texts \cup {None}] /\ todo[p] \in SUBSET Paths
      /\ existing[p] \in SUBSET Paths /\ quiet \in [Procs -> BOOLEAN] /\ Place(p) /\ Place(p)'
  BY DEF Types, TypeOK
<1>t. ASSUME docs' = docs PROVE TextOf(docs)' = TextOf(docs) /\ Cardinality(docs)' = Cardinality(docs)
  BY <1>t DEF TextOf
<1>1. CASE Begins(p)
  BY <1>1, NothingIsNoWord DEF Begins, Knows, ReadSoFar
<1>k. ASSUME ~Begins(p) PROVE quiet[p] /\ Knows(p)
  <2>1. CASE Nobody
    BY <2>1
  <2>2. CASE Ends(p)
    BY <2>2 DEF Ends
  <2>3. CASE Replaces(p)
    BY <1>p, <2>3 DEF Replaces
  <2>4. CASE Deletes(p)
    BY <1>p, <2>4 DEF Deletes
  <2> QED
    BY <1>k, <2>1, <2>2, <2>3, <2>4
    DEF StepOf, Initializes, Collects, ReadsExisting, FindsSame, FindsOther, SetsStatus, Counts, Lists,
        Fails, Answers, Records
<1>2. CASE Initializes(p)
  <2>1. Knows(p)
    BY <1>2, <1>k, <1>p DEF Initializes, Begins, Initializing
  <2>2. OnItsWay(p) => OnItsWay(p)'
    BY <1>2 DEF Initializes, OnItsWay, Present
  <2>3. pc'[p] \in Initializing \cup {"lookup", "status", "upsert"} /\ after'[p] = after[p]
        /\ pc[p] \in Initializing
    BY <1>2, <1>p DEF Initializes, Place, Initializing
  <2>4. docs' = docs /\ disk' = disk
    BY <1>2 DEF Initializes
  <2> QED
    BY <1>t, <2>1, <2>2, <2>3, <2>4 DEF Knows, Initializing
<1>3. CASE Collects(p)
  <2>1. Knows(p) /\ docs' = docs /\ disk' = disk /\ pc'[p] = pc[p] /\ after'[p] = after[p]
    BY <1>3, <1>k, <1>p DEF Collects, Begins
  <2>2. ReadSoFar(p) => ReadSoFar(p)'
    BY <1>3, <1>d, <1>p DEF Collects, ReadSoFar
  <2>3. after[p] = "lookup" => pc[p] = "collect"
    BY <1>3, <1>p, NothingIsNoWord DEF Collects, Place
  <2> QED
    BY <1>3, <1>t, <2>1, <2>2, <2>3 DEF Knows, Collects
<1>4. CASE ReadsExisting(p)
  <2>1. Knows(p) /\ docs' = docs /\ disk' = disk /\ after'[p] = after[p] /\ pc[p] = "collect"
        /\ pc'[p] \in {"delete", "initialize"}
    BY <1>4, <1>k, <1>p DEF ReadsExisting, Advances, Begins
  <2>2. after[p] = "lookup"
    BY <1>p, <2>1 DEF Place
  <2>3. collected'[p] = disk' /\ collected'[p] = collected[p]
    <3>1. \A x \in Paths : collected[p][x] = disk[x]
      BY <1>4, <2>1 DEF ReadsExisting, Knows, ReadSoFar
    <3> QED
      BY <1>4, <1>d, <1>p, <2>1, <3>1 DEF ReadsExisting
  <2>4. existing'[p] = {d.path : d \in docs} /\ todo'[p] = Present(collected[p])
    BY <1>4 DEF ReadsExisting, Advances
  <2>5. OnItsWay(p)'
    BY <2>1, <2>3, <2>4 DEF OnItsWay, Present
  <2> QED
    BY <2>1, <2>2, <2>5 DEF Knows
<1>5. CASE FindsSame(p)
  <2>1. Knows(p) /\ docs' = docs /\ disk' = disk /\ after'[p] = after[p] /\ pc[p] = "lookup"
        /\ pc'[p] \in {"delete", "initialize"} /\ collected'[p] = collected[p] /\ existing'[p] = existing[p]
        /\ todo'[p] = todo[p] \ {Min(todo[p])}
    BY <1>5, <1>k, <1>p DEF FindsSame, Advances, Begins
  <2>2. after[p] = "lookup" /\ OnItsWay(p)
    BY <1>p, <2>1 DEF Place, Knows
  <2>3. PICK d \in docs : d.path = Min(todo[p]) /\ d.text = collected[p][Min(todo[p])]
    BY <1>5 DEF FindsSame
  <2>4. OnItsWay(p)'
    BY <2>1, <2>2, <2>3 DEF OnItsWay, Present
  <2> QED
    BY <2>1, <2>2, <2>4 DEF Knows
<1>6. CASE FindsOther(p)
  <2> DEFINE at == {d \in docs : d.path = Min(todo[p])}
  <2>1. Knows(p) /\ docs' = docs /\ disk' = disk /\ after'[p] = after[p] /\ pc[p] = "lookup"
        /\ pc'[p] = "replace" /\ collected'[p] = collected[p] /\ existing'[p] = existing[p] /\ todo'[p] = todo[p]
        /\ found'[p] = IF at = {} THEN None ELSE (CHOOSE d \in at : TRUE).id
    BY <1>6, <1>k, <1>p DEF FindsOther, Begins
  <2>2. after[p] = "lookup" /\ OnItsWay(p)
    BY <1>p, <2>1 DEF Place, Knows
  <2>3. OnItsWay(p)'
    BY <2>1, <2>2 DEF OnItsWay, Present
  <2>4. \A d \in docs : d.path = Min(todo[p]) <=> d.id = found'[p]
    <3>1. CASE at = {}
      BY <1>d, <2>1, <3>1, TextsAreKnown
    <3>2. CASE at # {}
      <4>1. PICK d \in docs : d.path = Min(todo[p]) /\ found'[p] = d.id
        BY <2>1, <3>2
      <4> QED
        BY <4>1 DEF Keys
    <3> QED
      BY <3>1, <3>2
  <2>5. FoundItsRow(p)'
    BY <2>1, <2>4 DEF FoundItsRow
  <2> QED
    BY <2>1, <2>2, <2>3, <2>5 DEF Knows
<1>7. CASE Replaces(p)
  <2> DEFINE x == Min(todo[p])
  <2>1. Knows(p) /\ disk' = disk /\ after'[p] = after[p] /\ pc[p] = "replace"
        /\ pc'[p] \in {"delete", "initialize"} /\ collected'[p] = collected[p] /\ existing'[p] = existing[p]
        /\ todo'[p] = todo[p] \ {x} /\ docs' = Rest(p) \cup {NewRow(p)}
    BY <1>7, <1>k, <1>p DEF Replaces, Advances, Begins
  <2>2. after[p] = "lookup" /\ OnItsWay(p) /\ FoundItsRow(p)
    BY <1>p, <2>1 DEF Place, Knows
  <2>3. x \in todo[p] /\ x \in Present(disk) /\ todo[p] \subseteq Present(disk)
    <3>1. todo[p] # {} /\ todo[p] \subseteq Present(collected[p]) /\ todo[p] \subseteq Nat
      BY <1>p, <2>1, <2>2, PathsAreNumbers DEF Place
    <3>2. x \in todo[p]
      BY <3>1, LeastNumber
    <3> QED
      BY <2>2, <3>1, <3>2 DEF OnItsWay
  <2>4. NewRow(p).path = x /\ NewRow(p).text = disk[x]
    BY <2>2 DEF NewRow, OnItsWay
  <2>5. \A d \in docs : d \in Rest(p) <=> d.path # x
    BY <2>2 DEF Rest, FoundItsRow
  <2>6. Rest(p) \subseteq docs
    BY DEF Rest
  <2> HIDE DEF x
  <2>7. \A d \in docs' : d.path \in existing[p] \cup Present(disk)
    BY <2>1, <2>2, <2>3, <2>4, <2>6 DEF OnItsWay
  <2>8. ASSUME NEW y \in Present(disk) \ (todo[p] \ {x}) PROVE \E d \in docs' : d.path = y /\ d.text = disk[y]
    <3>1. CASE y = x
      BY <2>1, <2>4, <3>1
    <3>2. CASE y # x
      <4>1. PICK d \in docs : d.path = y /\ d.text = disk[y]
        BY <2>2, <3>2 DEF OnItsWay
      <4> QED
        BY <2>1, <2>5, <3>2, <4>1
    <3> QED
      BY <3>1, <3>2
  <2>9. OnItsWay(p)'
    <3>1. Present(disk)' = Present(disk)
      BY <2>1 DEF Present
    <3> QED
      BY <2>1, <2>2, <2>7, <2>8, <3>1 DEF OnItsWay
  <2> QED
    BY <2>1, <2>2, <2>9 DEF Knows
<1>8. CASE Deletes(p)
  <2>1. Knows(p) /\ disk' = disk /\ after'[p] = "status" /\ pc[p] = "delete" /\ pc'[p] = "initialize"
        /\ docs' = docs \ Gone(p)
    BY <1>8, <1>k, <1>p DEF Deletes, Begins
  <2>2. todo[p] = {} /\ OnItsWay(p)
    BY <1>p, <2>1 DEF Place, Knows
  <2>3. \A d \in docs : d \in docs' <=> d.path \in Present(disk)
    BY <2>1, <2>2 DEF Gone, Removed, OnItsWay
  <2>4. TextOf(docs') = disk
    <3>1. \A d \in docs' : d.path \in Present(disk)
      BY <2>1, <2>3
    <3>2. \A x \in Present(disk) : \E d \in docs' : d.path = x /\ d.text = disk[x]
      BY <2>2, <2>3 DEF OnItsWay
    <3> QED
      BY <1>d, <3>1, <3>2, RowsSayTheFiles
  <2>5. TextOf(docs)' = disk'
    BY <2>1, <2>4 DEF TextOf
  <2> QED
    BY <2>1, <2>5 DEF Knows
<1>9. CASE SetsStatus(p)
  <2>1. Knows(p) /\ docs' = docs /\ disk' = disk /\ after'[p] = "status" /\ after[p] = "status" /\ pc'[p] = "counts"
    BY <1>9, <1>k, <1>p DEF SetsStatus, Begins, Place
  <2> QED
    BY <1>t, <2>1 DEF Knows
<1>10. CASE Counts(p)
  <2>1. Knows(p) /\ docs' = docs /\ disk' = disk /\ after'[p] = after[p] /\ after[p] \in {None, "status"}
        /\ pc'[p] = "rows" /\ counted'[p] = Cardinality(docs)
    BY <1>10, <1>k, <1>p DEF Counts, Begins, Place
  <2> QED
    BY <1>t, <2>1, NothingIsNoWord DEF Knows
<1>11. CASE Lists(p)
  <2>1. Knows(p) /\ docs' = docs /\ disk' = disk /\ after'[p] = after[p] /\ after[p] \in {None, "status"}
        /\ pc[p] = "rows" /\ pc'[p] = "compare" /\ counted'[p] = counted[p] /\ rows'[p] = TextOf(docs)
        /\ todo'[p] = Paths
    BY <1>11, <1>k, <1>p DEF Lists, Begins, Place
  <2> QED
    BY <1>t, <2>1, NothingIsNoWord DEF Knows, ReadSoFar
<1>12. CASE Fails(p)
  <2>1. pc'[p] = "idle" /\ after'[p] = None /\ answer'[p] \notin {"empty", "ready", "stale"}
    BY <1>12, NothingIsNoWord DEF Fails, Ends
  <2> QED
    BY <2>1, NothingIsNoWord DEF Knows
<1>13. CASE Answers(p)
  <2>1. Knows(p) /\ docs' = docs /\ disk' = disk /\ pc[p] = "compare" /\ todo[p] = {}
        /\ pc'[p] = "idle" /\ after'[p] = None /\ answer'[p] = Verdict(counted[p], rows[p], collected[p])
    BY <1>13, <1>k, <1>p DEF Answers, Ends, Begins
  <2>2. counted[p] = Cardinality(docs) /\ rows[p] = TextOf(docs) /\ ReadSoFar(p)
    BY <2>1 DEF Knows
  <2>3. collected[p] = disk
    <3>1. \A x \in Paths : collected[p][x] = disk[x]
      BY <2>1, <2>2 DEF ReadSoFar
    <3> QED
      BY <1>d, <1>p, <3>1
  <2>4. counted[p] = 0 <=> docs = {}
    BY <1>d, <2>2, FS_EmptySet
  <2>5. answer'[p] = IF docs = {} THEN "empty" ELSE IF TextOf(docs) = disk THEN "ready" ELSE "stale"
    BY <2>1, <2>2, <2>3, <2>4 DEF Verdict, Fresh
  <2>6. Honest(p)'
    BY <1>t, <2>1, <2>5 DEF Honest
  <2> QED
    BY <2>1, <2>6, NothingIsNoWord DEF Knows
<1>14. CASE Records(p)
  <2>1. pc'[p] = "idle" /\ after'[p] = None /\ answer'[p] \notin {"empty", "ready", "stale"}
    BY <1>14 DEF Records, Ends
  <2> QED
    BY <2>1, NothingIsNoWord DEF Knows
<1> QED
  BY <1>1, <1>2, <1>3, <1>4, <1>5, <1>6, <1>7, <1>8, <1>9, <1>10, <1>11, <1>12, <1>13, <1>14 DEF StepOf

------------------------------------------------------------------------------
\* The theorems

\* All of it holds at the start, and every step keeps it.
LEMMA IndexInvInit == Init => IndexInv
<1> SUFFICES ASSUME Init PROVE IndexInv
  OBVIOUS
<1>1. Knowing
  BY DEF Init, Knowing
<1> QED
  BY <1>1, TypesInit, SoundInit DEF IndexInv

\* A step of a process is one of the fourteen, and an edit ends every silence.
LEMMA IndexInvStep == ASSUME IndexInv, [Next]_vars PROVE IndexInv'
<1>0. Types /\ Sound /\ Knowing
  BY DEF IndexInv
<1>1. ASSUME NEW p \in Procs, Step(p) PROVE IndexInv'
  <2>1. StepOf(p) /\ Others(p)
    BY <1>0, <1>1, StepsOfProcesses
  <2>2. Types' /\ Sound'
    BY <1>0, <1>1, TypesStep, SoundStep
  <2>3. Keys(docs) /\ Keys(docs')
    BY <1>0, <2>2 DEF Sound, Keys
  <2>4. ASSUME NEW q \in Procs, quiet'[q] PROVE Knows(q)'
    <3>1. quiet[q] => Knows(q)
      BY <1>0 DEF Knowing
    <3>2. CASE q = p
      BY <1>0, <2>1, <2>2, <2>3, <2>4, <3>1, <3>2, StepsKeepKnowing
    <3>3. CASE q # p
      BY <1>0, <2>1, <2>4, <3>1, <3>3, OthersKeepKnowing
    <3> QED
      BY <3>2, <3>3
  <2>5. Knowing'
    BY <2>4 DEF Knowing
  <2> QED
    BY <2>2, <2>5 DEF IndexInv
<1>2. ASSUME EditDocument PROVE IndexInv'
  <2>1. Types' /\ Sound'
    BY <1>0, <1>2, TypesEdits, SoundEdits
  <2>2. \A q \in Procs : ~quiet'[q]
    BY <1>2 DEF EditDocument, Disturbs
  <2> QED
    BY <2>1, <2>2 DEF IndexInv, Knowing
<1>3. ASSUME UNCHANGED vars PROVE IndexInv'
  <2> USE <1>0, <1>3 DEF vars, store, index, sessions, locals
  <2>1. Types'
    BY DEF Types, TypeOK, Tabled, Bounded, Place, Present
  <2>2. Sound'
    BY DEF Sound, Keys, Searchable, SessionKeys, SessionSearch
  <2>3. Knowing'
    BY DEF Knowing, Knows, ReadSoFar, OnItsWay, FoundItsRow, Honest, Present, TextOf
  <2> QED
    BY <2>1, <2>2, <2>3 DEF IndexInv
<1> QED
  BY <1>1, <1>2, <1>3 DEF Next

\* So it always holds.
LEMMA IndexInvHolds == Spec => []IndexInv
BY IndexInvInit, IndexInvStep, PTL DEF Spec

\* Every variable of the memory index keeps its type, and no chunk is without a
\* document, whatever the processes do to each other (sqlite_store.py:194-293).
THEOREM IndexKeepsTypes == Spec => []TypeOK
<1>1. IndexInv => TypeOK
  BY DEF IndexInv, Types
<1> QED
  BY <1>1, IndexInvHolds, PTL

\* The search tables hold exactly what is stored, and a document is indexed
\* once: the lookup outside the transaction of replace_document does no harm
\* as long as no process replaces a row by an id that was given away again
\* (sqlite_store.py:194-293, 381-537).
THEOREM TablesAgree == Spec => []IndexIsSound
<1>1. IndexInv => IndexIsSound
  BY DEF IndexInv, Sound, Keys, Searchable, SessionSearch, IndexIsSound, SearchFindsWhatIsStored, OneRowPerDocument
<1> QED
  BY <1>1, IndexInvHolds, PTL

\* A reindex that nobody disturbs ends with the documents as they are on disk,
\* and a status that nobody disturbs tells the truth about them, after any
\* number of interrupted calls (service.py:47-134).
THEOREM QuietCallsAreRight == Spec => []UndisturbedCallsAreRight
<1>1. IndexInv => ReindexCatchesUp
  BY NothingIsNoWord DEF IndexInv, Knowing, Knows, ReindexCatchesUp
<1>2. IndexInv => StatusIsHonest
  BY DEF IndexInv, Knowing, Knows, Honest, StatusIsHonest
<1>3. IndexInv => UndisturbedCallsAreRight
  BY <1>1, <1>2 DEF UndisturbedCallsAreRight
<1> QED
  BY <1>3, IndexInvHolds, PTL

\* A session that is recorded again keeps its one row and its id, whoever
\* records it and whatever was interrupted (sqlite_store.py:381-537).
THEOREM SessionsStay == Spec => SessionsKeepTheirRow
<1> DEFINE Stays == /\ \A s \in summaries : \E t \in summaries' : t.id = s.id /\ t.ref = s.ref
                    /\ \A s, t \in summaries' : s.ref = t.ref => s = t
<1>1. ASSUME IndexInv, IndexInv', [Next]_vars PROVE [Stays]_vars
  <2>0. Types /\ Sound /\ SessionKeys'
    BY <1>1 DEF IndexInv, Sound
  <2>1. ASSUME summaries' = summaries PROVE Stays
    BY <2>0, <2>1 DEF SessionKeys
  <2>2. ASSUME NEW p \in Procs, Step(p) PROVE Stays
    <3>1. StepOf(p)
      BY <2>0, <2>2, StepsOfProcesses
    <3>2. CASE Records(p)
      BY <2>0, <3>2, SoundRecord DEF SessionKeys
    <3>3. CASE SameSessions
      BY <2>1, <3>3 DEF SameSessions
    <3> QED
      BY <3>1, <3>2, <3>3, StepsOnTables
  <2>3. CASE EditDocument
    BY <2>1, <2>3 DEF EditDocument, sessions
  <2> QED
    BY <1>1, <2>2, <2>3 DEF Next
<1>2. IndexInv /\ IndexInv' /\ [Next]_vars => [Stays]_vars
  BY <1>1
<1> QED
  BY <1>2, IndexInvHolds, PTL DEF Spec, SessionsKeepTheirRow

===============================================================================
