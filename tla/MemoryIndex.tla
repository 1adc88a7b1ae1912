------------------------------ MODULE MemoryIndex ------------------------------
(***************************************************************************)
(* The memory index of one project (memory_index/): a SQLite file that the *)
(* server and command line processes share.  Every transaction, and every  *)
(* statement outside one, is a step; a process may be stopped, or give up  *)
(* on a locked database, before any of them.                               *)
(*                                                                         *)
(* A text stands for its hash.  The tables of the schema are counted in    *)
(* the order the script creates them; index_status only repeats what a     *)
(* call answered, and has no variable.  `crossed` is history: a document   *)
(* was replaced by an id that by then was another document's.              *)
(***************************************************************************)
EXTENDS Naturals, FiniteSetsExt

CONSTANTS
  Procs,
  Paths,       \* canonical documents, numbers in the order of their paths
  Texts,       \* what a document or a summary may say
  Chunked,     \* the texts with a chunk; the others are blank
  Refs,        \* sessions an agent may record
  None,
  Operations,  \* the tools called: subset of {"reindex", "status", "record"}
  Tables,      \* number of tables in the schema
  MaxCalls,    \* bound on the calls
  MaxEdits     \* bound on the edits of documents

ASSUME PathsAreNumbers == Paths \subseteq Nat /\ IsFiniteSet(Paths)
ASSUME TextsAreKnown == Chunked \subseteq Texts /\ None \notin Texts \cup Nat
ASSUME NothingIsNoWord == None \notin {"lookup", "status", "upsert", "empty", "ready", "stale"}
ASSUME OperationsAreKnown == Operations \subseteq {"reindex", "status", "record"}
ASSUME BoundsAreNumbers == Tables \in Nat \ {0} /\ MaxCalls \in Nat /\ MaxEdits \in Nat

VARIABLES
  disk, edits,                     \* the documents in the project
  file, tables, identity,          \* the database file, its tables and the unique index
  docs, chunks, fts,               \* documents, document_chunks, document_chunks_fts
  summaries, summaryFts,           \* session_summaries and its search table
  decisions, decisionFts,          \* session_decisions and its search table
  pc, after,                       \* where a process is; where initialize() returns to
  collected, todo, existing, found, counted, rows, request,  \* its local variables
  answer, quiet, calls,            \* its last answer; nobody disturbed that call since
  crossed

store == <<file, tables, identity>>
index == <<docs, chunks, fts>>
sessions == <<summaries, summaryFts, decisions, decisionFts>>
locals == <<collected, todo, existing, found, counted, rows, request>>
vars == <<disk, edits, store, index, sessions, pc, after, locals, answer, quiet, calls, crossed>>

NewId(table) == Max({r.id : r \in table} \cup {0}) + 1
TextOf(ds) == [x \in Paths |-> IF \E d \in ds : d.path = x
                               THEN (CHOOSE d \in ds : d.path = x).text ELSE None]
Present(texts) == {x \in Paths : texts[x] # None}

\* The search table as replace_document fills it for these rows.
Mirror(ds, cs) ==
  UNION {{[id |-> c.id, path |-> d.path, text |-> d.text] : d \in {e \in ds : e.id = c.doc}} : c \in cs}

\* The index of a project whose documents say `texts`, built from nothing.
Built(texts) == [x \in Present(texts) |-> Cardinality({y \in Present(texts) : y <= x})]
BuiltChunk(texts, x) == Cardinality({y \in Present(texts) : y <= x /\ texts[y] \in Chunked})

------------------------------------------------------------------------------
\* The database does not exist yet, or holds what an earlier reindex put there.

Init ==
  /\ disk \in [Paths -> Texts \cup {None}] /\ edits \in 0..MaxEdits
  /\ \/ /\ file = FALSE /\ tables = 0 /\ identity = FALSE
        /\ docs = {} /\ chunks = {}
     \/ \E texts \in [Paths -> Texts \cup {None}] :
          /\ file = TRUE /\ tables = Tables /\ identity = TRUE
          /\ docs = {[id |-> Built(texts)[x], path |-> x, text |-> texts[x]] : x \in Present(texts)}
          /\ chunks = {[id |-> BuiltChunk(texts, x), doc |-> Built(texts)[x]] :
                         x \in {y \in Present(texts) : texts[y] \in Chunked}}
  /\ fts = Mirror(docs, chunks)
  /\ summaries = {} /\ summaryFts = {} /\ decisions = {} /\ decisionFts = {}
  /\ pc = [p \in Procs |-> "idle"] /\ after = [p \in Procs |-> None]
  /\ collected = [p \in Procs |-> [x \in Paths |-> None]]
  /\ todo = [p \in Procs |-> {}] /\ existing = [p \in Procs |-> {}]
  /\ found = [p \in Procs |-> None] /\ counted = [p \in Procs |-> 0]
  /\ rows = [p \in Procs |-> None] /\ request = [p \in Procs |-> None]
  /\ answer = [p \in Procs |-> None] /\ quiet = [p \in Procs |-> FALSE]
  /\ calls = 0 /\ crossed = FALSE

Disturbs(who) == quiet' = [q \in Procs |-> quiet[q] /\ q \in who]
Goes(p, here, there) == pc[p] = here /\ pc' = [pc EXCEPT ![p] = there]

\* A call starts, with nothing left of the one before.
Calls(p, operation, at, then) ==
  /\ operation \in Operations /\ calls < MaxCalls
  /\ Goes(p, "idle", at)
  /\ calls' = calls + 1
  /\ after' = [after EXCEPT ![p] = then]
  /\ answer' = [answer EXCEPT ![p] = None]
  /\ quiet' = [quiet EXCEPT ![p] = TRUE]
  /\ UNCHANGED <<disk, edits, store, index, sessions, crossed>>

\* The call of p is over; its frame is gone.
Returns(p, result) ==
  /\ pc' = [pc EXCEPT ![p] = "idle"]
  /\ after' = [after EXCEPT ![p] = None]
  /\ answer' = [answer EXCEPT ![p] = result]
  /\ collected' = [collected EXCEPT ![p] = [x \in Paths |-> None]]
  /\ todo' = [todo EXCEPT ![p] = {}] /\ existing' = [existing EXCEPT ![p] = {}]
  /\ found' = [found EXCEPT ![p] = None] /\ counted' = [counted EXCEPT ![p] = 0]
  /\ rows' = [rows EXCEPT ![p] = None] /\ request' = [request EXCEPT ![p] = None]
  /\ UNCHANGED <<disk, edits, calls>>

Raises(p) == Returns(p, "error") /\ UNCHANGED <<store, index, sessions, quiet, crossed>>

\* The process is killed, or a lock times out: its transaction is rolled back.
GivesUp(p) ==
  /\ pc[p] # "idle"
  /\ Returns(p, None)
  /\ UNCHANGED <<store, index, sessions, quiet, crossed>>

EditDocument ==
  /\ edits < MaxEdits
  /\ \E x \in Paths, t \in Texts \cup {None} :
       t # disk[x] /\ disk' = [disk EXCEPT ![x] = t]
  /\ edits' = edits + 1
  /\ Disturbs({})
  /\ UNCHANGED <<store, index, sessions, pc, after, locals, answer, calls, crossed>>

------------------------------------------------------------------------------
\* initialize(): every statement of the script commits on its own, and so do
\* the DROP and the CREATE of the identity index.

CreateTables(p) ==
  /\ pc[p] = "initialize"
  /\ \/ /\ ~file
        /\ file' = TRUE
        /\ UNCHANGED <<tables, identity, pc>>
     \/ /\ file /\ tables < Tables
        /\ tables' = tables + 1
        /\ UNCHANGED <<file, identity, pc>>
     \/ /\ file /\ tables = Tables
        /\ identity' = TRUE
        /\ pc' = [pc EXCEPT ![p] = "drop"]
        /\ UNCHANGED <<file, tables>>
  /\ UNCHANGED <<disk, edits, index, sessions, after, locals, answer, quiet, calls, crossed>>

DropIdentity(p) ==
  /\ Goes(p, "drop", "create")
  /\ identity' = FALSE
  /\ UNCHANGED <<disk, edits, file, tables, index, sessions, after, locals, answer, quiet, calls,
                 crossed>>

CreateIdentity(p) ==
  /\ Goes(p, "create", after[p])
  /\ identity' = TRUE
  /\ UNCHANGED <<disk, edits, file, tables, index, sessions, after, locals, answer, quiet, calls,
                 crossed>>

------------------------------------------------------------------------------
\* reindex()

StartReindex(p) ==
  /\ Calls(p, "reindex", "collect", "lookup")
  /\ todo' = [todo EXCEPT ![p] = Paths]
  /\ UNCHANGED <<collected, existing, found, counted, rows, request>>

\* collect_documents reads one file after the other; also for get_status.
Collect(p) ==
  /\ pc[p] \in {"collect", "compare"} /\ todo[p] # {}
  /\ LET x == Min(todo[p])
     IN  /\ collected' = [collected EXCEPT ![p][x] = disk[x]]
         /\ todo' = [todo EXCEPT ![p] = @ \ {x}]
  /\ UNCHANGED <<disk, edits, store, index, sessions, pc, after, existing, found, counted, rows, request,
                 answer, quiet, calls, crossed>>

\* What is left of the loop over the documents, or the deletion after it.
Proceeds(p, left) ==
  /\ todo' = [todo EXCEPT ![p] = left]
  /\ pc' = [pc EXCEPT ![p] = IF left = {} THEN "delete" ELSE "initialize"]

\* get_documents, before anything has called initialize().
ReadExisting(p) ==
  /\ pc[p] = "collect" /\ todo[p] = {}
  /\ \/ file /\ tables = 0 /\ Raises(p)
     \/ /\ file => tables > 0
        /\ existing' = [existing EXCEPT ![p] = {d.path : d \in docs}]
        /\ Proceeds(p, Present(collected[p]))
        /\ UNCHANGED <<disk, edits, store, index, sessions, after, collected, found, counted, rows,
                       request, answer, quiet, calls, crossed>>

\* Mutant: only the path is compared.
SameDocument(d, text) == TRUE

Unchanged(d, text) == d.text = text

\* replace_document looks the row up before its transaction begins.
LookUp(p) ==
  /\ pc[p] = "lookup"
  /\ LET x == Min(todo[p])
         at == {d \in docs : d.path = x}
     IN  \/ /\ \E d \in at : Unchanged(d, collected[p][x])
            /\ Proceeds(p, todo[p] \ {x})
            /\ UNCHANGED found
         \/ /\ \A d \in at : ~Unchanged(d, collected[p][x])
            /\ found' = [found EXCEPT ![p] =
                           IF at = {} THEN None ELSE (CHOOSE d \in at : TRUE).id]
            /\ pc' = [pc EXCEPT ![p] = "replace"]
            /\ UNCHANGED todo
  /\ UNCHANGED <<disk, edits, store, index, sessions, after, collected, existing, counted, rows, request,
                 answer, quiet, calls, crossed>>

\* Mutant: the search rows of the old text stay.
KeepsSearchRows(id, x) == fts

\* The search rows left when the document is removed: they do not cascade.
SearchRowsWithout(id, x) == IF id = None THEN fts ELSE {r \in fts : r.path # x}

\* UNIQUE(project_id, path), and the row ids of the search table.
Clash(x, ds, hits, new) ==
  (\E d \in ds : d.path = x) \/ \E c \in new, r \in hits : r.id = c.id

\* Mutant: foreign keys are not enforced.
NoCascade(gone) == chunks

\* ON DELETE CASCADE
ChunksWithout(gone) == {c \in chunks : \A d \in gone : c.doc # d.id}

\* The transaction of replace_document.
Replace(p) ==
  /\ pc[p] = "replace"
  /\ LET x == Min(todo[p])
         text == collected[p][x]
         ds == {d \in docs : d.id # found[p]}
         cs == ChunksWithout(docs \ ds)
         hits == SearchRowsWithout(found[p], x)
         new == IF text \in Chunked THEN {[id |-> NewId(cs), doc |-> NewId(ds)]} ELSE {}
     IN  \/ Clash(x, ds, hits, new) /\ Raises(p)
         \/ /\ ~Clash(x, ds, hits, new)
            /\ docs' = ds \cup {[id |-> NewId(ds), path |-> x, text |-> text]}
            /\ chunks' = cs \cup new
            /\ fts' = hits \cup {[id |-> c.id, path |-> x, text |-> text] : c \in new}
            /\ crossed' = (crossed \/ \E d \in docs : d.id = found[p] /\ d.path # x)
            /\ found' = [found EXCEPT ![p] = None]
            /\ Proceeds(p, todo[p] \ {x})
            /\ Disturbs({p})
            /\ UNCHANGED <<disk, edits, store, sessions, after, collected, existing, counted, rows,
                           request, answer, calls>>

\* Mutant: nothing is removed.
RemovesNothing(p) == {}

\* The documents that were indexed and are not on disk.
Removed(p) == existing[p] \ Present(collected[p])

\* delete_documents, one transaction.
Delete(p) ==
  /\ Goes(p, "delete", "initialize")
  /\ after' = [after EXCEPT ![p] = "status"]
  /\ LET gone == {d \in docs : d.path \in Removed(p)}
     IN  /\ docs' = docs \ gone
         /\ chunks' = ChunksWithout(gone)
         /\ fts' = {r \in fts : r.path \notin Removed(p)}
         /\ Disturbs(IF gone = {} THEN Procs ELSE {p})
  /\ UNCHANGED <<disk, edits, store, sessions, locals, answer, calls, crossed>>

\* set_index_status, and on to get_status.
SetStatus(p) ==
  /\ Goes(p, "status", "counts")
  /\ UNCHANGED <<disk, edits, store, index, sessions, after, locals, answer, quiet, calls, crossed>>

------------------------------------------------------------------------------
\* get_status(): counts, rows and files are read one after the other.

StartStatus(p) ==
  /\ Calls(p, "status", "counts", None)
  /\ UNCHANGED locals

ReadCounts(p) ==
  /\ pc[p] = "counts"
  /\ \/ /\ ~file
        /\ Returns(p, "missing")
        /\ UNCHANGED <<store, index, sessions, quiet, crossed>>
     \/ file /\ tables < Tables /\ Raises(p)
     \/ /\ file /\ tables = Tables
        /\ counted' = [counted EXCEPT ![p] = Cardinality(docs)]
        /\ pc' = [pc EXCEPT ![p] = "rows"]
        /\ UNCHANGED <<disk, edits, store, index, sessions, after, collected, todo, existing, found, rows,
                       request, answer, quiet, calls, crossed>>

ReadRows(p) ==
  /\ Goes(p, "rows", "compare")
  /\ rows' = [rows EXCEPT ![p] = TextOf(docs)]
  /\ todo' = [todo EXCEPT ![p] = Paths]
  /\ UNCHANGED <<disk, edits, store, index, sessions, after, collected, existing, found, counted,
                 request, answer, quiet, calls, crossed>>

Fresh(indexed, files) == indexed = files

Verdict(count, indexed, files) ==
  IF count = 0 THEN "empty" ELSE IF Fresh(indexed, files) THEN "ready" ELSE "stale"

Answer(p) ==
  /\ pc[p] = "compare" /\ todo[p] = {}
  /\ Returns(p, Verdict(counted[p], rows[p], collected[p]))
  /\ UNCHANGED <<store, index, sessions, quiet, crossed>>

------------------------------------------------------------------------------
\* record_session_summary()

StartRecord(p) ==
  /\ Calls(p, "record", "initialize", "upsert")
  /\ \E r \in Refs, t \in Texts, decides \in BOOLEAN :
       request' = [request EXCEPT ![p] = [ref |-> r, text |-> t, decides |-> decides]]
  /\ UNCHANGED <<collected, todo, existing, found, counted, rows>>

\* Mutant: a session recorded again is a new row.
AlwaysNew(ref) == NewId(summaries)

\* ON CONFLICT(...) DO UPDATE keeps the row and its id.
SummaryId(ref) ==
  IF \E s \in summaries : s.ref = ref THEN (CHOOSE s \in summaries : s.ref = ref).id
                                      ELSE NewId(summaries)

\* Mutant: the search rows of the old decisions stay.
KeepsDecisionRows(id) == decisionFts

DecisionRowsWithout(id) == {r \in decisionFts : r.session # id}

\* The transaction of insert_session_summary.  The conflict clause needs the
\* identity index.
Upsert(p) ==
  /\ pc[p] = "upsert"
  /\ \/ ~identity /\ Raises(p)
     \/ LET q == request[p]
            id == SummaryId(q.ref)
            row == [id |-> id, ref |-> q.ref, text |-> q.text]
            rest == {d \in decisions : d.session # id}
            new == IF q.decides THEN {[id |-> NewId(rest), session |-> id, text |-> q.text]} ELSE {}
        IN  /\ identity
            /\ summaries' = {s \in summaries : s.id # id} \cup {row}
            /\ summaryFts' = {s \in summaryFts : s.id # id} \cup {row}
            /\ decisions' = rest \cup new
            /\ decisionFts' = DecisionRowsWithout(id) \cup new
            /\ Returns(p, "recorded")
            /\ UNCHANGED <<store, index, quiet, crossed>>

Step(p) ==
  \/ CreateTables(p) \/ DropIdentity(p) \/ CreateIdentity(p)
  \/ StartReindex(p) \/ Collect(p) \/ ReadExisting(p) \/ LookUp(p) \/ Replace(p) \/ Delete(p)
  \/ SetStatus(p) \/ StartStatus(p) \/ ReadCounts(p) \/ ReadRows(p) \/ Answer(p)
  \/ StartRecord(p) \/ Upsert(p) \/ GivesUp(p)

Next == EditDocument \/ \E p \in Procs : Step(p)

Spec == Init /\ [][Next]_vars

------------------------------------------------------------------------------
\* Properties

\* Every variable keeps its type, and every chunk its document (the foreign key
\* of document_chunks).
TypeOK ==
  /\ disk \in [Paths -> Texts \cup {None}] /\ edits \in 0..MaxEdits /\ calls \in 0..MaxCalls
  /\ file \in BOOLEAN /\ tables \in 0..Tables /\ identity \in BOOLEAN /\ crossed \in BOOLEAN
  /\ \A d \in docs : d.id \in Nat /\ d.path \in Paths /\ d.text \in Texts
  /\ \A c \in chunks : c.id \in Nat /\ \E d \in docs : c.doc = d.id
  /\ \A s \in summaries : s.id \in Nat /\ s.ref \in Refs /\ s.text \in Texts
  /\ pc \in [Procs -> {"idle", "initialize", "drop", "create", "collect", "lookup", "replace",
                       "delete", "status", "counts", "rows", "compare", "upsert"}]
  /\ after \in [Procs -> {None, "lookup", "status", "upsert"}]
  /\ collected \in [Procs -> [Paths -> Texts \cup {None}]]
  /\ todo \in [Procs -> SUBSET Paths] /\ existing \in [Procs -> SUBSET Paths]
  /\ quiet \in [Procs -> BOOLEAN]
  /\ answer \in [Procs -> {None, "error", "missing", "empty", "ready", "stale", "recorded"}]

\* The search tables, whose rows nothing cascades to, hold exactly the chunks,
\* summaries and decisions there are: no search answers from a text that was
\* replaced or removed, whatever was interrupted.  Two processes that replace
\* one document could only break this by way of a reused id (`crossed`).
SearchFindsWhatIsStored ==
  /\ crossed \/ fts = Mirror(docs, chunks)
  /\ summaryFts = summaries
  /\ decisionFts = decisions /\ \A d \in decisions : \E s \in summaries : s.id = d.session

\* A document is indexed once: the lookup outside the transaction of
\* replace_document does not let two processes insert it twice.
OneRowPerDocument == \A d, e \in docs : d.path = e.path => d = e

\* A reindex that nobody disturbs leaves the documents as they are on disk,
\* whatever an earlier one that was interrupted left behind.
ReindexCatchesUp ==
  \A p \in Procs : after[p] = "status" /\ quiet[p] => TextOf(docs) = disk

\* get_status says "ready" exactly when the index agrees with the files, if
\* nobody disturbed it while it read the counts, the rows and the files.
StatusIsHonest ==
  \A p \in Procs : pc[p] = "idle" /\ quiet[p] /\ answer[p] \in {"empty", "ready", "stale"} =>
    /\ answer[p] = "empty" <=> docs = {}
    /\ answer[p] = "ready" => TextOf(docs) = disk
    /\ answer[p] = "stale" => TextOf(docs) # disk

\* The tables agree with each other (sqlite_store.py:194-293, 381-537).
IndexIsSound == SearchFindsWhatIsStored /\ OneRowPerDocument

\* A call that nobody disturbs is about the files as they are
\* (service.py:47-134).
UndisturbedCallsAreRight == ReindexCatchesUp /\ StatusIsHonest

\* test_record_session_summary_reuses_natural_key_on_retry: a session that is
\* recorded again, by any process, after any crash, keeps its one row and id.
SessionsKeepTheirRow ==
  [][/\ \A s \in summaries : \E t \in summaries' : t.id = s.id /\ t.ref = s.ref
     /\ \A s, t \in summaries' : s.ref = t.ref => s = t]_vars
=============================================================================
