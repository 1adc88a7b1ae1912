---------------------------- MODULE MCMemoryIndex ----------------------------
\* Two documents, with one text that has a chunk beside a blank one.
EXTENDS MemoryIndex, TLC

CONSTANTS p1, p2, blank, full

\* The database is new, or has the first document as it once was.  Two blank
\* documents that will be edited, or one that is left alone.
StartInit ==
  /\ Init
  /\ file => TextOf(docs) = <<full, None>>
  /\ \/ disk = <<blank, blank>> /\ edits = 0
     \/ disk = <<full, None>> /\ edits = MaxEdits

StartSpec == StartInit /\ [][Next]_vars

\* Sessions are recorded where the documents are left alone.
Recording == summaries # {} \/ \E p \in Procs : request[p] # None
Apart == Recording => disk = <<full, None>> /\ edits = MaxEdits

Symmetric == Permutations({p1, p2})
=============================================================================
