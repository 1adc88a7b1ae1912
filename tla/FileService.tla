------------------------------ MODULE FileService ------------------------------
(***************************************************************************)
(* Writing, patching, moving and deleting the files of a project           *)
(* (files/service.py).  Every access to the file system is a step, and the *)
(* process may die before any of them; a file is rewritten in place, empty *)
(* in between.  Clients share no lock.                                     *)
(*                                                                         *)
(* A path holds a text, a Folder, a Link or nothing.  Of what is in        *)
(* folders the paths Inside them are there, to be deleted, or moved from   *)
(* or into them; folders made for a file are left out.  A patch is a       *)
(* sequence of file patches, [old, new, script, shown]: what diff makes of *)
(* an edit script (module Patching).  `was` and `quiet` are history.       *)
(***************************************************************************)
EXTENDS Patching, FiniteSets

CONSTANTS
  Paths,
  Inside,     \* the paths in a folder: pairs of theirs and its
  Folder, Link,
  Disks,      \* what may be in the project at first
  NewText,    \* the text of write_file
  Patches,    \* the patches that may be applied
  Budgets     \* bounds of a behaviour: [patches, calls, mishaps]

\* Whatever is in a folder, and the paths that are not about that.
Below(path) == {p \in Paths : <<p, path>> \in Inside}
Related(p, q) == p = q \/ p \in Below(q) \/ q \in Below(p)
Flat == {p \in Paths : \A q \in Paths : Related(p, q) => p = q}

ASSUME FoldersNest ==
  /\ Inside \subseteq Paths \X Paths
  /\ \A p, q, r \in Paths : p \in Below(q) => p # q /\ (q \in Below(r) => p \in Below(r))

\* What is in a file, in a patch, and in what is parsed of one.
FileTexts == [lines : Seq(Contents), newline : BOOLEAN, crlf : BOOLEAN]
ScriptLines == [op : {" ", "-", "+", "\\"}, content : Contents]
FilePatches ==
  [old : Flat \cup {None}, new : Flat \cup {None}, shown : SUBSET Nat, script : Seq(ScriptLines)]
HunkSet == [start : Nat, old : Nat, new : Nat, lines : Seq(ScriptLines)]
FileSet == [old : Paths \cup {None, Dashes}, new : Paths \cup {None}, hunks : Seq(HunkSet)]

ASSUME DisksHoldFiles ==
  /\ None # Folder /\ None # Link /\ Folder # Link
  /\ {None, Folder, Link} \cap FileTexts = {}
  /\ None \notin Paths \cup Seq(FileSet) \cup {"done", "refused", "failed"}
  /\ Disks \subseteq [Paths -> FileTexts \cup {None, Folder, Link}]
  /\ NewText \in FileTexts
ASSUME PatchesShowScripts ==
  \A patch \in Patches :
    /\ patch \in Seq(FilePatches) /\ patch # <<>>
    /\ \A i \in DOMAIN patch : patch[i].shown \subseteq DOMAIN patch[i].script

VARIABLES
  disk,
  at,         \* where a client is in its call
  call,       \* the call and what it has read
  todo,       \* the file patches it has not begun
  opened,     \* the file it is writing, wherever that is now
  answer,     \* "done", "refused", "failed" when the file system did, or None
              \* while it runs and after a crash
  was,        \* the disk when its call began
  quiet,      \* nobody else has been busy since then
  left        \* what is left of the budget

fileVars == <<disk, at, call, todo, opened, answer, was, quiet, left>>

IsText(content) == content \notin {None, Folder, Link}
Exists(path) == disk[path] # None
Busy == {c \in Clients : at[c] # "idle"}

FileInit ==
  /\ disk \in Disks
  /\ at = [c \in Clients |-> "idle"] /\ call = [c \in Clients |-> None]
  /\ todo = [c \in Clients |-> <<>>] /\ opened = [c \in Clients |-> None]
  /\ answer = [c \in Clients |-> None]
  /\ was = [c \in Clients |-> disk] /\ quiet = [c \in Clients |-> FALSE]
  /\ left \in Budgets

May(c, what) == at[c] = "idle" /\ left[what] > 0
Starts(c, what, request, first) ==
  /\ May(c, what) /\ left' = [left EXCEPT ![what] = @ - 1]
  /\ at' = [at EXCEPT ![c] = first]
  /\ call' = [call EXCEPT ![c] = request]
  /\ answer' = [answer EXCEPT ![c] = None]
  /\ was' = [was EXCEPT ![c] = disk]
  /\ quiet' = [e \in Clients |-> e = c /\ Busy = {}]
  /\ UNCHANGED <<disk, opened>>

Goes(c, there) == at' = [at EXCEPT ![c] = there] /\ UNCHANGED answer
Ends(c, result) ==
  /\ at' = [at EXCEPT ![c] = "idle"]
  /\ answer' = [answer EXCEPT ![c] = result]
Puts(path, content) == disk' = [disk EXCEPT ![path] = content]

\* Mutant: nothing is closed.
LeavesOpen(c) == UNCHANGED opened

Closes(c) == opened' = [opened EXCEPT ![c] = None]

\* Files are removed; who writes one goes on writing.
Without(d, gone) == [p \in Paths |-> IF p \in gone THEN None ELSE d[p]]
Removes(gone) ==
  /\ disk' = Without(disk, gone)
  /\ opened' = [c \in Clients |-> IF opened[c] \in gone THEN None ELSE opened[c]]

\* A path, and what is in it.
Tree(path) == {path} \cup Below(path)

------------------------------------------------------------------------------
\* write_file

Writes(c) ==
  \E p \in Flat, overwrite \in BOOLEAN :
    /\ Starts(c, "calls", [op |-> "write", path |-> p, overwrite |-> overwrite, text |-> NewText], "check")
    /\ UNCHANGED todo

Refuses(request) == disk[request.path] = Link \/ (Exists(request.path) /\ ~request.overwrite)

ChecksWrite(c) ==
  /\ at[c] = "check"
  /\ IF Refuses(call[c]) THEN Ends(c, "refused") ELSE Goes(c, "open")
  /\ UNCHANGED <<disk, call, todo, opened, was, quiet, left>>

\* write_text: the file is opened, and emptied, and then written.  A folder
\* cannot be opened, and the text of a link is that of another file.
Opens(c) ==
  /\ at[c] = "open"
  /\ LET p == call[c].path IN
     IF disk[p] \in {Folder, Link} THEN Ends(c, "refused") /\ UNCHANGED <<disk, opened>>
     ELSE Puts(p, EmptyText) /\ opened' = [opened EXCEPT ![c] = p] /\ Goes(c, "fill")
  /\ UNCHANGED <<call, todo, was, quiet, left>>

\* Whoever opened the file at the same time left what is longer.
Over(text, old) ==
  IF Len(old.lines) <= Len(text.lines) THEN text
  ELSE [old EXCEPT !.lines = text.lines \o SubSeq(@, Len(text.lines) + 1, Len(@)),
                   !.crlf = @ \/ text.crlf]

Fills(c) ==
  /\ at[c] = "fill"
  /\ IF opened[c] # None THEN Puts(opened[c], Over(call[c].text, disk[opened[c]])) ELSE UNCHANGED disk
  /\ Closes(c)
  /\ IF call[c].op = "patch" THEN Goes(c, "next") ELSE Ends(c, "done")
  /\ UNCHANGED <<call, todo, was, quiet, left>>

------------------------------------------------------------------------------
\* apply_patch

\* parse_unified_diff raises before anything is changed.
DiffOf(patch) ==
  FlattenSeq([i \in DOMAIN patch |->
                Diff(patch[i].old, patch[i].new, Hunks(patch[i].script, patch[i].shown))])

Patching(c) ==
  /\ May(c, "patches")
  /\ \E patch \in Patches :
       LET files == Parsed(DiffOf(patch)) IN
       /\ Starts(c, "patches", [op |-> "patch", patch |-> patch, path |-> None, text |-> EmptyText],
                 IF files = None THEN "raise" ELSE "next")
       /\ todo' = [todo EXCEPT ![c] = IF files = None THEN <<>> ELSE files]

Raises(c) ==
  /\ at[c] = "raise"
  /\ Ends(c, "refused")
  /\ UNCHANGED <<disk, call, todo, opened, was, quiet, left>>

\* The next file: it is deleted, or its source is read and the patched text
\* written to its destination.  The source of a renamed file stays.
Begins(c, path, text) ==
  /\ todo' = [todo EXCEPT ![c] = Tail(@)]
  /\ call' = [call EXCEPT ![c].path = path, ![c].text = text]

Nothing(c) == UNCHANGED <<call, todo>>

\* original_text; None when it raises.
Source(file) ==
  IF file.old = None THEN EmptyText
  ELSE IF file.old \in Paths /\ IsText(disk[file.old]) THEN disk[file.old] ELSE None

PatchesNext(c) ==
  /\ at[c] = "next"
  /\ \/ todo[c] = <<>> /\ Ends(c, "done") /\ Nothing(c)
     \/ /\ todo[c] # <<>>
        /\ LET file == Head(todo[c])
               text == IF Source(file) = None THEN None ELSE Applied(Source(file), file.hunks)
           IN  \/ /\ file.new = None
                  /\ IF file.old \in Paths /\ IsText(disk[file.old])
                     THEN Goes(c, "unlink") /\ Begins(c, file.old, EmptyText)
                     ELSE Ends(c, "refused") /\ Nothing(c)
               \/ /\ file.new # None
                  /\ IF file.new \notin Paths \/ disk[file.new] = Link \/ text = None
                     THEN Ends(c, "refused") /\ Nothing(c)
                     ELSE Goes(c, "open") /\ Begins(c, file.new, text)
  /\ UNCHANGED <<disk, opened, was, quiet, left>>

------------------------------------------------------------------------------
\* delete_path and move_path

Deletes(c) ==
  \E p \in Paths, recursive, missingOk \in BOOLEAN :
    /\ Starts(c, "calls", [op |-> "delete", path |-> p, recursive |-> recursive, missingOk |-> missingOk],
              "check delete")
    /\ UNCHANGED todo

ChecksDelete(c) ==
  /\ at[c] = "check delete"
  /\ LET content == disk[call[c].path] IN
     IF content = None /\ call[c].missingOk THEN Ends(c, "done")
     ELSE IF content \in {None, Link} \/ (content = Folder /\ ~call[c].recursive) THEN Ends(c, "refused")
     ELSE Goes(c, "unlink")
  /\ UNCHANGED <<disk, call, todo, opened, was, quiet, left>>

\* unlink or rmtree; what is gone by then raises.
Unlinks(c) ==
  /\ at[c] = "unlink"
  /\ IF Exists(call[c].path)
     THEN /\ Removes(Tree(call[c].path))
          /\ IF call[c].op = "patch" THEN Goes(c, "next") ELSE Ends(c, "done")
     ELSE Ends(c, "refused") /\ UNCHANGED <<disk, opened>>
  /\ UNCHANGED <<call, todo, was, quiet, left>>

Moves(c) ==
  \E p, q \in Paths, overwrite \in BOOLEAN :
    /\ Related(p, q) \/ {p, q} \subseteq Flat
    /\ Starts(c, "calls", [op |-> "move", path |-> p, to |-> q, overwrite |-> overwrite], "check move")
    /\ UNCHANGED todo

RefusesMove(request) ==
  \/ disk[request.path] \in {None, Link} \/ disk[request.to] = Link
  \/ /\ Exists(request.to)
     /\ ~request.overwrite \/ (disk[request.to] = Folder /\ disk[request.path] # Folder)

ChecksMove(c) ==
  /\ at[c] = "check move"
  /\ IF RefusesMove(call[c]) THEN Ends(c, "refused")
     ELSE Goes(c, IF Exists(call[c].to) THEN "clear" ELSE "move")
  /\ UNCHANGED <<disk, call, todo, opened, was, quiet, left>>

\* Mutant: the source goes with it.
ClearsBoth(c) ==
  /\ at[c] = "clear"
  /\ disk' = [disk EXCEPT ![call[c].to] = None, ![call[c].path] = None]
  /\ Goes(c, "move")
  /\ UNCHANGED <<call, todo, opened, was, quiet, left>>

\* The destination is removed first.
Clears(c) ==
  /\ at[c] = "clear"
  /\ Removes(Tree(call[c].to))
  /\ IF Exists(call[c].to) THEN Goes(c, "move") ELSE Ends(c, "refused")
  /\ UNCHANGED <<call, todo, was, quiet, left>>

\* shutil.move: a source that is gone raises, and a folder that would be in
\* itself; a file that appeared at the destination is overwritten, and a folder
\* moved into.
Renames(c) ==
  /\ at[c] = "move"
  /\ LET p == call[c].path
         q == call[c].to
     IN  IF ~Exists(p) \/ (p # q /\ Related(p, q)) \/ (disk[p] = Folder /\ IsText(disk[q]))
         THEN Ends(c, "refused") /\ UNCHANGED <<disk, opened>>
         ELSE /\ disk' = [disk EXCEPT ![p] = None, ![q] = IF disk[q] = Folder THEN Folder ELSE disk[p]]
              /\ opened' = [e \in Clients |-> IF opened[e] = p /\ disk[q] # Folder THEN q
                                             ELSE IF opened[e] \in {p, q} THEN None ELSE opened[e]]
              /\ Ends(c, "done")
  /\ UNCHANGED <<call, todo, was, quiet, left>>

\* A call ends before its next step, and a folder may have been half removed.
Stops(c, result) ==
  /\ at[c] # "idle" /\ left.mishaps > 0 /\ left' = [left EXCEPT !.mishaps = @ - 1]
  /\ \/ Closes(c) /\ UNCHANGED disk
     \/ at[c] = "unlink" /\ Removes(Below(call[c].path))
     \/ at[c] = "clear" /\ Removes(Below(call[c].to))
  /\ Ends(c, result)
  /\ UNCHANGED <<call, todo, was, quiet>>

\* The process dies, or the file system raises: the disk is full, a text cannot
\* be encoded, something may not be touched.
Dies(c) == Stops(c, None)
Fails(c) == Stops(c, "failed")

FileStep(c) ==
  \/ Writes(c) \/ ChecksWrite(c) \/ Opens(c) \/ Fills(c)
  \/ Patching(c) \/ Raises(c) \/ PatchesNext(c)
  \/ Deletes(c) \/ ChecksDelete(c) \/ Unlinks(c)
  \/ Moves(c) \/ ChecksMove(c) \/ Clears(c) \/ Renames(c)
  \/ Dies(c) \/ Fails(c)

FileNext == \E c \in Clients : FileStep(c)

FileSpec == FileInit /\ [][FileNext]_fileVars
------------------------------------------------------------------------------
\* Properties

\* Every variable keeps its type; only a client that writes has a file open.
FileTypeOK ==
  /\ \A p \in Paths :
       IsText(disk[p]) => disk[p].lines \in Seq(Contents) /\ {disk[p].newline, disk[p].crlf} \subseteq BOOLEAN
  /\ answer \in [Clients -> {None, "done", "refused", "failed"}]
  /\ \A c \in Clients :
       /\ opened[c] # None => at[c] = "fill" /\ IsText(disk[opened[c]])
       /\ answer[c] # None => at[c] = "idle"

\* A file patch fits a project when it was made from the file it names, nothing
\* is in its way, and every hunk shows an old line or is at the head: any other
\* insertion is put one line too early (patching.py:108).
\* The lines of a file that is deleted are not compared.
\* A removed line that begins with "-- " is more than the parser can tell, and
\* so is a line that splitlines() cuts.
Uncut(script) == \A i \in DOMAIN script : script[i].content \notin Cut
Fits(d, file) ==
  /\ IF file.old = None THEN OldLines(file.script) = <<>>
     ELSE IsText(d[file.old]) /\ (file.new = None \/ d[file.old].lines = OldLines(file.script))
  /\ file.new # None => d[file.new] \notin {Folder, Link}
  /\ file.old # None \/ file.new # None
  /\ file.shown # {} \/ file.new = None
  /\ \A i \in DOMAIN file.script : file.script[i].op \in {"+", "-"} => i \in file.shown
  /\ \A h \in ToSet(Hunks(file.script, file.shown)) : h.old > 0 \/ (h.start = 0 /\ h.new > 0)
  /\ Line("-", Dashes) \notin ToSet(file.script) /\ Uncut(file.script)

\* What a patched file should say.
NewFile(file) ==
  LET lines == NewLines(file.script) IN [lines |-> lines, newline |-> lines # <<>>, crlf |-> FALSE]
With(d, file) ==
  IF file.new = None THEN [d EXCEPT ![file.old] = None] ELSE [d EXCEPT ![file.new] = NewFile(file)]

\* The project after the first k file patches.
Upto(d, patch, k) == FoldLeft(With, d, SubSeq(patch, 1, k))
FitsUpto(d, patch, k) == \A i \in 1..k : Fits(Upto(d, patch, i - 1), patch[i])

Settled(c, op) == at[c] = "idle" /\ quiet[c] /\ call[c] # None /\ call[c].op = op
Judged(c) == answer[c] \in {"done", "refused"}

\* files/patching.py:102-159 and service.py:157-199: a diff of what is in the
\* files, with whatever lines it shows around its changes as long as a hunk that
\* is not at the head shows one, turns them into what it was made for, with line
\* feeds.
PatchesGiveTheNewFiles ==
  \A c \in Clients :
    (Settled(c, "patch") /\ Judged(c) /\ FitsUpto(was[c], call[c].patch, Len(call[c].patch)))
    => answer[c] = "done" /\ disk = Upto(was[c], call[c].patch, Len(call[c].patch))

\* What was made from another file is not found in this one, or cannot be put in
\* its place.
NotFound(d, file) ==
  \/ file.old = None /\ file.new = None
  \/ file.old # None /\ ~IsText(d[file.old])
  \/ file.new # None /\ d[file.new] \in {Folder, Link}
  \/ /\ file.old # None /\ file.new # None
     /\ Applied(d[file.old], Hunks(file.script, file.shown)) = None

\* service.py:161-197: a patch with a file that it does not fit, so that its
\* lines are not found, is refused, when it has patched the files before that
\* one and no others.  The parser did not see a cut line in it.
MisfitStopsThePatch ==
  \A c \in Clients :
    (/\ Settled(c, "patch") /\ Judged(c) /\ Parsed(DiffOf(call[c].patch)) # None
     /\ \A i \in DOMAIN call[c].patch : Uncut(call[c].patch[i].script)) =>
      \A k \in 0..Len(call[c].patch) - 1 :
        LET d == Upto(was[c], call[c].patch, k)
            file == call[c].patch[k + 1]
        IN  (FitsUpto(was[c], call[c].patch, k) /\ NotFound(d, file))
            => answer[c] = "refused" /\ disk = d

\* A patch that fits is applied, one that does not is refused where it fails.
PatchesAreExact == PatchesGiveTheNewFiles /\ MisfitStopsThePatch

\* service.py:122-149, 204-275: a call that is done left what it says, and one
\* that is refused changed nothing, but for a move onto itself, or onto what is in
\* it or around it: that may have removed its destination, and so what was moved.
CallsDoWhatTheySay ==
  \A c \in Clients :
    /\ (Settled(c, "write") /\ answer[c] = "done")
         => /\ disk = [was[c] EXCEPT ![call[c].path] = NewText]
            /\ call[c].overwrite \/ was[c][call[c].path] = None
    /\ (Settled(c, "delete") /\ answer[c] = "done")
         => disk = IF was[c][call[c].path] = None THEN was[c] ELSE Without(was[c], Tree(call[c].path))
    /\ (Settled(c, "move") /\ answer[c] = "done")
         => disk = [was[c] EXCEPT ![call[c].path] = None, ![call[c].to] = was[c][call[c].path]]
    /\ (at[c] = "idle" /\ quiet[c] /\ answer[c] = "refused" /\ call[c].op # "patch")
         => \/ disk = was[c]
            \/ /\ call[c].op = "move" /\ call[c].overwrite /\ Related(call[c].path, call[c].to)
               /\ disk = Without(was[c], Tree(call[c].to))

\* A process that dies, and a call whose write fails, leaves at most one file
\* empty, the one it was writing, or a folder half removed, and never without
\* its source a move whose destination is elsewhere.
CrashTearsOneFile ==
  \A c \in Clients :
    (at[c] = "idle" /\ quiet[c] /\ call[c] # None /\ answer[c] \in {None, "failed"})
    => /\ (call[c].op = "patch" /\ FitsUpto(was[c], call[c].patch, Len(call[c].patch))) =>
            \E k \in 0..Len(call[c].patch) :
              LET d == Upto(was[c], call[c].patch, k) IN
              \/ disk = d
              \/ \E p \in Paths : disk = [d EXCEPT ![p] = EmptyText] /\ call[c].path = p
       /\ call[c].op = "write" => disk \in {was[c], [was[c] EXCEPT ![call[c].path] = EmptyText]}
       /\ call[c].op = "delete" => disk \in {was[c], Without(was[c], Below(call[c].path))}
       /\ call[c].op = "move" =>
            disk \in {was[c], Without(was[c], Below(call[c].to)), Without(was[c], Tree(call[c].to))}

\* What a call leaves is what it answers, or one file short of it.
CallsAreExact == CallsDoWhatTheySay /\ CrashTearsOneFile
===============================================================================
