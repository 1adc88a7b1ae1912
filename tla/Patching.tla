------------------------------- MODULE Patching -------------------------------
(***************************************************************************)
(* Unified diffs (files/patching.py): parse_unified_diff and               *)
(* apply_unified_diff_to_text, and the diffs that other tools make, to     *)
(* measure them by.                                                        *)
(*                                                                         *)
(* A text is its lines as git counts them, whether it ends with a newline  *)
(* and whether some of its lines end with CR LF.  A line of a diff is a    *)
(* record: what it starts with, and what follows.  Dashes is the content   *)
(* that begins with "-- ": removed, it reads like the header of a file.    *)
(* What splitlines() cuts in two, at a form feed or a line separator, has  *)
(* Halves.                                                                 *)
(***************************************************************************)
EXTENDS Integers, SequencesExt, Workspace

CONSTANTS
  Contents,       \* what a line may say
  Blank, Dashes,  \* an empty line, and the line described above
  Halves          \* what a line is cut into

\* The second half is empty, or begins like no line of a diff.
Cut == DOMAIN Halves
ASSUME HalvesAreLines ==
  /\ Blank \in Contents /\ Cut \subseteq Contents \ {Blank, Dashes}
  /\ Halves \in [Cut -> [first : Contents \ (Cut \cup {Dashes}), rest : Contents \ (Cut \cup {Dashes})]]

EmptyText == [lines |-> <<>>, newline |-> FALSE, crlf |-> FALSE]

Line(op, content) == [op |-> op, content |-> content]

------------------------------------------------------------------------------
\* parse_unified_diff: one line after the other.

NotParsed == [patches |-> <<>>, inHunk |-> FALSE, header |-> FALSE, old |-> None, failed |-> FALSE]
Broken(st) == [st EXCEPT !.failed = TRUE]

\* The hunk at the end of the last file, changed.
WithHunks(st, hunks) ==
  [st EXCEPT !.patches[Len(st.patches)].hunks = hunks, !.inHunk = TRUE]
LastHunks(st) == Last(st.patches).hunks

AddsLine(st, line) ==
  LET hunks == LastHunks(st)
  IN  WithHunks(st, [hunks EXCEPT ![Len(hunks)].lines = Append(@, line)])

\* After a header "---".
ReadsNewName(st, t) ==
  IF t.kind # "+++" THEN Broken(st)
  ELSE [st EXCEPT !.patches = Append(@, [old |-> st.old, new |-> t.path, hunks |-> <<>>]),
                  !.inHunk = FALSE, !.header = FALSE]

ReadsContent(st, line) == IF st.inHunk THEN AddsLine(st, line) ELSE Broken(st)

ParsesLine(st, t) ==
  IF st.failed THEN st
  ELSE IF st.header THEN ReadsNewName(st, t)
  ELSE CASE t.kind = "empty" -> IF st.inHunk THEN AddsLine(st, Line(" ", Blank)) ELSE st
         [] t.kind = "---" -> [st EXCEPT !.header = TRUE, !.old = t.path]
         [] t.kind = "@@" ->
              IF st.patches = <<>> THEN Broken(st) ELSE WithHunks(st, Append(LastHunks(st), t.hunk))
         [] t.kind = "line" -> ReadsContent(st, t.line)
         [] t.kind = "cut" ->
              IF st.inHunk /\ t.rest = Blank THEN AddsLine(AddsLine(st, t.line), Line(" ", Blank))
              ELSE Broken(st)
         [] t.kind = "+++" -> ReadsContent(st, Line("+", t.path))
         [] OTHER -> st

\* The files of a diff; None when it raises.
Parsed(diff) ==
  LET st == FoldLeft(ParsesLine, NotParsed, diff)
  IN  IF st.failed \/ st.header \/ st.patches = <<>> THEN None ELSE st.patches

------------------------------------------------------------------------------
\* apply_unified_diff_to_text: one hunk after the other.

\* Mutant: lines are counted from 0.
StartsAtHeader(hunk) == hunk.start
\* start_index
StartOf(hunk) == IF hunk.start = 0 THEN 0 ELSE hunk.start - 1

Matches(lines, at, content) == at < Len(lines) /\ lines[at + 1] = content

AppliesLine(lines, st, line) ==
  IF line.op = "\\" THEN st
  ELSE IF line.op = "+" THEN [st EXCEPT !.out = Append(@, line.content), !.new = @ + 1]
  ELSE IF ~Matches(lines, st.at, line.content) THEN [st EXCEPT !.failed = TRUE]
  ELSE [st EXCEPT !.at = @ + 1, !.old = @ + 1,
                  !.out = IF line.op = " " THEN Append(@, line.content) ELSE @,
                  !.new = IF line.op = " " THEN @ + 1 ELSE @]

AppliesLines(lines, st, added) == FoldLeft(LAMBDA s, l : AppliesLine(lines, s, l), st, added)

\* The lines from..upto, as many of them as there are.
Slice(lines, from, upto) ==
  SubSeq(lines, from, IF upto > Len(lines) THEN Len(lines) ELSE upto)

AppliesHunk(lines, st, hunk) ==
  LET start == StartOf(hunk)
      begun == [st EXCEPT !.out = @ \o Slice(lines, st.at + 1, start), !.at = start, !.old = 0, !.new = 0]
      ended == AppliesLines(lines, begun, hunk.lines)
  IN  IF start < st.at \/ ended.old # hunk.old \/ ended.new # hunk.new
      THEN [ended EXCEPT !.failed = TRUE] ELSE ended

AppliesHunks(lines, st, hunks) == FoldLeft(LAMBDA s, h : AppliesHunk(lines, s, h), st, hunks)

\* The lines that splitlines() finds; after the last cut there may be none.
Pieces(line) == IF line \in Cut THEN <<Halves[line].first, Halves[line].rest>> ELSE <<line>>
Split(text) ==
  LET all == FlattenSeq([i \in DOMAIN text.lines |-> Pieces(text.lines[i])])
      open == ~text.newline /\ text.lines # <<>>
  IN  IF open /\ Last(text.lines) \in Cut /\ Last(all) = Blank THEN Front(all) ELSE all

\* The patched text, all of it with line feeds; None when it raises.
Applied(text, hunks) ==
  LET lines == Split(text)
      st == AppliesHunks(lines, [out |-> <<>>, at |-> 0, old |-> 0, new |-> 0, failed |-> FALSE], hunks)
      out == st.out \o Slice(lines, st.at + 1, Len(lines))
  IN  IF st.failed THEN None
      ELSE [lines |-> out, crlf |-> FALSE,
            newline |-> out # <<>> /\ (text.newline \/ \E i \in DOMAIN hunks :
                          \E k \in DOMAIN hunks[i].lines : hunks[i].lines[k].op # "\\")]

------------------------------------------------------------------------------
\* What diff makes of an edit script, a sequence of lines kept (" "), removed
\* ("-") and added ("+"), when it shows the lines `shown` of it; "\\" says that
\* the line before has no newline.

AddsSide(ops, said, l) == IF l.op \in ops THEN Append(said, l.content) ELSE said
Side(script, ops) == FoldLeft(LAMBDA said, l : AddsSide(ops, said, l), <<>>, script)
OldLines(script) == Side(script, {" ", "-"})
NewLines(script) == Side(script, {" ", "+"})

\* A hunk without old lines names the line it comes after.
HunkOf(script, from, upto) ==
  LET lines == SubSeq(script, from, upto)
      old == Len(OldLines(lines))
  IN  [start |-> Len(OldLines(SubSeq(script, 1, from - 1))) + (IF old = 0 THEN 0 ELSE 1),
       old |-> old, new |-> Len(NewLines(lines)), lines |-> lines]

\* The runs of shown lines, from the first of them upto the last.
AddsShown(shown, runs, i) ==
  IF i \notin shown THEN runs
  ELSE IF i - 1 \notin shown THEN Append(runs, [from |-> i, upto |-> i])
  ELSE [runs EXCEPT ![Len(runs)].upto = i]
Runs(script, shown) == FoldLeftDomain(LAMBDA runs, i : AddsShown(shown, runs, i), <<>>, script)

\* One hunk for each.
Hunks(script, shown) ==
  LET runs == Runs(script, shown)
  IN  [k \in DOMAIN runs |-> HunkOf(script, runs[k].from, runs[k].upto)]

\* The lines of the diff of one file.  An emptied line stands for a blank line
\* that is kept: mail and editors strip it.
Header(kind, path) == [kind |-> kind, path |-> path]
Rendered(l) ==
  IF l = Line(" ", Blank) THEN [kind |-> "empty"]
  ELSE IF l = Line("-", Dashes) THEN Header("---", Dashes)
  ELSE IF l.content \in Cut
       THEN [kind |-> "cut", line |-> Line(l.op, Halves[l.content].first), rest |-> Halves[l.content].rest]
  ELSE [kind |-> "line", line |-> l]
BodyOf(hunk) ==
  <<[kind |-> "@@", hunk |-> [hunk EXCEPT !.lines = <<>>]]>>
  \o [i \in DOMAIN hunk.lines |-> Rendered(hunk.lines[i])]
Diff(old, new, hunks) ==
  <<[kind |-> "git"], Header("---", old), Header("+++", new)>>
  \o FlattenSeq([k \in DOMAIN hunks |-> BodyOf(hunks[k])])
===============================================================================
