------------------------------ MODULE MCWorkspace ------------------------------
\* The files of a project for TLC.
EXTENDS FileService, StateDocs, Codegraph, TLC

CONSTANTS f1, f2, f3, f4, x, y, feed, fx  \* a form feed, alone and before an x

SmallInside == {<<f4, f3>>}
SmallHalves == feed :> [first |-> Blank, rest |-> Blank] @@ fx :> [first |-> Blank, rest |-> x]

\* A blank line at the end has a newline.
Text(lines, newline) == [lines |-> lines, newline |-> newline, crlf |-> FALSE]
SmallTexts ==
  {EmptyText, Text(<<feed>>, FALSE), Text(<<fx, x>>, TRUE), [Text(<<x, x>>, TRUE) EXCEPT !.crlf = TRUE]}
  \cup {Text(ls, TRUE) : ls \in UNION {[1..k -> {x, Blank}] : k \in 1..3}}
  \cup {Text(Append(ls, x), FALSE) : ls \in UNION {[1..k -> {x, Blank}] : k \in 0..2}}
On(a, b) == f1 :> a @@ f2 :> b @@ f3 :> None @@ f4 :> None
Here(content) == On(content, None)
SmallDisks ==
  {Here(t) : t \in SmallTexts}
  \cup {On(a, b) : a \in {None, Folder, Text(<<x>>, TRUE)}, b \in {None, Folder, Link, Text(<<x, Dashes>>, TRUE)}}
  \cup {[Here(None) EXCEPT ![f3] = Folder, ![f4] = a] : a \in {None, Folder, Text(<<x>>, TRUE)}}

SmallText == Text(<<y>>, TRUE)

\* Every script of up to three lines, and what of it may be shown.
Scripts(ops, contents, n) == UNION {[1..k -> {Line(o, l) : o \in ops, l \in contents}] : k \in 0..n}
Changed(script) == {i \in DOMAIN script : script[i].op \in {"+", "-"}}
FilePatch(old, new, script, shown) == [old |-> old, new |-> new, script |-> script, shown |-> shown]
OneFile ==
  UNION {{<<FilePatch(f1, f1, s, shown)>> : shown \in {r \in SUBSET DOMAIN s : Changed(s) \subseteq r}} :
           s \in Scripts({" ", "-", "+"}, {x, Blank}, 3) \cup Scripts({" ", "+"}, {x, feed, fx}, 2)}

AllShown(old, new, script) == FilePatch(old, new, script, DOMAIN script)
Adds == <<Line("+", y), Line("\\", Blank)>>
Changes == <<Line("-", x), Line("+", y)>>
SomeFiles ==
  {AllShown(None, f2, Adds), AllShown(f1, f1, Changes), AllShown(f1, f2, Changes), AllShown(f1, None, <<Line("-", x)>>),
   AllShown(None, None, Adds), AllShown(f2, f2, <<Line(" ", x), Line("-", Dashes)>>),
   AllShown(f2, f2, <<Line(" ", x), Line(" ", Dashes), Line("+", y)>>), AllShown(f2, None, <<>>)}
SmallPatches == OneFile \cup {<<e, f>> : e, f \in SomeFiles}

Budget(patches, calls, mishaps) == [patches |-> patches, calls |-> calls, mishaps |-> mishaps]
NoCalls == Budget(0, 0, 0)
SmallBudgets == {Budget(1, 0, 1), Budget(0, 2, 1), NoCalls}

------------------------------------------------------------------------------
\* A state document of the project

CONSTANTS top, h1, h2, x_, h_  \* an indented x, and what is a heading h2 without its indentation

Times(n, line) == [i \in 1..n |-> line]
SmallDocs ==
  UNION {[1..k -> {Heading(h1), Heading(h2), Heading(top), Plain(x), Plain(NoWords)}] : k \in 0..3}
  \cup {<<Plain(y)>> \o d : d \in [1..4 -> {Heading(h1), Heading(h2), Plain(x)}]} \cup {Times(10, Plain(x))}
  \cup UNION {[1..k -> {Heading(h1), Plain(x), Plain(x_), Plain(h_)}] : k \in 2..4}
Update(h, content) == [heading |-> h, content |-> content]
SmallUpdates ==
  {<<Update(h1, content)>> :
     content \in {<<>>, <<Plain(y)>>, <<Plain(NoWords), Plain(y), Plain(NoWords)>>, <<Plain(x), Heading(h2)>>,
                 <<Plain(x_), Plain(h_)>>, <<Plain(h_)>>}}
  \cup {<<Update(h2, <<Plain(y)>>), Update(h1, <<Plain(x), Plain(y)>>)>>, <<Update(top, <<Plain(y)>>)>>}

DocBudget(calls, mishaps) == [calls |-> calls, mishaps |-> mishaps]
SmallDocBudgets == {DocBudget(1, 0), DocBudget(2, 1), DocBudget(0, 0)}

SmallNewDocs == {<<Plain(y)>>, Times(9, Plain(y)), Times(10, Plain(y))}
SmallHeadings == {top, h1, h2}
SmallWords == {x, y, x_, h_}
SmallOutdented == x :> Plain(x) @@ y :> Plain(y) @@ x_ :> Plain(x) @@ h_ :> Heading(h2)

------------------------------------------------------------------------------
\* The code index of the project

CONSTANTS main, run

Function(name, calls) == [name |-> name, kind |-> "function", calls |-> calls]
Code(symbols) == [symbols |-> symbols]
Main == Code(<<Function(main, {run})>>)
Run == Code(<<Function(run, {})>>)
RunTwice == Code(<<Function(run, {run}), Function(run, {})>>)
RunClass == Code(<<[name |-> run, kind |-> "class", calls |-> {}], Function(main, {run})>>)

GraphBudget(queries, edits, asked, written) ==
  [queries |-> queries, edits |-> edits, asked |-> asked, written |-> written]
NoGraph == GraphBudget(0, 0, {}, {})
Query(op, name) == [op |-> op, name |-> name]
SmallGraphBudgets ==
  {GraphBudget(2, 2, {Query("context", run), Query("health", run)}, {Run, None}),
   GraphBudget(2, 1, {Query("context", main), Query("context", run), Query("references", run),
                      Query("path", main), Query("health", main)},
               {Main, Run, Bad, None}),
   NoGraph}

SmallFiles == {1, 2}
SmallCode == {Main, Run, RunTwice, RunClass}
SmallNames == {main, run}
SmallTrees == {1 :> a @@ 2 :> b : a \in {Main, RunClass, Bad, None}, b \in {Run, RunTwice, None}}

------------------------------------------------------------------------------
\* One of them is used in a behaviour.

NoCall == left = NoCalls /\ disk = Here(None)
NoChange == docLeft = DocBudget(0, 0) /\ doc = <<>>
NoQuery == graphLeft = NoGraph /\ source = 1 :> None @@ 2 :> None

FilesScope ==
  /\ NoChange /\ NoQuery /\ FileInit
  /\ left # NoCalls
  /\ left.patches = 0 => disk[f1] \in {None, Folder, Text(<<x>>, TRUE)}
  /\ left.patches > 0 => disk[f3] = None
DocScope ==
  /\ NoCall /\ NoQuery /\ DocInit
  /\ docLeft.calls > 0
  /\ docLeft.calls = 2 => doc \in {<<>>, <<Plain(y), Heading(h1), Plain(x), Heading(h2), Plain(x)>>}
GraphScope == NoCall /\ NoChange /\ GraphInit /\ graphLeft # NoGraph

StartInit == (FilesScope \/ DocScope \/ GraphScope) /\ FileInit /\ DocInit /\ GraphInit

StartNext ==
  \/ FileNext /\ UNCHANGED <<docVars, graphVars>>
  \/ DocNext /\ UNCHANGED <<fileVars, graphVars>>
  \/ GraphNext /\ UNCHANGED <<fileVars, docVars>>

StartSpec == StartInit /\ [][StartNext]_<<fileVars, docVars, graphVars>>

Symmetric == Permutations(Clients)

\* Every variable of the files, of the document and of the index keeps its type.
TypeOK == FileTypeOK /\ DocTypeOK /\ GraphTypeOK
================================================================================
