------------------------------- MODULE StateDocs -------------------------------
(***************************************************************************)
(* The state documents of a project (state_docs/): memory, roadmap and     *)
(* tasks are read, written, and patched section by section.  A patch reads *)
(* the document, and then writes it; a document is rewritten in place,     *)
(* empty in between.  Clients share no lock.  This is one document.        *)
(*                                                                         *)
(* A document is the sequence of its lines, as splitlines() finds them (a  *)
(* patch ends each with a line feed): headings, and other lines, without   *)
(* the space at their end but with their indentation.  Its length is the   *)
(* number of its lines.  A heading has a name with no space around it (one *)
(* without a name is written as a line of text).                           *)
(***************************************************************************)
EXTENDS Naturals, SequencesExt, Workspace

CONSTANTS
  Headings,      \* of which Body is spelled like the key of the lines before
  Body,
  Words, NoWords, \* what other lines say; NoWords is a blank line
  Outdented,     \* the line that a line becomes without its indentation
  Limit,         \* the length a document of this kind may have
  Docs,          \* what the document may be at first
  NewDocs,       \* what it may be written to
  Updates,       \* the section_updates of a patch: sequences of [heading, content]
  DocBudgets     \* bounds of a behaviour: [calls, mishaps]

VARIABLES
  doc,
  docAt,      \* where a client is in its call
  change,     \* the call, and the text it will write
  outcome,    \* "done", "refused", or None while it runs and after a crash
  docWas,     \* the document when the call began
  alone,      \* nobody else has been busy since then
  docLeft

docVars == <<doc, docAt, change, outcome, docWas, alone, docLeft>>

Heading(h) == [heading |-> h, text |-> None]
Plain(t) == [heading |-> None, text |-> t]
Blanks == Plain(NoWords)
DocLines == {Heading(h) : h \in Headings} \cup {Plain(t) : t \in Words \cup {NoWords}}

\* The updates of a patch are a dictionary: no heading has two.
ASSUME DocsAreLines ==
  /\ None \notin Headings \cup {"done", "refused"}
  /\ Outdented \in [Words -> DocLines \ {Blanks}]
  /\ \A w \in Words : Outdented[w].heading = None => Outdented[Outdented[w].text] = Outdented[w]
  /\ Docs \cup NewDocs \subseteq Seq(DocLines)
  /\ \A updates \in Updates :
       /\ updates \in Seq([heading : Headings, content : Seq(DocLines)])
       /\ \A i, k \in DOMAIN updates : updates[i].heading = updates[k].heading => i = k
  /\ Limit \in Nat

------------------------------------------------------------------------------
\* parse_state_document and patch_state_document

\* strip(): the lines from the first to the last that say something, and the
\* first without its indentation.
Outdent(line) == IF line.heading = None THEN Outdented[line.text] ELSE line
Stripped(text) ==
  LET said == {i \in DOMAIN text : text[i] # Blanks}
      first == CHOOSE i \in said : \A k \in said : i <= k
      last == CHOOSE i \in said : \A k \in said : k <= i
  IN  IF said = {} THEN <<>>
      ELSE <<Outdent(text[first])>> \o SubSeq(text, first + 1, last)

\* The headings in the order of their first lines, and what is under each,
\* wherever it is repeated; None is what comes before.
ReadsLine(st, line) ==
  IF line.heading = None THEN [st EXCEPT !.of[st.under] = Append(@, line)]
  ELSE [st EXCEPT !.under = line.heading,
                  !.order = IF Contains(@, line.heading) THEN @ ELSE Append(@, line.heading)]
Unread == [under |-> None, order |-> <<>>, of |-> [h \in Headings \cup {None} |-> <<>>]]
Sections(text) ==
  LET st == FoldLeft(ReadsLine, Unread, text)
  IN  [order |-> st.order, of |-> [h \in DOMAIN st.of |-> Stripped(st.of[h])]]

\* What comes before the first heading, which a heading may take the key of, and
\* the order of the others.
Popped(old) ==
  LET k == CHOOSE i \in DOMAIN old.order : old.order[i] = Body
  IN  IF Contains(old.order, Body) THEN [body |-> old.of[Body], order |-> RemoveAt(old.order, k)]
      ELSE [body |-> old.of[None], order |-> old.order]

Takes(create, hs, u) ==
  IF ~Contains(hs, u.heading) /\ create THEN Append(hs, u.heading) ELSE hs
Order(hs, updates, create) == FoldLeft(LAMBDA st, u : Takes(create, st, u), hs, updates)

\* Mutant: a heading that is not updated loses its lines.
KeepsNothing(old, updates, h) ==
  LET new == {u \in ToSet(updates) : u.heading = h}
  IN  IF new = {} THEN <<>> ELSE Stripped((CHOOSE u \in new : TRUE).content)
Content(old, updates, h) ==
  LET new == {u \in ToSet(updates) : u.heading = h}
  IN  IF new = {} THEN old[h] ELSE Stripped((CHOOSE u \in new : TRUE).content)

\* A part, after what there is and a blank line.
AddsPart(out, part) == IF out = <<>> THEN part ELSE out \o <<Blanks>> \o part
Section(old, updates, h) == <<Heading(h)>> \o Content(old, updates, h)

\* The document with its updates: the lines before the first heading, the
\* sections it had and the new ones.
Updated(text, updates, create) ==
  LET old == Sections(text)
      rest == Popped(old)
      order == Order(rest.order, updates, create)
  IN  Stripped(FoldLeft(AddsPart, rest.body, [k \in DOMAIN order |-> Section(old.of, updates, order[k])]))

------------------------------------------------------------------------------
\* The service

DocInit ==
  /\ doc \in Docs
  /\ docAt = [c \in Clients |-> "idle"] /\ change = [c \in Clients |-> None]
  /\ outcome = [c \in Clients |-> None]
  /\ docWas = [c \in Clients |-> doc] /\ alone = [c \in Clients |-> FALSE]
  /\ docLeft \in DocBudgets

Begin(c, request, first) ==
  /\ docLeft.calls > 0 /\ docLeft' = [docLeft EXCEPT !.calls = @ - 1]
  /\ docAt' = [docAt EXCEPT ![c] = first]
  /\ change' = [change EXCEPT ![c] = request]
  /\ outcome' = [outcome EXCEPT ![c] = None]
  /\ docWas' = [docWas EXCEPT ![c] = doc]
  /\ alone' = [e \in Clients |-> e = c /\ \A f \in Clients : docAt[f] = "idle"]
  /\ UNCHANGED doc

End(c, result) ==
  /\ docAt' = [docAt EXCEPT ![c] = "idle"]
  /\ outcome' = [outcome EXCEPT ![c] = result]

\* ensure_within_limit, and on to the file.
ToFile(c, text) ==
  IF Len(text) > Limit THEN End(c, "refused") /\ UNCHANGED change
  ELSE /\ docAt' = [docAt EXCEPT ![c] = "open"]
       /\ change' = [change EXCEPT ![c].text = text]
       /\ UNCHANGED outcome

WritesDoc(c) ==
  /\ docAt[c] = "idle"
  /\ \E text \in NewDocs :
       Begin(c, [op |-> "write", updates |-> <<>>, create |-> FALSE, text |-> text], "check")

ChecksDoc(c) ==
  /\ docAt[c] = "check"
  /\ ToFile(c, change[c].text)
  /\ UNCHANGED <<doc, docWas, alone, docLeft>>

PatchesDoc(c) ==
  /\ docAt[c] = "idle"
  /\ \E updates \in Updates, create \in BOOLEAN :
       Begin(c, [op |-> "patch", updates |-> updates, create |-> create, text |-> <<>>], "read")

ReadsDoc(c) ==
  /\ docAt[c] = "read"
  /\ ToFile(c, Updated(doc, change[c].updates, change[c].create))
  /\ UNCHANGED <<doc, docWas, alone, docLeft>>

\* write_text
EmptiesDoc(c) ==
  /\ docAt[c] = "open" /\ docAt' = [docAt EXCEPT ![c] = "fill"]
  /\ doc' = <<>>
  /\ UNCHANGED <<change, outcome, docWas, alone, docLeft>>

\* Whoever opened it at the same time left what is longer.
FillsDoc(c) ==
  /\ docAt[c] = "fill"
  /\ doc' = change[c].text \o SubSeq(doc, Len(change[c].text) + 1, Len(doc))
  /\ End(c, "done")
  /\ UNCHANGED <<change, docWas, alone, docLeft>>

\* The process dies, or write_text raises.
DocDies(c) ==
  /\ docAt[c] # "idle" /\ docAt' = [docAt EXCEPT ![c] = "idle"]
  /\ docLeft.mishaps > 0 /\ docLeft' = [docLeft EXCEPT !.mishaps = @ - 1]
  /\ UNCHANGED <<doc, change, outcome, docWas, alone>>

DocStep(c) ==
  \/ WritesDoc(c) \/ ChecksDoc(c) \/ PatchesDoc(c) \/ ReadsDoc(c) \/ EmptiesDoc(c) \/ FillsDoc(c)
  \/ DocDies(c)

DocNext == \E c \in Clients : DocStep(c)

DocSpec == DocInit /\ [][DocNext]_docVars

------------------------------------------------------------------------------
\* Properties

DocSteps == {"idle", "check", "read", "open", "fill"}
DocCalls == [op : {"write", "patch"}, updates : Updates \cup {<<>>}, create : BOOLEAN, text : Seq(DocLines)]

\* A client has a call while it is busy, and no outcome yet.
DocTypeOK ==
  /\ doc \in Seq(DocLines) /\ docWas \in [Clients -> Seq(DocLines)]
  /\ docAt \in [Clients -> DocSteps] /\ change \in [Clients -> DocCalls \cup {None}]
  /\ outcome \in [Clients -> {None, "done", "refused"}] /\ alone \in [Clients -> BOOLEAN]
  /\ \A c \in Clients :
       /\ docAt[c] # "idle" \/ alone[c] =>
            change[c] \in DocCalls /\ (change[c].op = "patch" => change[c].updates \in Updates)
       /\ docAt[c] = "read" => change[c].op = "patch"
       /\ docAt[c] # "idle" => outcome[c] = None

Headed(updates) == {updates[i].heading : i \in DOMAIN updates}

\* No heading is like the key of the lines before the first one, and strip() makes
\* no heading of the first line of a section or of an update.
Sound(text, updates) ==
  LET of == Sections(text).of IN
  /\ Body \notin Headed(updates) \cup {text[i].heading : i \in DOMAIN text}
  /\ \A part \in {of[h] : h \in DOMAIN of} \cup {Stripped(u.content) : u \in ToSet(updates)} :
       \A i \in DOMAIN part : part[i].heading = None

Patched(c) ==
  docAt[c] = "idle" /\ alone[c] /\ outcome[c] = "done" /\ change[c].op = "patch"

\* state_docs/service.py:60-69 and parser.py:40-55: a patch leaves the lines
\* before the first heading and the sections it does not name as they were, but
\* for the indentation of their first lines, and in their order, and sets the
\* ones it names.
PatchKeepsOtherSections ==
  \A c \in Clients :
    (Patched(c) /\ Sound(docWas[c], change[c].updates)) =>
      LET old == Sections(docWas[c])
          new == Sections(doc)
          named == Headed(change[c].updates)
          added == IF change[c].create THEN named \ ToSet(old.order) ELSE {}
      IN  /\ SubSeq(new.order, 1, Len(old.order)) = old.order
          /\ ToSet(new.order) = ToSet(old.order) \cup added
          /\ \A h \in DOMAIN old.of \ named : new.of[h] = old.of[h]
          /\ \A u \in ToSet(change[c].updates) :
               u.heading \in ToSet(new.order) => new.of[u.heading] = Stripped(u.content)

\* A patch that is sent again, because its answer was lost, changes nothing.
RetriedPatchChangesNothing ==
  \A c \in Clients :
    (Patched(c) /\ Sound(docWas[c], change[c].updates)) =>
      Updated(doc, change[c].updates, change[c].create) = doc

\* state_docs/limits.py: whoever writes and patches at the same time, and
\* whoever dies, the document does not outgrow its limit; one that was too long
\* at first stays as it was until a call succeeds.
DocStaysWithinLimit ==
  Len(doc) <= Limit \/ (doc \in Docs /\ \A c \in Clients : outcome[c] # "done")

\* Patches change what they name, once, and within the limit.
PatchesKeepDocuments == PatchKeepsOtherSections /\ RetriedPatchChangesNothing /\ DocStaysWithinLimit
================================================================================
