------------------------------- MODULE Codegraph -------------------------------
(***************************************************************************)
(* The code index of one project with watched paths (codegraph/).  A query *)
(* takes the last snapshot if the state token, the sizes and times of the  *)
(* watched files, is still the one it was recorded with; otherwise it      *)
(* reads the files and records a new one.  What the snapshot does not know *)
(* is looked up in the files.  Files are read one after another, without a *)
(* lock, while people edit them.                                           *)
(*                                                                         *)
(* A text is what ast makes of it: its symbols in order, [name, kind,      *)
(* calls]; calls outside of them are left out.  A stamp stands for size    *)
(* and time; no two texts of a file have the same.  Nodes and edges of a   *)
(* snapshot follow from the texts it was built from.  `fresh`, `late` and  *)
(* `gone` are history.                                                     *)
(***************************************************************************)
EXTENDS Naturals, FiniteSets, Workspace

CONSTANTS
  Files,        \* numbers in the order of their paths, and of the directory
  Texts,        \* what they may say; Bad does not parse
  Names,
  StartTexts,   \* what the files may say at first
  GraphBudgets  \* [queries, edits, asked, written] of a behaviour: how often
                \* somebody asks and edits, what is asked, what is written

Queries == [op : {"context", "references", "path", "health"}, name : Names]

ASSUME FilesAreNumbers == Files \subseteq Nat
ASSUME NothingIsNoText == {None, Bad} \cap Texts = {}
ASSUME FilesSayTexts == StartTexts \subseteq [Files -> Texts \cup {Bad, None}]
ASSUME BudgetsAreKnown ==
  GraphBudgets \subseteq [queries : Nat, edits : Nat, asked : SUBSET Queries,
                         written : SUBSET (Texts \cup {Bad, None})]

VARIABLES
  source,    \* the text of each file, or None
  stamps,    \* its stamp; 0 when there is no file
  clock,     \* the last stamp given
  snapshot,  \* [texts, token], or None
  step,      \* where a client is in its call
  query,     \* the call
  cached,    \* the snapshot it found
  token, texts, unread,  \* what it has read, and the files it has not
  reply,
  fresh,     \* no file was edited since the call began
  late,      \* files that came while a call was under way
  gone,      \* those of them that went again
  graphLeft

files == <<source, stamps, clock>>
frame == <<query, cached, token, texts, unread>>
graphVars == <<files, snapshot, step, frame, reply, fresh, late, gone, graphLeft>>

NoTexts == [f \in Files |-> None]
NoToken == [f \in Files |-> 0]
Present == {f \in Files : source[f] # None}
First(fs) == CHOOSE f \in fs : \A e \in fs : f <= e

------------------------------------------------------------------------------
\* What a snapshot built from texts knows: build_index_snapshot and the queries
\* of the service.

Symbols(ts) ==
  UNION {{[file |-> f, place |-> k, name |-> ts[f].symbols[k].name, kind |-> ts[f].symbols[k].kind] :
            k \in DOMAIN ts[f].symbols} : f \in {e \in Files : ts[e] # None}}
CallsOf(ts, s) == IF s.kind = "class" THEN {} ELSE ts[s.file].symbols[s.place].calls
Before(s, t) == s.file < t.file \/ (s.file = t.file /\ s.place < t.place)
FirstOf(ss) == CHOOSE s \in ss : \A t \in ss : s = t \/ Before(s, t)
LastOf(ss) == CHOOSE s \in ss : \A t \in ss : s = t \/ Before(t, s)
Named(ts, name) == {s \in Symbols(ts) : s.name = name}

\* Symbols of one file that have the same name share their identifier.
SameIdentifier(ts, s) == {t \in Symbols(ts) : t.file = s.file /\ t.name = s.name}

Found(symbols) == [found |-> symbols, callers |-> {}, callees |-> {}, raised |-> FALSE]
Raised == [Found({}) EXCEPT !.raised = TRUE]

CallSites(ts, name) == {s \in Symbols(ts) : name \in CallsOf(ts, s)}

\* An edge leads back to the first symbol with its identifier, and on to the
\* first one with the name it calls.
CallPath(ts, name) ==
  LET definition == FirstOf(Named(ts, name))
      called == UNION {CallsOf(ts, t) : t \in SameIdentifier(ts, definition)}
  IN  [Found({definition}) EXCEPT
         !.callers = {FirstOf(SameIdentifier(ts, s)) : s \in CallSites(ts, name)},
         !.callees = {FirstOf(Named(ts, other)) : other \in {n \in called : Named(ts, n) # {}}}]

\* The answer of a snapshot; None when it knows nothing.
FromSnapshot(ts, q) ==
  CASE q.op = "references" /\ CallSites(ts, q.name) # {} -> Found(CallSites(ts, q.name))
    [] q.op = "context" /\ Named(ts, q.name) # {} -> Found(Named(ts, q.name))
    [] q.op = "path" /\ Named(ts, q.name) # {} -> CallPath(ts, q.name)
    [] OTHER -> None

------------------------------------------------------------------------------
\* What the provider finds in the files: call_path knows a name by its last
\* symbol, and find_references is a search for the word.

Indexed(ts) == {LastOf(Named(ts, n)) : n \in {s.name : s \in Symbols(ts)}}

ProviderCallPath(ts, name) ==
  LET target == LastOf(Named(ts, name))
  IN  [Found({target}) EXCEPT
         !.callers = {s \in Indexed(ts) : s.name # name /\ name \in CallsOf(ts, s)},
         !.callees = {s \in Indexed(ts) : s.name \in CallsOf(ts, target)}]

FromFiles(ts, q) ==
  CASE q.op = "references" -> Found(CallSites(ts, q.name) \cup Named(ts, q.name))
    [] q.op = "context" -> IF Named(ts, q.name) = {} THEN Raised ELSE Found(Named(ts, q.name))
    [] OTHER -> IF Named(ts, q.name) = {} THEN Raised ELSE ProviderCallPath(ts, q.name)

------------------------------------------------------------------------------
\* The service

GraphInit ==
  /\ source \in StartTexts
  /\ stamps = [f \in Files |-> IF source[f] = None THEN 0 ELSE 1] /\ clock = 1
  /\ snapshot = None
  /\ step = [c \in Clients |-> "idle"] /\ query = [c \in Clients |-> None]
  /\ cached = [c \in Clients |-> None]
  /\ token = [c \in Clients |-> NoToken] /\ texts = [c \in Clients |-> NoTexts]
  /\ unread = [c \in Clients |-> {}]
  /\ reply = [c \in Clients |-> None] /\ fresh = [c \in Clients |-> FALSE]
  /\ late = {} /\ gone = {} /\ graphLeft \in GraphBudgets

GoesOn(c, there) == step' = [step EXCEPT ![c] = there]
Stays == UNCHANGED <<files, fresh, late, gone, graphLeft>>

Returns(c, result) ==
  /\ GoesOn(c, "idle")
  /\ reply' = [reply EXCEPT ![c] = result]
  /\ cached' = [cached EXCEPT ![c] = None]
  /\ token' = [token EXCEPT ![c] = NoToken] /\ texts' = [texts EXCEPT ![c] = NoTexts]
  /\ unread' = [unread EXCEPT ![c] = {}]
  /\ UNCHANGED <<query, snapshot>> /\ Stays

\* get_snapshot
Asks(c) ==
  /\ step[c] = "idle" /\ graphLeft.queries > 0 /\ graphLeft' = [graphLeft EXCEPT !.queries = @ - 1]
  /\ \E q \in graphLeft.asked : query' = [query EXCEPT ![c] = q]
  /\ cached' = [cached EXCEPT ![c] = snapshot]
  /\ unread' = [unread EXCEPT ![c] = Files]
  /\ GoesOn(c, "token")
  /\ reply' = [reply EXCEPT ![c] = None]
  /\ fresh' = [fresh EXCEPT ![c] = TRUE]
  /\ UNCHANGED <<files, snapshot, token, texts, late, gone>>

\* compute_state_token: watcher_health does without when nothing is indexed.
ReadsStamp(c) ==
  /\ step[c] = "token"
  /\ \E f \in unread[c] :
       /\ token' = [token EXCEPT ![c][f] = stamps[f]]
       /\ unread' = [unread EXCEPT ![c] = @ \ {f}]
  /\ UNCHANGED <<snapshot, step, query, cached, texts, reply>> /\ Stays

Current(c) == cached[c] # None /\ cached[c].token = token[c]

Compares(c) ==
  /\ step[c] = "token" /\ unread[c] = {}
  /\ \/ /\ query[c].op = "health"
        /\ Returns(c, IF Current(c) THEN Found(Symbols(cached[c].texts)) ELSE Raised)
     \/ /\ query[c].op # "health"
        /\ IF Current(c) THEN GoesOn(c, "answer") /\ texts' = [texts EXCEPT ![c] = cached[c].texts] /\ UNCHANGED unread
           ELSE GoesOn(c, "build") /\ unread' = [unread EXCEPT ![c] = Present] /\ UNCHANGED texts
        /\ UNCHANGED <<snapshot, query, cached, token, reply>> /\ Stays

\* A search does not find the words of a text that does not parse here.
Syntax(f) == IF source[f] = Bad THEN None ELSE source[f]

\* The index lists the files before it reads them; a query of the files lists
\* them as it goes, and skips what is gone unless it had just looked.  A search
\* by word parses nothing.
ReadsFile(c) ==
  /\ step[c] \in {"build", "scan"} /\ unread[c] # {}
  /\ LET f == First(unread[c])
         search == step[c] = "scan" /\ query[c].op = "references"
     IN  \/ source[f] \in {None, Bad} /\ ~search /\ Returns(c, Raised)
         \/ /\ source[f] \notin {None, Bad} \/ search \/ (source[f] = None /\ step[c] = "scan")
            /\ texts' = [texts EXCEPT ![c][f] = Syntax(f)]
            /\ unread' = [unread EXCEPT ![c] = @ \ {f}]
            /\ UNCHANGED <<snapshot, step, query, cached, token, reply>> /\ Stays

\* Mutant: the token is computed when the snapshot is recorded.
RecordsLate(c) ==
  /\ step[c] = "build" /\ unread[c] = {}
  /\ snapshot' = [texts |-> texts[c], token |-> stamps]
  /\ GoesOn(c, "answer")
  /\ UNCHANGED <<frame, reply>> /\ Stays

Records(c) ==
  /\ step[c] = "build" /\ unread[c] = {}
  /\ snapshot' = [texts |-> texts[c], token |-> token[c]]
  /\ GoesOn(c, "answer")
  /\ UNCHANGED <<frame, reply>> /\ Stays

Answers(c) ==
  /\ step[c] = "answer"
  /\ LET known == FromSnapshot(texts[c], query[c]) IN
     IF known # None THEN Returns(c, known)
     ELSE /\ GoesOn(c, "scan")
          /\ unread' = [unread EXCEPT ![c] = Present]
          /\ texts' = [texts EXCEPT ![c] = NoTexts]
          /\ UNCHANGED <<snapshot, query, cached, token, reply>> /\ Stays

Concludes(c) ==
  /\ step[c] = "scan" /\ unread[c] = {}
  /\ Returns(c, FromFiles(texts[c], query[c]))

\* Somebody writes, or removes, a file.
SomebodyAsks == \E c \in Clients : step[c] # "idle"
EditsFile ==
  /\ graphLeft.edits > 0 /\ graphLeft' = [graphLeft EXCEPT !.edits = @ - 1]
  /\ clock' = clock + 1
  /\ \E f \in Files, t \in graphLeft.written :
       /\ t # source[f]
       /\ source' = [source EXCEPT ![f] = t]
       /\ stamps' = [stamps EXCEPT ![f] = IF t = None THEN 0 ELSE clock + 1]
       /\ late' = IF SomebodyAsks /\ source[f] = None THEN late \cup {f} ELSE late
       /\ gone' = IF t = None /\ f \in late THEN gone \cup {f} ELSE gone
  /\ fresh' = [c \in Clients |-> FALSE]
  /\ UNCHANGED <<snapshot, step, frame, reply>>

GraphStep(c) ==
  \/ Asks(c) \/ ReadsStamp(c) \/ Compares(c) \/ ReadsFile(c) \/ Records(c) \/ Answers(c) \/ Concludes(c)

GraphNext == EditsFile \/ \E c \in Clients : GraphStep(c)

GraphSpec == GraphInit /\ [][GraphNext]_graphVars

------------------------------------------------------------------------------
\* Properties

\* Every variable keeps its type.
GraphTypeOK ==
  /\ source \in [Files -> Texts \cup {Bad, None}] /\ stamps \in [Files -> 0..clock] /\ clock \in Nat
  /\ snapshot # None => snapshot.texts \in [Files -> Texts \cup {None}]
                        /\ snapshot.token \in [Files -> 0..clock]
  /\ step \in [Clients -> {"idle", "token", "build", "answer", "scan"}]
  /\ token \in [Clients -> [Files -> 0..clock]]
  /\ texts \in [Clients -> [Files -> Texts \cup {None}]]
  /\ unread \in [Clients -> SUBSET Files]

\* codegraph/service.py:185-200: a snapshot whose token is that of the files was
\* built from what they say, whatever was edited while it was built and whoever
\* else recorded one.  A file that came after the token was computed and went
\* again is not noticed.
TokenVouches ==
  (gone = {} /\ snapshot # None /\ snapshot.token = stamps) => snapshot.texts = source

Answered(c, op) == step[c] = "idle" /\ fresh[c] /\ reply[c] # None /\ query[c].op = op /\ gone = {}

\* service.py:153-177: watcher_health says "indexed", and counts, only what the files
\* say now.
HealthIsHonest ==
  \A c \in Clients :
    (Answered(c, "health") /\ ~reply[c].raised) =>
      Bad \notin {source[f] : f \in Files} /\ reply[c].found = Symbols(source)

\* service.py:37-97: an answer is about the files as they are, when nobody
\* edited them meanwhile, whether it comes from a snapshot or from the files:
\* the definitions of a name, every function that calls it, and the way of
\* calls, which the two know the same of when no name has two symbols.
AnswersAreCurrent ==
  LET intact == Bad \notin {source[f] : f \in Files}
      unique == \A s, t \in Symbols(source) : s.name = t.name => s = t
      beside(ss, name) == {s \in ss : s.name # name}
  IN  \A c \in Clients :
        LET name == query[c].name IN
        /\ (Answered(c, "context") /\ intact) =>
             IF Named(source, name) = {} THEN reply[c].raised ELSE reply[c].found = Named(source, name)
        /\ (Answered(c, "references") /\ intact) => CallSites(source, name) \subseteq reply[c].found
        /\ (Answered(c, "path") /\ intact /\ unique) =>
             IF Named(source, name) = {} THEN reply[c].raised
             ELSE LET path == ProviderCallPath(source, name) IN
                  /\ reply[c].found = path.found /\ reply[c].callees = path.callees
                  /\ beside(reply[c].callers, name) = path.callers

\* Snapshot, health and answers agree with the files (codegraph/service.py:37-200).
IndexIsHonest == TokenVouches /\ HealthIsHonest /\ AnswersAreCurrent
================================================================================
