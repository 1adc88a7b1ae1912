---------------------------- MODULE WorkspaceProofs ----------------------------
(***************************************************************************)
(* That the code index is honest, for any number of clients, files, texts  *)
(* and edits: a snapshot whose token is that of the files was built from   *)
(* them, and an answer that nobody disturbed is about the files as they    *)
(* are.  The argument: a stamp is given once, so a file whose stamp is the *)
(* one in a token has not changed since the token was read (Vouched); what *)
(* a call has read while nobody edited is what the files say (Following).  *)
(*                                                                         *)
(* That patches keep a state document, for any number of clients, any      *)
(* lines and any updates.  The argument: what is written section by        *)
(* section is read back as these sections (WrittenIsRead), so a document   *)
(* that is updated has the sections it had, with the updates (UpdatedIs);  *)
(* and a patch that has the document to itself finds it, empties it and    *)
(* fills it as it was bound to (DocInv).  In these lemmas o and r are      *)
(* headings in their order, and f, g, a and e say what is under each.      *)
(*                                                                         *)
(* And that files, documents and index keep their types beside each other. *)
(***************************************************************************)
EXTENDS MCWorkspace, FileServiceProofs

Steps == {"idle", "token", "build", "answer", "scan"}
Tokens == [Files -> 0..clock]
Trees == [Files -> Texts \cup {None}]
IsSnapshot(s) == s # None => s.texts \in Trees /\ s.token \in Tokens

Types ==
  /\ source \in [Files -> Texts \cup {Bad, None}] /\ clock \in Nat /\ stamps \in Tokens
  /\ \A f \in Files : stamps[f] = 0 <=> source[f] = None
  /\ step \in [Clients -> Steps] /\ query \in [Clients -> Queries \cup {None}]
  /\ token \in [Clients -> Tokens] /\ texts \in [Clients -> Trees]
  /\ unread \in [Clients -> SUBSET Files] /\ fresh \in [Clients -> BOOLEAN]
  /\ cached = [c \in Clients |-> cached[c]] /\ reply = [c \in Clients |-> reply[c]]
  /\ IsSnapshot(snapshot) /\ \A c \in Clients : IsSnapshot(cached[c])
  /\ graphLeft \in [queries : Nat, edits : Nat, asked : SUBSET Queries,
                    written : SUBSET (Texts \cup {Bad, None})]
  /\ \A c \in Clients :
       /\ step[c] # "idle" => query[c] \in Queries
       /\ step[c] \in {"build", "answer", "scan"} => query[c].op # "health"
       /\ step[c] \in {"idle", "token"} => texts[c] = NoTexts

\* What a token says of the texts that were read after it.
Vouches(tk, ts, f) ==
  /\ tk[f] = stamps[f] => ts[f] = source[f]
  /\ tk[f] = 0 /\ ts[f] # None => f \in late

\* A file without a stamp in the token of a call came while the call was under way.
CameLate(c, f) == token[c][f] = 0 /\ source[f] # None => f \in late

Vouched ==
  gone = {} =>
    /\ snapshot # None => \A f \in Files : Vouches(snapshot.token, snapshot.texts, f)
    /\ \A c \in Clients : \A f \in Files :
         /\ cached[c] # None => Vouches(cached[c].token, cached[c].texts, f)
         /\ step[c] = "token" /\ f \notin unread[c] => CameLate(c, f)
         /\ step[c] = "build" =>
              IF f \in unread[c] THEN CameLate(c, f) ELSE Vouches(token[c], texts[c], f)

\* What a call has read that nobody disturbed.
Follows(c) ==
  /\ step[c] = "token" => \A f \in Files \ unread[c] : token[c][f] = stamps[f]
  /\ step[c] \in {"build", "scan"} => unread[c] \subseteq Present
  /\ step[c] = "build" => \A f \in Files \ unread[c] : texts[c][f] = source[f]
  /\ step[c] = "answer" /\ gone = {} => texts[c] = source
  /\ step[c] = "scan" => \A f \in Files \ unread[c] : texts[c][f] = Syntax(f)

Following == \A c \in Clients : fresh[c] => Follows(c)

\* What an answer has to say of the files.
Intact(src) == \A f \in Files : src[f] # Bad
Unique(src) == \A s, t \in Symbols(src) : s.name = t.name => s = t
SaysPath(src, name, path) ==
  LET way == ProviderCallPath(src, name)
  IN  /\ path.found = way.found /\ path.callees = way.callees
      /\ {s \in path.callers : s.name # name} = way.callers
Right(src, q, a) ==
  /\ q.op = "health" /\ ~a.raised => Intact(src) /\ a.found = Symbols(src)
  /\ q.op = "context" /\ Intact(src) =>
       IF Named(src, q.name) = {} THEN a.raised ELSE a.found = Named(src, q.name)
  /\ q.op = "references" /\ Intact(src) => CallSites(src, q.name) \subseteq a.found
  /\ q.op = "path" /\ Intact(src) /\ Unique(src) =>
       IF Named(src, q.name) = {} THEN a.raised ELSE SaysPath(src, q.name, a)

Honest ==
  \A c \in Clients :
    step[c] = "idle" /\ fresh[c] /\ reply[c] # None /\ gone = {} =>
      Right(source, query[c], reply[c])

GraphInv == Types /\ Vouched /\ Following /\ Honest

------------------------------------------------------------------------------
\* What the answers say

\* Where no two symbols have one name, a name leads to its one symbol.
LEMMA OneOfAName ==
  ASSUME NEW src, Unique(src), NEW s \in Symbols(src)
  PROVE  /\ Named(src, s.name) = {s} /\ SameIdentifier(src, s) = {s}
         /\ FirstOf({s}) = s /\ LastOf({s}) = s
<1>1. Named(src, s.name) = {s}
  BY DEF Named, Unique
<1>2. SameIdentifier(src, s) = {s}
  BY DEF SameIdentifier, Unique
<1>3. FirstOf({s}) = s /\ LastOf({s}) = s
  BY DEF FirstOf, LastOf
<1> QED
  BY <1>1, <1>2, <1>3

\* The path of calls in a snapshot is that in the files (service.py:72-97,
\* providers.py).
LEMMA PathsAgree ==
  ASSUME NEW src, Unique(src), NEW name, Named(src, name) # {}
  PROVE  SaysPath(src, name, CallPath(src, name))
<1>1. PICK d \in Symbols(src) : d.name = name
  BY DEF Named
<1>2. Named(src, name) = {d} /\ FirstOf(Named(src, name)) = d /\ LastOf(Named(src, name)) = d
  BY <1>1, OneOfAName
<1>3. SameIdentifier(src, d) = {d}
  BY OneOfAName
<1>4. Indexed(src) = Symbols(src)
  <2>1. \A s \in Symbols(src) : LastOf(Named(src, s.name)) = s
    BY OneOfAName
  <2> QED
    BY <2>1 DEF Indexed
<1> DEFINE called == UNION {CallsOf(src, t) : t \in SameIdentifier(src, d)}
           way == ProviderCallPath(src, name)
           path == CallPath(src, name)
<1>5. called = CallsOf(src, d)
  BY <1>3
<1>6. {FirstOf(SameIdentifier(src, s)) : s \in CallSites(src, name)} = CallSites(src, name)
  <2>1. \A s \in CallSites(src, name) : FirstOf(SameIdentifier(src, s)) = s
    BY OneOfAName DEF CallSites
  <2> QED
    BY <2>1
<1>7. {FirstOf(Named(src, other)) : other \in {n \in called : Named(src, n) # {}}}
        = {s \in Indexed(src) : s.name \in CallsOf(src, d)}
  <2> DEFINE L == {FirstOf(Named(src, other)) : other \in {n \in called : Named(src, n) # {}}}
             R == {s \in Indexed(src) : s.name \in CallsOf(src, d)}
  <2>1. ASSUME NEW other \in called, Named(src, other) # {}
        PROVE  FirstOf(Named(src, other)) \in R
    <3>1. PICK s \in Symbols(src) : s.name = other
      BY <2>1 DEF Named
    <3>2. FirstOf(Named(src, other)) = s
      BY <3>1, OneOfAName
    <3> QED
      BY <1>4, <1>5, <3>1, <3>2
  <2>2. ASSUME NEW s \in R
        PROVE  s \in L
    <3>1. s \in Symbols(src) /\ s.name \in called
      BY <1>4, <1>5
    <3>2. Named(src, s.name) = {s} /\ FirstOf(Named(src, s.name)) = s
      BY <3>1, OneOfAName
    <3> QED
      BY <3>1, <3>2
  <2>3. L \subseteq R /\ R \subseteq L
    BY <2>1, <2>2
  <2> QED
    BY <2>3
<1>8. /\ path.found = {d} /\ path.callers = CallSites(src, name)
      /\ path.callees = {FirstOf(Named(src, other)) : other \in {n \in called : Named(src, n) # {}}}
  BY <1>2, <1>6 DEF CallPath, Found
<1>9. /\ way.found = {d}
      /\ way.callers = {s \in Indexed(src) : s.name # name /\ name \in CallsOf(src, s)}
      /\ way.callees = {s \in Indexed(src) : s.name \in CallsOf(src, d)}
  BY <1>2 DEF ProviderCallPath, Found
<1>10. {s \in CallSites(src, name) : s.name # name}
         = {s \in Indexed(src) : s.name # name /\ name \in CallsOf(src, s)}
  BY <1>4 DEF CallSites
<1> QED
  BY <1>7, <1>8, <1>9, <1>10 DEF SaysPath

\* What a snapshot of the files answers is right (service.py:37-97).
LEMMA SnapshotsAnswer ==
  ASSUME NEW src, NEW q \in Queries, q.op # "health", FromSnapshot(src, q) # None
  PROVE  Right(src, q, FromSnapshot(src, q))
<1>1. q.op \in {"context", "references", "path"}
  BY DEF Queries
<1>2. CASE q.op = "context"
  <2>1. Named(src, q.name) # {} /\ FromSnapshot(src, q) = Found(Named(src, q.name))
    BY <1>2 DEF FromSnapshot
  <2> QED
    BY <1>2, <2>1 DEF Right, Found
<1>3. CASE q.op = "references"
  <2>1. FromSnapshot(src, q) = Found(CallSites(src, q.name))
    BY <1>3 DEF FromSnapshot
  <2> QED
    BY <1>3, <2>1 DEF Right, Found
<1>4. CASE q.op = "path"
  <2>1. Named(src, q.name) # {} /\ FromSnapshot(src, q) = CallPath(src, q.name)
    BY <1>4 DEF FromSnapshot
  <2> QED
    BY <1>4, <2>1, PathsAgree DEF Right
<1> QED
  BY <1>1, <1>2, <1>3, <1>4

\* What the provider finds in the files is right (providers.py).
LEMMA FilesAnswer ==
  ASSUME NEW src, NEW q \in Queries, q.op # "health"
  PROVE  Right(src, q, FromFiles(src, q))
<1>1. q.op \in {"context", "references", "path"}
  BY DEF Queries
<1>2. CASE q.op = "context"
  BY <1>2 DEF FromFiles, Right, Found, Raised
<1>3. CASE q.op = "references"
  BY <1>3 DEF FromFiles, Right, Found
<1>4. CASE q.op = "path"
  <2>1. CASE Named(src, q.name) = {}
    BY <1>4, <2>1 DEF FromFiles, Right, Found, Raised
  <2>2. CASE Named(src, q.name) # {}
    <3>1. FromFiles(src, q) = ProviderCallPath(src, q.name)
      BY <1>4, <2>2 DEF FromFiles
    <3>2. SaysPath(src, q.name, ProviderCallPath(src, q.name))
      BY DEF SaysPath, ProviderCallPath, Found
    <3> QED
      BY <1>4, <2>2, <3>1, <3>2 DEF Right
  <2> QED
    BY <2>1, <2>2
<1> QED
  BY <1>1, <1>2, <1>3, <1>4

\* To raise is right when a file does not parse, and says nothing of health.
LEMMA RaisingIsRight ==
  ASSUME NEW src, NEW q, q.op = "health" \/ ~Intact(src)
  PROVE  Right(src, q, Raised)
BY DEF Right, Raised, Found

------------------------------------------------------------------------------
\* The steps

\* The first file of some is one of them.
LEMMA FirstIsThere ==
  ASSUME NEW fs, fs \subseteq Files, fs # {}
  PROVE  First(fs) \in fs
<1>1. fs \subseteq Nat
  BY FilesAreNumbers
<1> QED
  BY <1>1, LeastNumber DEF First, Least

\* Before anybody asks or edits.
LEMMA InitInv == GraphInit => GraphInv
<1> SUFFICES ASSUME GraphInit PROVE GraphInv
  OBVIOUS
<1> USE DEF GraphInit
<1>1. Types
  <2>1. source \in [Files -> Texts \cup {Bad, None}]
    BY FilesSayTexts
  <2>2. clock = 1 /\ stamps \in Tokens /\ \A f \in Files : stamps[f] = 0 <=> source[f] = None
    BY <2>1 DEF Tokens
  <2>3. NoToken \in Tokens /\ NoTexts \in Trees
    BY <2>2 DEF NoToken, NoTexts, Tokens, Trees
  <2>4. graphLeft \in [queries : Nat, edits : Nat, asked : SUBSET Queries,
                       written : SUBSET (Texts \cup {Bad, None})]
    BY BudgetsAreKnown
  <2> QED
    BY <2>1, <2>2, <2>3, <2>4 DEF Types, Steps, IsSnapshot
<1>2. Vouched
  BY DEF Vouched
<1>3. Following
  BY DEF Following
<1>4. Honest
  BY DEF Honest
<1> QED
  BY <1>1, <1>2, <1>3, <1>4 DEF GraphInv

\* A call that returns what is right.
LEMMA ReturnsInv ==
  ASSUME GraphInv, NEW c \in Clients, NEW r, step[c] # "idle", Returns(c, r),
         fresh[c] /\ gone = {} => Right(source, query[c], r)
  PROVE  GraphInv'
<1> USE DEF Returns, GoesOn, Stays, files
<1>1. Types'
  <2>1. NoToken \in Tokens /\ NoTexts \in Trees
    BY DEF GraphInv, Types, NoToken, NoTexts, Tokens, Trees
  <2> QED
    BY <2>1 DEF GraphInv, Types, Tokens, Trees, Steps, IsSnapshot
<1>2. Vouched'
  BY DEF GraphInv, Types, Vouched, Vouches, CameLate
<1>3. Following'
  BY DEF GraphInv, Types, Following, Follows, Present, Syntax
<1>4. Honest'
  BY DEF GraphInv, Types, Honest
<1> QED
  BY <1>1, <1>2, <1>3, <1>4 DEF GraphInv

\* A call begins with the last snapshot.
LEMMA AsksInv ==
  ASSUME GraphInv, NEW c \in Clients, Asks(c)
  PROVE  GraphInv'
<1> USE DEF Asks, GoesOn, files
<1>1. Types'
  <2>1. PICK q \in Queries : query' = [query EXCEPT ![c] = q]
    BY DEF GraphInv, Types
  <2>2. graphLeft' \in [queries : Nat, edits : Nat, asked : SUBSET Queries,
                        written : SUBSET (Texts \cup {Bad, None})]
    BY DEF GraphInv, Types
  <2> QED
    BY <2>1, <2>2 DEF GraphInv, Types, Tokens, Steps, IsSnapshot
<1>2. Vouched'
  BY DEF GraphInv, Types, Vouched, Vouches, CameLate
<1>3. Following'
  BY DEF GraphInv, Types, Following, Follows, Present, Syntax
<1>4. Honest'
  BY DEF GraphInv, Types, Honest
<1> QED
  BY <1>1, <1>2, <1>3, <1>4 DEF GraphInv

\* A stamp is read.
LEMMA ReadsStampInv ==
  ASSUME GraphInv, NEW c \in Clients, ReadsStamp(c)
  PROVE  GraphInv'
<1> USE DEF Stays, files
<1>1. PICK f \in unread[c] : /\ token' = [token EXCEPT ![c][f] = stamps[f]]
                             /\ unread' = [unread EXCEPT ![c] = @ \ {f}]
  BY DEF ReadsStamp
<1>2. /\ step[c] = "token" /\ f \in Files
      /\ UNCHANGED <<snapshot, step, query, cached, texts, reply, files, fresh, late, gone, graphLeft>>
  BY <1>1 DEF ReadsStamp, GraphInv, Types
<1>3. /\ token'[c] = [token[c] EXCEPT ![f] = stamps[f]] /\ token[c] \in Tokens
      /\ \A d \in Clients \ {c} : token'[d] = token[d] /\ unread'[d] = unread[d]
  BY <1>1 DEF GraphInv, Types
<1>4. Types'
  BY <1>1, <1>2 DEF GraphInv, Types, Tokens, Trees, Steps, IsSnapshot
<1>5. Vouched'
  BY <1>1, <1>2, <1>3 DEF GraphInv, Types, Vouched, Vouches, CameLate, Tokens
<1>6. Following'
  BY <1>1, <1>2, <1>3 DEF GraphInv, Types, Following, Follows, Present, Syntax, Tokens
<1>7. Honest'
  BY <1>1, <1>2 DEF GraphInv, Types, Honest
<1> QED
  BY <1>4, <1>5, <1>6, <1>7 DEF GraphInv

\* A call compares the token with that of its snapshot.
LEMMA ComparesInv ==
  ASSUME GraphInv, NEW c \in Clients, Compares(c)
  PROVE  GraphInv'
<1>1. /\ step[c] = "token" /\ unread[c] = {} /\ texts[c] = NoTexts /\ query[c] \in Queries
      /\ token[c] \in Tokens /\ stamps \in Tokens
  BY DEF Compares, GraphInv, Types
<1>2. ASSUME fresh[c], gone = {}, Current(c)
      PROVE  cached[c].texts = source /\ Intact(source)
  <2>1. \A f \in Files : token[c][f] = stamps[f]
    BY <1>1, <1>2 DEF GraphInv, Following, Follows
  <2>2. cached[c].texts \in Trees /\ cached[c].token = token[c]
    BY <1>2 DEF GraphInv, Types, IsSnapshot, Current
  <2>3. \A f \in Files : cached[c].texts[f] = source[f]
    BY <1>2, <2>1, <2>2 DEF GraphInv, Vouched, Vouches, Current
  <2>4. source \in [Files -> Texts \cup {Bad, None}]
    BY DEF GraphInv, Types
  <2>5. cached[c].texts = source
    BY <2>2, <2>3, <2>4 DEF Trees
  <2> QED
    BY <2>2, <2>5, NothingIsNoText, ValuesDiffer DEF Trees, Intact
<1>3. CASE query[c].op = "health"
  <2> DEFINE r == IF Current(c) THEN Found(Symbols(cached[c].texts)) ELSE Raised
  <2>1. Returns(c, r)
    BY <1>3 DEF Compares
  <2>2. ASSUME fresh[c], gone = {} PROVE Right(source, query[c], r)
    <3>1. CASE Current(c)
      BY <1>2, <1>3, <2>2, <3>1 DEF Right, Found
    <3>2. CASE ~Current(c)
      BY <1>3, <3>2, RaisingIsRight
    <3> QED
      BY <3>1, <3>2
  <2> HIDE DEF r
  <2> QED
    BY <1>1, <2>1, <2>2, ReturnsInv
<1>4. CASE query[c].op # "health" /\ Current(c)
  <2>1. /\ step' = [step EXCEPT ![c] = "answer"] /\ texts' = [texts EXCEPT ![c] = cached[c].texts]
        /\ UNCHANGED <<unread, snapshot, query, cached, token, reply, files, fresh, late, gone, graphLeft>>
    BY <1>4 DEF Compares, GoesOn, Stays
  <2>2. cached[c].texts \in Trees
    BY <1>4 DEF GraphInv, Types, IsSnapshot, Current
  <2> USE DEF files
  <2>3. Types'
    BY <1>1, <1>4, <2>1, <2>2 DEF GraphInv, Types, Tokens, Trees, Steps, IsSnapshot
  <2>4. Vouched'
    BY <1>1, <2>1 DEF GraphInv, Types, Vouched, Vouches, CameLate
  <2>5. Following'
    BY <1>1, <1>2, <1>4, <2>1 DEF GraphInv, Types, Following, Follows, Present, Syntax
  <2>6. Honest'
    BY <2>1 DEF GraphInv, Types, Honest
  <2> QED
    BY <2>3, <2>4, <2>5, <2>6 DEF GraphInv
<1>5. CASE query[c].op # "health" /\ ~Current(c)
  <2>1. /\ step' = [step EXCEPT ![c] = "build"] /\ unread' = [unread EXCEPT ![c] = Present]
        /\ UNCHANGED <<texts, snapshot, query, cached, token, reply, files, fresh, late, gone, graphLeft>>
    BY <1>5 DEF Compares, GoesOn, Stays
  <2> USE DEF files
  <2>2. Types'
    BY <1>1, <1>5, <2>1 DEF GraphInv, Types, Tokens, Trees, Steps, IsSnapshot, Present
  <2>3. Vouched'
    BY <1>1, <2>1 DEF GraphInv, Types, Vouched, Vouches, CameLate, Present, NoTexts
  <2>4. Following'
    BY <1>1, <2>1 DEF GraphInv, Types, Following, Follows, Present, Syntax, NoTexts
  <2>5. Honest'
    BY <2>1 DEF GraphInv, Types, Honest
  <2> QED
    BY <2>2, <2>3, <2>4, <2>5 DEF GraphInv
<1> QED
  BY <1>3, <1>4, <1>5

\* A file is read, for a snapshot or for an answer.
LEMMA ReadsFileInv ==
  ASSUME GraphInv, NEW c \in Clients, ReadsFile(c)
  PROVE  GraphInv'
<1> DEFINE f == First(unread[c])
           search == step[c] = "scan" /\ query[c].op = "references"
<1>1. /\ step[c] \in {"build", "scan"} /\ unread[c] \subseteq Files /\ unread[c] # {}
      /\ query[c] \in Queries /\ query[c].op # "health" /\ texts[c] \in Trees
      /\ source \in [Files -> Texts \cup {Bad, None}]
  BY DEF ReadsFile, GraphInv, Types
<1>2. f \in unread[c] /\ f \in Files
  BY <1>1, FirstIsThere
<1>3. CASE source[f] \in {None, Bad} /\ ~search /\ Returns(c, Raised)
  <2>1. ASSUME fresh[c] PROVE Right(source, query[c], Raised)
    <3>1. source[f] = Bad
      BY <1>1, <1>2, <1>3, <2>1 DEF GraphInv, Following, Follows, Present
    <3>2. ~Intact(source)
      BY <1>2, <3>1 DEF Intact
    <3> QED
      BY <3>2, RaisingIsRight
  <2> QED
    BY <1>1, <1>3, <2>1, ReturnsInv
<1>4. CASE /\ source[f] \notin {None, Bad} \/ search \/ (source[f] = None /\ step[c] = "scan")
           /\ texts' = [texts EXCEPT ![c][f] = Syntax(f)]
           /\ unread' = [unread EXCEPT ![c] = @ \ {f}]
           /\ UNCHANGED <<snapshot, step, query, cached, token, reply>> /\ Stays
  <2> HIDE DEF f
  <2>1. /\ texts'[c] = [texts[c] EXCEPT ![f] = Syntax(f)] /\ unread'[c] = unread[c] \ {f}
        /\ \A d \in Clients \ {c} : texts'[d] = texts[d] /\ unread'[d] = unread[d]
        /\ UNCHANGED <<snapshot, step, query, cached, token, reply, files, fresh, late, gone, graphLeft>>
    BY <1>4 DEF GraphInv, Types, Stays
  <2>2. Syntax(f) \in Texts \cup {None} /\ (step[c] = "build" => Syntax(f) = source[f])
    BY <1>1, <1>2, <1>4 DEF Syntax
  <2> USE DEF files
  <2>3. texts' \in [Clients -> Trees] /\ unread' \in [Clients -> SUBSET Files]
    BY <1>1, <1>2, <1>4, <2>2 DEF GraphInv, Types, Trees
  <2>4. Types'
    BY <1>1, <2>1, <2>3 DEF GraphInv, Types, Tokens, IsSnapshot
  <2>5. Vouched'
    <3>1. ASSUME gone = {}, step[c] = "build", NEW g \in Files \ unread'[c]
          PROVE  Vouches(token[c], texts'[c], g)
      BY <1>1, <1>2, <2>1, <2>2, <3>1 DEF GraphInv, Vouched, Vouches, CameLate, Trees
    <3>2. ASSUME gone = {}, step[c] = "build", NEW g \in unread'[c] PROVE CameLate(c, g)
      BY <1>1, <2>1, <3>2 DEF GraphInv, Vouched
    <3>3. ASSUME gone' = {}, NEW d \in Clients, NEW g \in Files, step'[d] = "build"
          PROVE  IF g \in unread'[d] THEN CameLate(d, g)' ELSE Vouches(token[d], texts[d], g)'
      <4>1. CASE d = c
        BY <2>1, <3>1, <3>2, <3>3, <4>1 DEF Vouches, CameLate
      <4>2. CASE d # c
        BY <2>1, <3>3, <4>2 DEF GraphInv, Vouched, Vouches, CameLate
      <4> QED
        BY <4>1, <4>2
    <3>4. ASSUME gone' = {}, NEW d \in Clients, NEW g \in Files
          PROVE  /\ cached'[d] # None => Vouches(cached[d].token, cached[d].texts, g)'
                 /\ step'[d] = "token" /\ g \notin unread'[d] => CameLate(d, g)'
      BY <1>1, <2>1, <3>4 DEF GraphInv, Vouched, Vouches, CameLate
    <3>5. gone' = {} /\ snapshot' # None => \A g \in Files : Vouches(snapshot.token, snapshot.texts, g)'
      BY <2>1 DEF GraphInv, Vouched, Vouches
    <3> QED
      BY <3>3, <3>4, <3>5 DEF Vouched
  <2>6. Following'
    <3>1. ASSUME NEW d \in Clients, fresh'[d] PROVE Follows(d)'
      <4>1. CASE d = c
        BY <1>1, <1>2, <2>1, <2>2, <3>1, <4>1 DEF GraphInv, Following, Follows, Present, Syntax, Trees
      <4>2. CASE d # c
        BY <2>1, <3>1, <4>2 DEF GraphInv, Following, Follows, Present, Syntax
      <4> QED
        BY <4>1, <4>2
    <3> QED
      BY <3>1 DEF Following
  <2>7. Honest'
    BY <1>1, <2>1 DEF GraphInv, Types, Honest
  <2> QED
    BY <2>4, <2>5, <2>6, <2>7 DEF GraphInv
<1> QED
  BY <1>3, <1>4 DEF ReadsFile

\* A snapshot is recorded with the token that was read before it.
LEMMA RecordsInv ==
  ASSUME GraphInv, NEW c \in Clients, Records(c)
  PROVE  GraphInv'
<1> USE DEF Records, GoesOn, Stays, files, frame
<1>1. snapshot'.texts = texts[c] /\ snapshot'.token = token[c]
  OBVIOUS
<1>2. Types'
  BY <1>1 DEF GraphInv, Types, Tokens, Trees, Steps, IsSnapshot
<1>3. Vouched'
  BY <1>1 DEF GraphInv, Types, Vouched, Vouches, CameLate
<1>4. Following'
  <2>1. fresh[c] => texts[c] = source
    BY DEF GraphInv, Types, Following, Follows, Trees
  <2> QED
    BY <2>1 DEF GraphInv, Types, Following, Follows, Present, Syntax
<1>5. Honest'
  BY DEF GraphInv, Types, Honest
<1> QED
  BY <1>2, <1>3, <1>4, <1>5 DEF GraphInv

\* A snapshot answers, or leaves the answer to the files.
LEMMA AnswersInv ==
  ASSUME GraphInv, NEW c \in Clients, Answers(c)
  PROVE  GraphInv'
<1> DEFINE known == FromSnapshot(texts[c], query[c])
<1>1. step[c] = "answer" /\ query[c] \in Queries /\ query[c].op # "health"
  BY DEF Answers, GraphInv, Types
<1>2. CASE known # None
  <2>1. Returns(c, known)
    BY <1>2 DEF Answers
  <2>2. fresh[c] /\ gone = {} => texts[c] = source
    BY <1>1 DEF GraphInv, Following, Follows
  <2>3. fresh[c] /\ gone = {} => Right(source, query[c], known)
    BY <1>1, <1>2, <2>2, SnapshotsAnswer
  <2> HIDE DEF known
  <2> QED
    BY <1>1, <2>1, <2>3, ReturnsInv
<1>3. CASE known = None
  <2>1. /\ step' = [step EXCEPT ![c] = "scan"] /\ unread' = [unread EXCEPT ![c] = Present]
        /\ texts' = [texts EXCEPT ![c] = NoTexts]
        /\ UNCHANGED <<snapshot, query, cached, token, reply, files, fresh, late, gone, graphLeft>>
    BY <1>3 DEF Answers, GoesOn, Stays
  <2>2. NoTexts \in Trees
    BY DEF NoTexts, Trees
  <2> USE DEF files
  <2>3. Types'
    BY <1>1, <2>1, <2>2 DEF GraphInv, Types, Tokens, Steps, IsSnapshot, Present
  <2>4. Vouched'
    BY <1>1, <2>1 DEF GraphInv, Types, Vouched, Vouches, CameLate
  <2>5. Following'
    BY <1>1, <2>1, ValuesDiffer DEF GraphInv, Types, Following, Follows, Present, Syntax, NoTexts
  <2>6. Honest'
    BY <2>1 DEF GraphInv, Types, Honest
  <2> QED
    BY <2>3, <2>4, <2>5, <2>6 DEF GraphInv
<1> QED
  BY <1>2, <1>3

\* All files are read.
LEMMA ConcludesInv ==
  ASSUME GraphInv, NEW c \in Clients, Concludes(c)
  PROVE  GraphInv'
<1> DEFINE r == FromFiles(texts[c], query[c])
<1>1. /\ step[c] = "scan" /\ unread[c] = {} /\ query[c] \in Queries /\ query[c].op # "health"
      /\ texts[c] \in Trees /\ source \in [Files -> Texts \cup {Bad, None}] /\ Returns(c, r)
  BY DEF Concludes, GraphInv, Types
<1>2. ASSUME fresh[c] PROVE Right(source, query[c], r)
  <2>1. CASE Intact(source)
    <3>1. texts[c] = source
      BY <1>1, <1>2, <2>1 DEF GraphInv, Following, Follows, Syntax, Intact, Trees
    <3> QED
      BY <1>1, <3>1, FilesAnswer
  <2>2. CASE ~Intact(source)
    BY <1>1, <2>2 DEF Right
  <2> QED
    BY <2>1, <2>2
<1> HIDE DEF r
<1> QED
  BY <1>1, <1>2, ReturnsInv

\* A stamp is never given twice.
LEMMA EditsInv ==
  ASSUME GraphInv, EditsFile
  PROVE  GraphInv'
<1>1. PICK f \in Files, t \in graphLeft.written :
       /\ t # source[f]
       /\ source' = [source EXCEPT ![f] = t]
       /\ stamps' = [stamps EXCEPT ![f] = IF t = None THEN 0 ELSE clock + 1]
       /\ late' = IF SomebodyAsks /\ source[f] = None THEN late \cup {f} ELSE late
       /\ gone' = IF t = None /\ f \in late THEN gone \cup {f} ELSE gone
  BY DEF EditsFile
<1>2. /\ clock' = clock + 1 /\ clock \in Nat /\ fresh' = [c \in Clients |-> FALSE]
      /\ graphLeft.edits > 0 /\ graphLeft' = [graphLeft EXCEPT !.edits = @ - 1]
      /\ UNCHANGED <<snapshot, step, query, cached, token, texts, unread, reply>>
  BY DEF EditsFile, GraphInv, Types, frame
<1>3. t \in Texts \cup {Bad, None}
  BY <1>1 DEF GraphInv, Types
<1>4. Tokens \subseteq Tokens'
  BY <1>2 DEF Tokens
<1>5. Types'
  <2>1. source' \in [Files -> Texts \cup {Bad, None}]
    BY <1>1, <1>3 DEF GraphInv, Types
  <2>2. stamps' \in Tokens' /\ \A g \in Files : stamps'[g] = 0 <=> source'[g] = None
    BY <1>1, <1>2 DEF GraphInv, Types, Tokens
  <2>3. IsSnapshot(snapshot)' /\ \A c \in Clients : IsSnapshot(cached[c])'
    BY <1>2, <1>4 DEF GraphInv, Types, IsSnapshot
  <2>4. token' \in [Clients -> Tokens'] /\ fresh' \in [Clients -> BOOLEAN]
    BY <1>2, <1>4 DEF GraphInv, Types
  <2> QED
    BY <1>2, <2>1, <2>2, <2>3, <2>4 DEF GraphInv, Types
<1>6. Vouched'
  <2> SUFFICES ASSUME gone' = {} PROVE Vouched'
    BY DEF Vouched
  <2>1. gone = {} /\ (t = None => f \notin late)
    BY <1>1
  <2>2. /\ late \subseteq late' /\ \A g \in Files \ {f} : stamps'[g] = stamps[g] /\ source'[g] = source[g]
        /\ stamps'[f] = (IF t = None THEN 0 ELSE clock + 1) /\ source'[f] = t
    BY <1>1 DEF GraphInv, Types, Tokens
  <2>3. ASSUME NEW tk \in Tokens, NEW ts, NEW g \in Files, Vouches(tk, ts, g)
        PROVE  Vouches(tk, ts, g)'
    <3>1. tk[g] \in 0..clock
      BY DEF Tokens
    <3> QED
      BY <1>1, <1>2, <2>1, <2>2, <2>3, <3>1 DEF Vouches
  <2>4. ASSUME NEW c \in Clients, NEW g \in Files, step[c] # "idle", CameLate(c, g)
        PROVE  CameLate(c, g)'
    BY <1>1, <1>2, <2>2, <2>4 DEF CameLate, SomebodyAsks
  <2>5. snapshot' # None => \A g \in Files : Vouches(snapshot.token, snapshot.texts, g)'
    BY <1>2, <2>1, <2>3 DEF GraphInv, Types, IsSnapshot, Vouched
  <2>6. ASSUME NEW c \in Clients, NEW g \in Files
        PROVE  /\ cached'[c] # None => Vouches(cached[c].token, cached[c].texts, g)'
               /\ step'[c] = "token" /\ g \notin unread'[c] => CameLate(c, g)'
               /\ step'[c] = "build" =>
                    IF g \in unread'[c] THEN CameLate(c, g)' ELSE Vouches(token[c], texts[c], g)'
    <3>1. cached[c] # None => Vouches(cached[c].token, cached[c].texts, g) /\ cached[c].token \in Tokens
      BY <2>1 DEF GraphInv, Types, IsSnapshot, Vouched
    <3>2. cached'[c] # None => Vouches(cached[c].token, cached[c].texts, g)'
      BY <1>2, <2>3, <3>1
    <3>3. step[c] = "token" /\ g \notin unread[c] => CameLate(c, g)'
      BY <2>1, <2>4 DEF GraphInv, Vouched
    <3>4. step[c] = "build" => IF g \in unread[c] THEN CameLate(c, g)' ELSE Vouches(token[c], texts[c], g)'
      <4>1. CASE g \in unread[c]
        BY <2>1, <2>4, <4>1 DEF GraphInv, Vouched
      <4>2. CASE g \notin unread[c]
        <5>1. step[c] = "build" => Vouches(token[c], texts[c], g) /\ token[c] \in Tokens
          BY <2>1, <4>2 DEF GraphInv, Types, Vouched
        <5>2. step[c] = "build" => Vouches(token[c], texts[c], g)'
          BY <1>2, <2>3, <5>1
        <5> QED
          BY <4>2, <5>2
      <4> QED
        BY <4>1, <4>2
    <3> QED
      BY <1>2, <3>2, <3>3, <3>4
  <2> QED
    BY <2>5, <2>6 DEF Vouched
<1>7. Following'
  BY <1>2 DEF Following
<1>8. Honest'
  BY <1>2 DEF Honest
<1> QED
  BY <1>5, <1>6, <1>7, <1>8 DEF GraphInv

\* Every step keeps the invariant.
LEMMA GraphStepInv == GraphInv /\ [GraphNext]_graphVars => GraphInv'
<1> SUFFICES ASSUME GraphInv, [GraphNext]_graphVars PROVE GraphInv'
  OBVIOUS
<1>1. CASE EditsFile
  BY <1>1, EditsInv
<1>2. ASSUME NEW c \in Clients, GraphStep(c) PROVE GraphInv'
  BY <1>2, AsksInv, ReadsStampInv, ComparesInv, ReadsFileInv, RecordsInv, AnswersInv, ConcludesInv
     DEF GraphStep
<1>3. CASE UNCHANGED graphVars
  BY <1>3 DEF graphVars, files, frame, GraphInv, Types, Tokens, Trees, Steps, IsSnapshot, Vouched,
              Vouches, CameLate, Following, Follows, Present, Syntax, Honest
<1> QED
  BY <1>1, <1>2, <1>3 DEF GraphNext

------------------------------------------------------------------------------
\* Whatever is asked, recorded and edited, every variable keeps its type; no
\* snapshot holds a text that does not parse (codegraph/index_manager.py).
THEOREM IndexKeepsTypes == GraphSpec => []GraphTypeOK
<1>1. GraphInv => GraphTypeOK
  BY DEF GraphInv, Types, GraphTypeOK, Tokens, Trees, Steps, IsSnapshot
<1> QED
  BY <1>1, InitInv, GraphStepInv, PTL DEF GraphSpec

\* With any number of clients, files, queries and edits, a snapshot that is
\* found current was built from the files, watcher_health says what they say,
\* and a call that nobody disturbs answers from them (codegraph/service.py:37-200).
THEOREM IndexStaysHonest == GraphSpec => []IndexIsHonest
<1>1. ASSUME GraphInv PROVE TokenVouches
  <2> SUFFICES ASSUME gone = {}, snapshot # None, snapshot.token = stamps
               PROVE  snapshot.texts = source
    BY DEF TokenVouches
  <2>1. snapshot.texts \in Trees /\ source \in [Files -> Texts \cup {Bad, None}]
    BY <1>1 DEF GraphInv, Types, IsSnapshot
  <2>2. \A f \in Files : snapshot.texts[f] = source[f]
    BY <1>1 DEF GraphInv, Vouched, Vouches
  <2> QED
    BY <2>1, <2>2 DEF Trees
<1>2. ASSUME GraphInv, NEW c \in Clients, NEW op, Answered(c, op)
      PROVE  Right(source, query[c], reply[c]) /\ query[c].op = op
  BY <1>2 DEF GraphInv, Honest, Answered
<1>3. Intact(source) <=> Bad \notin {source[f] : f \in Files}
  BY DEF Intact
<1>4. ASSUME GraphInv PROVE HealthIsHonest
  BY <1>2, <1>3, <1>4 DEF HealthIsHonest, Right
<1>5. ASSUME GraphInv PROVE AnswersAreCurrent
  BY <1>2, <1>3, <1>5 DEF AnswersAreCurrent, Right, SaysPath, Unique
<1>6. GraphInv => IndexIsHonest
  BY <1>1, <1>4, <1>5 DEF IndexIsHonest
<1> QED
  BY <1>6, InitInv, GraphStepInv, PTL DEF GraphSpec

------------------------------------------------------------------------------
\* Folds over documents

ReadsLineIter(b, s) ==
  CHOOSE I : I = [t \in SUBSET (DOMAIN s) |-> IF t = {} THEN b ELSE ReadsLine(I[t \ {Max(t)}], s[Max(t)])]

\* ReadsLine folded over a sequence, ...
LEMMA ReadsLineFolds ==
  ASSUME NEW b, NEW S, NEW s \in Seq(S)
  PROVE  \E I : Folded("doc", 0, b, s, I) /\ FoldLeft(ReadsLine, b, s) = I[DOMAIN s]
<1>1. PICK I : Folded("doc", 0, b, s, I)
  BY FoldIsThere
<1>2. I = [t \in SUBSET (DOMAIN s) |-> IF t = {} THEN b ELSE ReadsLine(I[t \ {Max(t)}], s[Max(t)])]
  BY <1>1 DEF Folded, Step
<1> DEFINE J == ReadsLineIter(b, s)
<1>3. J = [t \in SUBSET (DOMAIN s) |-> IF t = {} THEN b ELSE ReadsLine(J[t \ {Max(t)}], s[Max(t)])]
  BY <1>2 DEF ReadsLineIter
<1>4. FoldLeft(ReadsLine, b, s) = J[DOMAIN s]
  BY DEF FoldLeft, MapThenFoldSet, ReadsLineIter
<1> HIDE DEF J
<1>5. Folded("doc", 0, b, s, J)
  BY <1>3 DEF Folded, Step
<1> QED
  BY <1>4, <1>5

\* ... over nothing, ...
LEMMA ReadsLineNothing ==
  ASSUME NEW b
  PROVE  FoldLeft(ReadsLine, b, <<>>) = b
<1>1. <<>> \in Seq({}) /\ DOMAIN <<>> = {}
  OBVIOUS
<1>2. PICK I : Folded("doc", 0, b, <<>>, I) /\ FoldLeft(ReadsLine, b, <<>>) = I[DOMAIN <<>>]
  BY <1>1, ReadsLineFolds
<1> QED
  BY <1>1, <1>2 DEF Folded

\* ... and over one more element.
LEMMA ReadsLineMore ==
  ASSUME NEW b, NEW S, NEW s \in Seq(S), NEW e \in S
  PROVE  FoldLeft(ReadsLine, b, Append(s, e)) = ReadsLine(FoldLeft(ReadsLine, b, s), e)
<1>1. PICK I : Folded("doc", 0, b, s, I) /\ FoldLeft(ReadsLine, b, s) = I[DOMAIN s]
  BY ReadsLineFolds
<1>2. Append(s, e) \in Seq(S)
  OBVIOUS
<1>3. PICK J : /\ Folded("doc", 0, b, Append(s, e), J)
               /\ FoldLeft(ReadsLine, b, Append(s, e)) = J[DOMAIN Append(s, e)]
  BY <1>2, ReadsLineFolds
<1>4. J[DOMAIN Append(s, e)] = Step("doc", 0, I[DOMAIN s], e)
  BY <1>1, <1>3, FoldMore
<1> QED
  BY <1>1, <1>3, <1>4 DEF Step

AddsPartIter(b, s) ==
  CHOOSE I : I = [t \in SUBSET (DOMAIN s) |-> IF t = {} THEN b ELSE AddsPart(I[t \ {Max(t)}], s[Max(t)])]

\* AddsPart folded over a sequence, ...
LEMMA AddsPartFolds ==
  ASSUME NEW b, NEW S, NEW s \in Seq(S)
  PROVE  \E I : Folded("parts", 0, b, s, I) /\ FoldLeft(AddsPart, b, s) = I[DOMAIN s]
<1>1. PICK I : Folded("parts", 0, b, s, I)
  BY FoldIsThere
<1>2. I = [t \in SUBSET (DOMAIN s) |-> IF t = {} THEN b ELSE AddsPart(I[t \ {Max(t)}], s[Max(t)])]
  BY <1>1 DEF Folded, Step
<1> DEFINE J == AddsPartIter(b, s)
<1>3. J = [t \in SUBSET (DOMAIN s) |-> IF t = {} THEN b ELSE AddsPart(J[t \ {Max(t)}], s[Max(t)])]
  BY <1>2 DEF AddsPartIter
<1>4. FoldLeft(AddsPart, b, s) = J[DOMAIN s]
  BY DEF FoldLeft, MapThenFoldSet, AddsPartIter
<1> HIDE DEF J
<1>5. Folded("parts", 0, b, s, J)
  BY <1>3 DEF Folded, Step
<1> QED
  BY <1>4, <1>5

\* ... over nothing, ...
LEMMA AddsPartNothing ==
  ASSUME NEW b
  PROVE  FoldLeft(AddsPart, b, <<>>) = b
<1>1. <<>> \in Seq({}) /\ DOMAIN <<>> = {}
  OBVIOUS
<1>2. PICK I : Folded("parts", 0, b, <<>>, I) /\ FoldLeft(AddsPart, b, <<>>) = I[DOMAIN <<>>]
  BY <1>1, AddsPartFolds
<1> QED
  BY <1>1, <1>2 DEF Folded

\* ... and over one more element.
LEMMA AddsPartMore ==
  ASSUME NEW b, NEW S, NEW s \in Seq(S), NEW e \in S
  PROVE  FoldLeft(AddsPart, b, Append(s, e)) = AddsPart(FoldLeft(AddsPart, b, s), e)
<1>1. PICK I : Folded("parts", 0, b, s, I) /\ FoldLeft(AddsPart, b, s) = I[DOMAIN s]
  BY AddsPartFolds
<1>2. Append(s, e) \in Seq(S)
  OBVIOUS
<1>3. PICK J : /\ Folded("parts", 0, b, Append(s, e), J)
               /\ FoldLeft(AddsPart, b, Append(s, e)) = J[DOMAIN Append(s, e)]
  BY <1>2, AddsPartFolds
<1>4. J[DOMAIN Append(s, e)] = Step("parts", 0, I[DOMAIN s], e)
  BY <1>1, <1>3, FoldMore
<1> QED
  BY <1>1, <1>3, <1>4 DEF Step

TakesIter(create, b, s) ==
  CHOOSE I : I = [t \in SUBSET (DOMAIN s) |-> IF t = {} THEN b ELSE Takes(create, I[t \ {Max(t)}], s[Max(t)])]

\* Takes folded over a sequence, ...
LEMMA TakesFolds ==
  ASSUME NEW create, NEW b, NEW S, NEW s \in Seq(S)
  PROVE  \E I : Folded("updates", create, b, s, I) /\ Order(b, s, create) = I[DOMAIN s]
<1>1. PICK I : Folded("updates", create, b, s, I)
  BY FoldIsThere
<1>2. I = [t \in SUBSET (DOMAIN s) |-> IF t = {} THEN b ELSE Takes(create, I[t \ {Max(t)}], s[Max(t)])]
  BY <1>1 DEF Folded, Step
<1> DEFINE J == TakesIter(create, b, s)
<1>3. J = [t \in SUBSET (DOMAIN s) |-> IF t = {} THEN b ELSE Takes(create, J[t \ {Max(t)}], s[Max(t)])]
  BY <1>2 DEF TakesIter
<1>4. Order(b, s, create) = J[DOMAIN s]
  BY DEF Order, FoldLeft, MapThenFoldSet, TakesIter
<1> HIDE DEF J
<1>5. Folded("updates", create, b, s, J)
  BY <1>3 DEF Folded, Step
<1> QED
  BY <1>4, <1>5

\* ... over nothing, ...
LEMMA TakesNothing ==
  ASSUME NEW create, NEW b
  PROVE  Order(b, <<>>, create) = b
<1>1. <<>> \in Seq({}) /\ DOMAIN <<>> = {}
  OBVIOUS
<1>2. PICK I : Folded("updates", create, b, <<>>, I) /\ Order(b, <<>>, create) = I[DOMAIN <<>>]
  BY <1>1, TakesFolds
<1> QED
  BY <1>1, <1>2 DEF Folded

\* ... and over one more element.
LEMMA TakesMore ==
  ASSUME NEW create, NEW b, NEW S, NEW s \in Seq(S), NEW e \in S
  PROVE  Order(b, Append(s, e), create) = Takes(create, Order(b, s, create), e)
<1>1. PICK I : Folded("updates", create, b, s, I) /\ Order(b, s, create) = I[DOMAIN s]
  BY TakesFolds
<1>2. Append(s, e) \in Seq(S)
  OBVIOUS
<1>3. PICK J : /\ Folded("updates", create, b, Append(s, e), J)
               /\ Order(b, Append(s, e), create) = J[DOMAIN Append(s, e)]
  BY <1>2, TakesFolds
<1>4. J[DOMAIN Append(s, e)] = Step("updates", create, I[DOMAIN s], e)
  BY <1>1, <1>3, FoldMore
<1> QED
  BY <1>1, <1>3, <1>4 DEF Step

------------------------------------------------------------------------------
\* What strip() leaves

Trim(text) ==
  text = <<>> \/ (text[1] # Blanks /\ Outdent(text[1]) = text[1] /\ text[Len(text)] # Blanks)

\* A line without its indentation says something as well, and has none to lose.
LEMMA OutdentIs ==
  ASSUME NEW line \in DocLines \ {Blanks}
  PROVE  Outdent(line) \in DocLines \ {Blanks} /\ Outdent(Outdent(line)) = Outdent(line)
<1>1. ASSUME NEW l \in DocLines \ {Blanks}
      PROVE  l.heading = None => l.text \in Words /\ Outdent(l) = Outdented[l.text]
  <2>1. CASE \E h \in Headings : l = Heading(h)
    <3>1. l.heading \in Headings
      BY <2>1 DEF Heading
    <3> QED
      BY <3>1, DocsAreLines
  <2>2. CASE \E t \in Words \cup {NoWords} : l = Plain(t)
    <3>1. PICK t \in Words \cup {NoWords} : l = Plain(t)
      BY <2>2
    <3>2. t # NoWords
      BY <3>1 DEF Blanks
    <3>3. l.text = t /\ l.heading = None
      BY <3>1 DEF Plain
    <3> QED
      BY <3>2, <3>3 DEF Outdent
  <2> QED
    BY <2>1, <2>2 DEF DocLines
<1>2. CASE line.heading # None
  BY <1>2 DEF Outdent
<1>3. CASE line.heading = None
  <2> DEFINE m == Outdented[line.text]
  <2>1. line.text \in Words /\ Outdent(line) = m
    BY <1>1, <1>3
  <2>2. m \in DocLines \ {Blanks} /\ (m.heading = None => Outdented[m.text] = m)
    BY <2>1, DocsAreLines
  <2> HIDE DEF m
  <2>3. Outdent(m) = m
    BY <2>2, <1>1 DEF Outdent
  <2> QED
    BY <2>1, <2>2, <2>3
<1> QED
  BY <1>2, <1>3

\* The lines from the first to the last that say something, and the first
\* without its indentation.
LEMMA StripIs ==
  ASSUME NEW S, NEW text \in Seq(S), NEW a \in 1..Len(text), NEW b \in a..Len(text),
         text[a] # Blanks, text[b] # Blanks,
         \A i \in 1..Len(text) : i < a \/ b < i => text[i] = Blanks
  PROVE  Stripped(text) = <<Outdent(text[a])>> \o SubSeq(text, a + 1, b)
<1> DEFINE said == {i \in DOMAIN text : text[i] # Blanks}
           first == CHOOSE i \in said : \A k \in said : i <= k
           last == CHOOSE i \in said : \A k \in said : k <= i
<1>1. DOMAIN text = 1..Len(text) /\ Len(text) \in Nat /\ a \in Nat /\ b \in Nat /\ a <= b
  OBVIOUS
<1>2. a \in said /\ b \in said
  BY <1>1
<1>3. ASSUME NEW i \in said PROVE a <= i /\ i <= b /\ i \in Nat
  BY <1>1
<1>4. first \in said /\ first <= a
  <2>1. \E i \in said : \A k \in said : i <= k
    BY <1>2, <1>3
  <2>2. first \in said /\ \A k \in said : first <= k
    BY <2>1
  <2> QED
    BY <2>2, <1>2
<1>5. last \in said /\ b <= last
  <2>1. \E i \in said : \A k \in said : k <= i
    BY <1>2, <1>3
  <2>2. last \in said /\ \A k \in said : k <= last
    BY <2>1
  <2> QED
    BY <2>2, <1>2
<1>6. Stripped(text) = <<Outdent(text[first])>> \o SubSeq(text, first + 1, last)
  <2>1. said # {}
    BY <1>2
  <2> QED
    BY <2>1 DEF Stripped
<1> HIDE DEF said, first, last
<1>7. first = a
  BY <1>3, <1>4, <1>1
<1>8. last = b
  BY <1>3, <1>5, <1>1
<1> QED
  BY <1>6, <1>7, <1>8

\* Blank lines only.
LEMMA StripNothing ==
  ASSUME NEW text, \A i \in DOMAIN text : text[i] = Blanks
  PROVE  Stripped(text) = <<>>
<1>1. {i \in DOMAIN text : text[i] # Blanks} = {}
  OBVIOUS
<1> QED
  BY <1>1 DEF Stripped

\* What is left begins, without indentation, and ends with a line that says something.
LEMMA StripTrims ==
  ASSUME NEW text \in Seq(DocLines)
  PROVE  Stripped(text) \in Seq(DocLines) /\ Trim(Stripped(text))
<1>1. DOMAIN text = 1..Len(text) /\ Len(text) \in Nat
  OBVIOUS
<1> DEFINE said == {i \in 1..Len(text) : text[i] # Blanks}
<1>2. CASE said = {}
  <2>1. Stripped(text) = <<>>
    BY <1>1, <1>2, StripNothing
  <2>2. <<>> \in Seq(DocLines)
    OBVIOUS
  <2> QED
    BY <2>1, <2>2 DEF Trim
<1>3. CASE said # {}
  <2>0. said \subseteq Nat /\ \A i \in said : i <= Len(text)
    BY <1>1
  <2> DEFINE a == Least(said)
             b == Max(said)
  <2>1. a \in said /\ \A i \in said : a <= i
    BY <2>0, <1>3, LeastNumber
  <2>2. b \in said /\ \A i \in said : b >= i
    BY <2>0, <1>3, <1>1, MaxIsThere
  <2> HIDE DEF a, b
  <2>3. a \in 1..Len(text) /\ b \in a..Len(text) /\ text[a] # Blanks /\ text[b] # Blanks
    BY <2>0, <2>1, <2>2, <1>1
  <2>4. \A i \in 1..Len(text) : i < a \/ b < i => text[i] = Blanks
    BY <2>0, <2>1, <2>2, <1>1
  <2> DEFINE l == Outdent(text[a])
             q == SubSeq(text, a + 1, b)
  <2>5. Stripped(text) = <<l>> \o q
    BY <2>3, <2>4, StripIs
  <2>6. l \in DocLines /\ l # Blanks /\ Outdent(l) = l
    BY <2>3, OutdentIs
  <2>7. q \in Seq(DocLines) /\ Len(q) = b - a /\ \A i \in 1..b - a : q[i] = text[a + i]
    <3>1. \A i \in a + 1..b : text[i] \in DocLines
      BY <2>3
    <3> QED
      BY <2>3, <1>1
  <2> HIDE DEF l, q
  <2> DEFINE r == <<l>> \o q
  <2>8. r \in Seq(DocLines) /\ Len(r) = Len(q) + 1 /\ r[1] = l /\ \A i \in 1..Len(q) : r[i + 1] = q[i]
    BY <2>6, <2>7
  <2> HIDE DEF r
  <2>9. r[Len(r)] # Blanks
    <3>1. CASE a = b
      BY <3>1, <2>3, <2>6, <2>7, <2>8
    <3>2. CASE a # b
      <4>1. b - a \in 1..b - a /\ a + (b - a) = b /\ Len(r) = (b - a) + 1
        BY <3>2, <2>3, <2>7, <2>8
      <4>2. q[b - a] = text[b]
        BY <4>1, <2>7
      <4> QED
        BY <4>1, <4>2, <2>3, <2>7, <2>8
    <3> QED
      BY <3>1, <3>2
  <2>10. Stripped(text) = r
    BY <2>5 DEF r
  <2> QED
    BY <2>6, <2>8, <2>9, <2>10 DEF Trim
<1> QED
  BY <1>2, <1>3

\* A text that needs no strip() is what it leaves, also when a blank line follows.
LEMMA TrimStays ==
  ASSUME NEW S, NEW text \in Seq(S), Trim(text), Blanks \in S
  PROVE  Stripped(text) = text /\ Stripped(Append(text, Blanks)) = text
<1> DEFINE n == Len(text)
           more == Append(text, Blanks)
<1>1. /\ n \in Nat /\ DOMAIN text = 1..n /\ more \in Seq(S) /\ Len(more) = n + 1 /\ DOMAIN more = 1..n + 1
      /\ more[n + 1] = Blanks /\ \A i \in 1..n : more[i] = text[i]
  OBVIOUS
<1>2. CASE text = <<>>
  <2>1. n = 0
    BY <1>2
  <2>2. \A i \in DOMAIN text : text[i] = Blanks
    BY <1>1, <2>1
  <2>3. \A i \in DOMAIN more : more[i] = Blanks
    BY <1>1, <2>1
  <2> QED
    BY <2>2, <2>3, <1>2, StripNothing
<1>3. CASE text # <<>>
  <2>1. n # 0 /\ 1 \in 1..n /\ n \in 1..n /\ n \in 1..n + 1 /\ 1 \in 1..n + 1 /\ n <= n + 1
    BY <1>3, <1>1
  <2>2. text[1] # Blanks /\ text[n] # Blanks /\ more[1] # Blanks /\ more[n] # Blanks
    BY <1>3, <1>1, <2>1 DEF Trim
  <2>3. Outdent(text[1]) = text[1] /\ Outdent(more[1]) = text[1]
    <3>1. Outdent(text[1]) = text[1]
      BY <1>3 DEF Trim
    <3>2. more[1] = text[1]
      BY <1>1, <2>1
    <3> QED
      BY <3>1, <3>2
  <2>4. ASSUME NEW t \in Seq(S), n <= Len(t), \A i \in 1..n : t[i] = text[i]
        PROVE  <<text[1]>> \o SubSeq(t, 1 + 1, n) = text
    <3> DEFINE q == SubSeq(t, 1 + 1, n)
               l == text[1]
               u == <<l>> \o q
    <3>1. q \in Seq(S) /\ Len(q) = n - 1 /\ \A i \in 1..n - 1 : q[i] = text[i + 1]
      <4>1. Len(t) \in Nat /\ \A i \in 1..n : t[i] \in S
        BY <1>1, <2>4
      <4> QED
        BY <4>1, <1>1, <2>1, <2>4
    <3>2. l \in S
      BY <1>1, <2>1
    <3> HIDE DEF q
    <3>3. u \in Seq(S) /\ Len(u) = Len(q) + 1 /\ u[1] = l /\ \A i \in 1..Len(q) : u[i + 1] = q[i]
      <4> HIDE DEF l
      <4> QED
        BY <3>1, <3>2
    <3> HIDE DEF u
    <3>4. \A i \in 1..n : u[i] = text[i]
      <4> TAKE i \in 1..n
      <4>1. CASE i = 1
        BY <4>1, <3>3
      <4>2. CASE i # 1
        <5>1. i - 1 \in 1..n - 1 /\ (i - 1) + 1 = i
          BY <4>2, <1>1
        <5> QED
          BY <5>1, <3>1, <3>3
      <4> QED
        BY <4>1, <4>2
    <3>5. Len(u) = n
      BY <3>1, <3>3, <1>1
    <3>6. u = text
      BY <3>3, <3>4, <3>5, <1>1, SameSequence
    <3> QED
      BY <3>6 DEF u, q, l
  <2> HIDE DEF more
  <2>5. \A i \in 1..n : ~ (i < 1 \/ n < i)
    BY <1>1
  <2>6. \A i \in 1..n + 1 : i < 1 \/ n < i => more[i] = Blanks
    BY <1>1
  <2>7. Stripped(text) = <<Outdent(text[1])>> \o SubSeq(text, 1 + 1, n)
    BY <2>1, <2>2, <2>5, StripIs
  <2>8. n \in 1..Len(more) /\ 1 \in 1..Len(more)
    BY <1>1, <2>1
  <2>9. Stripped(more) = <<Outdent(more[1])>> \o SubSeq(more, 1 + 1, n)
    BY <2>1, <2>2, <2>6, <2>8, <1>1, StripIs
  <2>10. Stripped(text) = text
    <3>1. n <= Len(text)
      BY <1>1
    <3>2. <<text[1]>> \o SubSeq(text, 1 + 1, n) = text
      BY <3>1, <2>4
    <3> QED
      BY <3>2, <2>3, <2>7
  <2>11. Stripped(more) = text
    <3>1. n <= Len(more)
      BY <1>1
    <3>2. <<text[1]>> \o SubSeq(more, 1 + 1, n) = text
      BY <3>1, <2>4, <1>1
    <3> QED
      BY <3>2, <2>3, <2>9
  <2> QED
    BY <2>10, <2>11 DEF more
<1> QED
  BY <1>2, <1>3

------------------------------------------------------------------------------
\* Reading a document

TextLines == {line \in DocLines : line.heading = None}
Keys == Headings \cup {None}
DocOf == [Keys -> Seq(TextLines)]
Has(order, h) == \E i \in 1..Len(order) : order[i] = h
Distinct(order) == \A i, k \in 1..Len(order) : order[i] = order[k] => i = k

\* Headings and other lines.
LEMMA LinesAre ==
  /\ None \notin Headings /\ Blanks \in TextLines /\ TextLines \subseteq DocLines
  /\ \A h \in Headings : Heading(h) \in DocLines /\ Heading(h).heading = h /\ Heading(h) # Blanks
  /\ \A line \in DocLines : line \in TextLines \/ (line.heading \in Headings /\ line = Heading(line.heading))
<1>1. None \notin Headings
  BY DocsAreLines
<1>2. Blanks \in DocLines /\ Blanks.heading = None
  BY DEF DocLines, Blanks, Plain
<1>3. ASSUME NEW h \in Headings
      PROVE  Heading(h) \in DocLines /\ Heading(h).heading = h /\ Heading(h) # Blanks
  <2>1. Heading(h) \in DocLines
    BY DEF DocLines
  <2>2. Heading(h).heading = h
    BY DEF Heading
  <2> QED
    BY <2>1, <2>2, <1>1, <1>2
<1>4. ASSUME NEW line \in DocLines
      PROVE  line \in TextLines \/ (line.heading \in Headings /\ line = Heading(line.heading))
  <2>1. CASE \E h \in Headings : line = Heading(h)
    BY <2>1, <1>3
  <2>2. CASE \E t \in Words \cup {NoWords} : line = Plain(t)
    <3>1. line.heading = None
      BY <2>2 DEF Plain
    <3> QED
      BY <3>1 DEF TextLines
  <2> QED
    BY <2>1, <2>2 DEF DocLines
<1>5. TextLines \subseteq DocLines /\ Blanks \in TextLines
  BY <1>2 DEF TextLines
<1> QED
  BY <1>1, <1>3, <1>4, <1>5

\* The state of the parser.
Read(under, order, of) == [under |-> under, order |-> order, of |-> of]

\* Its fields, ...
LEMMA ReadIs ==
  ASSUME NEW u, NEW o, NEW f
  PROVE  Read(u, o, f).under = u /\ Read(u, o, f).order = o /\ Read(u, o, f).of = f
BY DEF Read

\* ... what is set in them, ...
LEMMA ReadOf ==
  ASSUME NEW u, NEW o, NEW f, NEW g
  PROVE  [Read(u, o, f) EXCEPT !.of = g] = Read(u, o, g)
BY DEF Read
\* ... (the heading that a line is under, ...
LEMMA ReadUnder ==
  ASSUME NEW u, NEW o, NEW f, NEW v
  PROVE  [Read(u, o, f) EXCEPT !.under = v] = Read(v, o, f)
BY DEF Read
\* ... and the order), ...
LEMMA ReadOrder ==
  ASSUME NEW u, NEW o, NEW f, NEW p
  PROVE  [Read(u, o, f) EXCEPT !.order = p] = Read(u, p, f)
BY DEF Read

\* ... a line under a heading, ...
LEMMA ReadsText ==
  ASSUME NEW u, NEW o, NEW f, NEW l \in TextLines
  PROVE  ReadsLine(Read(u, o, f), l) = Read(u, o, [f EXCEPT ![u] = Append(f[u], l)])
<1>1. l.heading = None
  BY DEF TextLines
<1>2. ReadsLine(Read(u, o, f), l) = [Read(u, o, f) EXCEPT !.of[Read(u, o, f).under] = Append(@, l)]
  BY <1>1 DEF ReadsLine
<1>3. [Read(u, o, f) EXCEPT !.of[Read(u, o, f).under] = Append(@, l)]
       = [Read(u, o, f) EXCEPT !.of = [f EXCEPT ![u] = Append(f[u], l)]]
  BY ReadIs, SMTT(60)
<1>4. [Read(u, o, f) EXCEPT !.of = [f EXCEPT ![u] = Append(f[u], l)]]
       = Read(u, o, [f EXCEPT ![u] = Append(f[u], l)])
  BY ReadOf
<1> QED
  BY <1>2, <1>3, <1>4

\* ... and a heading.
LEMMA ReadsHeading ==
  ASSUME NEW u, NEW o, NEW f, NEW h \in Headings
  PROVE  ReadsLine(Read(u, o, f), Heading(h)) = Read(h, IF Has(o, h) THEN o ELSE Append(o, h), f)
<1>1. Heading(h).heading = h /\ h # None
  BY LinesAre
<1> DEFINE st == Read(u, o, f)
           next == Read(h, o, f)
           new == IF Has(o, h) THEN o ELSE Append(o, h)
<1>2. [st EXCEPT !.under = h] = next
  BY ReadUnder
<1>3. Contains(o, h) <=> Has(o, h)
  BY DEF Contains, Has
<1>4. next.order = o
  BY ReadIs
<1>5. [next EXCEPT !.order = new] = Read(h, new, f)
  BY ReadOrder, ZenonT(60)
<1> HIDE DEF st, next
<1>6. ReadsLine(st, Heading(h))
       = [[st EXCEPT !.under = h] EXCEPT !.order =
           IF Contains([st EXCEPT !.under = h].order, h) THEN [st EXCEPT !.under = h].order
           ELSE Append([st EXCEPT !.under = h].order, h)]
  BY <1>1 DEF ReadsLine
<1>7. ReadsLine(st, Heading(h)) = [next EXCEPT !.order = IF Contains(o, h) THEN o ELSE Append(o, h)]
  BY <1>2, <1>4, <1>6
<1> QED
  BY <1>3, <1>5, <1>7 DEF st

ReadsInTurn(b, p, q) == FoldLeft(ReadsLine, b, p \o q) = FoldLeft(ReadsLine, FoldLeft(ReadsLine, b, p), q)
\* What is read after what has been read.
LEMMA ReadsBoth ==
  ASSUME NEW b, NEW S, NEW p \in Seq(S), NEW q \in Seq(S)
  PROVE  ReadsInTurn(b, p, q)
<1> DEFINE n == Len(q)
           st == FoldLeft(ReadsLine, b, p)
           T == {k \in 0..n : FoldLeft(ReadsLine, b, p \o SubSeq(q, 1, k))
                                = FoldLeft(ReadsLine, st, SubSeq(q, 1, k))}
<1>1. n \in Nat /\ SubSeq(q, 1, 0) = <<>> /\ SubSeq(q, 1, n) = q /\ p \o <<>> = p
  OBVIOUS
<1>2. FoldLeft(ReadsLine, st, <<>>) = st
  BY ReadsLineNothing
<1>b. p \o SubSeq(q, 1, 0) = p /\ SubSeq(q, 1, 0) = <<>>
  BY <1>1
<1>c. FoldLeft(ReadsLine, b, p \o SubSeq(q, 1, 0)) = FoldLeft(ReadsLine, st, SubSeq(q, 1, 0))
  BY <1>b, <1>2, Zenon
<1>a. FoldLeft(ReadsLine, b, p \o SubSeq(q, 1, 0)) = FoldLeft(ReadsLine, st, SubSeq(q, 1, 0)) /\ 0 \in 0..n
  BY <1>1, <1>c
<1>3. 0 \in T
  BY <1>a
<1>4. ASSUME NEW k \in 1..n, k - 1 \in T PROVE k \in T
  <2> DEFINE u == SubSeq(q, 1, k - 1)
  <2>1. SubSeq(q, 1, k) = Append(u, q[k]) /\ q[k] \in S /\ u \in Seq(S)
    OBVIOUS
  <2>2. p \o Append(u, q[k]) = Append(p \o u, q[k]) /\ p \o u \in Seq(S)
    BY <2>1, JoinsMore
  <2>3. FoldLeft(ReadsLine, b, p \o u) = FoldLeft(ReadsLine, st, u)
    BY <1>4
  <2> HIDE DEF u, st
  <2>4. FoldLeft(ReadsLine, b, Append(p \o u, q[k])) = ReadsLine(FoldLeft(ReadsLine, b, p \o u), q[k])
    BY <2>1, <2>2, ReadsLineMore, ZenonT(60)
  <2>5. FoldLeft(ReadsLine, st, Append(u, q[k])) = ReadsLine(FoldLeft(ReadsLine, st, u), q[k])
    BY <2>1, ReadsLineMore
  <2>6. FoldLeft(ReadsLine, b, p \o SubSeq(q, 1, k)) = FoldLeft(ReadsLine, st, SubSeq(q, 1, k))
    BY <2>1, <2>2, <2>3, <2>4, <2>5
  <2> QED
    BY <2>6 DEF st
<1>5. n \in T
  <2> HIDE DEF T
  <2>1. \A k \in 0..n : k \in T
    BY <1>1, <1>3, <1>4, UpTo
  <2> QED
    BY <2>1, <1>1
<1> QED
  BY <1>5, <1>1 DEF ReadsInTurn

AddsTexts(u, o, f, q) == FoldLeft(ReadsLine, Read(u, o, f), q) = Read(u, o, [f EXCEPT ![u] = f[u] \o q])
\* Lines under a heading are added to what it has.
LEMMA ReadsTexts ==
  ASSUME NEW u \in Keys, NEW o, NEW f \in DocOf, NEW q \in Seq(TextLines)
  PROVE  AddsTexts(u, o, f, q)
<1> DEFINE n == Len(q)
           st(k) == FoldLeft(ReadsLine, Read(u, o, f), SubSeq(q, 1, k))
           is(k) == Read(u, o, [f EXCEPT ![u] = f[u] \o SubSeq(q, 1, k)])
           T == {k \in 0..n : st(k) = is(k)}
<1>0. f[u] \in Seq(TextLines)
  BY DEF DocOf
<1>1. n \in Nat /\ SubSeq(q, 1, 0) = <<>> /\ SubSeq(q, 1, n) = q
  OBVIOUS
<1>2. 0 \in T
  <2>1. st(0) = Read(u, o, f)
    BY <1>1, ReadsLineNothing
  <2>2. f[u] \o SubSeq(q, 1, 0) = f[u]
    BY <1>0, <1>1
  <2>3. [f EXCEPT ![u] = f[u]] = f
    BY DEF DocOf
  <2>4. is(0) = Read(u, o, f)
    BY <2>2, <2>3
  <2>5. 0 \in 0..n
    BY <1>1
  <2> QED
    BY <2>1, <2>4, <2>5
<1>3. ASSUME NEW k \in 1..n, k - 1 \in T PROVE k \in T
  <2> DEFINE w == SubSeq(q, 1, k - 1)
             g == [f EXCEPT ![u] = f[u] \o w]
  <2>1. SubSeq(q, 1, k) = Append(w, q[k]) /\ q[k] \in TextLines /\ w \in Seq(TextLines) /\ k \in 0..n
    OBVIOUS
  <2>2. FoldLeft(ReadsLine, Read(u, o, f), w) = Read(u, o, g)
    BY <1>3
  <2>3. g[u] = f[u] \o w /\ [g EXCEPT ![u] = Append(f[u] \o w, q[k])] = [f EXCEPT ![u] = Append(f[u] \o w, q[k])]
    BY DEF DocOf
  <2> HIDE DEF w, g
  <2>4. f[u] \o Append(w, q[k]) = Append(f[u] \o w, q[k])
    <3> DEFINE p == f[u]
    <3>1. p \in Seq(TextLines)
      BY <1>0
    <3> HIDE DEF p
    <3>2. p \o Append(w, q[k]) = Append(p \o w, q[k]) /\ p \o <<>> = p /\ <<>> \o p = p
      BY <2>1, <3>1, JoinsMore
    <3> QED
      BY <3>2 DEF p
  <2>5. FoldLeft(ReadsLine, Read(u, o, f), Append(w, q[k]))
         = ReadsLine(FoldLeft(ReadsLine, Read(u, o, f), w), q[k])
    BY <2>1, ReadsLineMore, ZenonT(60)
  <2>6. ReadsLine(Read(u, o, g), q[k]) = Read(u, o, [g EXCEPT ![u] = Append(g[u], q[k])])
    BY <2>1, ReadsText
  <2>7. st(k) = is(k)
    BY <2>1, <2>2, <2>3, <2>4, <2>5, <2>6
  <2> QED
    BY <2>1, <2>7
<1>4. n \in T
  <2> HIDE DEF T
  <2>1. \A k \in 0..n : k \in T
    BY <1>1, <1>2, <1>3, UpTo
  <2> QED
    BY <2>1, <1>1
<1> QED
  BY <1>4, <1>1 DEF AddsTexts

\* What has been read of a text: which headings, in which order, and no line under
\* another.
Good(u, o, f, text) ==
  /\ Distinct(o) /\ (u # None => Has(o, u))
  /\ \A h \in Headings : ~Has(o, h) => f[h] = <<>>
  /\ \A i \in 1..Len(o) : \E k \in 1..Len(text) : text[k].heading = o[i]

\* One more heading.
LEMMA HasMore ==
  ASSUME NEW o \in Seq(Headings), NEW h \in Headings, Distinct(o)
  PROVE  /\ Append(o, h) \in Seq(Headings) /\ Len(Append(o, h)) = Len(o) + 1
         /\ Append(o, h)[Len(o) + 1] = h /\ \A i \in 1..Len(o) : Append(o, h)[i] = o[i]
         /\ \A z \in Headings : Has(Append(o, h), z) <=> Has(o, z) \/ z = h
         /\ ~Has(o, h) => Distinct(Append(o, h))
<1> DEFINE p == Append(o, h)
           n == Len(o)
<1>1. p \in Seq(Headings) /\ n \in Nat /\ Len(p) = n + 1 /\ p[n + 1] = h /\ \A i \in 1..n : p[i] = o[i]
  OBVIOUS
<1> HIDE DEF p
<1>2. ASSUME NEW z \in Headings PROVE Has(p, z) <=> Has(o, z) \/ z = h
  <2>1. ASSUME Has(p, z) PROVE Has(o, z) \/ z = h
    <3>1. PICK i \in 1..n + 1 : p[i] = z
      BY <1>1, <2>1 DEF Has
    <3>2. i \in 1..n \/ i = n + 1
      BY <1>1
    <3> QED
      BY <3>1, <3>2, <1>1 DEF Has
  <2>2. ASSUME Has(o, z) PROVE Has(p, z)
    <3>1. PICK i \in 1..n : o[i] = z
      BY <2>2 DEF Has
    <3>2. i \in 1..Len(p) /\ p[i] = z
      BY <1>1, <3>1
    <3> QED
      BY <3>2 DEF Has
  <2>3. n + 1 \in 1..Len(p)
    BY <1>1
  <2>4. Has(p, h)
    BY <2>3, <1>1 DEF Has
  <2> QED
    BY <2>1, <2>2, <2>4
<1>3. ASSUME ~Has(o, h) PROVE Distinct(p)
  <2>1. ASSUME NEW i \in 1..n + 1, NEW k \in 1..n + 1, p[i] = p[k] PROVE i = k
    <3>1. (i \in 1..n \/ i = n + 1) /\ (k \in 1..n \/ k = n + 1)
      BY <1>1
    <3>2. CASE i \in 1..n /\ k \in 1..n
      BY <3>2, <1>1, <2>1 DEF Distinct
    <3>3. CASE i \in 1..n /\ k = n + 1
      BY <3>3, <1>1, <1>3, <2>1 DEF Has
    <3>4. CASE i = n + 1 /\ k \in 1..n
      BY <3>4, <1>1, <1>3, <2>1 DEF Has
    <3> QED
      BY <3>1, <3>2, <3>3, <3>4
  <2> QED
    BY <2>1, <1>1 DEF Distinct
<1>4. /\ p \in Seq(Headings) /\ Len(p) = Len(o) + 1 /\ p[Len(o) + 1] = h /\ \A i \in 1..Len(o) : p[i] = o[i]
  BY <1>1
<1> QED
  BY <1>2, <1>3, <1>4 DEF p

\* One more line.
LEMMA GoodLine ==
  ASSUME NEW u \in Keys, NEW o \in Seq(Headings), NEW f \in DocOf, NEW w \in Seq(DocLines),
         Good(u, o, f, w), NEW l \in DocLines
  PROVE  \E v \in Keys, p \in Seq(Headings), g \in DocOf :
           ReadsLine(Read(u, o, f), l) = Read(v, p, g) /\ Good(v, p, g, Append(w, l))
<1> DEFINE more == Append(w, l)
<1>0. more \in Seq(DocLines) /\ Len(w) \in Nat /\ Len(more) = Len(w) + 1 /\ more[Len(w) + 1] = l
      /\ \A k \in 1..Len(w) : more[k] = w[k]
  OBVIOUS
<1> HIDE DEF more
<1>1. ASSUME NEW i \in 1..Len(o) PROVE \E k \in 1..Len(more) : more[k].heading = o[i]
  <2>1. PICK k \in 1..Len(w) : w[k].heading = o[i]
    BY DEF Good
  <2>2. k \in 1..Len(more) /\ more[k] = w[k]
    BY <1>0
  <2> QED
    BY <2>1, <2>2
<1>2. CASE l \in TextLines
  <2> DEFINE g == [f EXCEPT ![u] = Append(f[u], l)]
  <2>1. ReadsLine(Read(u, o, f), l) = Read(u, o, g)
    BY <1>2, ReadsText
  <2>2. f[u] \in Seq(TextLines)
    BY DEF DocOf
  <2>3. Append(f[u], l) \in Seq(TextLines)
    BY <1>2, <2>2
  <2>4. g \in DocOf
    BY <2>3 DEF DocOf
  <2>5. ASSUME NEW h \in Headings, ~Has(o, h) PROVE g[h] = <<>>
    <3>1. h # None /\ h \in Keys
      BY LinesAre DEF Keys
    <3>2. h # u
      BY <2>5, <3>1 DEF Good
    <3>3. g[h] = f[h]
      BY <3>1, <3>2 DEF DocOf
    <3> QED
      BY <2>5, <3>3 DEF Good
  <2> HIDE DEF g
  <2>6. Good(u, o, g, more)
    BY <2>5, <1>1 DEF Good
  <2> QED
    BY <2>1, <2>4, <2>6 DEF more
<1>3. CASE l.heading \in Headings /\ l = Heading(l.heading)
  <2> DEFINE h == l.heading
             p == IF Has(o, h) THEN o ELSE Append(o, h)
  <2>1. ReadsLine(Read(u, o, f), l) = Read(h, p, f)
    BY <1>3, ReadsHeading
  <2>2. h \in Headings /\ h \in Keys
    BY <1>3 DEF Keys
  <2> HIDE DEF h
  <2>3. Distinct(o)
    BY DEF Good
  <2>4. p \in Seq(Headings) /\ Distinct(p) /\ Has(p, h)
    BY <2>2, <2>3, HasMore
  <2>5. ASSUME NEW z \in Headings, ~Has(p, z) PROVE f[z] = <<>>
    <3>1. ~Has(o, z)
      BY <2>2, <2>3, <2>5, HasMore
    <3> QED
      BY <3>1 DEF Good
  <2>6. ASSUME NEW i \in 1..Len(p) PROVE \E k \in 1..Len(more) : more[k].heading = p[i]
    <3>1. CASE Has(o, h)
      BY <3>1, <1>1
    <3>2. CASE ~Has(o, h)
      <4>1. Len(p) = Len(o) + 1 /\ p[Len(o) + 1] = h /\ \A j \in 1..Len(o) : p[j] = o[j]
        BY <3>2, <2>2, <2>3, HasMore
      <4>2. i \in 1..Len(o) \/ i = Len(o) + 1
        BY <4>1
      <4>3. Len(w) + 1 \in 1..Len(more) /\ more[Len(w) + 1].heading = h
        BY <1>0 DEF h
      <4>4. CASE i \in 1..Len(o)
        BY <4>1, <4>4, <1>1
      <4>5. CASE i = Len(o) + 1
        BY <4>1, <4>3, <4>5
      <4> QED
        BY <4>2, <4>4, <4>5
    <3> QED
      BY <3>1, <3>2
  <2> HIDE DEF p
  <2>7. Good(h, p, f, more)
    BY <2>4, <2>5, <2>6 DEF Good
  <2> QED
    BY <2>1, <2>2, <2>4, <2>7 DEF more
<1> QED
  BY <1>2, <1>3, LinesAre

\* Every text is read to the end.
LEMMA TextIsRead ==
  ASSUME NEW text \in Seq(DocLines)
  PROVE  \E u \in Keys, o \in Seq(Headings), f \in DocOf :
           FoldLeft(ReadsLine, Unread, text) = Read(u, o, f) /\ Good(u, o, f, text)
<1> DEFINE n == Len(text)
           Is(w) == \E u \in Keys, o \in Seq(Headings), f \in DocOf :
                      FoldLeft(ReadsLine, Unread, w) = Read(u, o, f) /\ Good(u, o, f, w)
           T == {k \in 0..n : Is(SubSeq(text, 1, k))}
<1>1. n \in Nat /\ SubSeq(text, 1, 0) = <<>> /\ SubSeq(text, 1, n) = text
  OBVIOUS
<1>2. Is(<<>>)
  <2> DEFINE f == [h \in Headings \cup {None} |-> <<>>]
             o == <<>>
  <2>1. FoldLeft(ReadsLine, Unread, <<>>) = Unread
    BY ReadsLineNothing
  <2>2. Unread = Read(None, o, f)
    BY DEF Unread, Read
  <2>3. <<>> \in Seq(TextLines)
    OBVIOUS
  <2>4. f \in DocOf
    BY <2>3 DEF DocOf, Keys
  <2>5. o \in Seq(Headings) /\ Len(o) = 0 /\ 1..Len(o) = {}
    OBVIOUS
  <2>6. \A h \in Headings : f[h] = <<>>
    OBVIOUS
  <2>7. None \in Keys
    BY DEF Keys
  <2> HIDE DEF f, o
  <2>8. Good(None, o, f, <<>>)
    BY <2>5, <2>6 DEF Good, Distinct, Has
  <2> QED
    BY <2>1, <2>2, <2>4, <2>5, <2>7, <2>8
<1>3. 0 \in T
  <2>1. Is(SubSeq(text, 1, 0))
    BY <1>1, <1>2
  <2> QED
    BY <1>1, <2>1
<1>4. ASSUME NEW k \in 1..n, k - 1 \in T PROVE k \in T
  <2> DEFINE w == SubSeq(text, 1, k - 1)
  <2>1. SubSeq(text, 1, k) = Append(w, text[k]) /\ text[k] \in DocLines /\ w \in Seq(DocLines) /\ k \in 0..n
    OBVIOUS
  <2>2. PICK u \in Keys, o \in Seq(Headings), f \in DocOf :
               FoldLeft(ReadsLine, Unread, w) = Read(u, o, f) /\ Good(u, o, f, w)
    BY <1>4
  <2> HIDE DEF w
  <2>3. FoldLeft(ReadsLine, Unread, Append(w, text[k])) = ReadsLine(FoldLeft(ReadsLine, Unread, w), text[k])
    BY <2>1, ReadsLineMore, ZenonT(60)
  <2>4. PICK v \in Keys, p \in Seq(Headings), g \in DocOf :
               ReadsLine(Read(u, o, f), text[k]) = Read(v, p, g) /\ Good(v, p, g, Append(w, text[k]))
    BY <2>1, <2>2, GoodLine
  <2>5. FoldLeft(ReadsLine, Unread, Append(w, text[k])) = Read(v, p, g)
    BY <2>2, <2>3, <2>4
  <2>6. Is(Append(w, text[k]))
    BY <2>4, <2>5
  <2> HIDE DEF Is
  <2>7. Is(SubSeq(text, 1, k))
    BY <2>1, <2>6
  <2> QED
    BY <2>1, <2>7
<1> HIDE DEF Is
<1>5. n \in T
  <2> HIDE DEF T
  <2>1. \A k \in 0..n : k \in T
    BY <1>1, <1>3, <1>4, UpTo
  <2> QED
    BY <2>1, <1>1
<1>6. Is(text)
  BY <1>5, <1>1
<1> QED
  BY <1>6 DEF Is

\* What parse_state_document makes of a text: an order of headings, and what is
\* under each.
Doc(o, g) == [order |-> o, of |-> g]
IsLoose(o, g) ==
  /\ o \in Seq(Headings) /\ g \in [Keys -> Seq(DocLines)] /\ Distinct(o) /\ \A h \in Keys : Trim(g[h])
  /\ \A h \in Headings : ~Has(o, h) => g[h] = <<>>
\* strip() made no heading of the first line of a part.
IsDoc(o, g) == IsLoose(o, g) /\ g \in DocOf

\* Its fields.
LEMMA DocIs ==
  ASSUME NEW o, NEW g
  PROVE  Doc(o, g).order = o /\ Doc(o, g).of = g
BY DEF Doc

\* Sections gives the stripped lines of what was read.
LEMMA SectionsOf ==
  ASSUME NEW text, NEW u, NEW o, NEW f \in DocOf, FoldLeft(ReadsLine, Unread, text) = Read(u, o, f)
  PROVE  Sections(text) = Doc(o, [h \in Keys |-> Stripped(f[h])])
<1>1. DOMAIN f = Keys
  BY DEF DocOf
<1>2. Read(u, o, f).order = o /\ Read(u, o, f).of = f
  BY ReadIs
<1> QED
  BY <1>1, <1>2 DEF Sections, Doc

\* Sections parses every text.
LEMMA SectionsAre ==
  ASSUME NEW text \in Seq(DocLines)
  PROVE  \E o, g : /\ Sections(text) = Doc(o, g) /\ IsLoose(o, g)
                   /\ \A i \in 1..Len(o) : \E k \in 1..Len(text) : text[k].heading = o[i]
<1>1. PICK u \in Keys, o \in Seq(Headings), f \in DocOf :
             FoldLeft(ReadsLine, Unread, text) = Read(u, o, f) /\ Good(u, o, f, text)
  BY TextIsRead
<1> DEFINE g == [h \in Keys |-> Stripped(f[h])]
<1>2. Sections(text) = Doc(o, g)
  BY <1>1, SectionsOf
<1>3. ASSUME NEW h \in Keys PROVE g[h] \in Seq(DocLines) /\ Trim(g[h])
  <2>1. f[h] \in Seq(TextLines)
    BY DEF DocOf
  <2>2. f[h] \in Seq(DocLines)
    BY <2>1, LinesAre
  <2> QED
    BY <2>2, StripTrims
<1>4. ASSUME NEW h \in Headings, ~Has(o, h) PROVE g[h] = <<>>
  <2>1. h \in Keys /\ f[h] = <<>>
    BY <1>1, <1>4 DEF Keys, Good
  <2>2. \A i \in DOMAIN f[h] : f[h][i] = Blanks
    BY <2>1
  <2>3. Stripped(f[h]) = <<>>
    BY <2>2, StripNothing
  <2> QED
    BY <2>1, <2>3
<1>5. g \in [Keys -> Seq(DocLines)]
  BY <1>3
<1> HIDE DEF g
<1>6. IsLoose(o, g)
  BY <1>1, <1>3, <1>4, <1>5 DEF IsLoose, Good
<1> QED
  BY <1>1, <1>2, <1>6 DEF Good

------------------------------------------------------------------------------
\* The order of the sections

UpdateSet == [heading : Headings, content : Seq(DocLines)]
IsNamed(updates, h) == \E i \in 1..Len(updates) : updates[i].heading = h

\* A heading that an update names joins the others at their end, once.
LEMMA OrderIs ==
  ASSUME NEW hs \in Seq(Headings), Distinct(hs), NEW updates \in Seq(UpdateSet), NEW create \in BOOLEAN
  PROVE  LET r == Order(hs, updates, create)
         IN  /\ r \in Seq(Headings) /\ Distinct(r) /\ Len(hs) <= Len(r)
             /\ \A i \in 1..Len(hs) : r[i] = hs[i]
             /\ \A h \in Headings : Has(r, h) <=> Has(hs, h) \/ (create /\ IsNamed(updates, h))
<1> DEFINE n == Len(updates)
           Is(r, us) == /\ r \in Seq(Headings) /\ Distinct(r) /\ Len(hs) <= Len(r)
                        /\ \A i \in 1..Len(hs) : r[i] = hs[i]
                        /\ \A h \in Headings : Has(r, h) <=> Has(hs, h) \/ (create /\ IsNamed(us, h))
           T == {k \in 0..n : Is(Order(hs, SubSeq(updates, 1, k), create), SubSeq(updates, 1, k))}
<1>1. n \in Nat /\ SubSeq(updates, 1, 0) = <<>> /\ SubSeq(updates, 1, n) = updates /\ Len(hs) \in Nat
  OBVIOUS
<1>2. 0 \in T
  <2>1. Order(hs, <<>>, create) = hs
    BY TakesNothing
  <2>2. \A h : ~IsNamed(<<>>, h)
    BY DEF IsNamed
  <2>3. Is(hs, <<>>)
    BY <2>2, <1>1
  <2> HIDE DEF Is
  <2>4. Is(Order(hs, SubSeq(updates, 1, 0), create), SubSeq(updates, 1, 0))
    BY <2>1, <2>3, <1>1
  <2> QED
    BY <2>4, <1>1
<1>3. ASSUME NEW k \in 1..n, k - 1 \in T PROVE k \in T
  <2> DEFINE us == SubSeq(updates, 1, k - 1)
             r == Order(hs, us, create)
             u == updates[k]
             h == u.heading
             more == Append(us, u)
  <2>1. SubSeq(updates, 1, k) = more /\ u \in UpdateSet /\ us \in Seq(UpdateSet) /\ k \in 0..n
    OBVIOUS
  <2>2. Is(r, us)
    BY <1>3
  <2>3. h \in Headings
    BY <2>1 DEF UpdateSet
  <2>4. /\ Len(us) \in Nat /\ Len(more) = Len(us) + 1 /\ more[Len(us) + 1] = u
        /\ \A i \in 1..Len(us) : more[i] = us[i]
    BY <2>1
  <2> HIDE DEF us, r, u, more
  <2>5. Order(hs, more, create) = Takes(create, Order(hs, us, create), u)
    BY <2>1, TakesMore DEF more
  <2>6. Order(hs, more, create) = Takes(create, r, u)
    BY <2>5 DEF r
  <2>7. Takes(create, r, u) = IF ~Has(r, h) /\ create THEN Append(r, h) ELSE r
    BY DEF Takes, Contains, Has
  <2>8. ASSUME NEW z \in Headings PROVE IsNamed(more, z) <=> IsNamed(us, z) \/ z = h
    <3>1. ASSUME IsNamed(more, z) PROVE IsNamed(us, z) \/ z = h
      <4>1. PICK i \in 1..Len(us) + 1 : more[i].heading = z
        BY <2>4, <3>1 DEF IsNamed
      <4>2. i \in 1..Len(us) \/ i = Len(us) + 1
        BY <2>4
      <4> QED
        BY <4>1, <4>2, <2>4 DEF IsNamed
    <3>2. ASSUME IsNamed(us, z) PROVE IsNamed(more, z)
      <4>1. PICK i \in 1..Len(us) : us[i].heading = z
        BY <3>2 DEF IsNamed
      <4>2. i \in 1..Len(more) /\ more[i] = us[i]
        BY <2>4
      <4> QED
        BY <4>1, <4>2 DEF IsNamed
    <3>3. Len(us) + 1 \in 1..Len(more)
      BY <2>4
    <3>4. IsNamed(more, h)
      BY <3>3, <2>4 DEF IsNamed
    <3> QED
      BY <3>1, <3>2, <3>4
  <2> HIDE DEF h
  <2>9. CASE ~Has(r, h) /\ create
    <3> DEFINE p == Append(r, h)
    <3>1. /\ p \in Seq(Headings) /\ Len(p) = Len(r) + 1 /\ \A i \in 1..Len(r) : p[i] = r[i]
          /\ \A z \in Headings : Has(p, z) <=> Has(r, z) \/ z = h
          /\ Distinct(p)
      BY <2>2, <2>3, <2>9, HasMore
    <3>2. Len(r) \in Nat
      BY <2>2
    <3> HIDE DEF p
    <3>3. Len(hs) <= Len(p) /\ \A i \in 1..Len(hs) : p[i] = hs[i]
      BY <3>1, <3>2, <2>2, <1>1
    <3>4. \A z \in Headings : Has(p, z) <=> Has(hs, z) \/ (create /\ IsNamed(more, z))
      BY <3>1, <2>2, <2>8, <2>9
    <3>5. Is(p, more)
      BY <3>1, <3>3, <3>4
    <3> QED
      BY <3>5, <2>1, <2>6, <2>7, <2>9 DEF p
  <2>10. CASE ~(~Has(r, h) /\ create)
    <3>1. \A z \in Headings : Has(r, z) <=> Has(hs, z) \/ (create /\ IsNamed(more, z))
      BY <2>2, <2>3, <2>8, <2>10
    <3>2. Is(r, more)
      BY <3>1, <2>2
    <3> HIDE DEF Is
    <3>3. Is(Order(hs, SubSeq(updates, 1, k), create), SubSeq(updates, 1, k))
      BY <3>2, <2>1, <2>6, <2>7, <2>10
    <3> QED
      BY <3>3, <2>1
  <2> QED
    BY <2>9, <2>10
<1>4. n \in T
  <2> HIDE DEF T
  <2>1. \A k \in 0..n : k \in T
    BY <1>1, <1>2, <1>3, UpTo
  <2> QED
    BY <2>1, <1>1
<1>5. Is(Order(hs, updates, create), updates)
  BY <1>4, <1>1
<1> QED
  BY <1>5

\* When they are all there, or none may be created, the order stays.
LEMMA OrderStays ==
  ASSUME NEW hs \in Seq(Headings), NEW updates \in Seq(UpdateSet), NEW create \in BOOLEAN,
         create => \A i \in 1..Len(updates) : Has(hs, updates[i].heading)
  PROVE  Order(hs, updates, create) = hs
<1> DEFINE n == Len(updates)
           T == {k \in 0..n : Order(hs, SubSeq(updates, 1, k), create) = hs}
<1>1. n \in Nat /\ SubSeq(updates, 1, 0) = <<>> /\ SubSeq(updates, 1, n) = updates
  OBVIOUS
<1>2. 0 \in T
  <2>1. Order(hs, SubSeq(updates, 1, 0), create) = hs
    BY <1>1, TakesNothing
  <2> QED
    BY <2>1, <1>1
<1>3. ASSUME NEW k \in 1..n, k - 1 \in T PROVE k \in T
  <2> DEFINE us == SubSeq(updates, 1, k - 1)
             u == updates[k]
  <2>1. SubSeq(updates, 1, k) = Append(us, u) /\ u \in UpdateSet /\ us \in Seq(UpdateSet) /\ k \in 0..n
    OBVIOUS
  <2>2. Order(hs, us, create) = hs /\ (create => Has(hs, u.heading))
    BY <1>3
  <2> HIDE DEF us, u
  <2>3. Order(hs, Append(us, u), create) = Takes(create, Order(hs, us, create), u)
    BY <2>1, TakesMore
  <2>4. Takes(create, hs, u) = hs
    BY <2>2 DEF Takes, Contains, Has
  <2>5. Order(hs, SubSeq(updates, 1, k), create) = hs
    BY <2>1, <2>2, <2>3, <2>4
  <2> QED
    BY <2>1, <2>5
<1>4. n \in T
  <2> HIDE DEF T
  <2>1. \A k \in 0..n : k \in T
    BY <1>1, <1>2, <1>3, UpTo
  <2> QED
    BY <2>1, <1>1
<1> QED
  BY <1>4, <1>1

\* Each heading has one update at most.
OneEach(updates) ==
  \A i, k \in DOMAIN updates : updates[i].heading = updates[k].heading => i = k
\* Updates only say what is under a heading, also without indentation.
OnlyTexts(updates) == \A i \in 1..Len(updates) : Stripped(updates[i].content) \in Seq(TextLines)

\* What a section says afterwards.
LEMMA ContentIs ==
  ASSUME NEW updates \in Seq(UpdateSet), OneEach(updates), NEW g, NEW h
  PROVE  /\ ~IsNamed(updates, h) => Content(g, updates, h) = g[h]
         /\ \A i \in 1..Len(updates) :
              updates[i].heading = h => Content(g, updates, h) = Stripped(updates[i].content)
<1> DEFINE new == {u \in ToSet(updates) : u.heading = h}
<1>1. DOMAIN updates = 1..Len(updates)
  OBVIOUS
<1>2. ASSUME ~IsNamed(updates, h) PROVE Content(g, updates, h) = g[h]
  <2>1. new = {}
    BY <1>1, <1>2 DEF ToSet, IsNamed
  <2> QED
    BY <2>1 DEF Content
<1>3. ASSUME NEW i \in 1..Len(updates), updates[i].heading = h
      PROVE  Content(g, updates, h) = Stripped(updates[i].content)
  <2>1. updates[i] \in new
    BY <1>1, <1>3 DEF ToSet
  <2>2. ASSUME NEW u \in new PROVE u = updates[i]
    <3>1. PICK k \in DOMAIN updates : u = updates[k]
      BY DEF ToSet
    <3>2. updates[k].heading = updates[i].heading
      BY <3>1, <1>3
    <3>3. k = i
      BY <3>2, <1>1 DEF OneEach
    <3> QED
      BY <3>1, <3>3
  <2>3. (CHOOSE u \in new : TRUE) = updates[i]
    BY <2>1, <2>2
  <2>4. new # {}
    BY <2>1
  <2> QED
    BY <2>3, <2>4 DEF Content
<1> QED
  BY <1>2, <1>3

------------------------------------------------------------------------------
\* Reading what was written

Blocks(o, g) == [k \in DOMAIN o |-> <<Heading(o[k])>> \o g[o[k]]]
Written(o, g, k) == FoldLeft(AddsPart, g[None], SubSeq(Blocks(o, g), 1, k))
Among(o, k, h) == h = None \/ \E j \in 1..k : o[j] = h

\* What has been read of the first k sections: under the last heading as it is to
\* be, and with a blank line after the others.
\* What has been read.
ReadAs(text, u, p, f) == FoldLeft(ReadsLine, Unread, text) = Read(u, p, f)
Ready(o, g, k, f) ==
  /\ f \in DocOf
  /\ \A h \in Keys : Among(o, k, h) => f[h] = g[h] \/ f[h] = Append(g[h], Blanks)
  /\ \A h \in Keys : ~Among(o, k, h) => f[h] = <<>>
ReadUpto(o, g, k, f) == Ready(o, g, k, f) /\ (LET u == IF k = 0 THEN None ELSE o[k] IN f[u] = g[u])
WrittenIs(o, g, k) ==
  LET w == Written(o, g, k)
      u == IF k = 0 THEN None ELSE o[k]
  IN  /\ w \in Seq(DocLines) /\ Trim(w) /\ (w = <<>> => k = 0)
      /\ \E f : ReadAs(w, u, SubSeq(o, 1, k), f) /\ ReadUpto(o, g, k, f)

\* A section: its heading, and what is under it.
LEMMA BlocksAre ==
  ASSUME NEW o, NEW g, IsDoc(o, g)
  PROVE  /\ Blocks(o, g) \in Seq(Seq(DocLines)) /\ Len(Blocks(o, g)) = Len(o)
         /\ \A k \in 1..Len(o) : /\ Blocks(o, g)[k] = <<Heading(o[k])>> \o g[o[k]]
                                 /\ o[k] \in Headings /\ g[o[k]] \in Seq(TextLines)
<1>1. o \in Seq(Headings) /\ DOMAIN o = 1..Len(o) /\ Len(o) \in Nat
  BY DEF IsDoc, IsLoose
<1>2. ASSUME NEW k \in 1..Len(o)
      PROVE  /\ o[k] \in Headings /\ g[o[k]] \in Seq(TextLines)
             /\ <<Heading(o[k])>> \o g[o[k]] \in Seq(DocLines)
  <2>1. o[k] \in Headings /\ o[k] \in Keys
    BY <1>1 DEF Keys
  <2>2. g[o[k]] \in Seq(TextLines)
    BY <2>1 DEF IsDoc, IsLoose, DocOf
  <2>3. g[o[k]] \in Seq(DocLines) /\ Heading(o[k]) \in DocLines
    BY <2>1, <2>2, LinesAre
  <2>4. <<Heading(o[k])>> \o g[o[k]] \in Seq(DocLines)
    <3> DEFINE l == Heading(o[k])
               q == g[o[k]]
    <3> HIDE DEF l, q
    <3>1. <<l>> \o q \in Seq(DocLines)
      BY <2>3 DEF l, q
    <3> QED
      BY <3>1 DEF l, q
  <2> QED
    BY <2>1, <2>2, <2>4
<1> QED
  BY <1>1, <1>2 DEF Blocks

\* Before the first section.
LEMMA WrittenFirst ==
  ASSUME NEW o, NEW g, IsDoc(o, g)
  PROVE  WrittenIs(o, g, 0)
<1>1. g[None] \in Seq(TextLines) /\ Trim(g[None]) /\ o \in Seq(Headings)
  BY DEF IsDoc, IsLoose, DocOf, Keys
<1>2. SubSeq(Blocks(o, g), 1, 0) = <<>> /\ SubSeq(o, 1, 0) = <<>>
  <2>1. Blocks(o, g) \in Seq(Seq(DocLines))
    BY BlocksAre
  <2> QED
    BY <1>1, <2>1, FirstElements
<1>3. Written(o, g, 0) = g[None]
  BY <1>2, AddsPartNothing DEF Written
<1> DEFINE b == [h \in Headings \cup {None} |-> <<>>]
           f == [b EXCEPT ![None] = g[None]]
<1>4. <<>> \in Seq(TextLines)
  OBVIOUS
<1>5. b \in DocOf /\ None \in Keys /\ b[None] = <<>>
  BY <1>4 DEF DocOf, Keys
<1>6. <<>> \o g[None] = g[None]
  BY <1>1
<1>7. Unread = Read(None, <<>>, b)
  BY DEF Unread, Read
<1>8. FoldLeft(ReadsLine, Read(None, <<>>, b), g[None]) = Read(None, <<>>, [b EXCEPT ![None] = b[None] \o g[None]])
  <2> HIDE DEF b
  <2> QED
    BY <1>1, <1>5, ReadsTexts, ZenonT(60) DEF AddsTexts
<1>9. ReadAs(g[None], None, SubSeq(o, 1, 0), f)
  BY <1>2, <1>5, <1>6, <1>7, <1>8 DEF ReadAs
<1>10. f \in DocOf /\ f[None] = g[None] /\ \A h \in Keys : h # None => f[h] = <<>>
  BY <1>1, <1>5 DEF DocOf, Keys
<1> HIDE DEF f, b
<1>11. ReadUpto(o, g, 0, f)
  BY <1>10 DEF ReadUpto, Ready, Among
<1>12. g[None] \in Seq(DocLines)
  <2>1. TextLines \subseteq DocLines
    BY LinesAre
  <2> QED
    BY <2>1, <1>1
<1> QED
  BY <1>1, <1>3, <1>9, <1>11, <1>12 DEF WrittenIs

\* Texts that need no strip(), with a blank line between them, make another.
LEMMA TrimJoins ==
  ASSUME NEW S, NEW w \in Seq(S), NEW p \in Seq(S), Trim(w), Trim(p), w # <<>>, p # <<>>, NEW e \in S
  PROVE  w \o <<e>> \o p \in Seq(S) /\ w \o <<e>> \o p # <<>> /\ Trim(w \o <<e>> \o p)
<1> DEFINE a == w \o <<e>>
           r == a \o p
<1>1. Len(w) \in Nat /\ Len(w) # 0 /\ Len(p) \in Nat /\ Len(p) # 0
  OBVIOUS
<1>2. a \in Seq(S) /\ Len(a) = Len(w) + 1 /\ \A i \in 1..Len(w) : a[i] = w[i]
  OBVIOUS
<1> HIDE DEF a
<1>3. /\ r \in Seq(S) /\ Len(r) = Len(a) + Len(p) /\ \A i \in 1..Len(a) : r[i] = a[i]
      /\ \A i \in 1..Len(p) : r[Len(a) + i] = p[i]
  BY <1>2, SMTT(60)
<1> HIDE DEF r
<1>4. 1 \in 1..Len(w) /\ 1 \in 1..Len(a) /\ Len(p) \in 1..Len(p)
  BY <1>1, <1>2
<1>5. r[1] = w[1] /\ r[Len(r)] = p[Len(p)]
  BY <1>2, <1>3, <1>4
<1>6. Len(r) # 0
  BY <1>1, <1>2, <1>3
<1>7. r # <<>>
  BY <1>6
<1> QED
  BY <1>3, <1>5, <1>7 DEF Trim, r, a

\* A section needs no strip().
LEMMA SectionTrims ==
  ASSUME NEW h \in Headings, NEW q \in Seq(TextLines), Trim(q)
  PROVE  /\ <<Heading(h)>> \o q \in Seq(DocLines) /\ <<Heading(h)>> \o q # <<>>
         /\ Trim(<<Heading(h)>> \o q)
<1> DEFINE l == Heading(h)
           r == <<l>> \o q
<1>1. l \in DocLines /\ l # Blanks /\ q \in Seq(DocLines) /\ Outdent(l) = l
  BY LinesAre DEF Outdent
<1> HIDE DEF l
<1>2. /\ r \in Seq(DocLines) /\ Len(r) = Len(q) + 1 /\ r[1] = l /\ Len(q) \in Nat
      /\ \A i \in 1..Len(q) : r[i + 1] = q[i]
  BY <1>1
<1> HIDE DEF r
<1>3. Len(r) # 0 /\ r # <<>>
  BY <1>2
<1>4. r[Len(r)] # Blanks
  <2>1. CASE q = <<>>
    <3>1. Len(q) = 0
      BY <2>1
    <3> QED
      BY <3>1, <1>1, <1>2
  <2>2. CASE q # <<>>
    <3>1. Len(q) # 0
      BY <2>2
    <3>2. Len(q) \in 1..Len(q) /\ q[Len(q)] # Blanks
      BY <2>2, <3>1, <1>2 DEF Trim
    <3> QED
      BY <3>2, <1>2
  <2> QED
    BY <2>1, <2>2
<1> QED
  BY <1>1, <1>2, <1>3, <1>4 DEF Trim, r, l

\* A blank line after what has been read.
LEMMA BlankIsRead ==
  ASSUME NEW o, NEW g, IsDoc(o, g), NEW k \in 0..Len(o), NEW f, ReadUpto(o, g, k, f), NEW w \in Seq(DocLines),
         NEW u, u = (IF k = 0 THEN None ELSE o[k]), NEW p,
         ReadAs(w, u, p, f)
  PROVE  \E e : ReadAs(Append(w, Blanks), u, p, e) /\ Ready(o, g, k, e)
<1> DEFINE e == [f EXCEPT ![u] = Append(f[u], Blanks)]
<1>0. o \in Seq(Headings) /\ k \in Nat /\ Len(o) \in Nat
  BY DEF IsDoc, IsLoose
<1>1. u \in Keys /\ Among(o, k, u)
  <2>1. CASE k = 0
    BY <2>1 DEF Among, Keys
  <2>2. CASE k # 0
    <3>1. k \in 1..Len(o) /\ k \in 1..k /\ u = o[k]
      BY <2>2, <1>0
    <3>2. o[k] \in Headings
      BY <3>1, <1>0
    <3> QED
      BY <3>1, <3>2 DEF Among, Keys
  <2> QED
    BY <2>1, <2>2
<1>2. f \in DocOf /\ f[u] = g[u]
  BY DEF ReadUpto, Ready
<1>3. Blanks \in TextLines /\ Blanks \in DocLines
  BY LinesAre
<1>4. FoldLeft(ReadsLine, Unread, Append(w, Blanks)) = ReadsLine(FoldLeft(ReadsLine, Unread, w), Blanks)
  BY <1>3, ReadsLineMore, ZenonT(60)
<1>5. ReadsLine(Read(u, p, f), Blanks) = Read(u, p, e)
  BY <1>3, ReadsText
<1>6. f[u] \in Seq(TextLines)
  BY <1>1, <1>2 DEF DocOf
<1>7. Append(f[u], Blanks) \in Seq(TextLines)
  BY <1>3, <1>6
<1>8. e \in DocOf /\ e[u] = Append(g[u], Blanks) /\ \A h \in Keys : h # u => e[h] = f[h]
  BY <1>1, <1>2, <1>7 DEF DocOf
<1> HIDE DEF e
<1>9. ASSUME NEW h \in Keys, Among(o, k, h) PROVE e[h] = g[h] \/ e[h] = Append(g[h], Blanks)
  <2>1. f[h] = g[h] \/ f[h] = Append(g[h], Blanks)
    BY <1>9 DEF ReadUpto, Ready
  <2> QED
    BY <2>1, <1>8
<1>10. ASSUME NEW h \in Keys, ~Among(o, k, h) PROVE e[h] = <<>>
  <2>1. f[h] = <<>> /\ h # u
    BY <1>10, <1>1 DEF ReadUpto, Ready
  <2> QED
    BY <2>1, <1>8
<1>11. ReadAs(Append(w, Blanks), u, p, e)
  BY <1>4, <1>5 DEF ReadAs
<1> QED
  BY <1>8, <1>9, <1>10, <1>11 DEF Ready

\* A line and others are read.
LEMMA ReadsAfter ==
  ASSUME NEW b, NEW w \in Seq(DocLines), NEW l \in DocLines, NEW q \in Seq(DocLines)
  PROVE  FoldLeft(ReadsLine, b, w \o (<<l>> \o q))
           = FoldLeft(ReadsLine, ReadsLine(FoldLeft(ReadsLine, b, w), l), q)
<1> DEFINE v == Append(w, l)
<1>1. v \in Seq(DocLines) /\ w \o (<<l>> \o q) = v \o q
  OBVIOUS
<1>2. FoldLeft(ReadsLine, b, v) = ReadsLine(FoldLeft(ReadsLine, b, w), l)
  BY ReadsLineMore, ZenonT(60)
<1> HIDE DEF v
<1>3. v \in Seq(DocLines)
  BY <1>1
<1>4. FoldLeft(ReadsLine, b, v \o q) = FoldLeft(ReadsLine, FoldLeft(ReadsLine, b, v), q)
  BY <1>3, ReadsBoth DEF ReadsInTurn
<1> QED
  BY <1>1, <1>2, <1>4, Zenon

\* A heading is read, and what is under it.
LEMMA HeadingIsRead ==
  ASSUME NEW w \in Seq(DocLines), NEW u, NEW p, NEW e \in DocOf, ReadAs(w, u, p, e),
         NEW h \in Headings, ~Has(p, h), e[h] = <<>>, NEW q \in Seq(TextLines)
  PROVE  ReadAs(w \o (<<Heading(h)>> \o q), h, Append(p, h), [e EXCEPT ![h] = q])
<1> DEFINE l == Heading(h)
           r == Append(p, h)
           st == Read(h, r, e)
<1>1. l \in DocLines /\ q \in Seq(DocLines) /\ h \in Keys
  BY LinesAre DEF Keys
<1>2. FoldLeft(ReadsLine, Unread, w \o (<<l>> \o q))
        = FoldLeft(ReadsLine, ReadsLine(FoldLeft(ReadsLine, Unread, w), l), q)
  <2>1. \A b : FoldLeft(ReadsLine, b, w \o (<<l>> \o q))
                 = FoldLeft(ReadsLine, ReadsLine(FoldLeft(ReadsLine, b, w), l), q)
    <3> HIDE DEF l
    <3> QED
      BY <1>1, ReadsAfter, ZenonT(60)
  <2> HIDE DEF l
  <2> QED
    BY <2>1, Zenon
<1>3. ReadsLine(Read(u, p, e), l) = st
  BY ReadsHeading
<1>4. \A o : AddsTexts(h, o, e, q)
  BY <1>1, ReadsTexts
<1>5. FoldLeft(ReadsLine, st, q) = Read(h, r, [e EXCEPT ![h] = e[h] \o q])
  <2> HIDE DEF r
  <2> QED
    BY <1>4 DEF AddsTexts, st
<1>6. e[h] \o q = q
  <2>1. <<>> \o q = q
    OBVIOUS
  <2> QED
    BY <2>1
<1> HIDE DEF r, l, st
<1>7. ReadAs(w \o (<<l>> \o q), h, r, [e EXCEPT ![h] = q])
  BY <1>2, <1>3, <1>5, <1>6 DEF ReadAs
<1> QED
  BY <1>7 DEF l, r

\* The next section is read.
LEMMA SectionIsRead ==
  ASSUME NEW o, NEW g, IsDoc(o, g), NEW k \in 1..Len(o), NEW w \in Seq(DocLines), NEW u, NEW e,
         ReadAs(w, u, SubSeq(o, 1, k - 1), e), Ready(o, g, k - 1, e)
  PROVE  \E f : /\ ReadAs(w \o (<<Heading(o[k])>> \o g[o[k]]), o[k], SubSeq(o, 1, k), f)
                /\ ReadUpto(o, g, k, f)
<1> DEFINE z == o[k]
           l == Heading(o[k])
           q == g[o[k]]
           p == SubSeq(o, 1, k - 1)
           f == [e EXCEPT ![z] = q]
<1>0. o \in Seq(Headings) /\ Distinct(o) /\ Len(o) \in Nat /\ k \in Nat /\ k # 0
  BY DEF IsDoc, IsLoose
<1>1. z \in Headings /\ z \in Keys /\ z # None
  BY <1>0, LinesAre DEF Keys
<1>2. q \in Seq(TextLines) /\ q \in Seq(DocLines) /\ l \in DocLines
  <2>1. q \in Seq(TextLines)
    BY <1>1 DEF IsDoc, IsLoose, DocOf
  <2> QED
    BY <2>1, <1>1, LinesAre
<1>3. SubSeq(o, 1, k) = Append(p, z) /\ Len(p) = k - 1 /\ \A i \in 1..k - 1 : p[i] = o[i]
  BY <1>0
<1>4. ~Among(o, k - 1, z)
  <2> SUFFICES ASSUME NEW j \in 1..k - 1, o[j] = z PROVE FALSE
    BY <1>1 DEF Among
  <2>1. j \in 1..Len(o) /\ j # k
    BY <1>0
  <2> QED
    BY <2>1, <1>0 DEF Distinct
<1>5. ~Has(p, z)
  <2> SUFFICES ASSUME NEW j \in 1..k - 1, o[j] = z PROVE FALSE
    BY <1>3 DEF Has
  <2>1. Among(o, k - 1, z)
    BY DEF Among
  <2> QED
    BY <2>1, <1>4
<1> HIDE DEF l, q, p, z
<1>10. e[z] = <<>> /\ e \in DocOf
  BY <1>1, <1>4 DEF Ready
<1>14. ReadAs(w \o (<<l>> \o q), z, Append(p, z), f)
  <2>1. ReadAs(w, u, p, e)
    BY DEF p
  <2>2. ReadAs(w \o (<<Heading(z)>> \o q), z, Append(p, z), [e EXCEPT ![z] = q])
    BY <1>1, <1>2, <1>5, <1>10, <2>1, HeadingIsRead
  <2> QED
    BY <2>2 DEF l, z
<1>15. f \in DocOf /\ f[z] = q /\ \A h \in Keys : h # z => f[h] = e[h]
  BY <1>1, <1>2, <1>10 DEF DocOf
<1> HIDE DEF f
<1>16. \A h \in Keys : Among(o, k, h) <=> Among(o, k - 1, h) \/ h = z
  <2>1. ASSUME NEW h, Among(o, k, h) PROVE Among(o, k - 1, h) \/ h = z
    <3>1. CASE h = None
      BY <3>1 DEF Among
    <3>2. CASE h # None
      <4>1. PICK j \in 1..k : o[j] = h
        BY <2>1, <3>2 DEF Among
      <4>2. j \in 1..k - 1 \/ j = k
        BY <1>0
      <4> QED
        BY <4>1, <4>2 DEF Among, z
    <3> QED
      BY <3>1, <3>2
  <2>2. ASSUME NEW h, Among(o, k - 1, h) PROVE Among(o, k, h)
    <3>1. 1..k - 1 \subseteq 1..k
      BY <1>0
    <3> QED
      BY <2>2, <3>1 DEF Among
  <2>3. Among(o, k, z)
    <3>1. k \in 1..k
      BY <1>0
    <3> QED
      BY <3>1 DEF Among, z
  <2> QED
    BY <2>1, <2>2, <2>3
<1>17. ReadUpto(o, g, k, f)
  <2>1. ASSUME NEW h \in Keys, Among(o, k, h) PROVE f[h] = g[h] \/ f[h] = Append(g[h], Blanks)
    BY <2>1, <1>15, <1>16 DEF Ready, q, z
  <2>2. ASSUME NEW h \in Keys, ~Among(o, k, h) PROVE f[h] = <<>>
    BY <2>2, <1>15, <1>16 DEF Ready
  <2>3. f[o[k]] = g[o[k]]
    BY <1>15 DEF q, z
  <2> QED
    BY <2>1, <2>2, <2>3, <1>0, <1>15 DEF ReadUpto, Ready
<1> QED
  BY <1>3, <1>14, <1>17 DEF l, q, z

\* If the sections up to one are as they should be, so are those up to the next.
LEMMA WrittenNext ==
  ASSUME NEW o, NEW g, IsDoc(o, g), NEW k \in 1..Len(o), WrittenIs(o, g, k - 1)
  PROVE  WrittenIs(o, g, k)
<1> DEFINE w == Written(o, g, k - 1)
           z == o[k]
           q == g[z]
           part == <<Heading(z)>> \o q
           u == IF k - 1 = 0 THEN None ELSE o[k - 1]
           p == SubSeq(o, 1, k - 1)
           bs == Blocks(o, g)
<1>0. o \in Seq(Headings) /\ Len(o) \in Nat /\ k \in Nat /\ k # 0 /\ k - 1 \in 0..Len(o)
  BY DEF IsDoc, IsLoose
<1>1. z \in Headings /\ q \in Seq(TextLines) /\ bs \in Seq(Seq(DocLines)) /\ Len(bs) = Len(o) /\ bs[k] = part
  BY BlocksAre
<1>2. Trim(q)
  <2>1. z \in Keys
    BY <1>1 DEF Keys
  <2> QED
    BY <2>1 DEF IsDoc, IsLoose
<1>3. part \in Seq(DocLines) /\ part # <<>> /\ Trim(part)
  <2> HIDE DEF z, q
  <2> QED
    BY <1>1, <1>2, SectionTrims
<1>4. w \in Seq(DocLines) /\ Trim(w) /\ (w = <<>> => k - 1 = 0)
  BY DEF WrittenIs
<1>5. PICK f : ReadAs(w, u, p, f) /\ ReadUpto(o, g, k - 1, f)
  BY DEF WrittenIs
<1>6. SubSeq(bs, 1, k) = Append(SubSeq(bs, 1, k - 1), part) /\ SubSeq(bs, 1, k - 1) \in Seq(Seq(DocLines))
  <2> HIDE DEF bs, part
  <2> QED
    BY <1>0, <1>1
<1>7. Written(o, g, k) = AddsPart(w, part)
  <2> DEFINE front == SubSeq(bs, 1, k - 1)
  <2>1. front \in Seq(Seq(DocLines)) /\ part \in Seq(DocLines)
    BY <1>3, <1>6
  <2>2. w = FoldLeft(AddsPart, g[None], front) /\ Written(o, g, k) = FoldLeft(AddsPart, g[None], Append(front, part))
    <3> HIDE DEF part
    <3> QED
      BY <1>6 DEF Written
  <2> HIDE DEF front, part, w
  <2>3. FoldLeft(AddsPart, g[None], Append(front, part)) = AddsPart(FoldLeft(AddsPart, g[None], front), part)
    BY <2>1, AddsPartMore, ZenonT(60)
  <2> QED
    BY <2>2, <2>3
<1> HIDE DEF w, u, p, bs
<1>8. CASE w = <<>>
  <2>1. AddsPart(w, part) = part /\ w \o part = part
    <3> HIDE DEF part
    <3> QED
      BY <1>3, <1>8 DEF AddsPart
  <2>2. Ready(o, g, k - 1, f)
    BY <1>5 DEF ReadUpto
  <2>5. ReadAs(w, u, SubSeq(o, 1, k - 1), f)
    BY <1>5 DEF p
  <2>6. \E d : /\ ReadAs(w \o (<<Heading(o[k])>> \o g[o[k]]), o[k], SubSeq(o, 1, k), d)
               /\ ReadUpto(o, g, k, d)
    BY <1>4, <2>2, <2>5, SectionIsRead
  <2> QED
    BY <1>0, <1>3, <1>7, <2>1, <2>6 DEF WrittenIs
<1>9. CASE w # <<>>
  <2> DEFINE v == Append(w, Blanks)
  <2>1. Blanks \in DocLines
    BY LinesAre
  <2>2. v \in Seq(DocLines) /\ w \o <<Blanks>> = v
    BY <1>4, <2>1
  <2>3. AddsPart(w, part) = w \o <<Blanks>> \o part
    BY <1>9 DEF AddsPart
  <2>4. w \o <<Blanks>> \o part \in Seq(DocLines) /\ w \o <<Blanks>> \o part # <<>> /\ Trim(w \o <<Blanks>> \o part)
    <3> HIDE DEF part
    <3> QED
      BY <1>3, <1>4, <1>9, <2>1, TrimJoins
  <2>5. PICK e : ReadAs(Append(w, Blanks), u, p, e) /\ Ready(o, g, k - 1, e)
    <3>1. u = (IF k - 1 = 0 THEN None ELSE o[k - 1])
      BY DEF u
    <3> QED
      BY <1>0, <1>4, <1>5, <3>1, BlankIsRead
  <2> HIDE DEF v
  <2>6. ReadAs(v, u, SubSeq(o, 1, k - 1), e)
    BY <2>5 DEF p, v
  <2>7. \E d : /\ ReadAs(v \o (<<Heading(o[k])>> \o g[o[k]]), o[k], SubSeq(o, 1, k), d)
               /\ ReadUpto(o, g, k, d)
    BY <2>2, <2>5, <2>6, SectionIsRead
  <2>8. AddsPart(w, part) = v \o part
    BY <2>2, <2>3
  <2> QED
    BY <1>0, <1>7, <2>3, <2>4, <2>7, <2>8 DEF WrittenIs
<1> QED
  BY <1>8, <1>9

\* All of it is.
LEMMA WrittenAll ==
  ASSUME NEW o, NEW g, IsDoc(o, g)
  PROVE  WrittenIs(o, g, Len(o))
<1> DEFINE n == Len(o)
           T == {k \in 0..n : WrittenIs(o, g, k)}
<1>1. n \in Nat /\ 0 \in 0..n /\ n \in 0..n
  BY DEF IsDoc, IsLoose
<1>2. 0 \in T
  BY <1>1, WrittenFirst
<1>3. ASSUME NEW k \in 1..n, k - 1 \in T PROVE k \in T
  <2>1. WrittenIs(o, g, k - 1)
    BY <1>3
  <2>2. WrittenIs(o, g, k)
    BY <2>1, WrittenNext
  <2> QED
    BY <2>2, <1>1
<1>4. \A k \in 0..n : k \in T
  <2> HIDE DEF T, n
  <2> QED
    BY <1>1, <1>2, <1>3, UpTo
<1> QED
  BY <1>1, <1>4

\* A document that is written section by section is read back as these sections.
LEMMA WrittenIsRead ==
  ASSUME NEW o, NEW g, IsDoc(o, g)
  PROVE  LET text == FoldLeft(AddsPart, g[None], Blocks(o, g))
         IN  text \in Seq(DocLines) /\ Stripped(text) = text /\ Sections(text) = Doc(o, g)
<1> DEFINE n == Len(o)
           text == FoldLeft(AddsPart, g[None], Blocks(o, g))
           w == Written(o, g, n)
           u == IF n = 0 THEN None ELSE o[n]
<1>0. o \in Seq(Headings) /\ g \in DocOf /\ n \in Nat /\ SubSeq(o, 1, n) = o
  BY DEF IsDoc, IsLoose
<1>1. SubSeq(Blocks(o, g), 1, n) = Blocks(o, g)
  <2> DEFINE bs == Blocks(o, g)
  <2>1. bs \in Seq(Seq(DocLines)) /\ Len(bs) = n
    BY BlocksAre
  <2> HIDE DEF bs, n
  <2>2. SubSeq(bs, 1, n) = bs
    BY <2>1
  <2> QED
    BY <2>2 DEF bs
<1>2. w = text
  <2> HIDE DEF n
  <2> QED
    BY <1>1 DEF Written
<1>3. w \in Seq(DocLines) /\ Trim(w)
  BY WrittenAll DEF WrittenIs
<1>4. PICK f : ReadAs(w, u, SubSeq(o, 1, n), f) /\ ReadUpto(o, g, n, f)
  BY WrittenAll DEF WrittenIs
<1>5. f \in DocOf /\ ReadAs(w, u, o, f)
  BY <1>0, <1>4 DEF ReadUpto, Ready
<1>6. ASSUME NEW h \in Keys PROVE Stripped(f[h]) = g[h]
  <2>1. g[h] \in Seq(TextLines) /\ Trim(g[h]) /\ Blanks \in TextLines
    BY <1>0, LinesAre DEF IsDoc, IsLoose, DocOf
  <2>2. Stripped(g[h]) = g[h] /\ Stripped(Append(g[h], Blanks)) = g[h]
    BY <2>1, TrimStays
  <2>3. f[h] = g[h] \/ f[h] = Append(g[h], Blanks)
    <3>1. CASE Among(o, n, h)
      BY <3>1, <1>4 DEF ReadUpto, Ready
    <3>2. CASE ~Among(o, n, h)
      <4>1. f[h] = <<>>
        BY <3>2, <1>4 DEF ReadUpto, Ready
      <4>2. h \in Headings /\ ~Has(o, h)
        BY <3>2 DEF Among, Has, Keys
      <4>3. g[h] = <<>>
        BY <4>2 DEF IsDoc, IsLoose
      <4> QED
        BY <4>1, <4>3
    <3> QED
      BY <3>1, <3>2
  <2> QED
    BY <2>2, <2>3
<1> HIDE DEF w, u, n
<1>7. Sections(w) = Doc(o, [h \in Keys |-> Stripped(f[h])])
  <2>1. FoldLeft(ReadsLine, Unread, w) = Read(u, o, f)
    BY <1>5 DEF ReadAs
  <2> QED
    BY <1>5, <2>1, SectionsOf
<1>8. [h \in Keys |-> Stripped(f[h])] = g
  BY <1>0, <1>6 DEF DocOf
<1>9. Stripped(w) = w
  <2>1. Blanks \in DocLines
    BY LinesAre
  <2> QED
    BY <2>1, <1>3, TrimStays
<1>10. w \in Seq(DocLines) /\ Stripped(w) = w /\ Sections(w) = Doc(o, g)
  BY <1>3, <1>7, <1>8, <1>9
<1> HIDE DEF text
<1>11. text \in Seq(DocLines) /\ Stripped(text) = text /\ Sections(text) = Doc(o, g)
  BY <1>2, <1>10
<1> QED
  BY <1>11 DEF text
------------------------------------------------------------------------------
\* Patches

\* What a patch may ask for.
Sane(updates) == updates \in Seq(UpdateSet) /\ OneEach(updates) /\ OnlyTexts(updates)

\* What is under each key afterwards, when r are the headings.
After(g, r, updates) ==
  [h \in Keys |-> IF h = None THEN g[None] ELSE IF Has(r, h) THEN Content(g, updates, h) ELSE <<>>]

\* An update.
LEMMA UpdateIs ==
  ASSUME NEW updates \in Seq(UpdateSet), NEW i \in 1..Len(updates)
  PROVE  updates[i].heading \in Headings /\ updates[i].content \in Seq(DocLines)
<1>1. updates[i] \in UpdateSet
  OBVIOUS
<1> QED
  BY <1>1 DEF UpdateSet

\* What is under a heading afterwards are lines that need no strip().
LEMMA ContentTrims ==
  ASSUME NEW o, NEW g, IsDoc(o, g), NEW updates, Sane(updates), NEW h \in Keys
  PROVE  Content(g, updates, h) \in Seq(TextLines) /\ Trim(Content(g, updates, h))
<1>1. updates \in Seq(UpdateSet) /\ OneEach(updates)
  BY DEF Sane
<1>2. CASE ~IsNamed(updates, h)
  <2>1. Content(g, updates, h) = g[h]
    BY <1>1, <1>2, ContentIs
  <2>2. g[h] \in Seq(TextLines) /\ Trim(g[h])
    BY DEF IsDoc, IsLoose, DocOf
  <2> QED
    BY <2>1, <2>2
<1>3. CASE IsNamed(updates, h)
  <2>1. PICK i \in 1..Len(updates) : updates[i].heading = h
    BY <1>3 DEF IsNamed
  <2>2. Content(g, updates, h) = Stripped(updates[i].content)
    BY <1>1, <2>1, ContentIs
  <2>3. Stripped(updates[i].content) \in Seq(TextLines)
    BY DEF Sane, OnlyTexts
  <2>4. Stripped(updates[i].content) \in Seq(TextLines) /\ Trim(Stripped(updates[i].content))
    BY <1>1, <2>3, UpdateIs, StripTrims
  <2> QED
    BY <2>2, <2>4
<1> QED
  BY <1>2, <1>3

\* The sections afterwards are those of a document.
LEMMA AfterIs ==
  ASSUME NEW o, NEW g, IsDoc(o, g), NEW updates, Sane(updates), NEW create \in BOOLEAN
  PROVE  LET r == Order(o, updates, create)
         IN  /\ IsDoc(r, After(g, r, updates))
             /\ \A h \in Headings : Has(r, h) => After(g, r, updates)[h] = Content(g, updates, h)
<1> DEFINE r == Order(o, updates, create)
           a == After(g, r, updates)
<1>1. o \in Seq(Headings) /\ Distinct(o) /\ updates \in Seq(UpdateSet) /\ g \in DocOf
  BY DEF IsDoc, IsLoose, Sane
<1>2. r \in Seq(Headings) /\ Distinct(r)
  BY <1>1, OrderIs
<1> HIDE DEF r
<1>3. /\ a = [h \in Keys |-> a[h]] /\ None \in Keys /\ a[None] = g[None] /\ None \notin Headings
      /\ \A h \in Headings : h \in Keys /\ a[h] = IF Has(r, h) THEN Content(g, updates, h) ELSE <<>>
  BY LinesAre DEF After, Keys
<1> HIDE DEF a
<1>4. ASSUME NEW h \in Keys PROVE a[h] \in Seq(TextLines) /\ Trim(a[h])
  <2>1. CASE h = None
    <3>1. g[h] \in Seq(TextLines) /\ Trim(g[h])
      BY <1>1 DEF IsDoc, IsLoose, DocOf
    <3> QED
      BY <2>1, <3>1, <1>3
  <2>2. CASE h # None /\ Has(r, h)
    <3>1. a[h] = Content(g, updates, h)
      BY <2>2, <1>3 DEF Keys
    <3> QED
      BY <3>1, ContentTrims
  <2>3. CASE h # None /\ ~Has(r, h)
    <3>1. a[h] = <<>>
      BY <2>3, <1>3 DEF Keys
    <3>2. <<>> \in Seq(TextLines)
      OBVIOUS
    <3> QED
      BY <3>1, <3>2 DEF Trim
  <2> QED
    BY <2>1, <2>2, <2>3
<1>5. a \in DocOf
  BY <1>3, <1>4 DEF DocOf
<1>6. a \in [Keys -> Seq(DocLines)]
  <2>1. \A h \in Keys : a[h] \in Seq(DocLines)
    BY <1>4, LinesAre
  <2> QED
    BY <2>1, <1>3
<1>7. IsDoc(r, a)
  BY <1>2, <1>3, <1>4, <1>5, <1>6 DEF IsDoc, IsLoose
<1> QED
  BY <1>3, <1>7 DEF a, r

\* A patch leaves the document of these sections.
LEMMA UpdatedIs ==
  ASSUME NEW text, NEW o, NEW g, Sections(text) = Doc(o, g), IsDoc(o, g), ~Has(o, Body),
         NEW updates, Sane(updates), NEW create \in BOOLEAN
  PROVE  LET r == Order(o, updates, create)
             a == After(g, r, updates)
         IN  /\ Updated(text, updates, create) = FoldLeft(AddsPart, a[None], Blocks(r, a))
             /\ Updated(text, updates, create) \in Seq(DocLines)
             /\ Sections(Updated(text, updates, create)) = Doc(r, a)
<1> DEFINE r == Order(o, updates, create)
           a == After(g, r, updates)
           b == Blocks(r, a)
           t == FoldLeft(AddsPart, a[None], b)
<1>1. IsDoc(r, a) /\ \A h \in Headings : Has(r, h) => a[h] = Content(g, updates, h)
  BY AfterIs
<1>2. a[None] = g[None]
  BY DEF After, Keys
<1>3. r \in Seq(Headings)
  BY <1>1 DEF IsDoc, IsLoose
<1>4. Doc(o, g).order = o /\ Doc(o, g).of = g
  BY DocIs
<1>5. Popped(Doc(o, g)) = [body |-> g[None], order |-> o]
  <2>1. ~Contains(o, Body)
    BY DEF Contains, Has
  <2> QED
    BY <1>4, <2>1 DEF Popped
<1> HIDE DEF r, a
<1>6. b = [k \in DOMAIN r |-> Section(g, updates, r[k])]
  <2>1. ASSUME NEW k \in DOMAIN r PROVE a[r[k]] = Content(g, updates, r[k])
    <3>1. k \in 1..Len(r) /\ r[k] \in Headings
      BY <1>3
    <3>2. Has(r, r[k])
      BY <3>1 DEF Has
    <3> QED
      BY <1>1, <3>1, <3>2
  <2> QED
    BY <2>1 DEF Blocks, Section
<1> HIDE DEF b
<1>7. Updated(text, updates, create) = Stripped(FoldLeft(AddsPart, g[None], b))
  <2>1. Popped(Doc(o, g)).body = g[None] /\ Popped(Doc(o, g)).order = o
    BY <1>5
  <2>2. Updated(text, updates, create)
         = Stripped(FoldLeft(AddsPart, Popped(Doc(o, g)).body,
             [k \in DOMAIN Order(Popped(Doc(o, g)).order, updates, create) |->
               Section(Doc(o, g).of, updates, Order(Popped(Doc(o, g)).order, updates, create)[k])]))
    BY DEF Updated
  <2>3. Updated(text, updates, create)
         = Stripped(FoldLeft(AddsPart, g[None], [k \in DOMAIN r |-> Section(g, updates, r[k])]))
    BY <1>4, <2>1, <2>2 DEF r
  <2> QED
    BY <1>6, <2>3
<1>8. t \in Seq(DocLines) /\ Stripped(t) = t /\ Sections(t) = Doc(r, a)
  BY <1>1, WrittenIsRead DEF b
<1>9. Updated(text, updates, create) = t
  BY <1>2, <1>7, <1>8
<1> HIDE DEF t
<1>10. /\ Updated(text, updates, create) = t /\ Updated(text, updates, create) \in Seq(DocLines)
       /\ Sections(Updated(text, updates, create)) = Doc(r, a)
  BY <1>8, <1>9
<1> QED
  BY <1>10 DEF t, b, a, r

\* What is in a sequence of headings.
LEMMA HeadsAre ==
  ASSUME NEW o \in Seq(Headings)
  PROVE  ToSet(o) = {h \in Headings : Has(o, h)}
<1>1. DOMAIN o = 1..Len(o) /\ \A i \in 1..Len(o) : o[i] \in Headings
  OBVIOUS
<1>2. ASSUME NEW h \in ToSet(o) PROVE h \in Headings /\ Has(o, h)
  BY <1>1 DEF ToSet, Has
<1>3. ASSUME NEW h \in Headings, Has(o, h) PROVE h \in ToSet(o)
  BY <1>1, <1>3 DEF ToSet, Has
<1> QED
  BY <1>2, <1>3

\* A patch that is sound for a document: its headings are none like the key of
\* the lines before the first one.
LEMMA SoundIs ==
  ASSUME NEW text \in Seq(DocLines), NEW updates \in Updates, Sound(text, updates)
  PROVE  /\ Sane(updates) /\ ~IsNamed(updates, Body)
         /\ \E o, g : Sections(text) = Doc(o, g) /\ IsDoc(o, g) /\ ~Has(o, Body)
<1>1. updates \in Seq(UpdateSet) /\ OneEach(updates)
  BY DocsAreLines DEF OneEach, UpdateSet
<1>2. ~IsNamed(updates, Body)
  BY <1>1 DEF Sound, Headed, IsNamed
<1>3. ASSUME NEW i \in 1..Len(updates) PROVE Stripped(updates[i].content) \in Seq(TextLines)
  <2> DEFINE content == Stripped(updates[i].content)
  <2>1. content \in Seq(DocLines) /\ i \in DOMAIN updates
    BY <1>1, UpdateIs, StripTrims
  <2>2. updates[i] \in ToSet(updates)
    BY <2>1 DEF ToSet
  <2>3. \A k \in DOMAIN content : content[k].heading = None
    BY <2>2 DEF Sound
  <2> HIDE DEF content
  <2>4. \A k \in 1..Len(content) : content[k] \in TextLines
    BY <2>1, <2>3 DEF TextLines
  <2>5. content \in Seq(TextLines)
    BY <2>1, <2>4
  <2> QED
    BY <2>5 DEF content
<1>4. Sane(updates)
  BY <1>1, <1>3 DEF Sane, OnlyTexts
<1>5. PICK o, g : /\ Sections(text) = Doc(o, g) /\ IsLoose(o, g)
                 /\ \A i \in 1..Len(o) : \E k \in 1..Len(text) : text[k].heading = o[i]
  BY SectionsAre
<1>6. ~Has(o, Body)
  <2> SUFFICES ASSUME NEW i \in 1..Len(o), o[i] = Body PROVE FALSE
    BY DEF Has
  <2>1. PICK k \in 1..Len(text) : text[k].heading = Body
    BY <1>5
  <2> QED
    BY <2>1 DEF Sound
<1>7. g \in DocOf
  <2>1. DOMAIN g = Keys /\ \A h \in Keys : g[h] \in Seq(DocLines)
    BY <1>5 DEF IsLoose
  <2>2. ASSUME NEW h \in Keys PROVE g[h] \in Seq(TextLines)
    <3> DEFINE part == g[h]
    <3>1. Sections(text).of = g
      BY <1>5, DocIs
    <3>2. part \in {Sections(text).of[k] : k \in DOMAIN Sections(text).of}
      BY <2>1, <3>1
    <3>3. \A k \in DOMAIN part : part[k].heading = None
      BY <3>2 DEF Sound
    <3>4. part \in Seq(DocLines)
      BY <2>1
    <3> HIDE DEF part
    <3>5. \A k \in 1..Len(part) : part[k] \in TextLines
      BY <3>3, <3>4 DEF TextLines
    <3>6. part \in Seq(TextLines)
      BY <3>4, <3>5
    <3> QED
      BY <3>6 DEF part
  <2> QED
    BY <2>1, <2>2, <1>5 DEF DocOf, IsLoose
<1>8. IsDoc(o, g)
  BY <1>5, <1>7 DEF IsDoc
<1> QED
  BY <1>2, <1>4, <1>5, <1>6, <1>8

\* What a patch keeps, sets and adds.
Keeps(text, new, updates, create) ==
  LET old == Sections(text)
      now == Sections(new)
      named == Headed(updates)
      added == IF create THEN named \ ToSet(old.order) ELSE {}
  IN  /\ SubSeq(now.order, 1, Len(old.order)) = old.order
      /\ ToSet(now.order) = ToSet(old.order) \cup added
      /\ \A h \in DOMAIN old.of \ named : now.of[h] = old.of[h]
      /\ \A u \in ToSet(updates) :
           u.heading \in ToSet(now.order) => now.of[u.heading] = Stripped(u.content)

\* A sound patch keeps what it does not name.
LEMMA UpdatedKeeps ==
  ASSUME NEW text \in Seq(DocLines), NEW updates \in Updates, Sound(text, updates), NEW create \in BOOLEAN
  PROVE  /\ Updated(text, updates, create) \in Seq(DocLines)
         /\ Keeps(text, Updated(text, updates, create), updates, create)
<1>1. Sane(updates) /\ ~IsNamed(updates, Body)
  BY SoundIs
<1>2. PICK o, g : Sections(text) = Doc(o, g) /\ IsDoc(o, g) /\ ~Has(o, Body)
  BY SoundIs
<1> DEFINE r == Order(o, updates, create)
           a == After(g, r, updates)
           new == Updated(text, updates, create)
           named == Headed(updates)
<1>3. new \in Seq(DocLines) /\ Sections(new) = Doc(r, a)
  BY <1>1, <1>2, UpdatedIs
<1>4. IsDoc(r, a) /\ \A h \in Headings : Has(r, h) => a[h] = Content(g, updates, h)
  BY <1>1, <1>2, AfterIs
<1>5. /\ o \in Seq(Headings) /\ Distinct(o) /\ updates \in Seq(UpdateSet) /\ OneEach(updates)
      /\ DOMAIN updates = 1..Len(updates) /\ DOMAIN o = 1..Len(o)
  BY <1>1, <1>2 DEF IsDoc, IsLoose, Sane
<1>6. /\ r \in Seq(Headings) /\ Len(o) <= Len(r) /\ \A i \in 1..Len(o) : r[i] = o[i]
      /\ \A h \in Headings : Has(r, h) <=> Has(o, h) \/ (create /\ IsNamed(updates, h))
  BY <1>5, OrderIs
<1>7. Doc(o, g).order = o /\ Doc(o, g).of = g /\ Doc(r, a).order = r /\ Doc(r, a).of = a
  BY DocIs
<1>8. a[None] = g[None] /\ None \notin Headings
  BY LinesAre DEF After, Keys
<1>9. DOMAIN g = Keys
  BY <1>2 DEF IsDoc, IsLoose, DocOf
<1> HIDE DEF r, a, new
<1>10. SubSeq(r, 1, Len(o)) = o
  BY <1>5, <1>6
<1>11. ToSet(o) = {h \in Headings : Has(o, h)} /\ ToSet(r) = {h \in Headings : Has(r, h)}
  BY <1>5, <1>6, HeadsAre
<1>12. named = {h \in Headings : IsNamed(updates, h)}
  <2>1. \A i \in 1..Len(updates) : updates[i].heading \in Headings
    BY <1>5, UpdateIs
  <2> QED
    BY <2>1, <1>5 DEF Headed, IsNamed
<1> HIDE DEF named
<1>13. ToSet(r) = ToSet(o) \cup (IF create THEN named \ ToSet(o) ELSE {})
  BY <1>6, <1>11, <1>12
<1>14. ASSUME NEW h \in Keys \ named PROVE a[h] = g[h]
  <2>1. CASE h = None
    BY <2>1, <1>8
  <2>2. CASE h # None /\ Has(o, h)
    <3>1. h \in Headings /\ Has(r, h) /\ ~IsNamed(updates, h)
      BY <2>2, <1>6, <1>12, <1>14 DEF Keys
    <3>2. Content(g, updates, h) = g[h]
      BY <3>1, <1>5, ContentIs
    <3> QED
      BY <3>1, <3>2, <1>4
  <2>3. CASE h # None /\ ~Has(o, h)
    <3>1. h \in Headings /\ ~Has(r, h)
      BY <2>3, <1>6, <1>12, <1>14 DEF Keys
    <3> QED
      BY <3>1, <2>3, <1>2, <1>4 DEF IsDoc, IsLoose
  <2> QED
    BY <2>1, <2>2, <2>3
<1>15. ASSUME NEW u \in ToSet(updates), u.heading \in ToSet(r) PROVE a[u.heading] = Stripped(u.content)
  <2>1. PICK i \in 1..Len(updates) : u = updates[i]
    BY <1>5 DEF ToSet
  <2>2. u.heading \in Headings /\ Has(r, u.heading)
    BY <1>11, <1>15
  <2>3. Content(g, updates, u.heading) = Stripped(updates[i].content)
    BY <2>1, <1>5, ContentIs
  <2> QED
    BY <2>1, <2>2, <2>3, <1>4
<1>16. Keeps(text, new, updates, create)
  <2>1. Sections(text).order = o /\ Sections(text).of = g /\ Sections(new).order = r /\ Sections(new).of = a
    BY <1>2, <1>3, <1>7
  <2> QED
    BY <2>1, <1>9, <1>10, <1>13, <1>14, <1>15 DEF Keeps, named
<1> QED
  BY <1>3, <1>16 DEF new

\* A sound patch that is sent again changes nothing.
LEMMA UpdatedStays ==
  ASSUME NEW text \in Seq(DocLines), NEW updates \in Updates, Sound(text, updates), NEW create \in BOOLEAN
  PROVE  Updated(Updated(text, updates, create), updates, create) = Updated(text, updates, create)
<1>1. Sane(updates) /\ ~IsNamed(updates, Body)
  BY SoundIs
<1>2. PICK o, g : Sections(text) = Doc(o, g) /\ IsDoc(o, g) /\ ~Has(o, Body)
  BY SoundIs
<1> DEFINE r == Order(o, updates, create)
           a == After(g, r, updates)
           new == Updated(text, updates, create)
           t == FoldLeft(AddsPart, a[None], Blocks(r, a))
<1>3. new = t /\ Sections(new) = Doc(r, a)
  BY <1>1, <1>2, UpdatedIs
<1>4. IsDoc(r, a) /\ \A h \in Headings : Has(r, h) => a[h] = Content(g, updates, h)
  BY <1>1, <1>2, AfterIs
<1>5. o \in Seq(Headings) /\ Distinct(o) /\ updates \in Seq(UpdateSet) /\ OneEach(updates)
  BY <1>1, <1>2 DEF IsDoc, IsLoose, Sane
<1>6. r \in Seq(Headings) /\ \A h \in Headings : Has(r, h) <=> Has(o, h) \/ (create /\ IsNamed(updates, h))
  BY <1>5, OrderIs
<1> HIDE DEF r, a, new
<1>7. ~Has(r, Body)
  <2> SUFFICES ASSUME NEW i \in 1..Len(r), r[i] = Body PROVE FALSE
    BY DEF Has
  <2>1. Body \in Headings /\ Has(r, Body)
    BY <1>6 DEF Has
  <2> QED
    BY <2>1, <1>1, <1>2, <1>6
<1>8. Order(r, updates, create) = r
  <2>1. ASSUME create, NEW i \in 1..Len(updates) PROVE Has(r, updates[i].heading)
    <3>1. updates[i].heading \in Headings
      BY <1>5, UpdateIs
    <3>2. IsNamed(updates, updates[i].heading)
      BY DEF IsNamed
    <3> QED
      BY <3>1, <3>2, <2>1, <1>6
  <2>2. create => \A i \in 1..Len(updates) : Has(r, updates[i].heading)
    BY <2>1
  <2> QED
    BY <2>2, <1>5, <1>6, OrderStays
<1>9. After(a, r, updates) = a
  <2>1. a = [h \in Keys |-> a[h]]
    BY <1>4 DEF IsDoc, IsLoose, DocOf
  <2>2. ASSUME NEW h \in Keys
        PROVE  (IF h = None THEN a[None] ELSE IF Has(r, h) THEN Content(a, updates, h) ELSE <<>>) = a[h]
    <3>1. CASE h = None
      BY <3>1
    <3>2. CASE h # None /\ Has(r, h)
      <4>1. h \in Headings /\ a[h] = Content(g, updates, h)
        BY <3>2, <1>4 DEF Keys
      <4>2. CASE IsNamed(updates, h)
        <5>1. PICK i \in 1..Len(updates) : updates[i].heading = h
          BY <4>2 DEF IsNamed
        <5>2. Content(g, updates, h) = Stripped(updates[i].content)
          BY <5>1, <1>5, ContentIs
        <5>3. Content(a, updates, h) = Stripped(updates[i].content)
          BY <5>1, <1>5, ContentIs
        <5> QED
          BY <4>1, <5>2, <5>3, <3>2
      <4>3. CASE ~IsNamed(updates, h)
        <5>1. Content(a, updates, h) = a[h]
          BY <4>3, <1>5, ContentIs
        <5> QED
          BY <5>1, <3>2
      <4> QED
        BY <4>2, <4>3
    <3>3. CASE h # None /\ ~Has(r, h)
      <4>1. a[h] = <<>>
        BY <3>3, <1>4 DEF IsDoc, IsLoose, Keys
      <4> QED
        BY <3>3, <4>1
    <3> QED
      BY <3>1, <3>2, <3>3
  <2> QED
    BY <2>1, <2>2 DEF After
<1>10. Updated(new, updates, create)
         = FoldLeft(AddsPart, After(a, Order(r, updates, create), updates)[None],
             Blocks(Order(r, updates, create), After(a, Order(r, updates, create), updates)))
  BY <1>1, <1>3, <1>4, <1>7, UpdatedIs
<1>11. Updated(new, updates, create) = t
  BY <1>8, <1>9, <1>10
<1> QED
  BY <1>3, <1>11 DEF new

\* What is left of the headings when the one like the key of the lines before is gone.
LEMMA PoppedIs ==
  ASSUME NEW o, NEW g, IsLoose(o, g)
  PROVE  Popped(Doc(o, g)).body \in Seq(DocLines) /\ Popped(Doc(o, g)).order \in Seq(Headings)
<1> DEFINE k == CHOOSE i \in DOMAIN o : o[i] = Body
<1>1. o \in Seq(Headings) /\ Doc(o, g).order = o /\ Doc(o, g).of = g
  BY DocIs DEF IsLoose
<1>2. \A h \in Keys : g[h] \in Seq(DocLines)
  BY DEF IsLoose
<1>3. CASE Contains(o, Body)
  <2>1. PICK i \in 1..Len(o) : o[i] = Body
    BY <1>3 DEF Contains
  <2>2. DOMAIN o = 1..Len(o) /\ Body \in Headings
    BY <1>1, <2>1
  <2>3. k \in 1..Len(o)
    BY <2>1, <2>2
  <2> HIDE DEF k
  <2>4. RemoveAt(o, k) \in Seq(Headings)
    BY <1>1, <2>3 DEF RemoveAt
  <2>5. Popped(Doc(o, g)) = [body |-> g[Body], order |-> RemoveAt(o, k)]
    BY <1>1, <1>3 DEF Popped, k
  <2>6. Body \in Keys
    BY <2>2 DEF Keys
  <2> QED
    BY <1>2, <2>4, <2>5, <2>6
<1>4. CASE ~Contains(o, Body)
  <2>1. Popped(Doc(o, g)) = [body |-> g[None], order |-> o]
    BY <1>1, <1>4 DEF Popped
  <2>2. None \in Keys
    BY DEF Keys
  <2> QED
    BY <1>1, <1>2, <2>1, <2>2
<1> QED
  BY <1>3, <1>4

\* Headings stay headings, whatever a patch adds.
LEMMA OrderTypes ==
  ASSUME NEW hs \in Seq(Headings), NEW updates \in Seq(UpdateSet), NEW create \in BOOLEAN
  PROVE  Order(hs, updates, create) \in Seq(Headings)
<1> DEFINE n == Len(updates)
           us(k) == SubSeq(updates, 1, k)
           T == {k \in 0..n : Order(hs, us(k), create) \in Seq(Headings)}
<1>1. n \in Nat /\ us(0) = <<>> /\ us(n) = updates
  OBVIOUS
<1>2. 0 \in T
  <2>1. Order(hs, <<>>, create) = hs
    BY TakesNothing
  <2>2. Order(hs, us(0), create) \in Seq(Headings)
    BY <1>1, <2>1
  <2> QED
    BY <1>1, <2>2
<1>3. ASSUME NEW k \in 1..n, k - 1 \in T PROVE k \in T
  <2> DEFINE u == updates[k]
             before == us(k - 1)
             r == Order(hs, before, create)
  <2>1. us(k) = Append(before, u) /\ u \in UpdateSet /\ before \in Seq(UpdateSet) /\ k \in 0..n
    OBVIOUS
  <2>2. r \in Seq(Headings)
    BY <1>3
  <2>3. u.heading \in Headings
    BY UpdateIs
  <2> HIDE DEF u, before, n
  <2>4. Order(hs, Append(before, u), create) = Takes(create, r, u)
    BY <2>1, TakesMore
  <2> HIDE DEF r
  <2>5. Takes(create, r, u) \in Seq(Headings)
    BY <2>2, <2>3 DEF Takes
  <2>6. Order(hs, us(k), create) \in Seq(Headings)
    BY <2>1, <2>4, <2>5
  <2> QED
    BY <2>1, <2>6
<1>4. \A k \in 0..n : k \in T
  <2> HIDE DEF T, n
  <2> QED
    BY <1>1, <1>2, <1>3, UpTo
<1>5. n \in T
  <2> HIDE DEF T, n
  <2> QED
    BY <1>1, <1>4
<1>6. Order(hs, us(n), create) \in Seq(Headings)
  BY <1>5
<1> HIDE DEF us, n
<1> QED
  BY <1>1, <1>6, Zenon

\* Parts make a document.
LEMMA PartsTypes ==
  ASSUME NEW b \in Seq(DocLines), NEW parts \in Seq(Seq(DocLines))
  PROVE  FoldLeft(AddsPart, b, parts) \in Seq(DocLines)
<1> DEFINE n == Len(parts)
           ps(k) == SubSeq(parts, 1, k)
           T == {k \in 0..n : FoldLeft(AddsPart, b, ps(k)) \in Seq(DocLines)}
<1>1. n \in Nat /\ ps(0) = <<>> /\ ps(n) = parts
  OBVIOUS
<1>2. 0 \in T
  <2>1. FoldLeft(AddsPart, b, <<>>) = b
    BY AddsPartNothing
  <2>2. FoldLeft(AddsPart, b, ps(0)) \in Seq(DocLines)
    BY <1>1, <2>1
  <2> QED
    BY <1>1, <2>2
<1>3. ASSUME NEW k \in 1..n, k - 1 \in T PROVE k \in T
  <2> DEFINE part == parts[k]
             before == ps(k - 1)
             w == FoldLeft(AddsPart, b, before)
  <2>1. ps(k) = Append(before, part) /\ part \in Seq(DocLines) /\ before \in Seq(Seq(DocLines)) /\ k \in 0..n
    OBVIOUS
  <2>2. w \in Seq(DocLines) /\ Blanks \in DocLines
    BY <1>3, LinesAre
  <2> HIDE DEF part, before, n
  <2>3. FoldLeft(AddsPart, b, Append(before, part)) = AddsPart(w, part)
    BY <2>1, AddsPartMore, ZenonT(60)
  <2> HIDE DEF w
  <2>4. AddsPart(w, part) \in Seq(DocLines)
    BY <2>1, <2>2 DEF AddsPart
  <2>5. FoldLeft(AddsPart, b, ps(k)) \in Seq(DocLines)
    BY <2>1, <2>3, <2>4
  <2> QED
    BY <2>1, <2>5
<1>4. \A k \in 0..n : k \in T
  <2> HIDE DEF T, n
  <2> QED
    BY <1>1, <1>2, <1>3, UpTo
<1>5. n \in T
  <2> HIDE DEF T, n
  <2> QED
    BY <1>1, <1>4
<1>6. FoldLeft(AddsPart, b, ps(n)) \in Seq(DocLines)
  BY <1>5
<1> HIDE DEF ps, n
<1> QED
  BY <1>1, <1>6, Zenon

\* Whatever it names, a patch leaves a document.
LEMMA UpdatedTypes ==
  ASSUME NEW text \in Seq(DocLines), NEW updates \in Updates, NEW create \in BOOLEAN
  PROVE  Updated(text, updates, create) \in Seq(DocLines)
<1>1. updates \in Seq(UpdateSet) /\ OneEach(updates)
  BY DocsAreLines DEF OneEach, UpdateSet
<1>2. PICK o, g : /\ Sections(text) = Doc(o, g) /\ IsLoose(o, g)
                 /\ \A i \in 1..Len(o) : \E k \in 1..Len(text) : text[k].heading = o[i]
  BY SectionsAre
<1> DEFINE rest == Popped(Doc(o, g))
           body == rest.body
           r == Order(rest.order, updates, create)
           parts == [k \in DOMAIN r |-> Section(g, updates, r[k])]
           all == FoldLeft(AddsPart, body, parts)
<1>3. body \in Seq(DocLines) /\ r \in Seq(Headings) /\ Doc(o, g).of = g
  BY <1>1, <1>2, PoppedIs, OrderTypes, DocIs
<1>4. ASSUME NEW h \in Headings PROVE Section(g, updates, h) \in Seq(DocLines)
  <2> DEFINE says == Content(g, updates, h)
  <2>1. g[h] \in Seq(DocLines)
    BY <1>2 DEF IsLoose, Keys
  <2>2. says \in Seq(DocLines)
    <3>1. CASE ~IsNamed(updates, h)
      BY <2>1, <3>1, <1>1, ContentIs
    <3>2. CASE IsNamed(updates, h)
      <4>1. PICK i \in 1..Len(updates) : updates[i].heading = h
        BY <3>2 DEF IsNamed
      <4>2. says = Stripped(updates[i].content)
        BY <4>1, <1>1, ContentIs
      <4>3. updates[i].content \in Seq(DocLines)
        BY <1>1, UpdateIs
      <4> QED
        BY <4>2, <4>3, StripTrims
    <3> QED
      BY <3>1, <3>2
  <2> HIDE DEF says
  <2>3. Heading(h) \in DocLines
    BY LinesAre
  <2>4. <<Heading(h)>> \o says \in Seq(DocLines)
    BY <2>2, <2>3
  <2> QED
    BY <2>4 DEF Section, says
<1>5. Updated(text, updates, create) = Stripped(all)
  BY <1>2, <1>3 DEF Updated
<1> HIDE DEF body, r
<1>6. parts \in Seq(Seq(DocLines))
  <2>1. DOMAIN r = 1..Len(r) /\ Len(r) \in Nat /\ \A k \in 1..Len(r) : r[k] \in Headings
    BY <1>3
  <2>2. parts \in [1..Len(r) -> Seq(DocLines)]
    BY <2>1, <1>4
  <2> QED
    BY <2>1, <2>2
<1> HIDE DEF parts
<1>7. all \in Seq(DocLines)
  BY <1>3, <1>6, PartsTypes
<1> HIDE DEF all
<1>8. Stripped(all) \in Seq(DocLines)
  BY <1>7, StripTrims
<1> QED
  BY <1>5, <1>8
------------------------------------------------------------------------------
\* A document and its clients

\* What a patch is bound to write.
Due(c) == Updated(docWas[c], change[c].updates, change[c].create)

\* Where a patch is that has the document to itself.
PatchIsAt(c) ==
  change[c].op = "patch" =>
    /\ docAt[c] \in {"read", "open"} => doc = docWas[c]
    /\ docAt[c] \in {"open", "fill"} => change[c].text = Due(c)
    /\ docAt[c] = "fill" => doc = <<>>
    /\ docAt[c] = "idle" /\ outcome[c] = "done" => doc = Due(c)
    /\ docAt[c] # "check"
PatchFollows(c) == PatchIsAt(c) /\ \A e \in Clients : docAt[e] = "idle" \/ e = c

\* Texts on their way to the file are within the limit.
DocFits ==
  /\ \A c \in Clients :
       /\ docAt[c] \in {"open", "fill"} => Len(change[c].text) <= Limit
       /\ docAt[c] = "fill" => Len(doc) <= Limit
  /\ DocStaysWithinLimit

DocInv == DocTypeOK /\ DocFits /\ \A c \in Clients : alone[c] => PatchFollows(c)

\* A call that knows its text.
LEMMA CallWithText ==
  ASSUME NEW r \in DocCalls, NEW text \in Seq(DocLines)
  PROVE  LET s == [r EXCEPT !.text = text]
         IN  s \in DocCalls /\ s.text = text /\ s.op = r.op /\ s.updates = r.updates /\ s.create = r.create
BY DEF DocCalls

\* Its call, and where it is in it, are of their types after a client's step.
LEMMA DocTypesKept ==
  ASSUME DocTypeOK, NEW c \in Clients, NEW s \in DocSteps, NEW r \in DocCalls,
         r.op = "patch" => r.updates \in Updates, s = "read" => r.op = "patch",
         NEW t \in {None, "done", "refused"}, s # "idle" => t = None,
         docAt' = [docAt EXCEPT ![c] = s], change' = [change EXCEPT ![c] = r],
         outcome' = [outcome EXCEPT ![c] = t], doc' \in Seq(DocLines),
         docWas' \in [Clients -> Seq(DocLines)], alone' \in [Clients -> BOOLEAN],
         \A e \in Clients : alone'[e] => alone[e] \/ e = c
  PROVE  DocTypeOK'
<1>1. /\ docAt' \in [Clients -> DocSteps] /\ docAt'[c] = s
      /\ \A e \in Clients : e # c => docAt'[e] = docAt[e]
  BY DEF DocTypeOK
<1>2. /\ change' \in [Clients -> DocCalls \cup {None}] /\ change'[c] = r
      /\ \A e \in Clients : e # c => change'[e] = change[e]
  BY DEF DocTypeOK
<1>3. /\ outcome' \in [Clients -> {None, "done", "refused"}] /\ outcome'[c] = t
      /\ \A e \in Clients : e # c => outcome'[e] = outcome[e]
  BY DEF DocTypeOK
<1>4. ASSUME NEW e \in Clients
      PROVE  /\ docAt'[e] # "idle" \/ alone'[e] =>
                  change'[e] \in DocCalls /\ (change'[e].op = "patch" => change'[e].updates \in Updates)
             /\ docAt'[e] = "read" => change'[e].op = "patch"
             /\ docAt'[e] # "idle" => outcome'[e] = None
  <2>1. CASE e = c
    BY <2>1, <1>1, <1>2, <1>3
  <2>2. CASE e # c
    BY <2>2, <1>1, <1>2, <1>3 DEF DocTypeOK
  <2> QED
    BY <2>1, <2>2
<1> QED
  BY <1>1, <1>2, <1>3, <1>4 DEF DocTypeOK

\* Texts stay within the limit when the one of this client does.
LEMMA DocFitsKept ==
  ASSUME DocTypeOK, DocFits, NEW c \in Clients, NEW s, NEW r, NEW t,
         docAt' = [docAt EXCEPT ![c] = s], change' = [change EXCEPT ![c] = r], outcome' = [outcome EXCEPT ![c] = t],
         s \in {"open", "fill"} => Len(r.text) <= Limit,
         doc' = doc \/ Len(doc') <= Limit, s = "fill" \/ t = "done" => Len(doc') <= Limit
  PROVE  DocFits'
<1>1. docAt'[c] = s /\ \A e \in Clients : e # c => docAt'[e] = docAt[e]
  BY DEF DocTypeOK
<1>2. change'[c] = r /\ \A e \in Clients : e # c => change'[e] = change[e]
  BY DEF DocTypeOK
<1>3. outcome'[c] = t /\ \A e \in Clients : e # c => outcome'[e] = outcome[e]
  BY DEF DocTypeOK
<1>4. ASSUME NEW e \in Clients
      PROVE  /\ docAt'[e] \in {"open", "fill"} => Len(change'[e].text) <= Limit
             /\ docAt'[e] = "fill" => Len(doc') <= Limit
  <2>1. CASE e = c
    BY <2>1, <1>1, <1>2
  <2>2. CASE e # c
    BY <2>2, <1>1, <1>2 DEF DocFits
  <2> QED
    BY <2>1, <2>2
<1>5. DocStaysWithinLimit'
  <2>1. CASE Len(doc') <= Limit
    BY <2>1 DEF DocStaysWithinLimit
  <2>2. CASE ~(Len(doc') <= Limit)
    <3>1. doc' = doc /\ t # "done"
      BY <2>2
    <3>2. doc \in Docs /\ \A e \in Clients : outcome[e] # "done"
      BY <2>2, <3>1 DEF DocFits, DocStaysWithinLimit
    <3> QED
      BY <3>1, <3>2, <1>3 DEF DocStaysWithinLimit
  <2> QED
    BY <2>1, <2>2
<1> QED
  BY <1>4, <1>5 DEF DocFits

\* A step in a call is not between those of a patch that has the document to itself.
LEMMA PatchFollowsKept ==
  ASSUME DocInv, NEW c \in Clients, docAt[c] # "idle", alone' = alone, NEW s, docAt' = [docAt EXCEPT ![c] = s],
         alone[c] => PatchIsAt(c)'
  PROVE  \A e \in Clients : alone'[e] => PatchFollows(e)'
<1> SUFFICES ASSUME NEW e \in Clients, alone[e] PROVE PatchFollows(e)'
  OBVIOUS
<1>1. \A f \in Clients : docAt[f] = "idle" \/ f = e
  BY DEF DocInv, PatchFollows
<1>2. e = c
  BY <1>1
<1>3. \A f \in Clients : docAt'[f] = "idle" \/ f = e
  BY <1>1, <1>2 DEF DocInv, DocTypeOK
<1> QED
  BY <1>2, <1>3 DEF PatchFollows

\* A call begins.
LEMMA BeginKeeps ==
  ASSUME DocInv, NEW c \in Clients, docAt[c] = "idle", NEW request \in DocCalls, NEW first \in {"check", "read"},
         request.op = "patch" => first = "read" /\ request.updates \in Updates, first = "read" => request.op = "patch",
         Begin(c, request, first)
  PROVE  DocInv'
<1>1. /\ docAt' = [docAt EXCEPT ![c] = first] /\ change' = [change EXCEPT ![c] = request]
      /\ outcome' = [outcome EXCEPT ![c] = None] /\ docWas' = [docWas EXCEPT ![c] = doc] /\ doc' = doc
      /\ alone' = [e \in Clients |-> e = c /\ \A f \in Clients : docAt[f] = "idle"]
  BY DEF Begin
<1>2. DocTypeOK /\ DocFits
  BY DEF DocInv
<1>3. /\ docWas' \in [Clients -> Seq(DocLines)] /\ docWas'[c] = doc /\ alone' \in [Clients -> BOOLEAN]
      /\ doc' \in Seq(DocLines) /\ \A e \in Clients : alone'[e] => e = c /\ \A f \in Clients : docAt[f] = "idle"
  BY <1>1, <1>2 DEF DocTypeOK
<1>4. DocTypeOK'
  <2>1. first \in DocSteps
    BY DEF DocSteps
  <2> QED
    BY <2>1, <1>1, <1>2, <1>3, DocTypesKept
<1>5. DocFits'
  BY <1>1, <1>2, DocsAreLines, DocFitsKept
<1>6. ASSUME NEW e \in Clients, alone'[e] PROVE PatchFollows(e)'
  <2>1. e = c /\ \A f \in Clients : docAt[f] = "idle"
    BY <1>3, <1>6
  <2>2. docAt'[c] = first /\ change'[c] = request /\ \A f \in Clients : docAt'[f] = "idle" \/ f = c
    BY <1>1, <1>2, <2>1 DEF DocTypeOK
  <2>3. PatchIsAt(c)'
    BY <1>1, <1>3, <2>2 DEF PatchIsAt
  <2> QED
    BY <2>1, <2>2, <2>3 DEF PatchFollows
<1> QED
  BY <1>4, <1>5, <1>6 DEF DocInv

\* A text is within its limit, and on to the file; or not.
LEMMA ToFileKeeps ==
  ASSUME DocInv, NEW c \in Clients, docAt[c] # "idle", NEW text \in Seq(DocLines), ToFile(c, text),
         doc' = doc, docWas' = docWas, alone' = alone,
         alone[c] /\ change[c].op = "patch" => doc = docWas[c] /\ text = Due(c)
  PROVE  DocInv'
<1>1. DocTypeOK /\ DocFits /\ Limit \in Nat /\ Len(text) \in Nat
  BY DocsAreLines DEF DocInv
<1> DEFINE r == change[c]
           s == [r EXCEPT !.text = text]
<1>2. r \in DocCalls /\ (r.op = "patch" => r.updates \in Updates)
  BY <1>1 DEF DocTypeOK
<1>3. /\ s \in DocCalls /\ s.text = text /\ s.op = r.op /\ s.updates = r.updates /\ s.create = r.create
  BY <1>2, CallWithText
<1>4. /\ doc' \in Seq(DocLines) /\ docWas' \in [Clients -> Seq(DocLines)] /\ alone' \in [Clients -> BOOLEAN]
      /\ outcome[c] = None
  BY <1>1 DEF DocTypeOK
<1>5. CASE Len(text) > Limit
  <2>1. /\ docAt' = [docAt EXCEPT ![c] = "idle"] /\ outcome' = [outcome EXCEPT ![c] = "refused"]
        /\ change' = [change EXCEPT ![c] = r]
    BY <1>5, <1>1 DEF ToFile, End, DocTypeOK
  <2>2. docAt'[c] = "idle" /\ outcome'[c] = "refused" /\ change'[c] = r
    BY <2>1, <1>1 DEF DocTypeOK
  <2> HIDE DEF r
  <2>3. DocTypeOK'
    BY <2>1, <1>1, <1>2, <1>4, DocTypesKept DEF DocSteps
  <2>4. DocFits'
    BY <2>1, <1>1, DocFitsKept
  <2>5. PatchIsAt(c)'
    BY <2>2 DEF PatchIsAt
  <2>6. \A e \in Clients : alone'[e] => PatchFollows(e)'
    BY <2>1, <2>5, PatchFollowsKept
  <2> QED
    BY <2>3, <2>4, <2>6 DEF DocInv
<1>6. CASE ~(Len(text) > Limit)
  <2>1. docAt' = [docAt EXCEPT ![c] = "open"] /\ change' = [change EXCEPT ![c] = s] /\ outcome' = outcome
    BY <1>6 DEF ToFile
  <2>2. outcome' = [outcome EXCEPT ![c] = outcome[c]]
    BY <2>1, <1>1 DEF DocTypeOK
  <2>3. docAt'[c] = "open" /\ change'[c] = s
    BY <2>1, <1>1 DEF DocTypeOK
  <2>4. alone[c] => PatchIsAt(c)'
    BY <2>3, <1>3 DEF PatchIsAt, Due
  <2>5. Len(s.text) <= Limit
    BY <1>1, <1>3, <1>6
  <2> HIDE DEF s, r
  <2>6. DocTypeOK'
    <3>1. s.op = "patch" => s.updates \in Updates
      BY <1>2, <1>3
    <3> QED
      BY <3>1, <2>1, <2>2, <1>1, <1>3, <1>4, DocTypesKept DEF DocSteps
  <2>7. DocFits'
    <3>1. None # "done" /\ outcome' = [outcome EXCEPT ![c] = None]
      BY <2>2, <1>4, DocsAreLines
    <3> QED
      BY <2>1, <2>5, <3>1, <1>1, DocFitsKept
  <2>8. \A e \in Clients : alone'[e] => PatchFollows(e)'
    BY <2>1, <2>4, PatchFollowsKept
  <2> QED
    BY <2>6, <2>7, <2>8 DEF DocInv
<1> QED
  BY <1>5, <1>6

\* A client writes the file, or dies.
LEMMA FileStepKeeps ==
  ASSUME DocInv, NEW c \in Clients, EmptiesDoc(c) \/ FillsDoc(c) \/ DocDies(c)
  PROVE  DocInv'
<1> DEFINE r == change[c]
<1>1. DocTypeOK /\ DocFits /\ Limit \in Nat
  BY DocsAreLines DEF DocInv
<1>2. docAt[c] # "idle" /\ docWas' = docWas /\ alone' = alone /\ change' = change
  BY DEF EmptiesDoc, FillsDoc, DocDies
<1>3. r \in DocCalls /\ (r.op = "patch" => r.updates \in Updates) /\ change' = [change EXCEPT ![c] = r]
  BY <1>1, <1>2 DEF DocTypeOK
<1>4. r.text \in Seq(DocLines) /\ doc \in Seq(DocLines) /\ Len(doc) \in Nat /\ Len(r.text) \in Nat
  <2>1. r.text \in Seq(DocLines) /\ doc \in Seq(DocLines)
    BY <1>1, <1>3 DEF DocTypeOK, DocCalls
  <2> QED
    BY <2>1
<1>5. /\ docWas' \in [Clients -> Seq(DocLines)] /\ alone' \in [Clients -> BOOLEAN]
      /\ outcome[c] = None /\ outcome = [outcome EXCEPT ![c] = None]
  BY <1>1, <1>2 DEF DocTypeOK
<1>6. CASE EmptiesDoc(c)
  <2>1. /\ docAt[c] = "open" /\ docAt' = [docAt EXCEPT ![c] = "fill"] /\ doc' = <<>>
        /\ outcome' = [outcome EXCEPT ![c] = None]
    BY <1>5, <1>6 DEF EmptiesDoc
  <2>2. doc' \in Seq(DocLines) /\ Len(doc') <= Limit
    BY <1>1, <2>1
  <2>3. Len(r.text) <= Limit
    BY <1>1, <2>1 DEF DocFits
  <2>4. alone[c] => PatchIsAt(c)'
    <3>1. docAt'[c] = "fill" /\ change'[c] = r /\ docWas' = docWas
      BY <1>1, <1>2, <2>1 DEF DocTypeOK
    <3>2. alone[c] /\ r.op = "patch" => r.text = Due(c)
      BY <2>1 DEF DocInv, PatchFollows, PatchIsAt
    <3> QED
      BY <2>1, <3>1, <3>2 DEF PatchIsAt, Due
  <2> HIDE DEF r
  <2>5. DocTypeOK'
    BY <2>1, <2>2, <1>1, <1>2, <1>3, <1>5, DocTypesKept DEF DocSteps
  <2>6. DocFits'
    BY <2>1, <2>2, <2>3, <1>1, <1>3, DocsAreLines, DocFitsKept
  <2>7. \A e \in Clients : alone'[e] => PatchFollows(e)'
    BY <2>1, <2>4, <1>2, PatchFollowsKept
  <2> QED
    BY <2>5, <2>6, <2>7 DEF DocInv
<1>7. CASE FillsDoc(c)
  <2>1. /\ docAt[c] = "fill" /\ docAt' = [docAt EXCEPT ![c] = "idle"]
        /\ doc' = r.text \o SubSeq(doc, Len(r.text) + 1, Len(doc)) /\ outcome' = [outcome EXCEPT ![c] = "done"]
    BY <1>7 DEF FillsDoc, End
  <2>2. Len(r.text) <= Limit /\ Len(doc) <= Limit
    BY <1>1, <2>1 DEF DocFits
  <2>3. alone[c] => PatchIsAt(c)'
    <3>1. docAt'[c] = "idle" /\ change'[c] = r /\ docWas' = docWas
      BY <1>1, <1>2, <2>1 DEF DocTypeOK
    <3>2. alone[c] /\ r.op = "patch" => r.text = Due(c) /\ doc = <<>>
      BY <2>1 DEF DocInv, PatchFollows, PatchIsAt
    <3>3. doc = <<>> => doc' = r.text
      <4> HIDE DEF r
      <4>1. ASSUME doc = <<>> PROVE SubSeq(doc, Len(r.text) + 1, Len(doc)) = <<>>
        BY <4>1, <1>4
      <4>2. r.text \o <<>> = r.text
        BY <1>4
      <4> QED
        BY <2>1, <4>1, <4>2
    <3> QED
      BY <3>1, <3>2, <3>3 DEF PatchIsAt, Due
  <2> HIDE DEF r
  <2>4. doc' \in Seq(DocLines) /\ Len(doc') <= Limit
    <3> DEFINE t == r.text
               n == Len(t)
               rest == SubSeq(doc, n + 1, Len(doc))
    <3>1. t \in Seq(DocLines) /\ n \in Nat /\ n <= Limit /\ doc' = t \o rest
      BY <1>4, <2>1, <2>2
    <3> HIDE DEF t
    <3>2. rest \in Seq(DocLines) /\ Len(rest) = IF n < Len(doc) THEN Len(doc) - n ELSE 0
      <4> HIDE DEF n
      <4>1. CASE n < Len(doc)
        BY <3>1, <4>1, <1>4
      <4>2. CASE ~(n < Len(doc))
        BY <3>1, <4>2, <1>4
      <4> QED
        BY <4>1, <4>2
    <3> HIDE DEF rest
    <3>3. t \o rest \in Seq(DocLines) /\ Len(t \o rest) = Len(t) + Len(rest)
      <4>1. rest \in Seq(DocLines)
        BY <3>2
      <4> QED
        BY <3>1, <4>1
    <3> HIDE DEF n
    <3> QED
      BY <3>1, <3>2, <3>3, <2>2, <1>1, <1>4 DEF n
  <2>5. DocTypeOK'
    BY <2>1, <2>4, <1>1, <1>2, <1>3, <1>5, DocTypesKept DEF DocSteps
  <2>6. DocFits'
    BY <2>1, <2>4, <1>1, <1>3, DocFitsKept
  <2>7. \A e \in Clients : alone'[e] => PatchFollows(e)'
    BY <2>1, <2>3, <1>2, PatchFollowsKept
  <2> QED
    BY <2>5, <2>6, <2>7 DEF DocInv
<1>8. CASE DocDies(c)
  <2>1. docAt' = [docAt EXCEPT ![c] = "idle"] /\ doc' = doc /\ outcome' = [outcome EXCEPT ![c] = None]
    BY <1>5, <1>8 DEF DocDies
  <2>2. alone[c] => PatchIsAt(c)'
    <3>1. docAt'[c] = "idle" /\ change'[c] = r /\ outcome' = outcome
      BY <1>1, <1>2, <1>5, <2>1 DEF DocTypeOK
    <3>2. outcome[c] # "done"
      BY <1>5, DocsAreLines
    <3> QED
      BY <3>1, <3>2 DEF PatchIsAt
  <2> HIDE DEF r
  <2>3. DocTypeOK'
    BY <2>1, <1>1, <1>2, <1>3, <1>4, <1>5, DocTypesKept DEF DocSteps
  <2>4. DocFits'
    BY <2>1, <1>1, <1>3, DocsAreLines, DocFitsKept
  <2>5. \A e \in Clients : alone'[e] => PatchFollows(e)'
    BY <2>1, <2>2, <1>2, PatchFollowsKept
  <2> QED
    BY <2>3, <2>4, <2>5 DEF DocInv
<1> QED
  BY <1>6, <1>7, <1>8

\* The document, and nobody busy.
LEMMA DocInitInv == DocInit => DocInv
<1> SUFFICES ASSUME DocInit PROVE DocInv
  OBVIOUS
<1>1. /\ doc \in Docs /\ docAt = [c \in Clients |-> "idle"] /\ change = [c \in Clients |-> None]
      /\ outcome = [c \in Clients |-> None] /\ docWas = [c \in Clients |-> doc] /\ alone = [c \in Clients |-> FALSE]
  BY DEF DocInit
<1>2. doc \in Seq(DocLines)
  BY <1>1, DocsAreLines
<1>3. DocTypeOK
  BY <1>1, <1>2 DEF DocTypeOK, DocSteps
<1>4. DocFits
  BY <1>1, DocsAreLines DEF DocFits, DocStaysWithinLimit
<1> QED
  BY <1>1, <1>3, <1>4 DEF DocInv

\* Every step keeps it.
LEMMA DocStepInv == DocInv /\ [DocNext]_docVars => DocInv'
<1> SUFFICES ASSUME DocInv, [DocNext]_docVars PROVE DocInv'
  OBVIOUS
<1>1. DocTypeOK
  BY DEF DocInv
<1>2. ASSUME NEW c \in Clients, WritesDoc(c) PROVE DocInv'
  <2>1. PICK text \in NewDocs :
           Begin(c, [op |-> "write", updates |-> <<>>, create |-> FALSE, text |-> text], "check")
    BY <1>2 DEF WritesDoc
  <2> DEFINE request == [op |-> "write", updates |-> <<>>, create |-> FALSE, text |-> text]
  <2>2. text \in Seq(DocLines)
    BY DocsAreLines
  <2>3. request \in DocCalls /\ request.op = "write"
    BY <2>2 DEF DocCalls
  <2>4. docAt[c] = "idle" /\ Begin(c, request, "check")
    BY <2>1, <1>2 DEF WritesDoc
  <2> HIDE DEF request
  <2> QED
    BY <2>3, <2>4, BeginKeeps
<1>3. ASSUME NEW c \in Clients, PatchesDoc(c) PROVE DocInv'
  <2>1. PICK updates \in Updates, create \in BOOLEAN :
           Begin(c, [op |-> "patch", updates |-> updates, create |-> create, text |-> <<>>], "read")
    BY <1>3 DEF PatchesDoc
  <2> DEFINE request == [op |-> "patch", updates |-> updates, create |-> create, text |-> <<>>]
  <2>2. <<>> \in Seq(DocLines)
    OBVIOUS
  <2>3. request \in DocCalls /\ request.op = "patch" /\ request.updates \in Updates
    BY <2>2 DEF DocCalls
  <2>4. docAt[c] = "idle" /\ Begin(c, request, "read")
    BY <2>1, <1>3 DEF PatchesDoc
  <2> HIDE DEF request
  <2> QED
    BY <2>3, <2>4, BeginKeeps
<1>4. ASSUME NEW c \in Clients, ChecksDoc(c) PROVE DocInv'
  <2> DEFINE text == change[c].text
  <2>1. docAt[c] = "check" /\ ToFile(c, text) /\ doc' = doc /\ docWas' = docWas /\ alone' = alone
    BY <1>4 DEF ChecksDoc
  <2>2. text \in Seq(DocLines)
    BY <1>1, <2>1 DEF DocTypeOK, DocCalls
  <2>3. ~(alone[c] /\ change[c].op = "patch")
    BY <2>1 DEF DocInv, PatchFollows, PatchIsAt
  <2> HIDE DEF text
  <2> QED
    BY <2>1, <2>2, <2>3, ToFileKeeps
<1>5. ASSUME NEW c \in Clients, ReadsDoc(c) PROVE DocInv'
  <2> DEFINE text == Updated(doc, change[c].updates, change[c].create)
  <2>1. docAt[c] = "read" /\ ToFile(c, text) /\ doc' = doc /\ docWas' = docWas /\ alone' = alone
    BY <1>5 DEF ReadsDoc
  <2>2. change[c].updates \in Updates /\ change[c].create \in BOOLEAN /\ doc \in Seq(DocLines)
    BY <1>1, <2>1 DEF DocTypeOK, DocCalls
  <2>3. text \in Seq(DocLines)
    BY <2>2, UpdatedTypes
  <2>4. alone[c] /\ change[c].op = "patch" => doc = docWas[c]
    BY <2>1 DEF DocInv, PatchFollows, PatchIsAt
  <2>5. alone[c] /\ change[c].op = "patch" => doc = docWas[c] /\ text = Due(c)
    BY <2>4 DEF Due
  <2> HIDE DEF text
  <2> QED
    BY <2>1, <2>3, <2>5, ToFileKeeps
<1>6. ASSUME NEW c \in Clients, EmptiesDoc(c) \/ FillsDoc(c) \/ DocDies(c) PROVE DocInv'
  BY <1>6, FileStepKeeps
<1>7. CASE UNCHANGED docVars
  BY <1>7 DEF docVars, DocInv, DocTypeOK, DocFits, DocStaysWithinLimit, PatchFollows, PatchIsAt, Due
<1> QED
  BY <1>2, <1>3, <1>4, <1>5, <1>6, <1>7 DEF DocNext, DocStep

\* What it says of patches.
LEMMA DocInvKeeps ==
  ASSUME DocInv
  PROVE  PatchesKeepDocuments
<1>1. ASSUME NEW c \in Clients, Patched(c), Sound(docWas[c], change[c].updates)
      PROVE  /\ doc = Due(c) /\ docWas[c] \in Seq(DocLines) /\ change[c].updates \in Updates
             /\ change[c].create \in BOOLEAN
  BY <1>1 DEF DocInv, DocTypeOK, DocCalls, Patched, PatchFollows, PatchIsAt
<1>2. PatchKeepsOtherSections
  <2>1. ASSUME NEW c \in Clients, Patched(c), Sound(docWas[c], change[c].updates)
        PROVE  Keeps(docWas[c], doc, change[c].updates, change[c].create)
    BY <1>1, <2>1, UpdatedKeeps DEF Due
  <2> QED
    BY <2>1 DEF PatchKeepsOtherSections, Keeps
<1>3. RetriedPatchChangesNothing
  <2>1. ASSUME NEW c \in Clients, Patched(c), Sound(docWas[c], change[c].updates)
        PROVE  Updated(doc, change[c].updates, change[c].create) = doc
    BY <1>1, <2>1, UpdatedStays DEF Due
  <2> QED
    BY <2>1 DEF RetriedPatchChangesNothing
<1>4. DocStaysWithinLimit
  BY DEF DocInv, DocFits
<1> QED
  BY <1>2, <1>3, <1>4 DEF PatchesKeepDocuments

\* Whoever patches and writes at the same time, what is on the file are lines, a
\* client that is busy has a call, and one that reads patches (state_docs/service.py:46-73).
THEOREM DocumentKeepsTypes == DocSpec => []DocTypeOK
<1>1. DocInv => DocTypeOK
  BY DEF DocInv
<1> QED
  BY <1>1, DocInitInv, DocStepInv, PTL DEF DocSpec

\* With any number of clients, any document and any updates, a patch that nobody
\* disturbs keeps the lines and sections it does not name, but for the indentation
\* of their first lines, and sets those it does, once, unless strip() makes a heading
\* of a first line; and whoever writes beside it and dies, the document does not outgrow its
\* limit (state_docs/service.py:46-73, parser.py:6-58, limits.py:20-28).
THEOREM DocumentsAreKept == DocSpec => []PatchesKeepDocuments
<1>1. DocInv => PatchesKeepDocuments
  BY DocInvKeeps
<1> QED
  BY <1>1, DocInitInv, DocStepInv, PTL DEF DocSpec

\* No step makes the document longer than its limit (state_docs/limits.py:20-28).
THEOREM NoStepOutgrows == DocSpec => [][doc' = doc \/ Len(doc') <= Limit]_docVars
<1>1. ASSUME DocInv, DocInv', [DocNext]_docVars PROVE doc' = doc \/ Len(doc') <= Limit
  <2>1. Limit \in Nat
    BY DocsAreLines
  <2>2. CASE UNCHANGED docVars
    BY <2>2 DEF docVars
  <2>3. ASSUME NEW c \in Clients, DocStep(c) PROVE doc' = doc \/ Len(doc') <= Limit
    <3>1. CASE WritesDoc(c) \/ ChecksDoc(c) \/ PatchesDoc(c) \/ ReadsDoc(c) \/ DocDies(c)
      BY <3>1 DEF WritesDoc, ChecksDoc, PatchesDoc, ReadsDoc, DocDies, Begin
    <3>2. CASE EmptiesDoc(c)
      BY <3>2, <2>1 DEF EmptiesDoc
    <3>3. CASE FillsDoc(c)
      <4>1. outcome'[c] = "done"
        BY <3>3, <1>1 DEF FillsDoc, End, DocInv, DocTypeOK
      <4> QED
        BY <4>1, <1>1 DEF DocInv, DocFits, DocStaysWithinLimit
    <3> QED
      BY <2>3, <3>1, <3>2, <3>3 DEF DocStep
  <2> QED
    BY <1>1, <2>2, <2>3 DEF DocNext
<1> QED
  BY <1>1, DocInitInv, DocStepInv, PTL DEF DocSpec

------------------------------------------------------------------------------
\* The files, the document and the index

\* Of what they do beside each other, each sees steps of its own and others that
\* change nothing.
LEMMA WorkspaceIsAll == StartSpec => FileSpec /\ DocSpec /\ GraphSpec
<1>1. StartInit => FileInit /\ DocInit /\ GraphInit
  BY DEF StartInit
<1>2. [StartNext]_<<fileVars, docVars, graphVars>> => [FileNext]_fileVars /\ [DocNext]_docVars /\ [GraphNext]_graphVars
  BY DEF StartNext
<1> QED
  BY <1>1, <1>2, PTL DEF StartSpec, FileSpec, DocSpec, GraphSpec

\* MCWorkspace!TypeOK: the files of a project, a state document and the code
\* index keep their types beside each other (files/service.py:122-275,
\* state_docs/service.py:46-73, codegraph/service.py, codegraph/index_manager.py).
THEOREM WorkspaceKeepsTypes == StartSpec => []TypeOK
<1>1. FileTypeOK /\ DocTypeOK /\ GraphTypeOK => TypeOK
  BY DEF TypeOK
<1> QED
  BY <1>1, WorkspaceIsAll, FilesKeepTypes, DocumentKeepsTypes, IndexKeepsTypes, PTL
================================================================================
