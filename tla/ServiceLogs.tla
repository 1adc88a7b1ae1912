------------------------------ MODULE ServiceLogs ------------------------------
(***************************************************************************)
(* The log buffer of one service (services/logs.py), filled by the capture *)
(* threads of its processes (ServiceManager._capture_stream) and read page *)
(* by page.  A call of the store holds its lock and is one step.           *)
(*                                                                         *)
(* Text is a sequence of Chars: "x" stands for any character of one byte,  *)
(* "r" for a line boundary of str.splitlines other than "n", which is the  *)
(* newline the capture threads cut at.  `final` is history: the numbers of *)
(* the lines that hold a whole line, and not the beginning of one.         *)
(***************************************************************************)
EXTENDS Naturals, FiniteSets, SequencesExt

CONSTANTS
  Writers,    \* capture threads
  Streams,
  Captures,   \* what the threads may capture: old and new processes share streams
  None,
  MaxBytes,   \* max_bytes of the store
  MaxPage,    \* bound on the limit of a page
  MaxChunk,   \* bound on the text one read() returns
  MaxText     \* bound on the text a thread reads

ASSUME WritersAreFinite == IsFiniteSet(Writers)
ASSUME StreamsAreKnown == Captures \subseteq [Writers -> Streams]
ASSUME NoneIsNoNumber == None \notin Nat
ASSUME BytesArePositive == MaxBytes \in Nat \ {0}
ASSUME BoundsAreNat == MaxPage \in Nat \ {0} /\ MaxChunk \in Nat \ {0} /\ MaxText \in Nat

VARIABLES
  lines, total, next,  \* lines, total_bytes and next_line_number of the bucket
  open,                \* open_line_numbers
  final,
  streamOf,            \* the stream a capture thread was started for
  pc, buffer, visible, \* of a capture thread: position, buffer, fragment_visible
  unread,              \* how much text a thread may still read
  offset,              \* where a client reads its next page; None after the last
  seen, upto           \* the lines it was given, and the end of its last page

bucket  == <<lines, total, next, open, final>>
threads == <<streamOf, pc, buffer, visible, unread>>
client  == <<offset, seen, upto>>
vars == <<bucket, threads, client>>

Chars == {"x", "r", "n"}
Texts(n) == UNION {[1..k -> Chars] : k \in 0..n}

Truncate(text) == SubSeq(text, 1, Min({MaxBytes - 1, Len(text)}))
Size(text) == Len(text) + 1
Bytes(ls) ==
  LET sum[k \in 0..Len(ls)] == IF k = 0 THEN 0 ELSE sum[k - 1] + Size(ls[k].text)
  IN  sum[Len(ls)]
Numbers(ls) == {ls[k].number : k \in DOMAIN ls}

\* text.splitlines(), with no empty piece after a last boundary
Pieces(text) ==
  LET starts == {k \in DOMAIN text : k = 1 \/ text[k - 1] = "r"}
      start(i) == Min({k \in DOMAIN text : Cardinality({m \in starts : m <= k}) >= i})
      end(k) == Min({e \in k..Len(text) : text[e] = "r"} \cup {Len(text) + 1})
  IN  [i \in 1..Cardinality(starts) |-> SubSeq(text, start(i), end(start(i)) - 1)]

------------------------------------------------------------------------------
\* _trim_log_buffer: lines go from the front until the rest fits.

Excess(ls, bytes) ==
  CHOOSE k \in 0..Len(ls) :
    /\ k = Len(ls) \/ bytes - Bytes(SubSeq(ls, 1, k)) <= MaxBytes
    /\ \A m \in 0..k - 1 : bytes - Bytes(SubSeq(ls, 1, m)) > MaxBytes

Trimmed(ls, bytes) == SubSeq(ls, Excess(ls, bytes) + 1, Len(ls))

\* Mutant: open line numbers outlive their lines.
StillOpenForEver(ls, bytes) == open

\* The open lines left after it.
StillOpen(ls, bytes) ==
  LET gone == Numbers(SubSeq(ls, 1, Excess(ls, bytes)))
  IN  [s \in Streams |-> IF open[s] \in gone THEN None ELSE open[s]]

Store(ls, bytes) ==
  /\ lines' = Trimmed(ls, bytes)
  /\ total' = bytes - Bytes(SubSeq(ls, 1, Excess(ls, bytes)))

\* append: every piece becomes a line.
AppendText(s, text) ==
  LET added == [k \in DOMAIN Pieces(text) |->
                  [number |-> next + k - 1, stream |-> s, text |-> Truncate(Pieces(text)[k])]]
      ls == lines \o added
  IN  /\ Store(ls, total + Bytes(added))
      /\ next' = next + Len(added)
      /\ open' = StillOpen(ls, total + Bytes(added))
      /\ final' = final \cup Numbers(added)

\* What replacing the line at position k frees.
Frees(k) == Size(lines[k].text)

AdvancesNumber == next + 1

\* _update_line of the open line, or _append_line when there is none.
Put(s, text) ==
  LET line(n) == [number |-> n, stream |-> s, text |-> Truncate(text)]
      at == CHOOSE k \in DOMAIN lines : lines[k].number = open[s]
  IN  IF open[s] \in Numbers(lines)
      THEN [ls |-> [lines EXCEPT ![at] = line(open[s])], number |-> open[s], next |-> next,
            bytes |-> total - Frees(at) + Size(Truncate(text))]
      ELSE [ls |-> Append(lines, line(next)), number |-> next, next |-> AdvancesNumber,
            bytes |-> total + Size(Truncate(text))]

SetOpenFragment(s, text) ==
  LET p == Put(s, text)
      number == IF p.number \in Numbers(Trimmed(p.ls, p.bytes)) THEN p.number ELSE None
  IN  /\ Store(p.ls, p.bytes)
      /\ next' = p.next
      /\ open' = [StillOpen(p.ls, p.bytes) EXCEPT ![s] = number]
      /\ UNCHANGED final

ClearOpenFragment(s) ==
  /\ open' = [open EXCEPT ![s] = None]
  /\ UNCHANGED <<lines, total, next, final>>

\* Mutant: the finished line stays open.
LeavesOpen(s, ls, bytes) == StillOpen(ls, bytes)

Closes(s, ls, bytes) == [StillOpen(ls, bytes) EXCEPT ![s] = None]

\* close_open_fragment; an empty text only clears.
CloseOpenFragment(s, text) ==
  \/ /\ text = <<>>
     /\ ClearOpenFragment(s)
  \/ LET p == Put(s, text)
     IN  /\ text # <<>>
         /\ Store(p.ls, p.bytes)
         /\ next' = p.next
         /\ open' = Closes(s, p.ls, p.bytes)
         /\ final' = final \cup {p.number}

------------------------------------------------------------------------------
\* _capture_stream: read a chunk, hand over its whole lines, show the rest.

Init ==
  /\ lines = <<>> /\ total = 0 /\ next = 0 /\ final = {}
  /\ open = [s \in Streams |-> None]
  /\ streamOf \in Captures
  /\ pc = [w \in Writers |-> "read"]
  /\ buffer = [w \in Writers |-> <<>>]
  /\ visible = [w \in Writers |-> FALSE]
  /\ unread = [w \in Writers |-> MaxText]
  /\ offset = 0 /\ seen = {} /\ upto = 0

Goes(w, here, there) == pc[w] = here /\ pc' = [pc EXCEPT ![w] = there]

ReadChunk(w) ==
  /\ Goes(w, "read", "cut")
  /\ \E chunk \in Texts(MaxChunk) \ {<<>>} :
       /\ Len(chunk) <= unread[w]
       /\ buffer' = [buffer EXCEPT ![w] = @ \o chunk]
       /\ unread' = [unread EXCEPT ![w] = @ - Len(chunk)]
  /\ UNCHANGED <<bucket, streamOf, visible, client>>

EndOfFile(w) ==
  /\ Goes(w, "read", "drain")
  /\ UNCHANGED <<bucket, streamOf, buffer, visible, unread, client>>

Newlines(text) == {k \in DOMAIN text : text[k] = "n"}

CutLine(w) ==
  /\ Goes(w, "cut", "cut")
  /\ Newlines(buffer[w]) # {}
  /\ LET cut == CHOOSE k \in Newlines(buffer[w]) : \A m \in Newlines(buffer[w]) : k <= m
         line == SubSeq(buffer[w], 1, cut - 1)
     IN  /\ IF visible[w] THEN CloseOpenFragment(streamOf[w], line)
                          ELSE AppendText(streamOf[w], line)
         /\ buffer' = [buffer EXCEPT ![w] = SubSeq(@, cut + 1, Len(@))]
  /\ visible' = [visible EXCEPT ![w] = FALSE]
  /\ UNCHANGED <<streamOf, unread, client>>

\* Bytes of an incomplete character alone have no preview.
ShowFragment(w) ==
  /\ Goes(w, "cut", "read")
  /\ Newlines(buffer[w]) = {}
  /\ \/ /\ buffer[w] # <<>>
        /\ SetOpenFragment(streamOf[w], buffer[w])
        /\ visible' = [visible EXCEPT ![w] = TRUE]
     \/ /\ Len(buffer[w]) <= 1
        /\ UNCHANGED <<bucket, visible>>
  /\ UNCHANGED <<streamOf, buffer, unread, client>>

\* Mutant: what is left at the end of file is not a line.
DrainDropsRest(w) ==
  /\ Goes(w, "drain", "done")
  /\ ClearOpenFragment(streamOf[w])
  /\ UNCHANGED <<streamOf, buffer, visible, unread, client>>

Drain(w) ==
  /\ Goes(w, "drain", "done")
  /\ IF buffer[w] = <<>> THEN ClearOpenFragment(streamOf[w])
     ELSE IF visible[w] THEN CloseOpenFragment(streamOf[w], buffer[w])
     ELSE AppendText(streamOf[w], buffer[w])
  /\ UNCHANGED <<streamOf, buffer, visible, unread, client>>

------------------------------------------------------------------------------
\* slice: the next page of a client that follows next_offset, or a new listing.

\* Mutant: the offset counts positions, not line numbers.
PageStartByPosition == Min({offset, Len(lines)})

\* bisect_left
PageStart == Cardinality({k \in DOMAIN lines : lines[k].number < offset})

NextPage ==
  /\ offset # None
  /\ \E limit \in 1..MaxPage :
       LET start == PageStart
           page == SubSeq(lines, start + 1, Min({start + limit, Len(lines)}))
           more == start + limit < Len(lines) /\ page # <<>>
       IN  /\ offset' = IF more THEN Last(page).number + 1 ELSE None
           /\ seen' = seen \cup Numbers(page)
           /\ upto' = IF more THEN Last(page).number + 1 ELSE next
  /\ UNCHANGED <<bucket, threads>>

ListAgain ==
  /\ offset = None
  /\ offset' = 0 /\ seen' = {} /\ upto' = 0
  /\ UNCHANGED <<bucket, threads>>

WriterStep(w) == ReadChunk(w) \/ EndOfFile(w) \/ CutLine(w) \/ ShowFragment(w) \/ Drain(w)

Next == (\E w \in Writers : WriterStep(w)) \/ NextPage \/ ListAgain

Spec == Init /\ [][Next]_vars

------------------------------------------------------------------------------
\* Properties

Retained(n) == n \in Numbers(lines)
LineOf(n) == lines[CHOOSE k \in DOMAIN lines : lines[k].number = n]

\* Every variable keeps its type; a client is only given numbers in use.
TypeOK ==
  /\ \A k \in DOMAIN lines : lines[k].number \in Nat /\ lines[k].stream \in Streams
  /\ total \in Nat /\ next \in Nat
  /\ open \in [Streams -> Nat \cup {None}]
  /\ final \subseteq 0..next - 1
  /\ streamOf \in Captures
  /\ pc \in [Writers -> {"read", "cut", "drain", "done"}]
  /\ visible \in [Writers -> BOOLEAN]
  /\ unread \in [Writers -> 0..MaxText]
  /\ offset \in Nat \cup {None} /\ seen \subseteq 0..next - 1 /\ upto \in Nat

\* total_bytes is what the retained lines take, within max_bytes, although
\* lines are replaced by longer ones in the middle of the buffer.
BytesAddUp == total = Bytes(lines) /\ total <= MaxBytes

\* An open line number is that of a retained line of its stream which is not
\* whole, so that _update_line finds what set_open_fragment showed.
OpenIsRetained ==
  \A s \in Streams : open[s] # None =>
    Retained(open[s]) /\ LineOf(open[s]).stream = s /\ open[s] \notin final

\* The buffer counts and numbers the lines it has (logs.py:95-155), whatever was
\* trimmed while it was written.
BufferIsSound == TypeOK /\ BytesAddUp /\ OpenIsRetained

\* Nobody overwrites a whole line, not even when the threads of an old and of a
\* new process capture the same stream and share its open line.
WholeLinesStay ==
  [][\A n \in final : Retained(n) /\ Retained(n)' => LineOf(n)' = LineOf(n)]_vars

\* A whole line is only dropped when it no longer fits.
WholeLinesFallOffLast ==
  [][\A n \in final :
       Retained(n) /\ n + 1 = next' - Len(lines') => Bytes(lines') + Size(LineOf(n).text) > MaxBytes]_vars

\* A line that was whole keeps its text as long as there is room for it.
WholeLinesAreKept == WholeLinesStay /\ WholeLinesFallOffLast

\* docs/plans/2026-04-18-production-hardening-p0-plan.md:135: a client that
\* follows next_offset has seen every retained line before its offset, whatever
\* was appended and trimmed between its pages.
PagesSkipNothing == \A n \in Numbers(lines) : n < upto => n \in seen

\* When all threads are through, every retained line of a stream that one of
\* them captured alone is a whole line: no beginning of a line stays behind as a
\* line of its own.
NoFragmentIsLeft ==
  (\A w \in Writers : pc[w] = "done") =>
    \A k \in DOMAIN lines :
      Cardinality({w \in Writers : streamOf[w] = lines[k].stream}) = 1 => lines[k].number \in final
=============================================================================
