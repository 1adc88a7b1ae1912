------------------------------- MODULE JobOutput -------------------------------
(***************************************************************************)
(* What a job prints (commands/service.py, jobs.py): the capture threads   *)
(* of its two streams cut the text into pieces, hide the values of secret  *)
(* variables, and append to an output that keeps the last Limit bytes.     *)
(* The store's lock is held for one append.                                *)
(*                                                                         *)
(* Of the characters, "s" stands for a part of a name that makes it        *)
(* secret, "a" for any other letter, "-" for what is neither letter nor    *)
(* space and is two bytes long, "n" for a line break.  A text is a         *)
(* sequence of positions in what its stream printed; 0 is [REDACTED], and  *)
(* counts as one byte.  What a thread has pending is always the end of     *)
(* what it has read.  Authorization headers are left out.                  *)
(***************************************************************************)
EXTENDS Naturals, Sequences

CONSTANTS
  Streams,
  Chars,       \* what may be printed
  Chunk,       \* stream_chunk_bytes
  Reserve,     \* stream_redaction_tail_chars
  Threshold,   \* stream_flush_threshold_chars
  Jobs         \* bounds of a behaviour: [texts, chars, limit], how much each
               \* stream prints at most, of what, and the bytes that are kept

ASSUME SizesAreNumbers ==
  /\ Chunk \in Nat \ {0, 1} /\ Reserve \in Nat /\ Threshold \in Nat
  /\ Chunk <= Reserve /\ Reserve < Threshold
ASSUME JobsAreKnown ==
  Jobs \subseteq [texts : [Streams -> Nat], chars : SUBSET Chars, limit : Nat]

VARIABLES
  read,       \* what a thread has read
  from,       \* where its pending text begins
  redacting,  \* redacting_secret
  pieces,     \* what it is about to store
  ends,       \* how far it is: "open", "last" after a short chunk, "closed" when
              \* the stream is over, "broken" when the thread has ended before
  output,     \* the chunks of the record: [stream, text]
  stored,     \* history: everything that was appended
  job

captureVars == <<read, from, redacting, pieces, ends, output, stored, job>>

Mark == 0
Char(t, p) == IF p = Mark THEN "-" ELSE t[p]
IsSpace(char) == char \in {" ", "n"}
IsLetter(char) == char \in {"a", "s"}

------------------------------------------------------------------------------
\* redact_secrets

\* An assignment: the first "=" of a token that follows a name and precedes a
\* value, which reaches to the end of the token.
InToken(t, b, e) == \A k \in b..e : ~IsSpace(t[k])
Assigns(t, q) == 1 < q /\ q < Len(t) /\ t[q] = "=" /\ IsLetter(t[q - 1]) /\ ~IsSpace(t[q + 1])
IsSecretName(t, q) ==
  \E k \in 1..q - 1 : t[k] = "s" /\ \A l \in k..q - 1 : IsLetter(t[l])
Hidden(t, k) ==
  \E q \in 1..k - 1 :
    /\ Assigns(t, q) /\ IsSecretName(t, q) /\ InToken(t, q, k)
    /\ \A r \in 1..q - 1 : InToken(t, r, q) => ~Assigns(t, r)

\* What a text of positions says, of a stream that printed t.
Spelled(t, text) == [k \in DOMAIN text |-> Char(t, text[k])]

Redacted(t, text) ==
  LET says == Spelled(t, text)
      upTo[n \in 0..Len(text)] ==
        IF n = 0 THEN <<>>
        ELSE IF ~Hidden(says, n) THEN Append(upTo[n - 1], text[n])
        ELSE IF Hidden(says, n - 1) THEN upTo[n - 1] ELSE Append(upTo[n - 1], Mark)
  IN  upTo[Len(text)]

------------------------------------------------------------------------------
\* InMemoryJobStore.append_output: `printed` is what the streams have printed.

Width(t, p) == IF Char(t, p) = "-" /\ p # Mark THEN 2 ELSE 1
Bytes(t, text) ==
  LET upTo[n \in 0..Len(text)] == IF n = 0 THEN 0 ELSE upTo[n - 1] + Width(t, text[n])
  IN  upTo[Len(text)]
Size(printed, chunks) ==
  LET upTo[n \in 0..Len(chunks)] ==
        IF n = 0 THEN 0 ELSE upTo[n - 1] + Bytes(printed[chunks[n].stream], chunks[n].text)
  IN  upTo[Len(chunks)]

\* _trim_text_from_start: a character that is cut in two is dropped.
WithoutStart(t, text, bytes) ==
  LET cut == CHOOSE k \in 0..Len(text) :
               /\ Bytes(t, SubSeq(text, 1, k)) >= bytes
               /\ \A l \in 0..k - 1 : Bytes(t, SubSeq(text, 1, l)) < bytes
  IN  SubSeq(text, cut + 1, Len(text))

\* _trim_output_chunks: whole chunks are dropped, then the start of the next.
Rest(chunks, k) == SubSeq(chunks, k, Len(chunks))
CutIn(chunks, k, text) == <<[chunks[k] EXCEPT !.text = text]>> \o Rest(chunks, k + 1)
FirstKept(printed, limit, chunks) ==
  CHOOSE k \in 1..Len(chunks) + 1 :
    /\ k > Len(chunks) \/ Size(printed, Rest(chunks, k + 1)) < limit
    /\ \A l \in 1..k - 1 : Size(printed, Rest(chunks, l + 1)) >= limit

\* Mutant: a chunk of which nothing is left stays.
KeepsEmptyChunk(printed, limit, chunks) ==
  LET first == FirstKept(printed, limit, chunks)
      over == Size(printed, Rest(chunks, first)) - limit
      stream == chunks[first].stream
  IN  IF Size(printed, chunks) <= limit \/ first > Len(chunks) THEN Rest(chunks, first)
      ELSE CutIn(chunks, first, WithoutStart(printed[stream], chunks[first].text, over))

Trimmed(printed, limit, chunks) ==
  LET first == FirstKept(printed, limit, chunks)
      over == Size(printed, Rest(chunks, first)) - limit
      text == WithoutStart(printed[chunks[first].stream], chunks[first].text, over)
  IN  IF Size(printed, chunks) <= limit THEN chunks
      ELSE IF first > Len(chunks) \/ text = <<>> THEN Rest(chunks, first + 1)
      ELSE CutIn(chunks, first, text)

------------------------------------------------------------------------------
\* CommandService._capture_stream

CaptureInit ==
  /\ read = [s \in Streams |-> <<>>] /\ from = [s \in Streams |-> 1]
  /\ redacting = [s \in Streams |-> FALSE] /\ pieces = [s \in Streams |-> <<>>]
  /\ ends = [s \in Streams |-> "open"]
  /\ output = <<>> /\ stored = <<>>
  /\ job \in Jobs

Span(b, e) == [k \in 1..(IF e < b THEN 0 ELSE e - b + 1) |-> b + k - 1]
Least(ks) == CHOOSE k \in ks : \A l \in ks : k <= l
Greatest(ks) == CHOOSE k \in ks : \A l \in ks : l <= k

\* What _flush_buffered_output returns and stores, when pending is the text
\* from b on: [from, redacting, pieces].
Flush(b, on, texts) == [from |-> b, redacting |-> on, pieces |-> texts]

\* Mutants: a secret ends where a chunk ends; the space after it goes with it.
ForgetsSecret(t, b) == b
SwallowsSpace(t, b) ==
  LET spaces == {k \in b..Len(t) : IsSpace(t[k])}
  IN  IF spaces = {} THEN Len(t) + 1 ELSE Least(spaces) + 1

\* While a secret is redacted, nothing is kept up to the next space.
AfterSecret(t, b) ==
  LET spaces == {k \in b..Len(t) : IsSpace(t[k])}
  IN  IF spaces = {} THEN Len(t) + 1 ELSE Least(spaces)

TokenStart(t, b) ==
  LET spaces == {k \in b..Len(t) : IsSpace(t[k])}
  IN  IF spaces = {} THEN b ELSE Greatest(spaces) + 1

\* Mutant: a long text waits for its next space.
WaitsForSpace(t, b) ==
  LET spaces == {k \in b..Len(t) - Reserve : IsSpace(t[k])}
  IN  IF spaces = {} THEN b ELSE Greatest(spaces) + 1

\* _last_whitespace_boundary(pending, preserve_from) or preserve_from
FlushBoundary(t, b) ==
  LET spaces == {k \in b..Len(t) - Reserve : IsSpace(t[k])}
  IN  IF spaces = {} THEN Len(t) + 1 - Reserve ELSE Greatest(spaces) + 1

\* Without a secret at its end, pending is stored up to its last line break, or
\* in part when it gets long.
Kept(t, b) ==
  LET lines == {k \in b..Len(t) : t[k] = "n"}
  IN  IF lines # {} THEN Greatest(lines) + 1
      ELSE IF Len(t) + 1 - b < Threshold THEN b ELSE FlushBoundary(t, b)

Flushed(t, start, on) ==
  LET b == IF on THEN AfterSecret(t, start) ELSE start
      token == TokenStart(t, b)
      secret == {k \in token..Len(t) : Hidden(SubSeq(t, token, Len(t)), k + 1 - token)}
  IN  IF b > Len(t) THEN Flush(b, on, <<>>)
      ELSE IF secret # {}
      THEN Flush(Len(t) + 1, TRUE, <<Span(b, token - 1), Append(Span(token, Least(secret) - 1), Mark)>>)
      ELSE Flush(Kept(t, b), FALSE, <<Span(b, Kept(t, b) - 1)>>)

\* handle.read(stream_chunk_bytes) waits for a whole chunk, or for the end.
Reads(s) ==
  /\ pieces[s] = <<>> /\ ends[s] = "open"
  /\ \E text \in UNION {[1..k -> job.chars] : k \in 1..Chunk} :
       /\ Len(read[s]) + Len(text) <= job.texts[s]
       /\ ends' = IF Len(text) < Chunk THEN [ends EXCEPT ![s] = "last"] ELSE ends
       /\ read' = [read EXCEPT ![s] = @ \o text]
       /\ LET flush == Flushed(read[s] \o text, from[s], redacting[s]) IN
          /\ from' = [from EXCEPT ![s] = flush.from]
          /\ redacting' = [redacting EXCEPT ![s] = flush.redacting]
          /\ pieces' = [pieces EXCEPT ![s] = flush.pieces]
  /\ UNCHANGED <<output, stored, job>>

\* What is left at the end of the stream is stored, unless it is a secret.
EndsStream(s) ==
  /\ pieces[s] = <<>> /\ ends[s] \in {"open", "last"}
  /\ ends' = [ends EXCEPT ![s] = "closed"]
  /\ from' = [from EXCEPT ![s] = Len(read[s]) + 1]
  /\ pieces' = [pieces EXCEPT ![s] = IF redacting[s] THEN <<>> ELSE <<Span(from[s], Len(read[s]))>>]
  /\ UNCHANGED <<read, redacting, output, stored, job>>

\* Bytes that are no text make the read raise: the thread closes its end of the
\* stream, and neither stores what it has pending nor reads on.
Breaks(s) ==
  /\ pieces[s] = <<>> /\ ends[s] = "open"
  /\ ends' = [ends EXCEPT ![s] = "broken"]
  /\ UNCHANGED <<read, from, redacting, pieces, output, stored, job>>

\* _store_output
Stores(s) ==
  /\ pieces[s] # <<>>
  /\ pieces' = [pieces EXCEPT ![s] = Tail(@)]
  /\ LET text == Redacted(read[s], Head(pieces[s]))
         chunk == [stream |-> s, text |-> text]
     IN  IF text = <<>> THEN UNCHANGED <<output, stored>>
         ELSE stored' = Append(stored, chunk) /\ output' = Trimmed(read, job.limit, Append(output, chunk))
  /\ UNCHANGED <<read, from, redacting, ends, job>>

CaptureNext == \E s \in Streams : Reads(s) \/ EndsStream(s) \/ Breaks(s) \/ Stores(s)

CaptureSpec == CaptureInit /\ [][CaptureNext]_captureVars

------------------------------------------------------------------------------
\* Properties

\* Every variable keeps its type, and no chunk is empty.
CaptureTypeOK ==
  /\ read \in [Streams -> Seq(Chars)] /\ redacting \in [Streams -> BOOLEAN]
  /\ \A s \in Streams : from[s] \in 1..Len(read[s]) + 1
  /\ \A i \in DOMAIN output : output[i].stream \in Streams /\ output[i].text # <<>>

\* What a stream has stored, in one.
StoredOf(s, chunks) ==
  LET upTo[n \in 0..Len(chunks)] ==
        IF n = 0 THEN <<>>
        ELSE upTo[n - 1] \o IF chunks[n].stream = s THEN chunks[n].text ELSE <<>>
  IN  upTo[Len(chunks)]

\* A cut falls into a token only when that is the first and there is no space
\* before the cut, Threshold - Reserve at least; a value that was not redacted
\* when it ended a chunk is shorter than one.
Room == Threshold - Reserve + 1 - Chunk
NamesFit(t) ==
  \A q \in DOMAIN t : \A k \in 1..q : (t[q] = "=" /\ InToken(t, k, q)) => q + 1 - k <= Room
TokensFit(t) ==
  \A q \in DOMAIN t : \A k \in 1..q : InToken(t, k, q) => q + 1 - k <= Room

\* service.py:335-433: no character of a secret is ever stored, wherever the
\* reads cut the text.
SecretsStayHidden ==
  \A s \in Streams : NamesFit(read[s]) =>
    \A i \in DOMAIN stored : stored[i].stream = s =>
      \A k \in DOMAIN stored[i].text :
        stored[i].text[k] # Mark => ~Hidden(read[s], stored[i].text[k])

\* service.py:335-361: and everything else is, in its order: whenever nothing is
\* about to be stored, a stream has stored what redacting all it has read but the
\* pending text at once gives, and a stream that is over has nothing pending.  A
\* thread that breaks off loses what it has pending and what it has not read.
NothingElseIsLost ==
  \A s \in Streams :
    (pieces[s] = <<>> /\ TokensFit(read[s])) =>
      /\ StoredOf(s, stored) = Redacted(read[s], Span(1, from[s] - 1))
      /\ ends[s] = "closed" => from[s] = Len(read[s]) + 1

\* The chunks from character k of chunk i on, and the character before it.
Latest(chunks, i, k) ==
  IF i > Len(chunks) THEN <<>>
  ELSE CutIn(chunks, i, SubSeq(chunks[i].text, k, Len(chunks[i].text)))
WidthBefore(chunks, i, k) ==
  LET j == IF k > 1 THEN i ELSE i - 1
      l == IF k > 1 THEN k - 1 ELSE Len(chunks[j].text)
  IN  Width(read[chunks[j].stream], chunks[j].text[l])

\* jobs.py:91-124: the output is the end of what was stored, as much of it as
\* there is room for.
OutputIsTheLatest ==
  /\ Size(read, output) <= job.limit
  /\ \E i \in 1..Len(stored) + 1 :
       \E k \in 1..IF i > Len(stored) THEN 1 ELSE Len(stored[i].text) :
         /\ output = Latest(stored, i, k)
         /\ <<i, k>> # <<1, 1>> => Size(read, output) + WidthBefore(stored, i, k) > job.limit

\* service.py:410-433: what a thread holds back is bounded, whatever is printed.
PendingIsBounded ==
  \A s \in Streams : pieces[s] = <<>> => Len(read[s]) + 1 - from[s] < Threshold + Chunk - 1

\* A job keeps a bounded end of its output, while it runs and afterwards.
OutputIsBounded == OutputIsTheLatest /\ PendingIsBounded
================================================================================
