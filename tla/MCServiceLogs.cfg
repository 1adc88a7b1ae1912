SPECIFICATION Spec
CONSTANTS
  out = out
  err = err
  w1 = w1
  w2 = w2
  Writers = {w1, w2}
  Streams = {out, err}
  Captures <- TwoCaptures
  None = None
  MaxBytes = 5
  MaxPage = 2
  MaxChunk = 2
  MaxText = 3
INVARIANTS BufferIsSound PagesSkipNothing NoFragmentIsLeft
PROPERTIES WholeLinesAreKept
