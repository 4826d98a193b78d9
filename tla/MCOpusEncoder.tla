--------------------------- MODULE MCOpusEncoder ---------------------------
EXTENDS OpusEncoder

CONSTANTS a, b

Bytes == {a, b}

\* Everything of up to a frame, and some of more, up to what fills the doubled buffer.
SomeChunks ==
  UNION {[1 .. n -> Bytes] : n \in 0 .. 2}
    \cup {<<a, b, b>>, <<b, b, a, b, a>>, <<b, a, a, b, a, b, b>>}

=============================================================================
