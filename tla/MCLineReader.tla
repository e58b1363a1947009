---------------------------- MODULE MCLineReader ----------------------------
(* Small instances of LineReader for TLC.                                  *)
EXTENDS LineReader

CONSTANT MaxLen   \* bound on the length of the stream

MCStreams == UNION {[1..n -> BOOLEAN] : n \in 0..MaxLen}

=============================================================================
