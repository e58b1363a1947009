---------------------------- MODULE MCMateInsert ----------------------------
(* Small instances of MateInsert for TLC.                                  *)
EXTENDS MateInsert

\* A line that is rejected, and wide ones that meet a buffer in use and an empty one.
MixedInputs == {<<"bad">>, <<"short", "wide">>, <<"wide", "short">>}

=============================================================================
