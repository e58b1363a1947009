--------------------------- MODULE MCRegexpCache ---------------------------
(* Small instances of RegexpCache for TLC.                                 *)
EXTENDS RegexpCache
=============================================================================
