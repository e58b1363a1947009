----------------------------- MODULE MCWrapper -----------------------------
(* Small instances of Wrapper for TLC.                                     *)
EXTENDS Wrapper

\* No series, one, one after one to skip, and one to skip between two.
FewReplies == {<<>>, <<"ok">>, <<"empty", "ok">>, <<"ok", "foreign", "ok">>}

=============================================================================
