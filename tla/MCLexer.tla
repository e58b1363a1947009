------------------------------ MODULE MCLexer ------------------------------
(* Small instances of Lexer for TLC.                                       *)
EXTENDS Lexer

\* Every query of up to three tokens, a duration coming with its colon; and longer
\* ones of the tokens that make the parser look ahead.
MCTexts ==
    UNION {[1..n -> Tokens \ {"5m"}] : n \in 0..3}
        \cup UNION {[1..n -> {"with", "a", "'p'", "+", "("}] : n \in 4..5}

\* ":" alone, and a step with its colon.
MCStrip == [t \in {":", ":5m"} |-> IF t = ":" THEN EOF ELSE "5m"]

=============================================================================
