------------------------------- MODULE Cursor -------------------------------
(***************************************************************************)
(* What the parser of mateql relies on, and module Grammar takes for       *)
(* granted: the lexer is a place in the fixed sequence of the query's      *)
(* tokens.  Looking ahead leaves the place where it was, and a query with  *)
(* a rest that the lexer cannot read is refused when the parser gets or    *)
(* looks there.  Lexer shows that two stacks of tokens keep this promise.  *)
(***************************************************************************)
EXTENDS Naturals, Sequences

EOF == "EOF"   \* the token after the last one

CONSTANTS Strings,   \* the tokens that are string literals
          Idents,    \* the tokens that begin like an identifier
          Colons,    \* of these, those that begin with a colon
          Texts,     \* queries, as sequences of tokens
          Strip      \* Strip[t]: the token t without its colon

VARIABLES text,      \* the tokens of the query
          bad,       \* the lexer cannot read what follows them
          at,        \* the place: 0 before the first token
          cur,       \* the token there
          seen,      \* what the last look ahead has shown
          outcome    \* "start", "parsing", "ok" or "error"

vars == <<text, bad, at, cur, seen, outcome>>

TokenAt(n) == IF n \in 1..Len(text) THEN text[n] ELSE EOF
Readable(n) == ~(bad /\ n > Len(text))

Init ==
    /\ text \in Texts
    /\ bad \in BOOLEAN
    /\ at = 0
    /\ cur = EOF
    /\ seen = EOF
    /\ outcome = "start"

\* The parse ends with an error, and there is no place any more.
Refuse ==
    /\ outcome' = "error"
    /\ at' = 0 /\ cur' = EOF /\ seen' = EOF

\* The place moves n tokens on.
Move(n) ==
    /\ at' = at + n
    /\ cur' = TokenAt(at + n)
    /\ seen' = EOF
    /\ outcome' = "parsing"

\* Nothing moves, and t has been seen.
Peek(t) == seen' = t /\ UNCHANGED <<at, cur, outcome>>

Consume ==
    /\ \/ outcome = "start"
       \/ outcome = "parsing" /\ cur # EOF
    /\ IF Readable(at + 1) THEN Move(1) ELSE Refuse

Look ==
    /\ outcome = "parsing" /\ cur \in Idents
    /\ IF Readable(at + 1) THEN Peek(TokenAt(at + 1)) ELSE Refuse

\* One part of a string, and the "+" after it if another part follows.
StringPart ==
    LET one   == TokenAt(at + 1)
        two   == TokenAt(at + 2)
        three == TokenAt(at + 3)
    IN  /\ outcome = "parsing" /\ cur \in Strings \cup Idents
        /\ IF ~Readable(at + 1)                             THEN Refuse
           ELSE IF one # "+"                                THEN Move(1)
           ELSE IF ~Readable(at + 2)                        THEN Refuse
           ELSE IF two \in Strings                          THEN Move(2)
           ELSE IF two \notin Idents                        THEN Move(1)
           ELSE IF ~Readable(at + 3)                        THEN Refuse
           ELSE IF three \in {"(", "{"}                     THEN Move(1)
           ELSE Move(2)

StepOfWindow ==
    /\ outcome = "parsing" /\ cur \in Colons
    /\ IF Strip[cur] # EOF
       THEN cur' = Strip[cur] /\ seen' = EOF /\ UNCHANGED <<at, outcome>>
       ELSE IF Readable(at + 1) THEN Move(1) ELSE Refuse

\* All the tokens have been read, or the parser does not want the next one.
End ==
    \/ outcome = "parsing" /\ cur = EOF /\ outcome' = "ok" /\ UNCHANGED <<at, cur, seen>>
    \/ outcome = "parsing" /\ Refuse

Next ==
    /\ Consume \/ Look \/ StringPart \/ StepOfWindow \/ End
    /\ UNCHANGED <<text, bad>>

Spec == Init /\ [][Next]_vars

=============================================================================
