------------------------------- MODULE Lexer -------------------------------
(***************************************************************************)
(* mateql/lexer.go: the token under the cursor, a stack of the tokens      *)
(* before it and a stack of those the parser has looked at and given back; *)
(* and the ways in which the functions of parser.go use Next and Prev.     *)
(*                                                                         *)
(* The scanner is abstracted to the tokens it finds in the query: text,    *)
(* and then the end, or a rest it cannot read if bad.  The grammar is left *)
(* out: the parser may use its lookaheads in any order, consume any token, *)
(* and refuse the query at any time.                                       *)
(***************************************************************************)
EXTENDS Naturals, Sequences

EOF == "EOF"   \* the empty token, which the scanner returns at the end

CONSTANTS Tokens,    \* all the tokens there are
          Strings,   \* those that are string literals
          Idents,    \* those that begin like an identifier
          Colons,    \* of these, those that begin with a colon
          Texts,     \* the queries
          Strip      \* Strip[t]: the token t without its colon

ASSUME TokensAssumption ==
    /\ EOF \notin Tokens
    /\ Strings \subseteq Tokens /\ Idents \subseteq Tokens /\ Colons \subseteq Idents
    /\ "with" \in Idents
    /\ Texts \subseteq Seq(Tokens)
    /\ Strip \in [Colons -> Tokens \cup {EOF}]

VARIABLES text, bad,   \* the query
          lex,         \* the lexer
          seen,        \* what the last look ahead has shown the parser
          outcome      \* of the parse: "start", "parsing", "ok" or "error"

vars == <<text, bad, lex, seen, outcome>>

-----------------------------------------------------------------------------
(* The lexer.                                                              *)

\* lex.Init; scanned is the number of tokens taken from sTail, an end included.
initLexer == [Token |-> EOF, prevTokens |-> <<>>, nextTokens |-> <<>>, scanned |-> 0, err |-> FALSE]

Top(stack) == stack[Len(stack)]
Pop(stack) == SubSeq(stack, 1, Len(stack) - 1)

TokenAt(n) == IF n \in 1..Len(text) THEN text[n] ELSE EOF

\* Mutant: an error is forgotten, and the scanner asked again.
lexNext_NotSticky(l) ==
    LET pushed == [l EXCEPT !.prevTokens = Append(@, l.Token), !.err = FALSE]
    IN  IF l.nextTokens # <<>>
        THEN [pushed EXCEPT !.Token = Top(l.nextTokens), !.nextTokens = Pop(@)]
        ELSE IF bad /\ l.scanned >= Len(text)
        THEN [pushed EXCEPT !.err = TRUE]
        ELSE [pushed EXCEPT !.Token = TokenAt(l.scanned + 1), !.scanned = @ + 1]

\* Mutant: what cannot be read is taken for the end.
lexNext_ErrorIsEnd(l) ==
    LET pushed == [l EXCEPT !.prevTokens = Append(@, l.Token)]
    IN  IF l.nextTokens # <<>>
        THEN [pushed EXCEPT !.Token = Top(l.nextTokens), !.nextTokens = Pop(@)]
        ELSE [pushed EXCEPT !.Token = TokenAt(l.scanned + 1), !.scanned = @ + 1]

\* An error is returned for ever.  Token is pushed before it is known whether
\* there is another one.
lexNext(l) ==
    LET pushed == [l EXCEPT !.prevTokens = Append(@, l.Token)]
    IN  IF l.err
        THEN l
        ELSE IF l.nextTokens # <<>>
        THEN [pushed EXCEPT !.Token = Top(l.nextTokens), !.nextTokens = Pop(@)]
        ELSE IF bad /\ l.scanned >= Len(text)
        THEN [pushed EXCEPT !.err = TRUE]
        ELSE [pushed EXCEPT !.Token = TokenAt(l.scanned + 1), !.scanned = @ + 1]

lexPrev(l) ==
    [Token |-> Top(l.prevTokens), prevTokens |-> Pop(l.prevTokens),
     nextTokens |-> Append(l.nextTokens, l.Token),
     scanned |-> l.scanned, err |-> l.err]

-----------------------------------------------------------------------------
(* The parser.                                                             *)

Init ==
    /\ text \in Texts
    /\ bad \in BOOLEAN
    /\ lex = initLexer
    /\ seen = EOF
    /\ outcome = "start"

\* The parser goes on with the lexer l, having seen the token t ahead.
Continue(l, t) == lex' = l /\ seen' = t /\ outcome' = "parsing" /\ UNCHANGED <<text, bad>>

\* The parser returns the error of the lexer l, or one of its own.
Refuse(l) == lex' = l /\ seen' = EOF /\ outcome' = "error" /\ UNCHANGED <<text, bad>>

\* Parse begins, or a parse function goes past a token it has accepted.
Consume ==
    /\ \/ outcome = "start"
       \/ outcome = "parsing" /\ lex.Token # EOF
    /\ LET l1 == lexNext(lex)
       IN  IF l1.err THEN Refuse(l1) ELSE Continue(l1, EOF)

\* parseIdentExpr: what follows the identifier decides how it is parsed.
LookIdent ==
    /\ outcome = "parsing"
    /\ lex.Token \in Idents
    /\ LET l1 == lexNext(lex)
       IN  IF l1.err THEN Refuse(l1) ELSE Continue(lexPrev(l1), l1.Token)

\* parseSingleExpr: is it a WITH expression, or a metric of that name?  Prev is
\* called even if Next has failed; that failure is dropped, and has to come back
\* from the Next of parseIdentExpr, which is where the parser goes then.
LookWith ==
    /\ outcome = "parsing"
    /\ lex.Token = "with"
    /\ LET l1 == lexNext(lex)
           l2 == lexPrev(l1)
           l3 == lexNext(l2)
       IN  IF ~l1.err /\ l1.Token = "(" THEN Continue(l2, "(")
           ELSE IF l3.err               THEN Refuse(l3)
           ELSE Continue(lexPrev(l3), l3.Token)

\* One round of the loop of parseStringExpr.
StringPart ==
    /\ outcome = "parsing"
    /\ lex.Token \in Strings \cup Idents
    /\ LET l1 == lexNext(lex)
           l2 == lexNext(l1)
           l3 == lexNext(l2)
       IN  IF l1.err                       THEN Refuse(l1)
           ELSE IF l1.Token # "+"          THEN Continue(l1, EOF)
           ELSE IF l2.err                  THEN Refuse(l2)
           ELSE IF l2.Token \in Strings    THEN Continue(l2, EOF)
           ELSE IF l2.Token \notin Idents  THEN Continue(lexPrev(l2), EOF)
           ELSE IF l3.err                  THEN Refuse(l3)
           ELSE IF l3.Token \in {"(", "{"} THEN Continue(lexPrev(lexPrev(l3)), EOF)
           ELSE Continue(lexPrev(l3), EOF)

\* parseWindowAndStep: the colon is cut off in place; if it was all, the step
\* is the next token.
StepOfWindow ==
    /\ outcome = "parsing"
    /\ lex.Token \in Colons
    /\ LET cut == [lex EXCEPT !.Token = Strip[lex.Token]]
           l1  == lexNext(cut)
       IN  IF cut.Token # EOF THEN Continue(cut, EOF)
           ELSE IF l1.err    THEN Refuse(l1)
           ELSE Continue(l1, EOF)

\* Parse returns: an expression has been read, and nothing is left of the query.
Accept ==
    /\ outcome = "parsing"
    /\ lex.Token = EOF
    /\ outcome' = "ok"
    /\ UNCHANGED <<text, bad, lex, seen>>

\* Any parse function meets a token that it does not want.
Reject == outcome = "parsing" /\ Refuse(lex)

\* The parse is over.
Over == outcome \in {"ok", "error"} /\ UNCHANGED vars

Next ==
    \/ Consume \/ LookIdent \/ LookWith \/ StringPart \/ StepOfWindow
    \/ Accept \/ Reject \/ Over

Spec == Init /\ [][Next]_vars

-----------------------------------------------------------------------------
(* Properties.                                                             *)

TypeOK ==
    /\ text \in Texts
    /\ bad \in BOOLEAN
    /\ lex \in [Token : Tokens \cup {EOF}, prevTokens : Seq(Tokens \cup {EOF}),
               nextTokens : Seq(Tokens \cup {EOF}), scanned : Nat, err : BOOLEAN]
    /\ seen \in Tokens \cup {EOF}
    /\ outcome \in {"start", "parsing", "ok", "error"}

\* A query is accepted only if the lexer could read all of it and the parser has
\* gone past every token, once (Parse, parser.go lines 15-27).
AcceptedWhole == outcome = "ok" => ~bad /\ Len(lex.prevTokens) = Len(text) + 1

C == INSTANCE Cursor WITH
         at  <- IF outcome = "error" THEN 0 ELSE Len(lex.prevTokens),
         cur <- IF outcome = "error" THEN EOF ELSE lex.Token

\* The lexer with its two stacks is a place in the sequence of tokens: Prev after
\* Next gives back what was read, in order, however far the parser looks ahead
\* (lexer.go lines 37-54 and 349-353), and the error that parseSingleExpr drops
\* (parser.go lines 367-373) ends the parse all the same.
ImplementsCursor == C!Spec

=============================================================================
