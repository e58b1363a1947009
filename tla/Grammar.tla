------------------------------ MODULE Grammar ------------------------------
(***************************************************************************)
(* mateql/parser.go: the recursive descent parser, from a query to the     *)
(* tree before WITH templates are expanded.                                *)
(*                                                                         *)
(* A query is the sequence s of its tokens, in lower case; the parser's    *)
(* place is an index i into it, and s[i] is lex.Token, "" past the end.    *)
(* lex.Next() is i + 1 and lex.Prev() is i - 1.  Every parse function      *)
(* returns a tree e and the index after what it has read, or fails at the  *)
(* index of the token it does not want.  Tokens that the lexer cannot      *)
(* recognise are left out: they end every parse with an error.             *)
(*                                                                         *)
(* The operators are recursive, so this module is for TLC only.            *)
(***************************************************************************)
EXTENDS Integers, Sequences, SequencesExt, TLC

CONSTANTS Names,          \* identifiers without a meaning of their own
          AggrFuncs,      \* the names of aggrFuncs
          ReservedFuncs,  \* the names of rollup and transform functions
          Durations,
          MaxNumber       \* bound on the number literals

-----------------------------------------------------------------------------
(* Tokens.                                                                 *)

binaryOpPriority(op) ==
    CASE op = "default"                                  -> -1
      [] op \in {"if", "ifnot"}                          -> 0
      [] op = "or"                                       -> 1
      [] op \in {"and", "unless"}                        -> 2
      [] op \in {"==", "!=", "<", ">", "<=", ">="}       -> 3
      [] op \in {"+", "-"}                               -> 4
      [] op \in {"*", "/", "%"}                          -> 5
      [] op = "^"                                        -> 6

CmpOps == {"==", "!=", "<", ">", "<=", ">="}
LogicalSetOps == {"and", "or", "unless"}
WordOps == LogicalSetOps \cup {"if", "ifnot", "default"}
BinaryOps == CmpOps \cup WordOps \cup {"+", "-", "*", "/", "%", "^"}
isRightAssociativeBinaryOp(op) == op = "^"

GroupModifiers == {"on", "ignoring"}
JoinModifiers == {"group_left", "group_right"}
AggrModifiers == {"by", "without"}

\* The step of a window may be one token with its colon.
StepTokens == {":" \o d : d \in Durations}
HasColon(t) == t \in StepTokens \cup {":"}

Idents == Names \cup AggrFuncs \cup ReservedFuncs \cup WordOps \cup GroupModifiers
              \cup JoinModifiers \cup AggrModifiers \cup StepTokens
              \cup {":", "with", "bool", "offset", "limit", "nan", "__name__"}

\* A number is <<n>>, and NaN is <<>>.
NaN == <<>>
NumberTokens == {ToString(n) : n \in 0..MaxNumber}
NumberOf(t) == IF t = "nan" THEN NaN ELSE <<CHOOSE n \in 0..MaxNumber : ToString(n) = t>>

Quote(str) == "'" \o str \o "'"
isStringPrefix(t) == t # "" /\ SubSeq(t, 1, 1) = "'"
Unquote(t) == SubSeq(t, 2, Len(t) - 1)

-----------------------------------------------------------------------------
(* Trees.                                                                  *)

NumberExpr(n) == [k |-> "num", n |-> n]
StringExpr(str, tokens) == [k |-> "str", s |-> str, tokens |-> tokens]
parensExpr(args) == [k |-> "parens", args |-> args]
FuncExpr(name, args) == [k |-> "func", name |-> name, args |-> args]
AggrFuncExpr(name, args, mod, limit) ==
    [k |-> "aggr", name |-> name, args |-> args, mod |-> mod, limit |-> limit]
ModifierExpr(op, args) == [op |-> op, args |-> args]
NoModifier == ModifierExpr("", <<>>)
BinaryOpExpr(op, bool, group, join, l, r) ==
    [k |-> "bin", op |-> op, bool |-> bool, group |-> group, join |-> join, l |-> l, r |-> r]
\* value is <<>> or <<a StringExpr>>
labelFilterExpr(label, value, neg, re) ==
    [label |-> label, value |-> value, neg |-> neg, re |-> re]
\* at is its address, given when it is expanded: the same node may then be in two
\* places of a tree
MetricExpr(filters, parsed) ==
    [k |-> "metric", filters |-> filters, parsed |-> parsed, at |-> <<>>]
\* window, step and offset are the tokens of a duration, <<>> if there is none
RollupExpr(e, window, step, inherit, offset) ==
    [k |-> "rollup", e |-> e, window |-> window, step |-> step, inherit |-> inherit,
     offset |-> offset]
withArgExpr(name, args, e) == [name |-> name, args |-> args, e |-> e]
withExpr(was, e) == [k |-> "with", was |-> was, e |-> e]

-----------------------------------------------------------------------------
(* Results of the parse functions.                                         *)

Token(s, i) == IF i <= Len(s) THEN s[i] ELSE ""
Ok(e, i) == [ok |-> TRUE, e |-> e, i |-> i]
Fail(i) == [ok |-> FALSE, i |-> i]
Then(r, Continue(_)) == IF r.ok THEN Continue(r) ELSE r
Expect(s, i, t, r) == IF Token(s, i) = t THEN r ELSE Fail(i)

-----------------------------------------------------------------------------
(* Leaves.                                                                 *)

\* What a parse function may call before it is defined: an expression, a single
\* expression, or an item of a list, according to kind.
RECURSIVE parseKind(_, _, _)
RECURSIVE parseOps(_, _, _)
RECURSIVE parseStringExpr(_, _, _)
RECURSIVE balanceBinaryOp(_)
RECURSIVE parseItems(_, _, _, _, _)

parseDuration(s, i) ==
    LET minus == IF Token(s, i) = "-" THEN <<"-">> ELSE <<>>
        at    == i + Len(minus)
    IN  IF Token(s, at) \in Durations THEN Ok(Append(minus, s[at]), at + 1) ELSE Fail(at)

parsePositiveDuration(s, i) ==
    Then(parseDuration(s, i), LAMBDA d : IF Len(d.e) > 1 THEN Fail(i) ELSE d)

\* A string, or several that "+" joins.  "+" before anything that may not be a
\* string, an identifier followed by "(" or "{" too, is a binary operator.
parseStringExpr(s, i, tokens) ==
    IF ~isStringPrefix(Token(s, i)) /\ Token(s, i) \notin Idents
    THEN Fail(i)
    ELSE LET more == Append(tokens, s[i])
             done == Ok(StringExpr("", more), i + 1)
         IN  CASE Token(s, i + 1) # "+"              -> done
               [] isStringPrefix(Token(s, i + 2))    -> parseStringExpr(s, i + 2, more)
               [] Token(s, i + 2) \notin Idents      -> done
               [] Token(s, i + 3) \in {"(", "{"}     -> done
               [] OTHER                              -> parseStringExpr(s, i + 2, more)

parseLabelFilterExpr(s, i) ==
    LET op == Token(s, i + 1)
    IN  IF Token(s, i) \notin Idents THEN Fail(i)
        ELSE IF op \in {",", "}"} THEN Ok(labelFilterExpr(s[i], <<>>, FALSE, FALSE), i + 1)
        ELSE IF op \notin {"=", "!=", "=~", "!~"} THEN Fail(i + 1)
        ELSE Then(parseStringExpr(s, i + 2, <<>>), LAMBDA v :
                  Ok(labelFilterExpr(s[i], <<v.e>>, op \in {"!=", "!~"}, op \in {"=~", "!~"}),
                     v.i))

-----------------------------------------------------------------------------
(* Lists.                                                                  *)

parseIdent(s, i) == IF Token(s, i) \in Idents THEN Ok(s[i], i + 1) ELSE Fail(i)

parseWithArgExpr(s, i) ==
    LET name == Token(s, i)
        Body(args, at) == Expect(s, at, "=",
                                 Then(parseKind("expr", s, at + 1), LAMBDA e :
                                      Ok(withArgExpr(name, args, e.e), e.i)))
    IN  IF name \notin Idents \/ name \in AggrFuncs \cup ReservedFuncs \cup {"with"}
        THEN Fail(i)
        ELSE IF Token(s, i + 1) # "("
        THEN Body(<<>>, i + 1)
        ELSE Then(parseItems(s, i + 2, ")", "ident", <<>>), LAMBDA args :
                  IF IsInjective(args.e) THEN Body(args.e, args.i) ELSE Fail(i + 1))

\* The loop that parseIdentList, parseArgListExpr, parseParensExpr,
\* parseLabelFilters and parseWithExpr have in common: items up to the closing
\* token, separated by commas, a last comma being allowed.
parseItems(s, i, close, kind, items) ==
    IF Token(s, i) = close
    THEN Ok(items, i + 1)
    ELSE Then(parseKind(kind, s, i), LAMBDA r :
              CASE Token(s, r.i) = ","   -> parseItems(s, r.i + 1, close, kind, Append(items, r.e))
                [] Token(s, r.i) = close -> Ok(Append(items, r.e), r.i + 1)
                [] OTHER                 -> Fail(r.i))

parseIdentList(s, i) == Expect(s, i, "(", parseItems(s, i + 1, ")", "ident", <<>>))
parseArgListExpr(s, i) == Expect(s, i, "(", parseItems(s, i + 1, ")", "expr", <<>>))

\* A join modifier may have no list.
parseModifierExpr(s, i) ==
    IF s[i] \in JoinModifiers /\ Token(s, i + 1) # "("
    THEN Ok(ModifierExpr(s[i], <<>>), i + 1)
    ELSE Then(parseIdentList(s, i + 1), LAMBDA r : Ok(ModifierExpr(s[i], r.e), r.i))

OptionalModifier(s, i, ops) ==
    IF Token(s, i) \in ops THEN parseModifierExpr(s, i) ELSE Ok(NoModifier, i)

parseParensExpr(s, i) ==
    Then(parseItems(s, i + 1, ")", "expr", <<>>), LAMBDA r : Ok(parensExpr(r.e), r.i))

parseMetricExpr(s, i) ==
    LET named == Token(s, i) \in Idents
        name  == IF named
                 THEN <<labelFilterExpr("__name__", <<StringExpr("", <<Quote(s[i])>>)>>, FALSE, FALSE)>>
                 ELSE <<>>
        brace == i + Len(name)
    IN  IF named /\ Token(s, brace) # "{"
        THEN Ok(MetricExpr(<<>>, name), brace)
        ELSE Expect(s, brace, "{",
                    Then(parseItems(s, brace + 1, "}", "filter", <<>>), LAMBDA r :
                         Ok(MetricExpr(<<>>, name \o r.e), r.i)))

-----------------------------------------------------------------------------
(* Functions, rollups and single expressions.                              *)

parseFuncExpr(s, i) ==
    Then(parseArgListExpr(s, i + 1), LAMBDA r : Ok(FuncExpr(s[i], r.e), r.i))

parseLimit(s, i) ==
    IF Token(s, i) # "limit" THEN Ok(0, i)
    ELSE IF Token(s, i + 1) \in NumberTokens THEN Ok(NumberOf(s[i + 1])[1], i + 2)
    ELSE Fail(i + 1)

\* The modifier comes before the arguments or after them, a limit last.
parseAggrFuncExpr(s, i) ==
    IF Token(s, i + 1) \in Idents \ AggrModifiers THEN Fail(i + 1)
    ELSE Then(OptionalModifier(s, i + 1, AggrModifiers), LAMBDA before :
         Then(parseArgListExpr(s, before.i), LAMBDA args :
         Then(IF before.e = NoModifier THEN OptionalModifier(s, args.i, AggrModifiers)
                                       ELSE Ok(before.e, args.i), LAMBDA mod :
         Then(parseLimit(s, mod.i), LAMBDA limit :
              Ok(AggrFuncExpr(s[i], args.e, mod.e, limit.e), limit.i)))))

\* What follows the identifier decides how it is parsed.
parseIdentExpr(s, i) ==
    LET after == Token(s, i + 1)
    IN  CASE after \in {"", "offset"}                 -> parseMetricExpr(s, i)
          [] after \in (Idents \ {"offset"}) \cup {"("} ->
                 IF s[i] \in AggrFuncs THEN parseAggrFuncExpr(s, i)
                 ELSE IF after = "(" THEN parseFuncExpr(s, i)
                 ELSE parseMetricExpr(s, i)
          [] after \in BinaryOps \ WordOps            -> parseMetricExpr(s, i)
          [] after \in {"{", "[", ")", ","}           -> parseMetricExpr(s, i)
          [] OTHER                                    -> Fail(i + 1)

\* "[window]", "[window:step]", "[window:]" and those without a window; the
\* result is the triple window, step and whether the step is inherited.
parseWindowAndStep(s, i) ==
    LET window == IF HasColon(Token(s, i + 1)) THEN Ok(<<>>, i + 1)
                                               ELSE parsePositiveDuration(s, i + 1)
        Close(w, step, inherit, at) == Expect(s, at, "]", Ok(<<w, step, inherit>>, at + 1))
    IN  Then(window, LAMBDA w :
             CASE Token(s, w.i) \in StepTokens ->
                      Close(w.e, <<CHOOSE d \in Durations : ":" \o d = s[w.i]>>, FALSE, w.i + 1)
               [] Token(s, w.i) = ":" /\ Token(s, w.i + 1) = "]" ->
                      Close(w.e, <<>>, TRUE, w.i + 1)
               [] Token(s, w.i) = ":" /\ Token(s, w.i + 1) # "]" ->
                      Then(parsePositiveDuration(s, w.i + 1), LAMBDA d :
                           Close(w.e, d.e, FALSE, d.i))
               [] OTHER -> Close(w.e, <<>>, FALSE, w.i))

\* "[...]", "offset ...", or both.
parseRollupExpr(s, i, e) ==
    LET window == IF Token(s, i) = "[" THEN parseWindowAndStep(s, i)
                                       ELSE Ok(<< <<>>, <<>>, FALSE >>, i)
        Rollup(w, offset, at) == Ok(RollupExpr(e, w[1], w[2], w[3], offset), at)
    IN  Then(window, LAMBDA w :
             IF Token(s, w.i) # "offset"
             THEN Rollup(w.e, <<>>, w.i)
             ELSE Then(parseDuration(s, w.i + 1), LAMBDA d : Rollup(w.e, d.e, d.i)))

parseSingleExprWithoutRollupSuffix(s, i) ==
    LET t == Token(s, i)
    IN  CASE t \in NumberTokens \cup {"nan"} -> Ok(NumberExpr(NumberOf(t)), i + 1)
          [] isStringPrefix(t)               -> parseStringExpr(s, i, <<>>)
          [] t \in Idents \ {"nan"}          -> parseIdentExpr(s, i)
          [] t = "("                         -> parseParensExpr(s, i)
          [] t = "{"                         -> parseMetricExpr(s, i)
          [] t = "-"                         ->
                 Then(parseKind("single", s, i + 1), LAMBDA r :
                      Ok(parensExpr(<<BinaryOpExpr("-", FALSE, NoModifier, NoModifier,
                                                   NumberExpr(<<0>>), r.e)>>), r.i))
          [] t = "+"                         -> parseKind("single", s, i + 1)
          [] OTHER                           -> Fail(i)

parseWithExpr(s, i) ==
    Then(parseItems(s, i + 2, ")", "with", <<>>), LAMBDA was :
         IF ~IsInjective([k \in 1..Len(was.e) |-> was.e[k].name])
         THEN Fail(i)
         ELSE Then(parseKind("expr", s, was.i), LAMBDA e : Ok(withExpr(was.e, e.e), e.i)))

parseSingleExpr(s, i) ==
    IF Token(s, i) = "with" /\ Token(s, i + 1) = "("
    THEN parseWithExpr(s, i)
    ELSE Then(parseSingleExprWithoutRollupSuffix(s, i), LAMBDA r :
              IF Token(s, r.i) \in {"[", "offset"} THEN parseRollupExpr(s, r.i, r.e) ELSE r)

-----------------------------------------------------------------------------
(* Binary operators.                                                       *)

\* Mutant: every operator taken as left associative.
balanceBinaryOp_LeftOnly(be) ==
    IF be.l.k # "bin" THEN be
    ELSE IF binaryOpPriority(be.op) <= binaryOpPriority(be.l.op) THEN be
    ELSE [be.l EXCEPT !.r = balanceBinaryOp([be EXCEPT !.l = be.l.r])]

\* The operator just read goes down the right edge of the tree to its left,
\* past every operator that binds less.
balanceBinaryOp(be) ==
    IF be.l.k # "bin" THEN be
    ELSE LET lp == binaryOpPriority(be.l.op)
             rp == binaryOpPriority(be.op)
         IN  IF rp < lp \/ (rp = lp /\ ~isRightAssociativeBinaryOp(be.op))
             THEN be
             ELSE [be.l EXCEPT !.r = balanceBinaryOp([be EXCEPT !.l = be.l.r])]

\* The loop of parseExpr, with e to the left of the token at i.
parseOps(s, i, e) ==
    LET op   == Token(s, i)
        bool == Token(s, i + 1) = "bool"
        Right(group, join, at) ==
            Then(parseKind("single", s, at), LAMBDA r :
                 parseOps(s, r.i, balanceBinaryOp(BinaryOpExpr(op, bool, group, join, e, r.e))))
    IN  IF op \notin BinaryOps THEN Ok(e, i)
        ELSE IF bool /\ op \notin CmpOps THEN Fail(i + 1)
        ELSE Then(OptionalModifier(s, IF bool THEN i + 2 ELSE i + 1, GroupModifiers), LAMBDA g :
                  IF g.e = NoModifier \/ Token(s, g.i) \notin JoinModifiers
                  THEN Right(g.e, NoModifier, g.i)
                  ELSE IF op \in LogicalSetOps THEN Fail(g.i)
                  ELSE Then(parseModifierExpr(s, g.i), LAMBDA j : Right(g.e, j.e, j.i)))

parseExpr(s, i) == Then(parseKind("single", s, i), LAMBDA r : parseOps(s, r.i, r.e))

parseKind(kind, s, i) ==
    CASE kind = "expr"   -> parseExpr(s, i)
      [] kind = "single" -> parseSingleExpr(s, i)
      [] kind = "ident"  -> parseIdent(s, i)
      [] kind = "filter" -> parseLabelFilterExpr(s, i)
      [] kind = "with"   -> parseWithArgExpr(s, i)

=============================================================================
