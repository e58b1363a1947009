------------------------------- MODULE MateQL -------------------------------
(***************************************************************************)
(* mateql.Parse as a whole, on every query that a client can type with the *)
(* tokens of a slice of the language.  A query is a text, or templates     *)
(* WITH names and a text that may use them; it is typed phrase by phrase,  *)
(* and given up as soon as no continuation can be parsed.  For TLC only.   *)
(***************************************************************************)
EXTENDS Expand

CONSTANTS Slices,        \* records: phrases (sequences of tokens) and max (length of a
                         \* text); names, params and max (length) of templates
          MaxTemplates   \* bound on the templates of a query

VARIABLES slice,   \* the slice of the language in use
          defs,    \* the templates typed so far: name, parameters and text
          text,    \* the tokens typed last
          result   \* what Parse returns for the query

vars == <<slice, defs, text, result>>

-----------------------------------------------------------------------------
(* Parse.                                                                  *)

parse(s) ==
    LET r == parseKind("expr", s, 1)
    IN  IF r.ok /\ r.i <= Len(s) THEN Fail(r.i) ELSE r

\* Two of the five default templates.
defaultWithArgExprs ==
    LET ru    == <<"ru", "(", "freev", ",", "maxv", ")", "=", "clamp_min", "(", "maxv", "-",
                   "clamp_min", "(", "freev", ",", "0", ")", ",", "0", ")", "/",
                   "clamp_min", "(", "maxv", ",", "0", ")", "*", "100">>
        alias == <<"alias", "(", "q", ",", "name", ")", "=",
                   "label_set", "(", "q", ",", "'__name__'", ",", "name", ")">>
    IN  <<parseKind("with", ru, 1).e, parseKind("with", alias, 1).e>>

Simplified(e) ==
    Then(expandWithExpr(defaultWithArgExprs, e, <<>>), LAMBDA x :
         Done(simplifyConstants(removeParensExpr(x.e))))

Parse(s) == Then(parse(s), LAMBDA r : Simplified(r.e))

-----------------------------------------------------------------------------
(* The client.                                                             *)

Parameters(args) ==
    IF args = <<>> THEN <<>>
    ELSE <<"(">> \o Commas([k \in 1..Len(args) |-> <<args[k]>>]) \o <<")">>

Query(ds, s) ==
    IF ds = <<>> THEN s
    ELSE <<"with", "(">>
         \o Commas([k \in 1..Len(ds) |->
                     <<ds[k].name>> \o Parameters(ds[k].args) \o <<"=">> \o ds[k].text])
         \o <<")">> \o s

Answer == \E query \in {Query(defs', text')} : result' = Parse(query)

\* The empty query is an error at its first token.
Init == slice \in Slices /\ defs = <<>> /\ text = <<>> /\ result = Fail(1)

Type ==
    /\ \E longer \in {text \o p : p \in slice.phrases} :
           /\ Len(longer) <= slice.max
           /\ parse(longer).i > Len(longer)
           /\ text' = longer
    /\ UNCHANGED <<slice, defs>>
    /\ Answer

\* The text becomes the body of a template, and a new text is begun.
EndTemplate ==
    /\ Len(defs) < MaxTemplates /\ Len(text) <= slice.templates.max
    /\ parse(text).ok
    /\ \E name \in slice.templates.names \ {defs[k].name : k \in 1..Len(defs)},
          args \in slice.templates.params :
           defs' = Append(defs, [name |-> name, args |-> args, text |-> text])
    /\ text' = <<>>
    /\ UNCHANGED slice
    /\ Answer

\* A new query.
Clear ==
    /\ text # <<>>
    /\ defs' = <<>>
    /\ text' = <<>>
    /\ UNCHANGED slice
    /\ Answer

Next == Type \/ EndTemplate \/ Clear

Spec == Init /\ [][Next]_vars

-----------------------------------------------------------------------------
(* Properties.                                                             *)

\* The tree e with Use(x) in the place of every name, function or aggregate x in it,
\* the ones further down first.
Replaced(e, Use(_)) ==
    LET RECURSIVE R(_)
        Args(x) == [k \in 1..Len(x.args) |-> R(x.args[k])]
        R(x) == CASE x.k = "metric"             -> Use(x)
                  [] x.k \in {"func", "aggr"}   -> Use([x EXCEPT !.args = Args(x)])
                  [] x.k = "parens"             -> [x EXCEPT !.args = Args(x)]
                  [] x.k = "rollup"             -> [x EXCEPT !.e = R(x.e)]
                  [] x.k = "bin"                -> [x EXCEPT !.l = R(x.l), !.r = R(x.r)]
                  [] OTHER                      -> x
    IN  R(e)

\* e as a tree, whatever its nodes share.
Unshared(e) == Replaced(e, LAMBDA x : IF x.k = "metric" THEN [x EXCEPT !.at = <<>>] ELSE x)

RECURSIVE Normal(_)
Normal(e) ==
    CASE e.k = "num"             -> TRUE
      [] e.k = "str"             -> e.tokens = <<>>
      [] e.k = "metric"          -> e.parsed = <<>>
      [] e.k \in {"func", "aggr"} -> \A k \in 1..Len(e.args) : Normal(e.args[k])
      [] e.k = "rollup"          -> Normal(e.e)
      [] e.k = "bin"             -> /\ Normal(e.l) /\ Normal(e.r)
                                    /\ ~(e.l.k = "num" /\ e.r.k = "num")
      [] e.k \in {"parens", "with"} -> FALSE

\* What Parse returns has no WITH, no unexpanded string or filter, no parentheses
\* and no operation on two constants anywhere in it (lines 15-35, "All the `WITH`
\* expressions are expanded in the returned Expr").
ResultNormal == result.ok => Normal(result.e)

\* The first word of the right operand of e would be read as a modifier of e.
ReadAsModifier(e) ==
    LET word == Head(AppendString(e.r))
    IN  /\ e.r.k # "bin"
        /\ IF e.group = NoModifier
           THEN word \in GroupModifiers \/ (word = "bool" /\ ~e.bool)
           ELSE word \in JoinModifiers /\ e.join = NoModifier

\* The right operand of e would be read as a part of the string to its left.
ReadAsString(e) ==
    LET right == AppendString(e.r)
    IN  /\ e.op = "+" /\ e.l.k = "str" /\ e.group = NoModifier
        /\ \/ isStringPrefix(right[1])
           \/ right[1] \in Idents /\ Token(right, 2) \notin {"(", "{"}

RECURSIVE Ambiguous(_)
Ambiguous(e) ==
    CASE e.k \in {"func", "aggr"} -> \E k \in 1..Len(e.args) : Ambiguous(e.args[k])
      [] e.k = "rollup" -> Ambiguous(e.e) \/ (e.e.k = "num" /\ e.e.n # NaN /\ e.e.n[1] < 0)
      [] e.k = "bin"    -> Ambiguous(e.l) \/ Ambiguous(e.r) \/ ReadAsModifier(e) \/ ReadAsString(e)
      [] OTHER          -> FALSE

\* The text of a parsed query is read as the same query again: matequery sends
\* the backend the printed form (prometheus/mateql.go lines 11-18).  There are three
\* exceptions.  A window or offset of a negative constant: (-1)[5m] is printed as
\* -1[5m], and read as 0 - 1[5m].  A right operand named like a modifier: -bool is
\* printed as 0 - bool, and not read at all.  And a string or a metric added to a
\* string: 'p' + (a) is printed as 'p' + a, and read as a string with an undefined part.
RoundTrip ==
    result.ok /\ ~Ambiguous(result.e) =>
        LET again == Parse(AppendString(result.e)) IN again.ok /\ Unshared(again.e) = Unshared(result.e)

\* The reference for a chain of operands and operators: the operator that binds
\* least is the root, the last of several, the first if they are powers.
RECURSIVE Chain(_)
Chain(s) ==
    IF Len(s) = 1 THEN parseKind("single", s, 1).e
    ELSE LET ops  == {k \in 1..Len(s) : k % 2 = 0}
             low  == {k \in ops : \A j \in ops : binaryOpPriority(s[k]) <= binaryOpPriority(s[j])}
             root == CHOOSE k \in low : \A j \in low : IF s[k] = "^" THEN k <= j ELSE j <= k
         IN  BinaryOpExpr(s[root], FALSE, NoModifier, NoModifier,
                          Chain(SubSeq(s, 1, root - 1)), Chain(SubSeq(s, root + 1, Len(s))))

IsChain(s) ==
    /\ Len(s) % 2 = 1
    /\ \A k \in 1..Len(s) : IF k % 2 = 0 THEN s[k] \in BinaryOps ELSE s[k] \in Names

\* Rotating the tree at each operator (balanceBinaryOp, lines 347-364) gives every
\* chain of operators the tree that precedence and associativity ask for.
PrecedenceRight == IsChain(text) => parse(text) = Ok(Chain(text), Len(text) + 1)

\* The name that e is, if it is nothing but a name.
NameOf(e) ==
    IF e.k = "metric" /\ Len(e.parsed) = 1 /\ e.parsed[1].value # <<>>
    THEN Unquote(e.parsed[1].value[1].tokens[1])
    ELSE ""

\* A tree that cannot be expanded: a filter that no template stands for.
Undefined == MetricExpr(<<>>, <<labelFilterExpr("undefined", <<>>, FALSE, FALSE)>>)

\* e with the body of template d in the place of every use of it, and the arguments,
\* as they are, in the place of its parameters there.
Inline(e, d) ==
    LET Body(args) ==
            Replaced(parse(d.text).e, LAMBDA x :
                LET at == {k \in 1..Len(args) : d.args[k] = NameOf(x)}
                IN  IF at = {} THEN x ELSE parensExpr(<<args[CHOOSE k \in at : TRUE]>>))
    IN  Replaced(e, LAMBDA x :
            CASE d.args = <<>> /\ NameOf(x) = d.name -> parensExpr(<<Body(<<>>)>>)
              [] d.args # <<>> /\ x.k = "func" /\ x.name = d.name ->
                     IF Len(x.args) = Len(d.args) THEN parensExpr(<<Body(x.args)>>) ELSE Undefined
              [] OTHER -> x)

RECURSIVE InlineAll(_, _)
InlineAll(e, ds) == IF ds = <<>> THEN e ELSE InlineAll(Inline(e, Last(ds)), Front(ds))

Texts == {text} \cup {defs[k].text : k \in 1..Len(defs)}
ParametersOf(ds) == UNION {ToSet(ds[k].args) : k \in 1..Len(ds)}

\* No template stands for filters or labels, as in a{x}; none without parameters is
\* called, as in x(); and no function is called that has the name of a parameter.
\* Such a function is taken for the parameter when the arguments of a call are
\* expanded again in the body's scope: with (t(f, b) = b) t(1, f(2)) is an error.
OperandsOnly ==
    LET operands == ParametersOf(defs) \cup {defs[k].name : k \in {j \in 1..Len(defs) : defs[j].args = <<>>}}
    IN  \A s \in Texts :
            /\ ToSet(s) \cap (AggrModifiers \cup {"{"}) = {}
            /\ \A k \in 1..Len(s) - 1 : s[k] \in operands => s[k + 1] # "("

\* Expanding templates (lines 586-810, 877-899) is substitution: a template sees those
\* before it, never itself or a later one, its arguments mean what they mean where it
\* is called, whatever its parameters are called, and each text keeps together
\* whatever stands around it.  Arguments that the body does not use may be wrong and
\* are still reported.
WithIsSubstitution ==
    defs # <<>> /\ OperandsOnly =>
        LET s == Then(parse(text), LAMBDA r : Simplified(InlineAll(r.e, defs)))
        IN  /\ result.ok => s.ok /\ Unshared(s.e) = Unshared(result.e)
            /\ s.ok => result.ok \/ \E k \in 1..Len(defs) :
                                       ~(ToSet(defs[k].args) \subseteq ToSet(defs[k].text))

=============================================================================
