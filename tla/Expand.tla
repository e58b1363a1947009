------------------------------- MODULE Expand -------------------------------
(***************************************************************************)
(* mateql/parser.go and binary_op.go: what Parse does to the tree it has   *)
(* read.  WITH templates are expanded, parentheses removed and constants   *)
(* folded.  Results are as in Grammar, without an index.  For TLC only.    *)
(*                                                                         *)
(* Expanding makes new nodes, but a metric that is expanded already stays  *)
(* the same one: an argument that a template uses twice is in its tree     *)
(* twice.  at is the way from the query to the call of expandWithExpr, and *)
(* the address of a metric made in it.                                     *)
(***************************************************************************)
EXTENDS Printer

RECURSIVE expandWithExpr(_, _, _)
RECURSIVE removeParensExpr(_)
RECURSIVE simplifyConstants(_)

Done(e) == Ok(e, 0)
Error == Fail(0)

\* All of the results, or an error if there is one among them.
AllOf(results) ==
    IF \A k \in 1..Len(results) : results[k].ok
    THEN Done([k \in 1..Len(results) |-> results[k].e])
    ELSE Error

-----------------------------------------------------------------------------
(* Templates.                                                              *)

\* The index of the last template of that name, 0 if there is none.
getWithArgExpr(was, name) ==
    LET found == {w \in 1..Len(was) : was[w].name = name}
    IN  IF found = {} THEN 0 ELSE CHOOSE w \in found : \A v \in found : v <= w

Expanded(filters, at) == [MetricExpr(filters, <<>>) EXCEPT !.at = at]

newMetricExpr(name, at) ==
    Expanded(<<[label |-> "__name__", value |-> name, neg |-> FALSE, re |-> FALSE]>>, at)

\* Template w used with the arguments called (called[1]), or without a list of
\* arguments (called = <<>>).  Its body sees the templates before it and its
\* parameters.
expandWithExprExt(was, w, called, at) ==
    LET wa   == was[w]
        args == IF called = <<>> THEN <<>> ELSE called[1]
    IN  IF Len(wa.args) # Len(args)
        THEN IF called = <<>> THEN Done(newMetricExpr(wa.name, at)) ELSE Error
        ELSE expandWithExpr(
                 SubSeq(was, 1, w - 1)
                     \o [k \in 1..Len(args) |-> withArgExpr(wa.args[k], <<>>, args[k])],
                 wa.e, Append(at, 0))

expandWithArgs(was, args, at) ==
    AllOf([k \in 1..Len(args) |-> expandWithExpr(was, args[k], Append(at, k))])

hasNonEmptyMetricGroup(me) == me.filters # <<>> /\ isMetricGroup(me.filters[1])
isOnlyMetricGroup(me) == hasNonEmptyMetricGroup(me) /\ Len(me.filters) = 1

\* Keep the first of several equal elements.
removeDuplicates(seq) ==
    FoldLeft(LAMBDA kept, x : IF x \in ToSet(kept) THEN kept ELSE Append(kept, x), <<>>, seq)

\* A label that names a template without parameters stands for a metric name, or
\* for a list of them in parentheses.
expandModifierArg(was, arg) ==
    LET w     == getWithArgExpr(was, arg)
        named == IF was[w].e.k = "parens" THEN was[w].e.args ELSE <<was[w].e>>
    IN  IF w = 0 THEN Done(<<arg>>)
        ELSE IF was[w].args # <<>> THEN Done(<<arg>>)
        ELSE IF \A k \in 1..Len(named) : named[k].k = "metric" /\ isOnlyMetricGroup(named[k])
        THEN Done([k \in 1..Len(named) |-> named[k].filters[1].value])
        ELSE Error

expandModifier(was, mod) ==
    Then(AllOf([k \in 1..Len(mod.args) |-> expandModifierArg(was, mod.args[k])]), LAMBDA r :
         Done(ModifierExpr(mod.op, removeDuplicates(FlattenSeq(r.e)))))

\* A composite string: literals, and names of templates that expand to strings.
expandStringToken(was, token) ==
    LET w == getWithArgExpr(was, token)
    IN  IF isStringPrefix(token) THEN Done(Unquote(token))
        ELSE IF w = 0 THEN Error
        ELSE Then(expandWithExprExt(was, w, <<>>, <<>>), LAMBDA r :
                  IF r.e.k = "str" THEN Done(r.e.s) ELSE Error)

expandString(was, e) ==
    IF e.s # "" THEN Done(e)
    ELSE Then(AllOf([k \in 1..Len(e.tokens) |-> expandStringToken(was, e.tokens[k])]), LAMBDA r :
              Done(StringExpr(FoldLeft(LAMBDA x, y : x \o y, "", r.e), <<>>)))

\* A filter without a value names a template that expands to filters.
expandFilter(was, lfe) ==
    LET w == getWithArgExpr(was, lfe.label)
    IN  IF lfe.value # <<>>
        THEN Then(expandString(was, lfe.value[1]), LAMBDA v :
                  Done(<<[label |-> lfe.label, value |-> v.e.s, neg |-> lfe.neg, re |-> lfe.re]>>))
        ELSE IF w = 0 THEN Error
        ELSE Then(expandWithExprExt(was, w, <<>>, <<>>), LAMBDA r :
                  IF r.e.k = "metric" /\ ~hasNonEmptyMetricGroup(r.e)
                  THEN Done(r.e.filters) ELSE Error)

\* A metric whose name is a template is replaced by it, and keeps its other
\* filters if the template is a metric, or a rollup of one.
substituteMetric(was, me, at) ==
    LET w == IF hasNonEmptyMetricGroup(me) THEN getWithArgExpr(was, me.filters[1].value) ELSE 0
        Join(wme) == Expanded(removeDuplicates(wme.filters \o Tail(me.filters)), at)
    IN  IF w = 0 THEN Done(me)
        ELSE Then(expandWithExprExt(was, w, <<>>, at), LAMBDA r :
                  CASE r.e.k = "metric" -> Done(Join(r.e))
                    [] r.e.k = "rollup" /\ r.e.e.k = "metric" ->
                           Done([r.e EXCEPT !.e = Join(r.e.e)])
                    [] OTHER -> IF isOnlyMetricGroup(me) THEN r ELSE Error)

expandMetric(was, e, at) ==
    IF e.filters # <<>> THEN Done(e)
    ELSE Then(AllOf([k \in 1..Len(e.parsed) |-> expandFilter(was, e.parsed[k])]), LAMBDA r :
              substituteMetric(was, Expanded(removeDuplicates(FlattenSeq(r.e)), at), at))

expandBinaryOp(was, e, at) ==
    Then(AllOf(<<expandWithExpr(was, e.l, Append(at, 1)), expandWithExpr(was, e.r, Append(at, 2)),
                 expandModifier(was, e.group), expandModifier(was, e.join)>>), LAMBDA r :
         IF e.op = "+" /\ r.e[1].k = "str" /\ r.e[2].k = "str"
         THEN Done(StringExpr(r.e[1].s \o r.e[2].s, <<>>))
         ELSE Done(parensExpr(<<BinaryOpExpr(e.op, e.bool, r.e[3], r.e[4], r.e[1], r.e[2])>>)))

\* Mutant: arguments are expanded in the scope of the callee only.
expandFunc_LateArgs(was, e, at) ==
    LET w == getWithArgExpr(was, e.name)
    IN  IF w # 0 THEN expandWithExprExt(was, w, <<e.args>>, at)
        ELSE Then(expandWithArgs(was, e.args, at), LAMBDA args : Done(FuncExpr(e.name, args.e)))

expandFunc(was, e, at) ==
    LET w == getWithArgExpr(was, e.name)
    IN  Then(expandWithArgs(was, e.args, at), LAMBDA args :
             IF w = 0 THEN Done(FuncExpr(e.name, args.e))
             ELSE expandWithExprExt(was, w, <<args.e>>, at))

expandAggr(was, e, at) ==
    Then(AllOf(<<expandWithArgs(was, e.args, at), expandModifier(was, e.mod)>>), LAMBDA r :
         Done(AggrFuncExpr(e.name, r.e[1], r.e[2], e.limit)))

expandWithExpr(was, e, at) ==
    LET down == Append(at, 1)
    IN  CASE e.k = "bin"    -> expandBinaryOp(was, e, at)
          [] e.k = "func"   -> expandFunc(was, e, at)
          [] e.k = "aggr"   -> expandAggr(was, e, at)
          [] e.k = "parens" -> Then(expandWithArgs(was, e.args, at), LAMBDA r : Done(parensExpr(r.e)))
          [] e.k = "str"    -> expandString(was, e)
          [] e.k = "rollup" -> Then(expandWithExpr(was, e.e, down), LAMBDA r : Done([e EXCEPT !.e = r.e]))
          [] e.k = "with"   -> expandWithExpr(was \o e.was, e.e, down)
          [] e.k = "metric" -> expandMetric(was, e, at)
          [] e.k = "num"    -> Done(e)

-----------------------------------------------------------------------------
(* Parentheses.                                                            *)

\* Parentheses around several expressions, or none, are a call of union().
removeParensExpr(e) ==
    LET Args(x) == [k \in 1..Len(x.args) |-> removeParensExpr(x.args[k])]
    IN  CASE e.k = "rollup"           -> [e EXCEPT !.e = removeParensExpr(e.e)]
          [] e.k = "bin"              -> [e EXCEPT !.l = removeParensExpr(e.l),
                                                   !.r = removeParensExpr(e.r)]
          [] e.k \in {"aggr", "func"} -> [e EXCEPT !.args = Args(e)]
          [] e.k = "parens"           -> IF Len(e.args) = 1 THEN Args(e)[1]
                                                            ELSE FuncExpr("", Args(e))
          [] OTHER                    -> e

-----------------------------------------------------------------------------
(* Constants.  Division and modulo are left out: numbers are integers.     *)

Compare(op, l, r) ==
    CASE op = "==" -> l = r
      [] op = "!=" -> l # r
      [] OTHER     -> /\ l # NaN /\ r # NaN
                      /\ CASE op = ">"  -> l[1] > r[1]
                           [] op = "<"  -> l[1] < r[1]
                           [] op = ">=" -> l[1] >= r[1]
                           [] op = "<=" -> l[1] <= r[1]

\* The power of non-negative numbers; x ^ 0 is 1 even for NaN, and so is 1 ^ y.
Pow(l, r) ==
    IF r = <<0>> \/ l = <<1>> THEN <<1>>
    ELSE IF NaN \in {l, r} THEN NaN
    ELSE <<l[1] ^ r[1]>>

binaryOpEval(op, l, r, bool) ==
    CASE op \in CmpOps -> IF bool THEN IF Compare(op, l, r) THEN <<1>> ELSE <<0>>
                          ELSE IF Compare(op, l, r) THEN l ELSE NaN
      [] op \in {"+", "-", "*"} ->
             IF NaN \in {l, r} THEN NaN
             ELSE CASE op = "+" -> <<l[1] + r[1]>>
                    [] op = "-" -> <<l[1] - r[1]>>
                    [] op = "*" -> <<l[1] * r[1]>>
      [] op = "^"               -> Pow(l, r)
      [] op \in {"and", "or"}   -> l
      [] op = "unless"          -> NaN
      [] op = "default"         -> IF l = NaN THEN r ELSE l
      [] op = "if"              -> IF r = NaN THEN NaN ELSE l
      [] op = "ifnot"           -> IF r = NaN THEN l ELSE NaN

\* Mutant: an operation is folded before its operands are.
simplifyConstants_TopDown(e) ==
    LET Args(x) == [k \in 1..Len(x.args) |-> simplifyConstants(x.args[k])]
    IN  CASE e.k = "rollup"           -> [e EXCEPT !.e = simplifyConstants(e.e)]
          [] e.k \in {"aggr", "func"} -> [e EXCEPT !.args = Args(e)]
          [] e.k = "bin"              ->
                 IF e.l.k = "num" /\ e.r.k = "num"
                 THEN NumberExpr(binaryOpEval(e.op, e.l.n, e.r.n, e.bool))
                 ELSE [e EXCEPT !.l = simplifyConstants(e.l), !.r = simplifyConstants(e.r)]
          [] OTHER                    -> e

simplifyConstants(e) ==
    LET Args(x) == [k \in 1..Len(x.args) |-> simplifyConstants(x.args[k])]
    IN  CASE e.k = "rollup"           -> [e EXCEPT !.e = simplifyConstants(e.e)]
          [] e.k \in {"aggr", "func"} -> [e EXCEPT !.args = Args(e)]
          [] e.k = "bin"              ->
                 LET l == simplifyConstants(e.l)
                     r == simplifyConstants(e.r)
                 IN  IF l.k = "num" /\ r.k = "num"
                     THEN NumberExpr(binaryOpEval(e.op, l.n, r.n, e.bool))
                     ELSE [e EXCEPT !.l = l, !.r = r]
          [] e.k = "parens"           -> IF Len(e.args) = 1 THEN Args(e)[1]
                                                            ELSE [e EXCEPT !.args = Args(e)]
          [] OTHER                    -> e

=============================================================================
