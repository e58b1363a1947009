------------------------------ MODULE Printer ------------------------------
(***************************************************************************)
(* mateql/parser.go: AppendString of the expanded trees, as the sequence   *)
(* of tokens a lexer reads from the text.  For TLC only.                   *)
(***************************************************************************)
EXTENDS Grammar

RECURSIVE AppendString(_)

\* The elements of a sequence of token sequences, with commas between them.
Commas(items) ==
    FlattenSeq([k \in 1..Len(items) |-> IF k = 1 THEN items[k] ELSE <<",">> \o items[k]])

appendModifier(mod) ==
    IF mod.op = "" THEN <<>>
    ELSE <<mod.op, "(">> \o Commas([k \in 1..Len(mod.args) |-> <<mod.args[k]>>]) \o <<")">>

appendNumber(n) ==
    IF n = NaN THEN <<"nan">>
    ELSE IF n[1] < 0 THEN <<"-", ToString(-n[1])>>
    ELSE <<ToString(n[1])>>

appendLabelFilter(lf) ==
    <<lf.label,
      CASE lf.neg /\ lf.re   -> "!~"
        [] lf.neg /\ ~lf.re  -> "!="
        [] ~lf.neg /\ lf.re  -> "=~"
        [] ~lf.neg /\ ~lf.re -> "=",
      Quote(lf.value)>>

isMetricGroup(lf) == lf.label = "__name__" /\ ~lf.neg /\ ~lf.re

appendMetric(filters) ==
    LET named == filters # <<>> /\ isMetricGroup(filters[1])
        rest  == IF named THEN Tail(filters) ELSE filters
    IN  (IF named THEN <<filters[1].value>> ELSE <<>>)
        \o (IF rest = <<>> /\ named THEN <<>>
            ELSE <<"{">> \o Commas([k \in 1..Len(rest) |-> appendLabelFilter(rest[k])]) \o <<"}">>)

appendStringArgListExpr(args) ==
    <<"(">> \o Commas([k \in 1..Len(args) |-> AppendString(args[k])]) \o <<")">>

\* Mutant: an operand of an operation is printed without parentheses.
Parenthesised_Never(e, needParens) == AppendString(e)

Parenthesised(e, needParens) ==
    IF needParens THEN <<"(">> \o AppendString(e) \o <<")">> ELSE AppendString(e)

appendWindow(re) ==
    IF re.window = <<>> /\ re.step = <<>> /\ ~re.inherit THEN <<>>
    ELSE <<"[">> \o re.window
         \o (IF re.step # <<>> THEN <<":" \o re.step[1]>>
             ELSE IF re.inherit THEN <<":">>
             ELSE <<>>)
         \o <<"]">>

appendFunc(e) == (IF e.name = "" THEN <<>> ELSE <<e.name>>) \o appendStringArgListExpr(e.args)

appendAggr(e) ==
    <<e.name>> \o appendStringArgListExpr(e.args) \o appendModifier(e.mod)
    \o (IF e.limit > 0 THEN <<"limit", ToString(e.limit)>> ELSE <<>>)

appendBinaryOp(e) ==
    Parenthesised(e.l, e.l.k = "bin")
    \o <<e.op>> \o (IF e.bool THEN <<"bool">> ELSE <<>>)
    \o appendModifier(e.group) \o appendModifier(e.join)
    \o Parenthesised(e.r, e.r.k = "bin")

appendRollup(e) ==
    Parenthesised(e.e, e.e.k \in {"rollup", "bin"} \/ (e.e.k = "aggr" /\ e.e.mod.op # ""))
    \o appendWindow(e)
    \o (IF e.offset = <<>> THEN <<>> ELSE <<"offset">> \o e.offset)

AppendString(e) ==
    CASE e.k = "num"    -> appendNumber(e.n)
      [] e.k = "str"    -> <<Quote(e.s)>>
      [] e.k = "metric" -> appendMetric(e.filters)
      [] e.k = "func"   -> appendFunc(e)
      [] e.k = "aggr"   -> appendAggr(e)
      [] e.k = "bin"    -> appendBinaryOp(e)
      [] e.k = "rollup" -> appendRollup(e)

=============================================================================
