----------------------------- MODULE MateQuery -----------------------------
(***************************************************************************)
(* cmd/matequery/main.go and prometheus/mateql.go: a proxy that rewrites   *)
(* the graphite targets in a query.  The client types a query as in        *)
(* MateQL; what is sent on is a sequence of tokens again.  For TLC only.   *)
(***************************************************************************)
EXTENDS MateQL, Converter, Scan

VARIABLE forwarded   \* the parameters of the request to the backend, <<>> before it

queryVars == <<vars, forwarded>>

-----------------------------------------------------------------------------
(* Texts as sequences of characters.                                       *)

\* strings.Split(s, ".")
Split(chars) ==
    FoldLeft(LAMBDA parts, ch :
                 IF ch = "." THEN Append(parts, <<>>)
                 ELSE Append(Front(parts), Append(Last(parts), ch)),
             <<<<>>>>, chars)

LabelText(name, i) == "__" \o name \o "_g" \o ToString(i) \o "__"

Digits == [d \in {ToString(n) : n \in 0..9} |-> CHOOSE n \in 0..9 : ToString(n) = d]

\* The number of a label like g12, <<>> if it is not like that.
GroupIndex(arg) ==
    LET digits == Tail(Chars(arg))
    IN  IF /\ Len(arg) > 1 /\ Head(Chars(arg)) = "g"
           /\ \A i \in 1..Len(digits) : digits[i] \in DOMAIN Digits
        THEN <<FoldLeft(LAMBDA n, d : 10 * n + Digits[d], 0, digits)>>
        ELSE <<>>

-----------------------------------------------------------------------------
(* covertExpr.  c is the state of the walk through the tree: the name of   *)
(* the last target, and the filters of the metrics that have been changed, *)
(* by address.  The result is that state and the tree.                     *)

RECURSIVE covertExpr(_, _, _)

Walked(c, e) == [name |-> c.name, changed |-> c.changed, e |-> e]

isTarget(lf) == lf.label = "__name__" /\ "." \in ToSet(Chars(lf.value))

\* One round of the loop over the filters of a metric: kept are the filters so far,
\* more the ones that are appended.
covertFilter(m, lf, terminal) ==
    LET target == ConvertGraphiteTarget(Split(Chars(lf.value)), terminal)
        name   == Text(target.name)
        Filter(f) == [label |-> LabelText(name, f.Label[2]), value |-> Text(f.Value),
                      neg |-> FALSE, re |-> f.IsRegexp]
    IN  IF ~isTarget(lf)
        THEN [m EXCEPT !.kept = Append(@, lf)]
        ELSE IF name = ""
        THEN [m EXCEPT !.name = "", !.kept = Append(@, lf)]
        ELSE [name |-> name, kept |-> Append(m.kept, [lf EXCEPT !.value = name]),
              more |-> m.more \o [k \in DOMAIN target.filters |-> Filter(target.filters[k])]]

covertMetric(c, e, terminal) ==
    LET filters == IF e.at \in DOMAIN c.changed THEN c.changed[e.at] ELSE e.filters
        m == FoldLeft(LAMBDA x, lf : covertFilter(x, lf, terminal),
                      [name |-> c.name, kept |-> <<>>, more |-> <<>>], filters)
        changed == (e.at :> m.kept \o m.more) @@ c.changed
    IN  Walked([name |-> m.name, changed |-> changed], [e EXCEPT !.filters = changed[e.at]])

\* Mutant: the name of a target stays inside the list of arguments it is in.
covertArgs_NoName(c, args, terminal) ==
    Walked(c, [k \in 1..Len(args) |-> covertExpr(c, args[k], terminal).e])

\* The list of the changed arguments.
covertArgs(c, args, terminal) ==
    FoldLeft(LAMBDA x, arg : LET r == covertExpr(x, arg, terminal) IN Walked(r, Append(x.e, r.e)),
             Walked(c, <<>>), args)

\* g1 is the first node of the last target.
covertModifier(name, mod) ==
    [mod EXCEPT !.args = [k \in 1..Len(mod.args) |->
        IF name # "" /\ GroupIndex(mod.args[k]) # <<>> THEN LabelText(name, GroupIndex(mod.args[k])[1])
                                                       ELSE mod.args[k]]]

\* Mutant: what has a window or an offset is left as it is.
covertRollup_Skipped(c, e, terminal) == Walked(c, e)

covertRollup(c, e, terminal) ==
    LET r == covertExpr(c, e.e, terminal) IN Walked(r, [e EXCEPT !.e = r.e])

covertBinaryOp(c, e, terminal) ==
    LET l == covertExpr(c, e.l, terminal)
        r == covertExpr(l, e.r, terminal)
    IN  Walked(r, [e EXCEPT !.l = l.e, !.r = r.e])

covertExpr(c, e, terminal) ==
    LET args == covertArgs(c, e.args, terminal)
    IN  CASE e.k = "metric" -> covertMetric(c, e, terminal)
          [] e.k = "rollup" -> covertRollup(c, e, terminal)
          [] e.k = "func"   -> Walked(args, [e EXCEPT !.args = args.e])
          [] e.k = "aggr"   -> Walked(args, [e EXCEPT !.args = args.e,
                                                      !.mod = covertModifier(args.name, @)])
          [] e.k = "bin"    -> covertBinaryOp(c, e, terminal)
          [] OTHER          -> Walked(c, e)

covert(e, terminal) == covertExpr([name |-> "", changed |-> <<>>], e, terminal).e

\* CovertMateQuery, given what Parse has returned; a query that cannot be parsed is
\* passed on as it is.
CovertMateQuery(query, parsed, terminal) ==
    IF parsed.ok THEN AppendString(covert(parsed.e, terminal)) ELSE query

-----------------------------------------------------------------------------
(* The proxy.                                                              *)

\* The parameters of a request that has the query in each of them.
Director(query, parsed) ==
    [key \in {"query", "match[]", "other"} |->
        IF key = "other" THEN query ELSE CovertMateQuery(query, parsed, key = "query")]

Idle == forwarded = <<>>

QueryInit == Init /\ Idle

TypeQuery == Idle /\ Type /\ UNCHANGED forwarded
TypeTemplate == Idle /\ EndTemplate /\ UNCHANGED forwarded

Send ==
    /\ Idle /\ text # <<>>
    /\ forwarded' = Director(Query(defs, text), result)
    /\ UNCHANGED vars

\* The client has its answer and begins a new query.
Reply == ~Idle /\ forwarded' = <<>> /\ Clear

QueryNext == TypeQuery \/ TypeTemplate \/ Send \/ Reply

QuerySpec == QueryInit /\ [][QueryNext]_queryVars

-----------------------------------------------------------------------------
(* The query in characters: spaces around operators and the words between  *)
(* operands, and after commas.                                             *)

SpacedWords == BinaryOps \cup AggrModifiers \cup GroupModifiers \cup JoinModifiers
                   \cup {"offset", "limit", "bool"}

\* Spell(t) is how a token is written.
Written(tokens, Spell(_)) ==
    FoldLeft(LAMBDA chars, t :
                 chars \o CASE t \in SpacedWords -> <<" ">> \o Chars(t) \o <<" ">>
                            [] t = ","           -> <<",", " ">>
                            [] OTHER             -> Chars(Spell(t)),
             <<>>, tokens)

-----------------------------------------------------------------------------
(* Properties.                                                             *)

\* The metrics and the aggregates of a tree, from left to right.
RECURSIVE Leaves(_)
Leaves(e) ==
    CASE e.k = "metric"           -> <<e>>
      [] e.k = "rollup"           -> Leaves(e.e)
      [] e.k = "bin"              -> Leaves(e.l) \o Leaves(e.r)
      [] e.k \in {"func", "aggr"} -> FoldLeft(LAMBDA x, arg : x \o Leaves(arg), <<>>, e.args)
      [] OTHER                    -> <<>>

RECURSIVE Aggregates(_)
Aggregates(e) ==
    CASE e.k = "rollup"           -> Aggregates(e.e)
      [] e.k = "bin"              -> Aggregates(e.l) \o Aggregates(e.r)
      [] e.k \in {"func", "aggr"} -> FoldLeft(LAMBDA x, arg : x \o Aggregates(arg),
                                              IF e.k = "aggr" THEN <<e>> ELSE <<>>, e.args)
      [] OTHER                    -> <<>>

\* The client's query as a tree, and what the backend reads of it.
Understood == ~Idle /\ result.ok /\ ~Ambiguous(result.e)
Read(key) == Parse(forwarded[key])

\* The filters that a filter on the name stands for.
Selector(lf, terminal) ==
    LET target == ConvertGraphiteTarget(Split(Chars(lf.value)), terminal)
        name   == Text(target.name)
    IN  IF ~isTarget(lf) \/ name = "" THEN {lf}
        ELSE {[lf EXCEPT !.value = name]}
             \cup {[label |-> LabelText(name, f.Label[2]), value |-> Text(f.Value), neg |-> FALSE,
                    re |-> f.IsRegexp] : f \in ToSet(target.filters)}

\* A tree with Filters(x) as the filters of metric x, and without the labels of aggregates.
Outline(e, Filters(_)) ==
    Replaced(e, LAMBDA x :
        CASE x.k = "metric" -> [x EXCEPT !.filters = Filters(x), !.at = <<>>]
          [] x.k = "aggr"   -> [x EXCEPT !.mod.args = <<>>]
          [] OTHER          -> x)

\* Wherever a target stands, it is rewritten as if it were the whole query, and
\* nothing else changes but labels of aggregates: the backend reads the client's
\* expression with a selector in the place of each target (covertExpr, and
\* AppendString of what it has changed).
TargetsRewritten ==
    Understood =>
        \A key \in {"query", "match[]"} :
            LET read == Read(key)
            IN  /\ read.ok
                /\ Outline(read.e, LAMBDA x : ToSet(x.filters))
                     = Outline(result.e, LAMBDA x :
                           UNION {Selector(lf, key = "query") : lf \in ToSet(x.filters)})

\* The targets of an expression from left to right, and the labels of an aggregate if
\* they are those of its last target.
TargetsOf(e) ==
    SelectSeq(FoldLeft(LAMBDA x, leaf : x \o leaf.filters, <<>>, Leaves(e)), isTarget)

OwnLabels(e, targets) ==
    LET target == ConvertGraphiteTarget(Split(Chars(Last(targets).value)), TRUE)
    IN  covertModifier(Text(target.name), e.mod).args

\* The labels of the aggregate at k of all the aggregates asked for are those of its
\* own last target, if it has one.
OwnTarget(asked, read, k) ==
    LET targets == TargetsOf(asked[k])
    IN  targets # <<>> => read[k].mod.args = OwnLabels(asked[k], targets)

\* The metrics of an aggregate that are in another place of the query, too.
Shared(e) ==
    LET Times(at, x) == Len(SelectSeq(Leaves(x), LAMBDA leaf : leaf.at = at))
    IN  \E leaf \in ToSet(Leaves(e)) : Times(leaf.at, result.e) > Times(leaf.at, e)

\* A label g1 of an aggregate is the first node of the aggregate's own last target,
\* whatever targets stand before the aggregate (covertExpr threads one name through
\* the whole tree).  Aggregates of an argument that a template uses more than once
\* are left out, see GroupsByOwnTargetAlways.
GroupsByOwnTarget ==
    Understood =>
        \A backend \in {Read("query"), Read("match[]")} :
            LET asked == Aggregates(result.e)
                read  == Aggregates(backend.e)
            IN  \A k \in 1..Len(asked) : Shared(asked[k]) \/ OwnTarget(asked, read, k)

\* The same for all aggregates.  The second time the walk comes to a metric, its name
\* is rewritten already and not taken for a target, so that the last target is one
\* that the walk has met since: ru(sum(a.x) by (g1), sum(b.y) by (g1)).
GroupsByOwnTargetAlways ==
    Understood =>
        \A backend \in {Read("query"), Read("match[]")} :
            LET asked == Aggregates(result.e)
                read  == Aggregates(backend.e)
            IN  \A k \in 1..Len(asked) : OwnTarget(asked, read, k)

\* A graphite target takes what follows it for a range of characters if that is a
\* window of nothing but a step, a.x[:5m], and for a list of values if it is the name
\* of a template of filters, a.x{f}.
Swallows(tokens) ==
    \E k \in 1..Len(tokens) - 1 :
        /\ isTarget([label |-> "__name__", value |-> tokens[k]])
        /\ \/ tokens[k + 1] = "[" /\ HasColon(Token(tokens, k + 2))
           \/ tokens[k + 1] = "{" /\ Token(tokens, k + 3) \in {",", "}"}

\* The lexer finds the tokens that the client has written, each target as one token
\* with its globs and without the window, the filters or the operator after it, and
\* those that AppendString has written, with escapes (scanIdent, scanCharRange,
\* scanValueList, appendEscapedIdent and unescapeIdent).
ScansBack ==
    LET Raw(t) == t
        Escaped(t) == IF t \in Names THEN appendEscapedIdent(t) ELSE t
        Unescaped(t) == IF isStringPrefix(t) THEN t ELSE unescapeIdent(t)
    IN  /\ Idle /\ ~Swallows(text) =>
               \A chars \in {Written(text, Raw)} : tokensFrom(chars, 1) = text
        /\ Understood =>
               \A chars \in {Written(forwarded["query"], Escaped)} :
                   LET read == tokensFrom(chars, 1)
                   IN  [k \in DOMAIN read |-> Unescaped(read[k])] = forwarded["query"]

=============================================================================
