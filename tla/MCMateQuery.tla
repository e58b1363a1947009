---------------------------- MODULE MCMateQuery ----------------------------
(* Slices of the query language with graphite targets, for TLC.            *)
EXTENDS MateQuery

Named(op, str) == <<"{", "__name__", op, str, "}">>
SumBy(arg, labels) == <<"sum", "(">> \o arg \o <<")", "by", "(">> \o labels \o <<")">>
g1 == <<"g1">>

NoTemplates == [names |-> {}, params |-> {}, max |-> 0]

MCSlices == {
    \* aggregates side by side and in each other, targets and plain names
    [phrases |-> {<<"a.x">>, <<"b.y">>, <<"*", "c">>, <<"*", "sum", "(">>, <<"sum", "(">>,
                  <<")", "by", "(", "g1", ")">>}, max |-> 17, templates |-> NoTemplates],
    \* every kind of node
    [phrases |-> {<<"a.x">>, <<"-">>, <<"f", "(">>, <<",">>, <<")">>, <<"'p'">>, <<"[", "5m", "]">>,
                  <<"offset", "5m">>, Named("=", "'a.x'")}, max |-> 9, templates |-> NoTemplates],
    \* globs, and what is not one
    [phrases |-> {<<"*">>}
                     \cup {SumBy(target, <<"g1", ",", "g02", ",", "g", ",", "x">>) :
                           target \in {<<"c">>, <<"a.*">>, <<"a.x*.y">>, Named("=", "'a.{x'"),
                                       Named("=", "'.x'"), Named("!~", "'a-.{x,y}'")}},
     max |-> 48, templates |-> NoTemplates],
    \* targets of every form, and what may follow one
    [phrases |-> {<<"a.[xy]">>, <<"a.[x-y].y">>, <<"a.{x,y}">>, <<"a.?">>, <<"a-b.x">>, <<"[", "5m", "]">>,
                  <<"[", "5m", ":", "]">>, <<"[", ":5m", "]">>, <<"{", "x", "}">>,
                  <<"{", "x", "=", "'p'", "}">>, <<"offset", "-", "5m">>, <<"-">>, <<")">>},
     max |-> 7, templates |-> NoTemplates],
    \* a template around an aggregate, or of one
    [phrases |-> {<<"*">>, SumBy(<<"q">>, g1), <<"q", "*">> \o SumBy(<<"q">>, g1), SumBy(<<"b.y">>, g1),
                  <<"t", "(", "a.x", ")">>, <<"t", "(">> \o SumBy(<<"a.x">>, g1) \o <<")">>},
     max |-> 30, templates |-> [names |-> {"t"}, params |-> {<<"q">>}, max |-> 10]]
}

\* Calls of a template that uses its second argument twice.
SharedSlices == {
    [phrases |-> {<<"ru", "(">>, SumBy(<<"a.x">>, g1), SumBy(<<"b.y">>, g1), <<",">>, <<")">>},
     max |-> 20, templates |-> NoTemplates]
}
=============================================================================
