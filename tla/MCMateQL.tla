------------------------------ MODULE MCMateQL ------------------------------
(* Slices of the query language for TLC.                                   *)
EXTENDS MateQL

\* Texts of up to max tokens, and templates without parameters of those names.
Slice(tokens, max, names) ==
    [phrases |-> {<<t>> : t \in tokens}, max |-> max,
     templates |-> [names |-> names, params |-> {<<>>}, max |-> max]]

MCSlices == {
    \* precedence: every level, both associativities
    Slice({"a", "-", "*", "^", "==", "if", "default"}, 7, {}),
    \* constants, signs and bool
    Slice({"1", "2", "nan", "-", "+", "==", ">", "bool", "(", ")"}, 5, {}),
    \* windows, steps and offsets
    Slice({"a", "-", "[", "]", "5m", ":", ":5m", "offset"}, 8, {}),
    Slice({"1", "-", "(", ")", "[", "]", "5m", "offset"}, 7, {}),
    \* functions, aggregates and lists
    Slice({"a", "sum", "by", "limit", "1", "(", ")"}, 9, {}),
    Slice({"a", "f", "(", ")", ",", "+"}, 7, {}),
    \* modifiers of an operator
    Slice({"a", "+", "and", "on", "group_left", "(", ")"}, 7, {}),
    \* filters and strings
    Slice({"a", "'p'", "{", "}", "=", "!~", ","}, 12, {}),
    Slice({"a", "f", "'p'", "''", "+", "(", ")", "{", "}"}, 6, {}),
    \* templates
    Slice({"x", "y", "2", "+", "*"}, 3, {"x", "y"}),
    Slice({"x", "(", ")", "[", "]", "5m", "offset"}, 4, {"x", "y"}),
    Slice({"x", "'p'", "{", "}", "="}, 6, {"x", "y"}),
    \* a default template with parameters
    Slice({"alias", "a", "'p'", "(", ")", ",", "+"}, 7, {}),
    \* templates with parameters, called with each other's names
    [phrases |-> {<<"t", "(">>, <<"x">>, <<"y">>, <<",">>, <<")">>}, max |-> 7,
     templates |-> [names |-> {"t", "x"}, params |-> {<<>>, <<"x">>, <<"x", "y">>}, max |-> 4]],
    \* arguments with functions that have the name of a parameter
    [phrases |-> {<<"t", "(">>, <<"f", "(">>, <<"f">>, <<"x">>, <<",">>, <<")">>}, max |-> 7,
     templates |-> [names |-> {"t"}, params |-> {<<"f", "x">>}, max |-> 6]]
}
=============================================================================
