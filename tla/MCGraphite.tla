---------------------------- MODULE MCGraphite ----------------------------
(* Small instances of Graphite for TLC.                                    *)
EXTENDS Graphite

x == <<"x">>
y == <<"y">>
xy == <<"x", "y">>
xd == <<"x", "$">>
Names == {<<"a">>, <<"a", "-">>, <<"a", "_">>}

\* Paths of one to four nodes, some with an empty one or a "$"; lines with a field missing
\* or too many of them are sent, too.
MCPaths ==
    {<<n, v>> : n \in Names, v \in {x, xy}}
        \cup {<<<<"a">>, v, w>> : v \in {x, y}, w \in {x, xy, <<>>}}
        \cup {<<<<"a">>, x, <<>>, y>>, <<<<"a">>, x, x, y>>, <<<<"a">>>>}
        \cup {<<<<"a">>, xd>>, <<<<"a">>, xd, y>>}
MCLines ==
    [path : MCPaths, rest : {<<TRUE, TRUE>>}]
        \cup [path : {<<<<"a">>, y, y>>}, rest : {<<TRUE>>, <<TRUE, TRUE, TRUE>>}]

\* Globs with one operator of each kind, two in a row and one in another.
Lit(ch) == Word(<<ch>>)
NoGlob(text) == [text |-> text, words |-> {}, braces |-> FALSE]
Either(g, h) == OrElse(Braces(g), h)

Small == <<Lit("x"), Lit("y"), One, Star, Class("x", "y"), FromTo("x", "y")>>
Braced == <<Either(Lit("x"), Lit("y")), Either(Lit("x"), Word(xy))>>
Parts == Small \o <<Braced[1]>>
ThenAll(g) == [k \in DOMAIN Parts |-> Then(g, Parts[k])]
XOneOrY == Either(Then(Lit("x"), One), Lit("y"))

MCGlobs ==
    Small \o <<Word(xy), Braces(Lit("x"))>> \o Braced
        \o ThenAll(Lit("x")) \o ThenAll(One) \o ThenAll(Star) \o ThenAll(Braced[2])
        \o <<Braces(Then(Lit("x"), One)), XOneOrY, OrElse(XOneOrY, Braced[1]), OrElse(XOneOrY, Star)>>

Asked == ToSet(MCGlobs)
    \cup {NoGlob(t) : t \in {<<"{", "x">>, <<"x", "}">>, <<"x", ",", "y">>, <<"{", "x", "]">>, <<"!">>}}

\* Globs with a character that is written after a backslash.
Dollars == {Word(xd), Then(Word(xd), Star), Either(Lit("y"), Word(xd))}

MCTargets ==
    {<<Word(n)>> : n \in {<<"a">>, <<"*">>}}
        \cup {<<Word(n), g>> : n \in Names, g \in ToSet(Parts)}
        \cup {<<Word(<<"a">>), g>> : g \in Asked}
        \cup {<<Word(<<"a">>), g, h>> : g \in {Lit("x"), Star}, h \in Asked}
        \cup {<<Word(<<"a">>), g>> : g \in Dollars} \cup {<<Word(<<"a">>), g, Star>> : g \in Dollars}
        \cup {<<Word(<<"a">>), Lit("x"), g, h>> : g \in {Lit("x"), Star, One}, h \in {Lit("y"), Star}}

=============================================================================
