------------------------------ MODULE Graphite ------------------------------
(***************************************************************************)
(* The way of a graphite path through promate: mateinsert stores it as a   *)
(* metric with labels (convertGraphite), matecarbon looks for targets      *)
(* (Find) and for the series of a target (Render), and names them again.   *)
(* The backend in between is external: a set of series, selectors with     *)
(* anchored regular expressions, and the rule that a label with an empty   *)
(* value is a label that is not there.                                     *)
(***************************************************************************)
EXTENDS Converter

CONSTANTS Lines,      \* what clients of mateinsert send
          Targets,    \* what clients of matecarbon ask for, sequences of globs
          Globs,      \* the globs in them, each after those it is made of
          Letters,    \* the characters of nodes after the first
          MaxNode,    \* bound on the length of such a node
          MaxLines    \* bound on the lines that are sent

VARIABLES db,       \* the series in the backend, as functions from labels to values
          sent,     \* the lines that clients have sent
          ask,      \* the last request
          answer    \* and the answer to it

vars == <<db, sent, ask, answer>>

Nodes == UNION {[1..n -> Letters] : n \in 0..MaxNode}

-----------------------------------------------------------------------------
(* mateinsert.                                                             *)

\* A line is a path and the fields that follow it, TRUE for one that is not empty.
Accepted(line) ==
    /\ Len(line.rest) >= 2
    /\ Len(line.rest) = 2 \/ ~line.rest[2]
    /\ Len(line.path) >= 2

\* Mutant: the labels have the name as it was sent.
convertGraphite_RawLabel(path) ==
    LET name == Dashless(path[1])
    IN  [l \in {NameLabel} \cup {labelName(path[1], i) : i \in 1..Len(path) - 1} |->
            IF l = NameLabel THEN name ELSE path[l[2] + 1]]

convertGraphite(path) ==
    LET name == Dashless(path[1])
    IN  [l \in {NameLabel} \cup {labelName(name, i) : i \in 1..Len(path) - 1} |->
            IF l = NameLabel THEN name ELSE path[l[2] + 1]]

-----------------------------------------------------------------------------
(* The backend.                                                            *)

\* A series as it is stored.
Stored(series) ==
    [l \in {k \in DOMAIN series : series[k] # <<>>} |-> series[l]]

LabelValue(series, label) == IF label \in DOMAIN series THEN series[label] ELSE <<>>

Concat(V, W) == {v \o w : v \in V, w \in W} \cap Nodes

\* The letters from a to b, in the order of their codes.
Code == <<"#", "$", "%", "'", "-", "/", "0", "1", ":", "<", ">", "_", "a", "b", "c", "g", "x", "y", "|">>
CodeOf(ch) == CHOOSE i \in DOMAIN Code : Code[i] = ch
Between(a, b) == {ch \in Letters : CodeOf(a) <= CodeOf(ch) /\ CodeOf(ch) <= CodeOf(b)}

\* The characters of a class.
Chars(class) == IF class[2] = "-" THEN Between(class[1], class[3]) ELSE ToSet(class)

\* The words that a regular expression matches, read from left to right.  Groups
\* that are open are on a stack: the words of their alternatives so far, and of
\* the one that is being read.  class is the set of characters after a "[".
regexStep(m, p) ==
    LET top       == Last(m.open)
        Put(t)    == [m EXCEPT !.open = Append(Front(@), t)]
        Follow(W) == Put([top EXCEPT !.cur = Concat(@, W)])
        outer     == Last(Front(m.open))
    IN  CASE m.inclass /\ p # "]" -> [m EXCEPT !.class = Append(@, p)]
          [] p = "["     -> [m EXCEPT !.inclass = TRUE]
          [] p = "]"     -> [Follow({<<ch>> : ch \in Chars(m.class)}) EXCEPT !.inclass = FALSE, !.class = <<>>]
          [] p = "("     -> [m EXCEPT !.open = Append(@, [alts |-> {}, cur |-> {<<>>}])]
          [] p = "|"     -> Put([alts |-> top.alts \cup top.cur, cur |-> {<<>>}])
          [] p = ")"     -> [m EXCEPT !.open = Append(Front(Front(@)),
                                [outer EXCEPT !.cur = Concat(@, top.alts \cup top.cur)])]
          [] p = "[^.]"  -> Follow({<<ch>> : ch \in Letters})
          [] p = "[^.]*" -> Follow(Nodes)
          [] OTHER       -> Follow({<<p>>})

regexLoop(m, pattern) ==
    LET after[i \in 0..Len(pattern)] == IF i = 0 THEN m ELSE regexStep(after[i - 1], pattern[i])
    IN  after[Len(pattern)]

Language(pattern) ==
    LET start == [open |-> <<[alts |-> {}, cur |-> {<<>>}]>>, inclass |-> FALSE, class |-> <<>>]
        end   == Head(regexLoop(start, pattern).open)
    IN  end.alts \cup end.cur

\* The text of a matcher's value is a string of MetricsQL, in which a backslash before
\* one of EscapedRunes is an error: the backend refuses the whole selector.
Readable(value) == "\\" \notin ToSet(value)

Selects(matchers, series) ==
    \A m \in matchers :
        /\ Readable(m.value)
        /\ IF m.op = "=" THEN LabelValue(series, m.label) = m.value
           ELSE LabelValue(series, m.label) \in Language(m.value)

-----------------------------------------------------------------------------
(* What targets mean.  A glob is a text together with the words it is      *)
(* meant to match, and whether it is a list of alternatives in braces.     *)

Word(w)      == [text |-> w, words |-> {w}, braces |-> FALSE]
One          == [text |-> <<"?">>, words |-> {<<ch>> : ch \in Letters}, braces |-> FALSE]
Star         == [text |-> <<"*">>, words |-> Nodes, braces |-> FALSE]
Class(a, b)  == [text |-> <<"[", a, b, "]">>, words |-> {<<a>>, <<b>>}, braces |-> FALSE]
FromTo(a, b) == [text |-> <<"[", a, "-", b, "]">>, words |-> {<<ch>> : ch \in Between(a, b)},
                 braces |-> FALSE]

\* One glob after another, a glob in braces, and one more alternative in them.
Then(g, h)   == [text |-> g.text \o h.text, words |-> Concat(g.words, h.words), braces |-> FALSE]
Braces(g)    == [text |-> <<"{">> \o g.text \o <<"}">>, words |-> g.words, braces |-> TRUE]
OrElse(g, h) == [text |-> Front(g.text) \o <<",">> \o h.text \o <<"}">>,
                 words |-> g.words \cup h.words, braces |-> TRUE]

\* Letters that are written as they are.
Verbatim == Letters \cap Plain

Simple ==
    {Word(w) : w \in {v \in Nodes : ToSet(v) \subseteq Plain}} \cup {One, Star}
        \cup {Class(a, b) : a \in Verbatim, b \in Verbatim \ {"-"}}
        \cup {FromTo(r[1], r[2]) : r \in {c \in Verbatim \X Verbatim : CodeOf(c[1]) <= CodeOf(c[2])}}

\* A glob with a character that is written after a backslash.
IsEscaped(g) == \E k \in DOMAIN g.text : g.text[k] \in EscapedRunes

\* The text of a node that globToRegexPattern refuses is meant to match nothing.
Refused(g) == g.words = {} /\ globToRegexPattern(g.text).err

\* Nodes are of characters that a glob may have, and may be one long.
LettersAssumption == Letters \subseteq ValidIdentifierRunes /\ MaxNode \in Nat \ {0}

ASSUME LettersAssumption

\* Fields are divided by one space, and the name is not empty: what the backend makes
\* of other lines is not known.
LinesAssumption ==
    \A line \in Lines :
        /\ line.rest \in Seq({TRUE})
        /\ line.path \in Seq(Seq(STRING)) /\ line.path # <<>> /\ line.path[1] # <<>>
        /\ \A i \in 2..Len(line.path) : line.path[i] \in Nodes

ASSUME LinesAssumption

AnyGlob == [text : Seq(STRING), words : SUBSET Seq(STRING), braces : BOOLEAN]

\* Every glob is simple or made of globs before it.
GlobsAssumption ==
    /\ Globs \in Seq(AnyGlob)
    /\ \A k \in 1..Len(Globs) :
        \/ Globs[k] \in Simple
        \/ \E i, j \in 1..k - 1 : Globs[k] = Then(Globs[i], Globs[j])
        \/ \E i \in 1..k - 1 : Globs[k] = Braces(Globs[i])
        \/ \E i, j \in 1..k - 1 : Globs[i].braces /\ Globs[k] = OrElse(Globs[i], Globs[j])

ASSUME GlobsAssumption

\* A target has a name, which ends no string of a selector, and then globs, texts that
\* are none, or any text with a character that is written after a backslash.
TargetsAssumption ==
    \A target \in Targets :
        /\ target \in Seq(AnyGlob)
        /\ target # <<>>
        /\ "\\" \notin ToSet(target[1].text) /\ "\"" \notin ToSet(target[1].text)
        /\ \A i \in 2..Len(target) :
            target[i] \in ToSet(Globs) \/ Refused(target[i]) \/ IsEscaped(target[i])

ASSUME TargetsAssumption

-----------------------------------------------------------------------------
(* Actions.                                                                *)

NoAsk == [kind |-> "none"]

Init == db = {} /\ sent = {} /\ ask = NoAsk /\ answer = {}

\* A line arrives at mateinsert, and what it makes of it at the backend.
Insert(line) ==
    /\ Cardinality(sent) < MaxLines
    /\ ask = NoAsk
    /\ sent' = sent \cup {line}
    /\ db' = IF Accepted(line) THEN db \cup {Stored(convertGraphite(line.path))} ELSE db
    /\ UNCHANGED <<ask, answer>>

\* The values of a label, for a target of matecarbon's Find.
Find(target) ==
    LET nodes    == [i \in DOMAIN target |-> target[i].text]
        conv     == ConvertGraphiteTarget(nodes, FALSE)
        query    == ConvertQueryLabel(nodes)
        found    == {s \in db : query.fast \/ Selects(Build(conv.name, conv.filters), s)}
        data     == {s[query.label] : s \in {f \in found : query.label \in DOMAIN f}}
    IN  /\ ask = NoAsk
        /\ ask' = [kind |-> "find", target |-> target]
        /\ answer' = IF nodes = << <<"*">> >> THEN {} ELSE {Append(query.prefix, v) : v \in data}
        /\ UNCHANGED <<db, sent>>

\* The series of a target of Render, and their names.  A rollup function keeps the
\* label __name__ or drops it.
Render(target, keeps) ==
    LET nodes    == [i \in DOMAIN target |-> target[i].text]
        conv     == ConvertGraphiteTarget(nodes, TRUE)
        result   == {s \in db : Selects(Build(conv.name, conv.filters), s)}
        Metric(s) == IF keeps THEN s ELSE [l \in DOMAIN s \ {NameLabel} |-> s[l]]
        Named(s) == ConvertPrometheusMetric(conv.name, Metric(s))
    IN  /\ ask = NoAsk
        /\ ask' = [kind |-> "render", target |-> target]
        /\ answer' = {[series |-> s, target |-> Named(s)] : s \in {x \in result : Named(x) # <<>>}}
        /\ UNCHANGED <<db, sent>>

\* The client has its answer.
Answered == ask # NoAsk /\ ask' = NoAsk /\ answer' = {} /\ UNCHANGED <<db, sent>>

Next ==
    \/ \E line \in Lines : Insert(line)
    \/ \E target \in Targets : Find(target)
    \/ \E target \in Targets, keeps \in BOOLEAN : Render(target, keeps)
    \/ Answered

Spec == Init /\ [][Next]_vars

-----------------------------------------------------------------------------
(* What is asked for.                                                      *)

\* A node of a path, or the empty node after its end.
NodeAt(path, i) == IF i <= Len(path) THEN path[i] ELSE <<>>

\* The first n nodes of the path are as the target says, "-" and "_" in the name
\* being the same.
MatchesTo(path, target, n) ==
    /\ Dashless(path[1]) = Dashless(target[1].text)
    /\ \A i \in 2..n : NodeAt(path, i) \in IF i <= Len(target) THEN target[i].words ELSE {<<>>}

\* The path has as many nodes as the target, and each is as the target says.
Matches(path, target) == Len(path) = Len(target) /\ MatchesTo(path, target, Len(target))

\* It has not, but a selector cannot tell a node that is missing from one that is empty:
\* with a "*" after its end, or with an empty node after the target's, the path passes
\* for one that matches.
PassesFor(path, target) == Len(path) # Len(target) /\ MatchesTo(path, target, Len(target) + 1)

\* A node of the target is written with a backslash.
HasEscapes(target) == \E i \in 2..Len(target) : IsEscaped(target[i])

\* The paths of at least two nodes that were sent with a value and a time.
Paths == {l.path : l \in {k \in sent : Len(k.path) >= 2 /\ k.rest = <<TRUE, TRUE>>}}
Name(p) == <<Dashless(p[1])>> \o Tail(p)

\* A path without its empty nodes.
Nonempty(path) ==
    LET kept == InOrder({i \in DOMAIN path : path[i] # <<>>}) IN [k \in DOMAIN kept |-> path[kept[k]]]

-----------------------------------------------------------------------------
(* Properties.                                                             *)

\* Render answers with the series of the paths that the target's globs match, node by
\* node, and no others, with two exceptions.  A path that only passes for one that
\* matches is selected, too: a.*.x.* selects a.y.x, which glob_test.go:106-107 says it
\* does not match (converter.go leaves a "*" out and asks for the label after the last
\* to be empty).  And a target with one of $ ' < > in a node selects nothing,
\* not even the path that is written like it (glob.go escapes them for a regular
\* expression, which the selector's string is not).
SelectsMatching ==
    ask.kind = "render" =>
        \A p \in Paths :
            (\E a \in answer : a.series = Stored(convertGraphite(p)))
                <=> /\ ~HasEscapes(ask.target)
                    /\ Matches(p, ask.target) \/ PassesFor(p, ask.target)

\* A series comes back under the path it was sent with, whether or not the backend
\* keeps the name; a path with an empty node loses that node and may lose the end
\* (converter.go ConvertPrometheusMetric).
NamesReturn ==
    ask.kind = "render" =>
        \A a \in answer : \E p \in Paths :
            /\ a.series = Stored(convertGraphite(p))
            /\ IsPrefix(a.target, Nonempty(Name(p)))
            /\ <<>> \notin ToSet(p) => a.target = Name(p)

\* Find answers with the next nodes below the prefix that the client has opened, and
\* with nothing else, if it asks for them with a "*", or from the third node on with
\* any glob; with nothing at all if one of $ ' < > is in the target's nodes, the prefix
\* that it has answered with before included (converter.go ConvertQueryLabel, glob.go,
\* matecarbon Find).
FindsChildren ==
    LET t == ask.target
        n == Len(t)
    IN  /\ ask.kind = "find"
        /\ n >= 3 \/ (n = 2 /\ t[2] = Star)
        /\ \A i \in 2..n - 1 : t[i].words = {t[i].text}
        => answer = {SubSeq(Name(p), 1, n) :
                        p \in {q \in Paths : /\ ~HasEscapes(t)
                                              /\ NodeAt(q, n) # <<>> /\ MatchesTo(q, t, n)}}

=============================================================================
