----------------------------- MODULE Converter -----------------------------
(***************************************************************************)
(* prometheus/glob.go and prometheus/converter.go: graphite paths as       *)
(* labels.  The path a.x.y is the metric a with the labels __a_g1__="x"    *)
(* and __a_g2__="y"; a target is the same with globs for the nodes.        *)
(*                                                                         *)
(* A text is a sequence of characters.  A path is the sequence of its      *)
(* nodes, which is what strings.Split makes of it.                         *)
(***************************************************************************)
EXTENDS Naturals, Sequences, FiniteSets, SequencesExt

\* strings.ReplaceAll(s, "-", "_")
Dashless(s) == [i \in DOMAIN s |-> IF s[i] = "-" THEN "_" ELSE s[i]]

\* The label __name_gi__; no two names and numbers make the same one.
labelName(name, i) == <<name, i>>

\* The numbers of S in the order in which a loop that counts up comes to them.
InOrder(S) ==
    CHOOSE f \in [1..Cardinality(S) -> S] :
        \A a, b \in 1..Cardinality(S) : a < b => f[a] < f[b]

\* The label __name__.
NameLabel == <<<<>>, 0>>

-----------------------------------------------------------------------------
(* Globs.                                                                  *)

\* Characters of ValidIdentifierRunes: some that are written as they are, those that
\* are written after a backslash, and the bar, which makes a regular expression.
Plain == {"a", "b", "c", "g", "x", "y", "0", "1", "_", "-", "%", "#", "/", ":"}
EscapedRunes == {"<", ">", "'", "$"}
ValidIdentifierRunes == Plain \cup EscapedRunes \cup {"|"}

\* What is written for a character that has a meaning of its own: a sequence of
\* the pieces that each call of WriteRune or WriteString adds.
Pieces(ch) ==
    CASE ch = "."                   -> <<"\\.+">>
      [] ch = "?"                   -> <<"[^.]">>
      [] ch = "*"                   -> <<"[^.]*">>
      [] ch = "{"                   -> <<"(">>
      [] ch = "}"                   -> <<")">>
      [] ch = ","                   -> <<"|">>
      [] ch \in EscapedRunes        -> <<"\\", ch>>
      [] OTHER                      -> <<ch>>

\* One round of the loop of globToRegexPattern.
globStep(g, ch) ==
    LET write  == [g EXCEPT !.pattern = @ \o Pieces(ch)]
        regex  == [write EXCEPT !.regexed = TRUE]
        group  == Last(g.groupStartStack)
        opened == [regex EXCEPT !.groupStartStack = Append(@, ch)]
        closed == [write EXCEPT !.groupStartStack = Front(@)]
        failed == [g EXCEPT !.err = TRUE]
    IN  IF g.err THEN g
        ELSE IF g.escaping THEN [g EXCEPT !.pattern = Append(@, ch), !.escaping = FALSE]
        ELSE CASE ch = "\\"                   -> [write EXCEPT !.escaping = TRUE]
               [] ch \in {".", "?", "*", "|"} -> regex
               [] ch \in {"{", "["}           -> opened
               [] ch = "}"                    -> IF group = "{" THEN closed ELSE failed
               [] ch = "]"                    -> IF group = "[" THEN closed ELSE failed
               [] ch = ","                    -> IF group = "{" THEN write ELSE failed
               [] ch \in EscapedRunes         -> write
               [] OTHER                       -> IF ch \in Plain THEN write ELSE failed

\* The loop: what it has made of g when it has read the text.
globLoop(g, text) ==
    LET after[i \in 0..Len(text)] == IF i = 0 THEN g ELSE globStep(after[i - 1], text[i])
    IN  after[Len(text)]

\* The regular expression of a node, whether it is one, or an error.
globToRegexPattern(glob) ==
    LET start == [pattern |-> <<>>, escaping |-> FALSE, regexed |-> FALSE,
                  groupStartStack |-> <<"">>, err |-> FALSE]
        end   == globLoop(start, glob)
    IN  [pattern |-> end.pattern, regexed |-> end.regexed,
         err |-> end.err \/ Len(end.groupStartStack) > 1]

-----------------------------------------------------------------------------
(* Targets.                                                                *)

LabelFilter(label, value, isRegexp) ==
    [Label |-> label, Value |-> value, IsRegexp |-> isRegexp]

\* Mutant: the label after the one that must not be there.
EndFilter_OffByOne(name, n, terminal) ==
    IF terminal THEN <<LabelFilter(labelName(name, n + 1), <<>>, FALSE)>> ELSE <<>>

\* A terminal target of n nodes asks for paths that have no more.
EndFilter(name, n, terminal) ==
    IF terminal THEN <<LabelFilter(labelName(name, n), <<>>, FALSE)>> ELSE <<>>

\* The metric that a target asks for, and the filters on its labels; nothing of
\* the kind if a node is no glob.  A node "*" asks for nothing.
ConvertGraphiteTarget(nodes, terminal) ==
    LET name == Dashless(nodes[1])
        conv == [i \in 1..Len(nodes) - 1 |-> globToRegexPattern(nodes[i + 1])]
        kept == InOrder({i \in 1..Len(nodes) - 1 : nodes[i + 1] # <<"*">>})
    IN  IF \E k \in DOMAIN kept : conv[kept[k]].err
        THEN [name |-> <<>>, filters |-> <<>>]
        ELSE [name |-> name,
              filters |-> [k \in DOMAIN kept |-> LabelFilter(labelName(name, kept[k]),
                              conv[kept[k]].pattern, conv[kept[k]].regexed)]
                          \o EndFilter(name, Len(nodes), terminal)]

\* The selector, as the backend reads it: a set of matchers.
Build(name, filters) ==
    {[label |-> NameLabel, op |-> "=", value |-> name]}
        \cup {[label |-> filters[k].Label, value |-> filters[k].Value,
               op |-> IF filters[k].IsRegexp THEN "=~" ELSE "="] : k \in DOMAIN filters}

\* What Find puts before each value, the label whose values it asks for, and
\* whether it asks for them without a selector.
ConvertQueryLabel(nodes) ==
    LET name == Dashless(nodes[1])
        n    == Len(nodes)
    IN  [prefix |-> <<name>> \o SubSeq(nodes, 2, n - 1), label |-> labelName(name, n - 1),
         fast |-> n = 2]

-----------------------------------------------------------------------------
(* Answers.                                                                *)

\* Mutant: the loop ends a label early.
ConvertPrometheusMetric_Short(name, metric) ==
    LET n    == Cardinality(DOMAIN metric)
        kept == InOrder({i \in 1..n - 1 : labelName(name, i) \in DOMAIN metric})
    IN  <<name>> \o [k \in DOMAIN kept |-> metric[labelName(name, kept[k])]]

\* The path of a metric in an answer, <<>> if it is not one of the name asked for.
\* There are at most as many nodes as labels, and a label that is not there is
\* passed over.
ConvertPrometheusMetric(name, metric) ==
    LET n    == Cardinality(DOMAIN metric)
        kept == InOrder({i \in 1..n : labelName(name, i) \in DOMAIN metric})
    IN  IF NameLabel \in DOMAIN metric /\ metric[NameLabel] # name
        THEN <<>>
        ELSE <<name>> \o [k \in DOMAIN kept |-> metric[labelName(name, kept[k])]]

=============================================================================
