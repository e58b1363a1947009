-------------------------------- MODULE Scan --------------------------------
(***************************************************************************)
(* mateql/lexer.go: a query as the sequence s of its characters, and the   *)
(* tokens that the lexer finds in it.  Positions are indices into s; a     *)
(* scan function returns the position after what it has scanned, 0 if      *)
(* there is nothing for it.  For TLC only.                                 *)
(***************************************************************************)
EXTENDS Grammar

Chars(str) == [i \in 1..Len(str) |-> SubSeq(str, i, i)]
Text(pieces) == FoldLeft(LAMBDA x, y : x \o y, "", pieces)
At(s, i) == IF i <= Len(s) THEN s[i] ELSE ""

isDecimalChar == ToSet(Chars("0123456789"))
isFirstIdentChar == ToSet(Chars("abcdefghijklmnopqrstuvwxyz_:"))
isIdentChar == isFirstIdentChar \cup isDecimalChar \cup {"."}
isExtendGraphiteIdentChar == {"-", "|", "?"}
isSpaceChar == {" ", "\t", "\n", "\f", "\r"}

\* The first position from i on whose character is not in chars.
Past(s, i, chars) ==
    CHOOSE j \in i..Len(s) + 1 : At(s, j) \notin chars /\ \A k \in i..j - 1 : s[k] \in chars

-----------------------------------------------------------------------------
(* Graphite targets.                                                       *)

RECURSIVE rangeLoop(_, _, _, _, _)
RECURSIVE listLoop(_, _, _)
RECURSIVE identLoop(_, _, _, _)

scanDuration(s, i, canBeNegative) ==
    LET sign  == IF canBeNegative /\ At(s, i) = "-" THEN i + 1 ELSE i
        whole == Past(s, sign, isDecimalChar)
        end   == IF At(s, whole) = "." THEN Past(s, whole + 1, isDecimalChar) ELSE whole
    IN  IF whole > i /\ At(s, end) \in {"s", "m", "h", "d", "w", "y", "i"} THEN end + 1 ELSE 0

\* The loop of scanCharRange for the "[" at i: the characters counted so far, and
\* whether there was a "-".
rangeLoop(s, i, j, charCount, isRange) ==
    LET ch == At(s, j)
    IN  CASE ch \in isIdentChar              -> rangeLoop(s, i, j + 1, charCount + 1, isRange)
          [] ch = "\\" /\ j < Len(s)         -> rangeLoop(s, i, j + 2, charCount + 1, isRange)
          [] ch = "^" /\ j = i + 1           -> rangeLoop(s, i, j + 1, charCount, isRange)
          [] ch = "-" /\ ~isRange /\ j \notin {i + 1, Len(s) - 1} /\ At(s, j + 1) # "-"
                                             -> rangeLoop(s, i, j + 1, charCount, TRUE)
          [] ch = "]" /\ j > i + 1 /\ (isRange => charCount = 2) -> j + 1
          [] OTHER                           -> 0

\* Mutant: a window after a target is taken for a range of characters.
scanCharRange_Window(s, i) == rangeLoop(s, i, i + 1, 0, FALSE)

\* A window such as [5m] is not a range of characters.
scanCharRange(s, i) ==
    IF scanDuration(s, i + 1, TRUE) > 0 THEN 0 ELSE rangeLoop(s, i, i + 1, 0, FALSE)

\* The loop of scanValueList for the "{" at i.
listLoop(s, i, j) ==
    LET ch == At(s, j)
    IN  CASE ch \in isIdentChar \cup isSpaceChar \cup {"-"} -> listLoop(s, i, j + 1)
          [] ch = "\\" /\ j < Len(s)                        -> listLoop(s, i, j + 2)
          [] ch = "," /\ j \notin {i + 1, Len(s) - 1} /\ At(s, j + 1) # "," -> listLoop(s, i, j + 1)
          [] ch = "[" /\ scanCharRange(s, j) > 0            -> listLoop(s, i, scanCharRange(s, j))
          [] ch = "}" /\ j > i + 1                          -> j + 1
          [] OTHER                                          -> 0

scanValueList(s, i) == listLoop(s, i, i + 1)

\* The loop of scanIdent: whether there was a dot, and the first character that
\* belongs to the token only if a dot comes after it (0 if there was none).
identLoop(s, j, isGraphite, guess) ==
    LET ch == At(s, j)
        End(at) == IF ~isGraphite /\ guess > 0 THEN guess ELSE at
    IN  CASE ch = "." /\ At(s, j + 1) = "."    -> End(j)
          [] ch \in isIdentChar /\ ~(ch = "." /\ At(s, j + 1) = ".")
                                               -> identLoop(s, j + 1, isGraphite \/ ch = ".", guess)
          [] ch \in isExtendGraphiteIdentChar  ->
                 identLoop(s, j + 1, isGraphite, IF ~isGraphite /\ guess = 0 THEN j ELSE guess)
          [] ch = "\\" /\ j < Len(s)           -> identLoop(s, j + 2, isGraphite, guess)
          [] ch = "\\" /\ j = Len(s)           -> End(j + 1)
          [] ch = "*" /\ isGraphite            -> identLoop(s, j + 1, isGraphite, guess)
          [] ch = "{" /\ isGraphite /\ scanValueList(s, j) > 0
                                               -> identLoop(s, scanValueList(s, j), isGraphite, guess)
          [] ch = "[" /\ isGraphite /\ scanCharRange(s, j) > 0
                                               -> identLoop(s, scanCharRange(s, j), isGraphite, guess)
          [] OTHER                             -> End(j)

scanIdent(s, i) == identLoop(s, i, FALSE, 0)

-----------------------------------------------------------------------------
(* Other tokens.                                                           *)

\* The closing quote is the first one with an even number of backslashes before it.
scanString(s, i) ==
    LET Backslashes(j) == j - 1 - (CHOOSE k \in i..j - 1 : s[k] # "\\" /\ \A l \in k + 1..j - 1 : s[l] = "\\")
        ends == {j \in i + 1..Len(s) : s[j] = s[i] /\ Backslashes(j) % 2 = 0}
    IN  IF ends = {} THEN 0 ELSE 1 + CHOOSE j \in ends : \A k \in ends : j <= k

scanPositiveNumber(s, i) ==
    LET whole == Past(s, i, isDecimalChar)
        point == At(s, whole) = "."
        fract == IF point THEN Past(s, whole + 1, isDecimalChar) ELSE whole
        sign  == IF At(s, fract + 1) \in {"-", "+"} THEN fract + 2 ELSE fract + 1
        exp   == Past(s, sign, isDecimalChar)
    IN  IF point /\ fract = whole + 1 THEN 0
        ELSE IF At(s, fract) # "e" THEN fract
        ELSE IF exp > sign THEN exp
        ELSE 0

StartsWith(s, i, str) == \A k \in 1..Len(str) : At(s, i + k - 1) = SubSeq(str, k, k)

\* The longest of the operators.
scanOpPrefix(s, i, ops) ==
    LET found == {Len(op) : op \in {o \in ops : StartsWith(s, i, o)}}
    IN  IF found = {} THEN 0 ELSE i + CHOOSE n \in found : \A m \in found : m <= n

\* next, past spaces and comments.
tokenEnd(s, i) ==
    LET binaryOp == scanOpPrefix(s, i, BinaryOps)
        filterOp == scanOpPrefix(s, i, {"=~", "!~", "!=", "="})
        duration == scanDuration(s, i, FALSE)
    IN  CASE s[i] \in {"{", "}", "[", "]", "(", ")", ","} -> i + 1
          [] s[i] \in isFirstIdentChar \cup {"\\"}        -> scanIdent(s, i)
          [] s[i] = "'"                                   -> scanString(s, i)
          [] OTHER -> IF binaryOp > 0 THEN binaryOp
                      ELSE IF filterOp > 0 THEN filterOp
                      ELSE IF duration > 0 THEN duration
                      ELSE IF s[i] \in isDecimalChar \/ (s[i] = "." /\ At(s, i + 1) \in isDecimalChar)
                      THEN scanPositiveNumber(s, i)
                      ELSE 0

\* The tokens from i on, an error being one of its own.
RECURSIVE tokensFrom(_, _)
tokensFrom(s, i) ==
    IF i > Len(s) THEN <<>>
    ELSE IF s[i] \in isSpaceChar THEN tokensFrom(s, i + 1)
    ELSE IF s[i] = "#" THEN tokensFrom(s, 1 + CHOOSE j \in i..Len(s) + 1 :
                                (j > Len(s) \/ s[j] = "\n") /\ \A k \in i..j - 1 : s[k] # "\n")
    ELSE LET end == tokenEnd(s, i)
         IN  IF end = 0 THEN <<"error">>
             ELSE <<Text(SubSeq(s, i, end - 1))>> \o tokensFrom(s, end)

-----------------------------------------------------------------------------
(* Escapes.  Characters are printable.                                     *)

\* A first character that cannot begin an identifier is written in hexadecimal.
Hex == ("." :> "2e") @@ [d \in isDecimalChar |-> "3" \o d]

appendEscapedIdent(str) ==
    LET s == Chars(str)
    IN  Text([i \in 1..Len(s) |->
                CASE s[i] \in isIdentChar /\ (i > 1 \/ s[i] \in isFirstIdentChar) -> s[i]
                  [] s[i] \in isIdentChar /\ i = 1 /\ s[i] \notin isFirstIdentChar -> "\\x" \o Hex[s[i]]
                  [] s[i] \notin isIdentChar -> "\\" \o s[i]])

RECURSIVE unescapeFrom(_, _)
unescapeFrom(s, i) ==
    LET hex == {ch \in DOMAIN Hex : StartsWith(s, i + 1, "x" \o Hex[ch])}
    IN  CASE i > Len(s)                      -> ""
          [] i <= Len(s) /\ At(s, i) # "\\"  -> s[i] \o unescapeFrom(s, i + 1)
          [] At(s, i) = "\\" /\ hex # {}     -> (CHOOSE ch \in hex : TRUE) \o unescapeFrom(s, i + 4)
          [] At(s, i) = "\\" /\ hex = {}     -> At(s, i + 1) \o unescapeFrom(s, i + 2)

unescapeIdent(str) == unescapeFrom(Chars(str), 1)

=============================================================================
