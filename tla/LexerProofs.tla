---------------------------- MODULE LexerProofs ----------------------------
(***************************************************************************)
(* For every query and every parser that looks ahead as mateql's does, the *)
(* lexer is a place in the sequence of the query's tokens.                 *)
(***************************************************************************)
EXTENDS Lexer, SequenceTheorems, TLAPS

Token0 == Tokens \cup {EOF}
LexType == [Token : Token0, prevTokens : Seq(Token0), nextTokens : Seq(Token0),
            scanned : Nat, err : BOOLEAN]

TextOK == text \in Seq(Tokens) /\ bad \in BOOLEAN

At(l) == Len(l.prevTokens)
Readable(n) == ~(bad /\ n > Len(text))

\* The tokens given back are the ones after the place, the nearest on top.
Placed(l) ==
    /\ ~l.err
    /\ l.scanned = At(l) + Len(l.nextTokens)
    /\ \A j \in 1..Len(l.nextTokens) : l.nextTokens[j] = TokenAt(l.scanned + 1 - j)
    /\ bad => l.scanned <= Len(text)

\* Only the token at the end is empty, and the parser never goes past the end.
Ends(l) ==
    /\ At(l) \in 1..Len(text) + 1
    /\ l.Token = EOF <=> At(l) = Len(text) + 1

\* A lexer in a place of the query.
Good(l) == l \in LexType /\ Placed(l)

Inv ==
    /\ TypeOK
    /\ outcome = "start" => lex = initLexer /\ seen = EOF
    /\ outcome \in {"parsing", "ok"} => Placed(lex) /\ Ends(lex)
    /\ outcome = "ok" => lex.Token = EOF

-----------------------------------------------------------------------------
(* Stacks.                                                                 *)

\* What Append pushes is on top, and Pop takes it off again.
LEMMA PushPop ==
    ASSUME NEW S, NEW s \in Seq(S), NEW e \in S
    PROVE  /\ Append(s, e) \in Seq(S)
           /\ Len(Append(s, e)) = Len(s) + 1
           /\ Top(Append(s, e)) = e
           /\ Pop(Append(s, e)) = s
<1>1. /\ Append(s, e) \in Seq(S)
      /\ Len(Append(s, e)) = Len(s) + 1
      /\ Append(s, e)[Len(s) + 1] = e
      /\ \A i \in 1..Len(s) : Append(s, e)[i] = s[i]
  OBVIOUS
<1>2. \A i \in 1..Len(s) : Append(s, e)[i] \in S
  BY <1>1, ElementOfSeq
<1>3. Len(s) \in Nat
  BY LenProperties
<1>4. /\ SubSeq(Append(s, e), 1, Len(s)) \in Seq(S)
      /\ Len(SubSeq(Append(s, e), 1, Len(s))) = Len(s)
      /\ \A i \in 1..Len(s) : SubSeq(Append(s, e), 1, Len(s))[i] = s[i]
  BY <1>1, <1>2, <1>3, SubSeqProperties
<1>5. SubSeq(Append(s, e), 1, Len(s)) = s
  BY <1>4, SeqEqual
<1>6. QED  BY <1>1, <1>3, <1>5 DEF Top, Pop

\* Pop leaves all but the top.
LEMMA PopLeaves ==
    ASSUME NEW S, NEW s \in Seq(S), s # <<>>
    PROVE  /\ Top(s) \in S
           /\ Len(s) \in Nat \ {0}
           /\ Pop(s) \in Seq(S)
           /\ Len(Pop(s)) = Len(s) - 1
           /\ \A i \in 1..Len(s) - 1 : Pop(s)[i] = s[i]
<1>1. Len(s) \in Nat \ {0}
  BY EmptySeq
<1>2. \A i \in 1..Len(s) : s[i] \in S
  BY ElementOfSeq
<1>3. \A i \in 1..Len(s) - 1 : s[i] \in S
  BY <1>1, <1>2
<1>4. /\ SubSeq(s, 1, Len(s) - 1) \in Seq(S)
      /\ Len(SubSeq(s, 1, Len(s) - 1)) = IF 1 <= Len(s) - 1 THEN Len(s) - 1 - 1 + 1 ELSE 0
      /\ \A i \in 1..Len(s) - 1 - 1 + 1 : SubSeq(s, 1, Len(s) - 1)[i] = s[1 + i - 1]
  BY <1>1, <1>3, SubSeqProperties
<1>5. Top(s) \in S
  BY <1>1, <1>2 DEF Top
<1>6. Len(Pop(s)) = Len(s) - 1
  <2> DEFINE m == Len(s) - 1
             q == SubSeq(s, 1, m)
  <2>1. m \in Nat
    BY <1>1
  <2>2. \A i \in 1..m : s[i] \in S
    BY <1>3
  <2> HIDE DEF m
  <2>3. Len(q) = IF 1 <= m THEN m - 1 + 1 ELSE 0
    BY <2>1, <2>2, SubSeqProperties
  <2>4. Len(q) = m
    BY <2>1, <2>3
  <2>5. QED  BY <2>4 DEF Pop, m
<1>7. \A i \in 1..Len(s) - 1 : Pop(s)[i] = s[i]
  <2>1. TAKE i \in 1..Len(s) - 1
  <2>2. /\ i \in 1..Len(s) - 1 - 1 + 1
        /\ 1 + i - 1 = i
    BY <1>1
  <2>3. SubSeq(s, 1, Len(s) - 1)[i] = s[1 + i - 1]
    BY <2>2, <1>4
  <2>4. QED  BY <2>2, <2>3 DEF Pop
<1>8. QED  BY <1>1, <1>4, <1>5, <1>6, <1>7 DEF Pop

-----------------------------------------------------------------------------
(* Next and Prev.                                                          *)

LEMMA TokenAtType ==
    ASSUME TextOK, NEW n \in Int
    PROVE  TokenAt(n) \in Token0 /\ (TokenAt(n) = EOF <=> n \notin 1..Len(text))
<1>1. \A m \in 1..Len(text) : text[m] \in Tokens
  BY ElementOfSeq DEF TextOK
<1>2. CASE n \in 1..Len(text)
  BY <1>1, <1>2, TokensAssumption DEF TokenAt, Token0
<1>3. CASE n \notin 1..Len(text)
  BY <1>3 DEF TokenAt, Token0
<1>4. QED  BY <1>2, <1>3

\* Next moves the place to the following token, or fails where nothing can be
\* read, and always remembers the token it leaves.
LEMMA NextMoves ==
    ASSUME TextOK, NEW l \in LexType, Placed(l)
    PROVE  LET n == lexNext(l)
           IN  /\ n \in LexType
               /\ n.err <=> ~Readable(At(l) + 1)
               /\ n.prevTokens = Append(l.prevTokens, l.Token)
               /\ ~n.err => Placed(n) /\ n.Token = TokenAt(At(l) + 1) /\ At(n) = At(l) + 1
<1> DEFINE n == lexNext(l)
           pushed == [l EXCEPT !.prevTokens = Append(@, l.Token)]
<1>1. /\ l.Token \in Token0 /\ l.prevTokens \in Seq(Token0) /\ l.nextTokens \in Seq(Token0)
      /\ l.scanned \in Nat /\ l.err \in BOOLEAN /\ ~l.err
  BY DEF LexType, Placed
<1>2. /\ Append(l.prevTokens, l.Token) \in Seq(Token0)
      /\ Len(Append(l.prevTokens, l.Token)) = At(l) + 1
      /\ At(l) \in Nat /\ Len(text) \in Nat /\ Len(l.nextTokens) \in Nat
  BY <1>1, PushPop DEF At, TextOK
<1>3. CASE l.nextTokens # <<>>
  <2>1. n = [pushed EXCEPT !.Token = Top(l.nextTokens), !.nextTokens = Pop(@)]
    BY <1>1, <1>3 DEF lexNext
  <2>2. /\ Top(l.nextTokens) \in Token0
        /\ Len(l.nextTokens) \in Nat \ {0}
        /\ Pop(l.nextTokens) \in Seq(Token0)
        /\ Len(Pop(l.nextTokens)) = Len(l.nextTokens) - 1
        /\ \A i \in 1..Len(l.nextTokens) - 1 : Pop(l.nextTokens)[i] = l.nextTokens[i]
    BY <1>1, <1>3, PopLeaves
  <2>3. n = [Token |-> Top(l.nextTokens), prevTokens |-> Append(l.prevTokens, l.Token),
             nextTokens |-> Pop(l.nextTokens), scanned |-> l.scanned, err |-> l.err]
    BY <2>1, <1>1 DEF LexType
  <2>4. Top(l.nextTokens) = TokenAt(At(l) + 1)
    BY <2>2, <1>2 DEF Top, Placed
  <2>5. n \in LexType
    BY <2>3, <2>2, <1>1, <1>2 DEF LexType
  <2>6. n.err = l.err /\ Readable(At(l) + 1)
    BY <2>3, <2>2, <1>1, <1>2 DEF Placed, Readable
  <2>7. At(n) = At(l) + 1
    BY <2>3, <1>2 DEF At
  <2>8. l.scanned = At(n) + Len(Pop(l.nextTokens))
    <3>1. l.scanned = At(l) + Len(l.nextTokens)
      BY DEF Placed
    <3>2. Len(Pop(l.nextTokens)) = Len(l.nextTokens) - 1
      BY <2>2
    <3>3. QED  BY <3>1, <3>2, <2>7, <1>2
  <2>9. \A j \in 1..Len(Pop(l.nextTokens)) : Pop(l.nextTokens)[j] = TokenAt(l.scanned + 1 - j)
    BY <2>2 DEF Placed
  <2>10. Placed(n)
    BY <2>3, <2>8, <2>9, <1>1 DEF Placed
  <2>11. QED  BY <1>1, <2>3, <2>4, <2>5, <2>6, <2>7, <2>10
<1>4. CASE l.nextTokens = <<>> /\ bad /\ l.scanned >= Len(text)
  <2>1. n = [pushed EXCEPT !.err = TRUE]
    BY <1>1, <1>4 DEF lexNext
  <2>2. n = [Token |-> l.Token, prevTokens |-> Append(l.prevTokens, l.Token),
             nextTokens |-> l.nextTokens, scanned |-> l.scanned, err |-> TRUE]
    BY <2>1, <1>1 DEF LexType
  <2>3. l.scanned = At(l)
    BY <1>4, <1>2 DEF Placed
  <2>4. QED  BY <2>2, <2>3, <1>1, <1>2, <1>4 DEF LexType, Readable
<1>5. CASE l.nextTokens = <<>> /\ ~(bad /\ l.scanned >= Len(text))
  <2>1. n = [pushed EXCEPT !.Token = TokenAt(l.scanned + 1), !.scanned = @ + 1]
    BY <1>1, <1>5 DEF lexNext
  <2>2. n = [Token |-> TokenAt(l.scanned + 1), prevTokens |-> Append(l.prevTokens, l.Token),
             nextTokens |-> <<>>, scanned |-> l.scanned + 1, err |-> l.err]
    BY <2>1, <1>1, <1>5 DEF LexType
  <2>3. l.scanned = At(l)
    BY <1>5, <1>2 DEF Placed
  <2>4. TokenAt(l.scanned + 1) \in Token0
    <3>1. l.scanned + 1 \in Int
      BY <1>1
    <3>2. QED  BY <3>1, TokenAtType
  <2>5. n \in LexType
    BY <2>2, <2>4, <1>1, <1>2, <1>5 DEF LexType
  <2>6. n.err = l.err /\ Readable(At(l) + 1)
    BY <2>2, <2>3, <1>5, <1>2 DEF Readable, TextOK
  <2>7. At(n) = At(l) + 1
    BY <2>2, <1>2 DEF At
  <2>8. Placed(n)
    <3>1. /\ n.err = l.err /\ n.scanned = l.scanned + 1 /\ n.nextTokens = <<>>
          /\ Len(n.nextTokens) = 0
      BY <2>2
    <3>2. n.scanned = At(n) + Len(n.nextTokens)
      BY <3>1, <2>3, <2>7, <1>2
    <3>3. bad => n.scanned <= Len(text)
      BY <3>1, <1>1, <1>2, <1>5
    <3>4. QED  BY <3>1, <3>2, <3>3, <1>1 DEF Placed
  <2>9. QED  BY <1>1, <2>2, <2>3, <2>5, <2>6, <2>7, <2>8
<1>6. QED  BY <1>3, <1>4, <1>5

\* Prev gives back the token at the place and returns to the one before it.
LEMMA PrevReturns ==
    ASSUME TextOK, NEW l \in LexType, Placed(l), l.Token = TokenAt(At(l)), l.prevTokens # <<>>
    PROVE  LET p == lexPrev(l)
           IN  /\ p \in LexType /\ Placed(p)
               /\ p.prevTokens = Pop(l.prevTokens) /\ p.Token = Top(l.prevTokens)
<1> DEFINE p == lexPrev(l)
           back == Append(l.nextTokens, l.Token)
<1>1. /\ l.Token \in Token0 /\ l.prevTokens \in Seq(Token0) /\ l.nextTokens \in Seq(Token0)
      /\ l.scanned \in Nat /\ l.err \in BOOLEAN /\ ~l.err
  BY DEF LexType, Placed
<1>2. /\ Top(l.prevTokens) \in Token0 /\ Pop(l.prevTokens) \in Seq(Token0)
      /\ Len(l.prevTokens) \in Nat \ {0}
      /\ Len(Pop(l.prevTokens)) = Len(l.prevTokens) - 1
  BY <1>1, PopLeaves
<1>3. /\ p.Token = Top(l.prevTokens) /\ p.prevTokens = Pop(l.prevTokens)
      /\ p.nextTokens = back /\ p.scanned = l.scanned /\ p.err = l.err
  BY DEF lexPrev
<1>4. /\ back \in Seq(Token0)
      /\ Len(back) = Len(l.nextTokens) + 1
      /\ back[Len(l.nextTokens) + 1] = l.Token
      /\ \A i \in 1..Len(l.nextTokens) : back[i] = l.nextTokens[i]
      /\ Len(l.nextTokens) \in Nat
  BY <1>1
<1>5. p \in LexType
  BY <1>1, <1>2, <1>4 DEF LexType, lexPrev
<1>6. /\ l.scanned = At(l) + Len(l.nextTokens) /\ At(l) \in Nat
      /\ Len(l.nextTokens) \in Nat
  BY <1>2, <1>4 DEF Placed, At
<1>7. \A j \in 1..Len(back) : back[j] = TokenAt(l.scanned + 1 - j)
  <2>1. TAKE j \in 1..Len(back)
  <2>2. CASE j = Len(l.nextTokens) + 1
    <3>1. l.scanned + 1 - j = At(l)
      BY <2>2, <1>6
    <3>2. QED  BY <3>1, <2>2, <1>4
  <2>3. CASE j # Len(l.nextTokens) + 1
    <3>1. j \in 1..Len(l.nextTokens)
      BY <2>3, <1>4
    <3>2. QED  BY <3>1, <1>4 DEF Placed
  <2>4. QED  BY <2>2, <2>3
<1>8. Placed(p)
  <2>1. p.scanned = At(p) + Len(p.nextTokens)
    <3>1. Len(back) = Len(l.nextTokens) + 1
      BY <1>4
    <3>2. At(p) = At(l) - 1
      BY <1>2, <1>3 DEF At
    <3>3. QED  BY <3>1, <3>2, <1>3, <1>6
  <2>2. bad => p.scanned <= Len(text)
    BY <1>3 DEF Placed
  <2>3. QED  BY <1>1, <1>3, <1>7, <2>1, <2>2 DEF Placed
<1>9. QED  BY <1>3, <1>5, <1>8

\* Prev after Next: the same place and the same token.
LEMMA NextPrev ==
    ASSUME TextOK, NEW l, Good(l), ~lexNext(l).err
    PROVE  LET p == lexPrev(lexNext(l))
           IN  Good(p) /\ p.Token = l.Token /\ p.prevTokens = l.prevTokens
<1> DEFINE n == lexNext(l)
           p == lexPrev(n)
<1>1. l \in LexType /\ Placed(l) /\ l.prevTokens \in Seq(Token0) /\ l.Token \in Token0
  BY DEF Good, LexType
<1>2. /\ n \in LexType /\ Placed(n) /\ n.Token = TokenAt(At(n))
      /\ n.prevTokens = Append(l.prevTokens, l.Token)
  BY <1>1, NextMoves
<1>3. /\ n.prevTokens # <<>>
      /\ Top(n.prevTokens) = l.Token /\ Pop(n.prevTokens) = l.prevTokens
  BY <1>1, <1>2, PushPop
<1>4. p \in LexType /\ Placed(p) /\ p.prevTokens = Pop(n.prevTokens) /\ p.Token = Top(n.prevTokens)
  BY <1>2, <1>3, PrevReturns
<1>5. QED  BY <1>3, <1>4 DEF Good

\* The same two steps from a place whose next token cannot be read.
LEMMA FailedNextPrev ==
    ASSUME TextOK, NEW l, Good(l), lexNext(l).err
    PROVE  LET p == lexPrev(lexNext(l)) IN p \in LexType /\ lexNext(p) = p /\ p.err
<1> DEFINE n == lexNext(l)
           p == lexPrev(n)
<1>1. l \in LexType /\ Placed(l) /\ l.prevTokens \in Seq(Token0) /\ l.Token \in Token0
  BY DEF Good, LexType
<1>2. n \in LexType /\ n.prevTokens = Append(l.prevTokens, l.Token)
  BY <1>1, NextMoves
<1>3. Top(n.prevTokens) = l.Token /\ Pop(n.prevTokens) = l.prevTokens
  BY <1>1, <1>2, PushPop
<1>4. Append(n.nextTokens, n.Token) \in Seq(Token0)
  BY <1>2 DEF LexType
<1>5. p \in LexType
  BY <1>1, <1>2, <1>3, <1>4 DEF lexPrev, LexType
<1>6. p.err
  BY DEF lexPrev
<1>7. lexNext(p) = p
  BY <1>6 DEF lexNext
<1>8. QED  BY <1>5, <1>6, <1>7

\* A place whose token is the one of the query ends where the query ends.
LEMMA PlaceEnds ==
    ASSUME TextOK, NEW l, Good(l), l.Token = TokenAt(At(l)), At(l) \in 1..Len(text) + 1
    PROVE  Ends(l)
<1>1. Len(text) \in Nat
  BY DEF TextOK
<1>2. At(l) \in Int
  BY <1>1
<1>3. l.Token = EOF <=> At(l) \notin 1..Len(text)
  BY <1>2, TokenAtType
<1>4. At(l) \notin 1..Len(text) <=> At(l) = Len(text) + 1
  BY <1>1
<1>5. QED  BY <1>3, <1>4, Zenon DEF Ends

\* Next from a place that is not the end.
LEMMA NextEnds ==
    ASSUME TextOK, NEW l, Good(l), ~lexNext(l).err, At(l) \in 0..Len(text)
    PROVE  LET n == lexNext(l)
           IN  /\ Good(n) /\ Ends(n) /\ At(n) = At(l) + 1 /\ n.Token = TokenAt(At(l) + 1)
               /\ n.Token # EOF => At(n) \in 0..Len(text)
<1> DEFINE n == lexNext(l)
<1>1. Len(text) \in Nat
  BY DEF TextOK
<1>2. Good(n) /\ At(n) = At(l) + 1 /\ n.Token = TokenAt(At(l) + 1)
  BY NextMoves DEF Good
<1>3. At(n) \in 1..Len(text) + 1
  BY <1>1, <1>2
<1>4. Ends(n)
  BY <1>2, <1>3, PlaceEnds
<1>5. n.Token # EOF => At(n) # Len(text) + 1
  BY <1>4, Zenon DEF Ends
<1>6. At(n) # Len(text) + 1 => At(n) \in 0..Len(text)
  BY <1>1, <1>3
<1>7. QED  BY <1>2, <1>4, <1>5, <1>6, Zenon

-----------------------------------------------------------------------------
(* The parser.                                                             *)

LEMMA InvFacts ==
    ASSUME Inv
    PROVE  /\ TextOK /\ lex \in LexType /\ Len(text) \in Nat
           /\ outcome \in {"parsing", "ok"} => Good(lex) /\ Ends(lex)
           /\ outcome = "start" => Good(lex) /\ At(lex) = 0 /\ lex.Token = EOF
<1>1. TextOK /\ lex \in LexType
  BY TokensAssumption DEF Inv, TypeOK, TextOK, LexType, Token0
<1>2. Len(text) \in Nat
  BY <1>1 DEF TextOK
<1>3. outcome = "start" => Placed(lex) /\ At(lex) = 0 /\ lex.Token = EOF
  <2>1. SUFFICES ASSUME outcome = "start"
                 PROVE  Placed(lex) /\ At(lex) = 0 /\ lex.Token = EOF
    OBVIOUS
  <2>2. lex = initLexer
    BY <2>1 DEF Inv
  <2>3. /\ lex.Token = EOF /\ lex.prevTokens = <<>> /\ lex.nextTokens = <<>>
        /\ lex.scanned = 0 /\ lex.err = FALSE
        /\ Len(lex.prevTokens) = 0 /\ Len(lex.nextTokens) = 0
    BY <2>2 DEF initLexer
  <2>4. QED  BY <1>2, <2>3 DEF Placed, At
<1>4. QED  BY <1>1, <1>2, <1>3 DEF Inv, Good

\* The parser goes on in a place of the query.
LEMMA ContinueInv ==
    ASSUME Inv, NEW l, Good(l), Ends(l), NEW t \in Token0, Continue(l, t)
    PROVE  Inv'
<1>1. /\ text' = text /\ bad' = bad /\ lex' = l /\ seen' = t /\ outcome' = "parsing"
  BY DEF Continue
<1>2. TypeOK'
  BY <1>1 DEF Inv, TypeOK, Good, LexType, Token0
<1>3. Placed(lex)' /\ Ends(lex)'
  BY <1>1 DEF Good, Placed, Ends, At, TokenAt
<1>4. QED  BY <1>1, <1>2, <1>3 DEF Inv

\* The parser stops with an error, wherever its lexer is.
LEMMA RefuseInv ==
    ASSUME Inv, NEW l \in LexType, Refuse(l)
    PROVE  Inv'
<1>1. /\ text' = text /\ bad' = bad /\ lex' = l /\ seen' = EOF /\ outcome' = "error"
  BY DEF Refuse
<1>2. TypeOK'
  BY <1>1 DEF Inv, TypeOK, LexType, Token0
<1>3. QED  BY <1>1, <1>2 DEF Inv

\* The steps of the cursor that these two stand for.
LEMMA ContinueMoves ==
    ASSUME Inv, outcome # "error", NEW l, NEW n, At(l) = At(lex) + n,
           l.Token = TokenAt(At(lex) + n), Continue(l, EOF)
    PROVE  C!Move(n) /\ UNCHANGED <<text, bad>>
BY DEF Continue, C!Move, C!TokenAt, TokenAt, At, C!EOF, EOF

LEMMA ContinuePeeks ==
    ASSUME Inv, outcome = "parsing", NEW l, NEW t, l.prevTokens = lex.prevTokens,
           l.Token = lex.Token, Continue(l, t)
    PROVE  C!Peek(t) /\ UNCHANGED <<text, bad>>
BY DEF Continue, C!Peek

LEMMA RefuseRefuses ==
    ASSUME NEW l, Refuse(l)
    PROVE  C!Refuse /\ UNCHANGED <<text, bad>>
BY DEF Refuse, C!Refuse, C!EOF, EOF

\* What the cursor sees of the lexer.
LEMMA CursorSees ==
    ASSUME outcome # "error"
    PROVE  /\ C!Readable(At(lex) + 1) <=> Readable(At(lex) + 1)
           /\ \A n : C!TokenAt(n) = TokenAt(n)
BY DEF C!Readable, Readable, C!TokenAt, TokenAt, C!EOF, EOF

\* A step of the parser keeps the invariant, and the cursor makes it too.
Simulated == Inv' /\ [C!Next]_(C!vars)

LEMMA ConsumeStep == ASSUME Inv, Consume PROVE Simulated
<1> DEFINE n == lexNext(lex)
<1>1. /\ TextOK /\ Len(text) \in Nat /\ Good(lex)
      /\ outcome = "start" \/ (outcome = "parsing" /\ lex.Token # EOF)
      /\ At(lex) \in 0..Len(text)
  <2>1. CASE outcome = "start"
    BY <2>1, InvFacts
  <2>2. CASE outcome = "parsing" /\ lex.Token # EOF
    BY <2>2, InvFacts DEF Ends
  <2>3. QED  BY <2>1, <2>2 DEF Consume
<1>2. n \in LexType /\ (n.err <=> ~Readable(At(lex) + 1))
  BY <1>1, NextMoves DEF Good
<1>3. outcome # "error" /\ (C!Readable(At(lex) + 1) <=> Readable(At(lex) + 1))
  BY <1>1, CursorSees
<1>4. CASE n.err
  <2>1. Refuse(n)
    BY <1>4 DEF Consume
  <2>2. C!Consume /\ UNCHANGED <<text, bad>>
    BY <2>1, <1>1, <1>2, <1>3, <1>4, RefuseRefuses DEF C!Consume, At, C!EOF, EOF
  <2>3. QED  BY <2>1, <2>2, <1>2, RefuseInv DEF Simulated, C!Next
<1>5. CASE ~n.err
  <2>1. Continue(n, EOF)
    BY <1>5 DEF Consume
  <2>2. Good(n) /\ Ends(n) /\ At(n) = At(lex) + 1 /\ n.Token = TokenAt(At(lex) + 1)
    BY <1>1, <1>5, NextEnds
  <2>3. C!Move(1) /\ UNCHANGED <<text, bad>>
    BY <2>1, <2>2, <1>3, ContinueMoves
  <2>4. C!Consume
    BY <2>3, <1>1, <1>2, <1>3, <1>5 DEF C!Consume, At, C!EOF, EOF
  <2>5. Inv'
    BY <2>1, <2>2, ContinueInv DEF Token0
  <2>6. QED  BY <2>3, <2>4, <2>5 DEF Simulated, C!Next
<1>6. QED  BY <1>4, <1>5

LEMMA LookIdentStep == ASSUME Inv, LookIdent PROVE Simulated
<1> DEFINE n == lexNext(lex)
<1>1. TextOK /\ Good(lex) /\ Ends(lex) /\ outcome = "parsing" /\ lex.Token \in Idents
  BY InvFacts DEF LookIdent
<1>2. n \in LexType /\ (n.err <=> ~Readable(At(lex) + 1))
  BY <1>1, NextMoves DEF Good
<1>3. /\ C!Readable(At(lex) + 1) <=> Readable(At(lex) + 1)
      /\ \A k : C!TokenAt(k) = TokenAt(k)
  BY <1>1, CursorSees
<1>4. CASE n.err
  <2>1. Refuse(n)
    BY <1>4 DEF LookIdent
  <2>2. C!Look /\ UNCHANGED <<text, bad>>
    BY <2>1, <1>1, <1>2, <1>3, <1>4, RefuseRefuses DEF C!Look, At
  <2>3. QED  BY <2>1, <2>2, <1>2, RefuseInv DEF Simulated, C!Next
<1>5. CASE ~n.err
  <2> DEFINE p == lexPrev(n)
  <2>1. Continue(p, n.Token)
    BY <1>5 DEF LookIdent
  <2>2. Good(p) /\ p.Token = lex.Token /\ p.prevTokens = lex.prevTokens
    BY <1>1, <1>5, NextPrev
  <2>3. n.Token = TokenAt(At(lex) + 1) /\ n.Token \in Token0
    BY <1>1, <1>2, <1>5, NextMoves DEF Good, LexType
  <2>4. C!Peek(n.Token) /\ UNCHANGED <<text, bad>>
    BY <2>1, <2>2, <1>1, ContinuePeeks
  <2>5. C!Look
    BY <2>3, <2>4, <1>1, <1>2, <1>3, <1>5 DEF C!Look, At
  <2>6. Ends(p)
    BY <1>1, <2>2 DEF Ends, At
  <2>7. Inv'
    BY <2>1, <2>2, <2>3, <2>6, ContinueInv
  <2>8. QED  BY <2>4, <2>5, <2>7 DEF Simulated, C!Next
<1>6. QED  BY <1>4, <1>5

LEMMA LookWithStep == ASSUME Inv, LookWith PROVE Simulated
<1> DEFINE l1 == lexNext(lex)
           l2 == lexPrev(l1)
           l3 == lexNext(l2)
<1>1. /\ TextOK /\ Good(lex) /\ Ends(lex) /\ outcome = "parsing" /\ lex.Token \in Idents
  BY InvFacts, TokensAssumption DEF LookWith
<1>2. l1 \in LexType /\ (l1.err <=> ~Readable(At(lex) + 1))
  BY <1>1, NextMoves DEF Good
<1>3. /\ C!Readable(At(lex) + 1) <=> Readable(At(lex) + 1)
      /\ \A k : C!TokenAt(k) = TokenAt(k)
  BY <1>1, CursorSees
<1>4. CASE l1.err
  <2>1. l2 \in LexType /\ l3 = l2 /\ l2.err
    BY <1>1, <1>4, FailedNextPrev
  <2>2. Refuse(l3)
    BY <2>1, <1>4 DEF LookWith
  <2>3. C!Look /\ UNCHANGED <<text, bad>>
    BY <2>2, <1>1, <1>2, <1>3, <1>4, RefuseRefuses DEF C!Look, At
  <2>4. QED  BY <2>1, <2>2, <2>3, RefuseInv DEF Simulated, C!Next
<1>5. CASE ~l1.err
  <2> DEFINE l4 == lexPrev(l3)
  <2>1. Good(l2) /\ l2.Token = lex.Token /\ l2.prevTokens = lex.prevTokens
    BY <1>1, <1>5, NextPrev
  <2>2. l1.Token = TokenAt(At(lex) + 1) /\ l1.Token \in Token0
    BY <1>1, <1>2, <1>5, NextMoves DEF Good, LexType
  <2>3. At(l2) = At(lex)
    BY <2>1 DEF At
  <2>4. l3 \in LexType /\ ~l3.err /\ l3.Token = TokenAt(At(lex) + 1)
    BY <2>1, <2>3, <1>1, <1>2, <1>5, NextMoves DEF Good
  <2>5. Good(l4) /\ l4.Token = lex.Token /\ l4.prevTokens = lex.prevTokens
    BY <2>1, <2>4, <1>1, NextPrev
  <2>6. PICK l \in {l2, l4} : Continue(l, l1.Token)
    <3>1. CASE l1.Token = "("
      BY <3>1, <1>5 DEF LookWith
    <3>2. CASE l1.Token # "("
      BY <3>2, <2>2, <2>4, <1>5 DEF LookWith
    <3>3. QED  BY <3>1, <3>2
  <2>7. Good(l) /\ l.Token = lex.Token /\ l.prevTokens = lex.prevTokens
    BY <2>1, <2>5
  <2>8. Ends(l)
    BY <1>1, <2>7 DEF Ends, At
  <2>9. C!Peek(l1.Token) /\ UNCHANGED <<text, bad>>
    BY <2>6, <2>7, <1>1, ContinuePeeks
  <2>10. C!Look
    BY <2>2, <2>9, <1>1, <1>2, <1>3, <1>5 DEF C!Look, At
  <2>11. Inv'
    BY <2>2, <2>6, <2>7, <2>8, ContinueInv
  <2>12. QED  BY <2>9, <2>10, <2>11 DEF Simulated, C!Next
<1>6. QED  BY <1>4, <1>5

LEMMA StepOfWindowStep == ASSUME Inv, StepOfWindow PROVE Simulated
<1> DEFINE cut == [lex EXCEPT !.Token = Strip[lex.Token]]
           n == lexNext(cut)
<1>1. /\ TextOK /\ Good(lex) /\ Ends(lex) /\ outcome = "parsing"
      /\ lex.Token \in Colons /\ lex \in LexType /\ Len(text) \in Nat
  BY InvFacts DEF StepOfWindow
<1>2. Strip[lex.Token] \in Token0 /\ lex.Token # EOF
  BY <1>1, TokensAssumption DEF Token0
<1>3. /\ cut.Token = Strip[lex.Token] /\ cut.prevTokens = lex.prevTokens
      /\ cut.nextTokens = lex.nextTokens /\ cut.scanned = lex.scanned /\ cut.err = lex.err
      /\ cut \in LexType
  BY <1>1, <1>2 DEF LexType
<1> HIDE DEF cut
<1>4. Good(cut) /\ At(cut) = At(lex)
  BY <1>1, <1>3 DEF Good, Placed, At
<1>5. At(lex) \in 0..Len(text) /\ At(lex) \in 1..Len(text) + 1 /\ At(lex) # Len(text) + 1
  BY <1>1, <1>2 DEF Ends
<1>6. C!Readable(At(lex) + 1) <=> Readable(At(lex) + 1)
  BY <1>1, CursorSees
<1>7. CASE cut.Token # EOF
  <2>1. Continue(cut, EOF)
    BY <1>7 DEF StepOfWindow, cut
  <2>2. Ends(cut)
    BY <1>4, <1>5, <1>7 DEF Ends
  <2>3. C!StepOfWindow /\ UNCHANGED <<text, bad>>
    BY <2>1, <1>1, <1>3, <1>7 DEF C!StepOfWindow, Continue, C!EOF, EOF
  <2>4. Inv'
    BY <2>1, <2>2, <1>4, ContinueInv DEF Token0
  <2>5. QED  BY <2>3, <2>4 DEF Simulated, C!Next
<1>8. CASE cut.Token = EOF
  <2>1. n \in LexType /\ (n.err <=> ~Readable(At(lex) + 1))
    BY <1>1, <1>4, NextMoves DEF Good
  <2>2. CASE n.err
    <3>1. Refuse(n)
      BY <1>8, <2>2 DEF StepOfWindow, cut
    <3>2. C!StepOfWindow /\ UNCHANGED <<text, bad>>
      BY <3>1, <2>1, <2>2, <1>1, <1>3, <1>6, <1>8, RefuseRefuses DEF C!StepOfWindow, At, C!EOF, EOF
    <3>3. QED  BY <3>1, <3>2, <2>1, RefuseInv DEF Simulated, C!Next
  <2>3. CASE ~n.err
    <3>1. Continue(n, EOF)
      BY <1>8, <2>3 DEF StepOfWindow, cut
    <3>2. Good(n) /\ Ends(n) /\ At(n) = At(lex) + 1 /\ n.Token = TokenAt(At(lex) + 1)
      BY <1>1, <1>4, <1>5, <2>3, NextEnds
    <3>3. C!Move(1) /\ UNCHANGED <<text, bad>>
      BY <3>1, <3>2, <1>1, ContinueMoves
    <3>4. C!StepOfWindow
      BY <3>3, <2>1, <2>3, <1>1, <1>3, <1>6, <1>8 DEF C!StepOfWindow, At, C!EOF, EOF
    <3>5. Inv'
      BY <3>1, <3>2, ContinueInv DEF Token0
    <3>6. QED  BY <3>3, <3>4, <3>5 DEF Simulated, C!Next
  <2>4. QED  BY <2>2, <2>3
<1>9. QED  BY <1>7, <1>8

LEMMA StringPartStep == ASSUME Inv, StringPart PROVE Simulated
<1> DEFINE l1 == lexNext(lex)
           l2 == lexNext(l1)
           l3 == lexNext(l2)
           a == At(lex)
<1>1. /\ TextOK /\ Good(lex) /\ Ends(lex) /\ outcome = "parsing"
      /\ lex.Token \in Strings \cup Idents /\ Len(text) \in Nat
  BY InvFacts DEF StringPart
<1>2. lex.Token # EOF /\ a \in 0..Len(text)
  BY <1>1, TokensAssumption DEF Ends
<1>3. /\ \A k : C!Readable(k) <=> Readable(k)
      /\ \A k : C!TokenAt(k) = TokenAt(k)
  BY DEF C!Readable, Readable, C!TokenAt, TokenAt, C!EOF, EOF
<1>4. /\ \A t \in Strings \cup Idents : t # EOF
      /\ "+" # EOF
  BY TokensAssumption DEF EOF
<1>5. SUFFICES Inv' /\ C!StringPart /\ UNCHANGED <<text, bad>>
  BY DEF Simulated, C!Next
<1>6. l1 \in LexType /\ (l1.err <=> ~Readable(a + 1))
  BY <1>1, NextMoves DEF Good
<1>7. CASE l1.err
  <2>1. Refuse(l1)
    BY <1>7 DEF StringPart
  <2>2. C!StringPart /\ UNCHANGED <<text, bad>>
    BY <2>1, <1>1, <1>3, <1>6, <1>7, RefuseRefuses DEF C!StringPart, At
  <2>3. QED  BY <2>1, <2>2, <1>6, RefuseInv
<1>8. ASSUME ~l1.err
      PROVE  /\ Good(l1) /\ Ends(l1) /\ At(l1) = a + 1 /\ l1.Token = TokenAt(a + 1)
             /\ l1.Token # EOF => At(l1) \in 0..Len(text)
  BY <1>1, <1>2, <1>8, NextEnds
<1>9. CASE ~l1.err /\ l1.Token # "+"
  <2>1. Continue(l1, EOF)
    BY <1>9 DEF StringPart
  <2>2. C!Move(1) /\ UNCHANGED <<text, bad>>
    BY <2>1, <1>1, <1>8, <1>9, ContinueMoves
  <2>3. C!StringPart
    BY <2>2, <1>1, <1>3, <1>6, <1>8, <1>9 DEF C!StringPart, At
  <2>4. QED  BY <2>1, <2>2, <2>3, <1>8, <1>9, ContinueInv DEF Token0
<1>10. CASE ~l1.err /\ l1.Token = "+"
  <2>1. /\ Good(l1) /\ Ends(l1) /\ At(l1) = a + 1 /\ l1.Token = TokenAt(a + 1)
        /\ At(l1) \in 0..Len(text) /\ Readable(a + 1) /\ TokenAt(a + 1) = "+"
    BY <1>4, <1>6, <1>8, <1>10
  <2>2. l2 \in LexType /\ (l2.err <=> ~Readable(a + 2))
    <3>1. a + 1 + 1 = a + 2
      BY <1>2
    <3>2. QED  BY <3>1, <2>1, <1>1, NextMoves DEF Good
  <2>3. CASE l2.err
    <3>1. Refuse(l2)
      BY <1>10, <2>3 DEF StringPart
    <3>2. C!StringPart /\ UNCHANGED <<text, bad>>
      BY <3>1, <2>1, <2>2, <2>3, <1>1, <1>3, RefuseRefuses DEF C!StringPart, At
    <3>3. QED  BY <3>1, <3>2, <2>2, RefuseInv
  <2>4. ASSUME ~l2.err
        PROVE  /\ Good(l2) /\ Ends(l2) /\ At(l2) = a + 2 /\ l2.Token = TokenAt(a + 2)
               /\ l2.Token # EOF => At(l2) \in 0..Len(text)
               /\ Good(lexPrev(l2)) /\ lexPrev(l2).Token = l1.Token
               /\ lexPrev(l2).prevTokens = l1.prevTokens
    <3>1. a + 1 + 1 = a + 2
      BY <1>2
    <3>2. QED  BY <3>1, <2>1, <2>4, <1>1, NextEnds, NextPrev
  <2>5. CASE ~l2.err /\ l2.Token \in Strings
    <3>1. Continue(l2, EOF)
      BY <1>10, <2>5 DEF StringPart
    <3>2. C!Move(2) /\ UNCHANGED <<text, bad>>
      BY <3>1, <2>4, <2>5, <1>1, ContinueMoves
    <3>3. C!StringPart
      BY <3>2, <2>1, <2>2, <2>4, <2>5, <1>1, <1>3 DEF C!StringPart, At
    <3>4. QED  BY <3>1, <3>2, <3>3, <2>4, <2>5, ContinueInv DEF Token0
  <2>6. CASE ~l2.err /\ l2.Token \notin Strings /\ l2.Token \notin Idents
    <3> DEFINE p == lexPrev(l2)
    <3>1. Continue(p, EOF)
      BY <1>10, <2>6 DEF StringPart
    <3>2. Good(p) /\ Ends(p) /\ At(p) = a + 1 /\ p.Token = TokenAt(a + 1)
      BY <2>1, <2>4, <2>6 DEF Ends, At
    <3>3. C!Move(1) /\ UNCHANGED <<text, bad>>
      BY <3>1, <3>2, <1>1, ContinueMoves
    <3>4. C!StringPart
      BY <3>3, <2>1, <2>2, <2>4, <2>6, <1>1, <1>3 DEF C!StringPart, At
    <3>5. QED  BY <3>1, <3>2, <3>3, <3>4, ContinueInv DEF Token0
  <2>7. CASE ~l2.err /\ l2.Token \notin Strings /\ l2.Token \in Idents
    <3>1. /\ Good(l2) /\ Ends(l2) /\ At(l2) = a + 2 /\ l2.Token = TokenAt(a + 2)
          /\ At(l2) \in 0..Len(text) /\ Readable(a + 2)
      BY <1>4, <2>2, <2>4, <2>7
    <3>2. a + 2 + 1 = a + 3
      BY <1>2
    <3>3. l3 \in LexType /\ (l3.err <=> ~Readable(a + 3))
      BY <3>1, <3>2, <1>1, NextMoves DEF Good
    <3>4. CASE l3.err
      <4>1. Refuse(l3)
        BY <1>10, <2>7, <3>4 DEF StringPart
      <4>2. C!StringPart /\ UNCHANGED <<text, bad>>
        BY <4>1, <3>1, <3>3, <3>4, <2>1, <2>7, <1>1, <1>3, RefuseRefuses DEF C!StringPart, At
      <4>3. QED  BY <4>1, <4>2, <3>3, RefuseInv
    <3>5. CASE ~l3.err
      <4> DEFINE p == lexPrev(l3)
                 q == lexPrev(p)
      <4>1. l3.Token = TokenAt(a + 3)
        BY <3>1, <3>2, <3>5, <1>1, NextMoves DEF Good
      <4>2. Good(p) /\ p.Token = l2.Token /\ p.prevTokens = l2.prevTokens
        BY <3>1, <3>5, <1>1, NextPrev
      <4>3. Ends(p) /\ At(p) = a + 2 /\ p.Token = TokenAt(a + 2)
        BY <3>1, <4>2 DEF Ends, At
      <4>4. CASE l3.Token \notin {"(", "{"}
        <5>1. Continue(p, EOF)
          BY <1>10, <2>7, <3>5, <4>4 DEF StringPart
        <5>2. C!Move(2) /\ UNCHANGED <<text, bad>>
          BY <5>1, <4>3, <1>1, ContinueMoves
        <5>3. C!StringPart
          BY <5>2, <4>1, <4>4, <3>1, <3>3, <3>5, <2>1, <2>7, <1>1, <1>3 DEF C!StringPart, At
        <5>4. QED  BY <5>1, <5>2, <5>3, <4>2, <4>3, ContinueInv DEF Token0
      <4>5. CASE l3.Token \in {"(", "{"}
        <5>1. Continue(q, EOF)
          BY <1>10, <2>7, <3>5, <4>5 DEF StringPart
        <5>2. l1 \in LexType /\ l1.prevTokens \in Seq(Token0) /\ l1.Token \in Token0
          BY <2>1 DEF Good, LexType
        <5>3. l2.prevTokens = Append(l1.prevTokens, l1.Token)
          BY <2>1, <1>1, NextMoves DEF Good
        <5>4. /\ p.prevTokens # <<>>
              /\ Top(p.prevTokens) = l1.Token /\ Pop(p.prevTokens) = l1.prevTokens
          BY <4>2, <5>2, <5>3, PushPop
        <5>5. Good(q) /\ q.prevTokens = l1.prevTokens /\ q.Token = l1.Token
          BY <4>2, <4>3, <5>4, <1>1, PrevReturns DEF Good
        <5>6. Ends(q) /\ At(q) = a + 1 /\ q.Token = TokenAt(a + 1)
          BY <2>1, <5>5 DEF Ends, At
        <5>7. C!Move(1) /\ UNCHANGED <<text, bad>>
          BY <5>1, <5>6, <1>1, ContinueMoves
        <5>8. C!StringPart
          BY <5>7, <4>1, <4>5, <3>1, <3>3, <3>5, <2>1, <2>7, <1>1, <1>3 DEF C!StringPart, At
        <5>9. QED  BY <5>1, <5>5, <5>6, <5>7, <5>8, ContinueInv DEF Token0
      <4>6. QED  BY <4>4, <4>5
    <3>6. QED  BY <3>4, <3>5
  <2>8. QED  BY <2>3, <2>5, <2>6, <2>7
<1>11. QED  BY <1>7, <1>9, <1>10

LEMMA EndStep == ASSUME Inv, Accept \/ Reject \/ Over \/ UNCHANGED vars PROVE Simulated
<1>1. lex \in LexType
  BY InvFacts
<1>2. CASE Accept
  <2>1. /\ text' = text /\ bad' = bad /\ lex' = lex /\ seen' = seen
        /\ outcome = "parsing" /\ outcome' = "ok" /\ lex.Token = EOF
    BY <1>2 DEF Accept
  <2>2. TypeOK' /\ Placed(lex)' /\ Ends(lex)'
    BY <2>1 DEF Inv, TypeOK, Placed, Ends, At, TokenAt
  <2>3. Inv'
    BY <2>1, <2>2 DEF Inv
  <2>4. C!Next
    BY <2>1 DEF C!Next, C!End, C!EOF, EOF
  <2>5. QED  BY <2>3, <2>4 DEF Simulated
<1>3. CASE Reject
  <2>1. C!Next
    BY <1>3, RefuseRefuses DEF Reject, C!Next, C!End
  <2>2. QED  BY <1>1, <1>3, <2>1, RefuseInv DEF Reject, Simulated
<1>4. CASE Over \/ UNCHANGED vars
  <2>1. UNCHANGED vars
    BY <1>4 DEF Over
  <2>2. Inv'
    BY <2>1 DEF vars, Inv, TypeOK, Placed, Ends, At, TokenAt
  <2>3. UNCHANGED C!vars
    BY <2>1 DEF vars, C!vars
  <2>4. QED  BY <2>2, <2>3 DEF Simulated
<1>5. QED  BY <1>2, <1>3, <1>4

-----------------------------------------------------------------------------
(* Theorems.                                                               *)

\* Every step of the parser is a step of the cursor, from the states of Inv.
LEMMA Steps == Inv /\ [Next]_vars => Simulated
BY ConsumeStep, LookIdentStep, LookWithStep, StringPartStep, StepOfWindowStep, EndStep DEF Next

LEMMA Starts == Init => Inv /\ C!Init
<1>1. SUFFICES ASSUME Init PROVE Inv /\ C!Init
  OBVIOUS
<1>2. <<>> \in Seq(Token0) /\ EOF \in Token0
  BY DEF Token0
<1>3. TypeOK
  <2>1. initLexer \in LexType
    BY <1>2 DEF initLexer, LexType
  <2>2. /\ text \in Texts /\ bad \in BOOLEAN /\ lex = initLexer /\ seen = EOF /\ outcome = "start"
    BY <1>1 DEF Init
  <2>3. QED  BY <1>2, <2>1, <2>2 DEF TypeOK, LexType, Token0
<1>4. Inv
  BY <1>1, <1>3 DEF Init, Inv
<1>5. C!Init
  BY <1>1 DEF Init, C!Init, initLexer, C!EOF, EOF
<1>6. QED  BY <1>4, <1>5

\* The parser is always in a place of the query: the tokens that it has given
\* back are those that follow, in order (lexer.go Next and Prev).
THEOREM AlwaysPlaced == Spec => []Inv
<1>1. Inv /\ [Next]_vars => Inv'
  BY Steps DEF Simulated
<1>2. QED  BY Starts, <1>1, PTL DEF Spec

\* What Parse accepts it has read to the end, every token once.
THEOREM WholeQueryAccepted == Spec => []AcceptedWhole
<1>1. Inv => AcceptedWhole
  <2>1. SUFFICES ASSUME Inv, outcome = "ok" PROVE ~bad /\ Len(lex.prevTokens) = Len(text) + 1
    BY DEF AcceptedWhole
  <2>2. /\ lex.Token = EOF /\ Placed(lex) /\ Ends(lex) /\ lex \in LexType
        /\ Len(text) \in Nat /\ TextOK
    BY <2>1, InvFacts DEF Inv
  <2>3. At(lex) = Len(text) + 1
    BY <2>2 DEF Ends
  <2>4. lex.nextTokens \in Seq(Token0)
    BY <2>2 DEF LexType
  <2>5. Len(lex.nextTokens) \in Nat
    BY <2>4
  <2>6. lex.scanned = Len(text) + 1 + Len(lex.nextTokens) /\ (bad => lex.scanned <= Len(text))
    BY <2>2, <2>3 DEF Placed
  <2>7. ~(lex.scanned <= Len(text))
    <3>1. \A m, k \in Nat : ~(m + 1 + k <= m)
      OBVIOUS
    <3>2. lex.scanned = Len(text) + 1 + Len(lex.nextTokens)
      BY <2>6
    <3>3. QED  BY <3>1, <3>2, <2>2, <2>5, Zenon
  <2>8. ~bad
    BY <2>6, <2>7, Zenon
  <2>9. QED  BY <2>3, <2>8 DEF At
<1>2. QED  BY <1>1, AlwaysPlaced, PTL

\* The lexer and its two stacks implement the cursor, for every set of tokens
\* and every query.
THEOREM LexerImplementsCursor == Spec => ImplementsCursor
<1>1. Inv /\ [Next]_vars => [C!Next]_(C!vars)
  BY Steps DEF Simulated
<1>2. QED  BY Starts, <1>1, AlwaysPlaced, PTL DEF Spec, ImplementsCursor, C!Spec

=============================================================================
