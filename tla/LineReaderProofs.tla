-------------------------- MODULE LineReaderProofs --------------------------
(***************************************************************************)
(* Proofs about LineReader: what becomes of the lines of a client, for     *)
(* every stream, every size of the buffer and every way the bytes arrive.  *)
(*                                                                         *)
(* The inductive invariant says where the reader is: Pos bytes have been   *)
(* returned, the buffer holds those after Pos, and the line being read     *)
(* begins after the break Begin, whose rank is the number of lines handed  *)
(* on.  What has been returned of that line is a number of whole buffers,  *)
(* held by line, in which only the first BufSize cells can be other bytes: *)
(* they lie in the buffer until a second part is appended.                 *)
(***************************************************************************)
EXTENDS LineReader, SequenceLemmas, FiniteSetTheorems

\* The bytes of the stream that ReadLine has returned, newlines included.
Pos == taken - (w - r)

\* The number of breaks before x: Break(k) is the break of rank k - 1.
Rank(x) == Cardinality({i \in Breaks : i < x})

\* The break after which the line begins that is being read.
Begin == Break(Len(lines) + 1)

\* The types.
TypeOK ==
    /\ stream \in Streams
    /\ taken \in 0..Len(stream)
    /\ buf \in [1..BufSize -> Nat]
    /\ w \in 0..BufSize
    /\ r \in 0..w
    /\ line \in [inbuf : BOOLEAN, from : Nat, len : Nat, bytes : Seq(Nat)]
    /\ isContinue \in BOOLEAN
    /\ lines \in Seq(Seq(Nat))
    /\ done \in BOOLEAN

\* The buffer holds the bytes that were taken last.
Window ==
    /\ w - r <= taken
    /\ \A i \in r + 1..w : buf[i] = taken - w + i

\* s has the n bytes after b, but for cells that were filled again.
Cells(s, b, n) ==
    /\ s \in Seq(Nat) /\ Len(s) = n
    /\ \A i \in 1..n : s[i] = b + i \/ (i <= BufSize /\ s[i] = b + i + BufSize)

\* What has been returned of the line after b fills the buffer a number of times.
InLine(b) ==
    /\ b <= Pos
    /\ \A i \in b + 1..Pos : ~stream[i]
    /\ (Pos - b) % BufSize = 0
    /\ isContinue <=> Pos > b
    /\ isContinue => Cells(Content(line), b, Pos - b)
    /\ isContinue /\ line.inbuf => line.from = 0 /\ line.len = BufSize

\* A last line without a newline has been handed on.
PastEnd(b) ==
    /\ b = Len(stream) + 1
    /\ taken = Len(stream)
    /\ r = w
    /\ ~isContinue
    /\ Length(Len(lines)) % BufSize # 0

\* The inductive invariant.
IInv ==
    /\ TypeOK
    /\ Window
    /\ Begin \in Breaks /\ Rank(Begin) = Len(lines)
    /\ InLine(Begin) \/ PastEnd(Begin)
    /\ ShortLinesIntact /\ LongLineCells /\ NothingDropped

-----------------------------------------------------------------------------
(* Whole buffers.                                                          *)

\* A positive multiple of the buffer's size is at least that size.
LEMMA ModZero ==
    ASSUME NEW B \in Nat \ {0}, NEW d \in Nat, d % B = 0, d > 0
    PROVE  d >= B
<1>1. ASSUME d < B PROVE d % B = d BY <1>1
<1> QED BY <1>1

\* One buffer more is a multiple again, a part of one leaves that part.
LEMMA ModAdd ==
    ASSUME NEW B \in Nat \ {0}, NEW d \in Nat, d % B = 0, NEW c \in Nat
    PROVE  /\ c < B => (d + c) % B = c
           /\ (d + B) % B = 0
<1>1. PICK q \in Int : d = q * B
  <2>1. d = (d \div B) * B /\ d \div B \in Int OBVIOUS
  <2> QED BY <2>1
<1>2. c < B => (q * B + c) % B = c OBVIOUS
<1>3. (q * B + B) % B = 0
  <2>1. q * B + B = (q + 1) * B OBVIOUS
  <2>2. ((q + 1) * B) % B = 0 OBVIOUS
  <2> QED BY <2>1, <2>2
<1> QED BY <1>1, <1>2, <1>3

-----------------------------------------------------------------------------
(* Breaks and lines.                                                       *)

\* The breaks are finitely many places of the stream, its ends included.
LEMMA BreaksFinite ==
    ASSUME stream \in Seq(BOOLEAN)
    PROVE  /\ Len(stream) \in Nat
           /\ Breaks \subseteq 0..(Len(stream) + 1) /\ IsFiniteSet(Breaks)
           /\ 0 \in Breaks /\ Len(stream) + 1 \in Breaks
<1>1. Len(stream) \in Nat OBVIOUS
<1>2. Breaks \subseteq 0..(Len(stream) + 1) /\ 0 \in Breaks /\ Len(stream) + 1 \in Breaks
  BY <1>1 DEF Breaks
<1>3. IsFiniteSet(0..(Len(stream) + 1))
  <2>1. 0 \in Int /\ Len(stream) + 1 \in Int BY <1>1
  <2> QED BY <2>1, FS_Interval
<1>4. IsFiniteSet(Breaks) BY <1>2, <1>3, FS_Subset
<1> QED BY <1>1, <1>2, <1>4

\* The rank is a number, 0 at the start of the stream, and grows with the place.
LEMMA RankGrows ==
    ASSUME stream \in Seq(BOOLEAN)
    PROVE  /\ \A x \in Breaks : Rank(x) \in Nat
           /\ Rank(0) = 0
           /\ \A x, y \in Breaks : x < y => Rank(x) < Rank(y)
<1> DEFINE Below(x) == {i \in Breaks : i < x}
<1>1. \A x : IsFiniteSet(Below(x)) /\ Rank(x) = Cardinality(Below(x))
  <2>1. \A x : Below(x) \subseteq Breaks OBVIOUS
  <2> HIDE DEF Below
  <2>2. \A x : IsFiniteSet(Below(x)) BY <2>1, BreaksFinite, FS_Subset
  <2> QED BY <2>2 DEF Below, Rank
<1>2. \A x : Rank(x) \in Nat
  <2> HIDE DEF Below
  <2> QED BY <1>1, FS_CardinalityType
<1>3. Rank(0) = 0
  <2>1. Below(0) = {} BY BreaksFinite
  <2> HIDE DEF Below
  <2> QED BY <1>1, <2>1, FS_EmptySet
<1>4. ASSUME NEW x \in Breaks, NEW y \in Breaks, x < y PROVE Rank(x) < Rank(y)
  <2>1. x \in Nat /\ y \in Nat BY BreaksFinite
  <2>2. Below(x) \subseteq Below(y)
    <3> SUFFICES ASSUME NEW i \in Breaks, i < x PROVE i < y
      OBVIOUS
    <3>1. i \in Nat BY BreaksFinite
    <3> QED BY <1>4, <2>1, <3>1
  <2>3. x \in Below(y) /\ x \notin Below(x) BY <1>4, <2>1
  <2> HIDE DEF Below
  <2>4. Cardinality(Below(x)) <= Cardinality(Below(y)) BY <1>1, <2>2, FS_Subset
  <2>5. Cardinality(Below(x)) # Cardinality(Below(y)) BY <1>1, <2>2, <2>3, FS_Subset
  <2>6. Cardinality(Below(x)) \in Nat /\ Cardinality(Below(y)) \in Nat BY <1>1, FS_CardinalityType
  <2> QED BY <1>1, <2>4, <2>5, <2>6
<1> QED BY <1>2, <1>3, <1>4

\* So Break, a CHOOSE, is the one place of that rank.
LEMMA BreakIs ==
    ASSUME stream \in Seq(BOOLEAN), NEW k \in Nat, NEW x \in Breaks, Rank(x) = k - 1
    PROVE  Break(k) = x
<1>1. \E i \in Breaks : Cardinality({j \in Breaks : j < i}) = k - 1 BY DEF Rank
<1>2. Break(k) \in Breaks /\ Rank(Break(k)) = k - 1 BY <1>1 DEF Break, Rank
<1>3. ~(x < Break(k)) /\ ~(Break(k) < x) BY <1>2, RankGrows
<1>4. x \in Nat /\ Break(k) \in Nat BY <1>2, BreaksFinite
<1> QED BY <1>3, <1>4

\* The rank of the next break is the next one ...
LEMMA RankNext ==
    ASSUME stream \in Seq(BOOLEAN), NEW x \in Breaks, NEW y \in Breaks, x < y,
           \A i \in x + 1..y - 1 : i \notin Breaks
    PROVE  Rank(y) = Rank(x) + 1
<1> DEFINE A == {i \in Breaks : i < x}
           B == {i \in Breaks : i < y}
<1>1. \A i \in Breaks : i \in Nat BY BreaksFinite
<1>2. x \in Nat /\ y \in Nat BY <1>1
<1>3. B = A \cup {x}
  <2>1. ASSUME NEW i \in B PROVE i \in A \cup {x}
    <3>1. i \in Breaks /\ i \in Nat /\ i < y BY <1>1
    <3>2. i \notin x + 1..y - 1 BY <3>1
    <3>3. i < x \/ i = x BY <1>2, <3>1, <3>2
    <3> QED BY <3>1, <3>3
  <2>2. ASSUME NEW i \in A PROVE i \in B BY <1>1, <1>2
  <2> QED BY <2>1, <2>2
<1>4. x \notin A /\ A \subseteq Breaks BY <1>2
<1>5. Rank(x) = Cardinality(A) /\ Rank(y) = Cardinality(B) BY DEF Rank
<1> HIDE DEF A, B
<1>6. IsFiniteSet(A) BY <1>4, BreaksFinite, FS_Subset
<1>7. Cardinality(A \cup {x}) = Cardinality(A) + 1 BY <1>4, <1>6, FS_AddElement
<1> QED BY <1>3, <1>5, <1>7

\* ... and that of the end of the stream the number of its lines.
LEMMA RankEnd ==
    ASSUME stream \in Seq(BOOLEAN)
    PROVE  NumLines \in Nat /\ Rank(Len(stream) + 1) = NumLines
<1> DEFINE e == Len(stream) + 1
           A == {i \in Breaks : i < e}
<1>1. A = Breaks \ {e} /\ e \in Breaks BY BreaksFinite
<1>2. Rank(e) = Cardinality(A) BY DEF Rank
<1> HIDE DEF A, e
<1>3. Cardinality(Breaks \ {e}) = Cardinality(Breaks) - 1 BY <1>1, BreaksFinite, FS_RemoveElement
<1>4. Rank(e) = NumLines BY <1>1, <1>2, <1>3 DEF NumLines
<1>5. Rank(e) \in Nat BY <1>1, RankGrows
<1> QED BY <1>4, <1>5 DEF e

\* All of this speaks of the stream only, which stays the same.
LEMMA BreaksSame ==
    ASSUME stream' = stream
    PROVE  /\ Breaks' = Breaks /\ NumLines' = NumLines
           /\ \A k : Break(k)' = Break(k)
           /\ \A k : Length(k)' = Length(k)
           /\ \A x : Rank(x)' = Rank(x)
<1>1. Breaks' = Breaks BY DEF Breaks
<1>2. \A k : Break(k)' = Break(k) BY <1>1 DEF Break
<1>3. \A k : Length(k)' = Length(k) BY <1>2 DEF Length
<1>4. NumLines' = NumLines BY <1>1 DEF NumLines
<1>5. \A x : Rank(x)' = Rank(x) BY <1>1 DEF Rank
<1> QED BY <1>1, <1>2, <1>3, <1>4, <1>5

-----------------------------------------------------------------------------
(* Slices.                                                                 *)

\* Slices, in the buffer or copied.
SliceType == [inbuf : BOOLEAN, from : Nat, len : Nat, bytes : Seq(Nat)]

\* What a call of ReadLine that returns the next n bytes leaves in line.
Whole(n) == IF isContinue THEN append(line, InBuffer(r, n)) ELSE InBuffer(r, n)

\* The slice holds the next bytes of the stream.
LEMMA SliceContent ==
    ASSUME TypeOK, Window, NEW n \in Nat, r + n <= w
    PROVE  /\ InBuffer(r, n) \in SliceType
           /\ Content(InBuffer(r, n)) = [i \in 1..n |-> Pos + i]
           /\ [i \in 1..n |-> Pos + i] \in Seq(Nat)
           /\ Pos \in Nat
<1>1. r \in Nat /\ w \in Nat /\ taken \in Nat BY ReaderAssumption DEF TypeOK
<1>2. Pos \in Nat BY <1>1 DEF Pos, Window
<1>3. \A i \in 1..n : buf[r + i] = Pos + i
  <2> SUFFICES ASSUME NEW i \in 1..n PROVE buf[r + i] = Pos + i
    OBVIOUS
  <2>1. r + i \in r + 1..w BY <1>1
  <2>2. buf[r + i] = taken - w + (r + i) BY <2>1 DEF Window
  <2> QED BY <1>1, <2>2 DEF Pos
<1>4. InBuffer(r, n) \in SliceType BY <1>1 DEF InBuffer, SliceType
<1>5. Content(InBuffer(r, n)) = [i \in 1..n |-> buf[r + i]] BY DEF Content, InBuffer
<1>6. Content(InBuffer(r, n)) = [i \in 1..n |-> Pos + i] BY <1>3, <1>5
<1>7. [i \in 1..n |-> Pos + i] \in Seq(Nat) BY <1>2
<1> QED BY <1>2, <1>4, <1>6, <1>7

\* The cells of two sequences put together.
LEMMA JoinedCells ==
    ASSUME NEW y \in Seq(Nat), NEW x \in Seq(Nat)
    PROVE  /\ \A i \in 1..Len(y) : (y \o x)[i] = y[i]
           /\ \A i \in 1..Len(x) : (y \o x)[Len(y) + i] = x[i]
<1>1. \A i \in 1..Len(y) : (y \o x)[i] = y[i] OBVIOUS
<1>2. ASSUME NEW i \in 1..Len(x)
      PROVE  (y \o x)[Len(y) + i] = x[i]
  <2>1. Len(y) \in Nat /\ Len(x) \in Nat OBVIOUS
  <2>2. Len(y) + i \in 1..(Len(y) + Len(x)) /\ Len(y) + i > Len(y) /\ (Len(y) + i) - Len(y) = i
    BY <2>1
  <2> QED BY <2>2, ConcatProperties
<1> QED BY <1>1, <1>2

\* The line so far with the next n bytes: only cells of its first BufSize bytes are
\* other ones, and none if it fits the buffer.
LEMMA WholeCells ==
    ASSUME TypeOK, Window, NEW b \in Nat, InLine(b), NEW n \in Nat, r + n <= w
    PROVE  /\ Whole(n) \in SliceType
           /\ Cells(Content(Whole(n)), b, Pos - b + n)
           /\ ~isContinue => Content(Whole(n)) = [i \in 1..n |-> b + i]
           /\ ~isContinue => Whole(n) = InBuffer(r, n)
           /\ Whole(n).inbuf => Whole(n) = IF isContinue THEN line ELSE InBuffer(r, n)
<1> DEFINE x == [i \in 1..n |-> Pos + i]
           m == Pos - b
<1>1. InBuffer(r, n) \in SliceType /\ Content(InBuffer(r, n)) = x /\ x \in Seq(Nat) /\ Pos \in Nat
  BY SliceContent
<1>2. Len(x) = n /\ \A i \in 1..n : x[i] = Pos + i OBVIOUS
<1>3. m \in Nat /\ Pos = b + m BY <1>1 DEF InLine
<1>4. BufSize \in Nat BY ReaderAssumption
<1>5. CASE ~isContinue
  <2>1. Whole(n) = InBuffer(r, n) BY <1>5 DEF Whole
  <2>2. m = 0 /\ Pos = b BY <1>1, <1>3, <1>5 DEF InLine
  <2>3. Cells(x, b, n) BY <1>1, <1>2, <2>2 DEF Cells
  <2>4. m + n = n BY <2>2
  <2> HIDE DEF m
  <2> QED BY <1>1, <1>5, <2>1, <2>2, <2>3, <2>4 DEF m
<1>6. CASE isContinue
  <2> DEFINE y == Content(line)
  <2>1. Cells(y, b, m) BY <1>6 DEF InLine
  <2>2. line \in SliceType BY DEF TypeOK, SliceType
  <2>3. CASE n = 0
    <3>1. Whole(n) = line BY <1>6, <2>3 DEF Whole, append, InBuffer
    <3>2. m + n = m BY <1>3, <2>3
    <3> QED BY <1>6, <2>1, <2>2, <3>1, <3>2
  <2>4. CASE n # 0
    <3> HIDE DEF x, y, m
    <3>1. Whole(n) = Copied(y \o x) BY <1>1, <1>6, <2>4 DEF Whole, append, InBuffer, y
    <3> DEFINE z == y \o x
    <3>2. y \in Seq(Nat) /\ Len(y) = m BY <2>1 DEF Cells
    <3>3. z \in Seq(Nat) /\ Len(z) = m + n
      <4>1. y \in Seq(Nat) /\ x \in Seq(Nat) BY <1>1, <3>2
      <4>2. z \in Seq(Nat) /\ Len(z) = Len(y) + Len(x) BY <4>1, ConcatProperties
      <4> QED BY <1>2, <3>2, <4>2
    <3>joined. /\ \A i \in 1..Len(y) : z[i] = y[i]
           /\ \A i \in 1..Len(x) : z[Len(y) + i] = x[i]
      BY ONLY <1>1, <3>2, JoinedCells, Zenon
    <3>4. \A i \in 1..m : z[i] = y[i] BY ONLY <3>2, <3>joined, Zenon
    <3>5. \A i \in 1..n : z[m + i] = x[i] BY ONLY <1>2, <3>2, <3>joined, Zenon
    <3> HIDE DEF z
    <3>6. ASSUME NEW i \in 1..(m + n)
          PROVE  z[i] = b + i \/ (i <= BufSize /\ z[i] = b + i + BufSize)
      <4>1. CASE i <= m
        <5>1. i \in 1..m BY <1>3, <4>1
        <5> QED BY <2>1, <3>4, <5>1 DEF Cells
      <4>2. CASE i > m
        <5>1. i - m \in 1..n /\ m + (i - m) = i BY <1>3, <4>2
        <5>2. z[i] = Pos + (i - m) BY <1>2, <3>5, <5>1
        <5> QED BY <1>3, <5>2
      <4> QED BY <1>3, <4>1, <4>2
    <3>7. Cells(z, b, m + n) BY <3>3, <3>6 DEF Cells
    <3>8. Content(Whole(n)) = z /\ Whole(n).inbuf = FALSE BY <3>1 DEF Content, Copied, z
    <3>9. Whole(n) \in SliceType
      <4>1. Copied(z) \in SliceType BY <1>3, <3>3 DEF Copied, SliceType
      <4> QED BY <3>1, <4>1 DEF z
    <3> QED BY <1>6, <3>7, <3>8, <3>9 DEF m
  <2> QED BY <2>3, <2>4
<1> QED BY <1>5, <1>6

-----------------------------------------------------------------------------
(* A line is handed on.                                                    *)

\* The types the arithmetic needs.
LEMMA Types ==
    ASSUME IInv
    PROVE  /\ BufSize \in Nat \ {0} /\ stream \in Seq(BOOLEAN) /\ Len(stream) \in Nat
           /\ r \in Nat /\ w \in Nat /\ taken \in Nat /\ taken <= Len(stream)
           /\ r <= w /\ w <= BufSize /\ w - r <= taken /\ Pos \in Nat /\ Pos <= taken
           /\ Begin \in Nat /\ lines \in Seq(Seq(Nat)) /\ Len(lines) \in Nat
<1>1. BufSize \in Nat \ {0} /\ stream \in Seq(BOOLEAN) BY ReaderAssumption DEF IInv, TypeOK
<1>2. Len(stream) \in Nat BY <1>1
<1>3. r \in Nat /\ w \in Nat /\ r <= w /\ w <= BufSize BY <1>1 DEF IInv, TypeOK
<1>4. taken \in Nat /\ taken <= Len(stream) /\ w - r <= taken BY <1>2 DEF IInv, TypeOK, Window
<1>5. Pos \in Nat /\ Pos <= taken BY <1>3, <1>4 DEF Pos
<1>6. Begin \in Nat BY <1>1, BreaksFinite DEF IInv
<1>7. lines \in Seq(Seq(Nat)) BY DEF IInv, TypeOK
<1>8. Len(lines) \in Nat BY <1>7
<1> QED BY <1>1, <1>2, <1>3, <1>4, <1>5, <1>6, <1>7, <1>8

\* There is no break in what has been returned of a line.
LEMMA NoBreak ==
    ASSUME IInv, InLine(Begin)
    PROVE  \A i \in Begin + 1..Pos : i \notin Breaks
<1> SUFFICES ASSUME NEW i \in Begin + 1..Pos PROVE i \notin Breaks
  OBVIOUS
<1>1. ~stream[i] BY DEF InLine
<1>2. i # 0 /\ i # Len(stream) + 1 BY Types
<1> QED BY <1>1, <1>2 DEF Breaks

\* When ReadLine returns the bytes up to the next break p, the line between the two
\* breaks is handed on, intact if it is short, and the next one begins.
LEMMA HandedOn ==
    ASSUME IInv, InLine(Begin), NEW p \in Breaks, NEW n \in Nat, p = Pos + n + 1, r + n <= w,
           \A i \in Pos + 1..p - 1 : i \notin Breaks,
           Returned(InBuffer(r, n), FALSE), stream' = stream
    PROVE  /\ isContinue' = FALSE /\ line' \in SliceType
           /\ lines' \in Seq(Seq(Nat)) /\ Len(lines') = Len(lines) + 1
           /\ Begin' = p /\ Rank(p)' = Len(lines')
           /\ Length(Len(lines))' = Pos - Begin + n
           /\ Len(lines') <= NumLines
           /\ ShortLinesIntact' /\ LongLineCells'
<1> DEFINE b == Begin
           K == Len(lines)
           x == Content(Whole(n))
           m == Pos - b + n
<1>1. /\ BufSize \in Nat \ {0} /\ stream \in Seq(BOOLEAN) /\ Pos \in Nat
      /\ b \in Nat /\ lines \in Seq(Seq(Nat)) /\ K \in Nat
  BY Types
<1>2. TypeOK /\ Window /\ b \in Breaks /\ Rank(b) = K BY DEF IInv
<1>3. Whole(n) \in SliceType /\ Cells(x, b, m) /\ (~isContinue => x = [i \in 1..n |-> b + i])
  <2> HIDE DEF b
  <2> QED BY <1>1, <1>2, WholeCells DEF b
<1>4. isContinue' = FALSE /\ line' = Whole(n) /\ lines' = Append(lines, x)
  BY DEF Returned, Whole
<1>5. b <= Pos BY DEF InLine
<1>6. ~isContinue => m = n /\ Pos = b BY <1>1, <1>5 DEF InLine
<1>7. isContinue => m >= BufSize
  <2> SUFFICES ASSUME isContinue PROVE m >= BufSize
    OBVIOUS
  <2>1. (Pos - b) % BufSize = 0 /\ Pos - b > 0 BY <1>1 DEF InLine
  <2>2. Pos - b \in Nat BY <1>1, <1>5
  <2>3. Pos - b >= BufSize
    <3> DEFINE d == Pos - b
    <3>1. d \in Nat /\ d % BufSize = 0 /\ d > 0 BY <2>1, <2>2
    <3> HIDE DEF d
    <3>2. d >= BufSize BY <1>1, <3>1, ModZero
    <3> QED BY <3>2 DEF d
  <2> HIDE DEF b
  <2> QED BY <1>1, <2>2, <2>3
<1>8. b < p BY <1>1, <1>5
<1>9. \A i \in b + 1..p - 1 : i \notin Breaks
  <2> SUFFICES ASSUME NEW i \in b + 1..p - 1 PROVE i \notin Breaks
    OBVIOUS
  <2>1. i \in b + 1..Pos \/ i \in Pos + 1..p - 1 BY <1>1
  <2> QED BY <2>1, NoBreak
<1>10. Rank(p) = K + 1
  <2>1. Rank(p) = Rank(b) + 1
    <3> HIDE DEF b
    <3> QED BY <1>1, <1>2, <1>8, <1>9, RankNext
  <2> QED BY <1>2, <2>1
<1>11. Break(K + 2) = p /\ Break(K + 1) = b
  <2>1. K + 2 \in Nat /\ K + 1 = (K + 2) - 1 BY <1>1
  <2>2. Break(K + 2) = p
    <3> HIDE DEF K
    <3> QED BY <1>1, <1>10, <2>1, BreakIs
  <2> QED BY <2>2 DEF Begin
<1>12. Length(K + 1) = m
  <2>1. (K + 1) + 1 = K + 2 BY <1>1
  <2>2. Length(K + 1) = p - b - 1 BY <1>11, <2>1 DEF Length
  <2>3. p - b - 1 = m
    <3> HIDE DEF b
    <3> QED BY <1>1
  <2> QED BY <2>2, <2>3
<1>13. K + 1 <= NumLines
  <2>1. p = Len(stream) + 1 \/ p < Len(stream) + 1 BY <1>1, BreaksFinite
  <2>2. Rank(p) <= Rank(Len(stream) + 1)
    <3>1. Rank(p) \in Nat BY <1>1, RankGrows
    <3> QED BY <1>1, <2>1, <3>1, BreaksFinite, RankGrows
  <2> QED BY <1>1, <1>10, <2>2, RankEnd
<1>14. x \in Seq(Nat) BY <1>3 DEF Cells
<1> HIDE DEF x, m, b
<1>15. /\ lines' \in Seq(Seq(Nat)) /\ Len(lines') = K + 1
       /\ lines'[K + 1] = x /\ \A k \in 1..K : lines'[k] = lines[k]
  BY <1>1, <1>4, <1>14
<1>16. /\ Breaks' = Breaks /\ NumLines' = NumLines /\ \A k : Break(k)' = Break(k)
       /\ (\A k : Length(k)' = Length(k)) /\ \A x1 : Rank(x1)' = Rank(x1)
  BY BreaksSame
<1>17. Begin' = p /\ Rank(p)' = Len(lines') /\ Length(Len(lines))' = m
  <2>1. Begin' = Break(Len(lines') + 1) BY <1>16 DEF Begin
  <2>2. (K + 1) + 1 = K + 2 BY <1>1
  <2>3. Begin' = p BY <1>11, <1>15, <2>1, <2>2
  <2>4. Rank(p)' = Len(lines') BY <1>10, <1>15, <1>16
  <2>5. Length(Len(lines))' = m
    <3>1. Length(Len(lines))' = Length(Len(lines')) BY <1>16 DEF Length
    <3> QED BY <1>12, <1>15, <3>1
  <2> QED BY <2>3, <2>4, <2>5
<1> HIDE DEF K
<1>18. \A k \in 1..(K + 1) : k \in 1..K \/ k = K + 1 BY <1>1
<1>19. ShortLinesIntact'
  <2> SUFFICES ASSUME NEW k \in 1..(K + 1)
               PROVE  /\ k <= NumLines
                      /\ Length(k) < BufSize => lines'[k] = [i \in 1..Length(k) |-> Break(k) + i]
    BY <1>15, <1>16 DEF ShortLinesIntact
  <2>1. CASE k \in 1..K
    <3>1. /\ k <= NumLines
          /\ Length(k) < BufSize => lines[k] = [i \in 1..Length(k) |-> Break(k) + i]
      BY <2>1 DEF IInv, ShortLinesIntact, K
    <3> QED BY <1>15, <2>1, <3>1
  <2>2. CASE k = K + 1
    <3>1. m < BufSize => x = [i \in 1..m |-> b + i]
      <4> SUFFICES ASSUME m < BufSize PROVE x = [i \in 1..m |-> b + i]
        OBVIOUS
      <4>1. m \in Int BY <1>1 DEF m
      <4>2. ~isContinue BY <1>1, <1>7, <4>1
      <4> QED BY <1>3, <1>6, <4>2
    <3> QED BY <1>11, <1>12, <1>13, <1>15, <2>2, <3>1
  <2> QED BY <1>18, <2>1, <2>2
<1>20. LongLineCells'
  <2> DEFINE Right(s, k) == /\ Len(s) = Length(k)
                            /\ \A i \in 1..Length(k) :
                                 \/ s[i] = Break(k) + i
                                 \/ i <= BufSize /\ s[i] = Break(k) + i + BufSize
  <2> SUFFICES ASSUME NEW k \in 1..(K + 1) PROVE Right(lines'[k], k)
    BY <1>15, <1>16 DEF LongLineCells
  <2>1. CASE k \in 1..K
    <3>1. Right(lines[k], k) BY <2>1 DEF IInv, LongLineCells, K
    <3> HIDE DEF Right
    <3> QED BY <1>15, <2>1, <3>1
  <2>2. CASE k = K + 1
    <3>1. Right(x, K + 1) BY <1>3, <1>11, <1>12 DEF Cells
    <3> HIDE DEF Right
    <3> QED BY <1>15, <2>2, <3>1
  <2> QED BY <1>18, <2>1, <2>2
<1> QED BY <1>3, <1>4, <1>13, <1>15, <1>17, <1>19, <1>20 DEF m, b, K

-----------------------------------------------------------------------------
(* The invariant.                                                          *)

\* At the start line 1 is being read, and nothing of it is there.
LEMMA InitStep == Init => IInv
<1> SUFFICES ASSUME Init PROVE IInv
  OBVIOUS
<1> USE DEF Init
<1>1. BufSize \in Nat \ {0} /\ stream \in Seq(BOOLEAN) /\ Len(stream) \in Nat
  <2>1. BufSize \in Nat \ {0} /\ stream \in Seq(BOOLEAN) BY ReaderAssumption
  <2> QED BY <2>1
<1>2. TypeOK
  <2>1. Copied(<<>>) \in [inbuf : BOOLEAN, from : Nat, len : Nat, bytes : Seq(Nat)]
    BY DEF Copied
  <2>2. line \in [inbuf : BOOLEAN, from : Nat, len : Nat, bytes : Seq(Nat)] BY <2>1
  <2>3. taken \in 0..Len(stream) /\ w \in 0..BufSize /\ r \in 0..w BY <1>1
  <2>4. buf \in [1..BufSize -> Nat] OBVIOUS
  <2>5. lines \in Seq(Seq(Nat)) OBVIOUS
  <2>6. stream \in Streams /\ isContinue \in BOOLEAN /\ done \in BOOLEAN OBVIOUS
  <2> QED BY <2>2, <2>3, <2>4, <2>5, <2>6 DEF TypeOK
<1>3. Window BY DEF Window
<1>4. Begin = 0 /\ 0 \in Breaks /\ Rank(0) = 0
  <2>1. 0 \in Breaks /\ Rank(0) = 0 BY <1>1, BreaksFinite, RankGrows
  <2>2. Break(1) = 0 BY <1>1, <2>1, BreakIs
  <2> QED BY <2>1, <2>2 DEF Begin
<1>5. InLine(0)
  <2>1. Pos = 0 BY DEF Pos
  <2>2. 0 % BufSize = 0 BY <1>1
  <2> QED BY <2>1, <2>2 DEF InLine
<1>6. ShortLinesIntact /\ LongLineCells /\ NothingDropped
  BY DEF ShortLinesIntact, LongLineCells, NothingDropped
<1> QED BY <1>2, <1>3, <1>4, <1>5, <1>6 DEF IInv

\* A newline is in the buffer.
LEMMA LineFoundStep ==
    ASSUME IInv, LineFound
    PROVE  IInv'
<1>1. PICK i \in InReader : /\ \A k \in InReader : i <= k
                            /\ Returned(InBuffer(r, i - 1 - r), FALSE)
                            /\ r' = i
  BY DEF LineFound
<1>2. ~done /\ UNCHANGED <<stream, taken, buf, w, done>> BY DEF LineFound
<1> PICK p : p = buf[i] OBVIOUS
<1> PICK n : n = i - 1 - r OBVIOUS
<1>3. /\ BufSize \in Nat \ {0} /\ stream \in Seq(BOOLEAN) /\ Len(stream) \in Nat
      /\ r \in Nat /\ w \in Nat /\ taken \in Nat /\ taken <= Len(stream)
      /\ r <= w /\ w <= BufSize /\ w - r <= taken /\ Pos \in Nat
  BY Types
<1>4. i \in r + 1..w /\ stream[p] BY DEF InReader
<1>5. n \in Nat /\ r + n <= w BY <1>3, <1>4
<1>6. \A k \in r + 1..w : buf[k] = Pos + (k - r)
  <2> SUFFICES ASSUME NEW k \in r + 1..w PROVE buf[k] = Pos + (k - r)
    OBVIOUS
  <2>1. buf[k] = taken - w + k BY DEF IInv, Window
  <2> QED BY <1>3, <2>1 DEF Pos
<1>7. p = Pos + (i - r) BY <1>4, <1>6
<1>8. p = Pos + n + 1 /\ p \in Nat BY <1>3, <1>4, <1>7
<1>9. p \in 1..Len(stream) BY <1>3, <1>4, <1>7 DEF Pos
<1>10. p \in Breaks BY <1>4, <1>9 DEF Breaks
<1>11. InLine(Begin)
  <2>1. r # w BY <1>3, <1>4
  <2> QED BY <2>1 DEF IInv, PastEnd
<1>12. \A k \in Pos + 1..p - 1 : k \notin Breaks
  <2> SUFFICES ASSUME NEW k \in Pos + 1..p - 1, k \in Breaks PROVE FALSE
    OBVIOUS
  <2>1. k \in 1..Len(stream) BY <1>3, <1>9
  <2>2. stream[k] BY <2>1 DEF Breaks
  <2> DEFINE l == k - Pos + r
  <2>3. l \in r + 1..w /\ l < i /\ k = Pos + (l - r) BY <1>3, <1>4, <1>7
  <2>4. l \in InReader
    <3>1. buf[l] = k
      <4> HIDE DEF l
      <4> QED BY <1>6, <2>3
    <3> HIDE DEF l
    <3> QED BY <2>2, <2>3, <3>1 DEF InReader
  <2>5. i <= l BY <1>1, <2>4
  <2> QED BY <1>4, <2>3, <2>5
<1>13. /\ isContinue' = FALSE /\ line' \in SliceType
       /\ lines' \in Seq(Seq(Nat)) /\ Len(lines') = Len(lines) + 1
       /\ Begin' = p /\ Rank(p)' = Len(lines')
       /\ ShortLinesIntact' /\ LongLineCells'
  <2>1. Returned(InBuffer(r, n), FALSE) BY <1>1
  <2> QED BY <1>2, <1>5, <1>8, <1>10, <1>11, <1>12, <2>1, HandedOn
<1>14. TypeOK'
  <2>1. r' \in 0..w' BY <1>1, <1>2, <1>3, <1>4
  <2> QED BY <1>2, <1>13, <2>1 DEF IInv, TypeOK, SliceType
<1>15. Window'
  <2>1. w - i <= taken BY <1>3, <1>4
  <2>2. \A k \in i + 1..w : k \in r + 1..w BY <1>3, <1>4
  <2> QED BY <1>1, <1>2, <2>1, <2>2 DEF IInv, Window
<1>16. Pos' = p BY <1>1, <1>2, <1>3, <1>4, <1>7 DEF Pos
<1>17. InLine(p)'
  <2>1. p <= p /\ ~(p > p) /\ p - p = 0 /\ 0 % BufSize = 0 BY <1>3, <1>8
  <2>2. \A k \in p + 1..p : FALSE BY <1>8
  <2> QED BY <1>13, <1>16, <2>1, <2>2 DEF InLine
<1>18. Begin' \in Breaks' /\ Rank(Begin)' = Len(lines') /\ InLine(Begin)'
  <2>1. Breaks' = Breaks BY <1>2, BreaksSame
  <2>2. Rank(Begin)' = Rank(p)' BY <1>13 DEF Rank
  <2>3. InLine(Begin)' BY <1>13, <1>17 DEF InLine
  <2> QED BY <1>10, <1>13, <2>1, <2>2, <2>3
<1>19. NothingDropped' BY <1>2 DEF NothingDropped
<1> QED BY <1>13, <1>14, <1>15, <1>18, <1>19 DEF IInv

\* What has been handed on stays as it is.
LEMMA LinesSame ==
    ASSUME IInv, UNCHANGED <<stream, lines>>
    PROVE  /\ ShortLinesIntact' /\ LongLineCells'
           /\ Begin' = Begin /\ Begin' \in Breaks' /\ Rank(Begin)' = Len(lines')
<1>1. /\ Breaks' = Breaks /\ NumLines' = NumLines /\ \A k : Break(k)' = Break(k)
      /\ (\A k : Length(k)' = Length(k)) /\ \A x : Rank(x)' = Rank(x)
  BY BreaksSame
<1>2. ShortLinesIntact' BY <1>1 DEF IInv, ShortLinesIntact
<1>3. LongLineCells' BY <1>1 DEF IInv, LongLineCells
<1>4. Begin' = Begin BY <1>1 DEF Begin
<1>5. Rank(Begin)' = Rank(Begin) BY <1>1, <1>4 DEF Rank
<1> QED BY <1>1, <1>2, <1>3, <1>4, <1>5 DEF IInv

\* The buffer is full of a line that has not ended.
LEMMA BufferFullStep ==
    ASSUME IInv, BufferFull
    PROVE  IInv'
<1>1. /\ ~done /\ InReader = {} /\ w - r = BufSize /\ Returned(InBuffer(0, BufSize), TRUE)
      /\ r' = w /\ UNCHANGED <<stream, taken, buf, w, done>>
  BY DEF BufferFull
<1> PICK b : b = Begin OBVIOUS
<1> PICK p : p = Pos OBVIOUS
<1>2. /\ BufSize \in Nat \ {0} /\ stream \in Seq(BOOLEAN) /\ Len(stream) \in Nat
      /\ r \in Nat /\ w \in Nat /\ taken \in Nat /\ taken <= Len(stream)
      /\ r <= w /\ w <= BufSize /\ w - r <= taken /\ p \in Nat /\ b \in Nat
  BY Types
<1>3. r = 0 /\ w = BufSize BY <1>1, <1>2
<1>4. TypeOK /\ Window /\ InLine(b)
  <2>1. r # w BY <1>2, <1>3
  <2> QED BY <2>1 DEF IInv, PastEnd
<1>5. isContinue' = TRUE /\ line' = Whole(BufSize) /\ lines' = lines
  BY <1>1, <1>3 DEF Returned, Whole
<1>6. /\ Whole(BufSize) \in SliceType
      /\ Cells(Content(Whole(BufSize)), b, p - b + BufSize)
      /\ Whole(BufSize).inbuf => Whole(BufSize) = IF isContinue THEN line ELSE InBuffer(r, BufSize)
  <2>1. BufSize \in Nat /\ r + BufSize <= w BY <1>2, <1>3
  <2> QED BY <1>2, <1>4, <2>1, WholeCells
<1>7. Pos' = p + BufSize
  <2>1. p = taken - BufSize BY <1>1, <1>2 DEF Pos
  <2> QED BY <1>1, <1>2, <2>1 DEF Pos
<1>8. b <= p /\ (p - b) % BufSize = 0 BY <1>4 DEF InLine
<1>9. InLine(b)'
  <2>1. b <= p + BufSize /\ p + BufSize > b /\ p + BufSize - b = p - b + BufSize BY <1>2, <1>8
  <2>2. (p - b + BufSize) % BufSize = 0
    <3> DEFINE d == p - b
    <3>1. d \in Nat /\ d % BufSize = 0 BY <1>2, <1>8
    <3> HIDE DEF d
    <3>2. (d + BufSize) % BufSize = 0 BY <1>2, <3>1, ModAdd
    <3> QED BY <3>2 DEF d
  <2>3. ASSUME NEW i \in b + 1..p + BufSize PROVE ~stream[i]
    <3>1. CASE i <= p
      <4>1. i \in b + 1..p BY <1>2, <3>1
      <4> QED BY <1>4, <4>1 DEF InLine
    <3>2. CASE i > p
      <4>1. i - p \in 1..BufSize /\ p + (i - p) = i BY <1>2, <3>2
      <4>2. i - p \in r + 1..w BY <1>2, <1>3, <4>1
      <4>3. buf[i - p] = taken - w + (i - p) BY <1>4, <4>2 DEF Window
      <4>4. buf[i - p] = i
        <5>1. p = taken - w BY <1>2, <1>3 DEF Pos
        <5> QED BY <1>2, <4>1, <4>3, <5>1
      <4>5. i - p \notin InReader BY <1>1
      <4> QED BY <4>2, <4>4, <4>5 DEF InReader
    <3> QED BY <1>2, <3>1, <3>2
  <2>4. Content(line)' = Content(Whole(BufSize)) BY <1>1, <1>5 DEF Content
  <2>5. ASSUME line'.inbuf PROVE line'.from = 0 /\ line'.len = BufSize
    <3>1. CASE isContinue
      <4>1. line' = line BY <1>5, <1>6, <2>5, <3>1
      <4> QED BY <1>4, <2>5, <3>1, <4>1 DEF InLine
    <3>2. CASE ~isContinue
      <4>1. line' = InBuffer(r, BufSize) BY <1>5, <1>6, <2>5, <3>2
      <4> QED BY <1>3, <4>1 DEF InBuffer
    <3> QED BY <3>1, <3>2
  <2> PICK u : u = p + BufSize OBVIOUS
  <2>6. Pos' = u BY <1>7
  <2>7. /\ b <= u /\ u > b /\ (u - b) % BufSize = 0 /\ Cells(Content(line)', b, u - b)
        /\ \A i \in b + 1..u : ~stream[i]
    <3>1. b <= u /\ u > b /\ u - b = p - b + BufSize BY <1>2, <1>8
    <3>2. (u - b) % BufSize = 0 BY <2>2, <3>1
    <3>3. Cells(Content(line)', b, u - b) BY <1>6, <2>4, <3>1
    <3>4. \A i \in b + 1..u : ~stream[i] BY <2>3
    <3> QED BY <3>1, <3>2, <3>3, <3>4
  <2> QED BY <1>1, <1>5, <2>5, <2>6, <2>7 DEF InLine, Cells
<1>10. TypeOK'
  <2>1. r' \in 0..w' BY <1>1, <1>2
  <2> QED BY <1>1, <1>4, <1>5, <1>6, <2>1 DEF TypeOK, SliceType
<1>11. Window'
  <2>1. w - w <= taken /\ \A i \in w + 1..w : FALSE BY <1>2
  <2> QED BY <1>1, <2>1 DEF Window
<1>12. NothingDropped' BY <1>1 DEF NothingDropped
<1>13. InLine(Begin)'
  <2>1. Begin' = b BY <1>1, <1>5, LinesSame
  <2> QED BY <1>9, <2>1 DEF InLine
<1> QED BY <1>1, <1>5, <1>10, <1>11, <1>12, <1>13, LinesSame DEF IInv

\* Bytes arrive.
LEMMA FillStep ==
    ASSUME IInv, Fill
    PROVE  IInv'
<1>1. PICK n \in 1..BufSize - (w - r) :
         /\ taken + n <= Len(stream)
         /\ buf' = [i \in 1..BufSize |->
                      IF i <= w - r THEN buf[r + i]
                      ELSE IF i <= w - r + n THEN taken + i - (w - r)
                      ELSE buf[i]]
         /\ r' = 0 /\ w' = w - r + n /\ taken' = taken + n
  BY DEF Fill
<1>2. ~done /\ UNCHANGED <<stream, line, isContinue, lines, done>> BY DEF Fill
<1> PICK b : b = Begin OBVIOUS
<1> PICK p : p = Pos OBVIOUS
<1>3. /\ BufSize \in Nat \ {0} /\ stream \in Seq(BOOLEAN) /\ Len(stream) \in Nat
      /\ r \in Nat /\ w \in Nat /\ taken \in Nat /\ taken <= Len(stream)
      /\ r <= w /\ w <= BufSize /\ w - r <= taken /\ p \in Nat /\ b \in Nat
  BY Types
<1>4. n \in Nat /\ n >= 1 /\ w - r + n <= BufSize BY <1>1, <1>3
<1>5. TypeOK /\ Window /\ InLine(b)
  <2>1. taken # Len(stream) BY <1>1, <1>3, <1>4
  <2> QED BY <2>1 DEF IInv, PastEnd
<1>6. p = taken - (w - r) BY DEF Pos
<1>7. \A i \in 1..w - r + n : buf'[i] = p + i
  <2> SUFFICES ASSUME NEW i \in 1..w - r + n PROVE buf'[i] = p + i
    OBVIOUS
  <2>1. i \in 1..BufSize BY <1>3, <1>4
  <2>2. CASE i <= w - r
    <3>1. buf'[i] = buf[r + i] BY <1>1, <2>1, <2>2
    <3>2. r + i \in r + 1..w BY <1>3, <2>1, <2>2
    <3>3. buf[r + i] = taken - w + (r + i) BY <1>5, <3>2 DEF Window
    <3> QED BY <1>3, <1>6, <2>1, <3>1, <3>3
  <2>3. CASE ~(i <= w - r)
    <3>1. buf'[i] = taken + i - (w - r) BY <1>1, <2>1, <2>3
    <3> QED BY <1>3, <1>6, <2>1, <3>1
  <2> QED BY <2>2, <2>3
<1>8. \A i \in 1..BufSize : i \in 1..w - r + n \/ buf'[i] = buf[i]
  <2> SUFFICES ASSUME NEW i \in 1..BufSize, i \notin 1..w - r + n PROVE buf'[i] = buf[i]
    OBVIOUS
  <2>1. ~(i <= w - r + n) /\ ~(i <= w - r) BY <1>3, <1>4
  <2> QED BY <1>1, <2>1
<1>9. TypeOK'
  <2>1. buf' \in [1..BufSize -> Nat]
    <3>1. \A i \in 1..BufSize : buf'[i] \in Nat
      <4> SUFFICES ASSUME NEW i \in 1..BufSize PROVE buf'[i] \in Nat
        OBVIOUS
      <4>1. buf[i] \in Nat BY <1>5 DEF TypeOK
      <4>2. i \in 1..w - r + n => p + i \in Nat BY <1>3
      <4> QED BY <1>7, <1>8, <4>1, <4>2
    <3>2. DOMAIN buf' = 1..BufSize /\ buf' = [i \in 1..BufSize |-> buf'[i]] BY <1>1
    <3> QED BY <3>1, <3>2
  <2>2. taken' \in 0..Len(stream') /\ w' \in 0..BufSize /\ r' \in 0..w' BY <1>1, <1>2, <1>3, <1>4
  <2> QED BY <1>2, <1>5, <2>1, <2>2 DEF TypeOK
<1>10. Window'
  <2>1. w' - r' <= taken' BY <1>1, <1>3, <1>4
  <2>2. ASSUME NEW i \in r' + 1..w' PROVE buf'[i] = taken' - w' + i
    <3>1. i \in 1..w - r + n BY <1>1, <1>3, <1>4
    <3>2. taken' - w' + i = p + i BY <1>1, <1>3, <1>4, <1>6, <3>1
    <3> QED BY <1>7, <3>1, <3>2
  <2> QED BY <2>1, <2>2 DEF Window
<1>11. Pos' = p BY <1>1, <1>3, <1>4, <1>6 DEF Pos
<1>12. isContinue => Cells(Content(line), b, p - b)' /\ (line.inbuf => line.from = 0 /\ line.len = BufSize)
  <2> SUFFICES ASSUME isContinue
               PROVE  Cells(Content(line), b, p - b)' /\ (line.inbuf => line.from = 0 /\ line.len = BufSize)
    OBVIOUS
  <2>1. Cells(Content(line), b, p - b) /\ (line.inbuf => line.from = 0 /\ line.len = BufSize)
    BY <1>5 DEF InLine
  <2>2. line \in SliceType BY <1>5 DEF TypeOK, SliceType
  <2>3. CASE ~line.inbuf
    <3>1. Content(line)' = line.bytes /\ Content(line) = line.bytes BY <1>2, <2>3 DEF Content
    <3> QED BY <2>1, <3>1 DEF Cells
  <2>4. CASE line.inbuf
    <3> DEFINE x == [i \in 1..BufSize |-> buf[i]]
               y == [i \in 1..BufSize |-> buf'[i]]
    <3>1. Content(line) = x /\ Content(line)' = y
      <4>1. \A i \in 1..BufSize : 0 + i = i BY <1>3
      <4>2. line.from = 0 /\ line.len = BufSize BY <2>1, <2>4
      <4>3. Content(line) = [i \in 1..BufSize |-> buf[0 + i]] BY <2>4, <4>2 DEF Content
      <4>4. Content(line)' = [i \in 1..BufSize |-> buf'[0 + i]] BY <1>2, <2>4, <4>2 DEF Content
      <4> QED BY <4>1, <4>3, <4>4
    <3>2. \A i \in 1..BufSize : x[i] = buf[i] /\ y[i] = buf'[i] OBVIOUS
    <3>3. x \in Seq(Nat) /\ y \in Seq(Nat) /\ Len(x) = BufSize /\ Len(y) = BufSize
      <4>1. x \in [1..BufSize -> Nat] BY <1>5 DEF TypeOK
      <4>2. y \in [1..BufSize -> Nat] BY <1>9 DEF TypeOK
      <4> HIDE DEF x, y
      <4> QED BY <1>3, <4>1, <4>2
    <3> HIDE DEF x, y
    <3>4. p - b = BufSize BY <2>1, <3>1, <3>3 DEF Cells
    <3>5. ASSUME NEW i \in 1..BufSize
          PROVE  y[i] = b + i \/ (i <= BufSize /\ y[i] = b + i + BufSize)
      <4>1. CASE i \in 1..w - r + n
        <5>1. y[i] = p + i BY <1>7, <3>2, <4>1
        <5>2. p + i = b + i + BufSize /\ i <= BufSize BY <1>3, <3>4
        <5> QED BY <5>1, <5>2
      <4>2. CASE buf'[i] = buf[i]
        <5>1. x[i] = b + i \/ (i <= BufSize /\ x[i] = b + i + BufSize) BY <2>1, <3>1, <3>4 DEF Cells
        <5> QED BY <3>2, <4>2, <5>1
      <4> QED BY <1>8, <4>1, <4>2
    <3>6. Cells(y, b, p - b) BY <3>3, <3>4, <3>5 DEF Cells
    <3> QED BY <2>1, <3>1, <3>6 DEF Cells
  <2> QED BY <2>3, <2>4
<1>13. InLine(b)'
  <2>1. /\ b <= p /\ (\A i \in b + 1..p : ~stream[i]) /\ (p - b) % BufSize = 0
        /\ isContinue <=> p > b
    BY <1>5 DEF InLine
  <2> QED BY <1>2, <1>11, <1>12, <2>1 DEF InLine, Cells
<1>14. InLine(Begin)'
  <2>1. Begin' = b BY <1>2, LinesSame
  <2> QED BY <1>13, <2>1 DEF InLine
<1>15. NothingDropped' BY <1>2 DEF NothingDropped
<1> QED BY <1>2, <1>9, <1>10, <1>14, <1>15, LinesSame DEF IInv

\* The client has hung up and something is left: the last line is handed on.
LEMMA RestStep ==
    ASSUME IInv, AtEOF, w > r
    PROVE  IInv'
<1>1. /\ ~done /\ InReader = {} /\ w - r < BufSize /\ taken = Len(stream)
      /\ Returned(InBuffer(r, w - r), FALSE)
      /\ r' = w /\ UNCHANGED <<stream, taken, buf, w, done>>
  BY DEF AtEOF, HungUp
<1> PICK b : b = Begin OBVIOUS
<1> PICK n : n = w - r OBVIOUS
<1> PICK p : p = Len(stream) + 1 OBVIOUS
<1>2. /\ BufSize \in Nat \ {0} /\ stream \in Seq(BOOLEAN) /\ Len(stream) \in Nat
      /\ r \in Nat /\ w \in Nat /\ taken \in Nat
      /\ r <= w /\ w <= BufSize /\ w - r <= taken /\ Pos \in Nat /\ b \in Nat
  BY Types
<1>3. n \in Nat /\ r + n <= w /\ n > 0 /\ n < BufSize BY <1>1, <1>2
<1>4. Pos + n = Len(stream) /\ p = Pos + n + 1 BY <1>1, <1>2 DEF Pos
<1>5. TypeOK /\ Window /\ InLine(Begin)
  <2>1. r # w BY <1>2
  <2> QED BY <2>1 DEF IInv, PastEnd
<1>6. p \in Breaks BY <1>2, BreaksFinite
<1>7. \A i \in Pos + 1..p - 1 : i \notin Breaks
  <2> SUFFICES ASSUME NEW i \in Pos + 1..p - 1, i \in Breaks PROVE FALSE
    OBVIOUS
  <2>1. i \in 1..Len(stream) BY <1>2
  <2>2. stream[i] BY <1>2, <2>1 DEF Breaks
  <2> PICK l : l = i - Pos + r OBVIOUS
  <2>3. l \in r + 1..w /\ i = Pos + (l - r) /\ l \in Nat BY <1>2, <1>3, <1>4
  <2>4. buf[l] = taken - w + l BY <1>5, <2>3 DEF Window
  <2>5. buf[l] = i BY <1>2, <2>3, <2>4 DEF Pos
  <2>6. l \in InReader BY <2>2, <2>3, <2>5 DEF InReader
  <2> QED BY <1>1, <2>6
<1>8. /\ isContinue' = FALSE /\ line' \in SliceType
      /\ lines' \in Seq(Seq(Nat)) /\ Len(lines') = Len(lines) + 1
      /\ Begin' = p /\ Rank(p)' = Len(lines')
      /\ Length(Len(lines))' = Pos - Begin + n
      /\ ShortLinesIntact' /\ LongLineCells'
  <2>1. Returned(InBuffer(r, n), FALSE) BY <1>1
  <2> QED BY <1>1, <1>3, <1>4, <1>5, <1>6, <1>7, <2>1, HandedOn
<1>9. (Pos - b + n) % BufSize # 0
  <2> PICK d : d = Pos - b OBVIOUS
  <2>1. b <= Pos /\ d % BufSize = 0 BY <1>5 DEF InLine
  <2>2. d \in Nat BY <1>2, <2>1
  <2>3. (d + n) % BufSize = n BY <1>2, <1>3, <2>1, <2>2, ModAdd
  <2> QED BY <1>3, <2>3
<1>10. PastEnd(Begin)' BY <1>1, <1>8, <1>9 DEF PastEnd
<1>11. TypeOK'
  <2>1. r' \in 0..w' BY <1>1, <1>2
  <2> QED BY <1>1, <1>5, <1>8, <2>1 DEF TypeOK, SliceType
<1>12. Window'
  <2>1. w - w <= taken /\ \A i \in w + 1..w : FALSE BY <1>2
  <2> QED BY <1>1, <2>1 DEF Window
<1>13. Begin' \in Breaks' /\ Rank(Begin)' = Len(lines')
  <2>1. Breaks' = Breaks BY <1>1, BreaksSame
  <2>2. Rank(Begin)' = Rank(p)' BY <1>8 DEF Rank
  <2> QED BY <1>6, <1>8, <2>1, <2>2
<1>14. NothingDropped' BY <1>1 DEF NothingDropped
<1> QED BY <1>8, <1>10, <1>11, <1>12, <1>13, <1>14 DEF IInv

\* Nothing is left: the connection is closed, with all lines handed on but one that
\* has filled whole buffers.
LEMMA CloseStep ==
    ASSUME IInv, AtEOF, ~(w > r)
    PROVE  IInv'
<1>1. /\ done' = TRUE /\ taken = Len(stream)
      /\ r' = w /\ UNCHANGED <<stream, taken, buf, w, line, isContinue, lines>>
  BY DEF AtEOF, HungUp
<1> PICK b : b = Begin OBVIOUS
<1>2. /\ BufSize \in Nat \ {0} /\ stream \in Seq(BOOLEAN) /\ Len(stream) \in Nat
      /\ r \in Nat /\ w \in Nat /\ taken \in Nat /\ r <= w /\ Pos \in Nat /\ b \in Nat
      /\ Len(lines) \in Nat
  BY Types
<1>3. r = w /\ r' = r BY <1>1, <1>2
<1>4. Pos' = Pos /\ Pos = Len(stream) BY <1>1, <1>2, <1>3 DEF Pos
<1>5. NumLines \in Nat /\ Rank(Len(stream) + 1) = NumLines BY <1>2, RankEnd
<1>6. b \in Breaks /\ Rank(b) = Len(lines) BY DEF IInv
<1>7. Len(lines) = IF Length(NumLines) % BufSize = 0 THEN NumLines - 1 ELSE NumLines
  <2>1. CASE PastEnd(b)
    <3>1. Len(lines) = NumLines BY <1>5, <1>6, <2>1 DEF PastEnd
    <3>2. Length(NumLines) % BufSize # 0 BY <2>1, <3>1 DEF PastEnd
    <3> QED BY <3>1, <3>2
  <2>2. CASE InLine(b)
    <3> PICK e : e = Len(stream) + 1 OBVIOUS
    <3>1. e \in Breaks /\ b <= Len(stream) /\ b < e
      BY <1>2, <1>4, <2>2, BreaksFinite DEF InLine
    <3>2. \A i \in b + 1..e - 1 : i \notin Breaks
      <4>1. \A i \in b + 1..e - 1 : i \in b + 1..Pos BY <1>2, <1>4
      <4> QED BY <2>2, <4>1, NoBreak
    <3>3. Rank(e) = Rank(b) + 1 BY <1>2, <1>6, <3>1, <3>2, RankNext
    <3>4. NumLines = Len(lines) + 1 BY <1>5, <1>6, <3>3
    <3>5. Break(NumLines) = b BY <3>4 DEF Begin
    <3>6. Break(NumLines + 1) = e
      <4>1. NumLines + 1 \in Nat /\ (NumLines + 1) - 1 = NumLines BY <1>5
      <4> QED BY <1>2, <1>5, <3>1, <4>1, BreakIs
    <3>7. Length(NumLines) = Pos - b
      <4>1. Length(NumLines) = e - b - 1 BY <3>5, <3>6 DEF Length
      <4> QED BY <1>2, <1>4, <4>1
    <3>8. Length(NumLines) % BufSize = 0 BY <2>2, <3>7 DEF InLine
    <3>9. Len(lines) = NumLines - 1 BY <1>2, <3>4
    <3> QED BY <3>8, <3>9
  <2> QED BY <2>1, <2>2 DEF IInv
<1>8. NothingDropped'
  <2>1. NumLines' = NumLines /\ \A k : Length(k)' = Length(k) BY <1>1, BreaksSame
  <2>2. Length(NumLines)' = Length(NumLines) BY <2>1 DEF Length
  <2> QED BY <1>1, <1>7, <2>1, <2>2 DEF NothingDropped
<1>9. TypeOK' BY <1>1, <1>3 DEF IInv, TypeOK
<1>10. Window' BY <1>1, <1>3 DEF IInv, Window
<1>11. (InLine(Begin) \/ PastEnd(Begin))'
  BY <1>1, <1>3, <1>4, LinesSame, BreaksSame DEF IInv, InLine, PastEnd, Content
<1> QED BY <1>1, <1>8, <1>9, <1>10, <1>11, LinesSame DEF IInv

\* Nothing happens.
LEMMA StutterStep ==
    ASSUME IInv, UNCHANGED vars
    PROVE  IInv'
<1>1. /\ UNCHANGED <<stream, taken, buf, r, w, line, isContinue, lines, done>>
  BY DEF vars
<1>2. /\ NumLines' = NumLines /\ \A k : Length(k)' = Length(k) BY <1>1, BreaksSame
<1>3. TypeOK' BY <1>1 DEF IInv, TypeOK
<1>4. Window' BY <1>1 DEF IInv, Window
<1>5. Pos' = Pos BY <1>1 DEF Pos
<1>6. (InLine(Begin) \/ PastEnd(Begin))'
  BY <1>1, <1>2, <1>5, LinesSame DEF IInv, InLine, PastEnd, Content
<1>7. NothingDropped'
  <2>1. Length(NumLines)' = Length(NumLines) BY <1>1, <1>2, BreaksSame DEF Length
  <2> QED BY <1>1, <1>2, <2>1 DEF IInv, NothingDropped
<1> QED BY <1>1, <1>3, <1>4, <1>6, <1>7, LinesSame DEF IInv

-----------------------------------------------------------------------------
(* The theorems.                                                           *)

\* The invariant holds in every behaviour: by the lemmas above, action by action.
THEOREM Invariance == Spec => []IInv
<1>1. Init => IInv BY InitStep
<1>2. IInv /\ [Next]_vars => IInv'
  BY LineFoundStep, BufferFullStep, FillStep, RestStep, CloseStep, StutterStep DEF Next, Over
<1> QED BY <1>1, <1>2, PTL DEF Spec

\* A line that fits the buffer with its newline reaches convertGraphite byte for
\* byte and in its turn (cmd/mateinsert/main.go lines 94-111), however many
\* overlong lines came before it.
THEOREM ShortLines == Spec => []ShortLinesIntact
<1>1. IInv => ShortLinesIntact BY DEF IInv
<1> QED BY <1>1, Invariance, PTL

\* A longer line keeps its length and its bytes, but for cells of its first
\* BufSize bytes that ReadLine has filled again before append copied them
\* (lines 95-98).
THEOREM LongLines == Spec => []LongLineCells
<1>1. IInv => LongLineCells BY DEF IInv
<1> QED BY <1>1, Invariance, PTL

\* When the connection is closed every line was handed on, save a last one that
\* ends with a full buffer and without a newline (lines 94-108).
THEOREM NoneDropped == Spec => []NothingDropped
<1>1. IInv => NothingDropped BY DEF IInv
<1> QED BY <1>1, Invariance, PTL

=============================================================================
