----------------------------- MODULE LineReader -----------------------------
(***************************************************************************)
(* cmd/mateinsert/main.go: the loop that takes lines from a client with    *)
(* bufio's ReadLine and puts together those that do not fit its buffer.    *)
(* MateInsert takes lines for granted; here they are bytes that come in    *)
(* pieces of any size, pass through a buffer, and are used where they lie. *)
(*                                                                         *)
(* A byte is the number of its place in the stream, so that what is handed *)
(* on shows where every byte of it came from.  The "\r" that ReadLine cuts *)
(* off before a newline is left out.                                       *)
(***************************************************************************)
EXTENDS Naturals, Sequences, FiniteSets

CONSTANTS BufSize,   \* of the reader, in bytes: 65536 in the program
          Streams    \* what a client may send: TRUE stands for a newline

ASSUME ReaderAssumption ==
    /\ BufSize \in Nat \ {0}
    /\ Streams \subseteq Seq(BOOLEAN)

VARIABLES stream,       \* the bytes of this client, who then hangs up
          taken,        \* how many of them the reader has got
          buf, r, w,    \* the reader's buffer: it holds buf[r + 1] to buf[w]
          line,         \* the slice of that name
          isContinue,   \* the flag of that name
          lines,        \* what convertGraphite was called with
          done          \* the connection is closed

vars == <<stream, taken, buf, r, w, line, isContinue, lines, done>>

-----------------------------------------------------------------------------
(* Slices.                                                                 *)

\* The n cells of the buffer from cell from + 1 on, not copied.
InBuffer(from, n) == [inbuf |-> TRUE, from |-> from, len |-> n, bytes |-> <<>>]

\* An array of its own.
Copied(bytes) == [inbuf |-> FALSE, from |-> 0, len |-> Len(bytes), bytes |-> bytes]

\* What is in a slice now.
Content(s) == IF s.inbuf THEN [i \in 1..s.len |-> buf[s.from + i]] ELSE s.bytes

\* append(line, next...).  The slice ends where the buffer ends, so that there is
\* no room behind it, and a new array is made: unless there is nothing to append.
append(s, next) == IF next.len = 0 THEN s ELSE Copied(Content(s) \o Content(next))

-----------------------------------------------------------------------------
(* The loop of the connection's goroutine.                                 *)

\* Mutant: a line is continued only once.
Returned_Once(slice, isPrefix) ==
    LET whole == IF isContinue THEN append(line, slice) ELSE slice
    IN  IF isPrefix /\ ~isContinue
        THEN line' = whole /\ isContinue' = TRUE /\ UNCHANGED lines
        ELSE /\ lines' = Append(lines, Content(whole))
             /\ line' = whole
             /\ isContinue' = FALSE

\* Mutant: the continuation takes the place of the line.
Returned_NoAppend(slice, isPrefix) ==
    IF isPrefix
    THEN line' = slice /\ isContinue' = TRUE /\ UNCHANGED lines
    ELSE /\ lines' = Append(lines, Content(slice))
         /\ line' = slice
         /\ isContinue' = FALSE

\* ReadLine has returned a slice and no error.
Returned(slice, isPrefix) ==
    LET whole == IF isContinue THEN append(line, slice) ELSE slice
    IN  IF isPrefix
        THEN line' = whole /\ isContinue' = TRUE /\ UNCHANGED lines
        ELSE /\ lines' = Append(lines, Content(whole))
             /\ line' = whole
             /\ isContinue' = FALSE

-----------------------------------------------------------------------------
(* bufio.Reader, as far as ReadLine shows it.                              *)

Init ==
    /\ stream \in Streams
    /\ taken = 0
    /\ buf = [i \in 1..BufSize |-> 0]
    /\ r = 0 /\ w = 0
    /\ line = Copied(<<>>)
    /\ isContinue = FALSE
    /\ lines = <<>>
    /\ done = FALSE

\* The newlines in the buffer.
InReader == {i \in r + 1..w : stream[buf[i]]}
HungUp == taken = Len(stream)

\* A newline is in the buffer: the line before it is returned where it lies.
LineFound ==
    /\ ~done
    /\ \E i \in InReader :
         /\ \A j \in InReader : i <= j
         /\ Returned(InBuffer(r, i - 1 - r), FALSE)
         /\ r' = i
    /\ UNCHANGED <<stream, taken, buf, w, done>>

\* The buffer is full of a line that has not ended.
BufferFull ==
    /\ ~done
    /\ InReader = {}
    /\ w - r = BufSize
    /\ Returned(InBuffer(0, BufSize), TRUE)
    /\ r' = w
    /\ UNCHANGED <<stream, taken, buf, w, done>>

\* Some bytes arrive; those not yet returned have been moved to the front before.
Fill ==
    /\ ~done
    /\ InReader = {}
    /\ w - r < BufSize
    /\ \E n \in 1..BufSize - (w - r) :
         /\ taken + n <= Len(stream)
         /\ buf' = [i \in 1..BufSize |->
                      IF i <= w - r THEN buf[r + i]
                      ELSE IF i <= w - r + n THEN taken + i - (w - r)
                      ELSE buf[i]]
         /\ r' = 0
         /\ w' = w - r + n
         /\ taken' = taken + n
    /\ UNCHANGED <<stream, line, isContinue, lines, done>>

\* The client has hung up, or the connection fails.  What is left is returned as a
\* line, without the error; the error comes when nothing is left, and ends the loop,
\* also in the middle of a line.
AtEOF ==
    /\ ~done
    /\ InReader = {}
    /\ w - r < BufSize
    /\ HungUp
    /\ IF w > r
       THEN Returned(InBuffer(r, w - r), FALSE) /\ UNCHANGED done
       ELSE done' = TRUE /\ UNCHANGED <<line, isContinue, lines>>
    /\ r' = w
    /\ UNCHANGED <<stream, taken, buf, w>>

Over == done /\ UNCHANGED vars

Next == LineFound \/ BufferFull \/ Fill \/ AtEOF \/ Over

Spec == Init /\ [][Next]_vars

-----------------------------------------------------------------------------
(* Properties.                                                             *)

\* The k-th line of the stream lies between Break(k) and Break(k + 1).
Breaks == {0, Len(stream) + 1} \cup {i \in 1..Len(stream) : stream[i]}
Break(k) == CHOOSE i \in Breaks : Cardinality({j \in Breaks : j < i}) = k - 1
NumLines == Cardinality(Breaks) - 1
Length(k) == Break(k + 1) - Break(k) - 1

\* A line that fits the buffer with its newline reaches convertGraphite byte for
\* byte and in its turn, in whatever pieces it arrives and whatever lines came
\* before it (cmd/mateinsert/main.go lines 94-111).
ShortLinesIntact ==
    \A k \in 1..Len(lines) :
        /\ k <= NumLines
        /\ Length(k) < BufSize => lines[k] = [i \in 1..Length(k) |-> Break(k) + i]

\* A longer line keeps its length, and all that follows its first BufSize bytes.
\* These lie in the buffer while ReadLine fills it again (lines 95-98), so any of
\* them may have been replaced by the byte BufSize places further on.
LongLineCells ==
    \A k \in 1..Len(lines) :
        /\ Len(lines[k]) = Length(k)
        /\ \A i \in 1..Length(k) :
             \/ lines[k][i] = Break(k) + i
             \/ i <= BufSize /\ lines[k][i] = Break(k) + i + BufSize

\* When the connection is closed every line has been handed on, also one the client
\* did not end, save one that filled the buffer to the last byte and was being
\* continued (lines 94-108).
NothingDropped ==
    done => Len(lines) = IF Length(NumLines) % BufSize = 0 THEN NumLines - 1 ELSE NumLines

=============================================================================
