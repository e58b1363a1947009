----------------------------- MODULE MateInsert -----------------------------
(***************************************************************************)
(* cmd/mateinsert: the TCP proxy that reads graphite lines, converts them  *)
(* and forwards them to VictoriaMetrics.  One goroutine per client dials   *)
(* the remote, borrows a buffered reader and a buffered writer from pools  *)
(* and copies until the client closes or an error occurs.                  *)
(*                                                                         *)
(* A line is "short", "wide" or "bad"; converted, it takes                 *)
(* Size(kind) units of the stream, <<c, i, 1>>, <<c, i, 2>>, ... for line  *)
(* i of client c (nothing, if convertGraphite rejects it).  The writer's   *)
(* buffer has BufferSize units and is flushed when fewer than LowWater are *)
(* available: 64 KiB and 8192 bytes in the code.  Every line fits the      *)
(* reader's buffer.  The builder is left out: it is borrowed and returned  *)
(* like the writer, and reset before every line.                           *)
(***************************************************************************)
EXTENDS Naturals, Sequences, FiniteSets, SequencesExt

CONSTANTS Conns,       \* client connections
          Objects,     \* buffered readers, and buffered writers, that may exist
          Inputs,      \* what a client may send: sequences of line kinds
          BufferSize,
          LowWater,
          None

ASSUME InputsAssumption == Inputs \subseteq Seq({"short", "wide", "bad"})
ASSUME SizesAssumption == BufferSize \in Nat \ {0} /\ LowWater \in 1..BufferSize
ASSUME NoneAssumption == None \notin Objects

\* The width of a converted line, which labels make wider than the line read:
\* a "wide" one may not fit an empty buffer, and is split by writes and flushes.
Size(kind) == CASE kind = "bad" -> 0 [] kind = "short" -> 1 [] kind = "wide" -> 5

VARIABLES
    pc,         \* where the goroutine of each connection is
    input,      \* input[c]: all the lines client c sends
    arrived,    \* arrived[c]: how many of them the proxy has taken from the socket
    hungup,     \* hungup[c]: c has closed its side
    failed,     \* failed[c]: a dial, read, write or flush of c has failed
    localOpen, remoteOpen,   \* the two sockets of a goroutine
    remote,     \* remote[c]: the units sent on c's remote connection
    rd, wr,     \* the reader and the writer that c borrowed
    freeRd, freeWr,          \* the pools, with the objects not yet allocated
    rbuf,       \* rbuf[o]: lines read ahead, as pairs <<c, i>>
    wbuf,       \* wbuf[o]: units buffered and not sent
    werr,       \* werr[o]: the sticky error of a bufio.Writer
    out,        \* out[c]: what is left of the line being written
    lines       \* lines[c]: the lines ReadLine has returned to c's goroutine

vars == <<pc, input, arrived, hungup, failed, localOpen, remoteOpen, remote, rd, wr,
          freeRd, freeWr, rbuf, wbuf, werr, out, lines>>

clientVars == <<input, hungup>>
poolVars == <<rd, wr, freeRd, freeWr>>
socketVars == <<localOpen, remoteOpen>>

PcValues == {"none", "dial", "borrow", "read", "write", "check", "flush",
             "lastFlush", "putWriter", "putReader", "closeRemote", "closeLocal", "ended"}

Init ==
    /\ pc = [c \in Conns |-> "none"]
    /\ input \in [Conns -> Inputs]
    /\ arrived = [c \in Conns |-> 0]
    /\ hungup = [c \in Conns |-> FALSE]
    /\ failed = [c \in Conns |-> FALSE]
    /\ localOpen = [c \in Conns |-> FALSE]
    /\ remoteOpen = [c \in Conns |-> FALSE]
    /\ remote = [c \in Conns |-> <<>>]
    /\ rd = [c \in Conns |-> None]
    /\ wr = [c \in Conns |-> None]
    /\ freeRd = Objects
    /\ freeWr = Objects
    /\ rbuf = [o \in Objects |-> <<>>]
    /\ wbuf = [o \in Objects |-> <<>>]
    /\ werr = [o \in Objects |-> FALSE]
    /\ out = [c \in Conns |-> <<>>]
    /\ lines = [c \in Conns |-> <<>>]

Goto(c, from, to) == pc[c] = from /\ pc' = [pc EXCEPT ![c] = to]

-----------------------------------------------------------------------------
(* Connecting.                                                             *)

\* listener.Accept returns a connection, and its goroutine is started.  (An
\* error of Accept is logged and changes nothing.)
Accept(c) ==
    /\ Goto(c, "none", "dial")
    /\ localOpen' = [localOpen EXCEPT ![c] = TRUE]
    /\ UNCHANGED <<clientVars, arrived, failed, remoteOpen, remote, poolVars, rbuf, wbuf,
                   werr, out, lines>>

DialOk(c) ==
    /\ Goto(c, "dial", "borrow")
    /\ remoteOpen' = [remoteOpen EXCEPT ![c] = TRUE]
    /\ UNCHANGED <<clientVars, arrived, failed, localOpen, remote, poolVars, rbuf, wbuf,
                   werr, out, lines>>

\* The goroutine ends before the deferred localConn.Close is registered.
DialFails(c) ==
    /\ Goto(c, "dial", "ended")
    /\ failed' = [failed EXCEPT ![c] = TRUE]
    /\ UNCHANGED <<clientVars, arrived, socketVars, remote, poolVars, rbuf, wbuf, werr,
                   out, lines>>

\* Mutant: the writer's error is cleared, its buffer is not.
Borrow_BufferNotReset(c) ==
    /\ Goto(c, "borrow", "read")
    /\ \E r \in freeRd, w \in freeWr :
           /\ rd' = [rd EXCEPT ![c] = r] /\ freeRd' = freeRd \ {r}
           /\ wr' = [wr EXCEPT ![c] = w] /\ freeWr' = freeWr \ {w}
           /\ rbuf' = [rbuf EXCEPT ![r] = <<>>]
           /\ werr' = [werr EXCEPT ![w] = FALSE]
    /\ UNCHANGED <<clientVars, arrived, failed, socketVars, remote, wbuf, out, lines>>

\* Mutant: the reader is not reset.
Borrow_ReaderNotReset(c) ==
    /\ Goto(c, "borrow", "read")
    /\ \E r \in freeRd, w \in freeWr :
           /\ rd' = [rd EXCEPT ![c] = r] /\ freeRd' = freeRd \ {r}
           /\ wr' = [wr EXCEPT ![c] = w] /\ freeWr' = freeWr \ {w}
           /\ wbuf' = [wbuf EXCEPT ![w] = <<>>]
           /\ werr' = [werr EXCEPT ![w] = FALSE]
    /\ UNCHANGED <<clientVars, arrived, failed, socketVars, remote, rbuf, out, lines>>

\* Get and Reset of reader and writer.  A pool returns any object put back,
\* or makes a new one; Reset drops what the last user left.
Borrow(c) ==
    /\ Goto(c, "borrow", "read")
    /\ \E r \in freeRd, w \in freeWr :
           /\ rd' = [rd EXCEPT ![c] = r] /\ freeRd' = freeRd \ {r}
           /\ wr' = [wr EXCEPT ![c] = w] /\ freeWr' = freeWr \ {w}
           /\ rbuf' = [rbuf EXCEPT ![r] = <<>>]
           /\ wbuf' = [wbuf EXCEPT ![w] = <<>>]
           /\ werr' = [werr EXCEPT ![w] = FALSE]
    /\ UNCHANGED <<clientVars, arrived, failed, socketVars, remote, out, lines>>

-----------------------------------------------------------------------------
(* Reading.                                                                *)

\* External: the client closes after its last line.
HangUp(c) ==
    /\ localOpen[c]
    /\ ~hungup[c]
    /\ hungup' = [hungup EXCEPT ![c] = TRUE]
    /\ UNCHANGED <<pc, input, arrived, failed, socketVars, remote, poolVars, rbuf, wbuf,
                   werr, out, lines>>

\* ReadLine with an empty buffer reads some of the lines on the socket.
FillReader(c) ==
    /\ pc[c] = "read"
    /\ rbuf[rd[c]] = <<>>
    /\ \E k \in (arrived[c] + 1)..Len(input[c]) :
           /\ rbuf' = [rbuf EXCEPT ![rd[c]] = [i \in 1..(k - arrived[c]) |-> <<c, arrived[c] + i>>]]
           /\ arrived' = [arrived EXCEPT ![c] = k]
    /\ UNCHANGED <<pc, clientVars, failed, socketVars, remote, poolVars, wbuf, werr, out, lines>>

\* The units of line l = <<c, i>>.
Units(l) == [u \in 1..Size(input[l[1]][l[2]]) |-> <<l[1], l[2], u>>]

\* ReadLine returns a line; convertGraphite converts it, or rejects it and the
\* loop goes on to the next.
ReadLine(c) ==
    /\ pc[c] = "read"
    /\ rbuf[rd[c]] # <<>>
    /\ LET l == Head(rbuf[rd[c]])
       IN  /\ Goto(c, "read", IF Units(l) = <<>> THEN "read" ELSE "write")
           /\ out' = [out EXCEPT ![c] = Units(l)]
           /\ lines' = [lines EXCEPT ![c] = Append(@, l)]
    /\ rbuf' = [rbuf EXCEPT ![rd[c]] = Tail(@)]
    /\ UNCHANGED <<clientVars, arrived, failed, socketVars, remote, poolVars, wbuf, werr>>

\* Mutant: EOF skips the deferred flush.
ReadEOF_NoFlush(c) ==
    /\ Goto(c, "read", "putWriter")
    /\ rbuf[rd[c]] = <<>>
    /\ hungup[c] /\ arrived[c] = Len(input[c])
    /\ UNCHANGED <<clientVars, arrived, failed, socketVars, remote, poolVars, rbuf, wbuf,
                   werr, out, lines>>

\* Mutant: EOF is retried like a rejected line.
ReadEOF_Loops(c) ==
    /\ pc[c] = "read"
    /\ rbuf[rd[c]] = <<>>
    /\ hungup[c] /\ arrived[c] = Len(input[c])
    /\ UNCHANGED vars

\* io.EOF: the client closed and everything it sent was read.
ReadEOF(c) ==
    /\ Goto(c, "read", "lastFlush")
    /\ rbuf[rd[c]] = <<>>
    /\ hungup[c] /\ arrived[c] = Len(input[c])
    /\ UNCHANGED <<clientVars, arrived, failed, socketVars, remote, poolVars, rbuf, wbuf,
                   werr, out, lines>>

\* Any other error, at any time.
ReadFails(c) ==
    /\ Goto(c, "read", "lastFlush")
    /\ rbuf[rd[c]] = <<>>
    /\ failed' = [failed EXCEPT ![c] = TRUE]
    /\ UNCHANGED <<clientVars, arrived, socketVars, remote, poolVars, rbuf, wbuf, werr,
                   out, lines>>

-----------------------------------------------------------------------------
(* Writing: bufio.Writer as far as its callers see it.                     *)

Buffered(c) == Len(wbuf[wr[c]])
Available(c) == BufferSize - Buffered(c)

\* Write on the remote connection: all of data, or a part of it and an error.
\* ok says which, k how many units were sent.
Send(c, data, k, ok) ==
    /\ ok <=> k = Len(data)
    /\ remote' = [remote EXCEPT ![c] = @ \o SubSeq(data, 1, k)]
    /\ werr' = [werr EXCEPT ![wr[c]] = ~ok]

\* The rest of the line fits the buffer.
WriteFits(c) ==
    /\ Goto(c, "write", "check")
    /\ Len(out[c]) <= Available(c)
    /\ wbuf' = [wbuf EXCEPT ![wr[c]] = @ \o out[c]]
    /\ out' = [out EXCEPT ![c] = <<>>]
    /\ UNCHANGED <<clientVars, arrived, failed, socketVars, remote, poolVars, rbuf, werr, lines>>

\* It does not, and the buffer is empty: it is sent without being copied.
WriteDirect(c) ==
    /\ pc[c] = "write"
    /\ Len(out[c]) > Available(c)
    /\ Buffered(c) = 0
    /\ \E k \in 0..Len(out[c]), ok \in BOOLEAN :
           /\ Send(c, out[c], k, ok)
           /\ Goto(c, "write", IF ok THEN "check" ELSE "lastFlush")
           /\ failed' = [failed EXCEPT ![c] = @ \/ ~ok]
    /\ out' = [out EXCEPT ![c] = <<>>]
    /\ UNCHANGED <<clientVars, arrived, socketVars, poolVars, rbuf, wbuf, lines>>

\* It does not: the buffer is filled up and sent, and Write goes on.
WriteSplits(c) ==
    /\ pc[c] = "write"
    /\ Len(out[c]) > Available(c)
    /\ Buffered(c) > 0
    /\ LET full == wbuf[wr[c]] \o SubSeq(out[c], 1, Available(c))
       IN  \E k \in 0..Len(full), ok \in BOOLEAN :
               /\ Send(c, full, k, ok)
               /\ wbuf' = [wbuf EXCEPT ![wr[c]] = SubSeq(full, k + 1, Len(full))]
               /\ Goto(c, "write", IF ok THEN "write" ELSE "lastFlush")
               /\ failed' = [failed EXCEPT ![c] = @ \/ ~ok]
    /\ out' = [out EXCEPT ![c] = SubSeq(@, Available(c) + 1, Len(@))]
    /\ UNCHANGED <<clientVars, arrived, socketVars, poolVars, rbuf, lines>>

\* Mutant: the buffer is flushed only when it is full.
CheckAvailable_Full(c) ==
    /\ pc[c] = "check"
    /\ Goto(c, "check", IF Available(c) < 1 THEN "flush" ELSE "read")
    /\ UNCHANGED <<clientVars, arrived, failed, socketVars, remote, poolVars, rbuf, wbuf,
                   werr, out, lines>>

CheckAvailable(c) ==
    /\ pc[c] = "check"
    /\ Goto(c, "check", IF Available(c) < LowWater THEN "flush" ELSE "read")
    /\ UNCHANGED <<clientVars, arrived, failed, socketVars, remote, poolVars, rbuf, wbuf,
                   werr, out, lines>>

\* Mutant: what a failed flush has sent stays in the buffer.
Flush_KeepsSent(c, from, onOk, onError) ==
    /\ pc[c] = from
    /\ ~werr[wr[c]]
    /\ \E k \in 0..Buffered(c), ok \in BOOLEAN :
           /\ Send(c, wbuf[wr[c]], k, ok)
           /\ Goto(c, from, IF ok THEN onOk ELSE onError)
           /\ failed' = [failed EXCEPT ![c] = @ \/ ~ok]
    /\ UNCHANGED <<clientVars, arrived, socketVars, poolVars, rbuf, wbuf, out, lines>>

\* writer.Flush sends the buffer and keeps what could not be sent.
Flush(c, from, onOk, onError) ==
    /\ pc[c] = from
    /\ ~werr[wr[c]]
    /\ \E k \in 0..Buffered(c), ok \in BOOLEAN :
           /\ Send(c, wbuf[wr[c]], k, ok)
           /\ wbuf' = [wbuf EXCEPT ![wr[c]] = SubSeq(@, k + 1, Len(@))]
           /\ Goto(c, from, IF ok THEN onOk ELSE onError)
           /\ failed' = [failed EXCEPT ![c] = @ \/ ~ok]
    /\ UNCHANGED <<clientVars, arrived, socketVars, poolVars, rbuf, out, lines>>

FlushInLoop(c) == Flush(c, "flush", "read", "lastFlush")

-----------------------------------------------------------------------------
(* The deferred calls, last registered first.                              *)

\* The result of the last flush is ignored.
LastFlush(c) == Flush(c, "lastFlush", "putWriter", "putWriter")

\* A writer with a sticky error sends nothing any more.
LastFlushRefused(c) ==
    /\ Goto(c, "lastFlush", "putWriter")
    /\ werr[wr[c]]
    /\ UNCHANGED <<clientVars, arrived, failed, socketVars, remote, poolVars, rbuf, wbuf,
                   werr, out, lines>>

\* Mutant: the writer stays with the goroutine that has put it back.
PutWriter_Kept(c) ==
    /\ Goto(c, "putWriter", "lastFlush")
    /\ freeWr' = freeWr \cup {wr[c]}
    /\ UNCHANGED <<clientVars, arrived, failed, socketVars, remote, rd, wr, freeRd, rbuf,
                   wbuf, werr, out, lines>>

PutWriter(c) ==
    /\ Goto(c, "putWriter", "putReader")
    /\ freeWr' = freeWr \cup {wr[c]}
    /\ wr' = [wr EXCEPT ![c] = None]
    /\ UNCHANGED <<clientVars, arrived, failed, socketVars, remote, rd, freeRd, rbuf, wbuf,
                   werr, out, lines>>

\* Mutant: nothing closes the remote connection.
PutReader_NoClose(c) ==
    /\ Goto(c, "putReader", "closeLocal")
    /\ freeRd' = freeRd \cup {rd[c]}
    /\ rd' = [rd EXCEPT ![c] = None]
    /\ UNCHANGED <<clientVars, arrived, failed, socketVars, remote, wr, freeWr, rbuf, wbuf,
                   werr, out, lines>>

\* Mutant: the deferred Put sees the variable after it was cleared.
PutReader_Nil(c) ==
    /\ Goto(c, "putReader", "closeRemote")
    /\ freeRd' = freeRd \cup {None}
    /\ rd' = [rd EXCEPT ![c] = None]
    /\ UNCHANGED <<clientVars, arrived, failed, socketVars, remote, wr, freeWr, rbuf, wbuf,
                   werr, out, lines>>

PutReader(c) ==
    /\ Goto(c, "putReader", "closeRemote")
    /\ freeRd' = freeRd \cup {rd[c]}
    /\ rd' = [rd EXCEPT ![c] = None]
    /\ UNCHANGED <<clientVars, arrived, failed, socketVars, remote, wr, freeWr, rbuf, wbuf,
                   werr, out, lines>>

CloseRemote(c) ==
    /\ Goto(c, "closeRemote", "closeLocal")
    /\ remoteOpen' = [remoteOpen EXCEPT ![c] = FALSE]
    /\ UNCHANGED <<clientVars, arrived, failed, localOpen, remote, poolVars, rbuf, wbuf,
                   werr, out, lines>>

CloseLocal(c) ==
    /\ Goto(c, "closeLocal", "ended")
    /\ localOpen' = [localOpen EXCEPT ![c] = FALSE]
    /\ UNCHANGED <<clientVars, arrived, failed, remoteOpen, remote, poolVars, rbuf, wbuf,
                   werr, out, lines>>

Goroutine(c) ==
    \/ DialOk(c) \/ DialFails(c) \/ Borrow(c)
    \/ FillReader(c) \/ ReadLine(c) \/ ReadEOF(c)
    \/ WriteFits(c) \/ WriteDirect(c) \/ WriteSplits(c)
    \/ CheckAvailable(c) \/ FlushInLoop(c)
    \/ LastFlush(c) \/ LastFlushRefused(c)
    \/ PutWriter(c) \/ PutReader(c) \/ CloseRemote(c) \/ CloseLocal(c)

\* The server waits in Accept when there is nothing else to do.
Waiting == (\A c \in Conns : pc[c] = "ended") /\ UNCHANGED vars

Next ==
    \/ \E c \in Conns : Accept(c) \/ HangUp(c) \/ ReadFails(c) \/ Goroutine(c)
    \/ Waiting

Spec == Init /\ [][Next]_vars

\* The Go scheduler runs every goroutine.  net.Dial and the writes have no
\* deadline: that they end is assumed of the remote and of TCP.
FairSpec == Spec /\ \A c \in Conns : WF_vars(Goroutine(c))

-----------------------------------------------------------------------------
(* Properties.                                                             *)

Unit == Conns \X Nat \X Nat

TypeOK ==
    /\ pc \in [Conns -> PcValues]
    /\ input \in [Conns -> Inputs]
    /\ arrived \in [Conns -> Nat]
    /\ hungup \in [Conns -> BOOLEAN]
    /\ failed \in [Conns -> BOOLEAN]
    /\ localOpen \in [Conns -> BOOLEAN]
    /\ remoteOpen \in [Conns -> BOOLEAN]
    /\ remote \in [Conns -> Seq(Unit)]
    /\ rd \in [Conns -> Objects \cup {None}]
    /\ wr \in [Conns -> Objects \cup {None}]
    /\ freeRd \subseteq Objects
    /\ freeWr \subseteq Objects
    /\ rbuf \in [Objects -> Seq(Conns \X Nat)]
    /\ wbuf \in [Objects -> Seq(Unit)]
    /\ werr \in [Objects -> BOOLEAN]
    /\ out \in [Conns -> Seq(Unit)]
    /\ lines \in [Conns -> Seq(Conns \X Nat)]

\* A pooled reader or writer has one user at a time: between Get and Put (lines
\* 79-90 and the deferred calls) nobody else holds it and it is not in the pool.
PoolExclusive ==
    \A c \in Conns :
        /\ rd[c] # None => rd[c] \notin freeRd /\ \A d \in Conns \ {c} : rd[d] # rd[c]
        /\ wr[c] # None => wr[c] \notin freeWr /\ \A d \in Conns \ {c} : wr[d] # wr[c]

\* A goroutine sees the lines of its own client, in order and without a gap,
\* whatever an earlier user left in the reader (lines 79-81 and 94).
OwnLines == \A c \in Conns : \A i \in 1..Len(lines[c]) : lines[c][i] = <<c, i>>

\* What the first m lines of client c are converted to.
Converted(c, m) == FlattenSeq([i \in 1..m |-> Units(<<c, i>>)])

\* Nothing but client c's converted lines goes to c's remote connection, in
\* order, without repetition and without a gap, even when writes fail half way
\* and writers with unsent data return to the pool (lines 83-87, 117-129).
OwnStream == \A c \in Conns : IsPrefix(remote[c], Converted(c, Len(input[c])))

\* While nothing fails, what was read is either sent or in the buffer: no line
\* is dropped at the boundary of the buffer (lines 110-129).
StreamConserved ==
    \A c \in Conns :
        wr[c] # None /\ ~failed[c] =>
            remote[c] \o wbuf[wr[c]] \o out[c] = Converted(c, Len(lines[c]))

\* A client that closes properly has had all its lines sent when its goroutine
\* ends: the deferred Flush runs before the remote is closed (lines 76-103).
DeliveredAtEOF ==
    \A c \in Conns :
        pc[c] = "ended" /\ ~failed[c] => remote[c] = Converted(c, Len(input[c]))

\* While the goroutine waits for its client, fewer than BufferSize - LowWater
\* units, or exactly that many, are held back (lines 123-125).
HeldBackBounded == \A c \in Conns : pc[c] = "read" => Available(c) >= LowWater

\* A goroutine that got its remote connection ends with both connections
\* closed and both buffers returned (the deferred calls of lines 76-84).
CleanExit ==
    [][\A c \in Conns :
          pc[c] \notin {"dial", "ended"} /\ pc'[c] = "ended" =>
              /\ ~localOpen'[c] /\ ~remoteOpen'[c]
              /\ rd'[c] = None /\ wr'[c] = None]_vars

\* When the client has closed, its goroutine ends.
EndsAfterHangUp == \A c \in Conns : hungup[c] ~> pc[c] = "ended"

=============================================================================
