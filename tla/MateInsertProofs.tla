-------------------------- MODULE MateInsertProofs --------------------------
(***************************************************************************)
(* Proofs about MateInsert, for any clients, inputs, pool and buffer sizes.*)
(*                                                                         *)
(* The inductive invariant IInv says of every client, by the place its     *)
(* goroutine is at, which pooled objects it holds, which of its lines are  *)
(* in the reader, how full the writer is, and how the three parts of its   *)
(* stream (sent, buffered, being written) make up the conversion of the    *)
(* lines read so far.  A step of one goroutine leaves every other client   *)
(* as it was (Frame), because no two hold the same object, so that each    *)
(* action is looked at for its own client only.                            *)
(***************************************************************************)
EXTENDS MateInsert, SequenceLemmas

-----------------------------------------------------------------------------
(* The converted stream.                                                   *)

Kinds == {"short", "wide", "bad"}

\* Converted(c, m), with the lines of c as a parameter.
Conv(in, c, m) == FlattenSeq([i \in 1..m |-> [u \in 1..Size(in[i]) |-> <<c, i, u>>]])

\* A line converts to a sequence of units.
LEMMA UnitsType ==
    ASSUME NEW in \in Seq(Kinds), NEW c \in Conns, NEW i \in 1..Len(in)
    PROVE  /\ Size(in[i]) \in Nat
           /\ [u \in 1..Size(in[i]) |-> <<c, i, u>>] \in Seq(Unit)
<1>1. in[i] \in Kinds OBVIOUS
<1>2. Size(in[i]) \in Nat BY <1>1 DEF Size, Kinds
<1>3. \A u \in 1..Size(in[i]) : <<c, i, u>> \in Unit BY <1>2 DEF Unit
<1> QED BY <1>2, <1>3

\* So do the first m lines, one sequence each.
LEMMA UnitsSeqType ==
    ASSUME NEW in \in Seq(Kinds), NEW c \in Conns, NEW m \in 0..Len(in)
    PROVE  /\ [i \in 1..m |-> [u \in 1..Size(in[i]) |-> <<c, i, u>>]] \in Seq(Seq(Unit))
           /\ Len([i \in 1..m |-> [u \in 1..Size(in[i]) |-> <<c, i, u>>]]) = m
<1>1. \A i \in 1..m : [u \in 1..Size(in[i]) |-> <<c, i, u>>] \in Seq(Unit) BY UnitsType
<1> QED BY <1>1

\* The stream of the first m lines is a sequence of units.
LEMMA ConvType ==
    ASSUME NEW in \in Seq(Kinds), NEW c \in Conns, NEW m \in 0..Len(in)
    PROVE  Conv(in, c, m) \in Seq(Unit)
BY UnitsSeqType, FlattenSeqType DEF Conv

\* No lines, no stream.
LEMMA ConvZero ==
    ASSUME NEW in, NEW c
    PROVE  Conv(in, c, 0) = <<>>
<1>1. [i \in 1..0 |-> [u \in 1..Size(in[i]) |-> <<c, i, u>>]] = <<>> OBVIOUS
<1> QED BY <1>1, FlattenSeqEmpty DEF Conv

\* One more line adds its units at the end.
LEMMA ConvStep ==
    ASSUME NEW in \in Seq(Kinds), NEW c \in Conns, NEW m \in Nat, m + 1 <= Len(in)
    PROVE  Conv(in, c, m + 1) =
               Conv(in, c, m) \o [u \in 1..Size(in[m + 1]) |-> <<c, m + 1, u>>]
<1> DEFINE e(i) == [u \in 1..Size(in[i]) |-> <<c, i, u>>]
           s == [i \in 1..m |-> e(i)]
           t == [i \in 1..(m + 1) |-> e(i)]
<1>1. s \in Seq(Seq(Unit)) /\ Len(s) = m
  <2>1. m \in 0..Len(in) OBVIOUS
  <2> QED BY <2>1, UnitsSeqType
<1>2. t \in Seq(Seq(Unit)) /\ Len(t) = m + 1
  <2>1. m + 1 \in 0..Len(in) OBVIOUS
  <2> QED BY <2>1, UnitsSeqType
<1>3. \A i \in 1..m : s[i] = t[i] OBVIOUS
<1>4. t[m + 1] = e(m + 1) OBVIOUS
<1>5. FlattenSeq(t) = FlattenSeq(s) \o t[m + 1]
  <2> HIDE DEF s, t
  <2> QED BY <1>1, <1>2, <1>3, FlattenSeqStep
<1> QED BY <1>4, <1>5 DEF Conv

\* The stream of the first lines is a beginning of the stream of all of them.
LEMMA ConvPrefix ==
    ASSUME NEW in \in Seq(Kinds), NEW c \in Conns, NEW m \in 0..Len(in)
    PROVE  \E rest \in Seq(Unit) : Conv(in, c, Len(in)) = Conv(in, c, m) \o rest
<1> DEFINE P(n) == m + n <= Len(in) =>
                       \E rest \in Seq(Unit) : Conv(in, c, m + n) = Conv(in, c, m) \o rest
           S == {n \in Nat : P(n)}
<1>0. Conv(in, c, m) \in Seq(Unit) BY ConvType
<1>1. 0 \in S
  <2>1. <<>> \in Seq(Unit) /\ m + 0 = m OBVIOUS
  <2>2. Conv(in, c, m) = Conv(in, c, m) \o <<>> BY <1>0, ConcatEmptySeq
  <2>3. \E rest \in Seq(Unit) : Conv(in, c, m) = Conv(in, c, m) \o rest
    <3> WITNESS <<>> \in Seq(Unit)
    <3> QED BY <2>2
  <2>4. P(0) BY <2>1, <2>3
  <2> QED BY <2>4
<1>2. ASSUME NEW n \in Nat, n \in S PROVE n + 1 \in S
  <2>1. SUFFICES ASSUME m + (n + 1) <= Len(in)
                 PROVE  \E rest \in Seq(Unit) : Conv(in, c, m + (n + 1)) = Conv(in, c, m) \o rest
    OBVIOUS
  <2>2. PICK rest \in Seq(Unit) : Conv(in, c, m + n) = Conv(in, c, m) \o rest
    <3>1. P(n) BY <1>2
    <3>2. m + n <= Len(in) BY <2>1
    <3> QED BY <3>1, <3>2
  <2> DEFINE e == [u \in 1..Size(in[m + n + 1]) |-> <<c, m + n + 1, u>>]
  <2>3. e \in Seq(Unit)
    <3>1. m + n + 1 \in 1..Len(in) BY <2>1
    <3> QED BY <3>1, UnitsType
  <2>4. Conv(in, c, m + (n + 1)) = Conv(in, c, m + n) \o e
    <3>1. m + n \in Nat /\ m + n + 1 <= Len(in) /\ m + (n + 1) = m + n + 1 BY <2>1
    <3> QED BY <3>1, ConvStep
  <2> HIDE DEF e
  <2>5. (Conv(in, c, m) \o rest) \o e = Conv(in, c, m) \o (rest \o e)
    BY <1>0, <2>3, ConcatAssociative
  <2>6. rest \o e \in Seq(Unit) BY <2>3, ConcatProperties
  <2> QED BY <2>2, <2>4, <2>5, <2>6
<1>3. \A n \in Nat : n \in S
  <2> HIDE DEF S
  <2> QED BY <1>1, <1>2, SetInduction
<1>4. P(Len(in) - m)
  <2>1. Len(in) - m \in Nat OBVIOUS
  <2> QED BY <1>3, <2>1
<1>5. m + (Len(in) - m) = Len(in) OBVIOUS
<1> QED BY <1>4, <1>5

-----------------------------------------------------------------------------
(* The inductive invariant.                                                *)

WithWriter == {"read", "write", "check", "flush", "lastFlush", "putWriter"}
WithReader == WithWriter \cup {"putReader"}
Unstarted == {"none", "dial", "borrow"}
Sent == {"putWriter", "putReader", "closeRemote", "closeLocal", "ended"}

\* The goroutine holds a reader and a writer exactly between Get and Put.
Held(c) ==
    /\ pc[c] \in WithReader <=> rd[c] # None
    /\ pc[c] \in WithWriter <=> wr[c] # None

\* Nothing has been read or written before the objects are borrowed.
Started(c) ==
    pc[c] \in Unstarted => /\ arrived[c] = 0 /\ lines[c] = <<>>
                           /\ remote[c] = <<>> /\ out[c] = <<>>

\* The lines that have arrived are those returned by ReadLine, followed by
\* those in the reader.
Ahead(c) ==
    /\ Len(lines[c]) <= arrived[c] /\ arrived[c] <= Len(input[c])
    /\ \A i \in 1..Len(lines[c]) : lines[c][i] = <<c, i>>
    /\ rd[c] # None =>
           /\ Len(lines[c]) + Len(rbuf[rd[c]]) = arrived[c]
           /\ \A i \in 1..Len(rbuf[rd[c]]) : rbuf[rd[c]][i] = <<c, Len(lines[c]) + i>>

\* The buffer never exceeds its size, and has LowWater units left in "read".
Room(c) ==
    wr[c] # None =>
        /\ Len(wbuf[wr[c]]) <= BufferSize
        /\ pc[c] = "read" => Len(wbuf[wr[c]]) + LowWater <= BufferSize

\* A writer's error sends its goroutine to the deferred calls; without one, no
\* part of a line is left behind.
Error(c) ==
    wr[c] # None =>
        /\ werr[wr[c]] => failed[c] /\ pc[c] \in {"lastFlush", "putWriter"}
        /\ ~werr[wr[c]] => pc[c] = "write" \/ out[c] = <<>>

Extends(s, t) == \E rest \in Seq(Unit) : s = t \o rest

\* What was sent is a beginning of the stream of the lines read, always.
Prefix(c) == Extends(Conv(input[c], c, Len(lines[c])), remote[c])

\* Until the writer fails, nothing of that stream is missing.
Conserved(c) ==
    wr[c] # None /\ ~werr[wr[c]] =>
        remote[c] \o wbuf[wr[c]] \o out[c] = Conv(input[c], c, Len(lines[c]))

\* A goroutine that nothing failed leaves the loop at the end of its input, and
\* has sent everything after the last flush.
Finish(c) ==
    /\ pc[c] \in Sent \cup {"lastFlush"} /\ ~failed[c] => Len(lines[c]) = Len(input[c])
    /\ pc[c] \in Sent /\ ~failed[c] => remote[c] = Conv(input[c], c, Len(lines[c]))

Sockets(c) == remoteOpen[c] <=> pc[c] \in (WithReader \cup {"borrow", "closeRemote"})

Client(c) ==
    /\ Held(c) /\ Started(c) /\ Ahead(c) /\ Room(c) /\ Error(c)
    /\ Prefix(c) /\ Conserved(c) /\ Finish(c) /\ Sockets(c)

IInv == TypeOK /\ PoolExclusive /\ \A c \in Conns : Client(c)

\* What a step of another goroutine leaves alone.
Same(d) ==
    /\ pc'[d] = pc[d] /\ input'[d] = input[d] /\ arrived'[d] = arrived[d]
    /\ failed'[d] = failed[d] /\ remoteOpen'[d] = remoteOpen[d] /\ remote'[d] = remote[d]
    /\ rd'[d] = rd[d] /\ wr'[d] = wr[d] /\ out'[d] = out[d] /\ lines'[d] = lines[d]
    /\ rd[d] # None => rbuf'[rd[d]] = rbuf[rd[d]]
    /\ wr[d] # None => wbuf'[wr[d]] = wbuf[wr[d]] /\ werr'[wr[d]] = werr[wr[d]]

\* Then what the invariant says of client d stays true.
LEMMA Frame ==
    ASSUME NEW d \in Conns, Client(d), Same(d)
    PROVE  Client(d)'
<1>1. Held(d)' BY DEF Client, Same, Held
<1>2. Started(d)' BY DEF Client, Same, Started
<1>3. Ahead(d)' BY DEF Client, Same, Ahead
<1>4. Room(d)' BY DEF Client, Same, Room
<1>5. Error(d)' BY DEF Client, Same, Error
<1>6. Prefix(d)' BY DEF Client, Same, Prefix
<1>7. Conserved(d)' BY DEF Client, Same, Conserved
<1>8. Finish(d)' BY DEF Client, Same, Finish
<1>9. Sockets(d)' BY DEF Client, Same, Sockets
<1> QED BY <1>1, <1>2, <1>3, <1>4, <1>5, <1>6, <1>7, <1>8, <1>9 DEF Client

-----------------------------------------------------------------------------
(* Actions that move no data: connecting, hanging up, the checks, closing. *)

\* An action that touches only pc, failed, hungup and the sockets of client c.
LEMMA ControlStep ==
    ASSUME IInv, NEW c \in Conns,
           UNCHANGED <<input, arrived, remote, poolVars, rbuf, wbuf, werr, out, lines>>,
           \A d \in Conns \ {c} : /\ pc'[d] = pc[d] /\ failed'[d] = failed[d]
                                  /\ remoteOpen'[d] = remoteOpen[d],
           TypeOK', Held(c)', Started(c)', Room(c)', Error(c)', Finish(c)', Sockets(c)'
    PROVE  IInv'
<1>1. PoolExclusive' BY DEF IInv, PoolExclusive, poolVars
<1>2. \A d \in Conns \ {c} : Same(d) BY DEF Same, poolVars
<1>3. Ahead(c)' BY DEF IInv, Client, Ahead, poolVars
<1>4. Prefix(c)' BY DEF IInv, Client, Prefix
<1>5. Conserved(c)' BY DEF IInv, Client, Conserved, poolVars
<1>6. Client(c)' BY <1>3, <1>4, <1>5 DEF Client
<1> QED BY <1>1, <1>2, <1>6, Frame DEF IInv

\* Accept starts a goroutine.
LEMMA AcceptStep ==
    ASSUME IInv, NEW c \in Conns, Accept(c)
    PROVE  IInv'
<1> USE DEF IInv, Accept, Goto, clientVars, poolVars, socketVars
<1>1. TypeOK' BY DEF TypeOK, PcValues
<1>2. Held(c)' BY DEF TypeOK, Client, Held, WithReader, WithWriter
<1>3. Started(c)' BY DEF TypeOK, Client, Started, Unstarted
<1>4. Room(c)' BY SizesAssumption DEF TypeOK, Client, Room, Available, Buffered
<1>5. Error(c)' BY DEF TypeOK, Client, Error
<1>6. Finish(c)' BY DEF TypeOK, Client, Finish, Sent
<1>7. Sockets(c)' BY DEF TypeOK, Client, Sockets, WithReader, WithWriter
<1>8. \A d \in Conns \ {c} : /\ pc'[d] = pc[d] /\ failed'[d] = failed[d]
                              /\ remoteOpen'[d] = remoteOpen[d]
  BY DEF TypeOK
<1>9. UNCHANGED <<input, arrived, remote, poolVars, rbuf, wbuf, werr, out, lines>> OBVIOUS
<1> HIDE DEF IInv
<1> QED BY <1>1, <1>2, <1>3, <1>4, <1>5, <1>6, <1>7, <1>8, <1>9, ControlStep

\* The client hangs up.
LEMMA HangUpStep ==
    ASSUME IInv, NEW c \in Conns, HangUp(c)
    PROVE  IInv'
<1> USE DEF IInv, HangUp, Goto, clientVars, poolVars, socketVars
<1>1. TypeOK' BY DEF TypeOK, PcValues
<1>2. Held(c)' BY DEF TypeOK, Client, Held, WithReader, WithWriter
<1>3. Started(c)' BY DEF TypeOK, Client, Started, Unstarted
<1>4. Room(c)' BY SizesAssumption DEF TypeOK, Client, Room, Available, Buffered
<1>5. Error(c)' BY DEF TypeOK, Client, Error
<1>6. Finish(c)' BY DEF TypeOK, Client, Finish, Sent
<1>7. Sockets(c)' BY DEF TypeOK, Client, Sockets, WithReader, WithWriter
<1>8. \A d \in Conns \ {c} : /\ pc'[d] = pc[d] /\ failed'[d] = failed[d]
                              /\ remoteOpen'[d] = remoteOpen[d]
  BY DEF TypeOK
<1>9. UNCHANGED <<input, arrived, remote, poolVars, rbuf, wbuf, werr, out, lines>> OBVIOUS
<1> HIDE DEF IInv
<1> QED BY <1>1, <1>2, <1>3, <1>4, <1>5, <1>6, <1>7, <1>8, <1>9, ControlStep

\* The remote connection is made.
LEMMA DialOkStep ==
    ASSUME IInv, NEW c \in Conns, DialOk(c)
    PROVE  IInv'
<1> USE DEF IInv, DialOk, Goto, clientVars, poolVars, socketVars
<1>1. TypeOK' BY DEF TypeOK, PcValues
<1>2. Held(c)' BY DEF TypeOK, Client, Held, WithReader, WithWriter
<1>3. Started(c)' BY DEF TypeOK, Client, Started, Unstarted
<1>4. Room(c)' BY SizesAssumption DEF TypeOK, Client, Room, Available, Buffered
<1>5. Error(c)' BY DEF TypeOK, Client, Error
<1>6. Finish(c)' BY DEF TypeOK, Client, Finish, Sent
<1>7. Sockets(c)' BY DEF TypeOK, Client, Sockets, WithReader, WithWriter
<1>8. \A d \in Conns \ {c} : /\ pc'[d] = pc[d] /\ failed'[d] = failed[d]
                              /\ remoteOpen'[d] = remoteOpen[d]
  BY DEF TypeOK
<1>9. UNCHANGED <<input, arrived, remote, poolVars, rbuf, wbuf, werr, out, lines>> OBVIOUS
<1> HIDE DEF IInv
<1> QED BY <1>1, <1>2, <1>3, <1>4, <1>5, <1>6, <1>7, <1>8, <1>9, ControlStep

\* It is not.
LEMMA DialFailsStep ==
    ASSUME IInv, NEW c \in Conns, DialFails(c)
    PROVE  IInv'
<1> USE DEF IInv, DialFails, Goto, clientVars, poolVars, socketVars
<1>1. TypeOK' BY DEF TypeOK, PcValues
<1>2. Held(c)' BY DEF TypeOK, Client, Held, WithReader, WithWriter
<1>3. Started(c)' BY DEF TypeOK, Client, Started, Unstarted
<1>4. Room(c)' BY SizesAssumption DEF TypeOK, Client, Room, Available, Buffered
<1>5. Error(c)' BY DEF TypeOK, Client, Error
<1>6. Finish(c)' BY DEF TypeOK, Client, Finish, Sent
<1>7. Sockets(c)' BY DEF TypeOK, Client, Sockets, WithReader, WithWriter
<1>8. \A d \in Conns \ {c} : /\ pc'[d] = pc[d] /\ failed'[d] = failed[d]
                              /\ remoteOpen'[d] = remoteOpen[d]
  BY DEF TypeOK
<1>9. UNCHANGED <<input, arrived, remote, poolVars, rbuf, wbuf, werr, out, lines>> OBVIOUS
<1> HIDE DEF IInv
<1> QED BY <1>1, <1>2, <1>3, <1>4, <1>5, <1>6, <1>7, <1>8, <1>9, ControlStep

\* At EOF the reader is empty: all the lines of the client have been read.
LEMMA ReadEOFStep ==
    ASSUME IInv, NEW c \in Conns, ReadEOF(c)
    PROVE  IInv'
<1> USE DEF IInv, ReadEOF, Goto, clientVars, poolVars, socketVars
<1>1. TypeOK' BY DEF TypeOK, PcValues
<1>2. Held(c)' BY DEF TypeOK, Client, Held, WithReader, WithWriter
<1>3. Started(c)' BY DEF TypeOK, Client, Started, Unstarted
<1>4. Room(c)' BY SizesAssumption DEF TypeOK, Client, Room, Available, Buffered
<1>5. Error(c)' BY DEF TypeOK, Client, Error
<1>6. Finish(c)' 
  <2>1. pc'[c] = "lastFlush" /\ rd[c] # None BY DEF TypeOK, Client, Held, WithReader, WithWriter
  <2>2. lines[c] \in Seq(Conns \X Nat) /\ arrived[c] \in Nat BY DEF TypeOK
  <2>3. Len(lines[c]) + Len(rbuf[rd[c]]) = arrived[c] BY <2>1 DEF Client, Ahead
  <2>4. Len(lines[c]) = Len(input[c]) BY <2>2, <2>3
  <2> QED BY <2>1, <2>4 DEF Finish, Sent
<1>7. Sockets(c)' BY DEF TypeOK, Client, Sockets, WithReader, WithWriter
<1>8. \A d \in Conns \ {c} : /\ pc'[d] = pc[d] /\ failed'[d] = failed[d]
                              /\ remoteOpen'[d] = remoteOpen[d]
  BY DEF TypeOK
<1>9. UNCHANGED <<input, arrived, remote, poolVars, rbuf, wbuf, werr, out, lines>> OBVIOUS
<1> HIDE DEF IInv
<1> QED BY <1>1, <1>2, <1>3, <1>4, <1>5, <1>6, <1>7, <1>8, <1>9, ControlStep

\* A read fails.
LEMMA ReadFailsStep ==
    ASSUME IInv, NEW c \in Conns, ReadFails(c)
    PROVE  IInv'
<1> USE DEF IInv, ReadFails, Goto, clientVars, poolVars, socketVars
<1>1. TypeOK' BY DEF TypeOK, PcValues
<1>2. Held(c)' BY DEF TypeOK, Client, Held, WithReader, WithWriter
<1>3. Started(c)' BY DEF TypeOK, Client, Started, Unstarted
<1>4. Room(c)' BY SizesAssumption DEF TypeOK, Client, Room, Available, Buffered
<1>5. Error(c)' BY DEF TypeOK, Client, Error
<1>6. Finish(c)' BY DEF TypeOK, Client, Finish, Sent
<1>7. Sockets(c)' BY DEF TypeOK, Client, Sockets, WithReader, WithWriter
<1>8. \A d \in Conns \ {c} : /\ pc'[d] = pc[d] /\ failed'[d] = failed[d]
                              /\ remoteOpen'[d] = remoteOpen[d]
  BY DEF TypeOK
<1>9. UNCHANGED <<input, arrived, remote, poolVars, rbuf, wbuf, werr, out, lines>> OBVIOUS
<1> HIDE DEF IInv
<1> QED BY <1>1, <1>2, <1>3, <1>4, <1>5, <1>6, <1>7, <1>8, <1>9, ControlStep

\* Back to "read" only with LowWater units available.
LEMMA CheckAvailableStep ==
    ASSUME IInv, NEW c \in Conns, CheckAvailable(c)
    PROVE  IInv'
<1> USE DEF IInv, CheckAvailable, Goto, clientVars, poolVars, socketVars
<1>1. TypeOK' BY DEF TypeOK, PcValues
<1>2. Held(c)' BY DEF TypeOK, Client, Held, WithReader, WithWriter
<1>3. Started(c)' BY DEF TypeOK, Client, Started, Unstarted
<1>4. Room(c)' BY SizesAssumption DEF TypeOK, Client, Room, Available, Buffered
<1>5. Error(c)' BY DEF TypeOK, Client, Error
<1>6. Finish(c)' BY DEF TypeOK, Client, Finish, Sent
<1>7. Sockets(c)' BY DEF TypeOK, Client, Sockets, WithReader, WithWriter
<1>8. \A d \in Conns \ {c} : /\ pc'[d] = pc[d] /\ failed'[d] = failed[d]
                              /\ remoteOpen'[d] = remoteOpen[d]
  BY DEF TypeOK
<1>9. UNCHANGED <<input, arrived, remote, poolVars, rbuf, wbuf, werr, out, lines>> OBVIOUS
<1> HIDE DEF IInv
<1> QED BY <1>1, <1>2, <1>3, <1>4, <1>5, <1>6, <1>7, <1>8, <1>9, ControlStep

\* The deferred flush of a failed writer.
LEMMA LastFlushRefusedStep ==
    ASSUME IInv, NEW c \in Conns, LastFlushRefused(c)
    PROVE  IInv'
<1> USE DEF IInv, LastFlushRefused, Goto, clientVars, poolVars, socketVars
<1>1. TypeOK' BY DEF TypeOK, PcValues
<1>2. Held(c)' BY DEF TypeOK, Client, Held, WithReader, WithWriter
<1>3. Started(c)' BY DEF TypeOK, Client, Started, Unstarted
<1>4. Room(c)' BY SizesAssumption DEF TypeOK, Client, Room, Available, Buffered
<1>5. Error(c)' BY DEF TypeOK, Client, Error
<1>6. Finish(c)' 
  <2>1. wr[c] # None BY DEF Client, Held, WithWriter
  <2>2. failed[c] BY <2>1 DEF Client, Error
  <2> QED BY <2>2 DEF Finish
<1>7. Sockets(c)' BY DEF TypeOK, Client, Sockets, WithReader, WithWriter
<1>8. \A d \in Conns \ {c} : /\ pc'[d] = pc[d] /\ failed'[d] = failed[d]
                              /\ remoteOpen'[d] = remoteOpen[d]
  BY DEF TypeOK
<1>9. UNCHANGED <<input, arrived, remote, poolVars, rbuf, wbuf, werr, out, lines>> OBVIOUS
<1> HIDE DEF IInv
<1> QED BY <1>1, <1>2, <1>3, <1>4, <1>5, <1>6, <1>7, <1>8, <1>9, ControlStep

\* Closing the remote connection.
LEMMA CloseRemoteStep ==
    ASSUME IInv, NEW c \in Conns, CloseRemote(c)
    PROVE  IInv'
<1> USE DEF IInv, CloseRemote, Goto, clientVars, poolVars, socketVars
<1>1. TypeOK' BY DEF TypeOK, PcValues
<1>2. Held(c)' BY DEF TypeOK, Client, Held, WithReader, WithWriter
<1>3. Started(c)' BY DEF TypeOK, Client, Started, Unstarted
<1>4. Room(c)' BY SizesAssumption DEF TypeOK, Client, Room, Available, Buffered
<1>5. Error(c)' BY DEF TypeOK, Client, Error
<1>6. Finish(c)' BY DEF TypeOK, Client, Finish, Sent
<1>7. Sockets(c)' BY DEF TypeOK, Client, Sockets, WithReader, WithWriter
<1>8. \A d \in Conns \ {c} : /\ pc'[d] = pc[d] /\ failed'[d] = failed[d]
                              /\ remoteOpen'[d] = remoteOpen[d]
  BY DEF TypeOK
<1>9. UNCHANGED <<input, arrived, remote, poolVars, rbuf, wbuf, werr, out, lines>> OBVIOUS
<1> HIDE DEF IInv
<1> QED BY <1>1, <1>2, <1>3, <1>4, <1>5, <1>6, <1>7, <1>8, <1>9, ControlStep

\* Closing the client's connection.
LEMMA CloseLocalStep ==
    ASSUME IInv, NEW c \in Conns, CloseLocal(c)
    PROVE  IInv'
<1> USE DEF IInv, CloseLocal, Goto, clientVars, poolVars, socketVars
<1>1. TypeOK' BY DEF TypeOK, PcValues
<1>2. Held(c)' BY DEF TypeOK, Client, Held, WithReader, WithWriter
<1>3. Started(c)' BY DEF TypeOK, Client, Started, Unstarted
<1>4. Room(c)' BY SizesAssumption DEF TypeOK, Client, Room, Available, Buffered
<1>5. Error(c)' BY DEF TypeOK, Client, Error
<1>6. Finish(c)' BY DEF TypeOK, Client, Finish, Sent
<1>7. Sockets(c)' BY DEF TypeOK, Client, Sockets, WithReader, WithWriter
<1>8. \A d \in Conns \ {c} : /\ pc'[d] = pc[d] /\ failed'[d] = failed[d]
                              /\ remoteOpen'[d] = remoteOpen[d]
  BY DEF TypeOK
<1>9. UNCHANGED <<input, arrived, remote, poolVars, rbuf, wbuf, werr, out, lines>> OBVIOUS
<1> HIDE DEF IInv
<1> QED BY <1>1, <1>2, <1>3, <1>4, <1>5, <1>6, <1>7, <1>8, <1>9, ControlStep

-----------------------------------------------------------------------------
(* Borrowing and reading.                                                  *)

\* Reset makes the borrowed objects empty, and nobody else holds them.
LEMMA BorrowStep ==
    ASSUME IInv, NEW c \in Conns, Borrow(c)
    PROVE  IInv'
<1> USE DEF IInv, Goto, clientVars, socketVars
<1>1. PICK r \in freeRd, w \in freeWr :
          /\ rd' = [rd EXCEPT ![c] = r] /\ freeRd' = freeRd \ {r}
          /\ wr' = [wr EXCEPT ![c] = w] /\ freeWr' = freeWr \ {w}
          /\ rbuf' = [rbuf EXCEPT ![r] = <<>>]
          /\ wbuf' = [wbuf EXCEPT ![w] = <<>>]
          /\ werr' = [werr EXCEPT ![w] = FALSE]
  BY DEF Borrow
<1>2. /\ Goto(c, "borrow", "read")
      /\ UNCHANGED <<clientVars, arrived, failed, socketVars, remote, out, lines>>
  BY DEF Borrow
<1>3. r \in Objects /\ w \in Objects /\ r # None /\ w # None
  BY <1>1, NoneAssumption DEF TypeOK
<1>4. TypeOK' BY <1>1, <1>2, <1>3 DEF TypeOK, PcValues
<1>5. rd[c] = None /\ wr[c] = None BY <1>2 DEF Client, Held, WithReader, WithWriter
<1>6. PoolExclusive' BY <1>1, <1>2, <1>3, <1>5 DEF TypeOK, PoolExclusive
<1>7. \A d \in Conns \ {c} : Same(d) BY <1>1, <1>2, <1>3 DEF TypeOK, PoolExclusive, Same
<1>8. Client(c)'
  <2>0. /\ pc'[c] = "read" /\ rd'[c] = r /\ wr'[c] = w
        /\ rbuf'[r] = <<>> /\ wbuf'[w] = <<>> /\ ~werr'[w]
        /\ arrived[c] = 0 /\ lines[c] = <<>> /\ remote[c] = <<>> /\ out[c] = <<>>
    BY <1>1, <1>2, <1>3 DEF TypeOK, Client, Started, Unstarted
  <2>1. Held(c)' BY <1>3, <2>0 DEF Held, WithReader, WithWriter
  <2>2. Started(c)' BY <2>0 DEF Started, Unstarted
  <2>3. Ahead(c)' BY <1>2, <2>0 DEF Client, Ahead
  <2>4. Room(c)' BY <2>0, SizesAssumption DEF Room
  <2>5. Error(c)' BY <1>2, <2>0 DEF Error
  <2>6. Prefix(c)' BY <1>2 DEF Client, Prefix
  <2>7. Conserved(c)'
    <3>1. Conv(input[c], c, 0) = <<>> BY ConvZero
    <3>2. Len(lines'[c]) = 0 /\ remote'[c] = <<>> /\ out'[c] = <<>> /\ input'[c] = input[c]
      BY <1>2, <2>0
    <3>3. <<>> \o <<>> \o <<>> = <<>> OBVIOUS
    <3> QED BY <2>0, <3>1, <3>2, <3>3 DEF Conserved
  <2>8. Finish(c)' BY <2>0 DEF Finish, Sent
  <2>9. Sockets(c)' BY <1>2, <2>0 DEF Client, Sockets, WithReader, WithWriter
  <2> QED BY <2>1, <2>2, <2>3, <2>4, <2>5, <2>6, <2>7, <2>8, <2>9 DEF Client
<1> QED BY <1>4, <1>6, <1>7, <1>8, Frame

\* The lines that arrive are the next ones of the same client.
LEMMA FillReaderStep ==
    ASSUME IInv, NEW c \in Conns, FillReader(c)
    PROVE  IInv'
<1> USE DEF IInv, clientVars, poolVars, socketVars
<1> DEFINE a == arrived[c]
           ahead(k) == [i \in 1..(k - a) |-> <<c, a + i>>]
<1>1. PICK k \in (a + 1)..Len(input[c]) :
          /\ rbuf' = [rbuf EXCEPT ![rd[c]] = ahead(k)]
          /\ arrived' = [arrived EXCEPT ![c] = k]
  BY DEF FillReader
<1>2. /\ pc[c] = "read" /\ rbuf[rd[c]] = <<>>
      /\ UNCHANGED <<pc, clientVars, failed, socketVars, remote, poolVars, wbuf, werr, out, lines>>
  BY DEF FillReader
<1>3. rd[c] \in Objects /\ rd[c] # None /\ wr[c] # None
  BY <1>2 DEF TypeOK, Client, Held, WithReader, WithWriter
<1>4. a \in Nat /\ Len(lines[c]) = a /\ input[c] \in Seq(Kinds)
  <2>1. lines[c] \in Seq(Conns \X Nat) /\ a \in Nat /\ input[c] \in Seq(Kinds)
    BY InputsAssumption DEF TypeOK, Kinds
  <2>2. Len(lines[c]) + Len(rbuf[rd[c]]) = a BY <1>3 DEF Client, Ahead
  <2> QED BY <1>2, <2>1, <2>2
<1>5. k \in Nat /\ k > a /\ k <= Len(input[c]) BY <1>4
<1>6. ahead(k) \in Seq(Conns \X Nat) /\ Len(ahead(k)) = k - a
  <2>1. k - a \in Nat BY <1>4, <1>5
  <2>2. \A i \in 1..(k - a) : <<c, a + i>> \in Conns \X Nat BY <1>4, <2>1
  <2> HIDE DEF a
  <2> QED BY <2>1, <2>2
<1>7. TypeOK'
  <2> HIDE DEF ahead
  <2> QED BY <1>1, <1>2, <1>3, <1>5, <1>6 DEF TypeOK
<1>8. PoolExclusive' BY <1>2 DEF PoolExclusive
<1>9. \A d \in Conns \ {c} : Same(d) BY <1>1, <1>2, <1>3 DEF TypeOK, PoolExclusive, Same
<1>10. Client(c)'
  <2>1. Held(c)' BY <1>2 DEF Client, Held
  <2>2. Started(c)' BY <1>2 DEF Started, Unstarted
  <2>3. Ahead(c)'
    <3>1. arrived'[c] = k /\ rbuf'[rd'[c]] = ahead(k) BY <1>1, <1>2, <1>3 DEF TypeOK
    <3>2. lines'[c] = lines[c] /\ input'[c] = input[c] BY <1>2
    <3>3. \A i \in 1..Len(ahead(k)) : ahead(k)[i] = <<c, a + i>> BY <1>4, <1>5, <1>6
    <3>4. \A i \in 1..Len(lines[c]) : lines[c][i] = <<c, i>> BY DEF Client, Ahead
    <3> DEFINE b == ahead(k)
    <3>5. Len(b) = k - a /\ rbuf'[rd'[c]] = b /\ \A i \in 1..Len(b) : b[i] = <<c, a + i>>
      BY <1>6, <3>1, <3>3
    <3> HIDE DEF b
    <3>6. \A i \in 1..Len(rbuf'[rd'[c]]) : rbuf'[rd'[c]][i] = <<c, Len(lines'[c]) + i>>
      BY <1>4, <3>2, <3>5
    <3>7. Len(lines'[c]) + Len(rbuf'[rd'[c]]) = arrived'[c] BY <1>4, <1>5, <3>1, <3>2, <3>5
    <3>8. Len(lines'[c]) <= arrived'[c] /\ arrived'[c] <= Len(input'[c]) BY <1>4, <1>5, <3>1, <3>2
    <3> QED BY <3>2, <3>4, <3>6, <3>7, <3>8 DEF Ahead
  <2>4. Room(c)' BY <1>2 DEF Client, Room
  <2>5. Error(c)' BY <1>2 DEF Client, Error
  <2>6. Prefix(c)' BY <1>2 DEF Client, Prefix
  <2>7. Conserved(c)' BY <1>2 DEF Client, Conserved
  <2>8. Finish(c)' BY <1>2 DEF Finish, Sent
  <2>9. Sockets(c)' BY <1>2 DEF Client, Sockets
  <2> QED BY <2>1, <2>2, <2>3, <2>4, <2>5, <2>6, <2>7, <2>8, <2>9 DEF Client
<1> QED BY <1>7, <1>8, <1>9, <1>10, Frame

\* The line read is the next one, and its units go to the end of the stream.
LEMMA ReadLineStep ==
    ASSUME IInv, NEW c \in Conns, ReadLine(c)
    PROVE  IInv'
<1> USE DEF IInv, clientVars, poolVars, socketVars
<1> DEFINE b == rbuf[rd[c]]
           m == Len(lines[c])
           l == <<c, m + 1>>
           e == [u \in 1..Size(input[c][m + 1]) |-> <<c, m + 1, u>>]
<1>1. /\ pc[c] = "read" /\ b # <<>>
      /\ Goto(c, "read", IF Units(Head(b)) = <<>> THEN "read" ELSE "write")
      /\ out' = [out EXCEPT ![c] = Units(Head(b))]
      /\ lines' = [lines EXCEPT ![c] = Append(@, Head(b))]
      /\ rbuf' = [rbuf EXCEPT ![rd[c]] = Tail(@)]
      /\ UNCHANGED <<clientVars, arrived, failed, socketVars, remote, poolVars, wbuf, werr>>
  BY DEF ReadLine
<1>2. rd[c] \in Objects /\ rd[c] # None /\ wr[c] \in Objects /\ wr[c] # None
  BY <1>1 DEF TypeOK, Client, Held, WithReader, WithWriter
<1>3. /\ b \in Seq(Conns \X Nat) /\ lines[c] \in Seq(Conns \X Nat) /\ m \in Nat
      /\ input[c] \in Seq(Kinds) /\ arrived[c] \in Nat
      /\ remote[c] \in Seq(Unit) /\ out[c] \in Seq(Unit) /\ wbuf[wr[c]] \in Seq(Unit)
  BY <1>2, InputsAssumption DEF TypeOK, Kinds
<1>4. /\ m + Len(b) = arrived[c] /\ arrived[c] <= Len(input[c])
      /\ \A i \in 1..Len(b) : b[i] = <<c, m + i>>
      /\ \A i \in 1..m : lines[c][i] = <<c, i>>
  BY <1>2 DEF Client, Ahead
<1>5. Len(b) \in Nat /\ Len(b) >= 1 BY <1>1, <1>3
<1>6. Head(b) = l
  <2>1. Head(b) = b[1] /\ 1 \in 1..Len(b) BY <1>1, <1>3, <1>5
  <2> QED BY <1>4, <2>1
<1>7. m + 1 \in 1..Len(input[c]) /\ m \in 0..Len(input[c])
  <2>1. Len(input[c]) \in Nat BY <1>3
  <2> HIDE DEF m, b
  <2> QED BY <1>3, <1>4, <1>5, <2>1
<1>8. e \in Seq(Unit) BY <1>3, <1>7, UnitsType
<1>9. Units(Head(b)) = e BY <1>6 DEF Units
<1>10. Tail(b) \in Seq(Conns \X Nat) /\ Len(Tail(b)) = Len(b) - 1
  BY <1>1, <1>3, HeadTailProperties
<1>11. Append(lines[c], l) \in Seq(Conns \X Nat) /\ Len(Append(lines[c], l)) = m + 1
  <2>1. l \in Conns \X Nat BY <1>3
  <2> QED BY <1>3, <2>1, AppendProperties
<1>12. /\ pc' = [pc EXCEPT ![c] = IF e = <<>> THEN "read" ELSE "write"]
       /\ out' = [out EXCEPT ![c] = e]
       /\ lines' = [lines EXCEPT ![c] = Append(lines[c], l)]
       /\ rbuf' = [rbuf EXCEPT ![rd[c]] = Tail(b)]
  BY <1>1, <1>6, <1>9 DEF Goto
<1>13. TypeOK'
  <2> HIDE DEF b, e, l
  <2>1. pc' \in [Conns -> PcValues] BY <1>12 DEF TypeOK, PcValues
  <2>2. out' \in [Conns -> Seq(Unit)] BY <1>8, <1>12 DEF TypeOK
  <2>3. lines' \in [Conns -> Seq(Conns \X Nat)] BY <1>11, <1>12 DEF TypeOK
  <2>4. rbuf' \in [Objects -> Seq(Conns \X Nat)] BY <1>10, <1>12 DEF TypeOK
  <2> QED BY <1>1, <2>1, <2>2, <2>3, <2>4 DEF TypeOK
<1>14. PoolExclusive' BY <1>1 DEF PoolExclusive
<1>15. \A d \in Conns \ {c} : Same(d)
  <2> HIDE DEF b, e, l
  <2> QED BY <1>1, <1>2, <1>12 DEF TypeOK, PoolExclusive, Same
<1>16. Client(c)'
  <2> DEFINE C == Conv(input[c], c, m)
  <2>0. /\ pc'[c] = (IF e = <<>> THEN "read" ELSE "write") /\ out'[c] = e
        /\ lines'[c] = Append(lines[c], l) /\ rbuf'[rd'[c]] = Tail(b)
    <3> HIDE DEF b, e, l
    <3> QED BY <1>1, <1>2, <1>12 DEF TypeOK
  <2>1. Held(c)' BY <1>1, <2>0 DEF Client, Held, WithReader, WithWriter
  <2>2. Started(c)' BY <2>0 DEF Started, Unstarted
  <2>3. Ahead(c)'
    <3>1. \A i \in 1..(m + 1) : Append(lines[c], l)[i] = <<c, i>>
      BY <1>3, <1>4, <1>11, AppendProperties
    <3>2. \A i \in 1..Len(Tail(b)) : Tail(b)[i] = <<c, (m + 1) + i>>
      <4>1. \A i \in 1..Len(Tail(b)) : Tail(b)[i] = b[i + 1] /\ i + 1 \in 1..Len(b)
        <5>1. \A i \in 1..Len(Tail(b)) : Tail(b)[i] = b[i + 1]
          BY <1>1, <1>3, HeadTailProperties
        <5> HIDE DEF b
        <5>2. \A i \in 1..Len(Tail(b)) : i + 1 \in 1..Len(b) BY <1>5, <1>10
        <5> QED BY <5>1, <5>2
      <4> QED BY <1>3, <1>4, <4>1
    <3> HIDE DEF b, l, e
    <3>3. Len(lines'[c]) = m + 1 /\ arrived'[c] = arrived[c] /\ input'[c] = input[c]
      BY <1>1, <1>11, <2>0
    <3>4. \A i \in 1..Len(lines'[c]) : lines'[c][i] = <<c, i>> BY <2>0, <3>1, <3>3
    <3>5. \A i \in 1..Len(rbuf'[rd'[c]]) : rbuf'[rd'[c]][i] = <<c, Len(lines'[c]) + i>>
      BY <2>0, <3>2, <3>3
    <3>6. Len(lines'[c]) + Len(rbuf'[rd'[c]]) = arrived'[c]
      BY <1>3, <1>4, <1>5, <1>10, <2>0, <3>3
    <3>7. Len(lines'[c]) <= arrived'[c] /\ arrived'[c] <= Len(input'[c])
      BY <1>3, <1>4, <1>5, <3>3
    <3> QED BY <3>4, <3>5, <3>6, <3>7 DEF Ahead
  <2>4. Room(c)' BY <1>1, <1>2 DEF Client, Room
  <2>5. ~werr[wr[c]] /\ out[c] = <<>> BY <1>1, <1>2 DEF Client, Error
  <2>6. Error(c)'
    <3> HIDE DEF e
    <3> QED BY <1>1, <2>0, <2>5 DEF Error
  <2>7. C \in Seq(Unit) BY <1>3, <1>7, ConvType
  <2>8. Conv(input[c], c, m + 1) = C \o e
    <3>1. m + 1 <= Len(input[c]) BY <1>7
    <3> QED BY <1>3, <3>1, ConvStep
  <2>9. Len(lines'[c]) = m + 1 /\ input'[c] = input[c] /\ remote'[c] = remote[c]
        /\ wr'[c] = wr[c] /\ wbuf' = wbuf
    BY <1>1, <1>11, <2>0
  <2>10. Prefix(c)'
    <3>1. PICK rest \in Seq(Unit) : C = remote[c] \o rest BY DEF Client, Prefix, Extends
    <3> HIDE DEF e, C
    <3>2. (remote[c] \o rest) \o e = remote[c] \o (rest \o e)
      <4> DEFINE r == remote[c]
      <4>1. r \in Seq(Unit) BY <1>3
      <4> HIDE DEF r
      <4>2. (r \o rest) \o e = r \o (rest \o e) BY <1>8, <4>1, ConcatAssociative
      <4> QED BY <4>2 DEF r
    <3>3. rest \o e \in Seq(Unit) BY <1>8, ConcatProperties
    <3>4. Conv(input[c], c, m + 1) = remote[c] \o (rest \o e) BY <2>8, <3>1, <3>2
    <3> QED BY <2>9, <3>3, <3>4 DEF Prefix, Extends
  <2>11. Conserved(c)'
    <3>1. remote[c] \o wbuf[wr[c]] \o <<>> = C BY <1>2, <2>5 DEF Client, Conserved
    <3>2. remote[c] \o wbuf[wr[c]] \in Seq(Unit) BY <1>3, ConcatProperties
    <3>3. remote[c] \o wbuf[wr[c]] = C BY <3>1, <3>2, ConcatEmptySeq
    <3> HIDE DEF e, C, l
    <3> QED BY <2>0, <2>8, <2>9, <3>3 DEF Conserved
  <2>12. Finish(c)' BY <2>0 DEF Finish, Sent
  <2>13. Sockets(c)' BY <1>1, <2>0 DEF Client, Sockets, WithReader, WithWriter
  <2> QED BY <2>1, <2>2, <2>3, <2>4, <2>6, <2>10, <2>11, <2>12, <2>13 DEF Client
<1> QED BY <1>13, <1>14, <1>15, <1>16, Frame

-----------------------------------------------------------------------------
(* Writing.                                                                *)

\* Sending a part of data keeps what was sent a beginning of the stream.
LEMMA SendStream ==
    ASSUME NEW r \in Seq(Unit), NEW data \in Seq(Unit), NEW tail \in Seq(Unit),
           NEW k \in 0..Len(data)
    PROVE  Extends((r \o data) \o tail, r \o SubSeq(data, 1, k))
<1> DEFINE a == SubSeq(data, 1, k)
           b == SubSeq(data, k + 1, Len(data))
<1>1. a \in Seq(Unit) /\ b \in Seq(Unit) /\ data = a \o b BY SplitSeq
<1> HIDE DEF a, b
<1>2. r \o a \in Seq(Unit) /\ b \o tail \in Seq(Unit) BY <1>1, ConcatProperties
<1>3. r \o (a \o b) = (r \o a) \o b BY <1>1, ConcatAssociative
<1>4. ((r \o a) \o b) \o tail = (r \o a) \o (b \o tail) BY <1>1, <1>2, ConcatAssociative
<1>5. (r \o data) \o tail = (r \o a) \o (b \o tail) BY <1>1, <1>3, <1>4
<1> QED BY <1>2, <1>5 DEF a, Extends

\* A write or a flush of client c: the new values of what it changes.
Writes(c, p, f, r, b, x, o) ==
    /\ UNCHANGED <<clientVars, arrived, socketVars, poolVars, rbuf, lines>>
    /\ p \in WithWriter /\ pc' = [pc EXCEPT ![c] = p]
    /\ f \in BOOLEAN /\ failed' = [failed EXCEPT ![c] = f]
    /\ r \in Seq(Unit) /\ remote' = [remote EXCEPT ![c] = r]
    /\ b \in Seq(Unit) /\ wbuf' = [wbuf EXCEPT ![wr[c]] = b]
    /\ x \in BOOLEAN /\ werr' = [werr EXCEPT ![wr[c]] = x]
    /\ o \in Seq(Unit) /\ out' = [out EXCEPT ![c] = o]

\* What these must satisfy: the buffer has room, an error ends the loop, the
\* part sent continues the stream, and without an error nothing is missing.
WritesWell(c, p, f, r, b, x, o) ==
    /\ Len(b) <= BufferSize
    /\ p = "read" => Len(b) + LowWater <= BufferSize
    /\ x => f /\ p \in {"lastFlush", "putWriter"}
    /\ ~x => p = "write" \/ o = <<>>
    /\ Extends(remote[c] \o wbuf[wr[c]] \o out[c], r)
    /\ ~x => r \o b \o o = remote[c] \o wbuf[wr[c]] \o out[c]
    /\ p \in {"lastFlush", "putWriter"} /\ ~f =>
           /\ pc[c] = "lastFlush" /\ ~failed[c]
           /\ p = "putWriter" /\ r = remote[c] \o wbuf[wr[c]] \o out[c]

\* Then the invariant is preserved.
LEMMA WriterStep ==
    ASSUME IInv, NEW c \in Conns, wr[c] # None, ~werr[wr[c]],
           NEW p, NEW f, NEW r, NEW b, NEW x, NEW o,
           Writes(c, p, f, r, b, x, o), WritesWell(c, p, f, r, b, x, o)
    PROVE  IInv'
<1> USE DEF IInv, clientVars, poolVars, socketVars, Writes
<1>1. wr[c] \in Objects BY DEF TypeOK
<1>2. TypeOK' BY <1>1 DEF TypeOK, PcValues, WithWriter
<1>3. PoolExclusive' BY DEF PoolExclusive
<1>4. \A d \in Conns \ {c} : Same(d) BY <1>1 DEF TypeOK, PoolExclusive, Same
<1>5. /\ pc'[c] = p /\ failed'[c] = f /\ remote'[c] = r /\ out'[c] = o
      /\ wr'[c] = wr[c] /\ wbuf'[wr[c]] = b /\ werr'[wr[c]] = x
  BY <1>1 DEF TypeOK
<1>6. remote[c] \o wbuf[wr[c]] \o out[c] = Conv(input[c], c, Len(lines[c]))
  BY DEF Client, Conserved
<1>7. Client(c)'
  <2>0. pc[c] \in WithWriter BY DEF Client, Held
  <2>1. Held(c)' BY <1>5, <2>0 DEF Client, Held, WithReader
  <2>2. Started(c)' BY <1>5 DEF Started, WithWriter, Unstarted
  <2>3. Ahead(c)' BY DEF Client, Ahead
  <2>4. Room(c)' BY <1>5 DEF Room, WritesWell
  <2>5. Error(c)' BY <1>5 DEF Error, WritesWell
  <2>6. Prefix(c)' BY <1>5, <1>6 DEF Prefix, WritesWell
  <2>7. Conserved(c)' BY <1>5, <1>6 DEF Conserved, WritesWell
  <2>8. Finish(c)' BY <1>5, <1>6 DEF Client, Finish, Sent, WithWriter, WritesWell
  <2>9. Sockets(c)' BY <1>5, <2>0 DEF Client, Sockets, WithReader
  <2> QED BY <2>1, <2>2, <2>3, <2>4, <2>5, <2>6, <2>7, <2>8, <2>9 DEF Client
<1> QED BY <1>2, <1>3, <1>4, <1>7, Frame

\* What the invariant says of the writer of a goroutine in its loop.
LEMMA WriterFacts ==
    ASSUME IInv, NEW c \in Conns, pc[c] \in WithWriter
    PROVE  /\ wr[c] # None /\ wr[c] \in Objects
           /\ remote[c] \in Seq(Unit) /\ wbuf[wr[c]] \in Seq(Unit) /\ out[c] \in Seq(Unit)
           /\ werr[wr[c]] \in BOOLEAN /\ failed[c] \in BOOLEAN
           /\ Len(wbuf[wr[c]]) <= BufferSize
           /\ BufferSize \in Nat /\ LowWater \in Nat /\ LowWater >= 1 /\ LowWater <= BufferSize
           /\ werr[wr[c]] => failed[c] /\ pc[c] \in {"lastFlush", "putWriter"}
           /\ ~werr[wr[c]] => pc[c] = "write" \/ out[c] = <<>>
BY SizesAssumption DEF IInv, TypeOK, Client, Held, Room, Error, WithWriter, WithReader

\* Copying the line into the buffer.
LEMMA WriteFitsStep ==
    ASSUME IInv, NEW c \in Conns, WriteFits(c)
    PROVE  IInv'
<1> DEFINE r == remote[c]
           w == wbuf[wr[c]]
           o == out[c]
           b == w \o o
<1>1. /\ pc[c] = "write" /\ pc' = [pc EXCEPT ![c] = "check"]
      /\ Len(o) <= BufferSize - Len(w)
      /\ wbuf' = [wbuf EXCEPT ![wr[c]] = b]
      /\ out' = [out EXCEPT ![c] = <<>>]
      /\ UNCHANGED <<clientVars, arrived, failed, socketVars, remote, poolVars, rbuf, werr, lines>>
  BY DEF WriteFits, Goto, Available, Buffered
<1>2. pc[c] \in WithWriter BY <1>1 DEF WithWriter
<1>3. /\ wr[c] # None /\ wr[c] \in Objects /\ r \in Seq(Unit) /\ w \in Seq(Unit) /\ o \in Seq(Unit)
      /\ failed[c] \in BOOLEAN /\ ~werr[wr[c]] /\ Len(w) <= BufferSize /\ BufferSize \in Nat
  BY <1>1, <1>2, WriterFacts
<1>4. failed' = [failed EXCEPT ![c] = failed[c]] /\ remote' = [remote EXCEPT ![c] = r]
      /\ werr' = [werr EXCEPT ![wr[c]] = FALSE]
  BY <1>1, <1>3 DEF IInv, TypeOK
<1>5. b \in Seq(Unit) /\ Len(b) <= BufferSize
  <2>1. b \in Seq(Unit) /\ Len(b) = Len(w) + Len(o) BY <1>3, ConcatProperties
  <2>2. Len(w) \in Nat /\ Len(o) \in Nat BY <1>3
  <2> HIDE DEF b, w, o
  <2> QED BY <1>1, <1>3, <2>1, <2>2
<1>6. r \o b \o <<>> = r \o w \o o /\ r \o w \o o = r \o b
  <2> HIDE DEF r, w, o
  <2>1. (r \o w) \o o = r \o b BY <1>3, ConcatAssociative
  <2>2. r \o b \in Seq(Unit) BY <1>3, <1>5, ConcatProperties
  <2> QED BY <2>1, <2>2, ConcatEmptySeq
<1>7. UNCHANGED <<clientVars, arrived, socketVars, poolVars, rbuf, lines>> BY <1>1
<1>8. "check" \in WithWriter /\ <<>> \in Seq(Unit) /\ FALSE \in BOOLEAN BY DEF WithWriter
<1>9. Extends(r \o w \o o, r) BY <1>5, <1>6 DEF Extends
<1>10. Writes(c, "check", failed[c], r, b, FALSE, <<>>)
  <2> HIDE DEF b
  <2> QED BY <1>1, <1>3, <1>4, <1>5, <1>7, <1>8 DEF Writes
<1>11. WritesWell(c, "check", failed[c], r, b, FALSE, <<>>)
  BY <1>5, <1>6, <1>9 DEF WritesWell
<1> HIDE DEF b, r
<1> QED BY <1>3, <1>10, <1>11, WriterStep

\* Sending the line past an empty buffer.
LEMMA WriteDirectStep ==
    ASSUME IInv, NEW c \in Conns, WriteDirect(c)
    PROVE  IInv'
<1> DEFINE r == remote[c]
           w == wbuf[wr[c]]
           o == out[c]
<1>1. PICK k \in 0..Len(o), ok \in BOOLEAN :
          /\ ok <=> k = Len(o)
          /\ remote' = [remote EXCEPT ![c] = r \o SubSeq(o, 1, k)]
          /\ werr' = [werr EXCEPT ![wr[c]] = ~ok]
          /\ pc' = [pc EXCEPT ![c] = IF ok THEN "check" ELSE "lastFlush"]
          /\ failed' = [failed EXCEPT ![c] = failed[c] \/ ~ok]
  BY DEF WriteDirect, Send, Goto
<1>2. /\ pc[c] = "write" /\ Len(w) = 0 /\ out' = [out EXCEPT ![c] = <<>>]
      /\ UNCHANGED <<clientVars, arrived, socketVars, poolVars, rbuf, wbuf, lines>>
  BY DEF WriteDirect, Buffered
<1>3. pc[c] \in WithWriter BY <1>2 DEF WithWriter
<1>4. /\ wr[c] # None /\ wr[c] \in Objects /\ r \in Seq(Unit) /\ w \in Seq(Unit) /\ o \in Seq(Unit)
      /\ failed[c] \in BOOLEAN /\ ~werr[wr[c]] /\ Len(w) <= BufferSize
  BY <1>2, <1>3, WriterFacts
<1>5. w = <<>> BY <1>2, <1>4, EmptySeq
<1> DEFINE p == IF ok THEN "check" ELSE "lastFlush"
           f == failed[c] \/ ~ok
           x == ~ok
           t == SubSeq(o, 1, k)
           s == r \o t
<1>6. t \in Seq(Unit) /\ (ok => t = o) BY <1>1, <1>4, SplitSeq, WholeSeq
<1>7. s \in Seq(Unit)
  <2> HIDE DEF r, t
  <2> QED BY <1>4, <1>6, ConcatProperties
<1>8. r \o w \o o = r \o o /\ s \o w \o <<>> = s
  <2>1. r \o w = r BY <1>4, <1>5, ConcatEmptySeq
  <2>2. s \o w = s /\ s \o <<>> = s
    <3> HIDE DEF s
    <3> QED BY <1>5, <1>7, ConcatEmptySeq
  <2> QED BY <2>1, <2>2
<1>9. Extends(r \o w \o o, s)
  <2>1. Extends((r \o o) \o <<>>, s)
    <3>1. <<>> \in Seq(Unit) OBVIOUS
    <3> HIDE DEF r, o
    <3> QED BY <1>4, <3>1, SendStream
  <2>2. (r \o o) \o <<>> = r \o o
    <3> HIDE DEF r, o
    <3>1. r \o o \in Seq(Unit) BY <1>4, ConcatProperties
    <3> QED BY <3>1, ConcatEmptySeq
  <2> HIDE DEF s
  <2> QED BY <1>8, <2>1, <2>2
<1>10. Writes(c, p, f, s, w, x, <<>>)
  <2>1. wbuf' = [wbuf EXCEPT ![wr[c]] = w] BY <1>2, <1>4 DEF IInv, TypeOK
  <2>2. p \in WithWriter /\ f \in BOOLEAN /\ x \in BOOLEAN BY <1>4 DEF WithWriter
  <2>3. <<>> \in Seq(Unit) OBVIOUS
  <2> QED BY <1>1, <1>2, <1>4, <1>7, <2>1, <2>2, <2>3 DEF Writes
<1>11. WritesWell(c, p, f, s, w, x, <<>>)
  <2>1. ~x => s \o w \o <<>> = r \o w \o o BY <1>6, <1>8
  <2> HIDE DEF s
  <2> QED BY <1>4, <1>9, <2>1 DEF WritesWell
<1> HIDE DEF p, f, s, w, x
<1> QED BY <1>4, <1>10, <1>11, WriterStep

\* The part of a line that fills the buffer up can be grouped with the buffer.
Regrouped(r, w, a, b) == (r \o w) \o (a \o b) = (r \o (w \o a)) \o b

LEMMA Regroup ==
    ASSUME NEW r \in Seq(Unit), NEW w \in Seq(Unit), NEW a \in Seq(Unit), NEW b \in Seq(Unit)
    PROVE  Regrouped(r, w, a, b)
<1> DEFINE v == r \o w
<1>1. v \in Seq(Unit) BY ConcatProperties
<1>2. v \o a = r \o (w \o a) BY ConcatAssociative
<1>3. (v \o a) \o b = v \o (a \o b)
  <2> HIDE DEF v
  <2> QED BY <1>1, ConcatAssociative
<1> HIDE DEF v
<1>4. v \o (a \o b) = (r \o (w \o a)) \o b BY <1>2, <1>3
<1> QED BY <1>4, Zenon DEF v, Regrouped

\* Filling the buffer up and sending it.
LEMMA WriteSplitsStep ==
    ASSUME IInv, NEW c \in Conns, WriteSplits(c)
    PROVE  IInv'
<1> DEFINE r == remote[c]
           w == wbuf[wr[c]]
           o == out[c]
           n == BufferSize - Len(w)
           o1 == SubSeq(o, 1, n)
           o2 == SubSeq(o, n + 1, Len(o))
           full == w \o o1
<1>1. PICK k \in 0..Len(full), ok \in BOOLEAN :
          /\ ok <=> k = Len(full)
          /\ remote' = [remote EXCEPT ![c] = r \o SubSeq(full, 1, k)]
          /\ werr' = [werr EXCEPT ![wr[c]] = ~ok]
          /\ wbuf' = [wbuf EXCEPT ![wr[c]] = SubSeq(full, k + 1, Len(full))]
          /\ pc' = [pc EXCEPT ![c] = IF ok THEN "write" ELSE "lastFlush"]
          /\ failed' = [failed EXCEPT ![c] = failed[c] \/ ~ok]
  BY DEF WriteSplits, Send, Goto, Available, Buffered
<1>2. /\ pc[c] = "write" /\ Len(o) > n /\ out' = [out EXCEPT ![c] = o2]
      /\ UNCHANGED <<clientVars, arrived, socketVars, poolVars, rbuf, lines>>
  BY DEF WriteSplits, Available, Buffered
<1>3. pc[c] \in WithWriter BY <1>2 DEF WithWriter
<1>4. /\ wr[c] # None /\ wr[c] \in Objects /\ r \in Seq(Unit) /\ w \in Seq(Unit) /\ o \in Seq(Unit)
      /\ failed[c] \in BOOLEAN /\ ~werr[wr[c]] /\ Len(w) <= BufferSize /\ BufferSize \in Nat
  BY <1>2, <1>3, WriterFacts
<1>5. n \in 0..Len(o)
  <2>1. Len(w) \in Nat /\ Len(o) \in Nat BY <1>4
  <2> QED BY <1>2, <1>4, <2>1
<1>6. o1 \in Seq(Unit) /\ o2 \in Seq(Unit) /\ Len(o1) = n /\ o = o1 \o o2
  <2> HIDE DEF o, n
  <2> QED BY <1>4, <1>5, SplitSeq
<1>7. full \in Seq(Unit) /\ Len(full) = BufferSize
  <2>1. full \in Seq(Unit) /\ Len(full) = Len(w) + n
    <3> HIDE DEF w, o1
    <3> QED BY <1>4, <1>6, ConcatProperties
  <2>2. Len(w) \in Nat BY <1>4
  <2> HIDE DEF w, o1
  <2> QED BY <1>4, <2>1, <2>2
<1> DEFINE p == IF ok THEN "write" ELSE "lastFlush"
           f == failed[c] \/ ~ok
           x == ~ok
           t == SubSeq(full, 1, k)
           b == SubSeq(full, k + 1, Len(full))
           s == r \o t
<1>8. /\ t \in Seq(Unit) /\ b \in Seq(Unit) /\ Len(b) <= BufferSize
      /\ ok => t = full /\ b = <<>>
  <2> HIDE DEF full
  <2>1. t \in Seq(Unit) /\ b \in Seq(Unit) /\ Len(b) = Len(full) - k BY <1>7, SplitSeq
  <2>2. ok => t = full /\ b = <<>> BY <1>1, <1>7, WholeSeq
  <2> HIDE DEF b
  <2> QED BY <1>4, <1>7, <2>1, <2>2
<1>9. s \in Seq(Unit)
  <2> HIDE DEF r, t
  <2> QED BY <1>4, <1>8, ConcatProperties
<1>10. r \o w \o o = (r \o full) \o o2
  <2> HIDE DEF r, w, o, n, o1, o2, p, f, x, t, b, s
  <2>1. o1 \in Seq(Unit) /\ o2 \in Seq(Unit) /\ o = o1 \o o2 BY <1>6
  <2>2. Regrouped(r, w, o1, o2)
    <3>1. r \in Seq(Unit) /\ w \in Seq(Unit) BY <1>4
    <3> HIDE DEF full
    <3> QED BY <2>1, <3>1, Regroup
  <2> HIDE DEF full
  <2>3. (r \o w) \o (o1 \o o2) = (r \o full) \o o2
    BY ONLY <2>2, Zenon DEF Regrouped, full
  <2> QED BY ONLY <2>1, <2>3, Zenon
<1>11. Extends(r \o w \o o, s)
  <2>1. Extends((r \o full) \o o2, s)
    <3> HIDE DEF r, o2, full
    <3> QED BY <1>4, <1>6, <1>7, SendStream
  <2> HIDE DEF r, w, o, s
  <2> QED BY <1>10, <2>1
<1>12. ok => s \o b \o o2 = r \o w \o o
  <2>1. s \o <<>> = s
    <3> HIDE DEF s
    <3> QED BY <1>9, ConcatEmptySeq
  <2>2. ok => s = r \o full BY <1>8
  <2> HIDE DEF r, w, o, o2, b, s, full
  <2> QED BY <1>8, <1>10, <2>1, <2>2
<1>13. Writes(c, p, f, s, b, x, o2)
  <2>1. p \in WithWriter /\ f \in BOOLEAN /\ x \in BOOLEAN BY <1>4 DEF WithWriter
  <2> QED BY <1>1, <1>2, <1>6, <1>8, <1>9, <2>1 DEF Writes
<1>14. WritesWell(c, p, f, s, b, x, o2)
  <2> HIDE DEF s, b, o2
  <2> QED BY <1>8, <1>11, <1>12 DEF WritesWell
<1> HIDE DEF p, f, s, b, x, o2
<1> QED BY <1>4, <1>13, <1>14, WriterStep

\* A flush, in the loop or deferred.
LEMMA FlushStep ==
    ASSUME IInv, NEW c \in Conns, NEW from, NEW onOk, NEW onError,
           Flush(c, from, onOk, onError),
           \/ from = "flush" /\ onOk = "read" /\ onError = "lastFlush"
           \/ from = "lastFlush" /\ onOk = "putWriter" /\ onError = "putWriter"
    PROVE  IInv'
<1> DEFINE r == remote[c]
           w == wbuf[wr[c]]
           o == out[c]
<1>1. PICK k \in 0..Len(w), ok \in BOOLEAN :
          /\ ok <=> k = Len(w)
          /\ remote' = [remote EXCEPT ![c] = r \o SubSeq(w, 1, k)]
          /\ werr' = [werr EXCEPT ![wr[c]] = ~ok]
          /\ wbuf' = [wbuf EXCEPT ![wr[c]] = SubSeq(w, k + 1, Len(w))]
          /\ pc' = [pc EXCEPT ![c] = IF ok THEN onOk ELSE onError]
          /\ failed' = [failed EXCEPT ![c] = failed[c] \/ ~ok]
  BY DEF Flush, Send, Goto, Buffered
<1>2. /\ pc[c] = from /\ ~werr[wr[c]]
      /\ UNCHANGED <<clientVars, arrived, socketVars, poolVars, rbuf, out, lines>>
  BY DEF Flush
<1>3. pc[c] \in WithWriter /\ pc[c] # "write" BY <1>2 DEF WithWriter
<1>4. /\ wr[c] # None /\ wr[c] \in Objects /\ r \in Seq(Unit) /\ w \in Seq(Unit)
      /\ o = <<>> /\ failed[c] \in BOOLEAN /\ Len(w) <= BufferSize
      /\ BufferSize \in Nat /\ LowWater \in Nat /\ LowWater <= BufferSize
  BY <1>2, <1>3, WriterFacts
<1> DEFINE p == IF ok THEN onOk ELSE onError
           f == failed[c] \/ ~ok
           x == ~ok
           t == SubSeq(w, 1, k)
           b == SubSeq(w, k + 1, Len(w))
           s == r \o t
<1>5. /\ t \in Seq(Unit) /\ b \in Seq(Unit) /\ Len(b) <= BufferSize
      /\ ok => t = w /\ b = <<>>
  <2>1. Len(w) \in Nat BY <1>4
  <2> HIDE DEF w
  <2>2. t \in Seq(Unit) /\ b \in Seq(Unit) /\ Len(b) = Len(w) - k BY <1>4, SplitSeq
  <2>3. ok => t = w /\ b = <<>> BY <1>1, <1>4, WholeSeq
  <2> HIDE DEF b
  <2> QED BY <1>4, <2>1, <2>2, <2>3
<1>6. s \in Seq(Unit)
  <2> HIDE DEF r, t
  <2> QED BY <1>4, <1>5, ConcatProperties
<1>7. r \o w \in Seq(Unit) /\ r \o w \o o = r \o w
  <2>1. r \o w \in Seq(Unit)
    <3> HIDE DEF r, w
    <3> QED BY <1>4, ConcatProperties
  <2> QED BY <1>4, <2>1, ConcatEmptySeq
<1>8. Extends(r \o w \o o, s)
  <2>1. o \in Seq(Unit) BY <1>4
  <2> HIDE DEF r, w, o
  <2> QED BY <1>4, <2>1, SendStream
<1>9. ok => s = r \o w /\ s \o b \o o = r \o w \o o
  <2>1. s \o <<>> = s
    <3> HIDE DEF s
    <3> QED BY <1>6, ConcatEmptySeq
  <2> QED BY <1>4, <1>5, <1>7, <2>1
<1>10. Writes(c, p, f, s, b, x, o)
  <2>1. p \in WithWriter /\ f \in BOOLEAN /\ x \in BOOLEAN BY <1>4 DEF WithWriter
  <2>2. out' = [out EXCEPT ![c] = o] /\ o \in Seq(Unit) BY <1>2, <1>4 DEF IInv, TypeOK
  <2> QED BY <1>1, <1>2, <1>5, <1>6, <2>1, <2>2 DEF Writes
<1>11. WritesWell(c, p, f, s, b, x, o)
  <2>1. ok => Len(b) + LowWater <= BufferSize
    <3>1. Len(<<>>) = 0 OBVIOUS
    <3> HIDE DEF b
    <3> QED BY <1>4, <1>5, <3>1
  <2> HIDE DEF s, b
  <2> QED BY <1>2, <1>4, <1>5, <1>7, <1>8, <1>9, <2>1 DEF WritesWell
<1> HIDE DEF p, f, s, b, x, o
<1> QED BY <1>2, <1>4, <1>10, <1>11, WriterStep

-----------------------------------------------------------------------------
(* Returning the objects.                                                  *)

\* The writer returns to the pool.
LEMMA PutWriterStep ==
    ASSUME IInv, NEW c \in Conns, PutWriter(c)
    PROVE  IInv'
<1> USE DEF IInv, PutWriter, Goto, clientVars, socketVars
<1>1. wr[c] \in Objects /\ wr[c] # None
  BY DEF TypeOK, Client, Held, WithWriter
<1>2. TypeOK' BY <1>1 DEF TypeOK, PcValues
<1>3. PoolExclusive' BY <1>1 DEF TypeOK, PoolExclusive
<1>4. \A d \in Conns \ {c} : Same(d) BY DEF TypeOK, Same
<1>5. pc'[c] = "putReader" /\ wr'[c] = None BY DEF TypeOK
<1>6. Client(c)'
  <2>1. Held(c)' BY <1>5 DEF Client, Held, WithReader, WithWriter
  <2>2. Started(c)' BY <1>5 DEF Started, Unstarted
  <2>3. Ahead(c)' BY DEF Client, Ahead
  <2>4. Room(c)' /\ Error(c)' /\ Conserved(c)' BY <1>5 DEF Room, Error, Conserved
  <2>5. Prefix(c)' BY DEF Client, Prefix
  <2>6. Finish(c)' BY <1>5 DEF Client, Finish, Sent
  <2>7. Sockets(c)' BY <1>5 DEF Client, Sockets, WithReader, WithWriter
  <2> QED BY <2>1, <2>2, <2>3, <2>4, <2>5, <2>6, <2>7 DEF Client
<1> QED BY <1>2, <1>3, <1>4, <1>6, Frame

\* The reader returns to the pool.
LEMMA PutReaderStep ==
    ASSUME IInv, NEW c \in Conns, PutReader(c)
    PROVE  IInv'
<1> USE DEF IInv, PutReader, Goto, clientVars, socketVars
<1>1. rd[c] \in Objects /\ rd[c] # None
  BY DEF TypeOK, Client, Held, WithReader
<1>2. TypeOK' BY <1>1 DEF TypeOK, PcValues
<1>3. PoolExclusive' BY <1>1 DEF TypeOK, PoolExclusive
<1>4. \A d \in Conns \ {c} : Same(d) BY DEF TypeOK, Same
<1>5. pc'[c] = "closeRemote" /\ rd'[c] = None /\ wr'[c] = wr[c] BY DEF TypeOK
<1>6. wr[c] = None BY DEF Client, Held, WithWriter
<1>7. Client(c)'
  <2>1. Held(c)' BY <1>5, <1>6 DEF Held, WithReader, WithWriter
  <2>2. Started(c)' BY <1>5 DEF Started, Unstarted
  <2>3. Ahead(c)' BY <1>5 DEF Client, Ahead
  <2>4. Room(c)' /\ Error(c)' /\ Conserved(c)' BY <1>5, <1>6 DEF Room, Error, Conserved
  <2>5. Prefix(c)' BY DEF Client, Prefix
  <2>6. Finish(c)' BY <1>5 DEF Client, Finish, Sent
  <2>7. Sockets(c)' BY <1>5 DEF Client, Sockets, WithReader, WithWriter
  <2> QED BY <2>1, <2>2, <2>3, <2>4, <2>5, <2>6, <2>7 DEF Client
<1> QED BY <1>2, <1>3, <1>4, <1>7, Frame

-----------------------------------------------------------------------------
(* The invariant and what follows from it.                                 *)

\* The initial states satisfy the invariant.
LEMMA IInvInit == Init => IInv
<1> SUFFICES ASSUME Init PROVE IInv
  OBVIOUS
<1> USE DEF Init
<1>1. TypeOK BY DEF TypeOK, PcValues
<1>2. PoolExclusive BY DEF PoolExclusive
<1>3. ASSUME NEW c \in Conns PROVE Client(c)
  <2>1. Held(c) /\ Started(c) /\ Room(c) /\ Error(c) /\ Conserved(c) /\ Finish(c) /\ Sockets(c)
    BY DEF Held, Started, Room, Error, Conserved, Finish, Sockets, WithReader, WithWriter, Sent,
           Unstarted
  <2>2. Ahead(c)
    <3>1. input[c] \in Seq(Kinds) BY InputsAssumption DEF Kinds
    <3>2. Len(input[c]) \in Nat BY <3>1
    <3>3. lines[c] = <<>> /\ arrived[c] = 0 /\ rd[c] = None OBVIOUS
    <3> QED BY <3>2, <3>3 DEF Ahead
  <2>3. Prefix(c)
    <3>1. Len(lines[c]) = 0 /\ remote[c] = <<>> OBVIOUS
    <3>2. <<>> \in Seq(Unit) /\ <<>> = <<>> \o <<>> OBVIOUS
    <3>3. Extends(<<>>, <<>>) BY <3>2 DEF Extends
    <3> QED BY <3>1, <3>3, ConvZero DEF Prefix
  <2> QED BY <2>1, <2>2, <2>3 DEF Client
<1> QED BY <1>1, <1>2, <1>3 DEF IInv

\* A step that changes nothing preserves it.
LEMMA IInvStutter ==
    ASSUME IInv, UNCHANGED vars
    PROVE  IInv'
<1> USE DEF IInv, vars
<1>1. TypeOK' BY DEF TypeOK
<1>2. PoolExclusive' BY DEF PoolExclusive
<1>3. \A d \in Conns : Same(d) BY DEF Same
<1> QED BY <1>1, <1>2, <1>3, Frame

\* Every step preserves it.
LEMMA IInvNext == IInv /\ [Next]_vars => IInv'
<1> SUFFICES ASSUME IInv, [Next]_vars PROVE IInv'
  OBVIOUS
<1>1. ASSUME NEW c \in Conns, Accept(c) PROVE IInv' BY <1>1, AcceptStep
<1>2. ASSUME NEW c \in Conns, HangUp(c) PROVE IInv' BY <1>2, HangUpStep
<1>3. ASSUME NEW c \in Conns, ReadFails(c) PROVE IInv' BY <1>3, ReadFailsStep
<1>4. ASSUME NEW c \in Conns, Goroutine(c) PROVE IInv'
  <2>1. CASE DialOk(c) BY <2>1, DialOkStep
  <2>2. CASE DialFails(c) BY <2>2, DialFailsStep
  <2>3. CASE Borrow(c) BY <2>3, BorrowStep
  <2>4. CASE FillReader(c) BY <2>4, FillReaderStep
  <2>5. CASE ReadLine(c) BY <2>5, ReadLineStep
  <2>6. CASE ReadEOF(c) BY <2>6, ReadEOFStep
  <2>7. CASE WriteFits(c) BY <2>7, WriteFitsStep
  <2>8. CASE WriteDirect(c) BY <2>8, WriteDirectStep
  <2>9. CASE WriteSplits(c) BY <2>9, WriteSplitsStep
  <2>10. CASE CheckAvailable(c) BY <2>10, CheckAvailableStep
  <2>11. CASE FlushInLoop(c) BY <2>11, FlushStep DEF FlushInLoop
  <2>12. CASE LastFlush(c) BY <2>12, FlushStep DEF LastFlush
  <2>13. CASE LastFlushRefused(c) BY <2>13, LastFlushRefusedStep
  <2>14. CASE PutWriter(c) BY <2>14, PutWriterStep
  <2>15. CASE PutReader(c) BY <2>15, PutReaderStep
  <2>16. CASE CloseRemote(c) BY <2>16, CloseRemoteStep
  <2>17. CASE CloseLocal(c) BY <2>17, CloseLocalStep
  <2> QED BY <1>4, <2>1, <2>2, <2>3, <2>4, <2>5, <2>6, <2>7, <2>8, <2>9, <2>10, <2>11, <2>12,
             <2>13, <2>14, <2>15, <2>16, <2>17 DEF Goroutine
<1>5. CASE Waiting BY <1>5, IInvStutter DEF Waiting
<1>6. CASE UNCHANGED vars BY <1>6, IInvStutter
<1> QED BY <1>1, <1>2, <1>3, <1>4, <1>5, <1>6 DEF Next

\* The inductive invariant holds in every reachable state of the proxy.
THEOREM Invariance == Spec => []IInv
<1> QED BY IInvInit, IInvNext, PTL DEF Spec

\* Every variable of the proxy keeps its type; in particular an object put
\* into a pool is a reader or a writer, never nil.
THEOREM TypeCorrect == Spec => []TypeOK
<1>1. IInv => TypeOK BY DEF IInv
<1> QED BY Invariance, <1>1, PTL

\* No two goroutines share a pooled reader or writer, and none in use is in
\* the pool, however many clients connect (Get and Put in main.go).
THEOREM Exclusion == Spec => []PoolExclusive
<1>1. IInv => PoolExclusive BY DEF IInv
<1> QED BY Invariance, <1>1, PTL

\* A goroutine reads the lines of its own client in order and without a gap,
\* whatever an earlier user left in its reader.
THEOREM LinesOwn == Spec => []OwnLines
<1>1. IInv => OwnLines BY DEF IInv, Client, Ahead, OwnLines
<1> QED BY Invariance, <1>1, PTL

\* The two forms of the converted stream.
LEMMA ConvertedIsConv ==
    ASSUME NEW c, NEW m
    PROVE  Converted(c, m) = Conv(input[c], c, m)
BY DEF Converted, Conv, Units

\* What is sent for a client is always a beginning of the conversion of its
\* own lines, for every buffer size and every way in which writes may fail.
THEOREM StreamOwn == Spec => []OwnStream
<1>1. IInv => OwnStream
  <2> SUFFICES ASSUME IInv, NEW c \in Conns
               PROVE  IsPrefix(remote[c], Converted(c, Len(input[c])))
    BY DEF OwnStream
  <2> DEFINE in == input[c]
             m == Len(lines[c])
             r == remote[c]
  <2>1. in \in Seq(Kinds) /\ r \in Seq(Unit) /\ lines[c] \in Seq(Conns \X Nat)
    BY InputsAssumption DEF IInv, TypeOK, Kinds
  <2>2. m \in 0..Len(in)
    <3>1. m \in Nat /\ Len(in) \in Nat /\ arrived[c] \in Nat BY <2>1 DEF IInv, TypeOK
    <3>2. m <= arrived[c] /\ arrived[c] <= Len(in) BY DEF IInv, Client, Ahead
    <3> HIDE DEF m, in
    <3> QED BY <3>1, <3>2
  <2>3. PICK rest \in Seq(Unit) : Conv(in, c, m) = r \o rest
    BY DEF IInv, Client, Prefix, Extends
  <2>4. PICK more \in Seq(Unit) : Conv(in, c, Len(in)) = Conv(in, c, m) \o more
    BY <2>1, <2>2, ConvPrefix
  <2> HIDE DEF in, m, r
  <2>5. (r \o rest) \o more = r \o (rest \o more) BY <2>1, ConcatAssociative
  <2>6. rest \o more \in Seq(Unit) BY ConcatProperties
  <2> DEFINE q == rest \o more
  <2>7. Conv(in, c, Len(in)) = r \o q BY <2>3, <2>4, <2>5
  <2> HIDE DEF q
  <2>8. IsPrefix(r, r \o q)
    <3>1. q \in Seq(Unit) BY <2>6 DEF q
    <3>2. Len(r \o q) = Len(r) + Len(q) /\ Len(r) \in Nat /\ Len(q) \in Nat
      BY <2>1, <3>1, ConcatProperties
    <3>3. SubSeq(r \o q, 1, Len(r)) = r BY <2>1, <3>1, SubSeqOfConcat1
    <3>4. SubSeq(r, 1, Len(r)) = r BY <2>1, SubSeqFull
    <3> QED BY <3>2, <3>3, <3>4 DEF IsPrefix
  <2>9. Converted(c, Len(input[c])) = r \o q BY <2>7, ConvertedIsConv DEF in
  <2> QED BY <2>8, <2>9 DEF r
<1> QED BY Invariance, <1>1, PTL

\* While nothing has failed, what was sent, what is buffered and what is being
\* written make up the conversion of the lines read.
THEOREM Conservation == Spec => []StreamConserved
<1>1. IInv => StreamConserved
  BY ConvertedIsConv DEF IInv, Client, Conserved, Error, StreamConserved
<1> QED BY Invariance, <1>1, PTL

\* A goroutine that ends without a failure has sent all its client's lines.
THEOREM Delivery == Spec => []DeliveredAtEOF
<1>1. IInv => DeliveredAtEOF
  BY ConvertedIsConv DEF IInv, Client, Finish, Sent, DeliveredAtEOF
<1> QED BY Invariance, <1>1, PTL

\* While a goroutine waits for its client at least LowWater units of the buffer
\* are free.
THEOREM HoldsLittleBack == Spec => []HeldBackBounded
<1>1. IInv => HeldBackBounded
  <2> SUFFICES ASSUME IInv, NEW c \in Conns, pc[c] = "read"
               PROVE  Available(c) >= LowWater
    BY DEF HeldBackBounded
  <2>1. pc[c] \in WithWriter BY DEF WithWriter
  <2>2. /\ wr[c] # None /\ wbuf[wr[c]] \in Seq(Unit) /\ BufferSize \in Nat /\ LowWater \in Nat
    BY <2>1, WriterFacts
  <2>3. Len(wbuf[wr[c]]) + LowWater <= BufferSize BY <2>2 DEF IInv, Client, Room
  <2> QED BY <2>2, <2>3 DEF Available, Buffered
<1> QED BY Invariance, <1>1, PTL

\* Only CloseLocal ends a goroutine that has got its remote connection.
LEMMA EndedByCloseLocal ==
    ASSUME TypeOK, Next, NEW c \in Conns, pc[c] \notin {"dial", "ended"}, pc'[c] = "ended"
    PROVE  CloseLocal(c)
<1>1. ~Waiting BY DEF Waiting, vars
<1>2. PICK d \in Conns : Accept(d) \/ HangUp(d) \/ ReadFails(d) \/ Goroutine(d)
  BY <1>1 DEF Next
<1>3. \E q : pc' = [pc EXCEPT ![d] = q]
  <2>1. CASE HangUp(d) \/ FillReader(d)
    BY <2>1 DEF HangUp, FillReader, TypeOK
  <2>2. CASE Accept(d) \/ ReadFails(d) \/ Goroutine(d)
    BY <2>1, <2>2 DEF Accept, ReadFails, Goroutine, DialOk, DialFails, Borrow, ReadLine,
       ReadEOF, WriteFits, WriteDirect, WriteSplits, CheckAvailable, FlushInLoop, LastFlush, Flush,
       LastFlushRefused, PutWriter, PutReader, CloseRemote, CloseLocal, Goto
  <2> QED BY <1>2, <2>1, <2>2
<1>4. c = d BY <1>3 DEF TypeOK
<1>5. \A q : pc' = [pc EXCEPT ![c] = q] => q = "ended" BY DEF TypeOK
<1> QED BY <1>2, <1>4, <1>5 DEF Accept, HangUp, ReadFails, Goroutine, DialOk, DialFails, Borrow,
       FillReader, ReadLine, ReadEOF, WriteFits, WriteDirect, WriteSplits, CheckAvailable, FlushInLoop,
       LastFlush, Flush, LastFlushRefused, PutWriter, PutReader, CloseRemote, CloseLocal, Goto, TypeOK

\* A goroutine that has got its remote connection ends with both connections
\* closed and both buffers back in their pools (the deferred calls).
THEOREM ExitsClean == Spec => CleanExit
<1> DEFINE Clean ==
        \A c \in Conns :
            pc[c] \notin {"dial", "ended"} /\ pc'[c] = "ended" =>
                /\ ~localOpen'[c] /\ ~remoteOpen'[c]
                /\ rd'[c] = None /\ wr'[c] = None
<1>1. IInv /\ [Next]_vars => [Clean]_vars
  <2> SUFFICES ASSUME IInv, Next, NEW c \in Conns, pc[c] \notin {"dial", "ended"}, pc'[c] = "ended"
               PROVE  /\ ~localOpen'[c] /\ ~remoteOpen'[c]
                      /\ rd'[c] = None /\ wr'[c] = None
    OBVIOUS
  <2>1. CloseLocal(c) BY EndedByCloseLocal DEF IInv
  <2>2. ~remoteOpen[c] /\ rd[c] = None /\ wr[c] = None
    BY <2>1 DEF IInv, Client, Sockets, Held, CloseLocal, Goto, WithReader, WithWriter
  <2> QED BY <2>1, <2>2 DEF CloseLocal, poolVars, IInv, TypeOK
<1> QED BY Invariance, <1>1, PTL DEF Spec, CleanExit

=============================================================================
