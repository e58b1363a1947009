--------------------------- MODULE WrapperProofs ---------------------------
(***************************************************************************)
(* Proofs that the fan-out of Find and Render is correct for every number  *)
(* of targets and every set of backend replies.                            *)
(***************************************************************************)
EXTENDS Wrapper, FiniteSetTheorems, TLAPS

-----------------------------------------------------------------------------
(* Types.                                                                  *)

LEMMA TypeInit == Init => TypeOK
  BY NAssumption DEF Init, TypeOK, Workers, Kinds, NoOwner, PcValues

\* FreshCall gives the locals of a call values of their types.
LEMMA TypeFresh ==
    ASSUME FreshCall
    PROVE  /\ next' \in 1..(N + 1)
           /\ wg' \in Nat
           /\ lock' \in Workers \cup {NoOwner}
           /\ pc' \in [Workers -> PcValues]
           /\ body' \in [Workers -> BOOLEAN]
           /\ reply' \in [Workers -> Seq({"ok", "empty", "foreign"})]
           /\ pos' \in [Workers -> Nat \ {0}]
           /\ old' \in [Workers -> Seq(Workers \X Nat)]
           /\ metrics' \in Seq(Workers \X Nat)
           /\ answer' \in Seq(Workers \X Nat)
  BY NAssumption DEF FreshCall, Workers, NoOwner, PcValues

\* The wait group is positive when a goroutine runs its deferred wg.Done.
WgPositive == \A w \in Workers : pc[w] = "exit" => wg > 0

LEMMA TypeHandler ==
    ASSUME TypeOK, Accept \/ Refuse \/ Handler
    PROVE  TypeOK'
<1> USE NAssumption
<1>1. CASE Accept
  <2>1. target' \in [Workers -> Kinds] /\ n' \in 0..N /\ op' \in {"find", "render"}
        /\ handler' = "spawn" /\ status' = 0
    BY <1>1 DEF Accept
  <2> QED BY <1>1, <2>1, TypeFresh DEF Accept, TypeOK
<1>2. CASE Refuse
  <2>1. target' \in [Workers -> Kinds]
    BY <1>2 DEF Refuse, Kinds
  <2>2. n' \in 0..N /\ status' \in {0, 200, 400, 500} /\ op' \in {"find", "render"}
        /\ handler' \in {"idle", "spawn", "wait", "marshal"}
    BY <1>2 DEF Refuse, TypeOK
  <2> QED BY <1>2, <2>1, <2>2, TypeFresh DEF Refuse, TypeOK
<1>3. CASE Spawn
  <2>1. next \in Workers /\ next' \in 1..(N + 1)
    BY <1>3 DEF Spawn, TypeOK, Workers
  <2>2. pc' \in [Workers -> PcValues]
    BY <1>3, <2>1 DEF Spawn, TypeOK, PcValues
  <2>3. wg' \in Nat
    BY <1>3 DEF Spawn, TypeOK
  <2>4. UNCHANGED <<op, handler, target, n, lock, metrics, status, answer, body, reply, pos, old>>
    BY <1>3 DEF Spawn, workerVars
  <2>5. /\ op' \in {"find", "render"}
        /\ handler' \in {"idle", "spawn", "wait", "marshal"}
        /\ target' \in [Workers -> Kinds]
        /\ n' \in 0..N
        /\ lock' \in Workers \cup {NoOwner}
        /\ body' \in [Workers -> BOOLEAN]
        /\ reply' \in [Workers -> Seq({"ok", "empty", "foreign"})]
        /\ pos' \in [Workers -> Nat \ {0}]
        /\ old' \in [Workers -> Seq(Workers \X Nat)]
        /\ metrics' \in Seq(Workers \X Nat)
        /\ status' \in {0, 200, 400, 500}
        /\ answer' \in Seq(Workers \X Nat)
    BY <2>4 DEF TypeOK
  <2> QED BY <2>1, <2>2, <2>3, <2>5, Zenon DEF TypeOK
<1>4. CASE EndLoop
  BY <1>4 DEF EndLoop, TypeOK, sharedVars, workerVars
<1>5. CASE WaitReturns
  BY <1>5 DEF WaitReturns, TypeOK, sharedVars, workerVars
<1>6. CASE Marshal
  <2>1. <<>> \in Seq(Workers \X Nat) /\ metrics \in Seq(Workers \X Nat)
    BY DEF TypeOK
  <2>2. answer' \in Seq(Workers \X Nat)
    <3>1. CASE answer' = metrics
      BY <2>1, <3>1
    <3>2. CASE answer' = <<>>
      BY <2>1, <3>2
    <3> QED BY <1>6, <3>1, <3>2 DEF Marshal
  <2>3. status' \in {0, 200, 400, 500}
    BY <1>6 DEF Marshal
  <2> QED BY <1>6, <2>2, <2>3 DEF Marshal, TypeOK, sharedVars, workerVars
<1> QED BY <1>1, <1>2, <1>3, <1>4, <1>5, <1>6 DEF Handler

\* A goroutine that was started moves, and only itself.
LEMMA GoroutineMoves ==
    ASSUME TypeOK, NEW w \in Workers, Goroutine(w)
    PROVE  \E to \in PcValues :
               to # "none" /\ pc' = [pc EXCEPT ![w] = to] /\ pc[w] # "none"
<1>1. CASE Skip(w)
  <2>1. pc' = [pc EXCEPT ![w] = "emit"]
    BY <1>1 DEF Skip, TypeOK
  <2> QED BY <1>1, <2>1 DEF Skip, PcValues
<1>2. CASE Check(w)
  BY <1>2 DEF Check, Goto, PcValues
<1>3. CASE ~Skip(w) /\ ~Check(w)
  BY <1>3 DEF Goroutine, Goto, PcValues, GetOk, GetFails, ReadOk, ReadFails,
     Build, EndReply, Lock, Load, Store, Unlock, Close, Exit
<1> QED BY <1>1, <1>2, <1>3

LEMMA TypeGoroutine ==
    ASSUME TypeOK, WgPositive, NEW w \in Workers, Goroutine(w)
    PROVE  TypeOK'
<1> USE DEF TypeOK, handlerVars, sharedVars, workerVars
<1>1. pc' \in [Workers -> PcValues]
  <2>1. PICK to \in PcValues : pc' = [pc EXCEPT ![w] = to]
    BY GoroutineMoves
  <2> QED BY <2>1
<1>2. CASE Check(w) \/ GetFails(w) \/ ReadFails(w) \/ Build(w) \/ EndReply(w)
  <2>1. UNCHANGED <<handlerVars, sharedVars, workerVars>>
    BY <1>2 DEF Check, GetFails, ReadFails, Build, EndReply
  <2> QED BY <1>1, <2>1
<1>3. CASE GetOk(w) \/ Close(w)
  <2>1. body' \in [Workers -> BOOLEAN]
    <3>1. CASE GetOk(w)
      BY <3>1 DEF GetOk
    <3>2. CASE Close(w)
      BY <3>2 DEF Close
    <3> QED BY <1>3, <3>1, <3>2
  <2>2. UNCHANGED <<handlerVars, sharedVars, reply, pos, old>>
    BY <1>3 DEF GetOk, Close
  <2> QED BY <1>1, <2>1, <2>2
<1>4. CASE ReadOk(w)
  <2>1. PICK r \in Seq({"ok", "empty", "foreign"}) : reply' = [reply EXCEPT ![w] = r]
    <3>1. <<"ok">> \in Seq({"ok", "empty", "foreign"})
      OBVIOUS
    <3> QED BY <1>4, <3>1, RepliesAssumption DEF ReadOk
  <2> QED BY <1>1, <1>4, <2>1 DEF ReadOk
<1>5. CASE Skip(w)
  BY <1>1, <1>5 DEF Skip
<1>6. CASE Lock(w) \/ Unlock(w)
  BY <1>1, <1>6 DEF Lock, Unlock, NoOwner
<1>7. CASE Load(w)
  BY <1>1, <1>7 DEF Load
<1>8. CASE Store(w)
  <2>1. metrics' \in Seq(Workers \X Nat)
    BY <1>8 DEF Store
  <2> QED BY <1>1, <1>8, <2>1 DEF Store
<1>9. CASE Exit(w)
  BY <1>1, <1>9 DEF Exit, Goto, WgPositive
<1> QED BY <1>2, <1>3, <1>4, <1>5, <1>6, <1>7, <1>8, <1>9 DEF Goroutine

-----------------------------------------------------------------------------
(* The inductive invariant.                                                *)

\* The first next - 1 goroutines were started, and after the loop all n.
SpawnInv ==
    /\ \A w \in Workers : pc[w] = "none" <=> next <= w
    /\ next <= n + 1
    /\ handler # "spawn" => next = n + 1

\* Who holds a body, who holds the mutex, and what the loop over the reply
\* has established where the goroutine is.
GoInv ==
    \A w \in Workers :
        /\ body[w] <=> pc[w] \in {"read", "emit", "lock", "load", "store", "unlock", "close"}
        /\ lock = w <=> pc[w] \in {"load", "store", "unlock"}
        /\ pc[w] = "store" => old[w] = metrics
        /\ pc[w] \in {"none", "check", "get", "read"} => reply[w] = <<>> /\ pos[w] = 1
        /\ pc[w] \in {"lock", "load", "store"} =>
               pos[w] \in 1..Len(reply[w]) /\ reply[w][pos[w]] = "ok"
        /\ pc[w] \in {"close", "exit", "done"} => pos[w] > Len(reply[w])

\* After wg.Wait nobody is left, and the answer is the response.
AnswerInv ==
    /\ handler \in {"marshal", "idle"} => wg = 0
    /\ status = 200 => handler = "idle" /\ answer = metrics

IInv == TypeOK /\ SpawnInv /\ GoInv /\ WgCountsUnfinished /\ NoLostEntry /\ AnswerInv

LEMMA WorkersFinite == IsFiniteSet(Workers)
  BY NAssumption, FS_Interval DEF Workers

\* With IInv the counter of the wait group is positive at wg.Done, and zero
\* exactly when no goroutine is unfinished.
LEMMA WgZero ==
    ASSUME IInv
    PROVE  WgPositive /\ (wg = 0 => \A w \in Workers : pc[w] \in {"none", "done"})
<1>1. IsFiniteSet(Unfinished)
  BY WorkersFinite, FS_Subset DEF Unfinished
<1>2. wg = 0 => Unfinished = {}
  BY <1>1, FS_EmptySet DEF IInv, WgCountsUnfinished
<1>3. wg \in Nat
  BY DEF IInv, TypeOK
<1> QED BY <1>2, <1>3 DEF Unfinished, WgPositive

LEMMA TypeNext == ASSUME IInv, [Next]_vars PROVE TypeOK'
<1>1. TypeOK /\ WgPositive
  BY WgZero DEF IInv
<1>2. CASE Next
  BY <1>1, <1>2, TypeHandler, TypeGoroutine DEF Next
<1>3. CASE UNCHANGED vars
  BY <1>1, <1>3 DEF vars, TypeOK
<1> QED BY <1>2, <1>3

-----------------------------------------------------------------------------
(* The program counters, the mutex and the bodies.                         *)

LEMMA SpawnNext == ASSUME IInv, [Next]_vars PROVE SpawnInv'
<1> USE NAssumption DEF IInv, SpawnInv
<1>1. CASE Accept \/ Refuse
  BY <1>1 DEF Accept, Refuse, FreshCall, Workers, TypeOK
<1>2. CASE Spawn
  BY <1>2 DEF Spawn, Workers, TypeOK
<1>3. CASE EndLoop \/ WaitReturns \/ Marshal
  <2>1. UNCHANGED <<pc, next, n>>
    BY <1>3 DEF EndLoop, WaitReturns, Marshal
  <2>2. next = n + 1 \/ (handler = "spawn" /\ next > n)
    BY <1>3 DEF EndLoop, WaitReturns, Marshal
  <2>3. next' = n' + 1
    BY <2>1, <2>2 DEF TypeOK
  <2> QED BY <2>1, <2>3
<1>4. ASSUME NEW w \in Workers, Goroutine(w)
      PROVE  SpawnInv'
  <2>1. UNCHANGED <<next, n, handler>>
    BY <1>4 DEF Goroutine, Check, GetOk, GetFails, ReadOk, ReadFails, Skip, Build,
       EndReply, Lock, Load, Store, Unlock, Close, Exit, handlerVars
  <2>2. PICK to \in PcValues : to # "none" /\ pc' = [pc EXCEPT ![w] = to] /\ pc[w] # "none"
    BY <1>4, GoroutineMoves
  <2>3. \A v \in Workers : pc'[v] = "none" <=> pc[v] = "none"
    BY <2>2 DEF TypeOK
  <2> QED BY <2>1, <2>3
<1>5. CASE UNCHANGED vars
  BY <1>5 DEF vars
<1> QED BY <1>1, <1>2, <1>3, <1>4, <1>5 DEF Next, Handler

LEMMA GoNext == ASSUME IInv, [Next]_vars PROVE GoInv'
<1> USE DEF IInv, GoInv
<1>1. CASE Accept \/ Refuse
  <2>1. FreshCall
    BY <1>1 DEF Accept, Refuse
  <2> QED BY <2>1 DEF FreshCall, NoOwner, Workers
<1>2. CASE Spawn
  BY <1>2 DEF Spawn, SpawnInv, TypeOK, Workers, workerVars
<1>3. CASE EndLoop \/ WaitReturns \/ Marshal
  BY <1>3 DEF EndLoop, WaitReturns, Marshal, sharedVars, workerVars
<1>4. ASSUME NEW w \in Workers, Goroutine(w)
      PROVE  GoInv'
  <2> USE DEF Goto, handlerVars, sharedVars, workerVars, TypeOK
  <2>0. NoOwner \notin Workers
    BY NAssumption DEF NoOwner, Workers
  <2>1. CASE Check(w)
    <3>1. CASE Unanswerable(w)
      BY <2>1, <3>1 DEF Check
    <3>2. CASE ~Unanswerable(w)
      BY <2>1, <3>2 DEF Check
    <3> QED BY <3>1, <3>2
  <2>13. CASE GetFails(w)
    BY <2>13 DEF GetFails
  <2>2. CASE GetOk(w)
    BY <2>2 DEF GetOk
  <2>3. CASE ReadOk(w)
    BY <2>3 DEF ReadOk
  <2>4. CASE ReadFails(w)
    BY <2>4 DEF ReadFails
  <2>5. CASE Skip(w)
    BY <2>5 DEF Skip
  <2>6. CASE Build(w) \/ EndReply(w)
    BY <2>6 DEF Build, EndReply
  <2>7. CASE Lock(w)
    BY <2>0, <2>7 DEF Lock
  <2>8. CASE Load(w)
    BY <2>8 DEF Load
  <2>9. CASE Store(w)
    BY <2>9 DEF Store
  <2>10. CASE Unlock(w)
    BY <2>0, <2>10 DEF Unlock
  <2>11. CASE Close(w)
    BY <2>11 DEF Close
  <2>12. CASE Exit(w)
    BY <2>12 DEF Exit
  <2> QED BY <1>4, <2>1, <2>2, <2>3, <2>4, <2>5, <2>6, <2>7, <2>8, <2>9, <2>10,
             <2>11, <2>12, <2>13 DEF Goroutine
<1>5. CASE UNCHANGED vars
  BY <1>5 DEF vars
<1> QED BY <1>1, <1>2, <1>3, <1>4, <1>5 DEF Next, Handler

-----------------------------------------------------------------------------
(* The wait group.                                                         *)

LEMMA WgNext == ASSUME IInv, [Next]_vars PROVE WgCountsUnfinished'
<1>0. IsFiniteSet(Unfinished) /\ wg = Cardinality(Unfinished) /\ wg \in Nat
  BY WorkersFinite, FS_Subset DEF Unfinished, IInv, WgCountsUnfinished, TypeOK
<1>1. CASE Accept \/ Refuse
  <2>1. FreshCall
    BY <1>1 DEF Accept, Refuse
  <2>2. Unfinished' = {} /\ wg' = 0
    BY <2>1 DEF FreshCall, Unfinished
  <2> QED BY <2>2, FS_EmptySet DEF WgCountsUnfinished
<1>2. CASE Spawn
  <2>1. next \in Workers /\ next \notin Unfinished
    BY <1>2, NAssumption DEF Spawn, IInv, SpawnInv, TypeOK, Workers, Unfinished
  <2>2. Unfinished' = Unfinished \cup {next} /\ wg' = wg + 1
    BY <1>2, <2>1 DEF Spawn, Unfinished, IInv, TypeOK
  <2> QED BY <1>0, <2>1, <2>2, FS_AddElement DEF WgCountsUnfinished
<1>3. CASE EndLoop \/ WaitReturns \/ Marshal \/ UNCHANGED vars
  <2>1. wg' = wg /\ pc' = pc
    BY <1>3 DEF EndLoop, WaitReturns, Marshal, sharedVars, vars
  <2> QED BY <1>0, <2>1 DEF WgCountsUnfinished, Unfinished
<1>4. ASSUME NEW w \in Workers, Goroutine(w), ~Exit(w)
      PROVE  WgCountsUnfinished'
  <2>1. wg' = wg
    BY <1>4 DEF Goroutine, Check, GetOk, GetFails, ReadOk, ReadFails, Skip, Build,
       EndReply, Lock, Load, Store, Unlock, Close, sharedVars
  <2>2. \E to \in PcValues \ {"none", "done"} :
            pc' = [pc EXCEPT ![w] = to] /\ pc[w] \notin {"none", "done"}
    <3>1. CASE Skip(w)
      <4>1. pc' = [pc EXCEPT ![w] = "emit"]
        BY <3>1 DEF Skip, TypeOK, IInv
      <4> QED BY <3>1, <4>1 DEF Skip, PcValues
    <3>2. CASE Check(w)
      BY <3>2 DEF Check, Goto, PcValues
    <3>3. CASE ~Skip(w) /\ ~Check(w)
      BY <1>4, <3>3 DEF Goroutine, Goto, PcValues, GetOk, GetFails, ReadOk,
         ReadFails, Build, EndReply, Lock, Load, Store, Unlock, Close
    <3> QED BY <3>1, <3>2, <3>3
  <2>3. PICK to \in PcValues \ {"none", "done"} :
            pc' = [pc EXCEPT ![w] = to] /\ pc[w] \notin {"none", "done"}
    BY <2>2
  <2>4. Unfinished' = Unfinished
    BY <2>3 DEF Unfinished, IInv, TypeOK
  <2> QED BY <1>0, <2>1, <2>4 DEF WgCountsUnfinished
<1>5. ASSUME NEW w \in Workers, Exit(w)
      PROVE  WgCountsUnfinished'
  <2>1. Unfinished' = Unfinished \ {w} /\ w \in Unfinished /\ wg' = wg - 1
    BY <1>5 DEF Exit, Goto, Unfinished, IInv, TypeOK
  <2> QED BY <1>0, <2>1, FS_RemoveElement DEF WgCountsUnfinished
<1> QED BY <1>1, <1>2, <1>3, <1>4, <1>5 DEF Next, Handler

-----------------------------------------------------------------------------
(* The entries of the response.                                            *)

LEMMA EmittedIff ==
    ASSUME TypeOK, NEW w \in Workers, NEW k \in Nat
    PROVE  <<w, k>> \in Emitted <=>
               k \in 1..Len(reply[w]) /\ k < pos[w] /\ reply[w][k] = "ok"
  BY DEF Emitted, Entries

\* Everything emitted is a pair.
LEMMA EmittedPair ==
    ASSUME TypeOK, NEW e \in Emitted
    PROVE  \E w \in Workers : \E k \in Nat : e = <<w, k>>
<1>1. PICK w \in Workers : e \in {w} \X (1..Len(reply[w]))
  BY DEF Emitted, Entries
<1>2. Len(reply[w]) \in Nat
  BY DEF TypeOK
<1> QED BY <1>1, <1>2

LEMMA RangeAppend ==
    ASSUME NEW s \in Seq(Workers \X Nat), NEW e \in Workers \X Nat
    PROVE  Range(Append(s, e)) = Range(s) \cup {e}
<1>1. DOMAIN s = 1..Len(s) /\ DOMAIN Append(s, e) = 1..(Len(s) + 1) /\ Len(s) \in Nat
  OBVIOUS
<1>2. \A i \in 1..Len(s) : Append(s, e)[i] = s[i]
  OBVIOUS
<1>3. Append(s, e)[Len(s) + 1] = e
  OBVIOUS
<1>4. 1..(Len(s) + 1) = (1..Len(s)) \cup {Len(s) + 1}
  BY <1>1
<1> QED BY <1>1, <1>2, <1>3, <1>4 DEF Range

\* The set of emitted entries depends on reply and pos through their "ok"
\* elements below pos only.
LEMMA EmittedSame ==
    ASSUME TypeOK, TypeOK',
           \A w \in Workers : \A k \in Nat :
               (k \in 1..Len(reply[w]) /\ k < pos[w] /\ reply[w][k] = "ok")
               <=> (k \in 1..Len(reply'[w]) /\ k < pos'[w] /\ reply'[w][k] = "ok")
    PROVE  Emitted' = Emitted
<1>1. ASSUME NEW e \in Emitted PROVE e \in Emitted'
  <2>1. PICK w \in Workers, k \in Nat : e = <<w, k>>
    BY EmittedPair
  <2>2. k \in 1..Len(reply'[w]) /\ k < pos'[w] /\ reply'[w][k] = "ok"
    BY <2>1, EmittedIff
  <2> QED BY <2>1, <2>2 DEF Emitted, Entries
<1>2. ASSUME NEW e \in Emitted' PROVE e \in Emitted
  <2>1. PICK w \in Workers : e \in {w} \X (1..Len(reply'[w]))
    BY DEF Emitted, Entries
  <2>2. Len(reply'[w]) \in Nat
    BY DEF TypeOK
  <2>3. PICK k \in 1..Len(reply'[w]) : e = <<w, k>>
    BY <2>1
  <2>4. k \in Nat /\ k < pos'[w] /\ reply'[w][k] = "ok"
    BY <2>2, <2>3 DEF Emitted
  <2> QED BY <2>3, <2>4, EmittedIff
<1> QED BY <1>1, <1>2

LEMMA EntryNext == ASSUME IInv, TypeOK', [Next]_vars PROVE NoLostEntry'
<1>0. TypeOK /\ GoInv /\ Range(metrics) = Emitted /\ InOrder(metrics)
  BY DEF IInv, NoLostEntry
<1>1. CASE Accept \/ Refuse
  <2>1. FreshCall
    BY <1>1 DEF Accept, Refuse
  <2>2. Emitted' = {} /\ metrics' = <<>>
    BY <2>1 DEF FreshCall, Emitted, Entries
  <2> QED BY <2>2 DEF NoLostEntry, Range, InOrder
<1>2. ASSUME UNCHANGED metrics, Emitted' = Emitted
      PROVE  NoLostEntry'
  BY <1>0, <1>2 DEF NoLostEntry, InOrder
<1>3. CASE Handler \/ UNCHANGED vars
  <2>1. UNCHANGED <<metrics, reply, pos>>
    BY <1>3 DEF Handler, Spawn, EndLoop, WaitReturns, Marshal, sharedVars, workerVars, vars
  <2> QED BY <1>2, <2>1 DEF Emitted, Entries
<1>4. ASSUME NEW w \in Workers, Goroutine(w), ~ReadOk(w), ~Skip(w), ~Store(w)
      PROVE  NoLostEntry'
  <2>1. UNCHANGED <<metrics, reply, pos>>
    BY <1>4 DEF Goroutine, Check, GetOk, GetFails, ReadFails, Build, EndReply, Lock, Load,
       Unlock, Close, Exit, sharedVars, workerVars
  <2> QED BY <1>2, <2>1 DEF Emitted, Entries
<1>5. ASSUME NEW w \in Workers, ReadOk(w)
      PROVE  NoLostEntry'
  <2>1. pos[w] = 1 /\ pos' = pos /\ metrics' = metrics
    BY <1>0, <1>5 DEF ReadOk, Goto, GoInv, sharedVars
  <2>2. \A v \in Workers : v # w => reply'[v] = reply[v]
    BY <1>0, <1>5 DEF ReadOk, TypeOK
  <2>3. Emitted' = Emitted
    BY <1>0, <2>1, <2>2, EmittedSame
  <2> QED BY <1>2, <2>1, <2>3
<1>6. ASSUME NEW w \in Workers, Skip(w)
      PROVE  NoLostEntry'
  <2>1. reply' = reply /\ metrics' = metrics /\ reply[w][pos[w]] # "ok"
    BY <1>6 DEF Skip, sharedVars
  <2>2. pos' = [pos EXCEPT ![w] = pos[w] + 1]
    BY <1>6 DEF Skip
  <2>3. \A v \in Workers : \A k \in Nat :
            reply[v][k] = "ok" => (k < pos[v] <=> k < pos'[v])
    <3>1. \A v \in Workers : v # w => pos'[v] = pos[v]
      BY <1>0, <2>2 DEF TypeOK
    <3>2. pos'[w] = pos[w] + 1 /\ pos[w] \in Nat
      BY <1>0, <2>2 DEF TypeOK
    <3>3. \A k \in Nat : k # pos[w] => (k < pos[w] <=> k < pos'[w])
      BY <3>2
    <3> QED BY <2>1, <3>1, <3>3
  <2>4. Emitted' = Emitted
    BY <1>0, <2>1, <2>3, EmittedSame
  <2> QED BY <1>2, <2>1, <2>4
<1>7. ASSUME NEW w \in Workers, Store(w)
      PROVE  NoLostEntry'
  <2> DEFINE e == <<w, pos[w]>>
  <2>1. /\ metrics' = Append(metrics, e)
        /\ reply' = reply
        /\ pos' = [pos EXCEPT ![w] = pos[w] + 1]
        /\ pos[w] \in 1..Len(reply[w])
        /\ reply[w][pos[w]] = "ok"
    BY <1>0, <1>7 DEF Store, Goto, GoInv
  <2>2. metrics \in Seq(Workers \X Nat) /\ e \in Workers \X Nat /\ pos[w] \in Nat
    BY <1>0 DEF TypeOK
  <2>3. Range(metrics') = Range(metrics) \cup {e}
    <3> HIDE DEF e
    <3>1. Range(Append(metrics, e)) = Range(metrics) \cup {e}
      BY <2>2, RangeAppend
    <3> QED BY <2>1, <3>1
  <2>4. Emitted' = Emitted \cup {e}
    <3>1. ASSUME NEW v \in Workers, NEW k \in Nat
          PROVE  k < pos'[v] <=> k < pos[v] \/ <<v, k>> = e
      <4>1. v # w => pos'[v] = pos[v]
        BY <1>0, <2>1 DEF TypeOK
      <4>2. pos'[w] = pos[w] + 1 /\ pos[v] \in Nat
        BY <1>0, <2>1 DEF TypeOK
      <4>3. CASE v = w
        BY <2>2, <4>2, <4>3
      <4>4. CASE v # w
        BY <4>1, <4>4
      <4> QED BY <4>3, <4>4
    <3>2. e \in Emitted'
      BY <1>0, <2>1, <2>2 DEF Emitted, Entries, TypeOK
    <3>3. ASSUME NEW x \in Emitted PROVE x \in Emitted'
      <4>1. PICK v \in Workers, k \in Nat : x = <<v, k>>
        BY <1>0, EmittedPair
      <4>2. k \in 1..Len(reply[v]) /\ k < pos[v] /\ reply[v][k] = "ok"
        BY <1>0, <4>1, EmittedIff
      <4> QED BY <2>1, <3>1, <4>1, <4>2 DEF Emitted, Entries
    <3>4. ASSUME NEW x \in Emitted', x # e PROVE x \in Emitted
      <4>1. PICK v \in Workers : x \in {v} \X (1..Len(reply[v]))
        BY <2>1 DEF Emitted, Entries
      <4>2. Len(reply[v]) \in Nat
        BY <1>0 DEF TypeOK
      <4>3. PICK k \in 1..Len(reply[v]) : x = <<v, k>>
        BY <4>1
      <4>4. k \in Nat /\ k < pos'[v] /\ reply[v][k] = "ok"
        BY <2>1, <4>2, <4>3 DEF Emitted
      <4> QED BY <1>0, <3>1, <3>4, <4>3, <4>4, EmittedIff
    <3> QED BY <3>2, <3>3, <3>4
  <2>5. \A a \in 1..Len(metrics) : metrics[a][1] = w => metrics[a][2] < pos[w]
    <3>1. SUFFICES ASSUME NEW a \in 1..Len(metrics), metrics[a][1] = w
                   PROVE  metrics[a][2] < pos[w]
      OBVIOUS
    <3>2. metrics[a] \in Emitted
      BY <1>0, <2>2 DEF Range
    <3>3. PICK v \in Workers, k \in Nat : metrics[a] = <<v, k>>
      BY <1>0, <3>2, EmittedPair
    <3> QED BY <1>0, <3>1, <3>2, <3>3, EmittedIff
  <2>6. InOrder(metrics')
    <3>1. Len(metrics') = Len(metrics) + 1 /\ Len(metrics) \in Nat
      BY <2>1, <2>2
    <3>2. \A a \in 1..Len(metrics) : metrics'[a] = metrics[a]
      BY <2>1, <2>2
    <3>3. metrics'[Len(metrics) + 1][1] = w /\ metrics'[Len(metrics) + 1][2] = pos[w]
      BY <2>1, <2>2
    <3>4. SUFFICES ASSUME NEW a \in 1..Len(metrics'), NEW b \in 1..Len(metrics'),
                          a < b, metrics'[a][1] = metrics'[b][1]
                   PROVE  metrics'[a][2] < metrics'[b][2]
      BY DEF InOrder
    <3>5. a \in 1..Len(metrics)
      BY <3>1, <3>4
    <3>6. CASE b \in 1..Len(metrics)
      BY <1>0, <3>2, <3>4, <3>5, <3>6 DEF InOrder
    <3>7. CASE b = Len(metrics) + 1
      BY <2>5, <3>2, <3>3, <3>4, <3>5, <3>7
    <3> QED BY <3>1, <3>6, <3>7
  <2>7. InOrder(metrics)'
    BY <2>6 DEF InOrder
  <2> QED BY <1>0, <2>3, <2>4, <2>7 DEF NoLostEntry, Range
<1> QED BY <1>1, <1>3, <1>4, <1>5, <1>6, <1>7 DEF Next

-----------------------------------------------------------------------------
(* The theorems.                                                           *)

LEMMA AnswerNext == ASSUME IInv, [Next]_vars PROVE AnswerInv'
<1>1. CASE Accept \/ Refuse \/ Spawn \/ EndLoop \/ WaitReturns \/ UNCHANGED vars
  BY <1>1 DEF Accept, Refuse, FreshCall, Spawn, EndLoop, WaitReturns, IInv, AnswerInv,
     sharedVars, vars
<1>2. CASE Marshal
  BY <1>2 DEF Marshal, IInv, AnswerInv, sharedVars
<1>3. ASSUME NEW w \in Workers, Goroutine(w)
      PROVE  AnswerInv'
  <2>1. pc[w] \notin {"none", "done"}
    BY <1>3 DEF Goroutine, Goto, Check, GetOk, GetFails, ReadOk, ReadFails, Skip, Build,
       EndReply, Lock, Load, Store, Unlock, Close, Exit
  <2>2. wg # 0
    BY <2>1, WgZero
  <2>3. handler \notin {"marshal", "idle"} /\ status # 200
    BY <2>2 DEF IInv, AnswerInv
  <2>4. UNCHANGED <<handler, status>>
    BY <1>3 DEF Goroutine, Check, GetOk, GetFails, ReadOk, ReadFails, Skip, Build,
       EndReply, Lock, Load, Store, Unlock, Close, Exit, handlerVars
  <2> QED BY <2>3, <2>4 DEF AnswerInv
<1> QED BY <1>1, <1>2, <1>3 DEF Next, Handler

LEMMA IInvInit == Init => IInv
<1> SUFFICES ASSUME Init PROVE IInv
  OBVIOUS
<1>1. SpawnInv /\ GoInv
  BY NAssumption DEF Init, SpawnInv, GoInv, Workers, NoOwner
<1>2. Unfinished = {} /\ Emitted = {}
  BY DEF Init, Unfinished, Emitted, Entries
<1>3. WgCountsUnfinished
  BY <1>2, FS_EmptySet DEF Init, WgCountsUnfinished
<1>4. NoLostEntry
  BY <1>2 DEF Init, NoLostEntry, Range, InOrder
<1>5. AnswerInv
  BY DEF Init, AnswerInv
<1> QED BY TypeInit, <1>1, <1>3, <1>4, <1>5 DEF IInv

\* The inductive invariant holds in every state of the fan-out.
THEOREM Inductive == Spec => []IInv
<1>1. IInv /\ [Next]_vars => IInv'
  BY TypeNext, SpawnNext, GoNext, WgNext, EntryNext, AnswerNext DEF IInv
<1> QED BY IInvInit, <1>1, PTL DEF Spec

\* Every variable keeps its type; in particular the wait group never goes
\* negative, which would panic.
THEOREM TypeCorrect == Spec => []TypeOK
<1>1. IInv => TypeOK
  BY DEF IInv
<1> QED BY Inductive, <1>1, PTL

\* The wait group counts the unfinished goroutines, for any number of targets.
THEOREM WaitGroupExact == Spec => []WgCountsUnfinished
<1>1. IInv => WgCountsUnfinished
  BY DEF IInv
<1> QED BY Inductive, <1>1, PTL

\* No append to the shared response is lost or repeated.
THEOREM AppendsSafe == Spec => []NoLostEntry
<1>1. IInv => NoLostEntry
  BY DEF IInv
<1> QED BY Inductive, <1>1, PTL

\* When Find or Render returned, every response body has been closed.
THEOREM NoBodyLeak == Spec => []BodiesClosed
<1>1. IInv => BodiesClosed
  BY WgZero DEF IInv, AnswerInv, GoInv, BodiesClosed
<1> QED BY Inductive, <1>1, PTL

\* A 200 answer holds exactly the entries of the targets that succeeded.
THEOREM AnswersComplete == Spec => []AnswerComplete
<1>1. IInv => AnswerComplete
  <2>1. SUFFICES ASSUME IInv, status = 200
                 PROVE  /\ \A w \in Workers : pc[w] = IF w <= n THEN "done" ELSE "none"
                        /\ Range(answer) = Served
                        /\ InOrder(answer)
    BY DEF AnswerComplete
  <2>2. handler = "idle" /\ wg = 0 /\ answer = metrics /\ next = n + 1
    BY <2>1 DEF IInv, AnswerInv, SpawnInv
  <2>3. \A w \in Workers : pc[w] \in {"none", "done"}
    BY <2>1, <2>2, WgZero
  <2>4. \A w \in Workers : pc[w] = IF w <= n THEN "done" ELSE "none"
    BY <2>1, <2>2, <2>3, NAssumption DEF IInv, SpawnInv, TypeOK, Workers
  <2>5. \A w \in Workers : pos[w] > Len(reply[w]) \/ reply[w] = <<>>
    BY <2>1, <2>3 DEF IInv, GoInv
  <2>6. Served = Emitted
    <3>1. \A e \in Entries : e[1] \in Workers /\ e[2] \in 1..Len(reply[e[1]])
      BY DEF Entries
    <3>2. \A e \in Entries : e[2] < pos[e[1]]
      BY <2>1, <2>5, <3>1 DEF IInv, TypeOK
    <3> QED BY <3>2 DEF Served, Emitted
  <2> QED BY <2>1, <2>2, <2>4, <2>6 DEF IInv, NoLostEntry
<1> QED BY Inductive, <1>1, PTL

\* The response does not change under the HTTP handler that marshals it.
THEOREM Frozen == Spec => ResponseFrozen
<1>1. ASSUME IInv, [Next]_vars
      PROVE  [handler = "marshal" => metrics' = metrics /\ (status' = 200 => answer' = metrics')]_vars
  <2>1. SUFFICES ASSUME Next, handler = "marshal"
                 PROVE  metrics' = metrics /\ (status' = 200 => answer' = metrics')
    BY <1>1 DEF vars
  <2>2. wg = 0 /\ \A w \in Workers : pc[w] \in {"none", "done"}
    BY <1>1, <2>1, WgZero DEF IInv, AnswerInv
  <2>3. \A w \in Workers : ~Goroutine(w)
    BY <2>2 DEF Goroutine, Goto, Check, GetOk, GetFails, ReadOk, ReadFails, Skip, Build,
       EndReply, Lock, Load, Store, Unlock, Close, Exit
  <2>4. Marshal
    BY <2>1, <2>3 DEF Next, Handler, Accept, Refuse, Spawn, EndLoop, WaitReturns
  <2> QED BY <2>4 DEF Marshal, sharedVars
<1> QED BY Inductive, <1>1, PTL DEF Spec, ResponseFrozen

-----------------------------------------------------------------------------
(* Find and Render implement Gather.                                       *)

Outcome == [w \in Workers |-> IF Decided(w) THEN <<reply[w]>> ELSE <<>>]

LEMMA GatherInit == Init => Gathering!GInit
  BY DEF Init, Gathering!GInit, Decided, PcValues, Gathering!Workers, Workers

\* A step that decides target w and nothing else.
LEMMA GatherDecide ==
    ASSUME IInv, NEW w \in Workers, Goroutine(w),
           ~Decided(w), Decided(w)',
           reply'[w] \in Replies \cup {<<>>, <<"ok">>},
           \A v \in Workers : v # w => reply'[v] = reply[v]
    PROVE  Gathering!Decide(w)
<1>1. UNCHANGED <<op, handler, target, n, next, status, answer>>
  BY DEF Goroutine, Check, GetOk, GetFails, ReadOk, ReadFails, Skip, Build,
     EndReply, Lock, Load, Store, Unlock, Close, Exit, handlerVars
<1>2. PICK to \in PcValues : pc' = [pc EXCEPT ![w] = to] /\ pc[w] # "none"
  BY GoroutineMoves DEF IInv
<1>3. w < next /\ next <= n + 1 /\ n \in Nat /\ next \in Nat /\ w \in Nat /\ w >= 1
  BY <1>2, NAssumption DEF IInv, SpawnInv, TypeOK, Workers
<1>4. w \in 1..n
  BY <1>3
<1>5. \A v \in Workers : v # w => (Decided(v)' <=> Decided(v))
  BY <1>2 DEF Decided, IInv, TypeOK
<1>6. Outcome' = [Outcome EXCEPT ![w] = <<reply'[w]>>]
  BY <1>5 DEF Outcome
<1>7. Outcome[w] = <<>>
  BY DEF Outcome
<1>8. handler # "idle"
  <2>1. pc[w] # "done"
    BY <1>2 DEF Decided, PcValues
  <2> QED BY <1>2, <2>1, WgZero DEF IInv, AnswerInv
<1> QED BY <1>1, <1>4, <1>6, <1>7, <1>8 DEF Gathering!Decide, Outcome

\* A goroutine's step that neither decides its target nor changes a reply is
\* invisible.
LEMMA GatherStutter ==
    ASSUME IInv, NEW w \in Workers, Goroutine(w),
           Decided(w)' <=> Decided(w), reply' = reply
    PROVE  UNCHANGED Gathering!gvars
<1>1. UNCHANGED <<op, handler, target, n, next, status, answer>>
  BY DEF Goroutine, Check, GetOk, GetFails, ReadOk, ReadFails, Skip, Build,
     EndReply, Lock, Load, Store, Unlock, Close, Exit, handlerVars
<1>2. PICK to \in PcValues : pc' = [pc EXCEPT ![w] = to]
  BY GoroutineMoves DEF IInv
<1>3. \A v \in Workers : Decided(v)' <=> Decided(v)
  BY <1>2 DEF Decided, IInv, TypeOK
<1> QED BY <1>1, <1>3 DEF Gathering!gvars

LEMMA GatherGoroutine ==
    ASSUME IInv, NEW w \in Workers, Goroutine(w)
    PROVE  Gathering!Decide(w) \/ UNCHANGED Gathering!gvars
<1>0. TypeOK /\ pc \in [Workers -> PcValues] /\ reply \in [Workers -> Seq({"ok", "empty", "foreign"})]
  BY DEF IInv, TypeOK
<1>1. CASE Check(w)
  <2>1. reply' = reply /\ ~Decided(w) /\ reply[w] = <<>>
    BY <1>1, <1>0 DEF Check, Goto, workerVars, Decided, IInv, GoInv
  <2>2. CASE Unanswerable(w)
    <3>1. Decided(w)'
      BY <1>0, <1>1, <2>2 DEF Check, Goto, Decided, PcValues
    <3> QED BY <2>1, <3>1, GatherDecide
  <2>3. CASE ~Unanswerable(w)
    <3>1. ~Decided(w)'
      BY <1>0, <1>1, <2>3 DEF Check, Goto, Decided
    <3> QED BY <2>1, <3>1, GatherStutter
  <2> QED BY <2>2, <2>3
<1>2. CASE GetFails(w) \/ ReadFails(w)
  <2>1. reply' = reply /\ ~Decided(w) /\ reply[w] = <<>>
    BY <1>2 DEF GetFails, ReadFails, Goto, workerVars, Decided, IInv, GoInv
  <2>2. Decided(w)'
    BY <1>0, <1>2 DEF GetFails, ReadFails, Goto, Decided, PcValues
  <2> QED BY <2>1, <2>2, GatherDecide
<1>3. CASE ReadOk(w)
  <2>1. ~Decided(w) /\ Decided(w)'
    BY <1>0, <1>3 DEF ReadOk, Goto, Decided, PcValues
  <2>2. reply'[w] \in Replies \cup {<<>>, <<"ok">>}
    BY <1>0, <1>3 DEF ReadOk
  <2>3. \A v \in Workers : v # w => reply'[v] = reply[v]
    BY <1>0, <1>3 DEF ReadOk
  <2> QED BY <2>1, <2>2, <2>3, GatherDecide
<1>4. CASE GetOk(w)
  <2>1. ~Decided(w) /\ ~Decided(w)' /\ reply' = reply
    BY <1>0, <1>4 DEF GetOk, Goto, Decided
  <2> QED BY <2>1, GatherStutter
<1>5. CASE \/ Skip(w) \/ Build(w) \/ EndReply(w) \/ Lock(w) \/ Load(w)
           \/ Store(w) \/ Unlock(w) \/ Close(w) \/ Exit(w)
  <2>1. reply' = reply
    BY <1>5 DEF Skip, Build, EndReply, Lock, Load, Store, Unlock, Close, Exit, workerVars
  <2>2. Decided(w) /\ Decided(w)'
    BY <1>0, <1>5 DEF Skip, Build, EndReply, Lock, Load, Store, Unlock, Close, Exit, Goto,
       Decided, PcValues
  <2> QED BY <2>1, <2>2, GatherStutter
<1> QED BY <1>1, <1>2, <1>3, <1>4, <1>5 DEF Goroutine

LEMMA GatherHandler ==
    ASSUME IInv, Accept \/ Refuse \/ Handler
    PROVE  Gathering!GNext \/ UNCHANGED Gathering!gvars
<1>1. CASE Accept
  <2>1. \A w \in Workers : ~Decided(w)'
    BY <1>1 DEF Accept, FreshCall, Decided
  <2>2. Gathering!Ask
    BY <1>1, <2>1 DEF Accept, FreshCall, Gathering!Ask, Gathering!Workers, Workers
  <2> QED BY <2>2 DEF Gathering!GNext
<1>2. CASE Refuse
  <2>1. \A w \in Workers : ~Decided(w)'
    BY <1>2 DEF Refuse, FreshCall, Decided
  <2>2. Gathering!Refuse
    BY <1>2, <2>1 DEF Refuse, FreshCall, Gathering!Refuse, Gathering!Workers, Workers
  <2> QED BY <2>2 DEF Gathering!GNext
<1>3. CASE Spawn
  <2>1. next \in Workers /\ pc[next] = "none"
    BY <1>3, NAssumption DEF Spawn, IInv, SpawnInv, TypeOK, Workers
  <2>2. \A w \in Workers : Decided(w)' <=> Decided(w)
    BY <1>3, <2>1 DEF Spawn, Decided, IInv, TypeOK
  <2> QED BY <1>3, <2>2 DEF Spawn, workerVars, Gathering!gvars
<1>4. CASE EndLoop \/ WaitReturns
  BY <1>4 DEF EndLoop, WaitReturns, workerVars, Gathering!gvars, Decided
<1>5. CASE Marshal
  <2>1. /\ handler = "marshal" /\ handler' = "idle"
        /\ UNCHANGED <<n, pc, reply, metrics>>
        /\ (status' = 200 /\ answer' = metrics) \/ (status' = 500 /\ answer' = <<>>)
    BY <1>5 DEF Marshal, sharedVars, workerVars
  <2>2. wg = 0 /\ next = n + 1 /\ \A w \in Workers : pc[w] \in {"none", "done"}
    BY <2>1, WgZero DEF IInv, AnswerInv, SpawnInv
  <2>3. n \in 0..N /\ \A w \in 1..n : w \in Workers /\ pc[w] = "done"
    BY <2>2, NAssumption DEF IInv, SpawnInv, TypeOK, Workers
  <2>4. \A w \in Workers : pc[w] = "none" => reply[w] = <<>>
    BY DEF IInv, GoInv
  <2>5. \A w \in Workers : Decided(w) <=> pc[w] = "done"
    BY <2>2 DEF Decided, PcValues
  <2>6. \A w \in 1..n : Outcome[w] # <<>>
    BY <2>3, <2>5 DEF Outcome
  <2>7. Range(metrics) = Emitted /\ InOrder(metrics)
    BY DEF IInv, NoLostEntry
  <2>8. Emitted = Gathering!Accepted(Outcome)
    <3>1. \A w \in Workers : Outcome[w] # <<>> <=> pc[w] = "done"
      BY <2>5 DEF Outcome
    <3>2. \A w \in Workers : pc[w] = "done" => Outcome[w][1] = reply[w]
      BY <2>5 DEF Outcome
    <3>3. \A w \in Workers : reply[w] \in Seq({"ok", "empty", "foreign"}) /\ pos[w] \in Nat
      BY DEF IInv, TypeOK
    <3>4. \A w \in Workers : pc[w] = "done" => pos[w] > Len(reply[w])
      BY DEF IInv, GoInv
    <3>5. ASSUME NEW e \in Emitted PROVE e \in Gathering!Accepted(Outcome)
      <4>1. PICK w \in Workers : e \in {w} \X (1..Len(reply[w]))
        BY <3>5 DEF Emitted, Entries
      <4>2. pc[w] = "done"
        BY <2>2, <2>4, <3>3, <4>1
      <4>3. e[1] = w /\ reply[w][e[2]] = "ok"
        BY <3>5, <4>1 DEF Emitted
      <4> QED BY <3>1, <3>2, <4>1, <4>2, <4>3 DEF Gathering!Accepted, Gathering!Workers, Workers
    <3>6. ASSUME NEW e \in Gathering!Accepted(Outcome) PROVE e \in Emitted
      <4>1. PICK w \in Workers : Outcome[w] # <<>> /\ e \in {w} \X (1..Len(Outcome[w][1]))
        BY <3>6 DEF Gathering!Accepted, Gathering!Workers, Workers
      <4>2. pc[w] = "done" /\ e \in {w} \X (1..Len(reply[w])) /\ e[1] = w
        BY <3>1, <3>2, <4>1
      <4>3. reply[w][e[2]] = "ok"
        BY <3>2, <3>6, <4>2 DEF Gathering!Accepted
      <4>4. e[2] < pos[w]
        BY <3>3, <3>4, <4>2
      <4> QED BY <4>2, <4>3, <4>4 DEF Emitted, Entries
    <3> QED BY <3>5, <3>6
  <2>9. Outcome' = Outcome
    BY <2>1 DEF Outcome, Decided
  <2>10. Gathering!InOrder(metrics) /\ Gathering!Range(metrics) = Range(metrics)
    BY <2>7 DEF InOrder, Gathering!InOrder, Range, Gathering!Range
  <2>11. Gathering!Answer
    BY <2>1, <2>6, <2>7, <2>8, <2>9, <2>10 DEF Gathering!Answer, Outcome
  <2> QED BY <2>11 DEF Gathering!GNext
<1> QED BY <1>1, <1>2, <1>3, <1>4, <1>5 DEF Handler

\* Find and Render, with their goroutines, mutex and wait group, implement the
\* atomic gathering, whatever the number of targets and the replies.
THEOREM Refinement == Spec => Gathers
<1>1. IInv /\ [Next]_vars => [Gathering!GNext]_(Gathering!gvars)
  <2>1. SUFFICES ASSUME IInv, [Next]_vars
                 PROVE  Gathering!GNext \/ UNCHANGED Gathering!gvars
    OBVIOUS
  <2>2. CASE UNCHANGED vars
    BY <2>2 DEF vars, Gathering!gvars, Decided
  <2>3. CASE Next
    BY <2>1, <2>3, GatherHandler, GatherGoroutine DEF Next, Gathering!GNext, Gathering!Workers, Workers
  <2> QED BY <2>1, <2>2, <2>3
<1> QED BY GatherInit, Inductive, <1>1, PTL DEF Spec, Gathers, Gathering!GSpec

=============================================================================
