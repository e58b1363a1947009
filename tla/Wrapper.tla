------------------------------ MODULE Wrapper ------------------------------
(***************************************************************************)
(* cmd/matecarbon: the /metrics/find/ and /render/ handlers and the        *)
(* fan-out of Wrapper.Find and Wrapper.Render.  One goroutine per target   *)
(* asks the Prometheus backend and appends what it got to the shared       *)
(* multiResponse.Metrics under a mutex; the handler waits for all of them  *)
(* on a wait group and marshals the response.                              *)
(*                                                                         *)
(* Concurrent HTTP requests share only the immutable config and the HTTP   *)
(* client, so one handler, serving one request after another, is enough.   *)
(* wg, lock and multiResponse are local to a call: Accept makes new ones.  *)
(***************************************************************************)
EXTENDS Naturals, Sequences, FiniteSets, Functions

CONSTANTS N,        \* bound on the targets of one request
          Replies   \* decoded query_range results: sequences of series, each "ok",
                    \* "empty" (no values) or "foreign" (no graphite name)

ASSUME NAssumption == N \in Nat
ASSUME RepliesAssumption == Replies \subseteq Seq({"ok", "empty", "foreign"})

Workers == 1..N
Kinds == {"plain", "star", "long"}   \* "*", longer than 8192 bytes, or neither
NoOwner == 0

VARIABLES
    op,        \* "find" or "render"
    handler,   \* "idle", "spawn", "wait" or "marshal"
    target,    \* target[w]: the kind of the w-th target
    n,         \* number of targets of the request
    next,      \* the loop variable of the spawning loop
    wg,        \* counter of the sync.WaitGroup
    lock,      \* the goroutine that holds the mutex
    pc,        \* where each goroutine is
    body,      \* body[w]: w holds an unclosed response body
    reply,     \* the decoded backend reply of w
    pos,       \* index of the element of reply[w] being handled
    old,       \* the slice append has read and not yet stored back
    metrics,   \* multiResponse.Metrics, of entries <<w, index in reply[w]>>
    status,    \* status of the last HTTP answer, 0 while there is none
    answer     \* the marshalled entries

vars == <<op, handler, target, n, next, wg, lock, pc, body, reply, pos, old,
          metrics, status, answer>>

handlerVars == <<op, handler, target, n, next, status, answer>>
sharedVars == <<wg, lock, metrics>>
workerVars == <<body, reply, pos, old>>

PcValues == {"none", "check", "get", "read", "emit", "lock", "load", "store",
             "unlock", "close", "exit", "done"}

TypeOK ==
    /\ op \in {"find", "render"}
    /\ handler \in {"idle", "spawn", "wait", "marshal"}
    /\ target \in [Workers -> Kinds]
    /\ n \in 0..N
    /\ next \in 1..(N + 1)
    /\ wg \in Nat
    /\ lock \in Workers \cup {NoOwner}
    /\ pc \in [Workers -> PcValues]
    /\ body \in [Workers -> BOOLEAN]
    /\ reply \in [Workers -> Seq({"ok", "empty", "foreign"})]
    /\ pos \in [Workers -> Nat \ {0}]
    /\ old \in [Workers -> Seq(Workers \X Nat)]
    /\ metrics \in Seq(Workers \X Nat)
    /\ status \in {0, 200, 400, 500}
    /\ answer \in Seq(Workers \X Nat)

Init ==
    /\ op = "find"
    /\ handler = "idle"
    /\ target = [w \in Workers |-> "plain"]
    /\ n = 0
    /\ next = 1
    /\ wg = 0
    /\ lock = NoOwner
    /\ pc = [w \in Workers |-> "none"]
    /\ body = [w \in Workers |-> FALSE]
    /\ reply = [w \in Workers |-> <<>>]
    /\ pos = [w \in Workers |-> 1]
    /\ old = [w \in Workers |-> <<>>]
    /\ metrics = <<>>
    /\ status = 0
    /\ answer = <<>>

-----------------------------------------------------------------------------
(* The handler.                                                            *)

\* The locals of a new call of Find or Render.
FreshCall ==
    /\ next' = 1
    /\ wg' = 0
    /\ lock' = NoOwner
    /\ pc' = [w \in Workers |-> "none"]
    /\ body' = [w \in Workers |-> FALSE]
    /\ reply' = [w \in Workers |-> <<>>]
    /\ pos' = [w \in Workers |-> 1]
    /\ old' = [w \in Workers |-> <<>>]
    /\ metrics' = <<>>
    /\ answer' = <<>>

\* The body is read and decoded, Find or Render is called.
Accept ==
    /\ handler = "idle"
    /\ handler' = "spawn"
    /\ op' \in {"find", "render"}
    /\ n' \in 0..N
    /\ target' \in {t \in [Workers -> Kinds] : \A w \in Workers : w > n' => t[w] = "plain"}
    /\ status' = 0
    /\ FreshCall

\* The body cannot be read or is not a protobuf message.
Refuse ==
    /\ handler = "idle"
    /\ status' = 400
    /\ op' \in {"find", "render"}
    /\ n' = 0
    /\ target' = [w \in Workers |-> "plain"]
    /\ FreshCall
    /\ UNCHANGED handler


\* One round of the loop over the targets: wg.Add(1), then the go statement.
Spawn ==
    /\ handler = "spawn"
    /\ next <= n
    /\ wg' = wg + 1
    /\ pc' = [pc EXCEPT ![next] = "check"]
    /\ next' = next + 1
    /\ UNCHANGED <<op, handler, target, n, lock, metrics, status, answer, workerVars>>

EndLoop ==
    /\ handler = "spawn"
    /\ next > n
    /\ handler' = "wait"
    /\ UNCHANGED <<op, target, n, next, status, answer, sharedVars, pc, workerVars>>


\* Mutant: Find and Render return without wg.Wait.
WaitReturns_NoWait ==
    /\ handler = "wait"
    /\ handler' = "marshal"
    /\ UNCHANGED <<op, target, n, next, status, answer, sharedVars, pc, workerVars>>

\* wg.Wait returns, and with it Find or Render, always with a nil error.
WaitReturns ==
    /\ handler = "wait"
    /\ wg = 0
    /\ handler' = "marshal"
    /\ UNCHANGED <<op, target, n, next, status, answer, sharedVars, pc, workerVars>>

\* Marshal the response and write it, or report that it cannot be marshalled.
Marshal ==
    /\ handler = "marshal"
    /\ handler' = "idle"
    /\ \/ status' = 200 /\ answer' = metrics
       \/ status' = 500 /\ answer' = <<>>
    /\ UNCHANGED <<op, target, n, next, sharedVars, pc, workerVars>>

-----------------------------------------------------------------------------
(* The goroutine of target w.                                              *)

Goto(w, from, to) == pc[w] = from /\ pc' = [pc EXCEPT ![w] = to]

\* Both refuse long targets, only Find refuses "*".
Unanswerable(w) == target[w] = "long" \/ (op = "find" /\ target[w] = "star")


\* Mutant: the early return comes before the deferred wg.Done is registered.
Check_NoDone(w) ==
    /\ Goto(w, "check", IF Unanswerable(w) THEN "done" ELSE "get")
    /\ UNCHANGED <<handlerVars, sharedVars, workerVars>>

Check(w) ==
    /\ Goto(w, "check", IF Unanswerable(w) THEN "exit" ELSE "get")
    /\ UNCHANGED <<handlerVars, sharedVars, workerVars>>

\* The GET answers.  From here on the deferred Body.Close is registered.
GetOk(w) ==
    /\ Goto(w, "get", "read")
    /\ body' = [body EXCEPT ![w] = TRUE]
    /\ UNCHANGED <<handlerVars, sharedVars, reply, pos, old>>

\* It fails: refused, timed out, or the caller's context is cancelled.
GetFails(w) ==
    /\ Goto(w, "get", "exit")
    /\ UNCHANGED <<handlerVars, sharedVars, workerVars>>

\* The body is read within PrometheusMaxBody and decoded.  Find makes one
\* GlobResponse of any list of labels, Render handles the series one by one.
ReadOk(w) ==
    /\ Goto(w, "read", "emit")
    /\ \E r \in IF op = "find" THEN {<<"ok">>} ELSE Replies :
           reply' = [reply EXCEPT ![w] = r]
    /\ UNCHANGED <<handlerVars, sharedVars, body, pos, old>>


\* Mutant: Body.Close is deferred only after the body was read and decoded.
ReadFails_NoClose(w) ==
    /\ Goto(w, "read", "exit")
    /\ UNCHANGED <<handlerVars, sharedVars, workerVars>>

\* A read error, or JSON that does not decode (cut off by the limit, too).
ReadFails(w) ==
    /\ Goto(w, "read", "close")
    /\ UNCHANGED <<handlerVars, sharedVars, workerVars>>

\* Mutant: the loop does not go on to the next series.
Skip_NoAdvance(w) ==
    /\ pc[w] = "emit"
    /\ pos[w] <= Len(reply[w])
    /\ reply[w][pos[w]] # "ok"
    /\ UNCHANGED vars

\* Series without values or without a graphite name are skipped.
Skip(w) ==
    /\ pc[w] = "emit"
    /\ pos[w] <= Len(reply[w])
    /\ reply[w][pos[w]] # "ok"
    /\ pos' = [pos EXCEPT ![w] = @ + 1]
    /\ UNCHANGED <<handlerVars, sharedVars, pc, body, reply, old>>

Build(w) ==
    /\ pos[w] <= Len(reply[w])
    /\ reply[w][pos[w]] = "ok"
    /\ Goto(w, "emit", "lock")
    /\ UNCHANGED <<handlerVars, sharedVars, workerVars>>

EndReply(w) ==
    /\ pos[w] > Len(reply[w])
    /\ Goto(w, "emit", "close")
    /\ UNCHANGED <<handlerVars, sharedVars, workerVars>>


\* Mutant: the append is not protected.
Lock_Ignored(w) ==
    /\ lock' = w
    /\ Goto(w, "lock", "load")
    /\ UNCHANGED <<handlerVars, wg, metrics, workerVars>>

Lock(w) ==
    /\ lock = NoOwner
    /\ lock' = w
    /\ Goto(w, "lock", "load")
    /\ UNCHANGED <<handlerVars, wg, metrics, workerVars>>

\* multiResponse.Metrics = append(multiResponse.Metrics, metric) is a read of
\* the slice and a later write of it.
Load(w) ==
    /\ Goto(w, "load", "store")
    /\ old' = [old EXCEPT ![w] = metrics]
    /\ UNCHANGED <<handlerVars, sharedVars, body, reply, pos>>

Store(w) ==
    /\ Goto(w, "store", "unlock")
    /\ metrics' = Append(old[w], <<w, pos[w]>>)
    /\ pos' = [pos EXCEPT ![w] = @ + 1]
    /\ UNCHANGED <<handlerVars, wg, lock, body, reply, old>>

Unlock(w) ==
    /\ Goto(w, "unlock", "emit")
    /\ lock' = NoOwner
    /\ UNCHANGED <<handlerVars, wg, metrics, workerVars>>

\* The deferred calls run last registered first: Body.Close, then wg.Done.
Close(w) ==
    /\ Goto(w, "close", "exit")
    /\ body' = [body EXCEPT ![w] = FALSE]
    /\ UNCHANGED <<handlerVars, sharedVars, reply, pos, old>>

Exit(w) ==
    /\ Goto(w, "exit", "done")
    /\ wg' = wg - 1
    /\ UNCHANGED <<handlerVars, lock, metrics, workerVars>>

Goroutine(w) ==
    \/ Check(w) \/ GetOk(w) \/ GetFails(w) \/ ReadOk(w) \/ ReadFails(w)
    \/ Skip(w) \/ Build(w) \/ EndReply(w)
    \/ Lock(w) \/ Load(w) \/ Store(w) \/ Unlock(w) \/ Close(w) \/ Exit(w)

Handler == Spawn \/ EndLoop \/ WaitReturns \/ Marshal

Next == Accept \/ Refuse \/ Handler \/ \E w \in Workers : Goroutine(w)

Spec == Init /\ [][Next]_vars

\* The Go scheduler runs every goroutine that can run; the HTTP client's
\* timeout bounds the wait for the backend, so "get" and "read" always end.
\* The mutex is starvation free (sync.Mutex hands over after 1ms).
FairSpec == /\ Spec
            /\ WF_vars(Handler)
            /\ \A w \in Workers : WF_vars(Goroutine(w)) /\ SF_vars(Lock(w))

-----------------------------------------------------------------------------
(* Properties.                                                             *)

Unfinished == {w \in Workers : pc[w] \notin {"none", "done"}}

\* The wait group counts exactly the goroutines that were started and have
\* not run their deferred wg.Done: no early return of Find or Render (lines
\* 206-257, 306-374) forgets it, so wg.Wait neither hangs nor returns early.
WgCountsUnfinished == wg = Cardinality(Unfinished)

\* The elements of the backend's replies to this request.
Entries == UNION {{w} \X (1..Len(reply[w])) : w \in Workers}

\* What the goroutines have appended so far.
Emitted == {e \in Entries : e[2] < pos[e[1]] /\ reply[e[1]][e[2]] = "ok"}

\* Each entry once, and those of one target in the backend's order.
InOrder(s) ==
    \A a, b \in 1..Len(s) : a < b /\ s[a][1] = s[b][1] => s[a][2] < s[b][2]

\* No append to multiResponse.Metrics is lost to, or repeated by, a concurrent
\* append of another goroutine (lines 270-272 and 446-448).
NoLostEntry == Range(metrics) = Emitted /\ InOrder(metrics)

\* The entries the backend gave for the targets of this request.
Served == {e \in Entries : reply[e[1]][e[2]] = "ok"}

\* A 200 answer has every entry of every target whose backend call succeeded,
\* and of no other; the failure of one target costs nothing but its own
\* entries, and no goroutine is left behind (lines 189-277, 287-454, 106-118).
AnswerComplete ==
    status = 200 =>
        /\ \A w \in Workers : pc[w] = IF w <= n THEN "done" ELSE "none"
        /\ Range(answer) = Served
        /\ InOrder(answer)

\* Once Find or Render has returned no backend response body of the request
\* is still open: wg.Done runs after Body.Close (lines 198-202 and 243).
BodiesClosed == handler \in {"marshal", "idle"} => \A w \in Workers : ~body[w]

\* The response does not change while the HTTP handler marshals it, and what
\* was answered stays what the response holds until the next request.
ResponseFrozen ==
    [][handler = "marshal" => metrics' = metrics /\ (status' = 200 => answer' = metrics')]_vars

\* Every accepted request is answered, whatever its targets and however the
\* backend fails (the wait of lines 276 and 453 ends).
EveryRequestAnswered == handler = "spawn" ~> handler = "idle" /\ status \in {200, 500}

\* Find and Render implement the atomic gathering of Gather.  A target is
\* decided when its goroutine has the decoded reply, or gave up.
Decided(w) == pc[w] \in PcValues \ {"none", "check", "get", "read"}

Gathering == INSTANCE Gather WITH
    open    <- handler # "idle",
    want    <- n,
    outcome <- [w \in Workers |-> IF Decided(w) THEN <<reply[w]>> ELSE <<>>]

Gathers == Gathering!GSpec

=============================================================================
