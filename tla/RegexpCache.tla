---------------------------- MODULE RegexpCache ----------------------------
(***************************************************************************)
(* mateql/regexp_cache.go: the cache of compiled regular expressions that  *)
(* every parse of a query shares.  CompileRegexp looks the pattern up      *)
(* under the read lock, compiles it outside any lock if it is missing, and *)
(* puts the result under the write lock, which evicts a share of the       *)
(* entries when the map has outgrown its limit.                            *)
(*                                                                         *)
(* The result of compiling p, an expression or an error, is p itself.      *)
(***************************************************************************)
EXTENDS Integers, FiniteSets

CONSTANTS Threads, Patterns,
          None,
          MaxLen,       \* regexpCacheMaxLen, 10000 in the code
          EvictShare,   \* one in EvictShare entries is evicted: 10 in the code
          MaxRequests   \* bound on the number of calls

ASSUME CacheAssumption == /\ MaxLen \in Nat /\ MaxRequests \in Nat
                          /\ EvictShare \in Nat \ {0}
                          /\ IsFiniteSet(Patterns)
                          /\ None \notin Patterns
                          /\ None \notin Threads

VARIABLES pc, arg, result,     \* of each thread in CompileRegexp
          m,                   \* m[p]: the cached value, None if absent
          readers, writer,     \* who holds mu
          overflow,            \* the local of Put
          requests, misses     \* the atomic counters

vars == <<pc, arg, result, m, readers, writer, overflow, requests, misses>>
lockVars == <<readers, writer>>
counters == <<requests, misses>>

Cached == {p \in Patterns : m[p] # None}

Init ==
    /\ pc = [t \in Threads |-> "idle"]
    /\ arg = [t \in Threads |-> None]
    /\ result = [t \in Threads |-> None]
    /\ m = [p \in Patterns |-> None]
    /\ readers = {}
    /\ writer = None
    /\ overflow = 0
    /\ requests = 0
    /\ misses = 0

Goto(t, from, to) == pc[t] = from /\ pc' = [pc EXCEPT ![t] = to]

-----------------------------------------------------------------------------
(* Get.                                                                    *)

Call(t) ==
    /\ requests < MaxRequests
    /\ Goto(t, "idle", "rlock")
    /\ \E p \in Patterns : arg' = [arg EXCEPT ![t] = p]
    /\ result' = [result EXCEPT ![t] = None]
    /\ requests' = requests + 1
    /\ UNCHANGED <<m, lockVars, overflow, misses>>

\* Mutant: the lookup does not wait for a writer.
RLock_Ignored(t) ==
    /\ Goto(t, "rlock", "lookup")
    /\ readers' = readers \cup {t}
    /\ UNCHANGED <<arg, result, m, writer, overflow, counters>>

RLock(t) ==
    /\ Goto(t, "rlock", "lookup")
    /\ writer = None
    /\ readers' = readers \cup {t}
    /\ UNCHANGED <<arg, result, m, writer, overflow, counters>>

\* The lookup and RUnlock.
Lookup(t) ==
    /\ Goto(t, "lookup", "counted")
    /\ result' = [result EXCEPT ![t] = m[arg[t]]]
    /\ readers' = readers \ {t}
    /\ UNCHANGED <<arg, m, writer, overflow, counters>>

\* Mutant: the caller looks again as long as it finds something.
Hit_LooksAgain(t) ==
    /\ result[t] # None
    /\ Goto(t, "counted", "rlock")
    /\ result' = [result EXCEPT ![t] = None]
    /\ UNCHANGED <<arg, m, lockVars, overflow, counters>>

Hit(t) ==
    /\ result[t] # None
    /\ Goto(t, "counted", "idle")
    /\ UNCHANGED <<arg, result, m, lockVars, overflow, counters>>

Miss(t) ==
    /\ result[t] = None
    /\ Goto(t, "counted", "compile")
    /\ misses' = misses + 1
    /\ UNCHANGED <<arg, result, m, lockVars, overflow, requests>>

-----------------------------------------------------------------------------
(* Compile and Put.                                                        *)

Compile(t) ==
    /\ Goto(t, "compile", "lock")
    /\ result' = [result EXCEPT ![t] = arg[t]]
    /\ UNCHANGED <<arg, m, lockVars, overflow, counters>>

\* Mutant: the limit is tested one entry too late.
PutLock_OffByOne(t) ==
    /\ writer = None
    /\ readers = {}
    /\ Goto(t, "lock", IF Cardinality(Cached) > MaxLen + 1 THEN "evict" ELSE "insert")
    /\ writer' = t
    /\ overflow' = Cardinality(Cached) \div EvictShare
    /\ UNCHANGED <<arg, result, m, readers, counters>>

\* mu.Lock() and the test for overflow.  (Only an eviction reads overflow.)
PutLock(t) ==
    /\ writer = None
    /\ readers = {}
    /\ Goto(t, "lock", IF Cardinality(Cached) > MaxLen THEN "evict" ELSE "insert")
    /\ writer' = t
    /\ overflow' = Cardinality(Cached) \div EvictShare
    /\ UNCHANGED <<arg, result, m, readers, counters>>

\* One round of the loop over the map, in Go's unspecified order: delete, count
\* down, and leave when nothing is left to count.  A share that rounds to zero
\* still costs one entry; the map, larger than the share, does not run out.
Evict(t) ==
    /\ pc[t] = "evict"
    /\ \E p \in Cached : m' = [m EXCEPT ![p] = None]
    /\ overflow' = overflow - 1
    /\ pc' = [pc EXCEPT ![t] = IF overflow - 1 <= 0 THEN "insert" ELSE "evict"]
    /\ UNCHANGED <<arg, result, lockVars, counters>>

\* Mutant: Put stores what the last caller compiled under another key.
Insert_WrongKey(t) ==
    /\ Goto(t, "insert", "idle")
    /\ \E p \in Patterns : m' = [m EXCEPT ![p] = result[t]]
    /\ writer' = None
    /\ UNCHANGED <<arg, result, readers, overflow, counters>>

\* The assignment and mu.Unlock(), after which CompileRegexp returns.
Insert(t) ==
    /\ Goto(t, "insert", "idle")
    /\ m' = [m EXCEPT ![arg[t]] = result[t]]
    /\ writer' = None
    /\ UNCHANGED <<arg, result, readers, overflow, counters>>

CompileRegexp(t) ==
    \/ RLock(t) \/ Lookup(t) \/ Hit(t) \/ Miss(t) \/ Compile(t)
    \/ PutLock(t) \/ Evict(t) \/ Insert(t)

\* No caller is left.
Quiet == (\A t \in Threads : pc[t] = "idle") /\ requests = MaxRequests /\ UNCHANGED vars

Next == (\E t \in Threads : Call(t) \/ CompileRegexp(t)) \/ Quiet

Spec == Init /\ [][Next]_vars

\* Threads run, and sync.RWMutex starves neither readers nor writers.
FairSpec == /\ Spec
            /\ \A t \in Threads : /\ WF_vars(CompileRegexp(t))
                                  /\ SF_vars(RLock(t))
                                  /\ SF_vars(PutLock(t))

-----------------------------------------------------------------------------
(* Properties.                                                             *)

PcValues == {"idle", "rlock", "lookup", "counted", "compile", "lock", "evict", "insert"}

TypeOK ==
    /\ pc \in [Threads -> PcValues]
    /\ arg \in [Threads -> Patterns \cup {None}]
    /\ result \in [Threads -> Patterns \cup {None}]
    /\ m \in [Patterns -> Patterns \cup {None}]
    /\ readers \subseteq Threads
    /\ writer \in Threads \cup {None}
    /\ overflow \in Int
    /\ requests \in Nat
    /\ misses \in Nat

\* The map is never read while it is written, nor written twice at a time: the
\* Go runtime ends the process when it sees that (lines 73-75 and 84-98).
NoMapRace ==
    \A t, u \in Threads :
        pc[t] \in {"evict", "insert"} /\ t # u =>
            pc[u] \notin {"lookup", "evict", "insert"}

\* Whatever the order of concurrent lookups, compilations, evictions and puts, a
\* caller gets the result of compiling its own pattern (lines 16-28).
RightResult ==
    /\ \A t \in Threads : pc[t] = "idle" => result[t] = arg[t]
    /\ \A p \in Cached : m[p] = p

\* The map holds at most one entry more than regexpCacheMaxLen, however many
\* callers missed at the same time (lines 85-97).
SizeBounded == Cardinality(Cached) <= MaxLen + 1

\* Every call of CompileRegexp returns.
CallsReturn == \A t \in Threads : pc[t] = "rlock" ~> pc[t] = "idle"

=============================================================================
