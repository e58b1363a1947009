------------------------- MODULE RegexpCacheProofs -------------------------
(***************************************************************************)
(* Proofs about the cache of regular expressions, for any number of        *)
(* threads and patterns, any limit and any share to evict.                 *)
(***************************************************************************)
EXTENDS RegexpCache, FiniteSetTheorems, TLAPS

\* Who holds the lock is told by the program counters.
LockInv ==
    \A t \in Threads :
        /\ pc[t] = "lookup" <=> t \in readers
        /\ pc[t] \in {"evict", "insert"} <=> writer = t

\* Readers and the writer exclude each other.
MuInv == writer # None => readers = {}

\* A thread has a pattern from its call on, and its result once compiled.
ArgInv ==
    \A t \in Threads :
        /\ pc[t] # "idle" => arg[t] \in Patterns
        /\ pc[t] \in {"lock", "evict", "insert", "idle"} => result[t] = arg[t]
        /\ pc[t] = "counted" => result[t] \in {None, arg[t]}
        /\ pc[t] \in {"rlock", "lookup", "compile"} => result[t] = None

ValueInv == \A p \in Patterns : m[p] \in {None, p}

\* When a thread is about to insert there is room for its entry.
RoomInv ==
    /\ SizeBounded
    /\ \A t \in Threads : pc[t] = "insert" => Cardinality(Cached) <= MaxLen

IInv == TypeOK /\ LockInv /\ MuInv /\ ArgInv /\ ValueInv /\ RoomInv

LEMMA InitIInv == Init => IInv
<1> SUFFICES ASSUME Init PROVE IInv
  OBVIOUS
<1> USE CacheAssumption DEF Init
<1>1. TypeOK
  BY DEF TypeOK, PcValues
<1>2. LockInv /\ MuInv /\ ArgInv /\ ValueInv
  BY DEF LockInv, MuInv, ArgInv, ValueInv
<1>3. Cached = {}
  BY DEF Cached
<1>4. RoomInv
  BY <1>3, FS_EmptySet DEF RoomInv, SizeBounded
<1> QED BY <1>1, <1>2, <1>4 DEF IInv

LEMMA CachedFinite == IsFiniteSet(Cached) /\ Cardinality(Cached) \in Nat
  BY CacheAssumption, FS_Subset, FS_CardinalityType DEF Cached

LEMMA TypeNext == ASSUME IInv, [Next]_vars PROVE TypeOK'
<1> USE CacheAssumption DEF IInv, TypeOK, PcValues, Goto, lockVars, counters
<1>1. ASSUME NEW t \in Threads, Call(t) PROVE TypeOK'
  BY <1>1 DEF Call
<1>2. ASSUME NEW t \in Threads, RLock(t) \/ Hit(t) \/ Miss(t) PROVE TypeOK'
  <2>1. CASE RLock(t)
    BY <2>1 DEF RLock
  <2>2. CASE Hit(t)
    BY <2>2 DEF Hit
  <2>3. CASE Miss(t)
    BY <2>3 DEF Miss
  <2> QED BY <1>2, <2>1, <2>2, <2>3
<1>3. ASSUME NEW t \in Threads, Lookup(t) PROVE TypeOK'
  <2>1. arg[t] \in Patterns
    BY <1>3 DEF Lookup, ArgInv
  <2> QED BY <1>3, <2>1 DEF Lookup
<1>4. ASSUME NEW t \in Threads, Compile(t) PROVE TypeOK'
  BY <1>4 DEF Compile
<1>5. ASSUME NEW t \in Threads, PutLock(t) PROVE TypeOK'
  <2>1. Cardinality(Cached) \div EvictShare \in Nat
    BY CachedFinite
  <2>2. pc' \in [Threads -> PcValues]
    BY <1>5 DEF PutLock
  <2> QED BY <1>5, <2>1, <2>2 DEF PutLock
<1>6. ASSUME NEW t \in Threads, Evict(t) PROVE TypeOK'
  <2>1. PICK p \in Patterns : m' = [m EXCEPT ![p] = None]
    BY <1>6 DEF Evict, Cached
  <2>2. overflow' \in Int /\ pc' \in [Threads -> PcValues]
    BY <1>6 DEF Evict
  <2> QED BY <1>6, <2>1, <2>2 DEF Evict
<1>7. ASSUME NEW t \in Threads, Insert(t) PROVE TypeOK'
  BY <1>7 DEF Insert
<1>8. CASE UNCHANGED vars
  BY <1>8 DEF vars
<1> QED BY <1>1, <1>2, <1>3, <1>4, <1>5, <1>6, <1>7, <1>8 DEF Next, CompileRegexp, Quiet

LEMMA LockNext == ASSUME IInv, [Next]_vars PROVE LockInv' /\ MuInv'
<1> USE CacheAssumption DEF IInv, TypeOK, LockInv, MuInv, Goto, lockVars, counters
<1>1. ASSUME NEW t \in Threads, Call(t) PROVE LockInv' /\ MuInv'
  BY <1>1 DEF Call
<1>2. ASSUME NEW t \in Threads, RLock(t) PROVE LockInv' /\ MuInv'
  BY <1>2 DEF RLock
<1>3. ASSUME NEW t \in Threads, Lookup(t) PROVE LockInv' /\ MuInv'
  BY <1>3 DEF Lookup
<1>4. ASSUME NEW t \in Threads, Hit(t) \/ Miss(t) PROVE LockInv' /\ MuInv'
  BY <1>4 DEF Hit, Miss
<1>5. ASSUME NEW t \in Threads, Compile(t) PROVE LockInv' /\ MuInv'
  BY <1>5 DEF Compile
<1>6. ASSUME NEW t \in Threads, PutLock(t) PROVE LockInv' /\ MuInv'
  <2>1. PICK to \in {"evict", "insert"} : pc' = [pc EXCEPT ![t] = to]
    BY <1>6 DEF PutLock
  <2> QED BY <1>6, <2>1 DEF PutLock
<1>7. ASSUME NEW t \in Threads, Evict(t) PROVE LockInv' /\ MuInv'
  <2>1. PICK to \in {"evict", "insert"} : pc' = [pc EXCEPT ![t] = to]
    BY <1>7 DEF Evict
  <2> QED BY <1>7, <2>1 DEF Evict
<1>8. ASSUME NEW t \in Threads, Insert(t) PROVE LockInv' /\ MuInv'
  BY <1>8 DEF Insert
<1>9. CASE UNCHANGED vars
  BY <1>9 DEF vars
<1> QED BY <1>1, <1>2, <1>3, <1>4, <1>5, <1>6, <1>7, <1>8, <1>9 DEF Next, CompileRegexp, Quiet

LEMMA ValuesNext == ASSUME IInv, [Next]_vars PROVE ArgInv' /\ ValueInv'
<1> USE CacheAssumption DEF IInv, TypeOK, ArgInv, ValueInv, Goto, lockVars, counters
<1>1. ASSUME NEW t \in Threads, Call(t) PROVE ArgInv' /\ ValueInv'
  BY <1>1 DEF Call
<1>2. ASSUME NEW t \in Threads, RLock(t) PROVE ArgInv' /\ ValueInv'
  BY <1>2 DEF RLock
<1>3. ASSUME NEW t \in Threads, Lookup(t) PROVE ArgInv' /\ ValueInv'
  BY <1>3 DEF Lookup
<1>4. ASSUME NEW t \in Threads, Hit(t) \/ Miss(t) PROVE ArgInv' /\ ValueInv'
  BY <1>4 DEF Hit, Miss
<1>5. ASSUME NEW t \in Threads, Compile(t) PROVE ArgInv' /\ ValueInv'
  BY <1>5 DEF Compile
<1>6. ASSUME NEW t \in Threads, PutLock(t) PROVE ArgInv' /\ ValueInv'
  <2>1. PICK to \in {"evict", "insert"} : pc' = [pc EXCEPT ![t] = to]
    BY <1>6 DEF PutLock
  <2> QED BY <1>6, <2>1 DEF PutLock
<1>7. ASSUME NEW t \in Threads, Evict(t) PROVE ArgInv' /\ ValueInv'
  <2>1. PICK to \in {"evict", "insert"} : pc' = [pc EXCEPT ![t] = to]
    BY <1>7 DEF Evict
  <2>2. PICK p \in Patterns : m' = [m EXCEPT ![p] = None]
    BY <1>7 DEF Evict, Cached
  <2> QED BY <1>7, <2>1, <2>2 DEF Evict
<1>8. ASSUME NEW t \in Threads, Insert(t) PROVE ArgInv' /\ ValueInv'
  BY <1>8 DEF Insert
<1>9. CASE UNCHANGED vars
  BY <1>9 DEF vars
<1> QED BY <1>1, <1>2, <1>3, <1>4, <1>5, <1>6, <1>7, <1>8, <1>9 DEF Next, CompileRegexp, Quiet

\* A step that neither changes the map nor reaches "insert" keeps the room.
LEMMA RoomKept ==
    ASSUME IInv, UNCHANGED m, \A u \in Threads : pc'[u] = "insert" => pc[u] = "insert"
    PROVE  RoomInv'
  BY DEF IInv, RoomInv, SizeBounded, Cached

LEMMA RoomNext == ASSUME IInv, [Next]_vars PROVE RoomInv'
<1> USE DEF IInv
<1>1. ASSUME NEW t \in Threads,
             Call(t) \/ RLock(t) \/ Lookup(t) \/ Hit(t) \/ Miss(t) \/ Compile(t)
      PROVE  RoomInv'
  <2>1. UNCHANGED m
    BY <1>1 DEF Call, RLock, Lookup, Hit, Miss, Compile
  <2>2. PICK to \in {"rlock", "lookup", "counted", "idle", "compile", "lock"} :
            pc' = [pc EXCEPT ![t] = to]
    BY <1>1 DEF Call, RLock, Lookup, Hit, Miss, Compile, Goto
  <2>3. \A u \in Threads : pc'[u] = "insert" => pc[u] = "insert"
    BY <2>2 DEF TypeOK
  <2> QED BY <2>1, <2>3, RoomKept
<1>2. ASSUME NEW t \in Threads, PutLock(t) PROVE RoomInv'
  <2>1. m' = m /\ Cached' = Cached
    BY <1>2 DEF PutLock, Cached
  <2>2. \A u \in Threads : u # t => pc[u] \notin {"evict", "insert"} /\ pc'[u] = pc[u]
    BY <1>2, CacheAssumption DEF PutLock, Goto, LockInv, TypeOK
  <2>3. pc'[t] = "insert" => ~(Cardinality(Cached) > MaxLen)
    BY <1>2 DEF PutLock, Goto, TypeOK
  <2> QED BY <2>1, <2>2, <2>3, CachedFinite, CacheAssumption DEF RoomInv, SizeBounded
<1>3. ASSUME NEW t \in Threads, Evict(t) PROVE RoomInv'
  <2>1. PICK p \in Cached : m' = [m EXCEPT ![p] = None]
    BY <1>3 DEF Evict
  <2>2. Cached' = Cached \ {p}
    BY <2>1 DEF Cached, TypeOK
  <2>3. Cardinality(Cached') = Cardinality(Cached) - 1
    BY <2>1, <2>2, CachedFinite, FS_RemoveElement
  <2>4. Cardinality(Cached') <= MaxLen
    BY <2>3, CachedFinite, CacheAssumption DEF RoomInv, SizeBounded
  <2>5. Cardinality(Cached') \in Nat
    BY <2>2, CachedFinite, FS_Subset, FS_CardinalityType
  <2> QED BY <2>4, <2>5, CacheAssumption DEF RoomInv, SizeBounded
<1>4. ASSUME NEW t \in Threads, Insert(t) PROVE RoomInv'
  <2>1. arg[t] \in Patterns /\ result[t] = arg[t] /\ pc[t] = "insert"
    BY <1>4 DEF Insert, Goto, ArgInv
  <2>2. Cached' = Cached \cup {arg[t]}
    BY <1>4, <2>1, CacheAssumption DEF Insert, Cached, TypeOK
  <2>3. Cardinality(Cached') <= Cardinality(Cached) + 1 /\ Cardinality(Cached') \in Nat
    <3>1. CASE arg[t] \in Cached
      <4>1. Cached' = Cached
        BY <2>2, <3>1
      <4> QED BY <4>1, CachedFinite
    <3>2. CASE arg[t] \notin Cached
      <4> DEFINE a == arg[t]
      <4>1. Cached' = Cached \cup {a} /\ a \notin Cached
        BY <2>2, <3>2
      <4> HIDE DEF a
      <4>2. Cardinality(Cached \cup {a}) = Cardinality(Cached) + 1
        BY <4>1, CachedFinite, FS_AddElement
      <4>3. Cardinality(Cached') = Cardinality(Cached) + 1
        BY <4>1, <4>2
      <4> QED BY <4>3, CachedFinite
    <3> QED BY <3>1, <3>2
  <2>4. Cardinality(Cached) <= MaxLen
    BY <2>1 DEF RoomInv
  <2>5. SizeBounded'
    BY <2>3, <2>4, CachedFinite, CacheAssumption DEF SizeBounded
  <2>6. \A u \in Threads : pc'[u] # "insert"
    BY <1>4, <2>1 DEF Insert, Goto, LockInv, TypeOK
  <2> QED BY <2>5, <2>6 DEF RoomInv
<1>5. CASE UNCHANGED vars
  BY <1>5, RoomKept DEF vars
<1> QED BY <1>1, <1>2, <1>3, <1>4, <1>5 DEF Next, CompileRegexp, Quiet

\* The inductive invariant of the cache.
THEOREM Inductive == Spec => []IInv
<1>1. IInv /\ [Next]_vars => IInv'
  BY TypeNext, LockNext, ValuesNext, RoomNext DEF IInv
<1> QED BY InitIInv, <1>1, PTL DEF Spec

\* Every variable keeps its type.
THEOREM TypeCorrect == Spec => []TypeOK
<1>1. IInv => TypeOK
  BY DEF IInv
<1> QED BY Inductive, <1>1, PTL

\* No thread touches the map while another writes it.
THEOREM MapRaceFree == Spec => []NoMapRace
<1>1. IInv => NoMapRace
  BY CacheAssumption DEF IInv, LockInv, MuInv, NoMapRace, TypeOK
<1> QED BY Inductive, <1>1, PTL

\* CompileRegexp returns the result of compiling its argument.
THEOREM ResultsRight == Spec => []RightResult
<1>1. IInv => RightResult
  BY DEF IInv, ArgInv, ValueInv, RightResult, Cached
<1> QED BY Inductive, <1>1, PTL

\* The cache never outgrows its limit by more than one entry.
THEOREM CacheBounded == Spec => []SizeBounded
<1>1. IInv => SizeBounded
  BY DEF IInv, RoomInv
<1> QED BY Inductive, <1>1, PTL

=============================================================================
