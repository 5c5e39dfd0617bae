---------------------------- MODULE CacheProofs ----------------------------
(***************************************************************************)
(* What is proved of the cache for any threads, any finite set of keys,    *)
(* any max_size and any ttl.                                               *)
(***************************************************************************)
EXTENDS Cache, FiniteSetTheorems, TLAPS

Bound == IF MaxSize = 0 THEN 1 ELSE MaxSize

\* As long as no two requests have overlapped, one request at most is under way.
OneAtATime == ~overlapped => \A t, u \in Threads : Busy(t) /\ Busy(u) => t = u

\* Between the steps of a request the dictionary only shrinks, to nothing.
ScanStands ==
    ~overlapped => \A t \in Threads :
        pc[t] = "scan" => Present(scan[t]) = Present(cache) \/ Present(cache) = {}

VictimStands ==
    ~overlapped => \A t \in Threads :
        pc[t] = "pop" => victim[t] \in Present(cache) \/ Present(cache) = {}

\* Who is about to store has made room.
RoomToStore == ~overlapped => \A t \in Threads : pc[t] = "store" => Size < Bound

IInv == TypeOK /\ OneAtATime /\ ScanStands /\ VictimStands /\ RoomToStore /\ SizeBound

-----------------------------------------------------------------------------
(* Sizes.                                                                  *)

LEMMA PresentFinite ==
    ASSUME NEW d
    PROVE  /\ IsFiniteSet(Present(d))
           /\ Cardinality(Present(d)) \in Nat
           /\ Cardinality(Present(d)) = 0 <=> Present(d) = {}
<1>1. Present(d) \subseteq Keys
  BY DEF Present
<1>2. IsFiniteSet(Present(d))
  BY <1>1, CacheAssumption, FS_Subset
<1> QED
  BY <1>2, FS_CardinalityType, FS_EmptySet

LEMMA BoundPositive == Bound \in Nat /\ Bound >= 1 /\ Bound >= MaxSize
BY CacheAssumption DEF Bound

\* A store adds at most one entry, a pop takes at most one.
LEMMA StoreSize ==
    ASSUME NEW d \in [Keys -> Entry \cup {Absent}], NEW k \in Keys, NEW e \in Fresh
    PROVE  Cardinality(Present([d EXCEPT ![k] = e])) <= Cardinality(Present(d)) + 1
<1>1. Present([d EXCEPT ![k] = e]) = Present(d) \cup {k}
  BY CacheAssumption DEF Present, Fresh, Absent
<1>2. IsFiniteSet(Present(d)) /\ Cardinality(Present(d)) \in Nat
  BY PresentFinite
<1>3. Cardinality(Present(d) \cup {k}) = Cardinality(Present(d))
        \/ Cardinality(Present(d) \cup {k}) = Cardinality(Present(d)) + 1
  BY <1>2, FS_AddElement
<1>4. Cardinality(Present(d) \cup {k}) <= Cardinality(Present(d)) + 1
  BY <1>2, <1>3
<1> QED
  BY <1>1, <1>4, Zenon

LEMMA PopSize ==
    ASSUME NEW d \in [Keys -> Entry \cup {Absent}], NEW k \in Keys
    PROVE  /\ Cardinality(Present([d EXCEPT ![k] = Absent])) <= Cardinality(Present(d))
           /\ k \in Present(d) =>
                Cardinality(Present([d EXCEPT ![k] = Absent])) = Cardinality(Present(d)) - 1
<1>1. Present([d EXCEPT ![k] = Absent]) = Present(d) \ {k}
  BY DEF Present
<1>2. IsFiniteSet(Present(d)) /\ Cardinality(Present(d)) \in Nat
  BY PresentFinite
<1>3. Cardinality(Present(d) \ {k}) =
        (IF k \in Present(d) THEN Cardinality(Present(d)) - 1 ELSE Cardinality(Present(d)))
  BY <1>2, FS_RemoveElement
<1>4. /\ Cardinality(Present(d) \ {k}) <= Cardinality(Present(d))
      /\ k \in Present(d) => Cardinality(Present(d) \ {k}) = Cardinality(Present(d)) - 1
  BY <1>2, <1>3
<1> QED
  BY <1>1, <1>4, Zenon

\* Growing old removes nothing.
LEMMA AgeKeeps ==
    ASSUME NEW d \in [Keys -> Entry \cup {Absent}]
    PROVE  Present([k \in Keys |-> Older(d[k])]) = Present(d)
BY CacheAssumption DEF Present, Older, Entry, Fresh, Expired, Absent

LEMMA OlderType ==
    ASSUME NEW e \in Entry \cup {Absent}
    PROVE  Older(e) \in Entry \cup {Absent}
BY CacheAssumption DEF Older, Entry, Fresh, Expired, Absent

-----------------------------------------------------------------------------
(* Types.                                                                  *)

LEMMA TypesInit == Init => TypeOK
<1> SUFFICES ASSUME Init PROVE TypeOK
  OBVIOUS
<1>1. Nothing \in [Keys -> Entry \cup {Absent}]
  BY DEF Nothing
<1>2. key \in [Threads -> Keys]
  <2>1. PICK k \in Keys : key = [t \in Threads |-> k]
    BY DEF Init
  <2> QED
    BY <2>1
<1>3. /\ pc \in [Threads -> PC]
      /\ item \in [Threads -> Entry \cup {Absent}]
  BY DEF Init, PC
<1>4. scan \in [Threads -> [Keys -> Entry \cup {Absent}]]
  BY <1>1 DEF Init
<1> QED
  BY <1>1, <1>2, <1>3, <1>4 DEF Init, TypeOK

LEMMA RequestTypes ==
    ASSUME TypeOK, NEW t \in Threads, Request(t), overlapped' = (overlapped \/ Overlap')
    PROVE  TypeOK'
<1> USE DEF TypeOK
<1>1. Overlap' \in BOOLEAN
  BY DEF Overlap
<1>2. overlapped' \in BOOLEAN
  BY <1>1
<1>3. CASE \E k \in Keys : Get(t, k)
  BY <1>2, <1>3 DEF Get, Goto, PC
<1>4. CASE Hit(t) \/ FindExpired(t)
  BY <1>2, <1>4 DEF Hit, FindExpired, Goto, PC
<1>5. CASE DropExpired(t) \/ Raises(t) \/ Responds(t)
  BY <1>2, <1>5 DEF DropExpired, Raises, Responds, Goto, PC, locals
<1>6. CASE CheckSize(t)
  BY <1>2, <1>6 DEF CheckSize, CheckSizeThen, Goto, PC, locals
<1>7. CASE BeginScan(t)
  BY <1>2, <1>7 DEF BeginScan, Goto, PC, Nothing
<1>8. CASE EndScan(t)
  <2>1. PICK d \in {scan[t], cache} : \E k \in Present(d) :
          victim' = [victim EXCEPT ![t] = k]
    BY <1>8 DEF EndScan
  <2>2. victim' \in [Threads -> Keys]
    BY <2>1 DEF Present
  <2> QED
    BY <1>2, <1>8, <2>2 DEF EndScan, Goto, PC, Nothing
<1>9. CASE ScanRaises(t)
  BY <1>2, <1>9 DEF ScanRaises, Goto, PC, Nothing
<1>10. CASE Evict(t)
  <2>1. victim[t] \in Keys /\ key[t] \in Keys
    OBVIOUS
  <2> QED
    BY <1>2, <1>10, <2>1 DEF Evict, Goto, PC
<1>11. CASE Store(t)
  <2>1. TTL \in Entry \cup {Absent}
    BY CacheAssumption DEF Entry, Fresh
  <2> QED
    BY <1>2, <1>11, <2>1 DEF Store, Goto, PC, locals
<1> QED
  BY <1>3, <1>4, <1>5, <1>6, <1>7, <1>8, <1>9, <1>10, <1>11 DEF Request

LEMMA TypesStep == TypeOK /\ [Next]_vars => TypeOK'
<1> SUFFICES ASSUME TypeOK, [Next]_vars PROVE TypeOK'
  OBVIOUS
<1>1. CASE \E t \in Threads : Request(t) /\ overlapped' = (overlapped \/ Overlap')
  BY <1>1, RequestTypes
<1>2. CASE Clear
  BY <1>2 DEF Clear, TypeOK, Nothing, locals
<1>3. CASE Tick
  BY <1>3, OlderType DEF Tick, TypeOK
<1>4. CASE UNCHANGED vars
  BY <1>4 DEF vars, locals, TypeOK
<1> QED
  BY <1>1, <1>2, <1>3, <1>4 DEF Next

\* The dictionary holds responses that have ttl left or have expired, and every
\* thread of get and set is where the code can be.
THEOREM TypeCorrect == Spec => []TypeOK
<1> QED
  BY TypesInit, TypesStep, PTL DEF Spec

-----------------------------------------------------------------------------
(* Sizes, step by step.                                                    *)

\* Where no other thread has a request, what holds of all threads holds of one.
LEMMA Alone ==
    ASSUME IInv, NEW t \in Threads, Request(t), overlapped' = (overlapped \/ Overlap'),
           ~overlapped'
    PROVE  /\ ~overlapped
           /\ \A u \in Threads \ {t} : pc[u] = "idle" /\ pc'[u] = "idle"
           /\ OneAtATime'
<1>1. ~overlapped /\ ~Overlap'
  BY DEF Overlap
<1>2. \A u \in Threads \ {t} : pc'[u] = pc[u]
  BY DEF Request, Get, Hit, FindExpired, DropExpired, Raises, Responds, CheckSize,
         CheckSizeThen, BeginScan, EndScan, ScanRaises, Evict, Store, Goto, IInv, TypeOK
<1>3. Busy(t) \/ Busy(t)'
  <2>1. CASE \E k \in Keys : Get(t, k)
    BY <2>1 DEF Get, Goto, Busy, IInv, TypeOK
  <2>2. CASE ~ \E k \in Keys : Get(t, k)
    BY <2>2 DEF Request, Hit, FindExpired, DropExpired, Raises, Responds, CheckSize,
         CheckSizeThen, BeginScan, EndScan, ScanRaises, Evict, Store, Goto, Busy
  <2> QED
    BY <2>1, <2>2
<1>4. \A u \in Threads \ {t} : ~Busy(u)
  BY <1>1, <1>2, <1>3 DEF IInv, OneAtATime, Overlap, Busy
<1>5. OneAtATime'
  BY <1>1 DEF OneAtATime, Overlap
<1> QED
  BY <1>1, <1>2, <1>4, <1>5 DEF Busy

LEMMA RequestStep ==
    ASSUME IInv, NEW t \in Threads, Request(t), overlapped' = (overlapped \/ Overlap')
    PROVE  IInv'
<1>1. TypeOK'
  BY RequestTypes DEF IInv
<1> SUFFICES ASSUME ~overlapped'
             PROVE  IInv'
  BY <1>1 DEF IInv, OneAtATime, ScanStands, VictimStands, RoomToStore, SizeBound
<1>2. ~overlapped /\ OneAtATime' /\ \A u \in Threads \ {t} : pc'[u] = "idle"
  BY Alone
<1>3. Size \in Nat /\ Size <= Bound /\ Bound \in Nat /\ Bound >= 1 /\ Bound >= MaxSize
  BY <1>2, PresentFinite, BoundPositive DEF IInv, SizeBound, Size, Bound
<1>4. cache \in [Keys -> Entry \cup {Absent}] /\ key[t] \in Keys /\ victim[t] \in Keys
  BY DEF IInv, TypeOK
\* What has to be shown of the thread that moves.
<1> SUFFICES /\ Size' <= Bound
             /\ pc'[t] = "scan" => Present(scan'[t]) = Present(cache') \/ Present(cache') = {}
             /\ pc'[t] = "pop" => victim'[t] \in Present(cache') \/ Present(cache') = {}
             /\ pc'[t] = "store" => Size' < Bound
  <2>1. ScanStands'
    BY <1>2 DEF ScanStands, Present
  <2>2. VictimStands'
    BY <1>2 DEF VictimStands, Present
  <2>3. RoomToStore'
    BY <1>2 DEF RoomToStore
  <2>4. SizeBound'
    BY DEF SizeBound, Bound
  <2> QED
    BY <1>1, <1>2, <2>1, <2>2, <2>3, <2>4 DEF IInv
<1>5. CASE \E k \in Keys : Get(t, k)
  BY <1>3, <1>5 DEF Get, Goto, Size, IInv, TypeOK
<1>6. CASE Hit(t) \/ FindExpired(t) \/ Raises(t) \/ Responds(t)
  BY <1>3, <1>6 DEF Hit, FindExpired, Raises, Responds, Goto, Size, IInv, TypeOK
<1>7. CASE DropExpired(t)
  <2>1. Size' <= Size /\ Size' \in Nat
    BY <1>4, <1>7, PopSize, PresentFinite DEF DropExpired, Size
  <2> QED
    BY <1>3, <1>7, <2>1 DEF DropExpired, Goto, IInv, TypeOK
<1>8. CASE CheckSize(t)
  <2>1. Size' = Size
    BY <1>8 DEF CheckSize, CheckSizeThen, Size
  <2>2. pc'[t] = "store" => Size < MaxSize
    BY <1>3, <1>8, CacheAssumption DEF CheckSize, CheckSizeThen, Goto, IInv, TypeOK
  <2> QED
    BY <1>3, <1>8, <2>1, <2>2, CacheAssumption
    DEF CheckSize, CheckSizeThen, Goto, IInv, TypeOK
<1>9. CASE BeginScan(t)
  BY <1>3, <1>9 DEF BeginScan, Goto, Size, IInv, TypeOK
<1>10. CASE EndScan(t)
  <2>1. Size' = Size /\ pc'[t] = "pop" /\ cache' = cache
    BY <1>10 DEF EndScan, Goto, Size, IInv, TypeOK
  <2>2. PICK d \in {scan[t], cache} : victim'[t] \in Present(d)
    BY <1>10 DEF EndScan, IInv, TypeOK
  <2>3. Present(scan[t]) = Present(cache) \/ Present(cache) = {}
    BY <1>2, <1>10 DEF EndScan, Goto, IInv, ScanStands
  <2>4. Present(cache) = {} => Present(scan[t]) = {}
    BY <1>10, PresentFinite DEF EndScan, Size
  <2> QED
    BY <1>3, <2>1, <2>2, <2>3, <2>4
<1>11. CASE ScanRaises(t)
  BY <1>3, <1>11 DEF ScanRaises, Goto, Size, IInv, TypeOK
<1>12. CASE Evict(t)
  <2>1. victim[t] \in Present(cache) \/ Present(cache) = {}
    BY <1>2, <1>12 DEF Evict, Goto, IInv, VictimStands
  <2>2. /\ Size' \in Nat /\ Size' <= Size
        /\ victim[t] \in Present(cache) => Size' = Size - 1
    BY <1>4, <1>12, PopSize, PresentFinite DEF Evict, Size
  <2>3. Present(cache) = {} => Size = 0
    BY PresentFinite DEF Size
  <2>4. Size' < Bound
    BY <1>3, <2>1, <2>2, <2>3
  <2> QED
    BY <1>3, <1>12, <2>2, <2>4 DEF Evict, Goto, IInv, TypeOK
<1>13. CASE Store(t)
  <2>1. Size < Bound
    BY <1>2, <1>13 DEF Store, Goto, IInv, RoomToStore
  <2>2. TTL \in Fresh
    BY CacheAssumption DEF Fresh
  <2>3. Size' \in Nat /\ Size' <= Size + 1
    BY <1>4, <1>13, <2>2, StoreSize, PresentFinite DEF Store, Size
  <2> QED
    BY <1>3, <1>13, <2>1, <2>3 DEF Store, Goto, IInv, TypeOK
<1> QED
  BY <1>5, <1>6, <1>7, <1>8, <1>9, <1>10, <1>11, <1>12, <1>13 DEF Request

LEMMA ClearStep == IInv /\ Clear => IInv'
<1> SUFFICES ASSUME IInv, Clear PROVE IInv'
  OBVIOUS
<1>1. TypeOK'
  BY TypesStep DEF IInv, Next
<1>2. Present(cache') = {}
  BY DEF Clear, Present, Nothing
<1>3. Size' = 0
  BY <1>2, PresentFinite DEF Size
<1>4. /\ pc' = pc /\ scan' = scan /\ victim' = victim /\ overlapped' = overlapped
  BY DEF Clear, locals
<1>5. OneAtATime'
  BY <1>4 DEF IInv, OneAtATime, Busy
<1>6. ScanStands' /\ VictimStands'
  BY <1>2 DEF ScanStands, VictimStands
<1>7. RoomToStore' /\ SizeBound'
  BY <1>3, BoundPositive DEF RoomToStore, SizeBound, Bound
<1> QED
  BY <1>1, <1>5, <1>6, <1>7 DEF IInv

LEMMA TickStep == IInv /\ Tick => IInv'
<1> SUFFICES ASSUME IInv, Tick PROVE IInv'
  OBVIOUS
<1>1. TypeOK'
  BY TypesStep DEF IInv, Next
<1>2. Present(cache') = Present(cache)
  BY AgeKeeps DEF Tick, IInv, TypeOK
<1>3. \A t \in Threads : Present(scan'[t]) = Present(scan[t])
  BY AgeKeeps DEF Tick, IInv, TypeOK
<1>4. Size' = Size
  BY <1>2 DEF Size
<1>5. pc' = pc /\ victim' = victim /\ overlapped' = overlapped
  BY DEF Tick
<1>6. OneAtATime'
  BY <1>5 DEF IInv, OneAtATime, Busy
<1>7. ScanStands' /\ VictimStands'
  BY <1>2, <1>3, <1>5 DEF IInv, ScanStands, VictimStands
<1>8. RoomToStore' /\ SizeBound'
  BY <1>4, <1>5 DEF IInv, RoomToStore, SizeBound
<1> QED
  BY <1>1, <1>6, <1>7, <1>8 DEF IInv

LEMMA IInvInit == Init => IInv
<1> SUFFICES ASSUME Init PROVE IInv
  OBVIOUS
<1>1. TypeOK
  BY TypesInit
<1>2. \A t \in Threads : pc[t] = "idle"
  BY DEF Init
<1>3. Present(cache) = {}
  BY DEF Init, Present, Nothing
<1>4. Size = 0
  BY <1>3, PresentFinite DEF Size
<1> QED
  BY <1>1, <1>2, <1>4, BoundPositive
  DEF IInv, OneAtATime, ScanStands, VictimStands, RoomToStore, SizeBound, Busy, Bound

LEMMA IInvStep == IInv /\ [Next]_vars => IInv'
<1> SUFFICES ASSUME IInv, [Next]_vars PROVE IInv'
  OBVIOUS
<1>1. CASE \E t \in Threads : Request(t) /\ overlapped' = (overlapped \/ Overlap')
  BY <1>1, RequestStep
<1>2. CASE Clear \/ Tick
  BY <1>2, ClearStep, TickStep
<1>3. CASE UNCHANGED vars
  <2>1. TypeOK'
    BY <1>3, TypesStep DEF IInv
  <2> QED
    BY <1>3, <2>1 DEF vars, locals, IInv, OneAtATime, ScanStands, VictimStands, RoomToStore,
                      SizeBound, Size, Busy
<1> QED
  BY <1>1, <1>2, <1>3 DEF Next

\* As long as no two requests overlap, max_size is the most the cache holds,
\* although size check, eviction and store are steps of their own and clear()
\* and the clock come between them.
THEOREM SizeKept == Spec => []SizeBound
<1>1. IInv => SizeBound
  BY DEF IInv
<1> QED
  BY <1>1, IInvInit, IInvStep, PTL DEF Spec

-----------------------------------------------------------------------------
(* Which entries are kept.                                                 *)

\* What is cached is what was stored last.
Faithful == \A k \in Keys : cache[k] # Absent => cache[k] = latest[k]

\* A thread finds the dictionary as it read it, or cleared.
Reading == \A t \in Threads : pc[t] = "got" => cache[key[t]] \in {item[t], Absent}

Missing ==
    \A t \in Threads :
        /\ pc[t] = "expired" => cache[key[t]] \notin Fresh
        /\ pc[t] \in {"calling", "set", "evict", "scan", "pop", "store"} => cache[key[t]] = Absent

Evicting ==
    \A t \in Threads : pc[t] \in {"evict", "scan", "pop"} /\ Present(cache) # {} =>
        /\ Size >= MaxSize
        /\ pc[t] = "scan" => scan[t] = cache
        /\ pc[t] = "pop" => NoneIsOlder(cache, victim[t])

\* Other responses as young as that of k, the one about to be stored among them.
Coming(k) ==
    {j \in Keys \ {k} : latest[j] >= latest[k] \/ \E t \in Threads : pc[t] = "store" /\ key[t] = j}

Kept ==
    \A k \in Keys : latest[k] \in Fresh => cache[k] = latest[k] \/ Cardinality(Coming(k)) >= MaxSize

KeepInv == Faithful /\ (~overlapped => Reading /\ Missing /\ Evicting /\ Kept)

LEMMA ComingFinite ==
    ASSUME NEW k \in Keys, NEW S, S \subseteq Coming(k)
    PROVE  /\ Cardinality(Coming(k)) \in Nat
           /\ Cardinality(S) \in Nat
           /\ Cardinality(S) <= Cardinality(Coming(k))
<1>1. Coming(k) \subseteq Keys
  BY DEF Coming
<1>2. IsFiniteSet(Coming(k))
  BY <1>1, CacheAssumption, FS_Subset
<1>3. IsFiniteSet(S) /\ Cardinality(S) <= Cardinality(Coming(k))
  BY <1>2, FS_Subset
<1> QED
  BY <1>2, <1>3, FS_CardinalityType

\* A response that is still cached, or has as many as young as before, is kept.
LEMMA StaysKept ==
    ASSUME NEW k \in Keys,
           Kept, latest[k] \in Fresh,
           cache[k] = latest[k] => cache'[k] = latest'[k],
           Coming(k) \subseteq Coming(k)'
    PROVE  cache'[k] = latest'[k] \/ Cardinality(Coming(k)') >= MaxSize
<1>1. CASE cache[k] = latest[k]
  BY <1>1
<1>2. CASE Cardinality(Coming(k)) >= MaxSize
  <2>1. Coming(k)' \subseteq Keys
    BY DEF Coming
  <2>2. IsFiniteSet(Coming(k)')
    BY <2>1, CacheAssumption, FS_Subset
  <2>3. IsFiniteSet(Coming(k)) /\ Cardinality(Coming(k)) <= Cardinality(Coming(k)')
    BY <2>2, FS_Subset
  <2>4. Cardinality(Coming(k)) \in Nat /\ Cardinality(Coming(k)') \in Nat
    BY <2>2, <2>3, FS_CardinalityType
  <2> QED
    BY <1>2, <2>3, <2>4, CacheAssumption
<1> QED
  BY <1>1, <1>2 DEF Kept

\* The victim is the oldest entry: the others, and the response to come, are as
\* young, and with max_size entries in the cache they are max_size.
LEMMA VictimOutlived ==
    ASSUME TypeOK, Faithful, NEW t \in Threads, pc'[t] = "store", key' = key, latest' = latest,
           NEW v \in Present(cache), NoneIsOlder(cache, v),
           key[t] \notin Present(cache), Size >= MaxSize
    PROVE  Cardinality(Coming(v)') >= MaxSize
<1> DEFINE S == (Present(cache) \ {v}) \cup {key[t]}
<1>1. v \in Keys /\ key[t] \in Keys /\ key[t] # v
  BY DEF TypeOK, Present
<1>2. \A j \in Present(cache) : j \in Keys /\ cache[j] = latest[j]
  BY DEF Present, Faithful
<1>3. \A j \in Present(cache) \ {v} : latest'[j] >= latest'[v]
  <2> SUFFICES ASSUME NEW j \in Present(cache) \ {v} PROVE latest'[j] >= latest'[v]
    OBVIOUS
  <2>1. cache[v] <= cache[j]
    BY DEF NoneIsOlder
  <2>2. cache[v] = latest[v] /\ cache[j] = latest[j]
    BY <1>2
  <2>3. cache[v] \in Int /\ cache[j] \in Int
    BY <1>1, <1>2, CacheAssumption DEF TypeOK, Entry, Fresh, Expired, Absent
  <2> QED
    BY <2>1, <2>2, <2>3
<1>4. S \subseteq Coming(v)'
  <2> SUFFICES ASSUME NEW j \in S PROVE j \in Coming(v)'
    OBVIOUS
  <2>1. j \in Keys \ {v}
    BY <1>1, <1>2
  <2>2. latest'[j] >= latest'[v] \/ (pc'[t] = "store" /\ key'[t] = j)
    BY <1>3
  <2>3. latest'[j] >= latest'[v] \/ \E u \in Threads : pc'[u] = "store" /\ key'[u] = j
    BY <2>2
  <2> QED
    BY <2>1, <2>3 DEF Coming
<1>5. Cardinality(S) = Size
  <2>1. IsFiniteSet(Present(cache)) /\ Cardinality(Present(cache)) \in Nat
    BY PresentFinite
  <2>2. IsFiniteSet(Present(cache) \ {v})
        /\ Cardinality(Present(cache) \ {v}) = Cardinality(Present(cache)) - 1
    BY <2>1, FS_RemoveElement
  <2>3. key[t] \notin Present(cache) \ {v}
    OBVIOUS
  <2>4. Cardinality(S) = Cardinality(Present(cache) \ {v}) + 1
    BY <2>2, <2>3, FS_AddElement
  <2> QED
    BY <2>1, <2>2, <2>4 DEF Size
<1>6. IsFiniteSet(Coming(v)')
  <2>1. Coming(v)' \subseteq Keys
    BY DEF Coming
  <2> QED
    BY <2>1, CacheAssumption, FS_Subset
<1>7. Cardinality(S) <= Cardinality(Coming(v)') /\ Cardinality(Coming(v)') \in Nat
  BY <1>4, <1>6, FS_Subset, FS_CardinalityType
<1>8. Size \in Nat
  BY PresentFinite DEF Size
<1> HIDE DEF S
<1> QED
  BY <1>5, <1>7, <1>8, CacheAssumption

LEMMA FaithfulStep ==
    ASSUME TypeOK, Faithful, NEW t \in Threads, Request(t)
    PROVE  Faithful'
<1> USE DEF TypeOK
<1>1. key[t] \in Keys /\ victim[t] \in Keys
  OBVIOUS
<1>2. CASE DropExpired(t)
  BY <1>1, <1>2 DEF DropExpired, Faithful
<1>3. CASE Evict(t)
  BY <1>1, <1>3 DEF Evict, Faithful
<1>4. CASE Store(t)
  BY <1>1, <1>4 DEF Store, Faithful
<1>5. CASE cache' = cache /\ latest' = latest
  BY <1>5 DEF Faithful
<1> QED
  BY <1>2, <1>3, <1>4, <1>5 DEF Request, Get, Hit, FindExpired, Raises, Responds, CheckSize,
     CheckSizeThen, BeginScan, EndScan, ScanRaises

\* What the moving thread knows of the dictionary; the others have no request.
LEMMA RequestKnows ==
    ASSUME IInv, KeepInv, NEW t \in Threads, Request(t),
           overlapped' = (overlapped \/ Overlap'), ~overlapped'
    PROVE  Reading' /\ Missing' /\ Evicting'
<1>1. ~overlapped /\ \A u \in Threads \ {t} : pc'[u] = "idle"
  BY Alone
<1>2. TypeOK /\ Faithful /\ Reading /\ Missing /\ Evicting
  BY <1>1 DEF IInv, KeepInv
<1>3. cache \in [Keys -> Entry \cup {Absent}] /\ key[t] \in Keys /\ victim[t] \in Keys
      /\ pc \in [Threads -> PC] /\ item \in [Threads -> Entry \cup {Absent}]
      /\ scan \in [Threads -> [Keys -> Entry \cup {Absent}]]
      /\ key \in [Threads -> Keys] /\ victim \in [Threads -> Keys]
  BY <1>2 DEF TypeOK
<1> SUFFICES /\ pc'[t] = "got" => cache'[key'[t]] \in {item'[t], Absent}
             /\ pc'[t] = "expired" => cache'[key'[t]] \notin Fresh
             /\ pc'[t] \in {"calling", "set", "evict", "scan", "pop", "store"} =>
                  cache'[key'[t]] = Absent
             /\ pc'[t] \in {"evict", "scan", "pop"} /\ Present(cache') # {} =>
                  /\ Size' >= MaxSize
                  /\ pc'[t] = "scan" => scan'[t] = cache'
                  /\ pc'[t] = "pop" => NoneIsOlder(cache', victim'[t])
  <2>1. Reading'
    BY <1>1 DEF Reading
  <2>2. Missing'
    BY <1>1 DEF Missing
  <2>3. Evicting'
    BY <1>1 DEF Evicting, Present, NoneIsOlder
  <2> QED
    BY <2>1, <2>2, <2>3
<1>4. CASE \E k \in Keys : Get(t, k)
  BY <1>3, <1>4 DEF Get, Goto
<1>5. CASE Hit(t) \/ Raises(t) \/ ScanRaises(t) \/ Store(t)
  BY <1>3, <1>5 DEF Hit, Raises, ScanRaises, Store, Goto
<1>6. CASE FindExpired(t)
  <2>1. pc'[t] = "expired" /\ cache' = cache /\ key' = key /\ item[t] = Expired
    BY <1>3, <1>6 DEF FindExpired, Goto
  <2>2. cache[key[t]] \in {Expired, Absent}
    BY <1>2, <1>6, <2>1 DEF Reading, FindExpired, Goto
  <2> QED
    BY <2>1, <2>2, CacheAssumption DEF Fresh, Expired, Absent
<1>7. CASE DropExpired(t)
  BY <1>3, <1>7 DEF DropExpired, Goto, locals
<1>8. CASE Responds(t)
  <2>1. cache[key[t]] = Absent
    BY <1>2, <1>8 DEF Missing, Responds, Goto
  <2> QED
    BY <1>3, <1>8, <2>1 DEF Responds, Goto, locals
<1>9. CASE CheckSize(t)
  <2>1. cache[key[t]] = Absent
    BY <1>2, <1>9 DEF Missing, CheckSize, CheckSizeThen, Goto
  <2>2. Size' = Size /\ cache' = cache /\ key' = key
    BY <1>9 DEF CheckSize, CheckSizeThen, Size, locals
  <2>3. pc'[t] = "store" \/ (pc'[t] = "evict" /\ Size >= MaxSize)
    BY <1>3, <1>9 DEF CheckSize, CheckSizeThen, Goto
  <2> QED
    BY <2>1, <2>2, <2>3
<1>10. CASE BeginScan(t)
  <2>1. cache[key[t]] = Absent
    BY <1>2, <1>10 DEF Missing, BeginScan, Goto
  <2>2. Size' = Size /\ cache' = cache /\ key' = key
    BY <1>10 DEF BeginScan, Size
  <2>3. Present(cache) # {} => Size >= MaxSize
    BY <1>2, <1>10 DEF Evicting, BeginScan, Goto
  <2>4. Present(cache) # {} => Size # 0
    BY PresentFinite DEF Size
  <2>5. pc'[t] = "store" \/ (pc'[t] = "scan" /\ (Size # 0 => scan'[t] = cache))
    BY <1>3, <1>10 DEF BeginScan, Goto
  <2> QED
    BY <2>1, <2>2, <2>3, <2>4, <2>5
<1>11. CASE EndScan(t)
  <2>1. cache[key[t]] = Absent
    BY <1>2, <1>11 DEF Missing, EndScan, Goto
  <2>2. Size' = Size /\ cache' = cache /\ key' = key /\ pc'[t] = "pop"
    BY <1>3, <1>11 DEF EndScan, Size, Goto
  <2>3. Present(cache) # {} => Size >= MaxSize /\ scan[t] = cache
    BY <1>2, <1>11 DEF Evicting, EndScan, Goto
  <2>4. PICK d \in {scan[t], cache} : NoneIsOlder(d, victim'[t])
    BY <1>3, <1>11 DEF EndScan
  <2>5. Present(cache) # {} => NoneIsOlder(cache, victim'[t])
    BY <2>3, <2>4
  <2> QED
    BY <2>1, <2>2, <2>3, <2>5
<1>12. CASE Evict(t)
  <2>1. cache[key[t]] = Absent
    BY <1>2, <1>12 DEF Missing, Evict, Goto
  <2> QED
    BY <1>3, <1>12, <2>1 DEF Evict, Goto
<1> QED
  BY <1>4, <1>5, <1>6, <1>7, <1>8, <1>9, <1>10, <1>11, <1>12 DEF Request

LEMMA RequestKeeps ==
    ASSUME IInv, KeepInv, NEW t \in Threads, Request(t),
           overlapped' = (overlapped \/ Overlap'), ~overlapped'
    PROVE  Kept'
<1>1. ~overlapped /\ \A u \in Threads \ {t} : pc[u] = "idle" /\ pc'[u] = "idle"
  BY Alone
<1>2. TypeOK /\ Faithful /\ Reading /\ Missing /\ Evicting /\ Kept
  BY <1>1 DEF IInv, KeepInv
<1>3. key[t] \in Keys /\ victim[t] \in Keys /\ pc \in [Threads -> PC]
      /\ cache \in [Keys -> Entry \cup {Absent}] /\ latest \in [Keys -> Entry \cup {Absent}]
  BY <1>2 DEF TypeOK
<1> SUFFICES ASSUME NEW k \in Keys, latest'[k] \in Fresh
             PROVE  cache'[k] = latest'[k] \/ Cardinality(Coming(k)') >= MaxSize
  BY DEF Kept
\* Unless a response is stored, none is lost from those to come.
<1>4. ASSUME latest' = latest, pc[t] # "store"
      PROVE  Coming(k) \subseteq Coming(k)'
  <2>1. ~ \E u \in Threads : pc[u] = "store" /\ key[u] = k
    BY <1>1, <1>4
  <2>2. \A u \in Threads : pc[u] # "store"
    BY <1>1, <1>4
  <2> QED
    BY <1>4, <2>2 DEF Coming
<1>5. CASE cache' = cache /\ latest' = latest /\ pc[t] # "store"
  BY <1>2, <1>4, <1>5, StaysKept
<1>6. CASE DropExpired(t)
  <2>1. latest' = latest /\ pc[t] = "expired" /\ cache' = [cache EXCEPT ![key[t]] = Absent]
    BY <1>6 DEF DropExpired, Goto
  <2>2. cache[key[t]] \notin Fresh
    BY <1>2, <2>1 DEF Missing
  <2>3. cache[k] = latest[k] => cache'[k] = latest'[k]
    BY <1>3, <2>1, <2>2
  <2> QED
    BY <1>2, <1>4, <2>1, <2>3, StaysKept
<1>7. CASE Evict(t)
  <2>1. latest' = latest /\ pc[t] = "pop" /\ cache' = [cache EXCEPT ![victim[t]] = Absent]
        /\ pc'[t] = "store" /\ key' = key
    BY <1>3, <1>7 DEF Evict, Goto
  <2>2. CASE k = victim[t] /\ cache[k] = latest[k]
    <3>1. cache[k] # Absent
      BY <2>1, <2>2, CacheAssumption DEF Fresh, Absent
    <3>2. k \in Present(cache)
      BY <3>1 DEF Present
    <3>3. cache[key[t]] = Absent
      BY <1>2, <2>1 DEF Missing
    <3>4. key[t] \notin Present(cache)
      BY <3>3 DEF Present
    <3>5. Size >= MaxSize /\ NoneIsOlder(cache, k)
      BY <1>2, <2>1, <2>2, <3>2 DEF Evicting
    <3> QED
      BY <1>2, <2>1, <3>2, <3>4, <3>5, VictimOutlived
  <2>3. CASE ~(k = victim[t] /\ cache[k] = latest[k])
    <3>1. cache[k] = latest[k] => cache'[k] = latest'[k]
      BY <1>3, <2>1, <2>3
    <3> QED
      BY <1>2, <1>4, <2>1, <3>1, StaysKept
  <2> QED
    BY <2>2, <2>3
<1>8. CASE Store(t)
  <2>1. /\ cache' = [cache EXCEPT ![key[t]] = TTL]
        /\ latest' = [latest EXCEPT ![key[t]] = TTL]
    BY <1>8 DEF Store
  <2>2. CASE k = key[t]
    BY <1>3, <2>1, <2>2
  <2>3. CASE k # key[t]
    <3>1. cache'[k] = cache[k] /\ latest'[k] = latest[k]
      BY <1>3, <2>1, <2>3
    <3>2. \A j \in Coming(k) : j = key[t] \/ latest[j] >= latest[k]
      BY <1>1 DEF Coming
    <3>3. latest'[key[t]] >= latest'[k]
      BY <1>3, <2>1, <3>1, CacheAssumption DEF Fresh
    <3>4. \A j \in Coming(k) : latest'[j] >= latest'[k]
      <4> SUFFICES ASSUME NEW j \in Coming(k), j # key[t] PROVE latest'[j] >= latest'[k]
        BY <3>3
      <4>1. j \in Keys
        BY DEF Coming
      <4> QED
        BY <1>3, <2>1, <3>1, <3>2, <4>1
    <3>5. Coming(k) \subseteq Coming(k)'
      BY <3>4 DEF Coming
    <3> QED
      BY <1>2, <3>1, <3>5, StaysKept
  <2> QED
    BY <2>2, <2>3
<1> QED
  BY <1>5, <1>6, <1>7, <1>8 DEF Request, Get, Hit, FindExpired, Raises, Responds, CheckSize,
     CheckSizeThen, BeginScan, EndScan, ScanRaises, Goto

LEMMA ClearKeeps == IInv /\ KeepInv /\ Clear => KeepInv'
<1> SUFFICES ASSUME IInv, KeepInv, Clear PROVE KeepInv'
  OBVIOUS
<1>1. /\ cache' = Nothing /\ latest' = Nothing
      /\ pc' = pc /\ key' = key /\ item' = item /\ overlapped' = overlapped
  BY DEF Clear, locals
<1>2. key \in [Threads -> Keys]
  BY DEF IInv, TypeOK
<1>3. \A k \in Keys : cache'[k] = Absent /\ latest'[k] = Absent
  BY <1>1 DEF Nothing
<1>4. Present(cache') = {}
  BY <1>3 DEF Present
<1>5. Absent \notin Fresh
  BY CacheAssumption DEF Absent, Fresh
<1>6. Faithful'
  BY <1>3 DEF Faithful
<1>7. Reading' /\ Missing'
  BY <1>1, <1>2, <1>3, <1>5 DEF Reading, Missing
<1>8. Evicting'
  BY <1>4 DEF Evicting
<1>9. Kept'
  BY <1>3, <1>5 DEF Kept
<1> QED
  BY <1>6, <1>7, <1>8, <1>9 DEF KeepInv

\* Growing old leaves the order of what is there, and makes nothing fresh.
LEMMA OlderOrder ==
    ASSUME NEW a \in Entry \cup {Absent}, NEW b \in Entry \cup {Absent}
    PROVE  /\ Older(a) = Absent <=> a = Absent
           /\ Older(a) \in Fresh => a \in Fresh
           /\ a # Absent /\ b # Absent /\ a <= b => Older(a) <= Older(b)
           /\ Older(a) \in Fresh /\ b >= a => Older(b) >= Older(a)
BY CacheAssumption DEF Older, Entry, Fresh, Expired, Absent

LEMMA TickKeeps == IInv /\ KeepInv /\ Tick => KeepInv'
<1> SUFFICES ASSUME IInv, KeepInv, Tick PROVE KeepInv'
  OBVIOUS
<1>1. TypeOK
  BY DEF IInv
<1>2. /\ key \in [Threads -> Keys] /\ victim \in [Threads -> Keys]
      /\ cache \in [Keys -> Entry \cup {Absent}] /\ latest \in [Keys -> Entry \cup {Absent}]
      /\ item \in [Threads -> Entry \cup {Absent}]
      /\ scan \in [Threads -> [Keys -> Entry \cup {Absent}]]
  BY <1>1 DEF TypeOK
<1>3. /\ \A k \in Keys : cache'[k] = Older(cache[k]) /\ latest'[k] = Older(latest[k])
      /\ \A t \in Threads : item'[t] = Older(item[t])
      /\ \A t \in Threads : scan'[t] = [k \in Keys |-> Older(scan[t][k])]
      /\ cache' = [k \in Keys |-> Older(cache[k])]
      /\ pc' = pc /\ key' = key /\ victim' = victim /\ overlapped' = overlapped
  BY DEF Tick
<1>4. \A k \in Keys : cache[k] \in Entry \cup {Absent} /\ latest[k] \in Entry \cup {Absent}
  BY <1>2
<1>5. \A k \in Keys : cache'[k] = Absent <=> cache[k] = Absent
  BY <1>3, <1>4, OlderOrder
<1>6. Faithful'
  BY <1>3, <1>5 DEF KeepInv, Faithful
<1> SUFFICES ASSUME ~overlapped
             PROVE  Reading' /\ Missing' /\ Evicting' /\ Kept'
  BY <1>3, <1>6 DEF KeepInv
<1>7. Reading /\ Missing /\ Evicting /\ Kept
  BY DEF KeepInv
<1>8. Reading'
  <2> SUFFICES ASSUME NEW t \in Threads, pc[t] = "got"
               PROVE  cache'[key[t]] \in {item'[t], Absent}
    BY <1>3 DEF Reading
  <2>1. key[t] \in Keys /\ cache[key[t]] \in {item[t], Absent}
    BY <1>2, <1>7 DEF Reading
  <2> QED
    BY <1>3, <1>5, <2>1
<1>9. Missing'
  <2> SUFFICES ASSUME NEW t \in Threads
               PROVE  /\ pc[t] = "expired" => cache'[key[t]] \notin Fresh
                      /\ pc[t] \in {"calling", "set", "evict", "scan", "pop", "store"} =>
                           cache'[key[t]] = Absent
    BY <1>3 DEF Missing
  <2>1. key[t] \in Keys
    BY <1>2
  <2>2. cache'[key[t]] \in Fresh => cache[key[t]] \in Fresh
    BY <1>3, <1>4, <2>1, OlderOrder
  <2> QED
    BY <1>5, <1>7, <2>1, <2>2 DEF Missing
<1>10. Evicting'
  <2>1. Present(cache') = Present(cache)
    BY <1>5 DEF Present
  <2>2. Size' = Size
    BY <2>1 DEF Size
  <2> SUFFICES ASSUME NEW t \in Threads, pc[t] \in {"evict", "scan", "pop"}, Present(cache) # {}
               PROVE  /\ Size >= MaxSize
                      /\ pc[t] = "scan" => scan'[t] = cache'
                      /\ pc[t] = "pop" => NoneIsOlder(cache', victim[t])
    BY <1>3, <2>1, <2>2 DEF Evicting, NoneIsOlder
  <2>3. /\ Size >= MaxSize
        /\ pc[t] = "scan" => scan[t] = cache
        /\ pc[t] = "pop" => NoneIsOlder(cache, victim[t])
    BY <1>7 DEF Evicting
  <2>4. ASSUME pc[t] = "pop" PROVE NoneIsOlder(cache', victim[t])
    <3>1. victim[t] \in Keys
      BY <1>2
    <3>2. victim[t] \in Present(cache)
      BY <2>4 DEF IInv, VictimStands
    <3> SUFFICES ASSUME NEW j \in Present(cache) PROVE cache'[victim[t]] <= cache'[j]
      BY <2>1 DEF NoneIsOlder
    <3>3. cache[victim[t]] <= cache[j] /\ j \in Keys
          /\ cache[j] # Absent /\ cache[victim[t]] # Absent
      BY <2>3, <2>4, <3>2 DEF NoneIsOlder, Present
    <3> QED
      BY <1>3, <1>4, <3>1, <3>3, OlderOrder
  <2> QED
    BY <1>3, <2>3, <2>4
<1>11. Kept'
  <2> SUFFICES ASSUME NEW k \in Keys, latest'[k] \in Fresh
               PROVE  cache'[k] = latest'[k] \/ Cardinality(Coming(k)') >= MaxSize
    BY DEF Kept
  <2>1. latest[k] \in Fresh
    BY <1>3, <1>4, OlderOrder
  <2>2. cache[k] = latest[k] => cache'[k] = latest'[k]
    BY <1>3
  <2>3. \A j \in Keys : latest[j] >= latest[k] => latest'[j] >= latest'[k]
    BY <1>3, <1>4, OlderOrder
  <2>4. Coming(k) \subseteq Coming(k)'
    BY <1>3, <2>3 DEF Coming
  <2> QED
    BY <1>7, <2>1, <2>2, <2>4, StaysKept
<1> QED
  BY <1>8, <1>9, <1>10, <1>11

LEMMA KeepInit == Init => KeepInv
<1> SUFFICES ASSUME Init PROVE KeepInv
  OBVIOUS
<1>1. \A k \in Keys : cache[k] = Absent /\ latest[k] = Absent
  BY DEF Init, Nothing
<1>2. \A t \in Threads : pc[t] = "idle"
  BY DEF Init
<1>3. Absent \notin Fresh
  BY CacheAssumption DEF Absent, Fresh
<1> QED
  BY <1>1, <1>2, <1>3 DEF KeepInv, Faithful, Reading, Missing, Evicting, Kept

LEMMA KeepStep == IInv /\ KeepInv /\ [Next]_vars => KeepInv'
<1> SUFFICES ASSUME IInv, KeepInv, [Next]_vars PROVE KeepInv'
  OBVIOUS
<1>1. CASE \E t \in Threads : Request(t) /\ overlapped' = (overlapped \/ Overlap')
  <2>1. PICK t \in Threads : Request(t) /\ overlapped' = (overlapped \/ Overlap')
    BY <1>1
  <2>2. Faithful'
    BY <2>1, FaithfulStep DEF IInv, KeepInv
  <2>3. ~overlapped' => Reading' /\ Missing' /\ Evicting' /\ Kept'
    BY <2>1, RequestKnows, RequestKeeps
  <2> QED
    BY <2>2, <2>3 DEF KeepInv
<1>2. CASE Clear \/ Tick
  BY <1>2, ClearKeeps, TickKeeps
<1>3. CASE UNCHANGED vars
  BY <1>3 DEF vars, KeepInv, Faithful, Reading, Missing, Evicting, Kept, Coming, Size,
              NoneIsOlder, Present
<1> QED
  BY <1>1, <1>2, <1>3 DEF Next

\* As long as no two requests overlap, a response is served until its ttl is
\* over or max_size responses as young have been stored: the scan for the
\* oldest entry and the pop of it are steps of their own, yet what is popped is
\* never younger than what stays, whatever expires or is cleared between them.
THEOREM NewestKept == Spec => []KeepsNewest
<1>1. KeepInv => KeepsNewest
  <2> SUFFICES ASSUME KeepInv, NEW k \in Keys, ~overlapped, latest[k] \in Fresh,
                      \A t \in Threads : ~Busy(t)
               PROVE  \/ cache[k] = latest[k]
                      \/ Cardinality({j \in Keys \ {k} : latest[j] >= latest[k]}) >= MaxSize
    BY DEF KeepsNewest
  <2>1. Coming(k) = {j \in Keys \ {k} : latest[j] >= latest[k]}
    BY DEF Coming, Busy
  <2> QED
    BY <2>1 DEF KeepInv, Kept
<1> QED
  BY <1>1, IInvInit, IInvStep, KeepInit, KeepStep, PTL DEF Spec
=============================================================================
