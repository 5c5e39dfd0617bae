-------------------------------- MODULE Cache --------------------------------
(***************************************************************************)
(* middleware/cache.py: one CacheMiddleware, and the dictionary behind it, *)
(* shared by the threads of an application.  A key stands for the hash of  *)
(* a request.  Streams bypass the cache and are left out.                  *)
(*                                                                         *)
(* Time.  An entry is kept as what is left of its ttl; the code finds it   *)
(* expired once the clock is past expires_at, that is below 0.             *)
(***************************************************************************)
EXTENDS Integers, FiniteSets

CONSTANTS
    Threads,    \* threads that send requests
    Keys,       \* the requests, by their key
    MaxSize,    \* max_size
    TTL         \* ttl, in ticks

ASSUME CacheAssumption ==
    /\ IsFiniteSet(Threads) /\ Threads # {}
    /\ IsFiniteSet(Keys)
    /\ MaxSize \in Nat
    /\ TTL \in Nat

VARIABLES
    cache,      \* _cache: what is left of the ttl of every key; or Absent
    pc,         \* what each thread does next
    key,        \* the key of the thread's request
    item,       \* local of _get: the entry it read
    scan,       \* local of _evict_oldest: the dictionary when min() began
    victim,     \* local of _evict_oldest: oldest_key
    latest,     \* history: the last response stored for each key; or Absent
    overlapped  \* history: two threads had a request at once

vars == <<cache, pc, key, item, scan, victim, latest, overlapped>>
locals == <<item, scan, victim>>

Expired == -1
Absent == -2
Fresh == 0..TTL
Entry == Fresh \cup {Expired}

Present(d) == {k \in Keys : d[k] # Absent}
Size == Cardinality(Present(cache))
Nothing == [k \in Keys |-> Absent]

PC == {"idle", "got", "expired", "calling", "set", "evict", "scan", "pop", "store"}

TypeOK ==
    /\ cache \in [Keys -> Entry \cup {Absent}]
    /\ pc \in [Threads -> PC]
    /\ key \in [Threads -> Keys]
    /\ item \in [Threads -> Entry \cup {Absent}]
    /\ scan \in [Threads -> [Keys -> Entry \cup {Absent}]]
    /\ victim \in [Threads -> Keys]
    /\ latest \in [Keys -> Entry \cup {Absent}]
    /\ overlapped \in BOOLEAN

Init ==
    /\ cache = Nothing
    /\ pc = [t \in Threads |-> "idle"]
    /\ key \in {[t \in Threads |-> k] : k \in Keys}
    /\ item = [t \in Threads |-> Absent]
    /\ scan = [t \in Threads |-> Nothing]
    /\ victim = key
    /\ latest = Nothing
    /\ overlapped = FALSE

Busy(t) == pc[t] # "idle"

Goto(t, from, to) == pc[t] = from /\ pc' = [pc EXCEPT ![t] = to]

-----------------------------------------------------------------------------
(* _get: read the entry, compare it with the clock, drop it if expired.    *)

Get(t, k) ==
    /\ Goto(t, "idle", IF cache[k] = Absent THEN "calling" ELSE "got")
    /\ key' = [key EXCEPT ![t] = k]
    /\ item' = [item EXCEPT ![t] = cache[k]]
    /\ UNCHANGED <<cache, scan, victim, latest>>

\* A hit: the caller gets a copy of the stored response.
Hit(t) ==
    /\ Goto(t, "got", "idle")
    /\ item[t] \in Fresh
    /\ item' = [item EXCEPT ![t] = Absent]
    /\ UNCHANGED <<cache, key, scan, victim, latest>>

FindExpired(t) ==
    /\ Goto(t, "got", "expired")
    /\ item[t] = Expired
    /\ item' = [item EXCEPT ![t] = Absent]
    /\ UNCHANGED <<cache, key, scan, victim, latest>>

\* The entry is dropped by its key, whatever it is by now.
DropExpired(t) ==
    /\ Goto(t, "expired", "calling")
    /\ cache' = [cache EXCEPT ![key[t]] = Absent]
    /\ UNCHANGED <<key, locals, latest>>

-----------------------------------------------------------------------------
(* The call, and _set.                                                     *)

Raises(t) ==
    /\ Goto(t, "calling", "idle")
    /\ UNCHANGED <<cache, key, locals, latest>>

Responds(t) ==
    /\ Goto(t, "calling", "set")
    /\ UNCHANGED <<cache, key, locals, latest>>

CheckSizeThen(t, full) ==
    /\ Goto(t, "set", IF full THEN "evict" ELSE "store")
    /\ UNCHANGED <<cache, key, locals, latest>>

CheckSize_OffByOne(t) == CheckSizeThen(t, Size > MaxSize)

\* len(self._cache) >= self.max_size
CheckSize(t) == CheckSizeThen(t, Size >= MaxSize)

\* _evict_oldest: nothing to evict, or min() begins to iterate over the keys.
BeginScan(t) ==
    /\ Goto(t, "evict", IF Size = 0 THEN "store" ELSE "scan")
    /\ scan' = [scan EXCEPT ![t] = IF Size = 0 THEN Nothing ELSE cache]
    /\ UNCHANGED <<cache, key, item, victim, latest>>

NoneIsOlder_Newest(d, k) == \A j \in Present(d) : d[j] <= d[k]

NoneIsOlder(d, k) == \A j \in Present(d) : d[k] <= d[j]

\* min() ends; an entry replaced meanwhile counts as it was or as it is.
EndScan(t) ==
    /\ Goto(t, "scan", "pop")
    /\ Cardinality(Present(scan[t])) = Size
    /\ \E d \in {scan[t], cache} : \E k \in Present(d) :
         /\ NoneIsOlder(d, k)
         /\ victim' = [victim EXCEPT ![t] = k]
    /\ scan' = [scan EXCEPT ![t] = Nothing]
    /\ UNCHANGED <<cache, key, item, latest>>

\* The dictionary changed under the iteration: KeyError or RuntimeError leaves
\* execute(), and the response is lost.
ScanRaises(t) ==
    /\ Goto(t, "scan", "idle")
    /\ Present(scan[t]) # Present(cache)
    /\ scan' = [scan EXCEPT ![t] = Nothing]
    /\ UNCHANGED <<cache, key, item, victim, latest>>

\* The key is popped if it is still there.
Evict(t) ==
    /\ Goto(t, "pop", "store")
    /\ cache' = [cache EXCEPT ![victim[t]] = Absent]
    /\ victim' = [victim EXCEPT ![t] = key[t]]
    /\ UNCHANGED <<key, item, scan, latest>>

Store_TooLong(t) ==
    /\ Goto(t, "store", "idle")
    /\ cache' = [cache EXCEPT ![key[t]] = TTL + 1]
    /\ latest' = [latest EXCEPT ![key[t]] = TTL]
    /\ UNCHANGED <<key, locals>>

\* The response lives for ttl from now on.
Store(t) ==
    /\ Goto(t, "store", "idle")
    /\ cache' = [cache EXCEPT ![key[t]] = TTL]
    /\ latest' = [latest EXCEPT ![key[t]] = TTL]
    /\ UNCHANGED <<key, locals>>

-----------------------------------------------------------------------------
Clear ==
    /\ cache' = Nothing
    /\ latest' = Nothing
    /\ UNCHANGED <<pc, key, locals, overlapped>>

Older(entry) == IF entry \in Fresh THEN entry - 1 ELSE entry

\* time.monotonic() advances.
Tick ==
    /\ cache' = [k \in Keys |-> Older(cache[k])]
    /\ latest' = [k \in Keys |-> Older(latest[k])]
    /\ item' = [t \in Threads |-> Older(item[t])]
    /\ scan' = [t \in Threads |-> [k \in Keys |-> Older(scan[t][k])]]
    /\ UNCHANGED <<pc, key, victim, overlapped>>

Request(t) ==
    \/ \E k \in Keys : Get(t, k)
    \/ Hit(t) \/ FindExpired(t) \/ DropExpired(t)
    \/ Raises(t) \/ Responds(t)
    \/ CheckSize(t) \/ BeginScan(t) \/ EndScan(t) \/ ScanRaises(t) \/ Evict(t)
    \/ Store(t)

Overlap == \E t, u \in Threads : t # u /\ Busy(t) /\ Busy(u)

Next ==
    \/ \E t \in Threads : Request(t) /\ overlapped' = (overlapped \/ Overlap')
    \/ Clear
    \/ Tick

Spec == Init /\ [][Next]_vars

-----------------------------------------------------------------------------
(* Properties.                                                             *)

(***************************************************************************)
(* Until two threads have a request at once, the cache holds at most       *)
(* max_size entries (a max_size of 0 counts as 1), whatever expires or is  *)
(* cleared between the steps of a request.                                 *)
(***************************************************************************)
SizeBound == ~overlapped => Size <= (IF MaxSize = 0 THEN 1 ELSE MaxSize)

(***************************************************************************)
(* Until two threads have a request at once, a stored response is served   *)
(* until its ttl is over or max_size responses as young were stored:       *)
(* eviction never takes a response when an older one is there, and expiry  *)
(* takes no fresh one.                                                     *)
(***************************************************************************)
KeepsNewest ==
    \A k \in Keys :
        ~overlapped /\ latest[k] \in Fresh /\ (\A t \in Threads : ~Busy(t)) =>
            \/ cache[k] = latest[k]
            \/ Cardinality({j \in Keys \ {k} : latest[j] >= latest[k]}) >= MaxSize
=============================================================================
