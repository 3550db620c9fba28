---------------------------- MODULE ModelRegistry ----------------------------
(***************************************************************************)
(* The LRU cache of lazily loaded models of the ml-service                 *)
(* (ml_service/app/services/model_registry.py).  Each block under          *)
(* _index_lock is one step; the per-key lock is a lock object with an      *)
(* identity, because evict, unload and clear forget it while a thread may  *)
(* still hold it or wait for it.                                           *)
(***************************************************************************)
EXTENDS Naturals, SequencesExt

CONSTANTS
    Loaders,    \* threads that call get_or_load
    Keys,       \* model keys
    MaxModels   \* settings.model_registry_max_models; 0 is None (no limit)

ASSUME RegistryAssumption ==
    /\ MaxModels \in Nat
    /\ IsFiniteSet(Loaders)
    /\ IsFiniteSet(Keys)

(* Enough lock objects for every key and every thread to have its own.     *)
LockIds == 1..(Cardinality(Keys) + Cardinality(Loaders))
NoLock  == 0
Nothing == "nothing"

VARIABLES
    items,      \* _items: the resident keys, least recently used first
    keyLock,    \* _key_locks: the lock object of each key, or NoLock
    rpc,        \* where each thread is inside get_or_load
    want,       \* the key it asked for, or Nothing outside the call
    lockOf,     \* the lock object it found or created
    forgotten   \* history: keys whose lock object was dropped from the index

registryVars == <<items, keyLock, rpc, want, lockOf, forgotten>>

RegistryPoints == {"out", "acquire", "recheck", "load", "leave"}

RegistryInit ==
    /\ items = <<>>
    /\ keyLock = [k \in Keys |-> NoLock]
    /\ rpc = [t \in Loaders |-> "out"]
    /\ want = [t \in Loaders |-> Nothing]
    /\ lockOf = [t \in Loaders |-> NoLock]
    /\ forgotten = {}

Resident == ToSet(items)

(* No key is listed twice, so one entry goes.                              *)
Without(s, k) ==
    IF k \in ToSet(s) THEN RemoveAt(s, CHOOSE i \in DOMAIN s : s[i] = k) ELSE s

MoveToEnd(s, k) == Append(Without(s, k), k)

FreshLock == CHOOSE l \in LockIds :
                /\ l \notin {keyLock[k] : k \in Keys}
                /\ l \notin {lockOf[t] : t \in Loaders}

Held(l) == \E t \in Loaders : lockOf[t] = l /\ rpc[t] \in {"recheck", "load"}

\* Mutant: the limit is tested before the new entry is counted.
Trim_Late(s) == IF MaxModels = 0 \/ Len(s) <= MaxModels + 1
                THEN s
                ELSE SubSeq(s, Len(s) - MaxModels, Len(s))

(* _evict_if_needed keeps the newest MaxModels entries.                    *)
Trim(s) == IF MaxModels = 0 \/ Len(s) <= MaxModels
           THEN s
           ELSE SubSeq(s, Len(s) - MaxModels + 1, Len(s))

(* Removing keys from _items pops their lock objects.                      *)
Forget(ks) ==
    /\ keyLock' = [k \in Keys |-> IF k \in ks THEN NoLock ELSE keyLock[k]]
    /\ forgotten' = forgotten \cup {k \in ks : keyLock[k] # NoLock}

(***************************************************************************)
(* get_or_load                                                             *)
(***************************************************************************)

Hit(t, k) ==
    /\ rpc[t] = "out"
    /\ k \in Resident
    /\ items' = MoveToEnd(items, k)
    /\ rpc' = [rpc EXCEPT ![t] = "leave"]
    /\ want' = [want EXCEPT ![t] = k]
    /\ UNCHANGED <<keyLock, lockOf, forgotten>>

(* _key_locks.setdefault(key, Lock())                                      *)
Miss(t, k) ==
    /\ rpc[t] = "out"
    /\ k \notin Resident
    /\ LET l == IF keyLock[k] = NoLock THEN FreshLock ELSE keyLock[k] IN
         /\ keyLock' = [keyLock EXCEPT ![k] = l]
         /\ lockOf' = [lockOf EXCEPT ![t] = l]
    /\ rpc' = [rpc EXCEPT ![t] = "acquire"]
    /\ want' = [want EXCEPT ![t] = k]
    /\ UNCHANGED <<items, forgotten>>

\* Mutant: the per-key lock is created and never taken.
AcquireKey_NoLock(t) ==
    /\ rpc[t] = "acquire"
    /\ rpc' = [rpc EXCEPT ![t] = "recheck"]
    /\ UNCHANGED <<items, keyLock, want, lockOf, forgotten>>

AcquireKey(t) ==
    /\ rpc[t] = "acquire"
    /\ ~Held(lockOf[t])
    /\ rpc' = [rpc EXCEPT ![t] = "recheck"]
    /\ UNCHANGED <<items, keyLock, want, lockOf, forgotten>>

ReleaseKey(t) ==
    /\ rpc' = [rpc EXCEPT ![t] = "leave"]
    /\ lockOf' = [lockOf EXCEPT ![t] = NoLock]

Recheck(t) ==
    /\ rpc[t] = "recheck"
    /\ IF want[t] \in Resident
       THEN items' = MoveToEnd(items, want[t]) /\ ReleaseKey(t)
       ELSE /\ rpc' = [rpc EXCEPT ![t] = "load"]
            /\ UNCHANGED <<items, lockOf>>
    /\ UNCHANGED <<keyLock, want, forgotten>>

Store(t) ==
    /\ rpc[t] = "load"
    /\ LET grown == MoveToEnd(items, want[t])
           kept  == Trim(grown)
       IN  /\ items' = kept
           /\ Forget(ToSet(grown) \ ToSet(kept))
    /\ ReleaseKey(t)
    /\ UNCHANGED want

(* loader() raises: the lock object stays in the index.                    *)
LoaderRaises(t) ==
    /\ rpc[t] = "load"
    /\ ReleaseKey(t)
    /\ UNCHANGED <<items, keyLock, want, forgotten>>

RegistryStep(t) ==
    AcquireKey(t) \/ Recheck(t) \/ Store(t) \/ LoaderRaises(t)

(***************************************************************************)
(* The admin endpoints                                                     *)
(***************************************************************************)

Unload(k) ==
    /\ k \in Resident
    /\ items' = Without(items, k)
    /\ Forget({k})
    /\ UNCHANGED <<rpc, want, lockOf>>

Clear ==
    /\ items' = <<>>
    /\ Forget(Keys)
    /\ UNCHANGED <<rpc, want, lockOf>>

==============================================================================
