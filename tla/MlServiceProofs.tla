-------------------------- MODULE MlServiceProofs --------------------------
(***************************************************************************)
(* Proofs about the ml-service process, for any number of executor threads *)
(* and models, and for every deployment.                                   *)
(***************************************************************************)
EXTENDS MlService, FiniteSetTheorems, TLAPS

-----------------------------------------------------------------------------
(* Types.                                                                  *)

TtsTypes ==
    /\ status \in Statuses
    /\ model \in BOOLEAN /\ event \in BOOLEAN /\ forced \in BOOLEAN
    /\ pc \in [Threads -> Points]
    /\ watchdog \in {"asleep", "forcing", "wakeAll", "stopped"}

RegistryTypes ==
    /\ keyLock \in [Keys -> LockIds \cup {NoLock}]
    /\ rpc \in [Loaders -> RegistryPoints]
    /\ want \in [Loaders -> Keys \cup {Nothing}]
    /\ lockOf \in [Loaders -> LockIds \cup {NoLock}]

ServiceTypes ==
    /\ host \in Deployments
    /\ job \in [Callers -> Jobs \cup {Nothing}]
    /\ at \in [Callers -> Stages]

Types == TtsTypes /\ RegistryTypes /\ ServiceTypes

(* The steps of a request thread, by the part of the process they change.  *)
ServiceStep(r) ==
    \/ Arrive(r) \/ AcquireGuard(r) \/ StartTts(r) \/ TtsCallEnds(r)
    \/ DropTts(r) \/ RegistryCallEnds(r) \/ Finish(r)

(* A step of the process is a step of one of its parts.                    *)
LEMMA StepKinds ==
    ASSUME [Next]_vars
    PROVE  \/ \E r \in Callers : ServiceStep(r)
           \/ \E r \in Callers, k \in Keys :
                /\ at[r] = "calling" /\ job[r] = "asr"
                /\ Hit(r, k) \/ Miss(r, k)
                /\ UNCHANGED <<ttsVars, serviceVars>>
           \/ \E r \in Callers : InRegistry(r)
           \/ AdminUnload \/ AdminClear
           \/ \E t \in Threads : InTts(t)
           \/ InWarm \/ InDog
           \/ UNCHANGED vars
  BY DEF Next, RequestStep, AskRegistry, ServiceStep

LEMMA TypesInit == Init => Types
  <1> SUFFICES ASSUME Init PROVE Types
    OBVIOUS
  <1>1. TtsTypes
    BY DEF Init, TtsInit, TtsTypes, Statuses, Points, EnsurePoints, WarmPoints, Threads
  <1>2. RegistryTypes
    BY DEF Init, RegistryInit, RegistryTypes, RegistryPoints, NoLock
  <1>3. ServiceTypes
    BY DEF Init, ServiceTypes, Stages
  <1> QED  BY <1>1, <1>2, <1>3 DEF Types

(* A thread moves from one point of the adapter to another.                *)
LEMMA GotoTypes ==
    ASSUME pc \in [Threads -> Points], NEW t \in Threads, NEW p \in Points, Goto(t, p)
    PROVE  /\ pc' \in [Threads -> Points]
           /\ pc'[t] = p
           /\ \A u \in Threads \ {t} : pc'[u] = pc[u]
  BY DEF Goto

LEMMA EveryPoint ==
    /\ {"out", "finally", "forcing", "wakeAll", "finished"} \subseteq Points
    /\ EnsurePoints \subseteq Points
    /\ Ended \subseteq EnsurePoints
  BY DEF Points, EnsurePoints, WarmPoints, Ended

LEMMA TtsTypesStep ==
    ASSUME Types, [Next]_vars
    PROVE  TtsTypes'
  <1> USE EveryPoint, GotoTypes DEF Types, TtsTypes, Statuses
  <1>1. ASSUME NEW r \in Callers, ServiceStep(r) PROVE TtsTypes'
    <2>1. CASE StartTts(r) \/ TtsCallEnds(r)
      BY <2>1 DEF StartTts, TtsCallEnds, Threads, EnsurePoints
    <2>2. CASE DropTts(r)
      BY <2>2 DEF DropTts, ReleaseModel
    <2>3. CASE Arrive(r) \/ AcquireGuard(r) \/ RegistryCallEnds(r) \/ Finish(r)
      BY <2>3 DEF Arrive, AcquireGuard, RegistryCallEnds, Finish, ttsVars
    <2> QED  BY <1>1, <2>1, <2>2, <2>3 DEF ServiceStep
  <1>2. ASSUME NEW t \in Threads, InTts(t) PROVE TtsTypes'
    <2>1. CASE \/ Check(t) \/ ReturnHandle(t) \/ FoundModel(t) \/ BecomeWaiter(t)
               \/ BecomeLoader(t)
      BY <2>1 DEF Check, ReturnHandle, FoundModel, BecomeWaiter, BecomeLoader, EnsurePoints
    <2>2. CASE \/ Wake(t) \/ WaitTimeout(t) \/ AfterWait(t) \/ Signal(t) \/ LoadOk(t)
               \/ LoadFail(t)
      BY <2>2 DEF Wake, WaitTimeout, AfterWait, Signal, LoadOk, LoadFail, EnsurePoints
    <2> QED  BY <1>2, <2>1, <2>2 DEF InTts, EnsureStep, Loading
  <1>3. ASSUME InWarm PROVE TtsTypes'
    <2>1. Warm \in Threads
      BY DEF Threads
    <2> QED
      BY <1>3, <2>1 DEF InWarm, WarmStep, WarmReturns, WarmFinally, WarmForces,
         WarmWakesAll, ForceError
  <1>4. ASSUME InDog PROVE TtsTypes'
    BY <1>4 DEF InDog, WatchdogStep, WatchdogStops, WatchdogCondemns, WatchdogForces,
       WatchdogWakesAll, ForceError
  <1>5. ASSUME UNCHANGED ttsVars PROVE TtsTypes'
    BY <1>5 DEF ttsVars
  <1> QED
    BY <1>1, <1>2, <1>3, <1>4, <1>5, StepKinds DEF InRegistry, AdminUnload, AdminClear, vars

(* There are enough lock objects: while a key has none, one is unused.  If *)
(* all were in use, each would have a user, a key or a thread, of its own, *)
(* and a key that has no lock object would be left over.                   *)
LEMMA LockIsFresh ==
    ASSUME RegistryTypes, NEW k \in Keys, keyLock[k] = NoLock
    PROVE  FreshLock \in LockIds
  <1> DEFINE Users   == ({1} \X Keys) \cup ({2} \X Loaders)
             Uses(d) == IF d[1] = 1 THEN keyLock[d[2]] ELSE lockOf[d[2]]
             Total   == Cardinality(Keys) + Cardinality(Loaders)
             owner   == [l \in 0..Total |-> CHOOSE d \in Users : Uses(d) = l]
  <1>1. Cardinality(Keys) \in Nat /\ Cardinality(Loaders) \in Nat
    BY FS_CardinalityType, RegistryAssumption
  <1>2. IsFiniteSet(Users) /\ Cardinality(Users) = Total
    <2>1. /\ IsFiniteSet({1} \X Keys) /\ Cardinality({1} \X Keys) = Cardinality(Keys)
          /\ IsFiniteSet({2} \X Loaders)
          /\ Cardinality({2} \X Loaders) = Cardinality(Loaders)
      <3>1. \A x : IsFiniteSet({x}) /\ Cardinality({x}) = 1
        BY FS_Singleton
      <3>2. ASSUME NEW x, NEW S, IsFiniteSet(S), Cardinality(S) \in Nat
            PROVE  IsFiniteSet({x} \X S) /\ Cardinality({x} \X S) = Cardinality(S)
        <4>1. PICK T : T = {x}
          OBVIOUS
        <4>2. IsFiniteSet(T) /\ Cardinality(T) = 1
          BY <3>1, <4>1
        <4>3. IsFiniteSet(T \X S) /\ Cardinality(T \X S) = Cardinality(T) * Cardinality(S)
          BY <3>2, <4>2, FS_Product
        <4>4. Cardinality(T \X S) = Cardinality(S)
          BY <3>2, <4>2, <4>3
        <4> QED  BY <4>1, <4>3, <4>4
      <3> QED  BY <1>1, <3>2, RegistryAssumption
    <2>2. ({1} \X Keys) \cap ({2} \X Loaders) = {}
      OBVIOUS
    <2>3. /\ IsFiniteSet(Users)
          /\ Cardinality(Users) = Cardinality({1} \X Keys) + Cardinality({2} \X Loaders)
                                   - Cardinality(({1} \X Keys) \cap ({2} \X Loaders))
      BY <2>1, FS_Union
    <2>4. Cardinality(({1} \X Keys) \cap ({2} \X Loaders)) = 0
      BY <2>2, FS_EmptySet
    <2> QED  BY <1>1, <2>1, <2>3, <2>4
  <1>3. IsFiniteSet(0..Total) /\ Cardinality(0..Total) = Total + 1
    <2>1. Total \in Nat
      BY <1>1
    <2> HIDE DEF Total
    <2>2. 0 \in Int /\ Total \in Int
      BY <2>1
    <2>3. /\ IsFiniteSet(0..Total)
          /\ Cardinality(0..Total) = IF 0 > Total THEN 0 ELSE Total - 0 + 1
      BY <2>2, FS_Interval
    <2> QED  BY <2>1, <2>3
  <1>4. PICK l \in LockIds : /\ l \notin {keyLock[i] : i \in Keys}
                             /\ l \notin {lockOf[t] : t \in Loaders}
    <2>1. SUFFICES ASSUME \A l \in LockIds : \/ \E i \in Keys : keyLock[i] = l
                                             \/ \E t \in Loaders : lockOf[t] = l
                   PROVE  FALSE
      OBVIOUS
    <2>2. \A l \in 0..Total : \E d \in Users : Uses(d) = l
      <3>1. <<1, k>> \in Users /\ Uses(<<1, k>>) = 0
        BY DEF NoLock
      <3>2. \A i \in Keys : <<1, i>> \in Users /\ Uses(<<1, i>>) = keyLock[i]
        OBVIOUS
      <3>3. \A t \in Loaders : <<2, t>> \in Users /\ Uses(<<2, t>>) = lockOf[t]
        OBVIOUS
      <3>4. \A l \in 0..Total : l = 0 \/ l \in LockIds
        BY <1>1 DEF LockIds
      <3> HIDE DEF Users, Uses
      <3> QED  BY <2>1, <3>1, <3>2, <3>3, <3>4
    <2> HIDE DEF Users, Uses
    <2>3. owner \in [0..Total -> Users] /\ \A l \in 0..Total : Uses(owner[l]) = l
      BY <2>2
    <2> HIDE DEF owner
    <2>4. Cardinality(Users) < Cardinality(0..Total)
      BY <1>1, <1>2, <1>3
    <2>5. \E l, m \in 0..Total : l # m /\ owner[l] = owner[m]
      BY <1>2, <1>3, <2>3, <2>4, FS_PigeonHole
    <2> QED  BY <2>3, <2>5
  <1> QED  BY <1>4 DEF FreshLock

LEMMA RegistryTypesStep ==
    ASSUME Types, [Next]_vars
    PROVE  RegistryTypes'
  <1> USE DEF Types, RegistryTypes, RegistryPoints
  <1>1. ASSUME NEW t \in Loaders, NEW k \in Keys, Hit(t, k) \/ Miss(t, k)
        PROVE  RegistryTypes'
    <2>1. CASE Hit(t, k)
      BY <2>1 DEF Hit
    <2>2. CASE Miss(t, k)
      <3>1. keyLock[k] = NoLock => FreshLock \in LockIds
        BY LockIsFresh
      <3> DEFINE l == IF keyLock[k] = NoLock THEN FreshLock ELSE keyLock[k]
      <3>2. l \in LockIds
        BY <3>1
      <3> HIDE DEF l
      <3>3. keyLock' = [keyLock EXCEPT ![k] = l] /\ lockOf' = [lockOf EXCEPT ![t] = l]
        BY <2>2 DEF Miss, l
      <3> QED  BY <2>2, <3>2, <3>3 DEF Miss
    <2> QED  BY <1>1, <2>1, <2>2
  <1>2. ASSUME NEW ks, Forget(ks) PROVE keyLock' \in [Keys -> LockIds \cup {NoLock}]
    BY <1>2 DEF Forget
  <1>3. ASSUME NEW t \in Loaders, RegistryStep(t) PROVE RegistryTypes'
    <2>1. CASE AcquireKey(t) \/ Recheck(t) \/ LoaderRaises(t)
      BY <2>1 DEF AcquireKey, Recheck, LoaderRaises, ReleaseKey
    <2>2. CASE Store(t)
      BY <1>2, <2>2 DEF Store, ReleaseKey
    <2> QED  BY <1>3, <2>1, <2>2 DEF RegistryStep
  <1>4. ASSUME AdminUnload \/ AdminClear PROVE RegistryTypes'
    BY <1>2, <1>4 DEF AdminUnload, AdminClear, Unload, Clear
  <1>5. ASSUME NEW r \in Callers, ServiceStep(r) PROVE RegistryTypes'
    BY <1>5, ServiceAssumption DEF ServiceStep, Arrive, AcquireGuard, StartTts, TtsCallEnds,
       DropTts, RegistryCallEnds, Finish, registryVars
  <1>6. ASSUME UNCHANGED registryVars PROVE RegistryTypes'
    BY <1>6 DEF registryVars
  <1> QED
    BY <1>1, <1>3, <1>4, <1>5, <1>6, ServiceAssumption, StepKinds
    DEF InTts, InWarm, InDog, InRegistry, vars

LEMMA ServiceTypesStep ==
    ASSUME Types, [Next]_vars
    PROVE  ServiceTypes'
  <1> USE DEF Types, ServiceTypes, Stages
  <1>1. ASSUME NEW r \in Callers, ServiceStep(r) PROVE ServiceTypes'
    BY <1>1, ServiceAssumption DEF ServiceStep, Arrive, AcquireGuard, StartTts, TtsCallEnds,
       DropTts, RegistryCallEnds, Finish, Move
  <1>2. ASSUME UNCHANGED serviceVars PROVE ServiceTypes'
    BY <1>2 DEF serviceVars
  <1> QED
    BY <1>1, <1>2, StepKinds DEF InTts, InWarm, InDog, InRegistry, AdminUnload, AdminClear, vars

-----------------------------------------------------------------------------
(* One permit, one user of the model.                                      *)

(* A request thread inside the adapter or the registry holds a permit, and *)
(* is in the one its endpoint calls.                                       *)
CallHolds ==
    \A r \in Callers :
        /\ pc[r] # "out" => at[r] = "calling" /\ job[r] = "tts"
        /\ rpc[r] # "out" => at[r] = "calling" /\ job[r] = "asr"

(* The semaphore.                                                          *)
GuardHolds == IsFiniteSet(Holders) /\ Cardinality(Holders) <= Permits

(* Between a request's two reads of the handle, nobody takes it away.      *)
Handed == {"fastReturn", "lateReturn"}
HandleStays ==
    host.gpu_concurrency <= 1 =>
      \A r \in Callers : /\ pc[r] \in Handed => model
                         /\ pc[r] # "returnedNone"

GuardInv == Types /\ CallHolds /\ GuardHolds /\ HandleStays

(* A request thread is a thread of the adapter and of the registry.        *)
LEMMA CallerIsThread ==
    ASSUME NEW r \in Callers
    PROVE  r \in Threads /\ r # Warm /\ r \in Loaders
  BY TtsAssumption, ServiceAssumption DEF Threads

LEMMA GuardInit == Init => GuardInv
  <1> SUFFICES ASSUME Init PROVE GuardInv
    OBVIOUS
  <1>1. Holders = {}
    BY DEF Init, Holders
  <1>2. GuardHolds
    <2>1. Permits \in Nat /\ Permits >= 1
      BY ServiceAssumption DEF Init, Permits
    <2> QED  BY <1>1, <2>1, FS_EmptySet DEF GuardHolds
  <1>3. \A r \in Callers : pc[r] = "out" /\ rpc[r] = "out"
    BY TtsAssumption, ServiceAssumption DEF Init, TtsInit, RegistryInit, Threads
  <1> QED  BY <1>2, <1>3, TypesInit DEF GuardInv, CallHolds, HandleStays, Handed

(* A thread gets a permit only while one is left.                          *)
LEMMA GuardStep ==
    ASSUME GuardInv, [Next]_vars
    PROVE  GuardHolds'
  <1> USE DEF GuardInv, Types, ServiceTypes
  <1>1. Permits \in Nat
    BY ServiceAssumption DEF Permits
  <1>2. ASSUME UNCHANGED host, Holders' \subseteq Holders PROVE GuardHolds'
    <2>1. IsFiniteSet(Holders') /\ Cardinality(Holders') <= Cardinality(Holders)
      BY <1>2, FS_Subset DEF GuardHolds
    <2>2. Cardinality(Holders) \in Nat /\ Cardinality(Holders') \in Nat
      BY <2>1, FS_CardinalityType DEF GuardHolds
    <2>3. Permits' = Permits
      BY <1>2 DEF Permits
    <2> QED  BY <1>1, <2>1, <2>2, <2>3 DEF GuardHolds
  <1>3. ASSUME NEW r \in Callers, AcquireGuard(r) PROVE GuardHolds'
    <2>1. Holders' = Holders \cup {r} /\ r \notin Holders
      BY <1>3 DEF AcquireGuard, Holders, Move
    <2>2. /\ IsFiniteSet(Holders')
          /\ Cardinality(Holders') = Cardinality(Holders) + 1
          /\ Cardinality(Holders) \in Nat
      BY <2>1, FS_AddElement, FS_CardinalityType DEF GuardHolds
    <2>3. Permits' = Permits /\ Cardinality(Holders) < Permits
      BY <1>3 DEF AcquireGuard, Permits
    <2> QED  BY <1>1, <2>2, <2>3 DEF GuardHolds
  <1>4. ASSUME NEW r \in Callers, ServiceStep(r), ~AcquireGuard(r)
        PROVE  UNCHANGED host /\ Holders' \subseteq Holders
    BY <1>4 DEF ServiceStep, Arrive, StartTts, TtsCallEnds, DropTts, RegistryCallEnds,
       Finish, Move, Holders, Stages
  <1>5. ASSUME UNCHANGED serviceVars PROVE UNCHANGED host /\ Holders' \subseteq Holders
    BY <1>5 DEF serviceVars, Holders
  <1> QED
    BY <1>2, <1>3, <1>4, <1>5, StepKinds
    DEF InTts, InWarm, InDog, InRegistry, AdminUnload, AdminClear, vars

(* With one permit there is one holder.                                    *)
LEMMA OneHolder ==
    ASSUME GuardInv, host.gpu_concurrency <= 1, NEW r \in Holders, NEW q \in Holders
    PROVE  r = q
  <1>1. Permits = 1
    BY ServiceAssumption DEF Permits, GuardInv, Types, ServiceTypes
  <1>2. IsFiniteSet(Holders) /\ Cardinality(Holders) <= 1 /\ Cardinality(Holders) \in Nat
    BY <1>1, FS_CardinalityType DEF GuardInv, GuardHolds
  <1>3. CASE Cardinality(Holders) = 0
    BY <1>2, <1>3, FS_EmptySet
  <1>4. CASE Cardinality(Holders) = 1
    BY <1>2, <1>4, FS_Singleton
  <1> QED  BY <1>2, <1>3, <1>4

(* A thread that enters a call holds a permit, and keeps it to the end of  *)
(* the call.                                                               *)
LEMMA CallStep ==
    ASSUME Types, CallHolds, [Next]_vars
    PROVE  CallHolds'
  <1> USE CallerIsThread DEF Types, TtsTypes, RegistryTypes, ServiceTypes
  <1>1. ASSUME NEW q \in Callers, ServiceStep(q) PROVE CallHolds'
    <2>1. CASE Arrive(q) \/ AcquireGuard(q) \/ Finish(q)
      BY <2>1 DEF Arrive, AcquireGuard, Finish, Move, CallHolds, ttsVars, registryVars
    <2>2. CASE StartTts(q)
      BY <2>2 DEF StartTts, Move, Goto, CallHolds, registryVars
    <2>3. CASE TtsCallEnds(q)
      BY <2>3 DEF TtsCallEnds, Move, Goto, CallHolds, registryVars, Ended
    <2>4. CASE DropTts(q)
      BY <2>4 DEF DropTts, Move, CallHolds, registryVars
    <2>5. CASE RegistryCallEnds(q)
      BY <2>5 DEF RegistryCallEnds, Move, CallHolds, ttsVars
    <2> QED  BY <1>1, <2>1, <2>2, <2>3, <2>4, <2>5 DEF ServiceStep
  <1>2. ASSUME NEW q \in Callers, NEW k \in Keys, at[q] = "calling", job[q] = "asr",
               Hit(q, k) \/ Miss(q, k), UNCHANGED <<ttsVars, serviceVars>>
        PROVE  CallHolds'
    BY <1>2 DEF Hit, Miss, CallHolds, ttsVars, serviceVars
  <1>3. ASSUME NEW q \in Callers, InRegistry(q) PROVE CallHolds'
    BY <1>3 DEF InRegistry, RegistryStep, AcquireKey, Recheck, Store, LoaderRaises, ReleaseKey,
       CallHolds, ttsVars, serviceVars
  <1>4. ASSUME AdminUnload \/ AdminClear \/ InDog PROVE CallHolds'
    BY <1>4 DEF AdminUnload, AdminClear, InDog, Unload, Clear, WatchdogStep, WatchdogStops,
       WatchdogCondemns, WatchdogForces, WatchdogWakesAll, CallHolds, ttsVars, registryVars,
       serviceVars
  <1>5. ASSUME NEW t \in Threads, InTts(t) PROVE CallHolds'
    <2>1. pc[t] # "out" /\ \A r \in Threads \ {t} : pc'[r] = pc[r]
      BY <1>5 DEF InTts, EnsureStep, Loading, Check, ReturnHandle, FoundModel, BecomeWaiter,
         BecomeLoader, Wake, WaitTimeout, AfterWait, Signal, LoadOk, LoadFail, Goto
    <2> QED  BY <1>5, <2>1 DEF InTts, CallHolds, registryVars, serviceVars
  <1>6. ASSUME InWarm PROVE CallHolds'
    <2>1. \A r \in Callers : pc'[r] = pc[r]
      BY <1>6 DEF InWarm, WarmStep, WarmReturns, WarmFinally, WarmForces, WarmWakesAll, Goto
    <2> QED  BY <1>6, <2>1 DEF InWarm, CallHolds, registryVars, serviceVars
  <1>7. ASSUME UNCHANGED vars PROVE CallHolds'
    BY <1>7 DEF vars, ttsVars, registryVars, serviceVars, CallHolds
  <1> QED  BY <1>1, <1>2, <1>3, <1>4, <1>5, <1>6, <1>7, StepKinds

(* Only a request with a permit drops the model, and with one permit it is *)
(* alone; every other step leaves the handle or fills it.                  *)
LEMMA HandleStep ==
    ASSUME GuardInv, [Next]_vars
    PROVE  HandleStays'
  <1> USE CallerIsThread DEF GuardInv, Types, TtsTypes, ServiceTypes
  <1>1. UNCHANGED host
    BY StepKinds DEF ServiceStep, Arrive, AcquireGuard, StartTts, TtsCallEnds, DropTts,
       RegistryCallEnds, Finish, InRegistry, AdminUnload, AdminClear, InTts, InWarm, InDog,
       serviceVars, vars
  <1> SUFFICES ASSUME host.gpu_concurrency <= 1, NEW r \in Callers
               PROVE  (pc'[r] \in Handed => model') /\ pc'[r] # "returnedNone"
    BY <1>1 DEF HandleStays
  <1>2. (pc[r] \in Handed => model) /\ pc[r] # "returnedNone"
    BY DEF HandleStays
  <1>3. ASSUME UNCHANGED <<pc, model>> PROVE (pc'[r] \in Handed => model') /\ pc'[r] # "returnedNone"
    BY <1>2, <1>3
  <1>4. ASSUME NEW q \in Callers, DropTts(q)
        PROVE  (pc'[r] \in Handed => model') /\ pc'[r] # "returnedNone"
    <2>1. pc' = pc /\ at[q] = "holding"
      BY <1>4 DEF DropTts
    <2>2. CASE pc[r] \in Handed
      <3>1. at[r] = "calling"
        BY <2>2 DEF CallHolds, Handed
      <3>2. r \in Holders /\ q \in Holders /\ r # q
        BY <2>1, <3>1 DEF Holders
      <3> QED  BY <3>2, OneHolder
    <2> QED  BY <1>2, <2>1, <2>2
  <1>5. ASSUME NEW q \in Callers, StartTts(q) \/ TtsCallEnds(q)
        PROVE  (pc'[r] \in Handed => model') /\ pc'[r] # "returnedNone"
    BY <1>2, <1>5 DEF StartTts, TtsCallEnds, Goto, Handed
  <1>6. ASSUME NEW q \in Callers,
               Arrive(q) \/ AcquireGuard(q) \/ RegistryCallEnds(q) \/ Finish(q)
        PROVE  UNCHANGED <<pc, model>>
    BY <1>6 DEF Arrive, AcquireGuard, RegistryCallEnds, Finish, ttsVars
  <1>7. ASSUME NEW t \in Threads, InTts(t)
        PROVE  (pc'[r] \in Handed => model') /\ pc'[r] # "returnedNone"
    <2>1. CASE Check(t) \/ ReturnHandle(t) \/ FoundModel(t) \/ BecomeWaiter(t) \/ BecomeLoader(t)
      BY <1>2, <2>1 DEF Check, ReturnHandle, FoundModel, BecomeWaiter, BecomeLoader, Goto, Handed
    <2>2. CASE Wake(t) \/ WaitTimeout(t) \/ AfterWait(t) \/ Signal(t) \/ LoadOk(t) \/ LoadFail(t)
      BY <1>2, <2>2 DEF Wake, WaitTimeout, AfterWait, Signal, LoadOk, LoadFail, Goto, Handed
    <2> QED  BY <1>7, <2>1, <2>2 DEF InTts, EnsureStep, Loading
  <1>8. ASSUME InWarm \/ InDog PROVE pc'[r] = pc[r] /\ model' = model
    BY <1>8 DEF InWarm, InDog, WarmStep, WarmReturns, WarmFinally, WarmForces, WarmWakesAll,
       WatchdogStep, WatchdogStops, WatchdogCondemns, WatchdogForces, WatchdogWakesAll, Goto
  <1>9. UNCHANGED ttsVars => UNCHANGED <<pc, model>>
    BY DEF ttsVars
  <1> QED
    BY <1>2, <1>3, <1>4, <1>5, <1>6, <1>7, <1>8, <1>9, StepKinds
    DEF ServiceStep, InRegistry, AdminUnload, AdminClear, vars

(* With one permit, no synthesis request is handed an empty handle: the    *)
(* model is dropped only by a request that holds the permit, and a request *)
(* between its two reads holds it too.  Shown for every deployment with at *)
(* most one permit.                                                        *)
THEOREM SoleUserIsServed == Spec => []SoleUserGetsModel
  <1>1. GuardInv /\ [Next]_vars => GuardInv'
    BY TtsTypesStep, RegistryTypesStep, ServiceTypesStep, CallStep, GuardStep, HandleStep
    DEF GuardInv, Types
  <1>2. GuardInv => SoleUserGetsModel
    BY DEF GuardInv, HandleStays, SoleUserGetsModel
  <1> QED  BY <1>1, <1>2, GuardInit, PTL DEF Spec

-----------------------------------------------------------------------------
(* The TTS model has one loader.                                           *)

(* Until somebody declares a load failed, a thread inside the constructor  *)
(* is the only one, the status says so, and no model is resident.          *)
LoaderAlone ==
    ~forced => \A t, u \in Threads :
      /\ pc[t] = "load" => status = "loading" /\ ~model
      /\ pc[t] = "load" /\ pc[u] = "load" => t = u

LoaderInv == Types /\ CallHolds /\ LoaderAlone /\ NoOrphanLoading

(* A step that neither enters nor leaves the constructor and keeps the     *)
(* status and the handle.                                                  *)
LEMMA LoaderQuiet ==
    ASSUME LoaderInv, UNCHANGED <<status, model, forced>>,
           \A t \in Threads : pc'[t] = "load" <=> pc[t] = "load"
    PROVE  LoaderAlone' /\ NoOrphanLoading'
  BY DEF LoaderInv, LoaderAlone, NoOrphanLoading

LEMMA LoaderStep ==
    ASSUME LoaderInv, [Next]_vars
    PROVE  LoaderAlone' /\ NoOrphanLoading'
  <1> USE CallerIsThread DEF LoaderInv, Types, TtsTypes
  <1> DEFINE Quiet == /\ UNCHANGED <<status, model, forced>>
                      /\ \A t \in Threads : pc'[t] = "load" <=> pc[t] = "load"
  <1>1. ASSUME NEW r \in Callers, ServiceStep(r), ~DropTts(r) PROVE Quiet
    BY <1>1 DEF ServiceStep, Arrive, AcquireGuard, StartTts, TtsCallEnds,
       RegistryCallEnds, Finish, Goto, ttsVars, CallHolds, Ended
  <1>2. ASSUME NEW r \in Callers, DropTts(r) PROVE LoaderAlone' /\ NoOrphanLoading'
    BY <1>2 DEF DropTts, ReleaseModel, LoaderAlone, NoOrphanLoading
  <1>3. ASSUME NEW t \in Threads,
               \/ Check(t) \/ ReturnHandle(t) \/ FoundModel(t) \/ BecomeWaiter(t)
               \/ Wake(t) \/ WaitTimeout(t) \/ AfterWait(t) \/ Signal(t)
        PROVE  Quiet
    BY <1>3 DEF Check, ReturnHandle, FoundModel, BecomeWaiter, Wake, WaitTimeout, AfterWait,
       Signal, Goto
  <1>4. ASSUME NEW t \in Threads, BecomeLoader(t) PROVE LoaderAlone' /\ NoOrphanLoading'
    BY <1>4 DEF BecomeLoader, Goto, LoaderAlone, NoOrphanLoading
  <1>5. ASSUME NEW t \in Threads, LoadOk(t) \/ LoadFail(t)
        PROVE  LoaderAlone' /\ NoOrphanLoading'
    BY <1>5 DEF LoadOk, LoadFail, Goto, LoaderAlone, NoOrphanLoading
  <1>6. ASSUME WarmReturns \/ WarmFinally \/ WarmWakesAll PROVE Quiet
    BY <1>6 DEF WarmReturns, WarmFinally, WarmWakesAll, Goto, Ended
  <1>7. ASSUME WatchdogStops \/ WatchdogCondemns \/ WatchdogWakesAll PROVE Quiet
    BY <1>7 DEF WatchdogStops, WatchdogCondemns, WatchdogWakesAll
  <1>8. ASSUME WarmForces \/ WatchdogForces PROVE LoaderAlone' /\ NoOrphanLoading'
    <2>1. /\ UNCHANGED model
          /\ \A t \in Threads : pc'[t] = "load" <=> pc[t] = "load"
          /\ ForceError
      BY <1>8 DEF WarmForces, WatchdogForces, Goto
    <2>2. status' # "loading"
      BY <2>1 DEF ForceError
    <2>3. ~forced' => ~forced /\ status # "loading"
      BY <2>1 DEF ForceError
    <2> QED  BY <2>1, <2>2, <2>3 DEF LoaderAlone, NoOrphanLoading
  <1>9. UNCHANGED ttsVars => Quiet
    BY DEF ttsVars
  <1>10. Quiet => LoaderAlone' /\ NoOrphanLoading'
    BY LoaderQuiet
  <1> QED
    BY <1>1, <1>2, <1>3, <1>4, <1>5, <1>6, <1>7, <1>8, <1>9, <1>10, StepKinds
    DEF InTts, EnsureStep, Loading, InWarm, WarmStep, InDog, WatchdogStep, InRegistry,
        AdminUnload, AdminClear, vars

-----------------------------------------------------------------------------
(* A registry key has one loader.                                          *)

Inside == {"acquire", "recheck", "load"}
Locking == {"recheck", "load"}

(* Threads that work on a key share its lock object as long as the index   *)
(* has not dropped it ...                                                  *)
LockIsShared ==
    \A t \in Loaders : rpc[t] \in Inside =>
        /\ want[t] \in Keys
        /\ want[t] \notin forgotten => lockOf[t] = keyLock[want[t]] /\ lockOf[t] # NoLock

(* ... and one thread at a time is inside a lock object.                   *)
LockExcludes ==
    \A t, u \in Loaders :
        rpc[t] \in Locking /\ rpc[u] \in Locking /\ lockOf[t] = lockOf[u] => t = u

LocksInv == Types /\ LockIsShared /\ LockExcludes

(* Forgetting lock objects changes those of forgotten keys only.           *)
LEMMA ForgetKeeps ==
    ASSUME RegistryTypes, NEW ks, Forget(ks)
    PROVE  /\ forgotten \subseteq forgotten'
           /\ \A k \in Keys \ forgotten' : keyLock'[k] = keyLock[k]
  BY DEF Forget, RegistryTypes

(* A thread leaves the lock, or asks for it, or the others are where they  *)
(* were and the index forgets some keys.                                   *)
LEMMA LocksStep ==
    ASSUME LocksInv, [Next]_vars
    PROVE  LockIsShared' /\ LockExcludes'
  <1> USE DEF LocksInv, Types, RegistryTypes, Inside, Locking
  <1>1. ASSUME NEW t \in Loaders, NEW k \in Keys, Hit(t, k)
        PROVE  LockIsShared' /\ LockExcludes'
    BY <1>1 DEF Hit, LockIsShared, LockExcludes
  <1>2. ASSUME NEW t \in Loaders, NEW k \in Keys, Miss(t, k)
        PROVE  LockIsShared' /\ LockExcludes'
    <2>1. PICK l \in LockIds :
            /\ keyLock[k] # NoLock => l = keyLock[k]
            /\ keyLock' = [keyLock EXCEPT ![k] = l]
            /\ lockOf' = [lockOf EXCEPT ![t] = l]
      BY <1>2, LockIsFresh DEF Miss
    <2>2. l # NoLock
      <3>1. Cardinality(Keys) \in Nat /\ Cardinality(Loaders) \in Nat
        BY FS_CardinalityType, RegistryAssumption
      <3> QED  BY <3>1 DEF LockIds, NoLock
    <2>3. /\ rpc[t] = "out" /\ rpc' = [rpc EXCEPT ![t] = "acquire"]
          /\ want' = [want EXCEPT ![t] = k]
          /\ forgotten' = forgotten
      BY <1>2 DEF Miss
    <2>4. ASSUME NEW u \in Loaders, u # t, rpc'[u] \in Inside
          PROVE  /\ want'[u] \in Keys
                 /\ want'[u] \notin forgotten' =>
                      lockOf'[u] = keyLock'[want'[u]] /\ lockOf'[u] # NoLock
      BY <2>1, <2>3, <2>4 DEF LockIsShared
    <2>5. LockIsShared'
      BY <2>1, <2>2, <2>3, <2>4 DEF LockIsShared
    <2>6. LockExcludes'
      BY <2>1, <2>3 DEF LockExcludes
    <2> QED  BY <2>5, <2>6
  <1>3. ASSUME NEW t \in Loaders, AcquireKey(t) PROVE LockIsShared' /\ LockExcludes'
    BY <1>3 DEF AcquireKey, Held, LockIsShared, LockExcludes
  <1>4. ASSUME NEW t \in Loaders, Recheck(t) \/ LoaderRaises(t)
        PROVE  LockIsShared' /\ LockExcludes'
    <2>1. /\ rpc[t] \in Locking /\ UNCHANGED <<keyLock, want, forgotten>>
          /\ \/ rpc' = [rpc EXCEPT ![t] = "load"] /\ lockOf' = lockOf
             \/ rpc' = [rpc EXCEPT ![t] = "leave"] /\ lockOf' = [lockOf EXCEPT ![t] = NoLock]
      BY <1>4 DEF Recheck, LoaderRaises, ReleaseKey
    <2>2. LockIsShared'
      BY <2>1 DEF LockIsShared
    <2>3. LockExcludes'
      BY <2>1 DEF LockExcludes
    <2> QED  BY <2>2, <2>3
  <1>5. ASSUME NEW t \in Loaders, Store(t) PROVE LockIsShared' /\ LockExcludes'
    <2>1. /\ rpc' = [rpc EXCEPT ![t] = "leave"] /\ lockOf' = [lockOf EXCEPT ![t] = NoLock]
          /\ want' = want
          /\ forgotten \subseteq forgotten'
          /\ \A k \in Keys \ forgotten' : keyLock'[k] = keyLock[k]
      BY <1>5, ForgetKeeps DEF Store, ReleaseKey
    <2>2. LockIsShared'
      BY <2>1 DEF LockIsShared
    <2>3. LockExcludes'
      BY <2>1 DEF LockExcludes
    <2> QED  BY <2>2, <2>3
  <1>6. ASSUME AdminUnload \/ AdminClear PROVE LockIsShared' /\ LockExcludes'
    <2>1. /\ UNCHANGED <<rpc, want, lockOf>>
          /\ forgotten \subseteq forgotten'
          /\ \A k \in Keys \ forgotten' : keyLock'[k] = keyLock[k]
      BY <1>6, ForgetKeeps DEF AdminUnload, AdminClear, Unload, Clear
    <2> QED  BY <2>1 DEF LockIsShared, LockExcludes
  <1>7. ASSUME NEW r \in Callers, RegistryCallEnds(r) PROVE LockIsShared' /\ LockExcludes'
    BY <1>7, ServiceAssumption DEF RegistryCallEnds, LockIsShared, LockExcludes
  <1>8. ASSUME UNCHANGED registryVars PROVE LockIsShared' /\ LockExcludes'
    BY <1>8 DEF registryVars, LockIsShared, LockExcludes
  <1>9. ASSUME NEW r \in Callers, ServiceStep(r), ~RegistryCallEnds(r)
        PROVE  UNCHANGED registryVars
    BY <1>9 DEF ServiceStep, Arrive, AcquireGuard, StartTts, TtsCallEnds, DropTts, Finish
  <1> QED
    BY <1>1, <1>2, <1>3, <1>4, <1>5, <1>6, <1>7, <1>8, <1>9, ServiceAssumption, StepKinds
    DEF InTts, InWarm, InDog, InRegistry, RegistryStep, vars

(* The cardinality of a set with no two elements.                          *)
LEMMA AtMostOne ==
    ASSUME NEW S, S = {} \/ \E t : S = {t}
    PROVE  Cardinality(S) <= 1
  <1>1. CASE S = {}
    <2>1. Cardinality({}) = 0
      BY FS_EmptySet
    <2> QED  BY <1>1, <2>1
  <1>2. ASSUME NEW t, S = {t} PROVE Cardinality(S) <= 1
    <2>1. Cardinality({t}) = 1
      BY FS_Singleton
    <2> QED  BY <1>2, <2>1
  <1> QED  BY <1>1, <1>2

(* Two threads with the same key and the same lock object are one thread.  *)
LEMMA OneInside ==
    ASSUME LocksInv, NEW k \in Keys \ forgotten,
           NEW S, S = {t \in Loaders : rpc[t] = "load" /\ want[t] = k}
    PROVE  Cardinality(S) <= 1
  <1>1. \A t, u \in S : t = u
    BY DEF LocksInv, LockIsShared, LockExcludes, Inside, Locking
  <1>2. S = {} \/ \E t : S = {t}
    BY <1>1
  <1> QED  BY <1>2, AtMostOne

-----------------------------------------------------------------------------
(* Whatever loads a model is alone at it, and somebody is: the readiness   *)
(* probe never waits for a load that nobody performs, the synthesis model  *)
(* is built by one thread at a time as long as no load was declared failed *)
(* from outside, and each registry model by one thread at a time as long   *)
(* as its lock object was not dropped.                                     *)
THEOREM LoadsAlone == Spec => []LoadsAreSound
  <1>1. Init => LoaderInv /\ LocksInv
    <2> SUFFICES ASSUME Init PROVE LoaderInv /\ LocksInv
      OBVIOUS
    <2>1. Types /\ CallHolds
      BY GuardInit DEF GuardInv
    <2>2. LoaderAlone /\ NoOrphanLoading
      BY DEF Init, TtsInit, LoaderAlone, NoOrphanLoading
    <2>3. LockIsShared /\ LockExcludes
      BY DEF Init, RegistryInit, LockIsShared, LockExcludes, Inside, Locking
    <2> QED  BY <2>1, <2>2, <2>3 DEF LoaderInv, LocksInv
  <1>2. LoaderInv /\ LocksInv /\ [Next]_vars => (LoaderInv /\ LocksInv)'
    BY TtsTypesStep, RegistryTypesStep, ServiceTypesStep, CallStep, LoaderStep, LocksStep
    DEF LoaderInv, LocksInv, Types
  <1>3. LoaderInv /\ LocksInv => LoadsAreSound
    <2> SUFFICES ASSUME LoaderInv, LocksInv PROVE LoadsAreSound
      OBVIOUS
    <2>1. NoOrphanLoading
      BY DEF LoaderInv
    <2>2. OneLoader
      <3> SUFFICES ASSUME ~forced
                   PROVE  /\ Cardinality({t \in Threads : pc[t] = "load"}) <= 1
                          /\ (\E t \in Threads : pc[t] = "load") => ~model
        BY DEF OneLoader
      <3>1. PICK S : S = {t \in Threads : pc[t] = "load"}
        OBVIOUS
      <3>2. S = {} \/ \E t : S = {t}
        BY <3>1 DEF LoaderInv, LoaderAlone
      <3>3. Cardinality(S) <= 1
        BY <3>2, AtMostOne
      <3> QED  BY <3>1, <3>3 DEF LoaderInv, LoaderAlone
    <2>3. OneLoaderPerKey
      BY OneInside DEF OneLoaderPerKey
    <2> QED  BY <2>1, <2>2, <2>3 DEF LoadsAreSound
  <1> QED  BY <1>1, <1>2, <1>3, PTL DEF Spec

-----------------------------------------------------------------------------
(* The index of the registry: its order, its limit and its lock objects.   *)

LEMMA WithoutKeeps ==
    ASSUME NEW K, NEW s \in Seq(K), IsInjective(s), NEW k
    PROVE  /\ Without(s, k) \in Seq(K)
           /\ IsInjective(Without(s, k))
           /\ ToSet(Without(s, k)) = ToSet(s) \ {k}
           /\ k \in ToSet(s) => Len(Without(s, k)) = Len(s) - 1
  <1>1. CASE k \notin ToSet(s)
    BY <1>1 DEF Without
  <1>2. CASE k \in ToSet(s)
    <2> DEFINE n == Len(s)
               t == Without(s, k)
    <2>1. n \in Nat /\ DOMAIN s = 1..n /\ \A i \in 1..n : s[i] \in K
      OBVIOUS
    <2>2. PICK j \in 1..n : /\ s[j] = k
                            /\ t = SubSeq(s, 1, j - 1) \o SubSeq(s, j + 1, n)
      <3>1. \E i \in DOMAIN s : s[i] = k
        BY <1>2 DEF ToSet
      <3> DEFINE c == CHOOSE i \in DOMAIN s : s[i] = k
      <3>2. c \in DOMAIN s /\ s[c] = k
        BY <3>1
      <3>3. t = RemoveAt(s, c)
        BY <1>2 DEF Without
      <3> HIDE DEF c, t
      <3> QED  BY <2>1, <3>2, <3>3 DEF RemoveAt
    <2> HIDE DEF t
    <2> DEFINE a == SubSeq(s, 1, j - 1)
               b == SubSeq(s, j + 1, n)
    <2>3. /\ a \in Seq(K) /\ Len(a) = j - 1 /\ \A i \in 1..(j - 1) : a[i] = s[i]
          /\ b \in Seq(K) /\ Len(b) = n - j /\ \A i \in 1..(n - j) : b[i] = s[i + j]
      <3> HIDE DEF n
      <3>1. j \in Nat /\ j >= 1 /\ j <= n /\ Len(s) = n
        BY <2>1 DEF n
      <3>2. a \in Seq(K) /\ Len(a) = j - 1 /\ \A i \in 1..(j - 1) : a[i] = s[i]
        BY <2>1, <3>1
      <3>3. b \in Seq(K) /\ Len(b) = n - j
        BY <2>1, <3>1
      <3>4. \A i \in 1..(n - j) : b[i] = s[i + j]
        BY <2>1, <3>1
      <3> QED  BY <3>2, <3>3, <3>4
    <2>4. t = a \o b
      BY <2>2
    <2> HIDE DEF a, b, n
    <2>5. /\ t \in Seq(K) /\ Len(t) = n - 1 /\ DOMAIN t = 1..(n - 1)
          /\ \A i \in 1..(n - 1) : t[i] = IF i < j THEN a[i] ELSE b[i - (j - 1)]
      <3>1. j \in Nat /\ j >= 1 /\ j <= n
        BY <2>1
      <3>2. t \in Seq(K) /\ Len(t) = n - 1 /\ DOMAIN t = 1..(n - 1)
        BY <2>1, <2>3, <2>4, <3>1
      <3>3. \A i \in 1..(n - 1) : t[i] = IF i <= Len(a) THEN a[i] ELSE b[i - Len(a)]
        BY <2>1, <2>3, <2>4, <3>1
      <3>4. \A i \in 1..(n - 1) : (i <= j - 1) <=> (i < j)
        BY <3>1
      <3> QED  BY <2>3, <3>2, <3>3, <3>4
    <2>6. \A i \in 1..(n - 1) : t[i] = s[IF i < j THEN i ELSE i + 1]
      <3> SUFFICES ASSUME NEW i \in 1..(n - 1)
                   PROVE  t[i] = s[IF i < j THEN i ELSE i + 1]
        OBVIOUS
      <3>1. j \in Nat /\ i \in Nat /\ i >= 1 /\ i <= n - 1 /\ n \in Nat
        BY <2>1
      <3>2. t[i] = IF i < j THEN a[i] ELSE b[i - (j - 1)]
        BY <2>5
      <3>3. CASE i < j
        <4>1. i \in 1..(j - 1)
          BY <3>1, <3>3
        <4>2. a[i] = s[i]
          BY <2>3, <4>1
        <4> QED  BY <3>2, <3>3, <4>2
      <3>4. CASE ~(i < j)
        <4>1. i - (j - 1) \in 1..(n - j) /\ (i - (j - 1)) + j = i + 1
          BY <3>1, <3>4
        <4>2. b[i - (j - 1)] = s[i + 1]
          BY <2>3, <4>1
        <4> QED  BY <3>2, <3>4, <4>2
      <3> QED  BY <3>3, <3>4
    <2>7. \A x, y \in 1..n : s[x] = s[y] => x = y
      BY <2>1 DEF IsInjective
    <2>8. IsInjective(t)
      <3> SUFFICES ASSUME NEW x \in 1..(n - 1), NEW y \in 1..(n - 1), t[x] = t[y]
                   PROVE  x = y
        BY <2>5 DEF IsInjective
      <3> DEFINE f == IF x < j THEN x ELSE x + 1
                 g == IF y < j THEN y ELSE y + 1
      <3>1. f \in 1..n /\ g \in 1..n
        BY <2>1
      <3>2. s[f] = s[g]
        BY <2>6
      <3>3. f = g
        BY <2>7, <3>1, <3>2
      <3> QED  BY <2>1, <3>3
    <2>9. ToSet(t) = ToSet(s) \ {k}
      <3>1. ASSUME NEW i \in 1..(n - 1) PROVE t[i] \in ToSet(s) /\ t[i] # k
        <4> DEFINE f == IF i < j THEN i ELSE i + 1
        <4>1. f \in 1..n /\ f # j /\ t[i] = s[f]
          BY <2>1, <2>6
        <4> QED  BY <2>1, <2>2, <2>7, <4>1 DEF ToSet
      <3>2. ASSUME NEW x \in 1..n, s[x] # k PROVE s[x] \in ToSet(t)
        <4> DEFINE i == IF x < j THEN x ELSE x - 1
        <4>1. i \in 1..(n - 1) /\ (IF i < j THEN i ELSE i + 1) = x
          BY <2>1, <2>2, <3>2
        <4>2. t[i] = s[x]
          BY <2>6, <4>1
        <4> QED  BY <2>5, <4>1, <4>2 DEF ToSet
      <3>3. ToSet(t) \subseteq ToSet(s) \ {k}
        BY <2>5, <3>1 DEF ToSet
      <3>4. ToSet(s) \ {k} \subseteq ToSet(t)
        BY <2>1, <3>2 DEF ToSet
      <3> QED  BY <3>3, <3>4
    <2> QED  BY <2>5, <2>8, <2>9 DEF t, n
  <1> QED  BY <1>1, <1>2

LEMMA MovedKeeps ==
    ASSUME NEW K, NEW s \in Seq(K), IsInjective(s), NEW k \in K
    PROVE  /\ MoveToEnd(s, k) \in Seq(K)
           /\ IsInjective(MoveToEnd(s, k))
           /\ ToSet(MoveToEnd(s, k)) = ToSet(s) \cup {k}
           /\ k \in ToSet(s) => Len(MoveToEnd(s, k)) = Len(s)
  <1> DEFINE t == Without(s, k)
  <1>1. /\ t \in Seq(K) /\ IsInjective(t) /\ ToSet(t) = ToSet(s) \ {k}
        /\ k \in ToSet(s) => Len(t) = Len(s) - 1
    BY WithoutKeeps
  <1>2. MoveToEnd(s, k) = Append(t, k)
    BY DEF MoveToEnd
  <1> HIDE DEF t
  <1> DEFINE u == Append(t, k)
  <1>3. /\ Len(t) \in Nat /\ DOMAIN t = 1..Len(t) /\ u \in Seq(K)
        /\ Len(u) = Len(t) + 1 /\ DOMAIN u = 1..(Len(t) + 1)
        /\ u[Len(t) + 1] = k /\ \A i \in 1..Len(t) : u[i] = t[i]
    BY <1>1
  <1>4. \A i \in 1..Len(t) : t[i] # k
    BY <1>1, <1>3 DEF ToSet
  <1> HIDE DEF u
  <1>5. IsInjective(u)
    <2> SUFFICES ASSUME NEW x \in 1..(Len(t) + 1), NEW y \in 1..(Len(t) + 1), u[x] = u[y]
                 PROVE  x = y
      BY <1>3 DEF IsInjective
    <2>1. \A i \in 1..(Len(t) + 1) : i = Len(t) + 1 \/ i \in 1..Len(t)
      BY <1>3
    <2> QED  BY <1>1, <1>3, <1>4, <2>1 DEF IsInjective
  <1>6. ToSet(u) = ToSet(t) \cup {k}
    <2>1. ToSet(u) \subseteq ToSet(t) \cup {k}
      <3>1. \A i \in 1..(Len(t) + 1) : i = Len(t) + 1 \/ i \in 1..Len(t)
        BY <1>3
      <3> QED  BY <1>3, <3>1 DEF ToSet
    <2>2. ToSet(t) \cup {k} \subseteq ToSet(u)
      <3>1. 1..Len(t) \subseteq 1..(Len(t) + 1) /\ Len(t) + 1 \in 1..(Len(t) + 1)
        BY <1>3
      <3> QED  BY <1>3, <3>1 DEF ToSet
    <2> QED  BY <2>1, <2>2
  <1>7. k \in ToSet(s) => Len(u) = Len(s)
    <2>1. Len(s) \in Nat
      OBVIOUS
    <2> QED  BY <1>1, <1>3, <2>1
  <1>8. ToSet(u) = ToSet(s) \cup {k}
    BY <1>1, <1>6
  <1> QED  BY <1>2, <1>3, <1>5, <1>7, <1>8 DEF u

LEMMA TrimKeeps ==
    ASSUME NEW K, NEW s \in Seq(K), IsInjective(s)
    PROVE  /\ Trim(s) \in Seq(K)
           /\ IsInjective(Trim(s))
           /\ ToSet(Trim(s)) \subseteq ToSet(s)
           /\ MaxModels # 0 => Len(Trim(s)) <= MaxModels
  <1>1. CASE MaxModels = 0 \/ Len(s) <= MaxModels
    BY <1>1 DEF Trim
  <1>2. CASE ~(MaxModels = 0 \/ Len(s) <= MaxModels)
    <2> DEFINE n == Len(s)
               d == n - MaxModels
               t == SubSeq(s, d + 1, n)
    <2>1. n \in Nat /\ DOMAIN s = 1..n /\ MaxModels \in Nat /\ d \in Nat /\ d + MaxModels = n
      BY <1>2, RegistryAssumption
    <2>2. /\ t \in Seq(K) /\ Len(t) = MaxModels /\ DOMAIN t = 1..MaxModels
          /\ \A i \in 1..MaxModels : t[i] = s[i + d]
      BY <2>1
    <2>3. Trim(s) = t
      BY <1>2 DEF Trim
    <2>4. \A i \in 1..MaxModels : i + d \in 1..n
      BY <2>1
    <2> HIDE DEF t, d, n
    <2>5. IsInjective(t)
      <3> SUFFICES ASSUME NEW x \in 1..MaxModels, NEW y \in 1..MaxModels, t[x] = t[y]
                   PROVE  x = y
        BY <2>2 DEF IsInjective
      <3>1. x + d = y + d
        BY <2>1, <2>2, <2>4 DEF IsInjective
      <3> QED  BY <2>1, <3>1
    <2>6. ToSet(t) \subseteq ToSet(s)
      BY <2>1, <2>2, <2>4 DEF ToSet
    <2> QED  BY <2>1, <2>2, <2>3, <2>5, <2>6
  <1> QED  BY <1>1, <1>2

(* The list of models, and what the index has dropped.                     *)
Listed ==
    /\ items \in Seq(Keys)
    /\ forgotten \subseteq Keys
    /\ RegistryInBounds

(* Dropping keys leaves the other keys' lock objects.                      *)
LEMMA ListedAfterForget ==
    ASSUME RegistryTypes, Listed, NEW ks \in SUBSET Keys, Forget(ks),
           items' \in Seq(Keys), IsInjective(items'), MaxModels # 0 => Len(items') <= MaxModels,
           \A k \in ToSet(items') \ ks : k \in Resident \/ k \in forgotten \/ keyLock[k] # NoLock,
           ToSet(items') \cap ks = {}
    PROVE  Listed'
  <1>1. forgotten' \subseteq Keys /\ forgotten \subseteq forgotten'
    BY DEF Forget, Listed
  <1>2. \A k \in Keys \ ks : keyLock'[k] = keyLock[k]
    BY DEF Forget
  <1>3. ToSet(items') \subseteq Keys
    BY DEF ToSet
  <1>4. \A k \in Resident' \ forgotten' : keyLock'[k] # NoLock
    BY <1>1, <1>2, <1>3 DEF Listed, RegistryInBounds, Resident
  <1> QED  BY <1>1, <1>4 DEF Listed, RegistryInBounds

(* A listed model becomes the most recently used one.                      *)
LEMMA ListedMoves ==
    ASSUME Listed, NEW k \in Resident, items' = MoveToEnd(items, k),
           UNCHANGED <<keyLock, forgotten>>
    PROVE  Listed'
  <1>1. items \in Seq(Keys) /\ IsInjective(items) /\ k \in ToSet(items) /\ k \in Keys
    BY DEF Listed, RegistryInBounds, Resident, ToSet
  <1>2. /\ items' \in Seq(Keys) /\ IsInjective(items') /\ Len(items') = Len(items)
        /\ ToSet(items') = ToSet(items) \cup {k}
    BY <1>1, MovedKeeps
  <1>3. Resident' = Resident
    BY <1>1, <1>2 DEF Resident
  <1> QED  BY <1>2, <1>3 DEF Listed, RegistryInBounds

LEMMA ListedStep ==
    ASSUME LocksInv, Listed, [Next]_vars
    PROVE  Listed'
  <1> USE DEF LocksInv, Types
  <1>0. RegistryTypes /\ Resident \subseteq Keys
    BY DEF Listed, Resident, ToSet
  <1>1. ASSUME NEW t \in Loaders, NEW k \in Keys, Hit(t, k) \/ Miss(t, k) PROVE Listed'
    <2>1. CASE Hit(t, k)
      <3>1. items' = MoveToEnd(items, k) /\ k \in Resident /\ UNCHANGED <<keyLock, forgotten>>
        BY <2>1 DEF Hit
      <3> QED  BY <3>1, ListedMoves
    <2>2. CASE Miss(t, k)
      <3>1. items' = items /\ forgotten' = forgotten
        BY <2>2 DEF Miss
      <3>2. \A i \in Keys : keyLock'[i] = keyLock[i] \/ i = k
        BY <1>0, <2>2 DEF Miss, RegistryTypes
      <3>3. k \notin Resident
        BY <2>2 DEF Miss
      <3>4. Resident' = Resident
        BY <3>1 DEF Resident
      <3> QED  BY <1>0, <3>1, <3>2, <3>3, <3>4 DEF Listed, RegistryInBounds
    <2> QED  BY <1>1, <2>1, <2>2
  <1>2. ASSUME NEW t \in Loaders, AcquireKey(t) \/ Recheck(t) \/ LoaderRaises(t) PROVE Listed'
    <2>1. UNCHANGED <<keyLock, forgotten>>
      BY <1>2 DEF AcquireKey, Recheck, LoaderRaises
    <2>2. items' = items \/ (items' = MoveToEnd(items, want[t]) /\ want[t] \in Resident)
      BY <1>2 DEF AcquireKey, Recheck, LoaderRaises
    <2>3. CASE items' = items
      BY <2>1, <2>3 DEF Listed, RegistryInBounds, Resident
    <2>4. CASE items' = MoveToEnd(items, want[t]) /\ want[t] \in Resident
      BY <2>1, <2>4, ListedMoves
    <2> QED  BY <2>2, <2>3, <2>4
  <1>3. ASSUME NEW t \in Loaders, Store(t) PROVE Listed'
    <2> DEFINE k     == want[t]
               grown == MoveToEnd(items, k)
               kept  == Trim(grown)
               ks    == ToSet(grown) \ ToSet(kept)
    <2>1. items' = kept /\ Forget(ks) /\ rpc[t] = "load"
      BY <1>3 DEF Store
    <2>2. /\ k \in Keys
          /\ k \notin forgotten => lockOf[t] = keyLock[k] /\ lockOf[t] # NoLock
      BY <2>1 DEF LockIsShared, Inside
    <2>3. items \in Seq(Keys) /\ IsInjective(items)
      BY DEF Listed, RegistryInBounds
    <2>4. grown \in Seq(Keys) /\ IsInjective(grown) /\ ToSet(grown) = Resident \cup {k}
      BY <2>2, <2>3, MovedKeeps DEF Resident
    <2> HIDE DEF grown
    <2>5. /\ kept \in Seq(Keys) /\ IsInjective(kept) /\ ToSet(kept) \subseteq ToSet(grown)
          /\ MaxModels # 0 => Len(kept) <= MaxModels
      BY <2>4, TrimKeeps
    <2> HIDE DEF kept, k
    <2>6. ks \in SUBSET Keys /\ ToSet(kept) \cap ks = {}
      BY <1>0, <2>2, <2>4
    <2>7. \A i \in ToSet(kept) : i \in Resident \/ i \in forgotten \/ keyLock[i] # NoLock
      BY <2>2, <2>4, <2>5
    <2> HIDE DEF ks
    <2> QED  BY <1>0, <2>1, <2>5, <2>6, <2>7, ListedAfterForget
  <1>4. ASSUME NEW k \in Keys, Unload(k) PROVE Listed'
    <2>1. items' = Without(items, k) /\ Forget({k})
      BY <1>4 DEF Unload
    <2>2. items \in Seq(Keys) /\ IsInjective(items) /\ k \in ToSet(items)
      BY <1>4 DEF Unload, Listed, RegistryInBounds, Resident
    <2>3. /\ items' \in Seq(Keys) /\ IsInjective(items') /\ ToSet(items') = Resident \ {k}
          /\ Len(items') = Len(items) - 1 /\ Len(items) \in Nat
      BY <2>1, <2>2, WithoutKeeps DEF Resident
    <2>4. MaxModels # 0 => Len(items') <= MaxModels
      BY <2>3, RegistryAssumption DEF Listed, RegistryInBounds
    <2>5. {k} \in SUBSET Keys
      OBVIOUS
    <2> QED  BY <1>0, <2>1, <2>3, <2>4, <2>5, ListedAfterForget
  <1>5. ASSUME Clear PROVE Listed'
    <2>1. items' = <<>> /\ Forget(Keys)
      BY <1>5 DEF Clear
    <2>2. /\ items' \in Seq(Keys) /\ IsInjective(items') /\ ToSet(items') = {} /\ Len(items') = 0
      BY <2>1 DEF IsInjective, ToSet
    <2>3. MaxModels # 0 => Len(items') <= MaxModels
      BY <2>2, RegistryAssumption
    <2> QED  BY <1>0, <2>1, <2>2, <2>3, ListedAfterForget
  <1>6. ASSUME UNCHANGED <<items, keyLock, forgotten>> PROVE Listed'
    BY <1>6 DEF Listed, RegistryInBounds, Resident
  <1>7. ASSUME NEW r \in Callers, ServiceStep(r) PROVE UNCHANGED <<items, keyLock, forgotten>>
    BY <1>7 DEF ServiceStep, Arrive, AcquireGuard, StartTts, TtsCallEnds, DropTts,
       RegistryCallEnds, Finish, registryVars
  <1>8. AdminUnload \/ AdminClear => Listed'
    BY <1>4, <1>5 DEF AdminUnload, AdminClear
  <1>9. ASSUME NEW r \in Callers, InRegistry(r) PROVE Listed'
    BY <1>2, <1>3, <1>9, ServiceAssumption DEF InRegistry, RegistryStep
  <1> QED
    BY <1>1, <1>6, <1>7, <1>8, <1>9, ServiceAssumption, StepKinds
    DEF InTts, InWarm, InDog, registryVars, vars

LEMMA RegistryInvHolds == Spec => [](LocksInv /\ Listed)
  <1>1. Init => LocksInv /\ Listed
    <2> SUFFICES ASSUME Init PROVE LocksInv /\ Listed
      OBVIOUS
    <2>1. LocksInv
      BY TypesInit DEF Init, RegistryInit, LocksInv, LockIsShared, LockExcludes, Inside, Locking
    <2>2. items = <<>> /\ forgotten = {}
      BY DEF Init, RegistryInit
    <2>3. items \in Seq(Keys) /\ IsInjective(items) /\ Resident = {} /\ Len(items) = 0
      BY <2>2 DEF IsInjective, Resident, ToSet
    <2> QED  BY <2>1, <2>2, <2>3, RegistryAssumption DEF Listed, RegistryInBounds
  <1>2. LocksInv /\ Listed /\ [Next]_vars => (LocksInv /\ Listed)'
    BY TtsTypesStep, RegistryTypesStep, ServiceTypesStep, LocksStep, ListedStep
    DEF LocksInv, Types
  <1> QED  BY <1>1, <1>2, PTL DEF Spec

(* Through hits, second loads of one key, evictions, unloads and clears in *)
(* any order, the registry lists no model twice and, with a limit, never   *)
(* more than max_models, and no listed model lacks its lock object unless  *)
(* it was dropped from the index (get_or_load, _evict_if_needed).          *)
THEOREM RegistryStaysInBounds == Spec => []RegistryInBounds
  <1>1. LocksInv /\ Listed => RegistryInBounds
    BY DEF Listed
  <1> QED  BY <1>1, RegistryInvHolds, PTL

(* Every variable of the service keeps its type; in particular the LRU     *)
(* order lists keys of models only.                                        *)
THEOREM ServiceTypeCorrect == Spec => []TypeOK
  <1>1. LocksInv /\ Listed => TypeOK
    BY DEF LocksInv, Types, TtsTypes, RegistryTypes, ServiceTypes, Listed, TypeOK
  <1> QED  BY <1>1, RegistryInvHolds, PTL
=============================================================================
