------------------------------ MODULE MlService ------------------------------
(***************************************************************************)
(* The ml-service process: requests pass the GPU guard, then run on        *)
(* executor threads that use the inline TTS model (TtsLoader) or a model   *)
(* of the registry (ModelRegistry), beside the warm-up thread, its         *)
(* watchdog and the admin endpoints, none of which takes the guard.        *)
(***************************************************************************)
EXTENDS TtsLoader, ModelRegistry

CONSTANTS
    Deployments   \* the hosts considered: is TTS inline, what is called, permits

Jobs == {"tts", "separate", "asr"}

ASSUME ServiceAssumption ==
    /\ Loaders = Callers
    /\ Deployments \subseteq
         [inline : BOOLEAN, endpoints : SUBSET Jobs, gpu_concurrency : Nat]

VARIABLES
    host,  \* the deployment, fixed for the life of the process
    job,   \* the endpoint each request thread serves
    at     \* how far it has come

serviceVars == <<host, job, at>>
vars == <<ttsVars, registryVars, serviceVars>>

Stages == {"idle", "queued", "holding", "calling", "working"}

Init ==
    /\ host \in Deployments
    /\ TtsInit(host.inline)
    /\ RegistryInit
    /\ job = [r \in Callers |-> Nothing]
    /\ at = [r \in Callers |-> "idle"]

(* Requests that hold a permit of the semaphore.                           *)
Holders == {r \in Callers : at[r] \in {"holding", "calling", "working"}}
\* Mutant: the semaphore admits one request too many.
Permits_OneMore == IF host.gpu_concurrency > 1 THEN host.gpu_concurrency ELSE 2

Permits == IF host.gpu_concurrency > 1 THEN host.gpu_concurrency ELSE 1

Move(r, s) == at' = [at EXCEPT ![r] = s]

Arrive(r) ==
    /\ at[r] = "idle"
    /\ \E j \in host.endpoints : job' = [job EXCEPT ![r] = j]
    /\ Move(r, "queued")
    /\ UNCHANGED <<ttsVars, registryVars, host>>

AcquireGuard(r) ==
    /\ at[r] = "queued"
    /\ Cardinality(Holders) < Permits
    /\ Move(r, "holding")
    /\ UNCHANGED <<ttsVars, registryVars, host, job>>

(* /tts/run calls the adapter, which loads the model or waits for it.      *)
StartTts(r) ==
    /\ at[r] = "holding"
    /\ job[r] = "tts"
    /\ Goto(r, "check")
    /\ Move(r, "calling")
    /\ UNCHANGED <<status, model, event, watchdog, forced, registryVars, host, job>>

TtsCallEnds(r) ==
    /\ at[r] = "calling"
    /\ pc[r] \in Ended
    /\ Goto(r, "out")
    /\ Move(r, IF pc[r] = "returned" THEN "working" ELSE "idle")
    /\ job' = IF pc[r] = "returned" THEN job ELSE [job EXCEPT ![r] = Nothing]
    /\ UNCHANGED <<status, model, event, watchdog, forced, registryVars, host>>

(* /media/separate and the ASR routes first drop the TTS model.            *)
DropTts(r) ==
    /\ at[r] = "holding"
    /\ job[r] # "tts"
    /\ ReleaseModel
    /\ Move(r, IF job[r] = "asr" THEN "calling" ELSE "working")
    /\ UNCHANGED <<pc, watchdog, forced, registryVars, host, job>>

AskRegistry(r) ==
    /\ at[r] = "calling"
    /\ job[r] = "asr"
    /\ \E k \in Keys : Hit(r, k) \/ Miss(r, k)
    /\ UNCHANGED <<ttsVars, serviceVars>>

RegistryCallEnds(r) ==
    /\ at[r] = "calling"
    /\ rpc[r] = "leave"
    /\ rpc' = [rpc EXCEPT ![r] = "out"]
    /\ want' = [want EXCEPT ![r] = Nothing]
    /\ Move(r, "working")
    /\ UNCHANGED <<ttsVars, items, keyLock, lockOf, forgotten, host, job>>

(* The executor call returns and the guard's finally releases the permit.  *)
Finish(r) ==
    /\ at[r] = "working"
    /\ Move(r, "idle")
    /\ job' = [job EXCEPT ![r] = Nothing]
    /\ UNCHANGED <<status, model, event, pc, watchdog, forced, registryVars, host>>

(* The ensure steps of a thread.                                           *)
InTts(t) == (EnsureStep(t) \/ Loading(t)) /\ UNCHANGED <<registryVars, serviceVars>>
InWarm   == WarmStep /\ UNCHANGED <<registryVars, serviceVars>>
InDog    == WatchdogStep /\ UNCHANGED <<registryVars, serviceVars>>
InRegistry(r) == RegistryStep(r) /\ UNCHANGED <<ttsVars, serviceVars>>

AdminUnload == (\E k \in Keys : Unload(k)) /\ UNCHANGED <<ttsVars, serviceVars>>
AdminClear  == Clear /\ UNCHANGED <<ttsVars, serviceVars>>

RequestStep(r) ==
    \/ StartTts(r) \/ TtsCallEnds(r) \/ DropTts(r)
    \/ AskRegistry(r) \/ InRegistry(r) \/ RegistryCallEnds(r)
    \/ Finish(r)

Next ==
    \/ \E r \in Callers : Arrive(r) \/ AcquireGuard(r) \/ RequestStep(r)
    \/ \E t \in Threads : InTts(t)
    \/ InWarm
    \/ InDog
    \/ AdminUnload
    \/ AdminClear

(***************************************************************************)
(* Threads keep running and time passes: a waiter times out, the watchdog  *)
(* reaches its verdict, the semaphore and the registry's locks do not pass *)
(* over a waiter for ever.  Only the constructor of a Hanging thread may   *)
(* never return.                                                           *)
(***************************************************************************)
Fairness ==
    /\ \A r \in Callers : SF_vars(AcquireGuard(r) \/ RequestStep(r))
    /\ \A t \in Threads :
          WF_vars(EnsureStep(t) /\ UNCHANGED <<registryVars, serviceVars>>)
    /\ \A t \in Threads \ Hanging :
          WF_vars(Loading(t) /\ UNCHANGED <<registryVars, serviceVars>>)
    /\ WF_vars(InWarm)
    /\ WF_vars(InDog)

Spec == Init /\ [][Next]_vars /\ Fairness

-----------------------------------------------------------------------------
(* Types of the three components.                                          *)
TypeOK ==
    /\ status \in Statuses
    /\ model \in BOOLEAN /\ event \in BOOLEAN /\ forced \in BOOLEAN
    /\ pc \in [Threads -> Points]
    /\ watchdog \in {"asleep", "forcing", "wakeAll", "stopped"}
    /\ items \in Seq(Keys)
    /\ keyLock \in [Keys -> LockIds \cup {NoLock}]
    /\ rpc \in [Loaders -> RegistryPoints]
    /\ want \in [Loaders -> Keys \cup {Nothing}]
    /\ lockOf \in [Loaders -> LockIds \cup {NoLock}]
    /\ forgotten \subseteq Keys
    /\ host \in Deployments
    /\ job \in [Callers -> Jobs \cup {Nothing}]
    /\ at \in [Callers -> Stages]

(* While the status reads "loading" some thread is inside the constructor: *)
(* no sequence of failures, forced errors, releases and retries leaves the *)
(* readiness probe at 503 with nobody working on it.                       *)
NoOrphanLoading == status = "loading" => \E t \in Threads : pc[t] = "load"

(* With one permit, a synthesis request that was not refused holds a real  *)
(* model: nobody can release it between the adapter's two reads.           *)
SoleUserGetsModel ==
    host.gpu_concurrency <= 1 => \A r \in Callers : pc[r] # "returnedNone"

(* As long as nobody outside declared a load failed, the model is built by *)
(* one thread at a time and never beside a resident one.                   *)
OneLoader ==
    ~forced => /\ Cardinality({t \in Threads : pc[t] = "load"}) <= 1
               /\ (\E t \in Threads : pc[t] = "load") => ~model

(* Two threads run the loader of one registry key at the same time only    *)
(* after unload, clear or an eviction dropped the key's lock object.       *)
OneLoaderPerKey ==
    \A k \in Keys \ forgotten :
        Cardinality({t \in Loaders : rpc[t] = "load" /\ want[t] = k}) <= 1

(* Whatever loads a model is alone at it, and somebody is.                 *)
LoadsAreSound == NoOrphanLoading /\ OneLoader /\ OneLoaderPerKey

(* Whatever hits, second loads of a key, evictions, unloads and clears     *)
(* come in between, the registry lists no model twice and no more than its *)
(* limit, and a listed key has the lock object under which it was loaded,  *)
(* unless an admin call or an eviction has dropped it.                     *)
RegistryInBounds ==
    /\ IsInjective(items)
    /\ MaxModels # 0 => Len(items) <= MaxModels
    /\ \A k \in Resident \ forgotten : keyLock[k] # NoLock

(* A request that arrived is answered, even when the warm-up thread hangs  *)
(* inside the constructor for ever.                                        *)
Served == \A r \in Callers : at[r] # "idle" ~> at[r] = "idle"

(* A hanging load of the warm-up thread does not keep the status at        *)
(* "loading": the watchdog ends it.                                        *)
LoadingResolves == status = "loading" ~> status # "loading"
==============================================================================
