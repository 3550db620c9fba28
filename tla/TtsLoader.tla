------------------------------ MODULE TtsLoader ------------------------------
(***************************************************************************)
(* The inline IndexTTS2 model of the ml-service: TTSAdapter's load state   *)
(* machine (ml_service/app/adapters/tts.py), the warm-up thread and the    *)
(* watchdog that main.py starts beside it.                                 *)
(*                                                                         *)
(* The model handle is a flag: resident or None.  Reads of the handle that *)
(* the code makes outside _state_lock are steps of their own; everything   *)
(* inside one `with self._state_lock' block is one step.                   *)
(***************************************************************************)
EXTENDS Naturals, FiniteSets

CONSTANTS
    Callers,   \* executor threads that serve requests
    Warm,      \* the indextts2-warmup thread
    Hanging    \* threads whose IndexTTS2(...) constructor may never return

Threads == Callers \cup {Warm}

ASSUME TtsAssumption == Warm \notin Callers /\ Hanging \subseteq Threads

VARIABLES
    status,    \* _indextts2_warmup_status
    model,     \* _indextts2_model is not None
    event,     \* _load_done.is_set()
    pc,        \* where each thread is inside ensure_indextts2_loaded
    watchdog,  \* the watchdog thread
    forced     \* history: a load in flight was declared failed from outside

ttsVars == <<status, model, event, pc, watchdog, forced>>

Statuses == {"idle", "loading", "ready", "error"}

(* "out" is outside the adapter; a call of ensure_indextts2_loaded ends    *)
(* with the model, with None (the handle was dropped between the test and  *)
(* the read) or with an exception.  The other points are the reads and     *)
(* critical sections of the call, in order.                                *)
EnsurePoints == {"check", "fastReturn", "decide", "wait", "woken", "lateReturn",
                 "load", "signalOk", "signalError",
                 "returned", "returnedNone", "raised"}
Ended        == {"returned", "returnedNone", "raised"}
WarmPoints   == {"finally", "forcing", "wakeAll", "finished"}
Points       == {"out"} \cup EnsurePoints \cup WarmPoints

(* The lifespan starts the warm-up thread and its watchdog only for an     *)
(* inline IndexTTS2 backend.                                               *)
TtsInit(inline) ==
    /\ status = "idle"
    /\ model = FALSE
    /\ event = FALSE
    /\ pc = [t \in Threads |->
                IF t # Warm THEN "out" ELSE IF inline THEN "check" ELSE "finished"]
    /\ watchdog = IF inline THEN "asleep" ELSE "stopped"
    /\ forced = FALSE

Goto(t, p) == pc' = [pc EXCEPT ![t] = p]

(***************************************************************************)
(* ensure_indextts2_loaded                                                 *)
(***************************************************************************)

(* The fast path tests the handle and then reads it again to return it.    *)
Check(t) ==
    /\ pc[t] = "check"
    /\ Goto(t, IF model THEN "fastReturn" ELSE "decide")
    /\ UNCHANGED <<status, model, event, watchdog, forced>>

ReturnHandle(t) ==
    /\ pc[t] \in {"fastReturn", "lateReturn"}
    /\ Goto(t, IF model THEN "returned" ELSE "returnedNone")
    /\ UNCHANGED <<status, model, event, watchdog, forced>>

(* One critical section chooses the role of the caller.                    *)
FoundModel(t) ==
    /\ pc[t] = "decide"
    /\ model
    /\ Goto(t, "returned")
    /\ UNCHANGED <<status, model, event, watchdog, forced>>

BecomeWaiter(t) ==
    /\ pc[t] = "decide"
    /\ ~model
    /\ status = "loading"
    /\ Goto(t, "wait")
    /\ UNCHANGED <<status, model, event, watchdog, forced>>

\* Mutant: the role is chosen without looking at the status.
BecomeLoader_AnyStatus(t) ==
    /\ pc[t] = "decide"
    /\ ~model
    /\ status' = "loading"
    /\ event' = FALSE
    /\ Goto(t, "load")
    /\ UNCHANGED <<model, watchdog, forced>>

BecomeLoader(t) ==
    /\ pc[t] = "decide"
    /\ ~model
    /\ status # "loading"
    /\ status' = "loading"
    /\ event' = FALSE
    /\ Goto(t, "load")
    /\ UNCHANGED <<model, watchdog, forced>>

(* A waiter wakes when the event is set, or gives up after the timeout.    *)
Wake(t) ==
    /\ pc[t] = "wait"
    /\ event
    /\ Goto(t, "woken")
    /\ UNCHANGED <<status, model, event, watchdog, forced>>

\* Mutant: the wait has no timeout.
WaitTimeout_Never(t) == FALSE

WaitTimeout(t) ==
    /\ pc[t] = "wait"
    /\ ~event
    /\ Goto(t, "raised")
    /\ UNCHANGED <<status, model, event, watchdog, forced>>

AfterWait(t) ==
    /\ pc[t] = "woken"
    /\ Goto(t, IF model THEN "lateReturn" ELSE "raised")
    /\ UNCHANGED <<status, model, event, watchdog, forced>>

(* The constructor runs outside the lock; its result is published inside   *)
(* it, whatever the status has become in the meantime.                     *)
LoadOk(t) ==
    /\ pc[t] = "load"
    /\ model' = TRUE
    /\ status' = "ready"
    /\ Goto(t, "signalOk")
    /\ UNCHANGED <<event, watchdog, forced>>

\* Mutant: the exception handler does not record the failure.
LoadFail_KeepsStatus(t) ==
    /\ pc[t] = "load"
    /\ Goto(t, "signalError")
    /\ UNCHANGED <<status, model, event, watchdog, forced>>

LoadFail(t) ==
    /\ pc[t] = "load"
    /\ status' = "error"
    /\ Goto(t, "signalError")
    /\ UNCHANGED <<model, event, watchdog, forced>>

(* _load_done.set() follows the critical section.                          *)
Signal(t) ==
    /\ pc[t] \in {"signalOk", "signalError"}
    /\ event' = TRUE
    /\ Goto(t, IF pc[t] = "signalOk" THEN "returned" ELSE "raised")
    /\ UNCHANGED <<status, model, watchdog, forced>>

Loading(t) == LoadOk(t) \/ LoadFail(t)

EnsureStep(t) ==
    \/ Check(t)      \/ ReturnHandle(t)
    \/ FoundModel(t) \/ BecomeWaiter(t) \/ BecomeLoader(t)
    \/ Wake(t)       \/ WaitTimeout(t)  \/ AfterWait(t)
    \/ Signal(t)

(***************************************************************************)
(* release_indextts2: one critical section                                 *)
(***************************************************************************)

ReleaseModel ==
    IF model
    THEN model' = FALSE /\ status' = "idle" /\ event' = FALSE
    ELSE UNCHANGED <<model, status, event>>

(***************************************************************************)
(* force_indextts2_load_error: a critical section that leaves terminal     *)
(* statuses alone, then the event                                          *)
(***************************************************************************)

\* Mutant: a status that no reader knows.
ForceError_Failed ==
    /\ status' = IF status \in {"ready", "error"} THEN status ELSE "failed"
    /\ forced' = (forced \/ status = "loading")

ForceError ==
    /\ status' = IF status \in {"ready", "error"} THEN status ELSE "error"
    /\ forced' = (forced \/ status = "loading")

ForceIsNoop == status \in {"ready", "error"}

(***************************************************************************)
(* _warm: the warm-up thread after warm_up_indextts2 has returned          *)
(***************************************************************************)

WarmReturns ==
    /\ pc[Warm] \in Ended
    /\ Goto(Warm, "finally")
    /\ UNCHANGED <<status, model, event, watchdog, forced>>

WarmFinally ==
    /\ pc[Warm] = "finally"
    /\ Goto(Warm, IF status = "loading" THEN "forcing" ELSE "finished")
    /\ UNCHANGED <<status, model, event, watchdog, forced>>

WarmForces ==
    /\ pc[Warm] = "forcing"
    /\ ForceError
    /\ Goto(Warm, IF ForceIsNoop THEN "finished" ELSE "wakeAll")
    /\ UNCHANGED <<model, event, watchdog>>

WarmWakesAll ==
    /\ pc[Warm] = "wakeAll"
    /\ event' = TRUE
    /\ Goto(Warm, "finished")
    /\ UNCHANGED <<status, model, watchdog, forced>>

WarmStep == WarmReturns \/ WarmFinally \/ WarmForces \/ WarmWakesAll

(***************************************************************************)
(* _watchdog: a heartbeat every 30 s until the status is terminal          *)
(***************************************************************************)

WarmAlive == pc[Warm] # "finished"

(* The first heartbeat comes 30 s after the warm-up thread was started;    *)
(* the thread has long made its decision by then.                          *)
FirstHeartbeat == pc[Warm] \notin {"check", "decide"}

WatchdogStops ==
    /\ watchdog = "asleep"
    /\ FirstHeartbeat
    /\ status \in {"idle", "ready", "error"}
    /\ watchdog' = "stopped"
    /\ UNCHANGED <<status, model, event, pc, forced>>

\* Mutant: only the death of the thread is noticed, no hard timeout.
WatchdogCondemns_DeadOnly ==
    /\ watchdog = "asleep"
    /\ FirstHeartbeat
    /\ status = "loading" /\ ~WarmAlive
    /\ watchdog' = "forcing"
    /\ UNCHANGED <<status, model, event, pc, forced>>

(* The thread is gone, or the hard timeout of 30 min has passed: either    *)
(* way the verdict is reached on a status read earlier.                    *)
WatchdogCondemns ==
    /\ watchdog = "asleep"
    /\ FirstHeartbeat
    /\ status = "loading"
    /\ watchdog' = "forcing"
    /\ UNCHANGED <<status, model, event, pc, forced>>

WatchdogForces ==
    /\ watchdog = "forcing"
    /\ ForceError
    /\ watchdog' = IF ForceIsNoop THEN "stopped" ELSE "wakeAll"
    /\ UNCHANGED <<model, event, pc>>

WatchdogWakesAll ==
    /\ watchdog = "wakeAll"
    /\ event' = TRUE
    /\ watchdog' = "stopped"
    /\ UNCHANGED <<status, model, pc, forced>>

WatchdogStep ==
    WatchdogStops \/ WatchdogCondemns \/ WatchdogForces \/ WatchdogWakesAll

==============================================================================
