----------------------------- MODULE StageLock -----------------------------
(***************************************************************************)
(* What the stage leases of HoloDub promise: one worker at a time in the   *)
(* leased part of HandleTask for a job and stage, unless the lease has run *)
(* out under the worker inside. Such a key is open, and stays so until     *)
(* everybody has left or the only worker inside has renewed it. A lease    *)
(* that a killed worker leaves behind keeps everybody out until its TTL    *)
(* has run out.                                                            *)
(***************************************************************************)
CONSTANTS Worker, StageKey

VARIABLES
  held,   \* pairs <<w, k>>: worker w is inside with key k
  orphan, \* keys whose last holder was killed
  open    \* keys that have run out under a holder

lockVars == <<held, orphan, open>>

Init == held = {} /\ orphan = {} /\ open = {}

Inside(k) == \E p \in held : p[2] = k

Acquire(w, k) ==
  /\ k \notin orphan
  /\ Inside(k) => k \in open
  /\ \A p \in held : p[1] # w
  /\ held' = held \cup {<<w, k>>}
  /\ UNCHANGED <<orphan, open>>

\* The last one to leave an open key closes it.
Leave(w, k) ==
  /\ <<w, k>> \in held
  /\ held' = held \ {<<w, k>>}
  /\ open' = {o \in open : \E p \in held' : p[2] = o}

Release(w, k) == Leave(w, k) /\ UNCHANGED orphan

\* An open key may have been set again, or deleted by another holder's release.
Die(w, k) ==
  /\ Leave(w, k)
  /\ \/ orphan' = orphan \cup {k} /\ \A p \in held' : p[2] # k
     \/ orphan' = orphan /\ k \in open

Lapse(k) ==
  /\ k \in orphan
  /\ orphan' = orphan \ {k}
  /\ UNCHANGED <<held, open>>

LapseInside(k) ==
  /\ Inside(k)
  /\ open' = open \cup {k}
  /\ UNCHANGED <<held, orphan>>

Renew(w, k) ==
  /\ <<w, k>> \in held
  /\ \A p \in held : p[2] = k => p[1] = w
  /\ open' = open \ {k}
  /\ UNCHANGED <<held, orphan>>

Next ==
  \/ \E w \in Worker, k \in StageKey :
       Acquire(w, k) \/ Release(w, k) \/ Die(w, k) \/ Renew(w, k)
  \/ \E k \in StageKey : Lapse(k) \/ LapseInside(k)

Spec == Init /\ [][Next]_lockVars
=============================================================================
