----------------------------- MODULE StageRescue -----------------------------
(***************************************************************************)
(* mit6824_resume_stalled_stage.py: an operator puts a stage back into the *)
(* queue whose worker seems to have died. The tool reads the job row, the  *)
(* latest stage run, the segments, the two queues and the lease in calls   *)
(* of their own, and writes the rows and the queue in two more, while      *)
(* workers go on. What the worker does is JobPipeline's; here it is one    *)
(* job and one stage of it, with the heartbeat and the stage runs that the *)
(* tool looks at.                                                          *)
(***************************************************************************)
EXTENDS Integers

CONSTANTS
    Workers,
    MaxRuns,     \* bound on the stage runs created
    MaxMishaps   \* bound on crashes, failing stages and failing calls of the tool

ASSUME RescueAssumption == MaxRuns \in Nat /\ MaxMishaps \in Nat

VARIABLES
    row,      \* the job row: status, whether it is still at this stage, heartbeat
    run,      \* the latest stage run: its id (0: there is none) and status
    segments, \* "translated" before the stage wrote its results, then "synthesized"
    stage,    \* the stage in question
    queues,   \* how many tasks of this stage are in the ready list and the delayed set
    lease,    \* the lease key exists; young: since the tool began to read
    worker,   \* where each worker is
    tool,     \* where the tool is and what it has read
    torn,     \* history: a requeue pushed its task although its transaction failed
    mishaps

rescueVars == <<row, run, segments, stage, queues, lease, worker, tool, torn, mishaps>>

Inside(w) == worker[w] \in {"begin", "stage", "finish"}
NoneInside == \A w \in Workers : ~Inside(w)

Mishap == mishaps < MaxMishaps /\ mishaps' = mishaps + 1

----------------------------------------------------------------------------
(* The workers                                                             *)

UnchangedTool == UNCHANGED <<stage, tool, torn>>

Go(w, place) == worker' = [worker EXCEPT ![w] = place]

Promote ==
    /\ queues.delayed > 0
    /\ queues' = [ready |-> queues.ready + 1, delayed |-> queues.delayed - 1]
    /\ UNCHANGED <<row, run, segments, lease, worker, mishaps>> /\ UnchangedTool

Pop(w) ==
    /\ worker[w] = "idle" /\ queues.ready > 0
    /\ queues' = [queues EXCEPT !.ready = @ - 1]
    /\ Go(w, "acquire")
    /\ UNCHANGED <<row, run, segments, lease, mishaps>> /\ UnchangedTool

Acquire(w) ==
    /\ worker[w] = "acquire"
    /\ \/ ~lease.exists /\ Go(w, "mark") /\ lease' = [exists |-> TRUE, young |-> TRUE]
          /\ UNCHANGED queues
       \/ lease.exists /\ Go(w, "idle") /\ queues' = [queues EXCEPT !.delayed = @ + 1]
          /\ UNCHANGED lease
    /\ UNCHANGED <<row, run, segments, mishaps>> /\ UnchangedTool

(* UpdateJobState(running) sets the heartbeat.                             *)
MarkRunning(w) ==
    /\ worker[w] = "mark"
    /\ row' = [status |-> "running", here |-> TRUE, stale |-> FALSE]
    /\ Go(w, "begin")
    /\ UNCHANGED <<run, segments, queues, lease, mishaps>> /\ UnchangedTool

CreateStageRun(w) ==
    /\ worker[w] = "begin" /\ run.id < MaxRuns
    /\ run' = [id |-> run.id + 1, status |-> "running"]
    /\ Go(w, "stage")
    /\ UNCHANGED <<row, segments, queues, lease, mishaps>> /\ UnchangedTool

(* The stage stores its results at its end.                                *)
RunStage(w) ==
    /\ worker[w] = "stage"
    /\ segments' = "synthesized"
    /\ Go(w, "finish")
    /\ UNCHANGED <<row, run, queues, lease, mishaps>> /\ UnchangedTool

(* FinishStageRun and the advance to the next stage, put together here;    *)
(* the lease is deleted whoever holds it.                                  *)
FinishStage(w) ==
    /\ worker[w] = "finish"
    /\ run' = [run EXCEPT !.status = "completed"]
    /\ row' = [row EXCEPT !.status = "queued", !.here = FALSE]
    /\ lease' = [lease EXCEPT !.exists = FALSE]
    /\ Go(w, "idle")
    /\ UNCHANGED <<segments, queues, mishaps>> /\ UnchangedTool

(* A failing stage is tried again after a while.                           *)
FailStage(w) ==
    /\ worker[w] = "stage"
    /\ run' = [run EXCEPT !.status = "failed"]
    /\ row' = [row EXCEPT !.status = "queued"]
    /\ queues' = [queues EXCEPT !.delayed = @ + 1]
    /\ lease' = [lease EXCEPT !.exists = FALSE]
    /\ Go(w, "idle")
    /\ Mishap
    /\ UNCHANGED segments /\ UnchangedTool

CrashWorker(w) ==
    /\ worker[w] # "idle"
    /\ Go(w, "idle")
    /\ Mishap
    /\ UNCHANGED <<row, run, segments, queues, lease>> /\ UnchangedTool

(* The lease may run out under a worker, but not during the few minutes    *)
(* that the calls of the tool take at most.                                *)
LeaseRunsOut ==
    /\ lease.exists
    /\ lease.young => tool.pc = "idle"
    /\ lease' = [lease EXCEPT !.exists = FALSE]
    /\ UNCHANGED <<row, run, segments, queues, worker, mishaps>> /\ UnchangedTool

(* startStageHeartbeat ticks as long as a worker is in the stage.          *)
HeartbeatGoesStale ==
    /\ ~row.stale /\ NoneInside
    /\ row' = [row EXCEPT !.stale = TRUE]
    /\ UNCHANGED <<run, segments, queues, lease, worker, mishaps>> /\ UnchangedTool

WorkerStep(w) ==
    \/ Pop(w) \/ Acquire(w) \/ MarkRunning(w) \/ CreateStageRun(w) \/ RunStage(w) \/ FinishStage(w)

----------------------------------------------------------------------------
(* The tool, run with --allow-expired-lease-requeue --execute. It notes    *)
(* what it read; evaluate looks at all of it in the end, so that a blocker *)
(* may be noted as soon as it is read. A call to PostgreSQL that fails     *)
(* reads nothing, one to Redis that fails reads an empty queue or no lease.*)

IdleTool == [pc |-> "idle", safe |-> TRUE, run |-> 0]

Noting(next, safe) == tool' = [tool EXCEPT !.pc = next, !.safe = @ /\ safe]

UnchangedWorld == UNCHANGED <<row, run, segments, stage, queues, worker>>

\* Mutant: the heartbeat is not looked at.
JobIsStalled_NoHeartbeat == row.status = "running" /\ row.here

JobIsStalled == row.status = "running" /\ row.here /\ row.stale

RunIsOpen == run.id > 0 /\ run.status = "running"

(* There is something left to do for the stage.                            *)
WorthResuming ==
    /\ stage = "tts_duration" => segments = "translated"
    /\ stage = "merge" => segments = "synthesized"

(* Tasks of other jobs wait as well.                                       *)
OtherTasks == 1

\* Mutant: a task of any job counts.
Matching_AnyJob(tasks) == tasks + OtherTasks

Matching(tasks) == tasks

(* One read of collect_state.                                              *)
Read(place, next, fine, onFailure) ==
    /\ tool.pc = place
    /\ \/ Noting(next, fine) /\ UNCHANGED mishaps
       \/ Noting(next, onFailure) /\ Mishap
    /\ UNCHANGED <<lease, torn>> /\ UnchangedWorld

ReadJob ==
    /\ tool.pc = "idle"
    /\ \/ tool' = [IdleTool EXCEPT !.pc = "run", !.safe = JobIsStalled] /\ UNCHANGED mishaps
       \/ tool' = [IdleTool EXCEPT !.pc = "run", !.safe = FALSE] /\ Mishap
    /\ lease' = [lease EXCEPT !.young = FALSE]
    /\ UNCHANGED torn /\ UnchangedWorld

ReadStageRun ==
    /\ tool.pc = "run"
    /\ \/ /\ tool' = [tool EXCEPT !.pc = "counts", !.safe = @ /\ RunIsOpen, !.run = run.id]
          /\ UNCHANGED mishaps
       \/ Noting("counts", FALSE) /\ Mishap
    /\ UNCHANGED <<lease, torn>> /\ UnchangedWorld

ReadCounts  == Read("counts", "ready", WorthResuming, FALSE)
ReadReady   == Read("ready", "delayed", Matching(queues.ready) = 0, TRUE)
ReadDelayed == Read("delayed", "lease", Matching(queues.delayed) = 0, TRUE)
ReadLease   == Read("lease", "evaluate", ~lease.exists, TRUE)

Refuse ==
    /\ tool.pc = "evaluate" /\ ~tool.safe
    /\ tool' = IdleTool
    /\ UNCHANGED <<lease, torn, mishaps>> /\ UnchangedWorld

(* execute_requeue: one transaction, whose conditions may match nothing.   *)
RequeueRows ==
    /\ tool.pc = "evaluate" /\ tool.safe
    /\ \/ /\ run' = IF run.id = tool.run /\ run.status = "running"
                    THEN [run EXCEPT !.status = "stale_requeued"] ELSE run
          /\ row' = IF row.status = "running" /\ row.here
                    THEN [row EXCEPT !.status = "queued"] ELSE row
          /\ UNCHANGED <<torn, mishaps>>
       \/ Mishap /\ torn' = TRUE /\ UNCHANGED <<run, row>>
    /\ tool' = [tool EXCEPT !.pc = "push"]
    /\ UNCHANGED <<segments, stage, queues, lease, worker>>

(* The task is pushed whatever became of the transaction.                  *)
PushTask ==
    /\ tool.pc = "push"
    /\ \/ queues' = [queues EXCEPT !.ready = @ + 1] /\ UNCHANGED mishaps
       \/ Mishap /\ UNCHANGED queues
    /\ tool' = IdleTool
    /\ UNCHANGED <<row, run, segments, stage, lease, worker, torn>>

(* docker compose takes too long: TimeoutExpired ends the tool.            *)
ToolDies ==
    /\ tool.pc # "idle"
    /\ tool' = IdleTool
    /\ Mishap
    /\ UNCHANGED <<lease, torn>> /\ UnchangedWorld

ToolStep ==
    \/ ReadJob \/ ReadStageRun \/ ReadCounts \/ ReadReady \/ ReadDelayed \/ ReadLease
    \/ Refuse \/ RequeueRows \/ PushTask

----------------------------------------------------------------------------
RescueInit ==
    /\ stage \in {"tts_duration", "merge"}
    /\ segments = IF stage = "merge" THEN "synthesized" ELSE "translated"
    /\ row = [status |-> "queued", here |-> TRUE, stale |-> TRUE]
    /\ run = [id |-> 0, status |-> "none"]
    /\ queues = [ready |-> 1, delayed |-> 0]
    /\ lease = [exists |-> FALSE, young |-> FALSE]
    /\ worker = [w \in Workers |-> "idle"]
    /\ tool = IdleTool /\ torn = FALSE /\ mishaps = 0

RescueNext ==
    \/ \E w \in Workers : WorkerStep(w) \/ FailStage(w) \/ CrashWorker(w)
    \/ Promote \/ LeaseRunsOut \/ HeartbeatGoesStale
    \/ ToolStep \/ ToolDies

(* Workers loop, Redis expires keys, time passes, and the operator runs    *)
(* the tool again as long as the stage has not moved.                      *)
RescueFairness ==
    /\ \A w \in Workers : WF_rescueVars(WorkerStep(w))
    /\ WF_rescueVars(Promote) /\ WF_rescueVars(LeaseRunsOut) /\ WF_rescueVars(HeartbeatGoesStale)
    /\ WF_rescueVars(ToolStep)

RescueSpec == RescueInit /\ [][RescueNext]_rescueVars /\ RescueFairness

----------------------------------------------------------------------------
(* Properties *)

(* The tool never brings a second worker into a stage somebody works on,   *)
(* although the lease may have run out under that worker long before its   *)
(* stage ends. Excepted is the time after a requeue that pushed its task   *)
(* although its transaction failed.                                        *)
OneWorkerInStage == torn \/ \A v, w \in Workers : Inside(v) /\ Inside(w) => v = w

(* A stage whose worker died in it, with work left and no task anywhere,   *)
(* gets a worker again when the operator keeps running the tool and nothing*)
(* more goes wrong.                                                        *)
Stranded ==
    /\ row.status = "running" /\ row.here /\ RunIsOpen /\ WorthResuming
    /\ \A w \in Workers : worker[w] = "idle"
    /\ queues = [ready |-> 0, delayed |-> 0]

StrandedIsRescued == (Stranded /\ mishaps = MaxMishaps) ~> ~NoneInside
==============================================================================
