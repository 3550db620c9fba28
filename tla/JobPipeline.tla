---------------------------- MODULE JobPipeline ----------------------------
(***************************************************************************)
(* The chapter-job pipeline of HoloDub: job rows in PostgreSQL, the task   *)
(* list, delayed set, dead-letter list and stage leases in Redis, the      *)
(* worker loop of cmd/worker/main.go around pipeline.HandleTask, and the   *)
(* API requests that start, retry, confirm, resume and cancel jobs.        *)
(*                                                                         *)
(* Every database or Redis call that another process can observe is a step *)
(* of its own, so a worker's program counter names the call it makes next. *)
(* Local computation between two calls belongs to the step before it.      *)
(***************************************************************************)
EXTENDS HoloTypes, FiniteSets

CONSTANTS
  Worker,       \* worker processes, one task at a time each
  Job,          \* chapter jobs
  Request,      \* user requests; each is issued at most once
  Chapter,      \* jobs created by the fan-out: they start at segment_review
  Long,         \* jobs whose video is long enough to wait for chapterize
  Gated,        \* jobs with segments under SEGMENT_REVIEW_REQUIRE_HUMAN
  Hurried,      \* jobs with a DeadlineAt
  Ops,          \* kinds of request the users of this instance make
  RetryStage,   \* stages those users name in a retry
  MaxRetries,   \* effectiveMaxRetries
  MaxFailures,  \* bound: stage executions that fail in one behaviour
  MaxCrashes,   \* bound: worker crashes and aborted requests in one behaviour
  MaxShutdowns, \* bound: worker shutdowns in one behaviour
  MaxReady,     \* bound: no promotion starts while the list is this long
  PromoteLimit, \* tasks one PromoteDueDelayed moves at most (100 in main.go)
  NoTask        \* what an idle worker holds

OpName == {"start", "retry", "retry_current", "confirm", "retry_asr", "resume",
           "cancel"}

ASSUME ConstantsAssumption ==
  /\ Chapter \subseteq Job
  /\ Ops \subseteq OpName
  /\ RetryStage \subseteq JobStage
  /\ MaxRetries \in Nat
  /\ MaxFailures \in Nat
  /\ MaxCrashes \in Nat
  /\ MaxShutdowns \in Nat
  /\ MaxReady \in Nat
  /\ PromoteLimit \in Nat \ {0}

VARIABLES
  status,   \* jobs.status
  stage,    \* jobs.current_stage
  done,     \* stages of a job with a completed job_stage_runs row
  expired,  \* jobs whose deadline has passed
  ready,    \* Redis list holodub:tasks
  delayed,  \* Redis sorted set holodub:tasks:delayed; a member is its payload
  dead,     \* tasks in the Redis list holodub:tasks:dead
  lease,    \* stage-lease keys that exist in Redis
  pc,       \* the call each worker makes next
  task,     \* the task each worker has popped
  local,    \* the status and stage a worker's handler keeps in its own memory
  batch,    \* the due members a worker has read and not yet promoted
  req,      \* progress of each user request
  failures, \* stage executions that failed so far
  crashes,  \* crashes and aborted requests so far
  shutdowns, \* shutdowns so far
  lost,     \* history: jobs whose task went down with its worker
  overrun   \* history: lease keys that ran out while a worker was inside and
            \* that a worker has been inside with ever since

jobVars == <<status, stage, done, expired>>
redisVars == <<ready, delayed, dead, lease>>
workerVars == <<pc, task, local, batch>>
boundVars == <<failures, crashes, shutdowns, lost, overrun>>
vars == <<jobVars, redisVars, workerVars, req, boundVars>>

\* TaskPayload: the fields the handlers branch on. "by" stands for the
\* RequestedBy/Reason pair: HandleTask's own auto-advance, or a request.
Task == [job : Job, stage : JobStage, attempt : 0..MaxRetries,
         skip : BOOLEAN, by : {"request", "pipeline"}]

NewTask(j, s, skip, by) ==
  [job |-> j, stage |-> s, attempt |-> 0, skip |-> skip, by |-> by]

\* A worker's program counter while it carries a popped task ...
Leasing == {"mark", "begin", "run", "finish", "complete", "refresh", "advance",
            "push", "failed", "settle", "backoff", "bury", "release"}
Carrying == {"load", "expire", "cancel", "acquire"} \cup Leasing
\* ... while it still owes the job something: a task or a dead letter ...
Owing == Carrying \ {"release"}
\* ... and while nobody else needs to know of the job: it will pass a task on or
\* write a status that says the work has stopped.
Responsible == Owing \ {"bury"}

Blank == [status |-> "pending", stage |-> "media"]

\* stageLeaseKey.
Key(t) == <<t.job, t.stage>>
Holds(w, k) == pc[w] \in Leasing /\ Key(task[w]) = k
\* What is left of overrun once worker w is out.
OverrunWithout(w) == {k \in overrun : \E v \in Worker \ {w} : Holds(v, k)}

Goto(w, label) == pc' = [pc EXCEPT ![w] = label]
\* UpdateJobState: one UPDATE of the job row's status and current_stage.
UpdateJobState(j, st, sg) ==
  /\ status' = [status EXCEPT ![j] = st]
  /\ stage'  = [stage EXCEPT ![j] = sg]

-----------------------------------------------------------------------------
Init ==
  /\ status = [j \in Job |-> "pending"]
  /\ stage = [j \in Job |-> IF j \in Chapter THEN "segment_review" ELSE "media"]
  /\ done = [j \in Job |-> {}]
  /\ expired = {}
  /\ ready = <<>>
  /\ delayed = {}
  /\ dead = {}
  /\ lease = {}
  /\ pc = [w \in Worker |-> "idle"]
  /\ task = [w \in Worker |-> NoTask]
  /\ local = [w \in Worker |-> Blank]
  /\ batch = [w \in Worker |-> <<>>]
  /\ req = [r \in Request |-> [pc |-> "new", task |-> NoTask]]
  /\ failures = 0
  /\ crashes = 0
  /\ shutdowns = 0
  /\ lost = {}
  /\ overrun = {}

-----------------------------------------------------------------------------
(* The worker loop: promote due tasks, pop one, handle it.                 *)

\* ZRANGEBYSCORE: the worker reads a batch of due members, in score order.
\* Which members are due, and in which order, depends on clocks only.
ReadDue(w) ==
  /\ pc[w] = "idle"
  /\ Len(ready) < MaxReady
  /\ \E n \in 1..PromoteLimit : \E due \in [1..n -> delayed] :
       /\ \A a, b \in 1..n : due[a] = due[b] => a = b
       /\ batch' = [batch EXCEPT ![w] = due]
  /\ Goto(w, "promote")
  /\ UNCHANGED <<jobVars, redisVars, task, local, req, boundVars>>

\* Mutant: the members are pushed and never removed.
PromoteDue_NoZRem(w) ==
  /\ pc[w] = "promote"
  /\ ready' = ready \o batch[w]
  /\ batch' = [batch EXCEPT ![w] = <<>>]
  /\ Goto(w, "idle")
  /\ UNCHANGED <<jobVars, delayed, dead, lease, task, local, req, boundVars>>

\* MULTI ... RPUSH, ZREM ... EXEC: pushes whatever was read, also a member that
\* another worker has promoted in the meantime.
PromoteDue(w) ==
  /\ pc[w] = "promote"
  /\ ready' = ready \o batch[w]
  /\ delayed' = delayed \ {batch[w][i] : i \in DOMAIN batch[w]}
  /\ batch' = [batch EXCEPT ![w] = <<>>]
  /\ Goto(w, "idle")
  /\ UNCHANGED <<jobVars, dead, lease, task, local, req, boundVars>>

\* BLPOP removes the task: from here on only this worker knows of it.
Pop(w) ==
  /\ pc[w] = "idle"
  /\ ready # <<>>
  /\ task' = [task EXCEPT ![w] = Head(ready)]
  /\ ready' = Tail(ready)
  /\ Goto(w, "load")
  /\ UNCHANGED <<jobVars, delayed, dead, lease, local, batch, req, boundVars>>

\* What a worker's memory looks like once HandleTask has returned.
Idle(w) ==
  /\ Goto(w, "idle")
  /\ task' = [task EXCEPT ![w] = NoTask]
  /\ local' = [local EXCEPT ![w] = Blank]

-----------------------------------------------------------------------------
(* HandleTask up to the stage's own code.                                  *)

\* GetJob, then the deadline and cancellation checks on what was read.
LoadJob(w) ==
  LET j == task[w].job IN
  /\ pc[w] = "load"
  /\ \/ j \in expired /\ Goto(w, "expire")
     \/ j \notin expired /\ status[j] = "cancel_requested" /\ Goto(w, "cancel")
     \/ j \notin expired /\ status[j] # "cancel_requested" /\ Goto(w, "acquire")
  /\ UNCHANGED <<jobVars, redisVars, task, local, batch, req, boundVars>>

FailExpired(w) ==
  /\ pc[w] = "expire"
  /\ UpdateJobState(task[w].job, "timed_out", task[w].stage)
  /\ Idle(w)
  /\ UNCHANGED <<done, expired, redisVars, batch, req, boundVars>>

\* Mutant: the handler returns without writing the row.
DropCancelled_NoWrite(w) ==
  /\ pc[w] = "cancel"
  /\ Idle(w)
  /\ UNCHANGED <<jobVars, redisVars, batch, req, boundVars>>

DropCancelled(w) ==
  /\ pc[w] = "cancel"
  /\ UpdateJobState(task[w].job, "cancelled", task[w].stage)
  /\ Idle(w)
  /\ UNCHANGED <<done, expired, redisVars, batch, req, boundVars>>

\* Mutant: SET instead of SET NX.
AcquireStageLease_NoCheck(w) ==
  /\ pc[w] = "acquire"
  /\ lease' = lease \cup {Key(task[w])}
  /\ Goto(w, "mark")
  /\ UNCHANGED <<jobVars, ready, delayed, dead, task, local, batch, req, boundVars>>

\* SET NX: succeeds when the key does not exist.
AcquireStageLease(w) ==
  /\ pc[w] = "acquire"
  /\ Key(task[w]) \notin lease
  /\ lease' = lease \cup {Key(task[w])}
  /\ Goto(w, "mark")
  /\ UNCHANGED <<jobVars, ready, delayed, dead, task, local, batch, req, boundVars>>

\* Mutant: a task that finds its stage busy is taken for a duplicate.
RequeueBusy_Drop(w) ==
  /\ pc[w] = "acquire"
  /\ Key(task[w]) \in lease
  /\ Idle(w)
  /\ UNCHANGED <<jobVars, redisVars, batch, req, boundVars>>

\* Mutant: the release is deferred before the lease is known to be ours.
RequeueBusy_Releases(w) ==
  /\ pc[w] = "acquire"
  /\ Key(task[w]) \in lease
  /\ delayed' = delayed \cup {task[w]}
  /\ lease' = lease \ {Key(task[w])}
  /\ Idle(w)
  /\ UNCHANGED <<jobVars, ready, dead, batch, req, boundVars>>

\* The lease is taken: the same payload goes to the delayed set for a minute.
RequeueBusy(w) ==
  /\ pc[w] = "acquire"
  /\ Key(task[w]) \in lease
  /\ delayed' = delayed \cup {task[w]}
  /\ Idle(w)
  /\ UNCHANGED <<jobVars, ready, dead, lease, batch, req, boundVars>>

\* The row becomes running whatever it was; a running stage_run row is added.
MarkRunning(w) ==
  /\ pc[w] = "mark"
  /\ UpdateJobState(task[w].job, "running", task[w].stage)
  /\ Goto(w, "begin")
  /\ UNCHANGED <<done, expired, redisVars, task, local, batch, req, boundVars>>

\* runSeparate and runMerge keep the whole row they read when they start.
BeginStage(w) ==
  LET j == task[w].job IN
  /\ pc[w] = "begin"
  /\ IF task[w].stage \in {"separate", "merge"}
       THEN local' = [local EXCEPT ![w] = [status |-> status[j], stage |-> stage[j]]]
       ELSE UNCHANGED local
  /\ Goto(w, "run")
  /\ UNCHANGED <<jobVars, redisVars, task, batch, req, boundVars>>

-----------------------------------------------------------------------------
(* The stages, as far as they touch the job row or fail.                   *)

\* SaveJob at the end of runSeparate and runMerge writes every column back.
SaveJob(w) ==
  /\ pc[w] = "run"
  /\ task[w].stage \in {"separate", "merge"}
  /\ UpdateJobState(task[w].job, local[w].status, local[w].stage)
  /\ Goto(w, "finish")
  /\ UNCHANGED <<done, expired, redisVars, task, local, batch, req, boundVars>>

\* runASRSmart parks the first chapter of a long video.
ParkForChapterize(w) ==
  /\ pc[w] = "run"
  /\ task[w].stage = "asr_smart"
  /\ task[w].job \in Long
  /\ UpdateJobState(task[w].job, "awaiting_chapterize", "asr_smart")
  /\ Goto(w, "finish")
  /\ UNCHANGED <<done, expired, redisVars, task, local, batch, req, boundVars>>

\* runSegmentReview parks a job that needs a human.
ParkForReview(w) ==
  /\ pc[w] = "run"
  /\ task[w].stage = "segment_review"
  /\ task[w].job \in Gated
  /\ UpdateJobState(task[w].job, "awaiting_review", "segment_review")
  /\ Goto(w, "finish")
  /\ UNCHANGED <<done, expired, redisVars, task, local, batch, req, boundVars>>

\* Every other success leaves the job row's status alone.
StageReturns(w) ==
  /\ pc[w] = "run"
  /\ task[w].stage \notin {"separate", "merge"}
  /\ task[w].stage = "asr_smart" => task[w].job \notin Long
  /\ task[w].stage = "segment_review" => task[w].job \notin Gated
  /\ Goto(w, "finish")
  /\ UNCHANGED <<jobVars, redisVars, task, local, batch, req, boundVars>>

\* The stage returns an error, or its context hits the stage timeout.
StageFails(w) ==
  /\ pc[w] = "run"
  /\ failures < MaxFailures
  /\ failures' = failures + 1
  /\ \E final \in {"failed", "timed_out"} :
       local' = [local EXCEPT ![w] = [Blank EXCEPT !.status = final]]
  /\ Goto(w, "failed")
  /\ UNCHANGED <<jobVars, redisVars, task, batch, req, crashes, shutdowns, lost, overrun>>

\* runTTSDuration looks for a cancel request before every segment.
CancelGate(w) ==
  /\ pc[w] = "run"
  /\ task[w].stage = "tts_duration"
  /\ status[task[w].job] = "cancel_requested"
  /\ local' = [local EXCEPT ![w] = [Blank EXCEPT !.status = "failed"]]
  /\ Goto(w, "failed")
  /\ UNCHANGED <<jobVars, redisVars, task, batch, req, boundVars>>

\* runTTSDuration refreshes the lease around every segment: EXPIRE keeps an
\* existing key, and a key that has expired is set again. A worker that is
\* alone inside is protected again from then on.
RefreshLease(w) ==
  /\ pc[w] = "run"
  /\ task[w].stage = "tts_duration"
  /\ Key(task[w]) \notin lease
  /\ lease' = lease \cup {Key(task[w])}
  /\ overrun' = OverrunWithout(w) \cup (overrun \ {Key(task[w])})
  /\ UNCHANGED <<jobVars, ready, delayed, dead, workerVars, req, failures, crashes,
                 shutdowns, lost>>

-----------------------------------------------------------------------------
(* HandleTask after a failed stage.                                        *)

\* IsCancelRequested decides whether the failure counts as a cancellation.
CheckCancel(w) ==
  /\ pc[w] = "failed"
  /\ IF status[task[w].job] = "cancel_requested"
       THEN local' = [local EXCEPT ![w].status = "cancelled"]
       ELSE UNCHANGED local
  /\ Goto(w, "settle")
  /\ UNCHANGED <<jobVars, redisVars, task, batch, req, boundVars>>

\* handleStageFailure, the status it writes: cancelled, queued for a retry, or
\* the final status once the attempts are used up.
SettleCancelled(w) ==
  /\ pc[w] = "settle"
  /\ local[w].status = "cancelled"
  /\ UpdateJobState(task[w].job, "cancelled", task[w].stage)
  /\ Goto(w, "release")
  /\ UNCHANGED <<done, expired, redisVars, task, local, batch, req, boundVars>>

\* Mutant: one attempt too many.
MayRetry_Again(t) == t.attempt <= MaxRetries

MayRetry(t) == t.attempt < MaxRetries

SettleRetry(w) ==
  /\ pc[w] = "settle"
  /\ local[w].status # "cancelled"
  /\ MayRetry(task[w])
  /\ UpdateJobState(task[w].job, "queued", task[w].stage)
  /\ Goto(w, "backoff")
  /\ UNCHANGED <<done, expired, redisVars, task, local, batch, req, boundVars>>

SettleFinal(w) ==
  /\ pc[w] = "settle"
  /\ local[w].status # "cancelled"
  /\ ~MayRetry(task[w])
  /\ UpdateJobState(task[w].job, local[w].status, task[w].stage)
  /\ Goto(w, "bury")
  /\ UNCHANGED <<done, expired, redisVars, task, local, batch, req, boundVars>>

\* Mutant: the row says queued and the next attempt is never enqueued.
Backoff_Drop(w) ==
  /\ pc[w] = "backoff"
  /\ Goto(w, "release")
  /\ UNCHANGED <<jobVars, redisVars, task, local, batch, req, boundVars>>

\* EnqueueWithDelay of the next attempt.
Backoff(w) ==
  /\ pc[w] = "backoff"
  /\ delayed' = delayed \cup {[task[w] EXCEPT !.attempt = @ + 1]}
  /\ Goto(w, "release")
  /\ UNCHANGED <<jobVars, ready, dead, lease, task, local, batch, req, boundVars>>

\* Mutant: nothing is pushed to the dead-letter list.
Bury_Skip(w) ==
  /\ pc[w] = "bury"
  /\ Goto(w, "release")
  /\ UNCHANGED <<jobVars, redisVars, task, local, batch, req, boundVars>>

\* EnqueueDeadLetter.
Bury(w) ==
  /\ pc[w] = "bury"
  /\ dead' = dead \cup {task[w]}
  /\ Goto(w, "release")
  /\ UNCHANGED <<jobVars, ready, delayed, lease, task, local, batch, req, boundVars>>

-----------------------------------------------------------------------------
(* HandleTask after a successful stage.                                    *)

\* Mutant: the stage run is left open and HandleTask goes on.
FinishStageRun_Ignored(w) ==
  LET t == task[w] IN
  /\ pc[w] = "finish"
  /\ \/ (NextOf(t.stage) = {} \/ t.skip) /\ Goto(w, "complete")
     \/ NextOf(t.stage) # {} /\ ~t.skip /\ Goto(w, "refresh")
  /\ UNCHANGED <<jobVars, redisVars, task, local, batch, req, boundVars>>

\* FinishStageRun; the stage.completed webhook follows, an HTTP call.
FinishStageRun(w) ==
  LET t == task[w] IN
  /\ pc[w] = "finish"
  /\ done' = [done EXCEPT ![t.job] = @ \cup {t.stage}]
  /\ \/ (NextOf(t.stage) = {} \/ t.skip) /\ Goto(w, "complete")
     \/ NextOf(t.stage) # {} /\ ~t.skip /\ Goto(w, "refresh")
  /\ UNCHANGED <<status, stage, expired, redisVars, task, local, batch, req, boundVars>>

CompleteJob(w) ==
  /\ pc[w] = "complete"
  /\ UpdateJobState(task[w].job, "completed", task[w].stage)
  /\ Goto(w, "release")
  /\ UNCHANGED <<done, expired, redisVars, task, local, batch, req, boundVars>>

\* The refreshed row says whether another agent owns the next move.
RefreshJob(w) ==
  /\ pc[w] = "refresh"
  /\ \/ status[task[w].job] \in ParkedStatus /\ Goto(w, "release")
     \/ status[task[w].job] \notin ParkedStatus /\ Goto(w, "advance")
  /\ UNCHANGED <<jobVars, redisVars, task, local, batch, req, boundVars>>

\* EnqueueStage of the next stage: the row first, then the list.
Advance(w) ==
  /\ pc[w] = "advance"
  /\ \E s \in NextOf(task[w].stage) : UpdateJobState(task[w].job, "queued", s)
  /\ Goto(w, "push")
  /\ UNCHANGED <<done, expired, redisVars, task, local, batch, req, boundVars>>

\* Mutant: the next stage is derived from the row that was just advanced.
PushNext_FromRow(w) ==
  /\ pc[w] = "push"
  /\ \E s \in NextOf(stage[task[w].job]) :
       ready' = Append(ready, NewTask(task[w].job, s, FALSE, "pipeline"))
  /\ Goto(w, "release")
  /\ UNCHANGED <<jobVars, delayed, dead, lease, task, local, batch, req, boundVars>>

PushNext(w) ==
  /\ pc[w] = "push"
  /\ \E s \in NextOf(task[w].stage) :
       ready' = Append(ready, NewTask(task[w].job, s, FALSE, "pipeline"))
  /\ Goto(w, "release")
  /\ UNCHANGED <<jobVars, delayed, dead, lease, task, local, batch, req, boundVars>>

\* The deferred ReleaseStageLease deletes the key, whoever set it.
ReleaseStageLease(w) ==
  /\ pc[w] = "release"
  /\ lease' = lease \ {Key(task[w])}
  /\ overrun' = OverrunWithout(w)
  /\ Idle(w)
  /\ UNCHANGED <<jobVars, ready, delayed, dead, batch, req, failures, crashes,
                 shutdowns, lost>>

-----------------------------------------------------------------------------
(* The environment of the workers.                                         *)

\* A worker is gone in the middle of its loop, and so is what it held: a popped
\* task exists nowhere else. Another process takes its place.
Vanish(w) ==
  /\ pc[w] # "idle"
  /\ lost' = lost \cup (IF pc[w] \in Owing THEN {task[w].job} ELSE {})
  /\ overrun' = OverrunWithout(w)
  /\ batch' = [batch EXCEPT ![w] = <<>>]
  /\ Idle(w)
  /\ UNCHANGED <<jobVars, ready, delayed, dead, req, failures>>

\* The process is killed: its lease key stays until the TTL runs out.
Crash(w) ==
  /\ crashes < MaxCrashes
  /\ crashes' = crashes + 1
  /\ Vanish(w)
  /\ UNCHANGED <<lease, shutdowns>>

\* Mutant: the deferred release uses the cancelled context.
Shutdown_KeepsLease(w) ==
  /\ shutdowns < MaxShutdowns
  /\ shutdowns' = shutdowns + 1
  /\ Vanish(w)
  /\ UNCHANGED <<lease, crashes>>

\* SIGTERM cancels rootCtx: the next database or Redis call fails, HandleTask
\* returns its error, and the deferred release, which has a context of its own,
\* deletes the lease. A call that fails for another reason does the same.
Shutdown(w) ==
  /\ shutdowns < MaxShutdowns
  /\ shutdowns' = shutdowns + 1
  /\ lease' = lease \ (IF pc[w] \in Leasing THEN {Key(task[w])} ELSE {})
  /\ Vanish(w)
  /\ UNCHANGED crashes

\* Redis drops a lease key at the end of its TTL, also under a worker that is
\* still inside: a stage may run for longer than the TTL, and only tts_duration
\* refreshes its key.
LeaseExpires(k) ==
  /\ k \in lease
  /\ lease' = lease \ {k}
  /\ overrun' = overrun \cup (IF \E w \in Worker : Holds(w, k) THEN {k} ELSE {})
  /\ UNCHANGED <<jobVars, ready, delayed, dead, workerVars, req, failures, crashes,
                 shutdowns, lost>>

DeadlinePasses(j) ==
  /\ j \in Hurried \ expired
  /\ expired' = expired \cup {j}
  /\ UNCHANGED <<status, stage, done, redisVars, workerVars, req, boundVars>>

-----------------------------------------------------------------------------
(* Requests: the API handlers and the other callers of EnqueueStage.       *)

\* The checks of a request have passed; t is the task it is going to enqueue.
Accept(r, op, t) ==
  /\ op \in Ops
  /\ req[r].pc = "new"
  /\ req' = [req EXCEPT ![r] = [pc |-> "write", task |-> t]]
  /\ UNCHANGED <<jobVars, redisVars, workerVars, boundVars>>

\* StartJob does not look at the job's state.
StartJob(r, j) == Accept(r, "start", NewTask(j, "media", FALSE, "request"))

\* RetryJobWithAdvance with the stage the user names ...
RetryJob(r, j) ==
  \E s \in RetryStage, advance \in BOOLEAN :
    Accept(r, "retry", NewTask(j, s, ~advance, "request"))

\* ... or, when the request names none, the stage the row shows.
RetryCurrentStage(r, j) ==
  \E advance \in BOOLEAN :
    Accept(r, "retry_current", NewTask(j, stage[j], ~advance, "request"))

ConfirmSegmentation(r, j) ==
  /\ status[j] = "awaiting_review"
  /\ Accept(r, "confirm", NewTask(j, "translate", FALSE, "request"))

RetryASR(r, j) ==
  /\ status[j] = "awaiting_review"
  /\ Accept(r, "retry_asr", NewTask(j, "asr_smart", FALSE, "request"))

\* ep_chapterize resumes a parked first chapter, or dispatches a new sibling.
ResumeChapter(r, j) ==
  /\ \/ status[j] = "awaiting_chapterize"
     \/ status[j] = "pending" /\ j \in Chapter
  /\ Accept(r, "resume", NewTask(j, "segment_review", FALSE, "request"))

\* EnqueueStage, first the row ...
WriteQueued(r) ==
  /\ req[r].pc = "write"
  /\ UpdateJobState(req[r].task.job, "queued", req[r].task.stage)
  /\ req' = [req EXCEPT ![r].pc = "push"]
  /\ UNCHANGED <<done, expired, redisVars, workerVars, boundVars>>

\* ... then the list.
PushTask(r) ==
  /\ req[r].pc = "push"
  /\ ready' = Append(ready, req[r].task)
  /\ req' = [req EXCEPT ![r] = [pc |-> "done", task |-> NoTask]]
  /\ UNCHANGED <<jobVars, delayed, dead, lease, workerVars, boundVars>>

\* The client disconnects (the handlers use its context) or the API stops.
AbortRequest(r) ==
  /\ req[r].pc \in {"write", "push"}
  /\ crashes < MaxCrashes
  /\ crashes' = crashes + 1
  /\ lost' = lost \cup (IF req[r].pc = "push" THEN {req[r].task.job} ELSE {})
  /\ req' = [req EXCEPT ![r] = [pc |-> "done", task |-> NoTask]]
  /\ UNCHANGED <<jobVars, redisVars, workerVars, failures, shutdowns, overrun>>

\* RequestJobCancel: one UPDATE, whatever the status was.
CancelJob(r, j) ==
  /\ "cancel" \in Ops
  /\ req[r].pc = "new"
  /\ status' = [status EXCEPT ![j] = "cancel_requested"]
  /\ req' = [req EXCEPT ![r].pc = "done"]
  /\ UNCHANGED <<stage, done, expired, redisVars, workerVars, boundVars>>

-----------------------------------------------------------------------------
\* A segment's lease refresh does not bring the stage any closer to its end.
HandleTask(w) ==
  \/ LoadJob(w) \/ FailExpired(w) \/ DropCancelled(w)
  \/ AcquireStageLease(w) \/ RequeueBusy(w) \/ MarkRunning(w) \/ BeginStage(w)
  \/ SaveJob(w) \/ ParkForChapterize(w) \/ ParkForReview(w) \/ StageReturns(w)
  \/ StageFails(w) \/ CancelGate(w)
  \/ CheckCancel(w) \/ SettleCancelled(w) \/ SettleRetry(w) \/ SettleFinal(w)
  \/ Backoff(w) \/ Bury(w)
  \/ FinishStageRun(w) \/ CompleteJob(w) \/ RefreshJob(w) \/ Advance(w)
  \/ PushNext(w) \/ ReleaseStageLease(w)

WorkerLoop(w) == ReadDue(w) \/ PromoteDue(w) \/ Pop(w) \/ HandleTask(w)

EnqueueStage(r) == WriteQueued(r) \/ PushTask(r)

Ask(r) ==
  \E j \in Job : \/ StartJob(r, j) \/ RetryJob(r, j) \/ RetryCurrentStage(r, j)
                 \/ ConfirmSegmentation(r, j) \/ RetryASR(r, j)
                 \/ ResumeChapter(r, j) \/ CancelJob(r, j)

Next ==
  \/ \E w \in Worker : WorkerLoop(w) \/ RefreshLease(w) \/ Crash(w) \/ Shutdown(w)
  \/ \E r \in Request : Ask(r) \/ EnqueueStage(r) \/ AbortRequest(r)
  \/ \E k \in Job \X JobStage : LeaseExpires(k)
  \/ \E j \in Job : DeadlinePasses(j)

Spec == Init /\ [][Next]_vars

\* A worker keeps making its next call, an accepted request makes its two, and
\* Redis drops an expired key. Nobody has to ask for anything, no stage has to
\* fail, and no clock has to pass a deadline.
Fairness ==
  /\ \A w \in Worker : WF_vars(WorkerLoop(w))
  /\ WF_vars(\E r \in Request : EnqueueStage(r))
  /\ WF_vars(\E k \in Job \X JobStage : LeaseExpires(k))

FairSpec == Spec /\ Fairness

-----------------------------------------------------------------------------
(* Properties.                                                             *)

JobsOK ==
  /\ status \in [Job -> JobStatus]
  /\ stage \in [Job -> JobStage]
  /\ done \in [Job -> SUBSET JobStage]
  /\ expired \subseteq Job

RedisOK ==
  /\ ready \in Seq(Task)
  /\ delayed \subseteq Task
  /\ dead \subseteq Task
  /\ lease \subseteq Job \X JobStage

WorkersOK ==
  /\ pc \in [Worker -> {"idle", "promote"} \cup Carrying]
  /\ task \in [Worker -> Task \cup {NoTask}]
  /\ \A w \in Worker : pc[w] \in Carrying => task[w] \in Task
  /\ local \in [Worker -> [status : JobStatus, stage : JobStage]]
  /\ batch \in [Worker -> Seq(Task)]

RequestsOK ==
  req \in [Request -> [pc : {"new", "done"}, task : {NoTask}]
                       \cup [pc : {"write", "push"}, task : Task]]

BoundsOK ==
  /\ failures \in 0..MaxFailures
  /\ crashes \in 0..MaxCrashes
  /\ shutdowns \in 0..MaxShutdowns
  /\ lost \subseteq Job
  /\ overrun \subseteq Job \X JobStage

\* Every variable keeps its type: in particular no task exceeds MaxRetries
\* attempts anywhere, and a worker past its pop holds a task.
TypeOK == JobsOK /\ RedisOK /\ WorkersOK /\ RequestsOK /\ BoundsOK

\* Two workers are in the leased part of HandleTask with the same key.
Together(w1, w2) ==
  /\ w1 # w2
  /\ pc[w1] \in Leasing
  /\ pc[w2] \in Leasing
  /\ Key(task[w1]) = Key(task[w2])

\* Stage exclusion: the lease keeps two workers from executing the same stage
\* of the same job at the same time (HandleTask's AcquireStageLease). A key
\* that runs out under its holder lets others in, and each of them deletes the
\* key of the next; the exclusion is back once all of them have left, or once
\* a tts_duration worker that is alone again has refreshed its key.
StageExclusion ==
  \A w1, w2 \in Worker : Together(w1, w2) => Key(task[w1]) \in overrun

\* Never two workers in one stage of one job, as tech.md promises ("Each stage
\* is a discrete queue task with lease-based mutual exclusion"): a stage that
\* outlasts its lease breaks it.
MutualExclusion == \A w1, w2 \in Worker : ~Together(w1, w2)

\* Somebody still has a task of job j: it is in a queue, in the hands of a
\* worker that will pass it on or settle the job, or about to be pushed.
InReady(j) == \E i \in DOMAIN ready : ready[i].job = j
InDelayed(j) == \E t \in delayed : t.job = j
InHand(j) == \E w \in Worker : pc[w] \in Responsible /\ task[w].job = j
InRequest(j) == \E r \in Request : req[r].pc = "push" /\ req[r].task.job = j
HasTask(j) == InReady(j) \/ InDelayed(j) \/ InHand(j) \/ InRequest(j)

\* No stranded job: a job whose row says queued or running has a task, unless
\* a crash took it. Overwritten rows, busy leases, duplicate promotions, lost
\* leases and cancellations must never break this.
NoStrandedJob ==
  \A j \in Job : status[j] \in BusyStatus => HasTask(j) \/ j \in lost

\* A failed job is on the dead-letter list, or the worker that failed it is
\* about to put it there (handleStageFailure writes the row first).
FailureIsBuried ==
  \A j \in Job : status[j] = "failed" =>
    \/ \E t \in dead : t.job = j
    \/ \E w \in Worker : pc[w] = "bury" /\ task[w].job = j
    \/ j \in lost

\* Leases do not leak: as long as no worker is killed, a lease key exists only
\* while some worker is inside the lease-protected part of HandleTask with that
\* key. A shutdown is no excuse: the deferred release has its own context.
NoLeakedLease ==
  crashes = 0 => \A k \in lease : \E w \in Worker : Holds(w, k)

\* Tasks that exist: queued, delayed, read for promotion, or held by a worker.
LiveTasks ==
  {ready[i] : i \in DOMAIN ready} \cup delayed
    \cup {task[w] : w \in {v \in Worker : pc[v] \in Carrying}}

\* HandleTask advances a job only from a stage with a completed run: whatever
\* is retried, duplicated or delayed, no stage is skipped by auto-advance.
AdvanceFollowsCompletion ==
  \A t \in LiveTasks : t.by = "pipeline" =>
    \E s \in done[t.job] : t.stage \in NextOf(s)

\* A completed row names a stage that has completed: neither a stale SaveJob nor
\* a second task of the job makes the row claim a stage that never finished.
CompletedMeansDone ==
  \A j \in Job : status[j] = "completed" => stage[j] \in done[j]

\* HandleTask's use of the lease implements StageLock: who is inside, which keys
\* a crash has left behind, and which have run out under a holder.
HeldLeases == {<<w, Key(task[w])>> : w \in {v \in Worker : pc[v] \in Leasing}}
OrphanLeases == {k \in lease : \A w \in Worker : ~Holds(w, k)}
Lock == INSTANCE StageLock WITH
  StageKey <- Job \X JobStage, held <- HeldLeases, orphan <- OrphanLeases,
  open <- overrun
ImplementsStageLock == Lock!Spec

\* A request to cancel is not forgotten: once a row says cancel_requested, only
\* a new request or the end of the job changes that. This is what openapi.yaml
\* promises ("Request cooperative cancellation"); the code does not keep it.
CancelSticks ==
  [][\A j \in Job : status[j] = "cancel_requested" =>
       \/ status'[j] \in {"cancel_requested"} \cup TerminalStatus
       \/ req' # req]_vars

\* A shutdown drains the work in flight: it leaves no job running without a
\* task, as the comment on rootCtx in cmd/worker/main.go says.
ShutdownDrains ==
  crashes = 0 => \A j \in Job : status[j] \in BusyStatus => HasTask(j)

\* A job does not stay queued or running for ever, unless a crash or a shutdown
\* took its task: retries end, busy leases are given up, parked is settled.
JobSettles ==
  \A j \in Job : status[j] \in BusyStatus ~> (status[j] \notin BusyStatus \/ j \in lost)

\* A cancelled job with a task in a queue does not stay cancel_requested: the
\* task carries it to the check in HandleTask.
CancelSettles ==
  \A j \in Job :
    /\ status[j] = "cancel_requested"
    /\ \E t \in delayed \cup {ready[i] : i \in DOMAIN ready} : t.job = j
    ~> status[j] # "cancel_requested" \/ j \in lost

\* In the end all queues are empty, every worker waits for work and no lease is
\* left: a task requeued for a busy stage does not circulate for ever.
QueueDrains ==
  <>[](/\ ready = <<>> /\ delayed = {} /\ lease = {}
       /\ \A w \in Worker : pc[w] = "idle")
=============================================================================
