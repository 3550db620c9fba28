------------------------- MODULE JobPipelineProofs -------------------------
(***************************************************************************)
(* Proofs about JobPipeline, for any number of workers, jobs and requests  *)
(* and any values of the bounds.                                           *)
(***************************************************************************)
EXTENDS JobPipeline, SequenceTheorems, TLAPS

-----------------------------------------------------------------------------
(* Type correctness.                                                       *)

\* The value domains of HoloTypes: a successor of a stage is a stage.
LEMMA NextIsStage == \A s \in JobStage : NextOf(s) \subseteq JobStage
  BY SMT DEF NextOf, StageOrder, JobStage

\* A task built for a stage of a job is a task.
LEMMA NewTaskIsTask ==
  ASSUME NEW j \in Job, NEW s \in JobStage, NEW skip \in BOOLEAN,
         NEW by \in {"request", "pipeline"}
  PROVE  NewTask(j, s, skip, by) \in Task
  BY ConstantsAssumption DEF NewTask, Task

\* The initial state has the types.
LEMMA TypeInit == Init => TypeOK
  BY ConstantsAssumption DEF Init, TypeOK, JobsOK, RedisOK, WorkersOK, RequestsOK,
     BoundsOK, Blank, JobStatus, JobStage, Carrying, Leasing

Note == [status : JobStatus, stage : JobStage]

\* A group of variables that a step leaves alone keeps its types.
LEMMA Frame ==
  ASSUME TypeOK
  PROVE  /\ UNCHANGED jobVars => JobsOK'
         /\ UNCHANGED redisVars => RedisOK'
         /\ UNCHANGED workerVars => WorkersOK'
         /\ UNCHANGED req => RequestsOK'
         /\ UNCHANGED boundVars => BoundsOK'
  <1>1. UNCHANGED jobVars => JobsOK'  BY DEF TypeOK, JobsOK, jobVars
  <1>2. UNCHANGED redisVars => RedisOK'  BY DEF TypeOK, RedisOK, redisVars
  <1>3. UNCHANGED workerVars => WorkersOK'  BY DEF TypeOK, WorkersOK, workerVars
  <1>4. UNCHANGED req => RequestsOK'  BY DEF TypeOK, RequestsOK
  <1>5. UNCHANGED boundVars => BoundsOK'  BY DEF TypeOK, BoundsOK, boundVars
  <1> QED  BY <1>1, <1>2, <1>3, <1>4, <1>5

\* A worker makes its next call and keeps what it holds.
LEMMA MoveOK ==
  ASSUME WorkersOK, NEW w \in Worker, NEW label \in Carrying,
         pc[w] \in Carrying, Goto(w, label), UNCHANGED <<task, local, batch>>
  PROVE  WorkersOK'
  BY DEF WorkersOK, Goto

\* The same, and it notes a status and a stage in its memory.
LEMMA NoteOK ==
  ASSUME WorkersOK, NEW w \in Worker, NEW label \in Carrying, NEW note \in Note,
         pc[w] \in Carrying, Goto(w, label), UNCHANGED <<task, batch>>,
         local' = [local EXCEPT ![w] = note]
  PROVE  WorkersOK'
  BY DEF WorkersOK, Goto, Note

\* HandleTask returns.
LEMMA IdleOK ==
  ASSUME WorkersOK, NEW w \in Worker, Idle(w),
         \/ UNCHANGED batch
         \/ batch' = [batch EXCEPT ![w] = <<>>]
  PROVE  WorkersOK'
  <1>1. pc' \in [Worker -> {"idle", "promote"} \cup Carrying]
    BY DEF WorkersOK, Goto, Idle
  <1>2. task' \in [Worker -> Task \cup {NoTask}]
    BY DEF WorkersOK, Idle
  <1>3. \A v \in Worker : pc'[v] \in Carrying => task'[v] \in Task
    BY DEF WorkersOK, Goto, Idle, Carrying, Leasing
  <1>4. Blank \in [status : JobStatus, stage : JobStage]
    BY DEF Blank, JobStatus, JobStage
  <1>5. local' \in [Worker -> [status : JobStatus, stage : JobStage]]
    BY <1>4 DEF WorkersOK, Idle
  <1>6. <<>> \in Seq(Task)
    OBVIOUS
  <1>7. batch' \in [Worker -> Seq(Task)]
    BY <1>6 DEF WorkersOK
  <1> QED  BY <1>1, <1>2, <1>3, <1>5, <1>7 DEF WorkersOK

\* One UPDATE of a job row.
LEMMA RowOK ==
  ASSUME JobsOK, NEW j \in Job, NEW st \in JobStatus, NEW sg \in JobStage,
         UpdateJobState(j, st, sg), UNCHANGED <<done, expired>>
  PROVE  JobsOK'
  BY DEF JobsOK, UpdateJobState

\* A stage lease is set or deleted.
LEMMA LeaseOK ==
  ASSUME RedisOK, NEW k, lease' \subseteq lease \cup {k}, k \in Job \X JobStage,
         UNCHANGED <<ready, delayed, dead>>
  PROVE  RedisOK'
  BY DEF RedisOK

\* What a worker that carries a task knows about it.
LEMMA CarriedTask ==
  ASSUME WorkersOK, NEW w \in Worker, pc[w] \in Carrying
  PROVE  /\ task[w] \in Task
         /\ task[w].job \in Job
         /\ task[w].stage \in JobStage
         /\ task[w].attempt \in 0..MaxRetries
         /\ task[w].skip \in BOOLEAN
         /\ local[w] \in Note
         /\ Key(task[w]) \in Job \X JobStage
  BY DEF WorkersOK, Task, Key, Note

\* A worker schedules a retry only while the task has attempts left.
AttemptsLeft == \A w \in Worker : pc[w] = "backoff" => MayRetry(task[w])

TypeInv == TypeOK /\ AttemptsLeft

\* The steps of the worker loop up to the stage keep the types.
LEMMA TypeBeforeStage ==
  ASSUME TypeInv, NEW w \in Worker,
         \/ ReadDue(w) \/ PromoteDue(w) \/ Pop(w) \/ LoadJob(w) \/ FailExpired(w)
         \/ DropCancelled(w) \/ AcquireStageLease(w) \/ RequeueBusy(w)
         \/ MarkRunning(w) \/ BeginStage(w)
  PROVE  TypeOK'
  <1> USE DEF TypeInv, TypeOK
  <1>1. CASE ReadDue(w)
    <2>1. \A n \in 1..PromoteLimit : [1..n -> delayed] \subseteq Seq(Task)
      BY ConstantsAssumption DEF RedisOK
    <2>2. PICK due \in Seq(Task) : batch' = [batch EXCEPT ![w] = due]
      BY <1>1, <2>1 DEF ReadDue
    <2>3. WorkersOK'
      BY <1>1, <2>2 DEF WorkersOK, ReadDue, Goto, Carrying, Leasing
    <2> QED  BY <1>1, <2>3, Frame DEF ReadDue
  <1>2. CASE PromoteDue(w)
    <2>1. batch[w] \in Seq(Task) /\ ready \in Seq(Task)
      BY DEF WorkersOK, RedisOK
    <2>2. ready \o batch[w] \in Seq(Task)
      BY <2>1
    <2>3. RedisOK'
      BY <1>2, <2>2 DEF RedisOK, PromoteDue
    <2>4. <<>> \in Seq(Task)
      OBVIOUS
    <2>5. WorkersOK'
      BY <1>2, <2>4 DEF WorkersOK, PromoteDue, Goto, Carrying, Leasing
    <2> QED  BY <1>2, <2>3, <2>5, Frame DEF PromoteDue
  <1>3. CASE Pop(w)
    <2>1. Head(ready) \in Task /\ Tail(ready) \in Seq(Task)
      BY <1>3 DEF Pop, RedisOK
    <2>2. RedisOK'
      BY <1>3, <2>1 DEF RedisOK, Pop
    <2>3. WorkersOK'
      BY <1>3, <2>1 DEF WorkersOK, Pop, Goto, Carrying
    <2> QED  BY <1>3, <2>2, <2>3, Frame DEF Pop
  <1>4. CASE LoadJob(w)
    BY <1>4, MoveOK, Frame DEF LoadJob, Carrying
  <1>5. CASE FailExpired(w)
    BY <1>5, IdleOK, RowOK, CarriedTask, Frame DEF FailExpired, Carrying, JobStatus
  <1>6. CASE DropCancelled(w)
    BY <1>6, IdleOK, RowOK, CarriedTask, Frame DEF DropCancelled, Carrying, JobStatus
  <1>7. CASE AcquireStageLease(w)
    BY <1>7, MoveOK, LeaseOK, CarriedTask, Frame DEF AcquireStageLease, Carrying, Leasing
  <1>8. CASE RequeueBusy(w)
    <2>1. RedisOK'
      BY <1>8, CarriedTask DEF RedisOK, RequeueBusy, Carrying
    <2> QED  BY <1>8, <2>1, IdleOK, Frame DEF RequeueBusy
  <1>9. CASE MarkRunning(w)
    BY <1>9, MoveOK, RowOK, CarriedTask, Frame DEF MarkRunning, Carrying, Leasing, JobStatus
  <1>10. CASE BeginStage(w)
    <2>1. [status |-> status[task[w].job], stage |-> stage[task[w].job]] \in Note
      BY <1>10, CarriedTask DEF JobsOK, Note, BeginStage, Carrying, Leasing
    <2> QED
      BY <1>10, <2>1, MoveOK, NoteOK, Frame DEF BeginStage, Carrying, Leasing
  <1> QED
    BY <1>1, <1>2, <1>3, <1>4, <1>5, <1>6, <1>7, <1>8, <1>9, <1>10

\* The stages and the failure path keep the types.
LEMMA TypeStageAndFailure ==
  ASSUME TypeInv, NEW w \in Worker,
         \/ SaveJob(w) \/ ParkForChapterize(w) \/ ParkForReview(w) \/ StageReturns(w)
         \/ StageFails(w) \/ CancelGate(w) \/ RefreshLease(w) \/ CheckCancel(w)
         \/ SettleCancelled(w) \/ SettleRetry(w) \/ SettleFinal(w) \/ Backoff(w)
         \/ Bury(w)
  PROVE  TypeOK'
  <1> USE DEF TypeInv, TypeOK
  <1>1. CASE SaveJob(w)
    BY <1>1, MoveOK, RowOK, CarriedTask, Frame DEF SaveJob, Carrying, Leasing, Note
  <1>2. CASE ParkForChapterize(w)
    BY <1>2, MoveOK, RowOK, CarriedTask, Frame
    DEF ParkForChapterize, Carrying, Leasing, JobStatus, JobStage
  <1>3. CASE ParkForReview(w)
    BY <1>3, MoveOK, RowOK, CarriedTask, Frame
    DEF ParkForReview, Carrying, Leasing, JobStatus, JobStage
  <1>4. CASE StageReturns(w)
    BY <1>4, MoveOK, Frame DEF StageReturns, Carrying, Leasing
  <1>5. \A st \in JobStatus : [Blank EXCEPT !.status = st] \in Note
    BY DEF Blank, Note, JobStage
  <1>6. CASE StageFails(w)
    <2>1. BoundsOK'
      BY <1>6, ConstantsAssumption DEF BoundsOK, StageFails
    <2> QED
      BY <1>5, <1>6, <2>1, NoteOK, Frame DEF StageFails, Carrying, Leasing, JobStatus
  <1>7. CASE CancelGate(w)
    BY <1>5, <1>7, NoteOK, Frame DEF CancelGate, Carrying, Leasing, JobStatus
  <1>8. CASE RefreshLease(w)
    <2>1. BoundsOK'
      BY <1>8 DEF RefreshLease, BoundsOK, OverrunWithout
    <2> QED
      BY <1>8, <2>1, LeaseOK, CarriedTask, Frame DEF RefreshLease, Carrying, Leasing
  <1>9. CASE CheckCancel(w)
    <2>1. [local[w] EXCEPT !.status = "cancelled"] \in Note
      BY <1>9, CarriedTask DEF CheckCancel, Note, JobStatus, Carrying, Leasing
    <2>2. \/ UNCHANGED local
          \/ local' = [local EXCEPT ![w] = [local[w] EXCEPT !.status = "cancelled"]]
      BY <1>9 DEF CheckCancel, WorkersOK
    <2> QED
      BY <1>9, <2>1, <2>2, MoveOK, NoteOK, Frame DEF CheckCancel, Carrying, Leasing
  <1>10. CASE SettleCancelled(w)
    BY <1>10, MoveOK, RowOK, CarriedTask, Frame DEF SettleCancelled, Carrying, Leasing, JobStatus
  <1>11. CASE SettleRetry(w)
    BY <1>11, MoveOK, RowOK, CarriedTask, Frame DEF SettleRetry, Carrying, Leasing, JobStatus
  <1>12. CASE SettleFinal(w)
    BY <1>12, MoveOK, RowOK, CarriedTask, Frame DEF SettleFinal, Carrying, Leasing, Note
  <1>13. CASE Backoff(w)
    <2>1. task[w] \in Task /\ task[w].attempt < MaxRetries
      BY <1>13, CarriedTask DEF Backoff, AttemptsLeft, MayRetry, Carrying, Leasing
    <2>2. [task[w] EXCEPT !.attempt = @ + 1] \in Task
      BY <2>1, ConstantsAssumption DEF Task
    <2>3. RedisOK'
      BY <1>13, <2>2 DEF RedisOK, Backoff
    <2> QED
      BY <1>13, <2>3, MoveOK, Frame DEF Backoff, Carrying, Leasing
  <1>14. CASE Bury(w)
    <2>1. RedisOK'
      BY <1>14, CarriedTask DEF RedisOK, Bury, Carrying, Leasing
    <2> QED
      BY <1>14, <2>1, MoveOK, Frame DEF Bury, Carrying, Leasing
  <1> QED
    BY <1>1, <1>2, <1>3, <1>4, <1>6, <1>7, <1>8, <1>9, <1>10, <1>11, <1>12, <1>13, <1>14

\* The success path, a crash and a shutdown keep the types.
LEMMA TypeSuccessAndStop ==
  ASSUME TypeInv, NEW w \in Worker,
         \/ FinishStageRun(w) \/ CompleteJob(w) \/ RefreshJob(w) \/ Advance(w)
         \/ PushNext(w) \/ ReleaseStageLease(w) \/ Crash(w) \/ Shutdown(w)
  PROVE  TypeOK'
  <1> USE DEF TypeInv, TypeOK
  <1>1. CASE FinishStageRun(w)
    <2>1. JobsOK'
      BY <1>1, CarriedTask DEF JobsOK, FinishStageRun, Carrying, Leasing
    <2> QED
      BY <1>1, <2>1, MoveOK, Frame DEF FinishStageRun, Carrying, Leasing
  <1>2. CASE CompleteJob(w)
    BY <1>2, MoveOK, RowOK, CarriedTask, Frame DEF CompleteJob, Carrying, Leasing, JobStatus
  <1>3. CASE RefreshJob(w)
    BY <1>3, MoveOK, Frame DEF RefreshJob, Carrying, Leasing
  <1>4. CASE Advance(w)
    <2>1. PICK s \in JobStage : UpdateJobState(task[w].job, "queued", s)
      BY <1>4, CarriedTask, NextIsStage DEF Advance, Carrying, Leasing
    <2> QED
      BY <1>4, <2>1, MoveOK, RowOK, CarriedTask, Frame DEF Advance, Carrying, Leasing, JobStatus
  <1>5. CASE PushNext(w)
    <2>1. PICK s \in JobStage :
            ready' = Append(ready, NewTask(task[w].job, s, FALSE, "pipeline"))
      BY <1>5, CarriedTask, NextIsStage DEF PushNext, Carrying, Leasing
    <2>2. PICK t \in Task : ready' = Append(ready, t)
      BY <1>5, <2>1, CarriedTask, NewTaskIsTask DEF PushNext, Carrying, Leasing
    <2>3. Append(ready, t) \in Seq(Task)
      BY <2>2 DEF RedisOK
    <2>4. RedisOK'
      BY <1>5, <2>2, <2>3 DEF RedisOK, PushNext
    <2> QED
      BY <1>5, <2>4, MoveOK, Frame DEF PushNext, Carrying, Leasing
  <1>6. CASE ReleaseStageLease(w)
    <2>1. BoundsOK'
      BY <1>6 DEF ReleaseStageLease, BoundsOK, OverrunWithout
    <2> QED
      BY <1>6, <2>1, IdleOK, LeaseOK, CarriedTask, Frame DEF ReleaseStageLease, Carrying, Leasing
  <1>7. ASSUME Vanish(w)
        PROVE  /\ WorkersOK' /\ JobsOK' /\ RequestsOK'
               /\ UNCHANGED <<ready, delayed, dead, failures>>
               /\ lost' \subseteq Job
               /\ overrun' \subseteq Job \X JobStage
    <2>1. pc[w] \in Owing => task[w].job \in Job
      BY CarriedTask DEF Owing
    <2> QED
      BY <1>7, <2>1, IdleOK, Frame DEF Vanish, BoundsOK, OverrunWithout
  <1>8. CASE Crash(w)
    <2>1. BoundsOK'
      BY <1>7, <1>8, ConstantsAssumption DEF BoundsOK, Crash
    <2>2. RedisOK'
      BY <1>7, <1>8 DEF RedisOK, Crash
    <2> QED  BY <1>7, <1>8, <2>1, <2>2 DEF Crash
  <1>9. CASE Shutdown(w)
    <2>1. BoundsOK'
      BY <1>7, <1>9, ConstantsAssumption DEF BoundsOK, Shutdown
    <2>2. RedisOK'
      BY <1>7, <1>9 DEF RedisOK, Shutdown
    <2> QED  BY <1>7, <1>9, <2>1, <2>2 DEF Shutdown
  <1> QED
    BY <1>1, <1>2, <1>3, <1>4, <1>5, <1>6, <1>8, <1>9

\* A request that is about to write or to push has a task of a known job.
LEMMA Requested ==
  ASSUME RequestsOK, NEW r \in Request, req[r].pc \in {"write", "push"}
  PROVE  /\ req[r].task \in Task
         /\ req[r].task.job \in Job
         /\ req[r].task.stage \in JobStage
  BY DEF RequestsOK, Task

\* A request that passes its checks has built a task.
LEMMA TypeAccept ==
  ASSUME TypeOK, NEW r \in Request, NEW op, NEW t \in Task, Accept(r, op, t)
  PROVE  TypeOK'
  <1>1. RequestsOK'
    BY DEF Accept, TypeOK, RequestsOK
  <1> QED  BY <1>1, Frame DEF Accept, TypeOK

\* The requests keep the types.
LEMMA TypeRequest ==
  ASSUME TypeInv, NEW r \in Request, Ask(r) \/ EnqueueStage(r) \/ AbortRequest(r)
  PROVE  TypeOK'
  <1> USE DEF TypeInv, TypeOK
  <1>1. CASE Ask(r)
    <2>1. PICK j \in Job :
            \/ StartJob(r, j) \/ RetryJob(r, j) \/ RetryCurrentStage(r, j)
            \/ ConfirmSegmentation(r, j) \/ RetryASR(r, j)
            \/ ResumeChapter(r, j) \/ CancelJob(r, j)
      BY <1>1 DEF Ask
    <2>2. RetryStage \subseteq JobStage /\ stage[j] \in JobStage
      BY ConstantsAssumption DEF JobsOK
    <2>3. CASE StartJob(r, j) \/ ConfirmSegmentation(r, j) \/ RetryASR(r, j) \/ ResumeChapter(r, j)
      BY <2>3, NewTaskIsTask, TypeAccept
      DEF StartJob, ConfirmSegmentation, RetryASR, ResumeChapter, JobStage
    <2>4. CASE RetryJob(r, j)
      BY <2>2, <2>4, NewTaskIsTask, TypeAccept DEF RetryJob
    <2>5. CASE RetryCurrentStage(r, j)
      BY <2>2, <2>5, NewTaskIsTask, TypeAccept DEF RetryCurrentStage
    <2>6. CASE CancelJob(r, j)
      <3>1. JobsOK'
        BY <2>6 DEF CancelJob, JobsOK, JobStatus
      <3>2. RequestsOK'
        BY <2>6 DEF CancelJob, RequestsOK
      <3> QED  BY <2>6, <3>1, <3>2, Frame DEF CancelJob
    <2> QED  BY <2>1, <2>3, <2>4, <2>5, <2>6
  <1>2. CASE WriteQueued(r)
    <2>1. RequestsOK'
      BY <1>2, Requested DEF WriteQueued, RequestsOK
    <2> QED
      BY <1>2, <2>1, RowOK, Requested, Frame DEF WriteQueued, JobStatus
  <1>3. CASE PushTask(r)
    <2>1. RequestsOK'
      BY <1>3 DEF PushTask, RequestsOK
    <2>2. RedisOK'
      BY <1>3, Requested DEF PushTask, RedisOK
    <2> QED  BY <1>3, <2>1, <2>2, Frame DEF PushTask
  <1>4. CASE AbortRequest(r)
    <2>1. RequestsOK'
      BY <1>4 DEF AbortRequest, RequestsOK
    <2>2. BoundsOK'
      BY <1>4, Requested, ConstantsAssumption DEF AbortRequest, BoundsOK
    <2> QED  BY <1>4, <2>1, <2>2, Frame DEF AbortRequest
  <1> QED
    BY <1>1, <1>2, <1>3, <1>4 DEF EnqueueStage

\* Redis and the clock keep the types.
LEMMA TypeEnvironment ==
  ASSUME TypeInv,
         \/ \E k \in Job \X JobStage : LeaseExpires(k)
         \/ \E j \in Job : DeadlinePasses(j)
  PROVE  TypeOK'
  <1> USE DEF TypeInv, TypeOK
  <1>1. ASSUME NEW k \in Job \X JobStage, LeaseExpires(k) PROVE TypeOK'
    <2>1. BoundsOK'
      BY <1>1 DEF LeaseExpires, BoundsOK
    <2> QED  BY <1>1, <2>1, LeaseOK, Frame DEF LeaseExpires
  <1>2. ASSUME NEW j \in Job, DeadlinePasses(j) PROVE TypeOK'
    <2>1. JobsOK'
      BY <1>2 DEF DeadlinePasses, JobsOK
    <2> QED  BY <1>2, <2>1, Frame DEF DeadlinePasses
  <1> QED  BY <1>1, <1>2

\* A worker enters the backoff only through SettleRetry.
LEMMA AttemptsStep ==
  ASSUME TypeInv, [Next]_vars
  PROVE  AttemptsLeft'
  <1>1. SUFFICES ASSUME NEW v \in Worker, pc'[v] = "backoff"
                 PROVE  MayRetry(task'[v])
    BY DEF AttemptsLeft, MayRetry
  <1>2. \/ pc[v] = "backoff" /\ task'[v] = task[v]
        \/ pc[v] = "settle" /\ task'[v] = task[v] /\ MayRetry(task[v])
    <2> USE <1>1 DEF TypeInv, TypeOK, WorkersOK, Goto, Idle, MayRetry
    <2>1. CASE UNCHANGED vars
      BY <2>1 DEF vars, workerVars
    <2>2. ASSUME NEW w \in Worker,
                 \/ ReadDue(w) \/ PromoteDue(w) \/ Pop(w) \/ LoadJob(w) \/ FailExpired(w)
                 \/ DropCancelled(w) \/ AcquireStageLease(w) \/ RequeueBusy(w)
                 \/ MarkRunning(w) \/ BeginStage(w)
          PROVE  pc[v] = "backoff" /\ task'[v] = task[v]
      BY <2>2 DEF ReadDue, PromoteDue, Pop, LoadJob, FailExpired, DropCancelled,
         AcquireStageLease, RequeueBusy, MarkRunning, BeginStage
    <2>3. ASSUME NEW w \in Worker,
                 \/ SaveJob(w) \/ ParkForChapterize(w) \/ ParkForReview(w) \/ StageReturns(w)
                 \/ StageFails(w) \/ CancelGate(w) \/ CheckCancel(w) \/ SettleCancelled(w)
                 \/ SettleFinal(w) \/ Backoff(w) \/ Bury(w)
          PROVE  pc[v] = "backoff" /\ task'[v] = task[v]
      BY <2>3 DEF SaveJob, ParkForChapterize, ParkForReview, StageReturns, StageFails,
         CancelGate, CheckCancel, SettleCancelled, SettleFinal, Backoff, Bury
    <2>4. ASSUME NEW w \in Worker, SettleRetry(w)
          PROVE  \/ pc[v] = "backoff" /\ task'[v] = task[v]
                 \/ pc[v] = "settle" /\ task'[v] = task[v] /\ MayRetry(task[v])
      BY <2>4 DEF SettleRetry
    <2>5. ASSUME NEW w \in Worker,
                 \/ FinishStageRun(w) \/ CompleteJob(w) \/ RefreshJob(w) \/ Advance(w)
                 \/ PushNext(w) \/ ReleaseStageLease(w) \/ Crash(w) \/ Shutdown(w)
                 \/ RefreshLease(w)
          PROVE  pc[v] = "backoff" /\ task'[v] = task[v]
      BY <2>5 DEF FinishStageRun, CompleteJob, RefreshJob, Advance, PushNext,
         ReleaseStageLease, Crash, Shutdown, Vanish, RefreshLease, workerVars
    <2>6. ASSUME NEW r \in Request, Ask(r) \/ EnqueueStage(r) \/ AbortRequest(r)
          PROVE  UNCHANGED workerVars
      BY <2>6 DEF Ask, EnqueueStage, AbortRequest, StartJob, RetryJob, RetryCurrentStage,
         ConfirmSegmentation, RetryASR, ResumeChapter, CancelJob, Accept, WriteQueued, PushTask
    <2>7. ASSUME \/ \E k \in Job \X JobStage : LeaseExpires(k)
                 \/ \E j \in Job : DeadlinePasses(j)
          PROVE  UNCHANGED workerVars
      BY <2>7 DEF LeaseExpires, DeadlinePasses
    <2> QED
      BY <2>1, <2>2, <2>3, <2>4, <2>5, <2>6, <2>7
      DEF Next, WorkerLoop, HandleTask, workerVars
  <1> QED  BY <1>2 DEF TypeInv, AttemptsLeft, MayRetry

\* The invariant is inductive.
LEMMA TypeStep == TypeInv /\ [Next]_vars => TypeInv'
  <1> SUFFICES ASSUME TypeInv, [Next]_vars PROVE TypeInv'
    OBVIOUS
  <1>1. TypeOK'
    <2>1. CASE UNCHANGED vars
      BY <2>1, Frame DEF vars, TypeInv, TypeOK
    <2>2. CASE Next
      BY <2>2, TypeBeforeStage, TypeStageAndFailure, TypeSuccessAndStop, TypeRequest,
         TypeEnvironment
      DEF Next, WorkerLoop, HandleTask
    <2> QED  BY <2>1, <2>2
  <1> QED  BY <1>1, AttemptsStep DEF TypeInv

\* Types, and with them the cap on attempts, hold throughout: TypeOK of every
\* reachable state, for any number of workers, jobs and requests.
THEOREM TypeCorrect == Spec => []TypeOK
  <1>1. Init => TypeInv
    BY TypeInit DEF Init, TypeInv, AttemptsLeft
  <1>2. TypeInv => TypeOK
    BY DEF TypeInv
  <1> QED  BY <1>1, <1>2, TypeStep, PTL DEF Spec

-----------------------------------------------------------------------------
(* Stage exclusion.                                                        *)

\* Whoever is inside the leased part of HandleTask owns a key that exists,
\* unless the key has run out meanwhile.
HolderHasKey ==
  \A w \in Worker : pc[w] \in Leasing => Key(task[w]) \in lease \cup overrun

\* Somebody is inside with every key that has run out.
OverrunIsHeld == \A k \in overrun : \E w \in Worker : Holds(w, k)

ExclusionInv == TypeInv /\ HolderHasKey /\ OverrunIsHeld /\ StageExclusion

\* A step that lets nobody in, lets nobody out and leaves the keys alone.
Steady ==
  /\ UNCHANGED <<lease, overrun, crashes>>
  /\ \A v \in Worker : /\ pc'[v] \in Leasing <=> pc[v] \in Leasing
                       /\ pc[v] \in Leasing => task'[v] = task[v]

\* Apart from the lease's own calls and the stops, every step is steady.
LEMMA SteadySteps ==
  ASSUME TypeInv, [Next]_vars
  PROVE  \/ Steady
         \/ \E w \in Worker : \/ AcquireStageLease(w) \/ RefreshLease(w)
                              \/ ReleaseStageLease(w) \/ Crash(w) \/ Shutdown(w)
         \/ \E r \in Request : AbortRequest(r)
         \/ \E k \in Job \X JobStage : LeaseExpires(k)
  <1> USE DEF TypeInv, TypeOK, WorkersOK, Goto, Idle, Steady, redisVars, boundVars
  <1>1. CASE UNCHANGED vars
    BY <1>1 DEF vars, workerVars
  <1>2. ASSUME NEW w \in Worker,
               \/ ReadDue(w) \/ PromoteDue(w) \/ Pop(w) \/ LoadJob(w) \/ FailExpired(w)
               \/ DropCancelled(w) \/ RequeueBusy(w) \/ MarkRunning(w) \/ BeginStage(w)
        PROVE  Steady
    BY <1>2 DEF ReadDue, PromoteDue, Pop, LoadJob, FailExpired, DropCancelled,
       RequeueBusy, MarkRunning, BeginStage, Leasing
  <1>3. ASSUME NEW w \in Worker,
               \/ SaveJob(w) \/ ParkForChapterize(w) \/ ParkForReview(w) \/ StageReturns(w)
               \/ StageFails(w) \/ CancelGate(w) \/ CheckCancel(w) \/ SettleCancelled(w)
               \/ SettleRetry(w) \/ SettleFinal(w) \/ Backoff(w) \/ Bury(w)
        PROVE  Steady
    BY <1>3 DEF SaveJob, ParkForChapterize, ParkForReview, StageReturns, StageFails,
       CancelGate, CheckCancel, SettleCancelled, SettleRetry, SettleFinal, Backoff, Bury,
       Leasing
  <1>4. ASSUME NEW w \in Worker,
               \/ FinishStageRun(w) \/ CompleteJob(w) \/ RefreshJob(w) \/ Advance(w)
               \/ PushNext(w)
        PROVE  Steady
    BY <1>4 DEF FinishStageRun, CompleteJob, RefreshJob, Advance, PushNext, Leasing
  <1>5. ASSUME NEW r \in Request, Ask(r) \/ EnqueueStage(r)
        PROVE  Steady
    BY <1>5 DEF Ask, EnqueueStage, StartJob, RetryJob, RetryCurrentStage,
       ConfirmSegmentation, RetryASR, ResumeChapter, CancelJob, Accept, WriteQueued,
       PushTask, workerVars
  <1>6. ASSUME NEW j \in Job, DeadlinePasses(j)
        PROVE  Steady
    BY <1>6 DEF DeadlinePasses, workerVars
  <1> QED
    BY <1>1, <1>2, <1>3, <1>4, <1>5, <1>6 DEF Next, WorkerLoop, HandleTask

\* What happens to the workers, the key and overrun when a worker leaves the
\* leased part of HandleTask, or stops outside of it.
LEMMA Leaving ==
  ASSUME TypeInv, NEW w \in Worker, ReleaseStageLease(w) \/ Crash(w) \/ Shutdown(w)
  PROVE  /\ \A v \in Worker \ {w} : pc'[v] = pc[v] /\ task'[v] = task[v]
         /\ pc'[w] = "idle"
         /\ overrun' = OverrunWithout(w)
         /\ \/ lease' = lease
            \/ pc[w] \in Leasing /\ lease' = lease \ {Key(task[w])}
  BY DEF ReleaseStageLease, Crash, Shutdown, Vanish, Idle, Goto, TypeInv, TypeOK,
     WorkersOK, Leasing

\* The strengthened invariant is inductive.
LEMMA ExclusionStep ==
  ASSUME ExclusionInv, [Next]_vars
  PROVE  ExclusionInv'
  <1> DEFINE Kept == HolderHasKey /\ OverrunIsHeld /\ StageExclusion
  <1> USE DEF ExclusionInv
  <1>1. TypeInv'
    BY TypeStep
  <1>2. ASSUME Steady PROVE Kept'
    <2>1. HolderHasKey'
      BY <1>2 DEF Steady, HolderHasKey, Key
    <2>2. OverrunIsHeld'
      BY <1>2 DEF Steady, OverrunIsHeld, Holds, Key
    <2>3. StageExclusion'
      BY <1>2 DEF Steady, StageExclusion, Together, Key
    <2> QED  BY <2>1, <2>2, <2>3
  <1>3. ASSUME NEW w \in Worker, AcquireStageLease(w) PROVE Kept'
    <2>1. /\ pc[w] \notin Leasing /\ pc'[w] \in Leasing /\ task' = task
          /\ \A v \in Worker \ {w} : pc'[v] = pc[v]
          /\ Key(task[w]) \notin lease /\ lease' = lease \cup {Key(task[w])}
          /\ overrun' = overrun
      BY <1>3 DEF AcquireStageLease, Goto, Leasing, TypeInv, TypeOK, WorkersOK, boundVars
    <2>2. HolderHasKey'
      BY <2>1 DEF HolderHasKey, Key
    <2>3. OverrunIsHeld'
      BY <2>1 DEF OverrunIsHeld, Holds, Key
    <2>4. StageExclusion'
      BY <2>1 DEF StageExclusion, Together, HolderHasKey, Key
    <2> QED  BY <2>2, <2>3, <2>4
  <1>4. ASSUME NEW w \in Worker, ReleaseStageLease(w) \/ Crash(w) \/ Shutdown(w)
        PROVE  Kept'
    <2>1. /\ \A v \in Worker \ {w} : pc'[v] = pc[v] /\ task'[v] = task[v]
          /\ pc'[w] = "idle"
          /\ overrun' = OverrunWithout(w)
          /\ \/ lease' = lease
             \/ pc[w] \in Leasing /\ lease' = lease \ {Key(task[w])}
      BY <1>4, Leaving
    <2>2. pc'[w] \notin Leasing
      BY <2>1 DEF Leasing
    <2>3. ASSUME NEW v \in Worker, pc'[v] \in Leasing
          PROVE  /\ v # w /\ pc[v] \in Leasing /\ task'[v] = task[v]
                 /\ Key(task[v]) \in overrun => Key(task[v]) \in overrun'
      BY <2>1, <2>2, <2>3 DEF OverrunWithout, Holds
    <2>4. HolderHasKey'
      <3> SUFFICES ASSUME NEW v \in Worker, pc'[v] \in Leasing
                   PROVE  Key(task[v]) \in lease' \cup overrun'
        BY <2>3 DEF HolderHasKey, Key
      <3>1. CASE Key(task[v]) \in overrun
        BY <2>3, <3>1
      <3>2. CASE Key(task[v]) \notin overrun
        <4>1. Key(task[v]) \in lease /\ ~Together(v, w)
          BY <2>3, <3>2 DEF HolderHasKey, StageExclusion
        <4>2. pc[w] \in Leasing => Key(task[v]) # Key(task[w])
          BY <2>3, <4>1 DEF Together
        <4> QED  BY <2>1, <4>1, <4>2
      <3> QED  BY <3>1, <3>2
    <2>5. OverrunIsHeld'
      BY <2>1 DEF OverrunIsHeld, OverrunWithout, Holds, Key
    <2>6. StageExclusion'
      BY <2>3 DEF StageExclusion, Together, Key
    <2> QED  BY <2>4, <2>5, <2>6
  <1>5. ASSUME NEW k \in Job \X JobStage, LeaseExpires(k) PROVE Kept'
    <2>1. UNCHANGED <<pc, task>> /\ lease' = lease \ {k}
      BY <1>5 DEF LeaseExpires, workerVars
    <2>2. overrun' = overrun \cup (IF \E w \in Worker : Holds(w, k) THEN {k} ELSE {})
      BY <1>5 DEF LeaseExpires
    <2>3. HolderHasKey'
      BY <2>1, <2>2 DEF HolderHasKey, Holds, Key
    <2>4. OverrunIsHeld'
      BY <2>1, <2>2 DEF OverrunIsHeld, Holds, Key
    <2>5. StageExclusion'
      BY <2>1, <2>2 DEF StageExclusion, Together, Key
    <2> QED  BY <2>3, <2>4, <2>5
  <1>6. ASSUME NEW w \in Worker, RefreshLease(w) PROVE Kept'
    <2>1. /\ UNCHANGED <<pc, task>> /\ lease' = lease \cup {Key(task[w])}
          /\ overrun' = OverrunWithout(w) \cup (overrun \ {Key(task[w])})
          /\ pc[w] \in Leasing
      BY <1>6 DEF RefreshLease, workerVars, Leasing
    <2>2. HolderHasKey'
      BY <2>1 DEF HolderHasKey, Key
    <2>3. OverrunIsHeld'
      BY <2>1 DEF OverrunIsHeld, OverrunWithout, Holds, Key
    <2>4. StageExclusion'
      <3> SUFFICES ASSUME NEW v1 \in Worker, NEW v2 \in Worker, Together(v1, v2)
                   PROVE  Key(task[v1]) \in overrun'
        BY <2>1 DEF StageExclusion, Together, Key
      <3>1. Key(task[v1]) \in overrun
        BY DEF StageExclusion
      <3>2. \E v \in Worker \ {w} : Holds(v, Key(task[v1]))
        BY DEF Together, Holds
      <3> QED  BY <2>1, <3>1, <3>2 DEF OverrunWithout
    <2> QED  BY <2>2, <2>3, <2>4
  <1>7. ASSUME NEW r \in Request, AbortRequest(r) PROVE Kept'
    <2>1. UNCHANGED <<pc, task, lease, overrun>>
      BY <1>7 DEF AbortRequest, redisVars, workerVars
    <2> QED
      BY <2>1 DEF HolderHasKey, OverrunIsHeld, StageExclusion, Together, Holds, Key
  <1> HIDE DEF Kept
  <1>8. Kept'
    BY <1>2, <1>3, <1>4, <1>5, <1>6, <1>7, SteadySteps
  <1> QED  BY <1>1, <1>8 DEF Kept

\* Initially nobody is inside and no key has run out.
LEMMA ExclusionInit == Init => ExclusionInv
  BY TypeInit DEF Init, ExclusionInv, TypeInv, AttemptsLeft, HolderHasKey,
     OverrunIsHeld, StageExclusion, Together, Leasing

\* Two workers execute the same stage of the same job at the same time only with
\* a key that ran out under one of them, whatever crashes, is retried, duplicated
\* or cancelled meanwhile; the exclusion is back once all have left, or once a
\* worker that is alone again has refreshed its key.
THEOREM LeaseExcludes == Spec => []StageExclusion
  <1>1. ExclusionInv => StageExclusion
    BY DEF ExclusionInv
  <1> QED  BY <1>1, ExclusionInit, ExclusionStep, PTL DEF Spec

\* Who is inside, as the pairs of the lock say it.
LEMMA InsideMeansHolds ==
  ASSUME NEW k
  PROVE  (\E p \in HeldLeases : p[2] = k) <=> (\E w \in Worker : Holds(w, k))
  <1>1. ASSUME NEW p \in HeldLeases, p[2] = k PROVE \E w \in Worker : Holds(w, k)
    BY <1>1 DEF HeldLeases, Holds
  <1>2. ASSUME NEW w \in Worker, Holds(w, k) PROVE \E p \in HeldLeases : p[2] = k
    <2>1. <<w, Key(task[w])>> \in HeldLeases /\ <<w, Key(task[w])>>[2] = k
      BY <1>2 DEF HeldLeases, Holds
    <2> QED  BY <2>1
  <1> QED  BY <1>1, <1>2

\* A worker that leaves is a release, a death or nothing to the lock.
LEMMA LockLeaves ==
  ASSUME ExclusionInv, NEW w \in Worker, ReleaseStageLease(w) \/ Crash(w) \/ Shutdown(w)
  PROVE  [Lock!Next]_(Lock!lockVars)
  <1> DEFINE k == Key(task[w])
  <1> USE DEF ExclusionInv, Lock!lockVars
  <1>1. /\ \A v \in Worker \ {w} : pc'[v] = pc[v] /\ task'[v] = task[v]
        /\ pc'[w] = "idle"
        /\ overrun' = OverrunWithout(w)
        /\ \/ lease' = lease
           \/ pc[w] \in Leasing /\ lease' = lease \ {k}
    BY Leaving
  <1>2. pc'[w] \notin Leasing
    BY <1>1 DEF Leasing
  <1>3. CASE pc[w] \notin Leasing
    <2>1. HeldLeases' = HeldLeases
      BY <1>1, <1>2, <1>3 DEF HeldLeases, Key
    <2>2. OrphanLeases' = OrphanLeases
      BY <1>1, <1>2, <1>3 DEF OrphanLeases, Holds, Key
    <2>3. overrun' = overrun
      BY <1>1, <1>3 DEF OverrunWithout, OverrunIsHeld, Holds
    <2> QED  BY <2>1, <2>2, <2>3
  <1>4. CASE pc[w] \in Leasing
    <2>1. k \in Job \X JobStage
      BY <1>4, CarriedTask DEF TypeInv, TypeOK, Carrying
    <2>2. <<w, k>> \in HeldLeases
      BY <1>4 DEF HeldLeases
    <2>3. HeldLeases' = HeldLeases \ {<<w, k>>}
      BY <1>1, <1>2, <1>4 DEF HeldLeases, Key
    <2>4. ASSUME NEW o
          PROVE  (\E p \in HeldLeases' : p[2] = o) <=> (\E v \in Worker \ {w} : Holds(v, o))
      <3>1. ASSUME NEW p \in HeldLeases', p[2] = o
            PROVE  \E v \in Worker \ {w} : Holds(v, o)
        <4>1. PICK v \in Worker : pc'[v] \in Leasing /\ p = <<v, Key(task'[v])>>
          BY <3>1 DEF HeldLeases
        <4> QED  BY <1>1, <1>2, <3>1, <4>1 DEF Holds
      <3>2. ASSUME NEW v \in Worker \ {w}, Holds(v, o)
            PROVE  \E p \in HeldLeases' : p[2] = o
        <4>1. <<v, Key(task'[v])>> \in HeldLeases' /\ <<v, Key(task'[v])>>[2] = o
          BY <1>1, <3>2 DEF HeldLeases, Holds
        <4> QED  BY <4>1
      <3> QED  BY <3>1, <3>2
    <2>5. overrun' = {o \in overrun : \E p \in HeldLeases' : p[2] = o}
      BY <1>1, <2>4 DEF OverrunWithout
    <2>6. Lock!Leave(w, k)
      BY <2>2, <2>3, <2>5 DEF Lock!Leave
    <2>7. CASE lease' = lease \ {k}
      <3>1. OrphanLeases' = OrphanLeases
        BY <1>1, <1>2, <1>4, <2>7 DEF OrphanLeases, Holds, Key
      <3>2. Lock!Release(w, k)
        BY <2>6, <3>1 DEF Lock!Release
      <3> QED  BY <2>1, <3>2 DEF Lock!Next
    <2>8. CASE lease' = lease /\ (\E v \in Worker \ {w} : Holds(v, k))
      <3>1. OrphanLeases' = OrphanLeases
        BY <1>1, <1>2, <1>4, <2>8 DEF OrphanLeases, Holds, Key
      <3>2. k \in overrun
        BY <1>4, <2>8 DEF StageExclusion, Together, Holds
      <3>3. Lock!Die(w, k)
        BY <2>6, <3>1, <3>2 DEF Lock!Die
      <3> QED  BY <2>1, <3>3 DEF Lock!Next
    <2>9. CASE lease' = lease /\ k \in lease /\ ~(\E v \in Worker \ {w} : Holds(v, k))
      <3>1. OrphanLeases' = OrphanLeases \cup {k}
        BY <1>1, <1>2, <1>4, <2>9 DEF OrphanLeases, Holds, Key
      <3>2. ~(\E p \in HeldLeases' : p[2] = k)
        BY <2>4, <2>9
      <3>3. Lock!Die(w, k)
        BY <2>6, <3>1, <3>2 DEF Lock!Die
      <3> QED  BY <2>1, <3>3 DEF Lock!Next
    <2>10. CASE lease' = lease /\ k \notin lease
      <3>1. OrphanLeases' = OrphanLeases
        BY <1>1, <1>2, <1>4, <2>10 DEF OrphanLeases, Holds, Key
      <3>2. k \in overrun
        BY <1>4, <2>10 DEF HolderHasKey
      <3>3. Lock!Die(w, k)
        BY <2>6, <3>1, <3>2 DEF Lock!Die
      <3> QED  BY <2>1, <3>3 DEF Lock!Next
    <2> QED  BY <1>1, <2>7, <2>8, <2>9, <2>10
  <1> QED  BY <1>3, <1>4

\* A key that expires lapses with or without somebody inside.
LEMMA LockExpires ==
  ASSUME ExclusionInv, NEW k \in Job \X JobStage, LeaseExpires(k)
  PROVE  Lock!Next
  <1>1. /\ UNCHANGED <<pc, task>> /\ k \in lease /\ lease' = lease \ {k}
        /\ overrun' = overrun \cup (IF \E w \in Worker : Holds(w, k) THEN {k} ELSE {})
    BY DEF LeaseExpires, workerVars
  <1>2. HeldLeases' = HeldLeases
    BY <1>1 DEF HeldLeases, Key
  <1>3. CASE \E w \in Worker : Holds(w, k)
    <2>1. OrphanLeases' = OrphanLeases
      BY <1>1, <1>3 DEF OrphanLeases, Holds, Key
    <2>2. Lock!Inside(k)
      BY <1>3, InsideMeansHolds DEF Lock!Inside
    <2>3. Lock!LapseInside(k)
      BY <1>1, <1>2, <1>3, <2>1, <2>2 DEF Lock!LapseInside
    <2> QED  BY <2>3 DEF Lock!Next
  <1>4. CASE ~(\E w \in Worker : Holds(w, k))
    <2>1. k \in OrphanLeases /\ OrphanLeases' = OrphanLeases \ {k}
      BY <1>1, <1>4 DEF OrphanLeases, Holds, Key
    <2>2. Lock!Lapse(k)
      BY <1>1, <1>2, <1>4, <2>1 DEF Lock!Lapse
    <2> QED  BY <2>2 DEF Lock!Next
  <1> QED  BY <1>3, <1>4

\* A refresh sets a key that has run out again: a renewal, when nobody else is
\* inside with it.
LEMMA LockRenews ==
  ASSUME ExclusionInv, NEW w \in Worker, RefreshLease(w)
  PROVE  [Lock!Next]_(Lock!lockVars)
  <1> DEFINE k == Key(task[w])
  <1> USE DEF ExclusionInv, Lock!lockVars
  <1>1. /\ UNCHANGED <<pc, task>> /\ lease' = lease \cup {k}
        /\ overrun' = OverrunWithout(w) \cup (overrun \ {k})
        /\ pc[w] \in Leasing
    BY DEF RefreshLease, workerVars, Leasing
  <1>2. k \in Job \X JobStage
    BY <1>1, CarriedTask DEF TypeInv, TypeOK, Carrying
  <1>3. HeldLeases' = HeldLeases
    BY <1>1 DEF HeldLeases, Key
  <1>4. OrphanLeases' = OrphanLeases
    BY <1>1 DEF OrphanLeases, Holds, Key
  <1>5. CASE \E v \in Worker \ {w} : Holds(v, k)
    <2>1. overrun' = overrun
      BY <1>1, <1>5 DEF OverrunWithout
    <2> QED  BY <1>3, <1>4, <2>1
  <1>6. CASE ~(\E v \in Worker \ {w} : Holds(v, k))
    <2>1. overrun' = overrun \ {k}
      BY <1>1, <1>6 DEF OverrunWithout
    <2>2. <<w, k>> \in HeldLeases
      BY <1>1 DEF HeldLeases
    <2>3. \A p \in HeldLeases : p[2] = k => p[1] = w
      BY <1>6 DEF HeldLeases, Holds
    <2>4. Lock!Renew(w, k)
      BY <1>3, <1>4, <2>1, <2>2, <2>3 DEF Lock!Renew
    <2> QED  BY <1>2, <2>4 DEF Lock!Next
  <1> QED  BY <1>5, <1>6

\* Every step of the pipeline is a step of StageLock, or none.
LEMMA LockStep ==
  ASSUME ExclusionInv, [Next]_vars
  PROVE  [Lock!Next]_(Lock!lockVars)
  <1> USE DEF ExclusionInv, Lock!lockVars
  <1>1. ASSUME Steady PROVE UNCHANGED Lock!lockVars
    <2>1. HeldLeases' = HeldLeases
      BY <1>1 DEF Steady, HeldLeases, Key
    <2>2. OrphanLeases' = OrphanLeases
      BY <1>1 DEF Steady, OrphanLeases, Holds, Key
    <2> QED  BY <1>1, <2>1, <2>2 DEF Steady
  <1>2. ASSUME NEW w \in Worker, AcquireStageLease(w) PROVE Lock!Next
    <2> DEFINE k == Key(task[w])
    <2>1. k \in Job \X JobStage
      BY <1>2, CarriedTask DEF AcquireStageLease, TypeInv, TypeOK, Carrying
    <2>2. /\ pc[w] \notin Leasing /\ pc'[w] \in Leasing /\ task' = task
          /\ \A v \in Worker \ {w} : pc'[v] = pc[v]
          /\ k \notin lease /\ lease' = lease \cup {k}
          /\ overrun' = overrun
      BY <1>2 DEF AcquireStageLease, Goto, Leasing, TypeInv, TypeOK, WorkersOK, boundVars
    <2>3. HeldLeases' = HeldLeases \cup {<<w, k>>}
      BY <2>2 DEF HeldLeases, Key
    <2>4. OrphanLeases' = OrphanLeases /\ k \notin OrphanLeases
      BY <2>2 DEF OrphanLeases, Holds, Key
    <2>5. \A p \in HeldLeases : p[1] # w
      BY <2>2 DEF HeldLeases
    <2>6. Lock!Inside(k) => k \in overrun
      BY <2>2 DEF Lock!Inside, HeldLeases, HolderHasKey
    <2>7. Lock!Acquire(w, k)
      BY <2>2, <2>3, <2>4, <2>5, <2>6 DEF Lock!Acquire
    <2> QED  BY <2>1, <2>7 DEF Lock!Next
  <1>3. ASSUME NEW r \in Request, AbortRequest(r) PROVE UNCHANGED Lock!lockVars
    BY <1>3 DEF AbortRequest, HeldLeases, OrphanLeases, Holds, Key, redisVars, workerVars
  <1> QED
    BY <1>1, <1>2, <1>3, LockLeaves, LockExpires, LockRenews, SteadySteps

\* The leases implement StageLock: the leased part of HandleTask is a lock per
\* job and stage that a killed holder keeps until the TTL has run out, and that
\* is open from the moment it runs out under its holder until all have left.
THEOREM LeaseIsStageLock == Spec => ImplementsStageLock
  <1>1. Init => Lock!Init
    BY DEF Init, Lock!Init, HeldLeases, OrphanLeases, Leasing
  <1> QED  BY <1>1, ExclusionInit, ExclusionStep, LockStep,
              PTL DEF Spec, ImplementsStageLock, Lock!Spec

-----------------------------------------------------------------------------
(* No leaked lease.                                                        *)

\* As long as no worker is killed and no request is aborted, every lease key that
\* exists belongs to a worker inside the leased part of HandleTask: whatever
\* path HandleTask returns by, and also when the worker is shut down.
THEOREM LeasesDoNotLeak == Spec => []NoLeakedLease
  <1>1. Init => TypeInv /\ NoLeakedLease
    BY TypeInit DEF Init, TypeInv, AttemptsLeft, NoLeakedLease
  <1>2. TypeInv /\ NoLeakedLease /\ [Next]_vars => (TypeInv /\ NoLeakedLease)'
    <2> SUFFICES ASSUME TypeInv, NoLeakedLease, [Next]_vars PROVE NoLeakedLease'
      BY TypeStep
    <2>1. ASSUME Steady PROVE NoLeakedLease'
      BY <2>1 DEF Steady, NoLeakedLease, Holds, Key
    <2>2. ASSUME NEW w \in Worker, AcquireStageLease(w) PROVE NoLeakedLease'
      BY <2>2 DEF AcquireStageLease, NoLeakedLease, Holds, Key, Goto, boundVars, TypeInv,
         TypeOK, WorkersOK, Leasing
    <2>3. ASSUME NEW w \in Worker, RefreshLease(w) PROVE NoLeakedLease'
      BY <2>3 DEF RefreshLease, NoLeakedLease, Holds, Key, boundVars, workerVars, Leasing
    <2>4. ASSUME NEW w \in Worker, ReleaseStageLease(w) \/ Shutdown(w) PROVE NoLeakedLease'
      <3>1. /\ \A v \in Worker \ {w} : pc'[v] = pc[v] /\ task'[v] = task[v]
            /\ lease' \subseteq lease
            /\ pc[w] \in Leasing => Key(task[w]) \notin lease'
            /\ UNCHANGED crashes
        BY <2>4 DEF ReleaseStageLease, Shutdown, Vanish, Idle, Goto, boundVars, TypeInv,
           TypeOK, WorkersOK
      <3> QED  BY <3>1 DEF NoLeakedLease, Holds, Key
    <2>5. ASSUME \/ \E w \in Worker : Crash(w)
                 \/ \E r \in Request : AbortRequest(r)
          PROVE  crashes' # 0
      BY <2>5 DEF Crash, AbortRequest, TypeInv, TypeOK, BoundsOK
    <2>6. ASSUME NEW k \in Job \X JobStage, LeaseExpires(k) PROVE NoLeakedLease'
      BY <2>6 DEF LeaseExpires, NoLeakedLease, Holds, Key, boundVars, workerVars
    <2> QED
      BY <2>1, <2>2, <2>3, <2>4, <2>5, <2>6, SteadySteps DEF NoLeakedLease
  <1> QED  BY <1>1, <1>2, PTL DEF Spec

-----------------------------------------------------------------------------
(* No stranded job.                                                        *)

\* The status a failed stage is going to be settled with says how it ended badly.
FailureStatus == TerminalStatus \ {"completed"}

FinalNoted ==
  \A w \in Worker : pc[w] \in {"failed", "settle"} => local[w].status \in FailureStatus

StrandInv == TypeInv /\ FinalNoted /\ NoStrandedJob

\* Only a failing stage and the check for a cancellation write that note.
LEMMA FinalNotedStep ==
  ASSUME TypeInv, FinalNoted, [Next]_vars
  PROVE  FinalNoted'
  <1>1. SUFFICES ASSUME NEW v \in Worker, pc'[v] \in {"failed", "settle"}
                 PROVE  local'[v].status \in FailureStatus
    BY DEF FinalNoted
  <1> USE DEF TypeInv, TypeOK, WorkersOK, Goto, Idle
  <1>2. CASE UNCHANGED vars
    BY <1>1, <1>2 DEF vars, workerVars, FinalNoted
  <1>3. ASSUME NEW w \in Worker, WorkerLoop(w) \/ RefreshLease(w) \/ Crash(w) \/ Shutdown(w),
               ~StageFails(w), ~CancelGate(w), ~CheckCancel(w)
        PROVE  pc[v] = pc'[v] /\ local'[v] = local[v]
    <2>1. CASE \/ ReadDue(w) \/ PromoteDue(w) \/ Pop(w) \/ LoadJob(w) \/ FailExpired(w)
               \/ DropCancelled(w) \/ AcquireStageLease(w) \/ RequeueBusy(w)
               \/ MarkRunning(w) \/ BeginStage(w)
      BY <1>1, <2>1 DEF ReadDue, PromoteDue, Pop, LoadJob, FailExpired, DropCancelled,
         AcquireStageLease, RequeueBusy, MarkRunning, BeginStage
    <2>2. CASE \/ SaveJob(w) \/ ParkForChapterize(w) \/ ParkForReview(w) \/ StageReturns(w)
               \/ SettleCancelled(w) \/ SettleRetry(w) \/ SettleFinal(w) \/ Backoff(w)
               \/ Bury(w) \/ RefreshLease(w)
      BY <1>1, <2>2 DEF SaveJob, ParkForChapterize, ParkForReview, StageReturns,
         SettleCancelled, SettleRetry, SettleFinal, Backoff, Bury, RefreshLease, workerVars
    <2>3. CASE \/ FinishStageRun(w) \/ CompleteJob(w) \/ RefreshJob(w) \/ Advance(w)
               \/ PushNext(w) \/ ReleaseStageLease(w) \/ Crash(w) \/ Shutdown(w)
      BY <1>1, <2>3 DEF FinishStageRun, CompleteJob, RefreshJob, Advance, PushNext,
         ReleaseStageLease, Crash, Shutdown, Vanish
    <2> QED  BY <1>3, <2>1, <2>2, <2>3 DEF WorkerLoop, HandleTask
  <1>4. ASSUME NEW w \in Worker, StageFails(w) \/ CancelGate(w) \/ CheckCancel(w)
        PROVE  local'[v].status \in FailureStatus
    <2>1. \A st \in JobStatus : [Blank EXCEPT !.status = st].status = st
      BY DEF Blank
    <2>2. CASE v # w
      BY <1>1, <1>4, <2>2 DEF StageFails, CancelGate, CheckCancel, FinalNoted
    <2>3. CASE v = w /\ StageFails(w)
      BY <2>1, <2>3 DEF StageFails, FailureStatus, TerminalStatus, JobStatus
    <2>4. CASE v = w /\ CancelGate(w)
      BY <2>1, <2>4 DEF CancelGate, FailureStatus, TerminalStatus, JobStatus
    <2>5. CASE v = w /\ CheckCancel(w)
      <3>1. \/ local'[w] = local[w]
            \/ local'[w].status = "cancelled"
        BY <2>5 DEF CheckCancel
      <3> QED  BY <2>5, <3>1 DEF CheckCancel, FinalNoted, FailureStatus, TerminalStatus
    <2> QED  BY <1>4, <2>2, <2>3, <2>4, <2>5
  <1>5. ASSUME NEW r \in Request, Ask(r) \/ EnqueueStage(r) \/ AbortRequest(r)
        PROVE  UNCHANGED workerVars
    BY <1>5 DEF Ask, EnqueueStage, AbortRequest, StartJob, RetryJob, RetryCurrentStage,
       ConfirmSegmentation, RetryASR, ResumeChapter, CancelJob, Accept, WriteQueued, PushTask
  <1>6. ASSUME \/ \E k \in Job \X JobStage : LeaseExpires(k)
               \/ \E j \in Job : DeadlinePasses(j)
        PROVE  UNCHANGED workerVars
    BY <1>6 DEF LeaseExpires, DeadlinePasses
  <1> QED
    BY <1>1, <1>2, <1>3, <1>4, <1>5, <1>6 DEF Next, workerVars, FinalNoted

\* Worker w touches the status of its own job at most, and nothing that the
\* other workers, the queues or the requests have.
Alone(w) ==
  /\ \A v \in Worker \ {w} : pc'[v] = pc[v] /\ task'[v] = task[v]
  /\ \A j \in Job : j # task[w].job => status'[j] = status[j]
  /\ UNCHANGED <<ready, delayed, req, lost>>

\* It stays responsible for that job ...
StaysOn(w) ==
  /\ Alone(w)
  /\ pc'[w] \in Responsible
  /\ task'[w] = task[w]

\* ... or it has written, or read, that nobody is busy with it.
Settles(w) == Alone(w) /\ status'[task[w].job] \notin BusyStatus

\* No row's status changes, and no task is lost from sight.
Passive ==
  /\ UNCHANGED <<status, ready, delayed, req, lost>>
  /\ \A v \in Worker : pc[v] \in Responsible => pc'[v] \in Responsible /\ task'[v] = task[v]

\* Such steps strand no job.
LEMMA StrandAlone ==
  ASSUME StrandInv, NEW w \in Worker, StaysOn(w) \/ Settles(w)
  PROVE  NoStrandedJob'
  BY DEF StrandInv, NoStrandedJob, HasTask, InReady, InDelayed, InHand, InRequest,
     StaysOn, Settles, Alone

\* Neither do steps that leave queues, workers, requests and statuses as they are.
LEMMA StrandPassive ==
  ASSUME StrandInv, Passive
  PROVE  NoStrandedJob'
  BY DEF StrandInv, NoStrandedJob, HasTask, InReady, InDelayed, InHand, InRequest, Passive

\* A task whose row is busy stays in sight while it moves.
LEMMA StrandMove ==
  ASSUME StrandInv, NEW w \in Worker,
         \/ PromoteDue(w) \/ Pop(w) \/ RequeueBusy(w) \/ Backoff(w) \/ PushNext(w)
  PROVE  NoStrandedJob'
  <1> USE DEF StrandInv, TypeInv, TypeOK
  <1>1. SUFFICES ASSUME NEW j \in Job, HasTask(j) PROVE HasTask(j)'
    <2>1. UNCHANGED <<status, lost>>
      BY DEF PromoteDue, Pop, RequeueBusy, Backoff, PushNext, jobVars, boundVars
    <2> QED  BY <1>1, <2>1 DEF NoStrandedJob
  <1>2. CASE PromoteDue(w)
    <2>1. UNCHANGED req /\ (InRequest(j) => InRequest(j)')
      BY <1>2 DEF PromoteDue, InRequest
    <2>2. InHand(j) => InHand(j)'
      BY <1>2 DEF PromoteDue, InHand, Goto, WorkersOK, Responsible, Owing, Carrying, Leasing
    <2>3. ready \in Seq(Task) /\ batch[w] \in Seq(Task)
      BY DEF RedisOK, WorkersOK
    <2>4. /\ \A i \in DOMAIN ready : i \in DOMAIN ready' /\ ready'[i] = ready[i]
          /\ \A i \in DOMAIN batch[w] : /\ Len(ready) + i \in DOMAIN ready'
                                        /\ ready'[Len(ready) + i] = batch[w][i]
      BY <1>2, <2>3 DEF PromoteDue
    <2>5. InReady(j) => InReady(j)'
      BY <2>4 DEF InReady
    <2>6. ASSUME NEW t \in delayed, t.job = j
          PROVE  InDelayed(j)' \/ InReady(j)'
      <3>1. CASE t \in delayed'
        BY <2>6, <3>1 DEF InDelayed
      <3>2. CASE t \notin delayed'
        <4>1. PICK i \in DOMAIN batch[w] : t = batch[w][i]
          BY <1>2, <3>2 DEF PromoteDue
        <4> QED  BY <2>4, <2>6, <4>1 DEF InReady
      <3> QED  BY <3>1, <3>2
    <2>7. InDelayed(j) => InDelayed(j)' \/ InReady(j)'
      BY <2>6 DEF InDelayed
    <2> QED  BY <1>1, <2>1, <2>2, <2>5, <2>7 DEF HasTask
  <1>3. CASE Pop(w)
    <2>1. InRequest(j) => InRequest(j)'
      BY <1>3 DEF Pop, InRequest
    <2>2. InDelayed(j) => InDelayed(j)'
      BY <1>3 DEF Pop, InDelayed
    <2>3. InHand(j) => InHand(j)'
      BY <1>3 DEF Pop, InHand, Goto, WorkersOK, Responsible, Owing, Carrying, Leasing
    <2>4. ASSUME NEW i \in DOMAIN ready, ready[i].job = j
          PROVE  InHand(j)' \/ InReady(j)'
      <3>1. ready \in Seq(Task) /\ ready # <<>>
        BY <1>3 DEF RedisOK, Pop
      <3>2. CASE i = 1
        <4>1. pc'[w] \in Responsible /\ task'[w] = ready[1]
          BY <1>3, <3>1 DEF Pop, Goto, WorkersOK, Responsible, Owing, Carrying
        <4> QED  BY <2>4, <3>2, <4>1 DEF InHand
      <3>3. CASE i # 1
        <4>1. i - 1 \in DOMAIN Tail(ready) /\ Tail(ready)[i - 1] = ready[i]
          BY <3>1, <3>3
        <4> QED  BY <1>3, <2>4, <4>1 DEF Pop, InReady
      <3> QED  BY <3>2, <3>3
    <2>5. InReady(j) => InHand(j)' \/ InReady(j)'
      BY <2>4 DEF InReady
    <2> QED  BY <1>1, <2>1, <2>2, <2>3, <2>5 DEF HasTask
  <1>4. CASE RequeueBusy(w)
    <2>1. InRequest(j) /\ UNCHANGED req => InRequest(j)'
      BY DEF InRequest
    <2>2. InReady(j) /\ UNCHANGED ready => InReady(j)'
      BY DEF InReady
    <2>3. InDelayed(j) => InDelayed(j)'
      BY <1>4 DEF RequeueBusy, InDelayed
    <2>4. InHand(j) => InHand(j)' \/ InDelayed(j)'
      BY <1>4 DEF RequeueBusy, InHand, InDelayed, Idle, Goto, WorkersOK
    <2> QED  BY <1>1, <1>4, <2>1, <2>2, <2>3, <2>4 DEF HasTask, RequeueBusy
  <1>5. CASE Backoff(w)
    <2>1. InRequest(j) /\ UNCHANGED req => InRequest(j)'
      BY DEF InRequest
    <2>2. InReady(j) /\ UNCHANGED ready => InReady(j)'
      BY DEF InReady
    <2>3. InDelayed(j) => InDelayed(j)'
      BY <1>5 DEF Backoff, InDelayed
    <2>4. task[w] \in Task
      BY <1>5, CarriedTask DEF Backoff, Carrying, Leasing
    <2>5. [task[w] EXCEPT !.attempt = @ + 1].job = task[w].job
      BY <2>4 DEF Task
    <2>6. InHand(j) => InHand(j)' \/ InDelayed(j)'
      BY <1>5, <2>5 DEF Backoff, InHand, InDelayed, Goto, WorkersOK
    <2> QED  BY <1>1, <1>5, <2>1, <2>2, <2>3, <2>6 DEF HasTask, Backoff
  <1>6. CASE PushNext(w)
    <2>1. InRequest(j) /\ UNCHANGED req => InRequest(j)'
      BY DEF InRequest
    <2>2. InDelayed(j) /\ UNCHANGED delayed => InDelayed(j)'
      BY DEF InDelayed
    <2>3. PICK s \in NextOf(task[w].stage) :
            ready' = Append(ready, NewTask(task[w].job, s, FALSE, "pipeline"))
      BY <1>6 DEF PushNext
    <2>4. /\ ready \in Seq(Task)
          /\ NewTask(task[w].job, s, FALSE, "pipeline") \in Task
          /\ NewTask(task[w].job, s, FALSE, "pipeline").job = task[w].job
      BY <1>6, CarriedTask, NextIsStage, NewTaskIsTask
      DEF RedisOK, PushNext, Carrying, Leasing, NewTask
    <2>5. PICK t \in Task : ready' = Append(ready, t) /\ t.job = task[w].job
      BY <2>3, <2>4
    <2>6. /\ \A i \in DOMAIN ready : i \in DOMAIN ready' /\ ready'[i] = ready[i]
          /\ Len(ready) + 1 \in DOMAIN ready' /\ ready'[Len(ready) + 1].job = task[w].job
      BY <2>4, <2>5
    <2>7. InReady(j) => InReady(j)'
      BY <2>6 DEF InReady
    <2>8. InHand(j) => InHand(j)' \/ InReady(j)'
      BY <1>6, <2>6 DEF PushNext, InHand, InReady, Goto, WorkersOK
    <2> QED  BY <1>1, <1>6, <2>1, <2>2, <2>7, <2>8 DEF HasTask, PushNext
  <1> QED  BY <1>2, <1>3, <1>4, <1>5, <1>6

\* What the requests do to a task that is about to be pushed.
LEMMA StrandRequest ==
  ASSUME StrandInv, NEW r \in Request, Ask(r) \/ EnqueueStage(r) \/ AbortRequest(r)
  PROVE  NoStrandedJob'
  <1> USE DEF StrandInv, TypeInv, TypeOK
  <1>1. ASSUME NEW j \in Job, HasTask(j), UNCHANGED workerVars, UNCHANGED redisVars,
               \A q \in Request \ {r} : req'[q] = req[q],
               req[r].pc # "push"
        PROVE  HasTask(j)'
    <2>1. InReady(j) => InReady(j)'
      BY <1>1 DEF InReady, redisVars
    <2>2. InDelayed(j) => InDelayed(j)'
      BY <1>1 DEF InDelayed, redisVars
    <2>3. InHand(j) => InHand(j)'
      BY <1>1 DEF InHand, workerVars
    <2>4. InRequest(j) => InRequest(j)'
      BY <1>1 DEF InRequest
    <2> QED  BY <1>1, <2>1, <2>2, <2>3, <2>4 DEF HasTask
  <1>2. CASE Ask(r)
    <2>1. /\ UNCHANGED workerVars /\ UNCHANGED redisVars /\ UNCHANGED lost
          /\ \A q \in Request \ {r} : req'[q] = req[q]
          /\ req[r].pc = "new"
          /\ \A j \in Job : status'[j] \in BusyStatus => status[j] \in BusyStatus
      BY <1>2 DEF Ask, StartJob, RetryJob, RetryCurrentStage, ConfirmSegmentation,
         RetryASR, ResumeChapter, CancelJob, Accept, RequestsOK, JobsOK, BusyStatus,
         jobVars, boundVars
    <2> QED  BY <1>1, <2>1 DEF NoStrandedJob
  <1>3. CASE WriteQueued(r)
    <2>1. /\ UNCHANGED workerVars /\ UNCHANGED redisVars /\ UNCHANGED lost
          /\ \A q \in Request \ {r} : req'[q] = req[q]
          /\ req[r].pc = "write"
          /\ req'[r].pc = "push" /\ req'[r].task = req[r].task
          /\ \A j \in Job : j # req[r].task.job => status'[j] = status[j]
      BY <1>3, Requested DEF WriteQueued, UpdateJobState, RequestsOK, JobsOK, boundVars
    <2>2. InRequest(req[r].task.job)'
      BY <2>1 DEF InRequest
    <2> QED  BY <1>1, <2>1, <2>2 DEF NoStrandedJob, HasTask
  <1>4. CASE PushTask(r)
    <2>1. /\ UNCHANGED workerVars /\ UNCHANGED <<status, delayed, lost>>
          /\ \A q \in Request \ {r} : req'[q] = req[q]
      BY <1>4 DEF PushTask, RequestsOK, jobVars, boundVars
    <2>2. ready \in Seq(Task) /\ req[r].task \in Task
      BY <1>4, Requested DEF PushTask, RedisOK
    <2>3. /\ \A i \in DOMAIN ready : i \in DOMAIN ready' /\ ready'[i] = ready[i]
          /\ Len(ready) + 1 \in DOMAIN ready' /\ ready'[Len(ready) + 1] = req[r].task
      BY <1>4, <2>2 DEF PushTask
    <2>4. ASSUME NEW j \in Job, HasTask(j) PROVE HasTask(j)'
      <3>1. InReady(j) => InReady(j)'
        BY <2>3 DEF InReady
      <3>2. InDelayed(j) => InDelayed(j)'
        BY <2>1 DEF InDelayed
      <3>3. InHand(j) => InHand(j)'
        BY <2>1 DEF InHand, workerVars
      <3>4. InRequest(j) => InRequest(j)' \/ InReady(j)'
        BY <2>1, <2>3 DEF InRequest, InReady
      <3> QED  BY <2>4, <3>1, <3>2, <3>3, <3>4 DEF HasTask
    <2> QED  BY <2>1, <2>4 DEF NoStrandedJob
  <1>5. CASE AbortRequest(r)
    <2>1. CASE req[r].pc = "push"
      <3>1. /\ UNCHANGED workerVars /\ UNCHANGED <<status, ready, delayed>>
            /\ \A q \in Request \ {r} : req'[q] = req[q]
            /\ lost' = lost \cup {req[r].task.job}
        BY <1>5, <2>1 DEF AbortRequest, RequestsOK, jobVars, redisVars
      <3>2. ASSUME NEW j \in Job, j # req[r].task.job, HasTask(j) PROVE HasTask(j)'
        BY <3>1, <3>2 DEF HasTask, InReady, InDelayed, InHand, InRequest, workerVars
      <3> QED  BY <3>1, <3>2 DEF NoStrandedJob
    <2>2. CASE req[r].pc = "write"
      <3>1. /\ UNCHANGED workerVars /\ UNCHANGED redisVars /\ UNCHANGED <<status, lost>>
            /\ \A q \in Request \ {r} : req'[q] = req[q]
        BY <1>5, <2>2 DEF AbortRequest, RequestsOK, jobVars
      <3> QED  BY <1>1, <2>2, <3>1 DEF NoStrandedJob
    <2> QED  BY <1>5, <2>1, <2>2 DEF AbortRequest
  <1> QED  BY <1>2, <1>3, <1>4, <1>5 DEF EnqueueStage

\* A worker that stops is recorded as the loss of the job it owed something.
LEMMA StrandStop ==
  ASSUME StrandInv, NEW w \in Worker, Crash(w) \/ Shutdown(w)
  PROVE  NoStrandedJob'
  <1>1. /\ UNCHANGED <<status, ready, delayed, req>>
        /\ \A v \in Worker \ {w} : pc'[v] = pc[v] /\ task'[v] = task[v]
        /\ lost \subseteq lost'
        /\ pc[w] \in Responsible => task[w].job \in lost'
    BY DEF Crash, Shutdown, Vanish, Idle, Goto, StrandInv, TypeInv, TypeOK, WorkersOK,
       Responsible, Owing, jobVars
  <1>2. ASSUME NEW j \in Job, HasTask(j) PROVE HasTask(j)' \/ j \in lost'
    BY <1>1, <1>2 DEF HasTask, InReady, InDelayed, InHand, InRequest
  <1> QED  BY <1>1, <1>2 DEF StrandInv, NoStrandedJob

\* Every other step of a worker, and of the environment, is quiet for the jobs.
LEMMA StrandRest ==
  ASSUME StrandInv, NEW w \in Worker
  PROVE  /\ \/ LoadJob(w) \/ AcquireStageLease(w) \/ MarkRunning(w) \/ BeginStage(w)
            \/ SaveJob(w) \/ ParkForChapterize(w) \/ ParkForReview(w) \/ StageReturns(w)
            \/ StageFails(w) \/ CancelGate(w) \/ CheckCancel(w) \/ SettleRetry(w)
            \/ FinishStageRun(w) \/ Advance(w)
            => StaysOn(w)
         /\ \/ FailExpired(w) \/ DropCancelled(w) \/ SettleCancelled(w) \/ CompleteJob(w)
            \/ SettleFinal(w)
            => Settles(w)
         /\ RefreshJob(w) => StaysOn(w) \/ Settles(w)
         /\ ReadDue(w) \/ Bury(w) \/ ReleaseStageLease(w) \/ RefreshLease(w) => Passive
  <1> USE DEF StrandInv, TypeInv, TypeOK, WorkersOK, Goto
  <1> USE DEF Responsible, Owing, Carrying, Leasing
  <1>1. ASSUME LoadJob(w) \/ AcquireStageLease(w) \/ BeginStage(w)
               \/ StageReturns(w) \/ StageFails(w) \/ CancelGate(w) \/ CheckCancel(w)
               \/ FinishStageRun(w)
        PROVE  StaysOn(w)
    BY <1>1 DEF LoadJob, AcquireStageLease, BeginStage, StageReturns, StageFails,
       CancelGate, CheckCancel, FinishStageRun, StaysOn, Alone, jobVars, redisVars, boundVars
  <1>2. ASSUME \/ MarkRunning(w) \/ SaveJob(w) \/ ParkForChapterize(w) \/ ParkForReview(w)
               \/ SettleRetry(w) \/ Advance(w)
        PROVE  StaysOn(w)
    BY <1>2 DEF MarkRunning, SaveJob, ParkForChapterize, ParkForReview, SettleRetry, Advance,
       StaysOn, Alone, redisVars, boundVars, UpdateJobState, JobsOK
  <1>3. ASSUME FailExpired(w) \/ DropCancelled(w) \/ SettleCancelled(w) \/ CompleteJob(w)
        PROVE  Settles(w)
    <2>1. task[w].job \in Job
      BY <1>3, CarriedTask DEF FailExpired, DropCancelled, SettleCancelled, CompleteJob
    <2> QED
      BY <1>3, <2>1 DEF FailExpired, DropCancelled, SettleCancelled, CompleteJob, Idle,
         Settles, Alone, redisVars, boundVars, UpdateJobState, JobsOK, BusyStatus
  <1>4. ASSUME RefreshJob(w) PROVE StaysOn(w) \/ Settles(w)
    BY <1>4 DEF RefreshJob, StaysOn, Settles, Alone, jobVars, redisVars, boundVars,
       ParkedStatus, BusyStatus
  <1>5. ASSUME SettleFinal(w) PROVE Settles(w)
    <2>1. task[w].job \in Job /\ local[w].status \notin BusyStatus
      BY <1>5, CarriedTask DEF SettleFinal, FinalNoted, FailureStatus, TerminalStatus, BusyStatus
    <2> QED
      BY <1>5, <2>1 DEF SettleFinal, Settles, Alone, redisVars, boundVars, UpdateJobState,
         JobsOK
  <1>6. ASSUME ReadDue(w) \/ Bury(w) \/ ReleaseStageLease(w) \/ RefreshLease(w)
        PROVE  Passive
    BY <1>6 DEF ReadDue, Bury, ReleaseStageLease, RefreshLease, Idle, Passive, jobVars,
       redisVars, boundVars, workerVars
  <1> QED  BY <1>1, <1>2, <1>3, <1>4, <1>5, <1>6

\* The strengthened invariant is inductive.
LEMMA StrandStep == StrandInv /\ [Next]_vars => StrandInv'
  <1> SUFFICES ASSUME StrandInv, [Next]_vars PROVE StrandInv'
    OBVIOUS
  <1>1. TypeInv' /\ FinalNoted'
    BY TypeStep, FinalNotedStep DEF StrandInv
  <1>2. ASSUME UNCHANGED vars PROVE NoStrandedJob'
    BY <1>2, StrandPassive DEF vars, jobVars, redisVars, workerVars, boundVars, Passive
  <1>3. ASSUME NEW w \in Worker, WorkerLoop(w) \/ RefreshLease(w) \/ Crash(w) \/ Shutdown(w)
        PROVE  NoStrandedJob'
    BY <1>3, StrandMove, StrandRest, StrandStop, StrandAlone, StrandPassive DEF WorkerLoop, HandleTask
  <1>4. ASSUME NEW r \in Request, Ask(r) \/ EnqueueStage(r) \/ AbortRequest(r)
        PROVE  NoStrandedJob'
    BY <1>4, StrandRequest
  <1>5. ASSUME \/ \E k \in Job \X JobStage : LeaseExpires(k)
               \/ \E j \in Job : DeadlinePasses(j)
        PROVE  NoStrandedJob'
    <2>1. Passive
      BY <1>5 DEF LeaseExpires, DeadlinePasses, Passive, jobVars, redisVars, workerVars,
         boundVars
    <2> QED  BY <2>1, StrandPassive
  <1>6. NoStrandedJob'
    BY <1>2, <1>3, <1>4, <1>5 DEF Next
  <1> QED  BY <1>1, <1>6 DEF StrandInv

\* A queued or running job always has a task in a queue, in the hands of a
\* worker or about to be pushed, unless a crash, a shutdown or an aborted request
\* took it: no retry, requeue, promotion, park or cancellation strands a job.
THEOREM NoJobIsStranded == Spec => []NoStrandedJob
  <1>1. Init => StrandInv
    BY TypeInit DEF Init, StrandInv, TypeInv, AttemptsLeft, FinalNoted, NoStrandedJob,
       BusyStatus
  <1>2. StrandInv => NoStrandedJob
    BY DEF StrandInv
  <1> QED  BY <1>1, <1>2, StrandStep, PTL DEF Spec

-----------------------------------------------------------------------------
(* What the row of a chapter job says once its work is over, and what a    *)
(* task that advances a job stands on: the completed stage runs, the       *)
(* dead-letter list, and the copies of a row that a worker keeps while a   *)
(* stage runs.                                                             *)

\* The failure of job j is on record: a dead letter, a worker about to write
\* one, or the crash that took it.
Buried(j) ==
  \/ \E t \in dead : t.job = j
  \/ \E w \in Worker : pc[w] = "bury" /\ task[w].job = j
  \/ j \in lost

\* A worker that goes on after its stage has recorded the stage's run.
AfterStage == {"complete", "refresh", "advance", "push"}
StageRecorded ==
  \A w \in Worker : pc[w] \in AfterStage => task[w].stage \in done[task[w].job]

\* The copy of a row that runSeparate and runMerge write back at their end: what
\* it says of a finished or failed job is as true as when it was read.
Rewriting(w) == pc[w] = "run" /\ task[w].stage \in {"separate", "merge"}
CopyIsTrue ==
  \A w \in Worker : Rewriting(w) =>
    /\ local[w].status = "completed" => local[w].stage \in done[task[w].job]
    /\ local[w].status = "failed" => Buried(task[w].job)

\* Every task there is, also those read for promotion and not yet moved.
Queued == {ready[i] : i \in DOMAIN ready} \cup delayed
Read(w) == {batch[w][i] : i \in DOMAIN batch[w]}
Exists(t) ==
  \/ t \in Queued
  \/ \E w \in Worker : t \in Read(w) \/ (pc[w] \in Carrying /\ t = task[w])

\* A task of the auto-advance has a completed stage before its own.
Earned(t) == t.by = "pipeline" => \E s \in done[t.job] : t.stage \in NextOf(s)
TasksEarned == \A t \in Task : Exists(t) => Earned(t)

\* Requests sign what they enqueue.
RequestsSigned ==
  \A r \in Request : req[r].pc \in {"write", "push"} => req[r].task.by = "request"

-----------------------------------------------------------------------------
(* What a step leaves in place.                                            *)

\* A completed stage run stays completed.
LEMMA DoneGrows ==
  ASSUME TypeInv, [Next]_vars
  PROVE  \A j \in Job : done[j] \subseteq done'[j]
  <1>1. ASSUME NEW w \in Worker, FinishStageRun(w)
        PROVE  \A j \in Job : done[j] \subseteq done'[j]
    BY <1>1 DEF FinishStageRun, TypeInv, TypeOK, JobsOK
  <1>2. ASSUME NEW w \in Worker, WorkerLoop(w) \/ RefreshLease(w) \/ Crash(w) \/ Shutdown(w),
               ~FinishStageRun(w)
        PROVE  UNCHANGED done
    <2>1. CASE \/ ReadDue(w) \/ PromoteDue(w) \/ Pop(w) \/ LoadJob(w) \/ FailExpired(w)
               \/ DropCancelled(w) \/ AcquireStageLease(w) \/ RequeueBusy(w)
               \/ MarkRunning(w) \/ BeginStage(w)
      BY <2>1 DEF ReadDue, PromoteDue, Pop, LoadJob, FailExpired, DropCancelled,
         AcquireStageLease, RequeueBusy, MarkRunning, BeginStage, jobVars
    <2>2. CASE \/ SaveJob(w) \/ ParkForChapterize(w) \/ ParkForReview(w) \/ StageReturns(w)
               \/ StageFails(w) \/ CancelGate(w) \/ CheckCancel(w) \/ SettleCancelled(w)
               \/ SettleRetry(w) \/ SettleFinal(w) \/ Backoff(w) \/ Bury(w)
      BY <2>2 DEF SaveJob, ParkForChapterize, ParkForReview, StageReturns, StageFails,
         CancelGate, CheckCancel, SettleCancelled, SettleRetry, SettleFinal, Backoff, Bury,
         jobVars
    <2>3. CASE \/ CompleteJob(w) \/ RefreshJob(w) \/ Advance(w) \/ PushNext(w)
               \/ ReleaseStageLease(w) \/ Crash(w) \/ Shutdown(w) \/ RefreshLease(w)
      BY <2>3 DEF CompleteJob, RefreshJob, Advance, PushNext, ReleaseStageLease, Crash,
         Shutdown, Vanish, RefreshLease, jobVars
    <2> QED  BY <1>2, <2>1, <2>2, <2>3 DEF WorkerLoop, HandleTask
  <1>3. ASSUME NEW r \in Request, Ask(r) \/ EnqueueStage(r) \/ AbortRequest(r)
        PROVE  UNCHANGED done
    BY <1>3 DEF Ask, EnqueueStage, AbortRequest, StartJob, RetryJob, RetryCurrentStage,
       ConfirmSegmentation, RetryASR, ResumeChapter, CancelJob, Accept, WriteQueued,
       PushTask, jobVars
  <1>4. ASSUME \/ \E k \in Job \X JobStage : LeaseExpires(k)
               \/ \E j \in Job : DeadlinePasses(j)
        PROVE  UNCHANGED done
    BY <1>4 DEF LeaseExpires, DeadlinePasses, jobVars
  <1> QED
    BY <1>1, <1>2, <1>3, <1>4 DEF Next, vars, jobVars

\* A failure on record stays on record: the list and the history only grow, and
\* a worker that leaves its dead letter unwritten has crashed or been stopped.
LEMMA BuriedStays ==
  ASSUME TypeInv, [Next]_vars, NEW j \in Job, Buried(j)
  PROVE  Buried(j)'
  <1> USE DEF TypeInv, TypeOK, WorkersOK, Goto, Idle
  <1>1. ASSUME UNCHANGED <<dead, lost>>,
               \A w \in Worker : pc[w] = "bury" => pc'[w] = "bury" /\ task'[w] = task[w]
        PROVE  Buried(j)'
    BY <1>1 DEF Buried
  <1>2. ASSUME NEW w \in Worker, Bury(w) PROVE Buried(j)'
    BY <1>2 DEF Bury, Buried, boundVars
  <1>3. ASSUME NEW w \in Worker, Crash(w) \/ Shutdown(w) PROVE Buried(j)'
    <2>1. /\ UNCHANGED dead /\ lost \subseteq lost'
          /\ \A v \in Worker \ {w} : pc'[v] = pc[v] /\ task'[v] = task[v]
          /\ pc[w] = "bury" => task[w].job \in lost'
      BY <1>3 DEF Crash, Shutdown, Vanish, Owing, Carrying, Leasing
    <2> QED  BY <2>1 DEF Buried
  <1>4. ASSUME NEW w \in Worker, WorkerLoop(w) \/ RefreshLease(w), ~Bury(w)
        PROVE  /\ UNCHANGED <<dead, lost>>
               /\ \A v \in Worker : pc[v] = "bury" => pc'[v] = "bury" /\ task'[v] = task[v]
    <2>1. CASE \/ ReadDue(w) \/ PromoteDue(w) \/ Pop(w) \/ LoadJob(w) \/ FailExpired(w)
               \/ DropCancelled(w) \/ AcquireStageLease(w) \/ RequeueBusy(w)
               \/ MarkRunning(w) \/ BeginStage(w)
      BY <2>1 DEF ReadDue, PromoteDue, Pop, LoadJob, FailExpired, DropCancelled,
         AcquireStageLease, RequeueBusy, MarkRunning, BeginStage, redisVars, boundVars
    <2>2. CASE \/ SaveJob(w) \/ ParkForChapterize(w) \/ ParkForReview(w) \/ StageReturns(w)
               \/ StageFails(w) \/ CancelGate(w) \/ CheckCancel(w) \/ SettleCancelled(w)
               \/ SettleRetry(w) \/ SettleFinal(w) \/ Backoff(w)
      BY <2>2 DEF SaveJob, ParkForChapterize, ParkForReview, StageReturns, StageFails,
         CancelGate, CheckCancel, SettleCancelled, SettleRetry, SettleFinal, Backoff,
         redisVars, boundVars
    <2>3. CASE \/ FinishStageRun(w) \/ CompleteJob(w) \/ RefreshJob(w) \/ Advance(w)
               \/ PushNext(w) \/ ReleaseStageLease(w) \/ RefreshLease(w)
      BY <2>3 DEF FinishStageRun, CompleteJob, RefreshJob, Advance, PushNext,
         ReleaseStageLease, RefreshLease, redisVars, boundVars, workerVars
    <2> QED  BY <1>4, <2>1, <2>2, <2>3 DEF WorkerLoop, HandleTask
  <1>5. ASSUME NEW r \in Request, Ask(r) \/ EnqueueStage(r) \/ AbortRequest(r)
        PROVE  UNCHANGED workerVars /\ UNCHANGED dead /\ lost \subseteq lost'
    BY <1>5 DEF Ask, EnqueueStage, AbortRequest, StartJob, RetryJob, RetryCurrentStage,
       ConfirmSegmentation, RetryASR, ResumeChapter, CancelJob, Accept, WriteQueued,
       PushTask, redisVars, boundVars
  <1>6. ASSUME \/ \E k \in Job \X JobStage : LeaseExpires(k)
               \/ \E i \in Job : DeadlinePasses(i)
        PROVE  UNCHANGED workerVars /\ UNCHANGED dead /\ lost \subseteq lost'
    BY <1>6 DEF LeaseExpires, DeadlinePasses, redisVars, boundVars
  <1>7. ASSUME UNCHANGED workerVars /\ UNCHANGED dead /\ lost \subseteq lost'
        PROVE  Buried(j)'
    BY <1>7 DEF Buried, workerVars
  <1>8. UNCHANGED vars => UNCHANGED workerVars /\ UNCHANGED dead /\ lost \subseteq lost'
    BY DEF vars, redisVars, boundVars
  <1> QED
    BY <1>1, <1>2, <1>3, <1>4, <1>5, <1>6, <1>7, <1>8 DEF Next

-----------------------------------------------------------------------------
(* How a worker comes to where it is.                                      *)

\* A worker that runs a stage or goes on after it carries the task it had, and
\* came there by the one call that leads there.
LEMMA WorkerMoves ==
  ASSUME TypeInv, [Next]_vars, NEW v \in Worker, pc'[v] \in AfterStage \cup {"run"}
  PROVE  /\ task'[v] = task[v]
         /\ \/ pc'[v] = pc[v] /\ local'[v] = local[v]
            \/ pc'[v] = "run" /\ BeginStage(v)
            \/ pc'[v] # "run" /\ FinishStageRun(v)
            \/ pc'[v] # "run" /\ pc[v] \in AfterStage
  <1> DEFINE Here == pc'[v] = pc[v] /\ local'[v] = local[v] /\ task'[v] = task[v]
  <1> USE DEF TypeInv, TypeOK, WorkersOK, Goto, Idle, AfterStage
  <1>1. UNCHANGED workerVars => Here
    BY DEF workerVars
  <1>2. ASSUME NEW w \in Worker,
               \/ ReadDue(w) \/ PromoteDue(w) \/ Pop(w) \/ LoadJob(w) \/ FailExpired(w)
               \/ DropCancelled(w) \/ AcquireStageLease(w) \/ RequeueBusy(w)
               \/ MarkRunning(w)
        PROVE  Here
    BY <1>2 DEF ReadDue, PromoteDue, Pop, LoadJob, FailExpired, DropCancelled,
       AcquireStageLease, RequeueBusy, MarkRunning
  <1>3. ASSUME NEW w \in Worker, BeginStage(w)
        PROVE  Here \/ (pc'[v] = "run" /\ BeginStage(v) /\ task'[v] = task[v])
    BY <1>3 DEF BeginStage
  <1>4. ASSUME NEW w \in Worker,
               \/ SaveJob(w) \/ ParkForChapterize(w) \/ ParkForReview(w) \/ StageReturns(w)
               \/ StageFails(w) \/ CancelGate(w) \/ CheckCancel(w) \/ SettleCancelled(w)
               \/ SettleRetry(w) \/ SettleFinal(w) \/ Backoff(w) \/ Bury(w)
        PROVE  Here
    BY <1>4 DEF SaveJob, ParkForChapterize, ParkForReview, StageReturns, StageFails,
       CancelGate, CheckCancel, SettleCancelled, SettleRetry, SettleFinal, Backoff, Bury
  <1>5. ASSUME NEW w \in Worker, FinishStageRun(w)
        PROVE  Here \/ (pc'[v] # "run" /\ FinishStageRun(v) /\ task'[v] = task[v])
    BY <1>5 DEF FinishStageRun
  <1>6. ASSUME NEW w \in Worker, RefreshJob(w) \/ Advance(w)
        PROVE  Here \/ (pc'[v] # "run" /\ pc[v] \in AfterStage /\ task'[v] = task[v])
    BY <1>6 DEF RefreshJob, Advance
  <1>7. ASSUME NEW w \in Worker,
               \/ CompleteJob(w) \/ PushNext(w) \/ ReleaseStageLease(w) \/ Crash(w)
               \/ Shutdown(w)
        PROVE  Here
    BY <1>7 DEF CompleteJob, PushNext, ReleaseStageLease, Crash, Shutdown, Vanish
  <1>8. ASSUME NEW w \in Worker, RefreshLease(w) PROVE UNCHANGED workerVars
    BY <1>8 DEF RefreshLease
  <1>9. ASSUME NEW r \in Request, Ask(r) \/ EnqueueStage(r) \/ AbortRequest(r)
        PROVE  UNCHANGED workerVars
    BY <1>9 DEF Ask, EnqueueStage, AbortRequest, StartJob, RetryJob, RetryCurrentStage,
       ConfirmSegmentation, RetryASR, ResumeChapter, CancelJob, Accept, WriteQueued, PushTask
  <1>10. ASSUME \/ \E k \in Job \X JobStage : LeaseExpires(k)
                \/ \E j \in Job : DeadlinePasses(j)
         PROVE  UNCHANGED workerVars
    BY <1>10 DEF LeaseExpires, DeadlinePasses
  <1>11. UNCHANGED vars => UNCHANGED workerVars
    BY DEF vars
  <1> QED
    BY <1>1, <1>2, <1>3, <1>4, <1>5, <1>6, <1>7, <1>8, <1>9, <1>10, <1>11
    DEF Next, WorkerLoop, HandleTask

\* Who makes a row say completed or failed: the worker that completes the job, the
\* one that settles its last failure, and one that writes an old copy back.
LEMMA RowWritten ==
  ASSUME TypeInv, [Next]_vars, NEW j \in Job, status'[j] \in {"completed", "failed"}
  PROVE  \/ status'[j] = status[j] /\ stage'[j] = stage[j]
         \/ \E w \in Worker : /\ task[w].job = j
                              /\ CompleteJob(w) \/ SettleFinal(w) \/ SaveJob(w)
  <1> DEFINE Same == status'[j] = status[j] /\ stage'[j] = stage[j]
  <1> USE DEF TypeInv, TypeOK, JobsOK, UpdateJobState
  <1>1. ASSUME NEW w \in Worker,
               \/ ReadDue(w) \/ PromoteDue(w) \/ Pop(w) \/ LoadJob(w) \/ FailExpired(w)
               \/ DropCancelled(w) \/ AcquireStageLease(w) \/ RequeueBusy(w)
               \/ MarkRunning(w) \/ BeginStage(w)
        PROVE  Same
    BY <1>1 DEF ReadDue, PromoteDue, Pop, LoadJob, FailExpired, DropCancelled,
       AcquireStageLease, RequeueBusy, MarkRunning, BeginStage, jobVars
  <1>2. ASSUME NEW w \in Worker,
               \/ ParkForChapterize(w) \/ ParkForReview(w) \/ StageReturns(w)
               \/ StageFails(w) \/ CancelGate(w) \/ CheckCancel(w) \/ SettleCancelled(w)
               \/ SettleRetry(w) \/ Backoff(w) \/ Bury(w)
        PROVE  Same
    BY <1>2 DEF ParkForChapterize, ParkForReview, StageReturns, StageFails,
       CancelGate, CheckCancel, SettleCancelled, SettleRetry, Backoff, Bury, jobVars
  <1>3. ASSUME NEW w \in Worker, CompleteJob(w) \/ SettleFinal(w) \/ SaveJob(w)
        PROVE  Same \/ task[w].job = j
    BY <1>3 DEF CompleteJob, SettleFinal, SaveJob
  <1>4. ASSUME NEW w \in Worker,
               \/ FinishStageRun(w) \/ RefreshJob(w) \/ Advance(w) \/ PushNext(w)
               \/ ReleaseStageLease(w) \/ Crash(w) \/ Shutdown(w) \/ RefreshLease(w)
        PROVE  Same
    BY <1>4 DEF FinishStageRun, RefreshJob, Advance, PushNext, ReleaseStageLease, Crash,
       Shutdown, Vanish, RefreshLease, jobVars
  <1>5. ASSUME NEW r \in Request, Ask(r) \/ EnqueueStage(r) \/ AbortRequest(r) PROVE Same
    BY <1>5 DEF Ask, EnqueueStage, AbortRequest, StartJob, RetryJob, RetryCurrentStage,
       ConfirmSegmentation, RetryASR, ResumeChapter, CancelJob, Accept, WriteQueued,
       PushTask, jobVars
  <1>6. ASSUME \/ \E k \in Job \X JobStage : LeaseExpires(k)
               \/ \E i \in Job : DeadlinePasses(i)
        PROVE  Same
    BY <1>6 DEF LeaseExpires, DeadlinePasses, jobVars
  <1>7. UNCHANGED vars => Same
    BY DEF vars, jobVars
  <1> QED
    BY <1>1, <1>2, <1>3, <1>4, <1>5, <1>6, <1>7 DEF Next, WorkerLoop, HandleTask

-----------------------------------------------------------------------------
(* Where a task comes from.                                                *)

\* Task t carries on task u: the same stage of the same job, for the same sender.
CarriesOn(t, u) == t.job = u.job /\ t.stage = u.stage /\ t.by = u.by

\* The auto-advance of worker w creates task t.
AdvancedBy(t, w) ==
  /\ pc[w] = "push"
  /\ t.job = task[w].job
  /\ t.stage \in NextOf(task[w].stage)

\* A task that exists after a step existed before it, perhaps with an attempt
\* less, or was sent by a request, or is the auto-advance of a worker.
LEMMA TaskOrigin ==
  ASSUME TypeInv, RequestsSigned, [Next]_vars, NEW t \in Task, Exists(t)'
  PROVE  \/ \E u \in Task : Exists(u) /\ CarriesOn(t, u)
         \/ t.by = "request"
         \/ \E w \in Worker : AdvancedBy(t, w)
  <1> DEFINE Old == \E u \in Task : Exists(u) /\ CarriesOn(t, u)
  <1> USE DEF TypeInv, TypeOK
  <1>1. Exists(t) => Old
    BY DEF CarriesOn
  <1>2. ASSUME UNCHANGED <<ready, delayed>>,
               \A v \in Worker : Read(v)' \subseteq Read(v) \cup delayed,
               \A v \in Worker : pc'[v] \in Carrying => pc[v] \in Carrying /\ task'[v] = task[v]
        PROVE  Exists(t)
    BY <1>2 DEF Exists, Queued
  <1>3. UNCHANGED workerVars /\ UNCHANGED <<ready, delayed>> => Exists(t)
    BY <1>2 DEF workerVars, Read
  <1>4. ASSUME NEW w \in Worker, ReadDue(w) PROVE Exists(t)
    <2>1. PICK n \in 1..PromoteLimit : \E due \in [1..n -> delayed] :
            batch' = [batch EXCEPT ![w] = due]
      BY <1>4 DEF ReadDue
    <2>2. \A v \in Worker : Read(v)' \subseteq Read(v) \cup delayed
      BY <2>1 DEF Read, WorkersOK
    <2>3. \A v \in Worker : pc'[v] \in Carrying => pc[v] \in Carrying /\ task'[v] = task[v]
      BY <1>4 DEF ReadDue, Goto, WorkersOK, Carrying, Leasing
    <2> QED  BY <1>2, <1>4, <2>2, <2>3 DEF ReadDue, redisVars
  <1>5. ASSUME NEW w \in Worker, PromoteDue(w) PROVE Exists(t)
    <2>1. ready \in Seq(Task) /\ batch[w] \in Seq(Task)
      BY DEF RedisOK, WorkersOK
    <2>2. \A i \in DOMAIN ready' : ready'[i] \in {ready[k] : k \in DOMAIN ready} \cup Read(w)
      BY <1>5, <2>1 DEF PromoteDue, Read
    <2>3. Queued' \subseteq Queued \cup Read(w)
      BY <1>5, <2>2 DEF Queued, PromoteDue
    <2>4. \A v \in Worker : Read(v)' \subseteq Read(v)
      BY <1>5 DEF PromoteDue, Read, WorkersOK
    <2>5. \A v \in Worker : pc'[v] \in Carrying => pc[v] \in Carrying /\ task'[v] = task[v]
      BY <1>5 DEF PromoteDue, Goto, WorkersOK, Carrying, Leasing
    <2> QED  BY <2>3, <2>4, <2>5 DEF Exists
  <1>6. ASSUME NEW w \in Worker, Pop(w) PROVE Exists(t)
    <2>1. ready \in Seq(Task) /\ ready # <<>>
      BY <1>6 DEF Pop, RedisOK
    <2>2. Head(ready) \in Queued
      BY <2>1 DEF Queued
    <2>3. Queued' \subseteq Queued
      BY <1>6, <2>1 DEF Queued, Pop
    <2>4. \A v \in Worker : Read(v)' = Read(v)
      BY <1>6 DEF Pop, Read
    <2>5. \A v \in Worker : pc'[v] \in Carrying =>
            \/ pc[v] \in Carrying /\ task'[v] = task[v]
            \/ task'[v] = Head(ready)
      BY <1>6 DEF Pop, Goto, WorkersOK
    <2> QED  BY <2>2, <2>3, <2>4, <2>5 DEF Exists
  <1>7. ASSUME NEW w \in Worker,
               \/ LoadJob(w) \/ FailExpired(w) \/ DropCancelled(w) \/ AcquireStageLease(w)
               \/ MarkRunning(w) \/ BeginStage(w) \/ SaveJob(w) \/ ParkForChapterize(w)
               \/ ParkForReview(w) \/ StageReturns(w) \/ StageFails(w) \/ CancelGate(w)
        PROVE  Exists(t)
    <2>1. UNCHANGED <<ready, delayed, batch>>
      BY <1>7 DEF LoadJob, FailExpired, DropCancelled, AcquireStageLease, MarkRunning,
         BeginStage, SaveJob, ParkForChapterize, ParkForReview, StageReturns, StageFails,
         CancelGate, redisVars
    <2>2. \A v \in Worker : pc'[v] \in Carrying => pc[v] \in Carrying /\ task'[v] = task[v]
      BY <1>7 DEF LoadJob, FailExpired, DropCancelled, AcquireStageLease, MarkRunning,
         BeginStage, SaveJob, ParkForChapterize, ParkForReview, StageReturns, StageFails,
         CancelGate, Idle, Goto, WorkersOK, Carrying, Leasing
    <2> QED  BY <1>2, <2>1, <2>2 DEF Read
  <1>8. ASSUME NEW w \in Worker,
               \/ CheckCancel(w) \/ SettleCancelled(w) \/ SettleRetry(w) \/ SettleFinal(w)
               \/ Bury(w) \/ FinishStageRun(w) \/ CompleteJob(w) \/ RefreshJob(w)
               \/ Advance(w) \/ ReleaseStageLease(w)
        PROVE  Exists(t)
    <2>1. UNCHANGED <<ready, delayed, batch>>
      BY <1>8 DEF CheckCancel, SettleCancelled, SettleRetry, SettleFinal, Bury,
         FinishStageRun, CompleteJob, RefreshJob, Advance, ReleaseStageLease, redisVars
    <2>2. \A v \in Worker : pc'[v] \in Carrying => pc[v] \in Carrying /\ task'[v] = task[v]
      BY <1>8 DEF CheckCancel, SettleCancelled, SettleRetry, SettleFinal, Bury,
         FinishStageRun, CompleteJob, RefreshJob, Advance, ReleaseStageLease, Idle, Goto,
         WorkersOK, Carrying, Leasing
    <2> QED  BY <1>2, <2>1, <2>2 DEF Read
  <1>9. ASSUME NEW w \in Worker, RequeueBusy(w) PROVE Exists(t)
    <2>1. pc[w] \in Carrying
      BY <1>9 DEF RequeueBusy, Carrying
    <2>2. Queued' = Queued \cup {task[w]}
      BY <1>9 DEF RequeueBusy, Queued
    <2>3. \A v \in Worker : /\ Read(v)' = Read(v)
                            /\ pc'[v] \in Carrying => pc[v] \in Carrying /\ task'[v] = task[v]
      BY <1>9 DEF RequeueBusy, Idle, Goto, WorkersOK, Carrying, Leasing, Read
    <2> QED  BY <2>1, <2>2, <2>3 DEF Exists
  <1>10. ASSUME NEW w \in Worker, Backoff(w) PROVE Old
    <2> DEFINE next == [task[w] EXCEPT !.attempt = @ + 1]
    <2>1. pc[w] \in Carrying /\ task[w] \in Task
      BY <1>10, CarriedTask DEF Backoff, Carrying, Leasing
    <2>2. Exists(task[w]) /\ CarriesOn(next, task[w])
      BY <2>1 DEF Exists, CarriesOn, Task
    <2>3. Queued' = Queued \cup {next}
      BY <1>10 DEF Backoff, Queued
    <2>4. \A v \in Worker : /\ Read(v)' = Read(v)
                            /\ pc'[v] \in Carrying => pc[v] \in Carrying /\ task'[v] = task[v]
      BY <1>10 DEF Backoff, Goto, WorkersOK, Carrying, Leasing, Read
    <2>5. t = next \/ Exists(t)
      BY <2>3, <2>4 DEF Exists
    <2> QED  BY <1>1, <2>1, <2>2, <2>5
  <1>11. ASSUME NEW w \in Worker, PushNext(w) PROVE Exists(t) \/ AdvancedBy(t, w)
    <2>1. PICK s \in NextOf(task[w].stage) :
            ready' = Append(ready, NewTask(task[w].job, s, FALSE, "pipeline"))
      BY <1>11 DEF PushNext
    <2>2. /\ NewTask(task[w].job, s, FALSE, "pipeline") \in Task
          /\ ready \in Seq(Task)
          /\ pc[w] = "push" /\ UNCHANGED delayed
      BY <1>11, CarriedTask, NextIsStage, NewTaskIsTask
      DEF PushNext, Carrying, Leasing, RedisOK
    <2>3. PICK next \in Task :
            ready' = Append(ready, next) /\ next.job = task[w].job /\ next.stage = s
      BY <2>1, <2>2 DEF NewTask
    <2>4. Queued' = Queued \cup {next}
      BY <2>2, <2>3 DEF Queued
    <2>5. \A v \in Worker : /\ Read(v)' = Read(v)
                            /\ pc'[v] \in Carrying => pc[v] \in Carrying /\ task'[v] = task[v]
      BY <1>11 DEF PushNext, Goto, WorkersOK, Carrying, Leasing, Read
    <2>6. t = next \/ Exists(t)
      BY <2>4, <2>5 DEF Exists
    <2> QED  BY <2>2, <2>3, <2>6 DEF AdvancedBy
  <1>12. ASSUME NEW w \in Worker, Crash(w) \/ Shutdown(w) PROVE Exists(t)
    <2>1. UNCHANGED <<ready, delayed>>
      BY <1>12 DEF Crash, Shutdown, Vanish
    <2>2. \A v \in Worker : Read(v)' \subseteq Read(v)
      BY <1>12 DEF Crash, Shutdown, Vanish, Read, WorkersOK
    <2>3. \A v \in Worker : pc'[v] \in Carrying => pc[v] \in Carrying /\ task'[v] = task[v]
      BY <1>12 DEF Crash, Shutdown, Vanish, Idle, Goto, WorkersOK, Carrying, Leasing
    <2> QED  BY <1>2, <2>1, <2>2, <2>3
  <1>13. ASSUME NEW w \in Worker, RefreshLease(w) PROVE Exists(t)
    BY <1>3, <1>13 DEF RefreshLease
  <1>14. ASSUME NEW r \in Request, Ask(r) \/ WriteQueued(r) \/ AbortRequest(r) PROVE Exists(t)
    BY <1>3, <1>14 DEF Ask, AbortRequest, StartJob, RetryJob, RetryCurrentStage,
       ConfirmSegmentation, RetryASR, ResumeChapter, CancelJob, Accept, WriteQueued,
       redisVars
  <1>15. ASSUME NEW r \in Request, PushTask(r) PROVE Exists(t) \/ t.by = "request"
    <2>1. ready \in Seq(Task) /\ req[r].task \in Task /\ req[r].task.by = "request"
      BY <1>15, Requested DEF PushTask, RedisOK, RequestsSigned
    <2>2. Queued' = Queued \cup {req[r].task}
      BY <1>15, <2>1 DEF PushTask, Queued
    <2>3. \A v \in Worker : /\ Read(v)' = Read(v)
                            /\ pc'[v] \in Carrying => pc[v] \in Carrying /\ task'[v] = task[v]
      BY <1>15 DEF PushTask, workerVars, Read
    <2> QED  BY <2>1, <2>2, <2>3 DEF Exists
  <1>16. ASSUME \/ \E k \in Job \X JobStage : LeaseExpires(k)
                \/ \E j \in Job : DeadlinePasses(j)
         PROVE  Exists(t)
    BY <1>3, <1>16 DEF LeaseExpires, DeadlinePasses, redisVars
  <1>17. UNCHANGED vars => Exists(t)
    BY <1>3 DEF vars, redisVars
  <1> QED
    BY <1>1, <1>4, <1>5, <1>6, <1>7, <1>8, <1>9, <1>10, <1>11, <1>12, <1>13, <1>14,
       <1>15, <1>16, <1>17
    DEF Next, WorkerLoop, HandleTask, EnqueueStage

-----------------------------------------------------------------------------
(* The invariant.                                                          *)

OutcomeInv ==
  /\ TypeInv
  /\ FinalNoted
  /\ StageRecorded
  /\ CopyIsTrue
  /\ TasksEarned
  /\ RequestsSigned
  /\ CompletedMeansDone
  /\ FailureIsBuried

\* What a request is going to enqueue does not change once it is accepted.
LEMMA SignedStep ==
  ASSUME TypeInv, RequestsSigned, [Next]_vars
  PROVE  RequestsSigned'
  <1> USE DEF TypeInv, TypeOK, RequestsOK
  <1>1. ASSUME NEW w \in Worker, WorkerLoop(w) \/ RefreshLease(w) \/ Crash(w) \/ Shutdown(w)
        PROVE  UNCHANGED req
    BY <1>1 DEF WorkerLoop, HandleTask, RefreshLease, Crash, Shutdown, Vanish, ReadDue,
       PromoteDue, Pop, LoadJob, FailExpired, DropCancelled, AcquireStageLease, RequeueBusy,
       MarkRunning, BeginStage, SaveJob, ParkForChapterize, ParkForReview, StageReturns,
       StageFails, CancelGate, CheckCancel, SettleCancelled, SettleRetry, SettleFinal,
       Backoff, Bury, FinishStageRun, CompleteJob, RefreshJob, Advance, PushNext,
       ReleaseStageLease
  <1>2. ASSUME NEW r \in Request, NEW op, NEW t, Accept(r, op, t), t.by = "request"
        PROVE  RequestsSigned'
    BY <1>2 DEF Accept, RequestsSigned
  <1>3. ASSUME NEW r \in Request, Ask(r) PROVE RequestsSigned'
    <2>1. PICK j \in Job :
            \/ StartJob(r, j) \/ RetryJob(r, j) \/ RetryCurrentStage(r, j)
            \/ ConfirmSegmentation(r, j) \/ RetryASR(r, j)
            \/ ResumeChapter(r, j) \/ CancelJob(r, j)
      BY <1>3 DEF Ask
    <2>2. \A s, skip : NewTask(j, s, skip, "request").by = "request"
      BY DEF NewTask
    <2>3. CASE \/ StartJob(r, j) \/ RetryJob(r, j) \/ RetryCurrentStage(r, j)
               \/ ConfirmSegmentation(r, j) \/ RetryASR(r, j) \/ ResumeChapter(r, j)
      BY <1>2, <2>2, <2>3 DEF StartJob, RetryJob, RetryCurrentStage, ConfirmSegmentation,
         RetryASR, ResumeChapter
    <2>4. CASE CancelJob(r, j)
      BY <2>4 DEF CancelJob, RequestsSigned
    <2> QED  BY <2>1, <2>3, <2>4
  <1>4. ASSUME NEW r \in Request, WriteQueued(r) \/ PushTask(r) \/ AbortRequest(r)
        PROVE  RequestsSigned'
    BY <1>4 DEF WriteQueued, PushTask, AbortRequest, RequestsSigned
  <1>5. ASSUME \/ \E k \in Job \X JobStage : LeaseExpires(k)
               \/ \E j \in Job : DeadlinePasses(j)
        PROVE  UNCHANGED req
    BY <1>5 DEF LeaseExpires, DeadlinePasses
  <1> QED
    BY <1>1, <1>3, <1>4, <1>5 DEF Next, EnqueueStage, vars, RequestsSigned

\* The recorded stage runs of a worker, the copies and the tasks survive a step.
LEMMA EvidenceStep ==
  ASSUME OutcomeInv, [Next]_vars
  PROVE  StageRecorded' /\ CopyIsTrue' /\ TasksEarned'
  <1> USE DEF OutcomeInv
  <1>a. \A j \in Job : done[j] \subseteq done'[j] /\ (Buried(j) => Buried(j)')
    BY DoneGrows, BuriedStays
  <1>b. /\ \A j \in Job : status[j] = "failed" => Buried(j)
        /\ \A j \in Job : status[j] = "completed" => stage[j] \in done[j]
    BY DEF FailureIsBuried, Buried, CompletedMeansDone
  <1>1. ASSUME NEW v \in Worker, pc'[v] \in AfterStage
        PROVE  task'[v].stage \in done'[task'[v].job]
    <2>1. /\ task'[v] = task[v]
          /\ FinishStageRun(v) \/ pc[v] \in AfterStage
      BY <1>1, WorkerMoves DEF AfterStage
    <2>2. task[v].job \in Job
      BY <2>1, CarriedTask DEF TypeInv, TypeOK, FinishStageRun, AfterStage, Carrying, Leasing
    <2>3. CASE FinishStageRun(v)
      BY <2>1, <2>2, <2>3 DEF FinishStageRun, TypeInv, TypeOK, JobsOK
    <2>4. CASE pc[v] \in AfterStage
      BY <1>a, <2>1, <2>2, <2>4 DEF StageRecorded
    <2> QED  BY <2>1, <2>3, <2>4
  <1>2. ASSUME NEW v \in Worker, Rewriting(v)', NEW j \in Job, j = task[v].job
        PROVE  /\ task'[v].job = j
               /\ local'[v].status = "completed" => local'[v].stage \in done'[j]
               /\ local'[v].status = "failed" => Buried(j)'
    <2>1. /\ task'[v] = task[v]
          /\ BeginStage(v) \/ (Rewriting(v) /\ local'[v] = local[v])
          /\ task[v].stage \in {"separate", "merge"}
      BY <1>2, WorkerMoves DEF Rewriting, AfterStage
    <2>2. CASE BeginStage(v)
      <3>1. local'[v] = [status |-> status[j], stage |-> stage[j]]
        BY <1>2, <2>1, <2>2 DEF BeginStage, TypeInv, TypeOK, WorkersOK
      <3> QED  BY <1>a, <1>b, <1>2, <2>1, <3>1
    <2>3. CASE Rewriting(v) /\ local'[v] = local[v]
      <3>1. /\ local[v].status = "completed" => local[v].stage \in done[j]
            /\ local[v].status = "failed" => Buried(j)
        BY <1>2, <2>3 DEF CopyIsTrue, Buried
      <3> QED  BY <1>a, <1>2, <2>1, <2>3, <3>1
    <2> QED  BY <2>1, <2>2, <2>3
  <1>3. ASSUME NEW t \in Task, Exists(t)', t.by = "pipeline"
        PROVE  \E s \in done'[t.job] : t.stage \in NextOf(s)
    <2>1. t.job \in Job
      BY DEF Task
    <2>2. CASE \E u \in Task : Exists(u) /\ CarriesOn(t, u)
      BY <1>3, <1>a, <2>1, <2>2 DEF TasksEarned, Earned, CarriesOn
    <2>3. CASE \E w \in Worker : AdvancedBy(t, w)
      BY <1>a, <2>1, <2>3 DEF AdvancedBy, StageRecorded, AfterStage
    <2> QED  BY <1>3, <2>2, <2>3, TaskOrigin
  <1>4. CopyIsTrue'
    <2>1. \A v \in Worker : Rewriting(v)' => task[v].job \in Job
      BY WorkerMoves, CarriedTask
      DEF TypeInv, TypeOK, BeginStage, Rewriting, AfterStage, Carrying, Leasing
    <2>2. ASSUME NEW v \in Worker, Rewriting(v)'
          PROVE  /\ local'[v].status = "completed" => local'[v].stage \in done'[task'[v].job]
                 /\ local'[v].status = "failed" => Buried(task[v].job)'
      <3>1. PICK j \in Job : j = task[v].job
        BY <2>1, <2>2
      <3>2. /\ task'[v].job = j
            /\ local'[v].status = "completed" => local'[v].stage \in done'[j]
            /\ local'[v].status = "failed" => Buried(j)'
        BY <1>2, <2>2, <3>1
      <3> QED  BY <3>2 DEF Buried
    <2> QED  BY <2>2 DEF CopyIsTrue
  <1> QED  BY <1>1, <1>3, <1>4 DEF StageRecorded, TasksEarned, Earned

\* The rows that say completed or failed stay true to the evidence.
LEMMA RowsStep ==
  ASSUME OutcomeInv, [Next]_vars
  PROVE  CompletedMeansDone' /\ FailureIsBuried'
  <1> USE DEF OutcomeInv
  <1>a. \A j \in Job : done[j] \subseteq done'[j] /\ (Buried(j) => Buried(j)')
    BY DoneGrows, BuriedStays
  <1>b. /\ \A j \in Job : status[j] = "failed" => Buried(j)
        /\ \A j \in Job : status[j] = "completed" => stage[j] \in done[j]
    BY DEF FailureIsBuried, Buried, CompletedMeansDone
  <1>1. ASSUME NEW j \in Job, NEW w \in Worker, task[w].job = j, CompleteJob(w)
        PROVE  status'[j] = "completed" /\ stage'[j] \in done'[j]
    <2>1. task[w].stage \in done[j]
      BY <1>1 DEF CompleteJob, StageRecorded, AfterStage
    <2> QED
      BY <1>1, <2>1 DEF CompleteJob, UpdateJobState, TypeInv, TypeOK, JobsOK
  <1>2. ASSUME NEW j \in Job, NEW w \in Worker, task[w].job = j, SettleFinal(w)
        PROVE  status'[j] # "completed" /\ Buried(j)'
    <2>1. status'[j] = local[w].status
      BY <1>2 DEF SettleFinal, UpdateJobState, TypeInv, TypeOK, JobsOK
    <2>2. local[w].status # "completed"
      BY <1>2 DEF SettleFinal, FinalNoted, FailureStatus
    <2>3. pc'[w] = "bury" /\ task'[w] = task[w]
      BY <1>2 DEF SettleFinal, Goto, TypeInv, TypeOK, WorkersOK
    <2> QED  BY <1>2, <2>1, <2>2, <2>3 DEF Buried
  <1>3. ASSUME NEW j \in Job, NEW w \in Worker, task[w].job = j, SaveJob(w)
        PROVE  /\ status'[j] = "completed" => stage'[j] \in done'[j]
               /\ status'[j] = "failed" => Buried(j)'
    <2>1. status'[j] = local[w].status /\ stage'[j] = local[w].stage /\ done' = done
      BY <1>3 DEF SaveJob, UpdateJobState, TypeInv, TypeOK, JobsOK
    <2>2. Rewriting(w)
      BY <1>3 DEF SaveJob, Rewriting
    <2> QED  BY <1>3, <1>a, <2>1, <2>2 DEF CopyIsTrue
  <1>4. ASSUME NEW j \in Job, status'[j] = status[j], stage'[j] = stage[j]
        PROVE  /\ status'[j] = "completed" => stage'[j] \in done'[j]
               /\ status'[j] = "failed" => Buried(j)'
    BY <1>4, <1>a, <1>b
  <1>5. ASSUME NEW j \in Job
        PROVE  /\ status'[j] = "completed" => stage'[j] \in done'[j]
               /\ status'[j] = "failed" => Buried(j)'
    BY <1>1, <1>2, <1>3, <1>4, RowWritten
  <1>6. \A j \in Job : status'[j] = "failed" => Buried(j)'
    BY <1>5
  <1>7. FailureIsBuried'
    BY <1>6 DEF FailureIsBuried, Buried
  <1>8. CompletedMeansDone'
    BY <1>5 DEF CompletedMeansDone
  <1> QED  BY <1>7, <1>8

\* The invariant is inductive.
LEMMA OutcomeStep == OutcomeInv /\ [Next]_vars => OutcomeInv'
  <1> SUFFICES ASSUME OutcomeInv, [Next]_vars PROVE OutcomeInv'
    OBVIOUS
  <1>1. TypeInv' /\ FinalNoted' /\ RequestsSigned'
    BY TypeStep, FinalNotedStep, SignedStep DEF OutcomeInv
  <1> QED  BY <1>1, EvidenceStep, RowsStep DEF OutcomeInv

LEMMA OutcomeInit == Init => OutcomeInv
  <1> SUFFICES ASSUME Init PROVE OutcomeInv
    OBVIOUS
  <1>1. TypeInv /\ FinalNoted /\ StageRecorded /\ CopyIsTrue /\ RequestsSigned
    BY TypeInit DEF Init, TypeInv, AttemptsLeft, FinalNoted, StageRecorded, AfterStage,
       CopyIsTrue, Rewriting, RequestsSigned
  <1>2. TasksEarned
    BY DEF Init, TasksEarned, Exists, Queued, Read, Carrying, Leasing
  <1>3. CompletedMeansDone /\ FailureIsBuried
    BY DEF Init, CompletedMeansDone, FailureIsBuried
  <1> QED  BY <1>1, <1>2, <1>3 DEF OutcomeInv

-----------------------------------------------------------------------------
(* Theorems.                                                               *)

\* A row that says completed names a stage whose run has completed: a row copy
\* written back by runSeparate or runMerge repeats only what was true before, and
\* no stage run is ever taken back.
THEOREM CompletedIsDone == Spec => []CompletedMeansDone
  <1>1. OutcomeInv => CompletedMeansDone
    BY DEF OutcomeInv
  <1> QED  BY <1>1, OutcomeInit, OutcomeStep, PTL DEF Spec

\* The failure of a job whose row says failed is on record: on the dead-letter
\* list, in the hands of the worker that is about to put it there, or lost with
\* that worker; also when the status comes back from an old copy of the row.
THEOREM FailedIsBuried == Spec => []FailureIsBuried
  <1>1. OutcomeInv => FailureIsBuried
    BY DEF OutcomeInv
  <1> QED  BY <1>1, OutcomeInit, OutcomeStep, PTL DEF Spec

\* A task of the auto-advance, wherever it is and however often it was retried,
\* requeued or promoted twice, follows a stage that has completed.
THEOREM AdvanceIsEarned == Spec => []AdvanceFollowsCompletion
  <1>1. OutcomeInv => AdvanceFollowsCompletion
    <2> SUFFICES ASSUME OutcomeInv, NEW t \in LiveTasks, t.by = "pipeline"
                 PROVE  \E s \in done[t.job] : t.stage \in NextOf(s)
      BY DEF AdvanceFollowsCompletion
    <2>1. Exists(t)
      BY DEF LiveTasks, Exists, Queued
    <2>2. t \in Task
      BY CarriedTask DEF LiveTasks, OutcomeInv, TypeInv, TypeOK, RedisOK
    <2> QED  BY <2>1, <2>2 DEF OutcomeInv, TasksEarned, Earned
  <1> QED  BY <1>1, OutcomeInit, OutcomeStep, PTL DEF Spec
=============================================================================
