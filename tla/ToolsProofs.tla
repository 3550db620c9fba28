------------------------------ MODULE ToolsProofs ------------------------------
(***************************************************************************)
(* Theorems about the tools an operator runs beside the services:          *)
(* StageRescue, for any number of workers, stage runs and mishaps, and     *)
(* CourseBoard, for any number of lectures, refreshes and moves of the     *)
(* world, and any worlds to start from.                                    *)
(***************************************************************************)
EXTENDS StageRescue, CourseBoard, CourseProofs

(***************************************************************************)
(* The rescue of a stalled stage                                           *)
(***************************************************************************)

Places == {"idle", "acquire", "mark", "begin", "stage", "finish"}

ReadingPlaces == {"run", "counts", "ready", "delayed", "lease", "evaluate"}

(* Types, as far as the argument needs them.                               *)
RescueTypeOK ==
    /\ row \in [status : {"queued", "running"}, here : BOOLEAN, stale : BOOLEAN]
    /\ run \in [id : Nat, status : {"none", "running", "completed", "failed", "stale_requeued"}]
    /\ queues \in [ready : Nat, delayed : Nat]
    /\ lease \in [exists : BOOLEAN, young : BOOLEAN]
    /\ worker \in [Workers -> Places]
    /\ tool \in [pc : {"idle", "push"} \cup ReadingPlaces, safe : BOOLEAN, run : Nat]
    /\ torn \in BOOLEAN

Queued == queues.ready > 0 \/ queues.delayed > 0

Busy(w) == worker[w] # "idle"

NothingLeft == ~Queued /\ \A w \in Workers : ~Busy(w)

(* The stage has one task: in a queue, in the hands of a worker, or none   *)
(* after a crash.                                                          *)
OneTask ==
    /\ queues.ready + queues.delayed <= 1
    /\ \A v, w \in Workers : Busy(v) /\ Busy(w) => v = w
    /\ \A w \in Workers : Busy(w) => ~Queued

(* While the row says that the stage runs, its task is with the worker     *)
(* inside, or gone.                                                        *)
RunningMeansInside ==
    row.status = "running" /\ row.here =>
        /\ ~Queued
        /\ \A w \in Workers : Busy(w) => Inside(w)

(* A worker inside keeps its heartbeat fresh.                              *)
InsideIsFresh == \A w \in Workers : Inside(w) => ~row.stale

(* The tool goes on to a requeue only when there is no task.               *)
SafeMeansLost ==
    (tool.pc = "push" \/ (tool.pc \in ReadingPlaces /\ tool.safe)) => NothingLeft

(* The row is no longer running when the task is pushed.                   *)
PushedIsQueued == tool.pc = "push" => ~(row.status = "running" /\ row.here)

Sound == OneTask /\ RunningMeansInside /\ InsideIsFresh /\ SafeMeansLost /\ PushedIsQueued

RescueInv == torn \/ Sound

----------------------------------------------------------------------------
(* Types *)

LEMMA RescueInitTypes == RescueInit => RescueTypeOK
<1> SUFFICES ASSUME RescueInit PROVE RescueTypeOK
  OBVIOUS
<1>1. row \in [status : {"queued", "running"}, here : BOOLEAN, stale : BOOLEAN]
  BY DEF RescueInit
<1>2. run \in [id : Nat, status : {"none", "running", "completed", "failed", "stale_requeued"}]
  BY DEF RescueInit
<1>3. queues \in [ready : Nat, delayed : Nat] /\ lease \in [exists : BOOLEAN, young : BOOLEAN]
  BY DEF RescueInit
<1>4. worker \in [Workers -> Places]
  BY DEF RescueInit, Places
<1>5. tool \in [pc : {"idle", "push"} \cup ReadingPlaces, safe : BOOLEAN, run : Nat]
  BY DEF RescueInit, IdleTool
<1> QED BY <1>1, <1>2, <1>3, <1>4, <1>5 DEF RescueInit, RescueTypeOK

(* Every step keeps the types.                                             *)
LEMMA RescueStepTypes == RescueTypeOK /\ [RescueNext]_rescueVars => RescueTypeOK'
<1> SUFFICES ASSUME RescueTypeOK, [RescueNext]_rescueVars
             PROVE  RescueTypeOK'
  OBVIOUS
<1> USE DEF RescueTypeOK, Places, ReadingPlaces, Go, UnchangedTool, UnchangedWorld, Mishap
<1>1. ASSUME NEW w \in Workers, WorkerStep(w) PROVE RescueTypeOK'
  <2>1. CASE Pop(w) BY <2>1 DEF Pop
  <2>2. CASE Acquire(w)
    <3>1. worker' \in [Workers -> Places]
      BY <2>2 DEF Acquire
    <3>2. lease' \in [exists : BOOLEAN, young : BOOLEAN]
      <4>1. lease' = lease \/ lease' = [exists |-> TRUE, young |-> TRUE]
        BY <2>2 DEF Acquire
      <4>2. lease \in [exists : BOOLEAN, young : BOOLEAN]
        OBVIOUS
      <4>3. [exists |-> TRUE, young |-> TRUE] \in [exists : BOOLEAN, young : BOOLEAN]
        OBVIOUS
      <4> HIDE DEF RescueTypeOK
      <4> QED BY <4>1, <4>2, <4>3
    <3>3. queues' \in [ready : Nat, delayed : Nat]
      <4>1. queues' = queues \/ queues' = [queues EXCEPT !.delayed = @ + 1]
        BY <2>2 DEF Acquire
      <4> QED BY <4>1
    <3> QED BY <2>2, <3>1, <3>2, <3>3 DEF Acquire
  <2>3. CASE MarkRunning(w) BY <2>3 DEF MarkRunning
  <2>4. CASE CreateStageRun(w) BY <2>4 DEF CreateStageRun
  <2>5. CASE RunStage(w) BY <2>5 DEF RunStage
  <2>6. CASE FinishStage(w) BY <2>6 DEF FinishStage
  <2> QED BY <1>1, <2>1, <2>2, <2>3, <2>4, <2>5, <2>6 DEF WorkerStep
<1>2. ASSUME NEW w \in Workers, FailStage(w) \/ CrashWorker(w) PROVE RescueTypeOK'
  <2>1. CASE FailStage(w)
    <3>1. queues' \in [ready : Nat, delayed : Nat]
      BY <2>1 DEF FailStage
    <3>2. run' \in [id : Nat, status : {"none", "running", "completed", "failed", "stale_requeued"}]
      BY <2>1 DEF FailStage
    <3>3. row' \in [status : {"queued", "running"}, here : BOOLEAN, stale : BOOLEAN]
      BY <2>1 DEF FailStage
    <3>4. lease' \in [exists : BOOLEAN, young : BOOLEAN] /\ worker' \in [Workers -> Places]
      BY <2>1 DEF FailStage
    <3> QED BY <2>1, <3>1, <3>2, <3>3, <3>4 DEF FailStage
  <2>2. CASE CrashWorker(w) BY <2>2 DEF CrashWorker
  <2> QED BY <1>2, <2>1, <2>2
<1>3. CASE Promote \/ LeaseRunsOut \/ HeartbeatGoesStale
  <2>1. CASE Promote BY <2>1 DEF Promote
  <2>2. CASE LeaseRunsOut BY <2>2 DEF LeaseRunsOut
  <2>3. CASE HeartbeatGoesStale BY <2>3 DEF HeartbeatGoesStale
  <2> QED BY <1>3, <2>1, <2>2, <2>3
<1>4. CASE ToolStep
  <2>1. CASE ReadJob
    <3>1. JobIsStalled \in BOOLEAN
      BY DEF JobIsStalled
    <3>2. tool' \in [pc : {"idle", "push"} \cup ReadingPlaces, safe : BOOLEAN, run : Nat]
      <4>1. \E b \in BOOLEAN : tool' = [pc |-> "run", safe |-> b, run |-> 0]
        BY <2>1, <3>1 DEF ReadJob, IdleTool
      <4> QED BY <4>1
    <3>3. lease' \in [exists : BOOLEAN, young : BOOLEAN]
      BY <2>1 DEF ReadJob
    <3> QED BY <2>1, <3>2, <3>3 DEF ReadJob
  <2>2. CASE ReadStageRun BY <2>2 DEF ReadStageRun, Noting, RunIsOpen
  <2>3. CASE ReadCounts BY <2>3 DEF ReadCounts, Read, Noting, WorthResuming
  <2>4. CASE ReadReady \/ ReadDelayed
    BY <2>4 DEF ReadReady, ReadDelayed, Read, Noting, Matching
  <2>5. CASE ReadLease BY <2>5 DEF ReadLease, Read, Noting
  <2>6. CASE Refuse BY <2>6 DEF Refuse, IdleTool
  <2>7. CASE RequeueRows
    <3>1. run' \in [id : Nat, status : {"none", "running", "completed", "failed", "stale_requeued"}]
      BY <2>7 DEF RequeueRows
    <3>2. row' \in [status : {"queued", "running"}, here : BOOLEAN, stale : BOOLEAN]
      BY <2>7 DEF RequeueRows
    <3>3. tool' \in [pc : {"idle", "push"} \cup ReadingPlaces, safe : BOOLEAN, run : Nat]
      BY <2>7 DEF RequeueRows
    <3> QED BY <2>7, <3>1, <3>2, <3>3 DEF RequeueRows
  <2>8. CASE PushTask BY <2>8 DEF PushTask, IdleTool
  <2> QED BY <1>4, <2>1, <2>2, <2>3, <2>4, <2>5, <2>6, <2>7, <2>8 DEF ToolStep
<1>5. CASE ToolDies BY <1>5 DEF ToolDies, IdleTool
<1>6. CASE UNCHANGED rescueVars BY <1>6 DEF rescueVars
<1> QED BY <1>1, <1>2, <1>3, <1>4, <1>5, <1>6 DEF RescueNext

----------------------------------------------------------------------------
(* The invariant *)

LEMMA RescueInitSound == RescueInit => Sound
BY DEF RescueInit, Sound, OneTask, RunningMeansInside, InsideIsFresh, SafeMeansLost,
       PushedIsQueued, IdleTool, Inside, Busy, ReadingPlaces

(* A worker's step moves the one task along, and cannot be taken once the  *)
(* tool has seen that there is none.                                       *)
LEMMA WorkerKeepsSound ==
    ASSUME RescueTypeOK, Sound, NEW w \in Workers, WorkerStep(w) \/ FailStage(w) \/ CrashWorker(w)
    PROVE  Sound'
<1> USE DEF RescueTypeOK, Places, ReadingPlaces, Go, UnchangedTool, Sound, OneTask, RunningMeansInside,
            InsideIsFresh, SafeMeansLost, PushedIsQueued, NothingLeft, Queued, Busy, Inside
<1>1. CASE Pop(w) BY <1>1 DEF Pop
<1>2. CASE Acquire(w) BY <1>2 DEF Acquire
<1>3. CASE MarkRunning(w) BY <1>3 DEF MarkRunning
<1>4. CASE CreateStageRun(w) BY <1>4 DEF CreateStageRun
<1>5. CASE RunStage(w) BY <1>5 DEF RunStage
<1>6. CASE FinishStage(w) BY <1>6 DEF FinishStage
<1>7. CASE FailStage(w) BY <1>7 DEF FailStage
<1>8. CASE CrashWorker(w) BY <1>8 DEF CrashWorker
<1> QED BY <1>1, <1>2, <1>3, <1>4, <1>5, <1>6, <1>7, <1>8 DEF WorkerStep

(* Time, Redis and the promotion of a delayed task.                        *)
LEMMA TimeKeepsSound ==
    ASSUME RescueTypeOK, Sound, Promote \/ LeaseRunsOut \/ HeartbeatGoesStale
    PROVE  Sound'
<1> USE DEF RescueTypeOK, Places, ReadingPlaces, UnchangedTool, Sound, OneTask, RunningMeansInside,
            InsideIsFresh, SafeMeansLost, PushedIsQueued, NothingLeft, Queued, Busy, Inside
<1>1. CASE Promote BY <1>1 DEF Promote
<1>2. CASE LeaseRunsOut BY <1>2 DEF LeaseRunsOut
<1>3. CASE HeartbeatGoesStale BY <1>3 DEF HeartbeatGoesStale, NoneInside
<1> QED BY <1>1, <1>2, <1>3

(* A stalled job has nobody inside, hence no task at all; what the tool    *)
(* reads afterwards can only make it refuse.                               *)
LEMMA ToolKeepsSound ==
    ASSUME RescueTypeOK, Sound, ToolStep \/ ToolDies
    PROVE  RescueInv'
<1> USE DEF RescueTypeOK, Places, ReadingPlaces, UnchangedWorld, Sound, OneTask, RunningMeansInside,
            InsideIsFresh, SafeMeansLost, PushedIsQueued, NothingLeft, Queued, Busy, Inside, IdleTool,
            RescueInv
<1>1. CASE ReadJob
  <2>1. JobIsStalled => NothingLeft
    BY DEF JobIsStalled
  <2> QED BY <1>1, <2>1, ZenonT(40) DEF ReadJob
<1>2. CASE ReadStageRun BY <1>2, ZenonT(40) DEF ReadStageRun, Noting
<1>3. CASE ReadCounts BY <1>3, ZenonT(40) DEF ReadCounts, Read, Noting
<1>4. CASE ReadReady \/ ReadDelayed
  <2>1. CASE ReadReady BY <2>1, ZenonT(40) DEF ReadReady, Read, Noting
  <2>2. CASE ReadDelayed BY <2>2, ZenonT(40) DEF ReadDelayed, Read, Noting
  <2> QED BY <1>4, <2>1, <2>2
<1>5. CASE ReadLease BY <1>5, ZenonT(40) DEF ReadLease, Read, Noting
<1>6. CASE Refuse BY <1>6 DEF Refuse
<1>7. CASE RequeueRows BY <1>7 DEF RequeueRows
<1>8. CASE PushTask BY <1>8 DEF PushTask
<1>9. CASE ToolDies BY <1>9 DEF ToolDies
<1> QED BY <1>1, <1>2, <1>3, <1>4, <1>5, <1>6, <1>7, <1>8, <1>9 DEF ToolStep

(* Once torn, always torn.                                                 *)
LEMMA TornStays == torn /\ [RescueNext]_rescueVars => torn'
BY DEF RescueNext, WorkerStep, Pop, Acquire, MarkRunning, CreateStageRun, RunStage, FinishStage,
       FailStage, CrashWorker, Promote, LeaseRunsOut, HeartbeatGoesStale, ToolStep, ReadJob,
       ReadStageRun, ReadCounts, ReadReady, ReadDelayed, ReadLease, Read, Refuse, RequeueRows,
       PushTask, ToolDies, UnchangedTool, rescueVars

LEMMA RescueStepInv ==
    RescueTypeOK /\ RescueInv /\ [RescueNext]_rescueVars => RescueInv'
<1> SUFFICES ASSUME RescueTypeOK, Sound, [RescueNext]_rescueVars
             PROVE  RescueInv'
  BY TornStays DEF RescueInv
<1>1. ASSUME NEW w \in Workers, WorkerStep(w) \/ FailStage(w) \/ CrashWorker(w) PROVE RescueInv'
  BY <1>1, WorkerKeepsSound DEF RescueInv
<1>2. CASE Promote \/ LeaseRunsOut \/ HeartbeatGoesStale
  BY <1>2, TimeKeepsSound DEF RescueInv
<1>3. CASE ToolStep \/ ToolDies
  BY <1>3, ToolKeepsSound
<1>4. CASE UNCHANGED rescueVars
  BY <1>4 DEF rescueVars, RescueInv, Sound, OneTask, RunningMeansInside, InsideIsFresh,
              SafeMeansLost, PushedIsQueued, NothingLeft, Queued, Busy, Inside
<1> QED BY <1>1, <1>2, <1>3, <1>4 DEF RescueNext

(* The tool never brings a second worker into a stage, for any number of   *)
(* workers, stage runs and mishaps. The argument needs neither the lease   *)
(* nor the queues the tool reads: a running row with a stale heartbeat     *)
(* already means that the task is gone.                                    *)
THEOREM RescueKeepsOneWorker == RescueSpec => []OneWorkerInStage
<1>1. RescueInit => RescueTypeOK /\ RescueInv
  BY RescueInitTypes, RescueInitSound DEF RescueInv
<1>2. RescueTypeOK /\ RescueInv /\ [RescueNext]_rescueVars => (RescueTypeOK /\ RescueInv)'
  BY RescueStepTypes, RescueStepInv
<1>3. RescueInv => OneWorkerInStage
  BY DEF RescueInv, OneWorkerInStage, Sound, OneTask, Busy, Inside
<1> QED BY <1>1, <1>2, <1>3, PTL DEF RescueSpec

(***************************************************************************)
(* The status board                                                        *)
(***************************************************************************)

Fields == {"tracker", "acceptance", "training", "coverage", "timing", "advance", "gate",
           "watchdog", "blockers", "goal", "diagnostics", "delivery", "batch", "handoff",
           "quoted", "summary"}

StepNames == {"course_tracker", "acceptance_status", "training_decision", "candidate_coverage",
              "source_timing_preflight", "course_advance", "acceptance_gate_check", "watchdog",
              "runtime_blockers", "goal_status", "v25_diagnostics", "delivery_index",
              "batch_review", "handoff_report", "summary"}

IsBoard(b) == b = [x \in Fields |-> b[x]]

LapOK == lap \in [todo : Seq(StepNames), full : BOOLEAN, quiet : BOOLEAN, again : BOOLEAN,
               n : Nat]

(* A refresh has n of the steps behind it.                                 *)
Behind(steps, n) ==
    /\ Len(lap.todo) = Len(steps) - n
    /\ \A k \in 1..(Len(steps) - n) : lap.todo[k] = steps[n + k]

(* The reports that n steps of a full refresh have written are r's.        *)
Fresh(r, b, n) ==
    /\ n >= 1 => b.tracker = r.tracker
    /\ n >= 2 => b.acceptance = r.acceptance
    /\ n >= 3 => b.training = r.training
    /\ n >= 4 => b.coverage = r.coverage
    /\ n >= 5 => b.timing = r.timing
    /\ n >= 6 => b.advance = r.advance
    /\ n >= 7 => b.gate = r.gate
    /\ n >= 8 => b.watchdog = r.watchdog
    /\ n >= 9 => b.blockers = r.blockers
    /\ n >= 10 => b.goal = r.goal
    /\ n >= 11 => b.diagnostics = r.diagnostics
    /\ n >= 12 => b.delivery = r.delivery
    /\ n >= 13 => b.batch = r.batch
    /\ n >= 14 => b.handoff = r.handoff
    /\ n >= 15 => b.summary = r.summary

(* The second of two such refreshes has had the summary right all along.   *)
Kept(r, b, n) ==
    /\ b.summary = r.summary
    /\ n >= 14 => b.quoted = Quoted(b.summary)

(* A quiet full refresh leaves fresh reports behind it, each tool finding  *)
(* fresh the reports it reads.                                             *)
FullLap ==
    lap.quiet /\ lap.full =>
        \E n \in 0..15 :
            /\ Behind(FullSteps, n) /\ Fresh(Reports(world), board, n)
            /\ lap.again => Kept(Reports(world), board, n)

(* What a degraded refresh leaves after n steps.                           *)
Blocked(w, b, n) ==
    /\ n >= 1 => b.training = TrainingDecision(w, b.acceptance)
    /\ n >= 3 => ~b.watchdog.docker
    /\ n >= 4 => b.blockers # {}
    /\ n >= 7 => b.batch = BatchReview(b.acceptance, b.training)
    /\ n >= 8 => b.handoff = "repair_docker_engine"

DegradedLap ==
    lap.quiet /\ ~lap.full =>
        \E n \in 0..9 : Behind(DegradedSteps, n) /\ Blocked(world, board, n)

BoardInv ==
    /\ Typed(world) /\ IsBoard(board) /\ LapOK
    /\ lap.quiet => (lap.full <=> world.docker)
    /\ lap.again => lap.quiet /\ lap.full
    /\ FullLap /\ DegradedLap

-----------------------------------------------------------------------------
(* What the reports say when all are written at once.                      *)
LEMMA ReportFields ==
    ASSUME NEW w, NEW r, r = Reports(w)
    PROVE  /\ IsBoard(r)
           /\ r.tracker = Tracker(w)
           /\ r.acceptance = Acceptance(w, r.tracker)
           /\ r.training = TrainingDecision(w, r.acceptance)
           /\ r.coverage = w.pendingFallback
           /\ r.timing = SourceTiming(r.tracker)
           /\ r.advance = CourseAdvance(w, r.tracker, r.acceptance)
           /\ r.gate = AcceptanceGate(w, r.tracker, r.acceptance)
           /\ r.watchdog = Watchdog(w, r.tracker, r.acceptance)
           /\ r.blockers = RuntimeBlockers(r.watchdog)
           /\ r.goal = GoalStatus(w, r.tracker, r.acceptance, w.health)
           /\ r.diagnostics = Diagnostics(r.goal, r.summary)
           /\ r.delivery = DeliveryIndex(r.acceptance, r.advance, r.goal)
           /\ r.batch = BatchReview(r.acceptance, r.training)
           /\ r.handoff = Handoff(w, r.watchdog, r.goal, r.delivery, r.coverage)
           /\ r.summary = Summary(r.tracker, r.goal, r.coverage, r.delivery)
<1> DEFINE t == Tracker(w)
           a == Acceptance(w, t)
           training == TrainingDecision(w, a)
           c == w.pendingFallback
           timing == SourceTiming(t)
           advance == CourseAdvance(w, t, a)
           g == AcceptanceGate(w, t, a)
           dog == Watchdog(w, t, a)
           blockers == RuntimeBlockers(dog)
           goal == GoalStatus(w, t, a, w.health)
           delivery == DeliveryIndex(a, advance, goal)
           sum == Summary(t, goal, c, delivery)
           d == Diagnostics(goal, sum)
           batch == BatchReview(a, training)
           h == Handoff(w, dog, goal, delivery, c)
           q == Quoted(sum)
<1>1. r = [tracker |-> t, acceptance |-> a, training |-> training, coverage |-> c,
           timing |-> timing, advance |-> advance, gate |-> g, watchdog |-> dog,
           blockers |-> blockers, goal |-> goal, diagnostics |-> d, delivery |-> delivery,
           batch |-> batch, summary |-> sum, handoff |-> h,
           quoted |-> q]
  BY Zenon DEF Reports
<1>2. /\ r.tracker = t /\ r.acceptance = a /\ r.training = training /\ r.coverage = c
      /\ r.timing = timing /\ r.advance = advance /\ r.gate = g /\ r.watchdog = dog
      /\ r.blockers = blockers /\ r.goal = goal /\ r.diagnostics = d /\ r.delivery = delivery
      /\ r.batch = batch /\ r.summary = sum /\ r.handoff = h
  <2> HIDE DEF t, a, training, c, timing, advance, g, dog, blockers, goal, sum, d, delivery,
               batch, h, q
  <2> QED  BY <1>1
<1>3. IsBoard(r)
  <2> HIDE DEF t, a, training, c, timing, advance, g, dog, blockers, goal, sum, d, delivery,
               batch, h, q
  <2> QED  BY <1>1 DEF IsBoard, Fields
<1> QED  BY <1>2, <1>3, Zenon

(* One report is written, the others stay.                                 *)
Put(b, x, v) == [b EXCEPT ![x] = v]

LEMMA PutOne ==
    ASSUME NEW b, IsBoard(b), NEW x \in Fields, NEW v
    PROVE  /\ IsBoard(Put(b, x, v)) /\ Put(b, x, v)[x] = v
           /\ \A y \in Fields : y # x => Put(b, x, v)[y] = b[y]
BY DEF IsBoard, Put

(* What each step writes.                                                  *)
LEMMA StepWrites ==
    ASSUME NEW full, NEW w, NEW b
    PROVE  /\ Stepped("course_tracker", full, w, b)
                = Put(b, "tracker", Tracker(w))
           /\ Stepped("acceptance_status", full, w, b)
                = Put(b, "acceptance", Acceptance(w, b.tracker))
           /\ Stepped("training_decision", full, w, b)
                = Put(b, "training", TrainingDecision(w, b.acceptance))
           /\ Stepped("candidate_coverage", full, w, b)
                = Put(b, "coverage", w.pendingFallback)
           /\ Stepped("source_timing_preflight", full, w, b)
                = Put(b, "timing", SourceTiming(b.tracker))
           /\ Stepped("course_advance", full, w, b)
                = Put(Put(Put(b, "tracker", Tracker(w)),
                          "acceptance", Acceptance(w, Tracker(w))),
                      "advance", CourseAdvance(w, Tracker(w), Acceptance(w, Tracker(w))))
           /\ Stepped("acceptance_gate_check", full, w, b)
                = Put(b, "gate", AcceptanceGate(w, b.tracker, b.acceptance))
           /\ Stepped("watchdog", full, w, b)
                = Put(b, "watchdog", Watchdog(w, b.tracker, b.acceptance))
           /\ Stepped("runtime_blockers", full, w, b)
                = Put(b, "blockers", RuntimeBlockers(b.watchdog))
           /\ Stepped("goal_status", full, w, b)
                = Put(b, "goal", GoalStatus(w, b.tracker, b.acceptance,
                                        IF full THEN w.health ELSE "none"))
           /\ Stepped("v25_diagnostics", full, w, b)
                = Put(b, "diagnostics", Diagnostics(b.goal, b.summary))
           /\ Stepped("delivery_index", full, w, b)
                = Put(b, "delivery", DeliveryIndex(b.acceptance, b.advance, b.goal))
           /\ Stepped("batch_review", full, w, b)
                = Put(b, "batch", BatchReview(b.acceptance, b.training))
           /\ Stepped("handoff_report", full, w, b)
                = Put(Put(b, "handoff", Handoff(w, b.watchdog, b.goal, b.delivery, b.coverage)),
                      "quoted", Quoted(b.summary))
           /\ Stepped("summary", full, w, b)
                = Put(b, "summary", Summary(b.tracker, b.goal, b.coverage, b.delivery))
BY DEF Stepped, Put

(* The same of a step with docker up.                                      *)
FullStepped(step, w, b) == Stepped(step, TRUE, w, b)

LEMMA FullWrites ==
    ASSUME NEW w, NEW b
    PROVE  /\ FullStepped("course_tracker", w, b)
                = Put(b, "tracker", Tracker(w))
           /\ FullStepped("acceptance_status", w, b)
                = Put(b, "acceptance", Acceptance(w, b.tracker))
           /\ FullStepped("training_decision", w, b)
                = Put(b, "training", TrainingDecision(w, b.acceptance))
           /\ FullStepped("candidate_coverage", w, b)
                = Put(b, "coverage", w.pendingFallback)
           /\ FullStepped("source_timing_preflight", w, b)
                = Put(b, "timing", SourceTiming(b.tracker))
           /\ FullStepped("course_advance", w, b)
                = Put(Put(Put(b, "tracker", Tracker(w)),
                          "acceptance", Acceptance(w, Tracker(w))),
                      "advance", CourseAdvance(w, Tracker(w), Acceptance(w, Tracker(w))))
           /\ FullStepped("acceptance_gate_check", w, b)
                = Put(b, "gate", AcceptanceGate(w, b.tracker, b.acceptance))
           /\ FullStepped("watchdog", w, b)
                = Put(b, "watchdog", Watchdog(w, b.tracker, b.acceptance))
           /\ FullStepped("runtime_blockers", w, b)
                = Put(b, "blockers", RuntimeBlockers(b.watchdog))
           /\ FullStepped("goal_status", w, b)
                = Put(b, "goal", GoalStatus(w, b.tracker, b.acceptance, w.health))
           /\ FullStepped("v25_diagnostics", w, b)
                = Put(b, "diagnostics", Diagnostics(b.goal, b.summary))
           /\ FullStepped("delivery_index", w, b)
                = Put(b, "delivery", DeliveryIndex(b.acceptance, b.advance, b.goal))
           /\ FullStepped("batch_review", w, b)
                = Put(b, "batch", BatchReview(b.acceptance, b.training))
           /\ FullStepped("handoff_report", w, b)
                = Put(Put(b, "handoff", Handoff(w, b.watchdog, b.goal, b.delivery, b.coverage)),
                      "quoted", Quoted(b.summary))
           /\ FullStepped("summary", w, b)
                = Put(b, "summary", Summary(b.tracker, b.goal, b.coverage, b.delivery))
BY DEF FullStepped, Stepped, Put

(* And of a step without docker.                                           *)
DegradedStepped(step, w, b) == Stepped(step, FALSE, w, b)

LEMMA DegradedWrites ==
    ASSUME NEW w, NEW b
    PROVE  /\ DegradedStepped("training_decision", w, b)
                = Put(b, "training", TrainingDecision(w, b.acceptance))
           /\ DegradedStepped("acceptance_gate_check", w, b)
                = Put(b, "gate", AcceptanceGate(w, b.tracker, b.acceptance))
           /\ DegradedStepped("watchdog", w, b)
                = Put(b, "watchdog", Watchdog(w, b.tracker, b.acceptance))
           /\ DegradedStepped("runtime_blockers", w, b)
                = Put(b, "blockers", RuntimeBlockers(b.watchdog))
           /\ DegradedStepped("goal_status", w, b)
                = Put(b, "goal", GoalStatus(w, b.tracker, b.acceptance, "none"))
           /\ DegradedStepped("delivery_index", w, b)
                = Put(b, "delivery", DeliveryIndex(b.acceptance, b.advance, b.goal))
           /\ DegradedStepped("batch_review", w, b)
                = Put(b, "batch", BatchReview(b.acceptance, b.training))
           /\ DegradedStepped("handoff_report", w, b)
                = Put(Put(b, "handoff", Handoff(w, b.watchdog, b.goal, b.delivery, b.coverage)),
                      "quoted", Quoted(b.summary))
           /\ DegradedStepped("summary", w, b)
                = Put(b, "summary", Summary(b.tracker, b.goal, b.coverage, b.delivery))
BY DEF DegradedStepped, Stepped, Put

(* Every step changes reports only.                                        *)
LEMMA StepKeepsBoard ==
    ASSUME NEW step \in StepNames, NEW full, NEW w, NEW b, IsBoard(b)
    PROVE  IsBoard(Stepped(step, full, w, b))
BY PutOne, StepWrites DEF StepNames, Fields

-----------------------------------------------------------------------------
(* One step of a quiet full refresh makes one more report fresh: the       *)
(* reports that its tool reads are fresh, or are written anew by it.       *)
LEMMA FullStepFresh ==
    ASSUME NEW w, Typed(w), NEW r, r = Reports(w), NEW b, IsBoard(b),
           NEW n \in 0..14, Fresh(r, b, n),
           NEW c, c = FullStepped(FullSteps[n + 1], w, b)
    PROVE  Fresh(r, c, n + 1)
<1>1. \A s : Diagnostics(r.goal, s) = r.diagnostics
  <2>1. r.goal.health = w.health
    <3>1. \A t, a, h : GoalStatus(w, t, a, h).health = h
      BY DEF GoalStatus
    <3> QED  BY <3>1, ReportFields
  <2>2. w.health # "none"
    BY DEF Typed, Healths
  <2> QED  BY <2>1, <2>2, ReportFields DEF Diagnostics
<1>2. CASE n = 0
  <2>1. c = Put(b, "tracker", Tracker(w))
    BY <1>2, FullWrites DEF FullSteps
  <2>2. Tracker(w) = r.tracker
    BY <1>2, ReportFields DEF Fresh
  <2> QED  BY <1>2, <2>1, <2>2, PutOne DEF Fresh, Fields
<1>3. CASE n = 1
  <2>1. c = Put(b, "acceptance", Acceptance(w, b.tracker))
    BY <1>3, FullWrites DEF FullSteps
  <2>2. Acceptance(w, b.tracker) = r.acceptance
    BY <1>3, ReportFields DEF Fresh
  <2> QED  BY <1>3, <2>1, <2>2, PutOne DEF Fresh, Fields
<1>4. CASE n = 2
  <2>1. c = Put(b, "training", TrainingDecision(w, b.acceptance))
    BY <1>4, FullWrites DEF FullSteps
  <2>2. TrainingDecision(w, b.acceptance) = r.training
    BY <1>4, ReportFields DEF Fresh
  <2> QED  BY <1>4, <2>1, <2>2, PutOne DEF Fresh, Fields
<1>5. CASE n = 3
  <2>1. c = Put(b, "coverage", w.pendingFallback)
    BY <1>5, FullWrites DEF FullSteps
  <2>2. w.pendingFallback = r.coverage
    BY <1>5, ReportFields DEF Fresh
  <2> QED  BY <1>5, <2>1, <2>2, PutOne DEF Fresh, Fields
<1>6. CASE n = 4
  <2>1. c = Put(b, "timing", SourceTiming(b.tracker))
    BY <1>6, FullWrites DEF FullSteps
  <2>2. SourceTiming(b.tracker) = r.timing
    BY <1>6, ReportFields DEF Fresh
  <2> QED  BY <1>6, <2>1, <2>2, PutOne DEF Fresh, Fields
<1>7. CASE n = 5
  <2> DEFINE t == Tracker(w)
             a == Acceptance(w, t)
  <2>1. c = Put(Put(Put(b, "tracker", t), "acceptance", a), "advance", CourseAdvance(w, t, a))
    BY <1>7, FullWrites DEF FullSteps
  <2>2. t = r.tracker /\ a = r.acceptance /\ CourseAdvance(w, t, a) = r.advance
    BY ReportFields
  <2> HIDE DEF t, a
  <2> QED  BY <1>7, <2>1, <2>2, PutOne DEF Fresh, Fields
<1>8. CASE n = 6
  <2>1. c = Put(b, "gate", AcceptanceGate(w, b.tracker, b.acceptance))
    BY <1>8, FullWrites DEF FullSteps
  <2>2. AcceptanceGate(w, b.tracker, b.acceptance) = r.gate
    BY <1>8, ReportFields DEF Fresh
  <2> QED  BY <1>8, <2>1, <2>2, PutOne DEF Fresh, Fields
<1>9. CASE n = 7
  <2>1. c = Put(b, "watchdog", Watchdog(w, b.tracker, b.acceptance))
    BY <1>9, FullWrites DEF FullSteps
  <2>2. Watchdog(w, b.tracker, b.acceptance) = r.watchdog
    BY <1>9, ReportFields DEF Fresh
  <2> QED  BY <1>9, <2>1, <2>2, PutOne DEF Fresh, Fields
<1>10. CASE n = 8
  <2>1. c = Put(b, "blockers", RuntimeBlockers(b.watchdog))
    BY <1>10, FullWrites DEF FullSteps
  <2>2. RuntimeBlockers(b.watchdog) = r.blockers
    BY <1>10, ReportFields DEF Fresh
  <2> QED  BY <1>10, <2>1, <2>2, PutOne DEF Fresh, Fields
<1>11. CASE n = 9
  <2>1. c = Put(b, "goal", GoalStatus(w, b.tracker, b.acceptance, w.health))
    BY <1>11, FullWrites DEF FullSteps
  <2>2. GoalStatus(w, b.tracker, b.acceptance, w.health) = r.goal
    BY <1>11, ReportFields DEF Fresh
  <2> QED  BY <1>11, <2>1, <2>2, PutOne DEF Fresh, Fields
<1>12. CASE n = 10
  <2>1. c = Put(b, "diagnostics", Diagnostics(b.goal, b.summary))
    BY <1>12, FullWrites DEF FullSteps
  <2>2. Diagnostics(b.goal, b.summary) = r.diagnostics
    BY <1>1, <1>12, ReportFields DEF Fresh
  <2> QED  BY <1>12, <2>1, <2>2, PutOne DEF Fresh, Fields
<1>13. CASE n = 11
  <2>1. c = Put(b, "delivery", DeliveryIndex(b.acceptance, b.advance, b.goal))
    BY <1>13, FullWrites DEF FullSteps
  <2>2. DeliveryIndex(b.acceptance, b.advance, b.goal) = r.delivery
    BY <1>13, ReportFields DEF Fresh
  <2> QED  BY <1>13, <2>1, <2>2, PutOne DEF Fresh, Fields
<1>14. CASE n = 12
  <2>1. c = Put(b, "batch", BatchReview(b.acceptance, b.training))
    BY <1>14, FullWrites DEF FullSteps
  <2>2. BatchReview(b.acceptance, b.training) = r.batch
    BY <1>14, ReportFields DEF Fresh
  <2> QED  BY <1>14, <2>1, <2>2, PutOne DEF Fresh, Fields
<1>15. CASE n = 13
  <2>1. c = Put(Put(b, "handoff", Handoff(w, b.watchdog, b.goal, b.delivery, b.coverage)),
                "quoted", Quoted(b.summary))
    BY <1>15, FullWrites DEF FullSteps
  <2>2. Handoff(w, b.watchdog, b.goal, b.delivery, b.coverage) = r.handoff
    BY <1>15, ReportFields DEF Fresh
  <2> QED  BY <1>15, <2>1, <2>2, PutOne DEF Fresh, Fields
<1>16. CASE n = 14
  <2>1. c = Put(b, "summary", Summary(b.tracker, b.goal, b.coverage, b.delivery))
    BY <1>16, FullWrites DEF FullSteps
  <2>2. Summary(b.tracker, b.goal, b.coverage, b.delivery) = r.summary
    BY <1>16, ReportFields DEF Fresh
  <2> QED  BY <1>16, <2>1, <2>2, PutOne DEF Fresh, Fields
<1> QED
  BY <1>2, <1>3, <1>4, <1>5, <1>6, <1>7, <1>8, <1>9, <1>10, <1>11, <1>12, <1>13, <1>14, <1>15, <1>16

(* In the second refresh of two, the handoff quotes a summary that is      *)
(* right, and the summary is written again as it was.                      *)
LEMMA FullStepKeeps ==
    ASSUME NEW w, NEW r, r = Reports(w), NEW b, IsBoard(b),
           NEW n \in 0..14, Fresh(r, b, n), Kept(r, b, n),
           NEW c, c = FullStepped(FullSteps[n + 1], w, b)
    PROVE  Kept(r, c, n + 1)
<1> DEFINE s == FullSteps[n + 1]
<1>1. CASE n = 13
  <2>1. c = Put(Put(b, "handoff", Handoff(w, b.watchdog, b.goal, b.delivery, b.coverage)),
                "quoted", Quoted(b.summary))
    BY <1>1, FullWrites DEF FullSteps
  <2> QED  BY <1>1, <2>1, PutOne DEF Kept, Fields
<1>2. CASE n = 14
  <2>1. c = Put(b, "summary", Summary(b.tracker, b.goal, b.coverage, b.delivery))
    BY <1>2, FullWrites DEF FullSteps
  <2>2. Summary(b.tracker, b.goal, b.coverage, b.delivery) = r.summary
    BY <1>2, ReportFields DEF Fresh
  <2> QED  BY <1>2, <2>1, <2>2, PutOne DEF Kept, Fields
<1>3. CASE n < 13
  <2>1. s \in StepNames \ {"handoff_report", "summary"}
    BY <1>3 DEF FullSteps, StepNames
  <2>2. \A x \in StepNames \ {"handoff_report", "summary"} :
            FullStepped(x, w, b).summary = b.summary
    BY FullWrites, PutOne DEF StepNames, Fields
  <2>3. c.summary = b.summary
    BY <2>1, <2>2
  <2> QED  BY <1>3, <2>3 DEF Kept
<1> QED  BY <1>1, <1>2, <1>3

(* One step of a quiet refresh without docker.                             *)
LEMMA DegradedStepBlocked ==
    ASSUME NEW w, Typed(w), ~w.docker, NEW b, IsBoard(b),
           NEW n \in 0..8, Blocked(w, b, n),
           NEW c, c = DegradedStepped(DegradedSteps[n + 1], w, b)
    PROVE  Blocked(w, c, n + 1)
<1>1. CASE n = 0
  <2>1. c = Put(b, "training", TrainingDecision(w, b.acceptance))
    BY <1>1, DegradedWrites DEF DegradedSteps
  <2> QED  BY <1>1, <2>1, PutOne DEF Blocked, Fields
<1>2. CASE n = 1
  <2>1. c = Put(b, "gate", AcceptanceGate(w, b.tracker, b.acceptance))
    BY <1>2, DegradedWrites DEF DegradedSteps
  <2> QED  BY <1>2, <2>1, PutOne DEF Blocked, Fields
<1>3. CASE n = 2
  <2>1. c = Put(b, "watchdog", Watchdog(w, b.tracker, b.acceptance))
    BY <1>3, DegradedWrites DEF DegradedSteps
  <2>2. Watchdog(w, b.tracker, b.acceptance).docker = w.docker
    BY DEF Watchdog
  <2> QED  BY <1>3, <2>1, <2>2, PutOne DEF Blocked, Fields
<1>4. CASE n = 3
  <2>1. c = Put(b, "blockers", RuntimeBlockers(b.watchdog))
    BY <1>4, DegradedWrites DEF DegradedSteps
  <2>2. RuntimeBlockers(b.watchdog) # {}
    BY <1>4 DEF Blocked, RuntimeBlockers
  <2> QED  BY <1>4, <2>1, <2>2, PutOne DEF Blocked, Fields
<1>5. CASE n = 4
  <2>1. c = Put(b, "goal", GoalStatus(w, b.tracker, b.acceptance, "none"))
    BY <1>5, DegradedWrites DEF DegradedSteps
  <2> QED  BY <1>5, <2>1, PutOne DEF Blocked, Fields
<1>6. CASE n = 5
  <2>1. c = Put(b, "delivery", DeliveryIndex(b.acceptance, b.advance, b.goal))
    BY <1>6, DegradedWrites DEF DegradedSteps
  <2> QED  BY <1>6, <2>1, PutOne DEF Blocked, Fields
<1>7. CASE n = 6
  <2>1. c = Put(b, "batch", BatchReview(b.acceptance, b.training))
    BY <1>7, DegradedWrites DEF DegradedSteps
  <2> QED  BY <1>7, <2>1, PutOne DEF Blocked, Fields
<1>8. CASE n = 7
  <2>1. c = Put(Put(b, "handoff", Handoff(w, b.watchdog, b.goal, b.delivery, b.coverage)),
                "quoted", Quoted(b.summary))
    BY <1>8, DegradedWrites DEF DegradedSteps
  <2>2. Handoff(w, b.watchdog, b.goal, b.delivery, b.coverage) = "repair_docker_engine"
    BY <1>8 DEF Blocked, Handoff
  <2> QED  BY <1>8, <2>1, <2>2, PutOne DEF Blocked, Fields
<1>9. CASE n = 8
  <2>1. c = Put(b, "summary", Summary(b.tracker, b.goal, b.coverage, b.delivery))
    BY <1>9, DegradedWrites DEF DegradedSteps
  <2> QED  BY <1>9, <2>1, PutOne DEF Blocked, Fields
<1> QED
  BY <1>1, <1>2, <1>3, <1>4, <1>5, <1>6, <1>7, <1>8, <1>9

-----------------------------------------------------------------------------
(* The world keeps its types.                                              *)
Parts == {"source", "eps", "dirs", "health", "docker"}

(* A part changes to a value of its type, or something else changes.       *)
LEMMA PartChanges ==
    ASSUME NEW w, Typed(w), NEW x, NEW v,
           x = "source" => v \in [Lectures -> SourceStates],
           x = "eps" => v \in Seq(Episode),
           x = "dirs" => v \in [Lectures -> Dir],
           x = "health" => v \in Healths,
           x = "docker" => v \in BOOLEAN
    PROVE  Typed(Put(w, x, v))
<1>1. DOMAIN Put(w, x, v) = DOMAIN w
  BY DEF Put
<1>2. \A y \in Parts : Put(w, x, v)[y] = IF y = x THEN v ELSE w[y]
  BY DEF Typed, Parts, Put
<1> QED  BY <1>1, <1>2 DEF Typed, Parts

LEMMA WorldKeepsTypes ==
    ASSUME Typed(world), WorldMoves
    PROVE  Typed(world')
<1>1. ASSUME NEW l \in Lectures, StartEpisode(l) PROVE Typed(world')
  <2>1. world' = Put(world, "eps", Append(world.eps, [lecture |-> l, status |-> "running"]))
    BY <1>1 DEF StartEpisode, Moved, Put
  <2>2. Append(world.eps, [lecture |-> l, status |-> "running"]) \in Seq(Episode)
    BY DEF Typed, Episode, EpisodeStatuses
  <2> QED  BY <2>1, <2>2, PartChanges
<1>2. ASSUME NEW l \in Lectures, PublishArtifacts(l) PROVE Typed(world')
  <2> DEFINE e == LatestCompleted(world.eps, l)
  <2>1. e \in Nat
    <3>1. e \in {0} \cup EpisodesOf(world.eps, l)
      BY LatestIsEpisode DEF Typed, Episode
    <3> QED  BY <3>1 DEF EpisodesOf, Typed
  <2>2. PICK fit \in FitStatuses :
          world' = [world EXCEPT
                      !.dirs[l] = [asr |-> e, fit |-> e, pack |-> e, prov |-> e, fitStatus |-> fit,
                                   manifest |-> [NoManifest EXCEPT !.episode = e, !.asr = TRUE,
                                                                   !.pack = TRUE]],
                      !.fin[l] = "finalized_for_human_review"]
    BY <1>2 DEF PublishArtifacts, Moved
  <2> HIDE DEF e
  <2> DEFINE d == [asr |-> e, fit |-> e, pack |-> e, prov |-> e, fitStatus |-> fit,
                   manifest |-> [NoManifest EXCEPT !.episode = e, !.asr = TRUE, !.pack = TRUE]]
             ds == [world.dirs EXCEPT ![l] = d]
             fs == [world.fin EXCEPT ![l] = "finalized_for_human_review"]
  <2>3. d \in Dir
    BY <2>1 DEF Dir, Manifest, NoManifest
  <2>4. world' = Put(Put(world, "dirs", ds), "fin", fs)
    BY <2>2 DEF Put
  <2> HIDE DEF d
  <2>5. ds \in [Lectures -> Dir]
    BY <2>3 DEF Typed
  <2> HIDE DEF ds, fs
  <2> QED  BY <2>4, <2>5, PartChanges
<1>3. ASSUME NEW l \in Lectures, NEW decision, RecordDecision(l, decision) PROVE Typed(world')
  <2> DEFINE m == IF decision = "accept" THEN [world.dirs[l].manifest EXCEPT !.accepted = TRUE]
                  ELSE [world.dirs[l].manifest EXCEPT !.blocked = TRUE]
             d == [world.dirs[l] EXCEPT !.manifest = m]
             ds == [world.dirs EXCEPT ![l] = d]
  <2>1. world.dirs[l] \in Dir /\ world.dirs[l].manifest \in Manifest
    BY DEF Typed, Dir
  <2>2. m \in Manifest
    BY <2>1 DEF Manifest
  <2>3. world' = Put(world, "dirs", ds)
    BY <1>3 DEF RecordDecision, Moved, Put
  <2> HIDE DEF m
  <2>4. d \in Dir
    BY <2>1, <2>2 DEF Dir
  <2> HIDE DEF d
  <2>5. ds \in [Lectures -> Dir]
    BY <2>4 DEF Typed
  <2> HIDE DEF ds
  <2> QED  BY <2>3, <2>5, PartChanges
<1>4. ASSUME NEW l \in Lectures, NEW state \in SourceStates, ChangeSource(l, state)
      PROVE  Typed(world')
  <2>1. world' = Put(world, "source", [world.source EXCEPT ![l] = state])
    BY <1>4 DEF ChangeSource, Moved, Put
  <2>2. [world.source EXCEPT ![l] = state] \in [Lectures -> SourceStates]
    BY DEF Typed
  <2> QED  BY <2>1, <2>2, PartChanges
<1>5. ASSUME NEW i \in DOMAIN world.eps, NEW status \in {"completed", "failed"},
             EndEpisode(i, status)
      PROVE  Typed(world')
  <2> DEFINE es == [world.eps EXCEPT ![i] = [world.eps[i] EXCEPT !.status = status]]
  <2>1. world' = Put(world, "eps", es)
    BY <1>5 DEF EndEpisode, Moved, Put
  <2>2. world.eps \in Seq(Episode) /\ world.eps[i] \in Episode
    BY DEF Typed
  <2>3. [world.eps[i] EXCEPT !.status = status] \in Episode
    BY <2>2 DEF Episode, EpisodeStatuses
  <2>4. es \in Seq(Episode)
    BY <2>2, <2>3
  <2> HIDE DEF es
  <2> QED  BY <2>1, <2>4, PartChanges
<1>6. ASSUME NEW v, WatcherFlips(v) PROVE Typed(world')
  <2> DEFINE vs == IF v \in world.running THEN world.running \ {v} ELSE world.running \cup {v}
  <2>1. world' = Put(world, "running", vs)
    BY <1>6 DEF WatcherFlips, Moved, Put
  <2> HIDE DEF vs
  <2> QED  BY <2>1, PartChanges
<1>7. ASSUME NEW health \in Healths, RegressionMoves(health) PROVE Typed(world')
  <2>1. world' = Put(Put(world, "health", health), "gate", FALSE)
    BY <1>7 DEF RegressionMoves, Moved, Put
  <2>2. Typed(Put(world, "health", health))
    BY PartChanges
  <2> QED  BY <2>1, <2>2, PartChanges
<1>8. ASSUME DockerFlips PROVE Typed(world')
  <2>1. world' = Put(world, "docker", ~world.docker)
    BY <1>8 DEF DockerFlips, Moved, Put
  <2> QED  BY <2>1, PartChanges
<1>9. ASSUME FallbackFlips PROVE Typed(world')
  <2>1. world' = Put(world, "pendingFallback", ~world.pendingFallback)
    BY <1>9 DEF FallbackFlips, Moved, Put
  <2> QED  BY <2>1, PartChanges
<1> QED
  BY <1>1, <1>2, <1>3, <1>4, <1>5, <1>6, <1>7, <1>8, <1>9 DEF WorldMoves

-----------------------------------------------------------------------------
(* The lap                                                                 *)

(* The next step of a lap that has n of them behind it.                    *)
LEMMA NextStep ==
    ASSUME LapOK, lap.todo # <<>>, NEW steps \in Seq(StepNames), NEW n \in 0..Len(steps),
           Behind(steps, n), lap'.todo = Tail(lap.todo)
    PROVE  /\ n + 1 \in 1..Len(steps)
           /\ Head(lap.todo) = steps[n + 1]
           /\ Behind(steps, n + 1)'
<1>1. lap.todo \in Seq(StepNames) /\ Len(lap.todo) \in Nat /\ Len(steps) \in Nat
  BY DEF LapOK
<1>2. Len(lap.todo) = Len(steps) - n /\ Len(lap.todo) >= 1
  BY <1>1 DEF Behind
<1>3. Head(lap.todo) = steps[n + 1]
  BY <1>1, <1>2 DEF Behind
<1>4. Len(lap'.todo) = Len(steps) - (n + 1)
  BY <1>1, <1>2
<1>5. ASSUME NEW k \in 1..(Len(steps) - (n + 1)) PROVE lap'.todo[k] = steps[(n + 1) + k]
  <2>1. lap'.todo[k] = lap.todo[k + 1]
    BY <1>1, <1>2
  <2>2. k + 1 \in 1..(Len(steps) - n) /\ n + (k + 1) = (n + 1) + k
    BY <1>1
  <2> QED  BY <2>1, <2>2 DEF Behind
<1> QED  BY <1>1, <1>2, <1>3, <1>4, <1>5 DEF Behind

LEMMA Lengths ==
    /\ FullSteps \in Seq(StepNames) /\ Len(FullSteps) = 15
    /\ DegradedSteps \in Seq(StepNames) /\ Len(DegradedSteps) = 9
BY DEF FullSteps, DegradedSteps, StepNames

(* A settled full refresh has run all its steps.                           *)
LEMMA FullRefreshIsFresh ==
    ASSUME BoardInv, Settled, lap.full
    PROVE  /\ Fresh(Reports(world), board, 15)
           /\ lap.again => Kept(Reports(world), board, 15)
<1>1. PICK n \in 0..15 : /\ Behind(FullSteps, n) /\ Fresh(Reports(world), board, n)
                         /\ lap.again => Kept(Reports(world), board, n)
  BY DEF BoardInv, FullLap, Settled
<1>2. n = 15
  BY <1>1, Lengths DEF Behind, Settled
<1> QED  BY <1>1, <1>2

LEMMA BoardInvInit == BoardInit => BoardInv
<1> SUFFICES ASSUME BoardInit PROVE BoardInv
  OBVIOUS
<1>1. Typed(world)
  BY BoardAssumption DEF BoardInit
<1>2. IsBoard(board)
  BY ReportFields DEF BoardInit
<1>3. LapOK /\ ~lap.quiet /\ ~lap.again
  BY DEF BoardInit, LapOK
<1> QED  BY <1>1, <1>2, <1>3 DEF BoardInv, FullLap, DegradedLap

LEMMA BoardInvMoves ==
    ASSUME BoardInv, WorldMoves
    PROVE  BoardInv'
<1>1. Typed(world')
  BY WorldKeepsTypes DEF BoardInv
<1>2. board' = board /\ lap' = [lap EXCEPT !.quiet = FALSE, !.again = FALSE]
  BY DEF WorldMoves, StartEpisode, PublishArtifacts, RecordDecision, ChangeSource, EndEpisode,
         WatcherFlips, RegressionMoves, DockerFlips, FallbackFlips, Moved
<1>3. LapOK' /\ ~lap'.quiet /\ ~lap'.again
  BY <1>2 DEF LapOK, BoardInv
<1> QED  BY <1>1, <1>2, <1>3 DEF BoardInv, FullLap, DegradedLap

LEMMA BoardInvBegin ==
    ASSUME BoardInv, Begin
    PROVE  BoardInv'
<1>1. world' = world /\ board' = board /\ world.docker \in BOOLEAN
  BY DEF Begin, BoardInv, Typed
<1>2. /\ lap' = [todo |-> IF world.docker THEN FullSteps ELSE DegradedSteps,
                 full |-> world.docker, quiet |-> TRUE,
                 again |-> lap.quiet /\ world.docker, n |-> lap.n + 1]
      /\ lap.n \in Nat /\ lap.quiet \in BOOLEAN /\ lap.todo = <<>>
  BY DEF Begin, BoardInv, LapOK
<1>3. LapOK'
  BY <1>1, <1>2, Lengths DEF LapOK
<1>4. /\ lap'.full = world.docker /\ lap'.quiet
      /\ lap'.again <=> lap.quiet /\ world.docker
      /\ lap'.todo = IF world.docker THEN FullSteps ELSE DegradedSteps
  BY <1>2, Zenon
<1>5. CASE world.docker
  <2>1. Behind(FullSteps, 0)'
    BY <1>4, <1>5, Lengths DEF Behind
  <2>2. Fresh(Reports(world), board, 0)'
    BY DEF Fresh
  <2>3. lap'.again => Kept(Reports(world), board, 0)'
    <3> SUFFICES ASSUME lap'.again PROVE Kept(Reports(world), board, 0)
      BY <1>1
    <3>1. Settled /\ lap.full
      BY <1>2, <1>4 DEF Settled, BoardInv
    <3> QED  BY <3>1, FullRefreshIsFresh DEF Fresh, Kept
  <2> QED  BY <1>1, <1>3, <1>4, <1>5, <2>1, <2>2, <2>3 DEF BoardInv, FullLap, DegradedLap
<1>6. CASE ~world.docker
  <2>1. Behind(DegradedSteps, 0)'
    BY <1>4, <1>6, Lengths DEF Behind
  <2>2. Blocked(world, board, 0)'
    BY DEF Blocked
  <2> QED  BY <1>1, <1>3, <1>4, <1>6, <2>1, <2>2 DEF BoardInv, FullLap, DegradedLap
<1> QED  BY <1>5, <1>6

LEMMA BoardInvFail ==
    ASSUME BoardInv, FailStep
    PROVE  BoardInv'
<1>1. world' = world /\ lap' = [lap EXCEPT !.todo = Tail(@), !.quiet = FALSE,
                                                   !.again = FALSE]
  BY DEF FailStep
<1>2. IsBoard(board')
  BY StepKeepsBoard DEF FailStep, BoardInv, StepNames
<1>3. LapOK' /\ ~lap'.quiet /\ ~lap'.again
  <2>1. lap.todo \in Seq(StepNames) /\ lap.todo # <<>>
    BY DEF FailStep, BoardInv, LapOK
  <2>2. Tail(lap.todo) \in Seq(StepNames)
    BY <2>1
  <2> QED  BY <1>1, <2>2 DEF LapOK, BoardInv
<1> QED  BY <1>1, <1>2, <1>3 DEF BoardInv, FullLap, DegradedLap

LEMMA BoardInvRun ==
    ASSUME BoardInv, RunStep
    PROVE  BoardInv'
<1> DEFINE step == Head(lap.todo)
<1>1. /\ world' = world /\ lap' = [lap EXCEPT !.todo = Tail(@)] /\ lap.todo # <<>>
      /\ lap.todo \in Seq(StepNames) /\ lap.full \in BOOLEAN /\ lap.quiet \in BOOLEAN
      /\ lap.again \in BOOLEAN /\ Typed(world) /\ IsBoard(board) /\ LapOK
  BY DEF RunStep, BoardInv, LapOK
<1>2. board' = Stepped(step, lap.full, world, board)
  BY DEF RunStep
<1>3. step \in StepNames /\ Tail(lap.todo) \in Seq(StepNames)
  BY <1>1
<1>4. IsBoard(board')
  BY <1>1, <1>2, <1>3, StepKeepsBoard
<1>5. /\ lap'.todo = Tail(lap.todo) /\ lap'.full = lap.full /\ lap'.quiet = lap.quiet
      /\ lap'.again = lap.again /\ LapOK'
  BY <1>1, <1>3 DEF LapOK
<1>6. FullLap'
  <2> SUFFICES ASSUME lap.quiet, lap.full
               PROVE  \E n \in 0..15 :
                          /\ Behind(FullSteps, n)' /\ Fresh(Reports(world), board', n)
                          /\ lap.again => Kept(Reports(world), board', n)
    BY <1>1, <1>5 DEF FullLap
  <2>1. PICK n \in 0..15 : /\ Behind(FullSteps, n) /\ Fresh(Reports(world), board, n)
                           /\ lap.again => Kept(Reports(world), board, n)
    BY DEF BoardInv, FullLap
  <2>2. n + 1 \in 1..15 /\ step = FullSteps[n + 1] /\ Behind(FullSteps, n + 1)'
    BY <1>1, <1>5, <2>1, NextStep, Lengths
  <2>3. board' = FullStepped(FullSteps[n + 1], world, board)
    <3>1. lap.full = TRUE
      BY <1>1
    <3> QED  BY <1>2, <2>2, <3>1, Zenon DEF FullStepped
  <2>4. n \in 0..14
    BY <2>1, <2>2
  <2>5. Fresh(Reports(world), board', n + 1)
    BY <1>1, <2>1, <2>3, <2>4, FullStepFresh
  <2>6. lap.again => Kept(Reports(world), board', n + 1)
    BY <1>1, <2>1, <2>3, <2>4, FullStepKeeps
  <2> QED  BY <2>2, <2>4, <2>5, <2>6
<1>7. DegradedLap'
  <2> SUFFICES ASSUME lap.quiet, ~lap.full
               PROVE  \E n \in 0..9 : Behind(DegradedSteps, n)' /\ Blocked(world, board', n)
    BY <1>1, <1>5 DEF DegradedLap
  <2>1. PICK n \in 0..9 : Behind(DegradedSteps, n) /\ Blocked(world, board, n)
    BY DEF BoardInv, DegradedLap
  <2>2. n + 1 \in 1..9 /\ step = DegradedSteps[n + 1] /\ Behind(DegradedSteps, n + 1)'
    BY <1>1, <1>5, <2>1, NextStep, Lengths
  <2>3. board' = DegradedStepped(DegradedSteps[n + 1], world, board)
    <3>1. lap.full = FALSE
      BY <1>1
    <3> QED  BY <1>2, <2>2, <3>1, Zenon DEF DegradedStepped
  <2>4. n \in 0..8 /\ ~world.docker
    BY <2>1, <2>2 DEF BoardInv
  <2>5. Blocked(world, board', n + 1)
    BY <1>1, <2>1, <2>3, <2>4, DegradedStepBlocked
  <2> QED  BY <2>2, <2>4, <2>5
<1>8. /\ lap'.quiet => (lap'.full <=> world'.docker)
      /\ lap'.again => lap'.quiet /\ lap'.full
  BY <1>1, <1>5 DEF BoardInv
<1> QED  BY <1>1, <1>4, <1>5, <1>6, <1>7, <1>8 DEF BoardInv

LEMMA BoardInvStep ==
    ASSUME BoardInv, [BoardNext]_boardVars
    PROVE  BoardInv'
<1>1. CASE UNCHANGED boardVars
  BY <1>1 DEF boardVars, BoardInv, LapOK, FullLap, DegradedLap, Behind
<1> QED
  BY <1>1, BoardInvMoves, BoardInvBegin, BoardInvRun, BoardInvFail DEF BoardNext

-----------------------------------------------------------------------------
(* A settled refresh                                                       *)

LEMMA DegradedRefreshIsBlocked ==
    ASSUME BoardInv, Settled, ~lap.full
    PROVE  Blocked(world, board, 9)
<1>1. PICK n \in 0..9 : Behind(DegradedSteps, n) /\ Blocked(world, board, n)
  BY DEF BoardInv, DegradedLap, Settled
<1>2. n = 9
  BY <1>1, Lengths DEF Behind, Settled
<1> QED  BY <1>1, <1>2

(* HandoffTellsTheTruth: a settled refresh leaves no report that is older  *)
(* than the world, in whatever state earlier refreshes left the reports,   *)
(* but for what the handoff quotes of the refresh before, which is right   *)
(* when that one was settled in the same world; without docker the handoff *)
(* says so.                                                                *)
THEOREM SettledBoardIsTrue == BoardSpec => []HandoffTellsTheTruth
<1>1. ASSUME BoardInv, Settled, lap.full
      PROVE  board = [Reports(world) EXCEPT !.quoted = board.quoted]
  <2> DEFINE r == Reports(world)
             c == Put(r, "quoted", board.quoted)
  <2>1. IsBoard(board) /\ IsBoard(r)
    BY <1>1, ReportFields DEF BoardInv
  <2>2. Fresh(r, board, 15)
    BY <1>1, FullRefreshIsFresh
  <2> HIDE DEF r
  <2>3. /\ IsBoard(c) /\ c["quoted"] = board.quoted
        /\ \A x \in Fields : x # "quoted" => c[x] = r[x]
    BY <2>1, PutOne DEF Fields
  <2> HIDE DEF c
  <2>4. \A x \in Fields : board[x] = c[x]
    BY <2>2, <2>3 DEF Fresh, Fields
  <2>5. board = c
    BY <2>1, <2>3, <2>4 DEF IsBoard
  <2> QED  BY <2>5 DEF c, r, Put
<1>2. ASSUME BoardInv, Settled, lap.again PROVE board.quoted = Quoted(board.summary)
  BY <1>2, FullRefreshIsFresh DEF BoardInv, Kept
<1>3. BoardInv => HandoffTellsTheTruth
  BY <1>1, <1>2, DegradedRefreshIsBlocked DEF HandoffTellsTheTruth, Blocked
<1> QED  BY <1>3, BoardInvInit, BoardInvStep, PTL DEF BoardSpec

-----------------------------------------------------------------------------
(* The reports agree                                                       *)

(* Two tools judge whether a course adapter is due, and a third repeats    *)
(* the judgement.                                                          *)
LEMMA TrainingAgrees ==
    ASSUME NEW w, NEW acc, NEW t, t = TrainingDecision(w, acc),
           t.recommendation # "start_lecture_local_duration_prosody_lora_experiment"
    PROVE  LET due == t.readiness = "course_adapter_feasibility_review"
           IN  /\ due <=> t.recommendation = "consider_course_level_adapter_training"
               /\ due <=> BatchReview(acc, t) = "review_course_level_adapter_training_feasibility"
<1>1. PICK strong, gold, signal :
        /\ t.recommendation = TrainingRecommendation(Reviewed(acc), strong, gold, signal)
        /\ t.readiness = TrainingReadiness(Reviewed(acc), strong, gold)
  BY DEF TrainingDecision
<1> DEFINE few == Cardinality(Reviewed(acc)) < MinReviewed
           due == t.readiness = "course_adapter_feasibility_review"
<1>2. due <=> ~few /\ strong # {} /\ ~(gold < GoldFloor)
  BY <1>1 DEF TrainingReadiness
<1>3. t.recommendation = "consider_course_level_adapter_training"
        <=> ~few /\ strong # {} /\ ~(gold < GoldFloor)
  BY <1>1 DEF TrainingRecommendation
<1>4. BatchReview(acc, t) = "review_course_level_adapter_training_feasibility"
        <=> ~few /\ t.recommendation = "consider_course_level_adapter_training"
  BY DEF BatchReview
<1> HIDE DEF few, due
<1>5. /\ due <=> t.recommendation = "consider_course_level_adapter_training"
      /\ due <=> BatchReview(acc, t) = "review_course_level_adapter_training_feasibility"
  BY <1>2, <1>3, <1>4
<1> QED  BY <1>5 DEF due

(* The watchdog knows docker, and the handoff repairs it first.            *)
LEMMA DockerFirst ==
    ASSUME NEW w, NEW dog, NEW goal, NEW delivery, NEW coverage
    PROVE  Handoff(w, dog, goal, delivery, coverage) = "repair_docker_engine" <=> ~dog.docker
BY DEF Handoff

LEMMA FirstIsMember ==
    ASSUME NEW S \in SUBSET Lectures
    PROVE  /\ First(S) = 0 <=> S = {}
           /\ First(S) # 0 => First(S) \in S
<1>1. S # {} => Min(S) \in S
  BY MinIsLeast DEF Lectures
<1> QED  BY <1>1 DEF First, Lectures

(* While no source is gone, the tracker's rows and the episodes say the    *)
(* same about which lectures are in progress.                              *)
LEMMA InProgressIsActive ==
    ASSUME NEW w, Typed(w), NEW l \in Lectures, w.source[l] # "missing",
           NEW r, r = Tracker(w).rows[l]
    PROVE  /\ r.latest = LatestEpisode(w.eps, l)
           /\ r.status = "in_progress"
                <=> r.latest # 0 /\ w.eps[r.latest].status = "running"
           /\ r.latest # 0 => w.eps[r.latest].lecture = l
<1>1. r = TrackerRow(w.source[l], w.eps, l)
  BY DEF Tracker, BuildTracker
<1>2. r.latest = LatestEpisode(w.eps, l) /\ r.status = ClassifyLecture(w.source[l], w.eps, l)
  BY <1>1 DEF TrackerRow
<1>3. r.latest \in {0} \cup EpisodesOf(w.eps, l)
  BY <1>2, LatestIsEpisode DEF Typed, Episode
<1>4. r.latest # 0 => r.latest \in DOMAIN w.eps /\ w.eps[r.latest].lecture = l
  BY <1>3 DEF EpisodesOf
<1>5. r.latest # 0 => w.eps[r.latest].status \in EpisodeStatuses
  <2>1. \A i \in DOMAIN w.eps : w.eps[i] \in Episode
    BY DEF Typed
  <2> QED  BY <1>4, <2>1 DEF Episode
<1>6. ClassifyLecture(w.source[l], w.eps, l) = "in_progress"
        <=> r.latest # 0 /\ w.eps[r.latest].status = "running"
  <2>1. ASSUME NEW latest, latest = LatestEpisode(w.eps, l),
               latest # 0 => w.eps[latest].status \in {"running", "completed", "failed"}
        PROVE  ClassifyLecture(w.source[l], w.eps, l) = "in_progress"
                 <=> latest # 0 /\ w.eps[latest].status = "running"
    <3>1. CASE latest = 0
      BY <2>1, <3>1 DEF ClassifyLecture
    <3>2. CASE latest # 0 /\ w.eps[latest].status = "running"
      BY <2>1, <3>2 DEF ClassifyLecture
    <3>3. CASE latest # 0 /\ w.eps[latest].status = "completed"
      BY <2>1, <3>3 DEF ClassifyLecture
    <3>4. CASE latest # 0 /\ w.eps[latest].status = "failed"
      BY <2>1, <3>4 DEF ClassifyLecture
    <3> QED  BY <2>1, <3>1, <3>2, <3>3, <3>4
  <2> QED  BY <1>2, <1>5, <2>1 DEF EpisodeStatuses
<1> QED  BY <1>2, <1>4, <1>6

LEMMA ProductionIsTimed ==
    ASSUME NEW w, Typed(w), \A l \in Lectures : w.source[l] # "missing",
           NEW t, t = Tracker(w), NEW acc, NEW health
    PROVE  /\ CurrentProduction(t) = SourceTiming(t)
           /\ SourceTiming(t) # 0 =>
                w.eps[SourceTiming(t)].lecture = GoalStatus(w, t, acc, health).frontier
<1> DEFINE S == {l \in Lectures : t.rows[l].status = "in_progress"}
           A == {l \in Lectures : /\ t.rows[l].latest # 0
                                  /\ t.eps[t.rows[l].latest].status = "running"}
           f == First(S)
<1>1. t.eps = w.eps
  BY DEF Tracker
<1>2. A = S
  BY <1>1, InProgressIsActive
<1>3. CurrentProduction(t) = IF First(A) = 0 THEN 0 ELSE t.rows[First(A)].latest
  BY DEF CurrentProduction
<1>4. SourceTiming(t) = IF f = 0 THEN 0 ELSE t.rows[f].latest
  BY DEF SourceTiming
<1>5. CurrentProduction(t) = SourceTiming(t)
  <2> HIDE DEF S, A
  <2> QED  BY <1>2, <1>3, <1>4
<1>6. ASSUME SourceTiming(t) # 0
      PROVE  w.eps[SourceTiming(t)].lecture = GoalStatus(w, t, acc, health).frontier
  <2>1. f # 0 /\ SourceTiming(t) = t.rows[f].latest
    BY <1>4, <1>6
  <2>2. f \in Lectures
    BY <2>1, FirstIsMember
  <2>3. GoalStatus(w, t, acc, health).frontier = f
    BY <2>1 DEF GoalStatus
  <2> HIDE DEF f
  <2>4. w.eps[t.rows[f].latest].lecture = f
    BY <1>6, <2>1, <2>2, InProgressIsActive
  <2> QED  BY <2>1, <2>3, <2>4
<1> QED  BY <1>5, <1>6

(* ReportsAgree: after a settled refresh two reports that judge the same   *)
(* thing by rules of their own agree: on the episode in production, on the *)
(* course adapter, and on docker.                                          *)
THEOREM SettledReportsAgree == BoardSpec => []ReportsAgree
<1>1. ASSUME BoardInv, Settled, lap.full
      PROVE  ReportsAgree
  <2>1. Fresh(Reports(world), board, 15) /\ Typed(world)
    BY <1>1, FullRefreshIsFresh DEF BoardInv
  <2>2. (\A l \in Lectures : world.source[l] # "missing") =>
          /\ board.summary.production = board.timing
          /\ board.timing # 0 => world.eps[board.timing].lecture = board.goal.frontier
    <3>1. \A t, g, c, d : Summary(t, g, c, d).production = CurrentProduction(t)
      BY DEF Summary
    <3>2. /\ board.summary
                = Summary(board.tracker, board.goal, board.coverage, board.delivery)
          /\ board.timing = SourceTiming(board.tracker)
          /\ board.goal = GoalStatus(world, board.tracker, board.acceptance, world.health)
          /\ board.tracker = Tracker(world)
      BY <2>1, ReportFields DEF Fresh
    <3> QED  BY <2>1, <3>1, <3>2, ProductionIsTimed
  <2>3. /\ board.training = TrainingDecision(world, board.acceptance)
        /\ board.batch = BatchReview(board.acceptance, board.training)
    BY <2>1, ReportFields DEF Fresh
  <2>4. board.blockers # {} <=> board.handoff = "repair_docker_engine"
    <3>1. /\ board.blockers = RuntimeBlockers(board.watchdog)
          /\ board.handoff = Handoff(world, board.watchdog, board.goal, board.delivery,
                                     board.coverage)
      BY <2>1, ReportFields DEF Fresh
    <3>2. board.blockers # {} <=> ~board.watchdog.docker
      BY <3>1 DEF RuntimeBlockers
    <3> QED  BY <3>1, <3>2, DockerFirst
  <2> QED  BY <2>2, <2>3, <2>4, TrainingAgrees DEF ReportsAgree
<1>2. ASSUME BoardInv, Settled, ~lap.full
      PROVE  ReportsAgree
  <2>1. /\ board.training = TrainingDecision(world, board.acceptance)
        /\ board.batch = BatchReview(board.acceptance, board.training)
        /\ board.blockers # {} /\ board.handoff = "repair_docker_engine"
    BY <1>2, DegradedRefreshIsBlocked DEF Blocked
  <2> QED  BY <1>2, <2>1, TrainingAgrees DEF ReportsAgree
<1>3. BoardInv => ReportsAgree
  BY <1>1, <1>2 DEF ReportsAgree
<1> QED  BY <1>3, BoardInvInit, BoardInvStep, PTL DEF BoardSpec

-----------------------------------------------------------------------------
(* The gate                                                                *)

LEMMA RowStatus ==
    ASSUME NEW r, NEW d
    PROVE  LectureAcceptance(r, d).status = AcceptanceStatus(r, d, BoardMissing(r, d))
BY DEF LectureAcceptance

(* An acceptance changes the table in one place, from waiting to accepted. *)
LEMMA AcceptanceChangesOne ==
    ASSUME NEW rows, NEW ds \in [Lectures -> Dir], NEW l \in Lectures,
           AcceptanceTable(rows, ds)[l].status = "awaiting_human_acceptance",
           NEW acc, acc = AcceptanceTable(rows, [ds EXCEPT ![l].manifest.accepted = TRUE])
    PROVE  /\ \A k \in Lectures : k # l => acc[k] = AcceptanceTable(rows, ds)[k]
           /\ acc[l].status = "accepted"
<1> DEFINE m == [ds[l].manifest EXCEPT !.accepted = TRUE]
           d == [ds[l] EXCEPT !.manifest = m]
           es == [ds EXCEPT ![l] = d]
           r == rows[l]
<1>1. [ds EXCEPT ![l].manifest.accepted = TRUE] = es
  OBVIOUS
<1>2. ds[l] \in Dir /\ ds[l].manifest \in Manifest
  BY DEF Dir
<1>3. /\ d.asr = ds[l].asr /\ d.fit = ds[l].fit /\ d.pack = ds[l].pack /\ d.prov = ds[l].prov
      /\ d.manifest = m /\ m.accepted /\ m.episode = ds[l].manifest.episode
  BY <1>2 DEF Dir, Manifest
<1>4. es[l] = d /\ \A k \in Lectures : k # l => es[k] = ds[k]
  OBVIOUS
<1>5. acc = [k \in Lectures |-> LectureAcceptance(rows[k], es[k])]
  BY <1>1 DEF AcceptanceTable
<1>6. \A k \in Lectures : AcceptanceTable(rows, ds)[k] = LectureAcceptance(rows[k], ds[k])
  BY DEF AcceptanceTable
<1> HIDE DEF m, d, es, r
<1>7. BoardMissing(r, d) = BoardMissing(r, ds[l])
  BY <1>3 DEF BoardMissing, ManifestOnBoard, NoManifest
<1>8. AcceptanceStatus(r, d, BoardMissing(r, d)) = "accepted"
  <2>1. AcceptanceStatus(r, ds[l], BoardMissing(r, ds[l])) = "awaiting_human_acceptance"
    BY <1>6, RowStatus DEF r
  <2>2. r.status # "not_started" /\ ~LatestIncomplete(r) /\ BoardMissing(r, ds[l]) = {}
    BY <2>1 DEF AcceptanceStatus
  <2> QED  BY <1>3, <1>7, <2>2 DEF AcceptanceStatus, ManifestOnBoard
<1>9. acc[l].status = "accepted"
  <2>1. acc[l] = LectureAcceptance(r, d)
    BY <1>4, <1>5 DEF r
  <2>2. LectureAcceptance(r, d).status = "accepted"
    BY <1>8, RowStatus
  <2> QED  BY <2>1, <2>2
<1> QED  BY <1>4, <1>5, <1>6, <1>9

(* GateMeansStart: what the acceptance gate passes starts the next lecture *)
(* once it is accepted, whatever dry runs the gate believed.               *)
THEOREM PassedGateStarts == BoardSpec => []GateMeansStart
<1>1. ASSUME BoardInv, Settled, lap.full, board.gate.status = "pass"
      PROVE  GateMeansStart
  <2> DEFINE l == board.gate.lecture
             t == Tracker(world)
             rows == BuildTracker(world.source, world.eps)
             old == AcceptanceTable(rows, world.dirs)
             ds == [world.dirs EXCEPT ![l].manifest.accepted = TRUE]
             acc == AcceptanceTable(rows, ds)
             waiting == InStatus(old, {"awaiting_human_acceptance"})
  <2>1. Fresh(Reports(world), board, 15) /\ Typed(world)
    BY <1>1, FullRefreshIsFresh DEF BoardInv
  <2>2. board.gate = AcceptanceGate(world, t, old)
    <3>1. t.rows = rows
      BY DEF Tracker
    <3> QED  BY <2>1, <3>1, ReportFields DEF Acceptance, Fresh
  <2>3. l = First(waiting) /\ l # 0 /\ l + 1 \in Lectures /\ rows[l + 1].status = "not_started"
    <3>1. t.rows = rows
      BY DEF Tracker
    <3> HIDE DEF t, old, rows
    <3> QED  BY <1>1, <2>2, <3>1 DEF AcceptanceGate, NextIsUntouched
  <2> HIDE DEF l
  <2>4. l \in Lectures /\ old[l].status = "awaiting_human_acceptance"
    BY <2>3, FirstIsMember DEF InStatus
  <2> SUFFICES ASSUME world.source[l + 1] # "empty",
                      \A k \in 1..(l - 1) : acc[k].status = "accepted"
               PROVE  DecideNextAction(rows, acc, world.fin, world.gate)
                        = [status |-> "ready_to_start", lecture |-> l + 1]
    BY DEF GateMeansStart, l
  <2>5. acc[l].status = "accepted" /\ acc[l + 1].status = "not_started"
    <3>1. old[l + 1].status = "not_started"
      <4>1. old[l + 1] = LectureAcceptance(rows[l + 1], world.dirs[l + 1])
        BY <2>3 DEF AcceptanceTable
      <4> HIDE DEF rows, old
      <4> QED  BY <2>3, <4>1 DEF LectureAcceptance, AcceptanceStatus
    <3>2. l # l + 1 /\ world.dirs \in [Lectures -> Dir]
      BY <2>1, <2>4 DEF Lectures, Typed
    <3> HIDE DEF rows
    <3> QED  BY <2>3, <2>4, <3>1, <3>2, AcceptanceChangesOne
  <2>6. SourceReady(rows[l + 1])
    <3>1. /\ rows[l + 1].status = ClassifyLecture(world.source[l + 1], world.eps, l + 1)
          /\ rows[l + 1].source = world.source[l + 1]
      BY <2>3 DEF BuildTracker, TrackerRow
    <3>2. world.source[l + 1] \in SourceStates
      BY <2>1, <2>3 DEF Typed
    <3>3. world.source[l + 1] # "missing"
      BY <2>3, <3>1 DEF ClassifyLecture
    <3> QED  BY <3>1, <3>2, <3>3 DEF SourceStates, SourceReady
  <2> DEFINE open == {k \in Lectures : acc[k].status # "accepted"}
  <2>7. open # {} /\ l + 1 = Min(open)
    <3> HIDE DEF acc
    <3>1. l + 1 \in open /\ \A k \in open : k >= l + 1
      <4>1. l + 1 \in open
        BY <2>3, <2>5
      <4>2. ASSUME NEW k \in Lectures, acc[k].status # "accepted" PROVE k >= l + 1
        <5>1. k # l /\ k \notin 1..(l - 1)
          BY <2>5, <4>2
        <5> QED  BY <2>4, <5>1 DEF Lectures
      <4> QED  BY <4>1, <4>2
    <3>2. open \in SUBSET Nat
      BY DEF Lectures
    <3> HIDE DEF open
    <3>3. Min(open) \in open /\ Min(open) =< l + 1
      BY <3>1, <3>2, MinIsLeast
    <3>4. l \in Nat /\ Min(open) \in Nat /\ Min(open) >= l + 1
      <4>1. l \in Nat
        BY <2>4, BoardAssumption DEF Lectures
      <4> QED  BY <3>1, <3>2, <3>3, <4>1, Zenon
    <3>5. \A m \in Nat : m >= l + 1 /\ m =< l + 1 => m = l + 1
      BY <3>4
    <3> QED  BY <3>1, <3>3, <3>4, <3>5
  <2>8. ~(l + 1 = 1 /\ ~world.gate)
    BY <2>4 DEF Lectures
  <2> HIDE DEF acc, rows
  <2> QED  BY <2>5, <2>6, <2>7, <2>8, DecisionStarts DEF AcceptanceStatuses
<1>2. BoardInv => GateMeansStart
  BY <1>1 DEF GateMeansStart
<1> QED  BY <1>2, BoardInvInit, BoardInvStep, PTL DEF BoardSpec

================================================================================
