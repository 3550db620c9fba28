----------------------------- MODULE CourseBoard -----------------------------
(***************************************************************************)
(* The status board of the course: mit6824_status_refresh.py runs a dozen  *)
(* read-only tools one after the other, each of which writes a report from *)
(* the reports before it and from the world, which may move meanwhile. A   *)
(* tool that fails leaves its old report. The operator acts on the last    *)
(* one, the handoff.                                                       *)
(*                                                                         *)
(* world is what the tools look at, board the reports on disk, and lap the *)
(* refresh that runs or ran last.                                          *)
(***************************************************************************)
EXTENDS CourseStatus, SequencesExt, TLC

CONSTANTS
    InitialWorlds,
    MaxLaps,      \* bound on the refreshes
    MaxMoves      \* bound on moves of the world and failing tools

(* An error is one of a job with segments left to synthesize.              *)
Healths  == {"complete", "running_recent", "running_slow", "stale_needs_diagnosis", "error",
             "no_running_job"}
Watchers == {"v25_watcher", "v25_auto_finalizer", "lecture8_auto_advance",
             "lecture8_finalizer", "status_refresh_watch"}

Episode  == [lecture : Lectures, status : EpisodeStatuses]
Manifest == [episode : Nat, asr : BOOLEAN, pack : BOOLEAN, accepted : BOOLEAN, blocked : BOOLEAN]
Dir      == [asr : Nat, fit : Nat, pack : Nat, prov : Nat, fitStatus : FitStatuses,
             manifest : Manifest]

(* The files and services as far as the proofs go by their types.          *)
Typed(w) ==
    /\ {"source", "eps", "dirs", "health", "docker"} \subseteq DOMAIN w
    /\ w.source \in [Lectures -> SourceStates]
    /\ w.eps \in Seq(Episode)
    /\ w.dirs \in [Lectures -> Dir]
    /\ w.health \in Healths
    /\ w.docker \in BOOLEAN

ASSUME BoardAssumption ==
    /\ NumLectures \in Nat \ {0} /\ MaxLaps \in Nat /\ MaxMoves \in Nat
    /\ \A w \in InitialWorlds : Typed(w)

VARIABLES world, board, lap, moves

boardVars == <<world, board, lap, moves>>

----------------------------------------------------------------------------
(* The reports, each as a function of what its tool reads. Lecture 8 is    *)
(* the first lecture here.                                                 *)

(* mit6824_course_tracker.json holds the episodes as well.                 *)
Tracker(w) == [rows |-> BuildTracker(w.source, w.eps), eps |-> w.eps]

Acceptance(w, tracker) == AcceptanceTable(tracker.rows, w.dirs)

InStatus(acc, statuses) == {l \in Lectures : acc[l].status \in statuses}

(* A set's least lecture, 0 for none.                                      *)
First(S) == IF S = {} THEN 0 ELSE Min(S)

Reviewed(acc) == InStatus(acc, {"accepted", "review_blocked"})

MinReviewed == 2
MinRepeat   == 2
MinCount    == 3
GoldFloor   == 30
BatchSize   == 3

(* lecture_issues: the families of a lecture's issues. The rows of the ASR *)
(* report count only when there is no risk queue.                          *)
LectureIssues(evidence) ==
    (IF evidence.risk = <<>> THEN evidence.asr ELSE evidence.risk) \o evidence.other

StrongFamilies(issues, lectures) ==
    LET times(l, f) == Len(SelectSeq(issues[l], LAMBDA g : g = f))
    IN  {f \in UNION {ToSet(issues[l]) : l \in lectures} :
            /\ MapThenSumSet(LAMBDA l : times(l, f), lectures) >= MinCount
            /\ Cardinality({l \in lectures : times(l, f) > 0}) >= MinRepeat}

TrainingReadiness(reviewed, strong, gold) ==
    IF Cardinality(reviewed) < MinReviewed THEN "insufficient_cross_lecture_evidence"
    ELSE IF strong = {} THEN "collect_more_evidence_or_fix_with_rules_candidates"
    ELSE IF gold < GoldFloor THEN "insufficient_human_approved_audio"
    ELSE "course_adapter_feasibility_review"

TrainingRecommendation(reviewed, strong, gold, signal) ==
    IF signal THEN "start_lecture_local_duration_prosody_lora_experiment"
    ELSE IF Cardinality(reviewed) < MinReviewed
         THEN "do_not_train_insufficient_cross_lecture_evidence"
    ELSE IF strong # {} /\ gold < GoldFloor THEN "do_not_train_collect_human_approved_audio"
    ELSE IF strong # {} THEN "consider_course_level_adapter_training"
    ELSE "do_not_train_use_rules_candidates_and_collect_more_evidence"

(* Approved audio of the accepted lectures.                                *)
GoldMinutes(w, acceptance) ==
    MapThenSumSet(LAMBDA l : w.evidence[l].minutes, InStatus(acceptance, {"accepted"}))

TrainingDecision(w, acceptance) ==
    LET reviewed == Reviewed(acceptance)
        issues == [l \in Lectures |-> LectureIssues(w.evidence[l])]
        strong == StrongFamilies(issues, reviewed)
        gold == GoldMinutes(w, acceptance)
        signal == \E l \in reviewed : w.evidence[l].signal
    IN  [recommendation |-> TrainingRecommendation(reviewed, strong, gold, signal),
         readiness |-> TrainingReadiness(reviewed, strong, gold),
         families |-> {l \in reviewed : issues[l] # <<>>}] \* the lectures that have some

(* select_episode: the latest episode of the first lecture in progress.    *)
SourceTiming(tracker) ==
    LET l == First({k \in Lectures : tracker.rows[k].status = "in_progress"})
    IN  IF l = 0 THEN 0 ELSE tracker.rows[l].latest

CourseAdvance(w, tracker, acceptance) ==
    DecideNextAction(tracker.rows, acceptance, w.fin, w.gate)

\* Mutant: the tracker's row of the next lecture is not looked at.
NextIsUntouched_Unchecked(tracker, l) == l + 1 \in Lectures

NextIsUntouched(tracker, l) ==
    l + 1 \in Lectures /\ tracker.rows[l + 1].status = "not_started"

(* build_gate: the first lecture awaiting acceptance, its manifest as it   *)
(* is, and the reports that the dry runs of its acceptance and of the next *)
(* lecture's start have left.                                              *)
AcceptanceGate(w, tracker, acceptance) ==
    LET l == First(InStatus(acceptance, {"awaiting_human_acceptance"}))
        post == w.dryRuns[l].post
    IN  IF l = 0 THEN [status |-> "no_pending_acceptance", lecture |-> 0]
        ELSE [status |->
                IF /\ acceptance[l].ready
                   /\ w.dirs[l].manifest.episode # 0 /\ ~w.dirs[l].manifest.accepted
                   /\ post = [status |-> "ready_to_start", lecture |-> l + 1]
                   /\ w.dryRuns[l].start = l + 1
                   /\ NextIsUntouched(tracker, l)
                THEN "pass" ELSE "fail",
              lecture |-> l]

(* expected_specs: the watchers that the state of the course calls for.    *)
RequiredWatchers(w, tracker, acceptance) ==
    LET started == tracker.rows[1].status # "not_started"
        decided == acceptance[1].status \in
                       {"awaiting_human_acceptance", "accepted", "review_blocked"}
    IN  {"status_refresh_watch"}
        \cup (IF w.gate THEN {} ELSE {"v25_watcher", "v25_auto_finalizer"})
        \cup (IF started THEN {} ELSE {"lecture8_auto_advance"})
        \cup (IF started /\ ~decided THEN {"lecture8_finalizer"} ELSE {})

Watchdog(w, tracker, acceptance) ==
    [missing |-> RequiredWatchers(w, tracker, acceptance) \ w.running, docker |-> w.docker]

RuntimeBlockers(watchdog) == IF watchdog.docker THEN {} ELSE {"docker_engine_unavailable"}

(* next_action of mit6824_goal_status.py. Without the database it knows    *)
(* nothing of the regression jobs. The three diagnoses differ in a suffix  *)
(* that no reader looks at.                                                *)
GoalAction(w, acceptance, health) ==
    CASE health \in {"stale_needs_diagnosis", "error", "no_running_job"} ->
            "diagnose_v25_candidate_regression"
      [] health = "running_slow" -> "monitor_v25_candidate_regression_slow"
      [] health = "running_recent" -> "wait_for_v25_candidate_regression"
      [] health \in {"complete", "none"} ->
            IF w.auto = "waiting_for_finalize"
            THEN "wait_for_v25_finalize_then_auto_start_lecture_8"
            ELSE IF w.fin[1] = "waiting" THEN "wait_for_lecture_8_episode_or_completion"
            ELSE IF InStatus(acceptance, {"awaiting_human_acceptance"}) # {}
            THEN "human_review_ready_lectures"
            ELSE "refresh_tracker_and_continue_next_lecture"

GoalStatus(w, tracker, acceptance, health) ==
    LET in(status) == First({l \in Lectures : tracker.rows[l].status = status})
    IN  [action |-> GoalAction(w, acceptance, health),
         health |-> health,
         frontier |-> IF in("in_progress") # 0 THEN in("in_progress") ELSE in("not_started")]

(* The diagnostics fall back on the last refresh's view of the jobs.       *)
Diagnostics(goal, summary) == IF goal.health = "none" THEN summary.health ELSE goal.health

(* delivery_action: the state of each lecture.                             *)
DeliveryState(acceptance, advance, goal, l) ==
    LET row == acceptance[l]
        next == First(InStatus(acceptance, {"not_started"}))
    IN  CASE row.status = "accepted" -> "done"
          [] row.status = "awaiting_human_acceptance" ->
                IF row.ready THEN "review_ready" ELSE "content_blocked"
          [] row.status = "review_blocked" -> "blocked"
          [] row.status = "missing_acceptance_artifacts" -> "needs_finalization"
          [] row.status = "in_progress" -> "running"
          [] row.status = "not_started" ->
                IF l # next THEN "queued"
                ELSE IF advance.status = "waiting_for_source_preflight" THEN "source_blocked"
                ELSE IF advance.status = "waiting_for_human_acceptance"
                THEN "waiting_previous_acceptance"
                ELSE IF goal.action = "diagnose_v25_candidate_regression"
                THEN "regression_needs_diagnosis"
                ELSE "next_to_start"

DeliveryIndex(acceptance, advance, goal) ==
    [states |-> [l \in Lectures |-> DeliveryState(acceptance, advance, goal, l)],
     advance |-> advance.status]

(* build_review: the families count that trouble the last lectures         *)
(* reviewed, a batch of them.                                              *)
LatestBatch(reviewed) ==
    {l \in reviewed : Cardinality({k \in reviewed : k > l}) < BatchSize}

BatchReview(acceptance, training) ==
    LET reviewed == Reviewed(acceptance)
    IN  IF Cardinality(reviewed) < MinReviewed THEN "not_due_collect_more_reviewed_lectures"
        ELSE IF training.recommendation = "consider_course_level_adapter_training"
        THEN "review_course_level_adapter_training_feasibility"
        ELSE IF training.families \cap LatestBatch(reviewed) # {}
        THEN "repair_rules_candidates_or_review_anchors_then_continue"
        ELSE "continue_next_lectures_with_current_profile"

(* choose_next_action: the first of these that applies.                    *)
Handoff(w, watchdog, goal, delivery, coverage) ==
    LET state(s) == \E l \in Lectures : delivery.states[l] = s
    IN  IF ~watchdog.docker THEN "repair_docker_engine"
        ELSE IF watchdog.missing # {} THEN "repair_watchers"
        ELSE IF w.auto = "regression_freeze_failed" THEN "inspect_regression_freeze"
        ELSE IF w.auto = "ml_service_restart_failed" THEN "repair_ml_service_restart"
        ELSE IF w.auto \in {"start_failed", "blocked_active_run"} THEN "inspect_lecture8_start"
        ELSE IF state("review_ready") THEN "human_review_ready"
        ELSE IF state("content_blocked") THEN "repair_acceptance_content"
        ELSE IF state("source_blocked") \/ delivery.advance = "waiting_for_source_preflight"
        THEN "repair_source_preflight"
        ELSE IF goal.action = "diagnose_v25_candidate_regression" THEN "diagnose_v25_regression"
        ELSE IF goal.action = "monitor_v25_candidate_regression_slow"
        THEN "monitor_v25_regression_slow"
        ELSE IF goal.action = "wait_for_v25_candidate_regression"
        THEN IF coverage THEN "monitor_v25_fallback_risk" ELSE "wait_for_v25"
        ELSE IF goal.action = "wait_for_v25_finalize_then_auto_start_lecture_8"
        THEN "wait_for_v25_finalizer_auto_start"
        ELSE IF w.fin[1] = "waiting" THEN "wait_for_lecture8_completion_or_finalizer"
        ELSE "refresh_and_inspect"

\* Mutant: the lecture that has the latest episode.
CurrentProduction_Latest(tracker) == Len(tracker.eps)

(* current_tracker_episode: the first lecture in progress; one whose       *)
(* latest episode is active counts whatever its row says.                  *)
CurrentProduction(tracker) ==
    LET active(l) == /\ tracker.rows[l].latest # 0
                     /\ tracker.eps[tracker.rows[l].latest].status = "running"
        l == First({k \in Lectures : active(k)})
    IN  IF l = 0 THEN 0 ELSE tracker.rows[l].latest

(* The end of one_refresh: what status_refresh.json says.                  *)
Summary(tracker, goal, coverage, delivery) ==
    [production |-> CurrentProduction(tracker), health |-> goal.health,
     coverage |-> coverage, delivery |-> delivery]

(* build_report of the handoff: the action is chosen from the reports at   *)
(* hand, but the candidate coverage and the delivery (with the next        *)
(* lecture to produce) that it prints beside it are those of               *)
(* status_refresh.json, which the refresh under way has yet to write.      *)
Quoted(summary) == [coverage |-> summary.coverage, delivery |-> summary.delivery]

----------------------------------------------------------------------------
(* build_steps *)

\* Mutant: the watchers are looked at before the course.
FullSteps_WatchdogFirst ==
    <<"watchdog", "course_tracker", "acceptance_status", "training_decision",
      "candidate_coverage", "source_timing_preflight", "course_advance",
      "acceptance_gate_check", "runtime_blockers", "goal_status", "v25_diagnostics",
      "delivery_index", "batch_review", "handoff_report", "summary">>

FullSteps ==
    <<"course_tracker", "acceptance_status", "training_decision", "candidate_coverage",
      "source_timing_preflight", "course_advance", "acceptance_gate_check", "watchdog",
      "runtime_blockers", "goal_status", "v25_diagnostics", "delivery_index",
      "batch_review", "handoff_report", "summary">>

(* Without docker only the tools that read files run.                      *)
DegradedSteps ==
    <<"training_decision", "acceptance_gate_check", "watchdog", "runtime_blockers",
      "goal_status", "delivery_index", "batch_review", "handoff_report", "summary">>

(* The board after one step. full says whether goal_status asks the        *)
(* database. course_advance --refresh reads the tracker and the acceptance *)
(* anew.                                                                   *)
Stepped(step, full, w, b) ==
    LET tracker == Tracker(w)
        acceptance == Acceptance(w, tracker)
    IN  CASE step = "course_tracker" -> [b EXCEPT !.tracker = tracker]
          [] step = "acceptance_status" -> [b EXCEPT !.acceptance = Acceptance(w, b.tracker)]
          [] step = "training_decision" -> [b EXCEPT !.training = TrainingDecision(w, b.acceptance)]
          [] step = "candidate_coverage" -> [b EXCEPT !.coverage = w.pendingFallback]
          [] step = "source_timing_preflight" -> [b EXCEPT !.timing = SourceTiming(b.tracker)]
          [] step = "course_advance" ->
                [b EXCEPT !.tracker = tracker, !.acceptance = acceptance,
                          !.advance = CourseAdvance(w, tracker, acceptance)]
          [] step = "acceptance_gate_check" ->
                [b EXCEPT !.gate = AcceptanceGate(w, b.tracker, b.acceptance)]
          [] step = "watchdog" -> [b EXCEPT !.watchdog = Watchdog(w, b.tracker, b.acceptance)]
          [] step = "runtime_blockers" -> [b EXCEPT !.blockers = RuntimeBlockers(b.watchdog)]
          [] step = "goal_status" ->
                [b EXCEPT !.goal = GoalStatus(w, b.tracker, b.acceptance,
                                              IF full THEN w.health ELSE "none")]
          [] step = "v25_diagnostics" -> [b EXCEPT !.diagnostics = Diagnostics(b.goal, b.summary)]
          [] step = "delivery_index" ->
                [b EXCEPT !.delivery = DeliveryIndex(b.acceptance, b.advance, b.goal)]
          [] step = "batch_review" -> [b EXCEPT !.batch = BatchReview(b.acceptance, b.training)]
          [] step = "handoff_report" ->
                [b EXCEPT !.handoff = Handoff(w, b.watchdog, b.goal, b.delivery, b.coverage),
                          !.quoted = Quoted(b.summary)]
          [] step = "summary" ->
                [b EXCEPT !.summary = Summary(b.tracker, b.goal, b.coverage, b.delivery)]

(* What the reports would say if all were written at once.                 *)
Reports(w) ==
    LET tracker == Tracker(w)
        acceptance == Acceptance(w, tracker)
        training == TrainingDecision(w, acceptance)
        advance == CourseAdvance(w, tracker, acceptance)
        watchdog == Watchdog(w, tracker, acceptance)
        goal == GoalStatus(w, tracker, acceptance, w.health)
        delivery == DeliveryIndex(acceptance, advance, goal)
        summary == Summary(tracker, goal, w.pendingFallback, delivery)
    IN  [tracker |-> tracker, acceptance |-> acceptance, training |-> training,
         coverage |-> w.pendingFallback, timing |-> SourceTiming(tracker), advance |-> advance,
         gate |-> AcceptanceGate(w, tracker, acceptance), watchdog |-> watchdog,
         blockers |-> RuntimeBlockers(watchdog), goal |-> goal,
         diagnostics |-> Diagnostics(goal, summary), delivery |-> delivery,
         batch |-> BatchReview(acceptance, training), summary |-> summary,
         handoff |-> Handoff(w, watchdog, goal, delivery, w.pendingFallback),
         quoted |-> Quoted(summary)]

----------------------------------------------------------------------------
(* The world: the other tools, the pipeline and the operator               *)

Moves == moves < MaxMoves /\ moves' = moves + 1

(* lap.quiet: nothing has moved and nothing failed since the lap began.    *)
(* lap.again: nor since the one before, which was as full.                 *)
Moved(w) ==
    /\ Moves
    /\ world' = w
    /\ lap' = [lap EXCEPT !.quiet = FALSE, !.again = FALSE]
    /\ UNCHANGED board

StartEpisode(l) ==
    /\ ClassifyLecture(world.source[l], world.eps, l) \in {"not_started", "has_stale_attempts",
                                                            "episode_completed"}
    /\ world.docker
    /\ Moved([world EXCEPT !.eps = Append(@, [lecture |-> l, status |-> "running"])])

EndEpisode(i, status) ==
    /\ world.eps[i].status = "running"
    /\ Moved([world EXCEPT !.eps[i].status = status])

(* A finalizer publishes a lecture's artifacts.                            *)
PublishArtifacts(l) ==
    LET e == LatestCompleted(world.eps, l)
    IN  /\ e # 0 /\ world.dirs[l].manifest.episode # e
        /\ \E fit \in FitStatuses :
            Moved([world EXCEPT
                !.dirs[l] = [asr |-> e, fit |-> e, pack |-> e, prov |-> e, fitStatus |-> fit,
                             manifest |-> [NoManifest EXCEPT !.episode = e, !.asr = TRUE,
                                                             !.pack = TRUE]],
                !.fin[l] = "finalized_for_human_review"])

RecordDecision(l, decision) ==
    /\ world.dirs[l].manifest.episode # 0
    /\ ~world.dirs[l].manifest.accepted
    /\ Moved([world EXCEPT !.dirs[l].manifest =
            IF decision = "accept" THEN [@ EXCEPT !.accepted = TRUE]
            ELSE [@ EXCEPT !.blocked = TRUE]])

ChangeSource(l, state) ==
    world.source[l] # state /\ Moved([world EXCEPT !.source[l] = state])

DockerFlips == Moved([world EXCEPT !.docker = ~@])

WatcherFlips(v) ==
    Moved([world EXCEPT !.running = IF v \in @ THEN @ \ {v} ELSE @ \cup {v}])

RegressionMoves(health) ==
    world.health # health /\ Moved([world EXCEPT !.health = health, !.gate = FALSE])

(* A rerun ends or begins to await the fallback of a segment.              *)
FallbackFlips == Moved([world EXCEPT !.pendingFallback = ~@])

WorldMoves ==
    \/ \E l \in Lectures :
        \/ StartEpisode(l) \/ PublishArtifacts(l)
        \/ \E decision \in {"accept", "block"} : RecordDecision(l, decision)
        \/ \E state \in SourceStates : ChangeSource(l, state)
    \/ \E i \in DOMAIN world.eps, status \in {"completed", "failed"} : EndEpisode(i, status)
    \/ \E v \in Watchers : WatcherFlips(v)
    \/ \E health \in Healths : RegressionMoves(health)
    \/ DockerFlips
    \/ FallbackFlips

----------------------------------------------------------------------------
(* one_refresh *)

Begin ==
    /\ lap.todo = <<>> /\ lap.n < MaxLaps
    /\ lap' = [todo |-> IF world.docker THEN FullSteps ELSE DegradedSteps,
               full |-> world.docker, quiet |-> TRUE, again |-> lap.quiet /\ world.docker,
               n |-> lap.n + 1]
    /\ UNCHANGED <<world, board, moves>>

RunStep ==
    /\ lap.todo # <<>>
    /\ board' = Stepped(Head(lap.todo), lap.full, world, board)
    /\ lap' = [lap EXCEPT !.todo = Tail(@)]
    /\ UNCHANGED <<world, moves>>

(* A tool that fails leaves its report; goal_status writes one all the     *)
(* same, as if there were no regression job.                               *)
FailStep ==
    /\ lap.todo # <<>> /\ Head(lap.todo) # "summary"
    /\ board' = IF Head(lap.todo) = "goal_status"
                THEN Stepped("goal_status", FALSE, world, board) ELSE board
    /\ lap' = [lap EXCEPT !.todo = Tail(@), !.quiet = FALSE, !.again = FALSE]
    /\ Moves
    /\ UNCHANGED world

----------------------------------------------------------------------------
(* A refresh has been through before.                                      *)
BoardInit ==
    /\ world \in InitialWorlds
    /\ board = Reports(world)
    /\ lap = [todo |-> <<>>, full |-> TRUE, quiet |-> FALSE, again |-> FALSE, n |-> 0]
    /\ moves = 0

BoardNext == WorldMoves \/ Begin \/ RunStep \/ FailStep

BoardSpec == BoardInit /\ [][BoardNext]_boardVars

----------------------------------------------------------------------------
(* Properties *)

(* A refresh has just ended in which nothing moved and nothing failed.     *)
Settled == lap.quiet /\ lap.todo = <<>>

(* A settled refresh leaves no report that is older than the world, but    *)
(* for what the handoff prints of the refresh before: whatever the tools   *)
(* of earlier refreshes missed, in whichever order its own tools read each *)
(* other's reports. A second such refresh in the same world leaves not     *)
(* even that. Without docker the handoff at least says so.                 *)
HandoffTellsTheTruth ==
    /\ Settled /\ lap.full => board = [Reports(world) EXCEPT !.quoted = board.quoted]
    /\ Settled /\ lap.again => board.quoted = Quoted(board.summary)
    /\ Settled /\ ~lap.full => board.handoff = "repair_docker_engine"

(* When the gate passes for a lecture in a settled refresh with docker up, *)
(* accepting it starts the next lecture, although the dry runs that the    *)
(* gate believes may be old. It takes from them alone that the lectures    *)
(* before are accepted and that the next source is not an empty file.      *)
GateMeansStart ==
    Settled /\ lap.full /\ board.gate.status = "pass" =>
        LET l == board.gate.lecture
            dirs == [world.dirs EXCEPT ![l].manifest.accepted = TRUE]
            rows == BuildTracker(world.source, world.eps)
            acc == AcceptanceTable(rows, dirs)
        IN  \/ world.source[l + 1] = "empty"
            \/ \E k \in 1..(l - 1) : acc[k].status # "accepted"
            \/ DecideNextAction(rows, acc, world.fin, world.gate)
                   = [status |-> "ready_to_start", lecture |-> l + 1]

(* Reports that judge the same thing by rules of their own agree after a   *)
(* settled refresh: which episode is in production, unless its source has  *)
(* gone; whether a course adapter is due; and whether docker is the        *)
(* blocker.                                                                *)
ReportsAgree ==
    Settled =>
        /\ lap.full /\ (\A l \in Lectures : world.source[l] # "missing") =>
            /\ board.summary.production = board.timing
            /\ board.timing # 0 => world.eps[board.timing].lecture = board.goal.frontier
        /\ board.training.recommendation # "start_lecture_local_duration_prosody_lora_experiment" =>
            LET due == board.training.readiness = "course_adapter_feasibility_review"
            IN  /\ due <=> board.training.recommendation = "consider_course_level_adapter_training"
                /\ due <=> board.batch = "review_course_level_adapter_training_feasibility"
        /\ board.blockers # {} <=> board.handoff = "repair_docker_engine"
=============================================================================
