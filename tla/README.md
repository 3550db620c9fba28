# HoloDub verification project

HoloDub dubs videos: a job walks through the stages media, separate, asr_smart,
segment_review, translate, tts_duration and merge. Go workers take tasks from
Redis, keep the job rows in PostgreSQL and call a Python service for the models.
Around a long course of lectures, Python tools start the next lecture, audit and
publish a finished one, and record what a reviewer decides.
This directory holds TLA+ models of the control plane, of the Python service and
of those tools, the TLC runs that check them on small instances, and TLAPS proofs
of the properties that matter most.

| file | content |
| --- | --- |
| `HoloTypes.tla` | stage order, statuses of a job row, terminal and parked statuses (`internal/models/models.go`) |
| `JobPipeline.tla` | workers, task queues, stage leases, job rows and user requests (`internal/pipeline/pipeline.go`, `internal/queue/queue.go`, `cmd/worker/main.go`) |
| `StageLock.tla` | the abstract lock that the stage leases promise |
| `JobPipelineProofs.tla` | theorems about `JobPipeline`: leases, stranded jobs, what a job's outcome rests on |
| `EpisodeFlow.tla` | one episode: glossary, chapterize, fan-out, fan-in, final video (`stage_glossary_extract.go`, `stage_chapterize.go`, `stage_episode_merge.go`) |
| `EpisodeFlowProofs.tla` | theorems about `EpisodeFlow` |
| `TtsLoader.tla` | the load state machine of the inline TTS model, its warm-up thread and watchdog (`ml_service/app/adapters/tts.py`, `main.py`) |
| `ModelRegistry.tla` | the LRU registry of the other models with its per-key locks (`services/model_registry.py`) |
| `MlService.tla` | the process that composes the two with the permits and the routes (`main.py`, `routes/`, `services/gpu_guard.py`) |
| `MlServiceProofs.tla` | theorems about `MlService` |
| `TtsBudget.tla` | token budget, feedback, duration control and chunks of one synthesis (`adapters/tts.py`) |
| `TtsSharing.tla` | the cached reference clip and the adapter switch that requests share (`adapters/tts.py`, `indextts2_lora.py`) |
| `Sums.tla` | the sum of a sequence, for the two modules below that count characters and tokens |
| `SplitPlan.tla` | the split planner of LoRA candidates (`services/lora_candidate_split.py`) |
| `LoraCandidate.tla` | one request of the LoRA candidate service: generation, gates, rescue, choice (`services/lora_candidate.py`) |
| `SplitPlanProofs.tla` | lemmas about sums, folds and flattened sequences, and with them about the split planner |
| `TtsProofs.tla` | theorems about `TtsSharing`, `TtsBudget` and `LoraCandidate` |
| `CourseStatus.tla` | tracker, acceptance status and next action of the course (`tools/mit6824_course_tracker.py`, `mit6824_acceptance_status.py`, `mit6824_course_advance.py`) |
| `CourseControl.tla` | the processes that share those files: watchers, finalizers, accept and block tools (`tools/mit6824_*.py`) |
| `CourseProofs.tla` | theorems about `CourseControl` |
| `CandidatePolicy.tla` | which segments get LoRA candidates, by the pipeline and by the monitor (`lora_candidate_strategy.go`, `tools/lora_episode_candidate_monitor.py`) |
| `ShadowAudit.tla` | a LoRA shadow episode from its segments to the review pack (`tools/lora_episode_candidate_*.py`, `lora_final_mix_asr_audit.py`) |
| `ShadowProofs.tla` | theorems about `ShadowAudit` |
| `StageRescue.tla` | the tool that requeues a stage whose worker died, beside the workers (`tools/mit6824_resume_stalled_stage.py`, `pipeline.go`) |
| `CourseBoard.tla` | the status reports of the course and the refresh that writes them in order (`tools/mit6824_status_refresh.py` and the tools it runs) |
| `ToolsProofs.tla` | theorems about `StageRescue` and `CourseBoard` |
| `MC*.tla`, `*.cfg` | the TLC instances |

## Inventory

### The parts, their state and how they interact

| part | state it keeps | operations | talks to |
| --- | --- | --- | --- |
| job API (`internal/http`, `internal/service`) | none of its own | create, start, retry, rerun, confirm-segmentation, retry-asr, cancel | writes job rows, pushes tasks |
| task queue (`internal/queue`) | list, delayed set, dead-letter list, lease keys with TTL, all in Redis | `Enqueue`, `EnqueueWithDelay`, `PopBlocking`, `PromoteDueDelayed`, `EnqueueDeadLetter`, `Acquire/Refresh/ReleaseStageLease` | everybody |
| worker (`cmd/worker`) | the task in its memory | promote, pop, handle; SIGTERM | queue, pipeline |
| pipeline (`internal/pipeline`) | none between calls | `HandleTask`, the stages, `handleStageFailure`, `EnqueueStage` | store, queue, ML service |
| job rows (`internal/store`, `internal/models`) | status, current stage, stage runs, segments, artefacts | `UpdateJobState`, `SaveJob`, `FinishStageRun`, `RequestJobCancel` | PostgreSQL |
| episode (`stage_chapterize.go`, `stage_episode_merge.go`, `stage_glossary_extract.go`) | episode row, chapters, final video on disk | glossary, chapterize, fan-out, merge, completion and failure shortcuts | tasks without lease and without retry |
| TTS stage and segment agent (`stage_tts.go`, `stage_tts_agent.go`, `internal/agents`) | segments, attempts | parallel synthesis, cancel gate, lease refresh, Decide loop | ML service, LLM |
| rework engine (`internal/rework`) | attempt history, cost so far | verdict to action, caps, dispatch | pipeline retries |
| segment store (`internal/store`) | segments, ordinals, JSON metadata | replace, merge, split, renumber, metadata update | API and stages |
| chapterize (`internal/chapterize`) | none (pure) | candidates, optimal cuts, hard limits, plan validation | episode stage |
| ML service (`ml_service/app`) | the TTS model and its status, the LRU registry, the permits, the cached reference clip, the adapter switch | synthesize, separate, transcribe, LoRA candidates, load and unload | models; called by the stages |
| course tools (`tools/mit6824_*.py`) | episode table, tracker, acceptance table, finalizer status and one directory of artifacts per lecture, all files | refresh, advance, start, finalize, accept, record blockers | each other through files; the job API |
| LoRA shadow tools (`tools/lora_episode_candidate_*.py`, `lora_final_mix_asr_audit.py`) | one run directory: audio, recognised rows, report, review pack, status | monitor, audit, finalize, auto-finalize | read job rows; a batch process in the ML container |
| rescue tool (`tools/mit6824_resume_stalled_stage.py`) | none between runs | six reads, a decision, one transaction, one push | job rows and queue, through docker |
| status board (`tools/mit6824_status_refresh.py` and a dozen report tools) | one report per tool, files | refresh, degraded refresh without docker | each other's reports; the course files |
| LLM, ML client, media, storage, webhooks | none shared | HTTP, ffmpeg, paths | - |

### What makes it hard

* Row and queue are two systems: every transition is an UPDATE and a push, with a
  gap another process, a crash or a disconnecting client can fall into.
* BLPOP removes a task before it is handled. Only the leases, the delayed set and
  the dead-letter list say what became of it.
* A lease has a fixed TTL and its release is an unconditional DEL.
* The row is overwritten by whoever writes last: `UpdateJobState` has no
  condition, and two stages save every column they read when they started.
* Decisions are made on rows read earlier: the cancellation check, the check
  whether a stage parked the job, the chapter row of `resumeChapter1IfWaiting`.
* Delayed tasks are promoted by a read and a move in two calls, by every worker.
* Episode tasks have neither lease nor retry, and several are in flight at once.

* The ML service is one process with a thread per request: a model is loaded,
  released and declared failed by different threads, one clip and one adapter
  switch are shared by requests that know nothing of each other.
* The course tools are processes that know each other by files they rewrite whole:
  a pass decides on a table another tool is about to replace, and a finalizer
  works for many minutes on what it read when it started.
* The shadow tools resume in a directory that earlier runs, other episodes and a
  batch process whose client is gone have written to.
* The rescue tool decides on six reads in calls of their own, of which some read
  "nothing" when they fail, while the worker that seemed dead may go on.
* The status tools read each other's reports in the order of a list; one that fails
  leaves its old report for those after it.

The hazards in `PROJECT.json` name the lines and the properties that watch them.

### What makes each part correct

* Queue and leases: one worker per job and stage; a lease disappears with its
  holder; a task that was taken is passed on, settled or buried.
* Pipeline: a busy job has a task; a failed job has a dead letter; auto-advance
  skips no stage; completed means completed; cancelled stays cancelled; jobs under
  review wait for a human; retries end.
* Episode: every chapter of a plan is created and dispatched; the last chapter to
  complete triggers the merge; a completed episode has its video; the video is
  whole and shows the latest version of every chapter.
* Rework: attempts and cost stay within their caps under concurrent verdicts.
* Segments: ordinals stay dense, edits are not lost, a cancelled or failing TTS
  stage does not lose finished work silently.
* Chapterize: the cuts cover the video and respect the limits they announce.
* ML service: a model is loaded once; whoever waits for one is answered; a request
  gets the voice, the clip and the adapter it asked for; its audio fits its slot; a
  candidate ships only when it passed the gates and nothing better did.
* Course: lectures start in order; an accepted lecture is complete; an acceptance
  starts the next lecture; a completed episode is published.
* LoRA shadows: a report is about its own episode; what is worrying reaches the
  reviewer; the monitor expects what the pipeline plans; auto-finalize ends.
* Rescue: it never brings a second worker into a stage; a stranded stage gets a worker.
* Status board: after a refresh in which nothing moved no report is older than the
  world; a gate that passes means what it says; tools with rules of their own agree.

## Module JobPipeline

### How it corresponds to the code

A worker's `pc` names the database or Redis call it makes next; local computation
belongs to the step before. The labels in order: `idle` (promote or pop),
`promote`, `load` (GetJob), `expire`, `cancel`, `acquire` (SET NX), `mark`
(running), `begin` and `run` (the stage), then on success `finish`, `complete` or
`refresh`, `advance`, `push`, and on failure `failed`, `settle`, `backoff` or
`bury`; both end in `release`, the deferred release of the lease. The parts of
`handleStageFailure` are `SettleCancelled`, `SettleRetry`, `SettleFinal`,
`Backoff` and `Bury`; `EnqueueStage` is two steps in a worker (`Advance`,
`PushNext`) and in a request (`WriteQueued`, `PushTask`).

* `status`, `stage` are the two columns of the job row that requests and workers
  fight over; `done` is the set of stages with a completed stage run; `local` is
  the row that `runSeparate` and `runMerge` keep and save, or the final status a
  failing task is going to write.
* `ready`, `delayed`, `dead`, `lease` are the Redis keys. `delayed` is a set: a
  member of the sorted set is its payload. When a delayed task is due depends on
  clocks, so any member may be.
* A stage itself is one step: it succeeds, parks the job, saves the row, or
  fails, also by its timeout. `CancelGate` and `RefreshLease` are what
  `runTTSDuration` does to shared state while it runs.
* `req` is the progress of a request. Its checks and its first write are separate,
  because the code reads the row in one statement and writes it in another.
* `by` in a task tells auto-advance from requests (`RequestedBy`, `Reason`).
* `lost` is a history variable: the jobs whose task went down with a process.
* A `Crash` keeps the lease key; a `Shutdown` releases it, because the release has
  a context of its own; `AbortRequest` is a client that disconnects, whose
  context the handler uses, or an API process that stops.

### Bounds

`MaxRetries` is the code's own limit. The bounds of the model are `MaxFailures`
(failing stage executions), `MaxCrashes` (crashes and aborted requests),
`MaxShutdowns`, the set `Request` (each request is made once), and `MaxReady`: no
promotion starts while the list is that long, which keeps a repeated duplicate
promotion from growing the queue.

Nothing is assumed of the TTL: `LeaseExpires` may drop a key at any moment, also under a
worker that is inside, since the shipped settings let a stage run for 14400 s on a lease of
1800 s that one stage only renews. `overrun` is the history of the keys that did. While a key is in it, several
workers may be inside together and delete each other's keys; the key leaves it when the last
of them is out, or when a tts_duration worker that is alone inside sets it again. `StageExclusion` says that this is the
only way two workers meet in a stage, and `ImplementsStageLock` that the leases are a lock
which such an expiry opens and the last worker out closes again (`StageLock`, `open`). The
run `lease_runs_out` shows that the promise without the exception (`MutualExclusion`) does not hold.

### Runs

| run | instance | what it shows |
| --- | --- | --- |
| `pipeline_crash` | 2 workers, 2 requests (retry of merge, cancel), 2 failures, 1 crash, 1 shutdown; leases that may run out at any moment | types; `StageExclusion`, `NoLeakedLease` and the refinement `ImplementsStageLock`; `NoStrandedJob`; `FailureIsBuried`; `CompletedMeansDone` |
| `pipeline_liveness` | 1 worker, 2 requests out of start, retry, resume, cancel; long video, 1 failure, 1 crash | `JobSettles`, `CancelSettles`, `QueueDrains`; `AdvanceFollowsCompletion` |
| `lease_runs_out` (violation) | 2 workers, 1 retry of merge, nothing fails | two workers execute one stage of one job |
| `cancel_lost` (violation) | 1 cancel request among others | a cancel request is overwritten |
| `shutdown_strands` (violation) | 1 shutdown | the job in flight is left without a task |

Two workers are enough for the interleavings of interest: every conflict in the
code is between one worker and one other process. Requests are few, but each is
free to come at any moment and to be aborted between its calls. Jobs share nothing
but the list, so one job is checked; what holds for any number is proved.
`merge` is the retried stage of the first run because it has every kind of write:
running, SaveJob, completed and failed.

### Fairness

`FairSpec` assumes that a worker which can make a call eventually makes it
(`WF` on the worker's loop; the worker is a `for` loop and its calls return),
that an accepted request makes its two calls, and that Redis expires keys. It does
not assume that anybody asks for anything, that a stage fails, that a deadline
passes or that a worker crashes. `RefreshLease` is not part of the loop's
fairness: it brings a stage no closer to its end.
The liveness run has one worker, as in `docker-compose.yml`. With two, both may
read the same due member again and again and promote it twice each time; nothing
but chance ends that, so `QueueDrains` is not claimed for two.

## Module EpisodeFlow

One episode with the job rows of its chapters. The chapter pipeline is seen from
the episode: stage "asr" stands for everything up to asr_smart, "dub" for
segment_review to tts_duration. What `JobPipeline` takes apart is put together
here: the lease is the lock of `StageLock`, `EnqueueStage` is one step, a stage
failure is one after the last attempt, and cancellation is left out. Each database
or Redis call of the three episode stages, of the two shortcuts and of
`maybeEnqueueEpisodeMerge` is a step, except that the reads at the start of an
episode stage, and the reassignment of the segments with the update of the total
that follows it, are one step each.

`chapter[c].version` counts how often `runMerge` has written the chapter's video,
and `final` is the version of every chapter in the episode's `final.mp4`, so that
a stale or partial final video can be seen. `UpdateEpisodeStatus` refuses what the
table `Allowed` does not contain, and its callers go on, as in the code.
A merge first removes the old final video (`Concat`), then writes the new one (`WriteFinal`),
then cuts its duration (`Clamp`), which is taken to happen on every merge, and records it. A merge that fails while it
writes leaves nothing or a part of a file (`MergeFails`; `lost` remembers it). The video of an
only chapter is a hard link: when a second merge has linked it in between, the copy that follows the
failed link truncates the chapter's own output (`EmptyOutput`, `emptied`).
The switches `GLOSSARY_ENABLED`, `CHAPTERIZE_ENABLED` and `EPISODE_MERGE_ENABLED`
have their default, on.

| run | instance | what it shows |
| --- | --- | --- |
| `episode_fan` | 2 workers, short and long videos, up to 3 chapters, 1 failing stage, 1 failing episode task, 1 repair | `FanOutReachesAll`, `FanInFires`, `FinalHasEveryChapter`, `CompletedIsPublished` |
| `episode_stuck` (violation) | 1 worker, 1 short video, nothing fails | the episode stays in chaptering after its merge |

Three chapters are the smallest number for which the fan-out loop has a middle,
and two completions may race while a third is pending. Users repair chapters that
are at rest (failed or completed): transcription while there are no segments,
later stages afterwards. Requests that hit a chapter in motion are in
`JobPipeline`. `ShortPlans` are the plans for a short video, whose first chapter is not
parked. The default configuration lets the LLM split it as well: the fan-out then starts while
the first chapter is being dubbed, or after it has been merged. The run has such plans
(three chapters), and the properties state what they break: the final video may be the first
chapter alone (`ShortSplit`), and a first chapter that failed before the split has failed the episode.
`MaxSlips` bounds episode tasks that return an error; nothing retries them, so
the properties about reaching an end excuse them.

## Modules TtsLoader, ModelRegistry, MlService

`TtsLoader` is the state machine behind `ensure_indextts2_loaded`: `status`, the
model handle (`model`), the event waiters sleep on, the place of every thread (`pc`)
and the watchdog. A block under `_state_lock` is one step; the reads of the handle
that the code makes without the lock (the fast path, the `return` after the wait)
are steps of their own. The constructor starts with `BecomeLoader` and ends
with its outcome (`LoadOk`, `LoadFail`), which for the threads in `Hanging` may never come.
`ModelRegistry` is `get_or_load` with its index lock and the lock object of every
key; lock objects have an identity because `evict`, `unload` and `clear` drop them
from the index while a thread may hold or await them. `items` is the `OrderedDict`, oldest entry
first; `Trim` keeps its newest `MaxModels` entries, and 0 is no limit.
`MlService` puts a request in front: it takes a permit of the `GPUGuard` (of which
there is at least one, `max(concurrency, 1)`), calls TTS, separation or recognition, and
lets the admin endpoints and the release before a separation happen beside it.

In the run `tts_request`: two request threads, the warm-up thread and the watchdog, on an
inline TTS host with one and with two permits and on a recognition host with two
registry models and an LRU of one; the warm-up constructor may hang. Two request
threads and the warm-up are the three parties that the second-attempt races need
(one loads, one waits, one has been declared failed). `LoadsAreSound` puts together
that a load in progress has a loader, that there is one loader of the TTS model and
one per registry key; it names the events after which the code gives the latter up
(`forced`, `forgotten`). `SoleUserGetsModel` needs one permit. `RegistryInBounds`: no model
is listed twice, no more than the limit are resident when a step is over, and a listed model
keeps its lock object until somebody forgets it; two threads that load the same key after its
lock was dropped both store their value, so this is not a matter of one method. `Served` and
`LoadingResolves` are the liveness properties.

Fairness: a thread that can take its next step takes it (`WF`), except that a
hanging constructor need not return; a request that waits for a permit or for a
lock others take again and again gets it eventually (`SF`: `threading.Semaphore` and
`Lock` queue their waiters, and the steps between are short); the watchdog's sleep
ends. Nothing is assumed about admin calls and releases.

## Modules TtsBudget, TtsSharing, SplitPlan, LoraCandidate

* `TtsBudget`: one action, `Attempt`, is a whole synthesis attempt: the budget from
  the text with the feedback of the attempts before, the cap by the slot, duration
  control, chunking, the budget of every chunk, and the feedback it leaves behind.
  Durations are integers in milliseconds; the rates keep the code's rounding. A text is
  what the chunker's expression makes of it: pieces that end in a boundary mark, and
  the number of marks it leaves out. No slot is shorter than 0.1 s (`TargetMs`).
* `TtsSharing`: requests hold a permit, find or cut the reference clip (`ffmpeg` into
  one temporary name, then a rename), and turn the adapter on around the parts of
  candidates. A file name refers to an inode, so a half-written clip can be told
  from a whole one; a failing `ffmpeg` and a restart of the service leave files behind.
* `SplitPlan`: the planner as functions on sequences of clauses: where to cut, how
  to merge islands, how much time a part gets, what is flagged as too fast.
* `LoraCandidate`: the loop of `_run_candidates` with its gates, early stops, rescue
  plans and the score that selects; what the recogniser measures is any element
  of `Measurements`. `PlanTable` is the constant under which a run hands the plans of
  its requests to the loop (`SplitPlans` computes them).

The run `tts_request` checks them side by side with the service's threads, since they share no
variable (a behaviour exercises one of the four): texts on both sides of every threshold of the chunker with up to two attempts;
three requests, two of them with candidates, under one permit with one restart;
four candidate requests (short, rescued, rescued with one family, impossible) with
five kinds of measurement. `adapter_shared` and `clip_shared` (violations) give `TtsSharing` the
two permits that `.env.production.example` ships. `ClipIsWhole` and `AdapterFollowsCall` hold with one.
`BudgetIsSane` says that feedback never collapses the budget, that the calls speak the text
but for the marks that chunking drops, and that they stay in the slot; the last part leaves out headroom, timing groups and duration control because
each of them raises the budget above the slot by design. `ShipsTheBest` says that what
is written passed the gates and that nothing that passed was clearly better;
`PlansFillTheSlot` that a plan speaks the whole text in the target duration.

## Modules CourseStatus and CourseControl

`CourseStatus` holds what the tools compute: `LectureState`, the acceptance table,
`DecideNextAction` and the preview of an acceptance, as operators on the files.
`CourseControl` holds the processes: the auto-advance watcher of the first lecture,
course_advance as a watcher and inside the accept tool, finalizers in slots, and the
reviewer with the accept and record-blockers tools. Every process has a step per
file or table it reads or writes; a refresh that fails leaves the old tables and the
pass goes on, as in the code. `faults` counts failed refreshes, POSTs, audits and
finalizers that die.

| run | instance | what it shows |
| --- | --- | --- |
| `course` | 2 lectures, 3 episodes, 1 finalizer slot, 1 review, 1 fault; the second source arrives later | `StartsInOrder`, `AcceptedIsComplete`, `PreviewMatchesDecision`; `AcceptanceStartsNext`, `FinalizerDelivers` |

Two lectures are enough for "the lecture before" and "the next lecture"; a third
episode is a second attempt at one of them, by the operator or by two advancers that start from
the same stale tracker, so that a completed and a newer attempt exist together. The
bound leaves every lecture its first episode. Once something has failed, `MCSpec`
keeps to two episodes: the product of both is beyond the time of a run.
`AcceptanceStartsNext` excepts what such a newer attempt hides (`Reattempted`).
Fairness: a finalizer that is running makes its steps, and the pass that the accept
tool started ends; the watchers, the reviewer and the episodes are free to stop.

## Modules CandidatePolicy and ShadowAudit

`CandidatePolicy` states the eligibility rules twice, as the Go strategy and as the
monitor have them; a text is the sequence of the marks the two look for. The pipeline plans a
request on the text it is going to speak, with numbers and labels spelt out, and stores a plan
made on the text it displays, which is the one the monitor reads: a segment has both, and one
of the run's segments has them on different sides of a threshold. Candidates are requested and executed
as in `docker-compose.lora-shadow.yml`.
`ShadowAudit` follows the tools that share one run directory: auto-finalize polls the
finalize attempt, which runs the monitor, waits until the episode is merged, extracts
the final mix, has every segment of it transcribed by a batch process in the ML
container, repairs bad rows in chunks, and builds the review pack. `auto.pc` names the
tool that runs; a step is one file or process boundary. `files.raw` and `files.rest` are
the result files a resumed audit merges; `orphan` is a batch process whose docker
client is gone and which goes on writing. What a recogniser hears is free.
`auto.changed` and `haunted` are histories: segments synthesised again after the monitor
read them, and a directory an orphan has written into.

| run | instance | what it shows |
| --- | --- | --- |
| `operator_tools`, shadows | 2 shadows in one directory, 2 starts, 1 rework, 1 fault (failed call, docker timeout, kill) | `ReportIsTheEpisode`, `WindowsDisjoint`, `RisksAreReviewed`, `MonitorMirrorsPolicy`; `AutoFinalizes` |
| `operator_tools`, rescue | 2 workers, 4 stage runs, 2 mishaps (crash, failing stage, failing or hanging call) | `OneWorkerInStage`; `StrandedIsRescued` |
| `operator_tools`, board | 3 lectures, 10 worlds, 2 refreshes, 1 move of the world or failing tool | `HandoffTellsTheTruth`, `GateMeansStart`, `ReportsAgree` |

The three share the run `operator_tools` (0.28 M states): they have nothing to
do with each other, so a behaviour exercises one of them.

The first segment runs through shapes on both sides of every threshold of the policy
and has a slot below the least window; the second is long enough for chunks; the other
shadow has one skipped segment. Two starts are a run and its resume, or two shadows
one after the other.
Fairness: the running process makes its next step or fails; the episode, the
operator and the orphan are free to stop.

## Module StageRescue

One job, one stage of it and the tool an operator runs when its worker seems dead.
Of the worker it keeps what `JobPipeline` has (pop, acquire, mark, stage run, stage,
finish, retry, crash), and adds what the tool looks at: the heartbeat (`row.stale`), the
latest stage run (`run`) and whether the segments are done. `tool` notes after each of
the six reads whether what it read allows a requeue; `execute_requeue` is two steps,
the transaction and the push. A failing PostgreSQL read blocks the tool, a failing
Redis read is taken for an empty queue or no lease, as in the code. `lease.young` says that the key
was set after the tool began to read: a lease of minutes outlives the tool's calls.
`torn` is a history: the transaction failed and the task was pushed all the same.

Two workers and four stage runs allow a crash, a rescue and a retry in one behaviour; two
mishaps are a crash and a failure of the tool, or two crashes.
Fairness: the workers loop, Redis expires keys and promotes, time passes, and the
operator runs the tool again.

## Module CourseBoard

`world` is what the tools look at (sources, episodes, lecture directories, finalizers,
the regression jobs, watchers, docker, the evidence for training), `board` the reports on disk and
`lap` the refresh in progress. Every tool is an operator from the world and the board to its
report; `Stepped` writes one of them, and a refresh is the list `FullSteps`, or
`DegradedSteps` when docker is down. The world may move between any two steps, and a
tool may fail and leave its report. `board.quoted` is the part of the handoff that is taken from
the summary of the refresh before, which the refresh under way writes last. `dryRuns` are the reports of the dry runs made by hand.

Three lectures give a reviewed, a waiting and a next one; the ten worlds are the stages a
course goes through (regression jobs running, done, failed; a lecture in production; a
second attempt; waiting for review; reviewed with and without repeated issues).
One move and two refreshes show a report left over from before the move.

## Findings

A run stands for each of these:

1. `cancel_lost`: a cancel request that arrives after `HandleTask` has loaded the row
   is overwritten by the running status, by auto-advance or by `SaveJob`.
2. `shutdown_strands`: SIGTERM does not drain; it leaves the job queued or running
   without a task.
3. `episode_stuck`: an episode that stays one chapter never leaves chaptering.
4. `adapter_shared`: with two permits the adapter of one request's candidate speaks
   another request's plain segment.
5. `clip_shared`: with two permits two requests write the reference clip into one
   temporary file, and one speaks with a clip that is still being written.
6. `lease_runs_out`: a stage that takes longer than its lease is executed twice at a time.

Observed while modelling, with no run of their own (instances of the modules show
them when the constants are set as said):

* A merge that fails on a completed episode has removed or truncated its video, and
  `markEpisodeFailed` does nothing on a completed episode: it stays completed without one
  (excepted in `CompletedIsPublished`).
* A short video that the LLM splits may keep its first chapter alone as the final video
  (excepted in `FinalHasEveryChapter`).
* Two merges of a one-chapter episode at once may empty the chapter's own output through the
  hard link they share.
* A mark that follows another (the second of "?!") is not spoken when the text is cut into chunks
  (excepted in `BudgetIsSane`).
* Two advancers, or an advancer and the operator, may start a lecture twice from a stale tracker. When the
  older attempt is then accepted, the newer one keeps the lecture "in progress" and the next
  lecture is not started (excepted in `AcceptanceStartsNext`).
* A segment whose request was planned on the spoken text alone is not expected by the monitor, and
  nobody is told when its candidate falls back (excepted in `MonitorMirrorsPolicy`, `RisksAreReviewed`).
* The handoff prints the candidate coverage and the delivery, with the next lecture to
  produce, of the refresh before, beside a next action of this one (excepted in
  `HandoffTellsTheTruth`).
* A cancel request right after the park in segment_review makes `HandleTask` enqueue
  translate, unreviewed (`JobPipeline` with a gated job and a cancel).
* A repaired chapter never reaches the final video of an episode that is already
  completed (`EpisodeFlow` with a repair on a completed episode).
* course_advance spawns a second finalizer for a lecture whose finalizer is in its
  audits: its guard looks for a waiting status, and an audit has none (`CourseControl`
  with two finalizer slots; docs/mit6824-dub-production-plan.md:394).
* With `--resume` the final mix audit counts a row of a failed recognition as done, a
  failed row that a chunk retry improved stays marked as failed, and the rows of a
  mix that was repaired under the same labels are taken over as they are.
* A skipped segment always counts as empty recognition, so an episode with one never
  passes the audit gate.
* A kill between the removal of `remaining_raw` and the merge in `finally` loses what
  was heard.
* A candidate the pipeline escalated to on a retry is not eligible for the monitor: its
  fallback raises no issue.
* A usage error of the finalize tool exits with 2, which auto-finalize takes for
  "still waiting".
* `RequestJobCancel` writes `cancel_requested` on completed and failed jobs as well
  (internal/store/store.go:1281).
* Rescue: two concurrent runs of the tool duplicate the task or flip a live job to
  queued; a requeue whose transaction fails still pushes; a failing Redis reads as an
  empty queue and no lease. A job that is queued but whose task is lost, one whose
  worker died before its stage run was created, and one whose segments are all
  synthesized are refused forever.
* Board: the delivery index offers the start command of the next lecture while an
  earlier one is in progress or blocked. The acceptance gate can never pass for the
  last lecture, and passes when the next source is an empty file although the start is
  then refused. A goal_status whose database query failed reads as no regression
  job, so a degraded delivery index may offer the start while they run. A running
  episode whose source is gone is the production episode of status_refresh and is skipped
  by the timing preflight. candidate_coverage is a third copy of the eligibility rules.
  A step of the refresh that hangs ends the refresh watcher (`run_step` does not catch
  `TimeoutExpired`), and the accept tool gives the whole refresh 120 s after it has
  written the manifest.

## Proofs

`JobPipelineProofs` proves, for any number of workers, jobs and requests, any
bounds and any lease regime (`ConstantsAssumption` only types the constants):

* `TypeCorrect`: `TypeOK`. It is inductive together with `AttemptsLeft`: a worker in
  its backoff has an attempt left, which bounds the counter it increments.
* `LeaseExcludes`: `StageExclusion`, with no assumption on the TTL. The invariant is
  that whoever is inside the leased part has its key in Redis or the key has run out under
  a holder; in the first case a second worker fails its SET NX, and only the holder
  deletes the key.
* `LeaseIsStageLock`: every step is a step of `StageLock` or none, with the holders, the
  orphaned keys and those that have run out as the refinement mapping.
* `LeasesDoNotLeak`: without crashes every lease key has a holder.
* `NoJobIsStranded`: `NoStrandedJob`. The strengthening is about `SettleFinal`: the
  status a failing task has noted is never queued or running. The proof sorts the
  steps: one worker acts and stays responsible, or has settled the job; a task
  moves between worker and queue; a request acts; a process stops and the job
  is lost; all other steps are passive.

Three more rest on one invariant (`OutcomeInv`). Two stages write back the copy of the row
they read at their begin, so what is true of the rows must be true of the copies
(`CopyIsTrue`); a worker behind its stage has recorded the stage's run (`StageRecorded`);
every task the pipeline pushed, also one that is being moved by a promoter or was
requeued, follows a completed stage (`TasksEarned`), and those of requests are signed by
them (`RequestsSigned`).

* `CompletedIsDone`: `CompletedMeansDone`, for a row read, copied and written back late;
* `FailedIsBuried`: `FailureIsBuried`: a failed job has a dead letter, a worker about to
  write it, or a crash that took it;
* `AdvanceIsEarned`: `AdvanceFollowsCompletion`, through requeues, promotions and retries.

`EpisodeFlowProofs` proves, for any number of workers and chapters, any plans and any
bounds (`EpisodeAssumption` types them):

* `CompletedEpisodesArePublished`: `CompletedIsPublished`. The invariant adds what the
  merge relies on between its calls (`Written`): a merge that has written the video, and a
  completed episode, find it on disk (`Published`) unless another merge is about to write it again or a
  failed one has destroyed it, and a merge about to write has read at
  least one chapter (`MergeHasChapters`, which needs that an episode never loses its
  first chapter). A video destroyed has a counted failure, or a worker about to fail its
  duration cut.
* `EpisodeWellFormed`: what the argument rests on: tasks are well formed, a worker holds
  a task of the kind its call is for, and the merge of a chapter is never
  auto-advanced. It does not bound the number of chapters.
* `EpisodeTypeCorrect`: `TypeOK`, which does. Two chapterize tasks at once could each
  append the chapters of a plan, so the bound rests on the one fan-out of `OneFanOut`: it
  starts from one chapter, and its loops stop at the cuts that it has noted (`Within`).
* `FinalIsWhole`: `FinalHasEveryChapter`. One token, a task
  or the worker that handles it, leads from the transcription to the fan-out
  (`OneFanOut`). While it is out, the first chapter of a long video is parked or the
  episode has failed, so no merge starts; a merge that runs has read all chapters
  (`MergeReadsAll`). A short video is not parked: a merge that runs beside its fan-out has
  read the first chapter alone or all of them, since no task is about another one
  before the fan-out is over (`OthersWait`).
* `FanOutIsComplete`: `FanOutReachesAll`. A pending chapter has a task that will reach it,
  or an episode task that failed (`PendingIsDelivered`).
* `FanInIsNotMissed`: `FanInFires`, for plans that split a short video as well. Only
  completing a chapter or giving it its output makes an episode ripe, and both are
  followed by a count of the completed chapters; the count that sees all of them enqueues
  the merge (`MergeIsComing`). A merge that lost its race to another one finds that one's video. After
  the fan-out a failing chapter of several does not fail the episode (`FailsNoMore`), so a ripe episode
  is not over.

`MlServiceProofs` proves, for any finite sets of loaders and registry keys and any
number of permits (`RegistryAssumption`, `ServiceAssumption`):

* `SoleUserIsServed`: `SoleUserGetsModel`. Holders of permits are counted against the permits
  (`GuardHolds`); with at most one permit, a request that has ensured the model is the only
  one inside, and nobody else takes the handle away before it reads it again (`HandleStays`).
* `LoadsAlone`: `LoadsAreSound`. The status `loading` has a thread inside the constructor
  (`LoaderInv`), and the lock object of a registry key is the same for all who wait for it
  or hold it, until it is forgotten (`LocksInv`).
* `RegistryStaysInBounds`: `RegistryInBounds`. The list and the locks are proved together
  (`Listed` beside `LocksInv`): a key that is stored has a lock object because the thread
  that stores it holds one, unless the key was forgotten while it loaded. Removing, moving to
  the end and trimming an injective sequence leave it injective (`WithoutKeeps`,
  `MovedKeeps`, `TrimKeeps`).
* `ServiceTypeCorrect`: `TypeOK`, the place and the event of every thread, the
  watchdog and the registry.

`TtsProofs` proves of `TtsSharing`, for any number of requests and permits (`SharingAssumption`
types them), `SharingTypeCorrect`, and with `GpuConcurrency = 1` `OnePermitKeepsClipsWhole`
(`ClipIsWhole`) and `OnePermitKeepsTheBaseVoice` (`AdapterFollowsCall`). The inductive
invariant says that one request is inside the guard (`Alone`), that whoever writes the
clip owns the temporary file and finds no cached clip (`OwnedFiles`), and that the
switch is on for the part of the request inside and for nothing else
(`SwitchOfTheHolder`), so that what `enabled()` saves and restores is always off. A lemma
gives the inode a writer creates: the files referred to are finitely many.

Of one attempt and of one LoRA request it proves, for any requests and measurements that
`BudgetAssumption`, `RequestAssumption` and `MeasurementAssumption` type:

* `BudgetsAreSane`: `BudgetIsSane`. Between attempts (`BudgetInv`) it is enough to know
  that the calls are those of some feedback, whatever was reported of the audio; the rest is
  about the operators. The finished and the current chunk of the chunker's loop hold what it has
  read, so the calls speak the pieces, and all of the text unless chunks dropped a mark; each call gets its share of the budget rounded down, or
  the 64 tokens of the minimum, and the shares add up to no more than the whole.
* `BudgetTypeCorrect`: `BudgetTypeOK`. An attempt makes a call (`SomethingIsSpoken`) and every
  call gets at least the 64 tokens of the minimum and at most the 4096 of the clamp
  (`CallsBounded`), so the length that is reported back is not negative either.
* `CandidateTypeCorrect`: `CandidateTypeOK`: no rescue beyond the table of strategies, and no
  candidate of a strategy that has not been reached.
* `TheBestCandidateShips`: `ShipsTheBest`. `max()` over candidates with ties finds the first of the
  best, also by the lexicographic key of five numbers, which orders all candidates; before the
  selection nothing has been shipped, and the first candidate is the default (`CandidatesInv`).
* `PlansAlwaysFillTheSlot`: `PlansFillTheSlot`. Every plan tried is one of the table's
  (`PlansInv`), and `SplitPlanProofs` shows of the planner, for every text, duration and option
  set, that every stage of it keeps all characters (`KeepsText`: sentences, clauses, cuts
  inside a clause, packing, splitting again, merging), and that the shares of the parts add up
  (`SplitPlansFill`). That a cut always lies inside the text is the lemma that makes the loop of
  `split_long_run` end (`CutInside`). That no request has
  an empty text (`RequestAssumption`) is what `shouldSkipDubbing` sees to in the Go stage.

The loops and recursive functions behind these modules (`FoldLeft`, `FlattenSeq`, the chunks, the
rounds of splitting) are reasoned about without an induction rule, which would take an operator as
its argument: the set of the lengths for which the claim fails has no least element (`LeastNumber`,
from the well-foundedness of the numbers), and a recursive function is used only after
the table it describes has been shown to exist (`FoldExists`, `FlatExists`, `ChunksExist`, `RoundsExist`).

`CourseProofs` proves, for any number of lectures, episodes and finalizers:

* `CourseTypeCorrect`: `CourseTypeOK`, inductive with `Placed`: a process at work names a
  lecture of the course and an episode of it.
* `LecturesStartInOrder`: `StartsInOrder`. A start is decided in one step on files and
  made in another, so the invariant (`Licensed`) says that no file and no process
  holds an acceptance that nobody gave: the manifests, the acceptance table, and the
  action an advancer is about to take, however old, name only lectures whose
  predecessors were accepted at some time.
* `AcceptedLecturesAreComplete`: `AcceptedIsComplete`. The invariant (`Backed`) covers the
  copy of the manifest the accept tool holds while finalizers rewrite the directory:
  no step of theirs removes an artifact.
* `PreviewIsHonoured`: `PreviewMatchesDecision`. The two decisions read the same files in
  different ways; the proof shows that an acceptance changes one entry of one table, and
  that the first open lecture after it is the next one.

`ShadowProofs` proves of the shadow episodes, for any segments, takes, lengths and texts
(`ShadowAssumption` types them):

* `MonitorMirrors`: `MonitorMirrorsPolicy`, which compares two programs in two languages,
  the Go policy and the Python monitor, on the displayed text and on the spoken one;
* `WindowsStayDisjoint`: `WindowsDisjoint`;
* `ReportIsSound`: `ReportIsTheEpisode`. The invariant follows the audio and the rows of
  recognised text from the mix through the resumable batch to the report: a file is of the
  mix the status names, or of a batch whose container outlived its parent;
* `RisksReachTheReviewer`: `RisksAreReviewed`, an action property, from `RisksKnown`: while the
  shadow is being audited, a worrying segment is among those the monitor reported, or was
  synthesised again since.
* `ShadowTypeCorrect`: `ShadowTypeOK`. Most of it is already in the invariant of
  `ReportIsTheEpisode` (what is in the files and what the processes hold); `RestTypes` has the rest.

`ToolsProofs` proves `RescueKeepsOneWorker` (`OneWorkerInStage`). Of the six reads the tool
makes at different moments the first carries the proof: a row that is running at this
stage means that the stage's one task is with the worker inside or gone
(`RunningMeansInside`), and an old heartbeat that nobody is inside. Then nothing can bring the task
back before the tool pushes it (`SafeMeansLost`). A requeue whose transaction failed and whose push went
through ends the argument (`torn`, excepted by the property). The reads of lease and queues are not
needed for it.

It also proves the three properties of the status board, for any number of lectures
and any worlds to start from (`BoardAssumption` types them). The invariant (`BoardInv`) follows
the refresh under way: as long as nothing moved and nothing failed, the reports that its first
n steps write are those of the present world (`Fresh`), since each tool reads only reports
that are fresh by then or that it writes anew; the second of two such refreshes has the right
summary to quote from (`Kept`); a refresh without docker has the watchdog,
the blockers and the handoff say so (`Blocked`).

* `SettledBoardIsTrue`: `HandoffTellsTheTruth`, from `Fresh` and `Kept` after the last step;
* `PassedGateStarts`: `GateMeansStart`. The gate's own checks of the tracker and the manifest
  suffice but for the two cases the property excepts: the acceptance changes one row of the table, and the first
  lecture that is then not accepted is the next one;
* `SettledReportsAgree`: `ReportsAgree`.

So every invariant and every action property of the passing runs is a theorem, and so is the
type invariant of every component that states one. Only model-checked: liveness (`JobSettles`, `CancelSettles`, `QueueDrains`, `Served`,
`LoadingResolves`, `AcceptanceStartsNext`, `FinalizerDelivers`, `AutoFinalizes`,
`StrandedIsRescued`: `ENABLED` and fairness are beyond the prover). The violations are TLC traces.

## Plan

Done, in this order: `JobPipeline` with `StageLock`; `EpisodeFlow`; the Python service
(`TtsLoader`, `ModelRegistry`, `MlService`); one TTS request (`TtsBudget`, `TtsSharing`,
`SplitPlan`, `LoraCandidate`); the course tools (`CourseStatus`, `CourseControl`); the
shadow episodes (`CandidatePolicy`, `ShadowAudit`); the operator's tools (`StageRescue`,
`CourseBoard`); and the proofs about them.

What remains, by weight:

1. `ReworkEngine`: decide on a history that was read, append the attempt, dispatch;
   concurrent verdicts. Abstract specification: a budget that is never exceeded.
2. `SegmentStore`: merge, split, renumber and replace with their transactions, and
   the metadata read-modify-write.
3. `SegmentSynthesis`: the TTS stage's goroutines, cancel gate and final write.

## Not modelled

Prompts and LLM answers, voice data, ffmpeg command lines, recognisers and voice
activity detection, LoRA training data preparation, webhooks (only the time they
take), metrics, tenancy, rate limiting, migrations and the UI. They are pure
input/output or text, or do not touch the state the properties are about. The offline
experiment tools under `tools/` and `scripts/` measure audio and write reports nothing
else reads. `PROJECT.json` lists each component with the reason.
